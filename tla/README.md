# TLA+ models of the STM32 HAL

The repository is a hardware abstraction layer in C for STM32F103, STM32G0B1 and
STM32G474: drivers that set up peripherals, and above them a serial port with
ring buffers, a Modbus RTU slave, and a store that keeps a payload in two flash
pages. Most drivers only write registers. The logic that is hard to get right,
and to test, is where interrupt handlers share state with the main program, where
power may fail between two flash operations, and where counters wrap around.
These modules model that logic, check it with TLC on small instances, and prove
the most important results for every value of the parameters with TLAPS.

Paths below are relative to the repository's root as it appears under `src/` here:
`src/src/` holds the code, `src/inc/` the headers, `src/src/ll/<family>/` the
drivers of one family. The models follow the G0 family, the one the Modbus and
store code is used with; where the F103 driver differs in a few statements its
difference is a value of a variable `chip` (`UsartRx`, `PortTiming`), and the external
interrupts exist for the F103 only. `src/src/ll/g474/` is a line-for-line copy of `g0`
but for its guard, `DSTM32G474CEUx`, which nothing defines (`STM32G474CEUx` may be
meant); `src/ST/` is the vendor's.

## Inventory

| Component | State | Operations | Shared with | What makes it correct |
| --- | --- | --- | --- | --- |
| Record store `nvstore_g0.c` | two flash pages of slots; in RAM the active page, the last record's address and sequence number | `NV_Init`, `NV_Load`, `NV_Save` | the flash driver; power may fail at any step | an acknowledged payload is what a restart finds; a failed save is all or nothing; nothing ever blocks it |
| USART transmit `usart_g0.c` | ring, head, tail, CR1 | `USART_WriteByte`, `USART_WriteLine`, TX and TC sections of the handler | main program and handler, on the ring and on CR1 | bytes leave once and in order; never left waiting; the end of transmission is reported when it has ended |
| USART receive `usart_g0.c` | ring, head, tail, error flags | `USART_ReadByte`, `USART_ReadBytes`, `USART_Available`, RX and error sections | main program and handler | bytes are handed over once and in order; an overrun is survived |
| Modbus framing `modbus.c` | `mb_frame`, `mb_active`, `mb_rx_busy`, the T3.5 timer | `MODBUS_RxCallback`, `MODBUS_Timer_IRQHandler`, `MODBUS_Process` | two handlers and the main loop | a frame is one message; it is stable once ready; messages are acted on |
| Modbus requests `modbus.c` | the application's registers, `uart_cfg_update`, the port's configuration | functions 03, 06, 16, exceptions, `MODBUS_TxCallback` | the main loop and the transmit handler | a request is all or nothing; a new configuration is applied after the answer, and never forgotten |
| Commit timer `modbus.c` | `nv_dirty`, two time stamps | `NV_MarkDirty`, `NV_CommitTimerDue` | SysTick | a commit is due in time, across the wrap-around of `millis()` |
| Flash driver `flash_ll_*.c` | FLASH_CR, FLASH_SR, PRIMASK | unlock, lock, erase, program | the store | success means the whole effect; failure may mean any part of it |
| SPI `spi_g0.c` | `busy`, the CS lines, CR1, the FIFOs | `SPI_Transfer` and what is built on it, `SPI_SetMode`, `SPI_SetBaud` | the main program and handlers, on one bus | a transfer has the bus to itself; what it reports is what its own device sent; a failure leaves nothing behind |
| I2C `i2c_g0.c` | the peripheral | register writes and reads, `I2C_Init` with bus recovery | the device on the bus | what is read is what the device sent for this read; every call comes back |
| FDCAN `fdcan.c` | CCCR, the filters, TX and RX FIFO in the message RAM | `FDCAN_Init`, `FDCAN_Send`, `FDCAN_Read` | the controller, on the message RAM | frames pass whole, once and in order; nothing blocks the FIFO |
| Timers, SysTick, clocks `tim_*.c` | `msTicks`, handler table, the RCC's dividers | `TIM_Init`, dispatch, `millis`, `RCC_Get..._Hz` | Modbus, USART, button | clocks are computed as the hardware derives them |
| Port configuration `modbus.c`, `usart_*.c` | the format bits of CR1, STOP, BRR, PSC, ARR | `ReconfigureUARTCFG`, `USART_Init`, `USART_BrrCalc` | the clock tree, the configuration register | format, baud rate and T3.5 are those of the register, whatever was set before |
| EXTI `exti_f103.c` | handler table, EXTI_PR, IMR, RTSR, FTSR | `extiInit`, `extiRegisterHandler`, `extiClearFlag`, dispatch | handlers of the application; lines that share a vector | an edge is kept until its handler is called, two exceptions apart |
| Software I2C `soft_i2c.c`, bus recovery of both I2C drivers | two pins | start, stop, write, read; `I2C_BusRecover`, nine clocks | the device on the wires | bytes cross whole; the bus is free after a stop, and after a recovery that follows a reset |
| Button `button.c` | `is_pressed`, a time stamp | `Button_Init`, `Button_CheckPress` | a contact that bounces, `millis()` | one event for a press, of its kind |
| PWM, DMA, ADC, DAC, GPIO | the peripheral's registers | set-up | | |

Hard behaviours: two contexts on one ring or one register (`CR1 |=` is a load and
a store), a handler between a test and its use (`is_ready`), power loss between
two doublewords, failures reported after the effect, wrap-around of sequence
numbers and of milliseconds, a ring at its limit, a timer that fires while the
byte that would have restarted it waits.

## Modules

`NVStore` is the record store; `DurableRegister` is what it promises, an atomic
register whose saves are all or nothing, and `NVStore_proofs` proves it. `UsartTx`
and `UsartRx` are the two halves of a port; `ByteFifo` is what both promise.
`UsartTx_proofs` and `UsartRx_proofs` prove that, and why the transmit ring cannot
stall. `ModbusRx` is the framing, `ModbusWrite` EXTENDS `UsartTx` with the handling of
requests over it, `ModbusRx_proofs` and `ModbusWrite_proofs` are about them;
`NvCommit` is the commit timer. `SpiBus`, `I2cMaster`,
`Fdcan` and `FlashLL` are the drivers that wait for their hardware, and
`SpiBus_proofs` proves that the SPI bus is had by one transfer at a time, which
receives its own bytes and leaves the bus quiet. `Exti` is
the external interrupts, `SoftI2c` the wires of an I2C bus. `Drivers_proofs` proves what
`I2cMaster`, `FlashLL`, `Exti` and `Fdcan` promise. `Button`, `PortTiming`,
`ModbusRequests` and `Crc16` are the parts that are right or wrong by their
arithmetic; `Numbers_proofs` is about the commit timer, the button, the requests and the timing of
the port. The `MC` modules instantiate them for TLC, `MCDrivers` and `MCNumbers` several
in one run.

### NVStore

`flash` maps each page to its slots, a slot being erased, valid (sequence number
and payload), or junk. `active_page`, `last_addr`, `last_seq` are the static
variables of `nvstore_g0.c`; `pc` says which flash operation comes next. Each call
to the flash driver is one step with its success, its failure and, in `PowerLoss`,
the state a power loss in its midst leaves (`TornFlash`). The scan of a page is a
step for each slot. The checksum accepts exactly what was written whole. The
sequence number has `2 * HalfSeq` values, so it wraps around. Parameter checks
that a valid configuration passes are left out.

A failed operation that has had its effect all the same is a `LateFault`: the tail
of a record or the lock after it may fail with the record in the flash. The
promise holds without late faults. With them it does not: the run `nvstore_tie`. Nor do
they keep the numbers close together: a repeated number, a torn erase that leaves one old
record, and a restart that then takes the old page let one record be overtaken once more,
and after `HalfSeq` rounds of that (2^31 in the code) it counts as the newest. With
three slots and 14 numbers TLC finds such a behaviour of some 110 steps. `Comparable` is the condition the
comment of `sequenceIsNewer` makes, and `InitTakesNewest` and `AtMostOneAhead` are stated
under it; a flash page wears out long before the code can leave it.

### UsartTx and UsartRx

The handler runs to its end once entered (the main program cannot interrupt it),
the main program is interrupted between any two accesses to shared state, and the
hardware goes on by itself. In `UsartTx` the load and the store of
`CR1 |= TXEIE` are two steps, `cr1_read` is the operand between them. `Formats`
stands for the parity and word-length bits, which `USART_Init` changes when the
transmit callback calls it. In `UsartRx` the head and the tail are read at
separate steps by `USART_Available`; `ore` is the overrun flag. The F103 handler clears
it by reading DR, which throws away a byte that has come since the receive section:
one more byte lost in an overrun, none out of order. `USART_ReadBytes` with `max_len` 0 stores its final
zero one byte beyond the buffer (139); nothing in the repository calls it so, and `MaxLens` has no 0.

One timing assumption: a byte just written to TDR is not gone before the last
section of the handler has ended (`LoadShift` waits for `ipc # "tc"`), which
holds at the baud rates in use since that section is a few instructions long.

### ModbusRx

The master sends a fixed list of messages, byte `i` of message `m` being `<<m, i>>`;
the CRC accepts exactly a whole message. `cen`, `uif`, `uie` are the timer's enable,
pending flag and interrupt enable. `prompt` is chosen at the start: when TRUE,
interrupts are served within the time of a byte and the master leaves a silence
between messages; when FALSE anything may be late, and bytes are lost. `clear`
remembers that the receiver was free when the message began. `ArmTimer` is the
application enabling the timer's interrupt: `MODBUS_Init` attaches the handler, but
`TIM_Init` with debounce 0 (modbus.c:91, tim_g0.c:64) clears UIE, no code in the
repository sets it or enables TIM3 in the NVIC, and every reconfiguration clears it
again. Without that step no frame ever becomes ready.

### ModbusWrite

`mpc` is where `MODBUS_Process` is; the answer goes out through `USART_WriteLine`
of `UsartTx`, and the handler's `Complete` calls `MODBUS_TxCallback`. Register 0
holds the port's configuration. `validation_exti_func` and `RegWriteAvailable`
belong to the application: the first refuses the value `Bad` and asks for a
reconfiguration when register 0 is written, the second is the set `Writable`.
Lengths that do not fit a frame are refused before anything else happens and are
not distinguished from other refusals; `ModbusRequests` has them.

`configured` is what `USART_Init` was last called with, `cr1.fmt` what the register holds. They
can part: when the answer leaves between the load and the store of the `|=` of TCIE behind it
(`ReadForTC`, `Complete`, `WriteTC`; modbus.c:288, 365), the store puts the old parity and word
length back, under the new baud rate, until the next reconfiguration. `ConfigApplied` speaks of the call
only. `ReconfiguresAfterAnswer` has the register too: once it holds the
configured format, nothing but that store takes it away, and the `|=` of TXEIE never does.

### ModbusRequests and Crc16

`ModbusRequests` is the arithmetic of the three handlers with the widths of the code
(`U16`, `U8`): one request, one answer. `Legal` says what the protocol allows, and the
handlers must accept exactly that. For a `reg_count` of 32766 and more the length
check `(uint16_t)(3 + 2n + 2)` wraps around and lets a count of 32766 pass: the constants
stay below. `Crc16` writes a byte or a word as the set of its bits; the line disturbs
one burst of bits, or any three. The loop of `MODBUS_CRC16` is a recursive function (`CrcAfter`).
The result is compared with the published check value and the order in which it is sent, too:
a byte order swapped in sending and checking alike would be noticed.

### PortTiming

One action, `ReconfigureUARTCFG`, on a port that may have had any configuration
before, under a clock tree chosen at the start. The functions `RCC_Get..._Hz` are the
code's, shift by shift; `Divisor`, `DataBits`, `Parity` and `Gap_us` are the hardware's
reading of the registers. `TimingRight` states the format and the baud rate for every
clock tree whose prescalers lose nothing of the system clock (`Exact`), and T3.5 for an
undivided APB1 of whole megahertz (`WholeMHz`), as the code's division by a million wants
it: when APB1 is divided the timer runs at twice the frequency the code takes it to have
(run `modbus_timer`). The clock trees of the run meet both conditions.

### NvCommit

`now` is `msTicks`, modulo `2 * Half`. `since_first` and `since_last` are the true
ages the code cannot see. The application saves when a commit is due, at the
latest when the first change is `MaxAge` old.

### Button

`level` is the pin as the code reads it; the contact bounces (`closing`, `opening`) for up to
`Bounce` ms, in which it toggles at will, and the application polls at least every `Gap` ms.
`hold` and `clicks` are history. `Bounce + Gap < debounce_ms` is needed: with equality
a bounce at the end of a press is measured as a click of its own.

### SpiBus

`run[c]` is where a call of context `c` is: `main` is the main program, `isr` a handler
that runs to its end once entered, unless the call it makes is refused. Each access to
`h->busy`, the CS line, the data register and the status register is a step; the
FIFOs, the shift register and `BSY` are the hardware's. A byte a device answers is
`<<device, k>>`, so that a byte of another device or of an earlier transfer is told
from the right one. A wait is two steps, `FlagRead` and `TimeRead`, because the code
reads the flag first and `millis()` after it: the main program can be kept from
running in between, so that it gives up although the flag has come. `Drained` says
that a wait of milliseconds expires only after what was on the line has left. In a handler
waits do not expire: SysTick has the lowest priority (`SysTick_Config`), so `millis()`
stands still unless the application raises it.

`Masked` says that the application keeps the handler away from the bus while it
calls `SPI_SetMode` or `SPI_SetBaud`, which do not take `busy`. With `Masked = FALSE`
`BusFreed` fails: the handler's transfer finds SPE off and waits for ever.
`SPI_Init` and `SPI_DeviceInit` are the initial state.

### I2cMaster

The driver is a sequence of accesses, `pc`, to a peripheral that addresses, sends,
receives and stops by itself; the device may refuse any byte or hold the bus
(`Hang`, `Resume`). The waits count 10000 reads of a flag, more than any byte
takes, so they expire only when the peripheral is `Stuck`. `I2C_BusRecover` and the
reset in `I2C_Init` are taken to free the bus. `clean` remembers that no wait has
expired for a fault since `I2C_Init`. After one, a byte may stay in RXDR, since
`I2C_ClearFlags` does not empty it, and the next read returns it as its first byte, with success
(i2c_g0.c:195); every read after it is late by one as well. `OwnAnswer` says that it is
never more than one byte, that the others are of this read, each once and in order, and that
there is none while `clean` holds. `FailsForCause` lets a call fail without a fault of its own
in two cases: an expired wait has left the bus occupied, or it is an `I2C_Read_Burst`
without a register, which always returns false (260-262). `Delivered` speaks of all writes.
`StopsOnNack` says that the
peripheral ends a transfer without AUTOEND by itself after a NACK; if it does
not, `BUSY` stays set after a NACK of the register's address until `I2C_Init`.
Left out: `I2C_Start` (sets one bit, nothing calls it), BERR, ARLO, OVR and TIMEOUT (one
master, no noise, no SMBus). Bound: a bus is not held a second time once a wait has
expired for it, until `I2C_Init`.

### Fdcan

Two FIFOs in a message RAM; an element is two parts, identifier and data, which the
driver writes and reads one after the other while the controller sends and
receives. `Call`s come from one context: nothing in the repository sends from a
handler, and nothing would protect the put index if it did. The controller may go
off the bus (`BusOff`); the driver has no recovery but `FDCAN_Init`.

### FlashLL

The calls `NVStore` is built on, one register access at a time, with PRIMASK. An
operation may fail before, in or after its effect, which is what justifies the steps of
`NVStore`: `ZeroMeansDone` is why success there is the whole effect, and `Fail` after the
effect, or an error flag that keeps `flash_ll_lock` from locking, is its `LateFault`. `Disturb` is
an error flag left by something else. `ZeroMeansDone` is stated for an unlocked
flash, which the store sees to: `flash_ll_erase_page` on a locked one starts
nothing, finds no error and returns 0.

### Exti

One group of lines with a common vector. `main` and `isr` are program counters with the
line and, in `extiClearFlag`, the value of PR that its load has seen: `EXTI->PR |= bit`
writes ones to all of them and so clears them. `owed` is a ghost: edges on an enabled
line with a handler, not called since. `late` is those whose last edge came while the handler
of their own line was running. Edges are lost in two ways: `extiClearFlag` clears all that it has
loaded, and the dispatch clears a line's bit behind its handler (61), so that an edge during
the handler is forgotten without a call. `EdgesKept` says that every other edge is still
pending on an enabled line, `EdgesServed` that its handler is called. README.md:173-174 of
the repository describes `extiInit` and `extiRegisterHandler` the wrong way round, and
182 says that the ISR calls `extiClearFlag`; it writes PR itself, which is what saves
the edges of the other lines. RTSR and FTSR are only ever added to: a line set up for
the other edge senses both.

### SoftI2c

A call is a list of accesses to the two pins (`ops`, of which `made` are done); a wire is low
when either side pulls it. The device is a state machine on edges of SCL and on START and
STOP, and may acknowledge or refuse, answer with any byte, and be cut off at any
point by `Reset`. `I2C_BusRecover` (G0) and the nine clocks of the F103's `I2C_Init` are calls
on the same wires; nine clocks are Bits + 1.

`I2C_BusRecover` makes outputs of both pins before it writes to them (i2c_g0.c:68-69), so they show
what ODR holds (`Outputs`): 0 after a reset, which pulls SDA and then SCL low, or 1 when it is called
again without one. Both are tried in every state. The zeros are a START, unless the
device holds SDA, and one more clock, and after them the recovery frees the wires wherever the
device was. Without them two cases are left (`Spared`): a device that was acknowledging a byte
counts the nine clocks as one more byte and holds SDA low for its acknowledge, and one that
takes them for its address, the rest being ones, begins to send. `WiresFree` excepts these for
a recovery that finds ones in ODR and for the F103's nine clocks, which touch SCL only. No device
acknowledges an address of ones, which the I2C specification reserves; a device that did would
begin to send after a START and ones. `I2cMaster` takes the recovery to free the
bus, which is true but for `Spared`. Left out: `GPIO_PinMode` writes MODER before OTYPER, so that a
pin is push-pull for a moment.

The application gives a NACK for the last byte, as the protocol asks;
README.md:315 of the repository passes 0 "with NACK", but 0 is an ACK
(soft_i2c.c:77), after which the device may hold SDA low through the STOP.

## Runs

| Run | Shows | Bounds and why they are enough |
| --- | --- | --- |
| `nvstore` | The store implements the durable register, what is acknowledged is durable, with the inductive invariant of the proof (types and `LastIsValid` are parts of it) | 2 slots a page, 2 payloads, sequence modulo 10: a page change every second save, both pages in use, the number wraps |
| `nvstore_late` | With late faults: no dangling address, the last record survives, at most one number behind and the newest record taken as long as the numbers can be compared, and saving succeeds again once faults cease | the same |
| `nvstore_tie` | A save that failed after its commit makes the next save use its number again: the record of an acknowledged save may lose to it | the same; expected violation |
| `usart_tx` | FIFO, no stall, every byte sent, the end reported | ring of 3, lines up to 2 = N - 1: full, wrap-around and the longest line that works; two byte values tell order |
| `usart_tx_stall` | A line as long as the ring stops the port for good | ring of 4; expected violation |
| `usart_rx` | FIFO, `USART_Available`, buffer bound, recovery from overrun | ring of 4, two byte values, one of them the newline, calls for 1, 2 and 4 bytes: less than, and as much as, the ring |
| `modbus_rx` | Frames are cut right and stay stable, the bus does not stay busy, messages are acted on | a usual message, one of FrameSize + 2 whose rest is noise, a shortest one; frames of 2 to 4 bytes |
| `modbus_write` | All or nothing; `USART_Init` is called after the answer, and never forgotten; only the stale store of TCIE brings the old format back | 2 registers, 2 formats, requests of up to 2 registers, ring of 4, answers of 2 and 1 bytes |
| `modbus_read_only` | Function 16 writes exactly the registers declared not writable | expected violation |
| `numbers` | `NvCommit`: a commit is due exactly when it should be; `Button`: a press is one event of its kind; `PortTiming`: format, baud rate, T3.5; `ModbusRequests`: exactly the legal requests pass, and every answer fits; `Crc16`: a burst is found, and any three bits, and the check value goes low byte first | counters of 20 values, started anywhere, debounce 4, long press 9, presses of up to 12 ms, polls 1 or 2 ms apart: all wrap in every phase; 13 clock trees, all speeds and formats, one after any other; counts and lengths at every boundary of the code, its widths included; all bursts of 7 bits and all three bits in two messages |
| `modbus_timer` | With a divided APB1 a tick of the T3.5 timer is not a microsecond | an F103 at 72 MHz; expected violation |
| `drivers` | `SpiBus`: a transfer has the bus to itself and leaves it clean; `I2cMaster`: calls return, and a read is its own but for one byte left behind by an expired wait; `Fdcan`: frames pass in order; `FlashLL`: operations do what they report with handlers kept out; `Exti`: an edge is kept and served, unless `extiClearFlag` clears it or it comes during its handler; `SoftI2c`: bytes cross whole, a STOP and a recovery after a reset free the bus | 2 SPI devices, 2 bytes, FIFO of 4, 2 settings; 2 registers, 2 bytes; 2 frames, FIFOs of 2; 1 page of 2 doublewords, 2 values; 2 lines with one vector; bytes of 3 bits and, to match, recoveries of 4 clocks |

The drivers share no state, and neither do the parts in `MCNumbers`. Both modules choose one
at the start (`driver`, `part`) and move only that one, so that a behaviour is a
behaviour of one component and the states are added, not multiplied; fairness is
conditional on the driver being chosen. Each property in them is the component's own;
`Truthful` (I2C and flash), `WiresRight` (bytes and recovery of `SoftI2c`) and `Progress` are
the conjunctions of what several promise.

`CHECK_DEADLOCK FALSE` is set for `ModbusRx` only: its master has a finite list of
messages.

`modbus_write` assumes a master that waits for its answers (`Polite`). With
`Polite = FALSE` both `ReconfiguresAfterAnswer` and `ConfigApplied` fail: the
validation of a second request sets `uart_cfg_update` while the first answer is
being sent, and its end applies the old register and forgets the request.

## Fairness

`NVStore`: a call runs on (WF), the application initialises and saves again and
again (SF, other calls come in between); `SavesKeepSucceeding` also assumes that
faults cease. `UsartTx`, `UsartRx`: a requested interrupt is served and the handler
ends (WF, hardware), the main program gets time between interrupts (SF), the
transmitter clocks bytes out. Nothing obliges the application to write.
`ModbusRx`: interrupts are served, a message begun is sent to its end, the main
loop keeps calling `MODBUS_Process`. `SpiBus`: the shift register clocks on and a handler
ends (WF), the main program gets time (SF). `I2cMaster`: the driver runs on (WF);
the peripheral goes on if it can again and again (SF), so a device that lets the bus go
infinitely often lets the byte through. `Fdcan`: the bus takes frames, the driver runs
on, the application reads again and again. `Exti`: a pending interrupt is taken and handler
and calls run on (WF). `MCSpec` of `MCDrivers` states the same fairness, each part guarded by
`driver = ...`.

## Proofs

- `NVStore_proofs`, for every number of slots, width of the sequence number and set of
  payloads. Whatever may fail after the commit, `Safety` (`SafeInv` is inductive) gives
  `NoDanglingRecord` (`LastIsValid`), and with `CellStep`, which says cell by cell what a step
  may do to the flash, `RecordsSurvive` (`RecordSurvives`): a page that is erased is not the
  active one unless there are no records, and the slot written holds none.
  `Ranking` (`RankInv`) adds that no slot scanned outranks the candidate while the numbers
  lie within half a turn, where being newer is an order (`Window`, `WindowOrder`); from it
  `InitIsRight` (`InitTakesNewest`) and `OneAhead` (`AtMostOneAhead`), which needs the same to
  hold all along: two records are then never exactly half a turn apart, the one distance
  that the next number would turn round.
  Assuming `LateFaults = {}`, `Invariance` (`IndInv` is inductive) gives `Durability`
  (`AckedIsDurable`) and `Refinement` (`ImplementsRegister`). `LastIsValid` and the promise
  alone are not inductive: what matters is that all valid records lie in a window
  of less than half the sequence numbers that ends at `last_seq`, that the
  numbers differ, and that a page about to be erased does not hold the newest.
- `UsartTx_proofs`: `RingInvariance` and `RingNeverStalls` for every ring size,
  assuming `MaxLine < N`. `NoStall` is not inductive: `RingInv` adds that while
  TXEIE is off the ring holds only bytes of the call under way, so that this call
  cannot find the ring full before it enables TXEIE. `CompletionIsReal`
  (`CompleteMeansSent`) adds `EndInv`: TC means both registers are empty, and past the
  first section of the handler an empty data register with TXEIE set means an
  empty ring. `TxRefinement` (`ImplementsFifo`) sees the ring as the sequence
  `Content`, and shows what a head or a tail one further does to it; `Advance`
  accepts a byte, `ShiftOut` delivers one, every other step stutters.
- `UsartRx_proofs`: `BuffersFit` (`FitsBuffer`), `CountedIsThere` (`AvailableIsThere`) and
  `RxRefinement` (`ImplementsFifo`) for every ring size, assuming no caller passes a buffer of
  0 bytes. `RxInv` says that what a call has tested stays true while the handler adds
  bytes: the byte it read is still the one at the tail, and its count never exceeds
  what is there.
- `ModbusRx_proofs`: `BusyIsHonest`, `FramesAreWhole` (`OneMessagePerFrame`) and
  `ReadyFrameIsStable` for every list of messages and frame size. The frame that is
  not ready has its timer running (`OrderInv`), so a master that waits for the timer
  finds the frame empty or ready, and the byte in the data register is always the
  last one sent.
- `ModbusWrite_proofs`: `WritesAreAtomic` (`AllOrNothing`) without any assumption;
  `AnswersNeverStall` (`NoStall`) for `MaxLine < N`; `ReconfigurationIsLate`
  (`ReconfiguresAfterAnswer`) for `Polite` as well. It builds on the invariants of
  `UsartTx_proofs`, since every step but the `|=` of TCIE is a step of the port.
  `ConfInv` says that nothing is being sent while a request is worked on, and that a
  register which differs from the port's configuration belongs to a request whose
  answer has not been announced as sent. `FormatStays` is the second half of the property: nothing
  is complete between the load and the store of TXEIE, so that the store puts back the format
  it has loaded. Without `Polite` the proof fails where
  the run would: the callback of an earlier answer takes the new configuration.
- `Numbers_proofs`, about the specification of `MCNumbers`, with the assumptions of its
  modules on the constants. `EveryAnswerFits` (`AnswersFit`) for all values of the 8 and
  16-bit fields, lengths from 5 to 256 and `reg_count` below 32766. `CommitsInTime`
  (`DueInTime`) for every width of the counter, given that a change is saved before it is half
  the range old (`MaxAge < Half`): the stamps equal the ages modulo the range.
  `ClicksAreReported` (`Clicks`) for every width, debounce, long press, bounce and poll
  interval, given `ButtonAssumption` (bounce and poll interval shorter than the debounce,
  presses shorter than the range): `BtnInv` relates each stamp of the code, a number modulo the
  range, to the true age of the edge behind it, and the debounced state to the contact.
  `TimingIsRight` (`TimingRight`) for all settings of the clock tree and all values of the
  register (`ClocksAssumption`, the widths of RCC's fields): the code's
  shifts, one prescaler after the other, are the one division of the hardware
  (`PortClockExact`), the divider is the nearest one (`NearestDivider`, `Scaled`), T3.5 is rounded up and fits 16 bits
  (`T35RoundsUp`).
  `ErrorsAreFound` (`CrcDetects`) for messages of any length and bursts of up to 16 bits
  (`CrcAssumption`), from two results about any frame: an odd number of disturbed bits is found
  (`OddErrorsAreFound`), and so are disturbed bits within 16 neighbouring ones
  (`BurstsAreFound`). The CRC of a frame with its own CRC behind it is 0 (`RightIsZero`), so the
  proofs follow the difference of the two words, as sent and as received, with the
  differing bits still to come in front of it (`Difference`); eight rounds turn one into the
  next (`DifferenceTurns`). A round keeps it odd, as 0xA001 with the bit shifted out has an even number of
  bits (`OddRound`), and keeps it non-empty while it is narrow (`NarrowRound`), so that it
  is never empty at the end. What the recursive function computes is shown
  byte by byte with `Induction`, which is stated of a set of numbers, not of an operator,
  and comes from the well-foundedness of `<` on the naturals.
- `Drivers_proofs`, about the specification of `MCDrivers` (`DriversAssumption`: the sets of
  words and lengths are what the code passes). `CallsAreTruthful` (`Truthful`) is proved from
  `I2cInv` and `FlashInv`. `I2cInv` says, for every point of a transfer, which flags the
  peripheral may show, what RXDR and the shift register hold and how many bytes are
  left, so that a flag left by an earlier call that failed cannot be taken for one of
  this call: ICR is cleared before START. RXDR is not, so for a read it counts the bytes on the
  driver's side the device has not sent for it (`Surplus`): none while no wait has expired since
  `I2C_Init`, and at most one ever, because RXDR holds one and the device waits while it is full.
  `FlashIsUndisturbed` (`Undisturbed`): `FlashInv` ties PRIMASK to the point in the call, on
  the error paths as well. `NoEdgeIsLost` (`EdgesKept`): `ExtInv` adds that the only edges owed to
  the line whose handler runs are late ones, so that the bit cleared behind the handler takes no
  other; what `extiClearFlag` has loaded is the exception the property names. `FramesPassInOrder`
  (`FramesInOrder`): `CanInv` says which elements of a FIFO are whole, and that the one the
  driver copies is neither the controller's nor overwritten before it is acknowledged.
  `WiresAreRight` (`WiresRight`), for bytes of any length: `WireInv` says, for every access
  of every call, what the two wires carry and which bit of which byte the device is at,
  and what a call leaves behind for the next one (`Between`). For the recovery it is a
  race (`Swept`), which the accesses before the clocks begin for each value of ODR
  (`RecoverBegins`, `Begun`): after j clocks a device that sends is beyond its j-th bit and one that
  receives is not at it, and a first byte that began with the clocks has taken ones only, so that after Bits + 1 clocks nobody sends and nobody acknowledges;
  one clock less is not enough, which is what the mutant `RecoverOpsShort` shows.
  `CallsAreBounded`: an I2C call for n bytes has 3n + 12 steps of the driver (`StepsLeft`), and each
  takes at least one of them whatever the peripheral answers, a NACK or silence included;
  between two of them the peripheral has finitely many (`BusSteps`). That a read goes on only with
  fewer bytes than it asks for, after an expired wait too, is part of `I2cInv`.
  `DriversTypes` (`DriversTypeOK`) adds what those invariants do not need to say: the bytes of
  an I2C transfer never outgrow its length (`I2cSizes`), a call on the wires has read
  as many bits as its accesses so far sample (`WireSizes`), a line that EXTI holds is
  one of `Lines` (`ExtTyped`), FDCAN filters known kinds of frame only (`Filtered`), and the FIFOs of SPI stay within their depth, from
  `BusInv`, `FlowInv` and `Sizes` of `SpiBus_proofs`.
- `SpiBus_proofs`: `OneDeviceAtATime` (`OneSelected`) for all devices, FIFO depths and
  lengths, with and without `Masked`. `BusInv` says that a call past the test of `busy`
  in the main program and one in a handler exclude each other, because a handler
  that entered after the test runs to its end before the main program sets the flag,
  and that only the call that set it has a device selected. On top of it `FlowInv`
  follows the bytes: what is on the line and in the FIFOs is given by the point the
  holder has reached, with one byte under way at most, and nothing is there when the
  flag is clear. From it come `BytesAreOwn` (`OwnBytes`), `FreeBusIsQuiet`
  (`QuietWhenFree`) and `LineStaysQuiet` (`LineQuiet`), for transfers that time out
  as well; an overrun cannot happen then (given `Drained`). `TransfersAreBounded`: a transfer of n
  bytes has 10 + `Depth` + 5n steps when it is asked for (`WorkOf`), every step of its context takes one of
  them (`StepWork`), an expired wait too, except a look at a flag that is not there
  yet (`Polls`), and neither the other context nor the peripheral gives it more; the
  peripheral comes to rest by itself (`LineLeft`).

Every safety property of the passing runs has its theorem. Only model-checked is liveness,
which the prover cannot reach: `SavesKeepSucceeding`, `BytesLeave`, `Recovers`, `BusyEnds`, `Delivered`,
`ConfigApplied`, `Progress`. Of `Progress`, the bounds `CallsAreBounded` and `TransfersAreBounded` are proved: a
call of the I2C master or the SPI bus cannot go round forever, what remains to
fairness is that its steps are taken.

## Findings

`PROJECT.json` quotes what the code or its README says against what the runs show:
the reused sequence number (`nvstore_tie`), the full ring that is never sent
(`usart_tx_stall`), the T3.5 timer that runs twice too fast behind a divided bus clock
(`modbus_timer`), and the inverted check in function 16 (`modbus_read_only`). The sections
on the modules name what else the models leave out because the code does not hold it:
the T3.5 interrupt nobody enables, the master that does not wait, the format put back by a
stale store, the byte left in RXDR, the edge cleared with another's or during its own handler,
the two ways nine clocks without a START may not be enough, the transfer that waits for ever
when SPI is set up under it, and bus-off.

## Plan

Done, in this order, the behaviour that loses data first: store, serial port, Modbus,
commit timer, the drivers that wait, external interrupts, wires of the I2C bus, the
arithmetic. What is left, in order of use:

1. The F103's SPI and I2C transfers, which have no limit on most waits and no flush: they end only
   if the device answers, which leaves little to promise.
2. `SysTick_Delay`, `delay_us` (whose 16-bit counter never reaches 65536 and more, and
   which may miss the end of a delay just below) and the debounce mode of `TIM_Init`, which nothing
   in the repository calls.

## Not modelled

GPIO, PWM, DMA, ADC and DAC set-up (register writes without state or order that
matters), the copies under `g474` (what the G0 models say holds for them), `soft_uart.c`
(commented out), `nvstore_f103.c` (an earlier store that does not compile against the present
headers) with `flash_ll_f103.c`, which nothing else calls, `utilities.c` (`HAL_assert` stops
the program), and the vendor's headers under `src/ST/`, which are most of the repository's
lines.
