----------------------------- MODULE MCDrivers -----------------------------
(***************************************************************************)
(* The drivers at the hardware: SPI, I2C, FDCAN, the flash, the external   *)
(* interrupts and the wires of the I2C bus.  They share nothing, so        *)
(* `driver' chooses one at the start and only that one moves: the states   *)
(* of the six are added, not multiplied.                                   *)
(***************************************************************************)
EXTENDS SpiBus

CONSTANTS Regs, MaxBytes, Frames, Elements, Pages, Words, Values, Last, Bits

ASSUME DriversAssumption == /\ Elements \in Nat \ {0} /\ Bits \in Nat \ {0}
                            /\ MaxBytes \in Nat /\ Last \in Nat

VARIABLES driver,
          i_flags, i_bus, i_txdr, i_rxdr, i_dev, i_hung, i_pc, i_wait, i_req, i_buf, i_res,
          i_cause, i_clean,
          c_init, c_filter, c_tx, c_rx, c_pc, c_index, c_frame, c_res,
          f_mem, f_cr, f_bsy, f_err, f_primask, f_pc, f_req, f_saved, f_result, f_res, f_blame,
          e_imr, e_rtsr, e_ftsr, e_pr, e_nvic, e_handlers, e_main, e_isr, e_owed, e_late,
          w_sda, w_scl, w_ops, w_made, w_call, w_arg, w_bits, w_state, w_dev, w_taking

I2c == INSTANCE I2cMaster WITH StopsOnNack <- TRUE,
    flags <- i_flags, bus <- i_bus, txdr <- i_txdr, rxdr <- i_rxdr, dev <- i_dev,
    hung <- i_hung, pc <- i_pc, wait <- i_wait, req <- i_req, buf <- i_buf, res <- i_res,
    cause <- i_cause, clean <- i_clean

Can == INSTANCE Fdcan WITH
    init <- c_init, filter <- c_filter, tx <- c_tx, rx <- c_rx, pc <- c_pc,
    index <- c_index, frame <- c_frame, res <- c_res

Flash == INSTANCE FlashLL WITH
    mem <- f_mem, cr <- f_cr, bsy <- f_bsy, err <- f_err, primask <- f_primask, pc <- f_pc,
    req <- f_req, saved <- f_saved, result <- f_result, res <- f_res, blame <- f_blame

Ext == INSTANCE Exti WITH
    imr <- e_imr, rtsr <- e_rtsr, ftsr <- e_ftsr, pr <- e_pr, nvic <- e_nvic,
    exti_handlers <- e_handlers, main <- e_main, isr <- e_isr, owed <- e_owed,
    late <- e_late

Wires == INSTANCE SoftI2c WITH
    sda <- w_sda, scl <- w_scl, ops <- w_ops, made <- w_made, call <- w_call, arg <- w_arg,
    bits <- w_bits, state <- w_state, dev <- w_dev, taking <- w_taking

iVars == <<i_flags, i_bus, i_txdr, i_rxdr, i_dev, i_hung, i_pc, i_wait, i_req, i_buf, i_res,
           i_cause, i_clean>>
cVars == <<c_init, c_filter, c_tx, c_rx, c_pc, c_index, c_frame, c_res>>
fVars == <<f_mem, f_cr, f_bsy, f_err, f_primask, f_pc, f_req, f_saved, f_result, f_res,
           f_blame>>
eVars == <<e_imr, e_rtsr, e_ftsr, e_pr, e_nvic, e_handlers, e_main, e_isr, e_owed, e_late>>
wVars == <<w_sda, w_scl, w_ops, w_made, w_call, w_arg, w_bits, w_state, w_dev, w_taking>>
all   == <<driver, vars, iVars, cVars, fVars, eVars, wVars>>

\* What does not move begins in one state.
MCInit == /\ driver \in {"spi", "i2c", "can", "flash", "exti", "wires"}
          /\ Init /\ I2c!Init /\ Can!Init /\ Flash!Init /\ Ext!Init /\ Wires!Init
          /\ driver # "spi" => cr1.mode = 0 /\ cr1.br = 0
          /\ driver # "i2c" => i_dev.reg = CHOOSE r \in Regs : TRUE
          /\ driver # "flash" => ~f_err
          /\ driver # "flash" => \A p \in Pages, w \in Words : f_mem[p][w] = "erased"

MCNext ==
    /\ UNCHANGED driver
    /\ \/ driver = "spi"   /\ Next       /\ UNCHANGED <<iVars, cVars, fVars, eVars, wVars>>
       \/ driver = "i2c"   /\ I2c!Next   /\ UNCHANGED <<vars, cVars, fVars, eVars, wVars>>
       \/ driver = "can"   /\ Can!Next   /\ UNCHANGED <<vars, iVars, fVars, eVars, wVars>>
       \/ driver = "flash" /\ Flash!Next /\ UNCHANGED <<vars, iVars, cVars, eVars, wVars>>
       \/ driver = "exti"  /\ Ext!Next   /\ UNCHANGED <<vars, iVars, cVars, fVars, wVars>>
       \/ driver = "wires" /\ Wires!Next /\ UNCHANGED <<vars, iVars, cVars, fVars, eVars>>

\* The fairness of each; naming the driver keeps the others still.
MCSpec == /\ MCInit /\ [][MCNext]_all
          /\ WF_vars(driver = "spi" /\ Peripheral)
          /\ WF_vars(driver = "spi" /\ Step("isr")) /\ SF_vars(driver = "spi" /\ Step("main"))
          /\ SF_iVars(driver = "i2c" /\ I2c!Peripheral) /\ WF_iVars(driver = "i2c" /\ I2c!Driver)
          /\ WF_cVars(driver = "can" /\ Can!Transmit) /\ WF_cVars(driver = "can" /\ Can!Driver)
          /\ SF_cVars(driver = "can" /\ Can!CallRead)
          /\ WF_eVars(driver = "exti" /\ Ext!Handler) /\ WF_eVars(driver = "exti" /\ Ext!MainStep)

-----------------------------------------------------------------------------
\* Each variable keeps its type.
DriversTypeOK ==
    /\ driver = "spi"   => TypeOK
    /\ driver = "i2c"   => I2c!TypeOK
    /\ driver = "can"   => Can!TypeOK
    /\ driver = "flash" => Flash!TypeOK
    /\ driver = "exti"  => Ext!TypeOK
    /\ driver = "wires" => Wires!TypeOK

\* What a call returns is true.  I2C: the device's answer to this read, behind at
\* most one byte a given-up call has left, a write acknowledged byte for byte, a
\* failure only for a cause.  Flash: a 0 means the whole effect, anything else
\* has a cause of its own.
Truthful == /\ driver = "i2c"   => I2c!Truthful
            /\ driver = "flash" => Flash!Truthful

\* Everything ends: a transfer gives the SPI bus back, an I2C call returns even
\* from a dead bus, a refused frame does not block FIFO 0, and an edge that
\* EdgesKept keeps is served.
Progress == BusFreed /\ I2c!Returns /\ Can!Unblocked /\ Ext!EdgesServed

\* FDCAN: frames are sent and read whole, once and in order.
FramesInOrder == Can!FramesInOrder

\* Flash: no handler runs while the flash is busy or in a mode.
Undisturbed == driver = "flash" => Flash!Undisturbed

\* EXTI: an edge waits for its handler, unless extiClearFlag has cleared it or it
\* came during that handler.
EdgesKept == driver = "exti" => Ext!EdgesKept

\* I2C wires: a 0 of SoftI2C_Write means the device took the byte, a byte read
\* is the one it sent, a STOP and a recovery leave the bus free; what the nine
\* clocks cannot free without a START before them is Spared.
WiresRight == driver = "wires" => Wires!Truthful /\ Wires!WiresFree
=============================================================================
