------------------------------- MODULE SpiBus -------------------------------
(***************************************************************************)
(* One SPI bus of src/src/ll/g0/spi_g0.c, its devices, and the two         *)
(* contexts that may use it: the main program and an interrupt handler     *)
(* that runs to its end in between.  h->busy is a plain flag, tested and   *)
(* set in two steps; SPI_SetMode and SPI_SetBaud test it but do not set    *)
(* it.  A device answers its k-th byte since it was selected with <<d, k>>. *)
(*                                                                         *)
(* The waits have a limit in millis().  In the handler that time stands    *)
(* still (SysTick_Config gives SysTick the lowest priority), so they do    *)
(* not expire; in the main program they expire only when it was kept from  *)
(* running after it had read the flag, since a byte takes far less than a  *)
(* millisecond: Drained.                                                   *)
(***************************************************************************)
EXTENDS Naturals, Sequences, FiniteSets

CONSTANTS
    Devices,     \* the devices on the bus
    MaxLen,      \* bytes in a transfer
    Depth,       \* bytes in each FIFO of the peripheral
    Settings,    \* values of the mode and of the divider
    Masked       \* the application keeps the handler off during its set-up calls

ASSUME SpiAssumption == /\ MaxLen \in Nat \ {0} /\ Depth \in Nat \ {0}
                        /\ Masked \in BOOLEAN /\ Settings # {}

VARIABLES
    busy,        \* h->busy
    cs,          \* the devices selected
    count,       \* bytes each has exchanged since
    cr1,         \* SPE, the mode and the divider
    txf, rxf,    \* the FIFOs
    shift, bsy,  \* a byte is on the line; SR.BSY
    ovr,         \* SR.OVR
    cpu,         \* which context runs
    run          \* what each context is doing

hw   == <<count, txf, rxf, shift, bsy, ovr>>
vars == <<busy, cs, cr1, hw, cpu, run>>

Contexts == {"main", "isr"}
Nobody   == <<"none", 0>>
Selected == {d \in Devices : cs[d]}

\* SPI_Write, SPI_Read and the register functions are transfers too, of one
\* byte for the address and one to eight for the data.
Transfers == [op: {"transfer"}, dev: Devices, n: 1 .. MaxLen]
Setups    == [op: {"setup"}, field: {"mode", "br"}, val: Settings]
Requests  == Transfers \cup Setups

CR1 == [spe: BOOLEAN, mode: Settings, br: Settings]

\* What a context is doing: the point it has reached, the wait it is in, its
\* request, the CR1 it has read, the bytes received and the result so far.
At(pc, st) == [pc |-> pc, wait |-> "", req |-> [op |-> "none"], cr1 |-> <<>>,
               rx |-> <<>>, st |-> st]

\* SPI_Init and SPI_DeviceInit have been called.
Init == /\ busy = FALSE /\ cs = [d \in Devices |-> FALSE]
        /\ count = [d \in Devices |-> 0]
        /\ \E s, t \in Settings : cr1 = [spe |-> TRUE, mode |-> s, br |-> t]
        /\ txf = <<>> /\ rxf = <<>> /\ shift = FALSE /\ bsy = FALSE /\ ovr = FALSE
        /\ cpu = "main" /\ run = [c \in Contexts |-> At("idle", "SPI_OK")]

-----------------------------------------------------------------------------
(* The peripheral and the devices                                          *)

StartByte ==
    /\ cr1.spe /\ ~shift /\ txf # <<>>
    /\ shift' = TRUE /\ bsy' = TRUE
    /\ txf' = Tail(txf)
    /\ UNCHANGED <<busy, cs, count, cr1, rxf, ovr, cpu, run>>

\* The selected device has answered; two of them disturb each other.
EndByte ==
    /\ shift /\ shift' = FALSE
    /\ LET answer == IF Cardinality(Selected) = 1
                     THEN LET d == CHOOSE d \in Selected : TRUE IN <<d, count[d] + 1>>
                     ELSE Nobody
       IN IF Len(rxf) < Depth THEN rxf' = Append(rxf, answer) /\ UNCHANGED ovr
                              ELSE ovr' = TRUE /\ UNCHANGED rxf
    /\ count' = [d \in Devices |-> IF cs[d] THEN count[d] + 1 ELSE count[d]]
    /\ UNCHANGED <<busy, cs, cr1, txf, bsy, cpu, run>>

EndBusy ==
    /\ bsy /\ ~shift /\ txf = <<>>
    /\ bsy' = FALSE
    /\ UNCHANGED <<busy, cs, count, cr1, txf, rxf, shift, ovr, cpu, run>>

Peripheral == StartByte \/ EndByte \/ EndBusy

Drained == ~cr1.spe \/ (txf = <<>> /\ ~shift /\ ~bsy)

-----------------------------------------------------------------------------
(* Calls                                                                   *)

Where(c)   == IF cpu = c THEN run[c].pc ELSE "interrupted"
Goto(c, p) == run' = [run EXCEPT ![c].pc = p]

Call(r) ==
    /\ Where("main") = "idle"
    /\ run' = [run EXCEPT !["main"] = [At("test", "SPI_OK") EXCEPT !.req = r]]
    /\ UNCHANGED <<busy, cs, cr1, hw, cpu>>

SettingUp == run["main"].pc # "idle" /\ run["main"].req.op = "setup"

Interrupt(r) ==
    /\ cpu = "main" /\ ~(Masked /\ SettingUp)
    /\ cpu' = "isr"
    /\ run' = [run EXCEPT !["isr"] = [At("test", "SPI_OK") EXCEPT !.req = r]]
    /\ UNCHANGED <<busy, cs, cr1, hw>>

\* The call returns, the handler with it.
Return(c, st) ==
    /\ run' = [run EXCEPT ![c] = At("idle", st)]
    /\ cpu' = "main"

\* Mutant: the flag is not tested before a transfer.
TestSetupOnly(c) ==
    /\ Where(c) = "test"
    /\ IF busy /\ run[c].req.op = "setup" THEN Return(c, "SPI_ERR_BUSY")
       ELSE /\ Goto(c, IF run[c].req.op = "transfer" THEN "claim" ELSE "load")
            /\ UNCHANGED cpu
    /\ UNCHANGED <<busy, cs, cr1, hw>>

\* Mutant: the flag is not tested before a change of mode or divider.
TestTransferOnly(c) ==
    /\ Where(c) = "test"
    /\ IF busy /\ run[c].req.op = "transfer" THEN Return(c, "SPI_ERR_BUSY")
       ELSE /\ Goto(c, IF run[c].req.op = "transfer" THEN "claim" ELSE "load")
            /\ UNCHANGED cpu
    /\ UNCHANGED <<busy, cs, cr1, hw>>

Test(c) ==
    /\ Where(c) = "test"
    /\ IF busy THEN Return(c, "SPI_ERR_BUSY")
       ELSE /\ Goto(c, IF run[c].req.op = "transfer" THEN "claim" ELSE "load")
            /\ UNCHANGED cpu
    /\ UNCHANGED <<busy, cs, cr1, hw>>

-----------------------------------------------------------------------------
(* SPI_SetMode and SPI_SetBaud: CR1 is read, written without SPE, and      *)
(* written with the new setting and with SPE, which the value read has.    *)

Load(c) ==
    /\ Where(c) = "load"
    /\ run' = [run EXCEPT ![c].cr1 = cr1, ![c].pc = "off"]
    /\ UNCHANGED <<busy, cs, cr1, hw, cpu>>

Off(c) ==
    /\ Where(c) = "off"
    /\ cr1' = [run[c].cr1 EXCEPT !.spe = FALSE]
    /\ Goto(c, "on")
    /\ UNCHANGED <<busy, cs, hw, cpu>>

On(c) ==
    /\ Where(c) = "on"
    /\ LET r == run[c].req
       IN cr1' = [spe  |-> TRUE,
                  mode |-> IF r.field = "mode" THEN r.val ELSE run[c].cr1.mode,
                  br   |-> IF r.field = "br" THEN r.val ELSE run[c].cr1.br]
    /\ Return(c, "SPI_OK")
    /\ UNCHANGED <<busy, cs, hw>>

-----------------------------------------------------------------------------
(* SPI_Transfer                                                            *)

Claim(c) ==
    /\ Where(c) = "claim"
    /\ busy' = TRUE
    /\ Goto(c, "flush")
    /\ UNCHANGED <<cs, cr1, hw, cpu>>

\* SPI_FlushRx, before a transfer and after one that failed.
FlushByte(c) ==
    /\ Where(c) \in {"flush", "flushFailed"}
    /\ rxf # <<>>
    /\ rxf' = Tail(rxf)
    /\ UNCHANGED <<busy, cs, cr1, count, txf, shift, bsy, ovr, cpu, run>>

FlushEnd(c) ==
    /\ Where(c) \in {"flush", "flushFailed"}
    /\ rxf = <<>>
    /\ ovr' = FALSE
    /\ Goto(c, IF Where(c) = "flush" THEN "select" ELSE "release")
    /\ UNCHANGED <<busy, cs, cr1, count, txf, rxf, shift, bsy, cpu>>

Select(c) ==
    /\ Where(c) = "select"
    /\ cs' = [cs EXCEPT ![run[c].req.dev] = TRUE]
    /\ count' = [count EXCEPT ![run[c].req.dev] = 0]
    /\ Goto(c, "TXE")
    /\ UNCHANGED <<busy, cr1, txf, rxf, shift, bsy, ovr, cpu>>

\* The waits of SPI_Transfer: when they are over, and what follows.
Waits == {"TXE", "RXNE", "FTLVL", "BSY", "BSYfailed"}

Over(w) == \/ w = "TXE" /\ 2 * Len(txf) <= Depth
           \/ w = "RXNE" /\ rxf # <<>>
           \/ w = "FTLVL" /\ txf = <<>>
           \/ w \in {"BSY", "BSYfailed"} /\ ~bsy

After == [TXE |-> "write", RXNE |-> "read", FTLVL |-> "BSY", BSY |-> "release",
          BSYfailed |-> "flushFailed"]

\* Mutant: a transfer that failed is not flushed.
ExpiredUnflushed == [TXE |-> "release", RXNE |-> "release", FTLVL |-> "release",
                     BSY |-> "release", BSYfailed |-> "release"]

\* A wait that expires: the result is SPI_ERR_HW, and what is left of the
\* transfer is let out and flushed unless all bytes have been exchanged.
Expired == [TXE |-> "BSYfailed", RXNE |-> "BSYfailed", FTLVL |-> "release",
            BSY |-> "release", BSYfailed |-> "flushFailed"]

FlagRead(c) ==
    /\ Where(c) \in Waits
    /\ IF Over(Where(c)) THEN Goto(c, After[Where(c)])
       ELSE run' = [run EXCEPT ![c].pc = "time", ![c].wait = Where(c)]
    /\ UNCHANGED <<busy, cs, cr1, hw, cpu>>

TimeRead(c) ==
    /\ Where(c) = "time"
    /\ run' = [run EXCEPT ![c].pc = run[c].wait, ![c].wait = ""]
    /\ UNCHANGED <<busy, cs, cr1, hw, cpu>>

Expire ==
    /\ Where("main") = "time" /\ Drained
    /\ run' = [run EXCEPT !["main"].pc = Expired[run["main"].wait],
                          !["main"].wait = "", !["main"].st = "SPI_ERR_HW"]
    /\ UNCHANGED <<busy, cs, cr1, hw, cpu>>

Write(c) ==
    /\ Where(c) = "write"
    /\ txf' = Append(txf, Len(run[c].rx) + 1)
    /\ Goto(c, "RXNE")
    /\ UNCHANGED <<busy, cs, cr1, count, rxf, shift, bsy, ovr, cpu>>

Read(c) ==
    /\ Where(c) = "read"
    /\ rxf # <<>>
    /\ rxf' = Tail(rxf)
    /\ run' = [run EXCEPT ![c].rx = Append(@, Head(rxf)), ![c].pc = "errors"]
    /\ UNCHANGED <<busy, cs, cr1, count, txf, shift, bsy, ovr, cpu>>

\* Mutant: one byte too many.
ErrorsOneMore(c) ==
    /\ Where(c) = "errors"
    /\ IF ovr THEN run' = [run EXCEPT ![c].pc = "BSYfailed", ![c].st = "SPI_ERR_HW"]
       ELSE Goto(c, IF Len(run[c].rx) <= run[c].req.n THEN "TXE" ELSE "FTLVL")
    /\ UNCHANGED <<busy, cs, cr1, hw, cpu>>

\* OVR, MODF or FRE: only the first can occur here.
Errors(c) ==
    /\ Where(c) = "errors"
    /\ IF ovr THEN run' = [run EXCEPT ![c].pc = "BSYfailed", ![c].st = "SPI_ERR_HW"]
       ELSE Goto(c, IF Len(run[c].rx) < run[c].req.n THEN "TXE" ELSE "FTLVL")
    /\ UNCHANGED <<busy, cs, cr1, hw, cpu>>

Release(c) ==
    /\ Where(c) = "release"
    /\ cs' = [cs EXCEPT ![run[c].req.dev] = FALSE]
    /\ Goto(c, "free")
    /\ UNCHANGED <<busy, cr1, hw, cpu>>

\* Mutant: a transfer that failed keeps the bus.
FreeIfOK(c) ==
    /\ Where(c) = "free"
    /\ busy' = (run[c].st # "SPI_OK")
    /\ Return(c, run[c].st)
    /\ UNCHANGED <<cs, cr1, hw>>

Free(c) ==
    /\ Where(c) = "free"
    /\ busy' = FALSE
    /\ Return(c, run[c].st)
    /\ UNCHANGED <<cs, cr1, hw>>

-----------------------------------------------------------------------------
SPI_Transfer(c) ==
    \/ Claim(c) \/ FlushByte(c) \/ FlushEnd(c) \/ Select(c) \/ FlagRead(c) \/ TimeRead(c)
    \/ Write(c) \/ Read(c) \/ Errors(c) \/ Release(c) \/ Free(c)

Step(c) == Test(c) \/ Load(c) \/ Off(c) \/ On(c) \/ SPI_Transfer(c)

Next == \/ Peripheral \/ Expire
        \/ \E c \in Contexts : Step(c)
        \/ \E r \in Requests : Call(r) \/ Interrupt(r)

Spec == Init /\ [][Next]_vars

\* Bytes are shifted out, the handler runs to its end, and between handlers
\* the main program gets on.
LiveSpec == Spec /\ WF_vars(Peripheral) /\ WF_vars(Step("isr")) /\ SF_vars(Step("main"))

-----------------------------------------------------------------------------
(* Properties                                                              *)

TypeOK ==
    /\ busy \in BOOLEAN /\ cs \in [Devices -> BOOLEAN]
    /\ cr1 \in CR1
    /\ count \in [Devices -> 0 .. MaxLen]
    /\ Len(txf) <= Depth /\ Len(rxf) <= Depth
    /\ shift \in BOOLEAN /\ bsy \in BOOLEAN /\ ovr \in BOOLEAN
    /\ cpu \in Contexts
    /\ \A c \in Contexts : run[c].st \in {"SPI_OK", "SPI_ERR_BUSY", "SPI_ERR_HW"}

\* A transfer that reports SPI_OK has received the answers of its own device
\* to its own bytes, whatever the other context did on the bus meanwhile.
OwnBytes ==
    \A c \in Contexts :
        run[c].pc = "free" /\ run[c].st = "SPI_OK" =>
            run[c].rx = [k \in 1 .. run[c].req.n |-> <<run[c].req.dev, k>>]

\* Two devices are never selected at once, and none when the bus is free.
OneSelected == /\ Cardinality(Selected) <= 1
               /\ Selected # {} => busy

\* A free bus is quiet: a transfer that failed leaves neither a byte on the
\* line nor one in the receive FIFO for the next to take for its own.
QuietWhenFree == ~busy => txf = <<>> /\ ~shift /\ rxf = <<>>

\* A device is deselected only when the last bit has left, and mode and divider
\* never change under a byte or a selected device.
LineQuiet == [][/\ \A d \in Devices : cs[d] /\ ~cs'[d] => ~bsy /\ txf = <<>>
                /\ cr1' # cr1 => Selected = {} /\ ~shift /\ txf = <<>>]_vars

\* The bus is freed again, whatever failed.
BusFreed == busy ~> ~busy
=============================================================================
