----------------------------- MODULE I2cMaster -----------------------------
(***************************************************************************)
(* The blocking I2C master of src/src/ll/g0/i2c_g0.c, the peripheral and a *)
(* device with registers.  The driver reads and writes the peripheral one  *)
(* register at a time, the peripheral goes on by itself in between.        *)
(*                                                                         *)
(* The k-th byte of a read is <<r, t, k>>: the register asked for, and a   *)
(* tag that tells a read from the one before it.  The waits count 10000    *)
(* reads of the flags, more than a millisecond, while a byte takes a tenth *)
(* of one: they expire only when the peripheral can do nothing (Stuck).    *)
(***************************************************************************)
EXTENDS Naturals, Sequences

CONSTANTS
    Regs,           \* the registers of the device
    MaxBytes,       \* bytes of data in a transfer
    StopsOnNack     \* without AUTOEND a NACK ends in a STOP all the same

VARIABLES
    flags,    \* the bits of ISR that are set
    bus,      \* the transfer the peripheral is at
    txdr,     \* TXDR, 0 once its byte is out
    rxdr,     \* RXDR, <<>> once read
    dev,      \* the device: register pointer, bytes got, bytes sent, tag
    hung,     \* the device holds the bus
    pc,       \* the wait or the access the driver is at
    wait,     \* the wait that has just ended
    req,      \* the request, buf what it has read
    buf,
    res,      \* what the last call returned
    cause,    \* ghost: a NACK, or the bus held, since the call began
    clean     \* ghost: no wait has expired for such a cause since I2C_Init

drv  == <<pc, wait, req, buf, res>>
vars == <<flags, bus, txdr, rxdr, dev, hung, drv, cause, clean>>

\* I2C_WriteReg and I2C_WriteByteArray; I2C_ReadReg and I2C_Read_Burst.
Writes   == [op: {"write"}, reg: Regs, n: 0 .. MaxBytes]
Reads    == [op: {"read"}, reg: Regs, n: 1 .. MaxBytes]
RawReads == [op: {"readRaw"}, n: 1 .. MaxBytes]
Requests == Writes \cup Reads \cup RawReads

\* What I2C_WriteRaw is given; a byte of data is its number.
Bytes(r) == <<r.reg>> \o [k \in 1 .. r.n |-> k]

\* BERR, ARLO, OVR and TIMEOUT are left out: one master, no noise, no SMBus.
ErrorFlags    == {"NACKF"}
ClearedBy_ICR == {"STOPF", "NACKF"}

Quiet == [phase |-> "idle", rd |-> FALSE, left |-> 0, autoend |-> FALSE]

Init == /\ flags = {} /\ hung = FALSE /\ cause = FALSE /\ clean = TRUE
        /\ bus = Quiet
        /\ txdr = 0 /\ rxdr = <<>>
        /\ \E r \in Regs : dev = [reg |-> r, got |-> <<>>, sent |-> 0, tag |-> 0]
        /\ pc = "idle" /\ wait = "" /\ req = [op |-> "none"] /\ buf = <<>> /\ res = "none"

-----------------------------------------------------------------------------
(* The peripheral and the device                                           *)

Start == /\ bus.phase = "start"
         /\ flags' = flags \cup {"BUSY"}
         /\ bus' = [bus EXCEPT !.phase = "address"]
         /\ dev' = [dev EXCEPT !.got = <<>>, !.sent = 0, !.tag = IF bus.rd THEN 1 - @ ELSE @]
         /\ UNCHANGED <<txdr, rxdr, cause>>

AddressAcked == /\ bus.phase = "address"
                /\ bus' = [bus EXCEPT !.phase = IF bus.rd THEN "rx" ELSE "tx"]
                /\ flags' = IF bus.rd THEN flags ELSE flags \cup {"TXIS"}
                /\ UNCHANGED <<txdr, rxdr, dev, cause>>

Nacked == /\ bus.phase \in {"address", "sending"}
          /\ flags' = flags \cup {"NACKF"}
          /\ bus' = [bus EXCEPT !.phase = IF bus.autoend \/ StopsOnNack THEN "stop" ELSE "hold"]
          /\ cause' = TRUE /\ txdr' = 0
          /\ UNCHANGED <<rxdr, dev>>

\* The byte in TXDR has been acknowledged.
ByteAcked ==
    /\ bus.phase = "sending"
    /\ bus' = [bus EXCEPT !.left = @ - 1,
                          !.phase = IF bus.left > 1 THEN "tx"
                                    ELSE IF bus.autoend THEN "stop" ELSE "hold"]
    /\ flags' = IF bus.left > 1 THEN flags \cup {"TXIS"}
                ELSE IF bus.autoend THEN flags ELSE flags \cup {"TC"}
    /\ dev' = [dev EXCEPT !.reg = IF dev.got = <<>> THEN txdr ELSE @,
                          !.got = Append(@, txdr)]
    /\ txdr' = 0
    /\ UNCHANGED <<rxdr, cause>>

ByteReceived ==
    /\ bus.phase = "rx" /\ "RXNE" \notin flags
    /\ rxdr' = <<dev.reg, dev.tag, dev.sent + 1>>
    /\ flags' = flags \cup {"RXNE"}
    /\ dev' = [dev EXCEPT !.sent = @ + 1]
    /\ bus' = [bus EXCEPT !.left = @ - 1, !.phase = IF bus.left > 1 THEN "rx" ELSE "stop"]
    /\ UNCHANGED <<txdr, cause>>

Stop == /\ bus.phase = "stop"
        /\ flags' = (flags \ {"BUSY"}) \cup {"STOPF"}
        /\ bus' = Quiet
        /\ UNCHANGED <<txdr, rxdr, dev, cause>>

Peripheral == /\ ~hung
              /\ Start \/ AddressAcked \/ Nacked \/ ByteAcked \/ ByteReceived \/ Stop
              /\ UNCHANGED <<hung, drv, clean>>

\* The device holds SCL, or loses its supply, in the midst of a transfer.
\* Bound: not again once a wait has expired for it, until I2C_Init.
Hang == /\ ~hung /\ clean
        /\ bus.phase \notin {"idle", "start", "stop"}
        /\ hung' = TRUE /\ cause' = TRUE
        /\ UNCHANGED <<flags, bus, txdr, rxdr, dev, drv, clean>>

Resume == /\ hung
          /\ hung' = FALSE
          /\ UNCHANGED <<flags, bus, txdr, rxdr, dev, drv, cause, clean>>

Stuck == \/ hung
         \/ bus.phase \in {"idle", "hold", "tx"}
         \/ bus.phase = "rx" /\ "RXNE" \in flags

-----------------------------------------------------------------------------
(* The driver                                                              *)

Goto(p)   == pc' = p /\ UNCHANGED <<wait, req, buf, res>>
Return(v) == /\ pc' = "idle" /\ wait' = "" /\ res' = v
             /\ buf' = IF v = "true" THEN buf ELSE <<>>
             /\ UNCHANGED req
Hardware  == UNCHANGED <<dev, hung, cause, clean>>
NoAccess  == UNCHANGED <<flags, bus, txdr, rxdr>> /\ Hardware

Call(r) ==
    /\ pc = "idle"
    /\ req' = r /\ buf' = <<>> /\ res' = "none" /\ wait' = ""
    /\ pc' = "free"
    /\ cause' = hung
    /\ UNCHANGED <<flags, bus, txdr, rxdr, dev, hung, clean>>

\* I2C_WaitWhile(BUSY).
WaitFree == /\ pc = "free" /\ "BUSY" \notin flags
            /\ Goto("clear")
            /\ NoAccess

I2C_ClearFlags == /\ pc = "clear"
                  /\ flags' = flags \ ClearedBy_ICR
                  /\ Goto("start")
                  /\ UNCHANGED <<bus, txdr, rxdr>> /\ Hardware

Begin(rd, left, autoend) ==
    bus' = [phase |-> "start", rd |-> rd, left |-> left, autoend |-> autoend]

\* The write of CR2: all but the address of a register ends by itself.
WriteCR2 ==
    /\ pc = "start"
    /\ \/ req.op = "write"   /\ Begin(FALSE, Len(Bytes(req)), TRUE) /\ Goto("TX")
       \/ req.op = "read"    /\ Begin(FALSE, 1, FALSE)              /\ Goto("REG")
       \/ req.op = "readRaw" /\ Begin(TRUE, req.n, TRUE)            /\ Goto("RX")
    /\ UNCHANGED <<flags, txdr, rxdr>> /\ Hardware

\* What each wait waits for, besides errors.
Awaited == [TX |-> {"TXIS", "STOPF"}, RX |-> {"RXNE", "STOPF"}, STOP |-> {"STOPF"},
            REG |-> {"TXIS"}, TC |-> {"TC"}]
Waits == {"TX", "RX", "STOP", "REG", "TC"}

WaitUntilAny == /\ pc \in Waits
                /\ flags \cap (Awaited[pc] \cup ErrorFlags) # {}
                /\ wait' = pc /\ pc' = "check"
                /\ UNCHANGED <<req, buf, res>> /\ NoAccess

\* Mutant: the waits have no limit.
ExpireNever == FALSE

Expire == /\ \/ pc \in Waits /\ flags \cap (Awaited[pc] \cup ErrorFlags) = {}
             \/ pc = "free" /\ "BUSY" \in flags
          /\ Stuck
          /\ clean' = (clean /\ ~cause)
          /\ Return("false")
          /\ UNCHANGED <<flags, bus, txdr, rxdr, dev, hung, cause>>

CheckError == /\ pc = "check"
              /\ IF flags \cap ErrorFlags # {}
                 THEN flags' = flags \ ClearedBy_ICR /\ Return("false")
                 ELSE /\ Goto(IF wait = "STOP" THEN "ack"
                              ELSE IF wait = "TC" THEN "restart" ELSE "move")
                      /\ UNCHANGED flags
              /\ UNCHANGED <<bus, txdr, rxdr>> /\ Hardware

\* A byte in TXDR leaves if the peripheral has asked for it.
Write(b) ==
    /\ txdr' = b
    /\ flags' = flags \ {"TXIS"}
    /\ bus' = [bus EXCEPT !.phase = IF @ = "tx" THEN "sending" ELSE @]

\* The loop of I2C_WriteRaw; buf holds what has been written.
MoveTX ==
    /\ pc = "move" /\ wait = "TX"
    /\ IF "TXIS" \in flags
       THEN LET n == Len(buf) + 1
            IN /\ Write(Bytes(req)[n])
               /\ buf' = Append(buf, Bytes(req)[n])
               /\ pc' = IF n < Len(Bytes(req)) THEN "TX" ELSE "STOP"
               /\ UNCHANGED <<wait, req, res>>
       ELSE Return("false") /\ UNCHANGED <<flags, bus, txdr>>
    /\ UNCHANGED rxdr /\ Hardware

\* I2C_WriteRegNoStop does not test TXIS again.
MoveREG ==
    /\ pc = "move" /\ wait = "REG"
    /\ Write(req.reg)
    /\ Goto("TC")
    /\ UNCHANGED rxdr /\ Hardware

MoveRX ==
    /\ pc = "move" /\ wait = "RX"
    /\ IF "RXNE" \in flags
       THEN /\ buf' = Append(buf, rxdr) /\ rxdr' = <<>>
            /\ flags' = flags \ {"RXNE"}
            /\ pc' = IF Len(buf) + 1 < req.n THEN "RX" ELSE "STOP"
            /\ UNCHANGED <<wait, req, res>>
       ELSE Return("false") /\ UNCHANGED <<flags, rxdr>>
    /\ UNCHANGED <<bus, txdr>> /\ Hardware

\* The repeated START of I2C_Read_Burst.
Restart ==
    /\ pc = "restart"
    /\ Begin(TRUE, req.n, TRUE)
    /\ flags' = flags \ {"TC"}
    /\ Goto("RX")
    /\ UNCHANGED <<txdr, rxdr>> /\ Hardware

\* The end of I2C_WaitStop.  I2C_Read_Burst without a register returns false
\* whatever I2C_ReadRaw has done.
Ack ==
    /\ pc = "ack"
    /\ flags' = flags \ {"STOPF"}
    /\ Return(IF req.op = "readRaw" THEN "false" ELSE "true")
    /\ UNCHANGED <<bus, txdr, rxdr>> /\ Hardware

Driver == \/ WaitFree \/ I2C_ClearFlags \/ WriteCR2 \/ WaitUntilAny \/ Expire \/ CheckError
          \/ MoveTX \/ MoveREG \/ MoveRX \/ Restart \/ Ack

\* Mutant: the peripheral is not reset.
InitNoReset ==
    /\ pc = "idle"
    /\ flags' = flags \ (ClearedBy_ICR \cup {"BUSY"})
    /\ bus' = Quiet
    /\ hung' = FALSE /\ cause' = FALSE /\ clean' = TRUE
    /\ res' = "none" /\ buf' = <<>>
    /\ UNCHANGED <<txdr, rxdr, dev, pc, wait, req>>

\* Nine clocks and a STOP free the device, the reset clears the peripheral.
I2C_Init ==
    /\ pc = "idle"
    /\ flags' = {}
    /\ bus' = Quiet
    /\ hung' = FALSE /\ cause' = FALSE /\ clean' = TRUE
    /\ res' = "none" /\ buf' = <<>> /\ txdr' = 0 /\ rxdr' = <<>>
    /\ UNCHANGED <<dev, pc, wait, req>>

Next == \/ Peripheral \/ Hang \/ Resume \/ Driver \/ I2C_Init
        \/ \E r \in Requests : Call(r)

Spec == Init /\ [][Next]_vars

\* A device that lets the bus go again and again lets the byte through.
Fairness == SF_vars(Peripheral) /\ WF_vars(Driver)

LiveSpec == Spec /\ Fairness

-----------------------------------------------------------------------------
(* Properties                                                              *)

TypeOK ==
    /\ flags \subseteq {"BUSY", "TXIS", "RXNE", "STOPF", "TC"} \cup ErrorFlags
    /\ bus.phase \in {"idle", "start", "address", "tx", "sending", "rx", "hold", "stop"}
    /\ bus.left \in 0 .. MaxBytes + 1
    /\ Len(dev.got) <= MaxBytes + 1 /\ dev.sent \in 0 .. MaxBytes
    /\ pc \in Waits \cup {"idle", "free", "clear", "start", "check", "move", "restart", "ack"}
    /\ res \in {"none", "true", "false"}

\* I2C_Read_Burst returns true only with bytes the device has sent for this read
\* of this register, each once and in order.  After a wait has expired, until
\* I2C_Init, a byte may be left in RXDR, which no call removes: it is then
\* returned as the first byte (195), and the read is late by this one byte,
\* never by more.
OwnAnswer ==
    res = "true" /\ req.op = "read" =>
        \E over \in {0, 1} :
            /\ clean => over = 0
            /\ Len(buf) = req.n
            /\ \A k \in over + 1 .. req.n : buf[k] = <<req.reg, dev.tag, k - over>>

\* I2C_WriteByteArray returns true only when the device has acknowledged the
\* register and every byte, and the bus is free again.
Delivered ==
    res = "true" /\ req.op = "write" => dev.got = Bytes(req) /\ "BUSY" \notin flags

\* A call fails only when something is wrong on the bus during it, or when a wait
\* that expired before it has left the bus occupied: what an earlier NACK leaves
\* in the flags does not spoil the next call.  I2C_Read_Burst without a register
\* always fails (260-262).
FailsForCause ==
    res = "false" => cause \/ req.op = "readRaw" \/ (~clean /\ "BUSY" \in flags)

\* What a call returns is true, as far as the calls before it let it be: the
\* three parts say what a wait that has expired may do to the calls after it.
Truthful == OwnAnswer /\ Delivered /\ FailsForCause

\* Every call comes back, also from a dead bus.
Returns == pc # "idle" ~> pc = "idle"

=============================================================================
