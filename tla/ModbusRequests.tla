---------------------------- MODULE ModbusRequests ----------------------------
(***************************************************************************)
(* The arithmetic of the three requests src/src/modbus.c serves: which     *)
(* lengths, counts and addresses it accepts, in the widths it computes     *)
(* them in, and what it answers.  The frame is addressed to this slave or  *)
(* is a broadcast, and its CRC is right (Crc16).  What a write does, step  *)
(* by step, is in ModbusWrite.                                             *)
(***************************************************************************)
EXTENDS Naturals

CONSTANTS
    RegCounts,   \* values of config->reg_count, below 32766
    Addresses,   \* 16-bit: the first register asked for
    Counts,      \* 16-bit: the number of registers
    ByteCounts,  \* 8-bit: the byte count of Write Multiple
    Lengths      \* of a frame, 5 .. MB_FRAME_SIZE

VARIABLES
    reg_count,   \* config->reg_count
    req,         \* the request
    ans          \* the answer: its kind, its length, its byte count

vars == <<reg_count, req, ans>>

MB_FRAME_SIZE == 256
U16(x) == x % 65536
U8(x)  == x % 256

Functions == {3, 6, 16, 17}
Requests  == [function: Functions, broadcast: BOOLEAN, length: Lengths,
              addr: Addresses, count: Counts, byte_count: ByteCounts]

None        == [kind |-> "none", length |-> 0, bytes |-> 0]
Answer(n,b) == [kind |-> "answer", length |-> n, bytes |-> b]

\* MODBUS_SendException, which no broadcast reaches.
Exception(r) == IF r.broadcast THEN None
                ELSE [kind |-> "exception", length |-> 5, bytes |-> 0]

\* Mutant: the CRC is not counted in the length of the answer.
TooLongShort(n) == U16(3 + n * 2) > MB_FRAME_SIZE

TooLong(n) == U16(3 + n * 2 + 2) > MB_FRAME_SIZE

Outside(r) == r.addr >= reg_count \/ r.addr + r.count > reg_count

MODBUS_HandleReadHoldingRegisters(r) ==
    IF r.broadcast THEN None
    ELSE IF \/ r.length # 8
            \/ TooLong(r.count)
            \/ r.count > reg_count \/ r.count < 1
            \/ Outside(r)
         THEN Exception(r)
         ELSE Answer(U16(3 + r.count * 2) + 2, U8(r.count * 2))

\* A write that is carried out is acknowledged with its first six bytes.
Done(r) == [kind |-> "answer", length |-> IF r.broadcast THEN 0 ELSE 8, bytes |-> 0]

MODBUS_HandleWriteSingleRegister(r) ==
    IF r.length # 8 \/ r.addr >= reg_count THEN Exception(r) ELSE Done(r)

MODBUS_HandleWriteMultipleRegisters(r) ==
    IF \/ r.length < 9
       \/ U16(9 + r.byte_count) > MB_FRAME_SIZE
       \/ r.length # 9 + r.byte_count
       \/ r.count < 1 \/ r.count > 123 \/ r.byte_count # r.count * 2
       \/ Outside(r)
    THEN Exception(r) ELSE Done(r)

Init == reg_count \in RegCounts /\ req = <<>> /\ ans = None

MODBUS_Process(r) ==
    /\ req' = r
    /\ ans' = IF r.function = 3 THEN MODBUS_HandleReadHoldingRegisters(r)
              ELSE IF r.function = 6 THEN MODBUS_HandleWriteSingleRegister(r)
              ELSE IF r.function = 16 THEN MODBUS_HandleWriteMultipleRegisters(r)
              ELSE Exception(r)
    /\ UNCHANGED reg_count

Next == req = <<>> /\ \E r \in Requests : MODBUS_Process(r)

Spec == Init /\ [][Next]_vars

-----------------------------------------------------------------------------
(* Properties                                                              *)

\* What the protocol allows: the request has the length of its function, asks
\* for as many registers as fit in a frame, and only for registers there are.
Legal(r) ==
    \/ /\ r.function = 3 /\ r.length = 8
       /\ r.count \in 1 .. 125 /\ r.addr + r.count <= reg_count
    \/ r.function = 6 /\ r.length = 8 /\ r.addr < reg_count
    \/ /\ r.function = 16 /\ r.length = 9 + 2 * r.count /\ r.byte_count = 2 * r.count
       /\ r.count \in 1 .. 123 /\ r.addr + r.count <= reg_count

\* No truncation or wrap-around lets a request pass that asks for what there
\* is not, or refuses one that is legal; the answer fits the buffer and carries
\* all the registers its byte count names; a broadcast gets no answer, any other
\* refused request an exception.
AnswersFit ==
    req # <<>> =>
        /\ ans.length <= MB_FRAME_SIZE
        /\ ans.kind = "answer" <=> Legal(req) /\ ~(req.function = 3 /\ req.broadcast)
        /\ req.broadcast => ans.length = 0
        /\ ~req.broadcast => ans.length > 0
        /\ req.function = 3 /\ ans.kind = "answer" =>
              ans.bytes = 2 * req.count /\ ans.length = 5 + 2 * req.count
=============================================================================
