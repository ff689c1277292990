------------------------------- MODULE Fdcan -------------------------------
(***************************************************************************)
(* FDCAN_Init, FDCAN_Send and FDCAN_Read of src/src/ll/g0/fdcan.c on one   *)
(* controller with its message RAM.  The driver polls: it looks at a FIFO, *)
(* takes an index and goes through the element word by word, while the     *)
(* controller sends and receives.  All calls come from the main program.   *)
(*                                                                         *)
(* An element is two parts, the words with identifier and length and the   *)
(* words with the data; a frame is whole when both are of the same.        *)
(***************************************************************************)
EXTENDS Naturals, Sequences

CONSTANTS
    Frames,     \* frames, on the bus or to be sent
    Elements    \* elements in each FIFO, 3 in the STM32G0

VARIABLES
    init,        \* CCCR.INIT: off the bus
    filter,      \* RXGFC: the kinds kept away from RX FIFO 0
    tx,          \* the TX FIFO: its elements, put index, level
    rx,          \* RX FIFO 0: its elements, get index, level
    pc,          \* where the driver is
    index,       \* the index it has read
    frame,       \* the frame to be sent, or read so far
    res          \* what the last call returned

ctrl == <<init, filter, tx, rx>>
drv  == <<pc, index, frame, res>>
vars == <<ctrl, drv>>

\* long: a DLC of 9 to 15.
Kinds   == {"data", "long", "remote", "extended"}
Slots   == 0 .. Elements - 1
Whole(f, kind) == [head |-> f, kind |-> kind, body |-> f]
\* What an element holds that is not in use does not matter.
Nothing == [head |-> "none", kind |-> "data", body |-> "none"]

Ring(ram, first, level) == [k \in 1 .. level |-> ram[(first + k - 1) % Elements]]
ToSend   == Ring(tx.ram, tx.put + Elements - tx.level, tx.level)
Received == Ring(rx.ram, rx.get, rx.level)

Empty == [s \in Slots |-> Nothing]

\* After a reset.
Init == /\ init = TRUE /\ filter = {}
        /\ tx = [ram |-> Empty, put |-> 0, level |-> 0]
        /\ rx = [ram |-> Empty, get |-> 0, level |-> 0]
        /\ pc = "idle" /\ index = 0 /\ frame = Nothing /\ res = 0

-----------------------------------------------------------------------------
(* The controller                                                          *)

Transmit == /\ ~init /\ tx.level > 0
            /\ tx' = [tx EXCEPT !.ram[(tx.put + Elements - tx.level) % Elements] = Nothing,
                                !.level = @ - 1]
            /\ UNCHANGED <<init, filter, rx, drv>>

\* A full FIFO refuses the frame (F0OM = 0), a filter keeps it away.
Receive(f, kind) ==
    /\ ~init
    /\ kind \notin filter
    /\ rx.level < Elements
    /\ rx' = [rx EXCEPT !.ram[(rx.get + rx.level) % Elements] = Whole(f, kind),
                        !.level = @ + 1]
    /\ UNCHANGED <<init, filter, tx, drv>>

BusOff == /\ ~init
          /\ init' = TRUE
          /\ UNCHANGED <<filter, tx, rx, drv>>

-----------------------------------------------------------------------------
(* Calls                                                                   *)

Goto(p)   == pc' = p /\ UNCHANGED <<index, frame, res>>
Return(v) == pc' = "idle" /\ index' = 0 /\ res' = v /\ frame' = Nothing

Call(p, f) ==
    /\ pc = "idle"
    /\ pc' = p /\ frame' = f /\ res' = 0
    /\ UNCHANGED <<ctrl, index>>

\* FDCAN_Init with a bit rate the clock cannot give.
BadRate == /\ pc = "init"
           /\ Return(0)
           /\ UNCHANGED ctrl

\* Each of the three waits for a bit of CCCR may expire.
WaitExpires == /\ pc \in {"init", "stopping", "starting"}
               /\ Return(0)
               /\ UNCHANGED ctrl

EnterInit == /\ pc = "init"
             /\ init' = TRUE
             /\ Goto("stopping")
             /\ UNCHANGED <<filter, tx, rx>>

\* CCE empties the FIFOs; the message RAM is cleared by the driver.
Configure ==
    /\ pc = "stopping"
    /\ filter' = {"remote", "extended"}
    /\ tx' = [ram |-> Empty, put |-> 0, level |-> 0]
    /\ rx' = [ram |-> Empty, get |-> 0, level |-> 0]
    /\ Goto("configured")
    /\ UNCHANGED init

LeaveInit == /\ pc = "configured"
             /\ init' = FALSE
             /\ Goto("starting")
             /\ UNCHANGED <<filter, tx, rx>>

InitDone == /\ pc = "starting"
            /\ Return(1)
            /\ UNCHANGED ctrl

TestFull == /\ pc = "send"
            /\ IF tx.level = Elements THEN Return(0) ELSE Goto("put")
            /\ UNCHANGED ctrl

PutIndex == /\ pc = "put"
            /\ index' = tx.put /\ pc' = "writeHead"
            /\ UNCHANGED <<ctrl, frame, res>>

WriteHead == /\ pc = "writeHead"
             /\ tx' = [tx EXCEPT !.ram[index].head = frame.head, !.ram[index].kind = "data"]
             /\ Goto("writeBody")
             /\ UNCHANGED <<init, filter, rx>>

\* Mutant: the transmission is requested before the data are written.
RequestEarly == /\ pc = "writeBody"
                /\ tx' = [tx EXCEPT !.put = (index + 1) % Elements, !.level = @ + 1]
                /\ Return(1)
                /\ UNCHANGED <<init, filter, rx>>

WriteBody == /\ pc = "writeBody"
             /\ tx' = [tx EXCEPT !.ram[index].body = frame.body]
             /\ Goto("request")
             /\ UNCHANGED <<init, filter, rx>>

\* TXBAR
Request == /\ pc = "request"
           /\ tx' = [tx EXCEPT !.put = (index + 1) % Elements, !.level = @ + 1]
           /\ Return(1)
           /\ UNCHANGED <<init, filter, rx>>

TestEmpty == /\ pc = "read"
             /\ IF rx.level = 0 THEN Return(0) ELSE Goto("get")
             /\ UNCHANGED ctrl

GetIndex == /\ pc = "get"
            /\ index' = rx.get /\ pc' = "readHead"
            /\ UNCHANGED <<ctrl, frame, res>>

ReadHead == /\ pc = "readHead"
            /\ frame' = [frame EXCEPT !.head = rx.ram[index].head, !.kind = rx.ram[index].kind]
            /\ pc' = "kind"
            /\ UNCHANGED <<ctrl, index, res>>

\* RXF0A
Acknowledge == rx' = [rx EXCEPT !.ram[index] = Nothing, !.get = (index + 1) % Elements,
                                !.level = @ - 1]

\* Mutant: a frame that is rejected is not acknowledged.
RejectKept == /\ pc = "kind" /\ frame.kind # "data"
              /\ Return(0)
              /\ UNCHANGED ctrl

Reject == /\ pc = "kind" /\ frame.kind # "data"
          /\ Acknowledge
          /\ Return(0)
          /\ UNCHANGED <<init, filter, tx>>

Supported == /\ pc = "kind" /\ frame.kind = "data"
             /\ Goto("readBody")
             /\ UNCHANGED ctrl

ReadBody == /\ pc = "readBody"
            /\ frame' = [frame EXCEPT !.body = rx.ram[index].body]
            /\ pc' = "release"
            /\ UNCHANGED <<ctrl, index, res>>

Release == /\ pc = "release"
           /\ Acknowledge
           /\ pc' = "idle" /\ index' = 0 /\ res' = 1
           /\ UNCHANGED <<init, filter, tx, frame>>

FDCAN_Init == BadRate \/ WaitExpires \/ EnterInit \/ Configure \/ LeaveInit \/ InitDone
FDCAN_Send == TestFull \/ PutIndex \/ WriteHead \/ WriteBody \/ Request
FDCAN_Read == TestEmpty \/ GetIndex \/ ReadHead \/ Reject \/ Supported \/ ReadBody \/ Release
Driver     == FDCAN_Init \/ FDCAN_Send \/ FDCAN_Read

CallInit == Call("init", Nothing)
CallSend == \E f \in Frames : Call("send", Whole(f, "data"))
CallRead == Call("read", Nothing)

Next == \/ Transmit \/ BusOff \/ (\E f \in Frames, kind \in Kinds : Receive(f, kind))
        \/ Driver \/ CallInit \/ CallSend \/ CallRead

Spec == Init /\ [][Next]_vars

\* The bus takes frames, calls come back, and the application reads again and
\* again.
LiveSpec == Spec /\ WF_vars(Transmit) /\ WF_vars(Driver) /\ SF_vars(CallRead)

-----------------------------------------------------------------------------
(* Properties                                                              *)

TypeOK ==
    /\ init \in BOOLEAN /\ filter \subseteq Kinds
    /\ tx.put \in Slots /\ tx.level \in 0 .. Elements
    /\ rx.get \in Slots /\ rx.level \in 0 .. Elements
    /\ index \in Slots /\ res \in {0, 1}

\* Frames FDCAN_Send has accepted leave whole, once and in order; only a new
\* FDCAN_Init drops them.
SentInOrder ==
    [][\/ \E f \in Frames : ToSend' = Append(ToSend, Whole(f, "data"))
       \/ ToSend # <<>> /\ ToSend' = Tail(ToSend)
       \/ init /\ ToSend' = <<>>]_ToSend

\* FDCAN_Read returns the oldest frame received, whole, and removes it and no
\* other; one it refuses is removed too.
ReadInOrder ==
    [][\/ \E f \in Frames, kind \in Kinds : Received' = Append(Received, Whole(f, kind))
       \/ /\ Received # <<>> /\ Received' = Tail(Received)
          /\ res' = 1 => frame' = Head(Received)
       \/ init /\ Received' = <<>>]_Received

\* Both.
FramesInOrder == SentInOrder /\ ReadInOrder

\* A full FIFO is read again: a frame that is refused does not block it.
Unblocked == rx.level = Elements ~> rx.level < Elements
=============================================================================
