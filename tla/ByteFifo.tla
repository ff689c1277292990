------------------------------ MODULE ByteFifo ------------------------------
(***************************************************************************)
(* What both directions of the USART driver promise: the bytes that were   *)
(* accepted come out once each and in the order they went in.  Bytes may   *)
(* be refused, never lost, repeated or reordered once accepted.            *)
(***************************************************************************)
EXTENDS Sequences

CONSTANTS Bytes, None

VARIABLES queue,   \* bytes accepted and not out yet
          out      \* the last byte that came out

vars == <<queue, out>>

Init == queue = <<>> /\ out = None

Accept == \E b \in Bytes : queue' = Append(queue, b) /\ UNCHANGED out

Deliver == /\ queue # <<>>
           /\ out' = Head(queue)
           /\ queue' = Tail(queue)

Next == Accept \/ Deliver

Spec == Init /\ [][Next]_vars
=============================================================================
