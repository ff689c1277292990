--------------------------- MODULE DurableRegister ---------------------------
(***************************************************************************)
(* What a configuration store promises its application: one register whose *)
(* contents survive power loss.  A save takes effect at some moment        *)
(* between its call and its return, or, if it fails or power is lost,      *)
(* perhaps not at all; a save that returns success has taken effect; a     *)
(* restart brings back exactly what is durable.                            *)
(***************************************************************************)
CONSTANTS Values, NoVal

VARIABLES
    durable,   \* what survives
    view,      \* what a load returns now
    req        \* the payload of the save under way, NoVal if there is none

vars == <<durable, view, req>>

Init == durable = NoVal /\ view = NoVal /\ req = NoVal

Begin(v) == req = NoVal /\ req' = v /\ UNCHANGED <<durable, view>>

TakeEffect == req # NoVal /\ durable' = req /\ UNCHANGED <<view, req>>

Succeed == req # NoVal /\ durable = req /\ view' = req /\ req' = NoVal /\ UNCHANGED durable

Fail == req # NoVal /\ req' = NoVal /\ UNCHANGED <<durable, view>>

Restore == req = NoVal /\ view' = durable /\ UNCHANGED <<durable, req>>

PowerLoss == /\ durable' \in {durable} \cup ({req} \ {NoVal})
             /\ view' = NoVal
             /\ req' = NoVal

Next == \/ \E v \in Values : Begin(v)
        \/ TakeEffect \/ Succeed \/ Fail \/ Restore \/ PowerLoss

Spec == Init /\ [][Next]_vars
=============================================================================
