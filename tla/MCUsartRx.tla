----------------------------- MODULE MCUsartRx -----------------------------
(* Instances of UsartRx for TLC. *)
EXTENDS UsartRx
=============================================================================
