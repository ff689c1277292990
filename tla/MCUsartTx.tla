----------------------------- MODULE MCUsartTx -----------------------------
(* Instances of UsartTx for TLC. *)
EXTENDS UsartTx
=============================================================================
