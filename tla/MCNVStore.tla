------------------------------ MODULE MCNVStore ------------------------------
(***************************************************************************)
(* Two slots a page, two payloads, sequence numbers modulo 10: the store   *)
(* changes pages every other save and the numbers wrap around.             *)
(***************************************************************************)
EXTENDS NVStore, TLC

\* Payloads are only copied and compared.
SymmetricValues == Permutations(Values)
=============================================================================
