----------------------------- MODULE MCModbusRx -----------------------------
(* Instances of ModbusRx for TLC: frames of 2 to 4 bytes. *)
EXTENDS ModbusRx

\* A usual message, one that is too long (its rest is noise), a shortest one.
Few == <<3, 6, 2>>
=============================================================================
