---------------------------- MODULE MCModbusWrite ----------------------------
(* Instances of ModbusWrite for TLC. *)
EXTENDS ModbusWrite

CONSTANTS a

TwoBytes == <<a, a>>
OneByte  == <<a>>
=============================================================================
