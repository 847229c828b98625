--------------------------- MODULE MCModbusChannel ---------------------------
(***************************************************************************)
(* An instance of ModbusChannel for TLC: a write, the longest read whose   *)
(* byte count fits one byte, and a longer one; one reconnection.           *)
(***************************************************************************)
EXTENDS ModbusChannel

CONSTANTS write, read, long

Codes == [o \in Op |-> IF o = write THEN 6 ELSE 3]
Quantities == [o \in Op |-> CASE o = read -> 127 [] o = long -> 130 [] OTHER -> 1]
=============================================================================
