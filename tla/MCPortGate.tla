------------------------------ MODULE MCPortGate ------------------------------
(* PortGate with a gate of two POSTs and a three-bit int: the counter passes   *)
(* the gate and overflows within a few POSTs.                                  *)
EXTENDS PortGate

MCWarmup == 2
MCIntMax == 3
===============================================================================
