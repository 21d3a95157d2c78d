------------------------------ MODULE MCSerial ------------------------------
(* Serial for TLC: two threads that log at the same time. *)
EXTENDS Serial

CONSTANTS can_rx, main

MCThread == {can_rx, main}
=============================================================================
