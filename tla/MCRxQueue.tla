------------------------------ MODULE MCRxQueue -----------------------------
(* RxQueue on small instances: a ring of MCN slots that holds MCN - 1 bytes. *)
EXTENDS RxQueue

CONSTANTS a, b, none

MCByte == {a, b}

\* The TIMEOUT word is whatever the MONITOR left in it.
MCTimeouts == 0 .. WordMod - 1
=============================================================================
