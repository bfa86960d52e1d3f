------------------------------- MODULE MCDisc -------------------------------
(* The disc driver on a drive of a few sectors. *)
EXTENDS Disc
CONSTANTS t, u
=============================================================================
