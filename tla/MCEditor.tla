------------------------------- MODULE MCEditor -----------------------------
(***************************************************************************)
(* An instance of Editor: one printable key, TAB and CR, in short texts on *)
(* a screen of two lines.                                                  *)
(***************************************************************************)
EXTENDS Editor

MCKey == {65}

MCNoByte == {}
=============================================================================
