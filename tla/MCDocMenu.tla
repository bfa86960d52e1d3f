------------------------------ MODULE MCDocMenu -----------------------------
(***************************************************************************)
(* An instance of DocMenu: two names that share a backup, which users open *)
(* and save too; two texts that the arena holds, and one that it does not. *)
(***************************************************************************)
EXTENDS DocMenu

N(e) == [base |-> "A", ext |-> e]

MCName == {N("TXT"), N("ASM"), N("BAK"), N("BK1")}

MCUserName == {N("TXT"), N("ASM"), N("BAK")}

MCNoName == [base |-> "", ext |-> ""]

MCText == {<<>>, <<1>>, <<1, 2>>}
=============================================================================
