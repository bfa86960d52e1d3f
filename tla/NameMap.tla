------------------------------- MODULE NameMap ------------------------------
(***************************************************************************)
(* What the assembler's symbol table promises: a map from names to values. *)
(* A name that was stored is found, with the value stored last.  While     *)
(* fewer than Sure names are stored, a new one fits and one that was not   *)
(* stored is undefined; beyond that the table may give up on a new name,   *)
(* and an unknown one may get any answer.                                  *)
(***************************************************************************)
EXTENDS Naturals, FiniteSets

CONSTANTS Names, Word, Undefined, Sure

VARIABLES defs,     \* the map: a function on the names stored
          answer,   \* what the last reference was given
          gaveUp    \* did a name not fit?

vars == <<defs, answer, gaveUp>>

Init == defs = [n \in {} |-> Undefined] /\ answer = Undefined /\ gaveUp = FALSE

Crowded == Cardinality(DOMAIN defs) >= Sure

Store(n, v) ==
    /\ ~gaveUp
    /\ defs' = [m \in DOMAIN defs \cup {n} |-> IF m = n THEN v ELSE defs[m]]
    /\ UNCHANGED <<answer, gaveUp>>

Refer(n) ==
    /\ \/ n \in DOMAIN defs /\ answer' = defs[n]
       \/ n \notin DOMAIN defs /\ answer' = Undefined
       \/ n \notin DOMAIN defs /\ Crowded /\ answer' \in Word
    /\ UNCHANGED <<defs, gaveUp>>

GiveUp(n) ==
    /\ n \notin DOMAIN defs /\ Crowded
    /\ gaveUp' = TRUE
    /\ UNCHANGED <<defs, answer>>

Next == \E n \in Names : Refer(n) \/ GiveUp(n) \/ \E v \in Word : Store(n, v)

Spec == Init /\ [][Next]_vars
=============================================================================
