------------------------------- MODULE GapText ------------------------------
(***************************************************************************)
(* What an editor promises, without lines, columns, a screen or counters:  *)
(* a text with a cursor between two characters.  before is the text to the *)
(* left of the cursor, after the text to its right; the end of a line is a *)
(* character like any other.  The text holds at most Capacity characters.  *)
(***************************************************************************)
EXTENDS Naturals, Sequences, SequencesExt

CONSTANTS Glyph, Capacity

VARIABLES before, after

vars == <<before, after>>

Document == before \o after

Init == before = <<>> /\ after = <<>>

Type(c) ==
    /\ Len(Document) < Capacity
    /\ before' = Append(before, c)
    /\ UNCHANGED after

EraseLeft ==
    /\ before # <<>>
    /\ before' = Front(before)
    /\ UNCHANGED after

EraseRight ==
    /\ after # <<>>
    /\ after' = Tail(after)
    /\ UNCHANGED before

\* The cursor moves; the text stays.
Move ==
    /\ before' \o after' = Document
    /\ Len(before') \in 0..Len(Document)

\* Another document is opened, with the cursor at its start.
Replace(t) == before' = <<>> /\ after' = t

Next ==
    \/ \E c \in Glyph : Type(c)
    \/ EraseLeft \/ EraseRight \/ Move
    \/ \E t \in UNION {[1..n -> Glyph] : n \in 0..Capacity} : Replace(t)

Spec == Init /\ [][Next]_vars
=============================================================================
