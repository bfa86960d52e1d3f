------------------------------ MODULE FlatCalls -----------------------------
(***************************************************************************)
(* What the overlay machinery of SMALLC99 promises the compiler's code: it *)
(* may be written as if all of it were in memory at once.  A call runs the *)
(* code called, a return resumes the code that called, and nothing else    *)
(* happens, until the calls are nested too deep and the program stops.     *)
(***************************************************************************)
EXTENDS Naturals, Sequences

CONSTANTS Code,      \* the parts of the program that call one another
          Main,      \* the part that runs first, and is always in memory
          Stopped    \* no code: the calls were nested too deep

VARIABLES running,   \* the code that runs
          waiting    \* the code that waits for a return, innermost last

vars == <<running, waiting>>

Init ==
    /\ running = Main
    /\ waiting = <<>>

Call ==
    /\ running # Stopped
    /\ running' \in Code
    /\ waiting' = Append(waiting, running)

Return ==
    /\ running # Stopped
    /\ waiting # <<>>
    /\ running' = waiting[Len(waiting)]
    /\ waiting' = SubSeq(waiting, 1, Len(waiting) - 1)

Stop ==
    /\ running' = Stopped
    /\ UNCHANGED waiting

\* The program is started afresh: after it ended, or after a reset.
Start ==
    /\ running' = Main
    /\ waiting' = <<>>

Next == Call \/ Return \/ Stop \/ Start

Spec == Init /\ [][Next]_vars

=============================================================================
