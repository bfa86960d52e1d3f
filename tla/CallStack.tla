------------------------------ MODULE CallStack ------------------------------
(***************************************************************************)
(* What the stack services of the MONITOR promise the program that uses    *)
(* them: registers, a position in the program, and a stack that calls,     *)
(* returns and saved registers share.  Register SP is the stack pointer,   *)
(* which is how much of Depth words is left; pos is where the program goes *)
(* on.                                                                     *)
(***************************************************************************)
EXTENDS Integers, Sequences

CONSTANTS SP, Depth, Word

General == 0 .. SP - 1

VARIABLES reg, stack, pos

TypeOK == reg \in [General -> Word] /\ stack \in Seq(Word) /\ pos \in Word

\* A program that is started has an empty stack.
Started == reg \in [General -> Word] /\ stack = <<>> /\ pos \in Word

Init == Started
Start == Started'

Contents(i) == IF i = SP THEN Depth - Len(stack) ELSE reg[i]

Jump == pos' \in Word /\ UNCHANGED <<reg, stack>>

Set(i) == /\ \E v \in Word : reg' = [reg EXCEPT ![i] = v]
          /\ pos' \in Word
          /\ UNCHANGED stack

Call == stack' = <<pos>> \o stack /\ pos' \in Word /\ UNCHANGED reg

Return == stack # <<>> /\ pos' = Head(stack) /\ stack' = Tail(stack) /\ UNCHANGED reg

Push(i) == stack' = <<Contents(i)>> \o stack /\ UNCHANGED <<reg, pos>>

\* R0 to Rn, Rn on top.
PushRegs(n) == /\ stack' = [k \in 1 .. n + 1 |-> Contents(n + 1 - k)] \o stack
               /\ UNCHANGED <<reg, pos>>

\* A stack pointer that is popped is not restored: the top of the stack goes.
Pop(i) == /\ stack # <<>>
          /\ reg' = [j \in General |-> IF j = i THEN Head(stack) ELSE reg[j]]
          /\ stack' = Tail(stack)
          /\ UNCHANGED pos

PopRegs(n) == /\ n < Len(stack)
              /\ reg' = [j \in General |-> IF j <= n THEN stack[n + 1 - j] ELSE reg[j]]
              /\ stack' = SubSeq(stack, n + 2, Len(stack))
              /\ UNCHANGED pos

Next ==
    \/ Start \/ Jump \/ Call \/ Return
    \/ \E i \in General : Set(i)
    \/ \E i \in 0 .. SP : Push(i) \/ Pop(i) \/ PushRegs(i) \/ PopRegs(i)

Spec == Init /\ [][Next]_<<reg, stack, pos>>
=============================================================================
