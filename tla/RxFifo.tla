------------------------------- MODULE RxFifo -------------------------------
(***************************************************************************)
(* What FileEdit's interrupt-driven console input keeps, and what it       *)
(* loses: a bounded first-in first-out queue between the serial chip,      *)
(* which holds one byte, the interrupt handler, which takes it, and the    *)
(* program, which gets bytes with rxwait.  A byte the handler took is      *)
(* appended when the queue has room and counted as an overflow when it has *)
(* none; it is never appended twice or reordered, and an appended byte is  *)
(* never overwritten.                                                      *)
(*                                                                         *)
(* A byte that the handler has not taken may be lost without being         *)
(* counted, though the queue has room, in three ways and in no other: the  *)
(* next byte overruns it in the chip (Arrive), the handler re-arms the     *)
(* chip while it still has the byte before in hand (Miss), or a session    *)
(* begins or ends (Open, Close).                                           *)
(***************************************************************************)
EXTENDS Naturals, Sequences

CONSTANTS Byte,       \* the bytes the line can carry
          Cap,        \* how many bytes the queue holds
          WordMod,    \* the overflow count is a machine word: modulo this
          NoByte      \* "no byte"

VARIABLES line,       \* the byte in the chip that nobody has taken, or NoByte
          open,       \* is the program in a session?
          hold,       \* the byte taken by the handler, or NoByte
          items,      \* the queue
          overflow,   \* how many bytes taken found the queue full
          out         \* the byte rxwait delivered last

vars == <<line, open, hold, items, overflow, out>>

Init ==
    /\ line \in Byte \cup {NoByte}
    /\ open = FALSE
    /\ hold = NoByte
    /\ items = <<>>
    /\ overflow = 0
    /\ out \in Byte

-----------------------------------------------------------------------------
(* The chip's one byte.                                                    *)

\* The overrun: a byte still on the line is lost, and nobody is told.
Arrive ==
    /\ line' \in Byte
    /\ UNCHANGED <<open, hold, items, overflow, out>>

Latch ==
    /\ open
    /\ line # NoByte /\ hold = NoByte
    /\ hold' = line /\ line' = NoByte
    /\ UNCHANGED <<open, items, overflow, out>>

\* The handler has a byte in hand when it re-arms the chip: the byte after it is
\* lost, room or not, and nobody is told.
Miss ==
    /\ open
    /\ line # NoByte /\ hold # NoByte
    /\ line' = NoByte
    /\ UNCHANGED <<open, hold, items, overflow, out>>

\* A session begins and ends with the chip emptied.
Open == ~open /\ open' = TRUE

Close == open /\ open' = FALSE

Session ==
    /\ Open \/ Close
    /\ hold = NoByte
    /\ line' = NoByte
    /\ UNCHANGED <<hold, items, overflow, out>>

-----------------------------------------------------------------------------
(* The queue.                                                              *)

Accept ==
    /\ hold # NoByte
    /\ Len(items) < Cap
    /\ items' = Append(items, hold)
    /\ hold' = NoByte
    /\ UNCHANGED <<line, open, overflow, out>>

Drop ==
    /\ hold # NoByte
    /\ Len(items) = Cap
    /\ overflow' = (overflow + 1) % WordMod
    /\ hold' = NoByte
    /\ UNCHANGED <<line, open, items, out>>

\* rxwait hands over the oldest byte in two stores: the byte, then the index.
Deliver ==
    /\ open /\ items # <<>>
    /\ out' = Head(items)
    /\ UNCHANGED <<line, open, hold, items, overflow>>

Remove ==
    /\ open /\ items # <<>>
    /\ out = Head(items)
    /\ items' = Tail(items)
    /\ UNCHANGED <<line, open, hold, overflow, out>>

\* A new session starts from an empty queue.
Reset ==
    /\ ~open /\ hold = NoByte
    /\ items' = <<>>
    /\ overflow' = 0
    /\ out' \in Byte
    /\ UNCHANGED <<line, open, hold>>

Next ==
    \/ Arrive \/ Latch \/ Miss \/ Session
    \/ Accept \/ Drop \/ Deliver \/ Remove \/ Reset

Spec == Init /\ [][Next]_vars
=============================================================================
