---------------------------- MODULE MonitorProofs ---------------------------
(***************************************************************************)
(* Proofs about the MONITOR's console and its XOP services (Monitor over   *)
(* Xops), for every number of registers, depth of the stack, set of words  *)
(* and files: how the workspaces of services and handlers nest, that the   *)
(* stack services implement CallStack, that no character of a file is      *)
(* obeyed as a command, and that each service does what it is for.         *)
(*                                                                         *)
(* First come facts about chains of workspaces, then one lemma per         *)
(* service, then the console; every step lemma says of a step what the     *)
(* theorems after them put together.  From the tasks on, the second half   *)
(* says what each service has still to do, with one lemma per service      *)
(* again, and ends with the theorem about what they have done.             *)
(***************************************************************************)
EXTENDS Monitor, SequenceTheorems, WellFoundedInduction, TLAPS

-----------------------------------------------------------------------------
\* Chains of workspaces.

Handlers == {"INTTIMER", "IDE_IRQ", "IDE_DMARQ"}
Stackers == {"PUSHREG", "POPREG", "CALL", "RET", "PUSH", "POP"}
Services == Terminal \cup Paging \cup Stackers \cup Handlers \cup {"INT2"}

\* Who may interrupt or call whom: a workspace is entered from one of a lower rank only.
Rank(s) ==
    CASE s = "INTTIMER"                 -> 6
      [] s = "IDE_IRQ"                  -> 5
      [] s = "IDE_DMARQ"                -> 4
      [] s \in {"READ", "WRITE"}        -> 3
      [] s \in {"MESG", "WHEX", "RHEX"} -> 2
      [] OTHER                          -> 1

\* Each workspace of w leads back to the one of the next lower rank, the lowest
\* to the program; c has the highest.
Lowest(s, w) == \A t \in DOMAIN w : Rank(s) <= Rank(t)
Under(t, s, w) == /\ t \in DOMAIN w /\ Rank(t) < Rank(s)
                  /\ \A u \in DOMAIN w : Rank(u) < Rank(s) => Rank(u) <= Rank(t)

Nested(w, c) ==
    /\ DOMAIN w \subseteq Services
    /\ c \in {"program", "monitor"} => DOMAIN w = {}
    /\ c \notin {"program", "monitor"} => c \in DOMAIN w
    /\ \A s \in DOMAIN w : Rank(s) <= Rank(c)
    /\ \A s, t \in DOMAIN w : Rank(s) = Rank(t) => s = t
    /\ \A s \in DOMAIN w : IF w[s].r13 = "program" THEN Lowest(s, w) ELSE Under(w[s].r13, s, w)
    /\ DOMAIN w # {} => \E s \in DOMAIN w : w[s].r13 = "program"

\* w2 has the workspaces of w, with the same links.
SameLinks(w2, w) ==
    /\ DOMAIN w2 = DOMAIN w
    /\ \A s \in DOMAIN w : w2[s].r13 = w[s].r13 /\ w2[s].r14 = w[s].r14 /\ w2[s].r15 = w[s].r15

Without(c, w) == [s \in DOMAIN w \ {c} |-> w[s]]

\* The rank of a workspace is a number.
LEMMA RankType == ASSUME NEW s PROVE Rank(s) \in Int
BY DEF Rank

\* Services that change no link leave the nesting as it is.
LEMMA NestedSame ==
    ASSUME NEW w, NEW w2, NEW c, Nested(w, c), SameLinks(w2, w)
    PROVE  Nested(w2, c)
BY DEF Nested, SameLinks, Lowest, Under

\* A workspace that BLWP or an interrupt enters goes on top of the chain.
LEMMA NestedJoined ==
    ASSUME NEW w, NEW c, NEW s, NEW f, Nested(w, c), c # "monitor",
           s \in Services, c # "program" => Rank(c) < Rank(s), f.r13 = c
    PROVE  Nested(Joined(s, f, w), s) /\ s \notin DOMAIN w
<1> DEFINE w2 == Joined(s, f, w)
<1>1. DOMAIN w2 = DOMAIN w \cup {s} /\ w2[s] = f /\ \A t \in DOMAIN w : t # s => w2[t] = w[t]
  BY DEF Joined
<1>2. \A t \in DOMAIN w : Rank(t) < Rank(s)
  <2>1. CASE c = "program"
    BY <2>1 DEF Nested
  <2>2. CASE c # "program"
    <3>1. \A t \in DOMAIN w : Rank(t) <= Rank(c)
      BY DEF Nested
    <3> QED BY <2>2, <3>1, RankType
  <2> QED BY <2>1, <2>2
<1>3. s \notin DOMAIN w
  BY <1>2, RankType
<1>4. s \notin {"program", "monitor"}
  BY DEF Services, Terminal, Paging, Stackers, Handlers
<1> HIDE DEF w2
<1>5. DOMAIN w2 \subseteq Services
  BY <1>1 DEF Nested
<1>6. \A t \in DOMAIN w2 : Rank(t) <= Rank(s)
  BY <1>1, <1>2, RankType
<1>7. \A t, u \in DOMAIN w2 : Rank(t) = Rank(u) => t = u
  <2>1. \A t, u \in DOMAIN w : Rank(t) = Rank(u) => t = u
    BY DEF Nested
  <2> QED BY <2>1, <1>1, <1>2, RankType
<1>8. ASSUME NEW t \in DOMAIN w2
      PROVE  IF w2[t].r13 = "program" THEN Lowest(t, w2) ELSE Under(w2[t].r13, t, w2)
  <2>1. CASE t = s /\ c = "program"
    <3>1. DOMAIN w2 = {s}
      BY <2>1, <1>1 DEF Nested
    <3> QED BY <2>1, <3>1, <1>1, RankType DEF Lowest
  <2>2. CASE t = s /\ c # "program"
    <3>1. c \in DOMAIN w /\ \A u \in DOMAIN w : Rank(u) <= Rank(c)
      BY <2>2 DEF Nested
    <3>2. \A u \in DOMAIN w2 : Rank(u) < Rank(s) => Rank(u) <= Rank(c)
      BY <3>1, <1>1, RankType
    <3>3. Under(c, s, w2)
      BY <3>1, <3>2, <1>1, <1>2 DEF Under
    <3> QED BY <2>2, <3>3, <1>1
  <2>3. CASE t # s
    <3>1. t \in DOMAIN w /\ w2[t] = w[t]
      BY <2>3, <1>1
    <3>2. IF w[t].r13 = "program" THEN Lowest(t, w) ELSE Under(w[t].r13, t, w)
      BY <3>1 DEF Nested
    <3>3. Lowest(t, w) => Lowest(t, w2)
      BY <3>1, <1>1, <1>2, RankType DEF Lowest
    <3>4. ASSUME NEW u, Under(u, t, w) PROVE Under(u, t, w2)
      BY <3>1, <3>4, <1>1, <1>2, RankType DEF Under
    <3> QED BY <3>1, <3>2, <3>3, <3>4
  <2> QED BY <2>1, <2>2, <2>3
<1>9. \E t \in DOMAIN w2 : w2[t].r13 = "program"
  <2>1. CASE c = "program"
    BY <2>1, <1>1
  <2>2. CASE c # "program"
    <3>1. PICK t \in DOMAIN w : w[t].r13 = "program"
      BY <2>2 DEF Nested
    <3> QED BY <3>1, <1>1, <1>3
  <2> QED BY <2>1, <2>2
<1>10. Nested(w2, s)
  BY <1>1, <1>4, <1>5, <1>6, <1>7, <1>8, <1>9 DEF Nested
<1> QED BY <1>3, <1>10 DEF w2

\* RTWP takes the top of the chain off.
LEMMA NestedLeft ==
    ASSUME NEW w, NEW c, Nested(w, c), c \notin {"program", "monitor"}
    PROVE  /\ Nested(Without(c, w), w[c].r13)
           /\ w[c].r13 = "program" => DOMAIN w = {c}
           /\ w[c].r13 # "program" => w[c].r13 \in DOMAIN w \ {c}
<1> DEFINE w2 == Without(c, w)
           d == w[c].r13
<1>1. DOMAIN w2 = DOMAIN w \ {c} /\ \A t \in DOMAIN w2 : w2[t] = w[t]
  BY DEF Without
<1>2. c \in DOMAIN w /\ \A t \in DOMAIN w : Rank(t) <= Rank(c)
  BY DEF Nested
<1>3. \A t, u \in DOMAIN w : Rank(t) = Rank(u) => t = u
  BY DEF Nested
<1>4. \A t \in DOMAIN w : IF w[t].r13 = "program" THEN Lowest(t, w) ELSE Under(w[t].r13, t, w)
  BY DEF Nested
<1>5. d = "program" => DOMAIN w = {c}
  <2>1. d = "program" => \A t \in DOMAIN w : Rank(c) <= Rank(t)
    BY <1>2, <1>4 DEF Lowest
  <2> QED BY <2>1, <1>2, <1>3, RankType
<1>6. d # "program" => d \in DOMAIN w /\ Rank(d) < Rank(c) /\ \A t \in DOMAIN w : t # c => Rank(t) <= Rank(d)
  <2>1. d # "program" => Under(d, c, w)
    BY <1>2, <1>4
  <2> QED BY <2>1, <1>2, <1>3, RankType DEF Under
<1>7. d # "program" => d \in DOMAIN w \ {c}
  BY <1>6, RankType
<1> HIDE DEF w2, d
<1>8. CASE d = "program"
  <2>1. DOMAIN w2 = {}
    BY <1>8, <1>1, <1>5
  <2>2. Nested(w2, d)
    BY <1>8, <2>1 DEF Nested
  <2> QED BY <2>2, <1>5, <1>7, <1>8 DEF w2, d
<1>9. CASE d # "program"
  <2>1. DOMAIN w2 \subseteq Services /\ d \in DOMAIN w2
    BY <1>1, <1>7, <1>9 DEF Nested
  <2>2. d \notin {"program", "monitor"}
    BY <2>1 DEF Services, Terminal, Paging, Stackers, Handlers
  <2>3. \A t \in DOMAIN w2 : Rank(t) <= Rank(d)
    BY <1>1, <1>6, <1>9
  <2>4. \A t, u \in DOMAIN w2 : Rank(t) = Rank(u) => t = u
    BY <1>1, <1>3
  <2>5. ASSUME NEW t \in DOMAIN w2
        PROVE  IF w2[t].r13 = "program" THEN Lowest(t, w2) ELSE Under(w2[t].r13, t, w2)
    <3>1. t \in DOMAIN w /\ t # c /\ w2[t] = w[t]
      BY <1>1
    <3>2. IF w[t].r13 = "program" THEN Lowest(t, w) ELSE Under(w[t].r13, t, w)
      BY <3>1, <1>4
    <3>3. Lowest(t, w) => Lowest(t, w2)
      BY <1>1 DEF Lowest
    <3>4. ASSUME NEW u, Under(u, t, w) PROVE Under(u, t, w2)
      <4>1. u \in DOMAIN w /\ Rank(u) < Rank(t) /\ Rank(t) <= Rank(c)
        BY <3>1, <3>4, <1>2 DEF Under
      <4>2. u # c
        BY <4>1, RankType
      <4> QED BY <4>1, <4>2, <3>4, <1>1 DEF Under
    <3> QED BY <3>1, <3>2, <3>3, <3>4
  <2>6. \E t \in DOMAIN w2 : w2[t].r13 = "program"
    <3>1. PICK t \in DOMAIN w : w[t].r13 = "program"
      BY <1>2 DEF Nested
    <3>2. t # c
      BY <3>1, <1>9 DEF d
    <3> QED BY <3>1, <3>2, <1>1
  <2>7. Nested(w2, d)
    BY <2>1, <2>2, <2>3, <2>4, <2>5, <2>6 DEF Nested
  <2> QED BY <2>7, <1>5, <1>7, <1>9 DEF w2, d
<1> QED BY <1>8, <1>9

\* The program is under one workspace only.
LEMMA OneOutermost ==
    ASSUME NEW w, NEW c, Nested(w, c), NEW s \in DOMAIN w, w[s].r13 = "program"
    PROVE  (CHOOSE t \in DOMAIN w : w[t].r13 = "program") = s
<1>1. ASSUME NEW t \in DOMAIN w, w[t].r13 = "program" PROVE t = s
  <2>1. Rank(t) <= Rank(s) /\ Rank(s) <= Rank(t)
    BY <1>1 DEF Nested, Lowest
  <2>2. Rank(t) = Rank(s)
    BY <2>1, RankType
  <2> QED BY <2>2 DEF Nested
<1> QED BY <1>1

-----------------------------------------------------------------------------
\* A handler in progress keeps its own level and the lower ones out, whatever
\* runs above it and whatever that goes back to.
Level(h) == 10 - Rank(h)
Masked(w, m) ==
    \A h \in DOMAIN w \cap Handlers :
        /\ m < Level(h)
        /\ \A u \in DOMAIN w : Rank(h) < Rank(u) => w[u].r15.mask < Level(h)

\* ... and what its handlers keep out.
LEMMA MaskedSame ==
    ASSUME NEW w, NEW w2, NEW m, Masked(w, m), SameLinks(w2, w)
    PROVE  Masked(w2, m)
BY DEF Masked, SameLinks

\* What is entered runs with a mask that is no higher.
LEMMA MaskedJoined ==
    ASSUME NEW w, NEW c, NEW m \in Int, NEW s, NEW f, NEW n \in Int, Nested(w, c), Masked(w, m),
           c # "program" => Rank(c) < Rank(s), f.r15.mask = m, n <= m,
           s \in Handlers => n < Level(s)
    PROVE  Masked(Joined(s, f, w), n)
<1> DEFINE w2 == Joined(s, f, w)
<1>1. DOMAIN w2 = DOMAIN w \cup {s} /\ w2[s] = f /\ \A t \in DOMAIN w : t # s => w2[t] = w[t]
  BY DEF Joined
<1>2. \A t \in DOMAIN w : Rank(t) < Rank(s)
  <2>1. CASE c = "program"
    BY <2>1 DEF Nested
  <2>2. CASE c # "program"
    <3>1. \A t \in DOMAIN w : Rank(t) <= Rank(c)
      BY DEF Nested
    <3> QED BY <2>2, <3>1, RankType
  <2> QED BY <2>1, <2>2
<1> HIDE DEF w2
<1>3. ASSUME NEW h \in DOMAIN w2 \cap Handlers
      PROVE  n < Level(h) /\ \A u \in DOMAIN w2 : Rank(h) < Rank(u) => w2[u].r15.mask < Level(h)
  <2>1. CASE h = s
    <3>1. \A u \in DOMAIN w2 : ~(Rank(h) < Rank(u))
      BY <2>1, <1>1, <1>2, RankType
    <3> QED BY <2>1, <3>1
  <2>2. CASE h # s
    <3>1. h \in DOMAIN w \cap Handlers
      BY <2>2, <1>1
    <3>2. m < Level(h) /\ Level(h) \in Int
      BY <3>1, RankType DEF Masked, Level
    <3>3. n < Level(h)
      BY <3>2
    <3>4. ASSUME NEW u \in DOMAIN w2, Rank(h) < Rank(u) PROVE w2[u].r15.mask < Level(h)
      <4>1. CASE u = s
        BY <4>1, <3>2, <1>1
      <4>2. CASE u # s
        BY <4>2, <3>1, <3>4, <1>1 DEF Masked
      <4> QED BY <4>1, <4>2
    <3> QED BY <3>3, <3>4
  <2> QED BY <2>1, <2>2
<1>4. Masked(w2, n)
  BY <1>3 DEF Masked
<1> QED BY <1>4 DEF w2

\* RTWP takes the mask back with the status word.
LEMMA MaskedLeft ==
    ASSUME NEW w, NEW c, NEW m, Nested(w, c), Masked(w, m), c \in DOMAIN w
    PROVE  Masked(Without(c, w), w[c].r15.mask)
<1> DEFINE w2 == Without(c, w)
<1>1. DOMAIN w2 = DOMAIN w \ {c} /\ \A t \in DOMAIN w2 : w2[t] = w[t]
  BY DEF Without
<1>2. \A t \in DOMAIN w2 : Rank(t) < Rank(c)
  <2>1. \A t \in DOMAIN w : Rank(t) <= Rank(c) /\ (Rank(t) = Rank(c) => t = c)
    BY DEF Nested
  <2> QED BY <2>1, <1>1, RankType
<1> HIDE DEF w2
<1>3. Masked(w2, w[c].r15.mask)
  BY <1>1, <1>2 DEF Masked
<1> QED BY <1>3 DEF w2

-----------------------------------------------------------------------------
\* Where the program goes on.
Goes(w, c, p) ==
    IF c = "program" THEN p.n
    ELSE IF c = "monitor" THEN 0 ELSE w[CHOOSE s \in DOMAIN w : w[s].r13 = "program"].r14.n

\* A service that changes no link changes nothing of where the program goes on.
LEMMA GoesSame ==
    ASSUME NEW w, NEW w2, NEW c, NEW p, NEW p2, Nested(w, c), SameLinks(w2, w), c # "program"
    PROVE  Goes(w2, c, p2) = Goes(w, c, p)
<1>1. Nested(w2, c)
  BY NestedSame
<1>2. CASE c = "monitor"
  BY <1>2 DEF Goes
<1>3. CASE c # "monitor"
  <2>1. PICK s \in DOMAIN w : w[s].r13 = "program"
    BY <1>3 DEF Nested
  <2>2. s \in DOMAIN w2 /\ w2[s].r13 = "program" /\ w2[s].r14 = w[s].r14
    BY <2>1 DEF SameLinks
  <2>3. (CHOOSE t \in DOMAIN w : w[t].r13 = "program") = s
    BY <2>1, OneOutermost
  <2>4. (CHOOSE t \in DOMAIN w2 : w2[t].r13 = "program") = s
    BY <2>2, <1>1, OneOutermost
  <2> QED BY <1>3, <2>2, <2>3, <2>4 DEF Goes
<1> QED BY <1>2, <1>3

\* While services and handlers nest, the program goes on where it was left.
LEMMA GoesJoined ==
    ASSUME NEW w, NEW c, NEW s, NEW f, NEW p, NEW p2, Nested(w, c), c # "monitor",
           s \in Services, c # "program" => Rank(c) < Rank(s), f.r13 = c
    PROVE  Goes(Joined(s, f, w), s, p2) = IF c = "program" THEN f.r14.n ELSE Goes(w, c, p)
<1> DEFINE w2 == Joined(s, f, w)
<1>1. DOMAIN w2 = DOMAIN w \cup {s} /\ w2[s] = f /\ \A t \in DOMAIN w : t # s => w2[t] = w[t]
  BY DEF Joined
<1>2. Nested(w2, s) /\ s \notin DOMAIN w
  BY NestedJoined
<1>3. s \notin {"program", "monitor"}
  BY DEF Services, Terminal, Paging, Stackers, Handlers
<1> HIDE DEF w2
<1>4. PICK t : t \in DOMAIN w2 /\ w2[t].r13 = "program" /\ w2[t].r14.n = IF c = "program" THEN f.r14.n ELSE Goes(w, c, p)
  <2>1. CASE c = "program"
    BY <2>1, <1>1
  <2>2. CASE c # "program"
    <3>1. PICK t \in DOMAIN w : w[t].r13 = "program"
      BY <2>2 DEF Nested
    <3>2. (CHOOSE u \in DOMAIN w : w[u].r13 = "program") = t
      BY <3>1, OneOutermost
    <3>3. Goes(w, c, p) = w[t].r14.n
      BY <2>2, <3>2 DEF Goes
    <3>4. t # s
      BY <1>2, <3>1
    <3> QED BY <2>2, <3>1, <3>3, <3>4, <1>1
  <2> QED BY <2>1, <2>2
<1>5. (CHOOSE u \in DOMAIN w2 : w2[u].r13 = "program") = t
  BY <1>2, <1>4, OneOutermost
<1>6. Goes(w2, s, p2) = w2[t].r14.n
  BY <1>3, <1>5 DEF Goes
<1> QED BY <1>4, <1>6 DEF w2

\* ... and it does go on there when they have all gone back.
LEMMA GoesLeft ==
    ASSUME NEW w, NEW c, NEW p, Nested(w, c), c \in DOMAIN w
    PROVE  Goes(Without(c, w), w[c].r13, w[c].r14) = Goes(w, c, p)
<1> DEFINE w2 == Without(c, w)
           d == w[c].r13
<1>1. DOMAIN w2 = DOMAIN w \ {c} /\ \A t \in DOMAIN w2 : w2[t] = w[t]
  BY DEF Without
<1>2. c \notin {"program", "monitor"}
  BY DEF Nested, Services, Terminal, Paging, Stackers, Handlers
<1>3. Nested(w2, d) /\ (d # "program" => d \in DOMAIN w \ {c})
  BY <1>2, NestedLeft
<1>4. PICK s \in DOMAIN w : w[s].r13 = "program"
  BY DEF Nested
<1>5. (CHOOSE t \in DOMAIN w : w[t].r13 = "program") = s
  BY <1>4, OneOutermost
<1>6. Goes(w, c, p) = w[s].r14.n
  BY <1>2, <1>5 DEF Goes
<1>7. CASE d = "program"
  <2>1. c = s
    BY <1>7, <1>4, <1>5, OneOutermost
  <2> QED BY <2>1, <1>6, <1>7 DEF Goes
<1>8. CASE d # "program"
  <2>1. s # c /\ d \in DOMAIN w
    BY <1>3, <1>4, <1>8
  <2>2. s \in DOMAIN w2 /\ w2[s] = w[s]
    BY <2>1, <1>1
  <2>3. d # "monitor"
    BY <2>1 DEF Nested, Services, Terminal, Paging, Stackers, Handlers
  <2> HIDE DEF w2, d
  <2>4. (CHOOSE t \in DOMAIN w2 : w2[t].r13 = "program") = s
    BY <2>2, <1>3, <1>4, OneOutermost
  <2>5. Goes(w2, d, w[c].r14) = w[s].r14.n
    BY <1>8, <2>2, <2>3, <2>4 DEF Goes
  <2> QED BY <2>5, <1>6 DEF w2, d
<1> QED BY <1>7, <1>8

-----------------------------------------------------------------------------
\* What a workspace in use holds.

Fields == {"r8", "r9", "r10", "r11", "r12", "r13", "r14", "r15"}
Status == [psel : BOOLEAN, mask : 0 .. 7]

\* Where it goes on: the program at a word, a listing at one of its items.
Onward(c, p) ==
    /\ DOMAIN p = {"at", "n"}
    /\ c = "program" => p.n \in Word
    /\ c = "INT2" => p.n \in Nat \ {0}
    /\ c = "DEBUG" /\ p.at = "list" => p.n \in Nat \ {0}

\* Where an answer goes: into a register of the program, or RHEX's R10.
Destined(s, f) ==
    \/ f.r13 = "program" /\ \E i \in 0 .. SP - 1 : f.r11 = <<"register", i>>
    \/ s = "READ" /\ f.r13 = "RHEX" /\ f.r11 = <<"RHEX", "r10">>

\* The operand a of a stack service, and the room that it needs.
Reserved(s, a, top) ==
    /\ s \in Stackers \ {"CALL", "RET"} => a \in 0 .. SP
    /\ s = "CALL" => a \in Word /\ top > 0
    /\ s \in {"RET", "POP"} => top < Depth
    /\ s = "PUSH" => top > 0
    /\ s = "PUSHREG" => top > a
    /\ s = "POPREG" => top + a < Depth

Owned(s, f, top) ==
    /\ DOMAIN f = Fields
    /\ f.r15 \in Status
    /\ Onward(f.r13, f.r14)
    /\ s \in {"READ", "RHEX"} => Destined(s, f)
    /\ s = "RHEX" => f.r12 \in Word
    /\ s \in Stackers => Reserved(s, f.r11, top)

Held(w, c, m, top) == Nested(w, c) /\ Masked(w, m) /\ \A s \in DOMAIN w : Owned(s, w[s], top)

\* BLWP: what is held stays held, and the new workspace too.
LEMMA EnterStep ==
    ASSUME NEW w, NEW c, NEW m \in Int, NEW top, Held(w, c, m, top), NEW s \in Services, NEW f,
           NEW n \in Int, c # "monitor", c # "program" => Rank(c) < Rank(s),
           f.r13 = c, f.r15.mask = m, n <= m, s \in Handlers => n < Level(s), Owned(s, f, top)
    PROVE  Held(Joined(s, f, w), s, n, top)
<1>1. Nested(Joined(s, f, w), s)
  BY NestedJoined DEF Held
<1>2. Masked(Joined(s, f, w), n)
  BY MaskedJoined DEF Held
<1>3. \A t \in DOMAIN Joined(s, f, w) : Owned(t, Joined(s, f, w)[t], top)
  BY DEF Joined, Held
<1> QED BY <1>1, <1>2, <1>3 DEF Held

\* RTWP: what is below is held.
LEMMA LeaveStep ==
    ASSUME NEW w, NEW c, NEW m, NEW top, Held(w, c, m, top), c \in DOMAIN w
    PROVE  Held(Without(c, w), w[c].r13, w[c].r15.mask, top)
<1>1. c \notin {"program", "monitor"}
  BY DEF Held, Nested
<1>2. Nested(Without(c, w), w[c].r13)
  BY <1>1, NestedLeft DEF Held
<1>3. Masked(Without(c, w), w[c].r15.mask)
  BY MaskedLeft DEF Held
<1>4. \A t \in DOMAIN Without(c, w) : Owned(t, Without(c, w)[t], top)
  BY DEF Without, Held
<1> QED BY <1>2, <1>3, <1>4 DEF Held

\* A service that writes to its caller's workspace, not to its links.
LEMMA SameStep ==
    ASSUME NEW w, NEW c, NEW m, NEW top, Held(w, c, m, top), NEW d \in DOMAIN w, NEW own,
           own.r13 = w[d].r13, own.r14 = w[d].r14, own.r15 = w[d].r15, Owned(d, own, top)
    PROVE  /\ SameLinks([w EXCEPT ![d] = own], w)
           /\ Held([w EXCEPT ![d] = own], c, m, top)
<1>1. SameLinks([w EXCEPT ![d] = own], w)
  BY DEF SameLinks
<1>2. Nested([w EXCEPT ![d] = own], c) /\ Masked([w EXCEPT ![d] = own], m)
  BY <1>1, NestedSame, MaskedSame DEF Held
<1>3. \A t \in DOMAIN w : Owned(t, [w EXCEPT ![d] = own][t], top)
  BY DEF Held
<1> QED BY <1>1, <1>2, <1>3 DEF Held

-----------------------------------------------------------------------------
GeneralOf(r) == [i \in 0 .. SP - 1 |-> r[i]]
StackOf(r, k) == [j \in 1 .. Depth - r[SP] |-> k[r[SP] + j - 1]]

SameView == /\ GeneralOf(reg') = GeneralOf(reg)
            /\ StackOf(reg', stk') = StackOf(reg, stk)
            /\ Goes(ws', ctx', pc') = Goes(ws, ctx, pc)

\* What a step of the program is for CallStack: a jump.
LEMMA JumpView ==
    ASSUME GeneralOf(reg') = GeneralOf(reg), StackOf(reg', stk') = StackOf(reg, stk),
           Goes(ws', ctx', pc') \in Word
    PROVE  Stack!Next
BY DEF Stack!Next, Stack!Jump, GeneralOf, StackOf, Goes, Outermost, Top

\* ... a register set.
LEMMA SetView ==
    ASSUME NEW i \in 0 .. SP - 1, NEW v \in Word, 
           GeneralOf(reg') = [GeneralOf(reg) EXCEPT ![i] = v], StackOf(reg', stk') = StackOf(reg, stk),
           Goes(ws', ctx', pc') \in Word
    PROVE  Stack!Next
BY DEF Stack!Next, Stack!Set, Stack!General, GeneralOf, StackOf, Goes, Outermost, Top

\* ... registers put on the stack.
LEMMA PushRegsView ==
    ASSUME NEW n \in 0 .. SP, 
           GeneralOf(reg') = GeneralOf(reg), 
           StackOf(reg', stk') = [k \in 1 .. n + 1 |-> Stack!Contents(n + 1 - k)] \o StackOf(reg, stk),
           Goes(ws', ctx', pc') = Goes(ws, ctx, pc)
    PROVE  Stack!Next
BY DEF Stack!Next, Stack!PushRegs, GeneralOf, StackOf, Goes, Outermost, Top

\* ... or nothing.
LEMMA StutterView ==
    ASSUME SameView
    PROVE  UNCHANGED <<[i \in 0 .. SP - 1 |-> reg[i]], [k \in 1 .. Depth - Top |-> stk[Top + k - 1]],
                IF ctx = "program" THEN pc.n
                   ELSE IF ctx = "monitor" THEN 0 ELSE ws[Outermost].r14.n>>
BY DEF SameView, GeneralOf, StackOf, Goes, Outermost, Top

Registers == reg \in [0 .. SP -> Word] /\ reg[SP] \in 0 .. Depth /\ stk \in [0 .. Depth -> Word]

Character == [ch : Nat, by : {"user", "file"}]
Readable(s) == \A i \in DOMAIN s : s[i].ch \in 0 .. Byte - 1

ServiceInv ==
    /\ Held(ws, ctx, st.mask, reg[SP])
    /\ st \in Status
    /\ Onward(ctx, pc)
    /\ Registers
    /\ ctx = "monitor" => reg[SP] = Depth
    /\ line \in Seq(Character)
    /\ ctx # "monitor" => Readable(line)

LEMMA Constants ==
    /\ Base \in Nat /\ Base > 1 /\ Byte \in Nat /\ Byte > 1 /\ Byte * Byte \in Nat /\ Byte * Byte > 1
    /\ SP \in Nat /\ SP > 1 /\ Depth \in Word /\ Depth \in Nat
    /\ Word \subseteq Nat /\ 0 \in Word /\ Levels \subseteq 4 .. 6 /\ Values \subseteq Word
<1>1. Base \in Nat /\ Base > 1
  BY BaseAssumption
<1>2. Base * Base \in Nat /\ Base * Base > 1
  BY <1>1
<1>3. \A b \in Nat : b > 1 => b * b \in Nat /\ b * b > 1
  OBVIOUS
<1>4. Byte \in Nat /\ Byte > 1
  BY <1>2 DEF Byte
<1>5. Byte * Byte \in Nat /\ Byte * Byte > 1
  BY <1>3, <1>4
<1>6. Word \subseteq Nat /\ 0 \in Word
  BY <1>5 DEF Word
<1> QED BY <1>1, <1>4, <1>5, <1>6, RegisterAssumption, LevelAssumption

\* What holds of a service in progress.
LEMMA Running ==
    ASSUME ServiceInv
    PROVE  /\ st.mask \in Int /\ st \in Status
           /\ ctx \in DOMAIN ws <=> ctx \notin {"program", "monitor"}
           /\ ctx \in DOMAIN ws => /\ ctx \in Services
                                   /\ Owned(ctx, ws[ctx], reg[SP])
                                   /\ ws[ctx].r13 # "monitor"
<1>1. st.mask \in Int
  BY DEF ServiceInv, Status
<1>2. ctx \in DOMAIN ws => ctx \in Services
  BY DEF ServiceInv, Held, Nested
<1>3. ctx \in DOMAIN ws <=> ctx \notin {"program", "monitor"}
  BY DEF ServiceInv, Held, Nested
<1>4. ctx \in DOMAIN ws => Owned(ctx, ws[ctx], reg[SP])
  BY DEF ServiceInv, Held
<1>5. ctx \in DOMAIN ws => ws[ctx].r13 # "monitor"
  <2> SUFFICES ASSUME ctx \in DOMAIN ws PROVE ws[ctx].r13 # "monitor"
    OBVIOUS
  <2>1. Nested(ws, ctx) /\ ctx \notin {"program", "monitor"}
    BY <1>3 DEF ServiceInv, Held
  <2>2. ws[ctx].r13 # "program" => ws[ctx].r13 \in DOMAIN ws
    BY <2>1, NestedLeft
  <2>3. "monitor" \notin DOMAIN ws
    BY <2>1 DEF Nested, Services, Terminal, Paging, Stackers, Handlers
  <2> QED BY <2>2, <2>3
<1> QED BY <1>1, <1>2, <1>3, <1>4, <1>5 DEF ServiceInv

LEMMA LineStep ==
    ASSUME NEW s \in Seq(Character), NEW s2 \in {s, Tail(s)}, s2 = s \/ s # <<>>
    PROVE  s2 \in Seq(Character) /\ (Readable(s) => Readable(s2))
<1>1. CASE s2 = s
  BY <1>1
<1>2. CASE s2 # s
  <2>1. s2 = Tail(s) /\ s # <<>>
    BY <1>2
  <2>2. s2 \in Seq(Character) /\ Len(s2) = Len(s) - 1 /\ \A i \in 1 .. Len(s2) : s2[i] = s[i + 1]
    BY <2>1, HeadTailProperties
  <2>3. DOMAIN s = 1 .. Len(s) /\ DOMAIN s2 = 1 .. Len(s2) /\ Len(s) \in Nat
    BY <2>2
  <2>4. ASSUME NEW i \in DOMAIN s2 PROVE i + 1 \in DOMAIN s /\ s2[i] = s[i + 1]
    BY <2>2, <2>3
  <2> QED BY <2>2, <2>4 DEF Readable
<1> QED BY <1>1, <1>2

Quietly == UNCHANGED <<reg, stk>> /\ line' \in {line, Tail(line)} /\ (line' = line \/ line # <<>>)

\* A step that neither register nor stack sees: it does at most READ a character.
LEMMA QuietStep ==
    ASSUME ServiceInv, ctx # "monitor", ctx' # "monitor", Quietly,
           Held(ws', ctx', st'.mask, reg[SP]), st' \in Status, Onward(ctx', pc'),
           Goes(ws', ctx', pc') = Goes(ws, ctx, pc)
    PROVE  ServiceInv' /\ SameView
<1>1. line' \in Seq(Character) /\ Readable(line')
  <2>1. PICK s : s = line
    OBVIOUS
  <2>2. PICK s2 : s2 = line'
    OBVIOUS
  <2>3. s \in Seq(Character) /\ s2 \in {s, Tail(s)} /\ (s2 = s \/ s # <<>>) /\ Readable(s)
    BY <2>1, <2>2 DEF ServiceInv, Quietly
  <2> QED BY <2>1, <2>2, <2>3, LineStep
<1>2. reg' = reg /\ stk' = stk
  BY DEF Quietly
<1>3. SameView
  BY <1>2 DEF SameView
<1> QED BY <1>1, <1>2, <1>3 DEF ServiceInv, Registers

\* A service or handler goes back.
Returns == /\ ctx \in DOMAIN ws
           /\ ctx' = my.r13 /\ pc' = my.r14 /\ ws' = Left(ctx)
           /\ st' \in Status /\ st'.mask = my.r15.mask

LEMMA LeftIs == \A c : Left(c) = Without(c, ws)
BY DEF Left, Without

\* RTWP goes back to a workspace that holds what it held.
LEMMA ReturnHolds ==
    ASSUME ServiceInv, Returns
    PROVE  /\ ctx # "monitor" /\ ctx' # "monitor"
           /\ Held(ws', ctx', st'.mask, reg[SP]) /\ Onward(ctx', pc')
           /\ Goes(ws', ctx', pc') = Goes(ws, ctx, pc)
<1>1. PICK w : w = ws
  OBVIOUS
<1>2. PICK c : c = ctx
  OBVIOUS
<1>3. c \in DOMAIN w /\ Held(w, c, st.mask, reg[SP])
  BY <1>1, <1>2 DEF Returns, ServiceInv
<1>4. ws' = Without(c, w) /\ ctx' = w[c].r13 /\ pc' = w[c].r14 /\ st'.mask = w[c].r15.mask
  BY <1>1, <1>2, LeftIs DEF Returns, my
<1>5. Held(Without(c, w), w[c].r13, w[c].r15.mask, reg[SP])
  BY <1>3, LeaveStep
<1>6. Goes(Without(c, w), w[c].r13, w[c].r14) = Goes(w, c, pc)
  BY <1>3, GoesLeft DEF Held
<1>7. Onward(w[c].r13, w[c].r14)
  BY <1>3 DEF Held, Owned
<1>8. c # "monitor" /\ w[c].r13 # "monitor"
  BY <1>1, <1>2, <1>3, Running
<1> QED BY <1>1, <1>2, <1>4, <1>5, <1>6, <1>7, <1>8

LEMMA ReturnStep ==
    ASSUME ServiceInv, Returns, Quietly
    PROVE  ServiceInv' /\ SameView
<1>1. st' \in Status
  BY DEF Returns
<1> QED BY <1>1, ReturnHolds, QuietStep

LEMMA RTWPReturns ==
    ASSUME ServiceInv, ctx \in DOMAIN ws, RTWP(my)
    PROVE  Returns
BY Running DEF RTWP, Returns, Owned, my

\* A service changes its own registers, R13 to R15 excepted.
Own(own) == /\ ctx \in DOMAIN ws /\ Owned(ctx, own, reg[SP])
            /\ own.r13 = my.r13 /\ own.r14 = my.r14 /\ own.r15 = my.r15

\* A service goes on within its own code.
LEMMA GotoStep ==
    ASSUME ServiceInv, NEW own, NEW label, Own(own), Goto(own, label), Quietly, ctx \notin {"DEBUG", "INT2"}
    PROVE  ServiceInv' /\ SameView
<1>1. PICK w : w = ws
  OBVIOUS
<1>2. PICK c : c = ctx
  OBVIOUS
<1>3. PICK m : m = st.mask
  OBVIOUS
<1>4. PICK top : top = reg[SP]
  OBVIOUS
<1>5. Held(w, c, m, top) /\ c \in DOMAIN w /\ Owned(c, own, top)
      /\ own.r13 = w[c].r13 /\ own.r14 = w[c].r14 /\ own.r15 = w[c].r15
  BY <1>1, <1>2, <1>3, <1>4 DEF ServiceInv, Own, my
<1>6. /\ SameLinks([w EXCEPT ![c] = own], w)
      /\ Held([w EXCEPT ![c] = own], c, m, top)
  BY <1>5, SameStep
<1>7. ws' = [w EXCEPT ![c] = own] /\ ctx' = c /\ st' = st
  BY <1>1, <1>2 DEF Goto
<1>8. c \notin {"program", "monitor"}
  BY <1>2, Running DEF Own
<1>9. Goes(ws', ctx', pc') = Goes(ws, ctx, pc)
  <2>1. \A p2 : Goes([w EXCEPT ![c] = own], c, p2) = Goes(w, c, pc)
    BY <1>5, <1>6, <1>8, GoesSame DEF Held
  <2> QED BY <2>1, <1>1, <1>2, <1>7
<1>10. Onward(ctx', pc')
  BY <1>2, <1>7, <1>8 DEF Onward, Goto, At
<1> QED BY <1>2, <1>3, <1>4, <1>6, <1>7, <1>8, <1>9, <1>10, Running, QuietStep

\* A workspace is entered from another, which may first change its own registers.
LEMMA EnterHolds ==
    ASSUME ServiceInv, NEW w, NEW s \in Services, NEW f, NEW n \in Int, ctx \in DOMAIN ws,
           SameLinks(w, ws), Held(w, ctx, st.mask, reg[SP]),
           Rank(ctx) < Rank(s), f.r13 = ctx, f.r15 = st, n <= st.mask,
           s \in Handlers => n < Level(s), Owned(s, f, reg[SP]),
           ws' = Joined(s, f, w), ctx' = s, st'.mask = n, pc' = At("start")
    PROVE  /\ ctx # "monitor" /\ ctx' # "monitor"
           /\ Held(ws', ctx', st'.mask, reg[SP]) /\ (s # "INT2" => Onward(ctx', pc'))
           /\ Goes(ws', ctx', pc') = Goes(ws, ctx, pc)
<1>1. PICK c : c = ctx
  OBVIOUS
<1>2. PICK m : m = st.mask
  OBVIOUS
<1>3. PICK top : top = reg[SP]
  OBVIOUS
<1>4. m \in Int /\ c \notin {"program", "monitor"}
  BY <1>1, <1>2, Running
<1>5. Held(w, c, m, top) /\ Rank(c) < Rank(s) /\ f.r13 = c /\ f.r15.mask = m /\ n <= m /\ Owned(s, f, top)
  BY <1>1, <1>2, <1>3
<1>6. Held(Joined(s, f, w), s, n, top)
  BY <1>4, <1>5, EnterStep
<1>7. \A p2 : Goes(Joined(s, f, w), s, p2) = Goes(w, c, pc)
  BY <1>4, <1>5, GoesJoined DEF Held
<1>8. Goes(w, c, pc) = Goes(ws, ctx, pc)
  <2>1. PICK v : v = ws
    OBVIOUS
  <2>2. Nested(v, c) /\ SameLinks(w, v)
    BY <2>1, <1>1 DEF ServiceInv, Held
  <2>3. Goes(w, c, pc) = Goes(v, c, pc)
    BY <2>2, <1>4, GoesSame
  <2> QED BY <2>1, <2>3, <1>1
<1>9. s \notin {"program", "monitor"}
  BY DEF Services, Terminal, Paging, Stackers, Handlers
<1>10. s # "INT2" => Onward(s, At("start"))
  BY <1>9 DEF Onward, At
<1> QED BY <1>1, <1>3, <1>4, <1>6, <1>7, <1>8, <1>9, <1>10

\* A service calls a terminal service.
LEMMA XopStep ==
    ASSUME ServiceInv, NEW s \in {"WRITE", "READ", "MESG", "WHEX"}, NEW ea, NEW own, NEW next,
           Own(own), Xop(s, ea, own, next), Quietly,
           Rank(ctx) < Rank(s), Onward(ctx, next),
           s = "READ" => ctx = "RHEX" /\ ea = <<"RHEX", "r10">>
    PROVE  ServiceInv' /\ SameView
<1>1. PICK w : w = [ws EXCEPT ![ctx] = own]
  OBVIOUS
<1>2. PICK f : f = Link(ea, next)
  OBVIOUS
<1>3. f.r11 = ea /\ f.r13 = ctx /\ f.r14 = next /\ f.r15 = st /\ DOMAIN f = Fields
  BY <1>2 DEF Link, Fresh, Fields
<1>4. st \in Status /\ st.mask \in Int /\ ctx \notin {"program", "monitor"} /\ ctx \in DOMAIN ws
  BY Running DEF Own
<1>5. Owned(s, f, reg[SP])
  BY <1>3, <1>4 DEF Owned, Destined, Stackers
<1>6. SameLinks(w, ws) /\ Held(w, ctx, st.mask, reg[SP])
  <2>1. PICK v : v = ws
    OBVIOUS
  <2>2. PICK c : c = ctx
    OBVIOUS
  <2>3. PICK m : m = st.mask
    OBVIOUS
  <2>4. PICK top : top = reg[SP]
    OBVIOUS
  <2>5. Held(v, c, m, top) /\ c \in DOMAIN v /\ Owned(c, own, top)
        /\ own.r13 = v[c].r13 /\ own.r14 = v[c].r14 /\ own.r15 = v[c].r15
    BY <2>1, <2>2, <2>3, <2>4 DEF ServiceInv, Own, my
  <2>6. /\ SameLinks([v EXCEPT ![c] = own], v)
        /\ Held([v EXCEPT ![c] = own], c, m, top)
    BY <2>5, SameStep
  <2> QED BY <2>1, <2>2, <2>3, <2>4, <2>6, <1>1
<1>7. s \in Services /\ s \notin Handlers /\ s # "INT2"
  BY DEF Services, Terminal, Handlers
<1>8. ws' = Joined(s, f, w) /\ ctx' = s /\ st' = st /\ pc' = At("start")
  BY <1>1, <1>2 DEF Xop
<1>9. /\ ctx # "monitor" /\ ctx' # "monitor"
      /\ Held(ws', ctx', st'.mask, reg[SP]) /\ Onward(ctx', pc')
      /\ Goes(ws', ctx', pc') = Goes(ws, ctx, pc)
  BY <1>3, <1>4, <1>5, <1>6, <1>7, <1>8, EnterHolds
<1> QED BY <1>4, <1>8, <1>9, QuietStep

-----------------------------------------------------------------------------
\* The terminal services.

StackStep == SameView \/ Stack!Next

\* The program's own services do not call each other.
LEMMA RankOne ==
    ASSUME ServiceInv, ctx \in DOMAIN ws, ctx \notin Handlers \cup {"READ", "WRITE", "MESG", "WHEX", "RHEX"}
    PROVE  my.r13 = "program"
<1>1. Rank(ctx) = 1
  BY DEF Rank, Handlers
<1>2. \A t : ~(Rank(t) < 1)
  BY DEF Rank
<1>3. my.r13 = "program" \/ Under(my.r13, ctx, ws)
  BY DEF ServiceInv, Held, Nested, my
<1> QED BY <1>1, <1>2, <1>3 DEF Under

\* WRITE, one character.
LEMMA XOP12Step ==
    ASSUME ServiceInv, XOP12 PROVE ServiceInv' /\ StackStep
<1>1. ctx \in DOMAIN ws /\ RTWP(my) /\ Quietly
  BY Running DEF XOP12, Rest, Quietly
<1> QED BY <1>1, RTWPReturns, ReturnStep DEF StackStep

\* MESG prints with WRITE until the zero.
LEMMA XOP14Step ==
    ASSUME ServiceInv, XOP14 PROVE ServiceInv' /\ StackStep
<1>1. ctx = "MESG" /\ ctx \in DOMAIN ws /\ Quietly
  BY Running DEF XOP14, Rest, Quietly
<1>2. CASE my.r11 = <<>>
  <2>1. RTWP(my)
    BY <1>2 DEF XOP14
  <2> QED BY <1>1, <2>1, RTWPReturns, ReturnStep DEF StackStep
<1>3. CASE my.r11 # <<>>
  <2>1. PICK own : own = [my EXCEPT !.r12 = High(Head(my.r11)), !.r11 = Tail(@)]
    OBVIOUS
  <2>2. Xop("WRITE", <<"MESG", "r12">>, own, At("start"))
    BY <1>3, <2>1 DEF XOP14
  <2>3. Owned(ctx, my, reg[SP])
    BY <1>1, Running DEF my
  <2>4. Own(own)
    BY <1>1, <2>1, <2>3 DEF Own, Owned, Fields, Stackers
  <2>5. Rank(ctx) < Rank("WRITE")
    BY <1>1 DEF Rank
  <2>6. Onward(ctx, At("start"))
    BY <1>1 DEF Onward, At
  <2> QED BY <1>1, <2>2, <2>4, <2>5, <2>6, XopStep DEF StackStep
<1> QED BY <1>2, <1>3

\* WHEX prints four digits with WRITE.
LEMMA XOP10Step ==
    ASSUME ServiceInv, XOP10 PROVE ServiceInv' /\ StackStep
<1>1. ctx = "WHEX" /\ ctx \in DOMAIN ws /\ Quietly
  BY Running DEF XOP10, Rest, Quietly
<1>2. Owned(ctx, my, reg[SP])
  BY <1>1, Running DEF my
<1>3. ASSUME NEW v, NEW u, NEW own, own = [my EXCEPT !.r12 = v, !.r9 = u], Goto(own, "digit")
      PROVE  ServiceInv' /\ StackStep
  <2>1. Own(own)
    BY <1>1, <1>2, <1>3 DEF Own, Owned, Fields, Stackers
  <2> QED BY <1>1, <1>3, <2>1, GotoStep DEF StackStep
<1>4. CASE pc.at = "digit"
  <2>1. PICK own : own = [my EXCEPT !.r8 = High(TopDigit(my.r12))]
    OBVIOUS
  <2>2. Xop("WRITE", <<"WHEX", "r8">>, own, At("next"))
    BY <1>4, <2>1 DEF XOP10
  <2>3. Own(own)
    BY <1>1, <1>2, <2>1 DEF Own, Owned, Fields, Stackers
  <2>4. Rank(ctx) < Rank("WRITE")
    BY <1>1 DEF Rank
  <2>5. Onward(ctx, At("next"))
    BY <1>1 DEF Onward, At
  <2> QED BY <1>1, <2>2, <2>3, <2>4, <2>5, XopStep DEF StackStep
<1>5. CASE RTWP(my)
  BY <1>1, <1>5, RTWPReturns, ReturnStep DEF StackStep
<1>6. \/ pc.at = "digit" \/ RTWP(my)
      \/ \E v, u : Goto([my EXCEPT !.r12 = v, !.r9 = u], "digit")
  BY DEF XOP10
<1> QED BY <1>3, <1>4, <1>5, <1>6

\* A digit goes in from the right, and the word stays a word.
LEMMA ShiftedWord ==
    ASSUME NEW w \in Nat, NEW d \in Digit
    PROVE  Shifted(w, d) \in Word
<1>1. PICK b \in Nat : b = Base /\ b > 1
  BY Constants
<1>2. PICK k \in Nat : k = b * b * b
  <2>1. b * b \in Nat
    BY <1>1
  <2>2. b * b * b \in Nat
    BY <2>1
  <2> QED BY <2>2
<1>3. Byte * Byte = b * k /\ b * k \in Nat /\ b * k > 0
  BY <1>1, <1>2, Constants DEF Byte
<1>4. PICK u : u = (w * b) % (b * k)
  OBVIOUS
<1>5. w * b \in Nat
  OBVIOUS
<1>6. u \in 0 .. b * k - 1 /\ \E q \in Int : w * b = (b * k) * q + u
  <2>1. \A x1 \in Nat, y1 \in Nat : y1 > 0 => x1 % y1 \in 0 .. y1 - 1 /\ x1 = y1 * (x1 \div y1) + (x1 % y1) /\ x1 \div y1 \in Int
    OBVIOUS
  <2>2. u \in 0 .. b * k - 1 /\ w * b = (b * k) * ((w * b) \div (b * k)) + u /\ (w * b) \div (b * k) \in Int
    BY <2>1, <1>3, <1>4, <1>5
  <2> QED BY <2>2
<1>7. PICK q \in Int : w * b = (b * k) * q + u
  BY <1>6
<1>8. PICK e \in Int : e = w - k * q
  OBVIOUS
<1>9. u = b * e
  BY <1>6, <1>7, <1>8
<1>10. e < k
  <2>1. SUFFICES ASSUME e >= k PROVE FALSE
    OBVIOUS
  <2>2. b * e >= b * k
    BY <2>1, <1>1
  <2> QED BY <2>2, <1>6, <1>9, <1>3
<1>11. b * e <= b * k - b
  <2>1. e <= k - 1
    BY <1>10
  <2>2. b * e <= b * (k - 1)
    BY <2>1, <1>1
  <2>3. b * (k - 1) = b * k - b
    OBVIOUS
  <2> QED BY <2>2, <2>3
<1>12. Shifted(w, d) = u + d
  BY <1>1, <1>3, <1>4 DEF Shifted
<1>13. d \in 0 .. b - 1
  BY <1>1 DEF Digit
<1>14. u + d \in 0 .. b * k - 1
  BY <1>1, <1>3, <1>6, <1>9, <1>11, <1>13
<1> QED BY <1>3, <1>12, <1>14 DEF Word

\* A service that stores v for its caller: a register of the program is set, or
\* RHEX gets the character.
LEMMA AnswerStep ==
    ASSUME ServiceInv, ctx \in {"READ", "RHEX"}, NEW v \in Word, Answer(v),
           stk' = stk, line' \in {line, Tail(line)}, line' = line \/ line # <<>>
    PROVE  ServiceInv' /\ StackStep
<1>1. ctx \in DOMAIN ws /\ Owned(ctx, my, reg[SP]) /\ st' = my.r15
  BY Running DEF my, Answer
<1>2. Destined(ctx, my)
  BY <1>1 DEF Owned
<1>3. st' \in Status /\ ctx' = my.r13 /\ pc' = my.r14
  BY <1>1 DEF Owned, Answer
<1>4. CASE my.r13 = "program" /\ \E i \in 0 .. SP - 1 : my.r11 = <<"register", i>>
  <2>1. PICK i \in 0 .. SP - 1 : my.r11 = <<"register", i>>
    BY <1>4
  <2>2. reg' = [reg EXCEPT ![i] = v] /\ ws' = Left(ctx)
    BY <2>1 DEF Answer
  <2>3. Returns
    BY <1>1, <1>3, <2>2 DEF Returns
  <2>4. /\ ctx # "monitor" /\ ctx' # "monitor" /\ ctx' = "program"
        /\ Held(ws', ctx', st'.mask, reg[SP]) /\ Onward(ctx', pc')
    BY <1>3, <1>4, <2>3, ReturnHolds
  <2>5. PICK r \in [0 .. SP -> Word] : r = reg
    BY DEF ServiceInv, Registers
  <2>6. PICK r2 : r2 = reg'
    OBVIOUS
  <2>7. r2 = [r EXCEPT ![i] = v]
    BY <2>2, <2>5, <2>6
  <2>8. r2 \in [0 .. SP -> Word] /\ r2[SP] = r[SP]
    BY <2>5, <2>7, Constants
  <2>9. GeneralOf(r2) = [GeneralOf(r) EXCEPT ![i] = v]
    <3>1. \A j \in 0 .. SP - 1 : r2[j] = IF j = i THEN v ELSE r[j]
      BY <2>5, <2>7, Constants
    <3> QED BY <3>1 DEF GeneralOf
  <2>10. \A k : StackOf(r2, k) = StackOf(r, k)
    BY <2>8 DEF StackOf
  <2>11. line' \in Seq(Character) /\ Readable(line')
    <3>1. PICK s : s = line
      OBVIOUS
    <3>2. PICK s2 : s2 = line'
      OBVIOUS
    <3>3. s \in Seq(Character) /\ s2 \in {s, Tail(s)} /\ (s2 = s \/ s # <<>>) /\ Readable(s)
      BY <2>4, <3>1, <3>2 DEF ServiceInv
    <3> QED BY <3>1, <3>2, <3>3, LineStep
  <2>12. ServiceInv'
    BY <1>3, <2>4, <2>5, <2>6, <2>8, <2>11 DEF ServiceInv, Registers
  <2>13. Goes(ws', ctx', pc') \in Word
    BY <2>4 DEF Goes, Onward
  <2>14. Stack!Next
    BY <2>1, <2>5, <2>6, <2>9, <2>10, <2>13, SetView
  <2> QED BY <2>12, <2>14 DEF StackStep
<1>5. CASE ctx = "READ" /\ my.r13 = "RHEX" /\ my.r11 = <<"RHEX", "r10">>
  <2>1. reg' = reg /\ ws' = [Left(ctx) EXCEPT !["RHEX"]["r10"] = v]
    BY <1>5 DEF Answer
  <2>2. PICK w : w = ws
    OBVIOUS
  <2>3. PICK c : c = ctx
    OBVIOUS
  <2>4. PICK top : top = reg[SP]
    OBVIOUS
  <2>5. c \in DOMAIN w /\ Held(w, c, st.mask, top) /\ w[c].r13 = "RHEX" /\ w[c] = my
    BY <1>1, <1>5, <2>2, <2>3, <2>4 DEF ServiceInv, my
  <2>6. PICK m : m = w[c].r15.mask
    OBVIOUS
  <2>7. PICK left1 : left1 = Without(c, w)
    OBVIOUS
  <2>8. Held(left1, "RHEX", m, top)
    BY <2>5, <2>6, <2>7, LeaveStep
  <2>9. Goes(left1, "RHEX", w[c].r14) = Goes(w, c, pc)
    BY <2>5, <2>7, GoesLeft DEF Held
  <2>10. "RHEX" \in DOMAIN left1
    BY <2>8 DEF Held, Nested
  <2>11. PICK own : own = [left1["RHEX"] EXCEPT !["r10"] = v]
    OBVIOUS
  <2>12. Owned("RHEX", left1["RHEX"], top)
    BY <2>8, <2>10 DEF Held
  <2>13. own.r13 = left1["RHEX"].r13 /\ own.r14 = left1["RHEX"].r14 /\ own.r15 = left1["RHEX"].r15
         /\ own.r11 = left1["RHEX"].r11 /\ own.r12 = left1["RHEX"].r12 /\ DOMAIN own = Fields
    BY <2>11, <2>12 DEF Owned, Fields
  <2>14. Owned("RHEX", own, top)
    BY <2>12, <2>13 DEF Owned, Destined
  <2>15. PICK w2 : w2 = [left1 EXCEPT !["RHEX"] = own]
    OBVIOUS
  <2>16. SameLinks(w2, left1) /\ Held(w2, "RHEX", m, top)
    BY <2>8, <2>10, <2>13, <2>14, <2>15, SameStep
  <2>17. \A p2 : Goes(w2, "RHEX", p2) = Goes(left1, "RHEX", w[c].r14)
    BY <2>8, <2>16, GoesSame DEF Held
  <2>18. ws' = w2
    BY <2>1, <2>2, <2>3, <2>7, <2>11, <2>15, LeftIs
  <2>19. ctx' = "RHEX" /\ st'.mask = m /\ Onward(ctx', pc')
    BY <1>1, <1>3, <2>5, <2>6 DEF Owned
  <2>20. Quietly /\ ctx # "monitor"
    BY <1>5, <2>1 DEF Quietly
  <2> QED BY <1>3, <2>2, <2>3, <2>4, <2>9, <2>16, <2>17, <2>18, <2>19, <2>20, QuietStep DEF StackStep
<1> QED BY <1>2, <1>4, <1>5 DEF Destined

\* READ stores the character.
LEMMA XOP13Step ==
    ASSUME ServiceInv, XOP13 PROVE ServiceInv' /\ StackStep
<1>1. ctx = "READ" /\ line # <<>> /\ Answer(High(Head(line).ch)) /\ line' = Tail(line) /\ stk' = stk
  BY DEF XOP13
<1>2. Head(line).ch \in 0 .. Byte - 1
  <2>1. PICK s \in Seq(Character) : s = line /\ s # <<>> /\ Readable(s)
    BY <1>1 DEF ServiceInv
  <2>2. Head(s) = s[1] /\ 1 \in DOMAIN s
    BY <2>1
  <2> QED BY <2>1, <2>2 DEF Readable
<1>3. \A b \in Nat : \A u \in 0 .. b - 1 : u * b \in 0 .. b * b - 1
  <2>1. ASSUME NEW b \in Nat, NEW u \in 0 .. b - 1 PROVE u * b \in 0 .. b * b - 1
    <3>1. u <= b - 1 /\ u >= 0 /\ b > 0
      OBVIOUS
    <3>2. u * b >= 0
      BY <3>1
    <3>3. u * b <= (b - 1) * b
      BY <3>1
    <3>4. (b - 1) * b = b * b - b
      OBVIOUS
    <3> QED BY <3>1, <3>2, <3>3, <3>4
  <2> QED BY <2>1
<1>4. High(Head(line).ch) \in Word
  BY <1>2, <1>3, Constants DEF High, Word
<1> QED BY <1>1, <1>4, AnswerStep

\* RHEX reads digits with READ until something else ends the number.
LEMMA XOP11Step ==
    ASSUME ServiceInv, XOP11 PROVE ServiceInv' /\ StackStep
<1>1. ctx = "RHEX" /\ ctx \in DOMAIN ws /\ stk' = stk /\ line' = line
  BY Running DEF XOP11, Rest
<1>2. Owned(ctx, my, reg[SP]) /\ my.r12 \in Word
  BY <1>1, Running DEF my, Owned
<1>3. Own(my)
  BY <1>1, <1>2 DEF Own
<1>4. Rank(ctx) < Rank("WRITE") /\ Rank(ctx) < Rank("READ")
  BY <1>1 DEF Rank
<1>5. Onward(ctx, At("echo")) /\ Onward(ctx, At("check"))
  BY <1>1 DEF Onward, At
<1>6. CASE pc.at = "start" /\ Xop("READ", <<"RHEX", "r10">>, my, At("echo")) /\ UNCHANGED reg
  <2>1. Quietly
    BY <1>1, <1>6 DEF Quietly
  <2> QED BY <1>1, <1>3, <1>4, <1>5, <1>6, <2>1, XopStep DEF StackStep
<1>7. CASE pc.at = "echo" /\ Xop("WRITE", <<"RHEX", "r10">>, my, At("check")) /\ UNCHANGED reg
  <2>1. Quietly
    BY <1>1, <1>7 DEF Quietly
  <2> QED BY <1>1, <1>3, <1>4, <1>5, <1>7, <2>1, XopStep DEF StackStep
<1>8. ASSUME NEW d \in Digit, Goto([my EXCEPT !.r12 = Shifted(@, d)], "start"), UNCHANGED reg
      PROVE  ServiceInv' /\ StackStep
  <2>1. Quietly
    BY <1>1, <1>8 DEF Quietly
  <2>2. PICK own : own = [my EXCEPT !.r12 = Shifted(@, d)]
    OBVIOUS
  <2>3. Shifted(my.r12, d) \in Word
    BY <1>2, ShiftedWord, Constants
  <2>4. own.r12 = Shifted(my.r12, d) /\ own.r11 = my.r11 /\ own.r13 = my.r13 /\ own.r14 = my.r14
        /\ own.r15 = my.r15 /\ DOMAIN own = Fields
    BY <1>2, <2>2 DEF Owned, Fields
  <2>5. Own(own)
    BY <1>1, <1>2, <2>3, <2>4 DEF Own, Owned, Stackers, Destined
  <2> QED BY <1>1, <1>8, <2>1, <2>2, <2>5, GotoStep DEF StackStep
<1>9. CASE Answer(my.r12)
  BY <1>1, <1>2, <1>9, AnswerStep
<1>10. \/ pc.at = "start" /\ Xop("READ", <<"RHEX", "r10">>, my, At("echo")) /\ UNCHANGED reg
       \/ pc.at = "echo" /\ Xop("WRITE", <<"RHEX", "r10">>, my, At("check")) /\ UNCHANGED reg
       \/ \E d \in Digit : Goto([my EXCEPT !.r12 = Shifted(@, d)], "start") /\ UNCHANGED reg
       \/ Answer(my.r12)
  BY DEF XOP11
<1> QED BY <1>6, <1>7, <1>8, <1>9, <1>10

\* A listing prints with MESG and WHEX only.
LEMMA ItemStep ==
    ASSUME ServiceInv, ctx \in {"DEBUG", "INT2"}, NEW list,
           pc.n \in Nat \ {0}, list[pc.n][1] \in {"MESG", "WHEX"}, Item(list), Quietly
    PROVE  ServiceInv' /\ StackStep
<1>1. ctx \in DOMAIN ws /\ Owned(ctx, my, reg[SP])
  BY Running DEF my
<1>2. Own(my)
  BY <1>1 DEF Own
<1>3. PICK s \in {"MESG", "WHEX"} : s = list[pc.n][1]
  OBVIOUS
<1>4. PICK ea : ea = list[pc.n][2]
  OBVIOUS
<1>5. PICK next : next = [pc EXCEPT !.n = @ + 1]
  OBVIOUS
<1>6. Xop(s, ea, my, next)
  BY <1>3, <1>4, <1>5 DEF Item
<1>7. Rank(ctx) < Rank(s)
  BY DEF Rank
<1>8. Onward(ctx, next)
  <2>1. DOMAIN pc = {"at", "n"}
    BY DEF ServiceInv, Onward
  <2>2. DOMAIN next = {"at", "n"} /\ next.n = pc.n + 1
    BY <1>5, <2>1
  <2> QED BY <2>2 DEF Onward
<1> QED BY <1>2, <1>6, <1>7, <1>8, XopStep DEF StackStep

\* One sequence after two elements, element by element.
LEMMA TwoThen ==
    ASSUME NEW a, NEW b, NEW k \in Nat, a = <<a[1], a[2]>>, b = [i \in 1 .. k |-> b[i]]
    PROVE  /\ Len(a \o b) = k + 2
           /\ \A i \in 1 .. k + 2 : (a \o b)[i] = IF i <= 2 THEN a[i] ELSE b[i - 2]
<1> DEFINE u == {a[1], a[2]} \cup {b[i] : i \in 1 .. k}
<1>1. a \in Seq(u) /\ Len(a) = 2
  <2>1. <<a[1], a[2]>> \in Seq(u) /\ Len(<<a[1], a[2]>>) = 2
    OBVIOUS
  <2> QED BY <2>1
<1>2. b \in Seq(u) /\ Len(b) = k
  <2>1. b \in [1 .. k -> u]
    OBVIOUS
  <2> QED BY <2>1, LenProperties
<1> HIDE DEF u
<1>3. /\ Len(a \o b) = Len(a) + Len(b)
      /\ \A i \in 1 .. Len(a) + Len(b) : (a \o b)[i] = IF i <= Len(a) THEN a[i] ELSE b[i - Len(a)]
  BY <1>1, <1>2, ConcatProperties
<1> QED BY <1>1, <1>2, <1>3

\* DEBUG's listing prints with MESG and WHEX, an item at a time.
LEMMA XOP15Step ==
    ASSUME ServiceInv, XOP15 PROVE ServiceInv' /\ StackStep
<1>1. ctx = "DEBUG" /\ ctx \in DOMAIN ws /\ Quietly
  BY Running DEF XOP15, Quietly
<1>2. CASE /\ pc.at = "start"
           /\ pc' = [at |-> "list", n |-> 1]
           /\ UNCHANGED <<ctx, st, ws>>
  <2>1. Onward(ctx', pc')
    BY <1>1, <1>2 DEF Onward
  <2>2. Goes(ws', ctx', pc') = Goes(ws, ctx, pc)
    BY <1>1, <1>2 DEF Goes
  <2>3. Held(ws', ctx', st'.mask, reg[SP]) /\ st' \in Status /\ ctx' # "monitor"
    BY <1>1, <1>2 DEF ServiceInv
  <2> QED BY <1>1, <2>1, <2>2, <2>3, QuietStep DEF StackStep
<1>3. CASE pc.at = "list" /\ pc.n <= Len(Listing) /\ Item(Listing)
  <2>1. pc.n \in Nat \ {0}
    BY <1>1, <1>3 DEF ServiceInv, Onward
  <2>2. PICK a : a = <<<<"MESG", my.r11>>, <<"WHEX", <<"stack", reg[SP]>>>>>>
    OBVIOUS
  <2>3. PICK b : b = [i \in 1 .. SP + 2 |-> <<"WHEX", <<"buffer", i - 1>>>>]
    OBVIOUS
  <2>4. Listing = a \o b
    BY <2>2, <2>3 DEF Listing
  <2>5. a = <<a[1], a[2]>> /\ a[1][1] = "MESG" /\ a[2][1] = "WHEX"
    BY <2>2
  <2>6. PICK k \in Nat : k = SP + 2
    BY Constants
  <2>7. DOMAIN b = 1 .. k /\ b = [i \in 1 .. k |-> b[i]] /\ \A i \in 1 .. k : b[i][1] = "WHEX"
    BY <2>3, <2>6
  <2>8. /\ Len(a \o b) = k + 2
        /\ \A i \in 1 .. k + 2 : (a \o b)[i] = IF i <= 2 THEN a[i] ELSE b[i - 2]
    BY <2>5, <2>6, <2>7, TwoThen
  <2>9. pc.n \in 1 .. k + 2
    BY <1>3, <2>1, <2>4, <2>8
  <2>10. Listing[pc.n][1] \in {"MESG", "WHEX"}
    <3>1. CASE pc.n <= 2
      <4>1. pc.n = 1 \/ pc.n = 2
        BY <2>1, <3>1
      <4> QED BY <2>4, <2>5, <2>8, <2>9, <3>1, <4>1
    <3>2. CASE pc.n > 2
      <4>1. pc.n - 2 \in 1 .. k
        BY <2>6, <2>9, <3>2
      <4>2. Listing[pc.n] = b[pc.n - 2]
        BY <2>4, <2>8, <2>9, <3>2
      <4> QED BY <2>7, <4>1, <4>2
    <3> QED BY <2>1, <3>1, <3>2
  <2> QED BY <1>1, <1>3, <2>1, <2>10, ItemStep
<1>4. CASE RTWP(my)
  BY <1>1, <1>4, RTWPReturns, ReturnStep DEF StackStep
<1> QED BY <1>2, <1>3, <1>4 DEF XOP15

\* The handler of a crash prints with WHEX.
LEMMA INT2Step ==
    ASSUME ServiceInv, INT2_HANDLER PROVE ServiceInv' /\ StackStep
<1>1. ctx = "INT2" /\ pc.n <= Len(Report) /\ Item(Report) /\ Quietly
  BY DEF INT2_HANDLER, Rest, Quietly
<1>2. pc.n \in Nat \ {0}
  BY <1>1 DEF ServiceInv, Onward
<1>3. Len(Report) = 2 /\ Report[1][1] = "WHEX" /\ Report[2][1] = "WHEX"
  BY DEF Report
<1>4. pc.n = 1 \/ pc.n = 2
  BY <1>1, <1>2, <1>3
<1> QED BY <1>1, <1>2, <1>3, <1>4, ItemStep

\* The page services change the status word they go back to.
LEMMA XOP0_1Step ==
    ASSUME ServiceInv, XOP0_1 PROVE ServiceInv' /\ StackStep
<1>1. ctx \in DOMAIN ws /\ Quietly
  BY Running DEF XOP0_1, Rest, Quietly, Paging
<1>2. Owned(ctx, my, reg[SP])
  BY <1>1, Running DEF my
<1>3. PICK b : b = (ctx = "PSEL_EN") /\ b \in BOOLEAN
  OBVIOUS
<1>4. PICK w : w = [my EXCEPT !.r15.psel = b]
  OBVIOUS
<1>5. RTWP(w)
  BY <1>3, <1>4 DEF XOP0_1
<1>6. w.r13 = my.r13 /\ w.r14 = my.r14 /\ w.r15 = [my.r15 EXCEPT !.psel = b]
  BY <1>2, <1>4 DEF Owned, Fields
<1>7. my.r15 \in Status
  BY <1>2 DEF Owned
<1>8. w.r15 \in Status /\ w.r15.mask = my.r15.mask
  BY <1>3, <1>6, <1>7 DEF Status
<1>9. Returns
  BY <1>1, <1>5, <1>6, <1>8 DEF Returns, RTWP
<1> QED BY <1>1, <1>9, ReturnStep DEF StackStep

\* A handler goes back with RTWP.
LEMMA HandlerStep ==
    ASSUME ServiceInv, INTTIMER \/ IDE_IRQ PROVE ServiceInv' /\ StackStep
<1>1. ctx \in DOMAIN ws /\ Quietly /\ RTWP(my)
  BY Running DEF INTTIMER, IDE_IRQ, Rest, Quietly
<1> QED BY <1>1, RTWPReturns, ReturnStep DEF StackStep

\* An interrupt is taken only where the mask admits it, and its handler runs on top.
LEMMA InterruptStep ==
    ASSUME ServiceInv, NEW n \in 4 .. 6, NEW h, Interrupt(n, h),
           h = IF n = 4 THEN "INTTIMER" ELSE IF n = 5 THEN "IDE_IRQ" ELSE "IDE_DMARQ"
    PROVE  ServiceInv' /\ StackStep
<1>1. h \in Handlers /\ h \in Services /\ Level(h) = n /\ h \notin Stackers /\ h \notin {"READ", "RHEX", "INT2", "DEBUG", "program", "monitor"}
  BY DEF Handlers, Services, Stackers, Level, Rank
<1>2. ctx # "monitor" /\ n <= st.mask /\ Quietly
  BY DEF Interrupt, Quietly
<1>3. st \in Status /\ st.mask \in Int
  BY Running
<1>4. st' \in Status /\ st'.mask = n - 1
  BY <1>3 DEF Interrupt, Status
<1>5. PICK f : f = Link(0, pc)
  OBVIOUS
<1>6. f.r13 = ctx /\ f.r14 = pc /\ f.r15 = st /\ DOMAIN f = Fields
  BY <1>5 DEF Link, Fresh, Fields
<1>7. Owned(h, f, reg[SP])
  BY <1>1, <1>3, <1>6 DEF Owned, ServiceInv
<1>8. ws' = Joined(h, f, ws) /\ ctx' = h /\ pc' = At("start")
  BY <1>5 DEF Interrupt
<1>9. ctx # "program" => Rank(ctx) < Rank(h)
  <2> SUFFICES ASSUME ctx # "program" PROVE Rank(ctx) < Rank(h)
    OBVIOUS
  <2>1. ctx \in DOMAIN ws
    BY <1>2, Running
  <2>2. CASE ctx \in Handlers
    <3>1. st.mask < Level(ctx)
      BY <2>1, <2>2 DEF ServiceInv, Held, Masked
    <3>2. Level(h) < Level(ctx)
      BY <1>1, <1>2, <1>3, <3>1, RankType DEF Level
    <3> QED BY <3>2, RankType DEF Level
  <2>3. CASE ctx \notin Handlers
    BY <1>1, <2>3 DEF Rank, Handlers
  <2> QED BY <2>2, <2>3
<1>10. /\ Held(ws', ctx', st'.mask, reg[SP])
       /\ Goes(ws', ctx', pc') = Goes(ws, ctx, pc)
  <2>1. PICK w : w = ws
    OBVIOUS
  <2>2. PICK c : c = ctx
    OBVIOUS
  <2>3. PICK m : m = st.mask
    OBVIOUS
  <2>4. PICK top : top = reg[SP]
    OBVIOUS
  <2>5. PICK k \in Int : k = n - 1
    OBVIOUS
  <2>6. /\ Held(w, c, m, top) /\ m \in Int /\ c # "monitor" /\ (c # "program" => Rank(c) < Rank(h))
        /\ f.r13 = c /\ f.r15.mask = m /\ k <= m /\ k < Level(h) /\ Owned(h, f, top)
    BY <1>1, <1>2, <1>3, <1>6, <1>7, <1>9, <2>1, <2>2, <2>3, <2>4, <2>5 DEF ServiceInv
  <2>7. Held(Joined(h, f, w), h, k, top)
    BY <1>1, <2>6, EnterStep
  <2>8. Goes(Joined(h, f, w), h, At("start")) = IF c = "program" THEN f.r14.n ELSE Goes(w, c, pc)
    BY <1>1, <2>6, GoesJoined DEF Held
  <2>9. Goes(w, c, pc) = IF c = "program" THEN f.r14.n ELSE Goes(w, c, pc)
    BY <1>6 DEF Goes
  <2> QED BY <1>4, <1>8, <2>1, <2>2, <2>4, <2>5, <2>7, <2>8, <2>9
<1>11. Onward(ctx', pc')
  BY <1>1, <1>8 DEF Onward, At
<1>12. ctx' # "monitor"
  BY <1>1, <1>8
<1> QED BY <1>2, <1>4, <1>10, <1>11, <1>12, QuietStep DEF StackStep

\* The interrupts of the timer and of the drive.
LEMMA InterruptsStep ==
    ASSUME ServiceInv, TimerInterrupt \/ DriveInterrupt PROVE ServiceInv' /\ StackStep
<1>1. CASE TimerInterrupt
  BY <1>1, InterruptStep DEF TimerInterrupt
<1>2. CASE DriveInterrupt
  <2>1. PICK n \in Levels \ {4} : Interrupt(n, IF n = 5 THEN "IDE_IRQ" ELSE "IDE_DMARQ")
    BY <1>2 DEF DriveInterrupt
  <2>2. n \in 4 .. 6 /\ n # 4
    BY <2>1, Constants
  <2> QED BY <2>1, <2>2, InterruptStep
<1> QED BY <1>1, <1>2

-----------------------------------------------------------------------------
\* The program.

\* The word after an instruction wraps.
LEMMA AfterWord == ASSUME NEW p \in Word PROVE (p + 1) % (Byte * Byte) \in Word
<1>1. PICK n \in Nat : n = Byte * Byte /\ n > 0
  BY Constants
<1>2. \A k \in Nat : k % n \in 0 .. n - 1
  BY <1>1
<1>3. p + 1 \in Nat
  BY Constants
<1> QED BY <1>1, <1>2, <1>3 DEF Word

\* The program enters a service with an empty chain of workspaces.
LEMMA ProgramEnters ==
    ASSUME ServiceInv, ctx = "program", NEW s \in Services \ Handlers, NEW f,
           f.r13 = "program", f.r14.n \in Word, f.r15 = st, Owned(s, f, reg[SP]),
           ws' = Joined(s, f, ws), ctx' = s, st' \in Status, Onward(s, pc'),
           UNCHANGED <<reg, stk, line>>
    PROVE  ServiceInv' /\ StackStep
<1>1. PICK w : w = ws
  OBVIOUS
<1>2. PICK m \in Int : m = st.mask
  BY Running
<1>3. PICK top : top = reg[SP]
  OBVIOUS
<1>4. PICK n \in Int : n = st'.mask
  BY DEF Status
<1>5. Held(w, "program", m, top) /\ f.r15.mask = m /\ Owned(s, f, top)
  BY <1>1, <1>2, <1>3 DEF ServiceInv
<1>6. Held(Joined(s, f, w), s, n, top)
  <2>1. Held(Joined(s, f, w), s, m, top)
    BY <1>5, EnterStep
  <2>2. DOMAIN Joined(s, f, w) = {s}
    BY <1>5 DEF Held, Nested, Joined
  <2>3. Masked(Joined(s, f, w), n)
    BY <2>2 DEF Masked
  <2> QED BY <2>1, <2>3 DEF Held
<1>7. \A p2 : Goes(Joined(s, f, w), s, p2) = f.r14.n
  BY <1>5, GoesJoined DEF Held
<1>8. Held(ws', ctx', st'.mask, reg'[SP]) /\ Goes(ws', ctx', pc') \in Word
  BY <1>1, <1>3, <1>4, <1>6, <1>7
<1>9. s # "monitor"
  BY DEF Services, Terminal, Paging, Stackers, Handlers
<1>10. ServiceInv'
  BY <1>8, <1>9 DEF ServiceInv, Registers
<1>11. Stack!Next
  BY <1>8, JumpView
<1> QED BY <1>10, <1>11 DEF StackStep

\* The program calls a service through its XOP vector.
LEMMA CallsStep ==
    ASSUME ServiceInv, NEW s \in (Services \ Handlers) \ {"INT2"}, NEW ea, Calls(s, ea),
           s \in {"READ", "RHEX"} => \E i \in 0 .. SP - 1 : ea = <<"register", i>>,
           s \in Stackers => Reserved(s, ea, reg[SP])
    PROVE  ServiceInv' /\ StackStep
<1>1. PICK f : f = Link(ea, After(pc.n))
  OBVIOUS
<1>2. ctx = "program" /\ ws' = Joined(s, f, ws) /\ ctx' = s /\ pc' = At("start") /\ UNCHANGED <<st, reg, stk, line>>
  BY <1>1 DEF Calls, Does
<1>3. f.r11 = ea /\ f.r12 = 0 /\ f.r13 = "program" /\ f.r14 = After(pc.n) /\ f.r15 = st /\ DOMAIN f = Fields
  BY <1>1, <1>2 DEF Link, Fresh, Fields
<1>4. After(pc.n).n \in Word /\ DOMAIN After(pc.n) = {"at", "n"}
  BY <1>2, AfterWord DEF After, Position, ServiceInv, Onward
<1>5. Onward(f.r13, f.r14)
  BY <1>3, <1>4 DEF Onward
<1>6. st \in Status /\ st.mask \in Int
  BY Running
<1>7. Owned(s, f, reg[SP])
  BY <1>3, <1>5, <1>6, Constants DEF Owned, Destined
<1>8. Onward(s, At("start"))
  <2>1. s # "program"
    BY DEF Services, Terminal, Paging, Stackers, Handlers
  <2> QED BY <2>1 DEF Onward, At
<1> QED BY <1>2, <1>3, <1>4, <1>6, <1>7, <1>8, ProgramEnters

\* The program calls a terminal service.
LEMMA UsesTerminalStep ==
    ASSUME ServiceInv, UsesTerminal PROVE ServiceInv' /\ StackStep
<1>1. Terminal \subseteq (Services \ Handlers) \ {"INT2"} /\ Terminal \cap Stackers = {}
  BY DEF Services, Terminal, Stackers, Handlers
<1>2. ASSUME NEW s \in {"WHEX", "RHEX", "WRITE", "READ"}, NEW i \in 0 .. SP - 1, Calls(s, <<"register", i>>)
      PROVE  ServiceInv' /\ StackStep
  <2>1. s \in Terminal
    BY DEF Terminal
  <2>2. \E j \in 0 .. SP - 1 : <<"register", i>> = <<"register", j>>
    OBVIOUS
  <2> QED BY <1>1, <1>2, <2>1, <2>2, CallsStep
<1>3. ASSUME NEW s \in {"MESG", "DEBUG"}, NEW t \in Texts, Calls(s, t)
      PROVE  ServiceInv' /\ StackStep
  <2>1. s \in Terminal
    BY DEF Terminal
  <2> QED BY <1>1, <1>3, <2>1, CallsStep
<1> QED BY <1>2, <1>3 DEF UsesTerminal

\* The program calls a page service.
LEMMA PagesStep ==
    ASSUME ServiceInv, Pages PROVE ServiceInv' /\ StackStep
<1>1. Paging \subseteq (Services \ Handlers) \ {"INT2"} /\ Paging \cap Stackers = {}
      /\ \A s \in Paging : s \notin {"READ", "RHEX"}
  BY DEF Services, Paging, Stackers, Handlers
<1>2. PICK s \in Paging : Calls(s, 0)
  BY DEF Pages
<1> QED BY <1>1, <1>2, CallsStep

\* The program calls a stack service where the stack allows it.
LEMMA UsesStackStep ==
    ASSUME ServiceInv, UsesStack PROVE ServiceInv' /\ StackStep
<1>1. Stackers \subseteq (Services \ Handlers) \ {"INT2"} /\ \A s \in Stackers : s \notin {"READ", "RHEX"}
  BY DEF Services, Stackers, Handlers
<1>2. ASSUME NEW s \in Stackers, NEW a, Calls(s, a), Reserved(s, a, reg[SP])
      PROVE  ServiceInv' /\ StackStep
  BY <1>1, <1>2, CallsStep
<1>3. ASSUME NEW i \in 0 .. SP, Top > 0, Calls("PUSH", i) PROVE ServiceInv' /\ StackStep
  BY <1>2, <1>3 DEF Reserved, Stackers, Top
<1>4. ASSUME NEW i \in 0 .. SP, Top < Depth, Calls("POP", i) PROVE ServiceInv' /\ StackStep
  BY <1>2, <1>4 DEF Reserved, Stackers, Top
<1>5. ASSUME NEW i \in 0 .. SP, Top > i, Calls("PUSHREG", i) PROVE ServiceInv' /\ StackStep
  BY <1>2, <1>5 DEF Reserved, Stackers, Top
<1>6. ASSUME NEW i \in 0 .. SP, Top + i < Depth, Calls("POPREG", i) PROVE ServiceInv' /\ StackStep
  BY <1>2, <1>6 DEF Reserved, Stackers, Top
<1>7. ASSUME NEW p \in Values, Top > 0, Calls("CALL", p) PROVE ServiceInv' /\ StackStep
  <2>1. p \in Word
    BY Constants
  <2> QED BY <1>2, <1>7, <2>1 DEF Reserved, Stackers, Top
<1>8. ASSUME Top < Depth, Calls("RET", 0) PROVE ServiceInv' /\ StackStep
  BY <1>2, <1>8 DEF Reserved, Stackers, Top
<1> QED BY <1>3, <1>4, <1>5, <1>6, <1>7, <1>8 DEF UsesStack

\* The program crashes: INT2_HANDLER runs.
LEMMA CrashStep ==
    ASSUME ServiceInv, Crash PROVE ServiceInv' /\ StackStep
<1>1. PICK f : f = [Link(0, pc) EXCEPT !.r8 = TopDigit(pc.n)]
  OBVIOUS
<1>2. /\ ctx = "program" /\ ws' = Joined("INT2", f, ws) /\ ctx' = "INT2" /\ pc' = [at |-> "list", n |-> 1]
      /\ st' = [st EXCEPT !.mask = 1] /\ UNCHANGED <<reg, stk, line>>
  BY <1>1 DEF Crash, Does
<1>3. f.r13 = "program" /\ f.r14 = pc /\ f.r15 = st /\ DOMAIN f = Fields
  BY <1>1, <1>2 DEF Link, Fresh, Fields
<1>4. Onward("program", pc) /\ pc.n \in Word
  BY <1>2 DEF ServiceInv, Onward
<1>5. st \in Status /\ st.mask \in Int
  BY Running
<1>6. Owned("INT2", f, reg[SP])
  BY <1>3, <1>4, <1>5 DEF Owned, Stackers
<1>7. st' \in Status /\ st'.mask = 1
  BY <1>2, <1>5 DEF Status
<1>8. Onward("INT2", pc')
  BY <1>2 DEF Onward
<1>9. "INT2" \in Services \ Handlers
  BY DEF Services, Handlers
<1> QED BY <1>2, <1>3, <1>4, <1>6, <1>7, <1>8, <1>9, ProgramEnters

\* The program's own instructions.
LEMMA WorksStep ==
    ASSUME ServiceInv, Works PROVE ServiceInv' /\ StackStep
<1>1. /\ ctx = "program" /\ pc' = After(pc.n) /\ UNCHANGED <<ctx, st, ws, stk, line>>
      /\ \E i \in 0 .. SP - 1, v \in Values : reg' = [reg EXCEPT ![i] = v]
  BY DEF Works, Does
<1>2. PICK i \in 0 .. SP - 1, v \in Values : reg' = [reg EXCEPT ![i] = v]
  BY <1>1
<1>3. v \in Word
  BY Constants
<1>4. PICK r \in [0 .. SP -> Word] : r = reg
  BY DEF ServiceInv, Registers
<1>5. PICK r2 : r2 = reg'
  OBVIOUS
<1>6. r2 = [r EXCEPT ![i] = v]
  BY <1>2, <1>4, <1>5
<1>7. r2 \in [0 .. SP -> Word] /\ r2[SP] = r[SP]
  BY <1>3, <1>4, <1>6, Constants
<1>8. GeneralOf(r2) = [GeneralOf(r) EXCEPT ![i] = v]
  <2>1. \A j \in 0 .. SP - 1 : r2[j] = IF j = i THEN v ELSE r[j]
    BY <1>4, <1>6, Constants
  <2> QED BY <2>1 DEF GeneralOf
<1>9. \A k : StackOf(r2, k) = StackOf(r, k)
  BY <1>7 DEF StackOf
<1>10. pc'.n \in Word /\ Onward(ctx', pc')
  BY <1>1, AfterWord DEF After, Position, ServiceInv, Onward
<1>11. Goes(ws', ctx', pc') \in Word
  BY <1>1, <1>10 DEF Goes
<1>12. Stack!Next
  BY <1>1, <1>3, <1>4, <1>5, <1>8, <1>9, <1>11, SetView
<1>13. ServiceInv'
  BY <1>1, <1>4, <1>5, <1>7, <1>10 DEF ServiceInv, Registers
<1> QED BY <1>12, <1>13 DEF StackStep

-----------------------------------------------------------------------------
\* The stack as the program sees it.

\* The stack is small: its indices are words.
LEMMA DepthWords == \A i \in 0 .. Depth : i \in Word
<1>1. PICK b \in Nat : b = Byte * Byte
  BY Constants
<1>2. Depth \in 0 .. b - 1
  BY <1>1, Constants DEF Word
<1> QED BY <1>1, <1>2 DEF Word

\* The stack is what is at the top and above.
LEMMA StackWords ==
    ASSUME NEW r, NEW k \in [0 .. Depth -> Word], r[SP] \in 0 .. Depth
    PROVE  /\ StackOf(r, k) \in Seq(Word) /\ Len(StackOf(r, k)) = Depth - r[SP]
           /\ \A j \in 1 .. Depth - r[SP] : StackOf(r, k)[j] = k[r[SP] + j - 1]
<1>1. Depth \in Nat
  BY Constants
<1>2. PICK a : a = StackOf(r, k)
  OBVIOUS
<1>3. PICK t \in 0 .. Depth : t = r[SP]
  OBVIOUS
<1>4. a = [j \in 1 .. Depth - t |-> k[t + j - 1]]
  BY <1>2, <1>3 DEF StackOf
<1>5. Depth - t \in Nat
  BY <1>1
<1>6. \A j \in 1 .. Depth - t : t + j - 1 \in 0 .. Depth
  BY <1>1
<1>7. a \in [1 .. Depth - t -> Word]
  BY <1>4, <1>6
<1>8. a \in Seq(Word) /\ Len(a) = Depth - t /\ \A j \in 1 .. Depth - t : a[j] = k[t + j - 1]
  BY <1>4, <1>5, <1>7, LenProperties
<1> QED BY <1>2, <1>3, <1>8

\* Registers and stack after words were put below the top.
Lowered(r, words) == [r EXCEPT ![SP] = r[SP] - Len(words)]
Filled(r, k, words) ==
    [j \in 0 .. Depth |-> IF j \in r[SP] - Len(words) .. r[SP] - 1
                          THEN words[j - r[SP] + Len(words) + 1] ELSE k[j]]

\* The registers stay as they are when the stack grows.
LEMMA LoweredIs ==
    ASSUME NEW r \in [0 .. SP -> Word], r[SP] \in 0 .. Depth,
           NEW words \in Seq(Word), Len(words) <= r[SP]
    PROVE  /\ Lowered(r, words) \in [0 .. SP -> Word]
           /\ Lowered(r, words)[SP] = r[SP] - Len(words)
           /\ r[SP] - Len(words) \in 0 .. Depth
           /\ GeneralOf(Lowered(r, words)) = GeneralOf(r)
<1>1. Depth \in Nat /\ SP \in Nat
  BY Constants
<1>2. PICK n \in Nat : n = Len(words)
  OBVIOUS
<1>3. r[SP] - n \in 0 .. Depth
  BY <1>1, <1>2
<1>4. r[SP] - n \in Word
  BY <1>3, DepthWords
<1>5. PICK r2 : r2 = Lowered(r, words)
  OBVIOUS
<1>6. r2 = [r EXCEPT ![SP] = r[SP] - n]
  BY <1>2, <1>5 DEF Lowered
<1>7. r2[SP] = r[SP] - n /\ \A i \in 0 .. SP - 1 : r2[i] = r[i]
  BY <1>1, <1>6
<1>8. r2 \in [0 .. SP -> Word]
  BY <1>4, <1>6
<1>9. GeneralOf(r2) = GeneralOf(r)
  BY <1>7 DEF GeneralOf
<1> QED BY <1>2, <1>3, <1>5, <1>7, <1>8, <1>9

\* ... and when words are put in it.
LEMMA FilledIs ==
    ASSUME NEW r, NEW k \in [0 .. Depth -> Word], r[SP] \in 0 .. Depth,
           NEW words \in Seq(Word), Len(words) <= r[SP]
    PROVE  Filled(r, k, words) \in [0 .. Depth -> Word]
<1>1. PICK n \in Nat : n = Len(words)
  OBVIOUS
<1>2. PICK t \in 0 .. Depth : t = r[SP]
  OBVIOUS
<1>3. PICK k2 : k2 = Filled(r, k, words)
  OBVIOUS
<1>4. k2 = [j \in 0 .. Depth |-> IF j \in t - n .. t - 1 THEN words[j - t + n + 1] ELSE k[j]]
  BY <1>1, <1>2, <1>3 DEF Filled
<1>5. words \in [1 .. n -> Word]
  BY <1>1, LenProperties
<1>6. ASSUME NEW j \in 0 .. Depth PROVE k2[j] \in Word
  <2>1. CASE j \in t - n .. t - 1
    <3>1. j - t + n + 1 \in 1 .. n
      BY <1>1, <1>2, <2>1, Constants
    <3> QED BY <1>4, <1>5, <2>1, <3>1
  <2>2. CASE j \notin t - n .. t - 1
    BY <1>4, <2>2
  <2> QED BY <2>1, <2>2
<1>7. k2 \in [0 .. Depth -> Word]
  BY <1>4, <1>6
<1> QED BY <1>3, <1>7

\* The words that are put below the top come first on the stack.
LEMMA PushedStack ==
    ASSUME NEW r \in [0 .. SP -> Word], NEW k \in [0 .. Depth -> Word], r[SP] \in 0 .. Depth,
           NEW words \in Seq(Word), Len(words) <= r[SP]
    PROVE  StackOf(Lowered(r, words), Filled(r, k, words)) = words \o StackOf(r, k)
<1>0. Depth \in Nat
  BY Constants
<1>1. PICK n \in Nat : n = Len(words)
  OBVIOUS
<1>2. PICK t \in 0 .. Depth : t = r[SP]
  OBVIOUS
<1>20. n \in Int /\ t \in Int /\ 0 <= n /\ n <= t /\ t <= Depth
  BY <1>0, <1>1, <1>2
<1>3. PICK k2 : k2 = Filled(r, k, words)
  OBVIOUS
<1>4. k2 = [j \in 0 .. Depth |-> IF j \in t - n .. t - 1 THEN words[j - t + n + 1] ELSE k[j]]
  BY <1>1, <1>2, <1>3 DEF Filled
<1>5. PICK r2 : r2 = Lowered(r, words)
  OBVIOUS
<1>6. r2[SP] = t - n
  BY <1>1, <1>2, <1>5, LoweredIs
<1>7. PICK a : a = StackOf(r, k)
  OBVIOUS
<1>8. a \in Seq(Word) /\ Len(a) = Depth - t /\ \A j \in 1 .. Depth - t : a[j] = k[t + j - 1]
  BY <1>2, <1>7, StackWords
<1>9. PICK b : b = words \o a
  OBVIOUS
<1>10. PICK d \in Nat : d = n + (Depth - t)
  BY <1>1, <1>2, <1>0
<1>11. b \in Seq(Word) /\ Len(b) = d /\ \A i \in 1 .. d : b[i] = IF i <= n THEN words[i] ELSE a[i - n]
  <2>1. /\ b \in Seq(Word) /\ Len(b) = Len(words) + Len(a)
        /\ \A i \in 1 .. Len(words) + Len(a) : b[i] = IF i <= Len(words) THEN words[i] ELSE a[i - Len(words)]
    BY <1>8, <1>9, ConcatProperties
  <2>2. Len(words) = n /\ Len(words) + Len(a) = d
    BY <1>1, <1>8, <1>10
  <2> QED BY <2>1, <2>2
<1>12. PICK c : c = StackOf(r2, k2)
  OBVIOUS
<1>13. c = [j \in 1 .. d |-> k2[t - n + j - 1]]
  <2>1. Depth - (t - n) = d
    BY <1>0, <1>10, <1>20
  <2> QED BY <2>1, <1>6, <1>12 DEF StackOf
<1>14. ASSUME NEW j \in 1 .. d PROVE k2[t - n + j - 1] = b[j]
  <2>1. t - n + j - 1 \in 0 .. Depth
    BY <1>0, <1>10, <1>20
  <2>2. CASE j <= n
    <3>1. t - n + j - 1 \in t - n .. t - 1 /\ (t - n + j - 1) - t + n + 1 = j
      BY <1>0, <1>20, <2>2
    <3> QED BY <1>4, <1>11, <2>1, <2>2, <3>1
  <2>3. CASE j > n
    <3>1. t - n + j - 1 \notin t - n .. t - 1 /\ j - n \in 1 .. Depth - t /\ t + (j - n) - 1 = t - n + j - 1
      BY <1>0, <1>10, <1>20, <2>3
    <3>2. k2[t - n + j - 1] = k[t - n + j - 1]
      BY <1>4, <2>1, <3>1
    <3>3. a[j - n] = k[t + (j - n) - 1]
      BY <1>8, <3>1
    <3>4. b[j] = a[j - n]
      BY <1>1, <1>11, <2>3
    <3> QED BY <3>1, <3>2, <3>3, <3>4
  <2> QED BY <1>1, <2>2, <2>3
<1>15. b = [j \in 1 .. d |-> b[j]]
  BY <1>11
<1>16. c = b
  BY <1>13, <1>14, <1>15
<1> QED BY <1>3, <1>5, <1>7, <1>9, <1>12, <1>16

\* With the top further up, it is without its first words.
LEMMA StackRest ==
    ASSUME NEW r, NEW k \in [0 .. Depth -> Word], NEW r2,
           r[SP] \in 0 .. Depth, r2[SP] \in 0 .. Depth, r[SP] <= r2[SP]
    PROVE  StackOf(r2, k) = SubSeq(StackOf(r, k), r2[SP] - r[SP] + 1, Depth - r[SP])
<1>0. Depth \in Nat
  BY Constants
<1>1. PICK t \in 0 .. Depth : t = r[SP]
  OBVIOUS
<1>2. PICK e \in 0 .. Depth : e = r2[SP] /\ t <= e
  BY <1>1
<1>20. t \in Int /\ e \in Int /\ 0 <= t /\ t <= e /\ e <= Depth
  BY <1>0, <1>1, <1>2
<1>3. PICK lo \in Nat : lo = e - t + 1 /\ lo > 0
  BY <1>0, <1>20
<1>4. PICK hi \in Nat : hi = Depth - t
  BY <1>0
<1>5. PICK a : a = StackOf(r, k)
  OBVIOUS
<1>6. a \in Seq(Word) /\ Len(a) = hi /\ \A j \in 1 .. hi : a[j] = k[t + j - 1]
  <2>1. a \in Seq(Word) /\ Len(a) = Depth - t /\ \A j \in 1 .. Depth - t : a[j] = k[t + j - 1]
    BY <1>1, <1>5, StackWords
  <2>2. Depth - t = hi
    BY <1>4
  <2> QED BY <2>1, <2>2, Zenon
<1>7. StackOf(r2, k) = [j \in 1 .. Depth - e |-> k[e + j - 1]]
  BY <1>2 DEF StackOf
<1>8. SubSeq(a, lo, hi) = [j \in 1 .. hi - lo + 1 |-> a[j + lo - 1]]
  BY <1>6 DEF SubSeq
<1>9. hi - lo + 1 = Depth - e
  BY <1>0, <1>20, <1>3, <1>4
<1>10. ASSUME NEW j \in 1 .. Depth - e PROVE k[e + j - 1] = a[j + lo - 1]
  <2>1. j + lo - 1 \in 1 .. hi /\ t + (j + lo - 1) - 1 = e + j - 1
    BY <1>0, <1>20, <1>3, <1>4
  <2> QED BY <1>6, <2>1
<1>11. StackOf(r2, k) = SubSeq(a, lo, hi)
  BY <1>7, <1>8, <1>9, <1>10
<1> QED BY <1>1, <1>2, <1>3, <1>4, <1>5, <1>11

\* What POPREG does to the stack that the program sees.
LEMMA PopRegsView ==
    ASSUME NEW n \in 0 .. SP, NEW a, a = StackOf(reg, stk), n < Len(a),
           GeneralOf(reg') = [j \in 0 .. SP - 1 |-> IF j <= n THEN a[n + 1 - j] ELSE GeneralOf(reg)[j]],
           StackOf(reg', stk') = SubSeq(a, n + 2, Len(a)),
           Goes(ws', ctx', pc') = Goes(ws, ctx, pc)
    PROVE  Stack!Next
BY DEF Stack!Next, Stack!PopRegs, Stack!General, GeneralOf, StackOf, Goes, Outermost, Top

\* ... POP
LEMMA PopView ==
    ASSUME NEW n \in 0 .. SP, NEW a, a = StackOf(reg, stk), a # <<>>,
           GeneralOf(reg') = [j \in 0 .. SP - 1 |-> IF j = n THEN Head(a) ELSE GeneralOf(reg)[j]],
           StackOf(reg', stk') = Tail(a),
           Goes(ws', ctx', pc') = Goes(ws, ctx, pc)
    PROVE  Stack!Next
BY DEF Stack!Next, Stack!Pop, Stack!General, GeneralOf, StackOf, Goes, Outermost, Top

\* ... PUSH
LEMMA PushView ==
    ASSUME NEW n \in 0 .. SP,
           GeneralOf(reg') = GeneralOf(reg),
           StackOf(reg', stk') = <<Stack!Contents(n)>> \o StackOf(reg, stk),
           Goes(ws', ctx', pc') = Goes(ws, ctx, pc)
    PROVE  Stack!Next
BY DEF Stack!Next, Stack!Push, Stack!General, GeneralOf, StackOf, Goes, Outermost, Top

\* ... CALL
LEMMA CallView ==
    ASSUME GeneralOf(reg') = GeneralOf(reg),
           StackOf(reg', stk') = <<Goes(ws, ctx, pc)>> \o StackOf(reg, stk),
           Goes(ws', ctx', pc') \in Word
    PROVE  Stack!Next
BY DEF Stack!Next, Stack!Call, Stack!General, GeneralOf, StackOf, Goes, Outermost, Top

\* ... and RET.
LEMMA ReturnView ==
    ASSUME GeneralOf(reg') = GeneralOf(reg), NEW a, a = StackOf(reg, stk), a # <<>>,
           StackOf(reg', stk') = Tail(a),
           Goes(ws', ctx', pc') = Head(a)
    PROVE  Stack!Next
BY DEF Stack!Next, Stack!Return, Stack!General, GeneralOf, StackOf, Goes, Outermost, Top

-----------------------------------------------------------------------------
\* The stack services.

\* A stack service was called by the program, and goes back to it.
LEMMA StackerReturns ==
    ASSUME ServiceInv, ctx \in Stackers, NEW w, w.r13 = my.r13, w.r15 = my.r15, RTWP(w),
           DOMAIN w.r14 = {"at", "n"}, w.r14.n \in Word, Registers', line' = line
    PROVE  /\ ServiceInv'
           /\ Goes(ws', ctx', pc') = w.r14.n
           /\ Goes(ws, ctx, pc) = my.r14.n
<1>1. ctx \notin {"program", "monitor"} /\ ctx \notin Handlers \cup {"READ", "WRITE", "MESG", "WHEX", "RHEX"}
  BY DEF Stackers, Handlers
<1>2. ctx \in DOMAIN ws /\ Owned(ctx, my, reg[SP])
  BY <1>1, Running DEF my
<1>3. my.r13 = "program"
  BY <1>1, <1>2, RankOne
<1>4. ctx' = "program" /\ pc' = w.r14 /\ ws' = Left(ctx) /\ st' = my.r15 /\ st' \in Status
  BY <1>2, <1>3 DEF RTWP, Owned
<1>5. Goes(ws', ctx', pc') = w.r14.n
  BY <1>4 DEF Goes
<1>6. PICK v : v = ws
  OBVIOUS
<1>7. PICK c : c = ctx
  OBVIOUS
<1>8. Nested(v, c) /\ c \in DOMAIN v /\ v[c].r13 = "program" /\ v[c] = my
  BY <1>2, <1>3, <1>6, <1>7 DEF ServiceInv, Held, my
<1>9. Goes(v, c, pc) = my.r14.n
  <2>1. (CHOOSE t \in DOMAIN v : v[t].r13 = "program") = c
    BY <1>8, OneOutermost
  <2> QED BY <2>1, <1>1, <1>7, <1>8 DEF Goes
<1>10. DOMAIN Without(c, v) = {}
  <2>1. DOMAIN v = {c}
    BY <1>1, <1>7, <1>8, NestedLeft
  <2> QED BY <2>1 DEF Without
<1>11. ws' = Without(c, v)
  BY <1>4, <1>6, <1>7, LeftIs
<1>12. Held(ws', ctx', st'.mask, reg'[SP])
  BY <1>4, <1>10, <1>11 DEF Held, Nested, Masked
<1>13. Onward(ctx', pc')
  BY <1>4 DEF Onward
<1>14. line' \in Seq(Character) /\ Readable(line')
  BY <1>1 DEF ServiceInv
<1>15. ServiceInv'
  BY <1>4, <1>12, <1>13, <1>14 DEF ServiceInv
<1> QED BY <1>5, <1>6, <1>7, <1>9, <1>15

\* The common case: nothing is changed in the link.
LEMMA StackerBack ==
    ASSUME ServiceInv, ctx \in Stackers, RTWP(my), Registers', line' = line
    PROVE  /\ ServiceInv'
           /\ Goes(ws', ctx', pc') = Goes(ws, ctx, pc)
<1>1. ctx \notin {"program", "monitor"} /\ ctx \notin Handlers \cup {"READ", "WRITE", "MESG", "WHEX", "RHEX"}
  BY DEF Stackers, Handlers
<1>2. ctx \in DOMAIN ws /\ Owned(ctx, my, reg[SP])
  BY <1>1, Running DEF my
<1>3. my.r13 = "program"
  BY <1>1, <1>2, RankOne
<1>4. DOMAIN my.r14 = {"at", "n"} /\ my.r14.n \in Word
  BY <1>2, <1>3 DEF Owned, Onward
<1> QED BY <1>4, StackerReturns

\* The room that the program left for the service is still there when it runs.
LEMMA ReservedHere ==
    ASSUME ServiceInv, ctx \in Stackers
    PROVE  Reserved(ctx, my.r11, reg[SP]) /\ Stacker(ctx) => line' = line
<1>1. ctx \in DOMAIN ws
  BY Running DEF Stackers
<1> QED BY <1>1, Running DEF Owned, my, Stacker

\* The contents of consecutive registers.
LEMMA ContentsIs ==
    ASSUME ServiceInv
    PROVE  \A i \in 0 .. SP : Stack!Contents(i) = reg[i]
<1>1. PICK t \in 0 .. Depth : t = reg[SP]
  BY DEF ServiceInv, Registers
<1>2. Len(StackOf(reg, stk)) = Depth - t
  <2>1. PICK r : r = reg
    OBVIOUS
  <2>2. PICK k \in [0 .. Depth -> Word] : k = stk
    BY DEF ServiceInv, Registers
  <2>3. r[SP] = t
    BY <1>1, <2>1
  <2>4. Len(StackOf(r, k)) = Depth - r[SP]
    BY <2>3, StackWords
  <2> QED BY <2>1, <2>2, <2>3, <2>4
<1>3. Depth - (Depth - t) = t
  BY Constants
<1>4. \A i \in 0 .. SP : Stack!Contents(i) = IF i = SP THEN Depth - Len(StackOf(reg, stk)) ELSE reg[i]
  <2>1. \A i \in 0 .. SP : i # SP => i \in 0 .. SP - 1
    BY Constants
  <2>2. \A i \in 0 .. SP - 1 : [j \in 0 .. SP - 1 |-> reg[j]][i] = reg[i]
    OBVIOUS
  <2> QED BY <2>1, <2>2 DEF Stack!Contents, StackOf, Top
<1> QED BY <1>1, <1>2, <1>3, <1>4

\* What Pushes does, for words of the program's.
LEMMA PushesStep ==
    ASSUME ServiceInv, NEW words \in Seq(Word), Pushes(words), Len(words) <= reg[SP]
    PROVE  /\ Registers'
           /\ GeneralOf(reg') = GeneralOf(reg)
           /\ StackOf(reg', stk') = words \o StackOf(reg, stk)
<1>1. PICK r \in [0 .. SP -> Word] : r = reg /\ r[SP] \in 0 .. Depth
  BY DEF ServiceInv, Registers
<1>2. PICK k \in [0 .. Depth -> Word] : k = stk
  BY DEF ServiceInv, Registers
<1>4. PICK r2 : r2 = reg'
  OBVIOUS
<1>5. PICK k2 : k2 = stk'
  OBVIOUS
<1>6. Len(words) <= r[SP] /\ r[SP] \in 0 .. Depth
  BY <1>1
<1>7. r2 = Lowered(r, words) /\ k2 = Filled(r, k, words)
  BY <1>1, <1>2, <1>4, <1>5 DEF Pushes, Top, Lowered, Filled
<1>8. r2 \in [0 .. SP -> Word] /\ r2[SP] \in 0 .. Depth /\ GeneralOf(r2) = GeneralOf(r)
  BY <1>6, <1>7, LoweredIs
<1>9. k2 \in [0 .. Depth -> Word]
  BY <1>6, <1>7, FilledIs
<1>10. StackOf(r2, k2) = words \o StackOf(r, k)
  BY <1>6, <1>7, PushedStack
<1> QED BY <1>1, <1>2, <1>4, <1>5, <1>8, <1>9, <1>10 DEF Registers

\* PUSHREG puts the registers on the stack.
LEMMA XOP4Step ==
    ASSUME ServiceInv, XOP4 PROVE ServiceInv' /\ StackStep
<1>1. ctx = "PUSHREG" /\ ctx \in Stackers /\ line' = line /\ RTWP(my)
  BY DEF XOP4, Stacker, Stackers
<1>2. PICK n \in 0 .. SP : n = my.r11 /\ n < reg[SP]
  <2>1. Reserved(ctx, my.r11, reg[SP])
    BY <1>1, Running DEF Owned, my, Stackers
  <2>2. my.r11 \in 0 .. SP /\ reg[SP] > my.r11
    BY <1>1, <2>1 DEF Reserved, Stackers
  <2>3. reg[SP] \in Int
    BY Constants DEF ServiceInv, Registers
  <2> QED BY <2>2, <2>3, Constants
<1>3. n \in Nat /\ n + 1 <= reg[SP]
  <2>1. reg[SP] \in Int
    BY Constants DEF ServiceInv, Registers
  <2> QED BY <1>2, <2>1, Constants
<1>4. PICK words : words = [k \in 1 .. n + 1 |-> reg[n + 1 - k]]
  OBVIOUS
<1>5. words \in Seq(Word) /\ Len(words) = n + 1
  <2>1. \A k \in 1 .. n + 1 : n + 1 - k \in 0 .. SP
    BY <1>2, <1>3, Constants
  <2>2. \A k \in 1 .. n + 1 : reg[n + 1 - k] \in Word
    BY <2>1 DEF ServiceInv, Registers
  <2>3. words \in [1 .. n + 1 -> Word]
    BY <1>4, <2>2
  <2> QED BY <1>3, <2>3
<1>6. Pushes(words)
  BY <1>2, <1>4 DEF XOP4
<1>7. /\ Registers' /\ GeneralOf(reg') = GeneralOf(reg)
      /\ StackOf(reg', stk') = words \o StackOf(reg, stk)
  BY <1>3, <1>5, <1>6, PushesStep
<1>8. words = [k \in 1 .. n + 1 |-> Stack!Contents(n + 1 - k)]
  <2>1. \A k \in 1 .. n + 1 : Stack!Contents(n + 1 - k) = reg[n + 1 - k]
    <3>1. \A k \in 1 .. n + 1 : n + 1 - k \in 0 .. SP
      BY <1>2, <1>3, Constants
    <3> QED BY <3>1, ContentsIs
  <2> QED BY <1>4, <2>1
<1>9. ServiceInv' /\ Goes(ws', ctx', pc') = Goes(ws, ctx, pc)
  BY <1>1, <1>7, StackerBack
<1> QED BY <1>7, <1>8, <1>9, PushRegsView DEF StackStep

\* PUSH puts a register on the stack.
LEMMA XOP8Step ==
    ASSUME ServiceInv, XOP8 PROVE ServiceInv' /\ StackStep
<1>1. ctx = "PUSH" /\ ctx \in Stackers /\ line' = line /\ RTWP(my)
  BY DEF XOP8, Stacker, Stackers
<1>2. my.r11 \in 0 .. SP /\ reg[SP] > 0
  <2>1. Reserved(ctx, my.r11, reg[SP])
    BY <1>1, Running DEF Owned, my, Stackers
  <2> QED BY <1>1, <2>1 DEF Reserved, Stackers
<1>3. PICK n \in 0 .. SP : n = my.r11
  BY <1>2
<1>4. PICK v \in Word : v = reg[n]
  BY DEF ServiceInv, Registers
<1>5. PICK words : words = <<v>>
  OBVIOUS
<1>6. words \in Seq(Word) /\ Len(words) = 1 /\ Pushes(words) /\ 1 <= reg[SP]
  <2>1. reg[SP] \in Int
    BY Constants DEF ServiceInv, Registers
  <2> QED BY <1>2, <1>3, <1>4, <1>5, <2>1 DEF XOP8
<1>7. /\ Registers' /\ GeneralOf(reg') = GeneralOf(reg)
      /\ StackOf(reg', stk') = words \o StackOf(reg, stk)
  BY <1>6, PushesStep
<1>8. words = <<Stack!Contents(n)>>
  BY <1>4, <1>5, ContentsIs
<1>9. ServiceInv' /\ Goes(ws', ctx', pc') = Goes(ws, ctx, pc)
  BY <1>1, <1>7, StackerBack
<1> QED BY <1>7, <1>8, <1>9, PushView DEF StackStep

\* CALL puts the return address on the stack and goes to the subroutine.
LEMMA XOP6Step ==
    ASSUME ServiceInv, XOP6 PROVE ServiceInv' /\ StackStep
<1>1. ctx = "CALL" /\ ctx \in Stackers /\ line' = line
  BY DEF XOP6, Stacker, Stackers
<1>2. my.r11 \in Word /\ reg[SP] > 0 /\ Owned(ctx, my, reg[SP])
  <2>1. Reserved(ctx, my.r11, reg[SP]) /\ Owned(ctx, my, reg[SP])
    BY <1>1, Running DEF Owned, my, Stackers
  <2> QED BY <1>1, <2>1 DEF Reserved, Stackers
<1>3. PICK w : w = [my EXCEPT !.r14 = Position(my.r11)]
  OBVIOUS
<1>4. w.r13 = my.r13 /\ w.r15 = my.r15 /\ w.r14 = Position(my.r11) /\ RTWP(w)
  BY <1>2, <1>3 DEF Owned, Fields, XOP6
<1>5. DOMAIN w.r14 = {"at", "n"} /\ w.r14.n \in Word
  BY <1>2, <1>4 DEF Position
<1>6. my.r13 = "program"
  BY <1>1, RankOne, Running DEF Handlers
<1>7. PICK v \in Word : v = my.r14.n
  BY <1>2, <1>6 DEF Owned, Onward
<1>8. PICK words : words = <<v>>
  OBVIOUS
<1>9. words \in Seq(Word) /\ Len(words) = 1 /\ Pushes(words) /\ 1 <= reg[SP]
  <2>1. reg[SP] \in Int
    BY Constants DEF ServiceInv, Registers
  <2> QED BY <1>2, <1>7, <1>8, <2>1 DEF XOP6
<1>10. /\ Registers' /\ GeneralOf(reg') = GeneralOf(reg)
       /\ StackOf(reg', stk') = words \o StackOf(reg, stk)
  BY <1>9, PushesStep
<1>11. ServiceInv' /\ Goes(ws', ctx', pc') \in Word /\ Goes(ws, ctx, pc) = v
  BY <1>1, <1>4, <1>5, <1>7, <1>10, StackerReturns
<1> QED BY <1>8, <1>10, <1>11, CallView DEF StackStep

\* RET goes where the top of the stack says.
LEMMA XOP7Step ==
    ASSUME ServiceInv, XOP7 PROVE ServiceInv' /\ StackStep
<1>1. ctx = "RET" /\ ctx \in Stackers /\ line' = line /\ stk' = stk
  BY DEF XOP7, Stacker, Stackers
<1>2. reg[SP] < Depth /\ Owned(ctx, my, reg[SP])
  <2>1. Reserved(ctx, my.r11, reg[SP]) /\ Owned(ctx, my, reg[SP])
    BY <1>1, Running DEF Owned, my, Stackers
  <2> QED BY <1>1, <2>1 DEF Reserved, Stackers
<1>3. PICK t \in 0 .. Depth : t = reg[SP] /\ t < Depth
  BY <1>2 DEF ServiceInv, Registers
<1>4. PICK k \in [0 .. Depth -> Word] : k = stk
  BY DEF ServiceInv, Registers
<1>5. PICK r \in [0 .. SP -> Word] : r = reg
  BY DEF ServiceInv, Registers
<1>6. PICK r2 : r2 = reg'
  OBVIOUS
<1>7. r2 = [r EXCEPT ![SP] = t + 1]
  BY <1>3, <1>5, <1>6 DEF XOP7, Top
<1>8. t + 1 \in 0 .. Depth /\ t + 1 \in Word
  <2>1. t + 1 \in 0 .. Depth
    BY <1>3, Constants
  <2> QED BY <2>1, DepthWords
<1>9. r2 \in [0 .. SP -> Word] /\ r2[SP] = t + 1
  BY <1>5, <1>7, <1>8, Constants
<1>10. GeneralOf(r2) = GeneralOf(r)
  <2>1. \A j \in 0 .. SP - 1 : r2[j] = r[j]
    BY <1>5, <1>7, Constants
  <2> QED BY <2>1 DEF GeneralOf
<1>11. PICK a : a = StackOf(r, k)
  OBVIOUS
<1>12. /\ a \in Seq(Word) /\ Len(a) = Depth - t /\ a[1] = k[t] /\ Len(a) \in Nat /\ Len(a) > 0
       /\ StackOf(r2, k) = SubSeq(a, 2, Depth - t)
  <2>1. r[SP] \in 0 .. Depth /\ r2[SP] \in 0 .. Depth /\ r[SP] <= r2[SP] /\ r2[SP] = r[SP] + 1 /\ r[SP] = t
    BY <1>3, <1>5, <1>8, <1>9, Constants
  <2>2. a \in Seq(Word) /\ Len(a) = Depth - t /\ \A j \in 1 .. Depth - t : a[j] = k[t + j - 1]
    BY <2>1, <1>11, StackWords
  <2>3. StackOf(r2, k) = SubSeq(a, r2[SP] - r[SP] + 1, Depth - r[SP])
    BY <2>1, <1>11, StackRest
  <2>4. r2[SP] - r[SP] + 1 = 2
    BY <2>1, <1>3, Constants
  <2>5. Depth - t \in Nat /\ Depth - t > 0 /\ 1 \in 1 .. Depth - t /\ t + 1 - 1 = t
    BY <1>3, Constants
  <2>6. a[1] = k[t]
    BY <2>2, <2>5
  <2>7. StackOf(r2, k) = SubSeq(a, 2, Depth - t)
    BY <2>1, <2>3, <2>4
  <2> QED BY <2>2, <2>5, <2>6, <2>7
<1>13. a # <<>> /\ Head(a) = k[t] /\ SubSeq(a, 2, Depth - t) = Tail(a)
  BY <1>12
<1>14. PICK w : w = [my EXCEPT !.r14 = Position(k[t])]
  OBVIOUS
<1>15. w.r13 = my.r13 /\ w.r15 = my.r15 /\ w.r14 = Position(k[t]) /\ RTWP(w)
  BY <1>2, <1>3, <1>4, <1>14 DEF Owned, Fields, XOP7, Top
<1>16. DOMAIN w.r14 = {"at", "n"} /\ w.r14.n \in Word /\ w.r14.n = k[t]
  BY <1>4, <1>15 DEF Position
<1>17. Registers'
  BY <1>1, <1>4, <1>6, <1>8, <1>9 DEF Registers
<1>18. ServiceInv' /\ Goes(ws', ctx', pc') = k[t]
  BY <1>1, <1>15, <1>16, <1>17, StackerReturns
<1>19. Stack!Next
  BY <1>1, <1>4, <1>5, <1>6, <1>10, <1>11, <1>12, <1>13, <1>18, ReturnView
<1> QED BY <1>18, <1>19 DEF StackStep

\* POP takes a word off into a register.
LEMMA XOP9Step ==
    ASSUME ServiceInv, XOP9 PROVE ServiceInv' /\ StackStep
<1>1. ctx = "POP" /\ ctx \in Stackers /\ line' = line /\ stk' = stk /\ RTWP(my)
  BY DEF XOP9, Stacker, Stackers
<1>2. reg[SP] < Depth /\ my.r11 \in 0 .. SP
  <2>1. Reserved(ctx, my.r11, reg[SP])
    BY <1>1, Running DEF Owned, my, Stackers
  <2> QED BY <1>1, <2>1 DEF Reserved, Stackers
<1>3. PICK t \in 0 .. Depth : t = reg[SP] /\ t < Depth
  BY <1>2 DEF ServiceInv, Registers
<1>4. PICK k \in [0 .. Depth -> Word] : k = stk
  BY DEF ServiceInv, Registers
<1>5. PICK r \in [0 .. SP -> Word] : r = reg
  BY DEF ServiceInv, Registers
<1>6. PICK r2 : r2 = reg'
  OBVIOUS
<1>7. PICK n \in 0 .. SP : n = my.r11
  BY <1>2
<1>8. r2 = [r EXCEPT ![n] = k[t], ![SP] = t + 1]
  BY <1>3, <1>4, <1>5, <1>6, <1>7 DEF XOP9, Top
<1>9. t + 1 \in 0 .. Depth /\ t + 1 \in Word
  <2>1. t + 1 \in 0 .. Depth
    BY <1>3, Constants
  <2> QED BY <2>1, DepthWords
<1>10. k[t] \in Word
  BY <1>4
<1>11. r2 \in [0 .. SP -> Word] /\ r2[SP] = t + 1
  BY <1>5, <1>8, <1>9, <1>10, Constants
<1>12. GeneralOf(r2) = [j \in 0 .. SP - 1 |-> IF j = n THEN k[t] ELSE GeneralOf(r)[j]]
  <2>1. \A j \in 0 .. SP - 1 : r2[j] = IF j = n THEN k[t] ELSE r[j]
    BY <1>5, <1>8, Constants
  <2> QED BY <2>1 DEF GeneralOf
<1>13. PICK a : a = StackOf(r, k)
  OBVIOUS
<1>14. /\ a \in Seq(Word) /\ Len(a) = Depth - t /\ a[1] = k[t] /\ Len(a) \in Nat /\ Len(a) > 0
       /\ StackOf(r2, k) = SubSeq(a, 2, Depth - t)
  <2>1. r[SP] \in 0 .. Depth /\ r2[SP] \in 0 .. Depth /\ r[SP] <= r2[SP] /\ r2[SP] = r[SP] + 1 /\ r[SP] = t
    BY <1>3, <1>5, <1>9, <1>11, Constants
  <2>2. a \in Seq(Word) /\ Len(a) = Depth - t /\ \A j \in 1 .. Depth - t : a[j] = k[t + j - 1]
    BY <2>1, <1>13, StackWords
  <2>3. StackOf(r2, k) = SubSeq(a, r2[SP] - r[SP] + 1, Depth - r[SP])
    BY <2>1, <1>13, StackRest
  <2>4. r2[SP] - r[SP] + 1 = 2
    BY <2>1, <1>3, Constants
  <2>5. Depth - t \in Nat /\ Depth - t > 0 /\ 1 \in 1 .. Depth - t /\ t + 1 - 1 = t
    BY <1>3, Constants
  <2>6. a[1] = k[t]
    BY <2>2, <2>5
  <2>7. StackOf(r2, k) = SubSeq(a, 2, Depth - t)
    BY <2>1, <2>3, <2>4
  <2> QED BY <2>2, <2>5, <2>6, <2>7
<1>15. a # <<>> /\ Head(a) = k[t] /\ SubSeq(a, 2, Depth - t) = Tail(a)
  BY <1>14
<1>16. Registers'
  BY <1>1, <1>4, <1>6, <1>9, <1>11 DEF Registers
<1>17. ServiceInv' /\ Goes(ws', ctx', pc') = Goes(ws, ctx, pc)
  BY <1>1, <1>16, StackerBack
<1>18. Stack!Next
  BY <1>1, <1>4, <1>5, <1>6, <1>12, <1>13, <1>14, <1>15, <1>17, PopView
<1> QED BY <1>17, <1>18 DEF StackStep

\* POPREG takes the registers off again.
LEMMA XOP5Step ==
    ASSUME ServiceInv, XOP5 PROVE ServiceInv' /\ StackStep
<1>1. ctx = "POPREG" /\ ctx \in Stackers /\ line' = line /\ stk' = stk /\ RTWP(my)
  BY DEF XOP5, Stacker, Stackers
<1>2. my.r11 \in 0 .. SP /\ reg[SP] + my.r11 < Depth
  <2>1. Reserved(ctx, my.r11, reg[SP])
    BY <1>1, Running DEF Owned, my, Stackers
  <2> QED BY <1>1, <2>1 DEF Reserved, Stackers
<1>3. PICK n \in 0 .. SP : n = my.r11
  BY <1>2
<1>4. PICK t \in 0 .. Depth : t = reg[SP] /\ t + n < Depth
  BY <1>2, <1>3 DEF ServiceInv, Registers
<1>5. PICK k \in [0 .. Depth -> Word] : k = stk
  BY DEF ServiceInv, Registers
<1>6. PICK r \in [0 .. SP -> Word] : r = reg
  BY DEF ServiceInv, Registers
<1>7. PICK r2 : r2 = reg'
  OBVIOUS
<1>8. r2 = [i \in 0 .. SP |-> IF i = SP THEN t + n + 1 ELSE IF i <= n THEN k[t + n - i] ELSE r[i]]
  BY <1>3, <1>4, <1>5, <1>6, <1>7 DEF XOP5, Top
<1>9. t + n + 1 \in 0 .. Depth /\ t + n + 1 \in Word
  <2>1. t + n + 1 \in 0 .. Depth
    BY <1>4, Constants
  <2> QED BY <2>1, DepthWords
<1>10. \A i \in 0 .. SP : i <= n => k[t + n - i] \in Word
  <2>1. \A i \in 0 .. SP : i <= n => t + n - i \in 0 .. Depth
    BY <1>4, Constants
  <2> QED BY <2>1
<1>11. r2 \in [0 .. SP -> Word] /\ r2[SP] = t + n + 1
  BY <1>8, <1>9, <1>10, Constants
<1>12. PICK a : a = StackOf(r, k)
  OBVIOUS
<1>13. /\ a \in Seq(Word) /\ Len(a) = Depth - t /\ n < Len(a)
       /\ \A j \in 1 .. Depth - t : a[j] = k[t + j - 1]
       /\ StackOf(r2, k) = SubSeq(a, n + 2, Len(a))
  <2>1. r[SP] \in 0 .. Depth /\ r2[SP] \in 0 .. Depth /\ r[SP] <= r2[SP] /\ r2[SP] = r[SP] + n + 1 /\ r[SP] = t
    BY <1>4, <1>6, <1>9, <1>11, Constants
  <2>2. a \in Seq(Word) /\ Len(a) = Depth - t /\ \A j \in 1 .. Depth - t : a[j] = k[t + j - 1]
    BY <2>1, <1>12, StackWords
  <2>3. StackOf(r2, k) = SubSeq(a, r2[SP] - r[SP] + 1, Depth - r[SP])
    BY <2>1, <1>12, StackRest
  <2>4. r2[SP] - r[SP] + 1 = n + 2
    BY <2>1, <1>4, Constants
  <2>5. n < Depth - t
    BY <1>4, Constants
  <2>6. StackOf(r2, k) = SubSeq(a, n + 2, Depth - t)
    BY <2>1, <2>3, <2>4
  <2> QED BY <2>2, <2>5, <2>6
<1>14. GeneralOf(r2) = [j \in 0 .. SP - 1 |-> IF j <= n THEN a[n + 1 - j] ELSE GeneralOf(r)[j]]
  <2>1. \A j \in 0 .. SP - 1 : r2[j] = IF j <= n THEN k[t + n - j] ELSE r[j]
    BY <1>8, Constants
  <2>2. ASSUME NEW j \in 0 .. SP - 1, j <= n PROVE a[n + 1 - j] = k[t + n - j]
    <3>1. n + 1 - j \in 1 .. Depth - t /\ t + (n + 1 - j) - 1 = t + n - j
      BY <2>2, <1>4, Constants
    <3> QED BY <3>1, <1>13
  <2> QED BY <2>1, <2>2 DEF GeneralOf
<1>15. Registers'
  BY <1>1, <1>5, <1>7, <1>9, <1>11 DEF Registers
<1>16. ServiceInv' /\ Goes(ws', ctx', pc') = Goes(ws, ctx, pc)
  BY <1>1, <1>15, StackerBack
<1>17. Stack!Next
  BY <1>1, <1>5, <1>6, <1>7, <1>12, <1>13, <1>14, <1>16, PopRegsView
<1> QED BY <1>16, <1>17 DEF StackStep

-----------------------------------------------------------------------------
\* The console.

\* A user types one character at a time, and a file has nothing but digits and
\* the marks of its records.
Marks == Digit \cup {Colon, CR}
Sourced(s) == \A i \in DOMAIN s : /\ s[i].by = "user" => Len(s) = 1
                                  /\ s[i].by = "file" => s[i].ch \in Marks

ConsoleInv == ServiceInv /\ hex \in Word /\ Sourced(line)

\* A READ takes the first character, and what is left has come from where it came.
LEMMA SourcedTail ==
    ASSUME NEW s \in Seq(Character), s # <<>>, Sourced(s)
    PROVE  Tail(s) \in Seq(Character) /\ Sourced(Tail(s)) /\ (s[1].by = "user" => Tail(s) = <<>>)
<1>1. PICK u : u = Tail(s)
  OBVIOUS
<1>2. u \in Seq(Character) /\ Len(u) = Len(s) - 1 /\ \A i \in 1 .. Len(u) : u[i] = s[i + 1]
  BY <1>1, HeadTailProperties
<1>3. DOMAIN s = 1 .. Len(s) /\ DOMAIN u = 1 .. Len(u) /\ Len(s) \in Nat /\ Len(s) > 0 /\ Len(u) \in Nat
  BY <1>2, LenProperties
<1>4. Len(s) = 1 => u = <<>>
  BY <1>2
<1>5. ASSUME NEW i \in DOMAIN u
      PROVE  i + 1 \in DOMAIN s /\ u[i] = s[i + 1] /\ Len(s) # 1
  BY <1>2, <1>3
<1>6. Sourced(u)
  BY <1>5 DEF Sourced
<1>7. s[1].by = "user" => Len(s) = 1
  BY <1>3 DEF Sourced
<1> QED BY <1>1, <1>2, <1>4, <1>6, <1>7

\* The loader drops the rest of a file, never of a key.
LEMMA SourcedRest ==
    ASSUME NEW s \in Seq(Character), Len(s) > 1, Sourced(s)
    PROVE  SubSeq(s, 3, Len(s)) \in Seq(Character) /\ Sourced(SubSeq(s, 3, Len(s)))
<1>1. PICK n \in Nat : n = Len(s) /\ n > 1
  BY LenProperties
<1>2. PICK u : u = SubSeq(s, 3, n)
  OBVIOUS
<1>3. u = [i \in 1 .. n - 2 |-> s[i + 2]]
  BY <1>2 DEF SubSeq
<1>4. n - 2 \in Nat
  BY <1>1
<1>5. \A i \in 1 .. n - 2 : i + 2 \in DOMAIN s /\ s[i + 2] \in Character
  <2>1. DOMAIN s = 1 .. n /\ s \in [1 .. n -> Character]
    BY <1>1, LenProperties
  <2>2. \A i \in 1 .. n - 2 : i + 2 \in 1 .. n
    BY <1>1
  <2> QED BY <2>1, <2>2
<1>6. u \in [1 .. n - 2 -> Character]
  BY <1>3, <1>5
<1>7. u \in Seq(Character) /\ DOMAIN u = 1 .. n - 2
  BY <1>4, <1>6
<1>8. ASSUME NEW i \in DOMAIN u PROVE u[i].by # "user" /\ (u[i].by = "file" => u[i].ch \in Marks)
  <2>1. i + 2 \in DOMAIN s /\ u[i] = s[i + 2]
    BY <1>3, <1>5, <1>7
  <2> QED BY <2>1, <1>1 DEF Sourced
<1>9. Sourced(u)
  BY <1>8 DEF Sourced
<1> QED BY <1>1, <1>2, <1>7, <1>9

\* No character of a file is a command.
LEMMA NoCommand == ASSUME NEW c \in Marks PROVE Places(c) = {} /\ Command(c) = "??"
<1>1. Base \in Nat /\ Base > 1
  BY Constants
<1>2. c \in Nat /\ (c < Base \/ c = Base + 1 \/ c = Base + 2)
  BY <1>1 DEF Marks, Digit, Colon, CR
<1>3. \A i \in 1 .. 20 : INTAB[i] \in Nat /\ (INTAB[i] = Base \/ INTAB[i] >= Base + 4)
  BY <1>1 DEF INTAB, CtrlZ, Slash, Q, U, V, G, M, Z, O, W, R, P, X, L, H, S, T, Letter, Space
<1>4. Len(INTAB) = 20
  BY DEF INTAB
<1>5. \A i \in 1 .. 20 : INTAB[i] # c
  BY <1>1, <1>2, <1>3
<1> QED BY <1>4, <1>5 DEF Places, Command

\* What the prompt takes for a command was typed.
LEMMA CommandTyped ==
    ASSUME ConsoleInv, line # <<>>, Command(ch) # "??"
    PROVE  line[1].by = "user"
<1>1. line \in Seq(Character)
  BY DEF ConsoleInv, ServiceInv
<1>2. 1 \in DOMAIN line /\ line[1] \in Character
  BY <1>1
<1>3. line[1].by = "file" => Command(ch) = "??"
  BY <1>2, NoCommand DEF ConsoleInv, Sourced, ch
<1> QED BY <1>2, <1>3 DEF Character

\* The console reads, or the terminal sends: the machine stays as it is.
LEMMA ConsoleStep ==
    ASSUME ServiceInv, UNCHANGED <<ctx, pc, st, ws, reg, stk>>, line' \in Seq(Character),
           ctx # "monitor" => Readable(line')
    PROVE  ServiceInv' /\ StackStep
<1>1. ServiceInv'
  BY DEF ServiceInv, Registers
<1>2. SameView
  BY DEF SameView
<1> QED BY <1>1, <1>2 DEF StackStep

\* A program is started with an empty stack.
LEMMA StartView ==
    ASSUME GeneralOf(reg') \in [0 .. SP - 1 -> Word], StackOf(reg', stk') = <<>>, Goes(ws', ctx', pc') \in Word
    PROVE  Stack!Next
BY DEF Stack!Next, Stack!Start, Stack!Started, Stack!General, GeneralOf, StackOf, Goes, Outermost, Top

LEMMA EmptyStack == ASSUME NEW r, NEW k, r[SP] = Depth PROVE StackOf(r, k) = <<>>
<1>1. Depth - r[SP] = 0 /\ 1 .. 0 = {}
  BY Constants
<1>2. PICK a : a = StackOf(r, k)
  OBVIOUS
<1>3. a = [j \in {} |-> k[r[SP] + j - 1]]
  BY <1>1, <1>2 DEF StackOf
<1>4. a \in Seq({}) /\ Len(a) = 0
  BY <1>1, <1>3
<1> QED BY <1>2, <1>4

\* GO enters the program with the stack at its end.
LEMMA GoStep ==
    ASSUME ServiceInv, ctx = "monitor", NEW p \in Word, Go(p), line' = <<>>
    PROVE  ServiceInv' /\ StackStep
<1>1. PICK r \in [0 .. SP -> Word] : r = reg /\ r[SP] = Depth
  BY DEF ServiceInv, Registers
<1>2. PICK r2 : r2 = reg'
  OBVIOUS
<1>3. r2 = [r EXCEPT ![0] = p]
  BY <1>1, <1>2 DEF Go
<1>4. SP \in Nat /\ SP > 1 /\ Depth \in Nat
  BY Constants
<1>5. r2 \in [0 .. SP -> Word] /\ r2[SP] = Depth
  BY <1>1, <1>3, <1>4
<1>6. GeneralOf(r2) \in [0 .. SP - 1 -> Word]
  <2>1. \A i \in 0 .. SP - 1 : r2[i] \in Word
    BY <1>4, <1>5
  <2> QED BY <2>1 DEF GeneralOf
<1>7. \A k : StackOf(r2, k) = <<>>
  BY <1>5, EmptyStack
<1>8. ctx' = "program" /\ pc' = Position(p) /\ UNCHANGED <<st, ws, stk>>
  BY DEF Go
<1>9. Goes(ws', ctx', pc') \in Word /\ Onward(ctx', pc')
  BY <1>8 DEF Goes, Position, Onward
<1>10. Stack!Next
  BY <1>2, <1>6, <1>7, <1>9, StartView
<1>11. Held(ws', ctx', st'.mask, reg'[SP])
  <2>1. DOMAIN ws = {}
    BY DEF ServiceInv, Held, Nested
  <2> QED BY <2>1, <1>8 DEF Held, Nested, Masked
<1>12. Registers'
  BY <1>2, <1>4, <1>5, <1>8 DEF Registers, ServiceInv
<1>13. line' \in Seq(Character) /\ Readable(line')
  BY DEF Readable
<1>14. ServiceInv'
  BY <1>8, <1>9, <1>11, <1>12, <1>13 DEF ServiceInv
<1> QED BY <1>10, <1>14 DEF StackStep

\* The console has no service in progress.
LEMMA NothingHeld ==
    /\ NoRegisters \in [0 .. SP -> Word] /\ NoRegisters[SP] = Depth /\ NoStack \in [0 .. Depth -> Word]
    /\ GeneralOf(NoRegisters) \in [0 .. SP - 1 -> Word] /\ StackOf(NoRegisters, NoStack) = <<>>
    /\ \A m : Held([s \in {} |-> Fresh], "monitor", m, Depth)
<1>1. SP \in Nat /\ SP > 1 /\ Depth \in Nat /\ Depth \in Word /\ 0 \in Word
  BY Constants
<1>2. NoRegisters \in [0 .. SP -> Word] /\ NoRegisters[SP] = Depth /\ NoStack \in [0 .. Depth -> Word]
  BY <1>1 DEF NoRegisters, NoStack
<1>3. GeneralOf(NoRegisters) \in [0 .. SP - 1 -> Word]
  <2>1. \A i \in 0 .. SP - 1 : NoRegisters[i] \in Word
    BY <1>1, <1>2
  <2> QED BY <2>1 DEF GeneralOf
<1>4. StackOf(NoRegisters, NoStack) = <<>>
  BY <1>2, EmptyStack
<1>5. \A m : Held([s \in {} |-> Fresh], "monitor", m, Depth)
  BY DEF Held, Nested, Masked
<1> QED BY <1>2, <1>3, <1>4, <1>5

\* BLWP to BANNER: the console is back, with nothing held.
LEMMA BannerStep ==
    ASSUME ServiceInv, ToBanner, line' = line
    PROVE  ServiceInv' /\ StackStep
<1>1. /\ ctx' = "monitor" /\ pc' = At("idle") /\ st' = [st EXCEPT !.mask = 7]
      /\ ws' = [s \in {} |-> Fresh] /\ reg' = NoRegisters /\ stk' = NoStack
  BY DEF ToBanner
<1>2. st' \in Status
  BY <1>1 DEF ServiceInv, Status
<1>3. Goes(ws', ctx', pc') \in Word /\ Onward(ctx', pc')
  BY <1>1, Constants DEF Goes, At, Onward
<1>4. Stack!Next
  BY <1>1, <1>3, NothingHeld, StartView
<1>5. Depth \in 0 .. Depth
  BY Constants
<1>6. Held(ws', ctx', st'.mask, reg'[SP]) /\ Registers'
  BY <1>1, <1>5, NothingHeld DEF Registers
<1>7. ServiceInv'
  BY <1>1, <1>2, <1>3, <1>6, NothingHeld DEF ServiceInv
<1> QED BY <1>4, <1>7 DEF StackStep

StrayStep ==
    ctx = "monitor" /\ con = "prompt" /\ (con' # con \/ ctx' # ctx \/ ram' # ram \/ mem' # mem)
    => line[1].by = "user"

Good == ConsoleInv' /\ StackStep /\ StrayStep

\* A service, a handler or the program.
LEMMA ServeHolds ==
    ASSUME ServiceInv, Serve PROVE ServiceInv' /\ StackStep
BY XOP12Step, XOP13Step, XOP14Step, XOP10Step, XOP11Step, XOP15Step, XOP4Step, XOP5Step, XOP6Step,
   XOP7Step, XOP8Step, XOP9Step, XOP0_1Step, InterruptsStep, HandlerStep, INT2Step,
   UsesTerminalStep, UsesStackStep, PagesStep, WorksStep, CrashStep DEF Serve

\* They do not run with the console, and only READ takes a character.
LEMMA ServeApart ==
    ASSUME Serve
    PROVE  ctx # "monitor" /\ (line' = line \/ (line # <<>> /\ line' = Tail(line)))
<1>1. CASE XOP12 \/ XOP14 \/ XOP10 \/ XOP11 \/ XOP0_1 \/ IDE_IRQ \/ INT2_HANDLER
  BY <1>1 DEF XOP12, XOP14, XOP10, XOP11, XOP0_1, IDE_IRQ, INT2_HANDLER, Rest, Paging
<1>2. CASE XOP13
  BY <1>2 DEF XOP13
<1>3. CASE XOP15 \/ INTTIMER
  BY <1>3 DEF XOP15, INTTIMER
<1>4. CASE XOP4 \/ XOP5 \/ XOP6 \/ XOP7 \/ XOP8 \/ XOP9
  BY <1>4 DEF XOP4, XOP5, XOP6, XOP7, XOP8, XOP9, Stacker
<1>5. CASE TimerInterrupt \/ DriveInterrupt
  BY <1>5 DEF TimerInterrupt, DriveInterrupt, Interrupt
<1>6. \A s, ea : Calls(s, ea) => ctx = "program" /\ line' = line
  BY DEF Calls, Does
<1>7. CASE UsesTerminal \/ UsesStack \/ Pages
  BY <1>6, <1>7 DEF UsesTerminal, UsesStack, Pages
<1>8. CASE Works \/ Crash
  BY <1>8 DEF Works, Crash, Does
<1> QED BY <1>1, <1>2, <1>3, <1>4, <1>5, <1>7, <1>8 DEF Serve

\* Services, handlers and the program keep the console's promises.
LEMMA ServeGood ==
    ASSUME ConsoleInv, Serve, UNCHANGED <<console, typing>>
    PROVE  Good
<1>1. ServiceInv' /\ StackStep
  BY ServeHolds DEF ConsoleInv
<1>2. ctx # "monitor" /\ (line' = line \/ (line # <<>> /\ line' = Tail(line)))
  BY ServeApart
<1>3. Sourced(line')
  <2>1. PICK s \in Seq(Character) : s = line
    BY DEF ConsoleInv, ServiceInv
  <2>2. Sourced(s) /\ (s # <<>> => Sourced(Tail(s)))
    BY <2>1, SourcedTail DEF ConsoleInv
  <2> QED BY <1>2, <2>1, <2>2
<1>4. hex' \in Word
  BY DEF ConsoleInv, console
<1> QED BY <1>1, <1>2, <1>3, <1>4 DEF Good, ConsoleInv, StrayStep

-----------------------------------------------------------------------------

\* The console reads a character.
LEMMA OneRead ==
    ASSUME ConsoleInv, ctx = "monitor", line # <<>>, line' = Tail(line),
           UNCHANGED <<ctx, pc, st, ws, reg, stk>>, hex' \in Word
    PROVE  ConsoleInv' /\ StackStep
<1>1. PICK s \in Seq(Character) : s = line
  BY DEF ConsoleInv, ServiceInv
<1>2. Tail(s) \in Seq(Character) /\ Sourced(Tail(s))
  BY <1>1, SourcedTail DEF ConsoleInv
<1> QED BY <1>1, <1>2, ConsoleStep DEF ConsoleInv

\* ... or the two of a byte.
LEMMA TwoRead ==
    ASSUME ConsoleInv, ctx = "monitor", Len(line) > 1, line' = SubSeq(line, 3, Len(line)),
           UNCHANGED machine, hex' \in Word, con # "prompt"
    PROVE  Good
<1>1. PICK s \in Seq(Character) : s = line
  BY DEF ConsoleInv, ServiceInv
<1>2. SubSeq(s, 3, Len(s)) \in Seq(Character) /\ Sourced(SubSeq(s, 3, Len(s)))
  BY <1>1, SourcedRest DEF ConsoleInv
<1> QED BY <1>1, <1>2, ConsoleStep DEF ConsoleInv, Good, StrayStep, machine

\* The console's steps, each with the three facts: a digit of a hexadecimal number.
LEMMA HexDigitGood == ASSUME ConsoleInv, HexDigit PROVE Good
<1>1. ctx = "monitor" /\ line # <<>> /\ line' = Tail(line) /\ UNCHANGED <<ctx, pc, st, ws, reg, stk, ram, con, mem>>
  BY DEF HexDigit, Reads, machine
<1>2. hex' \in Word
  <2>1. hex \in Nat
    BY Constants DEF ConsoleInv
  <2>2. PICK d \in Digit : d = ch
    BY DEF HexDigit
  <2>3. hex' = Shifted(hex, d)
    BY <2>2 DEF HexDigit
  <2> QED BY <2>1, <2>3, ShiftedWord
<1> QED BY <1>1, <1>2, OneRead DEF Good, StrayStep

LEMMA InstructionTyped ==
    ASSUME ConsoleInv, NEW name, name # "??", Instruction(name)
    PROVE  line[1].by = "user"
BY CommandTyped DEF Instruction, Reads

LEMMA ZeroWord == 0 \in Word
BY Constants

\* Commands that print.
LEMMA ShowGood == ASSUME ConsoleInv, Show PROVE Good
<1>1. /\ ctx = "monitor" /\ line # <<>> /\ line' = Tail(line) /\ con = "prompt" /\ con' = "prompt"
      /\ hex' = 0 /\ UNCHANGED <<ctx, pc, st, ws, reg, stk, ram, mem>>
  BY DEF Show, Instruction, Reads, machine, Prompt
<1> QED BY <1>1, OneRead, ZeroWord DEF Good, StrayStep

\* OUTPUT, OPEN and HEXLOAD.
LEMMA CommandsGood == ASSUME ConsoleInv, OUTPUT \/ OPEN \/ HEXLOAD PROVE Good
<1>1. /\ ctx = "monitor" /\ line # <<>> /\ line' = Tail(line)
      /\ hex' \in {0, hex} /\ UNCHANGED <<ctx, pc, st, ws, reg, stk>>
  BY DEF OUTPUT, OPEN, HEXLOAD, Instruction, Reads, machine
<1>2. hex' \in Word
  BY <1>1, ZeroWord DEF ConsoleInv
<1>3. line[1].by = "user"
  BY InstructionTyped DEF OUTPUT, OPEN, HEXLOAD
<1> QED BY <1>1, <1>2, <1>3, OneRead DEF Good, StrayStep

\* More of a display, at a key.
LEMMA MoreGood == ASSUME ConsoleInv, More PROVE Good
<1>1. /\ ctx = "monitor" /\ con = "more" /\ line # <<>> /\ line' = Tail(line)
      /\ hex' \in {0, hex} /\ UNCHANGED <<ctx, pc, st, ws, reg, stk>>
  BY DEF More, Reads, machine, Prompt
<1>2. hex' \in Word
  BY <1>1, ZeroWord DEF ConsoleInv
<1> QED BY <1>1, <1>2, OneRead DEF Good, StrayStep

\* Words entered into memory.
LEMMA EntryGood == ASSUME ConsoleInv, Entry PROVE Good
<1>1. /\ ctx = "monitor" /\ con = "entry" /\ line # <<>> /\ line' = Tail(line)
      /\ hex' = 0 /\ UNCHANGED <<ctx, pc, st, ws, reg, stk>>
  BY DEF Entry, Reads, machine
<1> QED BY <1>1, ZeroWord, OneRead DEF Good, StrayStep

\* The workspace pointer.
LEMMA WPGood == ASSUME ConsoleInv, WP PROVE Good
<1>1. /\ ctx = "monitor" /\ line # <<>> /\ line' = Tail(line) /\ Command(ch) = "WP"
      /\ hex' = 0 /\ UNCHANGED <<ctx, pc, st, ws, reg, stk>>
  BY DEF WP, Prompt
<1>2. line[1].by = "user"
  BY <1>1, CommandTyped
<1> QED BY <1>1, <1>2, ZeroWord, OneRead DEF Good, StrayStep

\* GO starts the program.
LEMMA GOGood == ASSUME ConsoleInv, GO PROVE Good
<1>1. /\ ctx = "monitor" /\ line # <<>> /\ line' = Tail(line) /\ Command(ch) = "GO"
      /\ hex' = 0 /\ IF given THEN Go(hex) ELSE UNCHANGED machine
  BY DEF GO, Prompt
<1>2. line[1].by = "user"
  BY <1>1, CommandTyped
<1>3. CASE given
  <2>1. line' = <<>>
    <3>1. PICK s \in Seq(Character) : s = line
      BY DEF ConsoleInv, ServiceInv
    <3> QED BY <1>1, <1>2, <3>1, SourcedTail DEF ConsoleInv
  <2>2. PICK p \in Word : p = hex
    BY DEF ConsoleInv
  <2>3. ServiceInv' /\ StackStep
    BY <1>1, <1>3, <2>1, <2>2, GoStep DEF ConsoleInv
  <2>4. Sourced(line')
    BY <2>1 DEF Sourced
  <2> QED BY <1>1, <1>2, <2>3, <2>4, ZeroWord DEF Good, StrayStep, ConsoleInv
<1>4. CASE ~given
  BY <1>1, <1>2, <1>4, ZeroWord, OneRead DEF Good, StrayStep, machine
<1> QED BY <1>3, <1>4

\* The loader finds a record.
LEMMA MarksGood == ASSUME ConsoleInv, FindColon \/ HL_14 PROVE Good
<1>1. /\ ctx = "monitor" /\ con \in {"colon", "rubbish", "error"} /\ line # <<>> /\ line' = Tail(line)
      /\ hex' \in {0, hex} /\ UNCHANGED <<ctx, pc, st, ws, reg, stk>>
  BY DEF FindColon, HL_14, Reads, machine, Prompt, Same
<1>2. hex' \in Word
  BY <1>1, ZeroWord DEF ConsoleInv
<1> QED BY <1>1, <1>2, OneRead DEF Good, StrayStep

\* ... reads its bytes.
LEMMA BytesGood ==
    ASSUME ConsoleInv, Length \/ Page \/ AddressHigh \/ AddressLow \/ Type \/ Data \/ Check
    PROVE  Good
<1>1. /\ ctx = "monitor" /\ con \in {"length", "page", "high", "low", "type", "data", "check"}
      /\ Len(line) > 1 /\ line' = SubSeq(line, 3, Len(line)) /\ UNCHANGED machine
  BY DEF Length, Page, AddressHigh, AddressLow, Type, Data, Check, ReadsByte
<1>2. hex' \in {0, hex}
  BY DEF Length, Page, AddressHigh, AddressLow, Type, Data, Check, Same, Prompt
<1>3. hex' \in Word
  BY <1>2, ZeroWord DEF ConsoleInv
<1> QED BY <1>1, <1>3, TwoRead

\* A program ends, or its crash has been told.
LEMMA EndsGood == ASSUME ConsoleInv, Ends PROVE Good
<1>1. ctx # "monitor" /\ ToBanner /\ line' = line /\ hex' = 0
  BY DEF Ends, Reported
<1> QED BY <1>1, BannerStep, ZeroWord DEF Good, StrayStep, ConsoleInv

-----------------------------------------------------------------------------
\* What the loader's files are made of.

\* A set of naturals that is not empty has a least element.
LEMMA LeastNat ==
    ASSUME NEW A \in SUBSET Nat, A # {}
    PROVE  \E i \in A : \A j \in A : i <= j
<1>1. IsWellFoundedOn(OpToRel(<, Nat), Nat)
  BY NatLessThanWellFounded
<1>2. \E i \in A : \A j \in A : ~(<<j, i>> \in OpToRel(<, Nat))
  BY <1>1, WFMin
<1>3. \A i, j \in Nat : j < i => <<j, i>> \in OpToRel(<, Nat)
  BY Zenon DEF OpToRel
<1>4. \E i \in A : \A j \in A : ~(j < i)
  BY <1>2, <1>3, Zenon
<1> QED BY <1>4

-----------------------------------------------------------------------------
\* g[i] is the first i of the sequences in a row.
Rows(g, seqs, n) == g = [i \in 1 .. n |-> IF i = 1 THEN seqs[i] ELSE g[i - 1] \o seqs[i]]

\* FlattenSeq's rows are one function.
LEMMA RowsExist ==
    ASSUME NEW seqs, NEW n \in Nat
    PROVE  \E g : Rows(g, seqs, n)
<1> DEFINE Bad == {i \in Nat : ~ \E g : Rows(g, seqs, i)}
<1>1. SUFFICES ASSUME Bad # {} PROVE FALSE
  OBVIOUS
<1>2. PICK i \in Bad : \A j \in Bad : i <= j
  BY <1>1, LeastNat
<1>3. CASE i = 0
  <2> DEFINE g == [k \in 1 .. 0 |-> seqs[k]]
  <2>1. Rows(g, seqs, 0)
    <3>1. \A k \in 1 .. 0 : FALSE
      OBVIOUS
    <3> QED BY <3>1 DEF Rows
  <2> QED BY <1>2, <1>3, <2>1
<1>4. CASE i # 0
  <2>1. i - 1 \in Nat /\ i - 1 \notin Bad
    BY <1>2, <1>4
  <2>2. PICK h : Rows(h, seqs, i - 1)
    BY <2>1
  <2> DEFINE g == [k \in 1 .. i |-> IF k = i THEN IF i = 1 THEN seqs[i] ELSE h[i - 1] \o seqs[i] ELSE h[k]]
             Nth(k) == IF k = 1 THEN seqs[k] ELSE g[k - 1] \o seqs[k]
  <2>3. \A k \in 1 .. i : k # i => k \in 1 .. i - 1
    BY <1>2
  <2>4. ASSUME NEW k \in 1 .. i PROVE g[k] = Nth(k)
    <3>1. k # 1 => k - 1 \in 1 .. i /\ k - 1 # i
      BY <1>2
    <3>2. k # 1 => g[k - 1] = h[k - 1]
      BY <3>1
    <3>3. k # i => h[k] = IF k = 1 THEN seqs[k] ELSE h[k - 1] \o seqs[k]
      BY <2>2, <2>3 DEF Rows
    <3>4. g[k] = IF k = i THEN IF i = 1 THEN seqs[i] ELSE h[i - 1] \o seqs[i] ELSE h[k]
      OBVIOUS
    <3> HIDE DEF g
    <3> QED BY <3>2, <3>3, <3>4
  <2>5. g = [k \in 1 .. i |-> Nth(k)]
    <3>1. g = [k \in 1 .. i |-> g[k]]
      OBVIOUS
    <3> HIDE DEF g, Nth
    <3> QED BY <2>4, <3>1
  <2>6. Rows(g, seqs, i)
    BY <2>5 DEF Rows
  <2> QED BY <1>2, <2>6
<1> QED BY <1>3, <1>4

\* Rows of sequences over one set are sequences over it.
LEMMA RowsTyped ==
    ASSUME NEW E, NEW n \in Nat, NEW seqs, \A i \in 1 .. n : seqs[i] \in Seq(E), NEW g, Rows(g, seqs, n)
    PROVE  \A i \in 1 .. n : g[i] \in Seq(E)
<1> DEFINE Bad == {i \in Nat : i \in 1 .. n /\ g[i] \notin Seq(E)}
<1>1. SUFFICES ASSUME Bad # {} PROVE FALSE
  OBVIOUS
<1>2. PICK i \in Bad : \A j \in Bad : i <= j
  BY <1>1, LeastNat
<1>3. g[i] = IF i = 1 THEN seqs[i] ELSE g[i - 1] \o seqs[i]
  BY <1>2 DEF Rows
<1>4. CASE i = 1
  BY <1>2, <1>3, <1>4
<1>5. CASE i # 1
  <2>1. i - 1 \in 1 .. n /\ i - 1 \notin Bad
    BY <1>2, <1>5
  <2>2. g[i - 1] \in Seq(E) /\ seqs[i] \in Seq(E)
    BY <1>2, <2>1
  <2>3. g[i - 1] \o seqs[i] \in Seq(E)
    BY <2>2, ConcatProperties
  <2> QED BY <1>2, <1>3, <1>5, <2>3
<1> QED BY <1>4, <1>5

\* What FlattenSeq returns.
LEMMA FlattenTyped ==
    ASSUME NEW E, NEW seqs \in Seq(Seq(E))
    PROVE  FlattenSeq(seqs) \in Seq(E)
<1>1. PICK n \in Nat : n = Len(seqs)
  OBVIOUS
<1> DEFINE f == CHOOSE g : g = [i \in 1 .. Len(seqs) |-> IF i = 1 THEN seqs[i] ELSE g[i - 1] \o seqs[i]]
<1>4. FlattenSeq(seqs) = IF Len(seqs) = 0 THEN seqs ELSE f[Len(seqs)]
  BY Zenon DEF FlattenSeq
<1> HIDE DEF f
<1>2. CASE n = 0
  <2>1. seqs = <<>>
    <3>1. PICK A : A = Seq(E)
      OBVIOUS
    <3>2. seqs \in Seq(A) /\ Len(seqs) = 0
      BY <1>1, <1>2, <3>1
    <3> QED BY <3>2, EmptySeq
  <2> QED BY <1>1, <1>2, <1>4, <2>1
<1>3. CASE n # 0
  <2>1. FlattenSeq(seqs) = f[Len(seqs)]
    BY <1>1, <1>3, <1>4
  <2>2. f = [i \in 1 .. Len(seqs) |-> IF i = 1 THEN seqs[i] ELSE f[i - 1] \o seqs[i]]
    <3>1. \E g : Rows(g, seqs, Len(seqs))
      BY <1>1, RowsExist
    <3> QED BY <3>1 DEF Rows, f
  <2>3. Rows(f, seqs, n)
    BY <1>1, <2>2 DEF Rows
  <2>4. \A i \in 1 .. n : seqs[i] \in Seq(E)
    BY <1>1
  <2>5. f[n] \in Seq(E)
    <3>1. \A i \in 1 .. n : f[i] \in Seq(E)
      BY <2>3, <2>4, RowsTyped
    <3> QED BY <1>3, <3>1
  <2> QED BY <1>1, <2>1, <2>5
<1> QED BY <1>2, <1>3

-----------------------------------------------------------------------------

\* Max of a set of indices is in it.
LEMMA MaxOfSet ==
    ASSUME NEW n \in Nat, NEW s \in SUBSET (1 .. n), s # {}
    PROVE  Max(s) \in s /\ (n \in s => Max(s) = n) /\ Max(s) \in 1 .. n /\ \A y \in s : y <= Max(s)
<1>1. \E x \in s : \A y \in s : x >= y
  <2> DEFINE D == {n - y : y \in s}
  <2>1. D \in SUBSET Nat /\ D # {}
    <3>1. \A y \in s : n - y \in Nat
      OBVIOUS
    <3> QED BY <3>1
  <2>2. PICK d \in D : \A j \in D : d <= j
    BY <2>1, LeastNat
  <2>3. PICK x \in s : d = n - x
    BY <2>2
  <2>4. \A y \in s : n - x <= n - y
    BY <2>2, <2>3
  <2> QED BY <2>3, <2>4
<1>2. Max(s) \in s /\ \A y \in s : Max(s) >= y
  BY <1>1 DEF Max
<1>3. Max(s) \in 1 .. n
  BY <1>2
<1>4. n \in s => Max(s) = n
  <2>1. n \in s => Max(s) >= n
    BY <1>2
  <2> QED BY <1>3, <2>1
<1> QED BY <1>2, <1>3, <1>4

\* g is what Summed builds over the sets of the first n of b.
Adds(x, y) == (x + y) % Byte
Sums(g, b, n) == g = [s \in SUBSET (1 .. n) |-> IF s = {} THEN 0 ELSE Adds(g[s \ {Max(s)}], b[Max(s)])]

\* Summed is one function.
LEMMA SumsExist ==
    ASSUME NEW b, NEW n \in Nat
    PROVE  \E g : Sums(g, b, n)
<1> DEFINE Bad == {i \in Nat : ~ \E g : Sums(g, b, i)}
<1>1. SUFFICES ASSUME Bad # {} PROVE FALSE
  OBVIOUS
<1>2. PICK i \in Bad : \A j \in Bad : i <= j
  BY <1>1, LeastNat
<1>3. CASE i = 0
  <2> DEFINE g == [s \in SUBSET (1 .. 0) |-> 0]
  <2>1. Sums(g, b, 0)
    <3>1. \A s \in SUBSET (1 .. 0) : s = {}
      OBVIOUS
    <3> QED BY <3>1 DEF Sums
  <2> QED BY <1>2, <1>3, <2>1
<1>4. CASE i # 0
  <2>1. i - 1 \in Nat /\ i - 1 \notin Bad
    BY <1>2, <1>4
  <2>2. PICK h : Sums(h, b, i - 1)
    BY <2>1
  <2> DEFINE g == [s \in SUBSET (1 .. i) |-> IF i \in s THEN Adds(h[s \ {i}], b[i]) ELSE h[s]]
             Nth(s) == IF s = {} THEN 0 ELSE Adds(g[s \ {Max(s)}], b[Max(s)])
  <2>3. \A s \in SUBSET (1 .. i) : s \ {i} \in SUBSET (1 .. i - 1) /\ s \ {i} \in SUBSET (1 .. i)
    BY <2>1
  <2>4. \A s \in SUBSET (1 .. i - 1) : s \in SUBSET (1 .. i) /\ g[s] = h[s]
    BY <2>1
  <2>5. ASSUME NEW s \in SUBSET (1 .. i) PROVE g[s] = Nth(s)
    <3>1. CASE i \in s
      <4>1. Max(s) = i
        BY <1>2, <3>1, MaxOfSet
      <4>2. g[s \ {i}] = h[s \ {i}]
        BY <2>3, <2>4
      <4> HIDE DEF g
      <4>3. g[s] = Adds(h[s \ {i}], b[i])
        BY <3>1 DEF g
      <4> QED BY <3>1, <4>1, <4>2, <4>3
    <3>2. CASE i \notin s
      <4>1. s \in SUBSET (1 .. i - 1)
        BY <2>3, <3>2
      <4>2. g[s] = h[s]
        BY <2>4, <4>1
      <4>3. h[s] = IF s = {} THEN 0 ELSE Adds(h[s \ {Max(s)}], b[Max(s)])
        BY <2>2, <4>1 DEF Sums
      <4>4. s # {} => s \ {Max(s)} \in SUBSET (1 .. i - 1)
        BY <4>1
      <4>5. s # {} => g[s \ {Max(s)}] = h[s \ {Max(s)}]
        BY <2>4, <4>4
      <4> HIDE DEF g
      <4> QED BY <4>2, <4>3, <4>5
    <3> QED BY <3>1, <3>2
  <2>6. g = [s \in SUBSET (1 .. i) |-> Nth(s)]
    <3>1. g = [s \in SUBSET (1 .. i) |-> g[s]]
      OBVIOUS
    <3> HIDE DEF g, Nth
    <3> QED BY <2>5, <3>1
  <2>7. Sums(g, b, i)
    BY <2>6 DEF Sums
  <2> QED BY <1>2, <2>7
<1> QED BY <1>3, <1>4

LEMMA AddsTyped == ASSUME NEW x \in 0 .. Byte - 1, NEW y \in 0 .. Byte - 1 PROVE Adds(x, y) \in 0 .. Byte - 1
<1>1. PICK m \in Nat : m = Byte /\ m > 0
  BY Constants
<1>2. \A z \in Nat : z % m \in 0 .. m - 1
  BY <1>1
<1>3. x + y \in Nat
  BY <1>1
<1> QED BY <1>1, <1>2, <1>3 DEF Adds

\* Sums of bytes are bytes.
LEMMA SumsTyped ==
    ASSUME NEW n \in Nat, NEW b, \A i \in 1 .. n : b[i] \in 0 .. Byte - 1, NEW g, Sums(g, b, n)
    PROVE  g[1 .. n] \in 0 .. Byte - 1
<1> DEFINE Bad == {i \in Nat : i <= n /\ \E s \in SUBSET (1 .. i) : g[s] \notin 0 .. Byte - 1}
<1>1. SUFFICES ASSUME Bad # {} PROVE FALSE
  <2>1. n \notin Bad
    BY <1>1
  <2> QED BY <2>1
<1>2. PICK i \in Bad : \A j \in Bad : i <= j
  BY <1>1, LeastNat
<1>3. PICK s \in SUBSET (1 .. i) : g[s] \notin 0 .. Byte - 1
  BY <1>2
<1>4. s \in SUBSET (1 .. n) /\ i \in Nat /\ i <= n
  BY <1>2, <1>3
<1>5. g[s] = IF s = {} THEN 0 ELSE Adds(g[s \ {Max(s)}], b[Max(s)])
  BY <1>4 DEF Sums
<1>6. 0 \in 0 .. Byte - 1
  BY Constants
<1>7. s # {}
  BY <1>3, <1>5, <1>6
<1>8. Max(s) \in s /\ Max(s) \in 1 .. i /\ \A y \in s : y <= Max(s)
  BY <1>4, <1>7, MaxOfSet
<1>9. i - 1 \in Nat /\ i - 1 \notin Bad /\ i - 1 <= n
  BY <1>2, <1>4, <1>8
<1>10. s \ {Max(s)} \in SUBSET (1 .. i - 1)
  <2>1. ASSUME NEW y \in s, y # Max(s) PROVE y \in 1 .. i - 1
    <3>1. y \in 1 .. i /\ y <= Max(s) /\ Max(s) \in 1 .. i
      BY <1>8
    <3> QED BY <3>1, <2>1, <1>4
  <2> QED BY <2>1
<1>11. g[s \ {Max(s)}] \in 0 .. Byte - 1
  BY <1>9, <1>10
<1>12. b[Max(s)] \in 0 .. Byte - 1
  BY <1>4, <1>8
<1>13. Adds(g[s \ {Max(s)}], b[Max(s)]) \in 0 .. Byte - 1
  BY <1>11, <1>12, AddsTyped
<1> QED BY <1>3, <1>5, <1>7, <1>13

\* The sum of a sequence of bytes, as the checksum is taken, is a byte.
LEMMA SummedTyped ==
    ASSUME NEW b \in Seq(0 .. Byte - 1)
    PROVE  Summed(b) \in 0 .. Byte - 1
<1>1. PICK n \in Nat : n = Len(b) /\ DOMAIN b = 1 .. n
  BY LenProperties
<1> DEFINE f == CHOOSE g : g = [s \in SUBSET (DOMAIN b) |-> IF s = {} THEN 0 ELSE Adds(g[s \ {Max(s)}], b[Max(s)])]
<1>2. Summed(b) = f[DOMAIN b]
  BY DEF Summed, Adds, FoldLeft, MapThenFoldSet
<1>3. f = [s \in SUBSET (DOMAIN b) |-> IF s = {} THEN 0 ELSE Adds(f[s \ {Max(s)}], b[Max(s)])]
  <2>1. \E g : Sums(g, b, n)
    BY SumsExist
  <2> QED BY <1>1, <2>1 DEF Sums
<1> HIDE DEF f
<1>4. Sums(f, b, n)
  BY <1>1, <1>3 DEF Sums
<1>5. \A i \in 1 .. n : b[i] \in 0 .. Byte - 1
  <2>1. b \in [1 .. Len(b) -> 0 .. Byte - 1]
    BY LenProperties
  <2> QED BY <1>1, <2>1
<1>6. f[1 .. n] \in 0 .. Byte - 1
  BY <1>4, <1>5, SumsTyped
<1> QED BY <1>1, <1>2, <1>6

Bits == 0 .. Byte - 1

\* Both digits of a byte are below Base.
LEMMA DivBelow ==
    ASSUME NEW k \in Nat, k > 0, NEW n \in Nat, n < k * k
    PROVE  n \div k \in 0 .. k - 1 /\ n % k \in 0 .. k - 1
<1>1. PICK q \in Int : q = n \div k
  OBVIOUS
<1>2. PICK m \in 0 .. k - 1 : m = n % k /\ n = k * q + m
  BY <1>1
<1>3. q >= 0
  <2>1. SUFFICES ASSUME q <= -1 PROVE FALSE
    BY <1>1
  <2>2. k * q <= k * (-1)
    BY <2>1
  <2>3. k * (-1) = -k
    OBVIOUS
  <2> QED BY <1>2, <2>2, <2>3
<1>4. q <= k - 1
  <2>1. SUFFICES ASSUME q >= k PROVE FALSE
    BY <1>1
  <2>2. k * q >= k * k
    BY <2>1
  <2> QED BY <1>2, <2>2
<1> QED BY <1>1, <1>2, <1>3, <1>4

\* A byte is written as two digits.
LEMMA Digits2Marks == ASSUME NEW b \in Bits PROVE Digits2(b) \in Seq(Marks)
<1>1. PICK k \in Nat : k = Base /\ k > 0 /\ k * k = Byte
  BY Constants DEF Byte
<1>2. b \in Nat /\ b < k * k
  BY <1>1, Constants DEF Bits
<1>3. b \div k \in 0 .. k - 1 /\ b % k \in 0 .. k - 1
  BY <1>1, <1>2, DivBelow
<1>4. b \div Base \in Marks /\ b % Base \in Marks
  BY <1>1, <1>3 DEF Marks, Digit
<1> QED BY <1>4 DEF Digits2

\* ... and bytes as twice as many.
LEMMA BytesMarks == ASSUME NEW b \in Seq(Bits) PROVE Bytes(b) \in Seq(Marks)
<1>1. PICK n \in Nat : n = Len(b) /\ b \in [1 .. n -> Bits]
  BY LenProperties
<1>2. PICK a : a = [i \in 1 .. Len(b) |-> Digits2(b[i])]
  OBVIOUS
<1>3. PICK A : A = Seq(Marks)
  OBVIOUS
<1>4. \A i \in 1 .. n : Digits2(b[i]) \in A
  BY <1>1, <1>3, Digits2Marks
<1>5. a \in [1 .. n -> A]
  BY <1>1, <1>2, <1>4
<1>6. a \in Seq(A)
  BY <1>5
<1>7. FlattenSeq(a) \in Seq(Marks)
  BY <1>3, <1>6, FlattenTyped
<1> QED BY <1>2, <1>7 DEF Bytes

\* The fields of a record are bytes.
LEMMA BodyBytes == ASSUME NEW r \in Record PROVE Body(r) \in Seq(Bits) /\ r.data \in Seq(Bits) /\ r.page \in Bits
<1>1. r.at \in Word /\ r.data \in Seq(Bits) /\ r.page \in Bits
  BY DEF Record, Bits
<1>2. PICK k \in Nat : k = Byte /\ k > 0
  BY Constants
<1>3. r.at \in Nat /\ r.at < k * k
  BY <1>1, <1>2, Constants DEF Word
<1>4. PICK w \in Nat : w = r.at /\ w < k * k
  BY <1>3
<1>5. w \div k \in 0 .. k - 1 /\ w % k \in 0 .. k - 1
  BY <1>2, <1>4, DivBelow
<1>6. 0 \in Bits
  BY <1>2 DEF Bits
<1>7. PICK x \in Bits : x = r.at \div Byte
  BY <1>2, <1>4, <1>5 DEF Bits
<1>8. PICK y \in Bits : y = r.at % Byte
  BY <1>2, <1>4, <1>5 DEF Bits
<1>9. <<x, y, 0>> \in Seq(Bits)
  BY <1>6
<1>10. <<x, y, 0>> \o r.data \in Seq(Bits)
  BY <1>1, <1>9, ConcatProperties
<1> QED BY <1>1, <1>7, <1>8, <1>10 DEF Body

LEMMA MarkText ==
    /\ Colon \in Marks /\ CR \in Marks /\ <<>> \in Seq(Marks)
    /\ \A c \in Marks : <<c>> \in Seq(Marks)
<1>1. Colon \in Marks /\ CR \in Marks
  BY DEF Marks
<1>2. <<>> \in Seq(Marks)
  BY EmptySeq
<1>3. \A c \in Marks : <<c>> \in Seq(Marks)
  OBVIOUS
<1> QED BY <1>1, <1>2, <1>3

\* A record is a colon, digits and a carriage return.
LEMMA RecordMarks ==
    ASSUME NEW r \in Record, Len(r.data) < Byte
    PROVE  RecordText(r) \in Seq(Marks)
<1>1. Body(r) \in Seq(Bits) /\ r.data \in Seq(Bits) /\ r.page \in Bits
  BY BodyBytes
<1>2. PICK k \in Nat : k = Byte /\ k > 0
  BY Constants
<1>3. PICK n \in Bits : n = Len(r.data)
  <2>1. Len(r.data) \in Nat
    BY <1>1
  <2> QED BY <1>2, <2>1 DEF Bits
<1>4. PICK s \in Bits : s = Summed(<<n>> \o Body(r))
  <2>1. <<n>> \in Seq(Bits)
    OBVIOUS
  <2>2. <<n>> \o Body(r) \in Seq(Bits)
    BY <1>1, <2>1, ConcatProperties
  <2> QED BY <2>2, SummedTyped DEF Bits
<1>5. PICK c \in Bits : c = (Byte - s) % Byte
  <2>1. \A z \in Nat : z % k \in 0 .. k - 1
    BY <1>2
  <2>2. k - s \in Nat
    BY <1>2, <1>4 DEF Bits
  <2> QED BY <1>2, <2>1, <2>2 DEF Bits
<1>6. Body(r) \o <<c>> \in Seq(Bits)
  <2>1. <<c>> \in Seq(Bits)
    OBVIOUS
  <2> QED BY <1>1, <2>1, ConcatProperties
<1>7. PICK t1 \in Seq(Marks) : t1 = Digits2(n)
  BY Digits2Marks
<1>8. PICK t2 \in Seq(Marks) : t2 = IF paged THEN Digits2(r.page) ELSE <<>>
  <2>1. Digits2(r.page) \in Seq(Marks)
    BY <1>1, Digits2Marks
  <2> QED BY <2>1, MarkText
<1>9. PICK t3 \in Seq(Marks) : t3 = Bytes(Body(r) \o <<c>>)
  BY <1>6, BytesMarks
<1>10. PICK t0 \in Seq(Marks) : t0 = <<Colon>>
  BY MarkText
<1>11. PICK t4 \in Seq(Marks) : t4 = <<CR>>
  BY MarkText
<1>12. RecordText(r) = t0 \o t1 \o t2 \o t3 \o t4
  BY <1>3, <1>4, <1>5, <1>7, <1>8, <1>9, <1>10, <1>11 DEF RecordText
<1>13. t0 \o t1 \o t2 \o t3 \o t4 \in Seq(Marks)
  <2>1. t0 \o t1 \in Seq(Marks)
    BY ConcatProperties
  <2>2. t0 \o t1 \o t2 \in Seq(Marks)
    BY <2>1, ConcatProperties
  <2>3. t0 \o t1 \o t2 \o t3 \in Seq(Marks)
    BY <2>2, ConcatProperties
  <2> QED BY <2>3, ConcatProperties
<1> QED BY <1>12, <1>13

\* So is the end record.
LEMMA EndMarks == EndText \in Seq(Marks)
<1>1. PICK k \in Nat : k = Byte /\ k > 1
  BY Constants
<1>2. PICK b \in Seq(Bits) : b = <<0, 0, 0, 1, Byte - 1>>
  <2>1. 0 \in Bits /\ 1 \in Bits
    BY <1>1 DEF Bits
  <2>2. PICK x \in Bits : x = Byte - 1
    BY <1>1 DEF Bits
  <2>3. PICK t : t = <<0, 0, 0, 1, x>>
    OBVIOUS
  <2>4. <<0, 0, 0>> \in Seq(Bits) /\ <<1, x>> \in Seq(Bits)
    BY <2>1, <2>2
  <2>5. t = <<0, 0, 0>> \o <<1, x>>
    BY <2>3
  <2>6. t \in Seq(Bits)
    BY <2>4, <2>5, ConcatProperties
  <2> QED BY <2>2, <2>3, <2>6
<1>3. PICK t1 \in Seq(Marks) : t1 = Bytes(b)
  BY BytesMarks
<1>4. PICK t0 \in Seq(Marks) : t0 = <<Colon>>
  BY MarkText
<1>5. PICK t2 \in Seq(Marks) : t2 = <<CR>>
  BY MarkText
<1>6. EndText = t0 \o t1 \o t2
  BY <1>2, <1>3, <1>4, <1>5 DEF EndText
<1>7. t0 \o t1 \in Seq(Marks)
  BY ConcatProperties
<1>8. t0 \o t1 \o t2 \in Seq(Marks)
  BY <1>7, ConcatProperties
<1> QED BY <1>6, <1>8

\* A file of records has digits and marks only.
LEMMA FileMarks == ASSUME NEW f \in Files PROVE FileText(f) \in Seq(Marks)
<1>1. f \in Seq(Record) /\ \A i \in DOMAIN f : Len(f[i].data) < Byte
  BY FileAssumption
<1>2. PICK n \in Nat : n = Len(f) /\ f \in [1 .. n -> Record]
  BY <1>1, LenProperties
<1>3. PICK A : A = Seq(Marks)
  OBVIOUS
<1>4. PICK a : a = [i \in 1 .. Len(f) |-> RecordText(f[i])]
  OBVIOUS
<1>5. \A i \in 1 .. n : RecordText(f[i]) \in A
  BY <1>1, <1>2, <1>3, RecordMarks
<1>6. a \in [1 .. n -> A]
  BY <1>2, <1>4, <1>5
<1>7. a \in Seq(A)
  BY <1>6
<1>8. FlattenSeq(a) \in Seq(Marks)
  BY <1>3, <1>7, FlattenTyped
<1>9. FlattenSeq(a) \o EndText \in Seq(Marks)
  BY <1>8, EndMarks, ConcatProperties
<1> QED BY <1>4, <1>9 DEF FileText

\* What noise makes of a file has digits and marks only.
LEMMA NoiseMarks == ASSUME NEW text \in Seq(Marks), NEW u \in Noise(text) PROVE u \in Seq(Marks)
<1>1. CASE u = text
  BY <1>1
<1>2. CASE u # text
  <2>1. PICK i \in Noisy(text), d \in Digit : u = [text EXCEPT ![i] = d]
    BY <1>2 DEF Noise
  <2>2. d \in Marks
    BY DEF Marks
  <2>3. PICK n \in Nat : n = Len(text) /\ text \in [1 .. n -> Marks]
    BY LenProperties
  <2>4. u \in [1 .. n -> Marks]
    BY <2>1, <2>2, <2>3
  <2> QED BY <2>4
<1> QED BY <1>1, <1>2

LEMMA MarksNat == Marks \subseteq Nat
BY Constants DEF Marks, Digit, Colon, CR

\* A file comes in as characters that are no command.
LEMMA FileCharacters ==
    ASSUME NEW u \in Seq(Marks)
    PROVE  Characters(u, "file") \in Seq(Character) /\ Sourced(Characters(u, "file"))
<1>1. PICK n \in Nat : n = Len(u) /\ u \in [1 .. n -> Marks]
  BY LenProperties
<1>2. PICK a : a = Characters(u, "file")
  OBVIOUS
<1>3. a = [i \in 1 .. n |-> [ch |-> u[i], by |-> "file"]]
  BY <1>1, <1>2 DEF Characters
<1>4. \A i \in 1 .. n : [ch |-> u[i], by |-> "file"] \in Character
  BY <1>1, MarksNat DEF Character
<1>5. a \in [1 .. n -> Character]
  BY <1>3, <1>4
<1>6. a \in Seq(Character)
  BY <1>5
<1>7. Sourced(a)
  BY <1>1, <1>3 DEF Sourced
<1> QED BY <1>2, <1>6, <1>7

\* The terminal sends a file.
LEMMA SendGood == ASSUME ConsoleInv, NEW f \in Files, Send(f) PROVE Good
<1>1. PICK text \in Noise(FileText(f)) : line' = Characters(text, "file")
  BY DEF Send
<1>2. text \in Seq(Marks)
  BY FileMarks, NoiseMarks
<1>3. line' \in Seq(Character) /\ Sourced(line')
  BY <1>1, <1>2, FileCharacters
<1>4. ctx = "monitor" /\ con = "colon" /\ UNCHANGED <<ctx, pc, st, ws, reg, stk, hex>>
  BY DEF Send, machine
<1> QED BY <1>3, <1>4, ConsoleStep DEF Good, ConsoleInv, StrayStep

\* The user types a key.
LEMMA KeyGood == ASSUME ConsoleInv, NEW c \in Typed, Key(c) PROVE Good
<1>1. /\ line' = Characters(<<c>>, "user") /\ UNCHANGED <<ctx, pc, st, ws, reg, stk, hex, con, ram, mem>>
      /\ ctx # "monitor" => c < Byte
  BY DEF Key, machine
<1>2. c \in Nat
  BY TypedAssumption
<1>3. PICK a : a = Characters(<<c>>, "user")
  OBVIOUS
<1>4. a = [i \in 1 .. 1 |-> [ch |-> c, by |-> "user"]]
  BY <1>3 DEF Characters
<1>5. a \in [1 .. 1 -> Character]
  BY <1>2, <1>4 DEF Character
<1>6. a \in Seq(Character) /\ Len(a) = 1 /\ DOMAIN a = 1 .. 1
  <2>1. PICK n \in Nat : n = 1
    OBVIOUS
  <2>2. a \in [1 .. n -> Character]
    BY <1>5, <2>1
  <2>3. a \in Seq(Character) /\ DOMAIN a = 1 .. n /\ Len(a) = n
    BY <2>2
  <2> QED BY <2>1, <2>3
<1>7. Sourced(a)
  BY <1>4, <1>6 DEF Sourced
<1>8. c < Byte => Readable(a)
  BY <1>2, <1>4, <1>6, Constants DEF Readable
<1> QED BY <1>1, <1>3, <1>6, <1>7, <1>8, ConsoleStep DEF Good, ConsoleInv, StrayStep

\* Every step.
LEMMA NextGood == ASSUME ConsoleInv, Next PROVE Good
BY ServeGood, HexDigitGood, ShowGood, CommandsGood, MoreGood, WPGood, EntryGood, GOGood, MarksGood, BytesGood,
   EndsGood, KeyGood, SendGood DEF Next

LEMMA SameGood == ASSUME ConsoleInv, UNCHANGED vars PROVE Good
<1>1. UNCHANGED <<ctx, pc, st, ws, reg, stk, ram, line, con, hex, mem>>
  BY DEF vars, machine, console
<1> QED BY <1>1, ConsoleStep DEF Good, ConsoleInv, StrayStep, ServiceInv

\* After a reset nothing is held and the stack is empty.
LEMMA ConsoleInit == MonitorInit => ConsoleInv /\ Stack!Init
<1> SUFFICES ASSUME MonitorInit PROVE ConsoleInv /\ Stack!Init
  OBVIOUS
<1>1. /\ ctx = "monitor" /\ pc = At("idle") /\ st = Off /\ ws = [s \in {} |-> Fresh]
      /\ reg = NoRegisters /\ stk = NoStack /\ line = <<>> /\ hex = 0
  BY DEF MonitorInit, Init
<1>2. st \in Status
  BY <1>1 DEF Off, Status
<1>3. Depth \in 0 .. Depth
  BY Constants
<1>4. Held(ws, ctx, st.mask, reg[SP]) /\ Registers
  BY <1>1, <1>3, NothingHeld DEF Registers
<1>5. Onward(ctx, pc)
  BY <1>1 DEF Onward, At
<1>6. line \in Seq(Character) /\ Sourced(line)
  BY <1>1 DEF Sourced
<1>7. ServiceInv
  BY <1>1, <1>2, <1>4, <1>5, <1>6, NothingHeld DEF ServiceInv
<1>8. ConsoleInv
  BY <1>1, <1>6, <1>7, ZeroWord DEF ConsoleInv
<1>9. GeneralOf(reg) \in [0 .. SP - 1 -> Word] /\ StackOf(reg, stk) = <<>>
  BY <1>1, NothingHeld
<1>10. Stack!Init
  BY <1>1, <1>9, ZeroWord DEF Stack!Init, Stack!Started, Stack!General, GeneralOf, StackOf, Top
<1> QED BY <1>8, <1>10

\* The XOP services and the interrupt handlers nest in the order of their
\* ranks: every workspace in use leads back to the one below it, and the lowest
\* to the program; a handler in progress keeps its own level and the lower ones
\* out; the status word and the registers stay what they are; and each service
\* in progress still has the operand it was called with, and the room for it on
\* the stack.  No service ever overwrites the links of one that waits for it.
THEOREM ServicesKeep == Spec => []ConsoleInv
<1>1. MonitorInit => ConsoleInv
  BY ConsoleInit
<1>2. ConsoleInv /\ [Next]_vars => ConsoleInv'
  BY NextGood, SameGood DEF Good
<1> QED BY <1>1, <1>2, PTL DEF Spec

\* However a load ends, and whichever digit of a file noise changes, no
\* character of it is taken as a command at the MONITOR's prompt: a command that
\* the prompt obeys was typed.
THEOREM NoCharacterStrays == Spec => NoStrayCommand
<1>1. ConsoleInv /\ [Next]_vars => StrayStep
  BY NextGood, SameGood DEF Good
<1>2. StrayStep => [ctx = "monitor" /\ con = "prompt" /\ (con' # con \/ ctx' # ctx \/ ram' # ram \/ mem' # mem)
       => line[1].by = "user"]_vars
  BY DEF StrayStep
<1> QED BY <1>1, <1>2, ServicesKeep, PTL DEF Spec, NoStrayCommand

\* CALL, RET, PUSH, POP, PUSHREG and POPREG implement the call stack, with
\* READ, WRITE, the listing and every handler running between and inside them:
\* at each moment the program goes on where, and with the stack that, CallStack
\* says.
THEOREM ServicesImplementStack == Spec => ImplementsCallStack
<1>1. MonitorInit => Stack!Init
  BY ConsoleInit
<1>2. ConsoleInv /\ [Next]_vars => [Stack!Next]_<<[i \in 0 .. SP - 1 |-> reg[i]], [k \in 1 .. Depth - Top |-> stk[Top + k - 1]],
                IF ctx = "program" THEN pc.n
                   ELSE IF ctx = "monitor" THEN 0 ELSE ws[Outermost].r14.n>>
  BY NextGood, SameGood, StutterView DEF Good, StackStep
<1> QED BY <1>1, <1>2, ServicesKeep, PTL DEF Spec, ImplementsCallStack, Stack!Spec
-----------------------------------------------------------------------------
\* What the services in progress have still to do.

\* Which workspace goes back to x; where x goes on then, and with which status.
Over(x, w) == CHOOSE t \in DOMAIN w : w[t].r13 = x
PlaceOf(x, w, c, p) == IF c = x THEN p ELSE w[Over(x, w)].r14
StatusOf(x, w, c, s) == IF c = x THEN s ELSE w[Over(x, w)].r15

\* The program and the services in progress, without the handlers: of each its
\* registers, its place and its status.
Tasks(w, c, p, s) ==
    [x \in (DOMAIN w \ Handlers) \cup {"program"} |->
        [own |-> IF x = "program" THEN Fresh ELSE w[x], at |-> PlaceOf(x, w, c, p), st |-> StatusOf(x, w, c, s)]]

\* What an effective address holds, as Operand.
Holds(e, u, r, k, b) ==
    CASE e[1] = "register" -> r[e[2]]
      [] e[1] = "stack"    -> k[e[2]]
      [] e[1] = "buffer"   -> b[e[2]]
      [] e[1] = "link"     -> u[e[2]].own.r14.n
      [] OTHER             -> u[e[1]].own[e[2]]

First(n, s) == SubSeq(s, 1, n)

\* What the services in progress have still to print.
CharDue(u, r, k, b) ==
    IF "WRITE" \in DOMAIN u THEN <<Char(Holds(u["WRITE"].own.r11, u, r, k, b))>> ELSE <<>>
WordDue(f, at, char, v) ==
    CASE at = "start" -> Four(v)
      [] at = "digit" -> First(f.r9, Four(f.r12))
      [] OTHER        -> char \o First(f.r9 - 1, Four(Rotated(f.r12)))
Due(u, r, k, b) ==
    IF "MESG" \in DOMAIN u THEN CharDue(u, r, k, b) \o u["MESG"].own.r11
    ELSE IF "WHEX" \in DOMAIN u
    THEN WordDue(u["WHEX"].own, u["WHEX"].at.at, CharDue(u, r, k, b), Holds(u["WHEX"].own.r11, u, r, k, b))
    ELSE CharDue(u, r, k, b)

\* What runs for a call of v, and that the program called v.
Helpers(v) ==
    CASE v = "MESG"  -> {"MESG", "WRITE"}
      [] v = "WHEX"  -> {"WHEX", "WRITE"}
      [] v = "RHEX"  -> {"RHEX", "READ", "WRITE"}
      [] v = "DEBUG" -> {"DEBUG", "MESG", "WHEX", "WRITE"}
      [] v = "INT2"  -> {"INT2", "WHEX", "WRITE"}
      [] v = "none"  -> Stackers
      [] OTHER       -> {v}

Serves(u, v) == /\ DOMAIN u \subseteq Helpers(v) \cup {"program"}
                /\ DOMAIN u = {"program"} \/ v = "none" \/ (v \in DOMAIN u /\ u[v].own.r13 = "program")

\* What each was called with, and where its caller waits.
ItemAt(n, r) == IF n = 2 THEN <<"stack", r[SP]>> ELSE <<"buffer", n - 3>>
CharLink(u, a) ==
    LET d == u["WRITE"].own.r13 e == u["WRITE"].own.r11
    IN \/ d = "program" /\ e = a.ea /\ a.svc = "WRITE"
       \/ d = "MESG" /\ d \in DOMAIN u /\ e = <<"MESG", "r12">>
       \/ d = "WHEX" /\ d \in DOMAIN u /\ e = <<"WHEX", "r8">> /\ u["WHEX"].at.at = "next"
       \/ d = "RHEX" /\ d \in DOMAIN u /\ e = <<"RHEX", "r10">> /\ u["RHEX"].at.at = "check"
WordLink(u, r, a) ==
    LET d == u["WHEX"].own.r13 e == u["WHEX"].own.r11
    IN \/ d = "program" /\ e = a.ea /\ a.svc = "WHEX"
       \/ d = "DEBUG" /\ d \in DOMAIN u /\ u["DEBUG"].at.n > 2 /\ e = ItemAt(u["DEBUG"].at.n - 1, r)
       \/ d = "INT2" /\ d \in DOMAIN u /\ e \in {<<"link", "INT2">>, <<"INT2", "r8">>}
TypedLink(u, a) ==
    LET d == u["READ"].own.r13 e == u["READ"].own.r11
    IN \/ d = "program" /\ e = a.ea /\ a.svc = "READ"
       \/ d = "RHEX" /\ d \in DOMAIN u /\ e = <<"RHEX", "r10">> /\ u["RHEX"].at.at = "echo"
Linked(u, r, k, b, a) ==
    /\ "WRITE" \in DOMAIN u => CharLink(u, a) /\ Char(Holds(u["WRITE"].own.r11, u, r, k, b)) \in Nat
    /\ "WHEX" \in DOMAIN u => WordLink(u, r, a)
    /\ "READ" \in DOMAIN u => TypedLink(u, a)
    /\ "RHEX" \in DOMAIN u => u["RHEX"].own.r11 = a.ea

Working(u) ==
    /\ "MESG" \in DOMAIN u => u["MESG"].at.at = "start" /\ u["MESG"].own.r11 \in Seq(Nat)
    /\ "WHEX" \in DOMAIN u =>
        /\ u["WHEX"].at.at \in {"start", "digit", "next"}
        /\ u["WHEX"].at.at # "start" => u["WHEX"].own.r12 \in Word /\ u["WHEX"].own.r9 \in 1 .. 4

Register(a) == \E i \in 0 .. SP - 1 : a.ea = <<"register", i>>
Known(a) ==
    \/ a = Quiet
    \/ /\ a.svc \in Terminal \cup Paging
       /\ a.reg \in [0 .. SP -> Word] /\ a.top \in Word /\ a.at.n \in Word
       /\ a.svc \in {"WHEX", "RHEX", "WRITE", "READ"} => Register(a)
       /\ a.svc \in {"MESG", "DEBUG"} => a.ea \in Texts
    \/ a.svc = "INT2" /\ a.at.n \in Word

Returning(u, a) ==
    /\ a.svc \in Terminal \cup Paging \cup {"INT2"} => u["program"].at = a.at
    /\ a.svc \in Terminal => u["program"].st = a.st
    /\ a.svc \in Paging => u["program"].st = IF a.svc \in DOMAIN u THEN a.st
                                             ELSE [a.st EXCEPT !.psel = (a.svc = "PSEL_EN")]

\* The first n - 1 items of a listing.
ItemFrom(j, a) == IF j = 1 THEN 0 ELSE Len(a.ea) + 4 * (j - 2)
Shown(j, a) == IF j = 2 THEN a.top ELSE IF j = 3 THEN a.at.n ELSE a.reg[j - 4]
Listed(t, n, a) ==
    /\ Len(t) = ItemFrom(n, a)
    /\ n > 1 => \A i \in 1 .. Len(a.ea) : t[i] = a.ea[i]
    /\ \A j \in (2 .. n - 1) \ {5}, i \in 1 .. 4 : t[ItemFrom(j, a) + i] = Four(Shown(j, a))[i]

Set(a, v) == [a.reg EXCEPT ![a.ea[2]] = v]
Numeral(y) == y \in Seq(Digit)
Ended(y) == y \in Seq(Nat) /\ y # <<>> /\ Numeral(Front(y)) /\ Last(y) \in 0 .. Byte - 1

ReadTrue(t, u, r, y, a) ==
    /\ t = <<>>
    /\ IF "READ" \in DOMAIN u THEN y = <<>> /\ r = a.reg ELSE Len(y) = 1 /\ r = Set(a, High(y[1]))
NumberTrue(t, u, r, y, a) ==
    IF "RHEX" \notin DOMAIN u
    THEN Ended(y) /\ t = y /\ Last(y) \notin Digit /\ r = Set(a, Number(Front(y)))
    ELSE LET f == u["RHEX"].own at == u["RHEX"].at.at
         IN /\ r = a.reg
            /\ \/ /\ at = "start" \/ (at = "echo" /\ "READ" \in DOMAIN u)
                  /\ Numeral(y) /\ t = y /\ f.r12 = Number(y)
               \/ /\ \/ at = "echo" /\ "READ" \notin DOMAIN u /\ t = Front(y)
                     \/ at = "check" /\ t = y
                  /\ Ended(y) /\ f.r10 = High(Last(y)) /\ f.r12 = Number(Front(y))
Copied(b, a) == b[0] = a.at.n /\ \A i \in (1 .. WPSTORE) \ {2} : b[i] = a.reg[i - 1]
ListTrue(t, u, r, k, b, a) ==
    IF "DEBUG" \notin DOMAIN u THEN Listed(t, SP + 5, a)
    ELSE LET at == u["DEBUG"].at
         IN /\ u["DEBUG"].own.r11 = a.ea /\ k[r[SP]] = a.top
            /\ \/ at.at = "start" /\ t = <<>> /\ DOMAIN u \cap {"MESG", "WHEX"} = {}
               \/ at.at = "list" /\ at.n \in 1 .. SP + 5 /\ Copied(b, a) /\ Listed(t, at.n, a)
CrashText(a) == Four(a.at.n) \o Four(TopDigit(a.at.n))
ReportTrue(t, u, a) ==
    /\ "INT2" \in DOMAIN u /\ u["INT2"].own.r8 = TopDigit(a.at.n) /\ u["INT2"].own.r14 = a.at
    /\ u["INT2"].at.n \in 1 .. 3
    /\ t = First(4 * (u["INT2"].at.n - 1), CrashText(a))
Prints(t, u, r, k, b, y, a) ==
    /\ a.svc \in {"WRITE", "WHEX", "MESG", "DEBUG"} \cup Paging => r = a.reg
    /\ a.svc = "WRITE" => t = <<Char(a.reg[a.ea[2]])>>
    /\ a.svc = "WHEX" => t = Four(a.reg[a.ea[2]])
    /\ a.svc = "MESG" => t = a.ea
    /\ a.svc = "READ" => ReadTrue(t, u, r, y, a)
    /\ a.svc = "RHEX" => NumberTrue(t, u, r, y, a)
    /\ a.svc = "DEBUG" => ListTrue(t, u, r, k, b, a)
    /\ a.svc = "INT2" => ReportTrue(t, u, a)

Tasked(u, r, k, b, o, y, a) ==
    /\ Serves(u, a.svc)
    /\ Linked(u, r, k, b, a)
    /\ Working(u)
    /\ Returning(u, a)
    /\ Prints(o \o Due(u, r, k, b), u, r, k, b, y, a)

\* The invariant: what is on the terminal and what is still due are together
\* what the call promises, and each service in progress knows what it needs.
MyTasks == Tasks(ws, ctx, pc, st)
ServedInv ==
    /\ ram \in [0 .. WPSTORE -> Word] /\ out \in Seq(Nat) /\ keys \in Seq(Nat)
    /\ Known(asked)
    /\ ctx # "monitor" => Tasked(MyTasks, reg, stk, ram, out, keys, asked)
    /\ ctx = "monitor" /\ asked.svc = "INT2" => out = CrashText(asked)

\* Ranks are numbers.
LEMMA RankSmall == ASSUME NEW s PROVE Rank(s) \in 1 .. 6
BY DEF Rank

\* One workspace goes back to x.
LEMMA OverIs ==
    ASSUME NEW w, NEW c, Nested(w, c), NEW t \in DOMAIN w
    PROVE  Over(w[t].r13, w) = t
<1>1. ASSUME NEW q \in DOMAIN w, w[q].r13 = w[t].r13 PROVE q = t
  <2>1. CASE w[t].r13 = "program"
    <3>1. Rank(t) <= Rank(q) /\ Rank(q) <= Rank(t)
      BY <1>1, <2>1 DEF Nested, Lowest
    <3>2. Rank(t) = Rank(q)
      BY <3>1, RankType
    <3> QED BY <3>2 DEF Nested
  <2>2. CASE w[t].r13 # "program"
    <3>1. Under(w[t].r13, t, w) /\ Under(w[t].r13, q, w)
      BY <1>1, <2>2 DEF Nested
    <3>2. ~(Rank(t) < Rank(q)) /\ ~(Rank(q) < Rank(t))
      BY <3>1, RankType DEF Under
    <3>3. Rank(t) = Rank(q)
      BY <3>2, RankType
    <3> QED BY <3>3 DEF Nested
  <2> QED BY <2>1, <2>2
<1>2. \E q \in DOMAIN w : w[q].r13 = w[t].r13
  OBVIOUS
<1>3. Over(w[t].r13, w) \in DOMAIN w /\ w[Over(w[t].r13, w)].r13 = w[t].r13
  BY <1>2 DEF Over
<1> QED BY <1>1, <1>3

\* ... and there is one, unless x runs.
LEMMA OverExists ==
    ASSUME NEW w, NEW c, Nested(w, c), c # "monitor", NEW x \in DOMAIN w \cup {"program"}, x # c
    PROVE  \E t \in DOMAIN w : w[t].r13 = x
<1>1. CASE x = "program"
  <2>1. c \in DOMAIN w
    BY <1>1 DEF Nested
  <2> QED BY <1>1, <2>1 DEF Nested
<1>2. CASE x # "program"
  <2>1. x \in DOMAIN w /\ c \in DOMAIN w /\ Rank(x) <= Rank(c) /\ Rank(x) # Rank(c)
    BY <1>2 DEF Nested
  <2> DEFINE Higher == {Rank(s) : s \in {q \in DOMAIN w : Rank(x) < Rank(q)}}
  <2>2. Higher \subseteq Nat /\ Higher # {}
    BY <2>1, RankSmall, RankType
  <2>3. PICK m \in Higher : \A n \in Higher : m <= n
    BY <2>2, LeastNat
  <2>4. PICK t \in DOMAIN w : Rank(x) < Rank(t) /\ m = Rank(t)
    BY <2>3
  <2>5. \A q \in DOMAIN w : Rank(x) < Rank(q) => Rank(t) <= Rank(q)
    BY <2>3, <2>4
  <2> HIDE DEF Higher
  <2>6. w[t].r13 # "program"
    <3>1. ~Lowest(t, w)
      BY <2>1, <2>4, RankType DEF Lowest
    <3> QED BY <3>1 DEF Nested
  <2>7. Under(w[t].r13, t, w)
    BY <2>6 DEF Nested
  <2>8. w[t].r13 \in DOMAIN w /\ Rank(w[t].r13) < Rank(t) /\ Rank(x) <= Rank(w[t].r13)
    BY <2>1, <2>4, <2>7 DEF Under
  <2>9. ~(Rank(x) < Rank(w[t].r13))
    BY <2>5, <2>8, RankType
  <2>10. Rank(x) = Rank(w[t].r13)
    BY <2>8, <2>9, RankType
  <2>11. x = w[t].r13
    BY <2>1, <2>8, <2>10 DEF Nested
  <2> QED BY <2>11
<1> QED BY <1>1, <1>2

\* What runs is above everything else.
LEMMA TopTask ==
    ASSUME NEW w, NEW c, Nested(w, c), c \in DOMAIN w, NEW x \in DOMAIN w, x # c
    PROVE  Rank(x) < Rank(c)
<1>1. Rank(x) <= Rank(c) /\ Rank(x) # Rank(c)
  BY DEF Nested
<1> QED BY <1>1, RankType

\* Entering a workspace moves nobody's place.
LEMMA PlaceJoined ==
    ASSUME NEW w, NEW c, NEW s, NEW f, NEW p, NEW m, Nested(w, c), c # "monitor",
           s \in Services, c # "program" => Rank(c) < Rank(s), f.r13 = c,
           NEW x \in DOMAIN w \cup {"program"}
    PROVE  /\ PlaceOf(x, Joined(s, f, w), s, p) = PlaceOf(x, w, c, f.r14)
           /\ StatusOf(x, Joined(s, f, w), s, m) = StatusOf(x, w, c, f.r15)
<1> DEFINE w2 == Joined(s, f, w)
<1>1. DOMAIN w2 = DOMAIN w \cup {s} /\ w2[s] = f /\ \A t \in DOMAIN w : t # s => w2[t] = w[t]
  BY DEF Joined
<1>2. Nested(w2, s) /\ s \notin DOMAIN w
  BY NestedJoined
<1>3. s \notin {"program", "monitor"}
  BY DEF Services, Terminal, Paging, Stackers, Handlers
<1> HIDE DEF w2
<1>4. x # s
  BY <1>2, <1>3
<1>5. CASE x = c
  <2>1. Over(c, w2) = s
    BY <1>1, <1>2, OverIs
  <2> QED BY <1>1, <1>4, <1>5, <2>1 DEF PlaceOf, StatusOf, w2
<1>6. CASE x # c
  <2>1. PICK t \in DOMAIN w : w[t].r13 = x
    BY <1>6, OverExists
  <2>2. Over(x, w) = t
    BY <2>1, OverIs
  <2>3. t # s /\ w2[t] = w[t] /\ t \in DOMAIN w2
    BY <1>1, <1>2, <2>1
  <2>4. Over(x, w2) = t
    BY <1>2, <2>1, <2>3, OverIs
  <2> QED BY <1>4, <1>6, <2>2, <2>3, <2>4 DEF PlaceOf, StatusOf, w2
<1> QED BY <1>5, <1>6

\* Leaving one neither.
LEMMA PlaceLeft ==
    ASSUME NEW w, NEW c, NEW p, NEW m, Nested(w, c), c \in DOMAIN w,
           NEW x \in (DOMAIN w \ {c}) \cup {"program"}
    PROVE  /\ PlaceOf(x, Without(c, w), w[c].r13, w[c].r14) = PlaceOf(x, w, c, p)
           /\ StatusOf(x, Without(c, w), w[c].r13, w[c].r15) = StatusOf(x, w, c, m)
<1> DEFINE w2 == Without(c, w)
           d == w[c].r13
<1>1. DOMAIN w2 = DOMAIN w \ {c} /\ \A t \in DOMAIN w2 : w2[t] = w[t]
  BY DEF Without
<1>2. c \notin {"program", "monitor"} /\ x # c
  BY DEF Nested, Services, Terminal, Paging, Stackers, Handlers
<1>3. Nested(w2, d)
  BY <1>2, NestedLeft
<1>4. Over(d, w) = c
  BY OverIs
<1> HIDE DEF w2
<1>5. CASE x = d
  BY <1>2, <1>4, <1>5 DEF PlaceOf, StatusOf, w2
<1>6. CASE x # d
  <2>1. PICK t \in DOMAIN w : w[t].r13 = x
    BY <1>2, OverExists
  <2>2. Over(x, w) = t
    BY <2>1, OverIs
  <2>3. t # c
    BY <2>1, <1>6
  <2>4. t \in DOMAIN w2 /\ w2[t] = w[t]
    BY <1>1, <2>1, <2>3
  <2>5. Over(x, w2) = t
    BY <1>3, <2>1, <2>4, OverIs
  <2> QED BY <1>2, <1>6, <2>2, <2>4, <2>5 DEF PlaceOf, StatusOf, w2
<1> QED BY <1>5, <1>6

\* A workspace that goes on within its own code moves nobody else's place.
LEMMA PlaceSame ==
    ASSUME NEW w, NEW w2, NEW c, NEW p, NEW p2, NEW m, Nested(w, c), c # "monitor", SameLinks(w2, w),
           NEW x \in DOMAIN w \cup {"program"}
    PROVE  /\ PlaceOf(x, w2, c, p2) = IF x = c THEN p2 ELSE PlaceOf(x, w, c, p)
           /\ StatusOf(x, w2, c, m) = StatusOf(x, w, c, m)
<1>1. Nested(w2, c)
  BY NestedSame
<1>2. CASE x = c
  BY <1>2 DEF PlaceOf, StatusOf
<1>3. CASE x # c
  <2>1. PICK t \in DOMAIN w : w[t].r13 = x
    BY <1>3, OverExists
  <2>2. t \in DOMAIN w2 /\ w2[t].r13 = x /\ w2[t].r14 = w[t].r14 /\ w2[t].r15 = w[t].r15
    BY <2>1 DEF SameLinks
  <2>3. Over(x, w) = t /\ Over(x, w2) = t
    BY <1>1, <2>1, <2>2, OverIs
  <2> QED BY <1>3, <2>2, <2>3 DEF PlaceOf, StatusOf
<1> QED BY <1>2, <1>3

Task(f, at, m) == [own |-> f, at |-> at, st |-> m]
\* The task c has gone on to p with the registers own.
Moved(c, own, p, u) == [x \in DOMAIN u |-> IF x = c THEN Task(own, p, u[x].st) ELSE u[x]]

\* Whose tasks there are, and what each is.
LEMMA TasksDomain ==
    ASSUME NEW w, NEW c, NEW p, NEW m
    PROVE  DOMAIN Tasks(w, c, p, m) = (DOMAIN w \ Handlers) \cup {"program"}
BY DEF Tasks

\* ... of one of them.
LEMMA TaskOf ==
    ASSUME NEW w, NEW c, NEW p, NEW m, NEW x, x \in (DOMAIN w \ Handlers) \cup {"program"}
    PROVE  Tasks(w, c, p, m)[x] = Task(IF x = "program" THEN Fresh ELSE w[x],
                                       PlaceOf(x, w, c, p), StatusOf(x, w, c, m))
BY DEF Tasks, Task

\* The parts of a task.
LEMMA TaskParts ==
    ASSUME NEW f, NEW at, NEW m
    PROVE  Task(f, at, m).own = f /\ Task(f, at, m).at = at /\ Task(f, at, m).st = m
BY DEF Task

\* No service is named program or monitor.
LEMMA NoNames == {"program", "monitor"} \cap Services = {}
BY DEF Services, Terminal, Paging, Stackers, Handlers

\* Equality of functions with such domains.
LEMMA TasksEqual ==
    ASSUME NEW w, NEW c, NEW p, NEW m, NEW v, v = [x \in DOMAIN v |-> v[x]],
           DOMAIN v = (DOMAIN w \ Handlers) \cup {"program"},
           \A x \in DOMAIN v : v[x] = Task(IF x = "program" THEN Fresh ELSE w[x],
                                           PlaceOf(x, w, c, p), StatusOf(x, w, c, m))
    PROVE  Tasks(w, c, p, m) = v
BY DEF Tasks, Task

\* A handler is no task.
LEMMA TasksHandler ==
    ASSUME NEW w, NEW c, NEW s \in Handlers, NEW f, NEW p, NEW m, Nested(w, c), c # "monitor",
           c # "program" => Rank(c) < Rank(s), f.r13 = c
    PROVE  Tasks(Joined(s, f, w), s, p, m) = Tasks(w, c, f.r14, f.r15)
<1> DEFINE w2 == Joined(s, f, w)
           v == Tasks(w, c, f.r14, f.r15)
<1>1. s \in Services /\ s # "program"
  BY DEF Services, Handlers
<1>2. DOMAIN w2 = DOMAIN w \cup {s} /\ \A x \in DOMAIN w : x # s => w2[x] = w[x]
  BY DEF Joined
<1>3. DOMAIN v = (DOMAIN w2 \ Handlers) \cup {"program"} /\ v = [x \in DOMAIN v |-> v[x]]
  BY <1>2, TasksDomain, TaskOf DEF Tasks
<1>4. ASSUME NEW x \in DOMAIN v
      PROVE  v[x] = Task(IF x = "program" THEN Fresh ELSE w2[x], PlaceOf(x, w2, s, p), StatusOf(x, w2, s, m))
  <2>1. x \in DOMAIN w \cup {"program"} /\ x \in (DOMAIN w \ Handlers) \cup {"program"}
    BY <1>4, TasksDomain, TaskOf
  <2>2. PlaceOf(x, w2, s, p) = PlaceOf(x, w, c, f.r14) /\ StatusOf(x, w2, s, m) = StatusOf(x, w, c, f.r15)
    BY <1>1, <2>1, PlaceJoined
  <2>3. x # "program" => w2[x] = w[x]
    BY <1>2, <2>1
  <2> HIDE DEF w2
  <2> QED BY <2>1, <2>2, <2>3, TasksDomain, TaskOf
<1> HIDE DEF w2, v
<1>5. Tasks(w2, s, p, m) = v
  BY <1>3, <1>4, TasksEqual
<1> QED BY <1>5 DEF w2, v

\* A service is one more.
LEMMA TasksJoined ==
    ASSUME NEW w, NEW c, NEW s \in Services \ Handlers, NEW f, NEW p, NEW m, Nested(w, c), c # "monitor",
           c # "program" => Rank(c) < Rank(s), f.r13 = c
    PROVE  Tasks(Joined(s, f, w), s, p, m) = Joined(s, Task(f, p, m), Tasks(w, c, f.r14, f.r15))
<1> DEFINE w2 == Joined(s, f, w)
           u == Tasks(w, c, f.r14, f.r15)
           v == Joined(s, Task(f, p, m), u)
<1>1. s # "program" /\ s \notin DOMAIN w
  BY NoNames, NestedJoined
<1>2. DOMAIN w2 = DOMAIN w \cup {s} /\ w2[s] = f /\ \A x \in DOMAIN w : x # s => w2[x] = w[x]
  BY DEF Joined
<1>3. DOMAIN v = DOMAIN u \cup {s} /\ v[s] = Task(f, p, m) /\ (\A x \in DOMAIN u : x # s => v[x] = u[x])
      /\ v = [x \in DOMAIN v |-> v[x]]
  BY DEF Joined
<1>4. DOMAIN u = (DOMAIN w \ Handlers) \cup {"program"}
  BY TasksDomain, TaskOf
<1> HIDE DEF w2, v
<1>5. DOMAIN v = (DOMAIN w2 \ Handlers) \cup {"program"}
  BY <1>2, <1>3, <1>4
<1>6. ASSUME NEW x \in DOMAIN v
      PROVE  v[x] = Task(IF x = "program" THEN Fresh ELSE w2[x], PlaceOf(x, w2, s, p), StatusOf(x, w2, s, m))
  <2>1. CASE x = s
    BY <1>1, <1>2, <1>3, <2>1 DEF PlaceOf, StatusOf
  <2>2. CASE x # s
    <3>1. x \in DOMAIN w \cup {"program"} /\ x \in (DOMAIN w \ Handlers) \cup {"program"} /\ v[x] = u[x]
      BY <1>3, <1>4, <1>6, <2>2
    <3>2. PlaceOf(x, w2, s, p) = PlaceOf(x, w, c, f.r14) /\ StatusOf(x, w2, s, m) = StatusOf(x, w, c, f.r15)
      BY <3>1, PlaceJoined DEF w2
    <3>3. x # "program" => w2[x] = w[x]
      BY <1>2, <2>2, <3>1
    <3>4. u[x] = Task(IF x = "program" THEN Fresh ELSE w[x], PlaceOf(x, w, c, f.r14), StatusOf(x, w, c, f.r15))
      BY <3>1, TasksDomain, TaskOf
    <3> HIDE DEF u
    <3> QED BY <3>1, <3>2, <3>3, <3>4
  <2> QED BY <2>1, <2>2
<1>7. Tasks(w2, s, p, m) = v
  BY <1>3, <1>5, <1>6, TasksEqual
<1> QED BY <1>7 DEF w2, v

\* When a workspace is left, its task is gone, and nothing else has changed.
LEMMA TasksLeft ==
    ASSUME NEW w, NEW c, NEW p, NEW m, Nested(w, c), c \in DOMAIN w
    PROVE  Tasks(Without(c, w), w[c].r13, w[c].r14, w[c].r15) = Without(c, Tasks(w, c, p, m))
<1> DEFINE w2 == Without(c, w)
           u == Tasks(w, c, p, m)
           v == Without(c, u)
<1>1. c # "program"
  BY NoNames DEF Nested
<1>2. DOMAIN w2 = DOMAIN w \ {c} /\ \A x \in DOMAIN w2 : w2[x] = w[x]
  BY DEF Without
<1>3. DOMAIN v = DOMAIN u \ {c} /\ (\A x \in DOMAIN v : v[x] = u[x]) /\ v = [x \in DOMAIN v |-> v[x]]
  BY DEF Without
<1>4. DOMAIN u = (DOMAIN w \ Handlers) \cup {"program"}
  BY TasksDomain, TaskOf
<1> HIDE DEF w2, v
<1>5. DOMAIN v = (DOMAIN w2 \ Handlers) \cup {"program"}
  BY <1>1, <1>2, <1>3, <1>4
<1>6. ASSUME NEW x \in DOMAIN v
      PROVE  v[x] = Task(IF x = "program" THEN Fresh ELSE w2[x],
                         PlaceOf(x, w2, w[c].r13, w[c].r14), StatusOf(x, w2, w[c].r13, w[c].r15))
  <2>1. x \in (DOMAIN w \ {c}) \cup {"program"} /\ x \in (DOMAIN w \ Handlers) \cup {"program"} /\ v[x] = u[x]
    BY <1>1, <1>3, <1>4, <1>6
  <2>2. /\ PlaceOf(x, w2, w[c].r13, w[c].r14) = PlaceOf(x, w, c, p)
        /\ StatusOf(x, w2, w[c].r13, w[c].r15) = StatusOf(x, w, c, m)
    BY <2>1, PlaceLeft DEF w2
  <2>3. x # "program" => w2[x] = w[x]
    BY <1>2, <2>1
  <2>4. u[x] = Task(IF x = "program" THEN Fresh ELSE w[x], PlaceOf(x, w, c, p), StatusOf(x, w, c, m))
    BY <2>1, TasksDomain, TaskOf
  <2> HIDE DEF u
  <2> QED BY <2>1, <2>2, <2>3, <2>4
<1>7. Tasks(w2, w[c].r13, w[c].r14, w[c].r15) = v
  BY <1>3, <1>5, <1>6, TasksEqual
<1> QED BY <1>7 DEF w2, v

\* Without a handler they are the same.
LEMMA TasksLeftHandler ==
    ASSUME NEW w, NEW c, NEW p, NEW m, Nested(w, c), c \in DOMAIN w \cap Handlers
    PROVE  Tasks(Without(c, w), w[c].r13, w[c].r14, w[c].r15) = Tasks(w, c, p, m)
<1>1. c \notin DOMAIN Tasks(w, c, p, m)
  <2>1. c # "program"
    BY NoNames DEF Nested
  <2> QED BY <2>1, TasksDomain, TaskOf
<1>2. Without(c, Tasks(w, c, p, m)) = Tasks(w, c, p, m)
  <2>1. Tasks(w, c, p, m) = [x \in DOMAIN Tasks(w, c, p, m) |-> Tasks(w, c, p, m)[x]]
    BY DEF Tasks
  <2> QED BY <1>1, <2>1 DEF Without
<1> QED BY <1>2, TasksLeft

\* What runs goes on.
LEMMA TasksMoved ==
    ASSUME NEW w, NEW w2, NEW c, NEW own, NEW p, NEW p2, NEW m, Nested(w, c), c \in DOMAIN w \ Handlers,
           SameLinks(w2, w), w2[c] = own, \A x \in DOMAIN w : x # c => w2[x] = w[x]
    PROVE  Tasks(w2, c, p2, m) = Moved(c, own, p2, Tasks(w, c, p, m))
<1> DEFINE u == Tasks(w, c, p, m)
           v == Moved(c, own, p2, u)
<1>1. c # "program" /\ c # "monitor"
  BY NoNames DEF Nested
<1>2. DOMAIN w2 = DOMAIN w
  BY DEF SameLinks
<1>3. DOMAIN u = (DOMAIN w \ Handlers) \cup {"program"} /\ c \in DOMAIN u
  BY TasksDomain, TaskOf
<1>4. DOMAIN v = DOMAIN u /\ (\A x \in DOMAIN u : x # c => v[x] = u[x]) /\ v = [x \in DOMAIN v |-> v[x]]
      /\ v[c] = Task(own, p2, u[c].st)
  BY <1>3 DEF Moved
<1> HIDE DEF v
<1>5. ASSUME NEW x \in DOMAIN v
      PROVE  v[x] = Task(IF x = "program" THEN Fresh ELSE w2[x], PlaceOf(x, w2, c, p2), StatusOf(x, w2, c, m))
  <2>1. x \in DOMAIN w \cup {"program"} /\ x \in (DOMAIN w \ Handlers) \cup {"program"}
    BY <1>3, <1>4
  <2>2. PlaceOf(x, w2, c, p2) = (IF x = c THEN p2 ELSE PlaceOf(x, w, c, p)) /\ StatusOf(x, w2, c, m) = StatusOf(x, w, c, m)
    BY <1>1, <2>1, PlaceSame
  <2>3. u[x] = Task(IF x = "program" THEN Fresh ELSE w[x], PlaceOf(x, w, c, p), StatusOf(x, w, c, m))
    BY <2>1, TasksDomain, TaskOf
  <2> HIDE DEF u
  <2>4. CASE x = c
    <3>1. PICK g, at, n : g = w[c] /\ at = PlaceOf(c, w, c, p) /\ n = StatusOf(c, w, c, m)
      OBVIOUS
    <3>2. u[c] = Task(g, at, n)
      BY <1>1, <2>3, <2>4, <3>1
    <3>3. v[c] = Task(own, p2, n)
      BY <1>4, <3>2, TaskParts
    <3> QED BY <1>1, <2>2, <2>4, <3>1, <3>3
  <2>5. CASE x # c
    BY <1>4, <2>1, <2>2, <2>3, <2>5
  <2> QED BY <2>4, <2>5
<1>6. Tasks(w2, c, p2, m) = v
  BY <1>2, <1>3, <1>4, <1>5, TasksEqual
<1> QED BY <1>6 DEF v
-----------------------------------------------------------------------------
\* The digits of a word.
\* A quotient and its remainder.
Splits(x, n, q, r) == n \in Nat /\ q \in Nat /\ r \in 0 .. n - 1 /\ x = n * q + r

\* Quotient and remainder of what is put together from them.
LEMMA Divided ==
    ASSUME NEW x, NEW n, NEW q, NEW r, Splits(x, n, q, r)
    PROVE  x \div n = q /\ x % n = r
<1>0. n \in Nat /\ q \in Nat /\ r \in 0 .. n - 1 /\ x = n * q + r
  BY DEF Splits
<1>1. x \in Nat
  <2>1. n * q \in Nat
    BY <1>0
  <2> QED BY <1>0, <2>1
<1>2. PICK e \in Int : e = x \div n
  <2>1. n > 0
    BY <1>0
  <2> QED BY <1>0, <1>1, <2>1
<1>3. PICK s \in 0 .. n - 1 : s = x % n /\ x = n * e + s
  <2>1. n > 0
    BY <1>0
  <2> QED BY <1>0, <1>1, <1>2, <2>1
<1>4. PICK k \in Int : k = e - q
  BY <1>0, <1>2
<1>5. n * k = r - s
  <2>1. n * k = n * e - n * q
    BY <1>0, <1>2, <1>4
  <2>2. PICK u \in Int, v \in Int, y \in Int : u = n * e /\ v = n * q /\ y = n * k
    BY <1>0, <1>2, <1>4
  <2>3. v + r = u + s /\ y = u - v
    BY <1>0, <1>3, <2>1, <2>2
  <2>4. r \in Int /\ s \in Int
    BY <1>0, <1>3
  <2>5. y = r - s
    BY <2>2, <2>3, <2>4
  <2> QED BY <2>2, <2>5
<1>6. k = 0
  <2>1. CASE k >= 1
    <3>1. n * k >= n
      BY <1>0, <1>4, <2>1
    <3> QED BY <3>1, <1>0, <1>3, <1>5
  <2>2. CASE k <= -1
    <3>1. n * k <= -n
      BY <1>0, <1>4, <2>2
    <3> QED BY <3>1, <1>0, <1>3, <1>5
  <2> QED BY <1>4, <2>1, <2>2
<1>7. e = q /\ s = r
  BY <1>0, <1>2, <1>3, <1>4, <1>5, <1>6
<1> QED BY <1>2, <1>3, <1>7

\* Digits put together stay below the next power.
LEMMA DigitBounds ==
    ASSUME NEW b \in Nat, b > 1, NEW x \in 0 .. b - 1, NEW n \in Nat, NEW y \in 0 .. n - 1
    PROVE  y * b + x \in 0 .. n * b - 1
<1>1. y <= n - 1 /\ y >= 0
  OBVIOUS
<1>2. y * b <= (n - 1) * b /\ y * b >= 0
  BY <1>1
<1>3. (n - 1) * b = n * b - b
  OBVIOUS
<1> QED BY <1>2, <1>3

\* Each digit of a word is what Four says.
LEMMA WorthOf ==
    ASSUME NEW d1 \in Digit, NEW d2 \in Digit, NEW d3 \in Digit, NEW d4 \in Digit, NEW w,
           w = ((d1 * Base + d2) * Base + d3) * Base + d4
    PROVE  w \in Word /\ Four(w) = <<d1, d2, d3, d4>> /\ TopDigit(w) = d1
<1>1. PICK b \in Nat : b = Base /\ b > 1
  BY Constants
<1>2. d1 \in 0 .. b - 1 /\ d2 \in 0 .. b - 1 /\ d3 \in 0 .. b - 1 /\ d4 \in 0 .. b - 1
  BY <1>1 DEF Digit
<1>3. PICK b2 \in Nat : b2 = b * b
  BY <1>1
<1>4. PICK b3 \in Nat : b3 = b2 * b
  BY <1>1, <1>3
<1>5. PICK b4 \in Nat : b4 = b3 * b
  BY <1>1, <1>4
<1>6. PICK w2 : w2 = d1 * b + d2
  OBVIOUS
<1>7. w2 \in 0 .. b2 - 1
  BY <1>1, <1>2, <1>3, <1>6, DigitBounds
<1>8. PICK w3 : w3 = w2 * b + d3
  OBVIOUS
<1>9. w3 \in 0 .. b3 - 1
  BY <1>1, <1>2, <1>4, <1>7, <1>8, DigitBounds
<1>10. w = w3 * b + d4
  BY <1>1, <1>6, <1>8
<1>11. w \in 0 .. b4 - 1
  BY <1>1, <1>2, <1>5, <1>9, <1>10, DigitBounds
<1>12. Byte = b2 /\ Byte * Byte = b4 /\ Base * Byte = b3
  BY <1>1, <1>3, <1>4, <1>5 DEF Byte
<1>13. w % b = d4 /\ w \div b = w3
  <2>1. w = b * w3 + d4
    BY <1>1, <1>2, <1>9, <1>10
  <2>2. Splits(w, b, w3, d4)
    BY <1>1, <1>2, <1>9, <2>1 DEF Splits
  <2> QED BY <2>2, Divided
<1>14. w3 % b = d3
  <2>1. w3 = b * w2 + d3
    BY <1>1, <1>2, <1>7, <1>8
  <2>2. Splits(w3, b, w2, d3)
    BY <1>1, <1>2, <1>7, <2>1 DEF Splits
  <2> QED BY <2>2, Divided
<1>15. w \div b2 = w2
  <2>1. PICK r : r = d3 * b + d4
    OBVIOUS
  <2>2. r \in 0 .. b2 - 1
    BY <1>1, <1>2, <1>3, <2>1, DigitBounds
  <2>3. w = b2 * w2 + r
    BY <1>1, <1>2, <1>3, <1>7, <1>8, <1>10, <2>1
  <2>4. Splits(w, b2, w2, r)
    BY <1>3, <1>7, <2>2, <2>3 DEF Splits
  <2> QED BY <2>4, Divided
<1>16. w2 % b = d2
  <2>1. w2 = b * d1 + d2
    BY <1>1, <1>2, <1>6
  <2>2. Splits(w2, b, d1, d2)
    BY <1>1, <1>2, <2>1 DEF Splits
  <2> QED BY <2>2, Divided
<1>17. w \div b3 = d1
  <2>1. PICK r : r = d3 * b + d4
    OBVIOUS
  <2>2. r \in 0 .. b2 - 1
    BY <1>1, <1>2, <1>3, <2>1, DigitBounds
  <2>3. PICK s : s = d2 * b2 + r
    OBVIOUS
  <2>4. s \in 0 .. b * b2 - 1
    <3>1. CASE b2 > 1
      BY <1>2, <1>1, <1>3, <2>2, <2>3, <3>1, DigitBounds
    <3>2. b2 > 1
      <4>1. b * b >= b + b - 1
        BY <1>1
      <4> QED BY <1>1, <1>3, <4>1
    <3> QED BY <3>1, <3>2
  <2>5. b * b2 = b3
    BY <1>1, <1>3, <1>4
  <2>6. w = b3 * d1 + s
    BY <1>1, <1>2, <1>3, <1>4, <1>6, <1>8, <1>10, <2>1, <2>3
  <2>7. Splits(w, b3, d1, s)
    BY <1>2, <1>4, <2>4, <2>5, <2>6 DEF Splits
  <2> QED BY <2>7, Divided
<1>18. d1 % b = d1
  BY <1>1, <1>2
<1>19. Four(w) = <<d1, d2, d3, d4>>
  <2>1. Four(w) = <<(w \div b3) % b, (w \div b2) % b, (w \div b) % b, w % b>>
    BY <1>1, <1>12 DEF Four
  <2> QED BY <2>1, <1>13, <1>14, <1>15, <1>16, <1>17, <1>18
<1> QED BY <1>11, <1>12, <1>17, <1>19 DEF Word, TopDigit

\* Every word has such digits.
LEMMA WordDigits ==
    ASSUME NEW w \in Word
    PROVE  \E d1, d2, d3, d4 \in Digit : w = ((d1 * Base + d2) * Base + d3) * Base + d4
<1>1. PICK b \in Nat : b = Base /\ b > 1
  BY Constants
<1>2. \A x \in Nat, n \in Nat : x < n * b => /\ x % b \in 0 .. b - 1 /\ x \div b \in Nat /\ x \div b < n
                                           /\ x = (x \div b) * b + (x % b)
  <2> TAKE x \in Nat, n \in Nat
  <2> HAVE x < n * b
  <2>1. PICK q \in Int, r \in 0 .. b - 1 : q = x \div b /\ r = x % b /\ x = q * b + r
    BY <1>1
  <2>2. q >= 0
    <3>1. SUFFICES ASSUME q <= -1 PROVE FALSE
      BY <2>1
    <3>2. q * b <= -b
      BY <1>1, <3>1
    <3> QED BY <2>1, <3>2
  <2>3. q < n
    <3>1. SUFFICES ASSUME q >= n PROVE FALSE
      BY <2>1
    <3>2. q * b >= n * b
      BY <1>1, <3>1
    <3> QED BY <2>1, <3>2
  <2> QED BY <2>1, <2>2, <2>3
<1>3. PICK b2 \in Nat : b2 = b * b
  BY <1>1
<1>4. PICK b3 \in Nat : b3 = b2 * b
  BY <1>1, <1>3
<1>5. Byte * Byte = b3 * b
  BY <1>1, <1>3, <1>4 DEF Byte
<1>6. w \in Nat /\ w < b3 * b
  BY <1>5, Constants DEF Word
<1>7. PICK w3 \in Nat, d4 \in 0 .. b - 1 : w3 < b3 /\ w = w3 * b + d4
  BY <1>2, <1>4, <1>6
<1>8. PICK w2 \in Nat, d3 \in 0 .. b - 1 : w2 < b2 /\ w3 = w2 * b + d3
  BY <1>2, <1>3, <1>4, <1>7
<1>9. PICK d1 \in Nat, d2 \in 0 .. b - 1 : d1 < b /\ w2 = d1 * b + d2
  <2>1. w2 < b * b
    BY <1>3, <1>8
  <2>2. PICK n \in Nat : n = b
    BY <1>1
  <2>3. w2 < n * b
    BY <2>1, <2>2
  <2>4. /\ w2 % b \in 0 .. b - 1 /\ w2 \div b \in Nat /\ w2 \div b < n
        /\ w2 = (w2 \div b) * b + (w2 % b)
    BY <1>2, <2>3
  <2> QED BY <2>2, <2>4
<1>10. d1 \in Digit /\ d2 \in Digit /\ d3 \in Digit /\ d4 \in Digit
  BY <1>1, <1>7, <1>8, <1>9 DEF Digit
<1>11. w = ((d1 * Base + d2) * Base + d3) * Base + d4
  BY <1>1, <1>7, <1>8, <1>9
<1> QED BY <1>10, <1>11

\* A digit that goes in from the right pushes the first one out.
LEMMA ShiftedIs ==
    ASSUME NEW d1 \in Digit, NEW d2 \in Digit, NEW d3 \in Digit, NEW d4 \in Digit, NEW e \in Digit
    PROVE  Shifted(((d1 * Base + d2) * Base + d3) * Base + d4, e) = ((d2 * Base + d3) * Base + d4) * Base + e
<1>1. PICK b \in Nat : b = Base /\ b > 1
  BY Constants
<1>2. d1 \in 0 .. b - 1 /\ d2 \in 0 .. b - 1 /\ d3 \in 0 .. b - 1 /\ d4 \in 0 .. b - 1 /\ e \in 0 .. b - 1
  BY <1>1 DEF Digit
<1>3. PICK b2 \in Nat : b2 = b * b
  BY <1>1
<1>4. PICK b3 \in Nat : b3 = b2 * b
  BY <1>1, <1>3
<1>5. PICK b4 \in Nat : b4 = b3 * b /\ b4 = Byte * Byte
  BY <1>1, <1>3, <1>4 DEF Byte
<1>6. PICK v2 : v2 = d2 * b + d3
  OBVIOUS
<1>7. v2 \in 0 .. b2 - 1
  BY <1>1, <1>2, <1>3, <1>6, DigitBounds
<1>8. PICK v3 : v3 = v2 * b + d4
  OBVIOUS
<1>9. v3 \in 0 .. b3 - 1
  BY <1>1, <1>2, <1>4, <1>7, <1>8, DigitBounds
<1>10. PICK v4 : v4 = v3 * b + 0
  OBVIOUS
<1>11. 0 \in 0 .. b - 1
  BY <1>1
<1>12. v4 \in 0 .. b4 - 1
  BY <1>1, <1>5, <1>9, <1>10, <1>11, DigitBounds
<1>13. PICK w \in Int : w = ((d1 * b + d2) * b + d3) * b + d4
  BY <1>1, <1>2
<1>14. w * b = b4 * d1 + v4
  <2>1. w = b3 * d1 + v3
    BY <1>1, <1>2, <1>3, <1>4, <1>6, <1>8, <1>13
  <2>2. (b3 * d1 + v3) * b = (b3 * b) * d1 + v3 * b
    BY <1>1, <1>2, <1>4, <1>9
  <2> QED BY <2>1, <2>2, <1>1, <1>5, <1>9, <1>10
<1>15. (w * b) % b4 = v4
  <2>1. Splits(w * b, b4, d1, v4)
    BY <1>2, <1>5, <1>12, <1>14 DEF Splits
  <2> QED BY <2>1, Divided
<1>16. Shifted(w, e) = v4 + e
  BY <1>1, <1>5, <1>15 DEF Shifted
<1>17. v4 + e = ((d2 * b + d3) * b + d4) * b + e
  BY <1>1, <1>2, <1>6, <1>8, <1>9, <1>10
<1> QED BY <1>1, <1>13, <1>16, <1>17

\* The four digits, one after the other, as the word is turned.
LEMMA TurnedDigits ==
    ASSUME NEW w \in Word
    PROVE  /\ Rotated(w) \in Word /\ TopDigit(w) \in Digit
           /\ Four(w) \in Seq(Digit) /\ Len(Four(w)) = 4 /\ Four(w)[1] = TopDigit(w)
           /\ \A i \in 1 .. 3 : Four(Rotated(w))[i] = Four(w)[i + 1]
<1>1. PICK d1 \in Digit, d2 \in Digit, d3 \in Digit, d4 \in Digit : w = ((d1 * Base + d2) * Base + d3) * Base + d4
  BY WordDigits
<1>2. Four(w) = <<d1, d2, d3, d4>> /\ TopDigit(w) = d1
  BY <1>1, WorthOf
<1>3. PICK v : v = Rotated(w)
  OBVIOUS
<1>4. v = ((d2 * Base + d3) * Base + d4) * Base + d1
  BY <1>1, <1>2, <1>3, ShiftedIs DEF Rotated
<1>5. v \in Word /\ Four(v) = <<d2, d3, d4, d1>>
  BY <1>4, WorthOf
<1>6. \A i \in 1 .. 3 : <<d2, d3, d4, d1>>[i] = <<d1, d2, d3, d4>>[i + 1]
  <2> TAKE i \in 1 .. 3
  <2>1. i = 1 \/ i = 2 \/ i = 3
    OBVIOUS
  <2> QED BY <2>1
<1> QED BY <1>2, <1>3, <1>5, <1>6
-----------------------------------------------------------------------------
\* What is printed.

\* Digits are numbers.
LEMMA DigitNat == Digit \subseteq Nat /\ Seq(Digit) \subseteq Seq(Nat)
<1>1. Digit \subseteq Nat
  BY Constants DEF Digit
<1>2. ASSUME NEW s \in Seq(Digit) PROVE s \in Seq(Nat)
  <2>1. Len(s) \in Nat /\ s \in [1 .. Len(s) -> Digit]
    BY LenProperties
  <2>2. s \in [1 .. Len(s) -> Nat]
    BY <1>1, <2>1
  <2> QED BY <2>1, <2>2
<1> QED BY <1>1, <1>2

\* The first n digits of a word.
LEMMA FirstIs ==
    ASSUME NEW w \in Word, NEW n \in 0 .. 4
    PROVE  /\ First(n, Four(w)) \in Seq(Nat) /\ Len(First(n, Four(w))) = n
           /\ \A i \in 1 .. n : First(n, Four(w))[i] = Four(w)[i]
<1>1. PICK f \in Seq(Nat) : f = Four(w) /\ Len(f) = 4
  BY TurnedDigits, DigitNat
<1>2. n \in Int /\ \A i \in 1 .. n : f[i] \in Nat
  <2>1. f \in [1 .. 4 -> Nat]
    BY <1>1, LenProperties
  <2> QED BY <2>1
<1>3. PICK g : g = SubSeq(f, 1, n)
  OBVIOUS
<1>4. g \in Seq(Nat) /\ Len(g) = (IF 1 <= n THEN n - 1 + 1 ELSE 0) /\ \A i \in 1 .. n - 1 + 1 : g[i] = f[1 + i - 1]
  BY <1>2, <1>3, SubSeqProperties
<1>5. \A i \in 1 .. n : i \in 1 .. n - 1 + 1 /\ 1 + i - 1 = i
  OBVIOUS
<1> QED BY <1>1, <1>3, <1>4, <1>5 DEF First

\* They are the top digit and what follows when the word is turned.
LEMMA FirstTurned ==
    ASSUME NEW w \in Word, NEW n \in 1 .. 4
    PROVE  First(n, Four(w)) = <<TopDigit(w)>> \o First(n - 1, Four(Rotated(w)))
<1>1. PICK v \in Word : v = Rotated(w)
  BY TurnedDigits
<1>2. PICK d \in Nat : d = TopDigit(w) /\ d = Four(w)[1]
  BY TurnedDigits, DigitNat
<1>3. \A i \in 1 .. 3 : Four(v)[i] = Four(w)[i + 1]
  BY <1>1, TurnedDigits
<1>4. PICK f \in Seq(Nat) : f = First(n, Four(w)) /\ Len(f) = n /\ \A i \in 1 .. n : f[i] = Four(w)[i]
  <2>1. n \in 0 .. 4
    OBVIOUS
  <2> QED BY <2>1, FirstIs
<1>5. PICK k \in 0 .. 3 : k = n - 1
  OBVIOUS
<1>6. PICK g \in Seq(Nat) : g = First(k, Four(v)) /\ Len(g) = k /\ \A i \in 1 .. k : g[i] = Four(v)[i]
  <2>1. k \in 0 .. 4
    OBVIOUS
  <2> QED BY <2>1, FirstIs
<1>7. <<d>> \in Seq(Nat) /\ Len(<<d>>) = 1 /\ <<d>>[1] = d
  OBVIOUS
<1>8. PICK h : h = <<d>> \o g
  OBVIOUS
<1>9. h \in Seq(Nat) /\ Len(h) = 1 + k /\ \A i \in 1 .. 1 + k : h[i] = IF i <= 1 THEN <<d>>[i] ELSE g[i - 1]
  BY <1>6, <1>7, <1>8, ConcatProperties
<1>10. ASSUME NEW i \in 1 .. n PROVE f[i] = h[i]
  <2>1. CASE i = 1
    BY <1>2, <1>4, <1>5, <1>7, <1>9, <2>1
  <2>2. CASE i # 1
    <3>1. i - 1 \in 1 .. k /\ i - 1 \in 1 .. 3 /\ i \in 1 .. 1 + k
      BY <1>5, <2>2
    <3>2. h[i] = g[i - 1] /\ g[i - 1] = Four(v)[i - 1]
      BY <1>6, <1>9, <2>2, <3>1
    <3>3. Four(v)[i - 1] = Four(w)[i]
      BY <1>3, <3>1
    <3> QED BY <1>4, <3>2, <3>3
  <2> QED BY <2>1, <2>2
<1>11. f = h
  BY <1>4, <1>5, <1>9, <1>10, SeqEqual
<1> QED BY <1>1, <1>2, <1>4, <1>5, <1>6, <1>8, <1>11

\* All four of them, and none.
LEMMA FirstAll ==
    ASSUME NEW w \in Word
    PROVE  First(4, Four(w)) = Four(w) /\ First(0, Four(w)) = <<>>
<1>1. PICK f \in Seq(Nat) : f = Four(w) /\ Len(f) = 4
  BY TurnedDigits, DigitNat
<1>2. PICK g \in Seq(Nat) : g = First(4, Four(w)) /\ Len(g) = 4 /\ \A i \in 1 .. 4 : g[i] = f[i]
  BY <1>1, FirstIs
<1>3. g = f
  BY <1>1, <1>2, SeqEqual
<1>4. First(0, Four(w)) \in Seq(Nat) /\ Len(First(0, Four(w))) = 0
  BY FirstIs
<1> QED BY <1>1, <1>2, <1>3, <1>4, EmptySeq

\* The terminal's byte is the high one of a word.
LEMMA CharHigh == ASSUME NEW c \in Nat PROVE Char(High(c)) = c
<1>1. Splits(High(c), Byte, c, 0)
  BY Constants DEF Splits, High
<1> QED BY <1>1, Divided DEF Char

\* A character that is printed is no longer due.
LEMMA OneLess ==
    ASSUME NEW o \in Seq(Nat), NEW c \in Nat, NEW s \in Seq(Nat)
    PROVE  o \o (<<c>> \o s) = Append(o, c) \o s /\ Append(o, c) \in Seq(Nat)
<1>1. <<c>> \in Seq(Nat)
  OBVIOUS
<1>2. (o \o <<c>>) \o s = o \o (<<c>> \o s)
  BY <1>1, ConcatAssociative
<1>3. o \o <<c>> = Append(o, c)
  BY AppendIsConcat
<1> QED BY <1>2, <1>3, AppendProperties

-----------------------------------------------------------------------------
\* Steps on the tasks: c is gone; c has gone on; c has gone on and called s.
Less(c, u, u2) == DOMAIN u2 = DOMAIN u \ {c} /\ \A x \in DOMAIN u2 : u2[x] = u[x]
OnlyMoved(c, own, p, u, u2) ==
    /\ DOMAIN u2 = DOMAIN u /\ \A x \in DOMAIN u : x # c => u2[x] = u[x]
    /\ c \in DOMAIN u /\ u2[c].own = own /\ u2[c].at = p /\ u2[c].st = u[c].st
Entered(s, f, c, own, p, u, u2) ==
    /\ DOMAIN u2 = DOMAIN u \cup {s} /\ s \notin DOMAIN u
    /\ \A x \in DOMAIN u : x # c => u2[x] = u[x]
    /\ u2[s].own = f /\ u2[s].at = At("start")
    /\ c \in DOMAIN u /\ u2[c].own = own /\ u2[c].at = p /\ u2[c].st = u[c].st

Sound(r, k, b, o, y, a) ==
    /\ r \in [0 .. SP -> Word] /\ r[SP] \in 0 .. Depth /\ k \in [0 .. Depth -> Word]
    /\ b \in [0 .. WPSTORE -> Word] /\ o \in Seq(Nat) /\ y \in Seq(Nat) /\ Known(a)

\* What the services in progress have to print.
LEMMA CharDueIs ==
    ASSUME NEW u, NEW r, NEW k, NEW b, NEW a, Linked(u, r, k, b, a)
    PROVE  CharDue(u, r, k, b) \in Seq(Nat)
BY DEF CharDue, Linked

\* Which services never run together for one call.
LEMMA HelpersApart ==
    ASSUME NEW v
    PROVE  /\ "WHEX" \in Helpers(v) => v \in {"WHEX", "DEBUG", "INT2"} /\ "RHEX" \notin Helpers(v)
           /\ "MESG" \in Helpers(v) => v \in {"MESG", "DEBUG"} /\ "RHEX" \notin Helpers(v)
           /\ "RHEX" \in Helpers(v) => v = "RHEX"
           /\ "READ" \in Helpers(v) => v \in {"RHEX", "READ"}
           /\ "WRITE" \in Helpers(v) => v \in {"WRITE", "MESG", "WHEX", "RHEX", "DEBUG", "INT2"}
           /\ "DEBUG" \in Helpers(v) => v = "DEBUG"
           /\ "INT2" \in Helpers(v) => v = "INT2"
BY DEF Helpers, Stackers

\* WRITE has printed its character.
LEMMA WriteDone ==
    ASSUME NEW u, NEW r, NEW k, NEW b, NEW o, NEW y, NEW a, NEW u2, NEW o2,
           Sound(r, k, b, o, y, a), Tasked(u, r, k, b, o, y, a), "WRITE" \in DOMAIN u, "program" \in DOMAIN u,
           Less("WRITE", u, u2), o2 = Append(o, Char(Holds(u["WRITE"].own.r11, u, r, k, b)))
    PROVE  Tasked(u2, r, k, b, o2, y, a) /\ o2 \in Seq(Nat)
<1>1. PICK c \in Nat : c = Char(Holds(u["WRITE"].own.r11, u, r, k, b))
  BY DEF Tasked, Linked
<1>2. DOMAIN u2 = DOMAIN u \ {"WRITE"} /\ \A x \in DOMAIN u2 : u2[x] = u[x]
  BY DEF Less
<1>3. \A x \in {"MESG", "WHEX", "RHEX", "READ", "DEBUG", "INT2", "program"} :
         (x \in DOMAIN u2 <=> x \in DOMAIN u) /\ (x \in DOMAIN u => u2[x] = u[x])
  BY <1>2
<1>4. CharDue(u, r, k, b) = <<c>> /\ CharDue(u2, r, k, b) = <<>>
  BY <1>1, <1>2 DEF CharDue
<1>5. PICK s \in Seq(Nat) : Due(u, r, k, b) = <<c>> \o s /\ Due(u2, r, k, b) = s
  <2>1. CASE "MESG" \in DOMAIN u
    <3>1. PICK s \in Seq(Nat) : s = u["MESG"].own.r11
      BY <2>1 DEF Tasked, Working
    <3>2. Due(u, r, k, b) = <<c>> \o s /\ Due(u2, r, k, b) = <<>> \o s
      BY <1>3, <1>4, <2>1, <3>1 DEF Due
    <3> QED BY <3>2, ConcatEmptySeq
  <2>2. CASE "MESG" \notin DOMAIN u /\ "WHEX" \in DOMAIN u
    <3>1. u["WHEX"].at.at = "next"
      <4>1. CharLink(u, a) /\ DOMAIN u \subseteq Helpers(a.svc) \cup {"program"}
        BY DEF Tasked, Linked, Serves
      <4>2. a.svc # "WRITE" /\ "RHEX" \notin DOMAIN u
        BY <2>2, <4>1, HelpersApart
      <4> QED BY <2>2, <4>1, <4>2 DEF CharLink
    <3>2. u["WHEX"].own.r12 \in Word /\ u["WHEX"].own.r9 \in 1 .. 4
      BY <2>2, <3>1 DEF Tasked, Working
    <3>3. PICK s : s = First(u["WHEX"].own.r9 - 1, Four(Rotated(u["WHEX"].own.r12)))
      OBVIOUS
    <3>4. s \in Seq(Nat)
      <4>1. Rotated(u["WHEX"].own.r12) \in Word
        BY <3>2, TurnedDigits
      <4>2. u["WHEX"].own.r9 - 1 \in 0 .. 4
        BY <3>2
      <4> QED BY <3>3, <4>1, <4>2, FirstIs
    <3>5. Due(u, r, k, b) = <<c>> \o s /\ Due(u2, r, k, b) = <<>> \o s
      BY <1>3, <1>4, <2>2, <3>1, <3>3 DEF Due, WordDue
    <3> QED BY <3>4, <3>5, ConcatEmptySeq
  <2>3. CASE "MESG" \notin DOMAIN u /\ "WHEX" \notin DOMAIN u
    <3>1. Due(u, r, k, b) = <<c>> /\ Due(u2, r, k, b) = <<>>
      BY <1>3, <1>4, <2>3 DEF Due
    <3>2. <<c>> \o <<>> = <<c>> /\ <<>> \in Seq(Nat)
      OBVIOUS
    <3> QED BY <3>1, <3>2
  <2> QED BY <2>1, <2>2, <2>3
<1>6. o \o Due(u, r, k, b) = o2 \o Due(u2, r, k, b) /\ o2 \in Seq(Nat)
  <2>1. o \in Seq(Nat) /\ o2 = Append(o, c)
    BY <1>1 DEF Sound
  <2>2. o \o (<<c>> \o s) = Append(o, c) \o s /\ Append(o, c) \in Seq(Nat)
    BY <1>1, <1>5, <2>1, OneLess
  <2> QED BY <1>5, <2>1, <2>2
<1>7. Serves(u2, a.svc)
  BY <1>2 DEF Tasked, Serves, Helpers
<1>8. Linked(u2, r, k, b, a) /\ Working(u2)
  BY <1>2, <1>3 DEF Tasked, Linked, WordLink, TypedLink, Working
<1>9. Returning(u2, a)
  BY <1>2, <1>3 DEF Tasked, Returning, Terminal, Paging
<1>10. PICK t : t = o \o Due(u, r, k, b)
  OBVIOUS
<1>11. Prints(t, u2, r, k, b, y, a)
  <2>1. Prints(t, u, r, k, b, y, a)
    BY <1>10 DEF Tasked
  <2>2. ReadTrue(t, u2, r, y, a) <=> ReadTrue(t, u, r, y, a)
    BY <1>3 DEF ReadTrue
  <2>3. NumberTrue(t, u2, r, y, a) <=> NumberTrue(t, u, r, y, a)
    BY <1>3 DEF NumberTrue
  <2>4. ListTrue(t, u2, r, k, b, a) <=> ListTrue(t, u, r, k, b, a)
    BY <1>2, <1>3 DEF ListTrue
  <2>5. ReportTrue(t, u2, a) <=> ReportTrue(t, u, a)
    BY <1>3 DEF ReportTrue
  <2> QED BY <2>1, <2>2, <2>3, <2>4, <2>5 DEF Prints
<1> QED BY <1>6, <1>7, <1>8, <1>9, <1>10, <1>11 DEF Tasked

\* What Prints depends on.
LEMMA PrintsSame ==
    ASSUME NEW u, NEW u2, NEW t, NEW r, NEW k, NEW b, NEW y, NEW a,
           \A x \in {"RHEX", "READ", "DEBUG", "INT2"} : (x \in DOMAIN u2 <=> x \in DOMAIN u) /\ (x \in DOMAIN u => u2[x] = u[x]),
           DOMAIN u2 \cap {"MESG", "WHEX"} \subseteq DOMAIN u,
           Prints(t, u, r, k, b, y, a)
    PROVE  Prints(t, u2, r, k, b, y, a)
<1>1. ReadTrue(t, u, r, y, a) => ReadTrue(t, u2, r, y, a)
  BY DEF ReadTrue
<1>2. NumberTrue(t, u, r, y, a) => NumberTrue(t, u2, r, y, a)
  BY DEF NumberTrue
<1>3. ListTrue(t, u, r, k, b, a) => ListTrue(t, u2, r, k, b, a)
  BY DEF ListTrue
<1>4. ReportTrue(t, u, a) => ReportTrue(t, u2, a)
  BY DEF ReportTrue
<1> QED BY <1>1, <1>2, <1>3, <1>4 DEF Prints

\* What Returning depends on.
LEMMA ReturningSame ==
    ASSUME NEW u, NEW u2, NEW a, Returning(u, a), u2["program"] = u["program"],
           \A x \in Paging : x \in DOMAIN u2 <=> x \in DOMAIN u
    PROVE  Returning(u2, a)
BY DEF Returning

\* A service of Helpers that changes only its own registers is still there.
LEMMA ServesMoved ==
    ASSUME NEW u, NEW u2, NEW v, NEW c, NEW own, NEW p, Serves(u, v), OnlyMoved(c, own, p, u, u2),
           own.r13 = u[c].own.r13
    PROVE  Serves(u2, v)
BY DEF Serves, OnlyMoved

\* ... so is one of them that calls another.
LEMMA ServesEntered ==
    ASSUME NEW u, NEW u2, NEW v, NEW c, NEW own, NEW p, NEW s, NEW f, Serves(u, v), Entered(s, f, c, own, p, u, u2),
           own.r13 = u[c].own.r13, s \in Helpers(v), c # "program", v # "none"
    PROVE  Serves(u2, v)
<1>1. v \in DOMAIN u /\ u[v].own.r13 = "program"
  BY DEF Serves, Entered
<1>2. v \in DOMAIN u2 /\ u2[v].own.r13 = "program"
  BY <1>1 DEF Entered
<1>3. DOMAIN u2 \subseteq Helpers(v) \cup {"program"}
  BY DEF Serves, Entered
<1> QED BY <1>2, <1>3 DEF Serves

\* ... and one of them may go.
LEMMA ServesLess ==
    ASSUME NEW u, NEW u2, NEW v, NEW c, Serves(u, v), Less(c, u, u2), c # "program", c # v
    PROVE  Serves(u2, v)
<1>1. CASE v = "none"
  BY <1>1 DEF Serves, Less
<1>2. CASE v # "none" /\ v \in DOMAIN u
  BY <1>2 DEF Serves, Less
<1>3. CASE v # "none" /\ v \notin DOMAIN u
  <2>1. DOMAIN u = {"program"}
    BY <1>3 DEF Serves
  <2> QED BY <1>3, <2>1 DEF Serves, Less
<1> QED BY <1>1, <1>2, <1>3

-----------------------------------------------------------------------------
\* MESG calls WRITE with the next character.
LEMMA MesgCalls ==
    ASSUME NEW u, NEW r, NEW k, NEW b, NEW o, NEW y, NEW a, NEW u2, NEW f, NEW own,
           Tasked(u, r, k, b, o, y, a), "program" \in DOMAIN u, "WRITE" \notin DOMAIN u,
           Entered("WRITE", f, "MESG", own, At("start"), u, u2), u["MESG"].own.r11 # <<>>,
           f.r13 = "MESG", f.r11 = <<"MESG", "r12">>, own.r13 = u["MESG"].own.r13,
           own.r12 = High(Head(u["MESG"].own.r11)), own.r11 = Tail(u["MESG"].own.r11),
           own["r12"] = own.r12
    PROVE  Tasked(u2, r, k, b, o, y, a)
<1>1. PICK s \in Seq(Nat) : s = u["MESG"].own.r11 /\ s # <<>>
  BY DEF Tasked, Working, Entered
<1>2. PICK c \in Nat, s2 \in Seq(Nat) : c = Head(s) /\ s2 = Tail(s) /\ <<c>> \o s2 = s
  <2>1. Head(s) \in Nat /\ Tail(s) \in Seq(Nat) /\ <<Head(s)>> \o Tail(s) = s
    BY <1>1
  <2> QED BY <2>1
<1>3. DOMAIN u2 = DOMAIN u \cup {"WRITE"} /\ u2["WRITE"].own = f /\ u2["MESG"].own = own
      /\ u2["MESG"].at.at = "start" /\ \A x \in DOMAIN u : x # "MESG" => u2[x] = u[x]
  BY DEF Entered, At
<1>4. Char(Holds(u2["WRITE"].own.r11, u2, r, k, b)) = c
  BY <1>1, <1>2, <1>3, CharHigh DEF Holds
<1>5. a.svc \in {"MESG", "DEBUG"}
  BY HelpersApart DEF Tasked, Serves, Entered
<1>6. Due(u2, r, k, b) = Due(u, r, k, b)
  <2>1. Due(u, r, k, b) = <<>> \o s
    BY <1>1 DEF Due, CharDue, Entered
  <2>2. Due(u2, r, k, b) = <<c>> \o s2
    BY <1>1, <1>2, <1>3, <1>4 DEF Due, CharDue, Entered
  <2> QED BY <1>2, <2>1, <2>2, ConcatEmptySeq
<1>7. Serves(u2, a.svc)
  <2>1. "WRITE" \in Helpers(a.svc)
    BY <1>5 DEF Helpers
  <2> QED BY <1>5, <2>1, ServesEntered DEF Tasked
<1>8. Linked(u2, r, k, b, a)
  <2>1. CharLink(u2, a)
    BY <1>3 DEF CharLink, Entered
  <2>2. "WHEX" \in DOMAIN u2 => WordLink(u2, r, a)
    BY <1>3 DEF Tasked, Linked, WordLink
  <2>3. "READ" \in DOMAIN u2 => TypedLink(u2, a)
    BY <1>3 DEF Tasked, Linked, TypedLink
  <2>4. "RHEX" \in DOMAIN u2 => u2["RHEX"].own.r11 = a.ea
    BY <1>3 DEF Tasked, Linked
  <2> QED BY <1>4, <2>1, <2>2, <2>3, <2>4 DEF Linked
<1>9. Working(u2)
  BY <1>1, <1>2, <1>3 DEF Tasked, Working
<1>10. Returning(u2, a)
  <2>1. \A x \in Paging : x \in DOMAIN u2 <=> x \in DOMAIN u
    BY <1>3 DEF Paging
  <2> QED BY <1>3, <2>1, ReturningSame DEF Tasked
<1>11. Prints(o \o Due(u2, r, k, b), u2, r, k, b, y, a)
  <2>1. PICK t : t = o \o Due(u, r, k, b)
    OBVIOUS
  <2>2. Prints(t, u, r, k, b, y, a)
    BY <2>1 DEF Tasked
  <2>3. Prints(t, u2, r, k, b, y, a)
    BY <1>3, <2>2, PrintsSame
  <2> QED BY <1>6, <2>1, <2>3
<1> QED BY <1>7, <1>8, <1>9, <1>10, <1>11 DEF Tasked

\* MESG has printed the last one.
LEMMA MesgDone ==
    ASSUME NEW u, NEW r, NEW k, NEW b, NEW o, NEW y, NEW a, NEW u2,
           Tasked(u, r, k, b, o, y, a), "program" \in DOMAIN u, DOMAIN u \cap {"WRITE", "WHEX"} = {},
           "MESG" \in DOMAIN u, Less("MESG", u, u2), u["MESG"].own.r11 = <<>>,
           a.svc = "MESG" => DOMAIN u2 = {"program"}
    PROVE  Tasked(u2, r, k, b, o, y, a)
<1>1. DOMAIN u2 = DOMAIN u \ {"MESG"} /\ \A x \in DOMAIN u2 : u2[x] = u[x]
  BY DEF Less
<1>2. Due(u, r, k, b) = <<>> /\ Due(u2, r, k, b) = <<>>
  <2>1. Due(u, r, k, b) = <<>> \o <<>>
    BY DEF Due, CharDue
  <2>2. Due(u2, r, k, b) = <<>>
    BY <1>1 DEF Due, CharDue
  <2> QED BY <2>1, <2>2
<1>3. Serves(u2, a.svc)
  <2>1. CASE a.svc = "MESG"
    BY <2>1 DEF Serves
  <2> QED BY <2>1, ServesLess DEF Tasked
<1>4. Linked(u2, r, k, b, a)
  BY <1>1 DEF Tasked, Linked, TypedLink
<1>5. Working(u2)
  BY <1>1 DEF Tasked, Working
<1>6. Returning(u2, a)
  <2>1. \A x \in Paging : x \in DOMAIN u2 <=> x \in DOMAIN u
    BY <1>1 DEF Paging
  <2> QED BY <1>1, <2>1, ReturningSame DEF Tasked
<1>7. Prints(o \o Due(u2, r, k, b), u2, r, k, b, y, a)
  <2>1. PICK t : t = o \o Due(u, r, k, b)
    OBVIOUS
  <2>2. Prints(t, u, r, k, b, y, a)
    BY <2>1 DEF Tasked
  <2>3. Prints(t, u2, r, k, b, y, a)
    BY <1>1, <2>2, PrintsSame
  <2> QED BY <1>2, <2>1, <2>3
<1> QED BY <1>3, <1>4, <1>5, <1>6, <1>7 DEF Tasked

\* The word's top digit is what WHEX prints next.
LEMMA TopWord == ASSUME NEW w \in Word PROVE TopDigit(w) \in Word
<1>1. TopDigit(w) \in Digit
  BY TurnedDigits
<1>2. \A m \in Nat : m > 1 => \A d \in 0 .. m - 1 : d \in 0 .. (m * m) * (m * m) - 1
  <2> TAKE m \in Nat
  <2> HAVE m > 1
  <2>1. PICK q \in Nat : q = m * m /\ q >= m
    <3>1. m * m >= m
      OBVIOUS
    <3> QED BY <3>1
  <2>2. q * q >= q
    BY <2>1
  <2> QED BY <2>1, <2>2
<1> QED BY <1>1, <1>2, Constants DEF Digit, Word, Byte

\* WHEX finds a word where it was told to look.
LEMMA WordHeld ==
    ASSUME NEW u, NEW r, NEW k, NEW b, NEW o, NEW y, NEW a, Sound(r, k, b, o, y, a),
           Tasked(u, r, k, b, o, y, a), "WHEX" \in DOMAIN u
    PROVE  Holds(u["WHEX"].own.r11, u, r, k, b) \in Word
<1>1. WordLink(u, r, a) /\ DOMAIN u \subseteq Helpers(a.svc) \cup {"program"}
  BY DEF Tasked, Linked, Serves
<1>2. PICK e : e = u["WHEX"].own.r11
  OBVIOUS
<1>3. CASE e = a.ea /\ a.svc = "WHEX"
  <2>1. PICK i \in 0 .. SP - 1 : e = <<"register", i>>
    BY <1>3 DEF Sound, Known, Register, Quiet
  <2>2. Holds(e, u, r, k, b) = r[i]
    BY <2>1 DEF Holds
  <2>3. i \in 0 .. SP
    BY Constants
  <2>4. r[i] \in Word
    BY <2>3 DEF Sound
  <2> QED BY <1>2, <2>2, <2>4
<1>4. CASE "DEBUG" \in DOMAIN u /\ u["DEBUG"].at.n > 2 /\ e = ItemAt(u["DEBUG"].at.n - 1, r)
  <2>1. a.svc = "DEBUG"
    BY <1>1, <1>4, HelpersApart
  <2>2. ListTrue(o \o Due(u, r, k, b), u, r, k, b, a)
    BY <2>1 DEF Tasked, Prints
  <2>3. u["DEBUG"].at.n \in 1 .. SP + 5
    BY <1>4, <2>2 DEF ListTrue
  <2>4. PICK n \in 2 .. SP + 4 : n = u["DEBUG"].at.n - 1
    BY <1>4, <2>3, Constants
  <2>5. CASE n = 2
    <3>1. Holds(e, u, r, k, b) = k[r[SP]]
      BY <1>4, <2>4, <2>5 DEF Holds, ItemAt
    <3> QED BY <1>2, <3>1 DEF Sound
  <2>6. CASE n # 2
    <3>1. n - 3 \in 0 .. WPSTORE
      BY <2>6, Constants DEF WPSTORE
    <3>2. Holds(e, u, r, k, b) = b[n - 3]
      BY <1>4, <2>4, <2>6 DEF Holds, ItemAt
    <3> QED BY <1>2, <3>1, <3>2 DEF Sound
  <2> QED BY <2>5, <2>6
<1>5. CASE "INT2" \in DOMAIN u /\ e \in {<<"link", "INT2">>, <<"INT2", "r8">>}
  <2>1. a.svc = "INT2"
    BY <1>1, <1>5, HelpersApart
  <2>2. ReportTrue(o \o Due(u, r, k, b), u, a)
    BY <2>1 DEF Tasked, Prints
  <2>3. PICK w \in Word : w = a.at.n
    BY <2>1 DEF Sound, Known, Quiet, Terminal, Paging
  <2>4. TopDigit(w) \in Word
    BY TopWord
  <2>5. CASE e = <<"link", "INT2">>
    BY <1>2, <2>2, <2>3, <2>5 DEF Holds, ReportTrue
  <2>6. CASE e = <<"INT2", "r8">>
    <3>1. Holds(e, u, r, k, b) = u["INT2"].own["r8"]
      BY <2>6 DEF Holds
    <3> QED BY <1>2, <2>2, <2>3, <2>4, <3>1 DEF ReportTrue
  <2> QED BY <1>5, <2>5, <2>6
<1> QED BY <1>1, <1>2, <1>3, <1>4, <1>5 DEF WordLink

\* WHEX goes on in its own code: what is due is the same.
LEMMA WhexMoves ==
    ASSUME NEW u, NEW r, NEW k, NEW b, NEW o, NEW y, NEW a, NEW u2, NEW own,
           Tasked(u, r, k, b, o, y, a), "program" \in DOMAIN u, DOMAIN u \cap {"WRITE", "MESG"} = {},
           OnlyMoved("WHEX", own, At("digit"), u, u2), own.r13 = u["WHEX"].own.r13, own.r11 = u["WHEX"].own.r11,
           own.r12 \in Word, own.r9 \in 1 .. 4,
           WordDue(u["WHEX"].own, u["WHEX"].at.at, <<>>, Holds(u["WHEX"].own.r11, u, r, k, b))
             = First(own.r9, Four(own.r12))
    PROVE  Tasked(u2, r, k, b, o, y, a)
<1>1. DOMAIN u2 = DOMAIN u /\ u2["WHEX"].own = own /\ u2["WHEX"].at.at = "digit" /\ "WHEX" \in DOMAIN u
      /\ \A x \in DOMAIN u : x # "WHEX" => u2[x] = u[x]
  BY DEF OnlyMoved, At
<1>2. Due(u2, r, k, b) = Due(u, r, k, b)
  BY <1>1 DEF Due, CharDue, WordDue
<1>3. Serves(u2, a.svc)
  BY ServesMoved DEF Tasked
<1>4. Linked(u2, r, k, b, a)
  <2>1. WordLink(u2, r, a)
    BY <1>1 DEF Tasked, Linked, WordLink
  <2>2. "READ" \in DOMAIN u2 => TypedLink(u2, a)
    BY <1>1 DEF Tasked, Linked, TypedLink
  <2>3. "RHEX" \in DOMAIN u2 => u2["RHEX"].own.r11 = a.ea
    BY <1>1 DEF Tasked, Linked
  <2> QED BY <1>1, <2>1, <2>2, <2>3 DEF Linked
<1>5. Working(u2)
  BY <1>1 DEF Tasked, Working
<1>6. Returning(u2, a)
  BY <1>1, ReturningSame DEF Tasked
<1>7. Prints(o \o Due(u2, r, k, b), u2, r, k, b, y, a)
  <2>1. PICK t : t = o \o Due(u, r, k, b)
    OBVIOUS
  <2>2. Prints(t, u, r, k, b, y, a)
    BY <2>1 DEF Tasked
  <2>3. Prints(t, u2, r, k, b, y, a)
    BY <1>1, <2>2, PrintsSame
  <2> QED BY <1>2, <2>1, <2>3
<1> QED BY <1>3, <1>4, <1>5, <1>6, <1>7 DEF Tasked

\* WHEX calls WRITE with the next digit.
LEMMA WhexCalls ==
    ASSUME NEW u, NEW r, NEW k, NEW b, NEW o, NEW y, NEW a, NEW u2, NEW f, NEW own,
           Tasked(u, r, k, b, o, y, a), "program" \in DOMAIN u, DOMAIN u \cap {"WRITE", "MESG"} = {},
           Entered("WRITE", f, "WHEX", own, At("next"), u, u2), u["WHEX"].at.at = "digit",
           f.r13 = "WHEX", f.r11 = <<"WHEX", "r8">>, own.r13 = u["WHEX"].own.r13, own.r11 = u["WHEX"].own.r11,
           own.r12 = u["WHEX"].own.r12, own.r9 = u["WHEX"].own.r9, own["r8"] = High(TopDigit(own.r12))
    PROVE  Tasked(u2, r, k, b, o, y, a)
<1>1. DOMAIN u2 = DOMAIN u \cup {"WRITE"} /\ u2["WRITE"].own = f /\ u2["WHEX"].own = own /\ "WHEX" \in DOMAIN u
      /\ u2["WHEX"].at.at = "next" /\ \A x \in DOMAIN u : x # "WHEX" => u2[x] = u[x]
  BY DEF Entered, At
<1>2. PICK w \in Word, n \in 1 .. 4 : w = own.r12 /\ n = own.r9
  BY <1>1 DEF Tasked, Working
<1>3. PICK c \in Nat : c = TopDigit(w)
  BY TurnedDigits, DigitNat
<1>4. Char(Holds(u2["WRITE"].own.r11, u2, r, k, b)) = c
  BY <1>1, <1>2, <1>3, CharHigh DEF Holds
<1>5. a.svc \in {"WHEX", "DEBUG", "INT2"}
  BY HelpersApart DEF Tasked, Serves, Entered
<1>6. Due(u2, r, k, b) = Due(u, r, k, b)
  <2>1. Due(u, r, k, b) = First(n, Four(w))
    BY <1>1, <1>2 DEF Due, WordDue
  <2>2. Due(u2, r, k, b) = <<c>> \o First(n - 1, Four(Rotated(w)))
    BY <1>1, <1>2, <1>4 DEF Due, CharDue, WordDue
  <2> QED BY <1>3, <2>1, <2>2, FirstTurned
<1>7. Serves(u2, a.svc)
  <2>1. "WRITE" \in Helpers(a.svc)
    BY <1>5 DEF Helpers
  <2> QED BY <1>5, <2>1, ServesEntered DEF Tasked
<1>8. Linked(u2, r, k, b, a)
  <2>1. CharLink(u2, a)
    BY <1>1 DEF CharLink
  <2>2. WordLink(u2, r, a)
    BY <1>1 DEF Tasked, Linked, WordLink
  <2>3. "READ" \in DOMAIN u2 => TypedLink(u2, a)
    BY <1>1 DEF Tasked, Linked, TypedLink
  <2>4. "RHEX" \in DOMAIN u2 => u2["RHEX"].own.r11 = a.ea
    BY <1>1 DEF Tasked, Linked
  <2> QED BY <1>4, <2>1, <2>2, <2>3, <2>4 DEF Linked
<1>9. Working(u2)
  BY <1>1, <1>2 DEF Tasked, Working
<1>10. Returning(u2, a)
  <2>1. \A x \in Paging : x \in DOMAIN u2 <=> x \in DOMAIN u
    BY <1>1 DEF Paging
  <2> QED BY <1>1, <2>1, ReturningSame DEF Tasked
<1>11. Prints(o \o Due(u2, r, k, b), u2, r, k, b, y, a)
  <2>1. PICK t : t = o \o Due(u, r, k, b)
    OBVIOUS
  <2>2. Prints(t, u, r, k, b, y, a)
    BY <2>1 DEF Tasked
  <2>3. Prints(t, u2, r, k, b, y, a)
    BY <1>1, <2>2, PrintsSame
  <2> QED BY <1>6, <2>1, <2>3
<1> QED BY <1>7, <1>8, <1>9, <1>10, <1>11 DEF Tasked

\* WHEX has printed the last digit.
LEMMA WhexDone ==
    ASSUME NEW u, NEW r, NEW k, NEW b, NEW o, NEW y, NEW a, NEW u2,
           Tasked(u, r, k, b, o, y, a), "program" \in DOMAIN u, DOMAIN u \cap {"WRITE", "MESG"} = {},
           "WHEX" \in DOMAIN u, Less("WHEX", u, u2), u["WHEX"].at.at = "next", u["WHEX"].own.r9 = 1,
           a.svc = "WHEX" => DOMAIN u2 = {"program"}
    PROVE  Tasked(u2, r, k, b, o, y, a)
<1>1. DOMAIN u2 = DOMAIN u \ {"WHEX"} /\ \A x \in DOMAIN u2 : u2[x] = u[x]
  BY DEF Less
<1>2. Due(u, r, k, b) = <<>> /\ Due(u2, r, k, b) = <<>>
  <2>1. PICK w \in Word : w = u["WHEX"].own.r12
    BY DEF Tasked, Working
  <2>2. Rotated(w) \in Word
    BY TurnedDigits
  <2>3. First(0, Four(Rotated(w))) = <<>>
    BY <2>2, FirstAll
  <2>4. Due(u, r, k, b) = <<>> \o First(1 - 1, Four(Rotated(w)))
    BY <2>1 DEF Due, CharDue, WordDue
  <2>5. Due(u, r, k, b) = <<>> \o <<>>
    BY <2>3, <2>4
  <2>6. Due(u2, r, k, b) = <<>>
    BY <1>1 DEF Due, CharDue
  <2> QED BY <2>5, <2>6
<1>3. Serves(u2, a.svc)
  <2>1. CASE a.svc = "WHEX"
    BY <2>1 DEF Serves
  <2> QED BY <2>1, ServesLess DEF Tasked
<1>4. Linked(u2, r, k, b, a)
  BY <1>1 DEF Tasked, Linked, TypedLink
<1>5. Working(u2)
  BY <1>1 DEF Tasked, Working
<1>6. Returning(u2, a)
  <2>1. \A x \in Paging : x \in DOMAIN u2 <=> x \in DOMAIN u
    BY <1>1 DEF Paging
  <2> QED BY <1>1, <2>1, ReturningSame DEF Tasked
<1>7. Prints(o \o Due(u2, r, k, b), u2, r, k, b, y, a)
  <2>1. PICK t : t = o \o Due(u, r, k, b)
    OBVIOUS
  <2>2. Prints(t, u, r, k, b, y, a)
    BY <2>1 DEF Tasked
  <2>3. Prints(t, u2, r, k, b, y, a)
    BY <1>1, <2>2, PrintsSame
  <2> QED BY <1>2, <2>1, <2>3
<1> QED BY <1>3, <1>4, <1>5, <1>6, <1>7 DEF Tasked

\* What comes before the last element, and the last one.
LEMMA FrontLast ==
    ASSUME NEW s \in Seq(Nat), NEW c \in Nat, NEW y, y = Append(s, c)
    PROVE  y \in Seq(Nat) /\ y # <<>> /\ Front(y) = s /\ Last(y) = c
<1>1. y \in Seq(Nat) /\ y # <<>> /\ Len(y) = Len(s) + 1 /\ (\A i \in 1 .. Len(s) : y[i] = s[i]) /\ y[Len(s) + 1] = c
  BY AppendProperties
<1>2. PICK n \in Nat : n = Len(s)
  BY LenProperties
<1>3. s \in [1 .. n -> Nat]
  BY <1>2, LenProperties
<1>4. n \in Int /\ \A i \in 1 .. n : y[i] \in Nat
  BY <1>1, <1>2, <1>3
<1>5. PICK g : g = SubSeq(y, 1, n)
  OBVIOUS
<1>6. g \in Seq(Nat) /\ Len(g) = (IF 1 <= n THEN n - 1 + 1 ELSE 0) /\ \A i \in 1 .. n - 1 + 1 : g[i] = y[1 + i - 1]
  <2>1. PICK z \in Seq(Nat) : z = y
    BY <1>1
  <2>2. n \in Int /\ \A i \in 1 .. n : z[i] \in Nat
    BY <1>4, <2>1
  <2>3. g = SubSeq(z, 1, n)
    BY <1>5, <2>1
  <2>4. g \in Seq(Nat) /\ Len(g) = (IF 1 <= n THEN n - 1 + 1 ELSE 0) /\ \A i \in 1 .. n - 1 + 1 : g[i] = z[1 + i - 1]
    BY <2>2, <2>3, SubSeqProperties
  <2> QED BY <2>1, <2>4
<1>7. Len(g) = n /\ \A i \in 1 .. n : g[i] = s[i]
  <2>1. Len(g) = n
    BY <1>6, <1>4
  <2>2. ASSUME NEW i \in 1 .. n PROVE g[i] = s[i]
    <3>1. i \in 1 .. n - 1 + 1 /\ 1 + i - 1 = i
      OBVIOUS
    <3> QED BY <1>1, <1>2, <1>6, <3>1
  <2> QED BY <2>1, <2>2
<1>8. g = s
  BY <1>2, <1>6, <1>7, SeqEqual
<1>9. Len(y) - 1 = n
  BY <1>1, <1>2
<1> QED BY <1>1, <1>2, <1>5, <1>8, <1>9 DEF Front, Last

\* A sequence is what comes before its last element, and that.
LEMMA EndedIs ==
    ASSUME NEW y \in Seq(Nat), y # <<>>
    PROVE  Front(y) \in Seq(Nat) /\ Last(y) \in Nat /\ y = Append(Front(y), Last(y))
<1>1. PICK n \in Nat : Len(y) = n + 1
  <2>1. Len(y) \in Nat /\ Len(y) # 0
    BY EmptySeq, LenProperties
  <2> QED BY <2>1
<1>2. y \in [1 .. n + 1 -> Nat]
  BY <1>1, LenProperties
<1>3. n \in Int /\ (\A i \in 1 .. n : y[i] \in Nat) /\ y[n + 1] \in Nat
  BY <1>2
<1>4. PICK g : g = SubSeq(y, 1, n)
  OBVIOUS
<1>5. g \in Seq(Nat) /\ Len(g) = (IF 1 <= n THEN n - 1 + 1 ELSE 0) /\ \A i \in 1 .. n - 1 + 1 : g[i] = y[1 + i - 1]
  BY <1>3, <1>4, SubSeqProperties
<1>6. Front(y) = g /\ Last(y) = y[n + 1]
  <2>1. Len(y) - 1 = n
    BY <1>1
  <2> QED BY <1>1, <1>4, <2>1 DEF Front, Last
<1>7. Len(g) = n
  BY <1>5, <1>3
<1>8. PICK c \in Nat : c = y[n + 1]
  BY <1>3
<1>9. PICK v : v = Append(g, c)
  OBVIOUS
<1>10. v \in Seq(Nat) /\ Len(v) = n + 1 /\ (\A i \in 1 .. n : v[i] = g[i]) /\ v[n + 1] = c
  BY <1>5, <1>7, <1>9, AppendProperties
<1>11. ASSUME NEW i \in 1 .. Len(y) PROVE y[i] = v[i]
  <2>1. CASE i = n + 1
    BY <1>8, <1>10, <2>1
  <2>2. CASE i # n + 1
    <3>1. i \in 1 .. n /\ i \in 1 .. n - 1 + 1 /\ 1 + i - 1 = i
      BY <1>1, <2>2
    <3> QED BY <1>5, <1>10, <3>1
  <2> QED BY <2>1, <2>2
<1>12. y = v
  BY <1>1, <1>10, <1>11, SeqEqual
<1> QED BY <1>5, <1>6, <1>8, <1>9, <1>12

\* Each digit that comes makes the number what Shifted says.
LEMMA NumberShifts ==
    ASSUME NEW s \in Seq(Digit), NEW d \in Digit, NEW y, y = Append(s, d)
    PROVE  y \in Seq(Digit) /\ Number(y) = Shifted(Number(s), d)
<1>1. y \in Seq(Digit) /\ Len(y) = Len(s) + 1 /\ (\A i \in 1 .. Len(s) : y[i] = s[i]) /\ y[Len(s) + 1] = d
  BY AppendProperties
<1>2. PICK n \in Nat : n = Len(s)
  BY LenProperties
<1>3. s \in [1 .. n -> Digit]
  BY <1>2, LenProperties
<1>4. 0 \in Digit
  BY Constants DEF Digit
<1>5. ASSUME NEW j \in 0 .. 3 PROVE FromEnd(s, j) \in Digit /\ FromEnd(y, j + 1) = FromEnd(s, j)
  <2>1. CASE j < n
    <3>1. n - j \in 1 .. n /\ j + 1 < n + 1 /\ (n + 1) - (j + 1) = n - j
      BY <2>1
    <3>2. y[n - j] = s[n - j] /\ s[n - j] \in Digit
      BY <1>1, <1>2, <1>3, <3>1
    <3> QED BY <1>1, <1>2, <2>1, <3>1, <3>2 DEF FromEnd
  <2>2. CASE ~(j < n)
    <3>1. ~(j + 1 < n + 1)
      BY <2>2
    <3> QED BY <1>1, <1>2, <1>4, <2>2, <3>1 DEF FromEnd
  <2> QED BY <2>1, <2>2
<1>6. FromEnd(y, 0) = d
  <2>1. 0 < n + 1 /\ n + 1 - 0 = n + 1
    OBVIOUS
  <2> QED BY <1>1, <1>2, <2>1 DEF FromEnd
<1>7. PICK d1 \in Digit, d2 \in Digit, d3 \in Digit, d4 \in Digit :
        d1 = FromEnd(s, 3) /\ d2 = FromEnd(s, 2) /\ d3 = FromEnd(s, 1) /\ d4 = FromEnd(s, 0)
  BY <1>5
<1>8. FromEnd(y, 1) = d4 /\ FromEnd(y, 2) = d3 /\ FromEnd(y, 3) = d2
  <2>1. FromEnd(y, 0 + 1) = d4 /\ FromEnd(y, 1 + 1) = d3 /\ FromEnd(y, 2 + 1) = d2
    BY <1>5, <1>7
  <2> QED BY <2>1
<1>9. Number(s) = ((d1 * Base + d2) * Base + d3) * Base + d4
  BY <1>7 DEF Number
<1>10. Number(y) = ((d2 * Base + d3) * Base + d4) * Base + d
  BY <1>6, <1>8 DEF Number
<1> QED BY <1>1, <1>9, <1>10, ShiftedIs

-----------------------------------------------------------------------------
\* For RHEX and READ nothing is due but a character.
LEMMA InputDue ==
    ASSUME NEW u, NEW r, NEW k, NEW b, NEW v, DOMAIN u \subseteq Helpers(v) \cup {"program"}, v \in {"READ", "RHEX"}
    PROVE  Due(u, r, k, b) = CharDue(u, r, k, b) /\ DOMAIN u \cap {"MESG", "WHEX", "DEBUG", "INT2"} = {}
<1>1. DOMAIN u \cap {"MESG", "WHEX", "DEBUG", "INT2"} = {}
  BY HelpersApart
<1> QED BY <1>1 DEF Due

\* READ gives the program its character.
LEMMA ReadAnswers ==
    ASSUME NEW u, NEW r, NEW k, NEW b, NEW o, NEW y, NEW a, NEW u2, NEW r2, NEW y2, NEW c \in Nat, NEW i \in 0 .. SP - 1,
           Sound(r, k, b, o, y, a), Tasked(u, r, k, b, o, y, a), "READ" \in DOMAIN u, "program" \in DOMAIN u,
           u["READ"].own.r13 = "program", u["READ"].own.r11 = <<"register", i>>, Less("READ", u, u2), DOMAIN u2 = {"program"},
           "WRITE" \notin DOMAIN u, r2 = [r EXCEPT ![i] = High(c)], y2 = Append(y, c)
    PROVE  Tasked(u2, r2, k, b, o, y2, a)
<1>1. a.svc = "READ" /\ a.ea = <<"register", i>>
  BY DEF Tasked, Linked, TypedLink
<1>2. u2["program"] = u["program"]
  BY DEF Less
<1>3. Due(u, r, k, b) = <<>> /\ Due(u2, r2, k, b) = <<>>
  <2>1. Due(u, r, k, b) = <<>>
    BY <1>1, InputDue DEF Tasked, Serves, CharDue
  <2> QED BY <2>1 DEF Due, CharDue
<1>4. ReadTrue(o, u, r, y, a)
  <2>1. o \o <<>> = o
    BY ConcatEmptySeq DEF Sound
  <2> QED BY <1>1, <1>3, <2>1 DEF Tasked, Prints
<1>5. y2 = <<c>>
  BY <1>4 DEF ReadTrue
<1>6. ReadTrue(o, u2, r2, y2, a)
  <2>1. Len(y2) = 1 /\ y2[1] = c /\ a.ea[2] = i
    BY <1>1, <1>5
  <2> QED BY <1>4, <2>1 DEF ReadTrue, Set
<1>7. Prints(o \o Due(u2, r2, k, b), u2, r2, k, b, y2, a)
  <2>1. o \o <<>> = o
    BY ConcatEmptySeq DEF Sound
  <2>2. a.svc \notin Paging
    BY <1>1 DEF Paging
  <2> QED BY <1>1, <1>3, <1>6, <2>1, <2>2 DEF Prints
<1>8. Returning(u2, a)
  <2>1. \A x \in Paging : x \in DOMAIN u2 <=> x \in DOMAIN u
    BY <1>1, HelpersApart DEF Paging, Tasked, Serves, Helpers
  <2> QED BY <1>2, <2>1, ReturningSame DEF Tasked
<1> QED BY <1>7, <1>8 DEF Tasked, Serves, Linked, Working

\* ... or RHEX.
LEMMA RhexGets ==
    ASSUME NEW u, NEW r, NEW k, NEW b, NEW o, NEW y, NEW a, NEW u2, NEW y2, NEW c \in 0 .. Byte - 1, NEW own,
           Sound(r, k, b, o, y, a), Tasked(u, r, k, b, o, y, a), "READ" \in DOMAIN u, "RHEX" \in DOMAIN u, "program" \in DOMAIN u,
           u["READ"].own.r13 = "RHEX", DOMAIN u2 = DOMAIN u \ {"READ"}, \A x \in DOMAIN u2 : x # "RHEX" => u2[x] = u[x],
           u2["RHEX"].own = own, u2["RHEX"].at = u["RHEX"].at,
           own.r10 = High(c), own.r11 = u["RHEX"].own.r11, own.r12 = u["RHEX"].own.r12, own.r13 = u["RHEX"].own.r13,
           "WRITE" \notin DOMAIN u, y2 = Append(y, c)
    PROVE  Tasked(u2, r, k, b, o, y2, a)
<1>1. a.svc = "RHEX" /\ u["RHEX"].at.at = "echo"
  BY HelpersApart DEF Tasked, Linked, TypedLink, Serves
<1>2. c \in Nat
  BY Constants
<1>3. Due(u, r, k, b) = <<>> /\ Due(u2, r, k, b) = <<>>
  <2>1. Due(u, r, k, b) = <<>>
    BY <1>1, InputDue DEF Tasked, Serves, CharDue
  <2>2. DOMAIN u2 \subseteq Helpers("RHEX") \cup {"program"}
    BY <1>1 DEF Tasked, Serves
  <2> QED BY <2>1, <2>2, InputDue DEF CharDue
<1>4. o \o <<>> = o
  BY ConcatEmptySeq DEF Sound
<1>5. NumberTrue(o, u, r, y, a) /\ r = a.reg
  BY <1>1, <1>3, <1>4 DEF Tasked, Prints, NumberTrue
<1>6. Numeral(y) /\ o = y /\ u["RHEX"].own.r12 = Number(y)
  BY <1>1, <1>5 DEF NumberTrue
<1>7. y2 \in Seq(Nat) /\ y2 # <<>> /\ Front(y2) = y /\ Last(y2) = c
  BY <1>2, FrontLast DEF Sound
<1>8. Ended(y2)
  BY <1>6, <1>7 DEF Ended
<1>9. NumberTrue(o, u2, r, y2, a)
  BY <1>1, <1>5, <1>6, <1>7, <1>8 DEF NumberTrue
<1>10. Prints(o \o Due(u2, r, k, b), u2, r, k, b, y2, a)
  <2>1. a.svc \notin Paging
    BY <1>1 DEF Paging
  <2> QED BY <1>1, <1>3, <1>4, <1>9, <2>1 DEF Prints
<1>11. Returning(u2, a)
  <2>1. \A x \in Paging : x \in DOMAIN u2 <=> x \in DOMAIN u
    BY DEF Paging
  <2> QED BY <2>1, ReturningSame DEF Tasked
<1>12. Serves(u2, a.svc)
  BY <1>1 DEF Tasked, Serves
<1>13. Linked(u2, r, k, b, a) /\ Working(u2)
  <2>1. DOMAIN u2 \cap {"MESG", "WHEX", "DEBUG", "INT2"} = {}
    BY <1>1, InputDue DEF Tasked, Serves
  <2>2. u2["RHEX"].own.r11 = a.ea
    BY DEF Tasked, Linked
  <2> QED BY <2>1, <2>2 DEF Linked, Working
<1> QED BY <1>10, <1>11, <1>12, <1>13 DEF Tasked

\* What RHEX does while no service runs above it changes nothing but the number.
LEMMA RhexKeeps ==
    ASSUME NEW u, NEW r, NEW k, NEW b, NEW o, NEW y, NEW a, NEW u2,
           Tasked(u, r, k, b, o, y, a), "RHEX" \in DOMAIN u, "program" \in DOMAIN u, DOMAIN u \cap {"READ", "WRITE"} = {},
           DOMAIN u \subseteq DOMAIN u2, DOMAIN u2 \subseteq DOMAIN u \cup {"READ", "WRITE"},
           \A x \in DOMAIN u : x # "RHEX" => u2[x] = u[x],
           u2["RHEX"].own.r11 = u["RHEX"].own.r11, u2["RHEX"].own.r13 = u["RHEX"].own.r13,
           "READ" \in DOMAIN u2 => TypedLink(u2, a),
           "WRITE" \in DOMAIN u2 => CharLink(u2, a) /\ Char(Holds(u2["WRITE"].own.r11, u2, r, k, b)) \in Nat,
           NumberTrue(o \o Due(u2, r, k, b), u2, r, y, a)
    PROVE  Tasked(u2, r, k, b, o, y, a)
<1>1. a.svc = "RHEX"
  BY HelpersApart DEF Tasked, Serves
<1>2. Prints(o \o Due(u2, r, k, b), u2, r, k, b, y, a)
  <2>1. a.svc \notin Paging
    BY <1>1 DEF Paging
  <2> QED BY <1>1, <2>1 DEF Prints
<1>3. Serves(u2, a.svc)
  BY <1>1 DEF Tasked, Serves, Helpers
<1>4. Returning(u2, a)
  <2>1. \A x \in Paging : x \in DOMAIN u2 <=> x \in DOMAIN u
    BY DEF Paging
  <2> QED BY <2>1, ReturningSame DEF Tasked
<1>5. Linked(u2, r, k, b, a) /\ Working(u2)
  <2>1. DOMAIN u2 \cap {"MESG", "WHEX", "DEBUG", "INT2"} = {}
    BY <1>1, <1>3, InputDue DEF Serves
  <2>2. u2["RHEX"].own.r11 = a.ea
    BY DEF Tasked, Linked
  <2> QED BY <2>1, <2>2 DEF Linked, Working
<1> QED BY <1>2, <1>3, <1>4, <1>5 DEF Tasked

\* What RHEX has printed and read when it runs.
LEMMA RhexHas ==
    ASSUME NEW u, NEW r, NEW k, NEW b, NEW o, NEW y, NEW a, Sound(r, k, b, o, y, a), Tasked(u, r, k, b, o, y, a),
           "RHEX" \in DOMAIN u, DOMAIN u \cap {"READ", "WRITE"} = {}
    PROVE  NumberTrue(o, u, r, y, a) /\ a.svc = "RHEX" /\ r = a.reg
<1>1. a.svc = "RHEX"
  BY HelpersApart DEF Tasked, Serves
<1>2. Due(u, r, k, b) = <<>>
  BY <1>1, InputDue DEF Tasked, Serves, CharDue
<1>3. o \o <<>> = o
  BY ConcatEmptySeq DEF Sound
<1> QED BY <1>1, <1>2, <1>3 DEF Tasked, Prints, NumberTrue

\* RHEX calls READ.
LEMMA RhexReads ==
    ASSUME NEW u, NEW r, NEW k, NEW b, NEW o, NEW y, NEW a, NEW u2, NEW f, NEW own,
           Sound(r, k, b, o, y, a), Tasked(u, r, k, b, o, y, a), "program" \in DOMAIN u, DOMAIN u \cap {"READ", "WRITE"} = {},
           Entered("READ", f, "RHEX", own, At("echo"), u, u2), own = u["RHEX"].own, u["RHEX"].at.at = "start",
           f.r13 = "RHEX", f.r11 = <<"RHEX", "r10">>
    PROVE  Tasked(u2, r, k, b, o, y, a)
<1>1. DOMAIN u2 = DOMAIN u \cup {"READ"} /\ u2["READ"].own = f /\ u2["RHEX"].own = own /\ "RHEX" \in DOMAIN u
      /\ u2["RHEX"].at.at = "echo" /\ \A x \in DOMAIN u : x # "RHEX" => u2[x] = u[x]
  BY DEF Entered, At
<1>2. NumberTrue(o, u, r, y, a) /\ a.svc = "RHEX" /\ r = a.reg
  BY <1>1, RhexHas
<1>3. DOMAIN u2 \subseteq Helpers("RHEX") \cup {"program"}
  BY <1>1, <1>2 DEF Tasked, Serves, Helpers
<1>4. Due(u2, r, k, b) = <<>>
  BY <1>1, <1>3, InputDue DEF CharDue
<1>5. o \o <<>> = o
  BY ConcatEmptySeq DEF Sound
<1>6. NumberTrue(o, u2, r, y, a)
  BY <1>1, <1>2 DEF NumberTrue
<1>7. TypedLink(u2, a)
  BY <1>1 DEF TypedLink
<1> QED BY <1>1, <1>4, <1>5, <1>6, <1>7, RhexKeeps

\* ... shows the character.
LEMMA RhexEchoes ==
    ASSUME NEW u, NEW r, NEW k, NEW b, NEW o, NEW y, NEW a, NEW u2, NEW f, NEW own,
           Sound(r, k, b, o, y, a), Tasked(u, r, k, b, o, y, a), "program" \in DOMAIN u, DOMAIN u \cap {"READ", "WRITE"} = {},
           Entered("WRITE", f, "RHEX", own, At("check"), u, u2), own = u["RHEX"].own, u["RHEX"].at.at = "echo",
           own["r10"] = own.r10, f.r13 = "RHEX", f.r11 = <<"RHEX", "r10">>
    PROVE  Tasked(u2, r, k, b, o, y, a)
<1>1. DOMAIN u2 = DOMAIN u \cup {"WRITE"} /\ u2["WRITE"].own = f /\ u2["RHEX"].own = own /\ "RHEX" \in DOMAIN u
      /\ u2["RHEX"].at.at = "check" /\ "READ" \notin DOMAIN u2 /\ \A x \in DOMAIN u : x # "RHEX" => u2[x] = u[x]
  BY DEF Entered, At
<1>2. NumberTrue(o, u, r, y, a) /\ a.svc = "RHEX" /\ r = a.reg
  BY <1>1, RhexHas
<1>3. o = Front(y) /\ Ended(y) /\ own.r10 = High(Last(y)) /\ own.r12 = Number(Front(y))
  BY <1>1, <1>2 DEF NumberTrue
<1>4. PICK c \in Nat : c = Last(y)
  BY <1>3, EndedIs DEF Ended
<1>5. Char(Holds(u2["WRITE"].own.r11, u2, r, k, b)) = c
  BY <1>1, <1>3, <1>4, CharHigh DEF Holds
<1>6. DOMAIN u2 \subseteq Helpers("RHEX") \cup {"program"}
  BY <1>1, <1>2 DEF Tasked, Serves, Helpers
<1>7. Due(u2, r, k, b) = <<c>>
  BY <1>1, <1>5, <1>6, InputDue DEF CharDue
<1>8. o \o <<c>> = y
  <2>1. y = Append(o, c)
    BY <1>3, <1>4, EndedIs DEF Ended
  <2> QED BY <2>1, AppendIsConcat DEF Sound
<1>9. NumberTrue(y, u2, r, y, a)
  BY <1>1, <1>2, <1>3 DEF NumberTrue
<1>10. CharLink(u2, a)
  BY <1>1 DEF CharLink
<1> QED BY <1>1, <1>5, <1>7, <1>8, <1>9, <1>10, RhexKeeps

\* ... takes a digit.
LEMMA RhexShifts ==
    ASSUME NEW u, NEW r, NEW k, NEW b, NEW o, NEW y, NEW a, NEW u2, NEW own, NEW d \in Digit,
           Sound(r, k, b, o, y, a), Tasked(u, r, k, b, o, y, a), "program" \in DOMAIN u, DOMAIN u \cap {"READ", "WRITE"} = {},
           OnlyMoved("RHEX", own, At("start"), u, u2), u["RHEX"].at.at = "check", d = Char(u["RHEX"].own.r10),
           own.r11 = u["RHEX"].own.r11, own.r13 = u["RHEX"].own.r13, own.r12 = Shifted(u["RHEX"].own.r12, d)
    PROVE  Tasked(u2, r, k, b, o, y, a)
<1>1. DOMAIN u2 = DOMAIN u /\ u2["RHEX"].own = own /\ "RHEX" \in DOMAIN u
      /\ u2["RHEX"].at.at = "start" /\ \A x \in DOMAIN u : x # "RHEX" => u2[x] = u[x]
  BY DEF OnlyMoved, At
<1>2. NumberTrue(o, u, r, y, a) /\ a.svc = "RHEX" /\ r = a.reg
  BY <1>1, RhexHas
<1>3. o = y /\ Ended(y) /\ u["RHEX"].own.r10 = High(Last(y)) /\ u["RHEX"].own.r12 = Number(Front(y))
  BY <1>1, <1>2 DEF NumberTrue
<1>4. PICK s \in Seq(Digit) : s = Front(y) /\ y = Append(s, d)
  <2>1. Last(y) = d /\ y = Append(Front(y), Last(y))
    BY <1>3, EndedIs, CharHigh DEF Ended
  <2> QED BY <1>3, <2>1 DEF Ended, Numeral
<1>5. y \in Seq(Digit) /\ Number(y) = own.r12
  BY <1>3, <1>4, NumberShifts
<1>6. Due(u2, r, k, b) = <<>>
  BY <1>1, <1>2, InputDue DEF CharDue, Tasked, Serves
<1>7. o \o <<>> = o
  BY ConcatEmptySeq DEF Sound
<1>8. NumberTrue(o, u2, r, y, a)
  BY <1>1, <1>2, <1>3, <1>5 DEF NumberTrue, Numeral
<1> QED BY <1>1, <1>6, <1>7, <1>8, RhexKeeps

\* ... and gives the program the number.
LEMMA RhexAnswers ==
    ASSUME NEW u, NEW r, NEW k, NEW b, NEW o, NEW y, NEW a, NEW u2, NEW r2, NEW i \in 0 .. SP - 1,
           Sound(r, k, b, o, y, a), Tasked(u, r, k, b, o, y, a), "program" \in DOMAIN u, DOMAIN u \cap {"READ", "WRITE"} = {},
           "RHEX" \in DOMAIN u, Less("RHEX", u, u2), DOMAIN u2 = {"program"}, u["RHEX"].own.r11 = <<"register", i>>,
           u["RHEX"].at.at = "check", Char(u["RHEX"].own.r10) \notin Digit, r2 = [r EXCEPT ![i] = u["RHEX"].own.r12]
    PROVE  Tasked(u2, r2, k, b, o, y, a)
<1>1. NumberTrue(o, u, r, y, a) /\ a.svc = "RHEX" /\ r = a.reg /\ a.ea = <<"register", i>>
  BY RhexHas DEF Tasked, Linked
<1>2. o = y /\ Ended(y) /\ u["RHEX"].own.r10 = High(Last(y)) /\ u["RHEX"].own.r12 = Number(Front(y))
  BY <1>1 DEF NumberTrue
<1>3. Last(y) \notin Digit
  BY <1>2, EndedIs, CharHigh DEF Ended
<1>4. Due(u2, r2, k, b) = <<>> /\ o \o <<>> = o
  BY ConcatEmptySeq DEF Due, CharDue, Sound
<1>5. NumberTrue(o, u2, r2, y, a)
  <2>1. a.ea[2] = i
    BY <1>1
  <2> QED BY <1>1, <1>2, <1>3, <2>1 DEF NumberTrue, Set
<1>6. Prints(o \o Due(u2, r2, k, b), u2, r2, k, b, y, a)
  <2>1. a.svc \notin Paging
    BY <1>1 DEF Paging
  <2> QED BY <1>1, <1>4, <1>5, <2>1 DEF Prints
<1>7. Returning(u2, a)
  <2>1. \A x \in Paging : x \in DOMAIN u2 <=> x \in DOMAIN u
    BY DEF Paging, Less
  <2>2. u2["program"] = u["program"]
    BY DEF Less
  <2> QED BY <2>1, <2>2, ReturningSame DEF Tasked
<1> QED BY <1>6, <1>7 DEF Tasked, Serves, Linked, Working

\* The known facts about a call of DEBUG.
LEMMA DebugKnown ==
    ASSUME NEW r, NEW k, NEW b, NEW o, NEW y, NEW a, Sound(r, k, b, o, y, a), a.svc = "DEBUG"
    PROVE  /\ a.ea \in Seq(Nat) /\ Len(a.ea) \in Nat /\ a.reg \in [0 .. SP -> Word] /\ a.top \in Word /\ a.at.n \in Word
<1>1. a.reg \in [0 .. SP -> Word] /\ a.top \in Word /\ a.at.n \in Word /\ a.ea \in Texts
  BY DEF Sound, Known, Quiet
<1>2. a.ea \in Seq(Nat)
  BY <1>1, TextAssumption
<1> QED BY <1>1, <1>2, LenProperties

\* One sequence after another, and the first of one.
LEMMA ConcatIs ==
    ASSUME NEW t \in Seq(Nat), NEW s \in Seq(Nat), NEW h, h = t \o s, NEW m, m = Len(t), NEW q, q = Len(s)
    PROVE  /\ h \in Seq(Nat) /\ m \in Nat /\ q \in Nat /\ Len(h) = m + q
           /\ \A i \in 1 .. m : h[i] = t[i]
           /\ \A i \in 1 .. q : h[m + i] = s[i]
<1>1. m \in Nat /\ q \in Nat
  BY LenProperties
<1>2. t \o s \in Seq(Nat)
  BY ConcatProperties
<1>3. Len(t \o s) = Len(t) + Len(s)
  BY ConcatProperties
<1>4. \A i \in 1 .. Len(t) + Len(s) : (t \o s)[i] = IF i <= Len(t) THEN t[i] ELSE s[i - Len(t)]
  BY ConcatProperties
<1>5. \A i \in 1 .. m + q : h[i] = IF i <= m THEN t[i] ELSE s[i - m]
  BY <1>4
<1>6. ASSUME NEW i \in 1 .. m PROVE h[i] = t[i]
  <2>1. i \in 1 .. m + q /\ i <= m
    BY <1>1
  <2> QED BY <1>5, <2>1
<1>7. ASSUME NEW i \in 1 .. q PROVE h[m + i] = s[i]
  <2>1. m + i \in 1 .. m + q /\ ~(m + i <= m) /\ m + i - m = i
    BY <1>1
  <2> QED BY <1>5, <2>1
<1> QED BY <1>1, <1>2, <1>3, <1>6, <1>7

\* The beginning of a sequence.
LEMMA PrefixIs ==
    ASSUME NEW h \in Seq(Nat), NEW m, m = Len(h), NEW n \in 0 .. m, NEW g, g = SubSeq(h, 1, n)
    PROVE  g \in Seq(Nat) /\ Len(g) = n /\ \A i \in 1 .. n : g[i] = h[i]
<1>1. m \in Nat /\ h \in [1 .. m -> Nat]
  BY LenProperties
<1>2. n \in Int /\ \A i \in 1 .. n : h[i] \in Nat
  BY <1>1
<1>3. g \in Seq(Nat) /\ Len(g) = (IF 1 <= n THEN n - 1 + 1 ELSE 0) /\ \A i \in 1 .. n - 1 + 1 : g[i] = h[1 + i - 1]
  BY <1>2, SubSeqProperties
<1>4. \A i \in 1 .. n : i \in 1 .. n - 1 + 1 /\ 1 + i - 1 = i
  BY <1>2
<1> QED BY <1>2, <1>3, <1>4

\* One more item of a listing.
LEMMA ListedMore ==
    ASSUME NEW t \in Seq(Nat), NEW s \in Seq(Nat), NEW n \in 1 .. SP + 4, NEW a, Listed(t, n, a), a.ea \in Seq(Nat),
           n = 1 => s = a.ea, n > 1 => Len(s) = 4, n > 1 /\ n # 5 => s = Four(Shown(n, a))
    PROVE  Listed(t \o s, n + 1, a)
<1>1. PICK e \in Nat : e = Len(a.ea)
  BY LenProperties
<1>2. PICK m : m = Len(t)
  OBVIOUS
<1>3. PICK q : q = Len(s)
  OBVIOUS
<1>4. PICK h : h = t \o s
  OBVIOUS
<1>20. /\ h \in Seq(Nat) /\ m \in Nat /\ q \in Nat /\ Len(h) = m + q
       /\ \A i \in 1 .. m : h[i] = t[i]
       /\ \A i \in 1 .. q : h[m + i] = s[i]
  BY <1>2, <1>3, <1>4, ConcatIs
<1>5. SP \in Int /\ n \in Int /\ n >= 1
  BY Constants
<1>6. m = IF n = 1 THEN 0 ELSE e + 4 * (n - 2)
  BY <1>1, <1>2 DEF Listed, ItemFrom
<1>7. q = IF n = 1 THEN e ELSE 4
  <2>1. CASE n = 1
    BY <1>1, <1>3, <2>1
  <2>2. CASE n # 1
    <3>1. n > 1
      BY <1>5, <2>2
    <3> QED BY <1>3, <2>2, <3>1
  <2> QED BY <2>1, <2>2
<1>8. n + 1 # 1 /\ n + 1 - 2 = n - 1 /\ n + 1 - 1 = n
  BY <1>5
<1>9. Len(h) = ItemFrom(n + 1, a)
  <2>1. m + q = e + 4 * (n - 1)
    BY <1>5, <1>6, <1>7, <1>20
  <2>2. ItemFrom(n + 1, a) = e + 4 * (n - 1)
    BY <1>1, <1>8 DEF ItemFrom
  <2> QED BY <1>20, <2>1, <2>2
<1>10. \A x \in 1 .. m : h[x] = t[x]
  BY <1>20
<1>11. \A i \in 1 .. q : h[m + i] = s[i]
  BY <1>20
<1>12. ASSUME NEW i \in 1 .. Len(a.ea) PROVE h[i] = a.ea[i]
  <2>0. i \in 1 .. e /\ i \in Int
    BY <1>1
  <2>1. CASE n = 1
    <3>1. m = 0 /\ q = e /\ s = a.ea
      BY <1>6, <1>7, <2>1
    <3>2. h[m + i] = s[i] /\ m + i = i
      BY <1>11, <2>0, <3>1
    <3> QED BY <3>1, <3>2
  <2>2. CASE n # 1
    <3>1. n > 1 /\ t[i] = a.ea[i]
      BY <1>5, <2>2 DEF Listed
    <3>2. i \in 1 .. m
      BY <1>5, <1>6, <2>0, <3>1
    <3> QED BY <1>10, <2>0, <3>1, <3>2
  <2> QED BY <2>1, <2>2
<1>13. ASSUME NEW j \in (2 .. n + 1 - 1) \ {5}, NEW i \in 1 .. 4
      PROVE  h[ItemFrom(j, a) + i] = Four(Shown(j, a))[i]
  <2>0. j \in Int /\ j >= 2 /\ j <= n /\ j # 5
    BY <1>5
  <2>1. PICK p \in Int : p = e + 4 * (j - 2) /\ p = ItemFrom(j, a) /\ p >= 0
    <3>1. e + 4 * (j - 2) \in Int /\ e + 4 * (j - 2) >= 0
      BY <2>0
    <3>2. ItemFrom(j, a) = e + 4 * (j - 2)
      <4>1. j # 1
        BY <2>0
      <4>2. ItemFrom(j, a) = Len(a.ea) + 4 * (j - 2)
        BY <4>1 DEF ItemFrom
      <4> QED BY <1>1, <4>2
    <3> QED BY <3>1, <3>2
  <2>2. n # 1 /\ m = e + 4 * (n - 2) /\ q = 4
    BY <1>5, <1>6, <1>7, <2>0
  <2>3. CASE j = n
    <3>1. p = m /\ n > 1 /\ n # 5
      BY <2>0, <2>1, <2>2, <2>3
    <3>2. h[m + i] = s[i]
      BY <1>11, <2>2
    <3>3. s = Four(Shown(j, a))
      BY <2>3, <3>1
    <3> QED BY <2>1, <3>1, <3>2, <3>3
  <2>4. CASE j # n
    <3>1. j \in (2 .. n - 1) \ {5}
      BY <1>5, <2>0, <2>4
    <3>2. t[ItemFrom(j, a) + i] = Four(Shown(j, a))[i]
      BY <3>1 DEF Listed
    <3>3. p + i \in 1 .. m /\ p + i \in Int
      BY <1>5, <2>0, <2>1, <2>2, <3>1
    <3> QED BY <1>10, <2>1, <3>2, <3>3
  <2> QED BY <2>3, <2>4
<1>14. n + 1 > 1
  BY <1>5
<1>15. \A i \in 1 .. Len(a.ea) : h[i] = a.ea[i]
  BY <1>12
<1>16. \A j \in (2 .. n + 1 - 1) \ {5}, i \in 1 .. 4 : h[ItemFrom(j, a) + i] = Four(Shown(j, a))[i]
  BY <1>13
<1>17. Listed(h, n + 1, a)
  BY <1>9, <1>15, <1>16 DEF Listed
<1> QED BY <1>4, <1>17

\* DEBUG has listed the items before the one it is at.
LEMMA DebugHas ==
    ASSUME NEW u, NEW r, NEW k, NEW b, NEW o, NEW y, NEW a, Sound(r, k, b, o, y, a), Tasked(u, r, k, b, o, y, a),
           "DEBUG" \in DOMAIN u, DOMAIN u \cap {"MESG", "WHEX", "WRITE"} = {}
    PROVE  ListTrue(o, u, r, k, b, a) /\ a.svc = "DEBUG" /\ r = a.reg /\ Due(u, r, k, b) = <<>>
<1>1. a.svc = "DEBUG"
  BY HelpersApart DEF Tasked, Serves
<1>2. Due(u, r, k, b) = <<>>
  BY DEF Due, CharDue
<1>3. o \o <<>> = o
  BY ConcatEmptySeq DEF Sound
<1> QED BY <1>1, <1>2, <1>3 DEF Tasked, Prints

\* What DEBUG calls changes nothing but the listing.
LEMMA DebugKeeps ==
    ASSUME NEW u, NEW r, NEW k, NEW b, NEW b2, NEW o, NEW y, NEW a, NEW u2,
           Tasked(u, r, k, b, o, y, a), "DEBUG" \in DOMAIN u, "program" \in DOMAIN u, DOMAIN u \cap {"MESG", "WHEX", "WRITE"} = {},
           DOMAIN u \subseteq DOMAIN u2, DOMAIN u2 \subseteq DOMAIN u \cup {"MESG", "WHEX"},
           \A x \in DOMAIN u : x # "DEBUG" => u2[x] = u[x],
           u2["DEBUG"].own.r13 = u["DEBUG"].own.r13,
           "MESG" \in DOMAIN u2 => u2["MESG"].at.at = "start" /\ u2["MESG"].own.r11 \in Seq(Nat),
           "WHEX" \in DOMAIN u2 => WordLink(u2, r, a) /\ u2["WHEX"].at.at = "start",
           ListTrue(o \o Due(u2, r, k, b2), u2, r, k, b2, a)
    PROVE  Tasked(u2, r, k, b2, o, y, a)
<1>1. a.svc = "DEBUG"
  BY HelpersApart DEF Tasked, Serves
<1>2. Prints(o \o Due(u2, r, k, b2), u2, r, k, b2, y, a)
  <2>1. r = a.reg
    BY <1>1 DEF Tasked, Prints
  <2>2. a.svc \notin Paging
    BY <1>1 DEF Paging
  <2> QED BY <1>1, <2>1, <2>2 DEF Prints
<1>3. Serves(u2, a.svc)
  BY <1>1 DEF Tasked, Serves, Helpers
<1>4. Returning(u2, a)
  <2>1. \A x \in Paging : x \in DOMAIN u2 <=> x \in DOMAIN u
    BY DEF Paging
  <2> QED BY <2>1, ReturningSame DEF Tasked
<1>5. DOMAIN u2 \cap {"WRITE", "READ", "RHEX"} = {}
  BY <1>1, HelpersApart DEF Tasked, Serves
<1>6. Linked(u2, r, k, b2, a)
  BY <1>5 DEF Linked
<1>7. Working(u2)
  BY DEF Working
<1> QED BY <1>2, <1>3, <1>4, <1>6, <1>7 DEF Tasked

\* DEBUG copies the registers.
LEMMA DebugCopies ==
    ASSUME NEW u, NEW r, NEW k, NEW b, NEW b2, NEW o, NEW y, NEW a, NEW u2, NEW own,
           Sound(r, k, b, o, y, a), Tasked(u, r, k, b, o, y, a), "program" \in DOMAIN u, DOMAIN u \cap {"MESG", "WHEX", "WRITE"} = {},
           NEW p, p.at = "list", p.n = 1, OnlyMoved("DEBUG", own, p, u, u2), own = u["DEBUG"].own, u["DEBUG"].at.at = "start",
           u["program"].at = own.r14, b2 = [i \in 0 .. WPSTORE |-> IF i = 0 THEN own.r14.n ELSE r[i - 1]]
    PROVE  Tasked(u2, r, k, b2, o, y, a) /\ b2 \in [0 .. WPSTORE -> Word]
<1>1. DOMAIN u2 = DOMAIN u /\ u2["DEBUG"].own = own /\ "DEBUG" \in DOMAIN u
      /\ u2["DEBUG"].at.at = "list" /\ u2["DEBUG"].at.n = 1 /\ \A x \in DOMAIN u : x # "DEBUG" => u2[x] = u[x]
  BY DEF OnlyMoved
<1>2. ListTrue(o, u, r, k, b, a) /\ a.svc = "DEBUG" /\ r = a.reg
  BY <1>1, DebugHas
<1>3. o = <<>> /\ own.r11 = a.ea /\ k[r[SP]] = a.top
  BY <1>1, <1>2 DEF ListTrue
<1>4. own.r14.n = a.at.n /\ a.at.n \in Word
  <2>1. u["program"].at = a.at
    BY <1>2 DEF Tasked, Returning, Terminal
  <2> QED BY <1>2, <2>1, DebugKnown
<1>5. Copied(b2, a)
  <2>1. 0 \in 0 .. WPSTORE /\ (1 .. WPSTORE) \ {2} \subseteq 0 .. WPSTORE
    BY Constants DEF WPSTORE
  <2>2. b2[0] = a.at.n
    BY <1>4, <2>1
  <2>3. ASSUME NEW i \in (1 .. WPSTORE) \ {2} PROVE b2[i] = a.reg[i - 1]
    BY <1>2, <2>1
  <2> QED BY <2>2, <2>3 DEF Copied
<1>6. b2 \in [0 .. WPSTORE -> Word]
  <2>1. ASSUME NEW i \in 0 .. WPSTORE, i # 0 PROVE r[i - 1] \in Word
    <3>1. i - 1 \in 0 .. SP
      BY <2>1, Constants DEF WPSTORE
    <3> QED BY <3>1 DEF Sound
  <2> QED BY <1>4, <2>1
<1>7. Listed(<<>>, 1, a)
  <2>1. Len(<<>>) = 0 /\ (2 .. 1 - 1) = {}
    OBVIOUS
  <2> QED BY <2>1 DEF Listed, ItemFrom
<1>8. 1 \in 1 .. SP + 5
  BY Constants
<1>9. Due(u2, r, k, b2) = <<>> /\ o \o <<>> = o
  BY <1>1, ConcatEmptySeq DEF Due, CharDue, Sound
<1>10. ListTrue(o, u2, r, k, b2, a)
  BY <1>1, <1>3, <1>5, <1>7, <1>8 DEF ListTrue
<1>11. Tasked(u2, r, k, b2, o, y, a)
  <2>1. ListTrue(o \o Due(u2, r, k, b2), u2, r, k, b2, a)
    BY <1>9, <1>10
  <2>2. DOMAIN u2 \cap {"MESG", "WHEX"} = {}
    BY <1>1
  <2>3. u2["DEBUG"].own.r13 = u["DEBUG"].own.r13
    BY <1>1
  <2> QED BY <1>1, <2>1, <2>2, <2>3, DebugKeeps
<1> QED BY <1>6, <1>11

\* DEBUG prints its operand with MESG.
LEMMA DebugTells ==
    ASSUME NEW u, NEW r, NEW k, NEW b, NEW o, NEW y, NEW a, NEW u2, NEW f, NEW own, NEW p,
           Sound(r, k, b, o, y, a), Tasked(u, r, k, b, o, y, a), "program" \in DOMAIN u, DOMAIN u \cap {"MESG", "WHEX", "WRITE"} = {},
           Entered("MESG", f, "DEBUG", own, p, u, u2), own = u["DEBUG"].own, u["DEBUG"].at.at = "list",
           u["DEBUG"].at.n = 1, p.at = "list", p.n = 2, f.r11 = own.r11
    PROVE  Tasked(u2, r, k, b, o, y, a)
<1>1. DOMAIN u2 = DOMAIN u \cup {"MESG"} /\ u2["MESG"].own = f /\ u2["MESG"].at.at = "start" /\ u2["DEBUG"].own = own
      /\ "DEBUG" \in DOMAIN u /\ u2["DEBUG"].at = p /\ \A x \in DOMAIN u : x # "DEBUG" => u2[x] = u[x]
  BY DEF Entered, At
<1>2. ListTrue(o, u, r, k, b, a) /\ a.svc = "DEBUG" /\ r = a.reg
  BY <1>1, DebugHas
<1>3. own.r11 = a.ea /\ k[r[SP]] = a.top /\ Copied(b, a) /\ Listed(o, 1, a)
  BY <1>1, <1>2 DEF ListTrue
<1>4. a.ea \in Seq(Nat)
  BY <1>2, DebugKnown
<1>5. Due(u2, r, k, b) = a.ea
  <2>1. Due(u2, r, k, b) = <<>> \o a.ea
    BY <1>1, <1>3 DEF Due, CharDue
  <2> QED BY <1>4, <2>1, ConcatEmptySeq
<1>6. Listed(o \o a.ea, 2, a)
  <2>1. 1 \in 1 .. SP + 4 /\ o \in Seq(Nat)
    BY Constants DEF Sound
  <2>2. Listed(o \o a.ea, 1 + 1, a)
    BY <1>3, <1>4, <2>1, ListedMore
  <2> QED BY <2>2
<1>7. 2 \in 1 .. SP + 5
  BY Constants
<1>8. ListTrue(o \o a.ea, u2, r, k, b, a)
  BY <1>1, <1>3, <1>6, <1>7 DEF ListTrue
<1> QED BY <1>1, <1>3, <1>4, <1>5, <1>8, DebugKeeps

\* ... and the words with WHEX.
LEMMA DebugShows ==
    ASSUME NEW u, NEW r, NEW k, NEW b, NEW o, NEW y, NEW a, NEW u2, NEW f, NEW own, NEW p, NEW n \in 2 .. SP + 4,
           Sound(r, k, b, o, y, a), Tasked(u, r, k, b, o, y, a), "program" \in DOMAIN u, DOMAIN u \cap {"MESG", "WHEX", "WRITE"} = {},
           Entered("WHEX", f, "DEBUG", own, p, u, u2), own = u["DEBUG"].own, u["DEBUG"].at.at = "list",
           u["DEBUG"].at.n = n, p.at = "list", p.n = n + 1, f.r11 = ItemAt(n, r), f.r13 = "DEBUG"
    PROVE  Tasked(u2, r, k, b, o, y, a)
<1>1. DOMAIN u2 = DOMAIN u \cup {"WHEX"} /\ u2["WHEX"].own = f /\ u2["WHEX"].at.at = "start" /\ u2["DEBUG"].own = own
      /\ "DEBUG" \in DOMAIN u /\ u2["DEBUG"].at = p /\ \A x \in DOMAIN u : x # "DEBUG" => u2[x] = u[x]
  BY DEF Entered, At
<1>2. ListTrue(o, u, r, k, b, a) /\ a.svc = "DEBUG" /\ r = a.reg
  BY <1>1, DebugHas
<1>3. own.r11 = a.ea /\ k[r[SP]] = a.top /\ Copied(b, a) /\ Listed(o, n, a)
  BY <1>1, <1>2 DEF ListTrue
<1>4. a.ea \in Seq(Nat) /\ a.reg \in [0 .. SP -> Word] /\ a.top \in Word
  BY <1>2, DebugKnown
<1>5. PICK v : v = Holds(f.r11, u2, r, k, b)
  OBVIOUS
<1>6. v \in Word /\ (n # 5 => v = Shown(n, a))
  <2>1. CASE n = 2
    <3>1. v = k[r[SP]]
      BY <1>5, <2>1 DEF Holds, ItemAt
    <3> QED BY <1>3, <1>4, <2>1, <3>1 DEF Shown
  <2>2. CASE n # 2
    <3>1. n - 3 \in 0 .. WPSTORE
      BY <2>2, Constants DEF WPSTORE
    <3>2. v = b[n - 3]
      BY <1>5, <2>2 DEF Holds, ItemAt
    <3>3. v \in Word
      BY <3>1, <3>2 DEF Sound
    <3>4. ASSUME n # 5 PROVE v = Shown(n, a)
      <4>1. CASE n = 3
        BY <1>3, <3>2, <4>1 DEF Copied, Shown
      <4>2. CASE n # 3
        <5>1. n - 3 \in (1 .. WPSTORE) \ {2} /\ n - 3 - 1 = n - 4
          BY <2>2, <3>1, <3>4, <4>2
        <5>2. b[n - 3] = a.reg[n - 4]
          BY <1>3, <5>1 DEF Copied
        <5> QED BY <2>2, <3>2, <4>2, <5>2 DEF Shown
      <4> QED BY <4>1, <4>2
    <3> QED BY <3>3, <3>4
  <2> QED BY <2>1, <2>2
<1>7. PICK s \in Seq(Nat) : s = Four(v) /\ Len(s) = 4
  BY <1>6, TurnedDigits, DigitNat
<1>8. Due(u2, r, k, b) = s
  BY <1>1, <1>5, <1>7 DEF Due, WordDue
<1>9. Listed(o \o s, n + 1, a)
  <2>1. n \in 1 .. SP + 4 /\ o \in Seq(Nat) /\ n # 1
    BY Constants DEF Sound
  <2> QED BY <1>3, <1>4, <1>6, <1>7, <2>1, ListedMore
<1>10. n + 1 \in 1 .. SP + 5 /\ n + 1 > 2 /\ n + 1 - 1 = n
  BY Constants
<1>11. ListTrue(o \o s, u2, r, k, b, a)
  BY <1>1, <1>3, <1>9, <1>10 DEF ListTrue
<1>12. WordLink(u2, r, a)
  <2>1. u2["DEBUG"].at.n > 2 /\ u2["DEBUG"].at.n - 1 = n
    BY <1>1, <1>10
  <2>2. u2["WHEX"].own.r11 = ItemAt(u2["DEBUG"].at.n - 1, r)
    BY <1>1, <2>1
  <2> QED BY <1>1, <2>1, <2>2 DEF WordLink
<1> QED BY <1>1, <1>8, <1>11, <1>12, DebugKeeps

\* DEBUG has printed its listing.
LEMMA DebugDone ==
    ASSUME NEW u, NEW r, NEW k, NEW b, NEW o, NEW y, NEW a, NEW u2,
           Sound(r, k, b, o, y, a), Tasked(u, r, k, b, o, y, a), "program" \in DOMAIN u, DOMAIN u \cap {"MESG", "WHEX", "WRITE"} = {},
           "DEBUG" \in DOMAIN u, Less("DEBUG", u, u2), DOMAIN u2 = {"program"}, u["DEBUG"].at.at = "list", u["DEBUG"].at.n > SP + 4
    PROVE  Tasked(u2, r, k, b, o, y, a)
<1>1. ListTrue(o, u, r, k, b, a) /\ a.svc = "DEBUG" /\ r = a.reg
  BY DebugHas
<1>2. u["DEBUG"].at.n = SP + 5
  BY <1>1, Constants DEF ListTrue
<1>3. Listed(o, SP + 5, a)
  BY <1>1, <1>2 DEF ListTrue
<1>4. Due(u2, r, k, b) = <<>> /\ o \o <<>> = o
  BY ConcatEmptySeq DEF Due, CharDue, Sound
<1>5. Prints(o \o Due(u2, r, k, b), u2, r, k, b, y, a)
  <2>1. a.svc \notin Paging
    BY <1>1 DEF Paging
  <2> QED BY <1>1, <1>3, <1>4, <2>1 DEF Prints, ListTrue
<1>6. Returning(u2, a)
  <2>1. \A x \in Paging : x \in DOMAIN u2 <=> x \in DOMAIN u
    BY DEF Paging, Less
  <2>2. u2["program"] = u["program"]
    BY DEF Less
  <2> QED BY <2>1, <2>2, ReturningSame DEF Tasked
<1> QED BY <1>5, <1>6 DEF Tasked, Serves, Linked, Working

-----------------------------------------------------------------------------
\* Two words, one after the other.
LEMMA TwoWords ==
    ASSUME NEW s1 \in Seq(Nat), NEW s2 \in Seq(Nat)
    PROVE  Len(s1) = 4 /\ Len(s2) = 4 =>
               First(0, s1 \o s2) = <<>> /\ First(4, s1 \o s2) = s1 /\ First(8, s1 \o s2) = s1 \o s2
<1>1. PICK h : h = s1 \o s2
  OBVIOUS
<1>2. PICK m : m = Len(s1)
  OBVIOUS
<1>10. PICK q : q = Len(s2)
  OBVIOUS
<1>15. /\ h \in Seq(Nat) /\ Len(h) = m + q
       /\ \A i \in 1 .. m : h[i] = s1[i]
  BY <1>1, <1>2, <1>10, ConcatIs
<1> HAVE Len(s1) = 4 /\ Len(s2) = 4
<1>14. m = 4 /\ q = 4
  BY <1>2, <1>10
<1>16. Len(h) = 8 /\ \A i \in 1 .. 4 : h[i] = s1[i]
  BY <1>14, <1>15
<1>17. PICK e : e = Len(h)
  OBVIOUS
<1>18. \A n \in 0 .. e : \A g : g = SubSeq(h, 1, n) => g \in Seq(Nat) /\ Len(g) = n /\ \A i \in 1 .. n : g[i] = h[i]
  BY <1>15, <1>17, PrefixIs
<1>19. 0 \in 0 .. e /\ 4 \in 0 .. e /\ 8 \in 0 .. e
  BY <1>16, <1>17
<1>3. PICK g0 : g0 = SubSeq(h, 1, 0)
  OBVIOUS
<1>4. PICK g4 : g4 = SubSeq(h, 1, 4)
  OBVIOUS
<1>5. PICK g8 : g8 = SubSeq(h, 1, 8)
  OBVIOUS
<1>11. g0 \in Seq(Nat) /\ Len(g0) = 0
  BY <1>3, <1>18, <1>19
<1>12. g4 \in Seq(Nat) /\ Len(g4) = 4 /\ \A i \in 1 .. 4 : g4[i] = h[i]
  BY <1>4, <1>18, <1>19
<1>13. g8 \in Seq(Nat) /\ Len(g8) = 8 /\ \A i \in 1 .. 8 : g8[i] = h[i]
  BY <1>5, <1>18, <1>19
<1>6. g0 = <<>>
  BY <1>11, EmptySeq
<1>7. g4 = s1
  <2>1. \A i \in 1 .. 4 : g4[i] = s1[i]
    BY <1>16, <1>12
  <2> QED BY <1>12, <2>1, SeqEqual
<1>8. g8 = h
  BY <1>15, <1>16, <1>13, SeqEqual
<1> QED BY <1>1, <1>3, <1>4, <1>5, <1>6, <1>7, <1>8 DEF First

\* The crash handler prints where the program was, and the segment.
LEMMA ReportShows ==
    ASSUME NEW u, NEW r, NEW k, NEW b, NEW o, NEW y, NEW a, NEW u2, NEW f, NEW own, NEW p, NEW n \in 1 .. 2,
           Sound(r, k, b, o, y, a), Tasked(u, r, k, b, o, y, a), "program" \in DOMAIN u, DOMAIN u \cap {"MESG", "WHEX", "WRITE"} = {},
           Entered("WHEX", f, "INT2", own, p, u, u2), own = u["INT2"].own, own["r8"] = own.r8,
           u["INT2"].at.n = n, p.n = n + 1, f.r11 = IF n = 1 THEN <<"link", "INT2">> ELSE <<"INT2", "r8">>, f.r13 = "INT2"
    PROVE  Tasked(u2, r, k, b, o, y, a)
<1>1. DOMAIN u2 = DOMAIN u \cup {"WHEX"} /\ u2["WHEX"].own = f /\ u2["WHEX"].at.at = "start" /\ u2["INT2"].own = own
      /\ "INT2" \in DOMAIN u /\ u2["INT2"].at = p /\ \A x \in DOMAIN u : x # "INT2" => u2[x] = u[x]
  BY DEF Entered, At
<1>2. a.svc = "INT2"
  BY <1>1, HelpersApart DEF Tasked, Serves
<1>3. Due(u, r, k, b) = <<>> /\ o \o <<>> = o
  BY ConcatEmptySeq DEF Due, CharDue, Sound
<1>4. ReportTrue(o, u, a)
  BY <1>2, <1>3 DEF Tasked, Prints
<1>5. PICK w \in Word : w = a.at.n
  BY <1>2 DEF Sound, Known, Quiet, Terminal, Paging
<1>6. PICK z \in Word : z = TopDigit(w)
  BY TopWord
<1>7. PICK s1 \in Seq(Nat), s2 \in Seq(Nat) : s1 = Four(w) /\ s2 = Four(z) /\ Len(s1) = 4 /\ Len(s2) = 4
  BY TurnedDigits, DigitNat
<1>8. CrashText(a) = s1 \o s2
  BY <1>5, <1>6, <1>7 DEF CrashText
<1>9. Due(u2, r, k, b) = IF n = 1 THEN s1 ELSE s2
  <2>1. Holds(f.r11, u2, r, k, b) = IF n = 1 THEN own.r14.n ELSE own["r8"]
    BY <1>1 DEF Holds
  <2>2. own.r14.n = w /\ own.r8 = z
    BY <1>4, <1>5, <1>6 DEF ReportTrue
  <2> QED BY <1>1, <1>7, <2>1, <2>2 DEF Due, WordDue
<1>10. o = First(4 * (n - 1), s1 \o s2)
  BY <1>4, <1>8 DEF ReportTrue
<1>11. o \o (IF n = 1 THEN s1 ELSE s2) = First(4 * n, s1 \o s2)
  <2>1. First(0, s1 \o s2) = <<>> /\ First(4, s1 \o s2) = s1 /\ First(8, s1 \o s2) = s1 \o s2
    BY <1>7, TwoWords
  <2>2. n = 1 \/ n = 2
    OBVIOUS
  <2>3. CASE n = 1
    <3>1. 4 * (n - 1) = 0 /\ 4 * n = 4 /\ <<>> \o s1 = s1
      BY <1>7, <2>3, ConcatEmptySeq
    <3> QED BY <1>10, <2>1, <2>3, <3>1
  <2>4. CASE n = 2
    <3>1. 4 * (n - 1) = 4 /\ 4 * n = 8
      BY <2>4
    <3> QED BY <1>10, <2>1, <2>4, <3>1
  <2> QED BY <2>2, <2>3, <2>4
<1>12. ReportTrue(o \o Due(u2, r, k, b), u2, a)
  <2>1. n + 1 - 1 = n /\ n + 1 \in 1 .. 3
    OBVIOUS
  <2>2. u2["INT2"].at.n = n + 1 /\ u2["INT2"].at.n - 1 = n /\ u2["INT2"].at.n \in 1 .. 3
    BY <1>1, <2>1
  <2>3. o \o Due(u2, r, k, b) = First(4 * n, CrashText(a))
    BY <1>8, <1>9, <1>11
  <2>4. own.r8 = TopDigit(a.at.n) /\ own.r14 = a.at
    BY <1>4 DEF ReportTrue
  <2> QED BY <1>1, <2>2, <2>3, <2>4 DEF ReportTrue
<1>13. Prints(o \o Due(u2, r, k, b), u2, r, k, b, y, a)
  <2>1. a.svc \notin Paging
    BY <1>2 DEF Paging
  <2> QED BY <1>2, <1>12, <2>1 DEF Prints
<1>14. Serves(u2, a.svc)
  BY <1>1, <1>2 DEF Tasked, Serves, Helpers
<1>15. Returning(u2, a)
  <2>1. \A x \in Paging : x \in DOMAIN u2 <=> x \in DOMAIN u
    BY <1>1 DEF Paging
  <2> QED BY <1>1, <2>1, ReturningSame DEF Tasked
<1>16. Linked(u2, r, k, b, a) /\ Working(u2)
  <2>1. DOMAIN u2 \cap {"WRITE", "READ", "RHEX", "MESG"} = {}
    BY <1>1, <1>2, HelpersApart DEF Tasked, Serves
  <2>2. WordLink(u2, r, a)
    BY <1>1 DEF WordLink
  <2> QED BY <1>1, <2>1, <2>2 DEF Linked, Working
<1> QED BY <1>13, <1>14, <1>15, <1>16 DEF Tasked

\* When it is done, both are on the terminal.
LEMMA ReportDone ==
    ASSUME NEW u, NEW r, NEW k, NEW b, NEW o, NEW y, NEW a,
           Sound(r, k, b, o, y, a), Tasked(u, r, k, b, o, y, a), DOMAIN u \cap {"MESG", "WHEX", "WRITE"} = {},
           "INT2" \in DOMAIN u, u["INT2"].at.n > 2
    PROVE  o = CrashText(a)
<1>1. a.svc = "INT2"
  BY HelpersApart DEF Tasked, Serves
<1>2. Due(u, r, k, b) = <<>> /\ o \o <<>> = o
  BY ConcatEmptySeq DEF Due, CharDue, Sound
<1>3. ReportTrue(o, u, a)
  BY <1>1, <1>2 DEF Tasked, Prints
<1>4. o = First(8, CrashText(a))
  <2>1. u["INT2"].at.n = 3
    BY <1>3 DEF ReportTrue
  <2>2. 4 * (3 - 1) = 8
    OBVIOUS
  <2> QED BY <1>3, <2>1, <2>2 DEF ReportTrue
<1>5. PICK w \in Word : w = a.at.n
  BY <1>1 DEF Sound, Known, Quiet, Terminal, Paging
<1>6. PICK z \in Word : z = TopDigit(w)
  BY TopWord
<1>7. PICK s1 \in Seq(Nat), s2 \in Seq(Nat) : s1 = Four(w) /\ s2 = Four(z) /\ Len(s1) = 4 /\ Len(s2) = 4
  BY TurnedDigits, DigitNat
<1>8. CrashText(a) = s1 \o s2
  BY <1>5, <1>6, <1>7 DEF CrashText
<1>9. First(8, s1 \o s2) = s1 \o s2
  BY <1>7, TwoWords
<1> QED BY <1>4, <1>8, <1>9
-----------------------------------------------------------------------------
\* The tasks before a step and after it.

\* What holds of them before.
LEMMA Here ==
    ASSUME ServiceInv, ServedInv, ctx # "monitor", NEW u, u = MyTasks
    PROVE  /\ Sound(reg, stk, ram, out, keys, asked) /\ Tasked(u, reg, stk, ram, out, keys, asked)
           /\ "program" \in DOMAIN u
           /\ ctx \in DOMAIN ws \ Handlers => ctx \in DOMAIN u /\ u[ctx].own = my /\ u[ctx].at = pc /\ u[ctx].st = st
           /\ \A x \in DOMAIN u : x = "program" \/ (x \in DOMAIN ws \ Handlers /\ u[x].own = ws[x])
<1>1. Sound(reg, stk, ram, out, keys, asked)
  BY DEF Sound, ServedInv, ServiceInv, Registers
<1>2. Tasked(u, reg, stk, ram, out, keys, asked)
  BY DEF ServedInv
<1>3. PICK w : w = ws
  OBVIOUS
<1>4. PICK c : c = ctx
  OBVIOUS
<1>11. PICK p : p = pc
  OBVIOUS
<1>12. PICK m : m = st
  OBVIOUS
<1>5. u = Tasks(w, c, p, m) /\ Nested(w, c) /\ c # "monitor"
  BY <1>3, <1>4, <1>11, <1>12 DEF MyTasks, ServiceInv, Held
<1>6. DOMAIN u = (DOMAIN w \ Handlers) \cup {"program"}
  <2>1. DOMAIN Tasks(w, c, p, m) = (DOMAIN w \ Handlers) \cup {"program"}
    BY TasksDomain
  <2> QED BY <1>5, <2>1
<1>7. "program" \notin DOMAIN w
  BY <1>5, NoNames DEF Nested
<1>8. ASSUME NEW x \in DOMAIN w \ Handlers
      PROVE  u[x] = Task(w[x], PlaceOf(x, w, c, p), StatusOf(x, w, c, m))
  BY <1>5, <1>7, TaskOf
<1>9. ASSUME c \in DOMAIN w \ Handlers PROVE c \in DOMAIN u /\ u[c].own = w[c] /\ u[c].at = p /\ u[c].st = m
  <2>1. u[c] = Task(w[c], p, m)
    BY <1>8, <1>9 DEF PlaceOf, StatusOf
  <2> QED BY <1>6, <1>9, <2>1, TaskParts
<1>10. \A x \in DOMAIN u : x = "program" \/ (x \in DOMAIN w \ Handlers /\ u[x].own = w[x])
  BY <1>6, <1>8, TaskParts
<1> QED BY <1>1, <1>2, <1>3, <1>4, <1>6, <1>9, <1>10, <1>11, <1>12 DEF my

\* What must hold after it.
LEMMA ServedAfter ==
    ASSUME NEW u2, NEW r2, NEW k2, NEW b2, NEW o2, NEW y2, NEW a2, ctx' # "monitor",
           u2 = Tasks(ws', ctx', pc', st'), r2 = reg', k2 = stk', b2 = ram', o2 = out', y2 = keys', a2 = asked',
           b2 \in [0 .. WPSTORE -> Word], o2 \in Seq(Nat), y2 \in Seq(Nat), Known(a2),
           Tasked(u2, r2, k2, b2, o2, y2, a2)
    PROVE  ServedInv'
BY DEF ServedInv, MyTasks

\* A service goes back.
LEMMA BackLess ==
    ASSUME ServiceInv, ctx \in DOMAIN ws \ Handlers, NEW u, u = MyTasks, NEW u2, u2 = Tasks(ws', ctx', pc', st'),
           ws' = Left(ctx), ctx' = my.r13, pc' = my.r14, st' = my.r15
    PROVE  Less(ctx, u, u2)
<1>1. PICK w : w = ws
  OBVIOUS
<1>2. PICK c : c = ctx
  OBVIOUS
<1>3. PICK p : p = pc
  OBVIOUS
<1>4. PICK m : m = st
  OBVIOUS
<1>5. u = Tasks(w, c, p, m) /\ Nested(w, c) /\ c \in DOMAIN w
  BY <1>1, <1>2, <1>3, <1>4 DEF MyTasks, ServiceInv, Held
<1>6. u2 = Tasks(Without(c, w), w[c].r13, w[c].r14, w[c].r15)
  BY <1>1, <1>2, LeftIs DEF my
<1>7. u2 = Without(c, u)
  BY <1>5, <1>6, TasksLeft
<1> QED BY <1>2, <1>7 DEF Without, Less

\* It goes on within its own code, in a workspace own.
LEMMA OnwardMoved ==
    ASSUME ServiceInv, ctx \in DOMAIN ws \ Handlers, NEW own, NEW u, u = MyTasks, NEW u2, u2 = Tasks(ws', ctx', pc', st'),
           NEW p2, p2 = pc', NEW w2, w2 = ws', SameLinks(w2, ws), w2[ctx] = own, \A x \in DOMAIN ws : x # ctx => w2[x] = ws[x],
           ctx' = ctx, st' = st
    PROVE  OnlyMoved(ctx, own, p2, u, u2)
<1>1. PICK w : w = ws
  OBVIOUS
<1>2. PICK c : c = ctx
  OBVIOUS
<1>3. PICK p : p = pc
  OBVIOUS
<1>4. PICK m : m = st
  OBVIOUS
<1>5. u = Tasks(w, c, p, m) /\ Nested(w, c) /\ c \in DOMAIN w \ Handlers
  BY <1>1, <1>2, <1>3, <1>4 DEF MyTasks, ServiceInv, Held
<1>7. u2 = Tasks(w2, c, p2, m)
  BY <1>2, <1>4
<1>8. SameLinks(w2, w) /\ w2[c] = own /\ \A x \in DOMAIN w : x # c => w2[x] = w[x]
  BY <1>1, <1>2
<1>9. u2 = Moved(c, own, p2, u)
  BY <1>5, <1>7, <1>8, TasksMoved
<1>10. c \in DOMAIN u
  <2>1. DOMAIN Tasks(w, c, p, m) = (DOMAIN w \ Handlers) \cup {"program"}
    BY TasksDomain
  <2> QED BY <1>5, <2>1
<1>12. PICK z : z = u[c].st
  OBVIOUS
<1>11. u2[c] = Task(own, p2, u[c].st) /\ DOMAIN u2 = DOMAIN u /\ \A x \in DOMAIN u : x # c => u2[x] = u[x]
  BY <1>9, <1>10 DEF Moved
<1>13. u2[c] = Task(own, p2, z)
  BY <1>11, <1>12
<1>14. u2[c].own = own /\ u2[c].at = p2 /\ u2[c].st = z
  BY <1>13, TaskParts
<1> QED BY <1>2, <1>10, <1>11, <1>12, <1>14 DEF OnlyMoved

\* With Goto, which leaves the links.
LEMMA GotoMoved ==
    ASSUME ServiceInv, ctx \in DOMAIN ws \ Handlers, NEW own, NEW u, u = MyTasks, NEW u2, u2 = Tasks(ws', ctx', pc', st'),
           own.r13 = my.r13, own.r14 = my.r14, own.r15 = my.r15, NEW p2, p2 = pc',
           ws' = [ws EXCEPT ![ctx] = own], ctx' = ctx, st' = st
    PROVE  OnlyMoved(ctx, own, p2, u, u2)
<1>1. PICK w2 : w2 = ws'
  OBVIOUS
<1>2. SameLinks(w2, ws) /\ w2[ctx] = own /\ \A x \in DOMAIN ws : x # ctx => w2[x] = ws[x]
  BY <1>1 DEF SameLinks, my
<1> QED BY <1>1, <1>2, OnwardMoved

\* It calls another.
LEMMA XopEntered ==
    ASSUME ServiceInv, ctx \in DOMAIN ws \ Handlers, NEW own, NEW u, u = MyTasks, NEW u2, u2 = Tasks(ws', ctx', pc', st'),
           own.r13 = my.r13, own.r14 = my.r14, own.r15 = my.r15,
           NEW s \in Services \ Handlers, NEW ea, NEW next, NEW f, f = Link(ea, next), Xop(s, ea, own, next), Rank(ctx) < Rank(s)
    PROVE  Entered(s, f, ctx, own, next, u, u2) /\ f.r11 = ea /\ f.r13 = ctx /\ f.r15 = st
<1>1. PICK w : w = ws
  OBVIOUS
<1>2. PICK c : c = ctx
  OBVIOUS
<1>3. PICK p : p = pc
  OBVIOUS
<1>4. PICK m : m = st
  OBVIOUS
<1>5. u = Tasks(w, c, p, m) /\ Nested(w, c) /\ c \in DOMAIN w \ Handlers
  BY <1>1, <1>2, <1>3, <1>4 DEF MyTasks, ServiceInv, Held
<1>6. PICK w2 : w2 = [w EXCEPT ![c] = own]
  OBVIOUS
<1>7. f.r11 = ea /\ f.r13 = c /\ f.r14 = next /\ f.r15 = m
  BY <1>2, <1>4 DEF Link, Fresh
<1>8. u2 = Tasks(Joined(s, f, w2), s, At("start"), m)
  BY <1>1, <1>2, <1>4, <1>6 DEF Xop
<1>9. SameLinks(w2, w) /\ w2[c] = own /\ \A x \in DOMAIN w : x # c => w2[x] = w[x]
  BY <1>1, <1>2, <1>5, <1>6 DEF SameLinks, my
<1>10. Nested(w2, c)
  BY <1>5, <1>9, NestedSame
<1>11. c \notin {"program", "monitor"}
  BY <1>5, NoNames DEF Nested
<1>12. u2 = Joined(s, Task(f, At("start"), m), Tasks(w2, c, next, m))
  <2>1. Rank(c) < Rank(s)
    BY <1>2
  <2> QED BY <1>7, <1>8, <1>10, <1>11, <2>1, TasksJoined
<1>13. PICK v : v = Tasks(w2, c, next, m)
  OBVIOUS
<1>14. v = Moved(c, own, next, u)
  BY <1>5, <1>9, <1>13, TasksMoved
<1>15. c \in DOMAIN u /\ DOMAIN u = (DOMAIN w \ Handlers) \cup {"program"}
  <2>1. DOMAIN Tasks(w, c, p, m) = (DOMAIN w \ Handlers) \cup {"program"}
    BY TasksDomain
  <2> QED BY <1>5, <2>1
<1>16. v[c] = Task(own, next, u[c].st) /\ DOMAIN v = DOMAIN u /\ \A x \in DOMAIN u : x # c => v[x] = u[x]
  BY <1>14, <1>15 DEF Moved
<1>17. s \notin DOMAIN u
  <2>1. s \notin DOMAIN w
    <3> SUFFICES ASSUME s \in DOMAIN w PROVE FALSE
      OBVIOUS
    <3>1. Rank(s) <= Rank(c) /\ Rank(c) < Rank(s)
      BY <1>2, <1>5 DEF Nested
    <3> QED BY <3>1, RankType
  <2>2. s # "program"
    BY NoNames
  <2> QED BY <1>15, <2>1, <2>2
<1>18. DOMAIN u2 = DOMAIN u \cup {s} /\ u2[s] = Task(f, At("start"), m) /\ \A x \in DOMAIN u : u2[x] = v[x]
  BY <1>12, <1>13, <1>16, <1>17 DEF Joined
<1>19. Entered(s, f, c, own, next, u, u2)
  BY <1>15, <1>16, <1>17, <1>18, TaskParts DEF Entered
<1> QED BY <1>2, <1>4, <1>7, <1>19

\* A handler comes and goes unseen.
LEMMA HandlerUnseen ==
    ASSUME ServiceInv, ServedInv, NEW h \in Handlers, ws' = Joined(h, Link(0, pc), ws), ctx' = h, ctx # "monitor",
           ctx # "program" => Rank(ctx) < Rank(h), UNCHANGED <<reg, stk, ram, out, keys, asked>>
    PROVE  ServedInv'
<1>1. PICK w : w = ws
  OBVIOUS
<1>2. PICK c : c = ctx
  OBVIOUS
<1>3. PICK f : f = Link(0, pc)
  OBVIOUS
<1>4. f.r13 = c /\ f.r14 = pc /\ f.r15 = st
  BY <1>2, <1>3 DEF Link, Fresh
<1>5. \A p2, m2 : Tasks(Joined(h, f, w), h, p2, m2) = Tasks(w, c, f.r14, f.r15)
  <2>1. Nested(w, c) /\ c # "monitor" /\ (c # "program" => Rank(c) < Rank(h))
    BY <1>1, <1>2 DEF ServiceInv, Held
  <2> QED BY <1>4, <2>1, TasksHandler
<1>6. Tasks(ws', ctx', pc', st') = Tasks(ws, ctx, pc, st)
  BY <1>1, <1>2, <1>3, <1>4, <1>5
<1>7. ctx' # "monitor"
  BY DEF Handlers
<1> QED BY <1>6, <1>7 DEF ServedInv, MyTasks

\* ... also when it goes.
LEMMA HandlerGone ==
    ASSUME ServiceInv, ctx \in DOMAIN ws \cap Handlers, NEW u, u = MyTasks, NEW u2, u2 = Tasks(ws', ctx', pc', st'), RTWP(my)
    PROVE  u2 = u /\ ctx' # "monitor"
<1>1. PICK w : w = ws
  OBVIOUS
<1>2. PICK c : c = ctx
  OBVIOUS
<1>3. Nested(w, c) /\ c \in DOMAIN w \cap Handlers
  BY <1>1, <1>2 DEF ServiceInv, Held
<1>4. u2 = Tasks(Without(c, w), w[c].r13, w[c].r14, w[c].r15)
  BY <1>1, <1>2, LeftIs DEF RTWP, my
<1>5. u2 = Tasks(w, c, pc, st)
  BY <1>3, <1>4, TasksLeftHandler
<1>6. ctx' # "monitor"
  BY Running DEF RTWP, my
<1> QED BY <1>1, <1>2, <1>5, <1>6 DEF MyTasks

\* When the program runs, nothing else does.
LEMMA OnlyProgram ==
    ASSUME NEW w, Nested(w, "program"), NEW p, NEW m
    PROVE  /\ DOMAIN Tasks(w, "program", p, m) = {"program"}
           /\ Tasks(w, "program", p, m)["program"] = Task(Fresh, p, m)
<1>1. DOMAIN Tasks(w, "program", p, m) = (DOMAIN w \ Handlers) \cup {"program"}
  BY TasksDomain
<1>2. DOMAIN w = {}
  BY DEF Nested
<1>3. "program" \in (DOMAIN w \ Handlers) \cup {"program"}
  OBVIOUS
<1>4. Tasks(w, "program", p, m)["program"]
        = Task(IF "program" = "program" THEN Fresh ELSE w["program"], PlaceOf("program", w, "program", p), StatusOf("program", w, "program", m))
  BY <1>3, TaskOf
<1> QED BY <1>1, <1>2, <1>4 DEF PlaceOf, StatusOf

\* What the program called goes back to it, and that was all there was.
LEMMA AskedReturns ==
    ASSUME ServiceInv, ServiceInv', ctx \in DOMAIN ws \ Handlers, NEW u, Serves(u, asked.svc), ctx \in DOMAIN u, u[ctx].own = my,
           asked.svc = ctx \/ my.r13 = "program", ctx # "program", asked.svc # "none", ctx' = my.r13,
           NEW u2, u2 = Tasks(ws', ctx', pc', st')
    PROVE  my.r13 = "program" /\ DOMAIN u2 = {"program"}
<1>1. my.r13 = "program"
  BY DEF Serves
<1>2. PICK w2 : w2 = ws'
  OBVIOUS
<1>3. Nested(w2, "program") /\ ctx' = "program"
  BY <1>1, <1>2 DEF ServiceInv, Held
<1>4. u2 = Tasks(w2, "program", pc', st')
  BY <1>2, <1>3
<1> QED BY <1>1, <1>3, <1>4, OnlyProgram

\* What runs is the last that was entered.
LEMMA OnTop ==
    ASSUME ServiceInv, ctx \in DOMAIN ws, NEW u, \A x \in DOMAIN u : x = "program" \/ x \in DOMAIN ws,
           NEW x, x # "program", x # ctx, ~(Rank(x) < Rank(ctx))
    PROVE  x \notin DOMAIN u
<1>1. PICK w : w = ws
  OBVIOUS
<1>2. PICK c : c = ctx
  OBVIOUS
<1>3. Nested(w, c) /\ c \in DOMAIN w /\ x # c
  BY <1>1, <1>2 DEF ServiceInv, Held
<1>4. x \in DOMAIN w => Rank(x) < Rank(c)
  BY <1>3, TopTask
<1> QED BY <1>1, <1>2, <1>4
-----------------------------------------------------------------------------
\* The services, one step of each.

\* The model's operand is what its effective address holds.
LEMMA OperandIs ==
    ASSUME NEW u, \A x \in DOMAIN u : x = "program" \/ u[x].own = ws[x], NEW e,
           \/ e[1] \in {"register", "stack", "buffer"}
           \/ e[1] = "link" /\ e[2] \in DOMAIN u /\ e[2] # "program"
           \/ e[1] \in {"MESG", "WHEX", "RHEX", "INT2"} /\ e[1] \in DOMAIN u
    PROVE  Operand(e) = Holds(e, u, reg, stk, ram)
BY DEF Operand, Holds

\* ... so is WRITE's,
LEMMA CharOperand ==
    ASSUME NEW u, \A x \in DOMAIN u : x = "program" \/ u[x].own = ws[x], NEW a, Known(a), CharLink(u, a), NEW e, e = u["WRITE"].own.r11
    PROVE  Operand(e) = Holds(e, u, reg, stk, ram)
<1>1. CASE e = a.ea /\ a.svc = "WRITE"
  <2>1. Register(a)
    BY <1>1 DEF Known, Quiet
  <2>2. e[1] = "register"
    BY <1>1, <2>1 DEF Register
  <2> QED BY <2>2, OperandIs
<1>2. CASE e = <<"MESG", "r12">> /\ "MESG" \in DOMAIN u
  BY <1>2, OperandIs
<1>3. CASE e = <<"WHEX", "r8">> /\ "WHEX" \in DOMAIN u
  BY <1>3, OperandIs
<1>4. CASE e = <<"RHEX", "r10">> /\ "RHEX" \in DOMAIN u
  BY <1>4, OperandIs
<1> QED BY <1>1, <1>2, <1>3, <1>4 DEF CharLink

\* ... and WHEX's.
LEMMA WordOperand ==
    ASSUME NEW u, \A x \in DOMAIN u : x = "program" \/ u[x].own = ws[x], NEW a, Known(a), NEW r, WordLink(u, r, a), NEW e, e = u["WHEX"].own.r11
    PROVE  Operand(e) = Holds(e, u, reg, stk, ram)
<1>1. CASE e = a.ea /\ a.svc = "WHEX"
  <2>1. Register(a)
    BY <1>1 DEF Known, Quiet
  <2>2. e[1] = "register"
    BY <1>1, <2>1 DEF Register
  <2> QED BY <2>2, OperandIs
<1>2. CASE \E n : e = ItemAt(n, r)
  <2>1. e[1] \in {"stack", "buffer"}
    BY <1>2 DEF ItemAt
  <2> QED BY <2>1, OperandIs
<1>3. CASE e \in {<<"link", "INT2">>, <<"INT2", "r8">>} /\ "INT2" \in DOMAIN u
  BY <1>3, OperandIs
<1> QED BY <1>1, <1>2, <1>3 DEF WordLink

\* A service in progress is the program's, and asked tells of it.
LEMMA AskedSome ==
    ASSUME NEW u, NEW v, Serves(u, v), NEW c \in Terminal \cup {"INT2"} \cup Paging, c \in DOMAIN u
    PROVE  v # "none"
<1>1. c \notin Stackers /\ c # "program"
  BY DEF Terminal, Paging, Stackers
<1> QED BY <1>1 DEF Serves, Helpers

\* RTWP.
LEMMA RTWPLess ==
    ASSUME ServiceInv, ctx \in DOMAIN ws \ Handlers, RTWP(my), NEW u, u = MyTasks, NEW u2, u2 = Tasks(ws', ctx', pc', st')
    PROVE  Less(ctx, u, u2) /\ ctx' = my.r13 /\ ctx' # "monitor"
<1>1. ctx' = my.r13 /\ pc' = my.r14 /\ st' = my.r15 /\ ws' = Left(ctx)
  BY DEF RTWP
<1>2. Less(ctx, u, u2)
  BY <1>1, BackLess
<1>3. my.r13 # "monitor"
  BY Running DEF my
<1> QED BY <1>1, <1>2, <1>3

\* WRITE.
LEMMA ServedXOP12 ==
    ASSUME ServiceInv, ServiceInv', ServedInv, XOP12 PROVE ServedInv'
<1>1. ctx = "WRITE" /\ ctx \in DOMAIN ws \ Handlers /\ RTWP(my) /\ out' = Append(out, Char(Operand(my.r11)))
      /\ UNCHANGED <<reg, stk, ram, asked, keys>>
  BY Running DEF XOP12, Rest, Handlers
<1>2. PICK u : u = MyTasks
  OBVIOUS
<1>3. PICK u2 : u2 = Tasks(ws', ctx', pc', st')
  OBVIOUS
<1>4. PICK r, k, b, o, y, a : r = reg /\ k = stk /\ b = ram /\ o = out /\ y = keys /\ a = asked
  OBVIOUS
<1>5. PICK o2 : o2 = out'
  OBVIOUS
<1>6. /\ Sound(r, k, b, o, y, a) /\ Tasked(u, r, k, b, o, y, a)
      /\ "program" \in DOMAIN u /\ "WRITE" \in DOMAIN u /\ u["WRITE"].own = my
      /\ \A x \in DOMAIN u : x = "program" \/ u[x].own = ws[x]
  BY <1>1, <1>2, <1>4, Here
<1>7. Less("WRITE", u, u2) /\ ctx' # "monitor"
  BY <1>1, <1>2, <1>3, RTWPLess
<1>8. Operand(my.r11) = Holds(u["WRITE"].own.r11, u, r, k, b)
  <2>1. PICK e : e = u["WRITE"].own.r11
    OBVIOUS
  <2>2. Known(a) /\ CharLink(u, a)
    BY <1>6 DEF Sound, Tasked, Linked
  <2>3. Operand(e) = Holds(e, u, reg, stk, ram)
    BY <1>6, <2>1, <2>2, CharOperand
  <2> QED BY <1>4, <1>6, <2>1, <2>3
<1>9. o2 = Append(o, Char(Holds(u["WRITE"].own.r11, u, r, k, b)))
  BY <1>1, <1>4, <1>5, <1>8
<1>10. Tasked(u2, r, k, b, o2, y, a) /\ o2 \in Seq(Nat)
  BY <1>6, <1>7, <1>9, WriteDone
<1>11. b \in [0 .. WPSTORE -> Word] /\ y \in Seq(Nat) /\ Known(a)
  BY <1>6 DEF Sound
<1>12. r = reg' /\ k = stk' /\ b = ram' /\ y = keys' /\ a = asked'
  BY <1>1, <1>4
<1> QED BY <1>3, <1>5, <1>7, <1>10, <1>11, <1>12, ServedAfter

\* A step that sees nothing of the console's but its own tasks.
LEMMA Quieted ==
    ASSUME NEW u2, NEW r, NEW k, NEW b, NEW o, NEW y, NEW a, u2 = Tasks(ws', ctx', pc', st'), ctx' # "monitor",
           r = reg /\ k = stk /\ b = ram /\ o = out /\ y = keys /\ a = asked, Sound(r, k, b, o, y, a),
           UNCHANGED <<reg, stk, ram, out, keys, asked>>, Tasked(u2, r, k, b, o, y, a)
    PROVE  ServedInv'
BY ServedAfter DEF Sound

\* MESG.
LEMMA ServedXOP14 ==
    ASSUME ServiceInv, ServiceInv', ServedInv, XOP14 PROVE ServedInv'
<1>1. ctx = "MESG" /\ ctx \in DOMAIN ws \ Handlers /\ UNCHANGED <<reg, stk, ram, out, keys, asked>>
  BY Running DEF XOP14, Rest, Handlers
<1>2. PICK u : u = MyTasks
  OBVIOUS
<1>3. PICK u2 : u2 = Tasks(ws', ctx', pc', st')
  OBVIOUS
<1>4. PICK r, k, b, o, y, a : r = reg /\ k = stk /\ b = ram /\ o = out /\ y = keys /\ a = asked
  OBVIOUS
<1>6. /\ Sound(r, k, b, o, y, a) /\ Tasked(u, r, k, b, o, y, a)
      /\ "program" \in DOMAIN u /\ "MESG" \in DOMAIN u /\ u["MESG"].own = my
      /\ \A x \in DOMAIN u : x = "program" \/ (x \in DOMAIN ws \ Handlers /\ u[x].own = ws[x])
  BY <1>1, <1>2, <1>4, Here
<1>7. "WRITE" \notin DOMAIN u /\ "WHEX" \notin DOMAIN u
  <2>1. ~(Rank("WRITE") < Rank("MESG")) /\ ~(Rank("WHEX") < Rank("MESG"))
    BY DEF Rank
  <2> QED BY <1>1, <1>6, <2>1, OnTop
<1>8. CASE my.r11 = <<>>
  <2>1. RTWP(my)
    BY <1>8 DEF XOP14
  <2>2. Less("MESG", u, u2) /\ ctx' # "monitor" /\ ctx' = my.r13
    BY <1>1, <1>2, <1>3, <2>1, RTWPLess
  <2>3. ASSUME a.svc = "MESG" PROVE DOMAIN u2 = {"program"}
    BY <1>1, <1>3, <1>4, <1>6, <2>2, <2>3, AskedReturns DEF Tasked
  <2>4. Tasked(u2, r, k, b, o, y, a)
    BY <1>6, <1>7, <1>8, <2>2, <2>3, MesgDone
  <2> QED BY <1>1, <1>3, <1>4, <1>6, <2>2, <2>4, Quieted
<1>9. CASE my.r11 # <<>>
  <2>1. PICK f : f = Link(<<"MESG", "r12">>, At("start"))
    OBVIOUS
  <2>2. PICK own : own = [my EXCEPT !.r12 = High(Head(my.r11)), !.r11 = Tail(@)]
    OBVIOUS
  <2>3. Xop("WRITE", <<"MESG", "r12">>, own, At("start"))
    BY <1>9, <2>2 DEF XOP14
  <2>4. DOMAIN my = Fields
    BY <1>1, Running DEF Owned, my
  <2>5. own.r12 = High(Head(my.r11)) /\ own.r11 = Tail(my.r11) /\ own["r12"] = own.r12
        /\ own.r13 = my.r13 /\ own.r14 = my.r14 /\ own.r15 = my.r15
    BY <2>2, <2>4 DEF Fields
  <2>6. "WRITE" \in Services \ Handlers /\ Rank(ctx) < Rank("WRITE")
    BY <1>1 DEF Services, Handlers, Terminal, Rank
  <2>7. Entered("WRITE", f, "MESG", own, At("start"), u, u2) /\ f.r11 = <<"MESG", "r12">> /\ f.r13 = "MESG"
    BY <1>1, <1>2, <1>3, <2>1, <2>3, <2>5, <2>6, XopEntered
  <2>8. Tasked(u2, r, k, b, o, y, a)
    BY <1>6, <1>7, <1>9, <2>5, <2>7, MesgCalls
  <2>9. ctx' # "monitor"
    BY <2>3 DEF Xop
  <2> QED BY <1>1, <1>3, <1>4, <1>6, <2>8, <2>9, Quieted
<1> QED BY <1>8, <1>9

\* WHEX.
LEMMA ServedXOP10 ==
    ASSUME ServiceInv, ServiceInv', ServedInv, XOP10 PROVE ServedInv'
<1>1. ctx = "WHEX" /\ ctx \in DOMAIN ws \ Handlers /\ UNCHANGED <<reg, stk, ram, out, keys, asked>>
  BY Running DEF XOP10, Rest, Handlers
<1>2. PICK u : u = MyTasks
  OBVIOUS
<1>3. PICK u2 : u2 = Tasks(ws', ctx', pc', st')
  OBVIOUS
<1>4. PICK r, k, b, o, y, a : r = reg /\ k = stk /\ b = ram /\ o = out /\ y = keys /\ a = asked
  OBVIOUS
<1>6. /\ Sound(r, k, b, o, y, a) /\ Tasked(u, r, k, b, o, y, a)
      /\ "program" \in DOMAIN u /\ "WHEX" \in DOMAIN u /\ u["WHEX"].own = my /\ u["WHEX"].at = pc
      /\ \A x \in DOMAIN u : x = "program" \/ (x \in DOMAIN ws \ Handlers /\ u[x].own = ws[x])
  BY <1>1, <1>2, <1>4, Here
<1>7. DOMAIN u \cap {"WRITE", "MESG"} = {}
  <2>1. ~(Rank("WRITE") < Rank("WHEX")) /\ ~(Rank("MESG") < Rank("WHEX"))
    BY DEF Rank
  <2>2. "WRITE" \notin DOMAIN u /\ "MESG" \notin DOMAIN u
    BY <1>1, <1>6, <2>1, OnTop
  <2> QED BY <2>2
<1>8. PICK e : e = my.r11
  OBVIOUS
<1>9. PICK v : v = Holds(u["WHEX"].own.r11, u, r, k, b)
  OBVIOUS
<1>10. v \in Word /\ v = Operand(my.r11)
  <2>1. v \in Word
    BY <1>6, <1>9, WordHeld
  <2>2. Known(a) /\ WordLink(u, r, a) /\ e = u["WHEX"].own.r11
    BY <1>6, <1>8 DEF Sound, Tasked, Linked
  <2>3. Operand(e) = Holds(e, u, reg, stk, ram)
    BY <1>6, <2>2, WordOperand
  <2> QED BY <1>4, <1>8, <1>9, <2>1, <2>2, <2>3
<1>11. DOMAIN my = Fields
  BY <1>1, Running DEF Owned, my
<1>12. pc.at # "start" => my.r12 \in Word /\ my.r9 \in 1 .. 4
  BY <1>6 DEF Tasked, Working
<1>13. ASSUME NEW w \in Word, NEW n \in 1 .. 4, Goto([my EXCEPT !.r12 = w, !.r9 = n], "digit"),
              WordDue(u["WHEX"].own, u["WHEX"].at.at, <<>>, v) = First(n, Four(w))
       PROVE  ServedInv'
  <2>1. PICK own : own = [my EXCEPT !.r12 = w, !.r9 = n]
    OBVIOUS
  <2>2. own.r12 = w /\ own.r9 = n /\ own.r11 = my.r11 /\ own.r13 = my.r13 /\ own.r14 = my.r14 /\ own.r15 = my.r15
    BY <1>11, <2>1 DEF Fields
  <2>3. ws' = [ws EXCEPT ![ctx] = own] /\ ctx' = ctx /\ st' = st /\ pc' = At("digit")
    BY <1>13, <2>1 DEF Goto
  <2>4. OnlyMoved("WHEX", own, At("digit"), u, u2)
    BY <1>1, <1>2, <1>3, <2>2, <2>3, GotoMoved
  <2>5. WordDue(u["WHEX"].own, u["WHEX"].at.at, <<>>, Holds(u["WHEX"].own.r11, u, r, k, b)) = First(own.r9, Four(own.r12))
    BY <1>9, <1>13, <2>2
  <2>6. own.r12 \in Word /\ own.r9 \in 1 .. 4 /\ own.r13 = u["WHEX"].own.r13 /\ own.r11 = u["WHEX"].own.r11
    BY <1>6, <2>2
  <2>7. Tasked(u2, r, k, b, o, y, a)
    BY <1>6, <1>7, <2>4, <2>5, <2>6, WhexMoves
  <2>8. ctx' # "monitor"
    BY <1>1, <2>3
  <2> QED BY <1>1, <1>3, <1>4, <1>6, <2>7, <2>8, Quieted
<1>14. CASE pc.at = "start" /\ Goto([my EXCEPT !.r12 = Operand(my.r11), !.r9 = 4], "digit")
  <2>1. WordDue(u["WHEX"].own, u["WHEX"].at.at, <<>>, v) = Four(v)
    BY <1>6, <1>14 DEF WordDue
  <2>2. Four(v) = First(4, Four(v))
    BY <1>10, FirstAll
  <2>3. Goto([my EXCEPT !.r12 = v, !.r9 = 4], "digit")
    BY <1>10, <1>14
  <2>4. 4 \in 1 .. 4
    OBVIOUS
  <2> QED BY <1>10, <1>13, <2>1, <2>2, <2>3, <2>4
<1>15. CASE pc.at = "digit" /\ Xop("WRITE", <<"WHEX", "r8">>, [my EXCEPT !.r8 = High(TopDigit(my.r12))], At("next"))
  <2>1. PICK f : f = Link(<<"WHEX", "r8">>, At("next"))
    OBVIOUS
  <2>2. PICK own : own = [my EXCEPT !.r8 = High(TopDigit(my.r12))]
    OBVIOUS
  <2>3. Xop("WRITE", <<"WHEX", "r8">>, own, At("next"))
    BY <1>15, <2>2
  <2>5. own["r8"] = High(TopDigit(own.r12)) /\ own.r12 = my.r12 /\ own.r11 = my.r11 /\ own.r9 = my.r9
        /\ own.r13 = my.r13 /\ own.r14 = my.r14 /\ own.r15 = my.r15
    BY <1>11, <2>2 DEF Fields
  <2>6. "WRITE" \in Services \ Handlers /\ Rank(ctx) < Rank("WRITE")
    BY <1>1 DEF Services, Handlers, Terminal, Rank
  <2>7. Entered("WRITE", f, "WHEX", own, At("next"), u, u2) /\ f.r11 = <<"WHEX", "r8">> /\ f.r13 = "WHEX"
    BY <1>1, <1>2, <1>3, <2>1, <2>3, <2>5, <2>6, XopEntered
  <2>8. Tasked(u2, r, k, b, o, y, a)
    BY <1>6, <1>7, <1>15, <2>5, <2>7, WhexCalls
  <2>9. ctx' # "monitor"
    BY <2>3 DEF Xop
  <2> QED BY <1>1, <1>3, <1>4, <1>6, <2>8, <2>9, Quieted
<1>16. CASE pc.at = "next" /\ my.r9 = 1 /\ RTWP(my)
  <2>2. Less("WHEX", u, u2) /\ ctx' # "monitor" /\ ctx' = my.r13
    BY <1>1, <1>2, <1>3, <1>16, RTWPLess
  <2>3. ASSUME a.svc = "WHEX" PROVE DOMAIN u2 = {"program"}
    BY <1>1, <1>3, <1>4, <1>6, <2>2, <2>3, AskedReturns DEF Tasked
  <2>4. Tasked(u2, r, k, b, o, y, a)
    BY <1>6, <1>7, <1>16, <2>2, <2>3, WhexDone
  <2> QED BY <1>1, <1>3, <1>4, <1>6, <2>2, <2>4, Quieted
<1>17. CASE pc.at = "next" /\ my.r9 # 1 /\ Goto([my EXCEPT !.r12 = Rotated(@), !.r9 = @ - 1], "digit")
  <2>1. PICK w \in Word : w = Rotated(my.r12)
    BY <1>12, <1>17, TurnedDigits
  <2>2. PICK n \in 1 .. 4 : n = my.r9 - 1
    BY <1>12, <1>17
  <2>3. Goto([my EXCEPT !.r12 = w, !.r9 = n], "digit")
    <3>1. [my EXCEPT !.r12 = Rotated(@), !.r9 = @ - 1] = [my EXCEPT !.r12 = w, !.r9 = n]
      BY <1>11, <2>1, <2>2 DEF Fields
    <3> QED BY <1>17, <3>1
  <2>4. WordDue(u["WHEX"].own, u["WHEX"].at.at, <<>>, v) = <<>> \o First(n, Four(w))
    BY <1>6, <1>17, <2>1, <2>2 DEF WordDue
  <2>5. PICK s \in Seq(Nat) : s = First(n, Four(w))
    <3>1. n \in 0 .. 4
      OBVIOUS
    <3> QED BY <3>1, FirstIs
  <2>6. <<>> \o s = s
    BY ConcatEmptySeq
  <2> QED BY <1>13, <2>3, <2>4, <2>5, <2>6
<1> QED BY <1>14, <1>15, <1>16, <1>17 DEF XOP10

\* A service that answers its caller, the program.
LEMMA AnswerLess ==
    ASSUME ServiceInv, ServiceInv', ctx \in {"READ", "RHEX"}, ctx \in DOMAIN ws, NEW v, Answer(v), my.r13 = "program",
           NEW i \in 0 .. SP - 1, my.r11 = <<"register", i>>, NEW u, u = MyTasks, NEW u2, u2 = Tasks(ws', ctx', pc', st')
    PROVE  Less(ctx, u, u2) /\ ctx' = "program" /\ reg' = [reg EXCEPT ![i] = v] /\ DOMAIN u2 = {"program"}
<1>1. reg' = [reg EXCEPT ![i] = v] /\ ws' = Left(ctx) /\ ctx' = my.r13 /\ pc' = my.r14 /\ st' = my.r15
  BY DEF Answer
<1>2. ctx \in DOMAIN ws \ Handlers
  BY DEF Handlers
<1>3. Less(ctx, u, u2)
  BY <1>1, <1>2, BackLess
<1>4. PICK w2 : w2 = ws'
  OBVIOUS
<1>5. Nested(w2, "program") /\ ctx' = "program"
  BY <1>1, <1>4 DEF ServiceInv, Held
<1>6. u2 = Tasks(w2, "program", pc', st')
  BY <1>4, <1>5
<1> QED BY <1>1, <1>3, <1>5, <1>6, OnlyProgram

\* READ's answer to RHEX.
LEMMA AnswerToRhex ==
    ASSUME ServiceInv, ctx = "READ", ctx \in DOMAIN ws, NEW v, Answer(v), my.r13 = "RHEX", my.r11 = <<"RHEX", "r10">>,
           NEW u, u = MyTasks, NEW u2, u2 = Tasks(ws', ctx', pc', st'), NEW f, f = ws["RHEX"], DOMAIN f = Fields
    PROVE  \E own : /\ DOMAIN u2 = DOMAIN u \ {"READ"} /\ \A x \in DOMAIN u2 : x # "RHEX" => u2[x] = u[x]
                    /\ u2["RHEX"].own = own /\ u2["RHEX"].at = u["RHEX"].at /\ "RHEX" \in DOMAIN u2
                    /\ own.r10 = v /\ own.r11 = f.r11 /\ own.r12 = f.r12 /\ own.r13 = f.r13
<1>25. PICK own : own = [f EXCEPT !["r10"] = v]
  OBVIOUS
<1>26. own.r10 = v /\ own.r11 = f.r11 /\ own.r12 = f.r12 /\ own.r13 = f.r13 /\ own.r14 = f.r14 /\ own.r15 = f.r15
  BY <1>25 DEF Fields
<1>1. PICK w : w = ws
  OBVIOUS
<1>2. PICK c : c = ctx
  OBVIOUS
<1>3. PICK p : p = pc
  OBVIOUS
<1>4. PICK m : m = st
  OBVIOUS
<1>5. u = Tasks(w, c, p, m) /\ Nested(w, c) /\ c \in DOMAIN w /\ c # "program" /\ w[c].r13 = "RHEX" /\ c = "READ"
  BY <1>1, <1>2, <1>3, <1>4 DEF MyTasks, ServiceInv, Held, my
<1>6. PICK w1 : w1 = Without(c, w)
  OBVIOUS
<1>7. PICK p1 : p1 = w[c].r14
  OBVIOUS
<1>8. PICK m1 : m1 = w[c].r15
  OBVIOUS
<1>9. PICK v1 : v1 = Tasks(w1, "RHEX", p1, m1)
  OBVIOUS
<1>10. v1 = Without(c, u)
  BY <1>5, <1>6, <1>7, <1>8, <1>9, TasksLeft
<1>11. Nested(w1, "RHEX") /\ "RHEX" \in DOMAIN w1
  <2>1. Nested(Without(c, w), w[c].r13)
    BY <1>5, NestedLeft
  <2>2. Nested(w1, "RHEX")
    BY <1>5, <1>6, <2>1
  <2> QED BY <2>2 DEF Nested
<1>12. PICK w2 : w2 = [w1 EXCEPT !["RHEX"] = own]
  OBVIOUS
<1>13. w1["RHEX"] = w["RHEX"]
  BY <1>6, <1>11 DEF Without
<1>14. SameLinks(w2, w1) /\ w2["RHEX"] = own /\ \A x \in DOMAIN w1 : x # "RHEX" => w2[x] = w1[x]
  BY <1>1, <1>11, <1>12, <1>13, <1>26 DEF SameLinks
<1>15. ws' = w2 /\ ctx' = "RHEX" /\ pc' = p1 /\ st' = m1
  <2>1. ws' = [Left(ctx) EXCEPT !["RHEX"]["r10"] = v] /\ ctx' = my.r13 /\ pc' = my.r14 /\ st' = my.r15
    BY DEF Answer
  <2>2. Left(ctx) = w1
    BY <1>1, <1>2, <1>6, LeftIs
  <2>3. [w1 EXCEPT !["RHEX"]["r10"] = v] = [w1 EXCEPT !["RHEX"] = [w1["RHEX"] EXCEPT !["r10"] = v]]
    OBVIOUS
  <2> QED BY <1>1, <1>2, <1>7, <1>8, <1>12, <1>13, <1>25, <2>1, <2>2, <2>3 DEF my
<1>16. u2 = Tasks(w2, "RHEX", p1, m1)
  BY <1>15
<1>17. "RHEX" \in DOMAIN w1 \ Handlers
  BY <1>11 DEF Handlers
<1>18. u2 = Moved("RHEX", own, p1, v1)
  BY <1>9, <1>11, <1>14, <1>16, <1>17, TasksMoved
<1>19. DOMAIN v1 = (DOMAIN w1 \ Handlers) \cup {"program"} /\ v1["RHEX"] = Task(w1["RHEX"], p1, m1)
  <2>1. DOMAIN Tasks(w1, "RHEX", p1, m1) = (DOMAIN w1 \ Handlers) \cup {"program"}
    BY TasksDomain
  <2>2. Tasks(w1, "RHEX", p1, m1)["RHEX"]
          = Task(IF "RHEX" = "program" THEN Fresh ELSE w1["RHEX"], PlaceOf("RHEX", w1, "RHEX", p1), StatusOf("RHEX", w1, "RHEX", m1))
    BY <1>17, TaskOf
  <2> QED BY <1>9, <2>1, <2>2 DEF PlaceOf, StatusOf
<1>20. PICK z : z = v1["RHEX"].st
  OBVIOUS
<1>21. DOMAIN u2 = DOMAIN v1 /\ "RHEX" \in DOMAIN v1 /\ u2["RHEX"] = Task(own, p1, z) /\ \A x \in DOMAIN v1 : x # "RHEX" => u2[x] = v1[x]
  BY <1>17, <1>18, <1>19, <1>20 DEF Moved
<1>22. DOMAIN v1 = DOMAIN u \ {c} /\ \A x \in DOMAIN v1 : v1[x] = u[x]
  BY <1>10 DEF Without
<1>23. u2["RHEX"].own = own /\ u2["RHEX"].at = p1
  BY <1>21, TaskParts
<1>24. u["RHEX"].at = p1
  <2>1. PICK own1 : own1 = w1["RHEX"]
    OBVIOUS
  <2>2. v1["RHEX"].at = p1
    BY <1>19, <2>1, TaskParts
  <2> QED BY <1>21, <1>22, <2>2
<1> QED BY <1>5, <1>21, <1>22, <1>23, <1>24, <1>26

\* READ.
LEMMA ServedXOP13 ==
    ASSUME ServiceInv, ServiceInv', ServedInv, XOP13 PROVE ServedInv'
<1>1. ctx = "READ" /\ ctx \in DOMAIN ws \ Handlers /\ ctx \in DOMAIN ws /\ line # <<>>
      /\ Answer(High(Head(line).ch)) /\ keys' = Append(keys, Head(line).ch) /\ UNCHANGED <<stk, ram, out, asked>>
  BY Running DEF XOP13, Handlers
<1>2. PICK u : u = MyTasks
  OBVIOUS
<1>3. PICK u2 : u2 = Tasks(ws', ctx', pc', st')
  OBVIOUS
<1>4. PICK r, k, b, o, y, a : r = reg /\ k = stk /\ b = ram /\ o = out /\ y = keys /\ a = asked
  OBVIOUS
<1>5. PICK r2, y2 : r2 = reg' /\ y2 = keys'
  OBVIOUS
<1>6. /\ Sound(r, k, b, o, y, a) /\ Tasked(u, r, k, b, o, y, a)
      /\ "program" \in DOMAIN u /\ "READ" \in DOMAIN u /\ u["READ"].own = my
      /\ \A x \in DOMAIN u : x = "program" \/ (x \in DOMAIN ws \ Handlers /\ u[x].own = ws[x])
  BY <1>1, <1>2, <1>4, Here
<1>7. "WRITE" \notin DOMAIN u
  <2>1. ~(Rank("WRITE") < Rank("READ"))
    BY DEF Rank
  <2> QED BY <1>1, <1>6, <2>1, OnTop
<1>8. PICK c \in 0 .. Byte - 1 : c = Head(line).ch
  <2>1. PICK s \in Seq(Character) : s = line /\ s # <<>> /\ Readable(s)
    BY <1>1 DEF ServiceInv
  <2>2. Head(s) = s[1] /\ 1 \in DOMAIN s
    BY <2>1
  <2> QED BY <2>1, <2>2 DEF Readable
<1>9. PICK v : v = High(c)
  OBVIOUS
<1>10. Answer(v) /\ y2 = Append(y, c) /\ c \in Nat /\ y2 \in Seq(Nat)
  <2>1. c \in Nat /\ y \in Seq(Nat)
    BY <1>6, Constants DEF Sound
  <2> QED BY <1>1, <1>4, <1>5, <1>8, <1>9, <2>1
<1>11. Destined("READ", my)
  BY <1>1, Running DEF Owned, my
<1>12. k = stk' /\ b = ram' /\ o = out' /\ a = asked' /\ b \in [0 .. WPSTORE -> Word] /\ o \in Seq(Nat) /\ Known(a)
  BY <1>1, <1>4, <1>6 DEF Sound
<1>13. CASE my.r13 = "program" /\ \E i \in 0 .. SP - 1 : my.r11 = <<"register", i>>
  <2>1. PICK i \in 0 .. SP - 1 : my.r11 = <<"register", i>>
    BY <1>13
  <2>2. Less("READ", u, u2) /\ ctx' = "program" /\ reg' = [reg EXCEPT ![i] = v] /\ DOMAIN u2 = {"program"}
    BY <1>1, <1>2, <1>3, <1>10, <1>13, <2>1, AnswerLess
  <2>3. r2 = [r EXCEPT ![i] = High(c)]
    BY <1>4, <1>5, <1>9, <2>2
  <2>4. u["READ"].own.r13 = "program" /\ u["READ"].own.r11 = <<"register", i>>
    BY <1>6, <1>13, <2>1
  <2>5. Tasked(u2, r2, k, b, o, y2, a)
    BY <1>6, <1>7, <1>10, <2>2, <2>3, <2>4, ReadAnswers
  <2>6. ctx' # "monitor"
    BY <2>2
  <2> QED BY <1>3, <1>5, <1>10, <1>12, <2>5, <2>6, ServedAfter
<1>14. CASE my.r13 = "RHEX" /\ my.r11 = <<"RHEX", "r10">>
  <2>12. PICK f : f = ws["RHEX"]
    OBVIOUS
  <2>2. Nested(ws, ctx)
    BY DEF ServiceInv, Held
  <2>3. "RHEX" \in DOMAIN ws
    BY <1>1, <1>14, <2>2 DEF Nested, Under, my
  <2>4. DOMAIN f = Fields
    BY <2>3, <2>12 DEF ServiceInv, Held, Owned
  <2>6. PICK own : /\ DOMAIN u2 = DOMAIN u \ {"READ"} /\ \A x \in DOMAIN u2 : x # "RHEX" => u2[x] = u[x]
                   /\ u2["RHEX"].own = own /\ u2["RHEX"].at = u["RHEX"].at /\ "RHEX" \in DOMAIN u2
                   /\ own.r10 = v /\ own.r11 = f.r11 /\ own.r12 = f.r12 /\ own.r13 = f.r13
    <3>1. ctx = "READ" /\ ctx \in DOMAIN ws
      BY <1>1
    <3>2. Answer(v)
      BY <1>10
    <3> QED BY <1>2, <1>3, <1>14, <2>4, <2>12, <3>1, <3>2, AnswerToRhex
  <2>7. "RHEX" \in DOMAIN u /\ u["RHEX"].own = f /\ u["READ"].own.r13 = "RHEX"
    BY <1>6, <1>14, <2>6, <2>12
  <2>8. own.r10 = High(c) /\ own.r11 = u["RHEX"].own.r11 /\ own.r12 = u["RHEX"].own.r12 /\ own.r13 = u["RHEX"].own.r13
    BY <1>9, <2>6, <2>7
  <2>9. Tasked(u2, r, k, b, o, y2, a)
    BY <1>6, <1>7, <1>10, <2>6, <2>7, <2>8, RhexGets
  <2>10. reg' = reg /\ ctx' # "monitor"
    BY <1>10, <1>14 DEF Answer
  <2>11. r = reg'
    BY <1>4, <2>10
  <2> QED BY <1>3, <1>5, <1>10, <1>12, <2>9, <2>10, <2>11, ServedAfter
<1> QED BY <1>11, <1>13, <1>14 DEF Destined

\* RHEX.
LEMMA ServedXOP11 ==
    ASSUME ServiceInv, ServiceInv', ServedInv, XOP11 PROVE ServedInv'
<1>1. ctx = "RHEX" /\ ctx \in DOMAIN ws \ Handlers /\ ctx \in DOMAIN ws /\ UNCHANGED <<stk, ram, out, keys, asked>>
  BY Running DEF XOP11, Rest, Handlers
<1>2. PICK u : u = MyTasks
  OBVIOUS
<1>3. PICK u2 : u2 = Tasks(ws', ctx', pc', st')
  OBVIOUS
<1>4. PICK r, k, b, o, y, a : r = reg /\ k = stk /\ b = ram /\ o = out /\ y = keys /\ a = asked
  OBVIOUS
<1>5. DOMAIN my = Fields /\ Destined("RHEX", my)
  BY <1>1, Running DEF Owned, my
<1>6. /\ Sound(r, k, b, o, y, a) /\ Tasked(u, r, k, b, o, y, a)
      /\ "program" \in DOMAIN u /\ "RHEX" \in DOMAIN u /\ u["RHEX"].own = my /\ u["RHEX"].at = pc
      /\ \A x \in DOMAIN u : x = "program" \/ (x \in DOMAIN ws \ Handlers /\ u[x].own = ws[x])
  BY <1>1, <1>2, <1>4, Here
<1>7. DOMAIN u \cap {"READ", "WRITE"} = {}
  <2>1. ~(Rank("WRITE") < Rank("RHEX")) /\ ~(Rank("READ") < Rank("RHEX"))
    BY DEF Rank
  <2>2. "WRITE" \notin DOMAIN u /\ "READ" \notin DOMAIN u
    BY <1>1, <1>6, <2>1, OnTop
  <2> QED BY <2>2
<1>8. "WRITE" \in Services \ Handlers /\ "READ" \in Services \ Handlers /\ Rank(ctx) < Rank("WRITE") /\ Rank(ctx) < Rank("READ")
  BY <1>1 DEF Services, Handlers, Terminal, Rank
<1>9. PICK own : own = my
  OBVIOUS
<1>10. own.r13 = my.r13 /\ own.r14 = my.r14 /\ own.r15 = my.r15 /\ own = u["RHEX"].own /\ own["r10"] = own.r10
  BY <1>6, <1>9
<1>11. CASE pc.at = "start" /\ Xop("READ", <<"RHEX", "r10">>, my, At("echo")) /\ UNCHANGED reg
  <2>1. PICK f : f = Link(<<"RHEX", "r10">>, At("echo"))
    OBVIOUS
  <2>2. Entered("READ", f, "RHEX", own, At("echo"), u, u2) /\ f.r11 = <<"RHEX", "r10">> /\ f.r13 = "RHEX"
    BY <1>1, <1>2, <1>3, <1>8, <1>9, <1>10, <1>11, <2>1, XopEntered
  <2>3. Tasked(u2, r, k, b, o, y, a)
    BY <1>6, <1>7, <1>10, <1>11, <2>2, RhexReads
  <2>4. ctx' # "monitor"
    BY <1>11 DEF Xop
  <2> QED BY <1>1, <1>3, <1>4, <1>6, <1>11, <2>3, <2>4, Quieted
<1>12. CASE pc.at = "echo" /\ Xop("WRITE", <<"RHEX", "r10">>, my, At("check")) /\ UNCHANGED reg
  <2>1. PICK f : f = Link(<<"RHEX", "r10">>, At("check"))
    OBVIOUS
  <2>2. Entered("WRITE", f, "RHEX", own, At("check"), u, u2) /\ f.r11 = <<"RHEX", "r10">> /\ f.r13 = "RHEX"
    BY <1>1, <1>2, <1>3, <1>8, <1>9, <1>10, <1>12, <2>1, XopEntered
  <2>3. Tasked(u2, r, k, b, o, y, a)
    BY <1>6, <1>7, <1>10, <1>12, <2>2, RhexEchoes
  <2>4. ctx' # "monitor"
    BY <1>12 DEF Xop
  <2> QED BY <1>1, <1>3, <1>4, <1>6, <1>12, <2>3, <2>4, Quieted
<1>13. CASE pc.at = "check" /\ Char(my.r10) \in Digit /\ Goto([my EXCEPT !.r12 = Shifted(@, Char(my.r10))], "start") /\ UNCHANGED reg
  <2>1. PICK d \in Digit : d = Char(my.r10)
    BY <1>13
  <2>2. PICK f : f = [my EXCEPT !.r12 = Shifted(my.r12, d)]
    OBVIOUS
  <2>3. f.r12 = Shifted(my.r12, d) /\ f.r11 = my.r11 /\ f.r13 = my.r13 /\ f.r14 = my.r14 /\ f.r15 = my.r15
    BY <1>5, <2>2 DEF Fields
  <2>4. ws' = [ws EXCEPT ![ctx] = f] /\ ctx' = ctx /\ st' = st /\ pc' = At("start")
    BY <1>13, <2>1, <2>2 DEF Goto
  <2>5. OnlyMoved("RHEX", f, At("start"), u, u2)
    BY <1>1, <1>2, <1>3, <2>3, <2>4, GotoMoved
  <2>6. f.r12 = Shifted(u["RHEX"].own.r12, d) /\ f.r11 = u["RHEX"].own.r11 /\ f.r13 = u["RHEX"].own.r13
        /\ d = Char(u["RHEX"].own.r10) /\ u["RHEX"].at.at = "check"
    BY <1>6, <1>13, <2>1, <2>3
  <2>7. Tasked(u2, r, k, b, o, y, a)
    BY <1>6, <1>7, <2>5, <2>6, RhexShifts
  <2>8. ctx' # "monitor"
    BY <1>1, <2>4
  <2> QED BY <1>1, <1>3, <1>4, <1>6, <1>13, <2>7, <2>8, Quieted
<1>14. CASE pc.at = "check" /\ Char(my.r10) \notin Digit /\ Answer(my.r12)
  <2>1. PICK i \in 0 .. SP - 1 : my.r11 = <<"register", i>> /\ my.r13 = "program"
    BY <1>5 DEF Destined
  <2>2. PICK v : v = my.r12
    OBVIOUS
  <2>3. Less("RHEX", u, u2) /\ ctx' = "program" /\ reg' = [reg EXCEPT ![i] = v] /\ DOMAIN u2 = {"program"}
    BY <1>1, <1>2, <1>3, <1>14, <2>1, <2>2, AnswerLess
  <2>4. PICK r2 : r2 = reg'
    OBVIOUS
  <2>5. r2 = [r EXCEPT ![i] = u["RHEX"].own.r12]
    BY <1>4, <1>6, <2>2, <2>3, <2>4
  <2>6. u["RHEX"].own.r11 = <<"register", i>> /\ u["RHEX"].at.at = "check" /\ Char(u["RHEX"].own.r10) \notin Digit
    BY <1>6, <1>14, <2>1
  <2>7. Tasked(u2, r2, k, b, o, y, a)
    BY <1>6, <1>7, <2>3, <2>5, <2>6, RhexAnswers
  <2>8. ctx' # "monitor"
    BY <2>3
  <2>9. k = stk' /\ b = ram' /\ o = out' /\ y = keys' /\ a = asked' /\ b \in [0 .. WPSTORE -> Word] /\ o \in Seq(Nat)
        /\ y \in Seq(Nat) /\ Known(a)
    BY <1>1, <1>4, <1>6 DEF Sound
  <2> QED BY <1>3, <2>4, <2>7, <2>8, <2>9, ServedAfter
<1> QED BY <1>11, <1>12, <1>13, <1>14 DEF XOP11

\* Where the program goes on when its service is done.
LEMMA ProgramAt ==
    ASSUME ServiceInv, ctx \in DOMAIN ws \ Handlers, my.r13 = "program", NEW u, u = MyTasks
    PROVE  u["program"].at = my.r14 /\ u["program"].st = my.r15
<1>1. PICK w : w = ws
  OBVIOUS
<1>2. PICK c : c = ctx
  OBVIOUS
<1>3. PICK p : p = pc
  OBVIOUS
<1>4. PICK m : m = st
  OBVIOUS
<1>5. u = Tasks(w, c, p, m) /\ Nested(w, c) /\ c \in DOMAIN w /\ w[c].r13 = "program"
  BY <1>1, <1>2, <1>3, <1>4 DEF MyTasks, ServiceInv, Held, my
<1>6. Over("program", w) = c
  <2>1. Over(w[c].r13, w) = c
    BY <1>5, OverIs
  <2> QED BY <1>5, <2>1
<1>7. c # "program"
  BY <1>5, NoNames DEF Nested
<1>8. Tasks(w, c, p, m)["program"]
        = Task(IF "program" = "program" THEN Fresh ELSE w["program"], PlaceOf("program", w, c, p), StatusOf("program", w, c, m))
  <2>1. "program" \in (DOMAIN w \ Handlers) \cup {"program"}
    OBVIOUS
  <2> QED BY <2>1, TaskOf
<1>9. PlaceOf("program", w, c, p) = w[c].r14 /\ StatusOf("program", w, c, m) = w[c].r15
  BY <1>6, <1>7 DEF PlaceOf, StatusOf
<1>10. PICK q : q = w[c].r14
  OBVIOUS
<1>11. PICK n : n = w[c].r15
  OBVIOUS
<1>12. u["program"] = Task(Fresh, q, n)
  BY <1>5, <1>8, <1>9, <1>10, <1>11
<1>13. u["program"].at = q /\ u["program"].st = n
  <2>1. PICK f : f = Fresh
    OBVIOUS
  <2> QED BY <1>12, <2>1, TaskParts
<1> QED BY <1>1, <1>2, <1>10, <1>11, <1>13 DEF my

\* DEBUG's listing.
LEMMA ListingIs ==
    /\ Len(Listing) = SP + 4
    /\ \A n \in 1 .. SP + 4 : Listing[n] = IF n = 1 THEN <<"MESG", my.r11>> ELSE <<"WHEX", ItemAt(n, reg)>>
<1>1. PICK a : a = <<<<"MESG", my.r11>>, <<"WHEX", <<"stack", reg[SP]>>>>>>
  OBVIOUS
<1>2. PICK b : b = [i \in 1 .. SP + 2 |-> <<"WHEX", <<"buffer", i - 1>>>>]
  OBVIOUS
<1>3. Listing = a \o b
  BY <1>1, <1>2 DEF Listing
<1>4. a = <<a[1], a[2]>> /\ a[1] = <<"MESG", my.r11>> /\ a[2] = <<"WHEX", <<"stack", reg[SP]>>>>
  BY <1>1
<1>5. PICK k \in Nat : k = SP + 2
  BY Constants
<1>6. DOMAIN b = 1 .. k /\ b = [i \in 1 .. k |-> b[i]] /\ \A i \in 1 .. k : b[i] = <<"WHEX", <<"buffer", i - 1>>>>
  BY <1>2, <1>5
<1>7. /\ Len(a \o b) = k + 2
      /\ \A i \in 1 .. k + 2 : (a \o b)[i] = IF i <= 2 THEN a[i] ELSE b[i - 2]
  BY <1>4, <1>5, <1>6, TwoThen
<1>8. k + 2 = SP + 4
  BY <1>5, Constants
<1>9. ASSUME NEW n \in 1 .. k + 2
      PROVE  Listing[n] = IF n = 1 THEN <<"MESG", my.r11>> ELSE <<"WHEX", ItemAt(n, reg)>>
  <2>1. Listing[n] = IF n <= 2 THEN a[n] ELSE b[n - 2]
    BY <1>3, <1>7
  <2>2. CASE n = 1
    BY <1>4, <2>1, <2>2
  <2>3. CASE n = 2
    BY <1>4, <2>1, <2>3 DEF ItemAt
  <2>4. CASE n > 2
    <3>1. n - 2 \in 1 .. k /\ n - 2 - 1 = n - 3 /\ ~(n <= 2) /\ n # 1 /\ n # 2
      BY <2>4
    <3>2. Listing[n] = <<"WHEX", <<"buffer", n - 3>>>>
      BY <1>6, <2>1, <3>1
    <3> QED BY <3>1, <3>2 DEF ItemAt
  <2> QED BY <2>2, <2>3, <2>4
<1> QED BY <1>3, <1>7, <1>8, <1>9

\* DEBUG.
LEMMA ServedXOP15 ==
    ASSUME ServiceInv, ServiceInv', ServedInv, XOP15 PROVE ServedInv'
<1>1. ctx = "DEBUG" /\ ctx \in DOMAIN ws \ Handlers /\ ctx \in DOMAIN ws /\ UNCHANGED <<reg, stk, out, keys, asked>>
  BY Running DEF XOP15, Handlers
<1>2. PICK u : u = MyTasks
  OBVIOUS
<1>3. PICK u2 : u2 = Tasks(ws', ctx', pc', st')
  OBVIOUS
<1>4. PICK r, k, b, o, y, a : r = reg /\ k = stk /\ b = ram /\ o = out /\ y = keys /\ a = asked
  OBVIOUS
<1>5. my.r13 = "program"
  BY <1>1, RankOne DEF Handlers
<1>6. /\ Sound(r, k, b, o, y, a) /\ Tasked(u, r, k, b, o, y, a)
      /\ "program" \in DOMAIN u /\ "DEBUG" \in DOMAIN u /\ u["DEBUG"].own = my /\ u["DEBUG"].at = pc
      /\ \A x \in DOMAIN u : x = "program" \/ (x \in DOMAIN ws \ Handlers /\ u[x].own = ws[x])
  BY <1>1, <1>2, <1>4, Here
<1>7. DOMAIN u \cap {"MESG", "WHEX", "WRITE"} = {}
  <2>1. ~(Rank("WRITE") < Rank("DEBUG")) /\ ~(Rank("MESG") < Rank("DEBUG")) /\ ~(Rank("WHEX") < Rank("DEBUG"))
    BY DEF Rank
  <2>2. "WRITE" \notin DOMAIN u /\ "MESG" \notin DOMAIN u /\ "WHEX" \notin DOMAIN u
    BY <1>1, <1>6, <2>1, OnTop
  <2> QED BY <2>2
<1>8. "MESG" \in Services \ Handlers /\ "WHEX" \in Services \ Handlers /\ Rank(ctx) < Rank("MESG") /\ Rank(ctx) < Rank("WHEX")
  BY <1>1 DEF Services, Handlers, Terminal, Rank
<1>9. PICK own : own = my
  OBVIOUS
<1>10. own.r13 = my.r13 /\ own.r14 = my.r14 /\ own.r15 = my.r15 /\ own.r11 = my.r11 /\ own = u["DEBUG"].own
  BY <1>6, <1>9
<1>11. CASE /\ pc.at = "start" /\ pc' = [at |-> "list", n |-> 1] /\ UNCHANGED <<ctx, st, ws>>
            /\ ram' = [i \in 0 .. WPSTORE |-> IF i = 0 THEN my.r14.n ELSE reg[i - 1]]
  <2>1. PICK w2 : w2 = ws'
    OBVIOUS
  <2>2. PICK p : p = pc'
    OBVIOUS
  <2>3. OnlyMoved("DEBUG", own, p, u, u2)
    <3>1. SameLinks(w2, ws) /\ w2[ctx] = own /\ \A x \in DOMAIN ws : x # ctx => w2[x] = ws[x]
      BY <1>9, <1>11, <2>1 DEF SameLinks, my
    <3> QED BY <1>1, <1>2, <1>3, <1>11, <2>1, <2>2, <3>1, OnwardMoved
  <2>4. PICK b2 : b2 = ram'
    OBVIOUS
  <2>5. b2 = [i \in 0 .. WPSTORE |-> IF i = 0 THEN own.r14.n ELSE r[i - 1]]
    BY <1>4, <1>9, <1>11, <2>4
  <2>6. u["program"].at = own.r14 /\ u["DEBUG"].at.at = "start"
    BY <1>1, <1>2, <1>5, <1>6, <1>9, <1>11, ProgramAt
  <2>7. p.at = "list" /\ p.n = 1
    BY <1>11, <2>2
  <2>8. Tasked(u2, r, k, b2, o, y, a) /\ b2 \in [0 .. WPSTORE -> Word]
    BY <1>6, <1>7, <1>10, <2>3, <2>5, <2>6, <2>7, DebugCopies
  <2>9. r = reg' /\ k = stk' /\ o = out' /\ y = keys' /\ a = asked' /\ o \in Seq(Nat) /\ y \in Seq(Nat) /\ Known(a)
    BY <1>1, <1>4, <1>6 DEF Sound
  <2>10. ctx' # "monitor"
    BY <1>1, <1>11
  <2> QED BY <1>3, <2>4, <2>8, <2>9, <2>10, ServedAfter
<1>12. CASE pc.at = "list" /\ pc.n <= Len(Listing) /\ Item(Listing) /\ UNCHANGED ram
  <2>1. PICK n : n = pc.n
    OBVIOUS
  <2>2. n \in 1 .. SP + 4
    <3>1. n \in Nat \ {0}
      BY <1>1, <1>12, <2>1 DEF ServiceInv, Onward
    <3>2. n <= SP + 4
      BY <1>12, <2>1, ListingIs
    <3> QED BY <3>1, <3>2, Constants
  <2>3. Listing[n] = IF n = 1 THEN <<"MESG", my.r11>> ELSE <<"WHEX", ItemAt(n, reg)>>
    BY <2>2, ListingIs
  <2>4. PICK p : p = [pc EXCEPT !.n = @ + 1]
    OBVIOUS
  <2>5. p.at = "list" /\ p.n = n + 1
    <3>1. DOMAIN pc = {"at", "n"}
      BY DEF ServiceInv, Onward
    <3> QED BY <1>12, <2>1, <2>4, <3>1
  <2>6. PICK s : s = Listing[n][1]
    OBVIOUS
  <2>7. PICK e : e = Listing[n][2]
    OBVIOUS
  <2>8. PICK f : f = Link(e, p)
    OBVIOUS
  <2>9. Xop(s, e, own, p)
    BY <1>9, <1>12, <2>1, <2>4, <2>6, <2>7 DEF Item
  <2>10. IF n = 1 THEN s = "MESG" /\ e = own.r11 ELSE s = "WHEX" /\ e = ItemAt(n, r)
    BY <1>4, <1>9, <2>3, <2>6, <2>7
  <2>11. s \in Services \ Handlers /\ Rank(ctx) < Rank(s)
    BY <1>8, <2>10
  <2>12. Entered(s, f, "DEBUG", own, p, u, u2) /\ f.r11 = e /\ f.r13 = "DEBUG"
    BY <1>1, <1>2, <1>3, <1>10, <2>8, <2>9, <2>11, XopEntered
  <2>13. u["DEBUG"].at.at = "list" /\ u["DEBUG"].at.n = n
    BY <1>6, <1>12, <2>1
  <2>14. Tasked(u2, r, k, b, o, y, a)
    <3>1. CASE n = 1
      <4>1. p.n = 2
        BY <2>5, <3>1
      <4>2. s = "MESG" /\ f.r11 = own.r11
        BY <2>10, <2>12, <3>1
      <4> QED BY <1>6, <1>7, <1>10, <2>5, <2>12, <2>13, <3>1, <4>1, <4>2, DebugTells
    <3>2. CASE n # 1
      <4>1. n \in 2 .. SP + 4
        BY <2>2, <3>2, Constants
      <4>2. s = "WHEX" /\ f.r11 = ItemAt(n, r)
        BY <2>10, <2>12, <3>2
      <4> QED BY <1>6, <1>7, <1>10, <2>5, <2>12, <2>13, <4>1, <4>2, DebugShows
    <3> QED BY <3>1, <3>2
  <2>15. ctx' # "monitor"
    BY <2>9, <2>11, NoNames DEF Xop
  <2> QED BY <1>1, <1>3, <1>4, <1>6, <1>12, <2>14, <2>15, Quieted
<1>13. CASE pc.at = "list" /\ pc.n > Len(Listing) /\ RTWP(my) /\ UNCHANGED ram
  <2>1. Less("DEBUG", u, u2) /\ ctx' # "monitor" /\ ctx' = my.r13
    BY <1>1, <1>2, <1>3, <1>13, RTWPLess
  <2>2. Serves(u, asked.svc) /\ asked.svc # "none"
    <3>1. Serves(u, asked.svc)
      BY <1>4, <1>6 DEF Tasked
    <3>2. "DEBUG" \in Terminal \cup {"INT2"} \cup Paging
      BY DEF Terminal
    <3> QED BY <1>6, <3>1, <3>2, AskedSome
  <2>3. DOMAIN u2 = {"program"}
    BY <1>1, <1>3, <1>5, <1>6, <2>1, <2>2, AskedReturns
  <2>4. u["DEBUG"].at.at = "list" /\ u["DEBUG"].at.n > SP + 4
    BY <1>6, <1>13, ListingIs
  <2>5. Tasked(u2, r, k, b, o, y, a)
    BY <1>6, <1>7, <2>1, <2>3, <2>4, DebugDone
  <2> QED BY <1>1, <1>3, <1>4, <1>6, <1>13, <2>1, <2>5, Quieted
<1> QED BY <1>11, <1>12, <1>13 DEF XOP15

\* The crash handler.
LEMMA ServedINT2 ==
    ASSUME ServiceInv, ServiceInv', ServedInv, INT2_HANDLER PROVE ServedInv'
<1>1. ctx = "INT2" /\ pc.n <= Len(Report) /\ Item(Report) /\ UNCHANGED <<reg, stk, ram, out, keys, asked>>
  BY DEF INT2_HANDLER, Rest
<1>20. ctx \in DOMAIN ws \ Handlers /\ ctx \in DOMAIN ws
  BY <1>1, Running DEF Handlers
<1>2. PICK u : u = MyTasks
  OBVIOUS
<1>3. PICK u2 : u2 = Tasks(ws', ctx', pc', st')
  OBVIOUS
<1>4. PICK r, k, b, o, y, a : r = reg /\ k = stk /\ b = ram /\ o = out /\ y = keys /\ a = asked
  OBVIOUS
<1>6. /\ Sound(r, k, b, o, y, a) /\ Tasked(u, r, k, b, o, y, a)
      /\ "program" \in DOMAIN u /\ "INT2" \in DOMAIN u /\ u["INT2"].own = my /\ u["INT2"].at = pc
      /\ \A x \in DOMAIN u : x = "program" \/ (x \in DOMAIN ws \ Handlers /\ u[x].own = ws[x])
  BY <1>1, <1>20, <1>2, <1>4, Here
<1>7. DOMAIN u \cap {"MESG", "WHEX", "WRITE"} = {}
  <2>1. ~(Rank("WRITE") < Rank("INT2")) /\ ~(Rank("MESG") < Rank("INT2")) /\ ~(Rank("WHEX") < Rank("INT2"))
    BY DEF Rank
  <2>2. "WRITE" \notin DOMAIN u /\ "MESG" \notin DOMAIN u /\ "WHEX" \notin DOMAIN u
    BY <1>1, <1>20, <1>6, <2>1, OnTop
  <2> QED BY <2>2
<1>8. PICK n \in 1 .. 2 : n = pc.n
  <2>1. Len(Report) = 2
    BY DEF Report
  <2> QED BY <1>1, <2>1 DEF ServiceInv, Onward
<1>9. PICK own : own = my
  OBVIOUS
<1>10. own.r13 = my.r13 /\ own.r14 = my.r14 /\ own.r15 = my.r15 /\ own["r8"] = own.r8 /\ own = u["INT2"].own
  BY <1>6, <1>9
<1>11. PICK e : e = IF n = 1 THEN <<"link", "INT2">> ELSE <<"INT2", "r8">>
  OBVIOUS
<1>12. Report[n] = <<"WHEX", e>>
  <2>1. n = 1 \/ n = 2
    OBVIOUS
  <2> QED BY <1>11, <2>1 DEF Report
<1>13. PICK p : p = [pc EXCEPT !.n = @ + 1]
  OBVIOUS
<1>14. p.n = n + 1
  <2>1. DOMAIN pc = {"at", "n"}
    BY DEF ServiceInv, Onward
  <2> QED BY <1>8, <1>13, <2>1
<1>15. Xop("WHEX", e, own, p)
  BY <1>1, <1>8, <1>9, <1>12, <1>13 DEF Item
<1>16. PICK f : f = Link(e, p)
  OBVIOUS
<1>17. "WHEX" \in Services \ Handlers /\ Rank(ctx) < Rank("WHEX")
  BY <1>1 DEF Services, Handlers, Terminal, Rank
<1>18. Entered("WHEX", f, "INT2", own, p, u, u2) /\ f.r11 = e /\ f.r13 = "INT2"
  BY <1>1, <1>20, <1>2, <1>3, <1>10, <1>15, <1>16, <1>17, XopEntered
<1>19. Tasked(u2, r, k, b, o, y, a)
  <2>1. u["INT2"].at.n = n
    BY <1>6, <1>8
  <2>2. f.r11 = IF n = 1 THEN <<"link", "INT2">> ELSE <<"INT2", "r8">>
    BY <1>11, <1>18
  <2> QED BY <1>6, <1>7, <1>10, <1>14, <1>18, <2>1, <2>2, ReportShows
<1>21. ctx' # "monitor"
  BY <1>15 DEF Xop
<1> QED BY <1>1, <1>3, <1>4, <1>6, <1>19, <1>21, Quieted

\* The program goes on with nothing in progress.
LEMMA ProgramAlone ==
    ASSUME ServiceInv', ctx' = "program", NEW u2, u2 = Tasks(ws', ctx', pc', st'), NEW p2, p2 = pc', NEW m2, m2 = st'
    PROVE  DOMAIN u2 = {"program"} /\ u2["program"].at = p2 /\ u2["program"].st = m2
<1>1. PICK w2 : w2 = ws'
  OBVIOUS
<1>2. Nested(w2, "program")
  BY <1>1 DEF ServiceInv, Held
<1>3. u2 = Tasks(w2, "program", p2, m2)
  BY <1>1
<1>4. PICK f : f = Fresh
  OBVIOUS
<1>5. DOMAIN u2 = {"program"} /\ u2["program"] = Task(f, p2, m2)
  BY <1>2, <1>3, <1>4, OnlyProgram
<1> QED BY <1>5, TaskParts

\* A page service is done.
LEMMA PagingDone ==
    ASSUME NEW u, NEW r, NEW k, NEW b, NEW o, NEW y, NEW a, NEW u2, NEW c \in Paging,
           Sound(r, k, b, o, y, a), Tasked(u, r, k, b, o, y, a), c \in DOMAIN u, DOMAIN u2 = {"program"},
           u2["program"].at = u["program"].at, u2["program"].st = [u["program"].st EXCEPT !.psel = (c = "PSEL_EN")]
    PROVE  Tasked(u2, r, k, b, o, y, a)
<1>1. c # "program" /\ c \notin Stackers /\ c \notin Terminal /\ c # "INT2"
  BY DEF Paging, Stackers, Terminal
<1>2. a.svc = c
  <2>1. c \in Helpers(a.svc)
    BY <1>1 DEF Tasked, Serves
  <2> QED BY <1>1, <2>1 DEF Helpers, Paging
<1>3. u["program"].at = a.at /\ u["program"].st = a.st
  BY <1>2 DEF Tasked, Returning
<1>4. Returning(u2, a)
  <2>1. a.svc \notin DOMAIN u2
    BY <1>1, <1>2
  <2> QED BY <1>1, <1>2, <1>3, <2>1 DEF Returning
<1>5. Serves(u2, a.svc) /\ Linked(u2, r, k, b, a) /\ Working(u2)
  BY DEF Serves, Linked, Working
<1>6. \A t : Prints(t, u2, r, k, b, y, a)
  <2>1. r = a.reg
    BY <1>2 DEF Tasked, Prints
  <2>2. a.svc \notin {"WRITE", "WHEX", "MESG", "READ", "RHEX", "DEBUG", "INT2"}
    BY <1>2 DEF Paging
  <2> QED BY <2>1, <2>2 DEF Prints
<1> QED BY <1>4, <1>5, <1>6 DEF Tasked

\* The page services.
LEMMA ServedXOP0_1 ==
    ASSUME ServiceInv, ServiceInv', ServedInv, XOP0_1 PROVE ServedInv'
<1>1. ctx \in Paging /\ ctx \in DOMAIN ws \ Handlers /\ ctx \in DOMAIN ws /\ UNCHANGED <<reg, stk, ram, out, keys, asked>>
      /\ RTWP([my EXCEPT !.r15.psel = (ctx = "PSEL_EN")])
  <2>1. ctx \in Paging /\ ctx \notin Handlers \cup {"READ", "WRITE", "MESG", "WHEX", "RHEX", "program", "monitor"}
    BY DEF XOP0_1, Paging, Handlers
  <2> QED BY <2>1, Running DEF XOP0_1, Rest
<1>2. PICK u : u = MyTasks
  OBVIOUS
<1>3. PICK u2 : u2 = Tasks(ws', ctx', pc', st')
  OBVIOUS
<1>4. PICK r, k, b, o, y, a : r = reg /\ k = stk /\ b = ram /\ o = out /\ y = keys /\ a = asked
  OBVIOUS
<1>5. PICK c \in Paging : c = ctx
  BY <1>1
<1>6. /\ Sound(r, k, b, o, y, a) /\ Tasked(u, r, k, b, o, y, a)
      /\ "program" \in DOMAIN u /\ c \in DOMAIN u
  BY <1>1, <1>2, <1>4, <1>5, Here DEF Paging
<1>7. my.r13 = "program"
  <2>1. ctx \notin Handlers \cup {"READ", "WRITE", "MESG", "WHEX", "RHEX"}
    BY <1>1 DEF Paging, Handlers
  <2> QED BY <1>1, <2>1, RankOne
<1>8. PICK own : own = my
  OBVIOUS
<1>9. DOMAIN own = Fields
  BY <1>1, <1>8, Running DEF Owned, my
<1>10. ctx' = "program" /\ pc' = own.r14 /\ st' = [own.r15 EXCEPT !.psel = (c = "PSEL_EN")]
  BY <1>1, <1>5, <1>7, <1>8, <1>9 DEF RTWP, Fields
<1>11. u["program"].at = own.r14 /\ u["program"].st = own.r15
  BY <1>1, <1>2, <1>7, <1>8, ProgramAt
<1>12. DOMAIN u2 = {"program"} /\ u2["program"].at = u["program"].at /\ u2["program"].st = [u["program"].st EXCEPT !.psel = (c = "PSEL_EN")]
  <2>1. PICK p2 : p2 = pc'
    OBVIOUS
  <2>2. PICK m2 : m2 = st'
    OBVIOUS
  <2>3. DOMAIN u2 = {"program"} /\ u2["program"].at = p2 /\ u2["program"].st = m2
    BY <1>3, <1>10, <2>1, <2>2, ProgramAlone
  <2> QED BY <1>10, <1>11, <2>1, <2>2, <2>3
<1>13. Tasked(u2, r, k, b, o, y, a)
  BY <1>6, <1>12, PagingDone
<1> QED BY <1>1, <1>3, <1>4, <1>6, <1>10, <1>13, Quieted

-----------------------------------------------------------------------------
\* What the timer does to TIMEOUT matters to nothing but that word of a listing.
LEMMA HoldsApart ==
    ASSUME NEW u, NEW r, NEW k, NEW b, NEW b2, \A i \in (0 .. WPSTORE) \ {2} : b2[i] = b[i],
           NEW e, e[1] # "buffer" \/ e[2] \in (0 .. WPSTORE) \ {2}
    PROVE  Holds(e, u, r, k, b2) = Holds(e, u, r, k, b)
BY DEF Holds

\* WRITE prints no word of the buffer,
LEMMA CharApart ==
    ASSUME NEW u, NEW r, NEW k, NEW b, NEW b2, NEW a, Known(a), Linked(u, r, k, b, a), \A i \in (0 .. WPSTORE) \ {2} : b2[i] = b[i]
    PROVE  CharDue(u, r, k, b2) = CharDue(u, r, k, b) /\ Linked(u, r, k, b2, a)
<1>1. ASSUME "WRITE" \in DOMAIN u
      PROVE  Holds(u["WRITE"].own.r11, u, r, k, b2) = Holds(u["WRITE"].own.r11, u, r, k, b)
  <2>1. PICK e : e = u["WRITE"].own.r11
    OBVIOUS
  <2>2. e[1] # "buffer"
    <3>1. CASE e = a.ea /\ a.svc = "WRITE"
      <4>1. Register(a)
        BY <3>1 DEF Known, Quiet
      <4> QED BY <3>1, <4>1 DEF Register
    <3>2. CASE e \in {<<"MESG", "r12">>, <<"WHEX", "r8">>, <<"RHEX", "r10">>}
      BY <3>2
    <3> QED BY <1>1, <2>1, <3>1, <3>2 DEF Linked, CharLink
  <2> QED BY <2>1, <2>2, HoldsApart
<1> QED BY <1>1 DEF CharDue, Linked

\* ... and WHEX prints TIMEOUT only as that item.
LEMMA WordApart ==
    ASSUME NEW u, NEW r, NEW k, NEW b, NEW b2, NEW o, NEW y, NEW a, Sound(r, k, b, o, y, a), Tasked(u, r, k, b, o, y, a),
           "WHEX" \in DOMAIN u, \A i \in (0 .. WPSTORE) \ {2} : b2[i] = b[i]
    PROVE  \/ Holds(u["WHEX"].own.r11, u, r, k, b2) = Holds(u["WHEX"].own.r11, u, r, k, b)
           \/ a.svc = "DEBUG" /\ "DEBUG" \in DOMAIN u /\ u["DEBUG"].at.n = 6 /\ u["WHEX"].own.r11 = <<"buffer", 2>>
<1>1. PICK e : e = u["WHEX"].own.r11
  OBVIOUS
<1>2. Known(a) /\ WordLink(u, r, a)
  BY DEF Sound, Tasked, Linked
<1>3. CASE e = a.ea /\ a.svc = "WHEX"
  <2>1. Register(a)
    BY <1>2, <1>3 DEF Known, Quiet
  <2>2. e[1] # "buffer"
    BY <1>3, <2>1 DEF Register
  <2> QED BY <1>1, <2>2, HoldsApart
<1>4. CASE e \in {<<"link", "INT2">>, <<"INT2", "r8">>}
  <2>1. e[1] # "buffer"
    BY <1>4
  <2> QED BY <1>1, <2>1, HoldsApart
<1>5. CASE "DEBUG" \in DOMAIN u /\ u["DEBUG"].at.n > 2 /\ e = ItemAt(u["DEBUG"].at.n - 1, r)
  <2>1. a.svc = "DEBUG"
    BY <1>5, HelpersApart DEF Tasked, Serves
  <2>2. PICK n \in 1 .. SP + 5 : n = u["DEBUG"].at.n
    <3>1. ListTrue(o \o Due(u, r, k, b), u, r, k, b, a)
      BY <2>1 DEF Tasked, Prints
    <3> QED BY <1>5, <3>1 DEF ListTrue
  <2>3. n \in Int /\ n > 2 /\ n <= SP + 5 /\ SP \in Int /\ SP > 1
    BY <1>5, <2>2, Constants
  <2>4. CASE n = 3
    <3>1. e[1] = "stack"
      BY <1>5, <2>2, <2>4 DEF ItemAt
    <3> QED BY <1>1, <3>1, HoldsApart
  <2>5. CASE n # 3 /\ n # 6
    <3>1. n - 1 # 2 /\ n - 1 - 3 = n - 4
      BY <2>3, <2>5
    <3>2. e = <<"buffer", n - 4>>
      BY <1>5, <2>2, <3>1 DEF ItemAt
    <3>3. n - 4 \in (0 .. WPSTORE) \ {2}
      BY <2>3, <2>5 DEF WPSTORE
    <3>4. e[2] \in (0 .. WPSTORE) \ {2}
      BY <3>2, <3>3
    <3> QED BY <1>1, <3>4, HoldsApart
  <2>6. CASE n = 6
    <3>1. ItemAt(6 - 1, r) = <<"buffer", 2>>
      BY DEF ItemAt
    <3> QED BY <1>1, <1>5, <2>1, <2>2, <2>6, <3>1
  <2> QED BY <2>4, <2>5, <2>6
<1> QED BY <1>1, <1>2, <1>3, <1>4, <1>5 DEF WordLink

\* The item that shows TIMEOUT is not looked at.
LEMMA ListedApart ==
    ASSUME NEW o \in Seq(Nat), NEW s \in Seq(Nat), NEW s2 \in Seq(Nat), NEW a, a.ea \in Seq(Nat)
    PROVE  Len(s) = 4 /\ Len(s2) = 4 /\ Listed(o \o s, 6, a) => Listed(o \o s2, 6, a)
<1>1. PICK e \in Nat : e = Len(a.ea)
  BY LenProperties
<1>2. PICK m : m = Len(o)
  OBVIOUS
<1>3. PICK h : h = o \o s
  OBVIOUS
<1>4. PICK g : g = o \o s2
  OBVIOUS
<1>5. PICK q : q = Len(s)
  OBVIOUS
<1>14. PICK q2 : q2 = Len(s2)
  OBVIOUS
<1>6. m \in Nat /\ Len(h) = m + q /\ \A i \in 1 .. m : h[i] = o[i]
  BY <1>2, <1>3, <1>5, ConcatIs
<1>7. Len(g) = m + q2 /\ \A i \in 1 .. m : g[i] = o[i]
  BY <1>2, <1>4, <1>14, ConcatIs
<1> HAVE Len(s) = 4 /\ Len(s2) = 4 /\ Listed(o \o s, 6, a)
<1>15. q = 4 /\ q2 = 4
  BY <1>5, <1>14
<1>8. ItemFrom(6, a) = e + 16
  BY <1>1 DEF ItemFrom
<1>9. Len(h) = e + 16 /\ Len(g) = e + 16 /\ m = e + 12
  <2>1. Len(h) = e + 16
    BY <1>3, <1>8 DEF Listed
  <2> QED BY <1>6, <1>7, <1>15, <2>1
<1>10. \A i \in 1 .. m : g[i] = h[i]
  BY <1>6, <1>7
<1>16. Listed(h, 6, a)
  BY <1>3
<1>17. /\ \A i \in 1 .. Len(a.ea) : h[i] = a.ea[i]
       /\ \A j \in {2, 3, 4}, i \in 1 .. 4 : h[ItemFrom(j, a) + i] = Four(Shown(j, a))[i]
  <2>1. {2, 3, 4} \subseteq (2 .. 6 - 1) \ {5}
    OBVIOUS
  <2> QED BY <1>16, <2>1 DEF Listed
<1>11. ASSUME NEW i \in 1 .. Len(a.ea) PROVE g[i] = a.ea[i]
  <2>1. i \in 1 .. m
    BY <1>1, <1>9
  <2>2. h[i] = a.ea[i]
    BY <1>17
  <2> QED BY <1>10, <2>1, <2>2
<1>12. ASSUME NEW j \in (2 .. 6 - 1) \ {5}, NEW i \in 1 .. 4
       PROVE  g[ItemFrom(j, a) + i] = Four(Shown(j, a))[i]
  <2>1. j \in {2, 3, 4}
    OBVIOUS
  <2>2. ItemFrom(j, a) = e + 4 * (j - 2)
    <3>1. j # 1
      BY <2>1
    <3>2. ItemFrom(j, a) = Len(a.ea) + 4 * (j - 2)
      BY <3>1 DEF ItemFrom
    <3> QED BY <1>1, <3>2
  <2>5. e \in Int /\ i \in Int /\ i >= 1 /\ i <= 4 /\ e >= 0
    BY <1>1
  <2>3. ItemFrom(j, a) + i \in 1 .. m
    <3>1. \A z \in {2, 3, 4} : e + 4 * (z - 2) + i \in 1 .. m
      BY <1>9, <2>5
    <3> QED BY <2>1, <2>2, <3>1
  <2>4. h[ItemFrom(j, a) + i] = Four(Shown(j, a))[i]
    BY <1>17, <2>1
  <2> QED BY <1>10, <2>3, <2>4
<1>13. Listed(g, 6, a)
  BY <1>8, <1>9, <1>11, <1>12 DEF Listed
<1> QED BY <1>4, <1>13

\* DEBUG's listing when TIMEOUT changes.
LEMMA ListApart ==
    ASSUME NEW t, NEW u, NEW r, NEW k, NEW b, NEW b2, NEW a, \A i \in (0 .. WPSTORE) \ {2} : b2[i] = b[i],
           ListTrue(t, u, r, k, b, a)
    PROVE  ListTrue(t, u, r, k, b2, a)
<1>1. Copied(b, a) => Copied(b2, a)
  <2>1. 0 \in (0 .. WPSTORE) \ {2} /\ (1 .. WPSTORE) \ {2} \subseteq (0 .. WPSTORE) \ {2}
    BY Constants DEF WPSTORE
  <2> QED BY <2>1 DEF Copied
<1> QED BY <1>1 DEF ListTrue

\* What is printed when TIMEOUT changes.
LEMMA PrintsApart ==
    ASSUME NEW t, NEW u, NEW r, NEW k, NEW b, NEW b2, NEW y, NEW a, \A i \in (0 .. WPSTORE) \ {2} : b2[i] = b[i],
           Prints(t, u, r, k, b, y, a)
    PROVE  Prints(t, u, r, k, b2, y, a)
BY ListApart DEF Prints

\* So it matters to no service.
LEMMA TimeoutChanged ==
    ASSUME NEW u, NEW r, NEW k, NEW b, NEW b2 \in [0 .. WPSTORE -> Word], NEW o, NEW y, NEW a,
           Sound(r, k, b, o, y, a), Tasked(u, r, k, b, o, y, a), \A i \in (0 .. WPSTORE) \ {2} : b2[i] = b[i]
    PROVE  Tasked(u, r, k, b2, o, y, a)
<1>1. Sound(r, k, b2, o, y, a) /\ Known(a) /\ o \in Seq(Nat)
  BY DEF Sound
<1>2. CharDue(u, r, k, b2) = CharDue(u, r, k, b) /\ Linked(u, r, k, b2, a)
  <2>1. Linked(u, r, k, b, a)
    BY DEF Tasked
  <2> QED BY <1>1, <2>1, CharApart
<1>3. PICK t : t = o \o Due(u, r, k, b)
  OBVIOUS
<1>4. Prints(t, u, r, k, b2, y, a)
  <2>1. Prints(t, u, r, k, b, y, a)
    BY <1>3 DEF Tasked
  <2> QED BY <2>1, PrintsApart
<1>5. PICK t2 : t2 = o \o Due(u, r, k, b2)
  OBVIOUS
<1>6. Prints(t2, u, r, k, b2, y, a)
  <2>1. CASE Due(u, r, k, b2) = Due(u, r, k, b)
    BY <1>3, <1>4, <1>5, <2>1
  <2>2. CASE "MESG" \in DOMAIN u \/ "WHEX" \notin DOMAIN u
    <3>1. Due(u, r, k, b2) = Due(u, r, k, b)
      BY <1>2, <2>2 DEF Due
    <3> QED BY <2>1, <3>1
  <2>3. CASE "MESG" \notin DOMAIN u /\ "WHEX" \in DOMAIN u
    <3>1. CASE u["WHEX"].at.at # "start" \/ Holds(u["WHEX"].own.r11, u, r, k, b2) = Holds(u["WHEX"].own.r11, u, r, k, b)
      <4>1. Due(u, r, k, b2) = Due(u, r, k, b)
        BY <1>2, <2>3, <3>1 DEF Due, WordDue
      <4> QED BY <2>1, <4>1
    <3>2. CASE u["WHEX"].at.at = "start" /\ Holds(u["WHEX"].own.r11, u, r, k, b2) # Holds(u["WHEX"].own.r11, u, r, k, b)
      <4>1. a.svc = "DEBUG" /\ "DEBUG" \in DOMAIN u /\ u["DEBUG"].at.n = 6 /\ u["WHEX"].own.r11 = <<"buffer", 2>>
        BY <2>3, <3>2, WordApart
      <4>2. PICK v : v = Holds(u["WHEX"].own.r11, u, r, k, b)
        OBVIOUS
      <4>3. PICK v2 : v2 = Holds(u["WHEX"].own.r11, u, r, k, b2)
        OBVIOUS
      <4>4. v \in Word /\ v2 \in Word
        <5>1. v \in Word
          BY <2>3, <4>2, WordHeld
        <5>2. v2 = b2[2]
          BY <4>1, <4>3 DEF Holds
        <5>3. 2 \in 0 .. WPSTORE
          BY Constants DEF WPSTORE
        <5> QED BY <5>1, <5>2, <5>3
      <4>5. PICK s : s = Four(v)
        OBVIOUS
      <4>6. PICK s2 : s2 = Four(v2)
        OBVIOUS
      <4>7. Due(u, r, k, b) = s /\ Due(u, r, k, b2) = s2
        BY <2>3, <3>2, <4>2, <4>3, <4>5, <4>6 DEF Due, WordDue
      <4>8. s \in Seq(Nat) /\ s2 \in Seq(Nat) /\ Len(s) = 4 /\ Len(s2) = 4
        BY <4>4, <4>5, <4>6, TurnedDigits, DigitNat
      <4>9. ListTrue(t, u, r, k, b2, a) /\ r = a.reg
        BY <1>4, <4>1 DEF Prints
      <4>10. Listed(t2, 6, a)
        <5>1. Listed(t, 6, a)
          <6>1. u["DEBUG"].at.at # "start"
            BY <2>3, <4>1, <4>9 DEF ListTrue
          <6> QED BY <4>1, <4>9, <6>1 DEF ListTrue
        <5>2. t = o \o s /\ t2 = o \o s2
          BY <1>3, <1>5, <4>7
        <5>3. a.ea \in Seq(Nat)
          BY <1>1, <4>1, DebugKnown
        <5> QED BY <1>1, <4>8, <5>1, <5>2, <5>3, ListedApart
      <4>11. ListTrue(t2, u, r, k, b2, a)
        <5>1. u["DEBUG"].at.at # "start"
          BY <2>3, <4>1, <4>9 DEF ListTrue
        <5> QED BY <4>1, <4>9, <4>10, <5>1 DEF ListTrue
      <4>12. a.svc \notin Paging
        BY <4>1 DEF Paging
      <4> QED BY <4>1, <4>9, <4>11, <4>12 DEF Prints
    <3> QED BY <3>1, <3>2
  <2> QED BY <2>2, <2>3
<1> QED BY <1>2, <1>5, <1>6 DEF Tasked

\* An interrupt's handler ranks above what it interrupts.
LEMMA InterruptAbove ==
    ASSUME ServiceInv, NEW n \in 4 .. 6, NEW h, Interrupt(n, h), h = IF n = 4 THEN "INTTIMER" ELSE IF n = 5 THEN "IDE_IRQ" ELSE "IDE_DMARQ"
    PROVE  h \in Handlers /\ (ctx # "program" => Rank(ctx) < Rank(h))
<1>1. h \in Handlers /\ Level(h) = n
  BY DEF Handlers, Level, Rank
<1>2. ctx # "monitor" /\ n <= st.mask
  BY DEF Interrupt
<1>3. st \in Status /\ st.mask \in Int
  BY Running
<1>4. ASSUME ctx # "program" PROVE Rank(ctx) < Rank(h)
  <2>1. ctx \in DOMAIN ws
    BY <1>2, <1>4, Running
  <2>2. CASE ctx \in Handlers
    <3>1. st.mask < Level(ctx)
      BY <2>1, <2>2 DEF ServiceInv, Held, Masked
    <3>2. Level(h) < Level(ctx)
      BY <1>1, <1>2, <1>3, <3>1, RankType DEF Level
    <3> QED BY <3>2, RankType DEF Level
  <2>3. CASE ctx \notin Handlers
    BY <1>1, <2>3 DEF Rank, Handlers
  <2> QED BY <2>2, <2>3
<1> QED BY <1>1, <1>4

\* Interrupts.
LEMMA ServedInterrupt ==
    ASSUME ServiceInv, ServedInv, NEW n \in 4 .. 6, NEW h, Interrupt(n, h), h = IF n = 4 THEN "INTTIMER" ELSE IF n = 5 THEN "IDE_IRQ" ELSE "IDE_DMARQ"
    PROVE  ServedInv'
<1>1. h \in Handlers /\ (ctx # "program" => Rank(ctx) < Rank(h))
  BY InterruptAbove
<1>2. ws' = Joined(h, Link(0, pc), ws) /\ ctx' = h /\ ctx # "monitor" /\ UNCHANGED <<reg, stk, ram, out, keys, asked>>
  BY DEF Interrupt
<1> QED BY <1>1, <1>2, HandlerUnseen

\* Their handlers.
LEMMA ServedHandler ==
    ASSUME ServiceInv, ServedInv, ctx \in Handlers, RTWP(my), NEW b2 \in [0 .. WPSTORE -> Word], b2 = ram',
           \A i \in (0 .. WPSTORE) \ {2} : b2[i] = ram[i], UNCHANGED <<reg, stk, out, keys, asked>>
    PROVE  ServedInv'
<1>1. ctx \in DOMAIN ws \cap Handlers /\ ctx # "monitor"
  <2>1. ctx \notin {"program", "monitor"}
    BY DEF Handlers
  <2> QED BY <2>1, Running
<1>2. PICK u : u = MyTasks
  OBVIOUS
<1>3. PICK u2 : u2 = Tasks(ws', ctx', pc', st')
  OBVIOUS
<1>4. PICK r, k, b, o, y, a : r = reg /\ k = stk /\ b = ram /\ o = out /\ y = keys /\ a = asked
  OBVIOUS
<1>5. u2 = u /\ ctx' # "monitor"
  BY <1>1, <1>2, <1>3, HandlerGone
<1>6. Sound(r, k, b, o, y, a) /\ Tasked(u, r, k, b, o, y, a)
  BY <1>1, <1>2, <1>4, Here
<1>7. \A i \in (0 .. WPSTORE) \ {2} : b2[i] = b[i]
  BY <1>4
<1>8. Tasked(u2, r, k, b2, o, y, a)
  <2>1. Tasked(u, r, k, b2, o, y, a)
    BY <1>6, <1>7, TimeoutChanged
  <2> QED BY <1>5, <2>1
<1>9. r = reg' /\ k = stk' /\ o = out' /\ y = keys' /\ a = asked' /\ o \in Seq(Nat) /\ y \in Seq(Nat) /\ Known(a)
  BY <1>4, <1>6 DEF Sound
<1> QED BY <1>3, <1>5, <1>8, <1>9, ServedAfter

\* The timer's handler writes TIMEOUT.
LEMMA ServedINTTIMER ==
    ASSUME ServiceInv, ServedInv, INTTIMER PROVE ServedInv'
<1>1. ctx \in Handlers /\ RTWP(my) /\ UNCHANGED <<reg, stk, out, keys, asked>>
  BY DEF INTTIMER, Handlers
<1>2. PICK b : b = ram
  OBVIOUS
<1>3. b \in [0 .. WPSTORE -> Word]
  BY <1>2 DEF ServedInv
<1>4. PICK b2 : b2 = ram'
  OBVIOUS
<1>5. CASE UNCHANGED ram
  <2>1. b2 = b
    BY <1>2, <1>4, <1>5
  <2> QED BY <1>1, <1>2, <1>3, <1>4, <2>1, ServedHandler
<1>6. CASE ram' = [ram EXCEPT ![TIMEOUT] = IF @ = 1 THEN 1 ELSE (@ + Byte * Byte - 1) % (Byte * Byte)]
  <2>1. PICK w : w = IF b[2] = 1 THEN 1 ELSE (b[2] + Byte * Byte - 1) % (Byte * Byte)
    OBVIOUS
  <2>2. w \in Word
    <3>1. PICK m \in Nat : m = Byte * Byte /\ m > 1
      BY Constants
    <3>2. b[2] \in Nat
      <4>1. 2 \in 0 .. WPSTORE
        BY Constants DEF WPSTORE
      <4> QED BY <1>3, <4>1, Constants
    <3>3. (b[2] + m - 1) % m \in 0 .. m - 1 /\ 1 \in 0 .. m - 1
      BY <3>1, <3>2
    <3> QED BY <2>1, <3>1, <3>3 DEF Word
  <2>3. b2 = [b EXCEPT ![2] = w]
    BY <1>2, <1>4, <1>6, <2>1 DEF TIMEOUT
  <2>4. b2 \in [0 .. WPSTORE -> Word] /\ \A i \in (0 .. WPSTORE) \ {2} : b2[i] = b[i]
    BY <1>3, <2>2, <2>3
  <2> QED BY <1>1, <1>2, <1>4, <2>4, ServedHandler
<1> QED BY <1>5, <1>6 DEF INTTIMER

\* The drive's handlers write nothing that is looked at.
LEMMA ServedIDE_IRQ ==
    ASSUME ServiceInv, ServedInv, IDE_IRQ PROVE ServedInv'
<1>1. ctx \in Handlers /\ RTWP(my) /\ UNCHANGED <<reg, stk, ram, out, keys, asked>>
  BY DEF IDE_IRQ, Rest, Handlers
<1>2. PICK b2 : b2 = ram'
  OBVIOUS
<1>3. b2 = ram /\ b2 \in [0 .. WPSTORE -> Word]
  BY <1>1, <1>2 DEF ServedInv
<1> QED BY <1>1, <1>2, <1>3, ServedHandler

-----------------------------------------------------------------------------
\* A program of which nothing was asked.
LEMMA Idle ==
    ASSUME NEW u, DOMAIN u = {"program"}, NEW r, NEW k, NEW b, NEW o, NEW y, NEW a, a.svc = "none"
    PROVE  Tasked(u, r, k, b, o, y, a)
<1>1. Serves(u, a.svc) /\ Linked(u, r, k, b, a) /\ Working(u)
  BY DEF Serves, Linked, Working
<1>2. Returning(u, a)
  BY DEF Returning, Terminal, Paging
<1>3. \A t : Prints(t, u, r, k, b, y, a)
  BY DEF Prints, Paging
<1> QED BY <1>1, <1>2, <1>3 DEF Tasked

\* The stack services.
LEMMA ServedStacker ==
    ASSUME ServiceInv, ServiceInv', ServedInv, ctx \in Stackers, ctx' = my.r13, UNCHANGED <<ram, out, keys, asked>>
    PROVE  ServedInv'
<1>1. ctx \in DOMAIN ws \ Handlers /\ ctx \in DOMAIN ws /\ ctx # "monitor" /\ ctx # "program"
  <2>1. ctx \notin {"program", "monitor"} /\ ctx \notin Handlers
    BY DEF Stackers, Handlers
  <2> QED BY <2>1, Running
<1>2. my.r13 = "program"
  <2>1. ctx \notin Handlers \cup {"READ", "WRITE", "MESG", "WHEX", "RHEX"}
    BY DEF Stackers, Handlers
  <2> QED BY <1>1, <2>1, RankOne
<1>3. PICK u : u = MyTasks
  OBVIOUS
<1>4. PICK u2 : u2 = Tasks(ws', ctx', pc', st')
  OBVIOUS
<1>5. PICK r, k, b, o, y, a : r = reg /\ k = stk /\ b = ram /\ o = out /\ y = keys /\ a = asked
  OBVIOUS
<1>6. PICK c \in Stackers : c = ctx
  OBVIOUS
<1>7. Sound(r, k, b, o, y, a) /\ Tasked(u, r, k, b, o, y, a) /\ c \in DOMAIN u
  BY <1>1, <1>3, <1>5, <1>6, Here
<1>8. a.svc = "none"
  <2>1. c \in Helpers(a.svc)
    <3>1. c # "program"
      BY <1>1, <1>6
    <3> QED BY <1>7, <3>1 DEF Tasked, Serves
  <2>2. a = Quiet \/ a.svc \in Terminal \cup Paging \cup {"INT2"}
    BY <1>7 DEF Sound, Known
  <2>3. a.svc \notin Terminal \cup Paging \cup {"INT2"}
    BY <2>1 DEF Helpers, Terminal, Paging, Stackers
  <2> QED BY <2>2, <2>3 DEF Quiet
<1>9. DOMAIN u2 = {"program"}
  <2>1. PICK p2 : p2 = pc'
    OBVIOUS
  <2>2. PICK m2 : m2 = st'
    OBVIOUS
  <2> QED BY <1>2, <1>4, <2>1, <2>2, ProgramAlone
<1>10. PICK r2, k2 : r2 = reg' /\ k2 = stk'
  OBVIOUS
<1>11. Tasked(u2, r2, k2, b, o, y, a)
  BY <1>8, <1>9, Idle
<1>12. b = ram' /\ o = out' /\ y = keys' /\ a = asked'
  BY <1>5
<1>13. b \in [0 .. WPSTORE -> Word] /\ o \in Seq(Nat) /\ y \in Seq(Nat) /\ Known(a)
  BY <1>7 DEF Sound
<1>14. ctx' # "monitor"
  BY <1>2
<1> QED BY <1>4, <1>10, <1>11, <1>12, <1>13, <1>14, ServedAfter

\* All six.
LEMMA ServedStackers ==
    ASSUME ServiceInv, ServiceInv', ServedInv, XOP4 \/ XOP5 \/ XOP6 \/ XOP7 \/ XOP8 \/ XOP9 PROVE ServedInv'
<1>1. ctx \in Stackers /\ UNCHANGED <<ram, out, keys, asked>>
  BY DEF XOP4, XOP5, XOP6, XOP7, XOP8, XOP9, Stacker, Stackers
<1>2. DOMAIN my = Fields
  <2>1. ctx \notin {"program", "monitor"}
    BY <1>1 DEF Stackers
  <2> QED BY <2>1, Running DEF Owned, my
<1>3. ctx' = my.r13
  BY <1>2 DEF XOP4, XOP5, XOP6, XOP7, XOP8, XOP9, RTWP, Fields
<1> QED BY <1>1, <1>3, ServedStacker
-----------------------------------------------------------------------------
\* The program calls the service s, with ea and where it goes on.

Started(u, s, f, next, m) ==
    /\ DOMAIN u = {"program", s} /\ s # "program"
    /\ u[s].own = f /\ u[s].at.at = "start" /\ f.r13 = "program"
    /\ u["program"].at = next /\ u["program"].st = m

\* A call of the program is the only task above it.
LEMMA CallStarts ==
    ASSUME ServiceInv, ctx = "program", NEW s \in Services \ Handlers, NEW f, NEW next, NEW m, m = st,
           f.r13 = "program", f.r14 = next, f.r15 = st,
           ws' = Joined(s, f, ws), ctx' = s, NEW p2, p2 = pc', NEW m2, m2 = st', NEW u2, u2 = Tasks(ws', ctx', pc', st')
    PROVE  DOMAIN u2 = {"program", s} /\ s # "program" /\ u2[s].own = f /\ u2[s].at = p2 /\ u2["program"].at = next /\ u2["program"].st = m
<1>1. PICK w : w = ws
  OBVIOUS
<1>2. Nested(w, "program")
  BY <1>1 DEF ServiceInv, Held
<1>3. u2 = Tasks(Joined(s, f, w), s, p2, m2)
  BY <1>1
<1>4. u2 = Joined(s, Task(f, p2, m2), Tasks(w, "program", next, m))
  BY <1>2, <1>3, TasksJoined
<1>5. PICK v : v = Tasks(w, "program", next, m)
  OBVIOUS
<1>6. PICK e : e = Fresh
  OBVIOUS
<1>7. DOMAIN v = {"program"} /\ v["program"] = Task(e, next, m)
  BY <1>2, <1>5, <1>6, OnlyProgram
<1>8. s # "program"
  BY NoNames
<1>9. DOMAIN u2 = {"program", s} /\ u2[s] = Task(f, p2, m2) /\ u2["program"] = Task(e, next, m)
  BY <1>4, <1>5, <1>7, <1>8 DEF Joined
<1> QED BY <1>8, <1>9, TaskParts

\* What is to be printed for it.
Asks(s, f, next, m, r, k, a) ==
    /\ a.svc = s /\ f.r11 = a.ea /\ f.r12 = 0 /\ a.reg = r /\ a.top = k[r[SP]] /\ a.at = next /\ a.st = m

\* ... and it goes back where the program waits.
LEMMA StartedKeeps ==
    ASSUME NEW u, NEW s \in Terminal \cup Paging, NEW f, NEW next, NEW m, NEW r, NEW k, NEW a, Started(u, s, f, next, m), Asks(s, f, next, m, r, k, a)
    PROVE  Serves(u, a.svc) /\ Returning(u, a)
<1>1. s \in Helpers(s)
  BY DEF Helpers, Terminal, Paging
<1>2. Serves(u, a.svc)
  BY <1>1 DEF Serves, Started, Asks
<1>3. Returning(u, a)
  BY DEF Returning, Started, Asks, Terminal, Paging
<1> QED BY <1>2, <1>3

\* A character, a word, ...
LEMMA RegisterHeld ==
    ASSUME NEW u, NEW r \in [0 .. SP -> Word], NEW k, NEW b, NEW a, Register(a)
    PROVE  Holds(a.ea, u, r, k, b) = r[a.ea[2]] /\ r[a.ea[2]] \in Word
<1>1. PICK i \in 0 .. SP - 1 : a.ea = <<"register", i>>
  BY DEF Register
<1>2. i \in 0 .. SP
  BY Constants
<1>3. r[i] \in Word
  BY <1>2
<1> QED BY <1>1, <1>3 DEF Holds

\* A character is a number.
LEMMA CharNat == ASSUME NEW w \in Word PROVE Char(w) \in Nat
<1>1. PICK n \in Nat : n = Byte /\ n > 1
  BY Constants
<1>2. w \in Nat
  BY Constants
<1> QED BY <1>1, <1>2 DEF Char

\* ... of WRITE: its character is due,
LEMMA WriteStarts ==
    ASSUME NEW u, NEW f, NEW next, NEW m, NEW r, NEW k, NEW b, NEW a, Sound(r, k, b, <<>>, <<>>, a),
           Started(u, "WRITE", f, next, m), Asks("WRITE", f, next, m, r, k, a)
    PROVE  Tasked(u, r, k, b, <<>>, <<>>, a)
<1>1. a.svc = "WRITE" /\ f.r11 = a.ea /\ a.reg = r
  BY DEF Asks
<1>2. DOMAIN u = {"program", "WRITE"} /\ u["WRITE"].own = f /\ f.r13 = "program"
  BY DEF Started
<1>3. Register(a)
  BY <1>1 DEF Sound, Known, Quiet
<1>4. PICK v \in Word : v = Holds(u["WRITE"].own.r11, u, r, k, b) /\ v = a.reg[a.ea[2]]
  <2>1. r \in [0 .. SP -> Word]
    BY DEF Sound
  <2>2. Holds(a.ea, u, r, k, b) = r[a.ea[2]] /\ r[a.ea[2]] \in Word
    BY <1>3, <2>1, RegisterHeld
  <2> QED BY <1>1, <1>2, <2>2
<1>5. Char(v) \in Nat
  BY CharNat
<1>6. Linked(u, r, k, b, a)
  BY <1>1, <1>2, <1>4, <1>5 DEF Linked, CharLink
<1>7. Working(u)
  BY <1>2 DEF Working
<1>8. Due(u, r, k, b) = <<Char(v)>>
  BY <1>2, <1>4 DEF Due, CharDue
<1>9. PICK t : t = <<>> \o Due(u, r, k, b)
  OBVIOUS
<1>10. t = <<Char(v)>>
  BY <1>5, <1>8, <1>9
<1>11. Prints(t, u, r, k, b, <<>>, a)
  BY <1>1, <1>4, <1>10 DEF Prints
<1>12. Serves(u, a.svc) /\ Returning(u, a)
  BY StartedKeeps DEF Terminal
<1> QED BY <1>6, <1>7, <1>9, <1>11, <1>12 DEF Tasked

\* ... of WHEX: four digits are due,
LEMMA WhexStarts ==
    ASSUME NEW u, NEW f, NEW next, NEW m, NEW r, NEW k, NEW b, NEW a, Sound(r, k, b, <<>>, <<>>, a),
           Started(u, "WHEX", f, next, m), Asks("WHEX", f, next, m, r, k, a)
    PROVE  Tasked(u, r, k, b, <<>>, <<>>, a)
<1>1. a.svc = "WHEX" /\ f.r11 = a.ea /\ a.reg = r
  BY DEF Asks
<1>2. DOMAIN u = {"program", "WHEX"} /\ u["WHEX"].own = f /\ f.r13 = "program" /\ u["WHEX"].at.at = "start"
  BY DEF Started
<1>3. Register(a)
  BY <1>1 DEF Sound, Known, Quiet
<1>4. PICK v \in Word : v = Holds(u["WHEX"].own.r11, u, r, k, b) /\ v = a.reg[a.ea[2]]
  <2>1. r \in [0 .. SP -> Word]
    BY DEF Sound
  <2>2. Holds(a.ea, u, r, k, b) = r[a.ea[2]] /\ r[a.ea[2]] \in Word
    BY <1>3, <2>1, RegisterHeld
  <2> QED BY <1>1, <1>2, <2>2
<1>5. Four(v) \in Seq(Nat)
  BY TurnedDigits, DigitNat
<1>6. Linked(u, r, k, b, a)
  BY <1>1, <1>2 DEF Linked, WordLink
<1>7. Working(u)
  BY <1>2 DEF Working
<1>13. PICK q : q = Four(v)
  OBVIOUS
<1>8. Due(u, r, k, b) = q
  BY <1>2, <1>4, <1>13 DEF Due, WordDue
<1>9. PICK t : t = <<>> \o Due(u, r, k, b)
  OBVIOUS
<1>10. t = q
  BY <1>5, <1>8, <1>9, <1>13, ConcatEmptySeq
<1>11. Prints(t, u, r, k, b, <<>>, a)
  <2>1. a.reg[a.ea[2]] = v
    BY <1>4
  <2> QED BY <1>1, <1>10, <1>13, <2>1 DEF Prints
<1>12. Serves(u, a.svc) /\ Returning(u, a)
  BY StartedKeeps DEF Terminal
<1> QED BY <1>6, <1>7, <1>9, <1>11, <1>12 DEF Tasked

\* ... of MESG: the text is due.
LEMMA MesgStarts ==
    ASSUME NEW u, NEW f, NEW next, NEW m, NEW r, NEW k, NEW b, NEW a, Sound(r, k, b, <<>>, <<>>, a),
           Started(u, "MESG", f, next, m), Asks("MESG", f, next, m, r, k, a)
    PROVE  Tasked(u, r, k, b, <<>>, <<>>, a)
<1>1. a.svc = "MESG" /\ f.r11 = a.ea /\ a.reg = r
  BY DEF Asks
<1>2. DOMAIN u = {"program", "MESG"} /\ u["MESG"].own = f /\ f.r13 = "program" /\ u["MESG"].at.at = "start"
  BY DEF Started
<1>3. a.ea \in Seq(Nat)
  BY <1>1, TextAssumption DEF Sound, Known, Quiet
<1>6. Linked(u, r, k, b, a) /\ Working(u)
  BY <1>1, <1>2, <1>3 DEF Linked, Working
<1>8. Due(u, r, k, b) = <<>> \o a.ea
  BY <1>1, <1>2 DEF Due, CharDue
<1>9. PICK t : t = <<>> \o Due(u, r, k, b)
  OBVIOUS
<1>10. t = a.ea
  BY <1>3, <1>8, <1>9, ConcatEmptySeq
<1>11. Prints(t, u, r, k, b, <<>>, a)
  BY <1>1, <1>10 DEF Prints
<1>12. Serves(u, a.svc) /\ Returning(u, a)
  BY StartedKeeps DEF Terminal
<1> QED BY <1>6, <1>9, <1>11, <1>12 DEF Tasked

\* READ, RHEX, DEBUG and the page services have nothing to print yet.
LEMMA OtherStarts ==
    ASSUME NEW u, NEW s \in {"READ", "RHEX", "DEBUG"} \cup Paging, NEW f, NEW next, NEW m, NEW r, NEW k, NEW b, NEW a,
           Sound(r, k, b, <<>>, <<>>, a), Started(u, s, f, next, m), Asks(s, f, next, m, r, k, a)
    PROVE  Tasked(u, r, k, b, <<>>, <<>>, a)
<1>1. a.svc = s /\ f.r11 = a.ea /\ a.reg = r /\ a.top = k[r[SP]] /\ f.r12 = 0
  BY DEF Asks
<1>2. DOMAIN u = {"program", s} /\ u[s].own = f /\ f.r13 = "program" /\ u[s].at.at = "start"
  BY DEF Started
<1>3. s \notin {"WRITE", "WHEX", "MESG", "INT2"}
  BY DEF Paging
<1>6. Linked(u, r, k, b, a) /\ Working(u)
  BY <1>1, <1>2, <1>3 DEF Linked, TypedLink, Working
<1>8. <<>> \o Due(u, r, k, b) = <<>>
  <2>1. Due(u, r, k, b) = <<>>
    BY <1>2, <1>3 DEF Due, CharDue
  <2> QED BY <2>1
<1>9. s = "READ" => ReadTrue(<<>>, u, r, <<>>, a)
  BY <1>1, <1>2 DEF ReadTrue
<1>10. s = "RHEX" => NumberTrue(<<>>, u, r, <<>>, a)
  <2>1. Number(<<>>) = 0
    BY Constants DEF Number, FromEnd
  <2>2. Numeral(<<>>)
    BY DEF Numeral
  <2> QED BY <1>1, <1>2, <2>1, <2>2 DEF NumberTrue
<1>11. s = "DEBUG" => ListTrue(<<>>, u, r, k, b, a)
  BY <1>1, <1>2 DEF ListTrue
<1>12. Prints(<<>>, u, r, k, b, <<>>, a)
  BY <1>1, <1>3, <1>9, <1>10, <1>11 DEF Prints
<1>13. Serves(u, a.svc) /\ Returning(u, a)
  BY StartedKeeps DEF Terminal
<1> QED BY <1>6, <1>8, <1>12, <1>13 DEF Tasked

\* The stack services print nothing.
LEMMA StackerStarts ==
    ASSUME NEW u, NEW s \in Stackers, NEW f, NEW next, NEW m, NEW r, NEW k, NEW b, NEW a, Started(u, s, f, next, m), a.svc = "none"
    PROVE  Tasked(u, r, k, b, <<>>, <<>>, a)
<1>1. DOMAIN u = {"program", s}
  BY DEF Started
<1>2. Serves(u, a.svc)
  BY <1>1 DEF Serves, Helpers
<1>3. Linked(u, r, k, b, a) /\ Working(u)
  BY <1>1 DEF Linked, Working, Stackers
<1>4. Returning(u, a)
  BY DEF Returning, Terminal, Paging
<1>5. \A t : Prints(t, u, r, k, b, <<>>, a)
  BY DEF Prints, Paging
<1> QED BY <1>2, <1>3, <1>4, <1>5 DEF Tasked

\* What the program may ask for.
Asked(s, ea) ==
    /\ s \in Terminal \cup Paging \cup Stackers
    /\ s \in {"WHEX", "RHEX", "WRITE", "READ"} => \E i \in 0 .. SP - 1 : ea = <<"register", i>>
    /\ s \in {"MESG", "DEBUG"} => ea \in Texts

\* A call begins with nothing shown and nothing typed.
LEMMA ServedSoFar ==
    ASSUME NEW u2, NEW r2, NEW k2, NEW b2, NEW a2, ctx' # "monitor",
           u2 = Tasks(ws', ctx', pc', st'), r2 = reg', k2 = stk', b2 = ram', a2 = asked', out' = <<>>, keys' = <<>>,
           b2 \in [0 .. WPSTORE -> Word], Known(a2), Tasked(u2, r2, k2, b2, <<>>, <<>>, a2)
    PROVE  ServedInv'
BY DEF ServedInv, MyTasks

\* The program calls a service.
LEMMA ServedCalls ==
    ASSUME ServiceInv, ServedInv, NEW s, NEW ea, Asked(s, ea), Calls(s, ea) PROVE ServedInv'
<1>1. /\ ctx = "program" /\ ws' = Joined(s, Link(ea, After(pc.n)), ws) /\ ctx' = s /\ pc' = At("start")
      /\ out' = <<>> /\ keys' = <<>> /\ st' = st /\ reg' = reg /\ stk' = stk /\ ram' = ram
  BY DEF Calls, Does
<1>2. PICK next : next = After(pc.n)
  OBVIOUS
<1>3. PICK f : f = Link(ea, next)
  OBVIOUS
<1>4. PICK m : m = st
  OBVIOUS
<1>20. \A z : Link(ea, z).r11 = ea /\ Link(ea, z).r12 = 0 /\ Link(ea, z).r13 = ctx /\ Link(ea, z).r14 = z /\ Link(ea, z).r15 = st
  BY DEF Link, Fresh
<1>5. f.r11 = ea /\ f.r12 = 0 /\ f.r13 = "program" /\ f.r14 = next /\ f.r15 = m
  BY <1>1, <1>3, <1>4, <1>20
<1>6. PICK u : u = Tasks(ws', ctx', pc', st')
  OBVIOUS
<1>7. s \in Services \ Handlers
  BY DEF Asked, Services, Handlers, Terminal, Paging, Stackers
<1>8. Started(u, s, f, next, m)
  <2>1. PICK p2 : p2 = pc'
    OBVIOUS
  <2>2. PICK m2 : m2 = st'
    OBVIOUS
  <2>3. ws' = Joined(s, f, ws)
    BY <1>1, <1>2, <1>3
  <2>4. DOMAIN u = {"program", s} /\ s # "program" /\ u[s].own = f /\ u[s].at = p2 /\ u["program"].at = next /\ u["program"].st = m
    <3>1. ctx = "program" /\ ctx' = s
      BY <1>1
    <3>2. f.r15 = st /\ f.r13 = "program" /\ f.r14 = next
      BY <1>4, <1>5
    <3> QED BY <1>4, <1>6, <1>7, <2>1, <2>2, <2>3, <3>1, <3>2, CallStarts
  <2>5. p2.at = "start"
    BY <1>1, <2>1 DEF At
  <2> QED BY <1>5, <2>4, <2>5 DEF Started
<1>9. PICK r, k, b, a : r = reg' /\ k = stk' /\ b = ram' /\ a = asked'
  OBVIOUS
<1>10. r \in [0 .. SP -> Word] /\ r[SP] \in 0 .. Depth /\ k \in [0 .. Depth -> Word] /\ b \in [0 .. WPSTORE -> Word]
  BY <1>1, <1>9 DEF ServiceInv, Registers, ServedInv
<1>11. next.n \in Word
  BY <1>1, <1>2, AfterWord DEF After, Position, ServiceInv, Onward
<1>12. CASE s \in Terminal \cup Paging
  <2>1. a = [svc |-> s, ea |-> ea, reg |-> r, top |-> k[r[SP]], at |-> next, st |-> m]
    BY <1>1, <1>2, <1>4, <1>9, <1>12 DEF Calls, Top
  <2>2. a.svc = s /\ a.ea = ea /\ a.reg = r /\ a.top = k[r[SP]] /\ a.at = next /\ a.st = m
    BY <2>1
  <2>3. Known(a)
    <3>1. s \in {"WHEX", "RHEX", "WRITE", "READ"} => Register(a)
      BY <2>2 DEF Asked, Register
    <3>2. s \in {"MESG", "DEBUG"} => a.ea \in Texts
      BY <2>2 DEF Asked
    <3>3. a.top \in Word
      BY <1>10, <2>2
    <3> QED BY <1>10, <1>11, <1>12, <2>2, <3>1, <3>2, <3>3 DEF Known
  <2>4. Sound(r, k, b, <<>>, <<>>, a)
    BY <1>10, <2>3 DEF Sound
  <2>5. Asks(s, f, next, m, r, k, a)
    BY <1>5, <2>2 DEF Asks
  <2>6. Tasked(u, r, k, b, <<>>, <<>>, a)
    <3>1. CASE s = "WRITE"
      BY <1>8, <2>4, <2>5, <3>1, WriteStarts
    <3>2. CASE s = "WHEX"
      BY <1>8, <2>4, <2>5, <3>2, WhexStarts
    <3>3. CASE s = "MESG"
      BY <1>8, <2>4, <2>5, <3>3, MesgStarts
    <3>4. CASE s \in {"READ", "RHEX", "DEBUG"} \cup Paging
      BY <1>8, <2>4, <2>5, <3>4, OtherStarts
    <3> QED BY <1>12, <3>1, <3>2, <3>3, <3>4 DEF Terminal
  <2>7. ctx' # "monitor"
    BY <1>1, <1>7, NoNames
  <2> QED BY <1>1, <1>6, <1>9, <1>10, <2>3, <2>6, <2>7, ServedSoFar
<1>13. CASE s \in Stackers
  <2>1. a = Quiet
    BY <1>9, <1>13 DEF Calls, Stackers, Terminal, Paging
  <2>2. Known(a) /\ a.svc = "none"
    BY <2>1 DEF Known, Quiet
  <2>3. Tasked(u, r, k, b, <<>>, <<>>, a)
    BY <1>8, <1>13, <2>2, StackerStarts
  <2>4. ctx' # "monitor"
    BY <1>1, <1>7, NoNames
  <2> QED BY <1>1, <1>6, <1>9, <1>10, <2>2, <2>3, <2>4, ServedSoFar
<1> QED BY <1>12, <1>13 DEF Asked

\* Terminal, stack and page services.
LEMMA ServedUses ==
    ASSUME ServiceInv, ServedInv, UsesTerminal \/ UsesStack \/ Pages PROVE ServedInv'
<1>1. CASE \E s \in {"WHEX", "RHEX", "WRITE", "READ"}, i \in 0 .. SP - 1 : Calls(s, <<"register", i>>)
  <2>1. PICK s \in {"WHEX", "RHEX", "WRITE", "READ"}, i \in 0 .. SP - 1 : Calls(s, <<"register", i>>)
    BY <1>1
  <2>2. PICK e : e = <<"register", i>>
    OBVIOUS
  <2>3. Asked(s, e)
    BY <2>2 DEF Asked, Terminal
  <2> QED BY <2>1, <2>2, <2>3, ServedCalls
<1>2. CASE \E s \in {"MESG", "DEBUG"}, t \in Texts : Calls(s, t)
  <2>1. PICK s \in {"MESG", "DEBUG"}, t \in Texts : Calls(s, t)
    BY <1>2
  <2>2. Asked(s, t)
    BY DEF Asked, Terminal
  <2> QED BY <2>1, <2>2, ServedCalls
<1>3. CASE \E s, e : s \in Stackers /\ Calls(s, e)
  <2>1. PICK s, e : s \in Stackers /\ Calls(s, e)
    BY <1>3
  <2>2. Asked(s, e)
    BY <2>1 DEF Asked, Stackers, Terminal, Paging
  <2> QED BY <2>1, <2>2, ServedCalls
<1>4. CASE \E s \in Paging : Calls(s, 0)
  <2>1. PICK s \in Paging : Calls(s, 0)
    BY <1>4
  <2>2. Asked(s, 0)
    BY DEF Asked, Paging
  <2> QED BY <2>1, <2>2, ServedCalls
<1>5. UsesTerminal => (\E s \in {"WHEX", "RHEX", "WRITE", "READ"}, i \in 0 .. SP - 1 : Calls(s, <<"register", i>>))
                      \/ \E s \in {"MESG", "DEBUG"}, t \in Texts : Calls(s, t)
  BY DEF UsesTerminal
<1>6. UsesStack => \E s, e : s \in Stackers /\ Calls(s, e)
  BY DEF UsesStack, Stackers
<1>7. Pages => \E s \in Paging : Calls(s, 0)
  BY DEF Pages
<1> QED BY <1>1, <1>2, <1>3, <1>4, <1>5, <1>6, <1>7

\* The program works, or the prompt starts one.
LEMMA ServedAlone ==
    ASSUME ServiceInv', ServedInv, ctx' = "program", asked' = Quiet, out' = <<>>, keys' = <<>>, UNCHANGED ram
    PROVE  ServedInv'
<1>1. PICK u : u = Tasks(ws', ctx', pc', st')
  OBVIOUS
<1>2. DOMAIN u = {"program"}
  <2>1. PICK p2 : p2 = pc'
    OBVIOUS
  <2>2. PICK m2 : m2 = st'
    OBVIOUS
  <2> QED BY <1>1, <2>1, <2>2, ProgramAlone
<1>3. PICK r, k, b, a : r = reg' /\ k = stk' /\ b = ram' /\ a = asked'
  OBVIOUS
<1>4. Known(a) /\ a.svc = "none"
  BY <1>3 DEF Known, Quiet
<1>5. Tasked(u, r, k, b, <<>>, <<>>, a)
  BY <1>2, <1>4, Idle
<1>6. b \in [0 .. WPSTORE -> Word]
  BY <1>3 DEF ServedInv
<1>7. ctx' # "monitor"
  OBVIOUS
<1> QED BY <1>1, <1>3, <1>4, <1>5, <1>6, <1>7, ServedSoFar

\* The program works.
LEMMA ServedWorks == ASSUME ServiceInv', ServedInv, Works PROVE ServedInv'
<1>1. ctx' = "program" /\ asked' = Quiet /\ out' = <<>> /\ keys' = <<>> /\ UNCHANGED ram
  BY DEF Works, Does
<1> QED BY <1>1, ServedAlone

\* The prompt starts it.
LEMMA ServedGo == ASSUME ServiceInv', ServedInv, NEW p, Go(p) PROVE ServedInv'
<1>1. ctx' = "program" /\ asked' = Quiet /\ out' = <<>> /\ keys' = <<>> /\ UNCHANGED ram
  BY DEF Go
<1> QED BY <1>1, ServedAlone

\* It crashes.
LEMMA CrashStarts ==
    ASSUME NEW u, NEW f, NEW q, NEW r, NEW k, NEW b, NEW a, DOMAIN u = {"program", "INT2"}, u["INT2"].own = f,
           u["INT2"].at.n = 1, u["program"].at = q, f.r13 = "program", f.r14 = q, f.r8 = TopDigit(q.n), q.n \in Word,
           a.svc = "INT2", a.at = q
    PROVE  Tasked(u, r, k, b, <<>>, <<>>, a)
<1>1. Serves(u, a.svc) /\ Linked(u, r, k, b, a) /\ Working(u)
  BY DEF Serves, Helpers, Linked, Working
<1>2. Returning(u, a)
  BY DEF Returning, Terminal, Paging
<1>3. <<>> \o Due(u, r, k, b) = <<>>
  <2>1. Due(u, r, k, b) = <<>>
    BY DEF Due, CharDue
  <2> QED BY <2>1
<1>4. PICK w \in Word : w = q.n
  OBVIOUS
<1>5. PICK z \in Word : z = TopDigit(w)
  BY TopWord
<1>6. PICK s1 \in Seq(Nat) : s1 = Four(w) /\ Len(s1) = 4
  BY TurnedDigits, DigitNat
<1>7. PICK s2 \in Seq(Nat) : s2 = Four(z) /\ Len(s2) = 4
  BY TurnedDigits, DigitNat
<1>8. First(0, s1 \o s2) = <<>>
  BY <1>6, <1>7, TwoWords
<1>9. First(0, CrashText(a)) = <<>>
  BY <1>4, <1>5, <1>6, <1>7, <1>8 DEF CrashText
<1>10. 4 * (1 - 1) = 0
  OBVIOUS
<1>11. ReportTrue(<<>>, u, a)
  BY <1>9, <1>10 DEF ReportTrue
<1>12. Prints(<<>>, u, r, k, b, <<>>, a)
  BY <1>11 DEF Prints, Paging
<1> QED BY <1>1, <1>2, <1>3, <1>12 DEF Tasked

\* ... and the handler of the crash has all to tell.
LEMMA ServedCrash == ASSUME ServiceInv, ServedInv, Crash PROVE ServedInv'
<1>1. /\ ctx = "program" /\ ws' = Joined("INT2", [Link(0, pc) EXCEPT !.r8 = TopDigit(pc.n)], ws) /\ ctx' = "INT2"
      /\ pc' = [at |-> "list", n |-> 1] /\ asked' = [svc |-> "INT2", at |-> pc] /\ out' = <<>> /\ keys' = <<>> /\ UNCHANGED <<ram, reg, stk>>
  BY DEF Crash, Does
<1>2. PICK f : f = [Link(0, pc) EXCEPT !.r8 = TopDigit(pc.n)]
  OBVIOUS
<1>3. PICK q : q = pc
  OBVIOUS
<1>4. PICK m : m = st
  OBVIOUS
<1>5. f.r8 = TopDigit(q.n) /\ f.r13 = "program" /\ f.r14 = q /\ f.r15 = st
  BY <1>1, <1>2, <1>3 DEF Link, Fresh
<1>6. q.n \in Word
  BY <1>1, <1>3 DEF ServiceInv, Onward
<1>7. PICK u : u = Tasks(ws', ctx', pc', st')
  OBVIOUS
<1>8. PICK p2 : p2 = pc'
  OBVIOUS
<1>9. PICK m2 : m2 = st'
  OBVIOUS
<1>10. "INT2" \in Services \ Handlers
  BY DEF Services, Handlers
<1>11. DOMAIN u = {"program", "INT2"} /\ u["INT2"].own = f /\ u["INT2"].at = p2 /\ u["program"].at = q
  <2>1. ctx = "program" /\ ctx' = "INT2"
    BY <1>1
  <2>2. ws' = Joined("INT2", f, ws)
    BY <1>1, <1>2
  <2> QED BY <1>4, <1>5, <1>7, <1>8, <1>9, <1>10, <2>1, <2>2, CallStarts
<1>12. p2.n = 1
  BY <1>1, <1>8
<1>13. PICK r, k, b, a : r = reg' /\ k = stk' /\ b = ram' /\ a = asked'
  OBVIOUS
<1>14. a.svc = "INT2" /\ a.at = q
  BY <1>1, <1>3, <1>13
<1>15. Tasked(u, r, k, b, <<>>, <<>>, a)
  BY <1>5, <1>6, <1>11, <1>12, <1>14, CrashStarts
<1>16. Known(a)
  BY <1>6, <1>14 DEF Known
<1>17. b \in [0 .. WPSTORE -> Word] /\ ctx' # "monitor" /\ out' = <<>> /\ keys' = <<>>
  BY <1>1, <1>13 DEF ServedInv
<1> QED BY <1>7, <1>13, <1>15, <1>16, <1>17, ServedSoFar

\* It ends, or the crash has been told.
LEMMA ServedEnds ==
    ASSUME ServiceInv, ServedInv, ctx = "program" \/ Reported, ctx' = "monitor", UNCHANGED <<ram, out, asked, keys>>
    PROVE  ServedInv'
<1>1. PICK u : u = MyTasks
  OBVIOUS
<1>2. PICK r, k, b, o, y, a : r = reg /\ k = stk /\ b = ram /\ o = out /\ y = keys /\ a = asked
  OBVIOUS
<1>3. ctx # "monitor"
  BY DEF Reported
<1>4. Sound(r, k, b, o, y, a) /\ Tasked(u, r, k, b, o, y, a)
      /\ \A x \in DOMAIN u : x = "program" \/ (x \in DOMAIN ws \ Handlers /\ u[x].own = ws[x])
  BY <1>1, <1>2, <1>3, Here
<1>5. ASSUME a.svc = "INT2" PROVE o = CrashText(a)
  <2>1. CASE ctx = "program"
    <3>1. PICK w : w = ws
      OBVIOUS
    <3>2. Nested(w, "program")
      BY <2>1, <3>1 DEF ServiceInv, Held
    <3>3. u = Tasks(w, "program", pc, st)
      BY <1>1, <2>1, <3>1 DEF MyTasks
    <3>4. DOMAIN u = {"program"}
      BY <3>2, <3>3, OnlyProgram
    <3>5. ReportTrue(o \o Due(u, r, k, b), u, a)
      BY <1>4, <1>5 DEF Tasked, Prints
    <3> QED BY <3>4, <3>5 DEF ReportTrue
  <2>2. CASE Reported
    <3>1. ctx = "INT2" /\ ctx \in DOMAIN ws /\ ctx \in DOMAIN ws \ Handlers /\ pc.n > 2
      BY <2>2, Running DEF Reported, Report, Handlers
    <3>2. "INT2" \in DOMAIN u /\ u["INT2"].at = pc
      BY <1>1, <1>3, <3>1, Here
    <3>3. u["INT2"].at.n > 2
      BY <3>1, <3>2
    <3>4. DOMAIN u \cap {"MESG", "WHEX", "WRITE"} = {}
      <4>1. ~(Rank("WRITE") < Rank("INT2")) /\ ~(Rank("MESG") < Rank("INT2")) /\ ~(Rank("WHEX") < Rank("INT2"))
        BY DEF Rank
      <4>2. "WRITE" \notin DOMAIN u /\ "MESG" \notin DOMAIN u /\ "WHEX" \notin DOMAIN u
        BY <1>4, <3>1, <4>1, OnTop
      <4> QED BY <4>2
    <3> QED BY <1>4, <3>2, <3>3, <3>4, ReportDone
  <2> QED BY <2>1, <2>2
<1>6. ram' \in [0 .. WPSTORE -> Word] /\ out' \in Seq(Nat) /\ keys' \in Seq(Nat) /\ Known(asked')
  BY DEF ServedInv
<1>7. asked'.svc = "INT2" => out' = CrashText(asked')
  BY <1>2, <1>5
<1> QED BY <1>6, <1>7 DEF ServedInv

\* The console sees none of it.
LEMMA ServedSame ==
    ASSUME ServedInv, UNCHANGED machine PROVE ServedInv'
BY DEF ServedInv, MyTasks, machine

\* The command WP writes one word that no service looks at.
LEMMA ServedWP ==
    ASSUME ConsoleInv, ServedInv, WP PROVE ServedInv'
<1>1. ctx = "monitor" /\ ctx' = ctx /\ UNCHANGED <<out, asked, keys>>
      /\ (ram' = IF given THEN [ram EXCEPT ![WPSTORE] = hex] ELSE ram)
  BY DEF WP
<1>2. hex \in Word
  BY DEF ConsoleInv
<1>3. ram' \in [0 .. WPSTORE -> Word]
  BY <1>1, <1>2 DEF ServedInv
<1> QED BY <1>1, <1>3 DEF ServedInv
-----------------------------------------------------------------------------
\* What has been printed when the program goes on.

\* The four characters from p on.
LEMMA SliceIs ==
    ASSUME NEW h \in Seq(Nat), NEW p \in Nat, NEW q \in Nat, NEW m, m = Len(h), p > 0, q <= m, q - p = 3, NEW g, g = SubSeq(h, p, q)
    PROVE  g \in Seq(Nat) /\ Len(g) = 4 /\ \A i \in 1 .. 4 : g[i] = h[p + i - 1]
<1>1. m \in Nat /\ h \in [1 .. m -> Nat]
  BY LenProperties
<1>2. p \in Int /\ q \in Int /\ \A i \in p .. q : h[i] \in Nat
  <2>1. \A i \in p .. q : i \in 1 .. m
    BY <1>1
  <2> QED BY <1>1, <2>1
<1>3. g \in Seq(Nat) /\ Len(g) = (IF p <= q THEN q - p + 1 ELSE 0) /\ \A i \in 1 .. q - p + 1 : g[i] = h[p + i - 1]
  BY <1>2, SubSeqProperties
<1>4. p <= q /\ q - p + 1 = 4
  OBVIOUS
<1> QED BY <1>3, <1>4

\* ... are a sequence when they are its elements.
LEMMA WindowIs ==
    ASSUME NEW h \in Seq(Nat), NEW p \in Nat, NEW q \in Nat, NEW m, m = Len(h), p > 0, q <= m, q - p = 3
    PROVE  \A f \in Seq(Nat) : Len(f) = 4 /\ (\A i \in 1 .. 4 : h[p + i - 1] = f[i]) => SubSeq(h, p, q) = f
<1>1. PICK g : g = SubSeq(h, p, q)
  OBVIOUS
<1>2. g \in Seq(Nat) /\ Len(g) = 4 /\ \A i \in 1 .. 4 : g[i] = h[p + i - 1]
  BY <1>1, SliceIs
<1>3. ASSUME NEW f \in Seq(Nat)
      PROVE  Len(f) = 4 /\ (\A i \in 1 .. 4 : h[p + i - 1] = f[i]) => g = f
  <2>1. Len(g) = Len(f) /\ (\A i \in 1 .. Len(g) : g[i] = f[i]) => g = f
    BY <1>2, SeqEqual
  <2> QED BY <1>2, <2>1
<1> QED BY <1>1, <1>3

\* Where the listing ends.
LEMMA ListingEnds ==
    ASSUME NEW o, NEW a, NEW n, n = SP + 5, Listed(o, n, a), NEW e \in Nat, e = Len(a.ea)
    PROVE  Len(o) = e + 4 * (SP + 3)
<1>1. SP \in Int /\ SP > 1
  BY Constants
<1>2. n # 1 /\ n - 2 = SP + 3
  BY <1>1
<1>3. ItemFrom(n, a) = e + 4 * (n - 2)
  BY <1>2 DEF ItemFrom
<1>4. Len(o) = ItemFrom(n, a)
  BY DEF Listed
<1> QED BY <1>2, <1>3, <1>4

\* Arithmetic of the places in a listing.
LEMMA FourPlaces ==
    ASSUME NEW x \in Nat, NEW p \in Nat, NEW q \in Nat
    PROVE  p = x + 1 /\ q = x + 4 => p > 0 /\ q - p = 3 /\ \A i \in 1 .. 4 : p + i - 1 = x + i
  OBVIOUS

\* ... an item begins where the one before it ends,
LEMMA ItemPlace ==
    ASSUME NEW e \in Nat, NEW j \in Nat, NEW s \in Nat
    PROVE  j > 1 /\ j <= s + 4 =>
           /\ e + 4 * (j - 2) \in Nat /\ e + 4 * (j - 2) + 4 <= e + 4 * (s + 3)
           /\ e + 4 * (j - 1) - 3 = e + 4 * (j - 2) + 1 /\ e + 4 * (j - 1) = e + 4 * (j - 2) + 4
  OBVIOUS

\* ... which of them an item is,
LEMMA ItemBefore ==
    ASSUME NEW j \in Nat, NEW s \in Nat, NEW n
    PROVE  n = s + 5 /\ j > 1 /\ j <= s + 4 /\ j # 5 => j \in (2 .. n - 1) \ {5}
  OBVIOUS

\* ... and the text comes first.
LEMMA ListingFits ==
    ASSUME NEW e \in Nat, NEW s \in Nat, NEW m
    PROVE  m = e + 4 * (s + 3) => e \in 0 .. m
  OBVIOUS

\* Where an item of the listing stands.
LEMMA ItemStarts ==
    ASSUME NEW a, NEW e \in Nat, e = Len(a.ea), NEW j \in Nat, NEW s \in Nat
    PROVE  j > 1 /\ j <= s + 4 =>
           /\ ItemFrom(j, a) \in Nat /\ ItemFrom(j, a) + 4 <= e + 4 * (s + 3)
           /\ e + 4 * (j - 1) - 3 = ItemFrom(j, a) + 1 /\ e + 4 * (j - 1) = ItemFrom(j, a) + 4
<1> HAVE j > 1 /\ j <= s + 4
<1>1. j # 1
  OBVIOUS
<1>2. ItemFrom(j, a) = e + 4 * (j - 2)
  BY <1>1 DEF ItemFrom
<1>3. /\ e + 4 * (j - 2) \in Nat /\ e + 4 * (j - 2) + 4 <= e + 4 * (s + 3)
      /\ e + 4 * (j - 1) - 3 = e + 4 * (j - 2) + 1 /\ e + 4 * (j - 1) = e + 4 * (j - 2) + 4
  BY ItemPlace
<1> QED BY <1>2, <1>3

\* What DEBUG has printed, item by item.
Items(o, a, e) ==
    /\ Len(o) = e + 4 * (SP + 3)
    /\ SubSeq(o, 1, e) = a.ea
    /\ SubSeq(o, e + 4 * 1 - 3, e + 4 * 1) = Four(a.top)
    /\ SubSeq(o, e + 4 * 2 - 3, e + 4 * 2) = Four(a.at.n)
    /\ \A i \in (0 .. SP) \ {1} : SubSeq(o, e + 4 * (i + 3) - 3, e + 4 * (i + 3)) = Four(a.reg[i])

\* All of it has been printed.
LEMMA ListingShown ==
    ASSUME NEW r, NEW k, NEW b, NEW o, NEW y, NEW a, Sound(r, k, b, o, y, a), a.svc = "DEBUG", NEW n, Listed(o, n, a),
           NEW e \in Nat, e = Len(a.ea)
    PROVE  n = SP + 5 => Items(o, a, e)
<1>1. a.ea \in Seq(Nat) /\ a.reg \in [0 .. SP -> Word] /\ a.top \in Word /\ a.at.n \in Word /\ e \in Nat
  BY DebugKnown
<1>2. o \in Seq(Nat)
  BY DEF Sound
<1>3. SP \in Nat /\ SP > 1
  BY Constants
<1>4. PICK m : m = Len(o)
  OBVIOUS
<1>5. ASSUME NEW j \in Nat, NEW v \in Word, v = Shown(j, a)
      PROVE  n = SP + 5 /\ m = e + 4 * (SP + 3) /\ j > 1 /\ j <= SP + 4 /\ j # 5 =>
             SubSeq(o, e + 4 * (j - 1) - 3, e + 4 * (j - 1)) = Four(v)
  <2>1. SP \in Nat
    BY Constants
  <2>2. PICK x : x = ItemFrom(j, a)
    OBVIOUS
  <2>3. PICK f \in Seq(Nat) : f = Four(v) /\ Len(f) = 4
    BY TurnedDigits, DigitNat
  <2>4. j \in (2 .. n - 1) \ {5} => \A i \in 1 .. 4 : o[x + i] = f[i]
    <3>1. \A jj \in (2 .. n - 1) \ {5}, i \in 1 .. 4 : o[ItemFrom(jj, a) + i] = Four(Shown(jj, a))[i]
      BY DEF Listed
    <3>2. j \in (2 .. n - 1) \ {5} => \A i \in 1 .. 4 : o[ItemFrom(j, a) + i] = Four(Shown(j, a))[i]
      BY <3>1
    <3> QED BY <1>5, <2>2, <2>3, <3>2
  <2>5. ASSUME NEW p \in Nat, NEW q \in Nat, p > 0, q <= m, q - p = 3
        PROVE  (\A i \in 1 .. 4 : o[p + i - 1] = f[i]) => SubSeq(o, p, q) = f
    <3>1. \A g \in Seq(Nat) : Len(g) = 4 /\ (\A i \in 1 .. 4 : o[p + i - 1] = g[i]) => SubSeq(o, p, q) = g
      BY <1>2, <1>4, <2>5, WindowIs
    <3> QED BY <2>3, <3>1
  <2> HAVE n = SP + 5 /\ m = e + 4 * (SP + 3) /\ j > 1 /\ j <= SP + 4 /\ j # 5
  <2>6. x \in Nat /\ x + 4 <= m /\ e + 4 * (j - 1) - 3 = x + 1 /\ e + 4 * (j - 1) = x + 4
    BY <2>1, <2>2, ItemStarts
  <2>7. PICK p \in Nat : p = x + 1
    BY <2>6
  <2>8. PICK q \in Nat : q = x + 4
    BY <2>6
  <2>9. \A i \in 1 .. 4 : o[x + i] = f[i]
    BY <2>1, <2>4, ItemBefore
  <2>10. SubSeq(o, p, q) = f
    <3>1. PICK z \in Nat : z = x
      BY <2>6
    <3>2. p = z + 1 /\ q = z + 4
      BY <2>7, <2>8, <3>1
    <3>3. p > 0 /\ q - p = 3 /\ \A i \in 1 .. 4 : p + i - 1 = z + i
      BY <3>2, FourPlaces
    <3>4. \A i \in 1 .. 4 : o[p + i - 1] = f[i]
      BY <2>9, <3>1, <3>3
    <3>5. q <= m
      BY <2>6, <2>8
    <3> QED BY <2>5, <3>3, <3>4, <3>5
  <2> QED BY <2>3, <2>6, <2>7, <2>8, <2>10
<1> HAVE n = SP + 5
<1>6. m = e + 4 * (SP + 3)
  BY <1>1, <1>4, ListingEnds
<1>7. SubSeq(o, 1, e) = a.ea
  <2>2. e \in 0 .. m
    BY <1>1, <1>3, <1>6, ListingFits
  <2>3. PICK g : g = SubSeq(o, 1, e)
    OBVIOUS
  <2>4. g \in Seq(Nat) /\ Len(g) = e /\ \A i \in 1 .. e : g[i] = o[i]
    BY <1>2, <1>4, <2>2, <2>3, PrefixIs
  <2>5. \A i \in 1 .. e : o[i] = a.ea[i]
    <3>1. n > 1
      BY <1>3
    <3> QED BY <3>1 DEF Listed
  <2>6. PICK h \in Seq(Nat) : h = a.ea
    BY <1>1
  <2>7. Len(g) = Len(h) /\ \A i \in 1 .. Len(g) : g[i] = h[i]
    BY <2>4, <2>5, <2>6
  <2>8. g = h
    BY <2>4, <2>6, <2>7, SeqEqual
  <2> QED BY <2>3, <2>6, <2>8
<1>8. SubSeq(o, e + 4 * 1 - 3, e + 4 * 1) = Four(a.top)
  <2>1. PICK j : j = 2
    OBVIOUS
  <2>2. PICK v \in Word : v = a.top
    BY <1>1
  <2>3. v = Shown(j, a) /\ j \in Nat
    BY <2>1, <2>2 DEF Shown
  <2>4. j > 1 /\ j <= SP + 4 /\ j # 5 /\ j - 1 = 1
    BY <1>3, <2>1
  <2>5. SubSeq(o, e + 4 * (j - 1) - 3, e + 4 * (j - 1)) = Four(v)
    BY <1>5, <1>6, <2>3, <2>4
  <2> QED BY <2>2, <2>4, <2>5
<1>9. SubSeq(o, e + 4 * 2 - 3, e + 4 * 2) = Four(a.at.n)
  <2>1. PICK j : j = 3
    OBVIOUS
  <2>2. PICK v \in Word : v = a.at.n
    BY <1>1
  <2>3. v = Shown(j, a) /\ j \in Nat
    BY <2>1, <2>2 DEF Shown
  <2>4. j > 1 /\ j <= SP + 4 /\ j # 5 /\ j - 1 = 2
    BY <1>3, <2>1
  <2>5. SubSeq(o, e + 4 * (j - 1) - 3, e + 4 * (j - 1)) = Four(v)
    BY <1>5, <1>6, <2>3, <2>4
  <2> QED BY <2>2, <2>4, <2>5
<1>10. ASSUME NEW i \in (0 .. SP) \ {1}
      PROVE  SubSeq(o, e + 4 * (i + 3) - 3, e + 4 * (i + 3)) = Four(a.reg[i])
  <2>1. PICK j : j = i + 4
    OBVIOUS
  <2>2. PICK v \in Word : v = a.reg[i]
    BY <1>1
  <2>3. j \in Nat /\ j > 1 /\ j <= SP + 4 /\ j # 5 /\ j # 2 /\ j # 3 /\ j - 4 = i /\ j - 1 = i + 3
    BY <1>3, <2>1
  <2>4. v = Shown(j, a)
    BY <2>2, <2>3 DEF Shown
  <2>5. SubSeq(o, e + 4 * (j - 1) - 3, e + 4 * (j - 1)) = Four(v)
    BY <1>5, <1>6, <2>3, <2>4
  <2> QED BY <2>2, <2>3, <2>5
<1> QED BY <1>4, <1>6, <1>7, <1>8, <1>9, <1>10 DEF Items

\* With nothing in progress nothing is left to print.
LEMMA NothingDue ==
    ASSUME NEW u, NEW r, NEW k, NEW b, NEW o, NEW y, NEW a, Sound(r, k, b, o, y, a), Tasked(u, r, k, b, o, y, a), DOMAIN u = {"program"}
    PROVE  Prints(o, u, r, k, b, y, a)
<1>1. Due(u, r, k, b) = <<>>
  BY DEF Due, CharDue
<1>2. o \in Seq(Nat)
  BY DEF Sound
<1>3. o \o <<>> = o
  BY <1>2, ConcatEmptySeq
<1>4. PICK t : t = o \o Due(u, r, k, b)
  OBVIOUS
<1>5. t = o
  BY <1>1, <1>3, <1>4
<1>6. Prints(t, u, r, k, b, y, a)
  BY <1>4 DEF Tasked
<1> QED BY <1>5, <1>6

\* What the program finds when a service is done.
LEMMA WhatIsDone ==
    ASSUME NEW u, NEW r, NEW k, NEW b, NEW o, NEW y, NEW a, Prints(o, u, r, k, b, y, a), DOMAIN u = {"program"}
    PROVE  /\ a.svc \in {"WRITE", "WHEX", "MESG", "DEBUG"} \cup Paging => r = a.reg
           /\ a.svc = "WRITE" => o = <<Char(a.reg[a.ea[2]])>>
           /\ a.svc = "WHEX" => o = Four(a.reg[a.ea[2]])
           /\ a.svc = "MESG" => o = a.ea
           /\ a.svc = "READ" => o = <<>> /\ Len(y) = 1 /\ r = Set(a, High(y[1]))
           /\ a.svc = "RHEX" => o = y /\ Last(y) \notin Digit /\ r = Set(a, Number(Front(y)))
           /\ a.svc = "DEBUG" => Listed(o, SP + 5, a)
<1>1. "READ" \notin DOMAIN u /\ "RHEX" \notin DOMAIN u /\ "DEBUG" \notin DOMAIN u
  OBVIOUS
<1>2. a.svc \in {"WRITE", "WHEX", "MESG", "DEBUG"} \cup Paging => r = a.reg
  BY DEF Prints
<1>3. a.svc = "WRITE" => o = <<Char(a.reg[a.ea[2]])>>
  BY DEF Prints
<1>4. a.svc = "WHEX" => o = Four(a.reg[a.ea[2]])
  BY DEF Prints
<1>5. a.svc = "MESG" => o = a.ea
  BY DEF Prints
<1>6. a.svc = "READ" => o = <<>> /\ Len(y) = 1 /\ r = Set(a, High(y[1]))
  BY <1>1 DEF Prints, ReadTrue
<1>7. a.svc = "RHEX" => o = y /\ Last(y) \notin Digit /\ r = Set(a, Number(Front(y)))
  BY <1>1 DEF Prints, NumberTrue
<1>8. a.svc = "DEBUG" => Listed(o, SP + 5, a)
  BY <1>1 DEF Prints, ListTrue
<1> QED BY <1>2, <1>3, <1>4, <1>5, <1>6, <1>7, <1>8

\* What DEBUG has printed is its listing.
LEMMA ListingDone ==
    ASSUME ServiceInv, ServedInv, asked.svc = "DEBUG", Listed(out, SP + 5, asked)
    PROVE  ListingTrue
<1>1. PICK r, k, b, o, y, a : r = reg /\ k = stk /\ b = ram /\ o = out /\ y = keys /\ a = asked
  OBVIOUS
<1>2. Sound(r, k, b, o, y, a)
  BY <1>1, Constants DEF Sound, ServedInv, ServiceInv, Registers
<1>3. PICK n : n = SP + 5
  OBVIOUS
<1>4. a.svc = "DEBUG" /\ Listed(o, n, a)
  BY <1>1, <1>3
<1>5. PICK e \in Nat : e = Len(a.ea)
  BY <1>2, <1>4, DebugKnown
<1>6. Items(o, a, e)
  BY <1>2, <1>3, <1>4, <1>5, ListingShown
<1>7. Items(out, asked, Len(asked.ea))
  BY <1>1, <1>5, <1>6
<1> QED BY <1>7, Zenon DEF ListingTrue, Items

\* What has come true when the program goes on.
LEMMA DoneTrue ==
    ASSUME ServiceInv, ServedInv, ctx = "program"
    PROVE  /\ asked.svc \in Terminal => Promised /\ pc = asked.at /\ st = asked.st
           /\ asked.svc \in Paging =>
                Kept /\ pc = asked.at /\ st = [asked.st EXCEPT !.psel = (asked.svc = "PSEL_EN")]
<1>1. PICK u : u = MyTasks
  OBVIOUS
<1>2. PICK r, k, b, o, y, a : r = reg /\ k = stk /\ b = ram /\ o = out /\ y = keys /\ a = asked
  OBVIOUS
<1>3. PICK p : p = pc
  OBVIOUS
<1>4. PICK m : m = st
  OBVIOUS
<1>5. Sound(r, k, b, o, y, a) /\ Tasked(u, r, k, b, o, y, a)
  BY <1>1, <1>2, Here
<1>6. DOMAIN u = {"program"} /\ u["program"].at = p /\ u["program"].st = m
  <2>1. PICK w : w = ws
    OBVIOUS
  <2>2. Nested(w, "program")
    BY <2>1 DEF ServiceInv, Held
  <2>3. u = Tasks(w, "program", p, m)
    BY <1>1, <1>3, <1>4, <2>1 DEF MyTasks
  <2>4. PICK f : f = Fresh
    OBVIOUS
  <2>5. DOMAIN u = {"program"} /\ u["program"] = Task(f, p, m)
    BY <2>2, <2>3, <2>4, OnlyProgram
  <2> QED BY <2>5, TaskParts
<1>7. Prints(o, u, r, k, b, y, a)
  BY <1>5, <1>6, NothingDue
<1>8. /\ a.svc \in Terminal \cup Paging => p = a.at
      /\ a.svc \in Terminal => m = a.st
      /\ a.svc \in Paging => m = [a.st EXCEPT !.psel = (a.svc = "PSEL_EN")]
  <2>1. a.svc \in Paging => a.svc \notin DOMAIN u
    BY <1>6 DEF Paging
  <2> QED BY <1>5, <1>6, <2>1 DEF Tasked, Returning
<1>9. /\ a.svc \in {"WRITE", "WHEX", "MESG", "DEBUG"} \cup Paging => r = a.reg
      /\ a.svc = "WRITE" => o = <<Char(a.reg[a.ea[2]])>>
      /\ a.svc = "WHEX" => o = Four(a.reg[a.ea[2]])
      /\ a.svc = "MESG" => o = a.ea
      /\ a.svc = "READ" => o = <<>> /\ Len(y) = 1 /\ r = Set(a, High(y[1]))
      /\ a.svc = "RHEX" => o = y /\ Last(y) \notin Digit /\ r = Set(a, Number(Front(y)))
      /\ a.svc = "DEBUG" => Listed(o, SP + 5, a)
  BY <1>6, <1>7, WhatIsDone
<1>10. asked.svc \in Terminal => Promised
  <2>1. CASE asked.svc = "WRITE"
    BY <1>2, <1>9, <2>1 DEF Promised, Kept, Value
  <2>2. CASE asked.svc = "WHEX"
    BY <1>2, <1>9, <2>2 DEF Promised, Kept, Value
  <2>3. CASE asked.svc = "READ"
    BY <1>2, <1>9, <2>3 DEF Promised, Stored, Set
  <2>4. CASE asked.svc = "RHEX"
    BY <1>2, <1>9, <2>4 DEF Promised, Stored, Set
  <2>5. CASE asked.svc = "MESG"
    BY <1>2, <1>9, <2>5 DEF Promised, Kept
  <2>6. CASE asked.svc = "DEBUG"
    <3>1. ListingTrue
      BY <1>2, <1>9, <2>6, ListingDone
    <3>2. Kept
      BY <1>2, <1>9, <2>6 DEF Kept
    <3> QED BY <2>6, <3>1, <3>2 DEF Promised
  <2> QED BY <2>1, <2>2, <2>3, <2>4, <2>5, <2>6 DEF Terminal
<1>11. asked.svc \in Paging => Kept
  BY <1>2, <1>9 DEF Kept
<1> QED BY <1>2, <1>3, <1>4, <1>8, <1>10, <1>11

\* So the services do what they are for.
LEMMA ServedTrue == ASSUME ServiceInv, ServedInv PROVE ServicesTrue
<1>1. ctx = "monitor" /\ asked.svc = "INT2" => out = Four(asked.at.n) \o Four(asked.at.n \div (Base * Byte))
  BY DEF ServedInv, CrashText, TopDigit
<1> QED BY <1>1, DoneTrue DEF ServicesTrue

-----------------------------------------------------------------------------
\* The steps of the services and of the program.
LEMMA ServedServe == ASSUME ServiceInv, ServiceInv', ServedInv, Serve PROVE ServedInv'
<1>1. CASE XOP12 \/ XOP13 \/ XOP14 \/ XOP10 \/ XOP11 \/ XOP15
  BY <1>1, ServedXOP12, ServedXOP13, ServedXOP14, ServedXOP10, ServedXOP11, ServedXOP15
<1>2. CASE XOP4 \/ XOP5 \/ XOP6 \/ XOP7 \/ XOP8 \/ XOP9 \/ XOP0_1
  BY <1>2, ServedStackers, ServedXOP0_1
<1>3. CASE TimerInterrupt
  <2>1. PICK n : n = 4
    OBVIOUS
  <2>2. PICK h : h = "INTTIMER"
    OBVIOUS
  <2>3. Interrupt(n, h)
    BY <1>3, <2>1, <2>2 DEF TimerInterrupt
  <2> QED BY <2>1, <2>2, <2>3, ServedInterrupt
<1>4. CASE DriveInterrupt
  <2>1. PICK n \in Levels \ {4} : Interrupt(n, IF n = 5 THEN "IDE_IRQ" ELSE "IDE_DMARQ")
    BY <1>4 DEF DriveInterrupt
  <2>2. n \in 4 .. 6 /\ n # 4
    BY <2>1, Constants
  <2>3. PICK h : h = IF n = 5 THEN "IDE_IRQ" ELSE "IDE_DMARQ"
    OBVIOUS
  <2>4. Interrupt(n, h)
    BY <2>1, <2>3
  <2> QED BY <2>2, <2>3, <2>4, ServedInterrupt
<1>5. CASE INTTIMER \/ IDE_IRQ \/ INT2_HANDLER
  BY <1>5, ServedINTTIMER, ServedIDE_IRQ, ServedINT2
<1>6. CASE UsesTerminal \/ UsesStack \/ Pages \/ Works \/ Crash
  BY <1>6, ServedUses, ServedWorks, ServedCrash
<1> QED BY <1>1, <1>2, <1>3, <1>4, <1>5, <1>6 DEF Serve

\* ... and every other.
LEMMA ServedNext == ASSUME ConsoleInv, ConsoleInv', ServedInv, Next PROVE ServedInv'
<1>1. ServiceInv /\ ServiceInv'
  BY DEF ConsoleInv
<1>2. CASE Serve
  BY <1>1, <1>2, ServedServe
<1>3. CASE HexDigit \/ Show \/ OUTPUT \/ More \/ OPEN \/ Entry \/ HEXLOAD \/ FindColon \/ HL_14
  <2>1. UNCHANGED machine
    BY <1>3 DEF HexDigit, Show, OUTPUT, More, OPEN, Entry, HEXLOAD, FindColon, HL_14, Instruction, Reads
  <2> QED BY <2>1, ServedSame
<1>4. CASE Length \/ Page \/ AddressHigh \/ AddressLow \/ Type \/ Data \/ Check
  <2>1. UNCHANGED machine
    BY <1>4 DEF Length, Page, AddressHigh, AddressLow, Type, Data, Check, ReadsByte
  <2> QED BY <2>1, ServedSame
<1>5. CASE WP
  BY <1>5, ServedWP
<1>6. CASE GO
  <2>1. Go(hex) \/ UNCHANGED machine
    BY <1>6 DEF GO
  <2>2. CASE Go(hex)
    <3>1. PICK p : p = hex
      OBVIOUS
    <3>2. Go(p)
      BY <2>2, <3>1
    <3> QED BY <1>1, <3>2, ServedGo
  <2> QED BY <2>1, <2>2, ServedSame
<1>7. CASE Ends
  BY <1>1, <1>7, ServedEnds DEF Ends, ToBanner
<1>8. CASE (\E c \in Typed : Key(c)) \/ (\E f \in Files : Send(f))
  <2>1. UNCHANGED machine
    BY <1>8 DEF Key, Send
  <2> QED BY <2>1, ServedSame
<1> QED BY <1>2, <1>3, <1>4, <1>5, <1>6, <1>7, <1>8 DEF Next

\* After a reset nothing has been asked.
LEMMA ServedInit == ASSUME MonitorInit PROVE ServedInv
<1>1. /\ ctx = "monitor" /\ asked = Quiet /\ out = <<>> /\ keys = <<>>
      /\ ram = [i \in 0 .. WPSTORE |-> IF i = TIMEOUT THEN 1 ELSE 0]
  BY DEF MonitorInit, Init
<1>2. 0 \in Word /\ 1 \in Word
  BY Constants DEF Word
<1>3. ram \in [0 .. WPSTORE -> Word]
  BY <1>1, <1>2
<1>4. out \in Seq(Nat) /\ keys \in Seq(Nat)
  BY <1>1
<1>5. Known(asked) /\ asked.svc = "none"
  BY <1>1 DEF Known, Quiet
<1> QED BY <1>1, <1>3, <1>4, <1>5 DEF ServedInv

\* When the program goes on after a terminal service, the service has done what
\* it is for and nothing else: WRITE, WHEX and MESG have shown that character,
\* word or text, READ and RHEX have stored what was typed, and shown it as they
\* do, DEBUG has listed the registers as they were; the other registers, the
\* place and the status are the caller's.  A page service changes /PSEL and
\* nothing else, and a crash is reported where it happened.  The services may
\* nest in any way, and any interrupt may come between any two of their steps.
THEOREM ServicesDoTheirWork == Spec => []ServicesTrue
<1>1. MonitorInit => ServedInv
  BY ServedInit
<1>2. ConsoleInv /\ ConsoleInv' /\ ServedInv /\ [Next]_vars => ServedInv'
  <2>1. ASSUME ServedInv, UNCHANGED vars PROVE ServedInv'
    <3>1. UNCHANGED machine
      BY <2>1 DEF vars
    <3> QED BY <2>1, <3>1, ServedSame
  <2> QED BY <2>1, ServedNext
<1>3. ConsoleInv /\ ServedInv => ServicesTrue
  BY ServedTrue DEF ConsoleInv
<1> QED BY <1>1, <1>2, <1>3, ServicesKeep, PTL DEF Spec
=============================================================================
