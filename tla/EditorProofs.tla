----------------------------- MODULE EditorProofs ----------------------------
(***************************************************************************)
(* Theorems about Editor, for every keyboard, arena and screen.            *)
(*                                                                         *)
(* TypeCorrect and FrameIsFresh hold of every run.  The others need two    *)
(* hypotheses that the program does not always meet: that the editor is    *)
(* started on the right line count (~StaleEntry; eblines is only counted   *)
(* when a file is loaded), and that the text has no byte of 128 and more   *)
(* (NoHighByte; edbksp reads ebdel's answer as a signed char).  Under them *)
(* the invariant is EInv: the counter of lines is the number of lines, and *)
(* the cursor's line and column name a position in the text.  ViewInv adds *)
(* that the viewport starts where the cursor's column is on the screen.    *)
(*                                                                         *)
(* The lemmas go from the text to the keys: how many ends of line there    *)
(* are up to a position (Upto), where a line starts and ends (Starts,      *)
(* EndsAt, which ebseek and LineEnd find), what one character more or less *)
(* does to both (Longer), and then one lemma for each key.                 *)
(***************************************************************************)
EXTENDS Editor, FiniteSetTheorems, SequenceTheorems, WellFoundedInduction, TLAPS

-----------------------------------------------------------------------------
(* The least and the greatest.                                             *)

LEMMA MinOfTwo == \A a, b \in Int : Min({a, b}) = IF a <= b THEN a ELSE b
  BY DEF Min

LEMMA MaxOfTwo == \A a, b \in Int : Max({a, b}) = IF a >= b THEN a ELSE b
  BY DEF Max

\* A set of naturals that is not empty has a least element.
LEMMA MinOfNats ==
    ASSUME NEW S \in SUBSET Nat, S # {}
    PROVE  Min(S) \in S /\ \A i \in S : Min(S) <= i
<1>1. IsWellFoundedOn(OpToRel(<, Nat), Nat)
  BY NatLessThanWellFounded
<1>2. \E i \in S : \A j \in S : ~(<<j, i>> \in OpToRel(<, Nat))
  BY <1>1, WFMin
<1>3. \A i, j \in Nat : j < i => <<j, i>> \in OpToRel(<, Nat)
  BY Zenon DEF OpToRel
<1>4. \E i \in S : \A j \in S : ~(j < i)
  BY <1>2, <1>3, Zenon
<1>5. \E i \in S : \A j \in S : i <= j
  BY <1>4
<1> QED BY <1>5 DEF Min

-----------------------------------------------------------------------------
(* Lines and positions.                                                    *)

\* The ends of lines among the first i characters of t, and how many they are.
BreaksIn(t, i) == {j \in 1..i : t[j] = CR}

Upto(t, i) == Cardinality(BreaksIn(t, i))

\* Line n of t starts at s.
Starts(t, n, s) == s \in 0..Len(t) /\ Upto(t, s) = n - 1 /\ (s = 0 \/ t[s] = CR)

\* The line that position i is on ends at e.
EndsAt(t, i, e) ==
    /\ e \in i..Len(t)
    /\ \A j \in (i + 1)..e : t[j] # CR
    /\ e = Len(t) \/ t[e + 1] = CR

LEMMA UptoType ==
    ASSUME NEW t, NEW i \in Nat
    PROVE  IsFiniteSet(BreaksIn(t, i)) /\ Upto(t, i) \in Nat
<1>1. IsFiniteSet(1..i)
  BY FS_Interval
<1>2. BreaksIn(t, i) \in SUBSET (1..i)
  BY DEF BreaksIn
<1>3. IsFiniteSet(BreaksIn(t, i))
  BY <1>1, <1>2, FS_Subset
<1> QED BY <1>3, FS_CardinalityType DEF Upto

LEMMA UptoZero == ASSUME NEW t PROVE Upto(t, 0) = 0
<1>1. BreaksIn(t, 0) = {}
  BY DEF BreaksIn
<1> QED BY <1>1, FS_EmptySet DEF Upto

LEMMA UptoNext ==
    ASSUME NEW t, NEW i \in Nat
    PROVE  Upto(t, i + 1) = IF t[i + 1] = CR THEN Upto(t, i) + 1 ELSE Upto(t, i)
<1>1. IsFiniteSet(BreaksIn(t, i))
  BY UptoType
<1>2. CASE t[i + 1] = CR
  <2>1. BreaksIn(t, i + 1) = BreaksIn(t, i) \cup {i + 1}
    BY <1>2 DEF BreaksIn
  <2>2. i + 1 \notin BreaksIn(t, i)
    BY DEF BreaksIn
  <2> QED BY <1>1, <1>2, <2>1, <2>2, FS_AddElement DEF Upto
<1>3. CASE t[i + 1] # CR
  <2>1. BreaksIn(t, i + 1) = BreaksIn(t, i)
    BY <1>3 DEF BreaksIn
  <2> QED BY <1>3, <2>1 DEF Upto
<1> QED BY <1>2, <1>3

LEMMA UptoGrows ==
    ASSUME NEW t, NEW i \in Nat, NEW j \in Nat, i <= j
    PROVE  Upto(t, i) <= Upto(t, j)
<1>1. IsFiniteSet(BreaksIn(t, j))
  BY UptoType
<1>2. BreaksIn(t, i) \in SUBSET BreaksIn(t, j)
  BY DEF BreaksIn
<1> QED BY <1>1, <1>2, FS_Subset DEF Upto

\* Only the characters up to i count.
LEMMA UptoSame ==
    ASSUME NEW t, NEW u, NEW i \in Nat, \A j \in 1..i : t[j] = u[j]
    PROVE  Upto(t, i) = Upto(u, i)
<1>1. BreaksIn(t, i) = BreaksIn(u, i)
  BY DEF BreaksIn
<1> QED BY <1>1 DEF Upto

\* Characters that end no line do not count.
LEMMA UptoLevel ==
    ASSUME NEW t, NEW i \in Nat, NEW j \in Nat, i <= j,
           \A k \in (i + 1)..j : t[k] # CR
    PROVE  Upto(t, i) = Upto(t, j)
<1>1. BreaksIn(t, i) = BreaksIn(t, j)
  <2>1. \A k \in 1..j : k \in 1..i \/ k \in (i + 1)..j
    OBVIOUS
  <2> QED BY <2>1 DEF BreaksIn
<1> QED BY <1>1 DEF Upto

\* Breaks and ebseek in these words.
LEMMA BreaksIsUpto ==
    ASSUME NEW t \in Seq(Char) PROVE Breaks(t) = Upto(t, Len(t)) /\ Breaks(t) \in Nat
<1>1. Len(t) \in Nat /\ DOMAIN t = 1..Len(t)
  BY LenProperties
<1>2. Breaks(t) = Upto(t, Len(t))
  BY <1>1 DEF Breaks, Upto, BreaksIn
<1> QED BY <1>1, <1>2, UptoType

LEMMA BreaksOfPart ==
    ASSUME NEW t \in Seq(Char), NEW i \in 0..Len(t)
    PROVE  Breaks(SubSeq(t, 1, i)) = Upto(t, i)
<1>1. Len(t) \in Nat
  BY LenProperties
<1>2. i \in Nat /\ \A j \in 1..i : j \in 1..Len(t)
  BY <1>1
<1>3. \A j \in 1..i : t[j] \in Char
  BY <1>2, ElementOfSeq
<1>4. /\ SubSeq(t, 1, i) \in Seq(Char) /\ Len(SubSeq(t, 1, i)) = i
      /\ \A j \in 1..i : SubSeq(t, 1, i)[j] = t[j]
  <2>1. /\ SubSeq(t, 1, i) \in Seq(Char)
        /\ Len(SubSeq(t, 1, i)) = IF 1 <= i THEN i - 1 + 1 ELSE 0
        /\ \A j \in 1..(i - 1 + 1) : SubSeq(t, 1, i)[j] = t[1 + j - 1]
    BY <1>2, <1>3, SubSeqProperties
  <2> QED BY <1>2, <2>1
<1>5. Breaks(SubSeq(t, 1, i)) = Upto(SubSeq(t, 1, i), i)
  BY <1>4, BreaksIsUpto
<1> QED BY <1>2, <1>4, <1>5, UptoSame

LEMMA SeekType ==
    ASSUME NEW t \in Seq(Char), NEW n \in Int PROVE ebseek(t, n) \in 0..Len(t)
<1>1. Len(t) \in Nat
  BY LenProperties
<1> DEFINE S == {i \in 0..Len(t) : Breaks(SubSeq(t, 1, i)) >= n - 1} \cup {Len(t)}
<1>2. S \in SUBSET Nat /\ S # {} /\ S \subseteq 0..Len(t)
  BY <1>1
<1>3. Min(S) \in S
  BY <1>2, MinOfNats
<1> QED BY <1>2, <1>3 DEF ebseek

\* ebseek finds where line n starts, if there is a line n.
LEMMA SeekFinds ==
    ASSUME NEW t \in Seq(Char), NEW n \in 1..(Breaks(t) + 1)
    PROVE  Starts(t, n, ebseek(t, n))
<1>1. Len(t) \in Nat /\ Breaks(t) \in Nat /\ Upto(t, Len(t)) = Breaks(t)
  BY LenProperties, BreaksIsUpto
<1> DEFINE P == {i \in 0..Len(t) : Breaks(SubSeq(t, 1, i)) >= n - 1}
           s == ebseek(t, n)
<1>2. P = {i \in 0..Len(t) : Upto(t, i) >= n - 1}
  BY BreaksOfPart
<1>3. Len(t) \in P /\ P \cup {Len(t)} = P /\ P \in SUBSET Nat
  BY <1>1, <1>2
<1>4. s \in P /\ \A i \in P : s <= i
  BY <1>3, MinOfNats DEF ebseek
<1>5. s \in 0..Len(t) /\ s \in Nat /\ Upto(t, s) >= n - 1
  BY <1>1, <1>2, <1>4
<1>6. CASE s = 0
  <2>1. Upto(t, 0) = 0
    BY UptoZero
  <2>2. Upto(t, s) = n - 1
    BY <1>1, <1>5, <1>6, <2>1
  <2> QED BY <1>5, <1>6, <2>2 DEF Starts
<1>7. CASE s # 0
  <2>1. s - 1 \in Nat /\ s - 1 \in 0..Len(t) /\ s = (s - 1) + 1
    BY <1>1, <1>5, <1>7
  <2>2. s - 1 \notin P
    BY <1>4, <1>5
  <2>3. Upto(t, s - 1) \in Nat /\ Upto(t, s) \in Nat
    BY <1>5, <2>1, UptoType
  <2>4. Upto(t, s - 1) < n - 1
    BY <1>1, <1>2, <2>1, <2>2, <2>3
  <2>5. Upto(t, s) = IF t[s] = CR THEN Upto(t, s - 1) + 1 ELSE Upto(t, s - 1)
    BY <2>1, UptoNext
  <2>6. t[s] = CR /\ Upto(t, s) = n - 1
    BY <1>1, <1>5, <2>3, <2>4, <2>5
  <2> QED BY <1>5, <2>6 DEF Starts
<1> QED BY <1>6, <1>7

\* A line starts at one place.
LEMMA StartIsSeek ==
    ASSUME NEW t \in Seq(Char), NEW n \in Nat \ {0}, NEW s, Starts(t, n, s)
    PROVE  ebseek(t, n) = s /\ n \in 1..(Breaks(t) + 1)
<1>1. Len(t) \in Nat /\ s \in Nat /\ s <= Len(t) /\ Upto(t, s) = n - 1
  BY LenProperties DEF Starts
<1>2. Breaks(t) \in Nat /\ Upto(t, Len(t)) = Breaks(t)
  BY BreaksIsUpto
<1>3. n \in 1..(Breaks(t) + 1)
  <2>1. Upto(t, s) <= Upto(t, Len(t))
    BY <1>1, UptoGrows
  <2> QED BY <1>1, <1>2, <2>1
<1> DEFINE r == ebseek(t, n)
<1>4. Starts(t, n, r)
  BY <1>3, SeekFinds
<1>5. r \in Nat /\ r <= Len(t) /\ Upto(t, r) = n - 1
  BY <1>1, <1>4 DEF Starts
<1>6. ASSUME NEW a \in Nat, NEW b \in Nat, a < b, Upto(t, a) = n - 1, Upto(t, b) = n - 1,
             b = 0 \/ t[b] = CR
      PROVE  FALSE
  <2>1. b - 1 \in Nat /\ a <= b - 1 /\ b = (b - 1) + 1
    BY <1>6
  <2>2. Upto(t, a) <= Upto(t, b - 1)
    BY <2>1, UptoGrows
  <2>3. Upto(t, b) = Upto(t, b - 1) + 1
    BY <1>6, <2>1, UptoNext
  <2>4. Upto(t, b - 1) \in Nat
    BY <2>1, UptoType
  <2> QED BY <1>6, <2>2, <2>3, <2>4
<1>7. ~(r < s) /\ ~(s < r)
  BY <1>1, <1>4, <1>5, <1>6 DEF Starts
<1> QED BY <1>1, <1>3, <1>5, <1>7

LEMMA LineEndFinds ==
    ASSUME NEW t \in Seq(Char), NEW i \in 0..Len(t)
    PROVE  EndsAt(t, i, LineEnd(t, i))
<1>1. Len(t) \in Nat /\ i \in Nat
  BY LenProperties
<1> DEFINE S == {j \in i..Len(t) : j = Len(t) \/ t[j + 1] = CR}
           e == LineEnd(t, i)
<1>2. S \in SUBSET Nat /\ Len(t) \in S
  BY <1>1
<1>3. e \in S /\ \A j \in S : e <= j
  BY <1>2, MinOfNats DEF LineEnd
<1>4. ASSUME NEW j \in (i + 1)..e PROVE t[j] # CR
  <2>1. j - 1 \in i..Len(t) /\ j - 1 < e /\ (j - 1) + 1 = j
    BY <1>1, <1>3, <1>4
  <2>2. j - 1 \notin S
    BY <1>1, <1>3, <2>1
  <2> QED BY <2>1, <2>2
<1> QED BY <1>3, <1>4 DEF EndsAt

\* A line ends at one place.
LEMMA EndIsLineEnd ==
    ASSUME NEW t \in Seq(Char), NEW i \in 0..Len(t), NEW e, EndsAt(t, i, e)
    PROVE  LineEnd(t, i) = e
<1>1. Len(t) \in Nat /\ i \in Nat
  BY LenProperties
<1> DEFINE f == LineEnd(t, i)
<1>2. EndsAt(t, i, f)
  BY LineEndFinds
<1>3. e \in Nat /\ f \in Nat /\ e <= Len(t) /\ f <= Len(t) /\ i <= e /\ i <= f
  BY <1>1, <1>2 DEF EndsAt
<1>4. ~(e < f)
  <2> SUFFICES ASSUME e < f PROVE FALSE
    OBVIOUS
  <2>1. e + 1 \in (i + 1)..f /\ e # Len(t)
    BY <1>1, <1>3
  <2> QED BY <1>2, <2>1 DEF EndsAt
<1>5. ~(f < e)
  <2> SUFFICES ASSUME f < e PROVE FALSE
    OBVIOUS
  <2>1. f + 1 \in (i + 1)..e /\ f # Len(t)
    BY <1>1, <1>3
  <2> QED BY <1>2, <2>1 DEF EndsAt
<1> QED BY <1>3, <1>4, <1>5

\* Line n + 1 starts past the end of line n.
LEMMA NextLine ==
    ASSUME NEW t \in Seq(Char), NEW n \in 1..Breaks(t)
    PROVE  /\ ebseek(t, n + 1) = LineEnd(t, ebseek(t, n)) + 1
           /\ LineEnd(t, ebseek(t, n)) < Len(t)
<1>1. Len(t) \in Nat /\ Breaks(t) \in Nat /\ Upto(t, Len(t)) = Breaks(t)
  BY LenProperties, BreaksIsUpto
<1> DEFINE s == ebseek(t, n)
           e == LineEnd(t, s)
<1>2. Starts(t, n, s)
  BY <1>1, SeekFinds
<1>3. s \in 0..Len(t) /\ s \in Nat /\ Upto(t, s) = n - 1
  BY <1>1, <1>2 DEF Starts
<1>4. EndsAt(t, s, e)
  BY <1>3, LineEndFinds
<1>5. e \in Nat /\ e <= Len(t) /\ s <= e /\ \A k \in (s + 1)..e : t[k] # CR
  BY <1>1, <1>3, <1>4 DEF EndsAt
<1>6. Upto(t, e) = n - 1
  BY <1>3, <1>5, UptoLevel
<1>7. e # Len(t)
  BY <1>1, <1>6
<1>8. t[e + 1] = CR /\ e + 1 \in 0..Len(t)
  BY <1>1, <1>4, <1>5, <1>7 DEF EndsAt
<1>9. Upto(t, e + 1) = n
  BY <1>5, <1>6, <1>8, UptoNext
<1>10. Starts(t, n + 1, e + 1) /\ n + 1 \in Nat \ {0}
  BY <1>1, <1>8, <1>9 DEF Starts
<1>11. ebseek(t, n + 1) = e + 1
  BY <1>10, StartIsSeek
<1> QED BY <1>1, <1>5, <1>7, <1>11

\* The last line ends where the text ends.
LEMMA LastLine ==
    ASSUME NEW t \in Seq(Char)
    PROVE  LineEnd(t, ebseek(t, Breaks(t) + 1)) = Len(t)
<1>1. Len(t) \in Nat /\ Breaks(t) \in Nat /\ Upto(t, Len(t)) = Breaks(t)
  BY LenProperties, BreaksIsUpto
<1> DEFINE n == Breaks(t) + 1
           s == ebseek(t, n)
           e == LineEnd(t, s)
<1>2. Starts(t, n, s)
  BY <1>1, SeekFinds
<1>3. s \in 0..Len(t) /\ s \in Nat /\ Upto(t, s) = Breaks(t)
  BY <1>1, <1>2 DEF Starts
<1>4. EndsAt(t, s, e)
  BY <1>3, LineEndFinds
<1>5. e \in Nat /\ e <= Len(t) /\ s <= e
  BY <1>1, <1>3, <1>4 DEF EndsAt
<1>6. CASE e # Len(t)
  <2>1. t[e + 1] = CR /\ e + 1 <= Len(t)
    BY <1>1, <1>4, <1>5, <1>6 DEF EndsAt
  <2>2. Upto(t, e + 1) = Upto(t, e) + 1
    BY <1>5, <2>1, UptoNext
  <2>3. Upto(t, s) <= Upto(t, e) /\ Upto(t, e + 1) <= Upto(t, Len(t))
    BY <1>1, <1>3, <1>5, <2>1, UptoGrows
  <2>4. Upto(t, e) \in Nat
    BY <1>5, UptoType
  <2> QED BY <1>1, <1>3, <2>2, <2>3, <2>4
<1> QED BY <1>6

-----------------------------------------------------------------------------
(* A character more, a character less.                                     *)

\* u is t with one character more, after the first p.
Longer(t, u, p) ==
    /\ Len(u) = Len(t) + 1
    /\ \A j \in 1..p : u[j] = t[j]
    /\ \A j \in (p + 1)..Len(t) : u[j + 1] = t[j]

LEMMA BreaksOfLonger ==
    ASSUME NEW t \in Seq(Char), NEW u \in Seq(Char), NEW p \in 0..Len(t), Longer(t, u, p)
    PROVE  Breaks(u) = IF u[p + 1] = CR THEN Breaks(t) + 1 ELSE Breaks(t)
<1>1. Len(t) \in Nat /\ p \in Nat /\ p <= Len(t) /\ Len(u) = Len(t) + 1
  BY LenProperties DEF Longer
<1> DEFINE T == {j \in (p + 1)..Len(t) : t[j] = CR}
           U == {j \in (p + 2)..Len(u) : u[j] = CR}
<1>2. IsFiniteSet(T) /\ IsFiniteSet(U)
  <2>1. IsFiniteSet((p + 1)..Len(t)) /\ IsFiniteSet((p + 2)..Len(u))
    BY <1>1, FS_Interval
  <2>2. T \in SUBSET ((p + 1)..Len(t)) /\ U \in SUBSET ((p + 2)..Len(u))
    OBVIOUS
  <2> QED BY <2>1, <2>2, FS_Subset
<1>3. Cardinality(U) = Cardinality(T)
  <2> DEFINE f == [j \in T |-> j + 1]
  <2>1. \A j \in T : j + 1 \in U
    BY <1>1 DEF Longer
  <2>2. \A k \in U : k - 1 \in T /\ (k - 1) + 1 = k
    <3>1. ASSUME NEW k \in U PROVE k - 1 \in T /\ (k - 1) + 1 = k
      <4>1. k - 1 \in (p + 1)..Len(t) /\ (k - 1) + 1 = k /\ u[k] = CR
        BY <1>1
      <4>2. u[(k - 1) + 1] = t[k - 1]
        BY <4>1 DEF Longer
      <4> QED BY <4>1, <4>2
    <3> QED BY <3>1
  <2>3. f \in [T -> U] /\ \A a, b \in T : f[a] = f[b] => a = b
    BY <2>1, <1>1
  <2>4. \A k \in U : \E j \in T : f[j] = k
    BY <2>2
  <2>5. f \in Bijection(T, U)
    BY <2>3, <2>4 DEF Bijection, Injection, Surjection, IsInjective
  <2>6. ExistsBijection(T, U)
    BY <2>5 DEF ExistsBijection
  <2> QED BY <1>2, <2>6, FS_Bijection
<1>4. Breaks(t) = Upto(t, p) + Cardinality(T)
  <2>1. BreaksIn(t, Len(t)) = BreaksIn(t, p) \cup T /\ BreaksIn(t, p) \cap T = {}
    BY <1>1 DEF BreaksIn
  <2>2. IsFiniteSet(BreaksIn(t, p)) /\ Upto(t, p) \in Nat /\ Cardinality(T) \in Nat
    <3>1. p \in Nat
      BY <1>1
    <3>2. Cardinality(T) \in Nat
      BY <1>2, FS_CardinalityType
    <3> QED BY <3>1, <3>2, UptoType
  <2>3. Cardinality(BreaksIn(t, Len(t))) = Upto(t, p) + Cardinality(T) - Cardinality({})
    BY <1>2, <2>1, <2>2, FS_Union DEF Upto
  <2> HIDE DEF T
  <2> QED BY <2>2, <2>3, FS_EmptySet, BreaksIsUpto DEF Upto
<1>5. Breaks(u) = Upto(u, p + 1) + Cardinality(U)
  <2>1. /\ BreaksIn(u, Len(u)) = BreaksIn(u, p + 1) \cup U
        /\ BreaksIn(u, p + 1) \cap U = {}
    BY <1>1 DEF BreaksIn
  <2>2. IsFiniteSet(BreaksIn(u, p + 1)) /\ Upto(u, p + 1) \in Nat /\ Cardinality(U) \in Nat
    <3>1. p + 1 \in Nat
      BY <1>1
    <3>2. Cardinality(U) \in Nat
      BY <1>2, FS_CardinalityType
    <3> QED BY <3>1, <3>2, UptoType
  <2>3. Cardinality(BreaksIn(u, Len(u))) = Upto(u, p + 1) + Cardinality(U) - Cardinality({})
    BY <1>2, <2>1, <2>2, FS_Union DEF Upto
  <2> HIDE DEF U
  <2> QED BY <2>2, <2>3, FS_EmptySet, BreaksIsUpto DEF Upto
<1>6. Upto(u, p + 1) = IF u[p + 1] = CR THEN Upto(t, p) + 1 ELSE Upto(t, p)
  <2>1. Upto(u, p) = Upto(t, p)
    BY <1>1, UptoSame DEF Longer
  <2> QED BY <1>1, <2>1, UptoNext
<1>7. Upto(t, p) \in Nat /\ Cardinality(T) \in Nat
  BY <1>1, <1>2, UptoType, FS_CardinalityType
<1> QED BY <1>3, <1>4, <1>5, <1>6, <1>7

LEMMA InsertIsLonger ==
    ASSUME NEW t \in Seq(Char), NEW p \in 0..Len(t), NEW c \in Char
    PROVE  /\ InsertAt(t, p + 1, c) \in Seq(Char)
           /\ Longer(t, InsertAt(t, p + 1, c), p)
           /\ InsertAt(t, p + 1, c)[p + 1] = c
<1>1. Len(t) \in Nat /\ p \in Nat /\ p <= Len(t) /\ \A j \in 1..Len(t) : t[j] \in Char
  BY LenProperties, ElementOfSeq
<1> DEFINE a == SubSeq(t, 1, p)
           b == SubSeq(t, p + 1, Len(t))
<1>2. a \in Seq(Char) /\ Len(a) = p /\ \A j \in 1..p : a[j] = t[j]
  <2>1. /\ a \in Seq(Char) /\ Len(a) = IF 1 <= p THEN p - 1 + 1 ELSE 0
        /\ \A j \in 1..(p - 1 + 1) : a[j] = t[1 + j - 1]
    BY <1>1, SubSeqProperties
  <2> QED BY <1>1, <2>1
<1>3. b \in Seq(Char) /\ Len(b) = Len(t) - p /\ \A j \in 1..(Len(t) - p) : b[j] = t[p + j]
  <2>1. /\ b \in Seq(Char)
        /\ Len(b) = IF p + 1 <= Len(t) THEN Len(t) - (p + 1) + 1 ELSE 0
        /\ \A j \in 1..(Len(t) - (p + 1) + 1) : b[j] = t[(p + 1) + j - 1]
    BY <1>1, SubSeqProperties
  <2> QED BY <1>1, <2>1
<1>4. <<c>> \in Seq(Char) /\ Len(<<c>>) = 1 /\ <<c>>[1] = c
  OBVIOUS
<1> DEFINE d == a \o <<c>>
           u == d \o b
<1>5. InsertAt(t, p + 1, c) = u
  <2>1. (p + 1) - 1 = p
    BY <1>1
  <2> QED BY <2>1 DEF InsertAt
<1> HIDE DEF a, b
<1>6. /\ d \in Seq(Char) /\ Len(d) = p + 1
      /\ \A j \in 1..(p + 1) : d[j] = IF j <= p THEN a[j] ELSE <<c>>[j - p]
  BY <1>2, <1>4, ConcatProperties
<1> HIDE DEF d
<1>7. /\ u \in Seq(Char) /\ Len(u) = (p + 1) + (Len(t) - p)
      /\ \A j \in 1..((p + 1) + (Len(t) - p)) : u[j] = IF j <= p + 1 THEN d[j] ELSE b[j - (p + 1)]
  <2>1. /\ u \in Seq(Char) /\ Len(u) = Len(d) + Len(b)
        /\ \A j \in 1..(Len(d) + Len(b)) :
              u[j] = IF j <= Len(d) THEN d[j] ELSE b[j - Len(d)]
    BY <1>3, <1>6, ConcatProperties
  <2> HIDE DEF u
  <2> QED BY <1>3, <1>6, <2>1
<1> HIDE DEF u
<1>8. Len(u) = Len(t) + 1
  BY <1>1, <1>7
<1>9. ASSUME NEW j \in 1..p PROVE u[j] = t[j]
  <2>1. j \in 1..(p + 1) /\ j \in 1..((p + 1) + (Len(t) - p)) /\ j <= p /\ j <= p + 1
    BY <1>1
  <2> QED BY <1>2, <1>6, <1>7, <2>1
<1>10. u[p + 1] = c
  BY <1>1, <1>4, <1>6, <1>7
<1>11. ASSUME NEW j \in (p + 1)..Len(t) PROVE u[j + 1] = t[j]
  <2>1. j + 1 \in 1..((p + 1) + (Len(t) - p)) /\ ~(j + 1 <= p + 1)
    BY <1>1
  <2>2. (j + 1) - (p + 1) \in 1..(Len(t) - p) /\ p + ((j + 1) - (p + 1)) = j
    BY <1>1
  <2> QED BY <1>3, <1>7, <2>1, <2>2
<1> QED BY <1>7, <1>5, <1>8, <1>9, <1>10, <1>11 DEF Longer

LEMMA RemoveIsShorter ==
    ASSUME NEW t \in Seq(Char), NEW p \in 0..(Len(t) - 1)
    PROVE  /\ RemoveAt(t, p + 1) \in Seq(Char)
           /\ Longer(RemoveAt(t, p + 1), t, p)
<1>1. Len(t) \in Nat /\ p \in Nat /\ p < Len(t) /\ \A j \in 1..Len(t) : t[j] \in Char
  BY LenProperties, ElementOfSeq
<1> DEFINE a == SubSeq(t, 1, p)
           b == SubSeq(t, p + 2, Len(t))
<1>2. a \in Seq(Char) /\ Len(a) = p /\ \A j \in 1..p : a[j] = t[j]
  <2>1. /\ a \in Seq(Char) /\ Len(a) = IF 1 <= p THEN p - 1 + 1 ELSE 0
        /\ \A j \in 1..(p - 1 + 1) : a[j] = t[1 + j - 1]
    BY <1>1, SubSeqProperties
  <2> QED BY <1>1, <2>1
<1>3. /\ b \in Seq(Char) /\ Len(b) = Len(t) - (p + 1)
      /\ \A j \in 1..(Len(t) - (p + 1)) : b[j] = t[(p + 1) + j]
  <2>1. /\ b \in Seq(Char)
        /\ Len(b) = IF p + 2 <= Len(t) THEN Len(t) - (p + 2) + 1 ELSE 0
        /\ \A j \in 1..(Len(t) - (p + 2) + 1) : b[j] = t[(p + 2) + j - 1]
    BY <1>1, SubSeqProperties
  <2> QED BY <1>1, <2>1
<1> DEFINE u == a \o b
<1>4. RemoveAt(t, p + 1) = u
  <2>1. (p + 1) - 1 = p /\ (p + 1) + 1 = p + 2
    BY <1>1
  <2> QED BY <2>1 DEF RemoveAt
<1> HIDE DEF a, b
<1>5. /\ u \in Seq(Char) /\ Len(u) = p + (Len(t) - (p + 1))
      /\ \A j \in 1..(p + (Len(t) - (p + 1))) : u[j] = IF j <= p THEN a[j] ELSE b[j - p]
  <2>1. /\ u \in Seq(Char) /\ Len(u) = Len(a) + Len(b)
        /\ \A j \in 1..(Len(a) + Len(b)) :
              u[j] = IF j <= Len(a) THEN a[j] ELSE b[j - Len(a)]
    BY <1>2, <1>3, ConcatProperties
  <2> HIDE DEF u
  <2> QED BY <1>2, <1>3, <2>1
<1> HIDE DEF u
<1>6. Len(t) = Len(u) + 1
  BY <1>1, <1>5
<1>7. \A j \in 1..p : t[j] = u[j]
  BY <1>1, <1>2, <1>5
<1>8. ASSUME NEW j \in (p + 1)..Len(u) PROVE t[j + 1] = u[j]
  <2>1. j \in 1..(p + (Len(t) - (p + 1))) /\ ~(j <= p)
    BY <1>1, <1>5
  <2>2. j - p \in 1..(Len(t) - (p + 1)) /\ (p + 1) + (j - p) = j + 1
    BY <1>1, <1>5
  <2> QED BY <1>3, <1>5, <2>1, <2>2
<1> QED BY <1>5, <1>4, <1>6, <1>7, <1>8 DEF Longer

\* Where a line starts depends on the text before it only.
LEMMA StartsBefore ==
    ASSUME NEW t \in Seq(Char), NEW u \in Seq(Char), NEW n, NEW s, NEW p \in Nat,
           Starts(t, n, s), s <= p, p <= Len(u), \A j \in 1..p : u[j] = t[j]
    PROVE  Starts(u, n, s)
<1>1. Len(t) \in Nat /\ Len(u) \in Nat /\ s \in Nat /\ s <= Len(u)
  BY LenProperties DEF Starts
<1>2. Upto(t, s) = Upto(u, s)
  BY <1>1, UptoSame
<1> QED BY <1>1, <1>2 DEF Starts

\* A column with no end of line before it is in the line.
LEMMA ColumnFits ==
    ASSUME NEW t \in Seq(Char), NEW n, NEW s \in Nat, NEW p \in s..Len(t),
           ebseek(t, n) = s, \A k \in (s + 1)..p : t[k] # CR
    PROVE  p - s <= ebllen(t, n)
<1>1. Len(t) \in Nat /\ s \in 0..Len(t)
  BY LenProperties
<1>2. EndsAt(t, s, LineEnd(t, s))
  BY <1>1, LineEndFinds
<1>3. LineEnd(t, s) \in Nat /\ p <= LineEnd(t, s)
  <2>1. LineEnd(t, s) \in Nat /\ s <= LineEnd(t, s)
    BY <1>1, <1>2 DEF EndsAt
  <2>2. CASE LineEnd(t, s) < p
    <3>1. LineEnd(t, s) + 1 \in (s + 1)..p /\ LineEnd(t, s) # Len(t)
      BY <1>1, <2>1, <2>2
    <3> QED BY <1>2, <3>1 DEF EndsAt
  <2> QED BY <1>1, <2>1, <2>2
<1> QED BY <1>1, <1>3 DEF ebllen

\* ebllen and ebindex stay in the text.
LEMMA LineBounds ==
    ASSUME NEW t \in Seq(Char), NEW n \in Int, NEW col \in Nat
    PROVE  /\ ebseek(t, n) \in Nat /\ LineEnd(t, ebseek(t, n)) \in Nat
           /\ ebllen(t, n) \in Nat
           /\ LineEnd(t, ebseek(t, n)) = ebseek(t, n) + ebllen(t, n)
           /\ LineEnd(t, ebseek(t, n)) <= Len(t)
           /\ ebindex(t, n, col) \in 0..Len(t)
           /\ col <= ebllen(t, n) => ebindex(t, n, col) = ebseek(t, n) + col
<1>1. Len(t) \in Nat /\ ebseek(t, n) \in 0..Len(t)
  BY LenProperties, SeekType
<1>2. EndsAt(t, ebseek(t, n), LineEnd(t, ebseek(t, n)))
  BY <1>1, LineEndFinds
<1>3. /\ LineEnd(t, ebseek(t, n)) \in Nat
      /\ ebseek(t, n) <= LineEnd(t, ebseek(t, n)) /\ LineEnd(t, ebseek(t, n)) <= Len(t)
  BY <1>1, <1>2 DEF EndsAt
<1>4. ebindex(t, n, col) = IF ebseek(t, n) + col <= LineEnd(t, ebseek(t, n))
                           THEN ebseek(t, n) + col ELSE LineEnd(t, ebseek(t, n))
  BY <1>1, <1>3, MinOfTwo DEF ebindex
<1> QED BY <1>1, <1>3, <1>4 DEF ebllen

-----------------------------------------------------------------------------
(* The viewport.                                                           *)

\* evis brings a line of the text into view.
LEMMA EvisShows ==
    ASSUME TypeOK, NEW n \in Nat \ {0}, NEW total \in Nat \ {0}
    PROVE  /\ evis(n, total) \in Nat \ {0}
           /\ n <= total => n \in evis(n, total)..(evis(n, total) + Rows - 1)
<1>1. Rows \in Nat \ {0} /\ etop \in Nat \ {0}
  BY EditorAssumption DEF TypeOK
<1> DEFINE top == IF n < etop THEN n
                  ELSE IF n > etop + Rows - 1 THEN n - (Rows - 1) ELSE etop
           a == Max({1, top})
           b == Max({1, total - (Rows - 1)})
<1>2. top \in Int /\ top <= n /\ n <= top + Rows - 1
  BY <1>1
<1>3. a = IF 1 >= top THEN 1 ELSE top
  BY <1>2, MaxOfTwo
<1>4. b = IF 1 >= total - (Rows - 1) THEN 1 ELSE total - (Rows - 1)
  BY <1>1, MaxOfTwo
<1>5. a \in Int /\ b \in Int /\ evis(n, total) = Min({a, b})
  BY <1>1, <1>2, <1>3, <1>4 DEF evis
<1> HIDE DEF a, b, top
<1>6. evis(n, total) = IF a <= b THEN a ELSE b
  BY <1>5, MinOfTwo
<1> QED BY <1>1, <1>2, <1>3, <1>4, <1>6

\* eadj leaves a column to scroll to.
LEMMA EadjType ==
    ASSUME NEW t, NEW n, NEW col \in Nat, eleft \in Nat PROVE eadj(t, n, col) \in Nat
<1> DEFINE left == Min({col, eleft})
           S == {l \in left..col : l = col \/ edxcol(t, n, col, l) <= Cols}
<1>1. left = IF col <= eleft THEN col ELSE eleft
  BY MinOfTwo
<1>2. left \in Nat /\ left <= col
  BY <1>1
<1> HIDE DEF left
<1>3. S \in SUBSET Nat /\ S # {}
  BY <1>2
<1>4. Min(S) \in S
  BY <1>3, MinOfNats
<1> QED BY <1>3, <1>4 DEF eadj, left

-----------------------------------------------------------------------------
(* Types and the frame, for every key.                                     *)

\* The end of a key: the frame is drawn again, unless what it shows has not changed.
LEMMA KeyStep ==
    ASSUME TypeOK, ScreenIsFresh, NEW redraw \in BOOLEAN, Finish(redraw),
           redraw \/ UNCHANGED <<text, etotal>>,
           text' \in Seq(Char), Len(text') <= ebcap, ecol' \in Nat, ewant' \in Nat,
           eline' \in Nat \ {0}, etop' \in Nat \ {0}, etotal' \in Nat \ {0}
    PROVE  TypeOK' /\ ScreenIsFresh'
<1>1. eleft' = eadj(text', eline', ecol') /\ pc = "edit" /\ UNCHANGED <<pc, eblines, viewVars>>
  BY DEF Finish
<1>2. eleft' \in Nat
  BY <1>1, EadjType DEF TypeOK
<1>3. TypeOK'
  BY <1>1, <1>2 DEF TypeOK, viewVars
<1>4. CASE redraw \/ Scrolled
  <2>1. shown' = Frame(text', etop', eleft', etotal')
    BY <1>4 DEF Finish
  <2> QED BY <1>3, <2>1 DEF ScreenIsFresh
<1>5. CASE ~(redraw \/ Scrolled)
  <2>1. UNCHANGED <<shown, text, etotal, etop, eleft>>
    BY <1>5 DEF Finish, Scrolled
  <2>2. shown = Frame(text, etop, eleft, etotal)
    BY <1>1 DEF ScreenIsFresh
  <2> QED BY <1>3, <2>1, <2>2 DEF ScreenIsFresh
<1> QED BY <1>3, <1>4, <1>5

LEMMA CursorToStep ==
    ASSUME TypeOK, ScreenIsFresh, NEW n \in Nat \ {0}, NEW col \in Nat, CursorTo(n, col),
           ewant' \in Nat
    PROVE  TypeOK' /\ ScreenIsFresh'
<1>1. /\ eline' = n /\ ecol' = col /\ etop' = evis(n, etotal)
      /\ UNCHANGED <<text, etotal>> /\ Finish(FALSE)
  BY DEF CursorTo
<1>2. etotal \in Nat \ {0} /\ text \in Seq(Char) /\ Len(text) <= ebcap
  BY DEF TypeOK
<1>3. etop' \in Nat \ {0}
  BY <1>1, <1>2, EvisShows
<1> QED BY <1>1, <1>2, <1>3, KeyStep

\* eclamp and eclmcol.
LEMMA ClampBounds ==
    ASSUME TypeOK, NEW n \in Int, NEW m \in Int, NEW col \in Nat
    PROVE  /\ eclamp(n) \in Nat \ {0} /\ eclamp(n) <= etotal
           /\ eclmcol(text, m, col) \in Nat
           /\ eclmcol(text, m, col) <= ebllen(text, m)
           /\ eclmcol(text, m, col) <= col
<1>1. etotal \in Nat \ {0} /\ text \in Seq(Char)
  BY DEF TypeOK
<1> DEFINE low == Max({1, n})
<1>2. low = IF 1 >= n THEN 1 ELSE n
  BY MaxOfTwo
<1>3. low \in Int /\ low >= 1 /\ eclamp(n) = Min({low, etotal})
  BY <1>2 DEF eclamp
<1> HIDE DEF low
<1>4. eclamp(n) = IF low <= etotal THEN low ELSE etotal
  BY <1>1, <1>3, MinOfTwo
<1>5. ebllen(text, m) \in Nat
  BY <1>1, LineBounds
<1>6. eclmcol(text, m, col) = IF col <= ebllen(text, m) THEN col ELSE ebllen(text, m)
  BY <1>5, MinOfTwo DEF eclmcol
<1> QED BY <1>1, <1>3, <1>4, <1>5, <1>6

LEMMA RoomFits ==
    ASSUME TypeOK, Room, NEW p \in 0..Len(text), NEW c \in Char
    PROVE  ebins(p, c) \in Seq(Char) /\ Len(ebins(p, c)) <= ebcap
<1>1. text \in Seq(Char) /\ Len(text) \in Nat /\ Len(text) < ebcap /\ ebcap \in Nat
  BY LenProperties, EditorAssumption DEF TypeOK, Room
<1> QED BY <1>1, InsertIsLonger DEF ebins, Longer

LEMMA DeletedFits ==
    ASSUME TypeOK, NEW p, Has(p)
    PROVE  /\ ebdel(p) \in Seq(Char) /\ Len(ebdel(p)) <= ebcap
           /\ text[p + 1] \in Char /\ text[p + 1] \in Int
<1>1. text \in Seq(Char) /\ Len(text) \in Nat /\ Len(text) <= ebcap /\ ebcap \in Nat
  BY LenProperties, EditorAssumption DEF TypeOK
<1>2. p \in 0..(Len(text) - 1) /\ p + 1 \in 1..Len(text)
  BY <1>1 DEF Has
<1>3. ebdel(p) \in Seq(Char) /\ Longer(ebdel(p), text, p)
  BY <1>1, <1>2, RemoveIsShorter DEF ebdel
<1>4. Len(text) = Len(ebdel(p)) + 1 /\ Len(ebdel(p)) \in Nat
  BY <1>3, LenProperties DEF Longer
<1>5. text[p + 1] \in Char
  BY <1>1, <1>2, ElementOfSeq
<1>6. text[p + 1] \in Int
  <2>1. \A c \in -128..127 : c \in Int
    OBVIOUS
  <2> QED BY <1>5, <2>1, EditorAssumption, Zenon
<1>7. Len(ebdel(p)) <= ebcap
  BY <1>1, <1>4
<1> QED BY <1>3, <1>5, <1>6, <1>7

LEMMA JoinedType == ASSUME TypeOK PROVE Joined \in Nat \ {0}
<1>1. etotal \in Nat \ {0}
  BY DEF TypeOK
<1> QED BY <1>1, MaxOfTwo DEF Joined

LEMMA EditType ==
    ASSUME TypeOK, ScreenIsFresh, editstep
    PROVE  TypeOK' /\ ScreenIsFresh'
<1>1. /\ text \in Seq(Char) /\ Len(text) \in Nat /\ Len(text) <= ebcap
      /\ eline \in Nat \ {0} /\ etotal \in Nat \ {0} /\ etop \in Nat \ {0}
      /\ ecol \in Nat /\ ewant \in Nat
      /\ Rows \in Nat \ {0} /\ CR \in Char /\ TAB \in Char /\ Key \subseteq Char
  BY LenProperties, EditorAssumption DEF TypeOK, Char
<1>2. \A n \in Nat \ {0}, total \in Nat \ {0} : evis(n, total) \in Nat \ {0}
  BY EvisShows
<1>3. ebindex(text, eline, ecol) \in 0..Len(text) /\ ebllen(text, eline) \in Nat
  BY <1>1, LineBounds
<1>4. eline > 1 => eline - 1 \in Nat \ {0} /\ ebllen(text, eline - 1) \in Nat
  BY <1>1, LineBounds
<1>5. Joined \in Nat \ {0}
  BY JoinedType
<1>6. ASSUME NEW delta \in {-1, 1, -Rows, Rows}, emovev(delta)
      PROVE  TypeOK' /\ ScreenIsFresh'
  <2>1. eline + delta \in Int
    BY <1>1, <1>6
  <2>2. /\ eclamp(eline + delta) \in Nat \ {0}
        /\ eclmcol(text, eclamp(eline + delta), ewant) \in Nat
    <3>1. eclamp(eline + delta) \in Nat \ {0}
      BY <1>1, <2>1, ClampBounds
    <3> QED BY <1>1, <3>1, ClampBounds
  <2> QED BY <1>1, <1>6, <2>2, CursorToStep DEF emovev
<1>7. CASE emovel
  <2>1. CASE ecol > 0 /\ CursorTo(eline, ecol - 1)
    <3>1. ecol - 1 \in Nat /\ ewant' = ecol - 1
      BY <1>1, <1>7, <2>1 DEF emovel, CursorTo
    <3> QED BY <1>1, <2>1, <3>1, CursorToStep
  <2>2. CASE ecol = 0 /\ eline > 1 /\ CursorTo(eline - 1, ebllen(text, eline - 1))
    <3>1. ewant' = ebllen(text, eline - 1)
      BY <1>7, <2>2 DEF emovel, CursorTo
    <3> QED BY <1>4, <2>2, <3>1, CursorToStep
  <2>3. CASE CursorTo(eline, ecol)
    <3>1. ewant' = ecol
      BY <1>7, <2>3 DEF emovel, CursorTo
    <3> QED BY <1>1, <2>3, <3>1, CursorToStep
  <2> QED BY <1>7, <2>1, <2>2, <2>3 DEF emovel
<1>8. CASE emover
  <2>1. CASE CursorTo(eline, ecol + 1)
    <3>1. ecol + 1 \in Nat /\ ewant' = ecol + 1
      BY <1>1, <1>8, <2>1 DEF emover, CursorTo
    <3> QED BY <1>1, <2>1, <3>1, CursorToStep
  <2>2. CASE CursorTo(eline + 1, RightEnd)
    <3>1. eline + 1 \in Nat \ {0} /\ RightEnd \in Nat /\ ewant' = RightEnd
      BY <1>1, <1>8, <2>2 DEF emover, CursorTo, RightEnd
    <3> QED BY <2>2, <3>1, CursorToStep
  <2>3. CASE CursorTo(eline, ecol)
    <3>1. ewant' = ecol
      BY <1>8, <2>3 DEF emover, CursorTo
    <3> QED BY <1>1, <2>3, <3>1, CursorToStep
  <2> QED BY <1>8, <2>1, <2>2, <2>3 DEF emover
<1>9. CASE HomeEnd
  <2>1. /\ UNCHANGED text /\ UNCHANGED eline /\ UNCHANGED etop /\ UNCHANGED etotal
        /\ Finish(FALSE)
    BY <1>9, Zenon DEF HomeEnd
  <2>2. ecol' \in Nat /\ ewant' \in Nat
    BY <1>3, <1>9 DEF HomeEnd
  <2> QED BY <1>1, <2>1, <2>2, KeyStep
<1>10. ASSUME NEW c \in Key \cup {TAB}, edins(c) PROVE TypeOK' /\ ScreenIsFresh'
  <2>1. text' \in Seq(Char) /\ Len(text') <= ebcap
    BY <1>1, <1>3, <1>10, RoomFits DEF edins
  <2>2. UNCHANGED eline /\ UNCHANGED etop /\ UNCHANGED etotal /\ Finish(TRUE)
    BY <1>10, Zenon DEF edins
  <2>3. ecol' \in Nat /\ ewant' \in Nat
    BY <1>1, <1>10 DEF edins
  <2> QED BY <1>1, <2>1, <2>2, <2>3, KeyStep
<1>11. CASE edenter
  <2>1. text' \in Seq(Char) /\ Len(text') <= ebcap
    BY <1>1, <1>3, <1>11, RoomFits DEF edenter
  <2>2. /\ ecol' = 0 /\ ewant' = 0 /\ eline' = eline + 1 /\ etotal' = etotal + 1
        /\ etop' = evis(eline + 1, etotal + 1) /\ Finish(TRUE)
    BY <1>11 DEF edenter
  <2>3. eline + 1 \in Nat \ {0} /\ etotal + 1 \in Nat \ {0}
    BY <1>1
  <2>4. evis(eline + 1, etotal + 1) \in Nat \ {0}
    BY <1>2, <2>3
  <2> QED BY <2>1, <2>2, <2>3, <2>4, KeyStep
<1>12. CASE edbksp
  <2>1. ASSUME NEW pos, NEW n \in Nat \ {0}, NEW col \in Nat, NEW total \in Nat \ {0},
               BackTo(pos, n, col, total)
        PROVE  /\ text' \in Seq(Char) /\ Len(text') <= ebcap
               /\ eline' \in Nat \ {0} /\ ecol' \in Nat /\ ewant' \in Nat
               /\ etotal' \in Nat \ {0}
    <3>1. text' \in Seq(Char) /\ Len(text') <= ebcap
      BY <2>1, DeletedFits DEF BackTo
    <3>2. \/ eline' = n /\ ecol' = col /\ ewant' = col /\ etotal' = total
          \/ UNCHANGED <<curVars, etotal>>
      BY <2>1 DEF BackTo
    <3> QED BY <1>1, <2>1, <3>1, <3>2 DEF curVars
  <2>2. /\ text' \in Seq(Char) /\ Len(text') <= ebcap
        /\ eline' \in Nat \ {0} /\ ecol' \in Nat /\ ewant' \in Nat
        /\ etotal' \in Nat \ {0}
    <3>1. CASE ecol > 0 /\ BackTo(ebindex(text, eline, ecol) - 1, eline, ecol - 1, etotal)
      <4>1. ecol - 1 \in Nat
        BY <1>1, <3>1
      <4> QED BY <1>1, <2>1, <3>1, <4>1
    <3>2. CASE eline > 1 /\ BackTo(ebindex(text, eline, 0) - 1,
                                   eline - 1, ebllen(text, eline - 1), Joined)
      BY <1>4, <1>5, <2>1, <3>2
    <3>3. CASE UNCHANGED <<text, curVars, etotal>>
      BY <1>1, <3>3 DEF curVars
    <3> QED BY <1>12, <3>1, <3>2, <3>3 DEF edbksp
  <2>3. etop' = evis(eline', etotal') /\ Finish(TRUE)
    BY <1>12 DEF edbksp
  <2>4. etop' \in Nat \ {0}
    BY <1>2, <2>2, <2>3
  <2> QED BY <2>2, <2>3, <2>4, KeyStep
<1>13. CASE eddel
  <2> DEFINE pos == ebindex(text, eline, ecol)
  <2>1. /\ text' = IF Has(pos) THEN ebdel(pos) ELSE text
        /\ etotal' = IF Has(pos) /\ text[pos + 1] = CR THEN Joined ELSE etotal
        /\ eline' = eline /\ ecol' = eclmcol(text', eline, ecol) /\ ewant' = ecol'
        /\ etop' = evis(eline, etotal') /\ Finish(TRUE)
    BY <1>13 DEF eddel
  <2>2. text' \in Seq(Char) /\ Len(text') <= ebcap /\ etotal' \in Nat \ {0}
    BY <1>1, <1>5, <2>1, DeletedFits
  <2>3. ebllen(text', eline) \in Nat
    BY <1>1, <2>2, LineBounds
  <2>4. eclmcol(text', eline, ecol) = IF ecol <= ebllen(text', eline)
                                      THEN ecol ELSE ebllen(text', eline)
    BY <1>1, <2>3, MinOfTwo DEF eclmcol
  <2>5. ecol' \in Nat /\ ewant' \in Nat /\ etop' \in Nat \ {0} /\ eline' \in Nat \ {0}
    BY <1>1, <1>2, <2>1, <2>2, <2>3, <2>4
  <2> QED BY <2>1, <2>2, <2>5, KeyStep
<1>14. CASE RedrawOnly
  <2>1. UNCHANGED <<text, eline, ecol, ewant, etop, etotal>> /\ Finish(TRUE)
    BY <1>14 DEF RedrawOnly, curVars
  <2> QED BY <1>1, <2>1, KeyStep
<1> QED BY <1>6, <1>7, <1>8, <1>9, <1>10, <1>11, <1>12, <1>13, <1>14 DEF editstep

\* The other steps: the document is loaded, editor and viewer come and go.
LEMMA LifetimeType ==
    ASSUME TypeOK, ScreenIsFresh,
           \/ LoadDocument \/ EnterEditor \/ LeaveEditor
           \/ EnterViewer \/ ViewKey \/ LeaveViewer
    PROVE  TypeOK' /\ ScreenIsFresh'
<1>1. CASE LoadDocument
  <2>1. PICK t \in Texts : text' = t /\ eblines' = FileLines(t)
    BY <1>1 DEF LoadDocument
  <2>2. PICK n \in 0..ebcap : t \in [1..n -> Char]
    BY DEF Texts
  <2>3. n \in Nat /\ n <= ebcap
    BY EditorAssumption
  <2>4. t \in Seq(Char)
    BY <2>2, <2>3, SeqDef
  <2>5. Len(t) = n
    <3>1. DOMAIN t = 1..n /\ DOMAIN t = 1..Len(t) /\ Len(t) \in Nat
      BY <2>2, <2>4, LenProperties
    <3>2. 1..n = 1..Len(t)
      BY <3>1
    <3>3. (n >= 1 => n \in 1..Len(t)) /\ (Len(t) >= 1 => Len(t) \in 1..n)
      BY <2>3, <3>1, <3>2
    <3> QED BY <2>3, <3>1, <3>3
  <2>6. FileLines(t) \in Nat
    BY <2>4, BreaksIsUpto DEF FileLines
  <2>7. text' \in Seq(Char) /\ Len(text') <= ebcap /\ eblines' \in Nat
    BY <2>1, <2>3, <2>4, <2>5, <2>6
  <2>8. pc' = "menu" /\ UNCHANGED <<eline, ecol, ewant, etop, eleft, etotal, vtop, vtotal>>
    BY <1>1 DEF LoadDocument, curVars, viewVars
  <2> QED BY <2>7, <2>8 DEF TypeOK, ScreenIsFresh
<1>2. CASE EnterEditor
  <2>1. ebedln \in Nat \ {0}
    <3>1. eblines \in Nat
      BY DEF TypeOK
    <3>2. Max({1, eblines}) = IF 1 >= eblines THEN 1 ELSE eblines
      BY <3>1, MaxOfTwo
    <3> QED BY <3>1, <3>2 DEF ebedln
  <2>2. /\ pc' = "edit" /\ etotal' = ebedln /\ etop' = 1 /\ eline' = 1
        /\ ecol' = 0 /\ ewant' = 0 /\ eleft' = 0
        /\ shown' = Frame(text, 1, 0, ebedln)
        /\ UNCHANGED <<text, eblines, vtop, vtotal>>
    BY <1>2 DEF EnterEditor, docVars, viewVars
  <2>3. TypeOK'
    BY <2>1, <2>2 DEF TypeOK
  <2>4. shown' = Frame(text', etop', eleft', etotal')
    BY <2>2
  <2> QED BY <2>3, <2>4 DEF ScreenIsFresh
<1>3. CASE LeaveEditor
  <2>1. /\ pc' = "menu" /\ etotal' = 1 /\ etop' = 1 /\ eline' = 1
        /\ ecol' = 0 /\ ewant' = 0 /\ eleft' = 0
        /\ UNCHANGED <<text, eblines, vtop, vtotal>>
    BY <1>3 DEF LeaveEditor, NoEditor, docVars, viewVars
  <2> QED BY <2>1 DEF TypeOK, ScreenIsFresh
<1>4. CASE EnterViewer
  <2>1. /\ pc' = "view" /\ vtotal' = eblines /\ vtop' = 1
        /\ UNCHANGED <<text, eblines, eline, ecol, ewant, etop, eleft, etotal>>
    BY <1>4 DEF EnterViewer, docVars, curVars
  <2> QED BY <2>1 DEF TypeOK, ScreenIsFresh
<1>5. CASE ViewKey
  <2>1. \A top \in Int : vclamp(top) \in Nat \ {0}
    <3> TAKE top \in Int
    <3> DEFINE a == Max({1, top})
               b == Max({1, vtotal - (Rows - 1)})
    <3>1. vtotal - (Rows - 1) \in Int
      BY EditorAssumption DEF TypeOK
    <3>2. a \in Nat \ {0} /\ b \in Nat \ {0} /\ vclamp(top) = Min({a, b})
      BY <3>1, MaxOfTwo DEF vclamp
    <3> HIDE DEF a, b
    <3> QED BY <3>2, MinOfTwo
  <2>2. vtop \in Int /\ Rows \in Int
    BY EditorAssumption DEF TypeOK
  <2>3. vtop' \in Nat \ {0}
    <3>1. CASE \E delta \in {-1, 1, -Rows, Rows} : vtop' = vclamp(vtop + delta)
      <4>1. PICK delta \in {-1, 1, -Rows, Rows} : vtop' = vclamp(vtop + delta)
        BY <3>1
      <4>2. vtop + delta \in Int
        BY <2>2
      <4> QED BY <2>1, <4>1, <4>2
    <3>2. CASE vtop' = 1
      BY <3>2
    <3> QED BY <1>5, <3>1, <3>2 DEF ViewKey
  <2>4. UNCHANGED <<text, eblines, eline, ecol, ewant, etop, eleft, etotal, pc, vtotal>>
        /\ pc = "view"
    BY <1>5 DEF ViewKey, docVars, curVars
  <2> QED BY <2>3, <2>4 DEF TypeOK, ScreenIsFresh
<1>6. CASE LeaveViewer
  <2>1. /\ pc' = "menu" /\ vtotal' = 0 /\ vtop' = 1
        /\ UNCHANGED <<text, eblines, eline, ecol, ewant, etop, eleft, etotal>>
    BY <1>6 DEF LeaveViewer, docVars, curVars
  <2> QED BY <2>1 DEF TypeOK, ScreenIsFresh
<1> QED BY <1>1, <1>2, <1>3, <1>4, <1>5, <1>6

\* Every step of the specification keeps both.
LEMMA TypeAndFrame ==
    /\ Init => TypeOK /\ ScreenIsFresh
    /\ TypeOK /\ ScreenIsFresh /\ [Next]_vars => TypeOK' /\ ScreenIsFresh'
<1>1. ASSUME Init PROVE TypeOK /\ ScreenIsFresh
  <2>1. <<>> \in Seq(Char) /\ Len(<<>>) = 0
    OBVIOUS
  <2> QED BY <1>1, <2>1, EditorAssumption DEF Init, TypeOK, ScreenIsFresh
<1>2. ASSUME TypeOK, ScreenIsFresh, [Next]_vars PROVE TypeOK' /\ ScreenIsFresh'
  <2>1. CASE editstep
    BY <1>2, <2>1, EditType
  <2>2. CASE \/ LoadDocument \/ EnterEditor \/ LeaveEditor
             \/ EnterViewer \/ ViewKey \/ LeaveViewer
    BY <1>2, <2>2, LifetimeType
  <2>3. CASE UNCHANGED vars
    BY <1>2, <2>3 DEF vars, docVars, curVars, viewVars, TypeOK, ScreenIsFresh, Frame
  <2> QED BY <1>2, <2>1, <2>2, <2>3 DEF Next
<1> QED BY <1>1, <1>2

\* The arena never holds more than its capacity, and lines, columns, viewport and
\* counters keep their ranges, with whatever line count the editor was started.
THEOREM TypeCorrect == Spec => []TypeOK
<1>1. TypeOK /\ ScreenIsFresh /\ [Next]_vars => (TypeOK /\ ScreenIsFresh)'
  BY TypeAndFrame
<1>2. Init => TypeOK /\ ScreenIsFresh
  BY TypeAndFrame
<1> QED BY <1>1, <1>2, PTL DEF Spec

\* The frame on the screen is always the one of the text and the viewport: no key that
\* changes either is taken by editstep for one that needs no redraw.
THEOREM FrameIsFresh == Spec => []ScreenIsFresh
<1>1. TypeOK /\ ScreenIsFresh /\ [Next]_vars => (TypeOK /\ ScreenIsFresh)'
  BY TypeAndFrame
<1>2. Init => TypeOK /\ ScreenIsFresh
  BY TypeAndFrame
<1> QED BY <1>1, <1>2, PTL DEF Spec

-----------------------------------------------------------------------------
(* The cursor.                                                             *)

\* Every byte of the file and of the keyboard is one that a char holds as it is: a byte
\* of 128 and more is negative, and edbksp takes ebdel's answer for a failure then.
NoHighByte == \A c \in Char : c >= 0

EInv ==
    /\ TypeOK
    /\ ScreenIsFresh
    /\ pc = "edit" => CursorInText

LEMMA FirstLine == ASSUME NEW t \in Seq(Char) PROVE ebseek(t, 1) = 0
<1>1. Len(t) \in Nat
  BY LenProperties
<1>2. Starts(t, 1, 0)
  BY <1>1, UptoZero DEF Starts
<1> QED BY <1>2, StartIsSeek

\* Where the cursor is: s is the start of its line.
LEMMA CursorPlace ==
    ASSUME TypeOK, pc = "edit", CursorInText
    PROVE  /\ Pos \in 0..Len(text) /\ Pos \in Nat
           /\ Pos = ebseek(text, eline) + ecol
           /\ ebindex(text, eline, ecol) = Pos
           /\ Starts(text, eline, ebseek(text, eline))
           /\ eline \in 1..(Breaks(text) + 1) /\ Breaks(text) \in Nat
           /\ \A k \in (ebseek(text, eline) + 1)..Pos : text[k] # CR
<1>1. /\ text \in Seq(Char) /\ Len(text) \in Nat /\ Breaks(text) \in Nat
      /\ eline \in Nat \ {0} /\ ecol \in Nat
  BY LenProperties, BreaksIsUpto DEF TypeOK
<1>2. eline \in 1..(Breaks(text) + 1) /\ ecol <= ebllen(text, eline)
  BY <1>1 DEF CursorInText
<1> DEFINE s == ebseek(text, eline)
           e == LineEnd(text, s)
<1>3. Starts(text, eline, s)
  BY <1>1, <1>2, SeekFinds
<1>4. /\ s \in Nat /\ e \in Nat /\ e = s + ebllen(text, eline) /\ e <= Len(text)
      /\ ebllen(text, eline) \in Nat
      /\ ebindex(text, eline, ecol) = s + ecol
  BY <1>1, <1>2, LineBounds
<1>5. Pos = s + ecol /\ Pos \in Nat /\ Pos <= e /\ Pos <= Len(text)
  <2>1. Pos = s + ecol
    BY DEF Pos
  <2> HIDE DEF s, e
  <2> QED BY <1>1, <1>2, <1>4, <2>1
<1>6. EndsAt(text, s, e)
  BY <1>1, <1>4, SeekType, LineEndFinds
<1>7. \A k \in (s + 1)..Pos : text[k] # CR
  <2> HIDE DEF s, e
  <2>1. \A k \in (s + 1)..Pos : k \in (s + 1)..e
    BY <1>4, <1>5
  <2> QED BY <1>6, <2>1 DEF EndsAt
<1> QED BY <1>1, <1>2, <1>3, <1>4, <1>5, <1>7

\* A cursor that a key has put on a line and in its columns.
LEMMA Placed ==
    ASSUME NEW t \in Seq(Char), NEW n \in 1..(Breaks(t) + 1), NEW col \in Nat,
           text' = t, eline' = n, ecol' = col, pc' = "edit",
           etotal' = Breaks(t) + 1, col <= ebllen(t, n),
           n \in etop'..(etop' + Rows - 1)
    PROVE  CursorInText' /\ Pos' = ebseek(t, n) + col
<1>1. CursorInText'
  BY BreaksIsUpto DEF CursorInText, TotalIsTrue
<1>2. Pos' = ebseek(t, n) + col
  BY DEF Pos
<1> QED BY <1>1, <1>2

\* A key that moves the cursor.
LEMMA Moved ==
    ASSUME TypeOK, pc = "edit", CursorInText,
           NEW n \in 1..etotal, NEW col \in Nat, col <= ebllen(text, n), CursorTo(n, col)
    PROVE  CursorInText' /\ Pos' = ebseek(text, n) + col /\ text' = text /\ pc' = "edit"
<1>1. text \in Seq(Char) /\ etotal = Breaks(text) + 1 /\ Breaks(text) \in Nat
  BY BreaksIsUpto DEF TypeOK, CursorInText, TotalIsTrue
<1>2. n \in Nat \ {0} /\ n <= etotal /\ etotal \in Nat \ {0} /\ n \in 1..(Breaks(text) + 1)
  BY <1>1
<1>3. /\ text' = text /\ eline' = n /\ ecol' = col /\ etotal' = etotal
      /\ etop' = evis(n, etotal) /\ pc' = "edit"
  BY DEF CursorTo, Finish
<1>4. n \in etop'..(etop' + Rows - 1)
  BY <1>2, <1>3, EvisShows
<1>5. CursorInText' /\ Pos' = ebseek(text, n) + col
  BY <1>1, <1>2, <1>3, <1>4, Placed
<1> QED BY <1>3, <1>5

\* A character comes in at p, on the line n that starts at s.
LEMMA Inserted ==
    ASSUME NEW t \in Seq(Char), NEW p \in 0..Len(t), NEW c \in Char,
           NEW n \in Nat \ {0}, NEW s, Starts(t, n, s), s <= p,
           \A k \in (s + 1)..p : t[k] # CR,
           NEW u, u = InsertAt(t, p + 1, c)
    PROVE  /\ c # CR => /\ Breaks(u) = Breaks(t) /\ n \in 1..(Breaks(u) + 1)
                        /\ ebseek(u, n) = s /\ p + 1 - s <= ebllen(u, n)
           /\ c = CR => /\ Breaks(u) = Breaks(t) + 1 /\ n + 1 \in 1..(Breaks(u) + 1)
                        /\ ebseek(u, n + 1) = p + 1
<1>1. Len(t) \in Nat /\ p \in Nat /\ p <= Len(t) /\ s \in Nat
  BY LenProperties DEF Starts
<1>2. u \in Seq(Char) /\ Longer(t, u, p) /\ u[p + 1] = c
  BY InsertIsLonger
<1>3. Len(u) = Len(t) + 1 /\ \A j \in 1..p : u[j] = t[j]
  BY <1>2 DEF Longer
<1>4. Breaks(u) = IF c = CR THEN Breaks(t) + 1 ELSE Breaks(t)
  BY <1>2, BreaksOfLonger
<1>5. CASE c # CR
  <2>1. Starts(u, n, s)
    BY <1>1, <1>2, <1>3, StartsBefore
  <2>2. ebseek(u, n) = s /\ n \in 1..(Breaks(u) + 1)
    BY <1>2, <2>1, StartIsSeek
  <2>3. ASSUME NEW k \in (s + 1)..(p + 1) PROVE u[k] # CR
    <3>1. CASE k = p + 1
      BY <1>2, <1>5, <3>1
    <3>2. CASE k # p + 1
      <4>1. k \in (s + 1)..p /\ k \in 1..p
        BY <1>1, <3>2
      <4> QED BY <1>3, <4>1
    <3> QED BY <3>1, <3>2
  <2>4. p + 1 \in s..Len(u)
    BY <1>1, <1>3
  <2>5. p + 1 - s <= ebllen(u, n)
    BY <1>1, <1>2, <2>2, <2>3, <2>4, ColumnFits
  <2> QED BY <1>4, <1>5, <2>2, <2>5
<1>6. CASE c = CR
  <2>1. Upto(t, s) = n - 1 /\ Upto(t, s) = Upto(t, p) /\ Upto(u, p) = Upto(t, p)
    BY <1>1, <1>3, UptoLevel, UptoSame DEF Starts
  <2>2. Upto(u, p + 1) = n
    BY <1>1, <1>2, <1>6, <2>1, UptoNext
  <2>3. Starts(u, n + 1, p + 1)
    BY <1>1, <1>2, <1>3, <1>6, <2>2 DEF Starts
  <2>4. n + 1 \in Nat \ {0}
    OBVIOUS
  <2> QED BY <1>2, <1>4, <1>6, <2>3, <2>4, StartIsSeek
<1> QED BY <1>5, <1>6

\* The character at p goes, on the line n that starts at s or at its end.
LEMMA Erased ==
    ASSUME NEW t \in Seq(Char), NEW p \in 0..(Len(t) - 1),
           NEW n \in Nat \ {0}, NEW s, Starts(t, n, s), s <= p,
           \A k \in (s + 1)..p : t[k] # CR,
           NEW u, u = RemoveAt(t, p + 1)
    PROVE  /\ Breaks(t) = IF t[p + 1] = CR THEN Breaks(u) + 1 ELSE Breaks(u)
           /\ Breaks(u) \in Nat /\ n \in 1..(Breaks(u) + 1)
           /\ ebseek(u, n) = s /\ p - s <= ebllen(u, n)
<1>1. Len(t) \in Nat /\ p \in Nat /\ p < Len(t) /\ s \in Nat
  BY LenProperties DEF Starts
<1>2. u \in Seq(Char) /\ Longer(u, t, p)
  BY RemoveIsShorter
<1>3. Len(t) = Len(u) + 1 /\ Len(u) \in Nat /\ \A j \in 1..p : t[j] = u[j]
  BY <1>2, LenProperties DEF Longer
<1>4. p \in 0..Len(u)
  BY <1>1, <1>3
<1>5. Breaks(t) = IF t[p + 1] = CR THEN Breaks(u) + 1 ELSE Breaks(u)
  BY <1>2, <1>4, BreaksOfLonger
<1>6. Starts(u, n, s)
  <2>1. p <= Len(u) /\ \A j \in 1..p : u[j] = t[j]
    BY <1>3, <1>4
  <2> QED BY <1>1, <1>2, <2>1, StartsBefore
<1>7. ebseek(u, n) = s /\ n \in 1..(Breaks(u) + 1)
  BY <1>2, <1>6, StartIsSeek
<1>8. \A k \in (s + 1)..p : u[k] # CR
  BY <1>1, <1>3
<1>9. p - s <= ebllen(u, n)
  BY <1>1, <1>2, <1>4, <1>7, <1>8, ColumnFits
<1> QED BY <1>2, <1>5, <1>7, <1>9, BreaksIsUpto

-----------------------------------------------------------------------------
(* The keys, on a cursor in the text.                                      *)

\* Left and Right, across line ends too.
LEMMA LeftKey ==
    ASSUME TypeOK, pc = "edit", CursorInText, emovel
    PROVE  /\ CursorInText' /\ text' = text /\ pc' = "edit"
           /\ Pos' = Max({0, Pos - 1})
<1>1. /\ text \in Seq(Char) /\ etotal = Breaks(text) + 1 /\ Breaks(text) \in Nat
      /\ eline \in 1..etotal /\ eline \in Nat /\ ecol \in Nat /\ ecol <= ebllen(text, eline)
  BY BreaksIsUpto DEF TypeOK, CursorInText, TotalIsTrue
<1>2. Pos = ebseek(text, eline) + ecol /\ ebseek(text, eline) \in Nat
      /\ ebllen(text, eline) \in Nat
  BY <1>1, CursorPlace, LineBounds
<1>3. Max({0, Pos - 1}) = IF 0 >= Pos - 1 THEN 0 ELSE Pos - 1
  BY <1>1, <1>2, MaxOfTwo
<1>4. CASE ecol > 0 /\ CursorTo(eline, ecol - 1)
  <2>1. ecol - 1 \in Nat /\ ecol - 1 <= ebllen(text, eline)
    BY <1>1, <1>2, <1>4
  <2>2. /\ CursorInText' /\ Pos' = ebseek(text, eline) + (ecol - 1)
        /\ text' = text /\ pc' = "edit"
    BY <1>1, <1>4, <2>1, Moved
  <2> QED BY <1>1, <1>2, <1>3, <1>4, <2>2
<1>5. CASE ecol = 0 /\ eline > 1 /\ CursorTo(eline - 1, ebllen(text, eline - 1))
  <2> DEFINE n == eline - 1
  <2>1. n \in 1..Breaks(text) /\ n \in 1..etotal /\ n \in Int /\ n + 1 = eline
    BY <1>1, <1>5
  <2>2. /\ ebllen(text, n) \in Nat
        /\ LineEnd(text, ebseek(text, n)) = ebseek(text, n) + ebllen(text, n)
        /\ LineEnd(text, ebseek(text, n)) \in Nat
    BY <1>1, <2>1, LineBounds
  <2>3. ebseek(text, eline) = LineEnd(text, ebseek(text, n)) + 1
    BY <1>1, <2>1, NextLine
  <2>4. /\ CursorInText' /\ Pos' = ebseek(text, n) + ebllen(text, n)
        /\ text' = text /\ pc' = "edit"
    BY <1>1, <1>5, <2>1, <2>2, Moved
  <2> QED BY <1>1, <1>2, <1>3, <1>5, <2>2, <2>3, <2>4
<1>6. CASE ecol = 0 /\ eline = 1 /\ CursorTo(eline, ecol)
  <2>1. ebseek(text, eline) = 0
    BY <1>1, <1>6, FirstLine
  <2>2. CursorInText' /\ Pos' = ebseek(text, eline) + ecol /\ text' = text /\ pc' = "edit"
    BY <1>1, <1>6, Moved
  <2> QED BY <1>2, <1>3, <1>6, <2>1, <2>2
<1> QED BY <1>4, <1>5, <1>6 DEF emovel

LEMMA RightKey ==
    ASSUME TypeOK, pc = "edit", CursorInText, emover
    PROVE  /\ CursorInText' /\ text' = text /\ pc' = "edit"
           /\ Pos' = Min({Pos + 1, Len(text)})
<1>1. /\ text \in Seq(Char) /\ etotal = Breaks(text) + 1 /\ Breaks(text) \in Nat
      /\ eline \in 1..etotal /\ eline \in Nat /\ ecol \in Nat /\ ecol <= ebllen(text, eline)
      /\ Len(text) \in Nat
  BY LenProperties, BreaksIsUpto DEF TypeOK, CursorInText, TotalIsTrue
<1>2. /\ Pos = ebseek(text, eline) + ecol /\ ebseek(text, eline) \in Nat
      /\ ebllen(text, eline) \in Nat
      /\ LineEnd(text, ebseek(text, eline)) = ebseek(text, eline) + ebllen(text, eline)
      /\ LineEnd(text, ebseek(text, eline)) <= Len(text)
  BY <1>1, CursorPlace, LineBounds
<1>3. Min({Pos + 1, Len(text)}) = IF Pos + 1 <= Len(text) THEN Pos + 1 ELSE Len(text)
  BY <1>1, <1>2, MinOfTwo
<1>4. CASE ecol < ebllen(text, eline) /\ CursorTo(eline, ecol + 1)
  <2>1. ecol + 1 \in Nat /\ ecol + 1 <= ebllen(text, eline)
    BY <1>1, <1>2, <1>4
  <2>2. /\ CursorInText' /\ Pos' = ebseek(text, eline) + (ecol + 1)
        /\ text' = text /\ pc' = "edit"
    BY <1>1, <1>4, <2>1, Moved
  <2> QED BY <1>1, <1>2, <1>3, <1>4, <2>2
<1>5. CASE /\ ecol >= ebllen(text, eline) /\ eline < etotal
           /\ CursorTo(eline + 1, RightEnd)
  <2>1. eline \in 1..Breaks(text) /\ eline + 1 \in 1..etotal /\ eline + 1 \in Int
    BY <1>1, <1>5
  <2>2. RightEnd = 0 /\ RightEnd \in Nat /\ ebllen(text, eline + 1) \in Nat
    BY <1>1, <2>1, LineBounds DEF RightEnd
  <2>3. /\ ebseek(text, eline + 1) = LineEnd(text, ebseek(text, eline)) + 1
        /\ LineEnd(text, ebseek(text, eline)) < Len(text)
    BY <1>1, <2>1, NextLine
  <2>4. /\ CursorInText' /\ Pos' = ebseek(text, eline + 1) + RightEnd
        /\ text' = text /\ pc' = "edit"
    BY <1>1, <1>5, <2>1, <2>2, Moved
  <2> QED BY <1>1, <1>2, <1>3, <1>5, <2>2, <2>3, <2>4
<1>6. CASE ecol >= ebllen(text, eline) /\ eline >= etotal /\ CursorTo(eline, ecol)
  <2>1. eline = Breaks(text) + 1
    BY <1>1, <1>6
  <2>2. LineEnd(text, ebseek(text, eline)) = Len(text)
    BY <1>1, <2>1, LastLine
  <2>3. CursorInText' /\ Pos' = ebseek(text, eline) + ecol /\ text' = text /\ pc' = "edit"
    BY <1>1, <1>6, Moved
  <2> QED BY <1>1, <1>2, <1>3, <1>6, <2>2, <2>3
<1> QED BY <1>4, <1>5, <1>6 DEF emover

\* The other keys that leave the text alone.
LEMMA QuietKey ==
    ASSUME TypeOK, pc = "edit", CursorInText,
           (\E delta \in {-1, 1, -Rows, Rows} : emovev(delta)) \/ HomeEnd \/ RedrawOnly
    PROVE  CursorInText' /\ text' = text /\ pc' = "edit"
<1>1. /\ text \in Seq(Char) /\ etotal = Breaks(text) + 1 /\ Breaks(text) \in Nat
      /\ eline \in 1..(Breaks(text) + 1) /\ eline \in Nat /\ ecol \in Nat /\ ewant \in Nat
      /\ ecol <= ebllen(text, eline) /\ Rows \in Nat
      /\ eline \in etop..(etop + Rows - 1)
  BY BreaksIsUpto, EditorAssumption DEF TypeOK, CursorInText, TotalIsTrue
<1>2. ebllen(text, eline) \in Nat
  BY <1>1, LineBounds
<1>3. ASSUME NEW delta \in {-1, 1, -Rows, Rows}, emovev(delta)
      PROVE  CursorInText' /\ text' = text /\ pc' = "edit"
  <2> DEFINE n == eclamp(eline + delta)
             col == eclmcol(text, n, ewant)
  <2>1. eline + delta \in Int
    BY <1>1
  <2>2. n \in Nat \ {0} /\ n <= etotal
    BY <1>1, <2>1, ClampBounds
  <2>3. n \in 1..etotal /\ n \in Int
    BY <1>1, <2>2
  <2>4. col \in Nat /\ col <= ebllen(text, n)
    BY <1>1, <2>3, ClampBounds
  <2>5. CursorTo(n, col)
    BY <1>3 DEF emovev
  <2> HIDE DEF n, col
  <2> QED BY <2>3, <2>4, <2>5, Moved
<1>4. CASE HomeEnd
  <2>1. /\ text' = text /\ eline' = eline /\ etop' = etop /\ etotal' = etotal
        /\ pc' = "edit"
    BY <1>4 DEF HomeEnd, Finish
  <2>2. ecol' \in Nat /\ ecol' <= ebllen(text, eline)
    BY <1>2, <1>4 DEF HomeEnd
  <2>3. CursorInText'
    BY <1>1, <2>1, <2>2, Placed
  <2> QED BY <2>1, <2>3
<1>5. CASE RedrawOnly
  <2>1. /\ text' = text /\ eline' = eline /\ ecol' = ecol /\ etop' = etop
        /\ etotal' = etotal /\ pc' = "edit"
    BY <1>5 DEF RedrawOnly, Finish, curVars
  <2>2. CursorInText'
    BY <1>1, <2>1, Placed
  <2> QED BY <2>1, <2>2
<1> QED BY <1>3, <1>4, <1>5

\* A printable key or TAB.
LEMMA TypeKey ==
    ASSUME TypeOK, pc = "edit", CursorInText, NEW c \in Key \cup {TAB}, edins(c)
    PROVE  /\ CursorInText' /\ pc' = "edit" /\ Pos' = Pos + 1
           /\ text' = InsertAt(text, Pos + 1, c) /\ Room
<1>1. /\ text \in Seq(Char) /\ etotal = Breaks(text) + 1 /\ eline \in Nat \ {0}
      /\ ecol \in Nat /\ eline \in etop..(etop + Rows - 1)
      /\ c \in Char /\ c # CR
  <2>1. c # CR
    BY EditorAssumption DEF CR, TAB
  <2>2. c \in Char
    BY DEF Char
  <2> QED BY <2>1, <2>2 DEF TypeOK, CursorInText, TotalIsTrue
<1> DEFINE s == ebseek(text, eline)
           u == InsertAt(text, Pos + 1, c)
<1>2. /\ Pos \in 0..Len(text) /\ Pos = s + ecol /\ s \in Nat
      /\ ebindex(text, eline, ecol) = Pos /\ Starts(text, eline, s)
      /\ \A k \in (s + 1)..Pos : text[k] # CR
  BY <1>1, CursorPlace, LineBounds
<1>3. /\ Room /\ text' = u /\ ecol' = ecol + 1 /\ eline' = eline /\ etop' = etop
      /\ etotal' = etotal /\ pc' = "edit"
  BY <1>2 DEF edins, ebins, Finish
<1>4. u \in Seq(Char)
  BY <1>1, <1>2, InsertIsLonger
<1> HIDE DEF u, s
<1>5. s <= Pos /\ Pos + 1 - s = ecol + 1
  BY <1>1, <1>2
<1>6. /\ Breaks(u) = Breaks(text) /\ eline \in 1..(Breaks(u) + 1)
      /\ ebseek(u, eline) = s /\ Pos + 1 - s <= ebllen(u, eline)
  BY <1>1, <1>2, <1>5, Inserted DEF u
<1>7. CursorInText' /\ Pos' = ebseek(u, eline) + (ecol + 1)
  <2>1. ecol + 1 \in Nat /\ ecol + 1 <= ebllen(u, eline) /\ etotal' = Breaks(u) + 1
    BY <1>1, <1>3, <1>5, <1>6
  <2>2. eline \in etop'..(etop' + Rows - 1)
    BY <1>1, <1>3
  <2> QED BY <1>3, <1>4, <1>6, <2>1, <2>2, Placed
<1>8. Pos' = Pos + 1
  BY <1>1, <1>2, <1>6, <1>7
<1> QED BY <1>3, <1>7, <1>8 DEF u

\* Enter.
LEMMA EnterKey ==
    ASSUME TypeOK, pc = "edit", CursorInText, edenter
    PROVE  /\ CursorInText' /\ pc' = "edit" /\ Pos' = Pos + 1
           /\ text' = InsertAt(text, Pos + 1, CR) /\ Room
<1>1. /\ text \in Seq(Char) /\ etotal = Breaks(text) + 1 /\ eline \in Nat \ {0}
      /\ ecol \in Nat /\ CR \in Char /\ Breaks(text) \in Nat
  BY BreaksIsUpto DEF TypeOK, CursorInText, TotalIsTrue, Char
<1> DEFINE s == ebseek(text, eline)
           u == InsertAt(text, Pos + 1, CR)
<1>2. /\ Pos \in 0..Len(text) /\ Pos = s + ecol /\ s \in Nat
      /\ ebindex(text, eline, ecol) = Pos /\ Starts(text, eline, s)
      /\ \A k \in (s + 1)..Pos : text[k] # CR
  BY <1>1, CursorPlace, LineBounds
<1>3. /\ Room /\ text' = u /\ ecol' = 0 /\ eline' = eline + 1
      /\ etop' = evis(eline + 1, etotal + 1)
      /\ etotal' = etotal + 1 /\ pc' = "edit"
  BY <1>2 DEF edenter, ebins, Finish
<1>4. u \in Seq(Char)
  BY <1>1, <1>2, InsertIsLonger
<1> HIDE DEF u, s
<1>5. s <= Pos
  BY <1>1, <1>2
<1>6. /\ Breaks(u) = Breaks(text) + 1 /\ eline + 1 \in 1..(Breaks(u) + 1)
      /\ ebseek(u, eline + 1) = Pos + 1
  BY <1>1, <1>2, <1>5, Inserted DEF u
<1>7. CursorInText' /\ Pos' = ebseek(u, eline + 1) + 0
  <2>1. eline + 1 \in Nat \ {0} /\ eline + 1 \in Int /\ etotal + 1 \in Nat \ {0}
        /\ eline + 1 <= etotal + 1 /\ etotal' = Breaks(u) + 1
    BY <1>1, <1>3, <1>6
  <2>2. eline + 1 \in etop'..(etop' + Rows - 1)
    BY <1>3, <2>1, EvisShows
  <2>3. ebllen(u, eline + 1) \in Nat
    BY <1>4, <2>1, LineBounds
  <2>4. 0 \in Nat /\ 0 <= ebllen(u, eline + 1)
    BY <2>3
  <2> QED BY <1>3, <1>4, <1>6, <2>1, <2>2, <2>4, Placed
<1>8. Pos' = Pos + 1
  BY <1>2, <1>6, <1>7
<1> QED BY <1>3, <1>7, <1>8 DEF u

\* Backspace, if ebdel's answer is never negative.
LEMMA BackKey ==
    ASSUME TypeOK, pc = "edit", CursorInText, NoHighByte, edbksp
    PROVE  /\ CursorInText' /\ pc' = "edit"
           /\ Pos > 0 => Pos' = Pos - 1 /\ text' = RemoveAt(text, Pos)
           /\ Pos = 0 => Pos' = Pos /\ text' = text
<1>1. /\ text \in Seq(Char) /\ etotal = Breaks(text) + 1 /\ etotal \in Nat \ {0}
      /\ eline \in Nat \ {0} /\ ecol \in Nat /\ Breaks(text) \in Nat /\ Len(text) \in Nat
      /\ eline <= etotal /\ ecol <= ebllen(text, eline) /\ ebllen(text, eline) \in Nat
  <2>1. /\ text \in Seq(Char) /\ etotal = Breaks(text) + 1 /\ etotal \in Nat \ {0}
        /\ eline \in Nat \ {0} /\ ecol \in Nat /\ Breaks(text) \in Nat /\ Len(text) \in Nat
        /\ eline <= Breaks(text) + 1 /\ ecol <= ebllen(text, eline)
    BY LenProperties, BreaksIsUpto DEF TypeOK, CursorInText, TotalIsTrue
  <2> QED BY <2>1, LineBounds
<1> DEFINE s == ebseek(text, eline)
<1>2. /\ Pos \in 0..Len(text) /\ Pos \in Nat /\ Pos = s + ecol /\ s \in Nat
      /\ ebindex(text, eline, ecol) = Pos /\ Starts(text, eline, s)
      /\ \A k \in (s + 1)..Pos : text[k] # CR
      /\ eline \in 1..(Breaks(text) + 1)
  BY <1>1, CursorPlace, LineBounds
<1>3. etop' = evis(eline', etotal') /\ pc' = "edit"
  BY DEF edbksp, Finish
<1>4. ASSUME NEW pos, NEW n, NEW col, NEW total, BackTo(pos, n, col, total)
      PROVE  /\ Has(pos) /\ text' = RemoveAt(text, pos + 1)
             /\ eline' = n /\ ecol' = col /\ etotal' = total
  <2>1. Has(pos) /\ text[pos + 1] \in Char
    BY <1>4, DeletedFits DEF BackTo
  <2> QED BY <1>4, <2>1 DEF BackTo, ebdel, NoHighByte
<1>5. CASE ecol > 0 /\ BackTo(ebindex(text, eline, ecol) - 1, eline, ecol - 1, etotal)
  <2> DEFINE p == Pos - 1
             u == RemoveAt(text, p + 1)
  <2>1. /\ Has(p) /\ text' = u /\ eline' = eline /\ ecol' = ecol - 1 /\ etotal' = etotal
    BY <1>2, <1>4, <1>5
  <2>2. p \in 0..(Len(text) - 1) /\ s <= p /\ p + 1 = Pos /\ Pos \in (s + 1)..Pos
    BY <1>1, <1>2, <1>5
  <2>3. \A k \in (s + 1)..p : text[k] # CR
    BY <1>2, <2>2
  <2>4. text[p + 1] # CR
    BY <1>2, <2>2
  <2>5. u \in Seq(Char)
    BY <1>1, <2>2, RemoveIsShorter
  <2> HIDE DEF u
  <2>6. /\ Breaks(text) = Breaks(u) /\ eline \in 1..(Breaks(u) + 1)
        /\ ebseek(u, eline) = s /\ p - s <= ebllen(u, eline)
    BY <1>1, <1>2, <2>2, <2>3, <2>4, Erased DEF u
  <2> HIDE DEF s
  <2>7. ecol - 1 \in Nat /\ ecol - 1 = p - s /\ ecol - 1 <= ebllen(u, eline)
    BY <1>1, <1>2, <1>5, <2>6
  <2>8. eline \in etop'..(etop' + Rows - 1)
    BY <1>1, <1>3, <2>1, EvisShows
  <2>9. CursorInText' /\ Pos' = ebseek(u, eline) + (ecol - 1)
    BY <1>1, <1>3, <2>1, <2>5, <2>6, <2>7, <2>8, Placed
  <2>10. Pos' = Pos - 1 /\ Pos > 0 /\ text' = RemoveAt(text, Pos)
    BY <1>1, <1>2, <1>5, <2>1, <2>2, <2>6, <2>9 DEF u
  <2> QED BY <1>3, <2>9, <2>10
<1>6. CASE /\ ecol = 0 /\ eline > 1
           /\ BackTo(ebindex(text, eline, 0) - 1,
                     eline - 1, ebllen(text, eline - 1), Joined)
  <2> DEFINE p == Pos - 1
             n == eline - 1
             r == ebseek(text, n)
             u == RemoveAt(text, p + 1)
  <2>1. /\ Has(p) /\ text' = u /\ eline' = n /\ ecol' = ebllen(text, n) /\ etotal' = Joined
    BY <1>2, <1>4, <1>6
  <2>2. n \in 1..Breaks(text) /\ n \in Nat \ {0} /\ n \in Int /\ n + 1 = eline /\ Pos = s
        /\ n \in 1..(Breaks(text) + 1)
    BY <1>1, <1>2, <1>6
  <2>3. /\ r \in Nat /\ ebllen(text, n) \in Nat /\ LineEnd(text, r) \in Nat
        /\ LineEnd(text, r) = r + ebllen(text, n) /\ LineEnd(text, r) <= Len(text)
    BY <1>1, <2>2, LineBounds
  <2>4. s = LineEnd(text, r) + 1 /\ LineEnd(text, r) < Len(text)
    BY <1>1, <2>2, NextLine
  <2>5. Starts(text, n, r) /\ EndsAt(text, r, LineEnd(text, r))
    BY <1>1, <2>2, SeekFinds, SeekType, LineEndFinds
  <2> HIDE DEF r, s
  <2>6. p \in 0..(Len(text) - 1) /\ r <= p /\ p = LineEnd(text, r) /\ p + 1 = Pos
        /\ p = r + ebllen(text, n) /\ Pos > 0
    <3> HIDE DEF n
    <3>1. p = LineEnd(text, r) /\ p + 1 = Pos
      BY <1>2, <2>2, <2>3, <2>4
    <3>2. p \in Nat /\ r <= p /\ p < Len(text) /\ p = r + ebllen(text, n)
      BY <2>3, <2>4, <3>1
    <3> QED BY <1>1, <3>1, <3>2
  <2>7. \A k \in (r + 1)..p : text[k] # CR
    BY <2>5, <2>6 DEF EndsAt
  <2>8. text[p + 1] = CR
    BY <1>1, <2>4, <2>5, <2>6 DEF EndsAt
  <2>9. u \in Seq(Char)
    BY <1>1, <2>6, RemoveIsShorter
  <2> HIDE DEF u, p, n
  <2>10. /\ Breaks(text) = Breaks(u) + 1 /\ Breaks(u) \in Nat /\ n \in 1..(Breaks(u) + 1)
         /\ ebseek(u, n) = r /\ p - r <= ebllen(u, n)
    BY <1>1, <2>2, <2>5, <2>6, <2>7, <2>8, Erased DEF u
  <2>11. ebllen(text, n) <= ebllen(u, n)
    BY <2>2, <2>3, <2>6, <2>10
  <2>12. Joined = Breaks(u) + 1
    BY <1>1, <2>10, MaxOfTwo DEF Joined
  <2>13. n \in etop'..(etop' + Rows - 1)
    <3>1. Joined \in Nat \ {0} /\ n <= Joined
      BY <2>2, <2>10, <2>12
    <3> QED BY <1>3, <2>1, <2>2, <3>1, EvisShows
  <2>14. CursorInText' /\ Pos' = ebseek(u, n) + ebllen(text, n)
    BY <1>1, <1>3, <2>1, <2>3, <2>9, <2>10, <2>11, <2>12, <2>13, Placed
  <2>15. Pos' = Pos - 1
    BY <2>6, <2>10, <2>14 DEF p
  <2> QED BY <1>3, <2>1, <2>6, <2>14, <2>15 DEF u, p
<1>7. CASE ~Has(ebindex(text, eline, ecol) - 1) /\ UNCHANGED <<text, curVars, etotal>>
  <2>1. /\ text' = text /\ eline' = eline /\ ecol' = ecol /\ etotal' = etotal
    BY <1>7 DEF curVars
  <2>2. Pos = 0
    <3>1. ~(Pos - 1 \in 0..(Len(text) - 1))
      BY <1>2, <1>7 DEF Has
    <3> HIDE DEF s
    <3> QED BY <1>1, <1>2, <3>1
  <2>3. eline \in etop'..(etop' + Rows - 1)
    BY <1>1, <1>3, <2>1, EvisShows
  <2>4. CursorInText' /\ Pos' = ebseek(text, eline) + ecol
    BY <1>1, <1>2, <1>3, <2>1, <2>3, Placed
  <2> QED BY <1>2, <1>3, <2>1, <2>2, <2>4
<1> QED BY <1>5, <1>6, <1>7 DEF edbksp

\* Delete.
LEMMA DeleteKey ==
    ASSUME TypeOK, pc = "edit", CursorInText, eddel
    PROVE  /\ CursorInText' /\ pc' = "edit" /\ Pos' = Pos
           /\ \/ Pos < Len(text) /\ text' = RemoveAt(text, Pos + 1)
              \/ text' = text
<1>1. /\ text \in Seq(Char) /\ etotal = Breaks(text) + 1 /\ etotal \in Nat \ {0}
      /\ eline \in Nat \ {0} /\ ecol \in Nat /\ Breaks(text) \in Nat /\ Len(text) \in Nat
      /\ eline <= etotal /\ ecol <= ebllen(text, eline) /\ ebllen(text, eline) \in Nat
  <2>1. /\ text \in Seq(Char) /\ etotal = Breaks(text) + 1 /\ etotal \in Nat \ {0}
        /\ eline \in Nat \ {0} /\ ecol \in Nat /\ Breaks(text) \in Nat /\ Len(text) \in Nat
        /\ eline <= Breaks(text) + 1 /\ ecol <= ebllen(text, eline)
    BY LenProperties, BreaksIsUpto DEF TypeOK, CursorInText, TotalIsTrue
  <2> QED BY <2>1, LineBounds
<1> DEFINE s == ebseek(text, eline)
           u == RemoveAt(text, Pos + 1)
<1>2. /\ Pos \in 0..Len(text) /\ Pos \in Nat /\ Pos = s + ecol /\ s \in Nat
      /\ ebindex(text, eline, ecol) = Pos /\ Starts(text, eline, s)
      /\ \A k \in (s + 1)..Pos : text[k] # CR
      /\ eline \in 1..(Breaks(text) + 1)
  BY <1>1, CursorPlace, LineBounds
<1>3. /\ text' = IF Has(Pos) THEN u ELSE text
      /\ etotal' = IF Has(Pos) /\ text[Pos + 1] = CR THEN Joined ELSE etotal
      /\ eline' = eline /\ ecol' = eclmcol(text', eline, ecol)
      /\ etop' = evis(eline, etotal') /\ pc' = "edit"
  BY <1>2 DEF eddel, ebdel, Finish
<1>4. ASSUME NEW t \in Seq(Char), ecol <= ebllen(t, eline)
      PROVE  eclmcol(t, eline, ecol) = ecol
  <2>1. ebllen(t, eline) \in Nat
    BY <1>1, LineBounds
  <2> QED BY <1>1, <1>4, <2>1, MinOfTwo DEF eclmcol
<1>5. CASE Has(Pos)
  <2>1. Pos \in 0..(Len(text) - 1) /\ Pos < Len(text)
    BY <1>1, <1>5 DEF Has
  <2>2. s <= Pos /\ Pos - s = ecol
    <3> HIDE DEF s
    <3> QED BY <1>1, <1>2
  <2>3. u \in Seq(Char) /\ text' = u
    BY <1>1, <1>3, <1>5, <2>1, RemoveIsShorter
  <2> HIDE DEF u, s
  <2>4. /\ Breaks(text) = IF text[Pos + 1] = CR THEN Breaks(u) + 1 ELSE Breaks(u)
        /\ Breaks(u) \in Nat /\ eline \in 1..(Breaks(u) + 1)
        /\ ebseek(u, eline) = s /\ Pos - s <= ebllen(u, eline)
    BY <1>1, <1>2, <2>1, <2>2, Erased DEF u
  <2>5. etotal' = Breaks(u) + 1
    <3>1. CASE text[Pos + 1] = CR
      <4>1. Joined = Breaks(u) + 1
        BY <1>1, <2>4, <3>1, MaxOfTwo DEF Joined
      <4> QED BY <1>3, <1>5, <3>1, <4>1
    <3>2. CASE text[Pos + 1] # CR
      BY <1>1, <1>3, <2>4, <3>2
    <3> QED BY <3>1, <3>2
  <2>6. ecol <= ebllen(u, eline) /\ ecol' = ecol
    BY <1>3, <1>4, <2>2, <2>3, <2>4
  <2>7. eline \in etop'..(etop' + Rows - 1)
    <3>1. Breaks(u) + 1 \in Nat \ {0} /\ eline <= Breaks(u) + 1
      BY <2>4
    <3> QED BY <1>1, <1>3, <2>5, <3>1, EvisShows
  <2>8. CursorInText' /\ Pos' = ebseek(u, eline) + ecol
    BY <1>1, <1>3, <2>3, <2>4, <2>5, <2>6, <2>7, Placed
  <2>9. Pos' = Pos
    BY <1>2, <2>4, <2>8
  <2> QED BY <1>3, <2>1, <2>3, <2>8, <2>9 DEF u
<1>6. CASE ~Has(Pos)
  <2>1. text' = text /\ etotal' = etotal /\ ecol' = ecol
    BY <1>1, <1>3, <1>4, <1>6
  <2>2. eline \in etop'..(etop' + Rows - 1)
    BY <1>1, <1>3, <2>1, EvisShows
  <2>3. CursorInText' /\ Pos' = ebseek(text, eline) + ecol
    BY <1>1, <1>2, <1>3, <2>1, <2>2, Placed
  <2> QED BY <1>2, <1>3, <2>1, <2>3
<1> QED BY <1>5, <1>6

\* Every key keeps the cursor in the text.
LEMMA KeyKeeps ==
    ASSUME TypeOK, pc = "edit", CursorInText, NoHighByte, editstep
    PROVE  CursorInText' /\ pc' = "edit"
BY LeftKey, RightKey, QuietKey, TypeKey, EnterKey, BackKey, DeleteKey DEF editstep

\* So does every step, if the editor starts on the right line count.
LEMMA CursorStays ==
    /\ Init => EInv
    /\ ~StaleEntry /\ NoHighByte /\ EInv /\ [Next]_vars => EInv'
<1>1. Init => EInv
  BY TypeAndFrame DEF EInv, Init
<1>2. ASSUME ~StaleEntry, NoHighByte, EInv, [Next]_vars PROVE EInv'
  <2>1. TypeOK' /\ ScreenIsFresh'
    BY <1>2, TypeAndFrame DEF EInv
  <2> SUFFICES ASSUME pc' = "edit" PROVE CursorInText'
    BY <2>1 DEF EInv
  <2>2. CASE editstep
    <3>1. pc = "edit"
      BY <2>2 DEF editstep, emovev, emovel, emover, HomeEnd, RedrawOnly, edins, edenter,
                  edbksp, eddel, CursorTo, Finish
    <3> QED BY <1>2, <2>2, <3>1, KeyKeeps DEF EInv
  <2>3. CASE EnterEditor
    <3>1. /\ text' = text /\ eline' = 1 /\ ecol' = 0 /\ etop' = 1 /\ pc' = "edit"
          /\ etotal' = Breaks(text) + 1
      BY <1>2, <2>3 DEF EnterEditor, docVars
    <3>2. text \in Seq(Char) /\ Breaks(text) \in Nat
      BY <1>2, BreaksIsUpto DEF EInv, TypeOK
    <3>3. 1 \in 1..(Breaks(text) + 1) /\ 0 <= ebllen(text, 1) /\ 1 \in 1..(1 + Rows - 1)
      BY <3>2, LineBounds, EditorAssumption
    <3> QED BY <3>1, <3>2, <3>3, Placed
  <2>4. CASE LoadDocument \/ LeaveEditor \/ EnterViewer \/ ViewKey \/ LeaveViewer
    BY <2>4 DEF LoadDocument, LeaveEditor, EnterViewer, ViewKey, LeaveViewer
  <2>5. CASE UNCHANGED vars
    BY <1>2, <2>5 DEF vars, docVars, curVars, viewVars, EInv, CursorInText, TotalIsTrue
  <2> QED BY <1>2, <2>2, <2>3, <2>4, <2>5 DEF Next
<1> QED BY <1>1, <1>2

\* The cursor of an editor that was started on the right line count is always on a
\* line of the text, no further than its end, and on the screen, and the line count of
\* the keys is true.
THEOREM CursorStaysInText ==
    ASSUME ~StaleEntry, NoHighByte
    PROVE  Spec => [](pc = "edit" => CursorInText)
<1>1. Init => EInv
  BY CursorStays
<1>2. EInv /\ [Next]_vars => EInv'
  BY CursorStays
<1>3. EInv => (pc = "edit" => CursorInText)
  BY DEF EInv
<1> QED BY <1>1, <1>2, <1>3, PTL DEF Spec

\* Left and Right move by one character, across line ends too, and Backspace deletes
\* the character to the left of the cursor, and only that.
THEOREM KeysActThere == ASSUME ~StaleEntry, NoHighByte PROVE Spec => KeysActAtCursor
<1> DEFINE A == /\ emovel => Pos' = Max({0, Pos - 1})
                /\ emover => Pos' = Min({Pos + 1, Len(text)})
                /\ edbksp /\ Pos > 0 => Pos' = Pos - 1 /\ text' = RemoveAt(text, Pos)
<1>1. Init => EInv
  BY CursorStays
<1>2. EInv /\ [Next]_vars => EInv'
  BY CursorStays
<1>3. ASSUME EInv PROVE A
  <2>1. emovel \/ emover \/ edbksp => TypeOK /\ CursorInText /\ pc = "edit"
    BY <1>3 DEF EInv, emovel, emover, edbksp, CursorTo, Finish
  <2> QED BY <2>1, LeftKey, RightKey, BackKey
<1>4. EInv /\ [Next]_vars => [A]_vars
  BY <1>3
<1> QED BY <1>1, <1>2, <1>4, PTL DEF Spec, KeysActAtCursor

-----------------------------------------------------------------------------
(* What is drawn and where the cursor is put: two folds over a line.       *)

\* One more character: c in edxcol's count, or the one at i in vline's cells.
Further(t, drawn, x, i) ==
    IF drawn = "cells" THEN x \o [k \in 1..(IF t[i + 1] = TAB THEN TabW - (Len(x) % TabW) ELSE 1) |-> i]
    ELSE NextCol(x, i)

\* g is what FoldLeft builds from base over the sets of the first n of seq.
Folds(g, t, drawn, base, seq, n) ==
    g = [s \in SUBSET (1..n) |-> IF s = {} THEN base ELSE Further(t, drawn, g[s \ {Max(s)}], seq[Max(s)])]

LEMMA MaxOfNats ==
    ASSUME NEW n \in Nat, NEW s \in SUBSET (1..n), s # {}
    PROVE  Max(s) \in s /\ (n \in s => Max(s) = n) /\ Max(s) \in 1..n
<1> DEFINE D == {n - y : y \in s}
<1>1. D \in SUBSET Nat /\ D # {}
  <2>1. \A y \in s : n - y \in Nat
    OBVIOUS
  <2> QED BY <2>1
<1>2. PICK d \in D : \A j \in D : d <= j
  BY <1>1, MinOfNats
<1>3. PICK x \in s : d = n - x
  BY <1>2
<1>4. \A y \in s : n - x <= n - y
  BY <1>2, <1>3
<1>5. \A y \in s : x >= y
  BY <1>3, <1>4
<1> HIDE DEF D
<1>6. Max(s) \in s /\ \A y \in s : Max(s) >= y
  BY <1>3, <1>5 DEF Max
<1>7. Max(s) \in 1..n
  BY <1>6
<1> QED BY <1>6, <1>7

\* The function in FoldLeft's definition exists: the least n for which it did not
\* would be one more than an n for which it does.
LEMMA FoldExists ==
    ASSUME NEW t, NEW drawn, NEW base, NEW seq, NEW n \in Nat
    PROVE  \E g : Folds(g, t, drawn, base, seq, n)
<1> DEFINE Bad == {i \in Nat : ~ \E g : Folds(g, t, drawn, base, seq, i)}
<1>1. SUFFICES ASSUME Bad # {} PROVE FALSE
  OBVIOUS
<1>2. PICK i \in Bad : \A j \in Bad : i <= j
  BY <1>1, MinOfNats
<1>3. CASE i = 0
  <2> DEFINE g == [s \in SUBSET (1..0) |-> base]
  <2>1. \A s \in SUBSET (1..0) : s = {}
    OBVIOUS
  <2>2. Folds(g, t, drawn, base, seq, 0)
    BY <2>1 DEF Folds
  <2> QED BY <1>2, <1>3, <2>2
<1>4. CASE i # 0
  <2>1. i - 1 \in Nat /\ i - 1 \notin Bad
    BY <1>2, <1>4
  <2>2. PICK h : Folds(h, t, drawn, base, seq, i - 1)
    BY <2>1
  <2> DEFINE g == [s \in SUBSET (1..i) |->
                      IF i \in s THEN Further(t, drawn, h[s \ {i}], seq[i]) ELSE h[s]]
             G(s) == IF s = {} THEN base ELSE Further(t, drawn, g[s \ {Max(s)}], seq[Max(s)])
  <2>3. \A s \in SUBSET (1..i) : s \ {i} \in SUBSET (1..i - 1) /\ s \ {i} \in SUBSET (1..i)
    BY <2>1
  <2>4. \A s \in SUBSET (1..i - 1) : s \in SUBSET (1..i) /\ g[s] = h[s]
    BY <2>1
  <2>5. ASSUME NEW s \in SUBSET (1..i) PROVE g[s] = G(s)
    <3>1. CASE i \in s
      <4>1. Max(s) = i
        BY <1>2, <3>1, MaxOfNats
      <4>2. g[s \ {i}] = h[s \ {i}]
        BY <2>3, <2>4
      <4> HIDE DEF g
      <4>3. g[s] = Further(t, drawn, h[s \ {i}], seq[i])
        BY <3>1 DEF g
      <4> QED BY <3>1, <4>1, <4>2, <4>3
    <3>2. CASE i \notin s
      <4>1. s \in SUBSET (1..i - 1)
        BY <2>3, <3>2
      <4>2. g[s] = h[s]
        BY <2>4, <4>1
      <4>3. h[s] = IF s = {} THEN base ELSE Further(t, drawn, h[s \ {Max(s)}], seq[Max(s)])
        BY <2>2, <4>1 DEF Folds
      <4>4. s # {} => s \ {Max(s)} \in SUBSET (1..i - 1)
        BY <4>1
      <4>5. s # {} => g[s \ {Max(s)}] = h[s \ {Max(s)}]
        BY <2>4, <4>4
      <4> HIDE DEF g
      <4> QED BY <4>2, <4>3, <4>5
    <3> QED BY <3>1, <3>2
  <2>6. g = [s \in SUBSET (1..i) |-> G(s)]
    <3>1. g = [s \in SUBSET (1..i) |-> g[s]]
      OBVIOUS
    <3> HIDE DEF g, G
    <3> QED BY <2>5, <3>1
  <2>7. Folds(g, t, drawn, base, seq, i)
    BY <2>6 DEF Folds
  <2> QED BY <1>2, <2>7
<1> QED BY <1>3, <1>4

\* The same, one character at a time: h[k] is what the first k make of base.
Walks(h, t, drawn, base, seq, n) ==
    /\ h[0] = base
    /\ \A k \in 1..n : h[k] = Further(t, drawn, h[k - 1], seq[k])

LEMMA FoldWalks ==
    ASSUME NEW t, NEW drawn, NEW base, NEW seq, NEW n \in Nat, NEW g,
           Folds(g, t, drawn, base, seq, n)
    PROVE  \E h : Walks(h, t, drawn, base, seq, n) /\ h[n] = g[1..n]
<1> DEFINE h == [k \in 0..n |-> g[1..k]]
<1>1. h[0] = base
  <2>1. 1..0 = {} /\ 0 \in 0..n /\ 1..0 \in SUBSET (1..n)
    OBVIOUS
  <2> QED BY <2>1 DEF Folds
<1>2. ASSUME NEW k \in 1..n PROVE h[k] = Further(t, drawn, h[k - 1], seq[k])
  <2>1. k \in Nat /\ k \in 0..n /\ k - 1 \in 0..n /\ 1..k \in SUBSET (1..n) /\ 1..k # {}
    BY <1>2
  <2>2. (1..k) \ {k} = 1..(k - 1) /\ k \in 1..k
    BY <1>2
  <2>3. Max(1..k) = k
    BY <2>1, <2>2, MaxOfNats
  <2>4. g[1..k] = Further(t, drawn, g[(1..k) \ {k}], seq[k])
    BY <2>1, <2>3 DEF Folds
  <2> QED BY <2>1, <2>2, <2>4
<1>3. h[n] = g[1..n]
  OBVIOUS
<1> HIDE DEF h
<1> QED BY <1>1, <1>2, <1>3 DEF Walks

\* The same for the two walks.  The cursor: q characters from i on are counted.
Counted(c, t, i, q) ==
    /\ c[0] = 1
    /\ \A k \in 1..q : c[k] = NextCol(c[k - 1], t[i + k])

\* The line: m characters from i on are drawn.
Drawn(d, t, i, m) ==
    /\ d[0] = <<>>
    /\ \A k \in 1..m : d[k] = Further(t, "cells", d[k - 1], i + k - 1)

LEMMA edxcolWalks ==
    ASSUME NEW t \in Seq(Char), NEW m, NEW col, NEW left,
           NEW i \in 0..Len(t), NEW p \in i..Len(t),
           ebindex(t, m, left) = i, ebindex(t, m, col) = p
    PROVE  \E c : Counted(c, t, i, p - i) /\ edxcol(t, m, col, left) = c[p - i]
<1> DEFINE seq == SubSeq(t, i + 1, p)
           n == p - i
           one == 1
           f == CHOOSE g : g = [s \in SUBSET (DOMAIN seq) |->
                   IF s = {} THEN one ELSE NextCol(g[s \ {Max(s)}], seq[Max(s)])]
<1>1. edxcol(t, m, col, left) = f[DOMAIN seq]
  BY DEF edxcol, FoldLeft, MapThenFoldSet
<1>2. n \in Nat /\ seq = [k \in 1..n |-> t[i + k]] /\ DOMAIN seq = 1..n
  <2>1. Len(t) \in Nat /\ i \in Nat /\ p \in Nat /\ i + 1 \in Nat
    BY LenProperties
  <2>2. seq = [k \in 1..(p - (i + 1) + 1) |-> t[(i + 1) + k - 1]]
    BY <2>1 DEF SubSeq
  <2>3. p - (i + 1) + 1 = n /\ \A k \in 1..n : (i + 1) + k - 1 = i + k
    BY <2>1
  <2> QED BY <2>1, <2>2, <2>3
<1> HIDE DEF seq, n, one
<1>3. n \in Nat /\ DOMAIN seq = 1..n
  BY <1>2
<1>4. \A x, c : NextCol(x, c) = Further(t, "columns", x, c)
  BY DEF Further
<1>5. \E g : g = [s \in SUBSET (DOMAIN seq) |->
                   IF s = {} THEN one ELSE NextCol(g[s \ {Max(s)}], seq[Max(s)])]
  <2>1. PICK g : Folds(g, t, "columns", one, seq, n)
    BY <1>3, FoldExists
  <2> QED BY <1>3, <1>4, <2>1 DEF Folds
<1>6. f = [s \in SUBSET (DOMAIN seq) |->
                   IF s = {} THEN one ELSE NextCol(f[s \ {Max(s)}], seq[Max(s)])]
  BY <1>5
<1> HIDE DEF f
<1>7. Folds(f, t, "columns", one, seq, n)
  BY <1>2, <1>4, <1>6 DEF Folds
<1>8. PICK h : Walks(h, t, "columns", one, seq, n) /\ h[n] = f[1..n]
  BY <1>3, <1>7, FoldWalks
<1>9. Counted(h, t, i, n)
  <2>1. \A k \in 1..n : seq[k] = t[i + k]
    BY <1>2
  <2> QED BY <1>4, <1>8, <2>1 DEF Walks, Counted, one
<1> QED BY <1>1, <1>8, <1>3, <1>9 DEF n

\* With no character between them, the cursor is in the first column.
LEMMA edxcolNone ==
    ASSUME NEW t \in Seq(Char), NEW m, NEW col, NEW left, NEW i \in 0..Len(t),
           ebindex(t, m, left) = i, ebindex(t, m, col) = i
    PROVE  edxcol(t, m, col, left) = 1
<1>1. i \in i..Len(t) /\ i - i = 0
  BY LenProperties
<1>2. PICK c : Counted(c, t, i, i - i) /\ edxcol(t, m, col, left) = c[i - i]
  BY <1>1, edxcolWalks
<1> QED BY <1>1, <1>2 DEF Counted

LEMMA vlineWalks ==
    ASSUME NEW t, NEW m, NEW left, LineEnd(t, ebindex(t, m, left)) - ebindex(t, m, left) \in Nat
    PROVE  LET i == ebindex(t, m, left)
               n == LineEnd(t, i) - i
           IN  \E d : Drawn(d, t, i, n) /\ vline(t, m, left) = d[n]
<1> DEFINE i == ebindex(t, m, left)
           n == LineEnd(t, i) - i
           seq == [k \in 1..n |-> i + k - 1]
           F(x, j) == x \o [k \in 1..(IF t[j + 1] = TAB THEN TabW - (Len(x) % TabW) ELSE 1) |-> j]
           f == CHOOSE g : g = [s \in SUBSET (DOMAIN seq) |->
                   IF s = {} THEN <<>> ELSE F(g[s \ {Max(s)}], seq[Max(s)])]
<1>1. vline(t, m, left) = f[DOMAIN seq]
  BY DEF vline, FoldLeft, MapThenFoldSet
<1>2. DOMAIN seq = 1..n /\ n \in Nat
  OBVIOUS
<1>3. \A x, j : F(x, j) = Further(t, "cells", x, j)
  BY DEF Further
<1> HIDE DEF seq, F, i, n
<1>4. \E g : g = [s \in SUBSET (DOMAIN seq) |->
                   IF s = {} THEN <<>> ELSE F(g[s \ {Max(s)}], seq[Max(s)])]
  <2>1. PICK g : Folds(g, t, "cells", <<>>, seq, n)
    BY <1>2, FoldExists
  <2> QED BY <1>2, <1>3, <2>1 DEF Folds
<1>5. f = [s \in SUBSET (DOMAIN seq) |->
                   IF s = {} THEN <<>> ELSE F(f[s \ {Max(s)}], seq[Max(s)])]
  BY <1>4
<1> HIDE DEF f
<1>6. Folds(f, t, "cells", <<>>, seq, n)
  BY <1>2, <1>3, <1>5 DEF Folds
<1>7. PICK h : Walks(h, t, "cells", <<>>, seq, n) /\ h[n] = f[1..n]
  BY <1>2, <1>6, FoldWalks
<1>8. Drawn(h, t, i, n)
  <2>1. \A k \in 1..n : seq[k] = i + k - 1
    BY DEF seq
  <2> QED BY <1>7, <2>1 DEF Walks, Drawn
<1> QED BY <1>1, <1>2, <1>7, <1>8 DEF n, i

\* A set that holds a and, up to n, with every number the next, holds a..n.
LEMMA Climbs ==
    ASSUME NEW S, NEW a \in Nat, NEW n \in Nat, a <= n,
           a \in S, \A k \in a..(n - 1) : k \in S => k + 1 \in S
    PROVE  \A k \in a..n : k \in S
<1> DEFINE Bad == {k \in a..n : k \notin S}
<1>1. SUFFICES ASSUME Bad # {} PROVE FALSE
  OBVIOUS
<1>2. Bad \in SUBSET Nat
  OBVIOUS
<1>3. PICK k \in Bad : \A j \in Bad : k <= j
  BY <1>1, <1>2, MinOfNats
<1>4. k \in a..n /\ k \notin S /\ k # a
  BY <1>3
<1>5. k - 1 \in a..(n - 1) /\ k - 1 \in a..n /\ ~(k <= k - 1) /\ (k - 1) + 1 = k
  BY <1>4
<1>6. k - 1 \in S
  BY <1>3, <1>5
<1> QED BY <1>4, <1>5, <1>6

\* What one more character draws: behind the cells there are, and at least one.
LEMMA OneDrawn ==
    ASSUME NEW t, NEW x \in Seq(Int), NEW j \in Int, NEW y, y = Further(t, "cells", x, j)
    PROVE  /\ y \in Seq(Int) /\ Len(x) < Len(y)
           /\ \A r \in 1..Len(x) : y[r] = x[r]
           /\ \A r \in (Len(x) + 1)..Len(y) : y[r] = j
           /\ Len(y) = Len(x) + (IF t[j + 1] = TAB THEN TabW - (Len(x) % TabW) ELSE 1)
<1> DEFINE w == IF t[j + 1] = TAB THEN TabW - (Len(x) % TabW) ELSE 1
           z == [k \in 1..w |-> j]
<1>1. Len(x) \in Nat /\ TabW \in Nat \ {0}
  BY LenProperties, EditorAssumption
<1>2. Len(x) % TabW \in 0..(TabW - 1)
  BY <1>1
<1>3. w \in Nat \ {0}
  BY <1>1, <1>2
<1>4. y = x \o z
  BY DEF Further
<1> HIDE DEF w
<1>5. z \in Seq(Int) /\ Len(z) = w /\ \A k \in 1..w : z[k] = j
  BY <1>3
<1> HIDE DEF z
<1>6. y \in Seq(Int) /\ Len(y) = Len(x) + w
  BY <1>4, <1>5, ConcatProperties
<1>7. \A r \in 1..Len(x) : y[r] = x[r]
  BY <1>1, <1>3, <1>4, <1>5
<1>8. ASSUME NEW r \in (Len(x) + 1)..Len(y) PROVE y[r] = j
  <2>1. r - Len(x) \in 1..w /\ r \in 1..(Len(x) + w) /\ r > Len(x)
    BY <1>1, <1>3, <1>6
  <2>2. y[r] = z[r - Len(x)]
    BY <1>1, <1>3, <1>4, <1>5, <2>1
  <2> QED BY <1>5, <2>1, <2>2
<1> QED BY <1>1, <1>3, <1>6, <1>7, <1>8 DEF w

\* The same, in the walk along a line.
NextCells(d, t, i, k) ==
    /\ d[k + 1] \in Seq(Int) /\ Len(d[k]) < Len(d[k + 1])
    /\ \A r \in 1..Len(d[k]) : d[k + 1][r] = d[k][r]
    /\ \A r \in (Len(d[k]) + 1)..Len(d[k + 1]) : d[k + 1][r] = i + k
    /\ Len(d[k + 1]) = Len(d[k]) + (IF t[(i + k) + 1] = TAB THEN TabW - (Len(d[k]) % TabW) ELSE 1)

LEMMA NextDrawn ==
    ASSUME NEW t, NEW i \in Nat, NEW m \in Nat, NEW d, Drawn(d, t, i, m),
           NEW k \in 0..(m - 1), d[k] \in Seq(Int)
    PROVE  NextCells(d, t, i, k)
<1>1. k + 1 \in 1..m /\ (k + 1) - 1 = k /\ i + (k + 1) - 1 = i + k /\ i + k \in Int
  OBVIOUS
<1>2. d[k + 1] = Further(t, "cells", d[k], i + k)
  BY <1>1 DEF Drawn
<1>3. PICK j \in Int : j = i + k
  BY <1>1
<1>4. PICK x \in Seq(Int) : x = d[k]
  OBVIOUS
<1>5. PICK y : y = d[k + 1]
  OBVIOUS
<1>6. y = Further(t, "cells", x, j)
  BY <1>2, <1>3, <1>4, <1>5
<1>7. /\ y \in Seq(Int) /\ Len(x) < Len(y)
      /\ \A r \in 1..Len(x) : y[r] = x[r]
      /\ \A r \in (Len(x) + 1)..Len(y) : y[r] = j
      /\ Len(y) = Len(x) + (IF t[j + 1] = TAB THEN TabW - (Len(x) % TabW) ELSE 1)
  BY <1>6, OneDrawn
<1> QED BY <1>3, <1>4, <1>5, <1>7 DEF NextCells

\* The cells of the first k characters of the line are theirs.
LEMMA CellsAreTheirs ==
    ASSUME NEW t, NEW i \in Nat, NEW m \in Nat, NEW d,
           Drawn(d, t, i, m)
    PROVE  \A k \in 0..m : d[k] \in Seq(Int) /\ \A r \in 1..Len(d[k]) : d[k][r] < i + k
<1> DEFINE S == {k \in 0..m : d[k] \in Seq(Int) /\ \A r \in 1..Len(d[k]) : d[k][r] < i + k}
<1>1. 0 \in S
  <2>1. d[0] = <<>> /\ 0 \in 0..m
    BY DEF Drawn
  <2>2. <<>> \in Seq(Int) /\ Len(<<>>) = 0 /\ 1..0 = {}
    OBVIOUS
  <2> QED BY <2>1, <2>2
<1>2. ASSUME NEW k \in 0..(m - 1), k \in S PROVE k + 1 \in S
  <2>1. k + 1 \in 1..m /\ (k + 1) - 1 = k /\ i + (k + 1) - 1 = i + k /\ k + 1 \in 0..m /\ i + k \in Int
    OBVIOUS
  <2>3. /\ d[k + 1] \in Seq(Int) /\ Len(d[k]) < Len(d[k + 1])
        /\ \A r \in 1..Len(d[k]) : d[k + 1][r] = d[k][r]
        /\ \A r \in (Len(d[k]) + 1)..Len(d[k + 1]) : d[k + 1][r] = i + k
    <3>1. d[k] \in Seq(Int)
      BY <1>2
    <3>2. NextCells(d, t, i, k)
      BY <3>1, NextDrawn
    <3> QED BY <3>2 DEF NextCells
  <2>4. ASSUME NEW r \in 1..Len(d[k + 1]) PROVE d[k + 1][r] < i + (k + 1)
    <3>1. Len(d[k]) \in Nat /\ Len(d[k + 1]) \in Nat
      BY <1>2, <2>3, LenProperties
    <3>2. CASE r <= Len(d[k])
      <4>1. r \in 1..Len(d[k])
        BY <3>1, <3>2
      <4>2. d[k][r] < i + k /\ d[k][r] \in Int /\ d[k + 1][r] = d[k][r]
        BY <1>2, <2>3, <4>1
      <4> QED BY <2>1, <4>2
    <3>3. CASE ~(r <= Len(d[k]))
      <4>1. r \in (Len(d[k]) + 1)..Len(d[k + 1])
        BY <3>1, <3>3
      <4> QED BY <2>1, <2>3, <4>1
    <3> QED BY <3>2, <3>3
  <2> QED BY <2>1, <2>3, <2>4
<1>3. \A k \in 0..m : k \in S
  <2> HIDE DEF S
  <2> QED BY <1>1, <1>2, Climbs
<1> QED BY <1>3

\* edxcol counts as many columns as vline fills.
LEMMA ColumnsMeet ==
    ASSUME NEW t, NEW i \in Nat, NEW m \in Nat, NEW q \in 0..m, NEW c, NEW d,
           Counted(c, t, i, q),
           Drawn(d, t, i, m)
    PROVE  c[q] = Len(d[q]) + 1
<1> DEFINE S == {k \in 0..q : c[k] = Len(d[k]) + 1}
<1>1. 0 \in S
  BY DEF Drawn, Counted
<1>2. ASSUME NEW k \in 0..(q - 1), k \in S PROVE k + 1 \in S
  <2>1. /\ k + 1 \in 1..m /\ k + 1 \in 1..q /\ (k + 1) - 1 = k /\ i + (k + 1) - 1 = i + k
        /\ k + 1 \in 0..q /\ i + k \in Int /\ i + (k + 1) = (i + k) + 1
    OBVIOUS
  <2>3. c[k + 1] = NextCol(c[k], t[(i + k) + 1])
    BY <2>1 DEF Counted
  <2>2. k \in 0..(m - 1) /\ k \in 0..m
    OBVIOUS
  <2>4. d[k] \in Seq(Int)
    BY <2>2, CellsAreTheirs
  <2>5. Len(d[k + 1]) = Len(d[k]) + (IF t[(i + k) + 1] = TAB THEN TabW - (Len(d[k]) % TabW) ELSE 1)
    <3>1. NextCells(d, t, i, k)
      BY <2>2, <2>4, NextDrawn
    <3> QED BY <3>1 DEF NextCells
  <2>6. Len(d[k]) \in Nat /\ c[k] = Len(d[k]) + 1 /\ c[k] - 1 = Len(d[k])
    BY <1>2, <2>4, LenProperties
  <2>7. TabW \in Nat \ {0} /\ Len(d[k]) % TabW \in Int
    BY <2>6, EditorAssumption
  <2>8. PICK x \in Int : x = Len(d[k]) % TabW
    BY <2>7
  <2>9. c[k + 1] = IF t[(i + k) + 1] = TAB THEN c[k] + (TabW - x) ELSE c[k] + 1
    BY <2>3, <2>6, <2>8 DEF NextCol
  <2>10. Len(d[k + 1]) = IF t[(i + k) + 1] = TAB THEN Len(d[k]) + (TabW - x) ELSE Len(d[k]) + 1
    BY <2>5, <2>8
  <2>11. c[k + 1] = Len(d[k + 1]) + 1
    BY <2>6, <2>7, <2>9, <2>10
  <2> QED BY <2>1, <2>11
<1>3. \A k \in 0..q : k \in S
  <2> HIDE DEF S
  <2> QED BY <1>1, <1>2, Climbs
<1> QED BY <1>3

\* What is drawn behind them leaves the first cells alone, and the next one is that of
\* the character at i + q.
LEMMA CellsStay ==
    ASSUME NEW t, NEW i \in Nat, NEW m \in Nat, NEW q \in 0..(m - 1), NEW d,
           Drawn(d, t, i, m)
    PROVE  /\ d[q] \in Seq(Int) /\ d[m] \in Seq(Int) /\ Len(d[q]) < Len(d[m])
           /\ d[m][Len(d[q]) + 1] = i + q
           /\ \A r \in 1..Len(d[q]) : d[m][r] = d[q][r]
<1> DEFINE n == Len(d[q])
           S == {k \in (q + 1)..m : /\ n < Len(d[k]) /\ d[k][n + 1] = i + q
                                   /\ \A r \in 1..n : d[k][r] = d[q][r]}
<1>1. \A k \in 0..m : d[k] \in Seq(Int) /\ Len(d[k]) \in Nat
  BY CellsAreTheirs, LenProperties
<1>2. q \in 0..m /\ n \in Nat
  BY <1>1
<1> HIDE DEF n
<1>3. ASSUME NEW k \in 0..(m - 1)
      PROVE  /\ d[k + 1] \in Seq(Int) /\ Len(d[k]) < Len(d[k + 1])
             /\ \A r \in 1..Len(d[k]) : d[k + 1][r] = d[k][r]
             /\ \A r \in (Len(d[k]) + 1)..Len(d[k + 1]) : d[k + 1][r] = i + k
  <2>1. k \in 0..m
    OBVIOUS
  <2>2. d[k] \in Seq(Int)
    BY <1>1, <2>1
  <2>3. NextCells(d, t, i, k)
    BY <2>2, NextDrawn
  <2> QED BY <2>3 DEF NextCells
<1>4. q + 1 \in S
  <2>1. q + 1 \in (q + 1)..m /\ q + 1 \in 0..m
    OBVIOUS
  <2>2. n < Len(d[q + 1]) /\ \A r \in 1..n : d[q + 1][r] = d[q][r]
    BY <1>3 DEF n
  <2>3. n + 1 \in (n + 1)..Len(d[q + 1])
    BY <1>1, <1>2, <2>1, <2>2
  <2>4. d[q + 1][n + 1] = i + q
    BY <1>3, <2>3 DEF n
  <2> QED BY <2>1, <2>2, <2>4
<1>5. ASSUME NEW k \in (q + 1)..(m - 1), k \in S PROVE k + 1 \in S
  <2>1. k \in 0..(m - 1) /\ k \in 0..m /\ k + 1 \in 0..m /\ k + 1 \in (q + 1)..m
    OBVIOUS
  <2>2. /\ Len(d[k]) < Len(d[k + 1])
        /\ \A r \in 1..Len(d[k]) : d[k + 1][r] = d[k][r]
    BY <1>3, <2>1
  <2>3. /\ n < Len(d[k]) /\ d[k][n + 1] = i + q
        /\ \A r \in 1..n : d[k][r] = d[q][r]
    BY <1>5
  <2>4. Len(d[k]) \in Nat /\ Len(d[k + 1]) \in Nat
    BY <1>1, <2>1
  <2>5. n + 1 \in 1..Len(d[k]) /\ \A r \in 1..n : r \in 1..Len(d[k])
    BY <1>2, <2>3, <2>4
  <2>6. n < Len(d[k + 1])
    BY <1>2, <2>2, <2>3, <2>4
  <2>7. d[k + 1][n + 1] = i + q /\ \A r \in 1..n : d[k + 1][r] = d[q][r]
    BY <2>2, <2>3, <2>5
  <2> QED BY <2>1, <2>6, <2>7
<1>6. \A k \in (q + 1)..m : k \in S
  <2>1. q + 1 \in Nat /\ q + 1 <= m
    OBVIOUS
  <2> HIDE DEF S
  <2> QED BY <1>4, <1>5, <2>1, Climbs
<1>7. m \in (q + 1)..m /\ m \in 0..m
  OBVIOUS
<1>8. m \in S
  BY <1>6, <1>7
<1> QED BY <1>1, <1>2, <1>7, <1>8 DEF n

\* The column edxcol counts is that of the first cell vline draws for the character.
LEMMA CursorCell ==
    ASSUME NEW t \in Seq(Char), NEW n, NEW left, NEW col,
           NEW i \in 0..Len(t), NEW p \in i..Len(t),
           ebindex(t, n, left) = i, ebindex(t, n, col) = p,
           LineEnd(t, i) \in Nat, p < LineEnd(t, i)
    PROVE  LET x == edxcol(t, n, col, left)
               cells == vline(t, n, left)
           IN  x \in DOMAIN cells /\ cells[x] = p /\ (x = 1 \/ cells[x - 1] # p)
<1> DEFINE m == LineEnd(t, i) - i
           q == p - i
<1>1. i \in Nat /\ p \in Nat /\ m \in Nat /\ q \in 0..(m - 1) /\ q \in 0..m /\ i + q = p
  BY LenProperties
<1>2. PICK c : /\ Counted(c, t, i, q)
               /\ edxcol(t, n, col, left) = c[q]
  BY edxcolWalks
<1>3. PICK d : /\ Drawn(d, t, i, m)
               /\ vline(t, n, left) = d[m]
  BY <1>1, vlineWalks
<1>4. m \in Nat /\ q \in 0..(m - 1) /\ q \in 0..m /\ m \in 0..m
  BY <1>1
<1> HIDE DEF m, q
<1>5. c[q] = Len(d[q]) + 1
  BY <1>1, <1>2, <1>3, ColumnsMeet
<1>6. /\ d[q] \in Seq(Int) /\ d[m] \in Seq(Int) /\ Len(d[q]) < Len(d[m])
      /\ d[m][Len(d[q]) + 1] = i + q
      /\ \A r \in 1..Len(d[q]) : d[m][r] = d[q][r]
  BY <1>1, <1>3, CellsStay
<1>7. \A r \in 1..Len(d[q]) : d[q][r] < i + q
  BY <1>1, <1>3, CellsAreTheirs
<1>8. Len(d[q]) \in Nat /\ Len(d[m]) \in Nat /\ DOMAIN d[m] = 1..Len(d[m])
  BY <1>6, LenProperties
<1>9. c[q] \in DOMAIN d[m] /\ d[m][c[q]] = p
  BY <1>1, <1>5, <1>6, <1>8
<1>10. c[q] = 1 \/ d[m][c[q] - 1] # p
  <2>1. CASE Len(d[q]) = 0
    BY <1>5, <2>1
  <2>2. CASE Len(d[q]) # 0
    <3>1. Len(d[q]) \in 1..Len(d[q]) /\ c[q] - 1 = Len(d[q])
      BY <1>5, <1>8, <2>2
    <3>2. d[m][c[q] - 1] = d[q][Len(d[q])]
      BY <1>6, <3>1
    <3>3. d[q][Len(d[q])] \in Int
      BY <1>6, <3>1
    <3>4. d[q][Len(d[q])] < i + q
      BY <1>7, <3>1
    <3> QED BY <1>1, <3>2, <3>3, <3>4
  <2> QED BY <2>1, <2>2
<1> QED BY <1>2, <1>3, <1>9, <1>10

\* Where the viewport starts: the cursor is on the screen, too.
InView(t, n, col, left) == left \in 0..col /\ (left = col \/ edxcol(t, n, col, left) <= Cols)

LEMMA EadjShows ==
    ASSUME NEW t, NEW n, NEW col \in Nat, eleft \in Nat PROVE InView(t, n, col, eadj(t, n, col))
<1> DEFINE left == Min({col, eleft})
           S == {l \in left..col : l = col \/ edxcol(t, n, col, l) <= Cols}
<1>1. left = IF col <= eleft THEN col ELSE eleft
  BY MinOfTwo
<1>2. left \in Nat /\ left <= col
  BY <1>1
<1> HIDE DEF left
<1>3. S \in SUBSET Nat /\ S # {}
  BY <1>2
<1>4. Min(S) \in S
  BY <1>3, MinOfNats
<1>5. Min(S) \in 0..col
  BY <1>2, <1>4
<1> QED BY <1>4, <1>5 DEF eadj, left, InView

ViewInv == EInv /\ (pc = "edit" => InView(text, eline, ecol, eleft))

LEMMA ViewStays ==
    /\ Init => ViewInv
    /\ ~StaleEntry /\ NoHighByte /\ ViewInv /\ [Next]_vars => ViewInv'
<1>1. Init => ViewInv
  BY CursorStays DEF ViewInv, Init
<1>2. ASSUME ~StaleEntry, NoHighByte, ViewInv, [Next]_vars PROVE ViewInv'
  <2>1. EInv'
    BY <1>2, CursorStays DEF ViewInv
  <2> SUFFICES ASSUME pc' = "edit" PROVE InView(text, eline, ecol, eleft)'
    BY <2>1 DEF ViewInv
  <2>2. CASE editstep
    <3>1. eleft' = eadj(text', eline', ecol')
      BY <2>2 DEF editstep, emovev, emovel, emover, HomeEnd, RedrawOnly, edins, edenter,
                  edbksp, eddel, CursorTo, Finish
    <3>2. ecol' \in Nat /\ eleft \in Nat
      BY <1>2, <2>1 DEF ViewInv, EInv, TypeOK
    <3>3. InView(text', eline', ecol', eadj(text', eline', ecol'))
      BY <3>2, EadjShows
    <3> QED BY <3>1, <3>3
  <2>3. CASE EnterEditor
    <3>1. ecol' = 0 /\ eleft' = 0
      BY <2>3 DEF EnterEditor
    <3> QED BY <3>1 DEF InView
  <2>4. CASE LoadDocument \/ LeaveEditor \/ EnterViewer \/ ViewKey \/ LeaveViewer
    BY <2>4 DEF LoadDocument, LeaveEditor, EnterViewer, ViewKey, LeaveViewer
  <2>5. CASE UNCHANGED vars
    BY <1>2, <2>5 DEF vars, docVars, curVars, ViewInv
  <2> QED BY <1>2, <2>2, <2>3, <2>4, <2>5 DEF Next
<1> QED BY <1>1, <1>2

\* What ViewInv says about the terminal's cursor.
LEMMA CursorDrawn == ASSUME ViewInv PROVE CursorOnItsCharacter
<1> DEFINE cells == vline(text, eline, eleft)
           col == edxcol(text, eline, ecol, eleft)
<1>1. SUFFICES ASSUME pc = "edit"
               PROVE  /\ CursorInText /\ col <= Cols
                      /\ Has(Pos) /\ text[Pos + 1] # CR =>
                            col \in DOMAIN cells /\ cells[col] = Pos /\ (col = 1 \/ cells[col - 1] # Pos)
  BY DEF ViewInv, EInv, CursorOnItsCharacter
<1>2. TypeOK /\ CursorInText /\ InView(text, eline, ecol, eleft)
  BY <1>1 DEF ViewInv, EInv
<1>3. text \in Seq(Char) /\ Len(text) \in Nat /\ eline \in Nat /\ ecol \in Nat /\ eleft \in Nat
  BY <1>2, LenProperties DEF TypeOK
<1> DEFINE s == ebseek(text, eline)
<1>4. /\ Pos \in 0..Len(text) /\ Pos = s + ecol /\ ebindex(text, eline, ecol) = Pos
      /\ \A k \in (s + 1)..Pos : text[k] # CR
  BY <1>1, <1>2, CursorPlace
<1>5. s \in Nat /\ ebindex(text, eline, eleft) = s + eleft /\ s + eleft \in 0..Pos
  <2>1. ecol <= ebllen(text, eline) /\ ebllen(text, eline) \in Nat /\ s \in Nat
    BY <1>2, <1>3, LineBounds DEF CursorInText
  <2>2. eleft <= ecol
    BY <1>2, <1>3 DEF InView
  <2>3. eleft <= ebllen(text, eline)
    BY <1>3, <2>1, <2>2
  <2>4. ebindex(text, eline, eleft) = s + eleft
    BY <1>3, <2>3, LineBounds
  <2> HIDE DEF s
  <2> QED BY <1>3, <1>4, <2>1, <2>2, <2>4
<1> HIDE DEF s
<1>6. PICK i \in 0..Len(text) : i = s + eleft
  BY <1>3, <1>4, <1>5
<1>7. PICK p \in i..Len(text) : p = Pos
  BY <1>4, <1>5, <1>6
<1>8. ebindex(text, eline, eleft) = i /\ ebindex(text, eline, ecol) = p
  BY <1>4, <1>5, <1>6, <1>7
<1>9. col <= Cols
  <2>1. CASE eleft = ecol
    <3>1. i = p
      BY <1>4, <1>6, <1>7, <2>1
    <3>2. col = 1
      BY <1>3, <1>8, <3>1, edxcolNone
    <3>3. Cols \in Nat \ {0}
      BY EditorAssumption
    <3> QED BY <3>2, <3>3
  <2>2. CASE eleft # ecol
    BY <1>2, <2>2 DEF InView
  <2> QED BY <2>1, <2>2
<1>10. ASSUME Has(Pos), text[Pos + 1] # CR
      PROVE  col \in DOMAIN cells /\ cells[col] = Pos /\ (col = 1 \/ cells[col - 1] # Pos)
  <2>1. EndsAt(text, i, LineEnd(text, i))
    BY <1>3, LineEndFinds
  <2> DEFINE e == LineEnd(text, i)
  <2>2. /\ e \in Nat /\ i <= e /\ e <= Len(text)
        /\ e = Len(text) \/ text[e + 1] = CR
    BY <1>3, <2>1 DEF EndsAt
  <2> HIDE DEF e
  <2>3. p < Len(text) /\ p \in Nat /\ i \in Nat /\ s + 1 <= i + 1
    BY <1>3, <1>4, <1>5, <1>6, <1>7, <1>10 DEF Has
  <2>4. p < e
    <3>1. CASE e < p
      <4>1. e + 1 \in (s + 1)..Pos /\ e # Len(text)
        BY <1>5, <1>7, <2>2, <2>3, <3>1
      <4> QED BY <1>4, <2>2, <4>1
    <3>2. CASE e = p
      BY <1>7, <1>10, <2>2, <2>3, <3>2
    <3> QED BY <2>2, <2>3, <3>1, <3>2
  <2>5. col \in DOMAIN cells /\ cells[col] = p /\ (col = 1 \/ cells[col - 1] # p)
    BY <1>3, <1>8, <2>2, <2>4, CursorCell DEF e
  <2> QED BY <1>7, <2>5
<1> QED BY <1>2, <1>9, <1>10

\* Whatever TABs a line holds and however far the viewport is scrolled, the terminal's
\* cursor, put where edxcol counts, stands in the text area and on the first cell that
\* vline draws for the character a key will act on: the two overlays agree.
THEOREM CursorStandsRight ==
    ASSUME ~StaleEntry, NoHighByte PROVE Spec => []CursorOnItsCharacter
<1>1. Init => ViewInv
  BY ViewStays
<1>2. ViewInv /\ [Next]_vars => ViewInv'
  BY ViewStays
<1>3. ViewInv => CursorOnItsCharacter
  BY CursorDrawn
<1> QED BY <1>1, <1>2, <1>3, PTL DEF Spec

-----------------------------------------------------------------------------
(* The text with a cursor in it.                                           *)

Left(t, p) == SubSeq(t, 1, p)

Right(t, p) == SubSeq(t, p + 1, Len(t))

LEMMA Parts ==
    ASSUME NEW t \in Seq(Char), NEW p \in 0..Len(t)
    PROVE  /\ Left(t, p) \in Seq(Char) /\ Len(Left(t, p)) = p
           /\ \A j \in 1..p : Left(t, p)[j] = t[j]
           /\ Right(t, p) \in Seq(Char) /\ Len(Right(t, p)) = Len(t) - p
           /\ \A j \in 1..(Len(t) - p) : Right(t, p)[j] = t[p + j]
<1>1. Len(t) \in Nat /\ p \in Nat /\ p <= Len(t) /\ \A j \in 1..Len(t) : t[j] \in Char
  BY LenProperties, ElementOfSeq
<1>2. /\ Left(t, p) \in Seq(Char) /\ Len(Left(t, p)) = IF 1 <= p THEN p - 1 + 1 ELSE 0
      /\ \A j \in 1..(p - 1 + 1) : Left(t, p)[j] = t[1 + j - 1]
  BY <1>1, SubSeqProperties DEF Left
<1>3. /\ Right(t, p) \in Seq(Char)
      /\ Len(Right(t, p)) = IF p + 1 <= Len(t) THEN Len(t) - (p + 1) + 1 ELSE 0
      /\ \A j \in 1..(Len(t) - (p + 1) + 1) : Right(t, p)[j] = t[(p + 1) + j - 1]
  BY <1>1, SubSeqProperties DEF Right
<1>4. Len(Left(t, p)) = p /\ \A j \in 1..p : Left(t, p)[j] = t[j]
  BY <1>1, <1>2
<1>5. Len(Right(t, p)) = Len(t) - p /\ \A j \in 1..(Len(t) - p) : Right(t, p)[j] = t[p + j]
  BY <1>1, <1>3
<1> QED BY <1>2, <1>3, <1>4, <1>5

\* The two parts make the text.
LEMMA PartsMake ==
    ASSUME NEW t \in Seq(Char), NEW p \in 0..Len(t)
    PROVE  Left(t, p) \o Right(t, p) = t
<1>1. Len(t) \in Nat /\ 1 \in 1..(Len(t) + 1) /\ p \in (1 - 1)..Len(t) /\ Len(t) \in p..Len(t)
  BY LenProperties
<1>2. SubSeq(t, 1, p) \o SubSeq(t, p + 1, Len(t)) = SubSeq(t, 1, Len(t))
  BY <1>1, ConcatAdjacentSubSeq
<1> QED BY <1>2, SubSeqFull DEF Left, Right

LEMMA Appended ==
    \A a \in Seq(Char), c \in Char :
       /\ Append(a, c) \in Seq(Char) /\ Len(Append(a, c)) = Len(a) + 1
       /\ \A j \in 1..Len(a) : Append(a, c)[j] = a[j]
       /\ Append(a, c)[Len(a) + 1] = c
  BY AppendProperties

\* The parts of a text that has one character more.
LEMMA PartsOfLonger ==
    ASSUME NEW t \in Seq(Char), NEW u \in Seq(Char), NEW p \in 0..Len(t), Longer(t, u, p)
    PROVE  /\ Left(u, p + 1) = Append(Left(t, p), u[p + 1])
           /\ Right(u, p + 1) = Right(t, p)
           /\ Left(u, p) = Left(t, p)
           /\ Tail(Right(u, p)) = Right(t, p) /\ Right(u, p) # <<>>
<1>1. /\ Len(t) \in Nat /\ p \in Nat /\ p <= Len(t) /\ Len(u) = Len(t) + 1
      /\ p \in 0..Len(u) /\ p + 1 \in 0..Len(u) /\ p + 1 \in 1..Len(u)
      /\ \A j \in 1..p : u[j] = t[j]
      /\ \A j \in (p + 1)..Len(t) : u[j + 1] = t[j]
  BY LenProperties DEF Longer
<1> DEFINE lt == Left(t, p)
           rt == Right(t, p)
           lu == Left(u, p)
           ru == Right(u, p)
           mu == Left(u, p + 1)
           nu == Right(u, p + 1)
           c  == u[p + 1]
<1>2. /\ lt \in Seq(Char) /\ Len(lt) = p /\ \A j \in 1..p : lt[j] = t[j]
      /\ rt \in Seq(Char) /\ Len(rt) = Len(t) - p
      /\ \A j \in 1..(Len(t) - p) : rt[j] = t[p + j]
  BY <1>1, Parts
<1>3. /\ lu \in Seq(Char) /\ Len(lu) = p /\ \A j \in 1..p : lu[j] = u[j]
      /\ ru \in Seq(Char) /\ Len(ru) = Len(u) - p
      /\ \A j \in 1..(Len(u) - p) : ru[j] = u[p + j]
  BY <1>1, Parts
<1>4. /\ mu \in Seq(Char) /\ Len(mu) = p + 1 /\ \A j \in 1..(p + 1) : mu[j] = u[j]
      /\ nu \in Seq(Char) /\ Len(nu) = Len(u) - (p + 1)
      /\ \A j \in 1..(Len(u) - (p + 1)) : nu[j] = u[(p + 1) + j]
  BY <1>1, Parts
<1>5. c \in Char
  BY <1>1, ElementOfSeq
<1> HIDE DEF lt, rt, lu, ru, mu, nu, c
<1>6. mu = Append(lt, c)
  <2> DEFINE v == Append(lt, c)
  <2>1. /\ v \in Seq(Char) /\ Len(v) = Len(lt) + 1
        /\ \A j \in 1..Len(lt) : v[j] = lt[j]
        /\ v[Len(lt) + 1] = c
    BY <1>2, <1>5, Appended
  <2> HIDE DEF v
  <2>2. Len(v) = Len(mu)
    BY <1>2, <1>4, <2>1
  <2>3. ASSUME NEW j \in 1..Len(mu) PROVE mu[j] = v[j]
    <3>1. CASE j = p + 1
      <4>1. mu[p + 1] = u[p + 1]
        BY <1>1, <1>4
      <4> QED BY <1>2, <2>1, <3>1, <4>1 DEF c
    <3>2. CASE j # p + 1
      <4>1. j \in 1..p /\ j \in 1..(p + 1)
        BY <1>1, <1>4, <3>2
      <4> QED BY <1>1, <1>2, <1>4, <2>1, <4>1
    <3> QED BY <3>1, <3>2
  <2> QED BY <1>4, <2>1, <2>2, <2>3, SeqEqual DEF v
<1>7. ASSUME NEW j \in 1..Len(rt) PROVE u[(p + 1) + j] = rt[j]
  <2>1. j \in 1..(Len(t) - p) /\ p + j \in (p + 1)..Len(t) /\ (p + j) + 1 = (p + 1) + j
    BY <1>1, <1>2
  <2> QED BY <1>1, <1>2, <2>1
<1>8. nu = rt
  <2>1. Len(nu) = Len(rt) /\ Len(rt) = Len(u) - (p + 1)
    BY <1>1, <1>2, <1>4
  <2>2. \A j \in 1..Len(nu) : nu[j] = rt[j]
    BY <1>4, <1>7, <2>1
  <2> QED BY <1>2, <1>4, <2>1, <2>2, SeqEqual
<1>9. lu = lt
  <2>1. \A j \in 1..Len(lu) : lu[j] = lt[j]
    BY <1>1, <1>2, <1>3
  <2> QED BY <1>2, <1>3, <2>1, SeqEqual
<1>10. ru # <<>> /\ Tail(ru) = rt
  <2>1. Len(ru) = Len(rt) + 1 /\ Len(rt) \in Nat
    BY <1>1, <1>2, <1>3
  <2>2. ru # <<>>
    <3> SUFFICES ASSUME ru = <<>> PROVE FALSE
      OBVIOUS
    <3>1. Len(ru) = 0
      OBVIOUS
    <3> QED BY <2>1, <3>1
  <2> DEFINE v == Tail(ru)
  <2>3. /\ v \in Seq(Char) /\ Len(v) = Len(ru) - 1
        /\ \A j \in 1..Len(v) : v[j] = ru[j + 1]
    BY <1>3, <2>2, HeadTailProperties
  <2> HIDE DEF v
  <2>4. Len(v) = Len(rt)
    BY <2>1, <2>3
  <2>5. ASSUME NEW j \in 1..Len(v) PROVE v[j] = rt[j]
    <3>1. j + 1 \in 1..(Len(u) - p) /\ p + (j + 1) = (p + 1) + j /\ j \in 1..Len(rt)
      BY <1>1, <1>2, <2>4
    <3> QED BY <1>3, <1>7, <2>3, <3>1
  <2>6. v = rt
    BY <1>2, <2>3, <2>4, <2>5, SeqEqual
  <2> QED BY <2>2, <2>6 DEF v
<1> QED BY <1>6, <1>8, <1>9, <1>10 DEF lt, rt, lu, ru, mu, nu, c

LEMMA FrontOfAppend ==
    ASSUME NEW t \in Seq(Char), NEW c \in Char
    PROVE  Append(t, c) # <<>> /\ Gap!Front(Append(t, c)) = t
<1> DEFINE v == Append(t, c)
<1>1. Len(t) \in Nat /\ \A j \in 1..Len(t) : t[j] \in Char
  BY LenProperties, ElementOfSeq
<1>2. /\ v \in Seq(Char) /\ v # <<>> /\ Len(v) = Len(t) + 1
      /\ \A j \in 1..Len(t) : v[j] = t[j]
  BY AppendProperties
<1> HIDE DEF v
<1>3. Len(v) - 1 = Len(t) /\ Len(t) \in 0..Len(v)
  BY <1>1, <1>2
<1>4. /\ Left(v, Len(t)) \in Seq(Char) /\ Len(Left(v, Len(t))) = Len(t)
      /\ \A j \in 1..Len(t) : Left(v, Len(t))[j] = v[j]
  BY <1>2, <1>3, Parts
<1>5. Left(v, Len(t)) = t
  BY <1>2, <1>4, SeqEqual
<1> QED BY <1>2, <1>3, <1>5 DEF v, Left, Gap!Front

PosIn == text \in Seq(Char) /\ Pos \in 0..Len(text)

LEMMA PosInText == EInv => PosIn
<1> SUFFICES ASSUME EInv PROVE text \in Seq(Char) /\ Pos \in 0..Len(text)
  BY DEF PosIn
<1>1. text \in Seq(Char) /\ Len(text) \in Nat
  BY LenProperties DEF EInv, TypeOK
<1>2. CASE pc = "edit"
  BY <1>1, <1>2, CursorPlace DEF EInv
<1>3. CASE pc # "edit"
  BY <1>1, <1>3 DEF Pos
<1> QED BY <1>2, <1>3

LEMMA PosInNextText == EInv' => PosIn'
BY PosInText, PTL

\* A step that leaves the text alone moves the cursor.
LEMMA StepMoves == ASSUME EInv, EInv', text' = text PROVE Gap!Move
<1>1. /\ text \in Seq(Char) /\ Pos \in 0..Len(text) /\ Pos' \in 0..Len(text)
  BY PosInText, PosInNextText DEF PosIn
<1>2. /\ Left(text, Pos) \o Right(text, Pos) = text
      /\ Left(text, Pos') \o Right(text, Pos') = text
      /\ Len(Left(text, Pos')) = Pos'
  BY <1>1, PartsMake, Parts
<1> QED BY <1>1, <1>2 DEF Gap!Move, Gap!Document, Left, Right

LEMMA StepTypes ==
    ASSUME EInv, NEW c \in Char, text' = InsertAt(text, Pos + 1, c), Pos' = Pos + 1, Room
    PROVE  Gap!Type(c)
<1>1. text \in Seq(Char) /\ Pos \in 0..Len(text)
  BY PosInText DEF PosIn
<1>2. /\ text' \in Seq(Char) /\ Longer(text, text', Pos) /\ text'[Pos + 1] = c
  BY <1>1, InsertIsLonger
<1>3. /\ Left(text', Pos + 1) = Append(Left(text, Pos), c)
      /\ Right(text', Pos + 1) = Right(text, Pos)
      /\ Left(text, Pos) \o Right(text, Pos) = text
  BY <1>1, <1>2, PartsOfLonger, PartsMake
<1>4. Len(text) < ebcap
  BY DEF Room
<1> QED BY <1>3, <1>4 DEF Gap!Type, Gap!Document, Left, Right

LEMMA StepErasesLeft ==
    ASSUME EInv, Pos > 0, text' = RemoveAt(text, Pos), Pos' = Pos - 1
    PROVE  Gap!EraseLeft
<1> DEFINE p == Pos - 1
<1>1. /\ text \in Seq(Char) /\ Pos \in 0..Len(text) /\ Len(text) \in Nat
      /\ p \in 0..(Len(text) - 1) /\ p + 1 = Pos /\ Pos \in 1..Len(text)
  BY PosInText, LenProperties DEF PosIn
<1>2. /\ text' \in Seq(Char) /\ Longer(text', text, p)
  BY <1>1, RemoveIsShorter
<1>3. p \in 0..Len(text') /\ text[Pos] \in Char
  <2>1. Len(text) = Len(text') + 1 /\ Len(text') \in Nat
    BY <1>2, LenProperties DEF Longer
  <2> QED BY <1>1, <2>1, ElementOfSeq
<1>4. /\ Left(text, Pos) = Append(Left(text', p), text[Pos])
      /\ Right(text, Pos) = Right(text', p)
      /\ Left(text', p) \in Seq(Char)
  <2>1. Left(text', p) \in Seq(Char)
    BY <1>2, <1>3, Parts
  <2> HIDE DEF p
  <2>2. /\ Left(text, p + 1) = Append(Left(text', p), text[p + 1])
        /\ Right(text, p + 1) = Right(text', p)
    BY <1>1, <1>2, <1>3, PartsOfLonger
  <2> QED BY <1>1, <2>1, <2>2
<1>5. Left(text, Pos) # <<>> /\ Gap!Front(Left(text, Pos)) = Left(text', p)
  BY <1>3, <1>4, FrontOfAppend
<1> QED BY <1>4, <1>5 DEF Gap!EraseLeft, Left, Right

LEMMA StepErasesRight ==
    ASSUME EInv, Pos < Len(text), text' = RemoveAt(text, Pos + 1), Pos' = Pos
    PROVE  Gap!EraseRight
<1>1. /\ text \in Seq(Char) /\ Len(text) \in Nat /\ Pos \in 0..(Len(text) - 1)
  BY PosInText, LenProperties DEF PosIn
<1>2. /\ text' \in Seq(Char) /\ Longer(text', text, Pos)
  BY <1>1, RemoveIsShorter
<1>3. Pos \in 0..Len(text')
  <2>1. Len(text) = Len(text') + 1 /\ Len(text') \in Nat
    BY <1>2, LenProperties DEF Longer
  <2> QED BY <1>1, <2>1
<1>4. /\ Left(text, Pos) = Left(text', Pos)
      /\ Tail(Right(text, Pos)) = Right(text', Pos) /\ Right(text, Pos) # <<>>
  BY <1>1, <1>2, <1>3, PartsOfLonger
<1> QED BY <1>4 DEF Gap!EraseRight, Left, Right

LEMMA StepReplaces == ASSUME EInv', LoadDocument PROVE \E t \in Texts : Gap!Replace(t)
<1>1. PICK t \in Texts : text' = t
  BY DEF LoadDocument
<1>2. Pos' = 0
  BY DEF LoadDocument, Pos
<1>3. t \in Seq(Char) /\ Len(t) \in Nat
  BY <1>1, PosInNextText, LenProperties DEF PosIn
<1>4. SubSeq(t, 1, 0) = <<>> /\ SubSeq(t, 0 + 1, Len(t)) = t
  BY <1>3, SubSeqFull, SubSeqEmpty
<1>5. Gap!Replace(t)
  BY <1>1, <1>2, <1>4 DEF Gap!Replace
<1> QED BY <1>5

LEMMA StepRefines ==
    ASSUME ~StaleEntry, NoHighByte, EInv, EInv', [Next]_vars
    PROVE  [Gap!Next]_(Gap!vars)
<1>1. CASE text' = text
  BY <1>1, StepMoves DEF Gap!Next
<1>2. CASE LoadDocument
  <2>1. PICK t \in Texts : Gap!Replace(t)
    BY <1>2, StepReplaces
  <2> QED BY <2>1 DEF Gap!Next, Texts
<1>3. CASE editstep
  <2>1. TypeOK /\ pc = "edit" /\ CursorInText
    BY <1>3 DEF EInv, editstep, emovev, emovel, emover, HomeEnd, RedrawOnly, edins, edenter,
                edbksp, eddel, CursorTo, Finish
  <2>2. CASE emovel \/ emover \/ HomeEnd \/ RedrawOnly
             \/ \E delta \in {-1, 1, -Rows, Rows} : emovev(delta)
    <3>1. text' = text
      BY <2>1, <2>2, LeftKey, RightKey, QuietKey
    <3> QED BY <1>1, <3>1
  <2>3. ASSUME NEW c \in Key \cup {TAB}, edins(c) PROVE Gap!Next
    <3>1. c \in Char
      BY DEF Char
    <3>2. Gap!Type(c)
      BY <2>1, <2>3, <3>1, TypeKey, StepTypes
    <3> QED BY <3>1, <3>2 DEF Gap!Next
  <2>4. CASE edenter
    <3>1. CR \in Char
      BY DEF Char
    <3>2. Gap!Type(CR)
      BY <2>1, <2>4, <3>1, EnterKey, StepTypes
    <3> QED BY <3>1, <3>2 DEF Gap!Next
  <2>5. CASE edbksp
    <3>1. Pos \in Nat
      BY <2>1, CursorPlace
    <3>2. CASE Pos > 0
      <4>1. Gap!EraseLeft
        BY <2>1, <2>5, <3>2, BackKey, StepErasesLeft
      <4> QED BY <4>1 DEF Gap!Next
    <3>3. CASE Pos = 0
      BY <1>1, <2>1, <2>5, <3>3, BackKey
    <3> QED BY <3>1, <3>2, <3>3
  <2>6. CASE eddel
    <3>1. CASE Pos < Len(text) /\ text' = RemoveAt(text, Pos + 1)
      <4>1. Gap!EraseRight
        BY <2>1, <2>6, <3>1, DeleteKey, StepErasesRight
      <4> QED BY <4>1 DEF Gap!Next
    <3> QED BY <1>1, <2>1, <2>6, <3>1, DeleteKey
  <2> QED BY <1>3, <2>2, <2>3, <2>4, <2>5, <2>6 DEF editstep
<1>4. CASE UNCHANGED vars \/ EnterEditor \/ LeaveEditor \/ EnterViewer \/ ViewKey \/ LeaveViewer
  <2>1. text' = text
    BY <1>4 DEF vars, docVars, EnterEditor, LeaveEditor, EnterViewer, ViewKey, LeaveViewer
  <2> QED BY <1>1, <2>1
<1> QED BY <1>2, <1>3, <1>4 DEF Next

LEMMA InitRefines == Init => Gap!Init
<1> SUFFICES ASSUME Init PROVE Gap!Init
  OBVIOUS
<1>1. text = <<>> /\ Pos = 0
  BY DEF Init, Pos
<1>2. Len(<<>>) = 0 /\ SubSeq(<<>>, 1, 0) = <<>> /\ SubSeq(<<>>, 0 + 1, 0) = <<>>
  BY EmptySeq, SubSeqEmpty
<1> QED BY <1>1, <1>2 DEF Gap!Init

\* The editor, with its lines, columns, counters and viewport, implements a text with a
\* cursor in it: typing, Enter, Backspace and Delete change the text at the cursor, and
\* nothing else does but loading another document.
THEOREM Refinement == ASSUME ~StaleEntry, NoHighByte PROVE Spec => ImplementsGapText
<1>1. Init => EInv
  BY CursorStays
<1>2. EInv /\ [Next]_vars => EInv'
  BY CursorStays
<1>3. EInv /\ EInv' /\ [Next]_vars => [Gap!Next]_(Gap!vars)
  BY StepRefines
<1>4. Spec => Gap!Init /\ [][Gap!Next]_(Gap!vars)
  BY <1>1, <1>2, <1>3, InitRefines, PTL DEF Spec
<1> QED BY <1>4 DEF ImplementsGapText, Gap!Spec
=============================================================================
