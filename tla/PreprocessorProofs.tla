------------------------- MODULE PreprocessorProofs -------------------------
(***************************************************************************)
(* For sources of any length and any nesting of conditionals: ifline()'s   *)
(* two counters say what the stack of open conditions says, and a name     *)
(* stands for the text of its last #define, in a pool of any size.         *)
(*                                                                         *)
(* The second rests on the types of what is read, and a line is scanned by *)
(* a fold: what the fold makes of the first n tokens is proved with the    *)
(* least n for which it would be wrong (LeastNat).                         *)
(***************************************************************************)
EXTENDS Preprocessor, WellFoundedInduction, TLAPS

Levels == iflevel \in Nat /\ skiplevel \in Nat /\ conds \in Seq(BOOLEAN)

Inv == Levels /\ SkipFollows

\* A condition is opened, in a region that counts or in a skipped one.
LEMMA OpensKeeps ==
    ASSUME Inv, NEW holds \in BOOLEAN, Opens(holds)
    PROVE  Inv'
<1>1. iflevel' = iflevel + 1 /\ conds' = Append(conds, skiplevel # 0 \/ holds)
  BY DEF Opens
<1>2. /\ iflevel \in Nat /\ skiplevel \in Nat /\ conds \in Seq(BOOLEAN)
      /\ Len(conds) = iflevel
  BY DEF Inv, Levels, SkipFollows
<1>3. /\ conds' \in Seq(BOOLEAN) /\ Len(conds') = iflevel'
      /\ \A i \in 1 .. iflevel : conds'[i] = conds[i]
      /\ conds'[iflevel + 1] = (skiplevel # 0 \/ holds)
  BY <1>1, <1>2
<1>4. CASE skiplevel = 0 /\ ~holds
  <2>1. skiplevel' = iflevel + 1
    BY <1>1, <1>4 DEF Opens
  <2>2. \A i \in 1 .. iflevel : conds[i]
    BY <1>4 DEF Inv, SkipFollows
  <2>3. ~conds'[iflevel + 1]
    BY <1>3, <1>4
  <2> QED
    BY <1>1, <1>2, <1>3, <2>1, <2>2, <2>3 DEF Inv, Levels, SkipFollows
<1>5. CASE skiplevel = 0 /\ holds
  <2>1. skiplevel' = 0
    BY <1>5 DEF Opens
  <2>2. \A i \in 1 .. iflevel : conds[i]
    BY <1>5 DEF Inv, SkipFollows
  <2>3. conds'[iflevel + 1]
    BY <1>3, <1>5
  <2> QED
    BY <1>1, <1>2, <1>3, <2>1, <2>2, <2>3 DEF Inv, Levels, SkipFollows
<1>6. CASE skiplevel # 0
  <2>1. skiplevel' = skiplevel
    BY <1>6 DEF Opens
  <2>2. /\ skiplevel \in 1 .. iflevel /\ ~conds[skiplevel]
        /\ \A i \in 1 .. skiplevel - 1 : conds[i]
    BY <1>6 DEF Inv, SkipFollows
  <2> QED
    BY <1>1, <1>2, <1>3, <1>6, <2>1, <2>2 DEF Inv, Levels, SkipFollows
<1> QED
  BY <1>4, <1>5, <1>6

LEMMA ElseKeeps ==
    ASSUME Inv, Else
    PROVE  Inv'
<1>1. /\ iflevel \in Nat /\ skiplevel \in Nat /\ conds \in Seq(BOOLEAN)
      /\ Len(conds) = iflevel /\ iflevel > 0 /\ iflevel' = iflevel
  BY DEF Inv, Levels, SkipFollows, Else
<1>2. conds' = [conds EXCEPT ![iflevel] = ~conds[iflevel]]
  BY DEF Else
<1>3. /\ conds' \in Seq(BOOLEAN) /\ Len(conds') = iflevel
      /\ \A i \in 1 .. iflevel : i # iflevel => conds'[i] = conds[i]
      /\ conds'[iflevel] = ~conds[iflevel]
  BY <1>1, <1>2
<1>4. CASE skiplevel = iflevel
  <2>1. skiplevel' = 0 /\ ~conds[iflevel] /\ \A i \in 1 .. iflevel - 1 : conds[i]
    BY <1>1, <1>4 DEF Else, Inv, SkipFollows
  <2>2. conds'[iflevel] /\ \A i \in 1 .. iflevel - 1 : conds'[i]
    BY <1>1, <1>3, <2>1
  <2> QED
    BY <1>1, <1>3, <2>1, <2>2 DEF Inv, Levels, SkipFollows
<1>5. CASE skiplevel = 0
  <2>1. skiplevel' = iflevel /\ \A i \in 1 .. iflevel : conds[i]
    BY <1>1, <1>5 DEF Else, Inv, SkipFollows
  <2>2. ~conds'[iflevel] /\ \A i \in 1 .. iflevel - 1 : conds'[i]
    BY <1>1, <1>3, <2>1
  <2> QED
    BY <1>1, <1>3, <2>1, <2>2 DEF Inv, Levels, SkipFollows
<1>6. CASE skiplevel # 0 /\ skiplevel # iflevel
  <2>1. /\ skiplevel' = skiplevel /\ skiplevel \in 1 .. iflevel /\ ~conds[skiplevel]
        /\ \A i \in 1 .. skiplevel - 1 : conds[i]
    BY <1>6 DEF Else, Inv, SkipFollows
  <2>2. ~conds'[skiplevel] /\ \A i \in 1 .. skiplevel - 1 : conds'[i]
    BY <1>1, <1>3, <1>6, <2>1
  <2> QED
    BY <1>1, <1>3, <1>6, <2>1, <2>2 DEF Inv, Levels, SkipFollows
<1> QED
  BY <1>4, <1>5, <1>6

LEMMA EndifKeeps ==
    ASSUME Inv, Endif
    PROVE  Inv'
<1>1. /\ iflevel \in Nat /\ skiplevel \in Nat /\ conds \in Seq(BOOLEAN)
      /\ Len(conds) = iflevel /\ iflevel > 0 /\ iflevel' = iflevel - 1
  BY DEF Inv, Levels, SkipFollows, Endif
<1>2. conds' = SubSeq(conds, 1, iflevel - 1)
  BY <1>1 DEF Endif, Front
<1>3. /\ conds' \in Seq(BOOLEAN) /\ Len(conds') = iflevel - 1
      /\ \A i \in 1 .. iflevel - 1 : conds'[i] = conds[i]
  BY <1>1, <1>2
<1>4. CASE skiplevel = iflevel
  BY <1>1, <1>3, <1>4 DEF Endif, Inv, Levels, SkipFollows
<1>5. CASE skiplevel # iflevel
  BY <1>1, <1>3, <1>5 DEF Endif, Inv, Levels, SkipFollows
<1> QED
  BY <1>4, <1>5

LEMMA IfsKept == Inv /\ UNCHANGED ifs => Inv'
  BY DEF ifs, Inv, Levels, SkipFollows

LEMMA ConditionalKeeps ==
    ASSUME Inv, NEW l \in Lines, Conditional(l)
    PROVE  Inv'
<1>1. CASE l.dir = "#ifdef" /\ Opens(Defined(l.toks[1]))
  <2>1. Defined(l.toks[1]) \in BOOLEAN
    BY DEF Defined
  <2> QED
    BY <1>1, <2>1, OpensKeeps
<1>2. CASE l.dir = "#ifndef" /\ Opens(~Defined(l.toks[1]))
  <2>1. (~Defined(l.toks[1])) \in BOOLEAN
    BY DEF Defined
  <2> QED
    BY <1>2, <2>1, OpensKeeps
<1>3. CASE Else
  BY <1>3, ElseKeeps
<1>4. CASE Endif
  BY <1>4, EndifKeeps
<1>5. CASE noiferr
  BY <1>5, IfsKept DEF noiferr
<1> QED
  BY <1>1, <1>2, <1>3, <1>4, <1>5 DEF Conditional

LEMMA NextInv == Inv /\ [Next]_vars => Inv'
<1> SUFFICES ASSUME Inv, [Next]_vars PROVE Inv'
  OBVIOUS
<1>1. ASSUME NEW l \in Lines, IfLine(l) PROVE Inv'
  BY <1>1, ConditionalKeeps DEF IfLine
<1>2. ASSUME NEW l \in Lines,
             Dropped(l) \/ LeavesOpen(l) \/ Continues(l) \/ Define(l) \/ Include(l)
             \/ Asm(l) \/ Compiled(l) \/ AsmLine(l)
      PROVE  Inv'
  <2>1. UNCHANGED ifs
    BY <1>2 DEF Dropped, LeavesOpen, Continues, Define, Include, Asm, Compiled, AsmLine,
                Begins, Finished, Counts
  <2> QED
    BY <2>1, IfsKept
<1>3. CASE IncludeEnds \/ SourceEnds
  BY <1>3, IfsKept DEF IncludeEnds, SourceEnds
<1>4. CASE UNCHANGED vars
  BY <1>4, IfsKept DEF vars, ifs
<1> QED
  BY <1>1, <1>2, <1>3, <1>4 DEF Next

\* Whatever the nesting of #ifdef, #ifndef, #else and #endif, two counters do
\* the work of the stack of open conditions: a line is skipped exactly if one
\* of them does not hold, and skiplevel is the outermost such (ifline).
THEOREM SkippingIsRight == Spec => []SkipFollows
<1>1. Init => Inv
  BY DEF Init, Inv, Levels, SkipFollows
<1>2. Inv /\ [Next]_vars => Inv'
  BY NextInv
<1>3. Inv => SkipFollows
  BY DEF Inv
<1> QED
  BY <1>1, <1>2, <1>3, PTL DEF Spec

-----------------------------------------------------------------------------
(* The fold of Scan.                                                       *)

\* A set of naturals that is not empty has a least element.
LEMMA LeastNat ==
    ASSUME NEW S \in SUBSET Nat, S # {}
    PROVE  \E i \in S : \A j \in S : i <= j
<1>1. IsWellFoundedOn(OpToRel(<, Nat), Nat)
  BY NatLessThanWellFounded
<1>2. \E i \in S : \A j \in S : ~(<<j, i>> \in OpToRel(<, Nat))
  BY <1>1, WFMin
<1>3. \A i, j \in Nat : j < i => <<j, i>> \in OpToRel(<, Nat)
  BY Zenon DEF OpToRel
<1>4. \E i \in S : \A j \in S : ~(j < i)
  BY <1>2, <1>3, Zenon
<1>5. QED
  BY <1>4

\* One token of a line, as Scan folds it.
Step(s, t) ==
    IF s.comment THEN [s EXCEPT !.comment = t # "*/"]
    ELSE IF t = "/*" THEN [s EXCEPT !.comment = TRUE]
    ELSE [s EXCEPT !.out = @ \o Expanded(t)]

\* g is what the fold builds from base over the sets of the first n tokens.
Folds(g, toks, n, base) ==
    g = [s \in SUBSET (1..n) |-> IF s = {} THEN base ELSE Step(g[s \ {Max(s)}], toks[Max(s)])]

LEMMA MaxOfSet ==
    ASSUME NEW n \in Nat, NEW s \in SUBSET (1..n), s # {}
    PROVE  Max(s) \in s /\ (n \in s => Max(s) = n) /\ Max(s) \in 1..n
<1>1. \E x \in s : \A y \in s : x >= y
  <2> DEFINE D == {n - y : y \in s}
  <2>1. D \in SUBSET Nat /\ D # {}
    <3>1. \A y \in s : n - y \in Nat
      OBVIOUS
    <3>2. QED
      BY <3>1
  <2>2. PICK d \in D : \A j \in D : d <= j
    BY <2>1, LeastNat
  <2>3. PICK x \in s : d = n - x
    BY <2>2
  <2>4. \A y \in s : n - x <= n - y
    BY <2>2, <2>3
  <2>5. QED
    BY <2>3, <2>4
<1>2. Max(s) \in s /\ \A y \in s : Max(s) >= y
  BY <1>1 DEF Max
<1>3. Max(s) \in 1..n
  BY <1>2
<1>4. n \in s => Max(s) = n
  <2>1. n \in s => Max(s) >= n
    BY <1>2
  <2>2. QED
    BY <1>3, <2>1
<1>5. QED
  BY <1>2, <1>3, <1>4

LEMMA FoldExists ==
    ASSUME NEW toks, NEW n \in Nat, NEW base
    PROVE  \E g : Folds(g, toks, n, base)
<1> DEFINE Bad == {i \in Nat : ~ \E g : Folds(g, toks, i, base)}
<1>1. SUFFICES ASSUME Bad # {} PROVE FALSE
  OBVIOUS
<1>2. PICK i \in Bad : \A j \in Bad : i <= j
  BY <1>1, LeastNat
<1>3. CASE i = 0
  <2> DEFINE g == [s \in SUBSET (1..0) |-> base]
  <2>1. Folds(g, toks, 0, base)
    <3>1. \A s \in SUBSET (1..0) : s = {}
      OBVIOUS
    <3>2. QED
      BY <3>1 DEF Folds
  <2>2. QED
    BY <1>2, <1>3, <2>1
<1>4. CASE i # 0
  <2>1. i - 1 \in Nat /\ i - 1 \notin Bad
    BY <1>2, <1>4
  <2>2. PICK h : Folds(h, toks, i - 1, base)
    BY <2>1
  <2> DEFINE g == [s \in SUBSET (1..i) |-> IF i \in s THEN Step(h[s \ {i}], toks[i]) ELSE h[s]]
             G(s) == IF s = {} THEN base ELSE Step(g[s \ {Max(s)}], toks[Max(s)])
  <2>3. \A s \in SUBSET (1..i) : s \ {i} \in SUBSET (1..i - 1) /\ s \ {i} \in SUBSET (1..i)
    BY <2>1
  <2>4. \A s \in SUBSET (1..i - 1) : s \in SUBSET (1..i) /\ g[s] = h[s]
    BY <2>1
  <2>5. ASSUME NEW s \in SUBSET (1..i) PROVE g[s] = G(s)
    <3>1. CASE i \in s
      <4>1. Max(s) = i
        BY <1>2, <3>1, MaxOfSet
      <4>2. g[s \ {i}] = h[s \ {i}]
        BY <2>3, <2>4
      <4> HIDE DEF g
      <4>3. g[s] = Step(h[s \ {i}], toks[i])
        BY <3>1 DEF g
      <4>4. QED
        BY <3>1, <4>1, <4>2, <4>3
    <3>2. CASE i \notin s
      <4>1. s \in SUBSET (1..i - 1)
        BY <2>3, <3>2
      <4>2. g[s] = h[s]
        BY <2>4, <4>1
      <4>3. h[s] = IF s = {} THEN base ELSE Step(h[s \ {Max(s)}], toks[Max(s)])
        BY <2>2, <4>1 DEF Folds
      <4>4. s # {} => s \ {Max(s)} \in SUBSET (1..i - 1)
        BY <4>1
      <4>5. s # {} => g[s \ {Max(s)}] = h[s \ {Max(s)}]
        BY <2>4, <4>4
      <4> HIDE DEF g
      <4>6. QED
        BY <4>2, <4>3, <4>5
    <3>3. QED
      BY <3>1, <3>2
  <2>6. g = [s \in SUBSET (1..i) |-> G(s)]
    <3>1. g = [s \in SUBSET (1..i) |-> g[s]]
      OBVIOUS
    <3> HIDE DEF g, G
    <3>2. QED
      BY <2>5, <3>1
  <2>7. Folds(g, toks, i, base)
    BY <2>6 DEF Folds
  <2>8. QED
    BY <1>2, <2>7
<1>5. QED
  BY <1>3, <1>4

LEMMA ScanFolds ==
    ASSUME NEW toks, NEW n \in Nat, DOMAIN toks = 1..n, NEW comment
    PROVE  \E g : /\ Folds(g, toks, n, [out |-> pline, comment |-> comment])
                  /\ Scan(toks, comment) = g[1..n]
<1> DEFINE base == [out |-> pline, comment |-> comment]
           f == CHOOSE g : g = [s \in SUBSET (DOMAIN toks) |->
                   IF s = {} THEN base ELSE Step(g[s \ {Max(s)}], toks[Max(s)])]
<1>1. Scan(toks, comment) = f[DOMAIN toks]
  BY DEF Scan, Step, FoldLeft, MapThenFoldSet
<1>2. \E g : g = [s \in SUBSET (DOMAIN toks) |->
                   IF s = {} THEN base ELSE Step(g[s \ {Max(s)}], toks[Max(s)])]
  <2>1. \E g : Folds(g, toks, n, base)
    BY FoldExists
  <2>2. QED
    BY <2>1 DEF Folds
<1>3. f = [s \in SUBSET (DOMAIN toks) |->
                   IF s = {} THEN base ELSE Step(f[s \ {Max(s)}], toks[Max(s)])]
  BY <1>2
<1> HIDE DEF f
<1>4. Folds(f, toks, n, base)
  BY <1>3 DEF Folds
<1>5. QED
  BY <1>1, <1>4

\* What a line, the pool and the text of a macro are made of.
Cells == Tokens \cup Directives

Shape == [out : Seq(Cells), comment : BOOLEAN]

LEMMA NulIsNoCell == NUL \notin Cells
BY NamesAssumption, MarksAssumption DEF Cells, Tokens

\* A line is scanned to a line, if what the names stand for is one.
LEMMA ScanType ==
    ASSUME pline \in Seq(Cells), NEW toks \in Seq(Cells), NEW comment \in BOOLEAN,
           \A t \in Cells : Expanded(t) \in Seq(Cells)
    PROVE  Scan(toks, comment) \in Shape
<1>1. Len(toks) \in Nat /\ DOMAIN toks = 1..Len(toks) /\ \A i \in 1..Len(toks) : toks[i] \in Cells
  OBVIOUS
<1>2. PICK g : /\ Folds(g, toks, Len(toks), [out |-> pline, comment |-> comment])
               /\ Scan(toks, comment) = g[1..Len(toks)]
  BY <1>1, ScanFolds
<1> DEFINE Bad == {i \in 0..Len(toks) : \E s \in SUBSET (1..i) : g[s] \notin Shape}
<1>3. ASSUME Bad # {} PROVE FALSE
  <2>1. Bad \in SUBSET Nat
    BY <1>1
  <2>2. PICK i \in Bad : \A j \in Bad : i <= j
    BY <1>3, <2>1, LeastNat
  <2>3. i \in 0..Len(toks) /\ i \in Nat
    BY <1>1, <2>2
  <2>4. PICK s \in SUBSET (1..i) : g[s] \notin Shape
    BY <2>2
  <2>5. s \in SUBSET (1..Len(toks))
    BY <1>1, <2>3, <2>4
  <2>6. g[s] = IF s = {} THEN [out |-> pline, comment |-> comment]
               ELSE Step(g[s \ {Max(s)}], toks[Max(s)])
    BY <1>2, <2>5 DEF Folds
  <2>7. s # {}
    BY <2>4, <2>6 DEF Shape
  <2>8. Max(s) \in 1..i /\ Max(s) \in s /\ (i \in s => Max(s) = i)
    BY <2>3, <2>4, <2>7, MaxOfSet
  <2>9. i \in s
    <3>1. CASE i \notin s
      <4>1. i # 0 /\ i - 1 \in 0..Len(toks) /\ ~(i <= i - 1)
        BY <1>1, <2>3, <2>8
      <4>2. \A x \in s : x \in 1..(i - 1)
        BY <2>3, <2>4, <3>1
      <4>3. i - 1 \in Bad
        BY <2>4, <4>1, <4>2
      <4> HIDE DEF Bad
      <4>4. QED
        BY <2>2, <4>1, <4>3
    <3>2. QED
      BY <3>1
  <2>10. g[s \ {i}] \in Shape
    <3>1. i # 0 /\ s \ {i} \in SUBSET (1..(i - 1)) /\ i - 1 \in 0..Len(toks) /\ ~(i <= i - 1)
      BY <1>1, <2>3, <2>4, <2>8
    <3>2. i - 1 \notin Bad
      BY <2>2, <3>1
    <3>3. QED
      BY <3>1, <3>2
  <2>11. toks[i] \in Cells
    BY <1>1, <2>4, <2>9
  <2>12. Step(g[s \ {i}], toks[i]) \in Shape
    <3>1. Expanded(toks[i]) \in Seq(Cells)
      BY <2>11
    <3>2. ASSUME NEW h \in Shape, NEW t, Expanded(t) \in Seq(Cells) PROVE Step(h, t) \in Shape
      <4>1. h.out \o Expanded(t) \in Seq(Cells)
        BY <3>2 DEF Shape
      <4>2. QED
        BY <3>2, <4>1 DEF Step, Shape
    <3>3. QED
      BY <2>10, <3>1, <3>2
  <2>13. QED
    BY <2>4, <2>6, <2>7, <2>8, <2>9, <2>12
<1>4. Len(toks) \in 0..Len(toks) /\ 1..Len(toks) \in SUBSET (1..Len(toks))
  BY <1>1
<1>5. QED
  BY <1>2, <1>3, <1>4

-----------------------------------------------------------------------------
(* The pool.                                                               *)

\* The text d lies in the pool q from s, and nothing will be written over it: the
\* pool goes on at p.  Only the end of it may be cut off, if e says so.
Stored(q, p, e, s, d) ==
    /\ s \in 0 .. MACMAX
    /\ \A k \in 1 .. Len(d) : s + k - 1 < MACMAX => q[s + k - 1] = d[k]
    /\ s + Len(d) < MACMAX => q[s + Len(d)] = NUL
    /\ s + Len(d) < p \/ (p = MACMAX /\ e)

Pool ==
    /\ macptr \in 0 .. MACMAX
    /\ macq \in [0 .. MACMAX -> Cells \cup {NUL}] /\ macq[MACMAX] = NUL
    /\ macn \in [Names -> 0 .. MACMAX \cup {None}]
    /\ defs \in [Names -> Seq(Cells)]
    /\ \A n \in Names : macn[n] # None => Stored(macq, macptr, errcnt, macn[n], defs[n])

\* The text of a macro is read back as it was stored.
LEMMA TextRight ==
    ASSUME Pool, NEW n \in Names, Defined(n)
    PROVE  /\ TextAt(macn[n]) \in Seq(Cells)
           /\ \/ TextAt(macn[n]) = defs[n]
              \/ errcnt /\ macptr = MACMAX /\ IsPrefix(TextAt(macn[n]), defs[n])
<1> DEFINE s == macn[n]
           d == defs[n]
           e == IF s + Len(d) < MACMAX THEN s + Len(d) ELSE MACMAX
<1>1. /\ Stored(macq, macptr, errcnt, s, d) /\ d \in Seq(Cells) /\ MACMAX \in Nat
      /\ macq \in [0 .. MACMAX -> Cells \cup {NUL}] /\ macq[MACMAX] = NUL /\ macptr \in 0..MACMAX
  BY PoolAssumption DEF Pool, Defined
<1> HIDE DEF s, d
<1>2. s \in 0..MACMAX /\ Len(d) \in Nat /\ \A k \in 1..Len(d) : d[k] \in Cells
  BY <1>1 DEF Stored
<1>3. e \in s..MACMAX /\ macq[e] = NUL
  BY <1>1, <1>2 DEF Stored
<1>4. \A k \in s..(e - 1) : macq[k] = d[k - s + 1] /\ macq[k] # NUL
  <2>1. SUFFICES ASSUME NEW k \in s..(e - 1) PROVE macq[k] = d[k - s + 1] /\ macq[k] # NUL
    OBVIOUS
  <2>2. k - s + 1 \in 1..Len(d) /\ s + (k - s + 1) - 1 = k /\ k < MACMAX
    BY <1>1, <1>2, <1>3
  <2>3. macq[k] = d[k - s + 1]
    BY <1>1, <2>2 DEF Stored
  <2>4. QED
    BY <1>2, <2>2, <2>3, NulIsNoCell
<1>5. EndOf(s) = e
  <2>1. \A x \in s..MACMAX : (macq[x] = NUL /\ \A k \in s..(x - 1) : macq[k] # NUL) <=> x = e
    <3>1. SUFFICES ASSUME NEW x \in s..MACMAX, macq[x] = NUL, \A k \in s..(x - 1) : macq[k] # NUL
                   PROVE  x = e
      BY <1>3, <1>4
    <3>2. x \notin s..(e - 1)
      BY <1>4, <3>1
    <3>3. e \notin s..(x - 1)
      BY <1>3, <3>1
    <3>4. x \in Int /\ e \in Int /\ s \in Int /\ s <= x /\ s <= e
      BY <1>1, <1>2, <1>3, <3>1
    <3> HIDE DEF e
    <3>5. QED
      BY <3>2, <3>3, <3>4
  <2> HIDE DEF e
  <2>2. QED
    BY <1>3, <2>1 DEF EndOf
<1>6. /\ e - s \in Nat /\ e - s <= Len(d)
      /\ TextAt(s) = [k \in 1..(e - s) |-> d[k]]
  <2>1. e - s \in Nat /\ e - s <= Len(d)
    BY <1>1, <1>2, <1>3
  <2>2. ASSUME NEW k \in 1..(e - s) PROVE macq[s + k - 1] = d[k]
    <3>1. s + k - 1 \in s..(e - 1) /\ (s + k - 1) - s + 1 = k
      BY <1>1, <1>2, <1>3, <2>1
    <3>2. QED
      BY <1>4, <3>1
  <2> HIDE DEF e
  <2>3. TextAt(s) = [k \in 1..(e - s) |-> macq[s + k - 1]]
    BY <1>5 DEF TextAt
  <2>4. QED
    BY <2>1, <2>2, <2>3
<1>7. CASE s + Len(d) <= MACMAX
  <2>1. e - s = Len(d)
    BY <1>1, <1>2, <1>7
  <2> HIDE DEF e
  <2>2. TextAt(s) = d
    BY <1>1, <1>6, <2>1
  <2>3. QED
    BY <1>1, <2>2 DEF s, d
<1>8. CASE ~(s + Len(d) <= MACMAX)
  <2>1. errcnt /\ macptr = MACMAX
    BY <1>1, <1>2, <1>8 DEF Stored
  <2> HIDE DEF e
  <2>2. TextAt(s) \in Seq(Cells) /\ Len(TextAt(s)) = e - s
    <3>1. \A k \in 1..(e - s) : d[k] \in Cells
      BY <1>2, <1>6
    <3>2. QED
      BY <1>6, <3>1
  <2>3. IsPrefix(TextAt(s), d)
    BY <1>1, <1>6, <2>2 DEF IsPrefix
  <2>4. QED
    BY <2>1, <2>2, <2>3 DEF s, d
<1>9. QED
  BY <1>7, <1>8

\* A text is put behind what is there, and what does not fit is cut off.
LEMMA putmacKeeps ==
    ASSUME Pool, NEW text \in Seq(Cells), putmac(text)
    PROVE  /\ macptr' \in 0 .. MACMAX /\ macptr <= macptr'
           /\ macq' \in [0 .. MACMAX -> Cells \cup {NUL}] /\ macq'[MACMAX] = NUL
           /\ \A i \in 0 .. MACMAX : i < macptr => macq'[i] = macq[i]
           /\ \A k \in 1 .. Len(text) : macptr + k - 1 < MACMAX => macq'[macptr + k - 1] = text[k]
           /\ macptr + Len(text) < MACMAX => macq'[macptr + Len(text)] = NUL
           /\ macptr + Len(text) < macptr' \/ macptr' = MACMAX
<1> DEFINE n == Len(text)
           Cell(i) == IF i < macptr THEN macq[i]
                      ELSE IF i = MACMAX /\ macptr + n >= MACMAX THEN NUL
                      ELSE IF i < macptr + n THEN text[i - macptr + 1]
                      ELSE IF i = macptr + n THEN NUL ELSE macq[i]
<1>1. /\ macptr \in 0..MACMAX /\ MACMAX \in Nat /\ n \in Nat
      /\ macq \in [0 .. MACMAX -> Cells \cup {NUL}] /\ macq[MACMAX] = NUL
      /\ \A k \in 1..n : text[k] \in Cells
  BY PoolAssumption DEF Pool
<1>2. /\ macq' = [i \in 0..MACMAX |-> Cell(i)]
      /\ macptr' = IF macptr + n + 1 < MACMAX THEN macptr + n + 1 ELSE MACMAX
  BY DEF putmac
<1> HIDE DEF n
<1>3. \A i \in 0..MACMAX : Cell(i) \in Cells \cup {NUL}
  <2>1. SUFFICES ASSUME NEW i \in 0..MACMAX, ~(i < macptr), i < macptr + n
                 PROVE  text[i - macptr + 1] \in Cells
    BY <1>1
  <2>2. i - macptr + 1 \in 1..n
    BY <1>1, <2>1
  <2>3. QED
    BY <1>1, <2>2
<1>4. macptr' \in 0..MACMAX /\ macptr <= macptr' /\ (macptr + n < macptr' \/ macptr' = MACMAX)
  BY <1>1, <1>2
<1>5. Cell(MACMAX) = NUL
  BY <1>1
<1>6. \A k \in 1..n, i \in Int : i = macptr + k - 1 /\ i < MACMAX => Cell(i) = text[k]
  <2>1. SUFFICES ASSUME NEW k \in 1..n, NEW i \in Int, i = macptr + k - 1, i < MACMAX
                 PROVE  Cell(i) = text[k]
    OBVIOUS
  <2>2. ~(i < macptr) /\ i # MACMAX /\ i < macptr + n /\ i - macptr + 1 = k
    BY <1>1, <2>1
  <2>3. QED
    BY <2>2
<1>7. macptr + n < MACMAX => Cell(macptr + n) = NUL
  BY <1>1
<1>8. \A i \in 0..MACMAX : i < macptr => Cell(i) = macq[i]
  OBVIOUS
<1>9. \A k \in 1..n : macptr + k - 1 < MACMAX => macptr + k - 1 \in 0..MACMAX /\ macptr + k - 1 \in Int
  BY <1>1
<1>10. macptr + n < MACMAX => macptr + n \in 0..MACMAX
  BY <1>1
<1>11. MACMAX \in 0..MACMAX
  BY <1>1
<1> HIDE DEF Cell
<1>12. QED
  BY <1>2, <1>3, <1>4, <1>5, <1>6, <1>7, <1>8, <1>9, <1>10, <1>11 DEF n

\* Pool in the next state.
LEMMA PoolPrime ==
    ASSUME macptr' \in 0 .. MACMAX, macq' \in [0 .. MACMAX -> Cells \cup {NUL}], macq'[MACMAX] = NUL,
           macn' \in [Names -> 0 .. MACMAX \cup {None}], defs' \in [Names -> Seq(Cells)],
           \A n \in Names : macn'[n] # None => Stored(macq', macptr', errcnt', macn'[n], defs'[n])
    PROVE  Pool'
<1>1. (\A n \in Names : macn[n] # None => Stored(macq, macptr, errcnt, macn[n], defs[n]))'
  BY Zenon DEF Stored
<1>2. QED
  BY <1>1 DEF Pool

\* An error is never taken back.
LEMMA PoolKept ==
    ASSUME Pool, UNCHANGED macros, errcnt => errcnt'
    PROVE  Pool'
<1>1. macn' = macn /\ macq' = macq /\ macptr' = macptr /\ defs' = defs
  BY DEF macros
<1>2. \A n \in Names : macn'[n] # None => Stored(macq', macptr', errcnt', macn'[n], defs'[n])
  BY <1>1 DEF Pool, Stored
<1>3. QED
  BY <1>1, <1>2, PoolPrime DEF Pool

LEMMA dodefineKeeps ==
    ASSUME Pool, NEW rest \in Seq(Cells), rest # <<>>, dodefine(rest)
    PROVE  Pool' /\ (errcnt \in BOOLEAN => errcnt' \in BOOLEAN)
<1>1. CASE errcnt' = TRUE /\ UNCHANGED macros
  BY <1>1, PoolKept
<1>2. CASE ~(errcnt' = TRUE /\ UNCHANGED macros)
  <2> DEFINE n == Head(rest)
             text == Tail(rest)
  <2>1. /\ n \in Names /\ macn' = [macn EXCEPT ![n] = macptr] /\ putmac(text)
        /\ defs' = [defs EXCEPT ![n] = text]
        /\ errcnt' = (errcnt \/ macptr' >= MACMAX)
    BY <1>2 DEF dodefine
  <2>2. text \in Seq(Cells)
    OBVIOUS
  <2> HIDE DEF n, text
  <2>3. /\ macptr' \in 0 .. MACMAX /\ macptr <= macptr'
        /\ macq' \in [0 .. MACMAX -> Cells \cup {NUL}] /\ macq'[MACMAX] = NUL
        /\ \A i \in 0 .. MACMAX : i < macptr => macq'[i] = macq[i]
        /\ \A k \in 1 .. Len(text) : macptr + k - 1 < MACMAX => macq'[macptr + k - 1] = text[k]
        /\ macptr + Len(text) < MACMAX => macq'[macptr + Len(text)] = NUL
        /\ macptr + Len(text) < macptr' \/ macptr' = MACMAX
    BY <2>1, <2>2, putmacKeeps
  <2>4. macptr \in 0..MACMAX /\ MACMAX \in Nat /\ macn \in [Names -> 0..MACMAX \cup {None}]
        /\ defs \in [Names -> Seq(Cells)]
    BY PoolAssumption DEF Pool
  <2>5. (errcnt => errcnt') /\ (macptr' = MACMAX => errcnt')
    <3>1. macptr' = MACMAX => macptr' >= MACMAX
      BY <2>4
    <3>2. QED
      BY <2>1, <3>1, Zenon
  <2>6. Stored(macq', macptr', errcnt', macptr, text)
    BY <2>3, <2>4, <2>5 DEF Stored
  <2>7. ASSUME NEW s \in 0..MACMAX, NEW d \in Seq(Cells), Stored(macq, macptr, errcnt, s, d)
        PROVE  Stored(macq', macptr', errcnt', s, d)
    <3>1. Len(d) \in Nat /\ macptr' \in 0..MACMAX
      BY <2>3, <2>7
    <3>2. CASE s + Len(d) < macptr
      <4>1. s + Len(d) < macptr'
        BY <2>3, <2>4, <3>1, <3>2
      <4>2. \A k \in 1..Len(d) : s + k - 1 \in 0..MACMAX /\ s + k - 1 < macptr
        BY <2>4, <3>1, <3>2
      <4>3. s + Len(d) \in 0..MACMAX
        BY <2>4, <3>1, <3>2
      <4>4. QED
        BY <2>3, <2>7, <3>2, <4>1, <4>2, <4>3 DEF Stored
    <3>3. CASE ~(s + Len(d) < macptr)
      <4>1. macptr = MACMAX /\ errcnt
        BY <2>7, <3>3 DEF Stored
      <4>2. macptr' = MACMAX /\ errcnt'
        BY <2>3, <2>4, <2>5, <4>1
      <4>3. \A k \in 1..Len(d) : s + k - 1 < MACMAX => s + k - 1 \in 0..MACMAX
        BY <2>4, <3>1
      <4>4. s + Len(d) < MACMAX => s + Len(d) \in 0..MACMAX
        BY <2>4, <3>1
      <4>5. QED
        BY <2>3, <2>7, <4>1, <4>2, <4>3, <4>4 DEF Stored
    <3>4. QED
      BY <3>2, <3>3
  <2>8. \A m \in Names : macn'[m] # None => Stored(macq', macptr', errcnt', macn'[m], defs'[m])
    <3>1. SUFFICES ASSUME NEW m \in Names, macn'[m] # None
                   PROVE  Stored(macq', macptr', errcnt', macn'[m], defs'[m])
      OBVIOUS
    <3>2. CASE m = n
      BY <2>1, <2>4, <2>6, <3>2
    <3>3. CASE m # n
      <4>1. macn'[m] = macn[m] /\ defs'[m] = defs[m]
        BY <2>1, <2>4, <3>3
      <4>2. macn[m] \in 0..MACMAX /\ defs[m] \in Seq(Cells) /\ Stored(macq, macptr, errcnt, macn[m], defs[m])
        BY <2>4, <3>1, <4>1 DEF Pool
      <4>3. QED
        BY <2>7, <4>1, <4>2
    <3>4. QED
      BY <3>2, <3>3
  <2>9. macn' \in [Names -> 0 .. MACMAX \cup {None}] /\ defs' \in [Names -> Seq(Cells)]
    BY <2>1, <2>2, <2>4
  <2>10. errcnt' \in BOOLEAN
    BY <2>1, Zenon
  <2>11. QED
    BY <2>3, <2>8, <2>9, <2>10, PoolPrime
<1>3. QED
  BY <1>1, <1>2

-----------------------------------------------------------------------------
(* The types of the rest.                                                  *)

Reading ==
    /\ mode \in {"parse", "comment", "asm"}
    /\ pending \in {"no", "define", "include"}
    /\ pline \in Seq(Cells)
    /\ lineno \in 0 .. MaxLines /\ incleft \in 0 .. IncLines
    /\ incunit \in BOOLEAN /\ eof \in BOOLEAN /\ errcnt \in BOOLEAN

LEMMA LineType ==
    ASSUME NEW l \in Lines
    PROVE  /\ l.dir \in Directives \cup Conditionals \cup {"blank", "text"}
           /\ l.toks \in Seq(Tokens)
<1>1. CASE \E d \in {"#ifdef", "#ifndef"}, n \in Names : l = Line(d, <<n>>)
  BY <1>1 DEF Line, Conditionals, Tokens
<1>2. CASE \E d \in {"#else", "#endif", "#asm", "#endasm", "blank"} : l = Line(d, <<>>)
  BY <1>2 DEF Line, Conditionals, Directives
<1>3. CASE \E n \in Names, b \in Bodies : l = Line("#define", <<n>> \o b)
  <2>1. PICK n \in Names, b \in Bodies : l = Line("#define", <<n>> \o b)
    BY <1>3
  <2>2. <<n>> \in Seq(Tokens) /\ b \in Seq(Tokens)
    <3>1. b \in Seq(Names \cup {Text})
      BY LinesAssumption
    <3>2. \A i \in 1..Len(b) : b[i] \in Tokens
      BY <3>1 DEF Tokens
    <3>3. n \in Tokens
      BY DEF Tokens
    <3>4. QED
      BY <3>1, <3>2, <3>3
  <2>3. <<n>> \o b \in Seq(Tokens)
    BY <2>2
  <2>4. QED
    BY <2>1, <2>3 DEF Line, Directives
<1>4. CASE \E t \in {<<>>, <<Text>>} : l = Line("#include", t)
  <2>1. Text \in Tokens /\ <<>> \in Seq(Tokens)
    BY DEF Tokens
  <2>2. <<Text>> \in Seq(Tokens)
    BY <2>1
  <2>3. PICK t \in Seq(Tokens) : l = Line("#include", t)
    BY <1>4, <2>1, <2>2
  <2>4. QED
    BY <2>3 DEF Line, Directives
<1>5. CASE \E t \in Texts : l = Line("text", t)
  BY <1>5, LinesAssumption DEF Line
<1>6. QED
  BY <1>1, <1>2, <1>3, <1>4, <1>5 DEF Lines

\* What the preprocessor makes of a line that counts.
LEMMA ScannedType ==
    ASSUME Reading, Pool, NEW l \in Lines, Counts(l)
    PROVE  Scanned(l).out \in Seq(Cells) /\ Scanned(l).comment \in BOOLEAN
<1>1. l.dir \in Directives \cup {"text"} /\ l.toks \in Seq(Tokens)
  BY LineType DEF Counts
<1>2. l.toks \in Seq(Cells)
  <2>1. \A i \in 1..Len(l.toks) : l.toks[i] \in Cells
    BY <1>1 DEF Cells
  <2>2. QED
    BY <1>1, <2>1
<1>3. l.dir # "text" => <<l.dir>> \o l.toks \in Seq(Cells)
  <2>1. l.dir # "text" => l.dir \in Cells
    BY <1>1 DEF Cells
  <2>2. QED
    BY <1>2, <2>1
<1>4. \A t \in Cells : Expanded(t) \in Seq(Cells)
  <2>1. SUFFICES ASSUME NEW t \in Cells PROVE Expanded(t) \in Seq(Cells)
    OBVIOUS
  <2>2. CASE t \in Names /\ Defined(t)
    BY <2>2, TextRight DEF Expanded
  <2>3. CASE ~(t \in Names /\ Defined(t))
    BY <2>3 DEF Expanded
  <2>4. QED
    BY <2>2, <2>3
<1>5. pline \in Seq(Cells) /\ (mode = "comment") \in BOOLEAN
  BY DEF Reading
<1>6. Scanned(l) \in Shape
  <2> DEFINE toks == IF l.dir = "text" THEN l.toks ELSE <<l.dir>> \o l.toks
  <2>1. toks \in Seq(Cells)
    BY <1>2, <1>3
  <2>2. Scanned(l) = Scan(toks, mode = "comment")
    BY DEF Scanned
  <2> HIDE DEF toks
  <2>3. PICK c \in BOOLEAN : c = (mode = "comment")
    BY <1>5
  <2>4. Scan(toks, c) \in Shape
    BY <1>4, <1>5, <2>1, <2>3, ScanType
  <2>5. QED
    BY <2>2, <2>3, <2>4
<1>7. QED
  BY <1>6 DEF Shape

\* A line is read, and the include it is from stays open or is closed.
LEMMA FileKept ==
    ASSUME Reading, CanRead, SameFile
    PROVE  incunit' \in BOOLEAN /\ incleft' \in 0..IncLines
<1>1. incunit \in BOOLEAN /\ (incunit' = incunit \/ incunit' = FALSE)
  BY DEF SameFile, Reading
<1>2. incunit' \in BOOLEAN
  BY <1>1
<1>3. incunit => incleft - 1 \in 0..IncLines
  BY BoundsAssumption DEF CanRead, Reading
<1>4. incleft' = IF incunit' THEN incleft - 1 ELSE 0
  BY DEF SameFile
<1>5. (incleft' = incleft - 1 /\ incunit) \/ incleft' = 0
  <2>1. CASE incunit' = FALSE
    BY <1>4, <2>1
  <2>2. CASE incunit' = incunit /\ incunit
    BY <1>4, <2>2
  <2>3. CASE incunit' = incunit /\ ~incunit
    BY <1>4, <2>3
  <2> QED
    BY <1>1, <2>1, <2>2, <2>3
<1>6. incleft' \in 0..IncLines
  BY <1>3, <1>5, BoundsAssumption
<1> QED
  BY <1>2, <1>6

\* A directive takes its operand, or waits for it.
LEMMA OperandKeeps ==
    ASSUME Reading, Pool, NEW directive \in {"define", "include"}, NEW rest \in Seq(Cells),
           Operand(directive, rest), CanRead, Counted, mode' = "parse", pline' = <<>>
    PROVE  Reading' /\ Pool'
<1>1. lineno' \in 0..MaxLines /\ eof' \in BOOLEAN
  BY BoundsAssumption DEF CanRead, Counted, Reading
<1>2. SameFile => incunit' \in BOOLEAN /\ incleft' \in 0..IncLines
  BY FileKept
<1>3. CASE rest = <<>>
  <2>1. pending' = directive /\ SameFile /\ UNCHANGED macros /\ errcnt' = errcnt
    BY <1>3 DEF Operand
  <2>2. QED
    BY <1>1, <1>2, <2>1, PoolKept DEF Reading
<1>4. CASE rest # <<>> /\ directive = "define"
  <2>1. pending' = "no" /\ dodefine(rest) /\ SameFile
    BY <1>4 DEF Operand
  <2>2. Pool' /\ errcnt' \in BOOLEAN
    BY <1>4, <2>1, dodefineKeeps DEF Reading
  <2>3. QED
    BY <1>1, <1>2, <2>1, <2>2 DEF Reading
<1>5. CASE rest # <<>> /\ directive = "include"
  <2>1. pending' = "no" /\ doinclude /\ UNCHANGED macros
    BY <1>5 DEF Operand
  <2>2. incunit' \in BOOLEAN /\ incleft' \in 0..IncLines
    <3>1. IncLines \in 0..IncLines /\ (incunit => incleft - 1 \in 0..IncLines)
      BY BoundsAssumption DEF CanRead, Reading
    <3>2. SameFile \/ (incunit' = TRUE /\ incleft' = IF incunit THEN incleft - 1 ELSE IncLines)
      BY <2>1, Zenon DEF doinclude
    <3>3. CASE SameFile
      BY <1>2, <3>3
    <3>4. CASE incunit' = TRUE /\ incleft' = IF incunit THEN incleft - 1 ELSE IncLines
      BY <3>1, <3>4
    <3>5. QED
      BY <3>2, <3>3, <3>4
  <2>3. errcnt' = errcnt \/ errcnt' = TRUE
    BY <2>1, Zenon DEF doinclude
  <2>4. (errcnt => errcnt') /\ errcnt' \in BOOLEAN
    BY <2>3, Zenon DEF Reading
  <2>5. Pool'
    BY <2>1, <2>4, PoolKept
  <2>6. QED
    BY <1>1, <2>1, <2>2, <2>4, <2>5 DEF Reading
<1>6. QED
  BY <1>3, <1>4, <1>5

\* The lines that define nothing.
LEMMA PlainKeeps ==
    ASSUME Reading, Pool, NEW l \in Lines,
           IfLine(l) \/ Dropped(l) \/ LeavesOpen(l) \/ Asm(l) \/ Compiled(l) \/ AsmLine(l)
    PROVE  Reading' /\ Pool'
<1>1. CanRead /\ Counted /\ SameFile /\ UNCHANGED macros
  BY DEF IfLine, Dropped, LeavesOpen, Asm, Compiled, AsmLine, Reads, inline, Begins, Finished, Counts
<1>2. lineno' \in 0..MaxLines /\ eof' \in BOOLEAN /\ incunit' \in BOOLEAN /\ incleft' \in 0..IncLines
  BY <1>1, FileKept, BoundsAssumption DEF CanRead, Counted, Reading
<1>3. errcnt' = errcnt \/ errcnt' = TRUE
  BY DEF IfLine, Conditional, Else, Endif, noiferr, Dropped, LeavesOpen, Asm, Compiled, AsmLine
<1>4. Pool'
  BY <1>1, <1>3, PoolKept
<1>5. pline' \in Seq(Cells)
  <2>1. CASE LeavesOpen(l)
    BY <2>1, ScannedType DEF LeavesOpen
  <2>2. CASE ~LeavesOpen(l)
    <3>1. pline' = pline \/ pline' = <<>>
      BY <2>2 DEF IfLine, Dropped, Asm, Compiled, AsmLine, Begins, Finished, reader
    <3>2. <<>> \in Seq(Cells) /\ pline \in Seq(Cells)
      BY DEF Reading
    <3>3. QED
      BY <3>1, <3>2
  <2>3. QED
    BY <2>1, <2>2
<1>6. mode' \in {"parse", "comment", "asm"} /\ pending' = pending
  BY DEF IfLine, Dropped, LeavesOpen, Asm, Compiled, AsmLine, reader, Reading
<1>7. QED
  BY <1>2, <1>3, <1>4, <1>5, <1>6 DEF Reading

\* A directive with its operand.
LEMMA DirectiveKeeps ==
    ASSUME Reading, Pool, NEW l \in Lines, Continues(l) \/ Define(l) \/ Include(l)
    PROVE  Reading' /\ Pool'
<1>1. Counts(l) /\ CanRead /\ Counted /\ mode' = "parse" /\ pline' = <<>>
  BY DEF Continues, Define, Include, Begins, Finished, Counts
<1>2. Scanned(l).out \in Seq(Cells)
  BY <1>1, ScannedType
<1>3. CASE Continues(l)
  <2>1. pending \in {"define", "include"} /\ Operand(pending, Scanned(l).out)
    BY <1>3 DEF Continues, Reading
  <2>2. QED
    BY <1>1, <1>2, <2>1, OperandKeeps
<1>4. CASE Define(l) \/ Include(l)
  <2>1. PICK d \in {"define", "include"} : Operand(d, Tail(Scanned(l).out)) /\ Scanned(l).out # <<>>
    BY <1>4 DEF Define, Include, Begins
  <2>2. Tail(Scanned(l).out) \in Seq(Cells)
    BY <1>2, <2>1
  <2>3. QED
    BY <1>1, <2>1, <2>2, OperandKeeps
<1>5. QED
  BY <1>3, <1>4

LEMMA PoolStep == Reading /\ Pool /\ [Next]_vars => Reading' /\ Pool'
<1> SUFFICES ASSUME Reading, Pool, [Next]_vars PROVE Reading' /\ Pool'
  OBVIOUS
<1>1. ASSUME NEW l \in Lines,
             \/ IfLine(l) \/ Dropped(l) \/ LeavesOpen(l) \/ Continues(l) \/ Define(l)
             \/ Include(l) \/ Asm(l) \/ Compiled(l) \/ AsmLine(l)
      PROVE  Reading' /\ Pool'
  BY <1>1, PlainKeeps, DirectiveKeeps
<1>2. CASE IncludeEnds
  <2>1. UNCHANGED macros /\ errcnt' = errcnt
    BY <1>2 DEF IncludeEnds
  <2>2. Pool'
    BY <2>1, PoolKept
  <2>3. QED
    <3>1. incunit' = FALSE /\ incleft' = 0 /\ 0 \in 0..IncLines /\ UNCHANGED <<reader, lineno, eof, errcnt>>
      BY <1>2, BoundsAssumption DEF IncludeEnds
    <3>2. incunit' \in BOOLEAN /\ incleft' \in 0..IncLines
      BY <3>1
    <3>3. QED
      BY <2>2, <3>1, <3>2 DEF Reading, reader
<1>3. CASE SourceEnds
  <2>1. UNCHANGED macros /\ errcnt' \in {errcnt, errcnt \/ pending # "no"}
    BY <1>3 DEF SourceEnds
  <2>2. (errcnt => errcnt') /\ errcnt' \in BOOLEAN
    BY <2>1, Zenon DEF Reading
  <2>3. Pool'
    BY <2>1, <2>2, PoolKept
  <2>4. eof' = TRUE /\ mode' = "parse" /\ pending' = "no" /\ pline' = <<>> /\ UNCHANGED <<lineno, incunit, incleft>>
    BY <1>3 DEF SourceEnds
  <2>5. eof' \in BOOLEAN /\ pline' \in Seq(Cells)
    BY <2>4
  <2>6. QED
    BY <2>2, <2>3, <2>4, <2>5 DEF Reading
<1>4. CASE UNCHANGED vars
  <2>1. UNCHANGED macros /\ errcnt' = errcnt
    BY <1>4 DEF vars, macros
  <2>2. Pool'
    BY <2>1, PoolKept
  <2>3. QED
    BY <1>4, <2>2 DEF vars, Reading
<1>5. QED
  BY <1>1, <1>2, <1>3, <1>4 DEF Next

\* Whatever is defined, redefined and cut off, for every size of the pool: a name
\* stands for the text of its last #define, and only a text that was reported has
\* lost its end (dodefine and putmac).
THEOREM MacrosRight == Spec => []MacroTrue
<1>1. Init => Inv /\ Reading /\ Pool
  <2>1. Init => Inv
    BY DEF Init, Inv, Levels, SkipFollows
  <2>2. Init => Reading
    <3>1. SUFFICES ASSUME Init PROVE Reading
      OBVIOUS
    <3>2. 0 \in 0..MaxLines /\ 0 \in 0..IncLines
      BY BoundsAssumption
    <3>3. incunit \in BOOLEAN /\ eof \in BOOLEAN /\ errcnt \in BOOLEAN
      BY <3>1, Zenon DEF Init
    <3>4. <<>> \in Seq(Cells)
      OBVIOUS
    <3>5. /\ mode = "parse" /\ pending = "no" /\ pline = <<>> /\ lineno = 0 /\ incleft = 0
      BY <3>1 DEF Init
    <3>6. QED
      BY <3>2, <3>3, <3>4, <3>5 DEF Reading
  <2>3. Init => Pool
    BY PoolAssumption DEF Init, Pool
  <2>4. QED
    BY <2>1, <2>2, <2>3
<1>2. Inv /\ Reading /\ Pool /\ [Next]_vars => Inv' /\ Reading' /\ Pool'
  BY NextInv, PoolStep
<1>3. Inv /\ Reading /\ Pool => MacroTrue
  <2> SUFFICES ASSUME Inv, Reading, Pool PROVE MacroTrue
    OBVIOUS
  <2>1. TypeOK
    BY DEF TypeOK, Inv, Levels, Reading, Pool, Cells
  <2>2. QED
    BY <2>1, TextRight DEF MacroTrue, Defined
<1>4. QED
  BY <1>1, <1>2, <1>3, PTL DEF Spec

=============================================================================
