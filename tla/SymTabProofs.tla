----------------------------- MODULE SymTabProofs ---------------------------
(***************************************************************************)
(* Theorems about the assembler's symbol table, for every odd size, every  *)
(* hash function whose probes differ, and every set of names.              *)
(***************************************************************************)
EXTENDS SymTab, FiniteSetTheorems, TLAPS

LEMMA ProbesFinite == IsFiniteSet(Probes) /\ Probes \subseteq Nat
<1>1. (SYMBOLS - 3) \div 2 \in Int
  BY TableAssumption
<1>2. QED
  BY <1>1, FS_Interval DEF Probes

LEMMA ModRange == ASSUME NEW m \in Nat, NEW n \in Nat \ {0} PROVE m % n \in 0..n - 1
  OBVIOUS

\* Every probe is a slot.
LEMMA ProbeSlot == ASSUME NEW n \in Names, NEW k \in Probes PROVE Probe(n, k) \in Slots
<1>1. k \in Nat /\ hash[n] \in Nat
  BY ProbesFinite, TableAssumption
<1>2. k * k \in Nat
  BY <1>1
<1>3. hash[n] + k * k \in Nat
  BY <1>1, <1>2
<1>4. SYMBOLS \in Nat \ {0}
  BY TableAssumption
<1>5. QED
  BY <1>3, <1>4, ModRange DEF Probe, Slots

\* A search ends at one probe at most.
LEMMA EndsOnce ==
    ASSUME NEW n \in Names, NEW j \in Probes, NEW k \in Probes, EndsAt(n, j), EndsAt(n, k)
    PROVE  j = k
<1>1. ~(j < k) /\ ~(k < j)
  BY DEF EndsAt
<1>2. QED
  BY <1>1, ProbesFinite

\* A slot that is not free holds the name of its entry.
LEMMA HoldsName ==
    ASSUME TypeOK, NEW s \in Slots, symtbl[s] # Free
    PROVE  /\ symtbl[s] \in Entry /\ symtbl[s].name \in Names /\ symtbl[s].symvalu \in Word
           /\ Holds(s, symtbl[s].name)
  BY DEF TypeOK, Entry, Holds

-----------------------------------------------------------------------------
(* The invariant.                                                          *)

LEMMA InitIInv == Init => IInv
<1> SUFFICES ASSUME Init PROVE IInv
  OBVIOUS
<1>1. \A s \in Slots : symtbl[s] = Free
  BY DEF Init
<1>2. TypeOK
  BY TableAssumption DEF Init, TypeOK
<1>3. FoundAgain
  BY <1>1 DEF FoundAgain, Holds
<1>4. OneSlotEach
  BY <1>1 DEF OneSlotEach, Init
<1>5. QED
  BY <1>2, <1>3, <1>4 DEF IInv

\* Found again implies one slot each, while the table is not sorted.
LEMMA OneSlot == ASSUME TypeOK, FoundAgain, phase # "sorted" PROVE OneSlotEach
<1> SUFFICES ASSUME NEW s \in Slots, NEW t \in Slots, symtbl[s] # Free, symtbl[t] # Free,
                    symtbl[s].name = symtbl[t].name
             PROVE  s = t
  BY DEF OneSlotEach
<1>1. PICK n \in Names : n = symtbl[s].name /\ Holds(s, n) /\ Holds(t, n)
  BY HoldsName
<1>2. PICK j \in Probes : EndsAt(n, j) /\ Probe(n, j) = s
  BY <1>1 DEF FoundAgain
<1>3. PICK k \in Probes : EndsAt(n, k) /\ Probe(n, k) = t
  BY <1>1 DEF FoundAgain
<1>4. j = k
  BY <1>2, <1>3, EndsOnce
<1>5. QED
  BY <1>2, <1>3, <1>4

\* Storing a name: the slot that changes was free, or held that very name, so that
\* no search of another name ends elsewhere than before.
LEMMA StoreStep == ASSUME IInv, Store PROVE IInv'
<1>1. PICK n \in Names, v \in Word, k \in Probes :
        /\ EndsAt(n, k)
        /\ symtbl' = [symtbl EXCEPT ![Probe(n, k)] = [name |-> n, symvalu |-> v]]
  BY DEF Store
<1>2. PICK e \in Entry : e = [name |-> n, symvalu |-> v] /\ e # Free /\ e.name = n
  <2>1. [name |-> n, symvalu |-> v] \in Entry
    BY DEF Entry
  <2>2. Free \notin Entry
    BY TableAssumption DEF Entry
  <2>3. QED
    BY <2>1, <2>2
<1>3. PICK p \in Slots : p = Probe(n, k) /\ (symtbl[p] = Free \/ Holds(p, n))
  BY <1>1, ProbeSlot DEF EndsAt
<1>4. \A s \in Slots : symtbl'[s] = IF s = p THEN e ELSE symtbl[s]
  BY <1>1, <1>2, <1>3 DEF IInv, TypeOK
<1>5. TypeOK'
  <2>1. symtbl' \in [Slots -> Entry \cup {Free}]
    BY <1>1, <1>2, <1>3 DEF IInv, TypeOK
  <2>2. QED
    BY <2>1 DEF IInv, TypeOK, Store
<1>6. phase = "passes" /\ phase' = "passes"
  BY DEF Store
<1>7. ASSUME NEW s \in Slots, NEW m \in Names, Holds(s, m)'
      PROVE  \E i \in Probes : EndsAt(m, i)' /\ Probe(m, i) = s
  <2>1. CASE s = p
    <3>1. m = n
      BY <1>2, <1>4, <1>7, <2>1 DEF Holds
    <3>2. \A j \in Probes : j < k =>
            Probe(n, j) \in Slots /\ Probe(n, j) # p /\ symtbl[Probe(n, j)] # Free
              /\ ~Holds(Probe(n, j), n)
      BY <1>1, <1>3, ProbeSlot DEF EndsAt
    <3>3. \A j \in Probes : j < k =>
            symtbl'[Probe(n, j)] # Free /\ ~Holds(Probe(n, j), n)'
      BY <1>4, <3>2 DEF Holds, Probe
    <3>4. EndsAt(m, k)'
      BY <1>3, <1>7, <2>1, <3>1, <3>3 DEF EndsAt, Probe
    <3>5. QED
      BY <1>3, <2>1, <3>1, <3>4
  <2>2. CASE s # p
    <3>1. Holds(s, m)
      BY <1>4, <1>7, <2>2 DEF Holds
    <3>2. PICK i \in Probes : EndsAt(m, i) /\ Probe(m, i) = s
      BY <1>6, <3>1 DEF IInv, FoundAgain
    <3>3. ASSUME NEW j \in Probes, j < i
          PROVE  symtbl'[Probe(m, j)] # Free /\ ~Holds(Probe(m, j), m)'
      <4>1. PICK q \in Slots : q = Probe(m, j) /\ symtbl[q] # Free /\ ~Holds(q, m)
        BY <3>2, <3>3, ProbeSlot DEF EndsAt
      <4>2. CASE q # p
        BY <1>4, <4>1, <4>2 DEF Holds, Probe
      <4>3. CASE q = p
        BY <1>2, <1>3, <1>4, <4>1, <4>3 DEF Holds, Probe
      <4>4. QED
        BY <4>2, <4>3
    <3>4. EndsAt(m, i)'
      BY <1>7, <3>2, <3>3 DEF EndsAt, Probe
    <3>5. QED
      BY <3>2, <3>4
  <2>3. QED
    BY <2>1, <2>2
<1>8. FoundAgain'
  BY <1>7 DEF FoundAgain, Probe
<1>9. OneSlotEach'
  <2>1. (TypeOK /\ FoundAgain /\ phase # "sorted" => OneSlotEach)'
    BY OneSlot, PTL
  <2>2. QED
    BY <1>5, <1>6, <1>8, <2>1
<1>10. QED
  BY <1>5, <1>8, <1>9 DEF IInv
\* The slots that hold entries are as many as sortsym counts, at most SYMBOLS.
LEMMA OccupiedFinite == IsFiniteSet(Occupied) /\ Cardinality(Occupied) \in 0..SYMBOLS
<1>1. SYMBOLS \in Nat
  BY TableAssumption
<1>2. IsFiniteSet(Slots) /\ Cardinality(Slots) = SYMBOLS
  BY <1>1, FS_Interval DEF Slots
<1>3. IsFiniteSet(Occupied) /\ Cardinality(Occupied) <= Cardinality(Slots)
  BY <1>2, FS_Subset DEF Occupied
<1>4. Cardinality(Occupied) \in Nat
  BY <1>3, FS_CardinalityType
<1>5. QED
  BY <1>1, <1>2, <1>3, <1>4

\* Moving the entries: each of the first slots gets the entry of another slot.
LEMMA SortStep == ASSUME IInv, sortsym PROVE IInv'
<1>1. PICK c \in 0..SYMBOLS : c = Cardinality(Occupied)
  BY OccupiedFinite
<1>2. PICK from \in [0..c - 1 -> Occupied] :
        /\ \A i, j \in DOMAIN from : i < j => from[i] < from[j]
        /\ symtbl' = [s \in Slots |-> Compacted(from, s)]
  BY <1>1 DEF sortsym
<1>3. nssymbols' = c /\ phase = "passes" /\ phase' = "sorted" /\ answer' = answer
  BY <1>1 DEF sortsym
<1>4. c \in Nat /\ SYMBOLS \in Nat /\ DOMAIN from = 0..c - 1 /\ DOMAIN from \subseteq Slots
  BY <1>1, <1>2, TableAssumption DEF Slots
<1>5. \A s \in DOMAIN from : symtbl'[s] = symtbl[from[s]] /\ from[s] \in Occupied
  BY <1>2, <1>4 DEF Compacted
<1>6. TypeOK'
  <2>1. \A s \in Slots : Compacted(from, s) \in Entry \cup {Free}
    BY <1>2, <1>4 DEF Compacted, IInv, TypeOK, Occupied
  <2>2. symtbl' \in [Slots -> Entry \cup {Free}]
    BY <1>2, <2>1
  <2>3. QED
    BY <1>3, <2>2 DEF IInv, TypeOK
<1>7. FoundAgain'
  BY <1>3 DEF FoundAgain
<1>8. OneSlotEach'
  <2> SUFFICES ASSUME NEW s \in DOMAIN from, NEW t \in DOMAIN from,
                      symtbl'[s].name = symtbl'[t].name
               PROVE  s = t
    BY <1>3, <1>4 DEF OneSlotEach
  <2>1. from[s] = from[t]
    <3>1. \A x, y \in Occupied : symtbl[x].name = symtbl[y].name => x = y
      BY <1>3 DEF IInv, OneSlotEach, Occupied
    <3>2. from[s] \in Occupied /\ from[t] \in Occupied
      BY <1>5
    <3>3. symtbl[from[s]].name = symtbl[from[t]].name
      BY <1>5
    <3>4. QED
      BY <3>1, <3>2, <3>3
  <2>2. ~(s < t) /\ ~(t < s)
    <3>1. from[s] \in Nat
      BY <1>4, <1>5 DEF Occupied, Slots
    <3>2. QED
      BY <1>2, <2>1, <3>1
  <2>3. QED
    BY <1>4, <2>2
<1>9. QED
  BY <1>6, <1>7, <1>8 DEF IInv

LEMMA OtherSteps == ASSUME IInv, wipeout \/ Reference \/ UNCHANGED vars PROVE IInv'
<1>1. symtbl' = symtbl /\ nssymbols' = nssymbols
  BY DEF wipeout, Reference, vars
<1>2. \/ phase = "passes" /\ phase' \in {"passes", "overflow"}
      \/ phase' = phase
  BY DEF wipeout, Reference, vars
<1>3. answer' \in Word \cup {Undefined}
  <2>1. ASSUME Reference PROVE answer' \in Word \cup {Undefined}
    <3>1. PICK n \in Names :
            \/ \E k \in Probes : Found(n, k) /\ answer' = symtbl[Probe(n, k)].symvalu
            \/ answer' \in Word \cup {Undefined}
      BY <2>1 DEF Reference
    <3>2. ASSUME NEW k \in Probes, Found(n, k)
          PROVE  symtbl[Probe(n, k)].symvalu \in Word
      BY <3>2, ProbeSlot, HoldsName DEF Found, IInv
    <3>3. QED
      BY <3>1, <3>2
  <2>2. QED
    BY <2>1 DEF wipeout, vars, IInv, TypeOK
<1>4. TypeOK'
  BY <1>1, <1>2, <1>3 DEF IInv, TypeOK
<1>5. FoundAgain'
  BY <1>1, <1>2 DEF IInv, FoundAgain, EndsAt, Holds, Probe
<1>6. OneSlotEach'
  BY <1>1, <1>2 DEF IInv, OneSlotEach
<1>7. QED
  BY <1>4, <1>5, <1>6 DEF IInv

\* What is stored is found again, under one name in one slot, in every state of
\* the two passes (R99SYMB.c).
THEOREM Invariance == Spec => []IInv
<1>1. IInv /\ [Next]_vars => IInv'
  BY StoreStep, SortStep, OtherSteps DEF Next
<1>2. QED
  BY InitIInv, <1>1, PTL DEF Spec

\* No name is ever in two slots: a value is read where it was stored.
THEOREM OneSlotEachHolds == Spec => []OneSlotEach
<1>1. IInv => OneSlotEach
  BY DEF IInv
<1>2. QED
  BY <1>1, Invariance, PTL
-----------------------------------------------------------------------------
(* The table implements a map.                                             *)

Finds == phase # "sorted" =>
    /\ \A s \in Slots, n \in Names : Holds(s, n) =>
          n \in DOMAIN defsBar /\ defsBar[n] = symtbl[s].symvalu
    /\ \A n \in DOMAIN defsBar : n \in Names /\ \E s \in Slots : Holds(s, n)

\* The map has the value of the one slot that a name has.
LEMMA FindsHolds == IInv => Finds
<1> SUFFICES ASSUME IInv, phase # "sorted"
             PROVE  /\ \A s \in Slots, n \in Names : Holds(s, n) =>
                          n \in DOMAIN defsBar /\ defsBar[n] = symtbl[s].symvalu
                    /\ \A n \in DOMAIN defsBar : n \in Names /\ \E s \in Slots : Holds(s, n)
  BY DEF Finds
<1>1. Entries = {symtbl[s] : s \in Occupied}
  BY DEF Entries
<1>2. \A s, t \in Occupied : symtbl[s].name = symtbl[t].name => s = t
  BY DEF IInv, OneSlotEach, Occupied
<1>3. DOMAIN defsBar = {e.name : e \in Entries}
  BY DEF defsBar
<1>4. ASSUME NEW s \in Slots, NEW n \in Names, Holds(s, n)
      PROVE  n \in DOMAIN defsBar /\ defsBar[n] = symtbl[s].symvalu
  <2>1. s \in Occupied /\ symtbl[s] \in Entries /\ symtbl[s].name = n
    BY <1>1, <1>4 DEF Holds, Occupied
  <2>2. n \in DOMAIN defsBar
    BY <1>3, <2>1
  <2>3. \A e \in Entries : e.name = n => e = symtbl[s]
    BY <1>1, <1>2, <2>1
  <2>4. (CHOOSE e \in Entries : e.name = n) = symtbl[s]
    BY <2>1, <2>3
  <2>5. QED
    BY <1>3, <2>2, <2>4 DEF defsBar
<1>5. ASSUME NEW n \in DOMAIN defsBar PROVE n \in Names /\ \E s \in Slots : Holds(s, n)
  <2>1. PICK s \in Occupied : n = symtbl[s].name
    BY <1>1, <1>3
  <2>2. QED
    BY <2>1, HoldsName DEF Occupied, IInv
<1>6. QED
  BY <1>4, <1>5

LEMMA MapIsFunction == defsBar = [m \in DOMAIN defsBar |-> defsBar[m]]
  BY DEF defsBar

\* A name whose search finds neither it nor a free slot is not stored, and as many
\* names are as a search has probes: each met a slot of its own, with a name of
\* its own.
LEMMA RefusedIsCrowded ==
    ASSUME IInv, phase # "sorted", NEW n \in Names, Refused(n)
    PROVE  n \notin DOMAIN defsBar /\ Cardinality(DOMAIN defsBar) >= Cardinality(Probes)
<1>1. Finds
  BY FindsHolds
<1>2. n \notin DOMAIN defsBar
  <2>1. SUFFICES ASSUME n \in DOMAIN defsBar PROVE FALSE
    OBVIOUS
  <2>2. PICK s \in Slots : Holds(s, n)
    BY <1>1, <2>1 DEF Finds
  <2>3. PICK k \in Probes : EndsAt(n, k) /\ Probe(n, k) = s
    BY <2>2 DEF IInv, FoundAgain
  <2>4. QED
    BY <2>2, <2>3 DEF Refused
<1> DEFINE met == [k \in Probes |-> symtbl[Probe(n, k)].name]
<1>3. \A k \in Probes :
        /\ Probe(n, k) \in Slots /\ symtbl[Probe(n, k)] # Free
        /\ symtbl[Probe(n, k)].name \in DOMAIN defsBar
  <2> TAKE k \in Probes
  <2>1. Probe(n, k) \in Slots /\ symtbl[Probe(n, k)] # Free
    BY ProbeSlot DEF Refused
  <2>2. QED
    BY <1>1, <2>1, HoldsName DEF Finds, IInv
<1>4. met \in Injection(Probes, DOMAIN defsBar)
  <2>1. met \in [Probes -> DOMAIN defsBar]
    BY <1>3
  <2>2. ASSUME NEW j \in Probes, NEW k \in Probes, met[j] = met[k] PROVE j = k
    <3>1. Probe(n, j) = Probe(n, k)
      BY <1>3, <2>2 DEF IInv, OneSlotEach
    <3>2. QED
      BY <3>1, ProbesDiffer
  <2>3. QED
    BY <2>1, <2>2 DEF Injection, IsInjective
<1>5. IsFiniteSet(DOMAIN defsBar)
  <2>1. DOMAIN defsBar = {symtbl[s].name : s \in Occupied}
    BY DEF defsBar, Entries
  <2> DEFINE nameIn == [s \in Occupied |-> symtbl[s].name]
  <2>2. nameIn \in Surjection(Occupied, DOMAIN defsBar)
    BY <2>1 DEF Surjection
  <2> HIDE DEF nameIn
  <2>3. QED
    BY <2>2, OccupiedFinite, FS_Surjection
<1>6. Cardinality(Probes) <= Cardinality(DOMAIN defsBar)
  <2> HIDE DEF met
  <2>1. QED
    BY <1>4, <1>5, FS_Injection
<1>7. Cardinality(Probes) \in Nat /\ Cardinality(DOMAIN defsBar) \in Nat
  BY <1>5, ProbesFinite, FS_CardinalityType
<1>8. QED
  BY <1>2, <1>6, <1>7
LEMMA CrowdedMeans == NAMES!Crowded <=> Cardinality(DOMAIN defsBar) >= Cardinality(Probes)
<1>1. NAMES!Cardinality(DOMAIN defsBar) = Cardinality(DOMAIN defsBar)
  BY DEF NAMES!Cardinality, Cardinality
<1>2. QED
  BY <1>1 DEF NAMES!Crowded

LEMMA InitRefines == Init => NAMES!Init
<1> SUFFICES ASSUME Init PROVE NAMES!Init
  OBVIOUS
<1>1. Entries = {}
  BY DEF Init, Entries, Occupied
<1>2. DOMAIN defsBar = {}
  BY <1>1 DEF defsBar
<1>3. defsBar = [n \in {} |-> Undefined]
  <2> HIDE DEF defsBar
  <2>1. QED
    BY <1>2, MapIsFunction
<1>4. QED
  BY <1>3 DEF Init, NAMES!Init

\* Whatever slot the search ends at, storing there changes the map at that name only.
LEMMA StoreRefines == ASSUME IInv, Store PROVE NAMES!Next
<1>1. PICK n \in Names, v \in Word, k \in Probes :
        /\ EndsAt(n, k)
        /\ symtbl' = [symtbl EXCEPT ![Probe(n, k)] = [name |-> n, symvalu |-> v]]
  BY DEF Store
<1>2. PICK p \in Slots : p = Probe(n, k) /\ (symtbl[p] = Free \/ Holds(p, n))
  BY <1>1, ProbeSlot DEF EndsAt
<1>3. PICK e \in Entry : e = [name |-> n, symvalu |-> v] /\ e # Free
  <2>1. [name |-> n, symvalu |-> v] \in Entry /\ Free \notin Entry
    BY TableAssumption DEF Entry
  <2>2. QED
    BY <2>1
<1>4. \A s \in Slots : symtbl'[s] = IF s = p THEN e ELSE symtbl[s]
  BY <1>1, <1>2, <1>3 DEF IInv, TypeOK
<1>5. Holds(p, n)' /\ symtbl'[p].symvalu = v
  BY <1>3, <1>4 DEF Holds
<1>6. \A s \in Slots, m \in Names :
        m # n => (Holds(s, m)' <=> Holds(s, m)) /\ (Holds(s, m) => symtbl'[s] = symtbl[s])
  BY <1>2, <1>3, <1>4 DEF Holds
<1>7. phase = "passes" /\ phase' = "passes" /\ answer' = answer
  BY DEF Store
<1>8. Finds /\ Finds'
  <2>1. IInv'
    BY StoreStep
  <2>2. (IInv => Finds)'
    BY FindsHolds, PTL
  <2>3. QED
    BY <2>1, <2>2, FindsHolds
<1>9. DOMAIN defsBar' = DOMAIN defsBar \cup {n}
  BY <1>5, <1>6, <1>7, <1>8 DEF Finds
<1>10. defsBar'[n] = v
  BY <1>5, <1>7, <1>8 DEF Finds
<1>11. \A m \in DOMAIN defsBar : m # n => defsBar'[m] = defsBar[m]
  <2> SUFFICES ASSUME NEW m \in DOMAIN defsBar, m # n PROVE defsBar'[m] = defsBar[m]
    OBVIOUS
  <2>1. PICK s \in Slots : m \in Names /\ Holds(s, m)
    BY <1>7, <1>8 DEF Finds
  <2>2. QED
    BY <1>6, <1>7, <1>8, <2>1 DEF Finds
<1>12. defsBar' = [m \in DOMAIN defsBar \cup {n} |-> IF m = n THEN v ELSE defsBar[m]]
  <2>1. (defsBar = [m \in DOMAIN defsBar |-> defsBar[m]])'
    BY DEF defsBar
  <2> HIDE DEF defsBar
  <2>2. QED
    BY <1>9, <1>10, <1>11, <2>1
<1>13. NAMES!Store(n, v)
  BY <1>7, <1>12 DEF NAMES!Store
<1>14. QED
  BY <1>13 DEF NAMES!Next

\* The map does not change when neither the slots nor the way they are read do.
LEMMA SameMap ==
    ASSUME symtbl' = symtbl, phase # "sorted", phase' # "sorted" PROVE defsBar' = defsBar
<1>1. Occupied' = Occupied
  BY DEF Occupied
<1>2. Entries' = Entries
  BY <1>1 DEF Entries
<1>3. QED
  BY <1>2 DEF defsBar

\* A search that ends answers what the map says; one that does not may answer anything.
LEMMA ReferenceRefines == ASSUME IInv, Reference PROVE NAMES!Next
<1>1. phase = "passes" /\ phase' = "passes" /\ symtbl' = symtbl
  BY DEF Reference
<1>2. defsBar' = defsBar
  BY <1>1, SameMap
<1>3. Finds
  BY FindsHolds
<1>4. PICK n \in Names :
        \/ \E k \in Probes : Found(n, k) /\ answer' = symtbl[Probe(n, k)].symvalu
        \/ /\ \E k \in Probes : EndsAt(n, k) /\ symtbl[Probe(n, k)] = Free
           /\ answer' = Undefined
        \/ Refused(n) /\ answer' \in Word \cup {Undefined}
  BY DEF Reference
<1>5. \/ n \in DOMAIN defsBar /\ answer' = defsBar[n]
      \/ n \notin DOMAIN defsBar /\ answer' = Undefined
      \/ n \notin DOMAIN defsBar /\ NAMES!Crowded /\ answer' \in Word
  <2>1. ASSUME NEW k \in Probes, Found(n, k), answer' = symtbl[Probe(n, k)].symvalu
        PROVE  n \in DOMAIN defsBar /\ answer' = defsBar[n]
    <3>1. PICK s \in Slots : s = Probe(n, k) /\ Holds(s, n)
      BY <2>1, ProbeSlot DEF Found, EndsAt
    <3>2. QED
      BY <1>1, <1>3, <2>1, <3>1 DEF Finds
  <2>2. ASSUME NEW k \in Probes, EndsAt(n, k), symtbl[Probe(n, k)] = Free
        PROVE  n \notin DOMAIN defsBar
    <3>1. SUFFICES ASSUME NEW s \in Slots, Holds(s, n) PROVE FALSE
      BY <1>1, <1>3 DEF Finds
    <3>2. PICK j \in Probes : EndsAt(n, j) /\ Probe(n, j) = s
      BY <1>1, <3>1 DEF IInv, FoundAgain
    <3>3. j = k
      BY <2>2, <3>2, EndsOnce
    <3>4. QED
      BY <2>2, <3>1, <3>2, <3>3 DEF Holds
  <2>3. ASSUME Refused(n) PROVE n \notin DOMAIN defsBar /\ NAMES!Crowded
    BY <1>1, <2>3, RefusedIsCrowded, CrowdedMeans
  <2>4. QED
    BY <1>4, <2>1, <2>2, <2>3
<1>6. NAMES!Refer(n)
  BY <1>1, <1>2, <1>5 DEF NAMES!Refer
<1>7. QED
  BY <1>6 DEF NAMES!Next

LEMMA WipeoutRefines == ASSUME IInv, wipeout PROVE NAMES!Next
<1>1. phase = "passes" /\ phase' = "overflow" /\ symtbl' = symtbl /\ answer' = answer
  BY DEF wipeout
<1>2. defsBar' = defsBar
  BY <1>1, SameMap
<1>3. PICK n \in Names : Refused(n)
  BY DEF wipeout
<1>4. NAMES!GiveUp(n)
  BY <1>1, <1>2, <1>3, RefusedIsCrowded, CrowdedMeans DEF NAMES!GiveUp
<1>5. QED
  BY <1>4 DEF NAMES!Next
\* Compaction loses no entry: as many slots as there are entries, filled from
\* different slots, are filled from all of them.
LEMMA SortRefines == ASSUME IInv, sortsym PROVE UNCHANGED NAMES!vars
<1>1. PICK c \in 0..SYMBOLS : c = Cardinality(Occupied)
  BY OccupiedFinite
<1>2. PICK from \in [0..c - 1 -> Occupied] :
        /\ \A i, j \in DOMAIN from : i < j => from[i] < from[j]
        /\ symtbl' = [s \in Slots |-> Compacted(from, s)]
  BY <1>1 DEF sortsym
<1>3. nssymbols' = c /\ phase = "passes" /\ phase' = "sorted" /\ answer' = answer
  BY <1>1 DEF sortsym
<1>4. c \in Nat /\ SYMBOLS \in Nat /\ DOMAIN from = 0..c - 1 /\ DOMAIN from \subseteq Slots
  BY <1>1, <1>2, TableAssumption DEF Slots
<1>5. \A s \in DOMAIN from : symtbl'[s] = symtbl[from[s]] /\ from[s] \in Occupied
  BY <1>2, <1>4 DEF Compacted
<1>6. from \in Injection(0..c - 1, Occupied)
  <2> SUFFICES ASSUME NEW i \in DOMAIN from, NEW j \in DOMAIN from, from[i] = from[j] PROVE i = j
    BY <1>2 DEF Injection, IsInjective
  <2>1. from[i] \in Nat
    BY <1>4, <1>5 DEF Occupied, Slots
  <2>2. ~(i < j) /\ ~(j < i)
    BY <1>2, <2>1
  <2>3. QED
    BY <1>4, <2>2
<1>7. from \in Surjection(0..c - 1, Occupied)
  <2>1. Cardinality(0..c - 1) = c
    BY <1>4, FS_Interval
  <2>2. QED
    BY <1>1, <1>6, <2>1, OccupiedFinite, FS_Injection
<1>8. Occupied = {from[s] : s \in DOMAIN from}
  BY <1>2, <1>4, <1>7 DEF Surjection
<1>9. Entries' = Entries
  <2>1. Entries = {symtbl[s] : s \in Occupied}
    BY <1>3 DEF Entries
  <2>2. Entries' = {symtbl'[s] : s \in DOMAIN from}
    BY <1>3, <1>4 DEF Entries
  <2>3. Entries' = {symtbl[from[s]] : s \in DOMAIN from}
    BY <1>5, <2>2
  <2>4. QED
    BY <1>8, <2>1, <2>3
<1>10. defsBar' = defsBar
  BY <1>9 DEF defsBar
<1>11. QED
  BY <1>3, <1>10 DEF NAMES!vars

\* Through the slots, the collisions, the compaction and the overflow, the assembler
\* sees a map from names to values (R99SYMB.c; R99GET.c:408-441).
THEOREM Refinement == Spec => ImplementsNameMap
<1>1. IInv /\ [Next]_vars => [NAMES!Next]_(NAMES!vars)
  <2> SUFFICES ASSUME IInv, [Next]_vars PROVE [NAMES!Next]_(NAMES!vars)
    OBVIOUS
  <2>1. CASE Store
    BY <2>1, StoreRefines
  <2>2. CASE wipeout
    BY <2>2, WipeoutRefines
  <2>3. CASE Reference
    BY <2>3, ReferenceRefines
  <2>4. CASE sortsym
    BY <2>4, SortRefines
  <2>5. CASE UNCHANGED vars
    <3>1. symtbl' = symtbl /\ phase' = phase /\ nssymbols' = nssymbols /\ answer' = answer
      BY <2>5 DEF vars
    <3>2. Occupied' = Occupied
      BY <3>1 DEF Occupied
    <3>3. Entries' = Entries
      BY <3>1, <3>2 DEF Entries
    <3>4. defsBar' = defsBar
      BY <3>3 DEF defsBar
    <3>5. QED
      BY <3>1, <3>4 DEF NAMES!vars
  <2>6. QED
    BY <2>1, <2>2, <2>3, <2>4, <2>5 DEF Next
<1>2. QED
  BY InitRefines, Invariance, <1>1, PTL DEF Spec, NAMES!Spec, ImplementsNameMap
=============================================================================
