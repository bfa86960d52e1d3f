-------------------------------- MODULE SymTab ------------------------------
(***************************************************************************)
(* The symbol table of the R99 assembler (R99SYMB.c): an array of slots    *)
(* searched from the slot that the name hashes to, with steps of 1, 3, 5   *)
(* and so on, so that the k-th probe is k squared slots on.  Nothing is    *)
(* ever removed.  At the end of the second pass sortsym moves the entries  *)
(* to the front, in place, and whoever reads the table after it reads the  *)
(* first nssymbols slots one after the other.                              *)
(*                                                                         *)
(* A name stands for its SYMLEN characters without their high bits, which  *)
(* slookup, hash and symcmp all mask; an entry is its name and its value.  *)
(***************************************************************************)
EXTENDS Naturals, FiniteSets

CONSTANTS Names,      \* the names a source may hold
          Word,       \* the values of symbols
          SYMBOLS,    \* slots in the table: 101
          hash,       \* the slot a name hashes to
          Free,       \* no entry
          Undefined   \* no value: the reference is marked U

\* "MUST BE ODD" (R99CFG.h): else the test that ends slookup is never met.
ASSUME TableAssumption ==
    /\ SYMBOLS \in Nat /\ SYMBOLS >= 3 /\ SYMBOLS % 2 = 1
    /\ hash \in [Names -> 0..SYMBOLS - 1]
    /\ Free \notin [name : Names, symvalu : Word]
    /\ Undefined \notin Word

VARIABLES symtbl,      \* the slots
          nssymbols,   \* how many entries sortsym counted
          phase,       \* "passes" while lines are assembled, "sorted", or "overflow"
          answer       \* what the last reference was given

vars == <<symtbl, nssymbols, phase, answer>>

Slots == 0..SYMBOLS - 1

Entry == [name : Names, symvalu : Word]

-----------------------------------------------------------------------------
(* slookup.                                                                *)

\* d has grown from 1 to SYMBOLS when the search gives up.
Probes == 0..(SYMBOLS - 3) \div 2

\* The slot of the k-th probe for a name.
Probe(n, k) == (hash[n] + k * k) % SYMBOLS

Holds(s, n) == symtbl[s] # Free /\ symtbl[s].name = n

\* No two probes of a search meet in one slot, as SYMBOLS is prime.
ASSUME ProbesDiffer ==
    \A n \in Names : \A j, k \in Probes : Probe(n, j) = Probe(n, k) => j = k

\* The search for a name ends at probe k, at a free slot or at the name.
EndsAt(n, k) ==
    /\ symtbl[Probe(n, k)] = Free \/ Holds(Probe(n, k), n)
    /\ \A j \in Probes : j < k =>
          symtbl[Probe(n, j)] # Free /\ ~Holds(Probe(n, j), n)

\* Mutated form: the search gives up before its last probe.
RefusedBug(n) ==
    \A k \in Probes \ {(SYMBOLS - 3) \div 2} : symtbl[Probe(n, k)] # Free /\ ~Holds(Probe(n, k), n)

\* The search ends nowhere: slookup returns 1.
Refused(n) == \A k \in Probes : symtbl[Probe(n, k)] # Free /\ ~Holds(Probe(n, k), n)

-----------------------------------------------------------------------------
\* addsym, and what its caller stores in the entry: a label, an EXT, an ENT or a
\* DXOP in pass 1; EQU, SET and an entry label in pass 2, which find the name.
Store ==
    /\ phase = "passes"
    /\ \E n \in Names, v \in Word, k \in Probes :
          /\ EndsAt(n, k)
          /\ symtbl' = [symtbl EXCEPT ![Probe(n, k)] = [name |-> n, symvalu |-> v]]
    /\ UNCHANGED <<nssymbols, phase, answer>>

\* addsym and ENT abort the assembly.
wipeout ==
    /\ phase = "passes"
    /\ \E n \in Names : Refused(n)
    /\ phase' = "overflow"
    /\ UNCHANGED <<symtbl, nssymbols, answer>>

\* slookup returns 0.
Found(n, k) == EndsAt(n, k) /\ symtbl[Probe(n, k)] # Free

\* getitem for a name in an operand.  It has no case for slookup's 1 and then
\* returns with no value: the item is whatever a register holds.
Reference ==
    /\ phase = "passes"
    /\ \E n \in Names :
          \/ \E k \in Probes : Found(n, k) /\ answer' = symtbl[Probe(n, k)].symvalu
          \/ /\ \E k \in Probes : EndsAt(n, k) /\ symtbl[Probe(n, k)] = Free
             /\ answer' = Undefined
          \/ Refused(n) /\ answer' \in Word \cup {Undefined}
    /\ UNCHANGED <<symtbl, nssymbols, phase>>

Occupied == {s \in Slots : symtbl[s] # Free}

\* What slot s holds after sortsym, which moves the entries one after the other:
\* the s-th entry, or what was there before.
Compacted(from, s) == IF s \in DOMAIN from THEN symtbl[from[s]] ELSE symtbl[s]

\* END in the second pass.
sortsym ==
    /\ phase = "passes"
    /\ nssymbols' = Cardinality(Occupied)
    /\ \E from \in [0..Cardinality(Occupied) - 1 -> Occupied] :
          /\ \A i, j \in DOMAIN from : i < j => from[i] < from[j]
          /\ symtbl' = [s \in Slots |-> Compacted(from, s)]
    /\ phase' = "sorted"
    /\ UNCHANGED answer

Init ==
    /\ symtbl = [s \in Slots |-> Free]
    /\ nssymbols = 0 /\ phase = "passes" /\ answer = Undefined

Next == Store \/ wipeout \/ Reference \/ sortsym

Spec == Init /\ [][Next]_vars

-----------------------------------------------------------------------------
TypeOK ==
    /\ symtbl \in [Slots -> Entry \cup {Free}]
    /\ nssymbols \in 0..SYMBOLS
    /\ phase \in {"passes", "sorted", "overflow"}
    /\ answer \in Word \cup {Undefined}

\* Every entry is where the search for its name ends: nothing stored later, and
\* no other name that hashes to the same slots, hides it (R99SYMB.c:33-40).
FoundAgain ==
    phase # "sorted" =>
        \A s \in Slots, n \in Names : Holds(s, n) =>
            \E k \in Probes : EndsAt(n, k) /\ Probe(n, k) = s

\* A name has one slot, so that its value cannot be read from one and stored in
\* another; when the table is sorted, among the slots that are read.
OneSlotEach ==
    \A s, t \in IF phase = "sorted" THEN 0..nssymbols - 1 ELSE Slots :
        symtbl[s] # Free /\ symtbl[t] # Free /\ symtbl[s].name = symtbl[t].name => s = t

IInv == TypeOK /\ FoundAgain /\ OneSlotEach

\* The table as a map: through slots, collisions, compaction and overflow, the
\* assembler sees names and their values, and half of the slots can be relied on.
Entries == {symtbl[s] : s \in IF phase = "sorted" THEN 0..nssymbols - 1 ELSE Occupied}

defsBar ==
    [n \in {e.name : e \in Entries} |-> (CHOOSE e \in Entries : e.name = n).symvalu]

NAMES == INSTANCE NameMap WITH
    Sure <- Cardinality(Probes), defs <- defsBar, gaveUp <- phase = "overflow"

ImplementsNameMap == NAMES!Spec
=============================================================================
