---------------------------- MODULE Declarations ----------------------------
(***************************************************************************)
(* What the declarations of a program enter in the tables of SmallC99, and *)
(* the storage that is written for them: CC_DECL.C (globals), CC_STRD.C    *)
(* (structs and rows), the heads of functions in CC_DFUN.C, and what they  *)
(* share in CC_RESIDENT.C, CC_SCAN_SYM.C and CC_CD99.C.                    *)
(*                                                                         *)
(* A declaration is a value: what its tokens say.  Where an error leaves   *)
(* the scanner in the middle of one, the compiler reads the rest as        *)
(* something else: that is not followed, and the tables are lost.          *)
(* The tables are a record that is threaded through the operators.         *)
(***************************************************************************)
EXTENDS Integers, Sequences, SequencesExt, FiniteSets

CONSTANTS hash,       \* where the search for a global starts
          NUMGLBS,    \* slots of the table of globals: 140
          NUMTAGS,    \* structs and rows: 16
          NUMMEMB,    \* members: 40
          LITMAX,     \* the literal queue: 256
          Free        \* an empty slot

ASSUME DeclAssumption ==
    /\ NUMGLBS \in Nat \ {0, 1} /\ NUMTAGS \in 0..16 /\ NUMMEMB \in Nat /\ LITMAX \in Nat
    /\ \A n \in DOMAIN hash : hash[n] \in Nat

\* What a name is, and the classes.
VARIABLE_ == "variable"
ARRAY == "array"
POINTER == "pointer"
FUNCTION == "function"

CHR == 4
UCHR == 5
INT == 8
UINT == 9
BPW == 2

\* The tables, the output, and whether there was an error, or one that loses the scanner.
Tables(g, t, m, o) == [glb |-> g, tagtab |-> t, memtab |-> m, out |-> o, err |-> FALSE, lost |-> FALSE]

Fail(b, d) == [d EXCEPT !.err = @ \/ b]
Lose(d) == [d EXCEPT !.err = TRUE, !.lost = TRUE]

Emit(items, d) == [d EXCEPT !.out = @ \o items]

Line(op, of) == <<[op |-> op, of |-> of]>>

-----------------------------------------------------------------------------
(* Types: a byte.  Bits 6 and 7 are the levels of pointers, bit 1 says     *)
(* that bits 2 to 5 are an entry of tagtab, and with bit 0 a row.          *)

Pointers(k, t) == t + 64 * k

\* A struct or row itself, no pointer to one.
IsStruct(t) == t % 256 < 64 /\ t % 4 \in {2, 3}

Tag(t) == (t % 64) \div 4 + 1

elsize(t, d) ==
    IF t % 256 >= 64 THEN 2
    ELSE IF IsStruct(t) THEN IF Tag(t) <= Len(d.tagtab) THEN d.tagtab[Tag(t)].size ELSE 0
    ELSE (t % 64) \div 4

\* dfindtag, and an identical row: rows have no name.
TagsNamed(n, d) == {i \in DOMAIN d.tagtab : d.tagtab[i].name = n}
TheFirst(S) == CHOOSE i \in S : \A j \in S : i <= j

\* Mutated form: a row is found by its size.
RowsBug(elem, size, d) == {i \in TagsNamed("", d) : d.tagtab[i].size = size}

Rows(elem, size, d) == {i \in TagsNamed("", d) : d.tagtab[i].first = elem /\ d.tagtab[i].size = size}

\* A type with the tables that it is read with.
Typed(t, d) == [t |-> t, d |-> d]

NewTag(entry, d) == [d EXCEPT !.tagtab = Append(@, entry)]

\* The row that is there already, or a new one.
Shared(elem, size, same, d) ==
    IF same # {} THEN Typed(4 * (TheFirst(same) - 1) + 3, d)
    ELSE IF Len(d.tagtab) >= NUMTAGS THEN Typed(elem, Fail(TRUE, d))
    ELSE Typed(4 * Len(d.tagtab) + 3, NewTag([name |-> "", size |-> size, first |-> elem, count |-> 0], d))

Row(elem, size, d) == Shared(elem, size, Rows(elem, size, d), Fail(size = 0, d))
mkrow(dim, x) == Row(x.t % 256, dim * elsize(x.t, x.d), x.d)

\* The dimensions after the first, innermost first; only four are kept.
Kept(dims) == SubSeq(dims, 1, IF Len(dims) < 4 THEN Len(dims) ELSE 4)
mdrows(t, dims, d) == FoldRight(mkrow, Kept(dims), Typed(t, Fail(Len(dims) > 4, d)))

\* struct or union and a tag: one that is new is entered, without a body.
TagOf(n, known, d) ==
    IF known # {} THEN Typed(4 * (TheFirst(known) - 1) + 2, d)
    ELSE IF Len(d.tagtab) >= NUMTAGS THEN Typed(INT, Fail(TRUE, d))
    ELSE Typed(4 * Len(d.tagtab) + 2, NewTag([name |-> n, size |-> 0, first |-> 0, count |-> 0], d))

Tagged(n, d) == TagOf(n, TagsNamed(n, d), d)

Keywords == [char |-> CHR, uchar |-> UCHR, int |-> INT, unsigned |-> UINT]

\* The type of a member: a struct has its body elsewhere.
Outside(spec, x) == IF spec.body = <<>> THEN x ELSE Typed(x.t, Lose(x.d))
MemberType(spec, d) ==
    IF spec.kw \in DOMAIN Keywords THEN Typed(Keywords[spec.kw], d) ELSE Outside(spec, Tagged(spec.tag, d))

-----------------------------------------------------------------------------
(* Declarators: *name, name[a][b], *name[a] and name(), and their types.   *)

IsArray(v) == v.dims # <<>>

\* One level of a pointer is in the kind of the name, unless it is an array.
Levels(v) == IF IsArray(v) \/ v.stars = 0 THEN v.stars ELSE v.stars - 1

Kind(v, array) ==
    IF IsArray(v) THEN array ELSE IF v.stars > 0 THEN POINTER ELSE IF v.fn THEN FUNCTION ELSE VARIABLE_

\* The type of what the name has one of, or many.
Element(v, t, d) ==
    IF IsArray(v) THEN mdrows(Pointers(Levels(v), t), Tail(v.dims), d) ELSE Typed(Pointers(Levels(v), t), d)

Elements(v) == IF IsArray(v) THEN v.dims[1] ELSE 1

-----------------------------------------------------------------------------
(* Members (dobody).                                                       *)

\* A member before it has a place: its type, size and whether it is made of words.
Shaped(ident, size, x) ==
    [ident |-> ident, t |-> x.t, size |-> size, d |-> Fail(size = 0, x.d),
     words |-> ident = POINTER \/ elsize(x.t, x.d) # 1]

Measured(v, ident, x) == Shaped(ident, IF ident = POINTER THEN BPW ELSE Elements(v) * elsize(x.t, x.d), x)

Shape(v, t, d) == Measured(v, Kind(v, ARRAY), Element(v, t, d))

\* Words stand at even offsets.
Even(words, off) == IF words /\ off % 2 = 1 THEN off + 1 ELSE off

\* tag is the entry of the struct, b how far its body has got.
Member(v, s, tag, isunion, off) ==
    [ident |-> s.ident, type |-> s.t % 256, tag |-> tag, size |-> s.size,
     offset |-> IF isunion THEN 0 ELSE off, name |-> v.name]

Added(m, tag, d) == [d EXCEPT !.memtab = Append(@, m), !.tagtab[tag].count = @ + 1]

Entered(v, s, tag, isunion, off, b) ==
    IF Len(s.d.memtab) >= NUMMEMB THEN [b EXCEPT !.d = Lose(s.d)]
    ELSE [d |-> Added(Member(v, s, tag, isunion, off), tag, s.d),
          off |-> IF isunion THEN off ELSE off + s.size,
          big |-> IF isunion /\ s.size > b.big THEN s.size ELSE b.big]

Placed(v, s, tag, isunion, b) == Entered(v, s, tag, isunion, Even(s.words, b.off), b)

Declarators(of, t, tag, isunion, b) ==
    FoldLeft(LAMBDA a, v : IF a.d.lost THEN a ELSE Placed(v, Shape(v, t, a.d), tag, isunion, a), b, of)

Members(of, x, tag, isunion, b) == Declarators(of, x.t, tag, isunion, [b EXCEPT !.d = x.d])

Lines(body, tag, isunion, b) ==
    FoldLeft(LAMBDA a, l : IF a.d.lost THEN a ELSE Members(l.of, MemberType(l.spec, a.d), tag, isunion, a), b, body)

Begun(tag, d) ==
    [Fail(d.tagtab[tag].count > 0, d) EXCEPT !.tagtab[tag].first = Len(d.memtab), !.tagtab[tag].count = 0]

\* The size is rounded up to whole words.
Closed(tag, size, d) == IF d.lost THEN d ELSE [d EXCEPT !.tagtab[tag].size = size + (size % 2)]
BodyClosed(tag, isunion, b) == Closed(tag, IF isunion THEN b.big ELSE b.off, b.d)

dobody(tag, isunion, body, d) ==
    BodyClosed(tag, isunion, Lines(body, tag, isunion, [d |-> Begun(tag, d), off |-> 0, big |-> 0]))

WithBody(spec, x) ==
    IF spec.body = <<>> THEN x
    ELSE IF ~IsStruct(x.t) THEN Typed(x.t, Lose(x.d))
    ELSE Typed(x.t, dobody(Tag(x.t), spec.kw = "union", spec.body[1], x.d))

dostruct(spec, d) == WithBody(spec, Tagged(spec.tag, d))

TypeOf(spec, d) ==
    IF spec.kw \in DOMAIN Keywords THEN Typed(Keywords[spec.kw], d) ELSE dostruct(spec, d)

-----------------------------------------------------------------------------
(* The table of globals (search, findglb, addsym).                         *)

\* The search steps on from the hash.  The last slot is reached so and never first.
Step(n, k) == ((hash[n] % (NUMGLBS - 1)) + k) % NUMGLBS

\* The slot where the search ends, none if the table is full.
search(n, d) ==
    {Step(n, k) : k \in {i \in 0..(NUMGLBS - 1) :
        /\ d.glb[Step(n, i)] = Free \/ d.glb[Step(n, i)].name = n
        /\ \A j \in 0..(i - 1) : d.glb[Step(n, j)] # Free /\ d.glb[Step(n, j)].name # n}}

findglb(n, d) == {s \in search(n, d) : d.glb[s] # Free}

InSlot(entry, slots, d) ==
    IF slots = {} THEN Fail(TRUE, d)
    ELSE [d EXCEPT !.glb = [s \in DOMAIN d.glb |-> IF s \in slots /\ d.glb[s] = Free THEN entry ELSE d.glb[s]]]

addsym(entry, d) == InSlot(entry, search(entry.name, d), d)

Global(n, ident, t, size, class) ==
    [name |-> n, ident |-> ident, type |-> t % 256, size |-> size, class |-> class]

-----------------------------------------------------------------------------
(* Storage (public, initials, dstrobj).                                    *)

public(n, ident, d) ==
    Emit((IF ident = FUNCTION THEN Line("EVEN", 0) ELSE <<>>) \o Line("ENT", n) \o Line("label", n), d)

\* How many bytes of a string and its zero the literals have room for (litput).
Stowed(item, lit) == IF lit + item.n < LITMAX - 1 THEN item.n + 1 ELSE LITMAX - 1 - lit

\* init: q has the elements still to come and the bytes so far.  A negative count says
\* that there is no limit.
StringInit(item, size, ident, q) ==
    [q EXCEPT !.dim = @ - Stowed(item, q.lit), !.lit = @ + Stowed(item, q.lit),
              !.d = Emit(IF ident = POINTER THEN Line("data", BPW) ELSE <<>>,
                         Fail(ident = VARIABLE_ \/ size # 1 \/ Stowed(item, q.lit) <= item.n, @))]

NumberInit(size, ident, q) ==
    [q EXCEPT !.dim = @ - 1, !.lit = IF @ + size >= LITMAX THEN @ ELSE @ + size,
              !.d = Fail(ident = POINTER \/ q.lit + size >= LITMAX, @)]

\* An element after the last that there is room for is not read.
init(item, size, ident, q) ==
    IF q.dim = 0 THEN [q EXCEPT !.d = Lose(@)]
    ELSE IF item.str THEN StringInit(item, size, ident, q) ELSE NumberInit(size, ident, q)

\* Mutated form: an object of an odd size is not followed by EVEN.
RealignBug(n) == <<>>

\* An object of an odd size is followed by EVEN.
Realign(n) == IF n % 2 = 1 THEN Line("EVEN", 0) ELSE <<>>

\* ddumplit writes whole elements, ddumpzer those that are left.
Dumped(lit, size, rest, d) ==
    Emit(Line("data", ((lit + size - 1) \div size) * size) \o Line("data", rest) \o Realign(lit + rest), d)

Rest(dim, size) == IF dim > 0 THEN dim * size ELSE 0

\* An object of no known size, without initialiser, is a word of 0.
Padded(q, size, ident, unsized) ==
    IF unsized /\ q.dim = -1 THEN Dumped(q.lit + BPW, BPW, 0, Fail(ident = ARRAY, q.d))
    ELSE Dumped(q.lit, size, Rest(q.dim, size), q.d)

initials(v, size, ident, dim, d) ==
    Padded(FoldLeft(LAMBDA q, item : init(item, size, ident, q),
                       [dim |-> IF dim = 0 THEN -1 ELSE dim, lit |-> 0, d |-> public(v.name, ident, d)], v.init),
              size, ident, dim = 0)

dstrobj(v, ident, size, d) ==
    Emit(Line("data", size), IF v.init = <<>> THEN public(v.name, ident, d) ELSE Lose(public(v.name, ident, d)))

-----------------------------------------------------------------------------
(* Globals (declglb).                                                      *)

Storage(v, ident, dim, t, class, d) ==
    IF class = "extern" THEN Emit(Line("EXT", v.name), d)
    ELSE IF ident = FUNCTION THEN d
    ELSE IF IsStruct(t) /\ ident # POINTER THEN dstrobj(v, ident, dim * elsize(t, d), d)
    ELSE initials(v, IF t % 4 \in {2, 3} THEN BPW ELSE elsize(t, d), ident, dim, d)

Known(entry, d) == IF d.lost THEN d ELSE addsym(entry, d)

GlobalOf(v, ident, dim, x, class) ==
    Known(Global(v.name, ident, x.t, IF ident = POINTER THEN BPW ELSE dim * elsize(x.t, x.d), class),
          Storage(v, ident, dim, x.t, class, Fail(x.t > 255, x.d)))

\* One declarator; a name that is taken is reported, and stored all the same.
declglb(v, type, class, d) ==
    GlobalOf(v, Kind(v, ARRAY), IF Kind(v, ARRAY) = POINTER THEN 0 ELSE Elements(v),
              Element(v, type, Fail(findglb(v.name, d) # {}, d)), class)

EachGlobal(of, class, x) ==
    FoldLeft(LAMBDA e, v : IF e.lost THEN e ELSE declglb(v, x.t, class, e), x.d, of)

dodeclare(g, d) == EachGlobal(g.of, g.class, TypeOf(g.spec, d))

-----------------------------------------------------------------------------
(* Locals and arguments (decl, declloc, doargs).                           *)

\* decl finds the size of a local or an argument before its rows are read.
OneOf(v, type, d) == IF v.stars > 0 THEN BPW ELSE elsize(type, d)
DeclSize(v, type, d) == OneOf(v, type, d) * Elements(v)

\* Only an array has no size here: an error for a local, a pointer for an argument.
NoSize(v, type, aid, d) == IsArray(v) /\ DeclSize(v, type, d) = 0 /\ aid = ARRAY

Decl(v, type, aid, x) ==
    [ident |-> Kind(v, aid), t |-> x.t, was |-> Pointers(Levels(v), type), d |-> x.d,
     size |-> IF IsArray(v) /\ DeclSize(v, type, x.d) = 0 THEN BPW ELSE DeclSize(v, type, x.d)]

decl(v, type, aid, d) ==
    Decl(v, type, aid, Element(v, type, Fail(NoSize(v, type, aid, d), d)))

\* The size of an array of rows is known after the rows; a slot has whole words.
Slotted(x, size) == [ident |-> x.ident, type |-> x.t % 256, size |-> size, slot |-> size + (size % 2), d |-> x.d]
Local(x) == Slotted(x, IF x.t = x.was THEN x.size ELSE (x.size \div elsize(x.was, x.d)) * elsize(x.t, x.d))

\* The entries of the arguments before their types are known, in the order of the list.
Arguments(names) ==
    FoldLeft(LAMBDA q, n : IF \E i \in DOMAIN q : q[i].name = n THEN q
                           ELSE Append(q, [name |-> n, ident |-> "label", type |-> 0, size |-> 0,
                                           offset |-> BPW * Len(q)]), <<>>, names)

\* The last argument is nearest to the frame.
ArgOffset(top, offset) == top - offset

Retyped(a, x, top) ==
    [a EXCEPT !.ident = x.ident, !.type = x.t % 256, !.size = x.size, !.offset = ArgOffset(top, @)]

\* One declared type: the argument gets it, and its place from the frame.
Argued(v, x, top, args) ==
    [d |-> Fail((IsStruct(x.t) /\ x.ident = VARIABLE_) \/ ~\E i \in DOMAIN args : args[i].name = v.name, x.d),
     args |-> [i \in DOMAIN args |-> IF args[i].name = v.name THEN Retyped(args[i], x, top) ELSE args[i]]]

doargs(of, x, top, args) ==
    FoldLeft(LAMBDA a, v : Argued(v, decl(v, x.t, POINTER, a.d), top, a.args), [d |-> x.d, args |-> args], of)

\* The arguments are counted as they are declared, by name or not, until there are as
\* many as in the list.
Types(types, top, a) ==
    FoldLeft(LAMBDA b, l : doargs(l.of, TypeOf(l.spec, b.d), top, b.args), a, types)

TypesGiven(types) == FoldLeft(LAMBDA n, l : n + Len(l.of), 0, types)

Counted(types, a) ==
    IF TypesGiven(types) > Len(a.args) THEN [a EXCEPT !.d = Lose(@)]
    ELSE [a EXCEPT !.d = Fail(TypesGiven(types) < Len(a.args), @)]

\* The name of a function that was called before is its definition's.
Defined(n, known, d) ==
    IF known = {} THEN addsym(Global(n, FUNCTION, INT, 0, "static"), d)
    ELSE Fail(\E s \in known : d.glb[s].class # "autoext",
              [d EXCEPT !.glb = [s \in DOMAIN d.glb |-> IF s \in known /\ d.glb[s].class = "autoext"
                                                        THEN [d.glb[s] EXCEPT !.class = "static"] ELSE d.glb[s]]])

HeadOf(h, args, d) ==
    Counted(h.types, Types(h.types, BPW * Len(args) + BPW,
                           [d |-> Fail(Len(args) < Len(h.args), public(h.name, FUNCTION, d)), args |-> args]))

\* The head of a function.
FunctionHead(h, d) == HeadOf(h, Arguments(h.args), Defined(h.name, findglb(h.name, d), d))
=============================================================================
