--------------------------------- MODULE Unit -------------------------------
(***************************************************************************)
(* SmallC99 compiles one source: the driver, parse with declarations and   *)
(* heads of functions, the statements of the bodies, with the calls and    *)
(* string literals in their expressions, and the trailer.                  *)
(*                                                                         *)
(* What has been written is tables.out: labels, exports and externals,     *)
(* code and data, in order.  What was declared is kept beside the tables   *)
(* of the compiler, as the source said it.                                 *)
(***************************************************************************)
EXTENDS StmtCompiler, Declarations, Driver

CONSTANTS Globals,    \* the declarations of a source: class, specifier, declarators
          Heads,      \* the heads of functions: name, arguments, their declarations
          Locals,     \* what a local may be: specifier and declarator
          Library,    \* the names of functions that no source defines
          Strings,    \* lengths of string literals, 0 for none
          Full        \* bound: only one function, without arguments, calls and rows, has more
                      \* declarations and statements than this, and up to MaxStmts

\* The bound is reached within the one for every source.
ASSUME UnitAssumption == Full \in Nat /\ Full <= MaxStmts

VARIABLES tables,
          lit,        \* the literals of the function: their label, and bytes so far
          said,       \* history: what each global was declared to be
          bodies      \* history: the structs with their members

unit == <<tables, lit, said, bodies>>
vars == <<statement, driver, unit>>

Parsing == stage = "parse" /\ ~tables.lost

Simple ==
    /\ Cardinality(DOMAIN said) <= 1 /\ Len(tables.out) <= 4 /\ tables.tagtab = <<>>
    /\ \A i \in DOMAIN locals : locals[i].label \/ locals[i].offset < 0

\* Something more may come.
More == Parsing /\ (stmts < Full \/ Simple)

-----------------------------------------------------------------------------
(* What the source says, whatever the tables of the compiler have.         *)

Body(spec) == IF spec.body = <<>> THEN {} ELSE {[tag |-> spec.tag, union |-> spec.kw = "union", lines |-> spec.body[1]]}

Basic == [char |-> 1, uchar |-> 1, int |-> 2, unsigned |-> 2]

Base(spec) == IF spec.kw \in DOMAIN Basic THEN spec.kw ELSE spec.tag

\* The size of a struct is what its entry has: the layout is checked apart.
SizeOf(spec, d) ==
    IF spec.kw \in DOMAIN Basic THEN Basic[spec.kw]
    ELSE LET is == TagsNamed(spec.tag, d) IN IF is = {} THEN 0 ELSE d.tagtab[CHOOSE i \in is : TRUE].size

Product(dims) == FoldLeft(LAMBDA p, n : p * n, 1, dims)

\* The kind, the rows, the pointers, the base and the size that a declarator asks for.
Meaning(spec, v, d) ==
    [ident |-> IF v.dims # <<>> THEN ARRAY ELSE IF v.stars > 0 THEN POINTER
               ELSE IF v.fn THEN FUNCTION ELSE VARIABLE_,
     rows |-> IF v.dims = <<>> THEN <<>> ELSE Tail(v.dims),
     pointers |-> IF v.dims # <<>> \/ v.stars = 0 THEN v.stars ELSE v.stars - 1,
     base |-> Base(spec),
     size |-> IF v.stars > 0 THEN BPW * Product(v.dims) ELSE SizeOf(spec, d) * Product(v.dims)]

\* A type byte read back, rows first.
IsRow(t) == t < 64 /\ t % 4 = 3

Unrolled(type, d) ==
    LET Outer(r, i) == IF ~IsRow(r.t) THEN r
                     ELSE LET e == d.tagtab[Tag(r.t)]
                          IN  [t |-> e.first, rows |-> Append(r.rows, e.size \div elsize(e.first, d))]
    IN  FoldLeft(Outer, [t |-> type, rows |-> <<>>], <<1, 2, 3, 4>>)

BasicOf(t) == CHOOSE kw \in DOMAIN Keywords : Keywords[kw] = t

ReadBack(e, d) ==
    LET r == Unrolled(e.type, d)
        t == r.t % 64
    IN  [ident |-> e.ident, rows |-> r.rows, pointers |-> r.t \div 64,
         base |-> IF t % 4 = 2 THEN d.tagtab[Tag(t)].name ELSE BasicOf(t), size |-> e.size]

-----------------------------------------------------------------------------
(* Globals and functions (parse, dodeclare, dofunction).                   *)

Say(n, m) == IF n \in DOMAIN said THEN said ELSE said @@ (n :> m)

\* An asterisk in the class of declarations: extern, or none.
Declare ==
    /\ Parsing /\ at = "between" /\ ~eof /\ stmts < Full
    /\ \E g \in Globals :
          /\ tables' = dodeclare(g, tables)
          /\ bodies' = bodies \cup Body(g.spec)
          /\ said' = FoldLeft(LAMBDA s, v : IF v.name \in DOMAIN s THEN s
                                            ELSE s @@ (v.name :> Meaning(g.spec, v, tables')), said, g.of)
    /\ stmts' = stmts + 1
    /\ UNCHANGED <<calls, at, eof, csp, block, lastst, nxtlab, locals, wq, switch, history, lit, driver>>

\* An argument in the table of locals: its slot is a word.
AsLocal(a) ==
    [name |-> a.name, label |-> a.ident = "label", def |-> FALSE, offset |-> a.offset, size |-> BPW,
     is |-> [ident |-> a.ident, type |-> a.type, size |-> a.size]]

AsLocals(args) == [i \in DOMAIN args |-> AsLocal(args[i])]

\* The label of the literals is taken first, as dofunction_ counts it.
Begin(h, f) ==
    /\ tables' = Emit(Line("code", 2), f.d)
    /\ dofunction_(AsLocals(f.args))
    /\ said' = Say(h.name, [ident |-> FUNCTION, rows |-> <<>>, pointers |-> 0, base |-> "int", size |-> 0])

dofunction ==
    /\ Parsing /\ stmts < Full
    /\ \E h \in Heads : Begin(h, FunctionHead(h, tables))
    /\ lit' = [label |-> nxtlab', bytes |-> 0]
    /\ UNCHANGED <<bodies, driver>>

\* The literals follow the code of the function.
Pool(l) == IF l.bytes = 0 THEN <<>> ELSE Line("pool", l.label) \o Line("data", l.bytes)

FunctionDone ==
    /\ Parsing /\ FunctionEnd
    /\ tables' = Emit(Pool(lit), tables)
    /\ UNCHANGED <<lit, said, bodies, driver>>

-----------------------------------------------------------------------------
(* Locals and expressions (declloc, primary, string, callfunc).            *)

DeclareLocal(n, l, z) ==
    /\ declloc_(n, z.slot, [ident |-> z.ident, type |-> z.type, size |-> z.size, of |-> Meaning(l.spec, l.of, z.d)])
    /\ tables' = z.d /\ bodies' = bodies \cup Body(l.spec)

\* A local as its tokens say.
Read(v, x) == Local(decl(v, x.t, ARRAY, x.d))

declloc ==
    /\ More
    /\ \E n \in Names, l \in Locals : DeclareLocal(n, l, Read(l.of, TypeOf(l.spec, tables)))
    /\ UNCHANGED <<lit, said, driver>>

\* A call: of a local, of a global, or of what is from now on an external function.
CallOf(n, d) ==
    IF Found(n) # {} THEN Fail(locals[Latest(n)].label, d)
    ELSE IF findglb(n, d) # {} THEN Emit(Line("use", n), d)
    ELSE Emit(Line("use", n), addsym(Global(n, FUNCTION, INT, 0, "autoext"), d))

\* string: its bytes and a zero join the literals of the function.
Held(k) == Stowed([str |-> TRUE, n |-> k], lit.bytes)

String(k, d) == IF k = 0 THEN d ELSE Emit(Line("refer", lit.label), Fail(Held(k) <= k, d))

Expression ==
    /\ More /\ doexpr
    /\ \/ UNCHANGED <<tables, lit, said>>
       \/ /\ stmts < Full /\ lastst' = "other"
          /\ \E n \in Names \cup Library, k \in Strings :
                /\ tables' = String(k, CallOf(n, tables))
                /\ lit' = IF k = 0 THEN lit ELSE [lit EXCEPT !.bytes = @ + Held(k)]
                /\ said' = IF Found(n) # {} THEN said
                           ELSE Say(n, [ident |-> FUNCTION, rows |-> <<>>, pointers |-> 0, base |-> "int", size |-> 0])
    /\ UNCHANGED <<bodies, driver>>

-----------------------------------------------------------------------------
(* The end (parse, trailer).                                               *)

\* Functions that were called and not defined are external.
Undefined(d) == {s \in DOMAIN d.glb : d.glb[s] # Free /\ d.glb[s].class = "autoext"}

trailer(d) ==
    Emit(FlattenSeq([s \in 1..NUMGLBS |-> IF s - 1 \in Undefined(d) THEN Line("EXT", d.glb[s - 1].name) ELSE <<>>])
            \o Line("EVEN", 0), d)

EndOfUnit ==
    /\ Parsing /\ at = "between" /\ eof
    /\ tables' = trailer(tables) /\ stage' = "close"
    /\ UNCHANGED <<statement, lit, said, bodies, chosen, srcfile, outfile, told>>

Erroneous == errors \/ tables.err

-----------------------------------------------------------------------------
Init ==
    /\ StmtInit /\ DriverInit
    /\ tables = Tables([s \in 0..(NUMGLBS - 1) |-> Free], <<>>, <<>>, <<>>)
    /\ lit = [label |-> 0, bytes |-> 0] /\ said = <<>> /\ bodies = {}

Next ==
    \/ (ask \/ openfile \/ closefile \/ finish(~Erroneous)) /\ UNCHANGED <<statement, unit>>
    \/ Declare \/ dofunction \/ FunctionDone \/ declloc \/ Expression
    \/ More /\ Starts /\ UNCHANGED <<unit, driver>>
    \/ Parsing /\ Ends /\ UNCHANGED <<unit, driver>>
    \/ EndOfUnit

Spec == Init /\ [][Next]_vars

-----------------------------------------------------------------------------
(* Names.                                                                  *)

\* What the declarations hand to the statement compiler: slots that are numbers, and
\* arguments that have room in the table of locals.
Handed ==
    /\ More => \A l \in Locals : Read(l.of, TypeOf(l.spec, tables)).slot \in Nat
    /\ Parsing /\ stmts < Full => \A h \in Heads : ArgumentsOK(AsLocals(FunctionHead(h, tables).args))

Right == ~Erroneous /\ ~tables.lost

\* The entry of a global is found, and says what its declaration said.
GlobalsTrue ==
    \A n \in DOMAIN said :
        /\ findglb(n, tables) # {}
        /\ LET e == tables.glb[CHOOSE s \in findglb(n, tables) : TRUE]
           IN  IF said[n].ident = FUNCTION THEN e.ident = FUNCTION
               ELSE ReadBack(e, tables) = said[n]

VariablesTrue ==
    \A i \in Variables : "of" \in DOMAIN locals[i].is => ReadBack(locals[i].is, tables) = locals[i].is.of

\* The members of a struct: as declared, words at even addresses, inside the struct and
\* apart, or together in a union.
Ofs(t) == {i \in DOMAIN tables.memtab : tables.memtab[i].tag = t}

MembersOf(b) == FlattenSeq([l \in DOMAIN b.lines |->
                      [k \in DOMAIN b.lines[l].of |-> <<b.lines[l].spec, b.lines[l].of[k]>>]])

WordsIn(spec, v) == v.stars > 0 \/ spec.kw \notin {"char", "uchar"}

MembersTrue ==
    \A b \in bodies : \A t \in TagsNamed(b.tag, tables) :
        LET of == MembersOf(b)
            e == tables.tagtab[t]
            m == [k \in 1..e.count |-> tables.memtab[e.first + k]]
        IN  /\ e.count = Len(of) /\ e.size % 2 = 0
            /\ \A k \in DOMAIN of :
                  /\ m[k].name = of[k][2].name
                  /\ ReadBack(m[k], tables) = Meaning(of[k][1], of[k][2], tables)
                  /\ m[k].offset + m[k].size <= e.size
                  /\ WordsIn(of[k][1], of[k][2]) => m[k].offset % 2 = 0
                  /\ IF b.union THEN m[k].offset = 0
                     ELSE \A j \in 1..(k - 1) : m[j].offset + m[j].size <= m[k].offset

\* Unless an error was reported every name stands in its table for what the source
\* declared: kind, rows, pointers, base and size, in one byte of type and the tables of
\* structs and rows, however the declarations of structs, rows, members and globals
\* follow each other, and wherever the search for a free slot ended (CC_STRD.C:100,
\* CC_STRD.C:231, CC_DECL.C:128, CC_SCAN_SYM.C:319).  Error or not, what declloc and
\* dofunction get from these tables has a size, and room in the table of locals.
NamesTrue == Handed /\ (Right => GlobalsTrue /\ VariablesTrue /\ MembersTrue)

-----------------------------------------------------------------------------
(* Storage.                                                                *)

Places(op, of) == {i \in DOMAIN tables.out : tables.out[i] = [op |-> op, of |-> of]}

\* The bytes before item i, from an even address.
Advance(a, item) ==
    CASE item.op = "EVEN" -> a + (a % 2)
      [] item.op \in {"code", "data"} -> a + item.of
      [] OTHER -> a

Address(i) == FoldLeft(Advance, 0, SubSeq(tables.out, 1, i - 1))

\* The bytes after label i: up to the next label.
Labels == {i \in DOMAIN tables.out : tables.out[i].op \in {"label", "pool"}}
NextLabel(i) == CHOOSE j \in (i + 1)..(Len(tables.out) + 1) :
                 /\ j = Len(tables.out) + 1 \/ j \in Labels
                 /\ \A k \in (i + 1)..(j - 1) : k \notin Labels

\* The literals of a function, and an object of rows, are not followed by EVEN: after an
\* odd number of bytes the next word is at an odd address.
Odd ==
    \/ \E i \in DOMAIN tables.out : tables.out[i].op = "pool" /\ tables.out[i + 1].of % 2 = 1
    \/ \E n \in DOMAIN said : said[n].rows # <<>> /\ said[n].size % 2 = 1

\* A function declared without extern has neither label nor EXT, and its definition is
\* refused as the second one.
Foretold(n) == said[n].ident = FUNCTION /\ said[n].size > 0

Stored(n) ==
    \A i \in Places("label", n) :
        /\ Address(NextLabel(i)) - Address(i) >= said[n].size
        /\ said[n].ident = FUNCTION \/ said[n].base \notin {"char", "uchar"} \/ said[n].ident = POINTER
           => Address(i) % 2 = 0

\* Once the trailer is written each name that code uses has one label or one EXT, not
\* both, as have the literals of each function; each object has at least its size, and
\* words and code begin at even addresses (CC_DECL.C:206, CC_CD99.C:210, CC_CD99.C:285).
StorageTrue ==
    Right /\ stage # "parse" =>
        /\ \A i \in DOMAIN tables.out :
              /\ tables.out[i].op \in {"use", "ENT"} /\ ~Foretold(tables.out[i].of) =>
                    Cardinality(Places("label", tables.out[i].of)) + Cardinality(Places("EXT", tables.out[i].of)) = 1
              /\ tables.out[i].op = "refer" => Cardinality(Places("pool", tables.out[i].of)) = 1
        /\ \A n \in DOMAIN said : ~Odd => Stored(n)

OutputTrue == FilesTrue /\ StorageTrue
=============================================================================
