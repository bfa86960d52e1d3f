--------------------------------- MODULE R99 --------------------------------
(***************************************************************************)
(* From the text of a source to the object file of the R99 assembler: the  *)
(* files (setfiles and main in R99.c), the lines and INCL (R99GET.c), the  *)
(* operands of WORD, BYTE and the instructions (_psop and _normop in       *)
(* R99ASMLN.c, read as Operands says), and the object file (R99REL.c,      *)
(* R99PUT.c, written as ObjectFile says).                                  *)
(*                                                                         *)
(* A source begins with the lines that define its names: SymTab's steps,   *)
(* which Assembler takes apart.  The lines after them define none, and are *)
(* read in two passes, a line a step.  A file whose last line has no end   *)
(* is cut there: getlin leaves that line out.                              *)
(***************************************************************************)
EXTENDS Operands, ObjectFile, Bitwise

CONSTANTS Sources,        \* for each head (names and values) what the files may hold
          Main,           \* the file that the command names
          Ent,            \* names with ENTBIT
          Chars,          \* the characters of a name
          progname,       \* the characters of the module's name
          INCLUDE_DEPTH,  \* files that may be included in each other: 1
          MAXXREF         \* references to externals a module may hold: 4

\* A file is its lines and whether the last has no end.  A line that begins with a
\* comma, $ or @ after a value, and names whose search fails are left out (SymTab).
ASSUME SourceAssumption ==
    /\ INCLUDE_DEPTH \in Nat /\ MAXXREF \in Nat
    /\ Ent \subseteq Rel /\ Rel \cap Ext = {}
    /\ \A head \in DOMAIN Sources : \A text \in Sources[head] :
          /\ Main \in DOMAIN text
          /\ \A f \in DOMAIN text : text[f].cut => text[f].lines # <<>>

VARIABLES stage,      \* "args", "head", "pass 1", "pass 2", "done", or "dead" after wipeout
          made,       \* is there an object file?  (not with -N)
          files,      \* the source
          pos,        \* the lines read of the main file, and of the one it includes
          pc, progsize, addrmode, xreftab,
          o,          \* the object file and what is on its way to it
          did,        \* the line assembled last
          said,       \* history: the items of the lines of pass 2
          read        \* history: the lines read in either pass

reader == <<files, pos, read>>
counts == <<pc, progsize, addrmode, did>>
object == <<made, o, said, xreftab>>
run == <<stage, reader, counts, object>>

-----------------------------------------------------------------------------
(* Lines (getlin, include_source).                                         *)

Text(f) == IF files[f].cut THEN Front(files[f].lines) ELSE files[f].lines

Open(k) == pos[k].at < Len(Text(pos[k].file))

\* Mutated form: a file that is read to its end stays the one that is read.
LevelsBug == pos

\* The levels that getlin is left with: an included file that is read ends.
Levels ==
    LET open == {k \in DOMAIN pos : Open(k)} IN
    SubSeq(pos, 1, IF open = {} THEN 1 ELSE CHOOSE k \in open : \A j \in open : j <= k)

EndLine == [op |-> "END", toks |-> <<>>]

Nothing == [line |-> EndLine, mode |-> "WREG", s |-> Fresh(<<>>, "WREG", 1, 0)]

\* The source that just ends gets an END.
Current ==
    LET p == Levels[Len(Levels)] IN
    IF p.at < Len(Text(p.file)) THEN Text(p.file)[p.at + 1] ELSE EndLine

getlin ==
    /\ pos' = [Levels EXCEPT ![Len(Levels)].at = @ + 1]
    /\ read' = [read EXCEPT ![IF stage = "pass 1" THEN 1 ELSE 2] = Append(@, Current)]

Pass == IF stage = "pass 1" THEN 1 ELSE 2

Doing(ops) == stage \in {"pass 1", "pass 2"} /\ Current.op \in ops

Start == Fresh(Current.toks, addrmode, Pass, pc)

\* INCL opens a file that is there, unless the line is in error; the depth of
\* included files is bounded.
include_source ==
    LET at == [Levels EXCEPT ![Len(Levels)].at = @ + 1]
        opened == Append(at, [file |-> Current.file, at |-> 0])
        tried == Current.toks = <<>>
        tooDeep == Len(Levels) > INCLUDE_DEPTH
    IN
    /\ Doing({"INCL"})
    /\ read' = [read EXCEPT ![Pass] = Append(@, Current)]
    /\ pos' = IF tried /\ ~tooDeep /\ Current.file \in DOMAIN files THEN opened ELSE at
    /\ stage' = IF tried /\ tooDeep THEN "dead" ELSE stage
    /\ did' = Nothing
    /\ UNCHANGED <<files, pc, progsize, addrmode, object, vars>>

-----------------------------------------------------------------------------
(* WORD and BYTE (_psop).                                                  *)

markIf(bad, letter, s) == IF bad THEN markerr(letter, s) ELSE s

Say(items, s) == [s EXCEPT !.recs = @ \o items]

WordItems(v, rel) == IF rel THEN <<Rec(PREL, 0, v, <<>>)>> ELSE Word2(v)

ByteItem(v) == <<Rec(ABS, 0, v % 256, <<>>)>>

\* An operand of WORD, with the error of eval, or of BYTE, whose value may have to
\* fit a byte.
DataItem(op, e) ==
    IF op = "WORD"
    THEN [Say(WordItems(e.v, e.s.itemflg \/ e.s.relflg), e.s) EXCEPT
             !.itemflg = FALSE, !.relflg = FALSE, !.nbytes = @ + 2]
    ELSE [Say(ByteItem(e.v), markIf((e.s.evalerr \/ e.v > 255) /\ e.v < Modulus - 128, "V", e.s))
             EXCEPT !.itemflg = FALSE, !.nbytes = @ + 1]

\* A comma after an operand separates; else it is an empty operand, one byte that
\* counts as the size of one.
RECURSIVE Data(_, _, _), DataFrom(_, _, _)

DataFrom(op, cflag, g) ==
    CASE g.attr = "END_LIN" -> g.s
      [] g.attr = "COMMA" /\ cflag -> Data(op, FALSE, g.s)
      [] g.attr = "COMMA" /\ ~cflag ->
            Data(op, FALSE, [Say(ByteItem(0), g.s) EXCEPT !.nbytes = @ + (IF op = "WORD" THEN 2 ELSE 1)])
      [] g.attr \in {"OPERATR", "VALUE"} ->
            Data(op, TRUE, DataItem(op, eval(START, backitem(g.value, g.attr, g.s))))

Data(op, cflag, s) == DataFrom(op, cflag, getitem(s))

-----------------------------------------------------------------------------
(* Instructions (_normop).                                                 *)

\* The words of the opcode table that stand for their format: the opcode, and what
\* its operands are.
Opcode ==
    [MOV |-> <<49152, 1, 1>>, B |-> <<1088, 1, 0>>, XOR |-> <<10240, 1, 3>>,
     JMP |-> <<4096, 2, 0>>, SBZ |-> <<7680, 4, 0>>, SLA |-> <<2560, 5, 5>>,
     LI |-> <<512, 5, 6>>, LIMI |-> <<768, 6, 0>>, RT |-> <<1115, 0, 0>>, TMB |-> <<3081, 7, 0>>]

\* What an instruction gathers: its operands' bits, which operand is read, whether
\* a minus was seen, and the words that follow it.
Inst(code) == [code |-> code, operand |-> 0, opdcount |-> 1, negindex |-> FALSE, fields |-> <<>>]

OrBits(m, bits) == [m EXCEPT !.operand = (@ | (bits % Modulus))]

\* The instruction word and the words that follow.
Encoded(m, s) ==
    Say(FoldLeft(LAMBDA items, f : items \o WordItems(f[1], f[2]),
                 Word2(m.code | m.operand), m.fields), s)

\* More on the line marks T.
Ended(g) == markIf(g.attr # "END_LIN", "T", g.s)

LastOperand(s) == Ended(getitem(s))

\* The mode that an operator before an operand sets.
ModeOf(op, s) ==
    CASE op = "*" -> [s EXCEPT !.addrmode = "INDIRECT"]
      [] op = "@" -> [s EXCEPT !.addrmode = "SYMBOLIC", !.nbytes = @ + 2]
      [] OTHER -> s

\* An item that is given back, and the expression it begins.
Reread(g) == eval(START, backitem(g.value, g.attr, g.s))

\* The value of an operand goes into the fields of its mode; an index is read after it.
Shift(m) == IF m.opdcount = 2 THEN 64 ELSE 1

Reg(n, mode, m, s) ==
    [m |-> OrBits(OrBits(m, n * Shift(m)), mode * 16 * Shift(m)), s |-> markIf(n > 15, "R", s)]

Extended(v, m, s) == [m EXCEPT !.fields = Append(@, <<v, s.itemflg>>)]

Indexing(m, x) == Reg(x.v, 2, m, markIf(x.s.evalerr, "E", x.s))

General(m, v, s) ==
    CASE s.addrmode = "WREG" -> Reg(v, 0, m, s)
      [] s.addrmode = "INDIRECT" -> Reg(v, 1, m, s)
      [] s.addrmode = "AUTOINC" -> Reg(v, 3, m, s)
      [] s.addrmode = "SYMBOLIC" -> Reg(0, 2, Extended(v, m, s), s)
      [] s.addrmode = "INDEXED" ->
            Indexing(Extended(IF m.negindex THEN (0 - v) % Modulus ELSE v, m, s), eval(START, s))

OneOperand(m, e) == General(m, e.v, markIf(e.s.evalerr, "E", e.s))

RECURSIVE Format(_, _, _, _), Operands1(_, _, _), Operand1(_, _, _), Jump(_, _), JumpTo(_, _),
          Operands5(_, _, _), Operand5(_, _, _), normop(_, _, _, _)

NextOperand(m) == [m EXCEPT !.opdcount = @ + 1]

\* Case 1: a register, *R, *R+, @X or @X(R).  A comma clears the flags of the words.
Operand1(attr2, m, g) ==
    CASE g.attr = "OPERATR" ->
            Operands1(attr2, [m EXCEPT !.negindex = g.value = "-" \/ (@ /\ g.value # "+")],
                      ModeOf(g.value, markIf(g.value \in {"*", "@"} /\ g.s.addrmode \in {"INDIRECT", "SYMBOLIC"},
                                           "S", g.s)))
      [] g.attr = "VALUE" -> LET gen == OneOperand(m, Reread(g)) IN Operands1(attr2, gen.m, gen.s)
      [] g.attr = "COMMA" /\ m.opdcount < 3 ->
            Format(attr2, attr2, NextOperand(m), [g.s EXCEPT !.itemflg = FALSE])
      [] g.attr = "COMMA" /\ m.opdcount >= 3 ->
            Operands1(attr2, NextOperand(m), markerr("T", [g.s EXCEPT !.itemflg = FALSE]))
      [] g.attr = "END_LIN" -> Encoded(m, g.s)

Operands1(attr2, m, s) == Operand1(attr2, m, getitem(s))

\* Case 2: the distance of a jump, in words.
Displaced(m, far, s) ==
    LET disp == IF far >= 0 THEN far \div 2 ELSE -((-far) \div 2)
    IN  Encoded([m EXCEPT !.operand = disp % 256], markIf(disp < -128 \/ disp > 127, "B", s))

JumpTo(m, g) ==
    CASE g.attr \in {"OPERATR", "VALUE"} ->
            LET e == Reread(g) IN Jump([m EXCEPT !.operand = e.v], e.s)
      [] g.attr = "COMMA" -> Jump(m, markerr("S", g.s))
      [] g.attr = "END_LIN" -> Displaced(m, Signed((m.operand - (g.s.pc + 2)) % Modulus), g.s)

Jump(m, s) == JumpTo(m, getitem(s))

\* Case 5: a register, or the count of a shift.
Count(m, v) == IF m.opdcount = 2 THEN OrBits(m, v * 16) ELSE [m EXCEPT !.operand = v]

Operand5(attr2, m, g) ==
    CASE g.attr \in {"OPERATR", "VALUE"} ->
            LET e == Reread(g) IN Operands5(attr2, Count(m, e.v), markIf(e.v > 15, "R", e.s))
      [] g.attr = "COMMA" /\ m.opdcount < 3 -> Format(attr2, attr2, NextOperand(m), g.s)
      [] g.attr = "COMMA" /\ m.opdcount >= 3 -> Operands5(attr2, NextOperand(m), markerr("T", g.s))
      [] g.attr = "END_LIN" -> Encoded(m, g.s)

Operands5(attr2, m, s) == Operand5(attr2, m, getitem(s))

\* Cases 3, 4 and 6: a register, a bit's number, an immediate word, which is relocated if
\* its last name is.
Register3(m, e) ==
    Encoded(OrBits(m, e.v * 64),
            markIf(m.opdcount # 2, "S",
                   LastOperand(markIf(e.v > 15, "R", markIf(e.s.evalerr, "S", e.s)))))

Bit4(m, e) == LastOperand(Say(Word2(m.code | (e.v % 256)), markIf(e.s.evalerr, "S", e.s)))

Immediate6(m, e) == LastOperand(Say(Word2(m.code | m.operand) \o WordItems(e.v, e.s.relflg), e.s))

\* The cases.  A bit instruction is a word before a register and an operand of case 1.
Format(attr, attr2, m, from) ==
    LET s == [from EXCEPT !.addrmode = "WREG"] IN
    CASE attr = 0 -> LastOperand(Say(Word2(m.code), markIf(m.opdcount > 1, "S", s)))
      [] attr = 1 -> Operands1(attr2, m, s)
      [] attr = 2 -> Jump(m, s)
      [] attr = 3 -> Register3(m, eval(START, s))
      [] attr = 4 -> Bit4(m, eval(START, s))
      [] attr = 5 -> Operands5(attr2, m, s)
      [] attr = 6 -> Immediate6(m, eval(START, [s EXCEPT !.nbytes = @ + 2]))
      [] attr = 7 -> [normop(0, 1, 3, Say(Word2(m.code), s)) EXCEPT !.nbytes = @ + 2]

\* An instruction at an odd place moves the location on, and is marked.
normop(code, attr, attr2, s) ==
    LET even == IF s.pc % 2 = 1 THEN [markerr("A", s) EXCEPT !.pc = @ + 1] ELSE s
    IN  Format(attr, attr2, Inst(code), [even EXCEPT !.nbytes = 2, !.relflg = FALSE])

Assembled ==
    IF Current.op \in DOMAIN Opcode
    THEN normop(Opcode[Current.op][1], Opcode[Current.op][2], Opcode[Current.op][3], Start)
    ELSE Data(Current.op, FALSE, Start)

-----------------------------------------------------------------------------
(* main.                                                                   *)

\* Items go to the object file, if there is one.  A buffer that cannot be written
\* aborts the assembly.
Output(items) ==
    /\ o' = IF made THEN Put(items, o) ELSE o
    /\ said' = said \o items

\* A line of data or an instruction.  A reference too many aborts the assembly.
LineRead(s) ==
    /\ getlin
    /\ did' = [line |-> Current, mode |-> addrmode, s |-> s]
    /\ pc' = (s.pc + s.nbytes) % Modulus /\ addrmode' = s.addrmode
    /\ IF Pass = 1
       THEN progsize' = (progsize + s.nbytes) % Modulus /\ UNCHANGED <<stage, o, said, xreftab>>
       ELSE /\ UNCHANGED progsize
            /\ IF Len(xreftab \o s.refs) > MAXXREF
               THEN stage' = "dead" /\ UNCHANGED <<o, said, xreftab>>
               ELSE /\ Output(s.recs) /\ xreftab' = xreftab \o s.refs
                    /\ stage' \in {stage} \cup (IF Len(o'.file) > Len(o.file) THEN {"dead"} ELSE {})
    /\ UNCHANGED <<files, made, vars>>

asmline == Doing({"WORD", "BYTE"} \cup DOMAIN Opcode) /\ \E s \in {Assembled} : LineRead(s)

\* setfiles: without a source there is no object file.
setfiles ==
    /\ stage = "args"
    /\ \/ stage' = "dead" /\ UNCHANGED made
       \/ \E noobj \in BOOLEAN : made' = ~noobj /\ stage' = "head"
    /\ UNCHANGED <<reader, counts, o, said, xreftab, vars>>

\* The lines at the head of the source, in either pass.
Definitions ==
    /\ stage = "head"
    /\ Store \/ wipeout \/ Reference
    /\ stage' = IF phase' = "overflow" THEN "dead" ELSE stage
    /\ UNCHANGED <<reader, counts, object>>

\* What the table holds.
Table == [n \in {symtbl[s].name : s \in Occupied} |->
            (CHOOSE e \in {symtbl[s] : s \in Occupied} : e.name = n).symvalu]

\* The lines after them.
Body ==
    /\ stage = "head" /\ stage' = "pass 1"
    /\ Table \in DOMAIN Sources /\ files' \in Sources[Table]
    /\ pos' = <<[file |-> Main, at |-> 0]>>
    /\ UNCHANGED <<read, counts, object, vars>>

\* relhead: the module's name, its entry names in the order of the slots, its size.
EntryNames(table) ==
    LET ent == {s \in Slots : table[s] # Free /\ table[s].name \in Ent} IN
    FoldLeft(LAMBDA q, s : IF s - 1 \in ent THEN Append(q, table[s - 1]) ELSE q,
             <<>>, [s \in 1..SYMBOLS |-> s])

relhead ==
    LET names == EntryNames(symtbl) IN
    <<Rec(PNAME, 0, 0, progname)>>
        \o [i \in DOMAIN names |-> Rec(ENAME, 0, 0, Chars[names[i].name])]
        \o <<Rec(DSIZE, 0, 0, <<>>), Rec(PSIZE, PREL, progsize, <<>>)>>

\* END of the first pass, wherever it is: source_rewind closes the files included.
Rewind ==
    /\ stage = "pass 1" /\ Current.op = "END"
    /\ read' = [read EXCEPT ![1] = Append(@, Current)]
    /\ pos' = <<[file |-> Main, at |-> 0]>> /\ pc' = 0
    /\ o' = (IF made THEN Put(relhead, o) ELSE o)
    /\ stage' \in {"pass 2", "dead"}
    /\ UNCHANGED <<files, progsize, addrmode, did, made, said, xreftab, vars>>

\* xref_emit: for each external its references, in the order they were met.
XrefGroup(n) ==
    LET of == SelectSeq(xreftab, LAMBDA x : x[1] = n) IN
    <<Rec(EXT, 0, 0, XREFS), Rec(XCHAIN, ABS, Len(of), Chars[n])>>
        \o [i \in DOMAIN of |-> Rec(CHAIN, PREL, of[i][2], <<>>)]

xref_emit ==
    LET first == SelectSeq([i \in DOMAIN xreftab |-> i],
                           LAMBDA i : \A j \in 1..i - 1 : xreftab[j][1] # xreftab[i][1])
    IN  FoldLeft(LAMBDA q, i : q \o XrefGroup(xreftab[i][1]), <<>>, first)

\* relsyms: the entry points, then the references.
relsyms(table) ==
    LET names == EntryNames([s \in Slots |-> IF s < Cardinality(Occupied) THEN table[s] ELSE Free]) IN
    [i \in DOMAIN names |-> Rec(EPOINT, PREL, names[i].symvalu, Chars[names[i].name])] \o xref_emit

\* END of the second: what remains of the object is written.
END ==
    /\ stage = "pass 2" /\ Current.op = "END"
    /\ getlin
    /\ sortsym
    /\ o' = IF made
            THEN rflush(rputchr(26, Put(relsyms(symtbl') \o <<Rec(EPROG, ABS, 0, <<>>),
                                                              Rec(EFILE, ABS, 0, <<>>)>>, o)))
            ELSE o
    /\ stage' \in {"done"} \cup (IF made THEN {"dead"} ELSE {})
    /\ UNCHANGED <<files, counts, made, said, xreftab>>

RunInit ==
    /\ Init
    /\ stage = "args" /\ made = FALSE
    /\ files = <<>>
    /\ pos = <<>> /\ read = <<<<>>, <<>>>>
    /\ pc = 0 /\ progsize = 0 /\ addrmode = "WREG" /\ did = Nothing /\ xreftab = <<>>
    /\ o = Empty /\ said = <<>>

RunNext == setfiles \/ Definitions \/ Body \/ asmline \/ include_source \/ Rewind \/ END

RunSpec == RunInit /\ [][RunNext]_<<run, vars>>

-----------------------------------------------------------------------------
(* What a line means.                                                      *)

Relations == {">", "<", "=", "GRTEQ", "LESEQ", "NOTEQ", "LESSGREATER"}
Loose(op) == IF op \in Relations THEN 3 ELSE IF op \in {"+", "-"} THEN 2 ELSE 1

IsOp(t, ops) == t.kind = "op" /\ t.of \in ops

\* Two characters that are one operator, as one token.
Joined(ts) ==
    LET Join(q, t) ==
        IF q # <<>> /\ IsOp(Last(q), {">", "<", "="}) /\ IsOp(t, {">", "<", "="})
           /\ <<Last(q).of, t.of>> \in DOMAIN Composite
        THEN Append(Front(q), [kind |-> "op",
                 of |-> IF Last(q).of = "<" /\ t.of = ">" THEN "LESSGREATER"
                        ELSE Composite[<<Last(q).of, t.of>>]])
        ELSE Append(q, t)
    IN  FoldLeft(Join, <<>>, ts)

\* The operators between two operands, outside parentheses.
Depth(ts, i) ==
    Cardinality({j \in 1..i - 1 : IsOp(ts[j], {"("})}) - Cardinality({j \in 1..i : IsOp(ts[j], {")"})})

EndsOperand(t) == t.kind # "op" \/ t.of \in {")", "$"}

Between(ts) ==
    {i \in 2..Len(ts) - 1 : /\ IsOp(ts[i], Relations \cup {"+", "-", "*"})
                            /\ EndsOperand(ts[i - 1]) /\ Depth(ts, i) = 0}

Numeral(ds) ==
    LET base == Base(ds)
        d == IF HasBase(ds) THEN Front(ds) ELSE ds
    IN  FoldLeft(LAMBDA n, i : n + d[i] * base^(Len(d) - i), 0, [i \in DOMAIN d |-> i]) % Modulus

Holder(n) == CHOOSE s \in Slots : Holds(s, n)

\* The value that an expression has in arithmetic when the module is loaded at a
\* place, if it is one: the loosest operator binds last, of two alike the second.
RECURSIVE Means(_, _, _)
Means(ts, here, base) ==
    LET between == Between(ts)
        last == CHOOSE i \in between : \A j \in between :
                    Loose(ts[j].of) < Loose(ts[i].of) \/ (Loose(ts[j].of) = Loose(ts[i].of) /\ j <= i)
    IN  IF ts = <<>> THEN {}
        ELSE IF between # {}
        THEN {Computed(ts[last].of, v, w) : v \in Means(SubSeq(ts, 1, last - 1), here, base),
                                            w \in Means(SubSeq(ts, last + 1, Len(ts)), here, base)}
        ELSE IF Len(ts) = 1
        THEN CASE ts[1].kind = "num" -> {Numeral(ts[1].of)}
               [] ts[1].kind = "str" ->
                    {v \in {IF Len(ts[1].of) = 1 THEN ts[1].of[1] ELSE 256 * ts[1].of[1] + ts[1].of[2]} :
                        Len(ts[1].of) \in 1..2}
               [] ts[1].kind = "name" ->
                    IF ts[1].of \notin {e.name : e \in Entries} THEN {}
                    ELSE IF ts[1].of \in Ext THEN {0}
                    ELSE {symtbl[Holder(ts[1].of)].symvalu + (IF ts[1].of \in Rel THEN base ELSE 0)}
               [] IsOp(ts[1], {"$"}) -> {here + base}
               [] OTHER -> {}
        ELSE IF IsOp(ts[1], {"+"}) THEN Means(Tail(ts), here, base)
        ELSE IF IsOp(ts[1], {"-"}) THEN {(0 - v) % Modulus : v \in Means(Tail(ts), here, base)}
        ELSE IF IsOp(ts[1], {"("}) /\ IsOp(Last(ts), {")"})
        THEN Means(SubSeq(ts, 2, Len(ts) - 1), here, base)
        ELSE {}

\* The expressions that the code reads otherwise (README): <>, a sign with an operator
\* after its operand, $ but for one operator after it at the start, a parenthesis at
\* the start or before a tighter operator than the last.
Binary(ts, i) == IsOp(ts[i], Relations \cup {"+", "-", "*"}) /\ i > 1 /\ EndsOperand(ts[i - 1])

Astray(ts) ==
    \/ \E i \in DOMAIN ts : IsOp(ts[i], {"LESSGREATER"})
    \/ \E i \in DOMAIN ts :
          /\ IsOp(ts[i], {"+", "-", "$"}) /\ ~Binary(ts, i)
          /\ \/ Depth(ts, i) > 0
             \/ Cardinality({j \in i + 1..Len(ts) : Binary(ts, j)}) > (IF i = 1 /\ ts[i].of = "$" THEN 1 ELSE 0)
    \/ \E i \in 1..Len(ts) - 1 : IsOp(ts[i], {"$"}) /\ ~Binary(ts, i + 1)
    \/ \E i \in 1..Len(ts) - 1 : IsOp(ts[i], {"("}) /\ IsOp(ts[i + 1], {"("})
    \/ \E i, j \in DOMAIN ts :
          /\ i < j /\ IsOp(ts[i], {"("}) /\ IsOp(ts[j], {")"}) /\ j < Len(ts)
          /\ Depth(ts, i) = Depth(ts, j + 1)
          /\ \/ i = 1 \/ ~Binary(ts, i - 1)
             \/ Binary(ts, j + 1) /\ Loose(ts[j + 1].of) < Loose(ts[i - 1].of)

Pieces(ts) ==
    LET Cut(q, t) == IF t.kind = "comma" THEN Append(q, <<>>)
                     ELSE [q EXCEPT ![Len(q)] = Append(@, t)]
    IN  FoldLeft(Cut, <<<<>>>>, ts)

\* Does the value move with the module?  Of a value that moves otherwise, a difference of
\* labels or twice one, nothing is said, nor of an immediate that no such name ends.
Moves(t) == (t.kind = "name" /\ t.of \in Rel) \/ IsOp(t, {"$"})

Relocated(ts, here, immediate) ==
    LET moved == {(w - v) % Modulus : v \in Means(ts, here, 0), w \in Means(ts, here, 100)}
        names == SelectSeq(ts, LAMBDA t : t.kind = "name" \/ IsOp(t, {"$"}))
    IN  IF \A i \in DOMAIN ts : ~Moves(ts[i]) THEN {FALSE}
        ELSE IF moved = {100} /\ (immediate => Moves(Last(names))) THEN {TRUE}
        ELSE BOOLEAN

Words(ts, here, immediate) ==
    {WordItems(v, rel) : v \in Means(ts, here, 0), rel \in Relocated(ts, here, immediate)}

\* An operand of an instruction: its mode, its register, the word that follows.
Index(p) == CHOOSE i \in DOMAIN p : IsOp(p[i], {"("})

Indexed(p) == IsOp(p[1], {"@"}) /\ IsOp(Last(p), {")"})

Parts(p) ==
    IF Indexed(p) THEN <<SubSeq(p, 2, Index(p) - 1), SubSeq(p, Index(p) + 1, Len(p) - 1)>>
    ELSE IF IsOp(p[1], {"*"}) /\ IsOp(Last(p), {"+"}) THEN <<SubSeq(p, 2, Len(p) - 1)>>
    ELSE IF IsOp(p[1], {"*", "@"}) THEN <<Tail(p)>>
    ELSE <<p>>

Regs(ts) == Means(ts, 0, 0) \cap 0..15

Gen(p, here) ==
    LET x == Parts(p) IN
    IF Indexed(p) THEN {[bits |-> 32 + r, ext |-> w] : r \in Regs(x[2]), w \in Words(x[1], here, FALSE)}
    ELSE IF IsOp(p[1], {"@"}) THEN {[bits |-> 32, ext |-> w] : w \in Words(x[1], here, FALSE)}
    ELSE {[bits |-> r + (IF IsOp(p[1], {"*"}) THEN IF IsOp(Last(p), {"+"}) THEN 48 ELSE 16 ELSE 0),
           ext |-> <<>>] : r \in Regs(x[1])}

\* What a line says: the items it may write.
Says(op, ps, here) ==
    LET code == Opcode[op][1] IN
    CASE op = "MOV" -> {Word2(code + s.bits + 64 * d.bits) \o s.ext \o d.ext :
                            s \in Gen(ps[1], here), d \in Gen(ps[2], here)}
      [] op = "B" -> {Word2(code + s.bits) \o s.ext : s \in Gen(ps[1], here)}
      [] op = "XOR" -> {Word2(code + s.bits + 64 * r) \o s.ext : s \in Gen(ps[1], here), r \in Regs(ps[2])}
      [] op = "TMB" -> {Word2(code) \o Word2(s.bits + 64 * r) \o s.ext :
                            s \in Gen(ps[1], here), r \in Regs(ps[2])}
      [] op = "SLA" -> {Word2(code + r + 16 * n) : r \in Regs(ps[1]), n \in Regs(ps[2])}
      [] op = "LI" -> {Word2(code + r) \o w : r \in Regs(ps[1]), w \in Words(ps[2], here, TRUE)}
      [] op = "LIMI" -> {Word2(code) \o w : w \in Words(ps[1], here, TRUE)}
      [] op = "JMP" -> {Word2(code + ((d \div 2) % 256)) :
                            d \in {Signed((v - here - 2) % Modulus) : v \in Means(ps[1], here, 0)}
                                    \cap -256..255}
      [] op = "SBZ" -> {Word2(code + (v % 256)) : v \in Means(ps[1], here, 0)}
      [] op = "RT" -> {Word2(code)}
      [] op = "WORD" -> FoldLeft(LAMBDA q, p : {a \o w : a \in q, w \in Words(p, here, FALSE)}, {<<>>}, ps)
      [] op = "BYTE" -> FoldLeft(LAMBDA q, p : {a \o ByteItem(v) : a \in q, v \in Means(p, here, 0)},
                                 {<<>>}, ps)

Size(items) == FoldLeft(LAMBDA n, r : n + (IF r.item = ABS THEN 1 ELSE 2), 0, items)

Arity(op) == IF op \in {"MOV", "XOR", "TMB", "SLA", "LI"} THEN 2 ELSE 1

\* The operands that something is said of: each is read as in arithmetic, and is none of
\* the forms that the operators of an addressing mode take part in (README).
Sound(op, p) ==
    /\ p # <<>>
    /\ op \in {"MOV", "B", "XOR", "TMB"} =>
          /\ Indexed(p) => \E i \in DOMAIN p : IsOp(p[i], {"("})
          /\ \A k \in DOMAIN Parts(p) : LET x == Parts(p)[k] IN
                /\ x # <<>> /\ x[1].kind # "op" /\ ~Astray(x)
                /\ IsOp(p[1], {"*", "@"}) => \A i \in DOMAIN x : ~IsOp(x[i], {"(", ")"})
                /\ IsOp(p[1], {"*"}) => \A i \in DOMAIN x : ~IsOp(x[i], {"+"})
    /\ op \notin {"MOV", "B", "XOR", "TMB"} => ~Astray(p)

\* An operand of a directive is not read after an instruction whose last operand had a
\* mode that takes an operator of its own.
Leaks(mode, toks) ==
    /\ mode \in {"INDIRECT", "SYMBOLIC", "INDEXED"}
    /\ \E i \in DOMAIN toks : IsOp(toks[i], {"+", "(", ")"})

\* A line that is not marked is what it says: its operands are well formed, and each
\* makes the word, the byte or the bits of the instruction that its text means, where the
\* module is loaded (eval in R99EVAL.c:30-221, _normop in R99ASMLN.c:545-890).
LinesTrue ==
    LET op == did.line.op
        ps == Pieces(Joined(did.line.toks))
    IN  /\ did.s.pass = 2 /\ did.s.err = ""
        /\ op \in DOMAIN Opcode => op = "RT" \/ Len(ps) = Arity(op)
        /\ op = "RT" \/ \A i \in DOMAIN ps : Sound(op, ps[i])
        /\ op = "LI" => \A i \in DOMAIN ps[1] : ~Moves(ps[1][i])
        /\ op \in {"WORD", "BYTE"} => ~Leaks(did.mode, did.line.toks)
        => did.s.recs \in Says(op, ps, did.s.pc) /\ did.s.nbytes = Size(did.s.recs)

\* Whoever reads the object file bit by bit finds the module that was assembled: its name,
\* entries and size, each byte and word at its place, and the references to externals
\* (putbits in R99REL.c:390-414, rputchr in R99PUT.c:226-245).
ObjectTold ==
    stage = "done" /\ made =>
        LET k == Learned(o.file)
            ent == EntryNames([s \in Slots |-> IF s < nssymbols THEN symtbl[s] ELSE Free])
        IN  /\ k.name = progname /\ k.size = progsize
            /\ k.enames = [i \in DOMAIN ent |-> Chars[ent[i].name]]
            /\ k.epoints = [i \in DOMAIN ent |-> <<Chars[ent[i].name], ent[i].symvalu>>]
            /\ k.code = [i \in DOMAIN said |->
                            <<Size(SubSeq(said, 1, i - 1)),
                              IF said[i].item = ABS THEN "ABS" ELSE "PREL", said[i].field>>]
            /\ k.refs = {<<Chars[xreftab[i][1]], xreftab[i][2]>> : i \in DOMAIN xreftab}

\* The lines of the source with the files it includes in their places, up to END.
Expansion ==
    LET In(q, l) ==
            IF l.op = "INCL" /\ l.toks = <<>> /\ l.file \in DOMAIN files
            THEN Append(q, l) \o Text(l.file) ELSE Append(q, l)
        all == FoldLeft(In, <<>>, Text(Main)) \o <<EndLine>>
    IN  SubSeq(all, 1, CHOOSE i \in DOMAIN all : all[i].op = "END" /\ \A j \in 1..i - 1 : all[j].op # "END")

\* Either pass reads the source as if the files it includes were copied into it, and no
\* line twice or not at all, so that the passes can agree (getlin in R99GET.c:538-563).
SourceExpanded ==
    /\ stage \in {"pass 2", "done"} => read[1] = Expansion
    /\ stage = "done" => read[2] = Expansion
=============================================================================
