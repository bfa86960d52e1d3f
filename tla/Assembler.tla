------------------------------- MODULE Assembler ----------------------------
(***************************************************************************)
(* The two passes of the R99 assembler (main in R99.c, asmline, _psop and  *)
(* _normop in R99ASMLN.c, the operand side of R99GET.c and R99EVAL.c, the  *)
(* reference list and the header of R99REL.c).                             *)
(*                                                                         *)
(* Pass 1 only counts bytes and gives the labels their values; pass 2      *)
(* reads the same lines again and writes the object.  Nothing makes the    *)
(* passes agree but the errors that pass 2 marks, and a line is marked by  *)
(* one letter, the first.  The errors of pass 1 are not counted.           *)
(*                                                                         *)
(* A line takes two or more steps: its label, its operation, its end.  The *)
(* symbol table is a map here (NameMap; SymTab says how it is kept).       *)
(* INCL, listing and the text of lines are left out: a line is a record.   *)
(***************************************************************************)
EXTENDS Integers, Sequences, FiniteSets

CONSTANTS Names,       \* the names of the source
          Lines,       \* the lines a source may hold
          MaxLines,    \* bound: the lines of a source before its END
          Top,         \* bound: the highest location
          NoName,      \* no label, or no name in the operand
          None,        \* no error, no symbol, no location
          Here, Number, Empty,   \* operands: $ + plus, plus, nothing between commas
          MAXXREF,     \* references to externals a module may hold: 4
          IFSTACK,     \* depth of conditionals: 16
          Word,        \* one more than the largest word: 65536
          Reach        \* how far a jump goes, in words: 128

Letters == {"A", "B", "D", "E", "I", "L", "M", "O", "P", "S", "U", "V", "*"}

Flags == {"REL", "ENT", "EXT", "DUP", "MULT"}

Operand == [base : Names \cup {Here, Number, Empty}, plus : 0..Word - 1, mark : {"plain", "##"}]

Ops == {"none", "AORG", "EQU", "SET", "BYTE", "WORD", "TEXT", "BSS", "EVEN", "END", "EOF",
        "IF", "ELSE", "ENDI", "DXOP", "EXT", "ENT", "NAM",
        "format1", "format2", "format6", "format7", "user"}

Line == [label : Names \cup {NoName}, suffix : {":", "::"}, op : Ops,
         name : Names \cup {NoName}, args : Seq(Operand)]

Entry == [symvalu : Nat, symflg : SUBSET Flags]

ASSUME AsmAssumption ==
    /\ Lines \subseteq Line
    /\ MaxLines \in Nat /\ Top \in Nat /\ MAXXREF \in Nat /\ IFSTACK \in Nat /\ Reach \in Nat
    /\ Word \in Nat \ {0} /\ Top <= Word
    /\ NoName \notin Names /\ None \notin Letters /\ None \notin Entry /\ None \notin Nat
    /\ {Here, Number, Empty} \cap Names = {}
    /\ Here # Number /\ Here # Empty /\ Number # Empty
    /\ \A l \in Lines :
          /\ l.op \in {"AORG", "EQU", "SET", "BSS", "IF", "format2", "format6"} => Len(l.args) = 1
          /\ l.op \in {"BYTE", "WORD", "TEXT"} => l.args # <<>>
          /\ l.op \in {"format1", "user"} => Len(l.args) <= 2
          /\ l.op \in {"ENT", "EXT", "DXOP", "NAM", "user"} => l.name \in Names

VARIABLES program,    \* the lines read so far; pass 2 reads on after an END it leaves out
          at,         \* the line being assembled
          step,       \* "line", "op", "end"; "done", or "dead" after wipeout
          todo,       \* the operands not yet looked at; ## in one lets the next be external
          pass, pc, nbytes, errcode, symtbl, progname, ifstack, progsize,
          errors,     \* has pass 2 marked a line?  (errcount # 0)
          xreftab,    \* the references to externals
          enames,     \* the entry names in the header
          epoints,    \* the entry points written at END
          lc,         \* the location counter of whoever loads the object
          object,     \* history: the operands written, and where they are loaded
          where       \* history: where the line that a name labels is loaded

source == <<program, at>>
out == <<xreftab, lc, object>>
table == <<symtbl, progname, where>>
module == <<progsize, errors, enames, epoints>>
vars == <<source, step, todo, pass, pc, nbytes, errcode, ifstack, table, out, module>>

-----------------------------------------------------------------------------
(* R99GET.c, R99EVAL.c.                                                    *)

Current == program[at]

Known(n) == symtbl[n] # None

Has(n, f) == Known(n) /\ f \in symtbl[n].symflg

\* markerr: a line keeps its first letter.
Mark(letter, e) == IF e = None THEN letter ELSE e

\* eval fails: the name is not in the table, and pass 1 may not take it for external.
Bad(o) == o.base \in Names /\ ~Known(o.base) /\ ~(o.mark = "##" /\ pass = 1)

IsRef(o) == pass = 2 /\ o.base \in Names /\ Has(o.base, "EXT")

\* getitem and eval, at location loc.  A failed evaluation is 0, and so is an
\* external in pass 2.
eval(o, loc) ==
    IF Bad(o) THEN 0
    ELSE (o.plus + (IF o.base = Here THEN loc
                    ELSE IF o.base \in Names /\ Known(o.base) /\ ~IsRef(o)
                    THEN symtbl[o.base].symvalu ELSE 0)) % Word

\* itemflg and relflg after eval; in pass 1 only $ sets one.
itemflg(o) == pass = 2 /\ o.base \in Names /\ Has(o.base, "REL")
relflg(o) == o.base = Here \/ itemflg(o)

\* In pass 1 a name that is not in the table goes in as an external, after ##.
Declared ==
    [n \in Names |->
        IF pass = 1 /\ ~Known(n) /\ \E i \in DOMAIN todo : todo[i].mark = "##" /\ todo[i].base = n
        THEN [symvalu |-> 0, symflg |-> {"EXT"}] ELSE symtbl[n]]

\* The reference that getitem records when nbytes is n.
xref_add(o, loc, n) ==
    IF IsRef(o) THEN <<[name |-> o.base, loc |-> (loc + n - 2) % Word]>> ELSE <<>>

-----------------------------------------------------------------------------
(* asmline: the label.                                                     *)

IFGROUP == {"IF", "ELSE", "ENDI", "DXOP"}

\* A line in a false region; only the innermost condition is looked at.
Skipped(l) == l.op \notin IFGROUP \cup {"EOF"} /\ ifstack[Len(ifstack)] = 0

Labels(l) == l.label # NoName /\ l.op \notin IFGROUP /\ ~Skipped(l)

\* Mutated form: a label that moved is not marked.
LabelErrorBug(l) ==
    LET n == l.label IN
    IF ~Labels(l) THEN IF l.label # NoName /\ l.op \in IFGROUP THEN "L" ELSE None
    ELSE IF pass = 1 THEN None
    ELSE IF ~Known(n) THEN "P"
    ELSE IF Has(n, "DUP") THEN "D"
    ELSE IF Has(n, "MULT") THEN "M"
    ELSE None

\* The letter the label field marks.  An entry name takes the new location
\* before it is compared.
LabelError(l) ==
    LET n == l.label IN
    IF ~Labels(l) THEN IF l.label # NoName /\ l.op \in IFGROUP THEN "L" ELSE None
    ELSE IF pass = 1 THEN None
    ELSE IF ~Known(n) THEN "P"
    ELSE IF Has(n, "DUP") THEN "D"
    ELSE IF Has(n, "MULT") \/ (~Has(n, "ENT") /\ symtbl[n].symvalu # pc) THEN "M"
    ELSE None

\* Mutated form: the name of an entry keeps the location of pass 1.
LabelEntryBug(l) ==
    LET n == l.label IN
    IF pass = 1 /\ ~Known(n) THEN
        [symvalu |-> pc, symflg |-> {"REL"} \cup (IF l.suffix = "::" THEN {"ENT"} ELSE {})
                                            \cup (IF l.op = "SET" THEN {"MULT"} ELSE {})]
    ELSE IF pass = 1 THEN
        [symvalu |-> pc, symflg |-> symtbl[n].symflg \cup
                                    (IF Has(n, "ENT") \/ n = progname THEN {} ELSE {"DUP"})]
    ELSE symtbl[n]

\* What the table holds for the name.
LabelEntry(l) ==
    LET n == l.label IN
    IF pass = 1 /\ ~Known(n) THEN
        [symvalu |-> pc, symflg |-> {"REL"} \cup (IF l.suffix = "::" THEN {"ENT"} ELSE {})
                                            \cup (IF l.op = "SET" THEN {"MULT"} ELSE {})]
    ELSE IF pass = 1 THEN
        [symvalu |-> pc, symflg |-> symtbl[n].symflg \cup
                                    (IF Has(n, "ENT") \/ n = progname THEN {} ELSE {"DUP"})]
    ELSE IF Has(n, "ENT") THEN [symtbl[n] EXCEPT !.symvalu = pc]
    ELSE symtbl[n]

\* getopcod: not in the table of mnemonics, nor in the symbol table.
UnknownOp(l) == l.op = "user" /\ ~Known(l.name)

\* getlin and asmline up to the operation.  A source that just ends gets an END.
asmline ==
    /\ step = "line"
    /\ \E l \in Lines :
          /\ IF at <= Len(program) THEN l = program[at] /\ UNCHANGED program
             ELSE /\ \/ Len(program) < MaxLines \/ l.op = "EOF"
                     \/ Len(program) = MaxLines /\ l.op = "END"
                  /\ program' = Append(program, l)
          /\ errcode' = Mark(LabelError(l), IF l.op = "EOF" THEN "*"
                                            ELSE IF UnknownOp(l) THEN "O" ELSE None)
          /\ symtbl' = IF Labels(l) THEN [symtbl EXCEPT ![l.label] = LabelEntry(l)] ELSE symtbl
          /\ where' = IF Labels(l) /\ pass = 2 /\ Known(l.label)
                      THEN [where EXCEPT ![l.label] = lc] ELSE where
          /\ ifstack' = IF l.op = "EOF" THEN [ifstack EXCEPT ![Len(ifstack)] = Word - 1]
                                        ELSE ifstack
          /\ step' = IF Skipped(l) \/ UnknownOp(l) \/ l.op = "none" THEN "end" ELSE "op"
          /\ todo' = [i \in DOMAIN l.args |->
                         [l.args[i] EXCEPT !.mark =
                             IF \E j \in 1..i : l.args[j].mark = "##" THEN "##" ELSE "plain"]]
    /\ nbytes' = 0
    /\ UNCHANGED <<at, pass, pc, progname, module, out>>

-----------------------------------------------------------------------------
(* The operations: _psop and _normop.                                      *)

\* The operation of the current line is one of these and is done by this step.
Doing(ops) == step = "op" /\ Current.op \in ops

Done == step' = "end" /\ todo' = <<>>

\* The label of the line, if pass 2 still knows it.
Label == IF Current.label # NoName /\ Known(Current.label) THEN Current.label ELSE NoName

\* ENT, EXT and NAM want no label.
NoLabel == IF Label # NoName THEN Mark("L", errcode) ELSE errcode

\* A failed evaluation marks U.
EvalError == IF \E i \in DOMAIN todo : Bad(todo[i]) THEN Mark("U", errcode) ELSE errcode

\* The references of the line go on the list, if they fit (else wipeout).
Refer(refs) ==
    /\ Len(xreftab) + Len(refs) <= MAXXREF
    /\ xreftab' = xreftab \o refs

\* The operand of AORG, EQU, SET, BSS and IF.
Only == todo[1]
Value == eval(Only, pc)

AORG ==
    /\ Doing({"AORG"}) /\ Done
    /\ errcode' = EvalError /\ symtbl' = Declared /\ Refer(xref_add(Only, pc, nbytes))
    /\ IF Bad(Only) THEN UNCHANGED <<pc, lc>>
       ELSE /\ Value <= Top
            /\ pc' = Value /\ lc' = IF pass = 2 THEN Value ELSE lc
    /\ UNCHANGED <<source, pass, nbytes, ifstack, progname, where, object, module>>

\* EQU takes back the M of its own label.  Its value is compared with the one
\* of the last pass only when it cannot be relocated.
EQU ==
    LET own == IF errcode = "M" /\ ~Has(Label, "MULT") THEN None ELSE errcode
        old == symtbl[Label].symvalu
        known == [Declared EXCEPT ![Label] =
                     [symvalu |-> Value,
                      symflg |-> IF relflg(Only) THEN @.symflg \cup {"REL"} ELSE @.symflg \ {"REL"}]]
    IN  /\ Doing({"EQU"}) /\ Done
        /\ IF Label = NoName THEN errcode' = Mark("L", errcode) /\ UNCHANGED <<symtbl, xreftab, where>>
           ELSE IF Bad(Only) THEN errcode' = Mark("U", own) /\ UNCHANGED <<symtbl, xreftab, where>>
           ELSE /\ errcode' = IF ~relflg(Only) /\ old # Value THEN Mark("M", own) ELSE own
                /\ symtbl' = known
                /\ where' = [where EXCEPT ![Label] = None]
                /\ Refer(xref_add(Only, pc, nbytes))
        /\ UNCHANGED <<source, pass, pc, nbytes, ifstack, progname, lc, object, module>>

SET ==
    LET own == IF errcode = "M" /\ Has(Label, "MULT") THEN None ELSE errcode
    IN  /\ Doing({"SET"}) /\ Done
        /\ IF Label = NoName THEN errcode' = Mark("L", errcode) /\ UNCHANGED <<symtbl, xreftab, where>>
           ELSE /\ errcode' = IF Bad(Only) THEN Mark("U", own) ELSE own
                /\ symtbl' = [Declared EXCEPT ![Label] =
                                 [symvalu |-> IF Bad(Only) THEN @.symvalu ELSE Value,
                                  symflg |-> @.symflg \ {"REL"}]]
                /\ where' = [where EXCEPT ![Label] = None]
                /\ Refer(xref_add(Only, pc, nbytes))
        /\ UNCHANGED <<source, pass, pc, nbytes, ifstack, progname, lc, object, module>>

\* What pass 2 writes for an operand, and where it is loaded: a byte (ABS), two
\* bytes (ABS2), a word to relocate (PREL) or the distance in a jump.
Written(o, loc, item, field) == [at |-> loc, item |-> item, field |-> field, of |-> o, op |-> Current.op]

\* putabs, putabs2 and putrel write nothing in pass 1.
Put(o, size, item, field) ==
    /\ lc' = IF pass = 2 THEN lc + size ELSE lc
    /\ object' = IF pass = 2 THEN Append(object, Written(o, lc, item, field)) ELSE object

\* One operand of BYTE, WORD or TEXT.  An empty word is two bytes long, of which
\* one is written.  The flag that tells a separator from an empty operand has no
\* value before the first operand of WORD.
DataItem ==
    LET o == Head(todo)
        first == todo = Current.args
        size == IF Current.op = "WORD" THEN 2 ELSE 1
        item == IF Current.op # "WORD" THEN "ABS" ELSE IF relflg(o) THEN "PREL" ELSE "ABS2"
    IN  /\ Doing({"BYTE", "WORD", "TEXT"}) /\ pc + nbytes + size <= Top
        /\ errcode' = IF Bad(o) THEN Mark("U", errcode)
                      ELSE IF Current.op = "BYTE" /\ eval(o, pc) > 255 /\ eval(o, pc) < Word - 128
                      THEN Mark("V", errcode) ELSE errcode
        /\ symtbl' = Declared
        /\ todo' = Tail(todo) /\ step' = IF Tail(todo) = <<>> THEN "end" ELSE "op"
        /\ \/ /\ o.base = Empty /\ first /\ Current.op = "WORD"
              /\ UNCHANGED <<nbytes, out>>
           \/ /\ o.base = Empty /\ nbytes' = nbytes + size
              /\ Put(o, 1, "ABS", 0) /\ UNCHANGED xreftab
           \/ /\ o.base # Empty /\ nbytes' = nbytes + size
              /\ Put(o, size, item, eval(o, pc)) /\ Refer(xref_add(o, pc, nbytes))
        /\ UNCHANGED <<source, pass, pc, ifstack, progname, where, module>>

\* The block is as long as the operand says in this pass.
BSS ==
    /\ Doing({"BSS"}) /\ Done
    /\ errcode' = EvalError /\ symtbl' = Declared /\ Refer(xref_add(Only, pc, nbytes))
    /\ pc + Value <= Top
    /\ nbytes' = Value /\ lc' = IF pass = 2 THEN pc + Value ELSE lc
    /\ UNCHANGED <<source, pass, pc, ifstack, progname, where, object, module>>

EVEN ==
    /\ Doing({"EVEN"}) /\ Done
    /\ pc + 1 <= Top
    /\ nbytes' = pc % 2 /\ lc' = IF pass = 2 THEN lc + (pc % 2) ELSE lc
    /\ UNCHANGED <<source, pass, pc, errcode, ifstack, table, xreftab, object, module>>

\* ENT, in pass 1, marks the name or puts it in the table at 0; a name that no
\* line labels is found there by pass 2.
ENT ==
    LET n == Current.name IN
    /\ Doing({"ENT"}) /\ Done
    /\ errcode' = IF pass = 2 /\ ~Known(n) THEN Mark("U", NoLabel) ELSE NoLabel
    /\ symtbl' = IF pass = 2 THEN symtbl
                 ELSE IF Known(n) THEN [symtbl EXCEPT ![n].symflg = @ \cup {"ENT", "REL"}]
                 ELSE [symtbl EXCEPT ![n] = [symvalu |-> 0, symflg |-> {"ENT", "REL"}]]
    /\ UNCHANGED <<source, pass, pc, nbytes, ifstack, progname, where, out, module>>

EXT ==
    LET n == Current.name IN
    /\ Doing({"EXT"}) /\ Done
    /\ errcode' = IF pass = 2 /\ ~Known(n) THEN Mark("P", NoLabel)
                  ELSE IF pass = 2 /\ Has(n, "MULT") THEN Mark("M", NoLabel) ELSE NoLabel
    /\ symtbl' = IF pass = 2 THEN symtbl
                 ELSE IF Known(n) THEN [symtbl EXCEPT ![n].symflg = @ \cup {"MULT"}]
                 ELSE [symtbl EXCEPT ![n] = [symvalu |-> 0, symflg |-> {"EXT"}]]
    /\ UNCHANGED <<source, pass, pc, nbytes, ifstack, progname, where, out, module>>

\* DXOP gives a name to an XOP, if the name is not in the table.
DXOP ==
    LET n == Current.name IN
    /\ Doing({"DXOP"}) /\ Done
    /\ symtbl' = IF pass = 1 /\ ~Known(n)
                 THEN [symtbl EXCEPT ![n] = [symvalu |-> 11264, symflg |-> {"REL"}]] ELSE symtbl
    /\ UNCHANGED <<source, pass, pc, nbytes, errcode, ifstack, progname, where, out, module>>

NAM ==
    /\ Doing({"NAM"}) /\ Done
    /\ progname' = IF pass = 1 THEN Current.name ELSE progname
    /\ errcode' = IF pass = 2 /\ progname # Current.name THEN Mark("M", NoLabel) ELSE NoLabel
    /\ UNCHANGED <<source, pass, pc, nbytes, ifstack, symtbl, where, out, module>>

\* IF is evaluated and stacked even in a false region; an expression that pass 1
\* cannot evaluate is true there.
IF_ ==
    LET t == IF Bad(Only) THEN Word - 1 ELSE Value IN
    /\ Doing({"IF"}) /\ Done
    /\ Len(ifstack) <= IFSTACK
    /\ errcode' = EvalError /\ symtbl' = Declared /\ Refer(xref_add(Only, pc, nbytes))
    /\ ifstack' = Append(ifstack, t)
    /\ UNCHANGED <<source, pass, pc, nbytes, progname, where, lc, object, module>>

\* ELSE complements the condition bit by bit.
ELSE_ENDI ==
    LET top == Len(ifstack) IN
    /\ Doing({"ELSE", "ENDI"}) /\ Done
    /\ errcode' = IF top = 1 THEN Mark("I", errcode) ELSE errcode
    /\ ifstack' = IF top = 1 THEN ifstack
                  ELSE IF Current.op = "ENDI" THEN SubSeq(ifstack, 1, top - 1)
                  ELSE [ifstack EXCEPT ![top] = Word - 1 - @]
    /\ UNCHANGED <<source, pass, pc, nbytes, table, out, module>>

\* Where _normop puts the instruction: an odd location is passed over, and the
\* object is not told.
Even == pc + (pc % 2)

OddMark == IF pc % 2 = 1 THEN Mark("A", errcode) ELSE errcode

\* A failed evaluation in _normop marks U in getitem, before E or S.
InstrError == IF \E i \in DOMAIN todo : Bad(todo[i]) THEN Mark("U", OddMark) ELSE OddMark

\* Mutated form: an odd location is not marked.
InstrBug(size, writes) ==
    /\ Even + size <= Top
    /\ pc' = Even /\ nbytes' = size
    /\ errcode' = (IF \E i \in DOMAIN todo : Bad(todo[i]) THEN Mark("U", errcode) ELSE errcode)
    /\ symtbl' = Declared
    /\ lc' = IF pass = 2 THEN lc + size ELSE lc
    /\ object' = IF pass = 2 THEN object \o writes ELSE object

\* An instruction of so many bytes; the loader puts them where it is.
Instr(size, writes) ==
    /\ Even + size <= Top
    /\ pc' = Even /\ nbytes' = size
    /\ errcode' = InstrError /\ symtbl' = Declared
    /\ lc' = IF pass = 2 THEN lc + size ELSE lc
    /\ object' = IF pass = 2 THEN object \o writes ELSE object

\* The words after the opcode, n bytes of which come before them.  itemflg, and
\* so the kind of the item, knows names but not $.
Fields(n) ==
    [i \in DOMAIN todo |->
        Written(todo[i], lc + n + 2 * (i - 1),
                IF itemflg(todo[i]) THEN "PREL" ELSE "ABS2", eval(todo[i], Even))]

FieldRefs(n) ==
    IF todo = <<>> THEN <<>>
    ELSE IF Len(todo) = 1 THEN xref_add(todo[1], Even, n + 2)
    ELSE xref_add(todo[1], Even, n + 2) \o xref_add(todo[2], Even, n + 4)

\* Formats 0, 1, 3, 4 and 5: up to two of the operands are @ words.
Format1 ==
    /\ Doing({"format1", "user"}) /\ Done
    /\ Instr(2 + 2 * Len(todo), Fields(2)) /\ Refer(FieldRefs(2))
    /\ UNCHANGED <<source, pass, ifstack, progname, where, module>>

\* Format 7 writes its opcode and is then format 1 and 3, which count from 2.
Format7 ==
    /\ Doing({"format7"}) /\ Done
    /\ Instr(4 + 2 * Len(todo), Fields(4)) /\ Refer(FieldRefs(2))
    /\ UNCHANGED <<source, pass, ifstack, progname, where, module>>

\* Mutated form: an immediate operand is never relocatable.
Format6Bug ==
    /\ Doing({"format6"}) /\ Done
    /\ Instr(4, <<Written(Only, lc + 2, "ABS2", eval(Only, Even))>>)
    /\ Refer(xref_add(Only, Even, 4))
    /\ UNCHANGED <<source, pass, ifstack, progname, where, module>>

\* The immediate operand; its kind is by relflg, which knows $.
Format6 ==
    /\ Doing({"format6"}) /\ Done
    /\ Instr(4, <<Written(Only, lc + 2, IF relflg(Only) THEN "PREL" ELSE "ABS2", eval(Only, Even))>>)
    /\ Refer(xref_add(Only, Even, 4))
    /\ UNCHANGED <<source, pass, ifstack, progname, where, module>>

\* A jump of so many words; odd differences lose their last bit.
Format2 ==
    LET d == eval(Only, Even) - (Even + 2)
        disp == IF d >= 0 THEN d \div 2 ELSE -((-d) \div 2)
    IN  /\ Doing({"format2"}) /\ Done
        /\ Even + 2 <= Top
        /\ pc' = Even /\ nbytes' = 2 /\ symtbl' = Declared
        /\ errcode' = IF disp < -Reach \/ disp > Reach - 1 THEN Mark("B", InstrError) ELSE InstrError
        /\ lc' = IF pass = 2 THEN lc + 2 ELSE lc
        /\ object' = IF pass = 2 THEN Append(object, Written(Only, lc, "disp", disp)) ELSE object
        /\ Refer(xref_add(Only, Even, 2))
        /\ UNCHANGED <<source, pass, ifstack, progname, where, module>>

\* More references than MAXXREF, or too deep a conditional, end the assembly.
wipeout ==
    /\ step = "op"
    /\ \/ /\ \E i \in DOMAIN todo :
                Cardinality({j \in 1..i : IsRef(todo[j])}) + Len(xreftab) > MAXXREF
       \/ Current.op = "IF" /\ Len(ifstack) > IFSTACK
    /\ step' = "dead"
    /\ UNCHANGED <<source, todo, pass, pc, nbytes, errcode, ifstack, table, out, module>>

-----------------------------------------------------------------------------
(* END, and the loop of main around asmline.                               *)

EntryNames == {n \in Names : Has(n, "ENT")}

\* END: after pass 1 the other pass; after pass 2 the entry points are written.
END ==
    /\ Doing({"END", "EOF"}) /\ Done
    /\ pass' = IF pass = 1 THEN 0 ELSE 3
    /\ errcode' = IF pass = 2 /\ Len(ifstack) > 1 THEN Mark("I", errcode) ELSE errcode
    /\ epoints' = IF pass = 1 THEN epoints
                  ELSE [n \in Names |-> IF n \in EntryNames THEN symtbl[n].symvalu ELSE None]
    /\ UNCHANGED <<source, pc, nbytes, ifstack, table, out, progsize, errors, enames>>

\* After a line of either pass.
NextLine ==
    /\ step = "end" /\ pass \in {1, 2}
    /\ pc + nbytes <= Top
    /\ pc' = pc + nbytes /\ at' = at + 1 /\ step' = "line" /\ nbytes' = 0 /\ todo' = <<>>
    /\ progsize' = IF pass = 1 THEN progsize + nbytes ELSE progsize
    /\ errors' = (pass = 2 /\ (errors \/ errcode # None))
    /\ UNCHANGED <<program, pass, errcode, ifstack, table, out, enames, epoints>>

\* Between the passes: the source is read again and relhead writes the header.
Pass2 ==
    /\ step = "end" /\ pass = 0
    /\ pass' = 2 /\ pc' = 0 /\ at' = 1 /\ step' = "line" /\ nbytes' = 0 /\ todo' = <<>>
    /\ ifstack' = <<Word - 1>> /\ errors' = FALSE
    /\ enames' = EntryNames /\ xreftab' = <<>> /\ lc' = 0
    /\ UNCHANGED <<program, errcode, table, object, progsize, epoints>>

\* The end of pass 2.
Finish ==
    /\ step = "end" /\ pass = 3
    /\ step' = "done" /\ errors' = (errors \/ errcode # None)
    /\ UNCHANGED <<source, todo, pass, pc, nbytes, errcode, ifstack, table, out,
                   progsize, enames, epoints>>

Init ==
    /\ program = <<>> /\ at = 1 /\ step = "line" /\ todo = <<>>
    /\ pass = 1 /\ pc = 0 /\ nbytes = 0 /\ errcode = None
    /\ symtbl = [n \in Names |-> None] /\ progname = NoName /\ ifstack = <<Word - 1>>
    /\ progsize = 0 /\ errors = FALSE /\ xreftab = <<>>
    /\ enames = {} /\ epoints = [n \in Names |-> None]
    /\ lc = 0 /\ object = <<>> /\ where = [n \in Names |-> None]

Next ==
    \/ asmline \/ AORG \/ EQU \/ SET \/ DataItem \/ BSS \/ EVEN \/ ENT \/ EXT \/ DXOP \/ NAM
    \/ IF_ \/ ELSE_ENDI \/ Format1 \/ Format7 \/ Format6 \/ Format2 \/ wipeout
    \/ END \/ NextLine \/ Pass2 \/ Finish

Spec == Init /\ [][Next]_vars

-----------------------------------------------------------------------------
TypeOK ==
    /\ program \in Seq(Lines) /\ at \in Nat \ {0} /\ todo \in Seq(Operand)
    /\ step \in {"line", "op", "end", "done", "dead"}
    /\ pass \in 0..3 /\ pc \in Nat /\ nbytes \in Nat
    /\ errcode \in Letters \cup {None}
    /\ symtbl \in [Names -> Entry \cup {None}] /\ progname \in Names \cup {NoName}
    /\ ifstack \in Seq(0..Word - 1) /\ ifstack # <<>>
    /\ progsize \in Nat /\ errors \in BOOLEAN
    /\ xreftab \in Seq([name : Names, loc : Nat]) /\ Len(xreftab) <= MAXXREF
    /\ enames \subseteq Names /\ epoints \in [Names -> Nat \cup {None}]
    /\ lc \in Nat /\ where \in [Names -> Nat \cup {None}]
    /\ object \in Seq([at : Nat, item : {"ABS", "ABS2", "PREL", "disp"}, field : Int,
                       of : Operand, op : Ops])

\* Pass 2 has marked nothing yet.
Clean == pass \in {2, 3} /\ ~errors /\ errcode = None

\* The object says the same place as the assembler: a loader that follows the
\* items is at pc after every line that pass 2 did not mark, through AORG, BSS and
\* EVEN, which move it without bytes (R99ASMLN.c:157, R99REL.c:220).
LoaderFollows == Clean => lc = pc + nbytes

\* A name that labels a location, and is no entry name, has the value of the place
\* where its line is loaded: a pass that gave it another is marked (the comment
\* "Phasing Error", R99ASMLN.c:107, is about this).
Plain(n) == where[n] # None /\ ~Has(n, "ENT")

LabelsTrue == Clean => \A n \in Names : Plain(n) => symtbl[n].symvalu = where[n]

\* The names that a line of the source gives a value by EQU or SET.
Equated == {program[i].label : i \in {k \in DOMAIN program : program[k].op \in {"EQU", "SET"}}}

\* A name that is nothing but the label of a place.
Placed(n) == Plain(n) /\ ~Has(n, "EXT") /\ n \notin Equated

\* And every operand that named it, before its line or after it, was written with
\* that value, a word as one to relocate, or as the distance from the jump.
ReferencesTrue ==
    Clean => \A i \in DOMAIN object :
        LET w == object[i]
            place == (where[w.of.base] + w.of.plus) % Word
        IN  w.of.base \in Names /\ Placed(w.of.base) =>
                IF w.item = "disp"
                THEN (place - w.at) % 2 = 0 => w.at + 2 + 2 * w.field = place
                ELSE /\ w.field = place
                     /\ Has(w.of.base, "REL") => w.item # "ABS2"

\* Every word of an instruction that names an external is in the list, at the place
\* where it is loaded; the linker finds it by nothing else.
ExternalsListed ==
    Clean => \A i \in DOMAIN object :
        LET w == object[i] IN
        w.op \in {"format1", "user", "format6"} /\ w.of.base \in Names /\ Has(w.of.base, "EXT") =>
            \E k \in DOMAIN xreftab : xreftab[k] = [name |-> w.of.base, loc |-> w.at]

\* An entry point is the place where the line of its label is loaded, and the
\* header has announced the same names (entnam and relsyms, R99REL.c:193, :212).
EntriesTrue ==
    pass = 3 =>
        /\ enames = {n \in Names : epoints[n] # None}
        /\ Clean => \A n \in enames : where[n] # None => epoints[n] = where[n]

\* What the module tells a linker of its entries and externals is what it holds.
HeaderTrue == ExternalsListed /\ EntriesTrue
=============================================================================
