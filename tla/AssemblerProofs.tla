--------------------------- MODULE AssemblerProofs --------------------------
(* Proofs about Assembler, for every set of lines, however long the source. *)
EXTENDS Assembler, SequenceTheorems, TLAPS

Ref == [name : Names, loc : Nat]

Data == {"BYTE", "WORD", "TEXT"}

Item == [at : Nat, item : {"ABS", "ABS2", "PREL", "disp"}, field : Int, of : Operand, op : Ops]

\* Where the assembly is, and what todo holds: the operands of the line, or what
\* is left of them.
TodoRight ==
    /\ step = "line" => nbytes = 0 /\ pass \in {1, 2}
    /\ step = "done" => pass = 3
    /\ at <= Len(program) + 1
    /\ step # "line" => at <= Len(program)
    /\ step = "op" =>
        /\ at <= Len(program) /\ Current.op # "none"
        /\ pass \in {1, 2}
        /\ Current.op \in Data => todo # <<>>
        /\ Current.op \notin Data => Len(todo) = Len(Current.args) /\ nbytes = 0

\* No empty operand of WORD: it is two bytes for the assembler and one for the loader.
NoEmptyWords ==
    \A l \in Lines : l.op = "WORD" => \A i \in DOMAIN l.args : l.args[i].base # Empty

FullWords ==
    step = "op" /\ Current.op = "WORD" => \A i \in DOMAIN todo : todo[i].base # Empty

\* The loader follows in pass 2 until a line is marked; while a line is being
\* assembled also when its mark may still be taken back.
Follows ==
    pass \in {2, 3} /\ ~errors /\ (step \in {"line", "op", "dead"} \/ errcode = None)
        => lc = pc + nbytes

-----------------------------------------------------------------------------
LEMMA ModType == \A k \in Int : k % Word \in 0..Word - 1
BY AsmAssumption

LEMMA PopType ==
    ASSUME NEW S, NEW q \in Seq(S), q # <<>>, Len(q) # 1
    PROVE  SubSeq(q, 1, Len(q) - 1) \in Seq(S) /\ SubSeq(q, 1, Len(q) - 1) # <<>>
<1>1. Len(q) \in Nat /\ Len(q) - 1 \in Nat \ {0}
  BY EmptySeq
<1>2. \A i \in 1..Len(q) - 1 : q[i] \in S
  BY <1>1
<1>3. Len(SubSeq(q, 1, Len(q) - 1)) = Len(q) - 1
  BY <1>1
<1>4. SubSeq(q, 1, Len(q) - 1) \in Seq(S)
  BY <1>1, <1>2
<1>5. QED
  BY <1>1, <1>3, <1>4

LEMMA EvalType ==
    ASSUME TypeOK, NEW o \in Operand, NEW loc \in Nat
    PROVE  eval(o, loc) \in 0..Word - 1
<1>1. CASE Bad(o)
  BY <1>1, AsmAssumption DEF eval
<1>2. CASE ~Bad(o)
  <2> DEFINE v == IF o.base = Here THEN loc
                   ELSE IF o.base \in Names /\ Known(o.base) /\ ~IsRef(o)
                   THEN symtbl[o.base].symvalu ELSE 0
  <2>1. v \in Nat
    <3>1. ASSUME o.base \in Names, Known(o.base) PROVE symtbl[o.base].symvalu \in Nat
      BY <3>1 DEF TypeOK, Known, Entry
    <3>2. QED
      BY <3>1
  <2>2. o.plus \in Nat
    BY AsmAssumption DEF Operand
  <2>3. eval(o, loc) = (o.plus + v) % Word
    BY <1>2 DEF eval
  <2> HIDE DEF v
  <2>4. o.plus + v \in Int
    BY <2>1, <2>2
  <2>5. QED
    BY <2>3, <2>4, ModType
<1>3. QED
  BY <1>1, <1>2

LEMMA RefType ==
    ASSUME NEW o \in Operand, NEW loc \in Nat, NEW n \in Nat
    PROVE  xref_add(o, loc, n) \in Seq(Ref)
<1>1. (loc + n - 2) % Word \in Nat
  <2>1. loc + n - 2 \in Int
    OBVIOUS
  <2>2. QED
    BY <2>1, ModType, AsmAssumption
<1>2. CASE IsRef(o)
  <2>1. [name |-> o.base, loc |-> (loc + n - 2) % Word] \in Ref
    BY <1>1, <1>2 DEF IsRef, Ref
  <2>2. QED
    BY <1>2, <2>1 DEF xref_add
<1>3. QED
  BY <1>2 DEF xref_add

LEMMA DeclaredType ==
    ASSUME TypeOK
    PROVE  Declared \in [Names -> Entry \cup {None}]
BY DEF TypeOK, Declared, Entry, Flags

LEMMA MarkType ==
    ASSUME NEW letter \in Letters \cup {None}, NEW e \in Letters \cup {None}
    PROVE  Mark(letter, e) \in Letters \cup {None}
BY DEF Mark

\* The current line is one of the source.
LEMMA CurrentType ==
    ASSUME TypeOK, TodoRight, step = "op"
    PROVE  Current \in Lines
<1>1. program \in Seq(Lines) /\ at \in Nat \ {0}
  BY DEF TypeOK
<1>2. QED
  BY <1>1 DEF TodoRight, Current

\* The only operand of an operation that has one.
LEMMA OnlyType ==
    ASSUME TypeOK, TodoRight, Doing({"AORG", "EQU", "SET", "BSS", "IF", "format2", "format6"})
    PROVE  Only \in Operand
<1>1. Current \in Lines
  BY CurrentType DEF Doing
<1>2. Len(todo) = 1
  BY <1>1, AsmAssumption DEF TodoRight, Doing, Data
<1>3. todo \in Seq(Operand)
  BY DEF TypeOK
<1>4. QED
  BY <1>2, <1>3 DEF Only

LEMMA ValueType ==
    ASSUME TypeOK, TodoRight, Doing({"AORG", "EQU", "SET", "BSS", "IF"})
    PROVE  Value \in 0..Word - 1 /\ xref_add(Only, pc, nbytes) \in Seq(Ref)
<1>1. Only \in Operand
  BY OnlyType DEF Doing
<1>2. pc \in Nat /\ nbytes \in Nat
  BY DEF TypeOK
<1>3. QED
  BY <1>1, <1>2, EvalType, RefType DEF Value

LEMMA ReferType ==
    ASSUME TypeOK, NEW refs \in Seq(Ref), Refer(refs)
    PROVE  xreftab' \in Seq(Ref) /\ Len(xreftab') <= MAXXREF
<1>1. xreftab \in Seq(Ref) /\ Len(xreftab') = Len(xreftab) + Len(refs)
  BY DEF TypeOK, Ref, Refer
<1>2. QED
  BY <1>1, AsmAssumption DEF Refer

\* The label field changes the table only to other entries.
LEMMA LabelType ==
    ASSUME TypeOK, pass \in {1, 2}, NEW l \in Lines
    PROVE  /\ Labels(l) => LabelEntry(l) \in Entry \cup {None}
           /\ LabelError(l) \in Letters \cup {None}
<1>1. Labels(l) => l.label \in Names
  BY AsmAssumption DEF Labels, Line
<1>2. Labels(l) => LabelEntry(l) \in Entry \cup {None}
  BY <1>1 DEF LabelEntry, TypeOK, Entry, Flags, Known, Has
<1>3. LabelError(l) \in Letters \cup {None}
  BY DEF LabelError, Letters
<1>4. QED
  BY <1>2, <1>3

LEMMA AsmlineType ==
    ASSUME TypeOK, TodoRight, asmline
    PROVE  TypeOK' /\ TodoRight'
<1>1. pass \in {1, 2}
  BY DEF TodoRight, asmline
<1> DEFINE letter(l) == IF l.op = "EOF" THEN "*" ELSE IF UnknownOp(l) THEN "O" ELSE None
<1>2. PICK l \in Lines :
        /\ IF at <= Len(program) THEN l = program[at] /\ UNCHANGED program
           ELSE program' = Append(program, l)
        /\ errcode' = Mark(LabelError(l), letter(l))
        /\ symtbl' = IF Labels(l) THEN [symtbl EXCEPT ![l.label] = LabelEntry(l)] ELSE symtbl
        /\ where' = IF Labels(l) /\ pass = 2 /\ Known(l.label)
                    THEN [where EXCEPT ![l.label] = lc] ELSE where
        /\ ifstack' = IF l.op = "EOF" THEN [ifstack EXCEPT ![Len(ifstack)] = Word - 1] ELSE ifstack
        /\ step' = IF Skipped(l) \/ UnknownOp(l) \/ l.op = "none" THEN "end" ELSE "op"
        /\ todo' = [i \in DOMAIN l.args |->
                       [l.args[i] EXCEPT !.mark =
                           IF \E j \in 1..i : l.args[j].mark = "##" THEN "##" ELSE "plain"]]
  BY DEF asmline
<1>3. l.args \in Seq(Operand) /\ l.label \in Names \cup {NoName} /\ l.op \in Ops
  BY AsmAssumption DEF Line
<1>4. todo' \in Seq(Operand) /\ Len(todo') = Len(l.args)
  <2>1. \A i \in DOMAIN l.args :
           [l.args[i] EXCEPT !.mark =
                           IF \E j \in 1..i : l.args[j].mark = "##" THEN "##" ELSE "plain"] \in Operand
    <3>1. SUFFICES ASSUME NEW i \in DOMAIN l.args, NEW m \in {"plain", "##"}
                   PROVE  [l.args[i] EXCEPT !.mark = m] \in Operand
      OBVIOUS
    <3>2. l.args[i] \in Operand
      BY <1>3
    <3>3. QED
      BY <3>2 DEF Operand
  <2>2. DOMAIN l.args = 1..Len(l.args) /\ Len(l.args) \in Nat
    BY <1>3
  <2>3. QED
    BY <1>2, <2>1, <2>2
<1>5. program' \in Seq(Lines) /\ at <= Len(program') /\ program'[at] = l
  <2>1. program \in Seq(Lines) /\ at \in Nat \ {0} /\ at <= Len(program) + 1
    BY DEF TypeOK, TodoRight
  <2>2. QED
    BY <1>2, <2>1
<1>6. errcode' \in Letters \cup {None}
  <2>1. letter(l) \in Letters \cup {None}
    BY DEF Letters
  <2>2. QED
    BY <1>1, <1>2, <2>1, LabelType, MarkType
<1>7. symtbl' \in [Names -> Entry \cup {None}]
  BY <1>1, <1>2, <1>3, LabelType DEF TypeOK
<1>8. where' \in [Names -> Nat \cup {None}]
  BY <1>2 DEF TypeOK
<1>9. ifstack' \in Seq(0..Word - 1) /\ ifstack' # <<>>
  <2>1. ifstack \in Seq(0..Word - 1) /\ Len(ifstack) \in DOMAIN ifstack /\ Word - 1 \in 0..Word - 1
    BY AsmAssumption DEF TypeOK
  <2>2. QED
    BY <1>2, <2>1
<1>10. step' \in {"end", "op"}
  BY <1>2
<1>11. TypeOK'
  BY <1>4, <1>5, <1>6, <1>7, <1>8, <1>9, <1>10 DEF asmline, TypeOK, module, out
<1>12. at' <= Len(program') /\ Current' = l
  BY <1>5 DEF asmline, Current
<1>13. step' = "op" => l.op # "none" /\ pass' \in {1, 2} /\ nbytes' = 0
  BY <1>1, <1>2 DEF asmline
<1>14. l.op \in Data => todo' # <<>>
  <2>1. l.op \in Data => l.args # <<>>
    BY AsmAssumption DEF Data
  <2>2. QED
    BY <1>3, <1>4, <2>1
<1>15. TodoRight'
  <2>1. step' # "line" /\ step' # "done" /\ at' = at /\ at \in Nat /\ Len(program') \in Nat
    BY <1>5, <1>10 DEF asmline, TypeOK
  <2>2. l.op \notin Data => Len(todo') = Len(l.args)
    BY <1>4
  <2> HIDE DEF letter
  <2>3. QED
    BY <1>12, <1>13, <1>14, <2>1, <2>2 DEF TodoRight
<1>16. QED
  BY <1>11, <1>15

\* A step that ends the operation of a line.
LEMMA DoneRight ==
    ASSUME TypeOK, TodoRight, step = "op", Done, UNCHANGED source
    PROVE  TodoRight' /\ step' \in {"end"} /\ todo' \in Seq(Operand)
BY DEF TodoRight, Done, source

\* The operations that have one operand, or none.
LEMMA PsopType ==
    ASSUME TypeOK, TodoRight, AORG \/ EQU \/ SET \/ BSS \/ EVEN \/ IF_
    PROVE  TypeOK' /\ TodoRight'
<1>1. TodoRight' /\ step' \in {"end"} /\ todo' \in Seq(Operand)
  BY DoneRight DEF Doing, AORG, EQU, SET, BSS, EVEN, IF_
<1>2. EvalError \in Letters \cup {None}
  BY MarkType DEF EvalError, TypeOK, Letters
<1>3. CASE AORG
  <2>1. Value \in Nat /\ Refer(xref_add(Only, pc, nbytes)) /\ xref_add(Only, pc, nbytes) \in Seq(Ref)
    BY <1>3, ValueType, AsmAssumption DEF AORG, Doing
  <2>2. xreftab' \in Seq(Ref) /\ Len(xreftab') <= MAXXREF
    BY <2>1, ReferType
  <2>3. pc' \in Nat /\ lc' \in Nat
    BY <1>3, <2>1 DEF AORG, TypeOK
  <2>4. QED
    BY <1>1, <1>2, <1>3, <2>2, <2>3, DeclaredType DEF AORG, TypeOK, source, module, Ref
<1>4. CASE EQU
  <2> DEFINE flags == IF relflg(Only) THEN Declared[Label].symflg \cup {"REL"}
                                      ELSE Declared[Label].symflg \ {"REL"}
             own == IF errcode = "M" /\ ~Has(Label, "MULT") THEN None ELSE errcode
  <2>1. errcode' \in Letters \cup {None}
    <3>1. own \in Letters \cup {None} /\ errcode \in Letters \cup {None}
      BY DEF TypeOK
    <3>2. \/ errcode' = Mark("L", errcode) \/ errcode' = Mark("U", own)
          \/ errcode' = Mark("M", own) \/ errcode' = own
      BY <1>4 DEF EQU
    <3>3. {"L", "U", "M"} \subseteq Letters
      BY DEF Letters
    <3> HIDE DEF own
    <3>4. QED
      BY <3>1, <3>2, <3>3, MarkType
  <2>2. CASE Label = NoName \/ Bad(Only)
    <3>1. UNCHANGED <<symtbl, xreftab, where>>
      BY <1>4, <2>2 DEF EQU
    <3>2. QED
      BY <1>1, <1>4, <2>1, <3>1 DEF EQU, TypeOK, source, module
  <2>3. CASE Label # NoName /\ ~Bad(Only)
    <3>1. Label \in Names /\ Known(Label)
      BY <1>4, <2>3, CurrentType, AsmAssumption DEF Label, Line, EQU, Doing
    <3>2. Value \in Nat /\ Refer(xref_add(Only, pc, nbytes)) /\ xref_add(Only, pc, nbytes) \in Seq(Ref)
      BY <1>4, <2>3, ValueType, AsmAssumption DEF EQU, Doing
    <3>3. xreftab' \in Seq(Ref) /\ Len(xreftab') <= MAXXREF
      BY <3>2, ReferType
    <3>4. [symvalu |-> Value, symflg |-> flags] \in Entry
      BY <3>1, <3>2, DeclaredType DEF Entry, Flags, Known, Declared, TypeOK
    <3>5. symtbl' = [Declared EXCEPT ![Label] = [symvalu |-> Value, symflg |-> flags]]
      BY <1>4, <2>3, <3>1 DEF EQU, Declared
    <3>6. symtbl' \in [Names -> Entry \cup {None}]
      BY <3>4, <3>5, DeclaredType
    <3>7. where' \in [Names -> Nat \cup {None}]
      BY <1>4, <2>3 DEF EQU, TypeOK
    <3>8. QED
      BY <1>1, <1>4, <2>1, <3>3, <3>6, <3>7 DEF EQU, TypeOK, source, module, Ref
  <2>4. QED
    BY <2>2, <2>3
<1>5. CASE SET
  <2> DEFINE own == IF errcode = "M" /\ Has(Label, "MULT") THEN None ELSE errcode
             value == IF Bad(Only) THEN Declared[Label].symvalu ELSE Value
             flags == Declared[Label].symflg \ {"REL"}
  <2>1. errcode' \in Letters \cup {None}
    <3>1. own \in Letters \cup {None} /\ errcode \in Letters \cup {None}
      BY DEF TypeOK
    <3>2. errcode' = Mark("L", errcode) \/ errcode' = Mark("U", own) \/ errcode' = own
      BY <1>5 DEF SET
    <3>3. {"L", "U"} \subseteq Letters
      BY DEF Letters
    <3> HIDE DEF own
    <3>4. QED
      BY <3>1, <3>2, <3>3, MarkType
  <2>2. CASE Label = NoName
    <3>1. UNCHANGED <<symtbl, xreftab, where>>
      BY <1>5, <2>2 DEF SET
    <3>2. QED
      BY <1>1, <1>5, <2>1, <3>1 DEF SET, TypeOK, source, module
  <2>3. CASE Label # NoName
    <3>1. Label \in Names /\ Known(Label)
      BY <1>5, <2>3, CurrentType, AsmAssumption DEF Label, Line, SET, Doing
    <3>2. Value \in Nat /\ Refer(xref_add(Only, pc, nbytes)) /\ xref_add(Only, pc, nbytes) \in Seq(Ref)
      BY <1>5, <2>3, ValueType, AsmAssumption DEF SET, Doing
    <3>3. xreftab' \in Seq(Ref) /\ Len(xreftab') <= MAXXREF
      BY <3>2, ReferType
    <3>4. [symvalu |-> value, symflg |-> flags] \in Entry
      BY <3>1, <3>2, DeclaredType DEF Entry, Flags, Known, Declared, TypeOK
    <3>5. symtbl' = [Declared EXCEPT ![Label] = [symvalu |-> value, symflg |-> flags]]
      BY <1>5, <2>3, <3>1 DEF SET, Declared
    <3>6. symtbl' \in [Names -> Entry \cup {None}]
      BY <3>4, <3>5, DeclaredType
    <3>7. where' \in [Names -> Nat \cup {None}]
      BY <1>5, <2>3 DEF SET, TypeOK
    <3>8. QED
      BY <1>1, <1>5, <2>1, <3>3, <3>6, <3>7 DEF SET, TypeOK, source, module, Ref
  <2>4. QED
    BY <2>2, <2>3
<1>6. CASE BSS
  <2>1. Value \in Nat /\ Refer(xref_add(Only, pc, nbytes)) /\ xref_add(Only, pc, nbytes) \in Seq(Ref)
    BY <1>6, ValueType, AsmAssumption DEF BSS, Doing
  <2>2. xreftab' \in Seq(Ref) /\ Len(xreftab') <= MAXXREF
    BY <2>1, ReferType
  <2>3. nbytes' \in Nat /\ lc' \in Nat
    BY <1>6, <2>1 DEF BSS, TypeOK
  <2>4. QED
    BY <1>1, <1>2, <1>6, <2>2, <2>3, DeclaredType DEF BSS, TypeOK, source, module, Ref
<1>7. CASE EVEN
  <2>1. pc % 2 \in Nat
    BY DEF TypeOK
  <2>2. nbytes' \in Nat /\ lc' \in Nat
    BY <1>7, <2>1 DEF EVEN, TypeOK
  <2>3. QED
    BY <1>1, <1>7, <2>2 DEF EVEN, TypeOK, source, module, table
<1>8. CASE IF_
  <2>1. Value \in 0..Word - 1 /\ Refer(xref_add(Only, pc, nbytes)) /\ xref_add(Only, pc, nbytes) \in Seq(Ref)
    BY <1>8, ValueType, AsmAssumption DEF IF_, Doing
  <2>2. xreftab' \in Seq(Ref) /\ Len(xreftab') <= MAXXREF
    BY <2>1, ReferType
  <2>3. ifstack' \in Seq(0..Word - 1) /\ ifstack' # <<>>
    <3>1. PICK t \in 0..Word - 1 : ifstack' = Append(ifstack, t)
      BY <1>8, <2>1, AsmAssumption DEF IF_
    <3>2. QED
      BY <3>1 DEF TypeOK
  <2>4. QED
    BY <1>1, <1>2, <1>8, <2>2, <2>3, DeclaredType DEF IF_, TypeOK, source, module, Ref
<1>9. QED
  BY <1>3, <1>4, <1>5, <1>6, <1>7, <1>8

\* The operations that change a flag, a name or the conditionals.
LEMMA NameType ==
    ASSUME TypeOK, TodoRight, ENT \/ EXT \/ DXOP \/ NAM \/ ELSE_ENDI
    PROVE  TypeOK' /\ TodoRight'
<1>1. TodoRight' /\ step' \in {"end"} /\ todo' \in Seq(Operand)
  BY DoneRight DEF Doing, ENT, EXT, DXOP, NAM, ELSE_ENDI
<1>2. Current \in Lines
  BY CurrentType DEF Doing, ENT, EXT, DXOP, NAM, ELSE_ENDI
<1>3. NoLabel \in Letters \cup {None} /\ errcode \in Letters \cup {None} /\ {"U", "P", "M", "I"} \subseteq Letters
  BY MarkType DEF NoLabel, TypeOK, Letters
<1>4. Current.op \in {"ENT", "EXT", "DXOP", "NAM"} => Current.name \in Names
  BY <1>2, AsmAssumption
<1>5. CASE ENT
  <2>1. errcode' \in Letters \cup {None}
    BY <1>3, <1>5, MarkType DEF ENT
  <2>2. symtbl' \in [Names -> Entry \cup {None}]
    BY <1>4, <1>5 DEF ENT, Doing, TypeOK, Entry, Flags, Known
  <2>3. QED
    BY <1>1, <1>5, <2>1, <2>2 DEF ENT, TypeOK, source, module, out
<1>6. CASE EXT
  <2>1. errcode' \in Letters \cup {None}
    BY <1>3, <1>6, MarkType DEF EXT
  <2>2. symtbl' \in [Names -> Entry \cup {None}]
    BY <1>4, <1>6 DEF EXT, Doing, TypeOK, Entry, Flags, Known
  <2>3. QED
    BY <1>1, <1>6, <2>1, <2>2 DEF EXT, TypeOK, source, module, out
<1>7. CASE DXOP
  <2>1. symtbl' \in [Names -> Entry \cup {None}]
    BY <1>4, <1>7 DEF DXOP, Doing, TypeOK, Entry, Flags, Known
  <2>2. QED
    BY <1>1, <1>7, <2>1 DEF DXOP, TypeOK, source, module, out
<1>8. CASE NAM
  <2>1. errcode' \in Letters \cup {None}
    BY <1>3, <1>8, MarkType DEF NAM
  <2>2. progname' \in Names \cup {NoName}
    BY <1>4, <1>8 DEF NAM, Doing, TypeOK
  <2>3. QED
    BY <1>1, <1>8, <2>1, <2>2 DEF NAM, TypeOK, source, module, out
<1>9. CASE ELSE_ENDI
  <2>1. errcode' \in Letters \cup {None}
    BY <1>3, <1>9, MarkType DEF ELSE_ENDI
  <2>2. ifstack' \in Seq(0..Word - 1) /\ ifstack' # <<>>
    <3>1. ifstack \in Seq(0..Word - 1) /\ Len(ifstack) \in DOMAIN ifstack
      BY DEF TypeOK
    <3>2. CASE Len(ifstack) = 1
      BY <1>9, <3>1, <3>2 DEF ELSE_ENDI
    <3>3. CASE Len(ifstack) # 1 /\ Current.op = "ENDI"
      <4>1. ifstack' = SubSeq(ifstack, 1, Len(ifstack) - 1)
        BY <1>9, <3>3 DEF ELSE_ENDI
      <4>2. ifstack \in Seq(0..Word - 1) /\ ifstack # <<>> /\ Len(ifstack) # 1
        BY <3>3 DEF TypeOK
      <4>3. QED
        BY <4>1, <4>2, PopType
    <3>4. CASE Len(ifstack) # 1 /\ Current.op # "ENDI"
      <4>1. Word - 1 - ifstack[Len(ifstack)] \in 0..Word - 1
        BY <3>1, AsmAssumption
      <4>2. QED
        BY <1>9, <3>1, <3>4, <4>1 DEF ELSE_ENDI
    <3>5. QED
      BY <3>2, <3>3, <3>4
  <2>3. QED
    BY <1>1, <1>9, <2>1, <2>2 DEF ELSE_ENDI, TypeOK, source, module, out, table
<1>10. QED
  BY <1>5, <1>6, <1>7, <1>8, <1>9

\* One word or byte in the object.
LEMMA WrittenType ==
    ASSUME TypeOK, TodoRight, step = "op", NEW o \in Operand, NEW loc \in Nat,
           NEW item \in {"ABS", "ABS2", "PREL", "disp"}, NEW field \in Int
    PROVE  Written(o, loc, item, field) \in
               Item
<1>1. Current.op \in Ops
  BY CurrentType, AsmAssumption DEF Line
<1>2. QED
  BY <1>1 DEF Written, Item

LEMMA DataItemType ==
    ASSUME TypeOK, TodoRight, DataItem
    PROVE  TypeOK' /\ TodoRight'
<1> DEFINE o == Head(todo)
           size == IF Current.op = "WORD" THEN 2 ELSE 1
           item == IF Current.op # "WORD" THEN "ABS" ELSE IF relflg(o) THEN "PREL" ELSE "ABS2"
<1>1. step = "op" /\ Current.op \in Data /\ size \in Nat
  BY DEF DataItem, Doing, Data
<1>2. todo \in Seq(Operand) /\ todo # <<>>
  BY <1>1 DEF TypeOK, TodoRight
<1>3. o \in Operand /\ Tail(todo) \in Seq(Operand)
  BY <1>2
<1>4. pc \in Nat /\ nbytes \in Nat /\ lc \in Nat
  BY DEF TypeOK
<1>5. eval(o, pc) \in Int
  <2>1. eval(o, pc) \in 0..Word - 1
    BY <1>3, <1>4, EvalType
  <2>2. QED
    BY <2>1, AsmAssumption
<1>6. errcode' \in Letters \cup {None}
  <2>1. errcode' \in {Mark("U", errcode), Mark("V", errcode), errcode}
    BY DEF DataItem
  <2>2. QED
    BY <2>1, MarkType DEF TypeOK, Letters
<1>7. \/ UNCHANGED <<nbytes, out>>
      \/ nbytes' = nbytes + size /\ Put(o, 1, "ABS", 0) /\ UNCHANGED xreftab
      \/ nbytes' = nbytes + size /\ Put(o, size, item, eval(o, pc)) /\ Refer(xref_add(o, pc, nbytes))
  BY DEF DataItem
<1>8. item \in {"ABS", "ABS2", "PREL"}
  OBVIOUS
<1> HIDE DEF o, size, item
<1>9. nbytes' \in Nat
  BY <1>1, <1>4, <1>7
<1>10. xreftab' \in Seq(Ref) /\ Len(xreftab') <= MAXXREF
  <2>1. xreftab \in Seq(Ref) /\ Len(xreftab) <= MAXXREF
    BY DEF TypeOK, Ref
  <2>2. xref_add(o, pc, nbytes) \in Seq(Ref)
    BY <1>3, <1>4, RefType
  <2>3. QED
    BY <1>7, <2>1, <2>2, ReferType DEF out
<1>11. lc' \in Nat /\ object' \in Seq(Item)
  <2>1. CASE UNCHANGED out
    BY <2>1 DEF TypeOK, out, Item
  <2>2. ASSUME NEW n \in Nat, NEW i \in {"ABS", "ABS2", "PREL", "disp"}, NEW v \in Int, Put(o, n, i, v)
        PROVE  lc' \in Nat /\ object' \in Seq(Item)
    <3>1. Written(o, lc, i, v) \in Item
      BY <1>1, <1>3, <1>4, <2>2, WrittenType
    <3>2. QED
      <4>1. object \in Seq(Item)
        BY DEF TypeOK, Item
      <4>2. QED
        BY <1>4, <2>2, <3>1, <4>1 DEF Put
  <2>3. CASE Put(o, 1, "ABS", 0)
    BY <2>2, <2>3
  <2>4. CASE Put(o, size, item, eval(o, pc))
    BY <1>1, <1>5, <1>8, <2>2, <2>4
  <2>5. QED
    BY <1>7, <2>1, <2>3, <2>4
<1>12. step' \in {"end", "op"} /\ todo' = Tail(todo) /\ (step' = "op" => Tail(todo) # <<>>)
  BY DEF DataItem
<1>13. TypeOK'
  BY <1>3, <1>6, <1>9, <1>10, <1>11, <1>12, DeclaredType DEF DataItem, TypeOK, source, module, Ref, Item
<1>14. TodoRight'
  BY <1>1, <1>12 DEF TodoRight, DataItem, source, Current, Data
<1>15. QED
  BY <1>13, <1>14

\* What Format1, Format7, Format6 and Format2 have in common.
LEMMA InstrType ==
    ASSUME TypeOK, TodoRight, step = "op", Done, Current.op \notin Data,
           UNCHANGED <<source, pass, ifstack, progname, where, module>>,
           NEW size \in Nat, NEW refs \in Seq(Ref), Refer(refs),
           NEW writes \in Seq(Item),
           pc' = Even, nbytes' = size, symtbl' = Declared,
           errcode' \in Letters \cup {None},
           lc' = IF pass = 2 THEN lc + size ELSE lc,
           object' = IF pass = 2 THEN object \o writes ELSE object
    PROVE  TypeOK' /\ TodoRight'
<1>1. TodoRight' /\ step' \in {"end"} /\ todo' \in Seq(Operand)
  BY DoneRight
<1>2. xreftab' \in Seq(Ref) /\ Len(xreftab') <= MAXXREF
  BY ReferType
<1>3. pc' \in Nat /\ lc' \in Nat
  <2>1. pc % 2 \in Nat /\ pc \in Nat /\ lc \in Nat
    BY DEF TypeOK
  <2>2. QED
    BY <2>1 DEF Even
<1>4. object' \in Seq(Item)
  <2>1. object \in Seq(Item)
    BY DEF TypeOK, Item
  <2>2. QED
    BY <2>1
<1>5. QED
  BY <1>1, <1>2, <1>3, <1>4, DeclaredType DEF TypeOK, source, module, Ref, Item

LEMMA EvenType == ASSUME TypeOK PROVE Even \in Nat
<1>1. pc \in Nat /\ pc % 2 \in Nat
  BY DEF TypeOK
<1>2. QED
  BY <1>1 DEF Even

LEMMA InstrErrorType == ASSUME TypeOK PROVE InstrError \in Letters \cup {None}
<1>1. {"A", "U"} \subseteq Letters /\ errcode \in Letters \cup {None}
  BY DEF Letters, TypeOK
<1>2. OddMark \in Letters \cup {None}
  BY <1>1, MarkType DEF OddMark
<1>3. QED
  BY <1>1, <1>2, MarkType DEF InstrError

LEMMA FieldsType ==
    ASSUME TypeOK, TodoRight, step = "op", NEW n \in {2, 4}
    PROVE  /\ Fields(n) \in Seq(Item) /\ FieldRefs(2) \in Seq(Ref) /\ Len(todo) \in Nat
<1>1. todo \in Seq(Operand) /\ lc \in Nat /\ Even \in Nat
  BY EvenType DEF TypeOK
<1>2. DOMAIN todo = 1..Len(todo) /\ Len(todo) \in Nat
  BY <1>1
<1>3. ASSUME NEW i \in DOMAIN todo
      PROVE  Written(todo[i], lc + n + 2 * (i - 1),
                IF itemflg(todo[i]) THEN "PREL" ELSE "ABS2", eval(todo[i], Even)) \in Item
  <2>1. todo[i] \in Operand /\ lc + n + 2 * (i - 1) \in Nat
    BY <1>1, <1>2
  <2>2. eval(todo[i], Even) \in 0..Word - 1
    BY <1>1, <2>1, EvalType
  <2>3. eval(todo[i], Even) \in Int
    BY <2>2, AsmAssumption
  <2>4. QED
    BY <2>1, <2>3, WrittenType
<1>4. Fields(n) \in Seq(Item)
  BY <1>2, <1>3 DEF Fields
<1>5. FieldRefs(2) \in Seq(Ref)
  <2>1. CASE todo = <<>>
    BY <2>1 DEF FieldRefs
  <2>2. CASE todo # <<>> /\ Len(todo) = 1
    <3>1. todo[1] \in Operand
      BY <1>1, <2>2
    <3>2. xref_add(todo[1], Even, 4) \in Seq(Ref)
      BY <1>1, <3>1, RefType
    <3>3. QED
      BY <2>2, <3>2 DEF FieldRefs
  <2>3. CASE todo # <<>> /\ Len(todo) # 1
    <3>1. todo[1] \in Operand /\ todo[2] \in Operand
      <4>1. 1 \in 1..Len(todo) /\ 2 \in 1..Len(todo)
        <5>1. Len(todo) \in Nat /\ Len(todo) # 0
          BY <1>1, <2>3, EmptySeq
        <5>2. QED
          BY <2>3, <5>1
      <4>2. QED
        BY <1>1, <4>1
    <3>2. xref_add(todo[1], Even, 4) \in Seq(Ref) /\ xref_add(todo[2], Even, 6) \in Seq(Ref)
      BY <1>1, <3>1, RefType
    <3>3. QED
      BY <2>3, <3>2 DEF FieldRefs
  <2>4. QED
    BY <2>1, <2>2, <2>3
<1>6. QED
  BY <1>2, <1>4, <1>5

LEMMA NormopType ==
    ASSUME TypeOK, TodoRight, Format1 \/ Format7 \/ Format6 \/ Format2
    PROVE  TypeOK' /\ TodoRight'
<1>1. step = "op" /\ Done /\ Current.op \notin Data
      /\ UNCHANGED <<source, pass, ifstack, progname, where, module>>
  BY DEF Format1, Format7, Format6, Format2, Doing, Data
<1>2. InstrError \in Letters \cup {None} /\ Mark("B", InstrError) \in Letters \cup {None}
  <2>1. "B" \in Letters
    BY DEF Letters
  <2>2. QED
    BY <2>1, InstrErrorType, MarkType
<1>3. CASE Format1
  <2>1. Fields(2) \in Seq(Item) /\ FieldRefs(2) \in Seq(Ref) /\ 2 + 2 * Len(todo) \in Nat
    BY <1>1, FieldsType
  <2>2. Instr(2 + 2 * Len(todo), Fields(2)) /\ Refer(FieldRefs(2))
    BY <1>3 DEF Format1
  <2>3. QED
    BY <1>1, <1>2, <2>1, <2>2, InstrType DEF Instr
<1>4. CASE Format7
  <2>1. Fields(4) \in Seq(Item) /\ FieldRefs(2) \in Seq(Ref) /\ 4 + 2 * Len(todo) \in Nat
    BY <1>1, FieldsType
  <2>2. Instr(4 + 2 * Len(todo), Fields(4)) /\ Refer(FieldRefs(2))
    BY <1>4 DEF Format7
  <2>3. QED
    BY <1>1, <1>2, <2>1, <2>2, InstrType DEF Instr
<1>5. CASE Format6 \/ Format2
  <2>1. Only \in Operand
    BY <1>5, OnlyType DEF Format6, Format2, Doing
  <2>2. Even \in Nat /\ lc \in Nat /\ lc + 2 \in Nat
    BY EvenType DEF TypeOK
  <2>3. eval(Only, Even) \in Int
    <3>1. eval(Only, Even) \in 0..Word - 1
      BY <2>1, <2>2, EvalType
    <3>2. QED
      BY <3>1, AsmAssumption
  <2>4. xref_add(Only, Even, 4) \in Seq(Ref) /\ xref_add(Only, Even, 2) \in Seq(Ref)
    BY <2>1, <2>2, RefType
  <2>5. CASE Format6
    <3>1. PICK item \in {"PREL", "ABS2"} :
             Instr(4, <<Written(Only, lc + 2, item, eval(Only, Even))>>)
      BY <2>5 DEF Format6
    <3>2. Written(Only, lc + 2, item, eval(Only, Even)) \in Item
      BY <1>1, <2>1, <2>2, <2>3, WrittenType
    <3>3. <<Written(Only, lc + 2, item, eval(Only, Even))>> \in Seq(Item)
      BY <3>2
    <3>4. Refer(xref_add(Only, Even, 4))
      BY <2>5 DEF Format6
    <3>5. QED
      BY <1>1, <1>2, <2>4, <3>1, <3>3, <3>4, InstrType DEF Instr
  <2>6. CASE Format2
    <3> DEFINE d == eval(Only, Even) - (Even + 2)
               disp == IF d >= 0 THEN d \div 2 ELSE -((-d) \div 2)
    <3>1. disp \in Int
      BY <2>2, <2>3
    <3>2. Written(Only, lc, "disp", disp) \in Item
      BY <1>1, <2>1, <2>2, <3>1, WrittenType
    <3>3. <<Written(Only, lc, "disp", disp)>> \in Seq(Item)
      BY <3>2
    <3>4. /\ pc' = Even /\ nbytes' = 2 /\ symtbl' = Declared
          /\ errcode' \in {Mark("B", InstrError), InstrError}
          /\ lc' = IF pass = 2 THEN lc + 2 ELSE lc
          /\ object' = IF pass = 2 THEN Append(object, Written(Only, lc, "disp", disp)) ELSE object
          /\ Refer(xref_add(Only, Even, 2))
      BY <2>6 DEF Format2
    <3> HIDE DEF disp, d
    <3>5. object' = IF pass = 2 THEN object \o <<Written(Only, lc, "disp", disp)>> ELSE object
      <4>1. object \in Seq(Item)
        BY DEF TypeOK, Item
      <4>2. Append(object, Written(Only, lc, "disp", disp)) = object \o <<Written(Only, lc, "disp", disp)>>
        BY <3>2, <4>1, AppendIsConcat
      <4>3. QED
        BY <3>4, <4>2
    <3>6. QED
      BY <1>1, <1>2, <2>4, <3>3, <3>4, <3>5, InstrType
  <2>7. QED
    BY <1>5, <2>5, <2>6
<1>6. QED
  BY <1>3, <1>4, <1>5

\* wipeout, END and the loop of main.
LEMMA MainType ==
    ASSUME TypeOK, TodoRight, wipeout \/ END \/ NextLine \/ Pass2 \/ Finish
    PROVE  TypeOK' /\ TodoRight'
<1>1. CASE wipeout
  BY <1>1 DEF wipeout, TypeOK, TodoRight, source, table, out, module
<1>2. CASE END
  <2>1. TodoRight' /\ step' \in {"end"} /\ todo' \in Seq(Operand)
    BY <1>2, DoneRight DEF END, Doing
  <2>2. errcode' \in Letters \cup {None}
    <3>1. "I" \in Letters
      BY DEF Letters
    <3>2. QED
      BY <1>2, <3>1, MarkType DEF END, TypeOK
  <2>3. epoints' \in [Names -> Nat \cup {None}]
    BY <1>2 DEF END, TypeOK, EntryNames, Has, Known, Entry
  <2>4. QED
    BY <1>2, <2>1, <2>2, <2>3 DEF END, TypeOK, source, table, out
<1>3. CASE NextLine
  <2>1. at \in Nat \ {0} /\ Len(program) \in Nat /\ step = "end" /\ pass \in {1, 2}
    BY <1>3 DEF TypeOK, NextLine
  <2>2. TodoRight'
    BY <1>3, <2>1 DEF TodoRight, NextLine
  <2>3. at' \in Nat \ {0} /\ pc' \in Nat /\ progsize' \in Nat
    BY <1>3 DEF TypeOK, NextLine
  <2>4. QED
    BY <1>3, <2>2, <2>3 DEF TypeOK, NextLine, table, out
<1>4. CASE Pass2
  <2>1. at' = 1 /\ program' = program /\ Len(program) \in Nat
    BY <1>4 DEF TypeOK, Pass2
  <2>2. TodoRight'
    BY <1>4, <2>1 DEF TodoRight, Pass2
  <2>3. <<Word - 1>> \in Seq(0..Word - 1)
    BY AsmAssumption
  <2>4. EntryNames \subseteq Names
    BY DEF EntryNames
  <2>5. xreftab' \in Seq(Ref) /\ Len(xreftab') <= MAXXREF
    BY <1>4, AsmAssumption DEF Pass2
  <2>6. ifstack' \in Seq(0..Word - 1) /\ ifstack' # <<>>
    BY <1>4, <2>3 DEF Pass2
  <2>7. TypeOK'
    <3>1. /\ pass' = 2 /\ pc' = 0 /\ at' = 1 /\ step' = "line" /\ nbytes' = 0 /\ todo' = <<>>
          /\ errors' = FALSE /\ enames' = EntryNames /\ lc' = 0
          /\ UNCHANGED <<program, errcode, symtbl, progname, where, object, progsize, epoints>>
      BY <1>4 DEF Pass2, table
    <3>2. QED
      <4>1. at' \in Nat \ {0} /\ step' \in {"line", "op", "end", "done", "dead"}
        BY <3>1
      <4>2. pass' \in 0..3 /\ pc' \in Nat /\ nbytes' \in Nat /\ lc' \in Nat /\ progsize' \in Nat
        BY <3>1 DEF TypeOK
      <4>3. errcode' \in Letters \cup {None} /\ errors' \in BOOLEAN
        BY <3>1 DEF TypeOK
      <4>4. todo' \in Seq(Operand) /\ program' \in Seq(Lines) /\ object' \in Seq(Item)
        BY <3>1 DEF TypeOK, Item
      <4>5. /\ symtbl' \in [Names -> Entry \cup {None}] /\ progname' \in Names \cup {NoName}
            /\ enames' \subseteq Names
            /\ epoints' \in [Names -> Nat \cup {None}] /\ where' \in [Names -> Nat \cup {None}]
        BY <2>4, <3>1 DEF TypeOK
      <4>6. QED
        BY <2>5, <2>6, <4>1, <4>2, <4>3, <4>4, <4>5 DEF TypeOK, Ref, Item
  <2>8. QED
    BY <2>2, <2>7
<1>5. CASE Finish
  BY <1>5 DEF Finish, TypeOK, TodoRight, source, table, out
<1>6. QED
  BY <1>1, <1>2, <1>3, <1>4, <1>5

\* The variables have their types throughout, whatever the source: the module
\* never holds more references than MAXXREF, and the conditionals never run out.
THEOREM TypeCorrect == Spec => [](TypeOK /\ TodoRight)
<1>1. Init => TypeOK /\ TodoRight
  <2> SUFFICES ASSUME Init PROVE TypeOK /\ TodoRight
    OBVIOUS
  <2>1. <<Word - 1>> \in Seq(0..Word - 1)
    BY AsmAssumption
  <2>2. xreftab \in Seq(Ref) /\ Len(xreftab) <= MAXXREF
    BY AsmAssumption DEF Init
  <2>3. program \in Seq(Lines) /\ todo \in Seq(Operand) /\ object \in Seq(Item) /\ Len(program) = 0
    BY DEF Init
  <2>4. QED
    <3>1. ifstack \in Seq(0..Word - 1) /\ ifstack # <<>>
      BY <2>1 DEF Init
    <3>2. TypeOK
      <4>1. at \in Nat \ {0} /\ step \in {"line", "op", "end", "done", "dead"}
        BY DEF Init
      <4>2. pass \in 0..3 /\ pc \in Nat /\ nbytes \in Nat
        BY DEF Init
      <4>3. errcode \in Letters \cup {None} /\ errors \in BOOLEAN
        BY DEF Init
      <4>4. symtbl \in [Names -> Entry \cup {None}] /\ progname \in Names \cup {NoName}
        BY DEF Init
      <4>5. progsize \in Nat /\ lc \in Nat
        BY DEF Init
      <4>6. enames \subseteq Names /\ epoints \in [Names -> Nat \cup {None}] /\ where \in [Names -> Nat \cup {None}]
        BY DEF Init
      <4>7. QED
        BY <2>2, <2>3, <3>1, <4>1, <4>2, <4>3, <4>4, <4>5, <4>6 DEF TypeOK, Ref, Item
    <3>3. QED
      BY <2>3, <3>2 DEF Init, TodoRight
<1>2. TypeOK /\ TodoRight /\ [Next]_vars => TypeOK' /\ TodoRight'
  <2> SUFFICES ASSUME TypeOK, TodoRight, [Next]_vars PROVE TypeOK' /\ TodoRight'
    OBVIOUS
  <2>1. CASE Next
    BY <2>1, AsmlineType, PsopType, NameType, DataItemType, NormopType, MainType DEF Next
  <2>2. CASE UNCHANGED vars
    BY <2>2 DEF vars, source, table, out, module, TypeOK, TodoRight, Current
  <2>3. QED
    BY <2>1, <2>2
<1>3. QED
  BY <1>1, <1>2, PTL DEF Spec

-----------------------------------------------------------------------------
\* An operand that is left is an operand of the line.
LEMMA FullWordsStep ==
    ASSUME NoEmptyWords, TypeOK, TodoRight, FullWords, [Next]_vars
    PROVE  FullWords'
<1>1. CASE asmline
  <2>1. PICK l \in Lines :
          /\ IF at <= Len(program) THEN l = program[at] /\ UNCHANGED program
             ELSE program' = Append(program, l)
          /\ todo' = [i \in DOMAIN l.args |->
                         [l.args[i] EXCEPT !.mark =
                             IF \E j \in 1..i : l.args[j].mark = "##" THEN "##" ELSE "plain"]]
    BY <1>1 DEF asmline
  <2>2. program'[at] = l
    <3>1. program \in Seq(Lines) /\ at \in Nat \ {0} /\ at <= Len(program) + 1
      BY DEF TypeOK, TodoRight
    <3>2. QED
      BY <2>1, <3>1
  <2>3. Current' = l
    BY <1>1, <2>2 DEF asmline, Current
  <2>4. ASSUME NEW i \in DOMAIN todo' PROVE todo'[i].base = l.args[i].base
    <3>1. l.args \in Seq(Operand) /\ i \in DOMAIN l.args
      BY <2>1, <2>4, AsmAssumption DEF Line
    <3>2. l.args[i] \in Operand
      BY <3>1
    <3>3. QED
      BY <2>1, <3>1, <3>2 DEF Operand
  <2>5. DOMAIN todo' = DOMAIN l.args
    BY <2>1
  <2>6. QED
    BY <2>3, <2>4, <2>5 DEF FullWords, NoEmptyWords
<1>2. CASE DataItem
  <2>1. todo \in Seq(Operand) /\ todo # <<>> /\ step = "op"
    BY <1>2 DEF TypeOK, TodoRight, DataItem, Doing, Data
  <2>2. todo' = Tail(todo) /\ Current' = Current
    BY <1>2 DEF DataItem, source, Current
  <2>3. \A i \in DOMAIN todo' : i + 1 \in DOMAIN todo /\ todo'[i] = todo[i + 1]
    BY <2>1, <2>2
  <2>4. QED
    BY <2>1, <2>2, <2>3 DEF FullWords
<1>3. CASE UNCHANGED vars
  BY <1>3 DEF vars, source, Current, FullWords
<1>4. CASE step' # "op"
  BY <1>4 DEF FullWords
<1>5. QED
  <2>1. Next => asmline \/ DataItem \/ step' # "op"
    BY DEF Next, AORG, EQU, SET, BSS, EVEN, ENT, EXT, DXOP, NAM, IF_, ELSE_ENDI, Format1, Format7,
           Format6, Format2, wipeout, END, NextLine, Pass2, Finish, Done
  <2>2. QED
    BY <1>1, <1>2, <1>3, <1>4, <2>1

\* The instructions: an odd location is marked.
LEMMA FollowsInstr ==
    ASSUME TypeOK, TodoRight, Follows, step = "op", Done, Current.op \notin Data, UNCHANGED <<pass, module>>,
           NEW size \in Nat, pc' = Even, nbytes' = size, pc % 2 = 1 => errcode' # None,
           lc' = IF pass = 2 THEN lc + size ELSE lc
    PROVE  Follows'
<1>1. pc \in Nat /\ nbytes = 0 /\ pass \in {1, 2} /\ errors' = errors /\ step' = "end" /\ pass' = pass
  BY DEF TypeOK, TodoRight, module, Done
<1>2. CASE pc % 2 = 0
  BY <1>1, <1>2 DEF Follows, Even
<1>3. CASE pc % 2 = 1
  BY <1>1, <1>3 DEF Follows
<1>4. pc % 2 \in {0, 1}
  BY <1>1
<1>5. QED
  BY <1>2, <1>3, <1>4

LEMMA OddIsMarked ==
    ASSUME TypeOK, pc % 2 = 1
    PROVE  InstrError # None /\ Mark("B", InstrError) # None
<1>1. None \notin {"A", "U", "B"}
  BY AsmAssumption DEF Letters
<1>2. OddMark # None
  BY <1>1 DEF OddMark, Mark
<1>3. InstrError # None
  BY <1>1, <1>2 DEF InstrError, Mark
<1>4. QED
  BY <1>1, <1>3 DEF Mark

LEMMA FollowsStep ==
    ASSUME TypeOK, TodoRight, FullWords, Follows, [Next]_vars
    PROVE  Follows'
<1> lc \in Nat /\ pc \in Nat /\ nbytes \in Nat
  BY DEF TypeOK
<1>1. CASE asmline
  BY <1>1 DEF asmline, Follows, TodoRight, module, out
<1>2. CASE AORG
  <2>1. step = "op" /\ Current.op \notin Data /\ Value \in Nat
    BY <1>2, ValueType, AsmAssumption DEF AORG, Doing, Data
  <2>2. nbytes = 0
    BY <2>1 DEF TodoRight
  <2>3. CASE Bad(Only)
    BY <1>2, <2>1, <2>2, <2>3 DEF AORG, Follows, module
  <2>4. CASE ~Bad(Only)
    BY <1>2, <2>1, <2>2, <2>4 DEF AORG, Follows, module, TodoRight
  <2>5. QED
    BY <2>3, <2>4
<1>3. CASE EQU \/ SET
  BY <1>3 DEF EQU, SET, Doing, Follows, module
<1>4. CASE DataItem
  <2> DEFINE o == Head(todo)
             size == IF Current.op = "WORD" THEN 2 ELSE 1
             item == IF Current.op # "WORD" THEN "ABS" ELSE IF relflg(o) THEN "PREL" ELSE "ABS2"
  <2>1. step = "op" /\ pass' = pass /\ errors' = errors /\ pc' = pc /\ size \in Nat
    BY <1>4 DEF DataItem, Doing, module
  <2>2. \/ UNCHANGED <<nbytes, out>>
        \/ o.base = Empty /\ nbytes' = nbytes + size /\ Put(o, 1, "ABS", 0)
        \/ nbytes' = nbytes + size /\ Put(o, size, item, eval(o, pc))
    BY <1>4 DEF DataItem
  <2>3. o.base = Empty => size = 1
    <3>1. todo \in Seq(Operand) /\ todo # <<>>
      BY <1>4 DEF TypeOK, TodoRight, DataItem, Doing, Data
    <3>2. 1 \in DOMAIN todo /\ o = todo[1]
      BY <3>1
    <3>3. QED
      BY <2>1, <3>2 DEF FullWords
  <2> HIDE DEF o, size, item
  <2>4. \/ nbytes' = nbytes /\ lc' = lc
        \/ nbytes' = nbytes + size /\ lc' = IF pass = 2 THEN lc + size ELSE lc
    BY <2>2, <2>3 DEF Put, out
  <2>5. pass \in {1, 2}
    BY <2>1 DEF TodoRight
  <2>6. QED
    BY <2>1, <2>4, <2>5 DEF Follows
<1>5. CASE BSS \/ EVEN
  <2>1. step = "op" /\ Current.op \notin Data
    BY <1>5 DEF BSS, EVEN, Doing, Data
  <2>2. nbytes = 0 /\ pass \in {1, 2}
    BY <2>1 DEF TodoRight
  <2>3. CASE BSS
    <3>1. Value \in Nat
      BY <2>3, ValueType, AsmAssumption DEF BSS, Doing
    <3>2. QED
      BY <2>1, <2>2, <2>3, <3>1 DEF BSS, Follows, module
  <2>4. CASE EVEN
    <3>1. pc % 2 \in Nat
      OBVIOUS
    <3>2. QED
      BY <2>1, <2>2, <2>4, <3>1 DEF EVEN, Follows, module
  <2>5. QED
    BY <1>5, <2>3, <2>4
<1>6. CASE ENT \/ EXT \/ DXOP \/ NAM \/ IF_ \/ ELSE_ENDI
  BY <1>6 DEF ENT, EXT, DXOP, NAM, IF_, ELSE_ENDI, Doing, Follows, module, out
<1>7. CASE Format1 \/ Format7 \/ Format6 \/ Format2
  <2>1. step = "op" /\ Done /\ Current.op \notin Data /\ UNCHANGED <<pass, module>>
    BY <1>7 DEF Format1, Format7, Format6, Format2, Doing, Data
  <2>2. PICK size \in Nat :
          /\ pc' = Even /\ nbytes' = size /\ lc' = IF pass = 2 THEN lc + size ELSE lc
          /\ errcode' \in {Mark("B", InstrError), InstrError}
    <3>1. Len(todo) \in Nat
      BY DEF TypeOK
    <3>2. CASE Format1
      BY <3>1, <3>2 DEF Format1, Instr
    <3>3. CASE Format7
      BY <3>1, <3>3 DEF Format7, Instr
    <3>4. CASE Format6
      BY <3>4 DEF Format6, Instr
    <3>5. CASE Format2
      BY <3>5 DEF Format2
    <3>6. QED
      BY <1>7, <3>2, <3>3, <3>4, <3>5
  <2>3. QED
    BY <2>1, <2>2, FollowsInstr, OddIsMarked
<1>8. CASE wipeout
  BY <1>8 DEF wipeout, Follows, module, out
<1>9. CASE END
  <2>1. /\ step = "op" /\ pass' = (IF pass = 1 THEN 0 ELSE 3)
        /\ lc' = lc /\ pc' = pc /\ nbytes' = nbytes /\ errors' = errors
    BY <1>9 DEF END, Doing, out
  <2>2. pass \in {1, 2}
    BY <2>1 DEF TodoRight
  <2>3. QED
    BY <2>1, <2>2 DEF Follows
<1>10. CASE NextLine
  <2>1. /\ step = "end" /\ pass \in {1, 2} /\ pass' = pass
        /\ lc' = lc /\ pc' = pc + nbytes /\ nbytes' = 0
    BY <1>10 DEF NextLine, out
  <2>2. ~errors' /\ pass = 2 => ~errors /\ errcode = None
    BY <1>10 DEF NextLine
  <2>3. QED
    BY <2>1, <2>2 DEF Follows
<1>11. CASE Pass2
  BY <1>11 DEF Pass2, Follows
<1>12. CASE Finish
  BY <1>12 DEF Finish, Follows, out
<1>13. CASE UNCHANGED vars
  BY <1>13 DEF vars, Follows, module, out
<1>14. QED
  BY <1>1, <1>2, <1>3, <1>4, <1>5, <1>6, <1>7, <1>8, <1>9, <1>10, <1>11, <1>12, <1>13 DEF Next

\* For every source whose WORDs have no empty operand, whatever its labels do: as
\* long as pass 2 marks no line, a loader that obeys the object is where the
\* assembler is.
THEOREM ObjectFollows ==
    ASSUME NoEmptyWords
    PROVE  Spec => []LoaderFollows
<1> DEFINE Inv == TypeOK /\ TodoRight /\ FullWords /\ Follows
<1>1. Init => FullWords /\ Follows
  BY DEF Init, FullWords, Follows
<1>2. (TypeOK /\ TodoRight) /\ FullWords /\ Follows /\ [Next]_vars => FullWords' /\ Follows'
  BY FullWordsStep, FollowsStep
<1>3. Follows => LoaderFollows
  BY DEF Follows, LoaderFollows, Clean
<1>4. QED
  BY <1>1, <1>2, <1>3, TypeCorrect, PTL DEF Spec

-----------------------------------------------------------------------------
\* The label of the current line may have another value than its place only while
\* its line is marked, and no longer than the line.
Disputed(n) == step \in {"op", "dead"} /\ errcode # None /\ n = Current.label

LabelsRight ==
    /\ pass \in {0, 1} => \A n \in Names : where[n] = None
    /\ pass \in {2, 3} /\ ~errors /\ (step \in {"line", "op", "dead"} \/ errcode = None) =>
          \A n \in Names : Plain(n) /\ ~Disputed(n) => symtbl[n].symvalu = where[n]

LEMMA MarkKept ==
    ASSUME NEW letter \in Letters, NEW e
    PROVE  Mark(letter, e) # None
BY AsmAssumption DEF Mark

\* Steps that leave the table as pass 2 finds it, and take no mark back.
LEMMA KeepsLabels ==
    ASSUME TypeOK, TodoRight, LabelsRight, step = "op", step' \in {"op", "end", "dead"}, UNCHANGED source,
           errors' = errors, where' = where, pass = 2 => symtbl' = symtbl,
           errcode' = None => errcode = None,
           pass' = pass \/ (pass = 1 /\ pass' = 0) \/ (pass = 2 /\ pass' = 3 /\ step' = "end")
    PROVE  LabelsRight'
<1>1. pass \in {1, 2} /\ Current' = Current
  BY DEF TodoRight, source, Current
<1>2. CASE pass = 1
  BY <1>2 DEF LabelsRight
<1>3. CASE pass = 2
  <2>1. symtbl' = symtbl /\ pass' \in {2, 3}
    BY <1>3
  <2>2. SUFFICES ASSUME ~errors, step' \in {"op", "dead"} \/ errcode' = None,
                        NEW n \in Names, Plain(n), ~Disputed(n)'
                 PROVE  symtbl[n].symvalu = where[n]
    BY <1>3, <2>1 DEF LabelsRight, Plain, Has, Known
  <2>3. ~Disputed(n)
    BY <1>1, <2>2 DEF Disputed
  <2>4. QED
    BY <1>3, <2>2, <2>3 DEF LabelsRight
<1>4. QED
  BY <1>1, <1>2, <1>3

\* The label field: an unmarked label that is no entry has the location of its line.
LEMMA LabelsAsmline ==
    ASSUME TypeOK, TodoRight, Follows, LabelsRight, asmline
    PROVE  LabelsRight'
<1>1. /\ pass \in {1, 2} /\ step = "line" /\ nbytes = 0 /\ pc \in Nat
      /\ UNCHANGED <<at, pass, errors>> /\ step' \in {"op", "end"}
  BY DEF TodoRight, asmline, module, TypeOK
<1> DEFINE letter(l) == IF l.op = "EOF" THEN "*" ELSE IF UnknownOp(l) THEN "O" ELSE None
<1>2. PICK l \in Lines :
        /\ IF at <= Len(program) THEN l = program[at] /\ UNCHANGED program
           ELSE program' = Append(program, l)
        /\ errcode' = Mark(LabelError(l), letter(l))
        /\ symtbl' = IF Labels(l) THEN [symtbl EXCEPT ![l.label] = LabelEntry(l)] ELSE symtbl
        /\ where' = IF Labels(l) /\ pass = 2 /\ Known(l.label)
                    THEN [where EXCEPT ![l.label] = lc] ELSE where
  BY DEF asmline
<1>3. Current' = l
  <2>1. program \in Seq(Lines) /\ at \in Nat \ {0} /\ at <= Len(program) + 1
    BY DEF TypeOK, TodoRight
  <2>2. program'[at] = l
    BY <1>2, <2>1
  <2>3. QED
    BY <1>1, <2>2 DEF Current
<1>4. CASE pass = 1
  BY <1>1, <1>2, <1>4 DEF LabelsRight
<1>5. CASE pass = 2
  <2>1. SUFFICES ASSUME ~errors, step' = "op" \/ errcode' = None,
                        NEW n \in Names, Plain(n)', ~Disputed(n)'
                 PROVE  symtbl'[n].symvalu = where'[n]
    BY <1>1, <1>5 DEF LabelsRight
  <2>2. lc = pc
    BY <1>1, <1>5, <2>1 DEF Follows
  <2>3. CASE ~Labels(l) \/ n # l.label
    <3>1. symtbl'[n] = symtbl[n] /\ where'[n] = where[n]
      BY <1>2, <2>3
    <3>2. Plain(n) /\ ~Disputed(n)
      BY <1>1, <2>1, <3>1 DEF Plain, Has, Known, Disputed
    <3>3. QED
      BY <1>1, <1>5, <2>1, <3>1, <3>2 DEF LabelsRight
  <2>4. CASE Labels(l) /\ n = l.label
    <3>1. errcode' = None
      BY <1>3, <2>1, <2>4 DEF Disputed
    <3>2. LabelError(l) = None
      BY <1>2, <3>1 DEF Mark
    <3>3. Known(n) /\ (~Has(n, "ENT") => symtbl[n].symvalu = pc)
      <4>1. None \notin {"P", "D", "M"}
        BY AsmAssumption DEF Letters
      <4>2. QED
        BY <1>5, <2>4, <3>2, <4>1 DEF LabelError
    <3>4. where'[n] = lc
      BY <1>2, <1>5, <2>4, <3>3 DEF TypeOK
    <3>5. symtbl'[n] = LabelEntry(l)
      BY <1>2, <2>4 DEF TypeOK
    <3>6. Has(n, "ENT") => Has(n, "ENT")'
      <4>1. SUFFICES ASSUME Has(n, "ENT") PROVE Has(n, "ENT")'
        OBVIOUS
      <4>2. symtbl[n] \in Entry
        BY <3>3 DEF TypeOK, Known
      <4>3. symtbl'[n] = [symtbl[n] EXCEPT !.symvalu = pc]
        BY <1>5, <2>4, <3>5, <4>1 DEF LabelEntry
      <4>4. symtbl'[n] \in Entry /\ symtbl'[n].symflg = symtbl[n].symflg
        BY <1>1, <4>2, <4>3 DEF Entry
      <4>5. QED
        BY <4>1, <4>4, AsmAssumption DEF Has, Known
    <3>7. ~Has(n, "ENT") => symtbl'[n] = symtbl[n]
      BY <1>5, <2>4, <3>3, <3>5 DEF LabelEntry
    <3>8. QED
      BY <2>1, <2>2, <3>3, <3>4, <3>6, <3>7 DEF Plain
  <2>5. QED
    BY <2>3, <2>4
<1>6. QED
  BY <1>1, <1>4, <1>5

\* EQU and SET give their label another value, and it is no place then.
LEMMA LabelsEqu ==
    ASSUME TypeOK, TodoRight, LabelsRight, EQU \/ SET
    PROVE  LabelsRight'
<1>1. step = "op" /\ step' = "end" /\ UNCHANGED <<source, pass, errors>> /\ pass \in {1, 2}
  BY DEF EQU, SET, Doing, Done, module, TodoRight
<1>2. Current' = Current
  BY <1>1 DEF source, Current
<1>3. CASE Label = NoName
  <2>1. errcode' = Mark("L", errcode) /\ UNCHANGED <<symtbl, where>> /\ "L" \in Letters
    BY <1>3 DEF EQU, SET, Letters
  <2>2. errcode' # None
    BY <2>1, MarkKept
  <2>3. QED
    BY <1>1, <2>1, <2>2 DEF LabelsRight
<1>4. CASE Label # NoName /\ Bad(Only) /\ EQU
  <2>1. PICK e : errcode' = Mark("U", e) /\ UNCHANGED <<symtbl, where>> /\ "U" \in Letters
    BY <1>4 DEF EQU, Letters
  <2>2. errcode' # None
    BY <2>1, MarkKept
  <2>3. QED
    BY <1>1, <2>1, <2>2 DEF LabelsRight
<1>5. CASE Label # NoName /\ ~(Bad(Only) /\ EQU)
  <2>1. PICK v, f : /\ symtbl' = [Declared EXCEPT ![Label] = [symvalu |-> v, symflg |-> f]]
                    /\ Has(Label, "ENT") => "ENT" \in f
                    /\ where' = [where EXCEPT ![Label] = None]
    <3>1. CASE EQU
      BY <1>5, <3>1 DEF EQU, Declared, Has
    <3>2. CASE SET
      BY <1>5, <3>2 DEF SET, Declared, Has
    <3>3. QED
      BY <3>1, <3>2
  <2>2. Label = Current.label
    BY <1>5 DEF Label
  <2>3. CASE pass = 1
    BY <1>1, <2>1, <2>3 DEF LabelsRight, TypeOK
  <2>4. CASE pass = 2
    <3>1. SUFFICES ASSUME ~errors, NEW n \in Names, Plain(n)'
                   PROVE  symtbl'[n].symvalu = where'[n]
      BY <1>1, <2>4 DEF LabelsRight
    <3>2. n # Label
      BY <2>1, <3>1 DEF Plain, TypeOK
    <3>3. symtbl'[n] = symtbl[n] /\ where'[n] = where[n]
      BY <2>1, <2>4, <3>2 DEF Declared
    <3>4. Plain(n) /\ ~Disputed(n)
      BY <2>2, <3>1, <3>2, <3>3 DEF Plain, Has, Known, Disputed
    <3>5. QED
      BY <1>1, <2>4, <3>1, <3>3, <3>4 DEF LabelsRight
  <2>5. QED
    BY <1>1, <2>3, <2>4
<1>6. QED
  BY <1>3, <1>4, <1>5

LEMMA LabelsStep ==
    ASSUME TypeOK, TodoRight, Follows, LabelsRight, [Next]_vars
    PROVE  LabelsRight'
<1>1. CASE asmline
  BY <1>1, LabelsAsmline
<1>2. CASE EQU \/ SET
  BY <1>2, LabelsEqu
<1>3. CASE \/ AORG \/ DataItem \/ BSS \/ EVEN \/ ENT \/ EXT \/ DXOP \/ NAM \/ IF_ \/ ELSE_ENDI
           \/ Format1 \/ Format7 \/ Format6 \/ Format2 \/ wipeout \/ END
  <2>1. step = "op" /\ step' \in {"op", "end", "dead"} /\ UNCHANGED source /\ errors' = errors /\ where' = where
    BY <1>3 DEF AORG, DataItem, BSS, EVEN, ENT, EXT, DXOP, NAM, IF_, ELSE_ENDI, Format1, Format7, Format6,
           Format2, wipeout, END, Doing, Done, module, table
  <2>2. pass = 2 => symtbl' = symtbl
    <3>1. symtbl' = symtbl \/ symtbl' = Declared \/ (pass = 1 /\ DXOP) \/ (pass # 2 /\ (ENT \/ EXT))
      BY <1>3 DEF AORG, DataItem, BSS, EVEN, ENT, EXT, DXOP, NAM, IF_, ELSE_ENDI, Format1, Format7, Format6,
             Format2, wipeout, END, Instr, table
    <3>2. pass = 2 => Declared = symtbl
      BY DEF Declared, TypeOK
    <3>3. QED
      BY <3>1, <3>2
  <2>3. errcode' = None => errcode = None
    <3>1. errcode # None => EvalError # None /\ NoLabel # None /\ InstrError # None /\ OddMark # None
      BY DEF EvalError, NoLabel, InstrError, OddMark, Mark
    <3>2. QED
      BY <1>3, <3>1 DEF AORG, DataItem, BSS, EVEN, ENT, EXT, DXOP, NAM, IF_, ELSE_ENDI, Format1, Format7,
             Format6, Format2, wipeout, END, Instr, Mark
  <2>4. pass' = pass \/ (pass = 1 /\ pass' = 0) \/ (pass = 2 /\ pass' = 3 /\ step' = "end")
    <3>1. CASE END
      <4>1. pass \in {1, 2}
        BY <2>1 DEF TodoRight
      <4>2. QED
        BY <3>1, <4>1 DEF END, Done
    <3>2. CASE ~END
      BY <1>3, <3>2 DEF AORG, DataItem, BSS, EVEN, ENT, EXT, DXOP, NAM, IF_, ELSE_ENDI, Format1, Format7,
             Format6, Format2, wipeout
    <3>3. QED
      BY <3>1, <3>2
  <2>5. QED
    BY <2>1, <2>2, <2>3, <2>4, KeepsLabels
<1>4. CASE NextLine
  <2>1. /\ step = "end" /\ step' = "line" /\ pass \in {1, 2} /\ pass' = pass /\ UNCHANGED <<symtbl, where>>
        /\ ~errors' /\ pass = 2 => ~errors /\ errcode = None
    BY <1>4 DEF NextLine, table
  <2>2. QED
    BY <2>1 DEF LabelsRight, Disputed, Plain, Has, Known
<1>5. CASE Pass2
  BY <1>5 DEF Pass2, LabelsRight, Plain, table
<1>6. CASE Finish
  <2>1. /\ step = "end" /\ step' = "done" /\ pass = 3 /\ pass' = 3 /\ UNCHANGED <<symtbl, where, errcode>>
        /\ ~errors' => ~errors /\ errcode = None
    BY <1>6 DEF Finish, table
  <2>2. QED
    BY <2>1 DEF LabelsRight, Disputed, Plain, Has, Known
<1>7. CASE UNCHANGED vars
  BY <1>7 DEF vars, source, table, module, LabelsRight, Disputed, Plain, Has, Known, Current
<1>8. QED
  BY <1>1, <1>2, <1>3, <1>4, <1>5, <1>6, <1>7 DEF Next

\* Under the same assumption, a name that labels a line and is no entry name has
\* the value of the place where its line is loaded, unless a line is marked.
THEOREM LabelsLoaded ==
    ASSUME NoEmptyWords
    PROVE  Spec => []LabelsTrue
<1>1. Init => FullWords /\ Follows /\ LabelsRight
  BY DEF Init, FullWords, Follows, LabelsRight
<1>2. (TypeOK /\ TodoRight) /\ FullWords /\ Follows /\ LabelsRight /\ [Next]_vars
        => FullWords' /\ Follows' /\ LabelsRight'
  BY FullWordsStep, FollowsStep, LabelsStep
<1>3. LabelsRight => LabelsTrue
  BY DEF LabelsRight, LabelsTrue, Clean, Disputed
<1>4. QED
  BY <1>1, <1>2, <1>3, TypeCorrect, PTL DEF Spec

-----------------------------------------------------------------------------
\* Pass 2 has marked no line before this one, and this one only with a mark that
\* may still be taken back.
Live == pass \in {2, 3} /\ ~errors /\ (step \in {"line", "op", "dead"} \/ errcode = None)

\* Only the lines of pass 2 that are marked after all end it.
LEMMA LiveKept ==
    ASSUME TypeOK, TodoRight, [Next]_vars, pass \in {2, 3}
    PROVE  pass' \in {2, 3} /\ (Live' => Live)
<1>1. CASE asmline
  BY <1>1 DEF asmline, Live, module
<1>2. CASE \/ AORG \/ EQU \/ SET \/ DataItem \/ BSS \/ EVEN \/ ENT \/ EXT \/ DXOP \/ NAM \/ IF_ \/ ELSE_ENDI
           \/ Format1 \/ Format7 \/ Format6 \/ Format2 \/ wipeout \/ END
  <2>1. step = "op" /\ errors' = errors
    BY <1>2 DEF AORG, EQU, SET, DataItem, BSS, EVEN, ENT, EXT, DXOP, NAM, IF_, ELSE_ENDI, Format1, Format7,
           Format6, Format2, wipeout, END, Doing, module
  <2>2. pass' \in {2, 3}
    <3>1. CASE END
      BY <2>1, <3>1 DEF END, TodoRight
    <3>2. CASE ~END
      BY <1>2, <3>2 DEF AORG, EQU, SET, DataItem, BSS, EVEN, ENT, EXT, DXOP, NAM, IF_, ELSE_ENDI, Format1,
             Format7, Format6, Format2, wipeout
    <3>3. QED
      BY <3>1, <3>2
  <2>3. QED
    BY <2>1, <2>2 DEF Live
<1>3. CASE NextLine
  <2>1. pass = 2 /\ pass' = 2
    BY <1>3 DEF NextLine
  <2>2. ~errors' /\ pass = 2 => ~errors /\ errcode = None
    BY <1>3 DEF NextLine
  <2>3. QED
    BY <2>1, <2>2 DEF Live
<1>4. CASE Pass2
  BY <1>4 DEF Pass2
<1>5. CASE Finish
  <2>1. pass = 3 /\ pass' = 3 /\ (~errors' => ~errors /\ errcode = None)
    BY <1>5 DEF Finish, out
  <2>2. QED
    BY <2>1 DEF Live
<1>6. CASE UNCHANGED vars
  BY <1>6 DEF vars, Live, module
<1>7. QED
  BY <1>1, <1>2, <1>3, <1>4, <1>5, <1>6 DEF Next

\* In pass 2 only the label field, EQU and SET change the table.
LEMMA TableStays ==
    ASSUME TypeOK, TodoRight, pass \in {2, 3}, [Next]_vars, ~asmline, ~EQU, ~SET
    PROVE  symtbl' = symtbl /\ where' = where
<1>1. Declared = symtbl
  BY DEF Declared, TypeOK
<1>2. CASE \/ AORG \/ DataItem \/ BSS \/ EVEN \/ ENT \/ EXT \/ DXOP \/ NAM \/ IF_ \/ ELSE_ENDI
           \/ Format1 \/ Format7 \/ Format6 \/ Format2 \/ wipeout \/ END \/ NextLine \/ Pass2 \/ Finish
  <2>1. where' = where
    BY <1>2 DEF AORG, DataItem, BSS, EVEN, ENT, EXT, DXOP, NAM, IF_, ELSE_ENDI, Format1, Format7, Format6,
           Format2, wipeout, END, NextLine, Pass2, Finish, table
  <2>2. symtbl' = symtbl \/ symtbl' = Declared
    <3>1. CASE ENT \/ EXT \/ DXOP
      <4>1. ENT => step = "op" /\ (pass = 2 => symtbl' = symtbl)
        BY DEF ENT, Doing
      <4>2. EXT => step = "op" /\ (pass = 2 => symtbl' = symtbl)
        BY DEF EXT, Doing
      <4>3. DXOP => symtbl' = symtbl
        BY DEF DXOP
      <4>4. (ENT \/ EXT) => pass = 2
        BY <4>1, <4>2 DEF TodoRight
      <4>5. QED
        BY <3>1, <4>1, <4>2, <4>3, <4>4
    <3>2. CASE ~(ENT \/ EXT \/ DXOP)
      BY <1>2, <3>2 DEF AORG, DataItem, BSS, EVEN, NAM, IF_, ELSE_ENDI, Format1, Format7, Format6, Format2,
             wipeout, END, NextLine, Pass2, Finish, Instr, table
    <3>3. QED
      BY <3>1, <3>2
  <2>3. QED
    BY <1>1, <2>1, <2>2
<1>3. CASE UNCHANGED vars
  BY <1>3 DEF vars, table
<1>4. QED
  BY <1>2, <1>3 DEF Next

\* EQU and SET give a value to a name of Equated, and keep it an external or an
\* entry, or neither.
LEMMA ValueGiven ==
    ASSUME TypeOK, TodoRight, pass = 2, EQU \/ SET
    PROVE  \/ symtbl' = symtbl /\ where' = where
           \/ \E n \in Equated \cap Names, e \in Entry :
                 /\ Known(n) /\ \A f \in {"EXT", "ENT"} : f \in e.symflg <=> f \in symtbl[n].symflg
                 /\ symtbl' = [symtbl EXCEPT ![n] = e] /\ where' = [where EXCEPT ![n] = None]
<1>1. Declared = symtbl
  BY DEF Declared, TypeOK
<1>2. CASE Label = NoName \/ (EQU /\ Bad(Only))
  BY <1>2 DEF EQU, SET
<1>3. CASE Label # NoName /\ ~(EQU /\ Bad(Only))
  <2>1. Label \in Names /\ Known(Label) /\ Label = Current.label
    BY <1>3, CurrentType, AsmAssumption DEF Label, Line, EQU, SET, Doing
  <2>2. Label \in Equated
    <3>1. at \in DOMAIN program /\ step = "op" /\ program[at].op \in {"EQU", "SET"}
      <4>1. step = "op" /\ Current.op \in {"EQU", "SET"}
        BY DEF EQU, SET, Doing
      <4>2. at \in Nat \ {0} /\ program \in Seq(Lines) /\ at <= Len(program)
        BY <4>1 DEF TypeOK, TodoRight
      <4>3. QED
        BY <4>1, <4>2 DEF Current
    <3>2. QED
      BY <2>1, <3>1 DEF Equated, Current
  <2>3. Value \in Nat
    BY ValueType, AsmAssumption DEF EQU, SET, Doing
  <2>4. symtbl[Label] \in Entry
    BY <2>1 DEF TypeOK, Known
  <2>5. CASE EQU
    <3> DEFINE e == [symvalu |-> Value,
                     symflg |-> IF relflg(Only) THEN symtbl[Label].symflg \cup {"REL"}
                                ELSE symtbl[Label].symflg \ {"REL"}]
    <3>1. symtbl' = [symtbl EXCEPT ![Label] = e] /\ where' = [where EXCEPT ![Label] = None]
      BY <1>1, <1>3, <2>5 DEF EQU
    <3>2. e \in Entry
      BY <2>3, <2>4 DEF Entry, Flags
    <3>3. \A f \in {"EXT", "ENT"} : f \in e.symflg <=> f \in symtbl[Label].symflg
      OBVIOUS
    <3> HIDE DEF e
    <3>4. QED
      BY <2>1, <2>2, <3>1, <3>2, <3>3
  <2>6. CASE SET
    <3> DEFINE e == [symvalu |-> IF Bad(Only) THEN symtbl[Label].symvalu ELSE Value,
                     symflg |-> symtbl[Label].symflg \ {"REL"}]
    <3>1. symtbl' = [symtbl EXCEPT ![Label] = e] /\ where' = [where EXCEPT ![Label] = None]
      BY <1>1, <1>3, <2>6 DEF SET
    <3>2. e \in Entry
      BY <2>3, <2>4 DEF Entry, Flags
    <3>3. \A f \in {"EXT", "ENT"} : f \in e.symflg <=> f \in symtbl[Label].symflg
      OBVIOUS
    <3> HIDE DEF e
    <3>4. QED
      BY <2>1, <2>2, <3>1, <3>2, <3>3
  <2>7. QED
    BY <2>5, <2>6
<1>4. QED
  BY <1>2, <1>3

\* The label field of pass 2 changes nothing but the value of an entry.
LEMMA LabelGiven ==
    ASSUME TypeOK, TodoRight, pass = 2, asmline
    PROVE  \E l \in Lines :
              /\ errcode' = None => ~(Labels(l) /\ ~Known(l.label))
              /\ where' = IF Labels(l) /\ Known(l.label) THEN [where EXCEPT ![l.label] = lc] ELSE where
              /\ symtbl' = IF Labels(l) /\ Has(l.label, "ENT")
                           THEN [symtbl EXCEPT ![l.label] = [@ EXCEPT !.symvalu = pc]] ELSE symtbl
              /\ Labels(l) => l.label \in Names
<1>1. PICK l \in Lines :
        /\ errcode' = Mark(LabelError(l), IF l.op = "EOF" THEN "*" ELSE IF UnknownOp(l) THEN "O" ELSE None)
        /\ symtbl' = IF Labels(l) THEN [symtbl EXCEPT ![l.label] = LabelEntry(l)] ELSE symtbl
        /\ where' = IF Labels(l) /\ pass = 2 /\ Known(l.label)
                    THEN [where EXCEPT ![l.label] = lc] ELSE where
  BY DEF asmline
<1>2. Labels(l) => l.label \in Names
  BY AsmAssumption DEF Labels, Line
<1>3. LabelEntry(l) = IF Has(l.label, "ENT") THEN [symtbl[l.label] EXCEPT !.symvalu = pc] ELSE symtbl[l.label]
  BY DEF LabelEntry
<1>4. Labels(l) /\ ~Known(l.label) => errcode' # None
  BY <1>1, AsmAssumption DEF LabelError, Mark, Letters
<1>5. symtbl' = IF Labels(l) /\ Has(l.label, "ENT")
                THEN [symtbl EXCEPT ![l.label] = [@ EXCEPT !.symvalu = pc]] ELSE symtbl
  BY <1>1, <1>2, <1>3 DEF TypeOK
<1>6. QED
  BY <1>1, <1>2, <1>4, <1>5

\* What pass 2 keeps of the table: the names, which of them are externals and
\* entries, and all of a name that is no entry and that no EQU or SET may change.
LEMMA TableKept ==
    ASSUME TypeOK, TodoRight, pass \in {2, 3}, [Next]_vars
    PROVE  /\ Equated \subseteq Equated'
           /\ \A n \in Names :
                 /\ symtbl'[n] = None <=> symtbl[n] = None
                 /\ symtbl[n] # None =>
                       /\ \A f \in {"EXT", "ENT"} : f \in symtbl'[n].symflg <=> f \in symtbl[n].symflg
                       /\ "ENT" \notin symtbl[n].symflg /\ n \notin Equated => symtbl'[n] = symtbl[n]
<1>1. Equated \subseteq Equated'
  <2>1. program' = program \/ \E l \in Lines : program' = Append(program, l)
    BY DEF Next, vars, source, asmline, AORG, EQU, SET, DataItem, BSS, EVEN, ENT, EXT, DXOP, NAM, IF_, ELSE_ENDI,
           Format1, Format7, Format6, Format2, wipeout, END, NextLine, Pass2, Finish
  <2>2. program \in Seq(Lines)
    BY DEF TypeOK
  <2>3. \A i \in DOMAIN program : i \in DOMAIN program' /\ program'[i] = program[i]
    BY <2>1, <2>2
  <2>4. QED
    BY <2>3 DEF Equated
<1>2. CASE asmline
  <2>1. pass = 2
    BY <1>2 DEF asmline, TodoRight
  <2>2. PICK l \in Lines :
           /\ symtbl' = IF Labels(l) /\ Has(l.label, "ENT")
                        THEN [symtbl EXCEPT ![l.label] = [@ EXCEPT !.symvalu = pc]] ELSE symtbl
           /\ Labels(l) => l.label \in Names
    BY <1>2, <2>1, LabelGiven
  <2>3. CASE Labels(l) /\ Has(l.label, "ENT")
    <3>1. symtbl[l.label] \in Entry /\ "ENT" \in symtbl[l.label].symflg /\ pc \in Nat
      BY <2>2, <2>3 DEF TypeOK, Has, Known
    <3>2. [symtbl[l.label] EXCEPT !.symvalu = pc] \in Entry
      BY <3>1 DEF Entry
    <3>3. [symtbl[l.label] EXCEPT !.symvalu = pc].symflg = symtbl[l.label].symflg
      BY <3>1 DEF Entry
    <3>4. \A n \in Names : n # l.label => symtbl'[n] = symtbl[n]
      BY <2>2, <2>3 DEF TypeOK
    <3>5. symtbl'[l.label] = [symtbl[l.label] EXCEPT !.symvalu = pc]
      BY <2>2, <2>3 DEF TypeOK
    <3>6. symtbl[l.label] # None /\ symtbl'[l.label] # None
      BY <3>1, <3>2, <3>5, AsmAssumption
    <3>7. QED
      BY <1>1, <3>1, <3>3, <3>4, <3>5, <3>6
  <2>4. CASE ~(Labels(l) /\ Has(l.label, "ENT"))
    BY <1>1, <2>2, <2>4
  <2>5. QED
    BY <2>3, <2>4
<1>3. CASE EQU \/ SET
  <2>1. pass = 2
    BY <1>3 DEF EQU, SET, Doing, TodoRight
  <2>2. CASE symtbl' = symtbl
    BY <1>1, <2>2
  <2>3. CASE symtbl' # symtbl
    <3>1. PICK k \in Equated \cap Names, e \in Entry :
             /\ Known(k) /\ \A f \in {"EXT", "ENT"} : f \in e.symflg <=> f \in symtbl[k].symflg
             /\ symtbl' = [symtbl EXCEPT ![k] = e]
      BY <1>3, <2>1, <2>3, ValueGiven
    <3>2. \A n \in Names : n # k => symtbl'[n] = symtbl[n]
      BY <3>1 DEF TypeOK
    <3>3. symtbl'[k] = e /\ e # None /\ symtbl[k] # None
      BY <3>1, AsmAssumption DEF TypeOK, Known
    <3>4. QED
      BY <1>1, <3>1, <3>2, <3>3
  <2>4. QED
    BY <2>2, <2>3
<1>4. CASE ~asmline /\ ~EQU /\ ~SET
  BY <1>1, <1>4, TableStays
<1>5. QED
  BY <1>2, <1>3, <1>4

-----------------------------------------------------------------------------
\* An operand w of the object names a place: a name of the table tab that is no
\* external, no entry and not in eq.
NamesPlace(w, tab, eq) ==
    /\ w.of.base \in Names /\ tab[w.of.base] # None /\ w.of.base \notin eq
    /\ "EXT" \notin tab[w.of.base].symflg /\ "ENT" \notin tab[w.of.base].symflg

\* It was written with the value the table has for that name.
ItemRight(w, tab) ==
    IF w.item = "disp"
    THEN (((w.of.plus + tab[w.of.base].symvalu) % Word) - w.at) % 2 = 0
            => w.at + 2 + 2 * w.field = (w.of.plus + tab[w.of.base].symvalu) % Word
    ELSE /\ w.field = (w.of.plus + tab[w.of.base].symvalu) % Word
         /\ "REL" \in tab[w.of.base].symflg => w.item # "ABS2"

\* It is in refs, if it is a word of an instruction that names an external.
Listed(w, tab, refs) ==
    /\ w.op \in {"format1", "user", "format6"}
    /\ w.of.base \in Names /\ tab[w.of.base] # None /\ "EXT" \in tab[w.of.base].symflg
    => \E k \in DOMAIN refs : refs[k] = [name |-> w.of.base, loc |-> w.at]

ItemsRight ==
    /\ pass \in {0, 1} => object = <<>>
    /\ Live => \A i \in DOMAIN object :
                  /\ NamesPlace(object[i], symtbl, Equated) => ItemRight(object[i], symtbl)
                  /\ Listed(object[i], symtbl, xreftab)

\* What was right stays right: the table keeps what the operand depends on.
LEMMA ItemKept ==
    ASSUME TypeOK, TodoRight, pass \in {2, 3}, [Next]_vars, NEW w,
           NamesPlace(w, symtbl, Equated) => ItemRight(w, symtbl)
    PROVE  NamesPlace(w, symtbl', Equated') => ItemRight(w, symtbl')
<1>1. SUFFICES ASSUME NamesPlace(w, symtbl', Equated') PROVE ItemRight(w, symtbl')
  OBVIOUS
<1>2. w.of.base \in Names /\ symtbl'[w.of.base] # None /\ w.of.base \notin Equated'
      /\ "EXT" \notin symtbl'[w.of.base].symflg /\ "ENT" \notin symtbl'[w.of.base].symflg
  BY <1>1 DEF NamesPlace
<1>3. NamesPlace(w, symtbl, Equated) /\ symtbl'[w.of.base] = symtbl[w.of.base]
  BY <1>2, TableKept DEF NamesPlace
<1>4. QED
  BY <1>3 DEF ItemRight

LEMMA ListedKept ==
    ASSUME TypeOK, TodoRight, pass \in {2, 3}, [Next]_vars, NEW w, Listed(w, symtbl, xreftab),
           NEW refs \in Seq(Ref), xreftab' = xreftab \o refs
    PROVE  Listed(w, symtbl', xreftab')
<1>1. SUFFICES ASSUME w.op \in {"format1", "user", "format6"}, w.of.base \in Names,
                      symtbl'[w.of.base] # None, "EXT" \in symtbl'[w.of.base].symflg
               PROVE  \E k \in DOMAIN xreftab' : xreftab'[k] = [name |-> w.of.base, loc |-> w.at]
  BY DEF Listed
<1>2. symtbl[w.of.base] # None /\ "EXT" \in symtbl[w.of.base].symflg
  BY <1>1, TableKept
<1>3. PICK k \in DOMAIN xreftab : xreftab[k] = [name |-> w.of.base, loc |-> w.at]
  BY <1>1, <1>2 DEF Listed
<1>4. k \in DOMAIN xreftab' /\ xreftab'[k] = xreftab[k]
  <2>1. xreftab \in Seq(Ref)
    BY DEF TypeOK, Ref
  <2>2. QED
    BY <1>3, <2>1
<1>5. QED
  BY <1>3, <1>4

\* Pass 2 adds items that are right to the object, and references to the list.
LEMMA ObjectGrows ==
    ASSUME TypeOK, TodoRight, pass \in {2, 3}, [Next]_vars, Live => ItemsRight,
           NEW refs \in Seq(Ref), xreftab' = xreftab \o refs,
           NEW writes \in Seq(Item), object' = object \o writes,
           Live' => \A j \in DOMAIN writes :
                       /\ NamesPlace(writes[j], symtbl', Equated') => ItemRight(writes[j], symtbl')
                       /\ Listed(writes[j], symtbl', xreftab')
    PROVE  ItemsRight'
<1>1. pass' \in {2, 3} /\ (Live' => Live)
  BY LiveKept
<1>2. SUFFICES ASSUME Live', NEW i \in DOMAIN object'
               PROVE  /\ NamesPlace(object'[i], symtbl', Equated') => ItemRight(object'[i], symtbl')
                      /\ Listed(object'[i], symtbl', xreftab')
  <2>1. pass' \notin {0, 1}
    BY <1>1
  <2>2. (\A i \in DOMAIN object :
            /\ NamesPlace(object[i], symtbl, Equated) => ItemRight(object[i], symtbl)
            /\ Listed(object[i], symtbl, xreftab))'
        <=> \A i \in DOMAIN object' :
            /\ NamesPlace(object'[i], symtbl', Equated') => ItemRight(object'[i], symtbl')
            /\ Listed(object'[i], symtbl', xreftab')
    BY Zenon DEF NamesPlace, ItemRight, Listed
  <2>3. QED
    BY <2>1, <2>2 DEF ItemsRight
<1>3. object \in Seq(Item)
  BY DEF TypeOK, Item
<1>4. \/ i \in DOMAIN object /\ object'[i] = object[i]
      \/ \E j \in DOMAIN writes : object'[i] = writes[j]
  BY <1>2, <1>3
<1>5. CASE i \in DOMAIN object /\ object'[i] = object[i]
  <2>1. PICK w : w = object[i]
    OBVIOUS
  <2>2. (NamesPlace(w, symtbl, Equated) => ItemRight(w, symtbl)) /\ Listed(w, symtbl, xreftab)
    BY <1>1, <1>2, <1>5, <2>1 DEF ItemsRight
  <2>3. (NamesPlace(w, symtbl', Equated') => ItemRight(w, symtbl')) /\ Listed(w, symtbl', xreftab')
    BY <2>2, ItemKept, ListedKept
  <2>4. QED
    BY <1>5, <2>1, <2>3
<1>6. CASE \E j \in DOMAIN writes : object'[i] = writes[j]
  BY <1>2, <1>6
<1>7. QED
  BY <1>4, <1>5, <1>6

\* A step that writes nothing.
LEMMA NothingWritten ==
    ASSUME TypeOK, TodoRight, pass \in {2, 3}, [Next]_vars, Live => ItemsRight, object' = object,
           NEW refs \in Seq(Ref), xreftab' = xreftab \o refs
    PROVE  ItemsRight'
<1>1. object \in Seq(Item)
  BY DEF TypeOK, Item
<1>2. PICK none : none = <<>>
  OBVIOUS
<1>3. none \in Seq(Item) /\ object' = object \o none /\ \A j \in DOMAIN none : FALSE
  BY <1>1, <1>2
<1>4. QED
  BY <1>3, ObjectGrows

\* What eval gives for a name of the table that is no external.
LEMMA EvalRight ==
    ASSUME TypeOK, pass = 2, NEW o \in Operand, NEW loc, o.base \in Names, Known(o.base), ~Has(o.base, "EXT")
    PROVE  /\ eval(o, loc) = (o.plus + symtbl[o.base].symvalu) % Word
           /\ itemflg(o) <=> "REL" \in symtbl[o.base].symflg
           /\ relflg(o) <=> "REL" \in symtbl[o.base].symflg
<1>1. ~Bad(o) /\ ~IsRef(o) /\ o.base # Here
  BY AsmAssumption DEF Bad, IsRef
<1>2. QED
  BY <1>1 DEF eval, itemflg, relflg, Has

\* A word or a byte of pass 2.
LEMMA WordRight ==
    ASSUME TypeOK, pass = 2, NEW o \in Operand, NEW loc, NEW at_, NEW item \in {"ABS", "ABS2", "PREL"},
           itemflg(o) => item # "ABS2",
           NamesPlace(Written(o, at_, item, eval(o, loc)), symtbl, Equated)
    PROVE  ItemRight(Written(o, at_, item, eval(o, loc)), symtbl)
<1>1. o.base \in Names /\ Known(o.base) /\ ~Has(o.base, "EXT")
  BY DEF NamesPlace, Written, Known, Has
<1>2. QED
  BY <1>1, EvalRight DEF ItemRight, Written

\* A step that writes one item.
LEMMA OneWritten ==
    ASSUME TypeOK, TodoRight, pass \in {2, 3}, [Next]_vars, Live => ItemsRight,
           NEW refs \in Seq(Ref), xreftab' = xreftab \o refs,
           NEW w \in Item, object' = Append(object, w),
           Live' => (NamesPlace(w, symtbl', Equated') => ItemRight(w, symtbl')),
           Listed(w, symtbl', xreftab')
    PROVE  ItemsRight'
<1>1. object \in Seq(Item)
  BY DEF TypeOK, Item
<1>2. PICK one : one = <<w>>
  OBVIOUS
<1>3. one \in Seq(Item) /\ object' = object \o one /\ \A j \in DOMAIN one : one[j] = w
  BY <1>1, <1>2, AppendIsConcat
<1>4. QED
  BY <1>3, ObjectGrows

\* In pass 2 an operand of BYTE, WORD or TEXT is written with its value, which is
\* relocated when it must be; an empty one names nothing.
LEMMA ItemsData ==
    ASSUME TypeOK, TodoRight, pass = 2, ItemsRight, [Next]_vars, DataItem
    PROVE  ItemsRight'
<1> DEFINE o == Head(todo)
           size == IF Current.op = "WORD" THEN 2 ELSE 1
           item == IF Current.op # "WORD" THEN "ABS" ELSE IF relflg(o) THEN "PREL" ELSE "ABS2"
<1>1. step = "op" /\ Current.op \in Data
  BY DEF DataItem, Doing, Data
<1>2. todo \in Seq(Operand) /\ todo # <<>>
  BY <1>1 DEF TypeOK, TodoRight
<1>3. o \in Operand /\ pc \in Nat /\ nbytes \in Nat /\ lc \in Nat
  BY <1>2 DEF TypeOK
<1>4. eval(o, pc) \in Int
  <2>1. eval(o, pc) \in 0..Word - 1
    BY <1>3, EvalType
  <2>2. QED
    BY <2>1, AsmAssumption
<1>5. /\ symtbl' = Declared /\ UNCHANGED source
      /\ \/ UNCHANGED <<nbytes, out>>
         \/ o.base = Empty /\ Put(o, 1, "ABS", 0) /\ UNCHANGED xreftab
         \/ Put(o, size, item, eval(o, pc)) /\ Refer(xref_add(o, pc, nbytes))
  BY DEF DataItem
<1>6. item \in {"ABS", "ABS2", "PREL"} /\ (itemflg(o) => item # "ABS2")
  BY DEF relflg
<1> HIDE DEF o, size, item
<1>7. symtbl' = symtbl /\ Equated' = Equated
  <2>1. symtbl' = symtbl
    BY <1>5 DEF Declared, TypeOK
  <2>2. program' = program
    BY <1>5 DEF source
  <2>3. QED
    BY <2>1, <2>2 DEF Equated
<1>8. <<>> \in Seq(Ref) /\ xreftab \in Seq(Ref) /\ xreftab = xreftab \o <<>> /\ object \in Seq(Item)
  <2>1. xreftab \in Seq(Ref) /\ object \in Seq(Item)
    BY DEF TypeOK, Ref, Item
  <2>2. QED
    BY <2>1
<1>9. CASE UNCHANGED <<nbytes, out>>
  BY <1>8, <1>9, NothingWritten DEF out
<1>10. CASE o.base = Empty /\ Put(o, 1, "ABS", 0) /\ UNCHANGED xreftab
  <2> DEFINE w == Written(o, lc, "ABS", 0)
  <2>1. w \in Item /\ w.of = o /\ w.op = Current.op
    BY <1>1, <1>3, WrittenType DEF Written
  <2>2. object' = Append(object, w)
    BY <1>10 DEF Put
  <2>3. ~NamesPlace(w, symtbl', Equated') /\ Listed(w, symtbl', xreftab')
    BY <1>1, <1>10, <2>1, AsmAssumption DEF NamesPlace, Listed, Data
  <2> HIDE DEF w
  <2>4. QED
    BY <1>8, <1>10, <2>1, <2>2, <2>3, OneWritten
<1>11. CASE Put(o, size, item, eval(o, pc)) /\ Refer(xref_add(o, pc, nbytes))
  <2> DEFINE w == Written(o, lc, item, eval(o, pc))
  <2>1. w \in Item /\ w.of = o /\ w.op = Current.op
    BY <1>1, <1>3, <1>4, <1>6, WrittenType DEF Written
  <2>2. object' = Append(object, w)
    BY <1>11 DEF Put
  <2>3. NamesPlace(w, symtbl', Equated') => ItemRight(w, symtbl')
    BY <1>3, <1>6, <1>7, WordRight
  <2>4. Listed(w, symtbl', xreftab')
    BY <1>1, <2>1 DEF Listed, Data
  <2>5. xref_add(o, pc, nbytes) \in Seq(Ref) /\ xreftab' = xreftab \o xref_add(o, pc, nbytes)
    BY <1>3, <1>11, RefType DEF Refer
  <2> HIDE DEF w
  <2>6. QED
    BY <2>1, <2>2, <2>3, <2>4, <2>5, OneWritten
<1>12. QED
  BY <1>5, <1>9, <1>10, <1>11

\* A jump is written with the distance to the value of its name, from where it is.
LEMMA ItemsJump ==
    ASSUME TypeOK, TodoRight, pass = 2, Follows, ItemsRight, [Next]_vars, Format2
    PROVE  ItemsRight'
<1> DEFINE d == eval(Only, Even) - (Even + 2)
           disp == IF d >= 0 THEN d \div 2 ELSE -((-d) \div 2)
           w == Written(Only, lc, "disp", disp)
<1>1. step = "op" /\ Current.op = "format2" /\ Only \in Operand /\ lc \in Nat /\ pc \in Nat /\ nbytes = 0
  BY OnlyType DEF Format2, Doing, TypeOK, TodoRight, Data
<1>2. /\ symtbl' = Declared /\ UNCHANGED <<source, pass, module>> /\ step' = "end"
      /\ errcode' \in {Mark("B", InstrError), InstrError}
      /\ object' = Append(object, w) /\ Refer(xref_add(Only, Even, 2))
  BY DEF Format2, Done
<1>3. Even \in Nat /\ eval(Only, Even) \in Int /\ d \in Int /\ disp \in Int
  <2>1. Even \in Nat
    BY EvenType
  <2>2. eval(Only, Even) \in 0..Word - 1
    BY <1>1, <2>1, EvalType
  <2>3. eval(Only, Even) \in Int
    BY <2>2, AsmAssumption
  <2>4. QED
    BY <2>1, <2>3
<1>4. symtbl' = symtbl /\ Equated' = Equated
  <2>1. symtbl' = symtbl
    BY <1>2 DEF Declared, TypeOK
  <2>2. program' = program
    BY <1>2 DEF source
  <2>3. QED
    BY <2>1, <2>2 DEF Equated
<1>5. Live' => lc = Even
  <2>1. SUFFICES ASSUME Live' PROVE lc = Even
    OBVIOUS
  <2>2. ~errors /\ errcode' = None
    BY <1>2, <2>1 DEF Live, module
  <2>3. pc % 2 # 1
    BY <1>2, <2>2, OddIsMarked
  <2>4. lc = pc
    BY <1>1, <2>2 DEF Follows
  <2>5. QED
    BY <1>1, <2>3, <2>4 DEF Even
<1>6. d % 2 = 0 => 2 * disp = d
  BY <1>3
<1>7. w \in Item /\ w.of = Only /\ w.op = "format2" /\ w.at = lc /\ w.item = "disp" /\ w.field = disp
  BY <1>1, <1>3, WrittenType DEF Written
<1> HIDE DEF w, disp
<1>8. Live' => (NamesPlace(w, symtbl', Equated') => ItemRight(w, symtbl'))
  <2>1. SUFFICES ASSUME Live', NamesPlace(w, symtbl, Equated) PROVE ItemRight(w, symtbl)
    BY <1>4
  <2>2. Only.base \in Names /\ Known(Only.base) /\ ~Has(Only.base, "EXT")
    BY <1>7, <2>1 DEF NamesPlace, Known, Has
  <2>3. eval(Only, Even) = (Only.plus + symtbl[Only.base].symvalu) % Word
    BY <1>1, <2>2, EvalRight
  <2>4. (eval(Only, Even) - lc) % 2 = 0 => lc + 2 + 2 * disp = eval(Only, Even)
    <3>1. lc = Even
      BY <1>5, <2>1
    <3>2. (eval(Only, Even) - lc) % 2 = 0 => d % 2 = 0
      BY <1>3, <3>1
    <3>3. QED
      BY <1>3, <1>6, <3>1, <3>2
  <2>5. QED
    BY <1>7, <2>3, <2>4 DEF ItemRight
<1>9. Listed(w, symtbl', xreftab')
  BY <1>7 DEF Listed
<1>10. xref_add(Only, Even, 2) \in Seq(Ref) /\ xreftab' = xreftab \o xref_add(Only, Even, 2)
  BY <1>1, <1>2, <1>3, RefType DEF Refer
<1>11. QED
  BY <1>2, <1>7, <1>8, <1>9, <1>10, OneWritten

LEMMA ModSmall == \A k \in Nat : k < Word => k % Word = k
BY AsmAssumption

\* The list of a format 1 line holds each of its externals.
LEMMA FieldsListed ==
    ASSUME TypeOK, pass = 2, Len(todo) <= 2, NEW i \in DOMAIN todo, IsRef(todo[i])
    PROVE  \E k \in DOMAIN FieldRefs(2) :
              FieldRefs(2)[k] = [name |-> todo[i].base, loc |-> (Even + 2 * i) % Word]
<1>1. todo \in Seq(Operand) /\ Even \in Nat
  BY EvenType DEF TypeOK
<1>2. DOMAIN todo = 1..Len(todo) /\ Len(todo) \in Nat /\ i \in 1..2 /\ todo # <<>> /\ i <= Len(todo)
  BY <1>1
<1>3. /\ Even + 4 - 2 = Even + 2 * 1 /\ Even + 6 - 2 = Even + 2 * 2
  BY <1>1
<1>4. CASE Len(todo) = 1
  <2>1. i = 1 /\ FieldRefs(2) = <<[name |-> todo[1].base, loc |-> (Even + 4 - 2) % Word]>>
    BY <1>2, <1>4 DEF FieldRefs, xref_add
  <2>2. QED
    BY <1>3, <2>1
<1>5. CASE Len(todo) = 2
  <2> DEFINE one == xref_add(todo[1], Even, 4)
             two == xref_add(todo[2], Even, 6)
  <2>1. FieldRefs(2) = one \o two
    BY <1>2, <1>5 DEF FieldRefs
  <2>2. one \in Seq(Ref) /\ two \in Seq(Ref)
    <3>1. 1 \in DOMAIN todo /\ 2 \in DOMAIN todo
      BY <1>2, <1>5
    <3>2. todo[1] \in Operand /\ todo[2] \in Operand
      BY <1>1, <3>1
    <3>3. QED
      BY <1>1, <3>2, RefType
  <2>3. CASE i = 1
    <3>1. one = <<[name |-> todo[1].base, loc |-> (Even + 2 * 1) % Word]>>
      BY <1>3, <2>3 DEF xref_add
    <3> HIDE DEF one, two
    <3>2. 1 \in DOMAIN (one \o two) /\ (one \o two)[1] = one[1]
      BY <2>2, <3>1
    <3>3. QED
      BY <2>1, <2>3, <3>1, <3>2
  <2>4. CASE i = 2
    <3>1. two = <<[name |-> todo[2].base, loc |-> (Even + 2 * 2) % Word]>>
      BY <1>3, <2>4 DEF xref_add
    <3> HIDE DEF one, two
    <3>2. Len(one) + 1 \in DOMAIN (one \o two) /\ (one \o two)[Len(one) + 1] = two[1]
      BY <2>2, <3>1
    <3>3. QED
      BY <2>1, <2>4, <3>1, <3>2
  <2>5. QED
    BY <1>2, <2>3, <2>4
<1>6. QED
  BY <1>2, <1>4, <1>5

\* A reference added to the list is in it.
LEMMA ReferListed ==
    ASSUME TypeOK, NEW refs \in Seq(Ref), xreftab' = xreftab \o refs, NEW r,
           \E k \in DOMAIN refs : refs[k] = r
    PROVE  \E k \in DOMAIN xreftab' : xreftab'[k] = r
<1>1. xreftab \in Seq(Ref)
  BY DEF TypeOK, Ref
<1>2. PICK k \in DOMAIN refs : refs[k] = r
  OBVIOUS
<1>3. Len(xreftab) + k \in DOMAIN xreftab' /\ xreftab'[Len(xreftab) + k] = refs[k]
  BY <1>1
<1>4. QED
  BY <1>2, <1>3

\* What an unmarked line knows of the loader: it is at the even location of the line.
LEMMA LoaderEven ==
    ASSUME TypeOK, TodoRight, Follows, pass = 2, step = "op", Current.op \notin Data,
           errors' = errors, step' = "end", errcode' \in {Mark("B", InstrError), InstrError}, Live'
    PROVE  lc = Even
<1>1. pc \in Nat /\ nbytes = 0
  BY DEF TypeOK, TodoRight
<1>2. ~errors /\ errcode' = None
  BY DEF Live
<1>3. pc % 2 # 1
  BY <1>2, OddIsMarked
<1>4. lc = pc
  BY <1>1, <1>2 DEF Follows
<1>5. QED
  BY <1>1, <1>3, <1>4 DEF Even

\* The words after the opcode.
LEMMA ItemsFields ==
    ASSUME TypeOK, TodoRight, pass = 2, Follows, ItemsRight, [Next]_vars, Format1 \/ Format7
    PROVE  ItemsRight'
<1>1. step = "op" /\ Current.op \in {"format1", "user", "format7"} /\ Current.op \notin Data
  BY DEF Format1, Format7, Doing, Data
<1>2. /\ symtbl' = Declared /\ UNCHANGED <<source, pass, module>> /\ step' = "end"
      /\ errcode' = InstrError /\ Refer(FieldRefs(2))
  BY DEF Format1, Format7, Instr, Done
<1>3. PICK n \in {2, 4} : object' = object \o Fields(n) /\ (Current.op # "format7" => n = 2)
                          /\ Even + n + 2 * Len(todo) <= Top
  <2>1. Even \in Nat /\ Len(todo) \in Nat
    BY EvenType DEF TypeOK
  <2>2. CASE Format1
    <3>1. Even + (2 + 2 * Len(todo)) <= Top /\ object' = object \o Fields(2)
      BY <2>2 DEF Format1, Instr
    <3>2. QED
      BY <2>1, <3>1
  <2>3. CASE Format7
    <3>1. Even + (4 + 2 * Len(todo)) <= Top /\ object' = object \o Fields(4) /\ Current.op = "format7"
      BY <2>3 DEF Format7, Instr, Doing
    <3>2. QED
      BY <2>1, <3>1
  <2>4. QED
    BY <2>2, <2>3
<1>4. Fields(n) \in Seq(Item) /\ FieldRefs(2) \in Seq(Ref) /\ Len(todo) \in Nat
  BY <1>1, FieldsType
<1>5. symtbl' = symtbl /\ Equated' = Equated
  <2>1. symtbl' = symtbl
    BY <1>2 DEF Declared, TypeOK
  <2>2. program' = program
    BY <1>2 DEF source
  <2>3. QED
    BY <2>1, <2>2 DEF Equated
<1>6. xreftab' = xreftab \o FieldRefs(2)
  BY <1>2 DEF Refer
<1>7. todo \in Seq(Operand) /\ Even \in Nat /\ lc \in Nat
  BY EvenType DEF TypeOK
<1>8. ASSUME Live', NEW j \in DOMAIN Fields(n)
      PROVE  /\ NamesPlace(Fields(n)[j], symtbl', Equated') => ItemRight(Fields(n)[j], symtbl')
             /\ Listed(Fields(n)[j], symtbl', xreftab')
  <2> DEFINE item == IF itemflg(todo[j]) THEN "PREL" ELSE "ABS2"
             w == Written(todo[j], lc + n + 2 * (j - 1), item, eval(todo[j], Even))
  <2>1. j \in DOMAIN todo /\ Fields(n)[j] = w
    BY <1>8 DEF Fields
  <2>2. todo[j] \in Operand /\ j \in 1..Len(todo)
    BY <1>7, <2>1
  <2>3. item \in {"ABS", "ABS2", "PREL"} /\ (itemflg(todo[j]) => item # "ABS2")
    OBVIOUS
  <2>4. w.of = todo[j] /\ w.op = Current.op /\ w.at = lc + n + 2 * (j - 1)
    BY DEF Written
  <2> HIDE DEF item
  <2>5. NamesPlace(w, symtbl, Equated) => ItemRight(w, symtbl)
    BY <2>2, <2>3, WordRight
  <2> HIDE DEF w
  <2>6. Listed(w, symtbl, xreftab')
    <3>1. SUFFICES ASSUME Current.op \in {"format1", "user"}, todo[j].base \in Names,
                          symtbl[todo[j].base] # None, "EXT" \in symtbl[todo[j].base].symflg
                   PROVE  \E k \in DOMAIN xreftab' : xreftab'[k] = [name |-> todo[j].base, loc |-> w.at]
      BY <1>1, <2>4 DEF Listed
    <3>2. IsRef(todo[j])
      BY <3>1 DEF IsRef, Has, Known
    <3>3. Len(todo) <= 2
      <4>1. Current \in Lines
        BY <1>1, CurrentType
      <4>2. Len(todo) = Len(Current.args)
        BY <1>1 DEF TodoRight
      <4>3. QED
        BY <3>1, <4>1, <4>2, AsmAssumption
    <3>4. w.at = Even + 2 * j
      <4>1. lc = Even
        BY <1>1, <1>2, <1>8, LoaderEven DEF module
      <4>2. n = 2
        BY <1>3, <3>1
      <4>3. QED
        BY <1>7, <2>2, <2>4, <4>1, <4>2
    <3>5. (Even + 2 * j) % Word = Even + 2 * j
      <4>1. Even + 2 * j \in Nat /\ Even + 2 * j < Word
        BY <1>3, <1>4, <1>7, <2>2, AsmAssumption
      <4>2. QED
        BY <4>1, ModSmall
    <3>6. \E k \in DOMAIN FieldRefs(2) : FieldRefs(2)[k] = [name |-> todo[j].base, loc |-> w.at]
      BY <2>1, <3>2, <3>3, <3>4, <3>5, FieldsListed
    <3>7. QED
      BY <1>4, <1>6, <3>6, ReferListed
  <2>7. QED
    BY <1>5, <2>1, <2>5, <2>6
<1>9. QED
  BY <1>3, <1>4, <1>6, <1>8, ObjectGrows

\* The immediate operand.
LEMMA ItemsImmediate ==
    ASSUME TypeOK, TodoRight, pass = 2, Follows, ItemsRight, [Next]_vars, Format6
    PROVE  ItemsRight'
<1> DEFINE item == IF relflg(Only) THEN "PREL" ELSE "ABS2"
           w == Written(Only, lc + 2, item, eval(Only, Even))
<1>1. step = "op" /\ Current.op = "format6" /\ Current.op \notin Data /\ Only \in Operand /\ lc \in Nat
  BY OnlyType DEF Format6, Doing, TypeOK, Data
<1>2. /\ symtbl' = Declared /\ UNCHANGED <<source, pass, module>> /\ step' = "end"
      /\ errcode' = InstrError /\ Refer(xref_add(Only, Even, 4)) /\ Even + 4 <= Top
      /\ object' = object \o <<w>>
  BY DEF Format6, Instr, Done
<1>3. Even \in Nat /\ eval(Only, Even) \in Int
  <2>1. Even \in Nat
    BY EvenType
  <2>2. eval(Only, Even) \in 0..Word - 1
    BY <1>1, <2>1, EvalType
  <2>3. QED
    BY <2>1, <2>2, AsmAssumption
<1>4. symtbl' = symtbl /\ Equated' = Equated
  <2>1. symtbl' = symtbl
    BY <1>2 DEF Declared, TypeOK
  <2>2. program' = program
    BY <1>2 DEF source
  <2>3. QED
    BY <2>1, <2>2 DEF Equated
<1>5. item \in {"ABS", "ABS2", "PREL"} /\ (itemflg(Only) => item # "ABS2")
  BY DEF relflg
<1> HIDE DEF item
<1>6. w \in Item /\ w.of = Only /\ w.op = Current.op /\ w.at = lc + 2
  BY <1>1, <1>3, <1>5, WrittenType DEF Written
<1>7. NamesPlace(w, symtbl, Equated) => ItemRight(w, symtbl)
  BY <1>1, <1>5, WordRight
<1> HIDE DEF w
<1>8. xref_add(Only, Even, 4) \in Seq(Ref) /\ xreftab' = xreftab \o xref_add(Only, Even, 4)
  BY <1>1, <1>2, <1>3, RefType DEF Refer
<1>9. Live' => Listed(w, symtbl, xreftab')
  <2>1. SUFFICES ASSUME Live', Only.base \in Names,
                        symtbl[Only.base] # None, "EXT" \in symtbl[Only.base].symflg
                 PROVE  \E k \in DOMAIN xreftab' : xreftab'[k] = [name |-> Only.base, loc |-> w.at]
    BY <1>6 DEF Listed
  <2>2. IsRef(Only)
    BY <2>1 DEF IsRef, Has, Known
  <2>3. w.at = Even + 2 /\ Even + 4 - 2 = Even + 2
    <3>1. lc = Even
      BY <1>1, <1>2, <2>1, LoaderEven DEF module
    <3>2. QED
      BY <1>3, <1>6, <3>1
  <2>4. (Even + 2) % Word = Even + 2
    <3>1. Even + 2 \in Nat /\ Even + 2 < Word
      BY <1>2, <1>3, AsmAssumption
    <3>2. QED
      BY <3>1, ModSmall
  <2>5. xref_add(Only, Even, 4) = <<[name |-> Only.base, loc |-> w.at]>>
    BY <2>2, <2>3, <2>4 DEF xref_add
  <2>6. \E k \in DOMAIN xref_add(Only, Even, 4) : xref_add(Only, Even, 4)[k] = [name |-> Only.base, loc |-> w.at]
    BY <2>5
  <2>7. QED
    BY <1>8, <2>6, ReferListed
<1>10. PICK one : one = <<w>>
  OBVIOUS
<1>11. one \in Seq(Item) /\ object' = object \o one /\ \A j \in DOMAIN one : one[j] = w
  BY <1>2, <1>6, <1>10
<1>12. QED
  BY <1>4, <1>7, <1>8, <1>9, <1>11, ObjectGrows

\* Pass 1 writes nothing.
LEMMA ItemsPass1 ==
    ASSUME TypeOK, TodoRight, pass \in {0, 1}, ItemsRight, [Next]_vars
    PROVE  ItemsRight'
<1>1. object = <<>>
  BY DEF ItemsRight
<1>2. object' = object
  <2>1. CASE DataItem \/ Format1 \/ Format7 \/ Format6 \/ Format2
    BY <2>1 DEF DataItem, Format1, Format7, Format6, Format2, Instr, Put, out
  <2>2. CASE ~(DataItem \/ Format1 \/ Format7 \/ Format6 \/ Format2)
    BY <2>2 DEF Next, vars, asmline, AORG, EQU, SET, BSS, EVEN, ENT, EXT, DXOP, NAM, IF_, ELSE_ENDI, wipeout,
           END, NextLine, Pass2, Finish, out
  <2>3. QED
    BY <2>1, <2>2
<1>3. DOMAIN object' = {}
  BY <1>1, <1>2
<1>4. \A i \in DOMAIN object' :
         /\ NamesPlace(object'[i], symtbl', Equated') => ItemRight(object'[i], symtbl')
         /\ Listed(object'[i], symtbl', xreftab')
  BY <1>3
<1>5. (\A i \in DOMAIN object :
         /\ NamesPlace(object[i], symtbl, Equated) => ItemRight(object[i], symtbl)
         /\ Listed(object[i], symtbl, xreftab))'
  BY <1>3, Zenon
<1>6. QED
  BY <1>1, <1>2, <1>5 DEF ItemsRight

LEMMA ItemsStep ==
    ASSUME TypeOK, TodoRight, Follows, ItemsRight, [Next]_vars
    PROVE  ItemsRight'
<1>1. CASE pass \in {0, 1}
  BY <1>1, ItemsPass1
<1>2. CASE pass \in {2, 3} /\ (DataItem \/ Format1 \/ Format7 \/ Format6 \/ Format2)
  <2>1. pass = 2
    BY <1>2 DEF DataItem, Format1, Format7, Format6, Format2, Doing, TodoRight
  <2>2. QED
    BY <1>2, <2>1, ItemsData, ItemsFields, ItemsImmediate, ItemsJump
<1>3. CASE pass \in {2, 3} /\ ~(DataItem \/ Format1 \/ Format7 \/ Format6 \/ Format2)
  <2>1. object' = object
    BY <1>3 DEF Next, vars, asmline, AORG, EQU, SET, BSS, EVEN, ENT, EXT, DXOP, NAM, IF_, ELSE_ENDI, wipeout,
           END, NextLine, Pass2, Finish, out
  <2>2. xreftab \in Seq(Ref) /\ <<>> \in Seq(Ref) /\ xreftab = xreftab \o <<>>
    <3>1. xreftab \in Seq(Ref)
      BY DEF TypeOK, Ref
    <3>2. QED
      BY <3>1
  <2>3. CASE xreftab' = xreftab
    <3>1. PICK none : none = <<>>
      OBVIOUS
    <3>2. none \in Seq(Ref) /\ xreftab' = xreftab \o none
      BY <2>2, <2>3, <3>1
    <3>3. QED
      BY <1>3, <2>1, <3>2, NothingWritten
  <2>4. CASE xreftab' # xreftab
    <3>1. AORG \/ EQU \/ SET \/ BSS \/ IF_
      BY <1>3, <2>4 DEF Next, vars, asmline, EVEN, ENT, EXT, DXOP, NAM, ELSE_ENDI, wipeout,
             END, NextLine, Pass2, Finish, out
    <3>2. Refer(xref_add(Only, pc, nbytes))
      BY <2>4, <3>1 DEF AORG, EQU, SET, BSS, IF_
    <3>3. xref_add(Only, pc, nbytes) \in Seq(Ref)
      BY <3>1, ValueType DEF AORG, EQU, SET, BSS, IF_, Doing
    <3>4. xreftab' = xreftab \o xref_add(Only, pc, nbytes)
      BY <3>2 DEF Refer
    <3>5. QED
      BY <1>3, <2>1, <3>3, <3>4, NothingWritten
  <2>5. QED
    BY <2>3, <2>4
<1>4. pass \in {0, 1, 2, 3}
  BY DEF TypeOK
<1>5. QED
  BY <1>1, <1>2, <1>3, <1>4

\* A place is a place of a name that the table holds.
PlacesKnown == \A n \in Names : where[n] # None => symtbl[n] # None

LEMMA PlacesStep ==
    ASSUME TypeOK, TodoRight, Follows, LabelsRight, PlacesKnown, [Next]_vars
    PROVE  PlacesKnown'
<1>1. CASE pass \in {0, 1}
  <2>1. pass' \in {0, 1} \/ UNCHANGED table
    BY <1>1 DEF Next, vars, asmline, AORG, EQU, SET, DataItem, BSS, EVEN, ENT, EXT, DXOP, NAM, IF_, ELSE_ENDI,
           Format1, Format7, Format6, Format2, wipeout, END, NextLine, Pass2, Finish
  <2>2. CASE UNCHANGED table
    BY <2>2 DEF table, PlacesKnown
  <2>3. CASE pass' \in {0, 1}
    BY <2>3, LabelsStep DEF LabelsRight, PlacesKnown
  <2>4. QED
    BY <2>1, <2>2, <2>3
<1>2. CASE pass \in {2, 3}
  <2>1. \A n \in Names : where'[n] # None => where[n] # None \/ symtbl[n] # None
    <3>1. CASE asmline
      <4>1. pass = 2
        BY <1>2, <3>1 DEF asmline, TodoRight
      <4>2. PICK l \in Lines :
               where' = IF Labels(l) /\ Known(l.label) THEN [where EXCEPT ![l.label] = lc] ELSE where
        BY <3>1, <4>1, LabelGiven
      <4>3. QED
        BY <4>2 DEF TypeOK, Known
    <3>2. CASE EQU \/ SET
      <4>1. pass = 2
        BY <1>2, <3>2 DEF EQU, SET, Doing, TodoRight
      <4>2. where' = where \/ \E n \in Names : where' = [where EXCEPT ![n] = None]
        BY <3>2, <4>1, ValueGiven
      <4>3. QED
        BY <4>2 DEF TypeOK
    <3>3. CASE ~asmline /\ ~EQU /\ ~SET
      BY <1>2, <3>3, TableStays
    <3>4. QED
      BY <3>1, <3>2, <3>3
  <2>2. QED
    BY <1>2, <2>1, TableKept DEF PlacesKnown
<1>3. pass \in {0, 1, 2, 3}
  BY DEF TypeOK
<1>4. QED
  BY <1>1, <1>2, <1>3

\* Under the same assumption: an operand of the object that names a place, before
\* its line or after it, was written with the place where its line is loaded, unless
\* a line is marked.  A label that pass 2 finds elsewhere, long after it has written
\* the operands that name it, is marked then.
THEOREM ReferencesLoaded ==
    ASSUME NoEmptyWords
    PROVE  Spec => []ReferencesTrue
<1>1. Init => FullWords /\ Follows /\ LabelsRight /\ ItemsRight /\ PlacesKnown
  BY DEF Init, FullWords, Follows, LabelsRight, ItemsRight, Live, PlacesKnown
<1>2. (TypeOK /\ TodoRight) /\ FullWords /\ Follows /\ LabelsRight /\ ItemsRight /\ PlacesKnown /\ [Next]_vars
        => FullWords' /\ Follows' /\ LabelsRight' /\ ItemsRight' /\ PlacesKnown'
  BY FullWordsStep, FollowsStep, LabelsStep, ItemsStep, PlacesStep
<1>3. TypeOK /\ LabelsRight /\ ItemsRight /\ PlacesKnown => ReferencesTrue
  <2>1. SUFFICES ASSUME TypeOK, LabelsRight, ItemsRight, PlacesKnown, Clean,
                        NEW i \in DOMAIN object, object[i].of.base \in Names, Placed(object[i].of.base)
                 PROVE  LET w == object[i]
                            place == (where[w.of.base] + w.of.plus) % Word
                        IN  IF w.item = "disp"
                            THEN (place - w.at) % 2 = 0 => w.at + 2 + 2 * w.field = place
                            ELSE /\ w.field = place
                                 /\ Has(w.of.base, "REL") => w.item # "ABS2"
    BY DEF ReferencesTrue
  <2> DEFINE n == object[i].of.base
  <2>2. symtbl[n] # None /\ Plain(n) /\ NamesPlace(object[i], symtbl, Equated)
    BY <2>1 DEF Placed, Plain, PlacesKnown, NamesPlace, Has, Known
  <2>3. Live
    BY <2>1 DEF Clean, Live
  <2>4. symtbl[n].symvalu = where[n]
    BY <2>1, <2>2, <2>3 DEF LabelsRight, Disputed, Clean, Live
  <2>5. ItemRight(object[i], symtbl)
    BY <2>1, <2>2, <2>3 DEF ItemsRight
  <2>6. object[i].of.plus + where[n] = where[n] + object[i].of.plus
    <3>1. object \in Seq(Item)
      BY <2>1 DEF TypeOK, Item
    <3>2. object[i] \in Item
      BY <2>1, <3>1
    <3>3. object[i].of \in Operand
      BY <3>2 DEF Item
    <3>4. where[n] \in Nat \cup {None} /\ where[n] # None
      BY <2>1, <2>2 DEF TypeOK, Plain
    <3>5. object[i].of.plus \in Int
      BY <3>3, AsmAssumption DEF Operand
    <3>6. QED
      BY <3>4, <3>5
  <2>7. QED
    BY <2>4, <2>5, <2>6 DEF ItemRight, Has
<1>4. QED
  BY <1>1, <1>2, <1>3, TypeCorrect, PTL DEF Spec

-----------------------------------------------------------------------------
\* The names in the header are the entries of the table as pass 2 began, and so as
\* it ends; the value of an entry is the place of its line from that line on.
EntriesRight ==
    /\ pass = 2 => enames = EntryNames
    /\ pass = 3 => enames = {n \in Names : epoints[n] # None}
    /\ pass = 2 /\ Live => \A n \in EntryNames : where[n] # None => symtbl[n].symvalu = where[n]
    /\ pass = 3 /\ Live => \A n \in enames : where[n] # None => epoints[n] = where[n]

\* Pass 2 makes no entry and takes none away.
LEMMA EntryNamesKept ==
    ASSUME TypeOK, TodoRight, pass \in {2, 3}, [Next]_vars
    PROVE  EntryNames' = EntryNames
<1>1. \A n \in Names : (symtbl'[n] # None /\ "ENT" \in symtbl'[n].symflg)
                       <=> (symtbl[n] # None /\ "ENT" \in symtbl[n].symflg)
  BY TableKept
<1>2. QED
  BY <1>1 DEF EntryNames, Has, Known

\* The label field gives an entry the location of its line.
LEMMA EntriesAsmline ==
    ASSUME TypeOK, TodoRight, Follows, EntriesRight, pass = 2, asmline
    PROVE  EntriesRight'
<1>1. step = "line" /\ nbytes = 0 /\ UNCHANGED <<pass, module>> /\ pc \in Nat
  BY DEF asmline, TodoRight, TypeOK
<1>2. EntryNames' = EntryNames /\ (Live' => Live)
  BY EntryNamesKept, LiveKept DEF Next
<1>3. PICK l \in Lines :
         /\ where' = IF Labels(l) /\ Known(l.label) THEN [where EXCEPT ![l.label] = lc] ELSE where
         /\ symtbl' = IF Labels(l) /\ Has(l.label, "ENT")
                      THEN [symtbl EXCEPT ![l.label] = [@ EXCEPT !.symvalu = pc]] ELSE symtbl
         /\ Labels(l) => l.label \in Names
  BY LabelGiven
<1>4. ASSUME Live', NEW n \in EntryNames, where'[n] # None
      PROVE  symtbl'[n].symvalu = where'[n]
  <2>1. lc = pc
    BY <1>1, <1>2, <1>4 DEF Follows, Live
  <2>2. n \in Names /\ Has(n, "ENT") /\ Known(n)
    BY <1>4 DEF EntryNames, Has
  <2>3. CASE Labels(l) /\ l.label = n
    <3>1. where'[n] = lc /\ symtbl'[n] = [symtbl[n] EXCEPT !.symvalu = pc]
      BY <1>3, <2>2, <2>3 DEF TypeOK
    <3>2. symtbl[n] \in Entry
      BY <2>2 DEF TypeOK, Known
    <3>3. QED
      BY <2>1, <3>1, <3>2 DEF Entry
  <2>4. CASE ~(Labels(l) /\ l.label = n)
    <3>1. where'[n] = where[n] /\ symtbl'[n] = symtbl[n]
      BY <1>3, <2>4 DEF TypeOK
    <3>2. QED
      BY <1>2, <1>4, <3>1 DEF EntriesRight
  <2>5. QED
    BY <2>3, <2>4
<1>5. QED
  BY <1>1, <1>2, <1>4 DEF EntriesRight, module

\* EQU and SET of an entry leave it without a place.
LEMMA EntriesEqu ==
    ASSUME TypeOK, TodoRight, EntriesRight, pass = 2, EQU \/ SET
    PROVE  EntriesRight'
<1>1. UNCHANGED <<pass, module>>
  BY DEF EQU, SET
<1>2. EntryNames' = EntryNames /\ (Live' => Live)
  BY EntryNamesKept, LiveKept DEF Next
<1>3. ASSUME Live', NEW n \in EntryNames, where'[n] # None
      PROVE  symtbl'[n].symvalu = where'[n]
  <2>1. n \in Names
    BY <1>3 DEF EntryNames
  <2>2. symtbl'[n] = symtbl[n] /\ where'[n] = where[n]
    <3>1. CASE symtbl' = symtbl /\ where' = where
      BY <3>1
    <3>2. CASE ~(symtbl' = symtbl /\ where' = where)
      <4>1. PICK k \in Names, e \in Entry :
               symtbl' = [symtbl EXCEPT ![k] = e] /\ where' = [where EXCEPT ![k] = None]
        BY <3>2, ValueGiven
      <4>2. n # k
        BY <1>3, <2>1, <4>1 DEF TypeOK
      <4>3. QED
        BY <2>1, <4>1, <4>2 DEF TypeOK
    <3>3. QED
      BY <3>1, <3>2
  <2>3. QED
    BY <1>2, <1>3, <2>2 DEF EntriesRight
<1>4. QED
  BY <1>1, <1>2, <1>3 DEF EntriesRight, module

\* END writes the values the entries have.
LEMMA EntriesEnd ==
    ASSUME TypeOK, TodoRight, EntriesRight, END
    PROVE  EntriesRight'
<1>1. pass \in {1, 2} /\ UNCHANGED table /\ enames' = enames /\ errors' = errors /\ step = "op"
  BY DEF END, Doing, TodoRight
<1>2. CASE pass = 1
  BY <1>1, <1>2 DEF END, EntriesRight
<1>3. CASE pass = 2
  <2>1. pass' = 3 /\ epoints' = [n \in Names |-> IF n \in EntryNames THEN symtbl[n].symvalu ELSE None]
    BY <1>3 DEF END
  <2>2. \A n \in EntryNames : n \in Names /\ symtbl[n].symvalu # None
    <3>1. \A n \in EntryNames : n \in Names /\ symtbl[n] \in Entry
      BY DEF EntryNames, Has, Known, TypeOK
    <3>2. \A n \in EntryNames : symtbl[n].symvalu \in Nat
      BY <3>1 DEF Entry
    <3>3. QED
      BY <3>1, <3>2, AsmAssumption
  <2>3. enames = EntryNames
    BY <1>3 DEF EntriesRight
  <2>4. enames' = {n \in Names : epoints'[n] # None}
    BY <1>1, <2>1, <2>2, <2>3
  <2>5. Live' => \A n \in enames' : where'[n] # None => epoints'[n] = where'[n]
    <3>1. Live' => Live
      BY <1>1, <1>3 DEF Live
    <3>2. \A n \in EntryNames : epoints'[n] = symtbl[n].symvalu
      BY <2>1, <2>2
    <3>3. QED
      BY <1>1, <1>3, <2>3, <3>1, <3>2 DEF EntriesRight, table
  <2>6. QED
    BY <2>1, <2>4, <2>5 DEF EntriesRight
<1>4. QED
  BY <1>1, <1>2, <1>3

LEMMA EntriesStep ==
    ASSUME TypeOK, TodoRight, Follows, LabelsRight, EntriesRight, [Next]_vars
    PROVE  EntriesRight'
<1>1. CASE pass \in {0, 1} /\ ~Pass2
  <2>1. pass' \in {0, 1} \/ END
    BY <1>1 DEF Next, vars, asmline, AORG, EQU, SET, DataItem, BSS, EVEN, ENT, EXT, DXOP, NAM, IF_, ELSE_ENDI,
           Format1, Format7, Format6, Format2, wipeout, NextLine, Finish
  <2>2. QED
    BY <2>1, EntriesEnd DEF EntriesRight
<1>2. CASE Pass2
  <2>1. /\ pass = 0 /\ pass' = 2 /\ enames' = EntryNames /\ UNCHANGED table
    BY <1>2 DEF Pass2
  <2>2. EntryNames' = EntryNames /\ \A n \in Names : where'[n] = None
    BY <2>1 DEF EntryNames, Has, Known, table, LabelsRight
  <2>3. EntryNames' \subseteq Names
    BY <2>2 DEF EntryNames
  <2>4. QED
    BY <2>1, <2>2, <2>3 DEF EntriesRight
<1>3. CASE pass \in {2, 3} /\ asmline
  <2>1. pass = 2
    BY <1>3 DEF asmline, TodoRight
  <2>2. QED
    BY <1>3, <2>1, EntriesAsmline
<1>4. CASE pass \in {2, 3} /\ (EQU \/ SET)
  BY <1>4, EntriesEqu DEF EQU, SET, Doing, TodoRight
<1>5. CASE pass \in {2, 3} /\ END
  BY <1>5, EntriesEnd
<1>6. CASE pass \in {2, 3} /\ ~asmline /\ ~EQU /\ ~SET /\ ~END
  <2>1. EntryNames' = EntryNames /\ (Live' => Live) /\ UNCHANGED <<symtbl, where>>
    BY <1>6, EntryNamesKept, LiveKept, TableStays
  <2>2. UNCHANGED <<pass, enames, epoints>>
    BY <1>6 DEF Next, vars, AORG, DataItem, BSS, EVEN, ENT, EXT, DXOP, NAM, IF_, ELSE_ENDI,
           Format1, Format7, Format6, Format2, wipeout, NextLine, Pass2, Finish, module
  <2>3. QED
    BY <2>1, <2>2 DEF EntriesRight
<1>7. pass \in {0, 1, 2, 3}
  BY DEF TypeOK
<1>8. QED
  BY <1>1, <1>2, <1>3, <1>4, <1>5, <1>6, <1>7 DEF Pass2

\* Under the same assumption: unless a line is marked, every word of an instruction
\* that names an external is in the list of references at the place where it is
\* loaded, and the entries of the module are where the header and END say.
THEOREM HeaderLoaded ==
    ASSUME NoEmptyWords
    PROVE  Spec => []HeaderTrue
<1>1. Init => FullWords /\ Follows /\ LabelsRight /\ ItemsRight /\ EntriesRight
  BY DEF Init, FullWords, Follows, LabelsRight, ItemsRight, Live, EntriesRight
<1>2. (TypeOK /\ TodoRight) /\ FullWords /\ Follows /\ LabelsRight /\ ItemsRight /\ EntriesRight /\ [Next]_vars
        => FullWords' /\ Follows' /\ LabelsRight' /\ ItemsRight' /\ EntriesRight'
  BY FullWordsStep, FollowsStep, LabelsStep, ItemsStep, EntriesStep
<1>3. ItemsRight => ExternalsListed
  <2>1. Clean => Live
    BY DEF Clean, Live
  <2>2. QED
    BY <2>1 DEF ItemsRight, Listed, ExternalsListed, Has, Known
<1>4. EntriesRight => EntriesTrue
  <2>1. Clean => Live
    BY DEF Clean, Live
  <2>2. QED
    BY <2>1 DEF EntriesRight, EntriesTrue
<1>5. QED
  BY <1>1, <1>2, <1>3, <1>4, TypeCorrect, PTL DEF Spec, HeaderTrue

=============================================================================
