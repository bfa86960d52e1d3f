------------------------------ MODULE Operands ------------------------------
(***************************************************************************)
(* How the R99 assembler reads an operand in pass 2: getitem, getnum and   *)
(* backitem of R99GET.c, eval and getprec of R99EVAL.c.                    *)
(*                                                                         *)
(* The rest of the line is a sequence of tokens: a name, a number (its     *)
(* digits and base letter), a quoted string, or one character of an        *)
(* operator.  A character stands for its code, a digit for its value.  The *)
(* flags of a name are constants here; Assembler says how they come about. *)
(* The operators that are spelled out, which chkoprat no longer knows,     *)
(* division, and numbers after % are left out.  The state that getitem and *)
(* eval share with the operations of a line is a record, threaded through  *)
(* the operators as the globals are through the calls.                     *)
(***************************************************************************)
EXTENDS SymTab, Integers, Sequences, SequencesExt

CONSTANTS Rel,      \* names with RELBIT
          Ext       \* names with EXTBIT

Modulus == 65536

\* The characters that end a number and are no digit above 9, or no digit at all.
LetterH == 17
LetterO == 24
LetterQ == 26

\* A line at the start of asmline: its tokens, the item pushed back, the error letter
\* and the flags; what it has written, how long it is, and the externals it refers to.
\* The addressing mode is that of the last operand of the last instruction.
Fresh(tokens, mode, pass, pc) ==
    [toks |-> tokens, back |-> <<>>, err |-> "", evalerr |-> FALSE, addrmode |-> mode,
     quitflag |-> FALSE, itemflg |-> FALSE, relflg |-> FALSE,
     pass |-> pass, pc |-> pc, nbytes |-> 0, recs |-> <<>>, refs |-> <<>>]

markerr(letter, s) == IF s.err = "" THEN [s EXCEPT !.err = letter] ELSE s

Fail(letter, s) == [markerr(letter, s) EXCEPT !.evalerr = TRUE]

Item(attr, value, s) == [attr |-> attr, value |-> value, s |-> s]

backitem(value, attr, s) == [s EXCEPT !.back = <<attr, value>>]

-----------------------------------------------------------------------------
(* Numbers.                                                                *)

\* The last character may be the letter of a base; B and D are digits elsewhere.
Base(digits) ==
    CASE Last(digits) = LetterH -> 16
      [] Last(digits) \in {LetterO, LetterQ} -> 8
      [] Last(digits) = 13 -> 10
      [] Last(digits) = 11 -> 2
      [] OTHER -> 10

HasBase(digits) == Last(digits) \in {LetterH, LetterO, LetterQ, 13, 11}

\* _aton.
aton(d, base) == IF d < 16 /\ d < base THEN d ELSE 0
DigitError(d, base) == IF d > 15 THEN "E" ELSE IF d >= base THEN "D" ELSE ""

\* getnum, which recurs to the end and adds the digits on the way back.
getnum(digits, s) ==
    LET base == Base(digits)
        ds == IF HasBase(digits) THEN Front(digits) ELSE digits
        wrong == {i \in DOMAIN ds : DigitError(ds[i], base) # ""}
        n == FoldLeft(LAMBDA m, d : (m * base + aton(d, base)) % Modulus, 0, ds)
    IN  Item("VALUE", n,
             IF wrong = {} THEN s
             ELSE Fail(DigitError(ds[CHOOSE i \in wrong : \A j \in wrong : j <= i], base), s))

-----------------------------------------------------------------------------
(* getitem.                                                                *)

Rest(s, n) == [s EXCEPT !.toks = SubSeq(@, n + 1, Len(@))]

Begins(toks, c) == toks # <<>> /\ Head(toks).kind = "op" /\ Head(toks).of = c

\* Two characters that are one operator, and what it is taken for.  <> is taken
\* for >=.
Composite ==
    [two \in {<<">", "=">>, <<">", "<">>, <<"=", ">">>, <<"=", "<">>, <<"<", ">">>, <<"<", "=">>} |->
        IF two = <<">", "<">> THEN "NOTEQ"
        ELSE IF two \in {<<"=", "<">>, <<"<", "=">>} THEN "LESEQ" ELSE "GRTEQ"]

OperatorItem(c, s) ==
    LET two == {d \in {">", "<", "="} : Begins(s.toks, d) /\ <<c, d>> \in DOMAIN Composite}
    IN  IF two = {} THEN Item("OPERATR", c, s)
        ELSE Item("OPERATR", Composite[<<c, CHOOSE d \in two : TRUE>>], Rest(s, 1))

\* A string is a number of up to two characters, the first in the high byte.
StringItem(chars, s) ==
    IF Len(chars) > 2 THEN Item("VALUE", 0, Fail("\"", s))
    ELSE Item("VALUE", FoldLeft(LAMBDA n, c : n * 256 + c, 0, chars), s)

\* A name that is not there is 0 here; the line is marked, and what it writes then is
\* what the value held before.  A name in the table has its value.  In pass 2 it leaves its flags, and an external
\* is 0 and goes on the list of references, at the word that nbytes ends with.
NameItem(n, s) ==
    IF \E k \in Probes : Found(n, k)
    THEN LET v == symtbl[Probe(n, CHOOSE k \in Probes : Found(n, k))].symvalu IN
         IF s.pass = 1 THEN Item("VALUE", v, s)
         ELSE Item("VALUE", IF n \in Ext THEN 0 ELSE v,
                   [s EXCEPT !.itemflg = @ \/ n \in Rel, !.relflg = n \in Rel,
                             !.refs = IF n \in Ext THEN Append(@, <<n, s.pc + s.nbytes - 2>>) ELSE @])
    ELSE Item("VALUE", 0, Fail("U", s))

getitem(s) ==
    IF s.back # <<>> THEN Item(s.back[1], s.back[2], [s EXCEPT !.back = <<>>])
    ELSE IF s.toks = <<>> THEN Item("END_LIN", 0, s)
    ELSE LET t == Head(s.toks)
             r == Rest(s, 1)
         IN  CASE t.kind = "comma" -> Item("COMMA", 0, r)
               [] t.kind = "num" -> getnum(t.of, r)
               [] t.kind = "str" -> StringItem(t.of, r)
               [] t.kind = "name" -> NameItem(t.of, r)
               [] t.kind = "op" -> OperatorItem(t.of, r)

-----------------------------------------------------------------------------
(* eval.                                                                   *)

MULT == 1
ADDIT == 2
RELAT == 3
RPREN == 8
LPREN == 9
START == 11

\* Mutated form: + and - bind as loosely as the relations.
getprecBug(op) == IF op = ")" THEN RPREN ELSE IF op = "*" THEN MULT ELSE RELAT

getprec(op) ==
    CASE op = "*" -> MULT
      [] op \in {"+", "-"} -> ADDIT
      [] op = ")" -> RPREN
      [] OTHER -> RELAT

Signed(w) == IF w >= Modulus \div 2 THEN w - Modulus ELSE w

Truth(b) == IF b THEN Modulus - 1 ELSE 0

Computed(op, v, w) ==
    CASE op = "+" -> (v + w) % Modulus
      [] op = "-" -> (v - w) % Modulus
      [] op = "*" -> (Signed(v) * Signed(w)) % Modulus
      [] op = "=" -> Truth(v = w)
      [] op = "NOTEQ" -> Truth(v # w)
      [] op = ">" -> Truth(Signed(v) > Signed(w))
      [] op = "<" -> Truth(Signed(v) < Signed(w))
      [] op = "GRTEQ" -> Truth(Signed(v) >= Signed(w))
      [] op = "LESEQ" -> Truth(Signed(v) <= Signed(w))

Answer(v, s) == [v |-> v, s |-> s]

Negated(e) == Answer((0 - e.v) % Modulus, e.s)

\* The place of the line is a label of the module.
Placed(e) == Answer((e.v + e.s.pc) % Modulus, [e.s EXCEPT !.relflg = TRUE])

\* A comma, or the end of the line, is left to the caller.
Closed(prec, v, attr, s) ==
    LET r == backitem(0, attr, IF prec = LPREN THEN Fail("(", s) ELSE s)
    IN  Answer(IF r.evalerr THEN 0 ELSE v, r)

RECURSIVE eval(_, _), Begun(_, _), More(_, _, _), After(_, _, _), Operator(_, _, _, _), Applied(_, _, _, _)

Applied(prec, v, op, right) ==
    IF right.s.quitflag THEN Answer(Computed(op, v, right.v), right.s)
    ELSE More(prec, Computed(op, v, right.v), right.s)

\* An operator after the value v: one of an addressing mode ends the expression,
\* one that binds no tighter is left to the caller.
Operator(prec, v, op, s) ==
    CASE op = "+" /\ s.addrmode = "INDIRECT" -> Answer(v, [s EXCEPT !.addrmode = "AUTOINC"])
      [] op = ")" /\ s.addrmode = "INDEXED" -> Answer(v, s)
      [] op = "(" /\ s.addrmode = "SYMBOLIC" ->
            Answer(v, [s EXCEPT !.addrmode = "INDEXED", !.quitflag = TRUE])
      [] op = "(" /\ s.addrmode # "SYMBOLIC" -> More(prec, v, Fail("E", s))
      [] OTHER ->
            IF prec <= getprec(op) THEN Answer(v, backitem(op, "OPERATR", s))
            ELSE IF op = ")" THEN IF prec = LPREN THEN Answer(v, s)
                                  ELSE More(prec, v, Fail("(", s))
            ELSE Applied(prec, v, op, eval(getprec(op), s))

\* What follows the value v.
After(prec, v, g) ==
    CASE g.attr \in {"COMMA", "END_LIN"} -> Closed(prec, v, g.attr, g.s)
      [] g.attr = "VALUE" -> More(prec, v, Fail("E", g.s))
      [] g.attr = "OPERATR" -> Operator(prec, v, g.value, [g.s EXCEPT !.quitflag = FALSE])

More(prec, v, s) == After(prec, v, getitem(s))

\* A sign, and $, take the whole rest of the expression; a parenthesis ends it.
Begun(prec, g) ==
    CASE g.attr = "COMMA" ->
            Answer(0, Fail("E", IF prec # START THEN backitem(0, "COMMA", g.s) ELSE g.s))
      [] g.attr = "END_LIN" -> Answer(0, Fail("E", backitem(0, "END_LIN", g.s)))
      [] g.attr = "VALUE" -> More(prec, g.value, g.s)
      [] g.attr = "OPERATR" /\ g.value = "-" -> Negated(eval(START, g.s))
      [] g.attr = "OPERATR" /\ g.value = "+" -> eval(START, g.s)
      [] g.attr = "OPERATR" /\ g.value = "(" -> eval(LPREN, g.s)
      [] g.attr = "OPERATR" /\ g.value = "$" -> Placed(eval(START, g.s))
      [] g.attr = "OPERATR" /\ g.value \notin {"-", "+", "(", "$"} -> eval(prec, Fail("E", g.s))

eval(prec, s) == Begun(prec, getitem(s))
=============================================================================
