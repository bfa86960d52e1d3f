---------------------------- MODULE ExprCompiler ----------------------------
(* The expression engine of SmallC99 (overlays/CC_EXPR_A.C to CC_EXPR_D.C): *)
(* it reads an expression once, from left to right, and stages p-codes for  *)
(* a machine of two registers, R4 the primary and R3 the secondary, and a   *)
(* stack.  Code it finds out it does not need (a constant, a push before a  *)
(* constant, a comparison with zero in a test) is taken back out of the     *)
(* stage.  Here the source is a tree, compiled in one step by expression()  *)
(* or by test(), and the code is then run one p-code at a step against      *)
(* what C says of the tree.                                                 *)
(*                                                                          *)
(* A tree stands for its text with the parentheses it needs, so the levels  *)
(* of precedence are one recursive operator.  Structures, rows of arrays,   *)
(* sizeof, strings, calls through a pointer and the bit and division        *)
(* operators (which go the way of the other binary operators) are left out. *)
EXTENDS Integers, Sequences, FiniteSets, SequencesExt

CONSTANTS Inputs,      \* pairs of a tree and "value" or "test"
          Memories,    \* initial memories: functions from addresses to bytes
          Sym,         \* variables: [ident, type, local, addr]
          Junk         \* what a call leaves in the secondary register

CHR == 4
INT == 8
UCHR == 5
UINT == 9
Word == 65536

VARIABLES tree,        \* what is compiled
          mode,        \* "value": doexpr(), "test": test() with a label
          before,      \* history: the memory the code is run from
          code,        \* the p-codes, each with the depth csp it was staged at
          at,          \* "source", "running", "end", "jumped" or "refused"
          pc, R3, R4, stack, mem

machine == <<pc, R3, R4, stack, mem>>
vars == <<tree, mode, before, code, at, machine>>

(***************************************************************************)
(* Types: bit 0 is unsigned, bits 6 and 7 count the levels of pointer.     *)
(***************************************************************************)
elsize(type) == IF type \in {CHR, UCHR} THEN 1 ELSE 2

UnsignedType(type) == type % 2 = 1

Word16(n) == n % Word
Signed(w) == IF w >= Word \div 2 THEN w - Word ELSE w

Truth(b) == IF b THEN 1 ELSE 0

\* What an operator makes of two words, as signed or as unsigned ones.
Computed(op, u, a, b) ==
    LET x == IF u THEN a ELSE Signed(a)
        y == IF u THEN b ELSE Signed(b)
    IN CASE op = "+" -> Word16(a + b)
         [] op = "-" -> Word16(a - b)
         [] op = "*" -> Word16(Signed(a) * Signed(b))
         [] op = "==" -> Truth(a = b)
         [] op = "!=" -> Truth(a # b)
         [] op = "<" -> Truth(x < y)
         [] op = ">" -> Truth(x > y)
         [] op = "<=" -> Truth(x <= y)
         [] op = ">=" -> Truth(x >= y)

Comparisons == {"==", "!=", "<", ">", "<=", ">="}

(***************************************************************************)
(* The stage.  A compilation is a record of the code staged so far, the    *)
(* compiler's stack depth, the last label, and what is known of the        *)
(* expression just read: the array "is" and the flag k that says it is an  *)
(* address still to be fetched from.                                       *)
(***************************************************************************)
NoIs == [ST |-> "", TI |-> 0, TA |-> 0, TC |-> 0, CV |-> 0,
         OP |-> "", SA |-> 0]

Clear == [code |-> <<>>, csp |-> 0, lab |-> 0, is |-> NoIs, k |-> 0]

gen(s, pcode, value) ==
    LET moved == IF pcode \in {"GETb1pu", "GETb1p", "GETw1p"}
                 THEN Append(s.code, [op |-> "MOVE21", n |-> 0, sp |-> s.csp])
                 ELSE s.code
        csp == CASE pcode = "PUSH1" -> s.csp - 2
                 [] pcode = "POP2" -> s.csp + 2
                 [] pcode = "ADDSP" -> value
                 [] OTHER -> s.csp
        n == IF pcode = "ADDSP" THEN value - s.csp ELSE value
    IN [s EXCEPT !.code = Append(moved, [op |-> pcode, n |-> n, sp |-> csp]),
                 !.csp = csp]

getlabel(s) == [s EXCEPT !.lab = @ + 1]

Known(s, is, k) == [s EXCEPT !.is = is, !.k = k]

fetch(s) ==
    LET is == s.is
        type == Sym[is.ST].type
        direct == is.TI = 0
        word == IF direct THEN Sym[is.ST].ident = "POINTER" \/ elsize(type) = 2
                          ELSE elsize(is.TI) = 2
        pcode == CASE word -> IF direct THEN "GETw1m" ELSE "GETw1p"
                   [] ~word /\ UnsignedType(type) ->
                        IF direct THEN "GETb1mu" ELSE "GETb1pu"
                   [] OTHER -> IF direct THEN "GETb1m" ELSE "GETb1p"
    IN gen(s, pcode, IF direct THEN Sym[is.ST].addr ELSE 0)

Fetched(s) == IF s.k = 1 THEN fetch(s) ELSE s

store(s, is) ==
    LET direct == is.TI = 0
        byte == IF direct THEN Sym[is.ST].ident # "POINTER"
                               /\ elsize(Sym[is.ST].type) = 1
                          ELSE elsize(is.TI) = 1
        pcode == IF byte THEN IF direct THEN "PUTbm1" ELSE "PUTbp1"
                         ELSE IF direct THEN "PUTwm1" ELSE "PUTwp1"
    IN gen(s, pcode, IF direct THEN Sym[is.ST].addr ELSE 0)

\* (The word-sized structures are left out: a factor is 1 or 2.)
scale1(s, n) == IF n = 2 THEN gen(s, "DBL1", 0) ELSE s
scale2(s, n) == IF n = 2 THEN gen(s, "DBL2", 0) ELSE s

nosign(is) ==
    \/ is.TA # 0
    \/ is.TC = UINT
    \/ is.ST # "" /\ UnsignedType(Sym[is.ST].type)

\* The p-code of an operator, as the tables op[] and op2[] have it.
Oper(op, unsigned) ==
    CASE op = "+" -> "ADD12"
      [] op = "-" -> "SUB12"
      [] op = "*" -> IF unsigned THEN "MUL12u" ELSE "MUL12"
      [] op = "==" -> "EQ12"
      [] op = "!=" -> "NE12"
      [] op = "<" -> IF unsigned THEN "LT12u" ELSE "LT12"
      [] op = ">" -> IF unsigned THEN "GT12u" ELSE "GT12"
      [] op = "<=" -> IF unsigned THEN "LE12u" ELSE "LE12"
      [] op = ">=" -> IF unsigned THEN "GE12u" ELSE "GE12"

\* Mutated form: an address is scaled by an address.
doubl2Bug(op, is1, is2) ==
    IF op \notin {"+", "-"} \/ is1.TA = 0 THEN 1 ELSE elsize(is1.TA)

\* The factor the operand is2 of an operator takes from its other operand.
doubl2(op, is1, is2) ==
    IF op \notin {"+", "-"} \/ is1.TA = 0 \/ is2.TA # 0
    THEN 1 ELSE elsize(is1.TA)

\* The lvalue for an element of type e, after * or [ ].
lvtype(s, e) ==
    Known(s, IF e >= 64 THEN [s.is EXCEPT !.TI = UINT, !.TA = e - 64]
                        ELSE [s.is EXCEPT !.TI = e, !.TA = 0], 1)

dropout(s, tcode, exit1) ==
    gen(IF s.k = 1 THEN fetch(s)
        ELSE IF s.is.TC # 0 THEN gen(s, "GETw1n", s.is.CV) ELSE s,
        tcode, exit1)

step(s, oper, oper2) ==
    LET n == IF s.is.TA # 0 THEN elsize(s.is.TA) ELSE 1
        Back(r) == IF oper2 = "" THEN r ELSE gen(r, oper2, n)
    IN Known(Back(store(gen(fetch(s), oper, n), s.is)), s.is, 0)

number(s, v) ==
    Known(gen(s, "GETw1n", v),
          [NoIs EXCEPT !.TC = IF v >= Word \div 2 THEN UINT ELSE INT,
                       !.CV = v], 0)

\* A variable: a local one is addressed through the frame (a scalar char
\* lives in the odd byte of its word), a global one by its name.
primary(s, name) ==
    LET y == Sym[name]
        odd == y.local /\ y.ident = "VARIABLE" /\ elsize(y.type) = 1
        named == [NoIs EXCEPT !.ST = name]
        addressed == [named EXCEPT !.TI = y.type]
    IN CASE y.local \/ y.ident = "ARRAY" ->
              LET g == gen(s, IF y.local THEN "POINT1s" ELSE "POINT1m",
                           y.addr + Truth(odd))
              IN CASE y.ident = "ARRAY" ->
                        Known(g, [addressed EXCEPT !.TA = y.type], 0)
                   [] y.ident = "POINTER" ->
                        Known(g, [named EXCEPT !.TI = UINT, !.TA = y.type], 1)
                   [] OTHER -> Known(g, addressed, 1)
         [] y.ident = "POINTER" ->
              Known(s, [named EXCEPT !.TA = y.type], 1)
         [] OTHER -> Known(s, named, 1)

\* Mutated form: is[SA] is left, and the comparison below is tested.
UnaryBug(s, op) ==
    Known(gen(Fetched(s), CASE op = "!" -> "LNEG1" [] op = "-" -> "ANEG1"
                            [] op = "~" -> "COM1", 0), s.is, 0)

\* The unary operators, after their operand.
Unary(s, op) ==
    LET g == gen(Fetched(s), CASE op = "!" -> "LNEG1" [] op = "-" -> "ANEG1"
                               [] op = "~" -> "COM1", 0)
        v == CASE op = "!" -> Truth(s.is.CV = 0)
               [] op = "-" -> Word16(-s.is.CV)
               [] op = "~" -> Word16(-1 - s.is.CV)
    IN Known(g, [s.is EXCEPT !.CV = v, !.SA = 0], 0)

Indirect(s) ==
    LET g == Fetched(s)
        pointee == CASE s.is.TA # 0 -> s.is.TA
                     [] s.is.TA = 0 /\ s.is.ST # "" -> Sym[s.is.ST].type
                     [] OTHER -> INT
        r == lvtype(g, pointee)
    IN [r EXCEPT !.is.SA = 0, !.is.TC = 0, !.is.CV = 1]

Address(s) ==
    LET is == s.is
        y == Sym[is.ST]
        ta == CASE is.TI = UINT /\ is.TA # 0 -> is.TA + 64
                [] is.TI # 0 /\ ~(is.TI = UINT /\ is.TA # 0) -> is.TI
                [] OTHER -> y.type + (IF y.ident = "POINTER" THEN 64 ELSE 0)
    IN IF is.TI # 0 THEN Known(s, [is EXCEPT !.TA = ta], 0)
       ELSE Known(gen(s, "POINT1m", y.addr),
                  [is EXCEPT !.TA = ta, !.TI = y.type], 0)

\* A constant operand is loaded when it is known what with.
Unloaded(r, s) == IF r.is.TC # 0 THEN [r EXCEPT !.code = s.code] ELSE r

RECURSIVE Level(_, _), Skim(_, _, _, _), Pushed(_, _)

\* down1(): one operand at any level.
down1(s, t) == Unloaded(Level(s, t), s)

\* level1(): a constant is loaded, an assignment is compiled by Level.
ConstLoaded(s) == IF s.is.TC # 0 THEN gen(s, "GETw1n", s.is.CV) ELSE s

level1(s, t) == ConstLoaded(down1(s, t))

\* Mutated form: the depth still counts the push.
UnpushedBug(r, s) == [r EXCEPT !.code = s.code]

\* The push before an operand that is a constant is taken back, and the
\* depth with it.
Unpushed(r, s) == [r EXCEPT !.code = s.code, !.csp = @ + 2]

\* The first half of down2(): the operand at s is known, t is read, and the
\* two are brought into R3 and R4.  Returns the code with both arrays.
ConstOperand(is, op, r) ==
    LET sa == IF is.CV = 0 THEN Len(r.code) + 1 ELSE 0
    IN [s |-> gen(r, "GETw2n", Word16(is.CV * doubl2(op, r.is, is))),
        is |-> [is EXCEPT !.SA = sa], is2 |-> r.is]

OperandConst(s, is, op, r) ==
    LET n == Word16(r.is.CV * doubl2(op, is, r.is))
        sa == IF r.is.CV = 0 THEN Len(s.code) + 1 ELSE 0
    IN [s |-> IF op = "+" THEN gen(Unpushed(r, s), "GETw2n", n)
              ELSE gen(gen(Unpushed(r, s), "MOVE21", 0), "GETw1n", n),
        is |-> [is EXCEPT !.SA = sa], is2 |-> r.is]

Operands(is, op, r) ==
    [s |-> scale2(scale1(gen(r, "POP2", 0), doubl2(op, is, r.is)),
                  doubl2(op, r.is, is)),
     is |-> is, is2 |-> r.is]

Operand(s, op, t) ==
    LET is == [s.is EXCEPT !.SA = 0]
        Pushing(r) == IF r.is.TC # 0 THEN OperandConst(s, is, op, r)
                      ELSE Operands(is, op, r)
    IN IF is.TC # 0 THEN ConstOperand(is, op, Fetched(down1(s, t)))
       ELSE Pushing(Fetched(down1(gen(s, "PUSH1", 0), t)))

\* The second half of down2(): what is known of the result, ...
Addresses(op, is, is2) ==
    CASE op \in {"+", "-"} /\ is.TA # 0 /\ is2.TA # 0 -> [is EXCEPT !.TA = 0]
      [] op \in {"+", "-"} /\ is.TA = 0 /\ is2.TA # 0 ->
           [is EXCEPT !.ST = is2.ST, !.TI = is2.TI, !.TA = is2.TA]
      [] OTHER -> is

UnsignedFrom(is2, is) ==
    IF is.ST = "" \/ (is2.ST # "" /\ UnsignedType(Sym[is2.ST].type))
    THEN [is EXCEPT !.ST = is2.ST] ELSE is

\* ... and its code: none for two constants, and the difference of two
\* pointers to words is halved.
Operated(s, op, q) ==
    LET unsigned == nosign(q.is) \/ nosign(q.is2)
        constant == q.is.TC # 0 /\ q.is2.TC # 0
        is == IF constant
              THEN [q.is EXCEPT !.TC = IF q.is2.TC = UINT THEN UINT ELSE INT,
                                !.CV = Computed(op, unsigned, @, q.is2.CV)]
              ELSE [q.is EXCEPT !.TC = 0, !.OP = Oper(op, unsigned)]
        apart == op = "-" /\ q.is.TA # 0 /\ q.is2.TA # 0
                 /\ elsize(q.is.TA) = 2 /\ elsize(q.is2.TA) = 2
        Halved(g) == IF apart THEN gen(gen(gen(g, "SWAP12", 0), "GETw1n", 1),
                                       "ASR12", 0) ELSE g
    IN Known(IF constant THEN [q.s EXCEPT !.code = s.code]
             ELSE Halved(gen(q.s, Oper(op, unsigned), 0)),
             UnsignedFrom(q.is2, Addresses(op, is, q.is2)), 0)

\* down(): a binary operator.
Binary(s, op, l, r) ==
    LET After(left) == Operated(left, op, Operand(left, op, r))
    IN After(Fetched(down1(s, l)))

\* skim(): the operands of || or && one after the other, each leaving for
\* droplab; then the two values.
Skim(s, ts, tcode, droplab) ==
    IF ts = <<>> THEN s
    ELSE Skim(dropout(down1(s, Head(ts)), tcode, droplab), Tail(ts), tcode,
              droplab)

\* (The label comes after the first operand in the code; only its number
\* differs.)
skim(s, op, ts) ==
    LET and == op = "&&"
        Values(r, droplab, endlab) ==
            gen(gen(gen(gen(gen(r, "GETw1n", Truth(and)), "JMPm", endlab),
                        "LABm", droplab), "GETw1n", Truth(~and)), "LABm", endlab)
        Ends(r, droplab) ==
            Known(Values(r, droplab, r.lab),
                  [r.is EXCEPT !.TI = 0, !.TA = 0, !.TC = 0, !.CV = 0, !.SA = 0], 0)
        Starts(start) ==
            Ends(getlabel(Skim(start, ts, IF and THEN "NE10f" ELSE "EQ10f",
                               start.lab)), start.lab)
    IN Starts(getlabel(s))

Loaded(s) == IF s.k = 1 THEN fetch(s) ELSE ConstLoaded(s)

\* level2(): c ? a : b.  r1, r2 and r3 are the code after each of them.
Chosen(r1, r2, r3) ==
    LET is == CASE r2.is.TC # 0 /\ r3.is.TC # 0 -> NoIs
                [] r2.is.TC = 0 /\ r3.is.TC # 0 -> r2.is
                [] OTHER -> r3.is
    IN Known(gen(r3, "LABm", r2.lab),
             [r1.is EXCEPT !.TC = 0, !.CV = 0, !.TA = is.TA,
                           !.TI = is.TI, !.SA = is.SA], 0)

Conditional(s, c, a, b) ==
    LET Second(r1, r2) ==
            Chosen(r1, r2, Loaded(down1(gen(gen(r2, "JMPm", r2.lab),
                                            "LABm", r1.lab), b)))
        First(r1) ==
            Second(r1, getlabel(Loaded(down1(dropout(r1, "NE10f", r1.lab), a))))
    IN First(getlabel(down1(s, c)))

\* level14(): a subscript, of an address known in r and fetched in base.
Subscripted(r, base, q) ==
    LET size == elsize(r.is.TA)
        known == [q.s EXCEPT !.code = base.code]
        g == CASE q.is2.TC # 0 /\ q.is2.CV = 0 -> known
               [] q.is2.TC # 0 /\ q.is2.CV # 0 ->
                    gen(gen(known, "GETw2n", Word16(q.is2.CV * size)), "ADD12", 0)
               [] OTHER -> gen(scale1(q.s, size), "ADD12", 0)
    IN lvtype([g EXCEPT !.is = r.is], r.is.TA)

Subscript(s, a, i) ==
    LET Fetching(r, base) ==
            Subscripted(r, base, Operand([base EXCEPT !.is.TC = 0], "", i))
        Reading(r) == Fetching(r, Fetched(r))
    IN Reading(Level(s, a))

\* callfunc(): the arguments pushed in order, the call, and the stack given
\* back.
Pushed(s, ts) ==
    IF ts = <<>> THEN s
    ELSE Pushed(gen(Fetched(level1(s, Head(ts))), "PUSH1", 0), Tail(ts))

callfunc(s, ts) ==
    LET Called(r) == Known(gen(r, "ADDSP", r.csp + 2 * Len(ts)), NoIs, 0)
    IN Called(gen(gen(Pushed(s, ts), "ARGCNTn", Len(ts)), "CALLm", 0))

\* level1(): an assignment, plain (op "") or with an operator.
Assignment(s, op, l, r) ==
    LET Taken(q) == Known(q.s, q.is, 0)
        Copied(target) ==
            IF target.is.TI # 0 THEN Taken(Operand(target, "", r))
            ELSE Known(Fetched(level1(target, r)), target.is, 0)
        Changed(left) == Operated(left, op, Operand(left, op, r))
        \* an address is kept on the stack while its object is read
        Kept(target) ==
            IF target.is.TI # 0 THEN gen(target, "PUSH1", 0) ELSE target
        Back(q, target) ==
            IF target.is.TI # 0 THEN gen(q, "POP2", 0) ELSE q
        Stored(target) ==
            store(IF op = "" THEN Copied(target)
                  ELSE Back(Changed(fetch(Kept(target))), target), target.is)
    IN Stored(down1(s, l))

Level(s, t) ==
    CASE t.k = "num" -> number(s, t.v)
      [] t.k = "var" -> primary(s, t.n)
      [] t.k = "un" -> Unary(Level(s, t.a), t.op)
      [] t.k = "at" -> Indirect(Level(s, t.a))
      [] t.k = "adr" -> Address(Level(s, t.a))
      [] t.k \in {"pre", "post"} ->
           step(Level(s, t.a), t.op, CASE t.k = "pre" -> ""
                                       [] t.op = "rINC1" -> "rDEC1"
                                       [] OTHER -> "rINC1")
      [] t.k = "bin" -> Binary(s, t.op, t.a, t.b)
      [] t.k = "log" -> skim(s, t.op, t.ts)
      [] t.k = "if" -> Conditional(s, t.c, t.a, t.b)
      [] t.k = "set" -> Assignment(s, t.op, t.a, t.b)
      [] t.k = "seq" -> level1(level1(s, t.a), t.b)
      [] t.k = "sub" -> Subscript(s, t.a, t.b)
      [] t.k = "call" -> callfunc(s, t.ts)

(***************************************************************************)
(* The lead-in functions.  A test jumps to the label 0 when it is false.   *)
(***************************************************************************)
expression(t) == Fetched(level1(Clear, t))

zerojump(s, oper) ==
    LET cut == [s EXCEPT !.code = SubSeq(@, 1, s.is.SA - 1)]
    IN IF oper = "" THEN cut ELSE gen(cut, oper, 0)

\* The jump for a comparison with zero; what is always true needs none.
ZeroJump(oper) ==
    CASE oper \in {"EQ12", "LE12u"} -> "EQ10f"
      [] oper \in {"NE12", "GT12u"} -> "NE10f"
      [] oper = "GT12" -> "GT10f"
      [] oper = "GE12" -> "GE10f"
      [] oper = "GE12u" -> ""
      [] oper = "LT12" -> "LT10f"
      [] oper = "LT12u" -> "JMPm"
      [] oper = "LE12" -> "LE10f"
      [] OTHER -> "none"

test(s) ==
    LET constant == s.is.TC # 0
        zero == s.is.TC = 0 /\ s.is.SA # 0
        oper == s.is.OP
    IN CASE constant /\ s.is.CV # 0 -> [s EXCEPT !.code = <<>>]
         [] constant /\ s.is.CV = 0 -> gen([s EXCEPT !.code = <<>>], "JMPm", 0)
         [] zero /\ ZeroJump(oper) # "none" -> zerojump(s, ZeroJump(oper))
         [] OTHER -> gen(s, "NE10f", 0)

compile ==
    LET Asked(s) == IF mode = "test" THEN test(s) ELSE s
    IN Asked(expression(tree))

(***************************************************************************)
(* The program: the source compiled, then its code run.  The words of      *)
(* memory are two bytes, the high one first; addresses wrap at its size.   *)
(***************************************************************************)
Init ==
    /\ \E i \in Inputs : tree = i[1] /\ mode = i[2]
    /\ before \in Memories
    /\ mem = before
    /\ code = <<>> /\ at = "source"
    /\ pc = 1 /\ R3 = Junk /\ R4 = Junk /\ stack = <<>>

Branches == {"NE10f", "EQ10f", "LT10f", "GT10f", "LE10f", "GE10f", "JMPm"}

Labelled(n) == {i \in DOMAIN code : code[i].op = "LABm" /\ code[i].n = n}

\* Every label the code jumps to is in the code once.
Assembles ==
    \A i \in DOMAIN code :
        code[i].op \in Branches /\ code[i].n # 0 =>
            Cardinality(Labelled(code[i].n)) = 1

\* (The assembler refuses a label that is missing or there twice.)
Compile ==
    /\ at = "source"
    /\ code' = compile.code
    /\ at' = IF Assembles' THEN "running" ELSE "refused"
    /\ UNCHANGED <<tree, mode, before, machine>>

Size == Cardinality(DOMAIN before)
Even(a) == (2 * (a \div 2)) % Size
WordAt(m, a) == 256 * m[Even(a)] + m[Even(a) + 1]
ByteAt(m, a) == m[a % Size]
SignedByte(b) == IF b >= 128 THEN Word - 256 + b ELSE b
WordPut(m, a, w) == [m EXCEPT ![Even(a)] = w \div 256,
                              ![Even(a) + 1] = w % 256]
BytePut(m, a, w) == [m EXCEPT ![a % Size] = w % 256]

Running == at = "running" /\ pc <= Len(code)
Op == code[pc].op
N == code[pc].n
Onward == pc' = pc + 1 /\ UNCHANGED <<tree, mode, before, code, at>>

\* The p-codes that load a register or work on R4 alone.
Load ==
    /\ Running
    /\ CASE Op = "MOVE21" -> R3' = R4 /\ UNCHANGED R4
         [] Op = "SWAP12" -> R3' = R4 /\ R4' = R3
         [] Op = "GETw2n" -> R3' = N /\ UNCHANGED R4
         [] Op = "DBL2" -> R3' = Word16(2 * R3) /\ UNCHANGED R4
         [] OTHER -> UNCHANGED R3 /\
              \/ Op \in {"GETw1n", "POINT1s", "POINT1m"} /\ R4' = N
              \/ Op = "DBL1" /\ R4' = Word16(2 * R4)
              \/ Op = "rINC1" /\ R4' = Word16(R4 + N)
              \/ Op = "rDEC1" /\ R4' = Word16(R4 - N)
              \/ Op = "ANEG1" /\ R4' = Word16(-R4)
              \/ Op = "COM1" /\ R4' = Word16(-1 - R4)
              \/ Op = "LNEG1" /\ R4' = Truth(R4 = 0)
    /\ Onward
    /\ UNCHANGED <<stack, mem>>

\* What the binary p-codes make of R3, the left operand, and R4.
Meaning ==
    [ADD12 |-> "+", SUB12 |-> "-", MUL12 |-> "*", MUL12u |-> "*",
     EQ12 |-> "==", NE12 |-> "!=", LT12 |-> "<", LT12u |-> "<",
     GT12 |-> ">", GT12u |-> ">", LE12 |-> "<=", LE12u |-> "<=",
     GE12 |-> ">=", GE12u |-> ">="]
UnsignedOps == {"MUL12u", "LT12u", "GT12u", "LE12u", "GE12u"}

\* (A helper may use R3; SUB12 leaves the difference in both registers.)
Operate ==
    /\ Running
    /\ \/ /\ Op \in DOMAIN Meaning
          /\ R4' = Computed(Meaning[Op], Op \in UnsignedOps, R3, R4)
       \/ /\ Op = "ASR12"
          /\ R4' = Word16(Signed(R3) \div 2^R4)
    /\ R3' = CASE Op = "ADD12" -> R3 [] Op = "SUB12" -> R4' [] OTHER -> Junk
    /\ Onward
    /\ UNCHANGED <<stack, mem>>

Fetch ==
    /\ Running
    /\ \/ Op = "GETw1m" /\ R4' = WordAt(mem, N)
       \/ Op = "GETw1p" /\ R4' = WordAt(mem, R3)
       \/ Op = "GETb1m" /\ R4' = SignedByte(ByteAt(mem, N))
       \/ Op = "GETb1mu" /\ R4' = ByteAt(mem, N)
       \/ Op = "GETb1p" /\ R4' = SignedByte(ByteAt(mem, R3))
       \/ Op = "GETb1pu" /\ R4' = ByteAt(mem, R3)
    /\ Onward
    /\ UNCHANGED <<R3, stack, mem>>

Store ==
    /\ Running
    /\ \/ Op = "PUTwm1" /\ mem' = WordPut(mem, N, R4)
       \/ Op = "PUTwp1" /\ mem' = WordPut(mem, R3, R4)
       \/ Op = "PUTbm1" /\ mem' = BytePut(mem, N, R4)
       \/ Op = "PUTbp1" /\ mem' = BytePut(mem, R3, R4)
    /\ Onward
    /\ UNCHANGED <<R3, R4, stack>>

\* The function that is called answers its first argument less its second.
Callee(args) == Word16(args[Len(args) - 1] - args[Len(args)])

Stack ==
    /\ Running
    /\ \/ /\ Op = "PUSH1"
          /\ stack' = Append(stack, R4) /\ UNCHANGED <<R3, R4>>
       \/ /\ Op = "POP2" /\ stack # <<>>
          /\ R3' = Last(stack) /\ stack' = Front(stack) /\ UNCHANGED R4
       \/ /\ Op = "ADDSP" /\ Len(stack) >= N \div 2
          /\ stack' = SubSeq(stack, 1, Len(stack) - N \div 2)
          /\ UNCHANGED <<R3, R4>>
       \/ /\ Op = "CALLm"
          /\ R4' = Callee(stack) /\ R3' = Junk /\ UNCHANGED stack
    /\ Onward
    /\ UNCHANGED mem

\* The p-codes that jump when R4, against zero, makes the condition false.
Holds == CASE Op = "NE10f" -> R4 # 0
           [] Op = "EQ10f" -> R4 = 0
           [] Op = "LT10f" -> Signed(R4) < 0
           [] Op = "GT10f" -> Signed(R4) > 0
           [] Op = "LE10f" -> Signed(R4) <= 0
           [] Op = "GE10f" -> Signed(R4) >= 0
           [] Op = "JMPm" -> FALSE
           [] Op \in {"LABm", "ARGCNTn"} -> TRUE

Branch ==
    /\ Running
    /\ Op \in Branches \cup {"LABm", "ARGCNTn"}
    /\ \/ /\ Holds
          /\ Onward
       \/ /\ ~Holds /\ N # 0
          /\ pc' \in Labelled(N)
          /\ UNCHANGED <<tree, mode, before, code, at>>
       \/ /\ ~Holds /\ N = 0
          /\ at' = "jumped"
          /\ UNCHANGED <<tree, mode, before, code, pc>>
    /\ UNCHANGED <<R3, R4, stack, mem>>

End ==
    /\ at = "running" /\ pc = Len(code) + 1
    /\ at' = "end"
    /\ UNCHANGED <<tree, mode, before, code, machine>>

\* (The program is over; any other state without a step is a fault.)
Done == at \in {"end", "jumped", "refused"} /\ UNCHANGED vars

Next == Compile \/ Load \/ Operate \/ Fetch \/ Store \/ Stack \/ Branch \/ End
        \/ Done

Spec == Init /\ [][Next]_vars

(***************************************************************************)
(* What C says of a tree: its type, the object it stands for, its value    *)
(* and what it does to memory.  Operands are read from left to right.  The *)
(* value of an assignment is what was assigned, before a char cuts it.     *)
(***************************************************************************)
Pointer(type) == type >= 64
Promoted(type) == IF type \in {CHR, UCHR} THEN INT ELSE type
Factor(type) == IF Pointer(type) THEN elsize(type - 64) ELSE 1

\* The type of two operands brought together.
Joined(t1, t2) ==
    CASE Pointer(t1) -> t1
      [] ~Pointer(t1) /\ Pointer(t2) -> t2
      [] OTHER -> IF UINT \in {t1, t2} THEN UINT ELSE INT

RECURSIVE TypeOf(_)
TypeOf(t) ==
    CASE t.k = "num" -> IF t.v >= Word \div 2 THEN UINT ELSE INT
      [] t.k = "var" -> Sym[t.n].type + (IF Sym[t.n].ident = "VARIABLE"
                                         THEN 0 ELSE 64)
      [] t.k = "un" -> IF t.op = "!" THEN INT ELSE Promoted(TypeOf(t.a))
      [] t.k = "at" -> TypeOf(t.a) - 64
      [] t.k = "sub" -> TypeOf(t.a) - 64
      [] t.k = "adr" -> TypeOf(t.a) + 64
      [] t.k \in {"pre", "post", "set"} -> Promoted(TypeOf(t.a))
      [] t.k = "bin" ->
           LET t1 == Promoted(TypeOf(t.a))
               t2 == Promoted(TypeOf(t.b))
           IN IF t.op \in Comparisons
                 \/ (t.op = "-" /\ Pointer(t1) /\ Pointer(t2))
              THEN INT ELSE Joined(t1, t2)
      [] t.k = "if" -> Joined(Promoted(TypeOf(t.a)), Promoted(TypeOf(t.b)))
      [] t.k = "seq" -> TypeOf(t.b)
      [] t.k \in {"log", "call"} -> INT

Object(m, a, type) ==
    CASE type = CHR -> SignedByte(ByteAt(m, a))
      [] type = UCHR -> ByteAt(m, a)
      [] OTHER -> WordAt(m, a)

Put(m, a, type, w) ==
    IF elsize(type) = 1 THEN BytePut(m, a, w) ELSE WordPut(m, a, w)

\* An operator on two values of the types t1 and t2.
Result(op, v1, t1, v2, t2) ==
    LET unsigned == Pointer(t1) \/ Pointer(t2) \/ Joined(t1, t2) = UINT
        difference == Computed("-", FALSE, v1, v2)
    IN CASE op = "-" /\ Pointer(t1) /\ Pointer(t2) ->
              Word16(Signed(difference) \div Factor(t1))
         [] op \in {"+", "-"} /\ ~(Pointer(t1) /\ Pointer(t2)) ->
              Computed(op, FALSE, v1 * Factor(t2), v2 * Factor(t1))
         [] OTHER -> Computed(op, unsigned, v1, v2)

RECURSIVE Means(_, _), All(_, _, _)
\* The values of a list of operands, one after the other.
All(ts, m, vs) ==
    IF ts = <<>> THEN [vs |-> vs, m |-> m]
    ELSE LET r == Means(Head(ts), m) IN All(Tail(ts), r.m, Append(vs, r.v))

\* The value v, the memory m after it, and the address a of the object.
Means(t, m) ==
    LET Value(v, n) == [v |-> v, m |-> n, a |-> -1]
        Named(a, n) == [v |-> Object(n, a, TypeOf(t)), m |-> n, a |-> a]
    IN CASE t.k = "num" -> Value(t.v, m)
         [] t.k = "var" ->
              LET y == Sym[t.n]
                  a == y.addr + Truth(y.local /\ y.ident = "VARIABLE"
                                      /\ elsize(y.type) = 1)
              IN IF y.ident = "ARRAY" THEN Value(a, m) ELSE Named(a, m)
         [] t.k = "un" ->
              LET r == Means(t.a, m)
              IN Value(CASE t.op = "!" -> Truth(r.v = 0)
                         [] t.op = "-" -> Word16(-r.v)
                         [] t.op = "~" -> Word16(-1 - r.v), r.m)
         [] t.k = "at" -> LET r == Means(t.a, m) IN Named(r.v, r.m)
         [] t.k = "adr" -> LET r == Means(t.a, m) IN Value(r.a, r.m)
         [] t.k = "sub" ->
              LET r1 == Means(t.a, m)
                  r2 == Means(t.b, r1.m)
              IN Named(Result("+", r1.v, TypeOf(t.a), r2.v,
                              Promoted(TypeOf(t.b))), r2.m)
         [] t.k \in {"pre", "post"} ->
              LET r == Means(t.a, m)
                  n == Factor(TypeOf(t.a))
                  v == Word16(r.v + (IF t.op = "rINC1" THEN n ELSE -n))
              IN Value(IF t.k = "pre" THEN v ELSE r.v,
                       Put(r.m, r.a, TypeOf(t.a), v))
         [] t.k = "bin" ->
              LET r1 == Means(t.a, m)
                  r2 == Means(t.b, r1.m)
              IN Value(Result(t.op, r1.v, Promoted(TypeOf(t.a)),
                              r2.v, Promoted(TypeOf(t.b))), r2.m)
         [] t.k = "log" ->
              LET stop == t.op = "||"
                  \* the operands read: up to the first that settles it
                  Settled(i) == (All(SubSeq(t.ts, 1, i), m, <<>>).vs[i] # 0)
                                = stop
                  read == {i \in DOMAIN t.ts :
                             \A j \in 1..(i - 1) : ~Settled(j)}
                  last == CHOOSE i \in read : \A j \in read : j <= i
              IN Value(Truth(Settled(last) = stop),
                       All(SubSeq(t.ts, 1, last), m, <<>>).m)
         [] t.k = "if" ->
              LET r == Means(t.c, m)
                  q == Means(IF r.v # 0 THEN t.a ELSE t.b, r.m)
              IN Value(q.v, q.m)
         [] t.k = "set" ->
              LET r1 == Means(t.a, m)
                  r2 == Means(t.b, r1.m)
                  v == IF t.op = "" THEN r2.v
                       ELSE Result(t.op, r1.v, Promoted(TypeOf(t.a)),
                                   r2.v, Promoted(TypeOf(t.b)))
              IN Value(v, Put(r2.m, r1.a, TypeOf(t.a), v))
         [] t.k = "seq" -> Means(t.b, Means(t.a, m).m)
         [] t.k = "call" ->
              LET r == All(t.ts, m, <<>>) IN Value(Callee(r.vs), r.m)

(***************************************************************************)
(* The properties.  Three things the engine is known to get wrong are      *)
(* named, and the properties say what holds of every other tree.           *)
(***************************************************************************)
RECURSIVE Subtrees(_)
Subtrees(t) ==
    {t} \cup UNION {Subtrees(o) :
        o \in CASE t.k \in {"num", "var"} -> {}
                [] t.k \in {"un", "at", "adr", "pre", "post"} -> {t.a}
                [] t.k \in {"bin", "set", "seq", "sub"} -> {t.a, t.b}
                [] t.k = "if" -> {t.c, t.a, t.b}
                [] t.k \in {"log", "call"} -> ToSet(t.ts)}

\* What the engine knows of each part of the tree.
Kinds == [t \in Subtrees(tree) |-> Level(Clear, t).is]

\* What the engine takes an operand for is what C takes it for: as far as
\* the operator of t looks at it.  (A comparison of pointers stays an
\* address, one of unsigned operands unsigned; ?: has the sign of its
\* condition.)
OperandsTyped(t, kinds) ==
    \A o \in {t.a, t.b} :
        LET type == Promoted(TypeOf(o))
        IN /\ t.op \in Comparisons =>
                nosign(kinds[o]) = (Pointer(type) \/ type = UINT)
           /\ t.op \in {"+", "-"} => (kinds[o].TA # 0) = Pointer(type)

\* ( f(), 2 ) is a constant, and the call is dropped with its load.
Regular(kinds) ==
    \A t \in DOMAIN kinds :
        /\ t.k \in {"bin", "set"} => OperandsTyped(t, kinds)
        /\ t.k = "seq" => kinds[t].TC = 0

\* is[SA] is "stage address of "op 0" code", as its declaration says: not
\* of the code of "0 op", and not of a comparison in a branch of ?:.
OpZero(kinds) ==
    kinds[tree].TC = 0 /\ kinds[tree].SA # 0 =>
        /\ tree.k = "bin"
        /\ \/ kinds[tree.b].TC # 0 /\ kinds[tree.b].CV = 0
           \/ tree.op \in {"==", "!="}

\* The code of an expression leaves its value in the primary register and
\* in memory what C says the expression leaves there, whatever was taken
\* out of the stage and whatever the operands share.
ValueIsRight ==
    LET Agrees(r) == R4 = r.v /\ mem = r.m
    IN at = "end" /\ mode = "value" /\ Regular(Kinds) =>
           Agrees(Means(tree, before))

\* test() jumps exactly when the expression is false, also when the
\* comparison with zero was replaced by a jump on the sign.
BranchIsRight ==
    LET Agrees(r) == (at = "end") = (r.v # 0) /\ mem = r.m
        Sound(kinds) == Regular(kinds) /\ OpZero(kinds)
    IN at \in {"end", "jumped"} /\ mode = "test" /\ Sound(Kinds) =>
           Agrees(Means(tree, before))

\* At every p-code, by whichever path, the stack is as deep as the compiler
\* believed when it staged it, and an expression gives back all it pushed; what was
\* taken out of the stage took no label with it that is jumped to, and no label is
\* placed twice.
StackTracked ==
    /\ Running =>
         LET sp == CASE Op = "PUSH1" -> code[pc].sp + 2
                     [] Op = "POP2" -> code[pc].sp - 2
                     [] Op = "ADDSP" -> code[pc].sp - N
                     [] OTHER -> code[pc].sp
         IN sp = -2 * Len(stack)
    /\ at \in {"end", "jumped"} => stack = <<>>
    /\ at = "refused" => mode = "test" /\ ~OpZero(Kinds)

\* zerojump() shall "test primary register against zero and jump if false":
\* BranchIsRight of every test, the "0 op" ones and those in ?: included.
TestsAreRight ==
    at \in {"end", "jumped"} /\ mode = "test" /\ Regular(Kinds) =>
        (at = "end") = (Means(tree, before).v # 0)
=============================================================================
