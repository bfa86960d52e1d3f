--------------------------- MODULE MCExprCompiler ---------------------------
(* Expressions of up to three operators over every kind of variable.        *)
EXTENDS ExprCompiler
V(n) == [k |-> "var", n |-> n]
C(v) == [k |-> "num", v |-> v]
Un(op, t) == [k |-> "un", op |-> op, a |-> t]
At(t) == [k |-> "at", a |-> t]
Adr(t) == [k |-> "adr", a |-> t]
Pre(op, t) == [k |-> "pre", op |-> op, a |-> t]
Post(op, t) == [k |-> "post", op |-> op, a |-> t]
Bin(op, s, t) == [k |-> "bin", op |-> op, a |-> s, b |-> t]
Log(op, ts) == [k |-> "log", op |-> op, ts |-> ts]
If(c, s, t) == [k |-> "if", c |-> c, a |-> s, b |-> t]
Set(op, s, t) == [k |-> "set", op |-> op, a |-> s, b |-> t]
Seq2(s, t) == [k |-> "seq", a |-> s, b |-> t]
Sub(s, t) == [k |-> "sub", a |-> s, b |-> t]
Call(s, t) == [k |-> "call", ts |-> <<s, t>>]

Entry(ident, type, local, addr) ==
    [ident |-> ident, type |-> type, local |-> local, addr |-> addr]
MCSym == [x |-> Entry("VARIABLE", INT, FALSE, 0),
          y |-> Entry("VARIABLE", INT, TRUE, 2),
          u |-> Entry("VARIABLE", UINT, FALSE, 4),
          d |-> Entry("VARIABLE", CHR, FALSE, 6),
          c |-> Entry("VARIABLE", CHR, TRUE, 6),
          f |-> Entry("VARIABLE", UCHR, FALSE, 8),
          e |-> Entry("VARIABLE", UCHR, TRUE, 8),
          p |-> Entry("POINTER", INT, TRUE, 10),
          a |-> Entry("ARRAY", INT, FALSE, 12),
          q |-> Entry("POINTER", CHR, FALSE, 16)]

\* x, y, u and the bytes of c, d, e and f; p is &a[1], q is &d.
Bytes(x, y, u, b) ==
    LET w == <<x, y, u, b, b, 14, 1, 65535, 6>>
    IN [i \in 0..17 |-> IF i % 2 = 0 THEN w[i \div 2 + 1] \div 256
                        ELSE w[i \div 2 + 1] % 256]
MCMemories == {Bytes(0, 1, 65535, 65409), Bytes(65535, 0, 1, 1),
               Bytes(32768, 2, 0, 33023)}

Ops == {"+", "-", "*"} \cup Comparisons
Ints == {V("x"), V("y"), V("u"), V("c")}
Consts == {C(0), C(1), C(65535)}
Lvals == {V("x"), V("y"), V("c"), V("d"), At(V("p")), Sub(V("a"), V("y")),
          At(V("q"))}
Chars == {V("d"), V("e"), V("f"), At(V("q"))}
Leaves == Ints \cup Consts
Ptrs == {V("p"), V("a"), Adr(V("x")), Adr(V("y")), Bin("+", V("p"), C(1)),
         Bin("-", V("p"), V("y")), Bin("+", V("x"), V("a")),
         Adr(Sub(V("a"), C(1)))}
Steps == {Pre(s, l) : s \in {"rINC1", "rDEC1"}, l \in Lvals \cup {V("p")}}
         \cup {Post(s, l) : s \in {"rINC1", "rDEC1"},
                            l \in Lvals \cup {V("p"), V("q")}}
Simple == {Bin(op, l, r) : op \in Ops, l \in Leaves, r \in Leaves}
Pointed == {Bin(op, l, r) : op \in {"-"} \cup Comparisons, l \in Ptrs,
                            r \in {V("p"), V("a")}}
           \cup {At(t) : t \in Ptrs}
           \cup {Sub(t, i) : t \in {V("p"), V("a"), V("q")}, i \in Leaves}
Unaries == {Un(op, t) : op \in {"!", "-", "~"}, t \in Leaves \cup Chars}
Sets == {Set(op, l, t) : op \in {"", "+", "-", "*"}, l \in Lvals \cup {V("p")},
                         t \in Leaves}
        \cup {Set("", V("p"), t) : t \in Ptrs}
Calls == {Call(s, t) : s \in Leaves, t \in Leaves}
Few == {V("x"), V("u"), C(0), Bin("<", V("x"), V("y")), Bin("==", V("y"), C(0)),
        Bin("+", C(1), C(1)), Bin("==", V("p"), V("a")),
        Pre("rINC1", V("y")), Set("", V("x"), C(1)), Sub(V("a"), V("x")),
        Call(V("y"), C(1)), Un("!", V("y")), Seq2(Post("rDEC1", V("x")), V("y"))}
Nested == {Bin(op, l, r) : op \in {"+", "-", "<", ">=", "=="}, l \in Few,
                           r \in Few}
          \cup {Log(op, <<l, r>>) : op \in {"&&", "||"}, l \in Few, r \in Few}
          \cup {If(g, l, r) : g \in Few, l \in Few, r \in Few}
          \cup {Set(op, l, t) : op \in {"", "-"}, l \in {V("x"), V("y"),
                                 Sub(V("a"), Pre("rINC1", V("y")))}, t \in Few}
          \cup {Seq2(s, t) : s \in Few, t \in Few}
          \cup {Call(s, t) : s \in Few, t \in Few}
          \cup {Un(op, t) : op \in {"!", "-", "~"}, t \in Few}
          \cup {Log(o, <<r, Log(n, <<s, t>>)>>) : o \in {"&&", "||"},
                    n \in {"&&", "||"}, r \in Few, s \in Few,
                    t \in Few}
          \cup {Log(o, <<r, s, t>>) : o \in {"&&", "||"}, r \in Few, s \in Few,
                                      t \in Few}
Deep == {Bin(op, Bin(o, l, m), r) : op \in {"-", "<"}, o \in {"-", "*", "<"},
              l \in Leaves, m \in Leaves, r \in Leaves}
        \cup {Bin(op, l, Bin(o, m, r)) : op \in {"-", "<"},
              o \in {"-", "*", "<"}, l \in Leaves, m \in Leaves, r \in Leaves}
MCTrees == Leaves \cup Chars \cup Ptrs \cup Steps \cup Simple \cup Pointed
           \cup Unaries \cup Sets \cup Calls \cup Nested \cup Deep
MCInputs == MCTrees \X {"value", "test"}
=============================================================================
