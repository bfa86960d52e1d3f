-------------------------------- MODULE MCR99 -------------------------------
(* R99 with seven slots, three probes, names that collide, and short lines.  *)
EXTENDS R99

MCNames == {"a", "b", "c", "d", "e"}

\* Three names start at slot 0, one at 1 and one at 4, which are the second and the
\* third probe from 0.
MChash == [n \in MCNames |-> CASE n = "d" -> 1 [] n = "e" -> 4 [] OTHER -> 0]

\* ProbesDiffer holds for the table of the code too.
ASSUME \A j, k \in 0..49 : (j * j) % 101 = (k * k) % 101 => j = k

MCChars == [n \in MCNames |-> CASE n = "a" -> <<65>> [] n = "b" -> <<66>> [] n = "c" -> <<67, 67>>
                                [] n = "d" -> <<68, 49, 90>> [] n = "e" -> <<69>>]
Progname == <<77, 49>>

\* Tokens.
Num(ds) == [kind |-> "num", of |-> ds]
Nam(n) == [kind |-> "name", of |-> n]
Op(c) == [kind |-> "op", of |-> c]
Sep == [kind |-> "comma", of |-> ""]
Str(cs) == [kind |-> "str", of |-> cs]

Two == Num(<<2>>)
Line(o1, ts) == [op |-> o1, toks |-> ts]

Heads == UNION {[ns -> {0, 3}] : ns \in SUBSET MCNames}
Head1 == [n \in {"a", "c", "d", "e"} |-> IF n \in {"a", "e"} THEN 3 ELSE 0]

Head2 == [n \in {"a", "e"} |-> 3]

Src(ls) == [f \in {Main} |-> [lines |-> ls, cut |-> FALSE]]

UpTo(S, n) == UNION {[1..k -> S] : k \in 1..n}

\* Is every operator that ends an operand not one that getprec does not know?
Allowed(ts) ==
    \A i \in DOMAIN ts : i > 1 /\ ts[i].kind = "op" /\ ts[i].of \in {"$", "@"} =>
        ts[i - 1].kind = "op" /\ ts[i - 1].of # ")"

Exprs ==
    {ts \in UpTo({Two, Nam("a"), Nam("e"), Op("+"), Op("-"), Op("*"), Op(">"), Op("("), Op(")"),
                  Op("$")}, 4) : Allowed(ts)}
        \cup [1..5 -> {Two, Nam("a"), Op("+"), Op("*"), Op("("), Op(")")}]
        \cup {<<Two, Op(c), Num(<<3>>), Op(d), Nam("a"), Op(e), Num(<<5>>)>> :
                  c, d, e \in {"+", "-", "*", ">", "="}}

\* One line: up to four tokens in any order, five of fewer kinds, three operators, and
\* those of two characters.
WordSources == {Src(<<Line("WORD", ts)>>) : ts \in Exprs}
    \cup {Src(<<Line("WORD", <<Two, Op(c), Op(d), Num(<<3>>)>>)>>) : c, d \in {"<", ">", "="}}

\* Numbers and strings: 10, 10H, 1FH, 17Q, 101B, 9D, 0BH, 18Q, 1A, AB.
Numbers == {<<1, 0>>, <<1, 0, 17>>, <<1, 15, 17>>, <<1, 7, 26>>, <<1, 0, 1, 11>>, <<9, 13>>,
            <<0, 11, 17>>, <<1, 8, 26>>, <<1, 10>>, <<9, 9, 9, 9, 9>>}
NumberSources == {Src(<<Line(w, <<Num(n), Sep, Num(<<2>>), Op("*"), Num(m)>>)>>) :
                    w \in {"WORD", "BYTE"}, n, m \in Numbers}
    \cup {Src(<<Line(w, <<Str(cs), Op("+"), Two>>)>>) :
            w \in {"WORD", "BYTE"}, cs \in {<<65>>, <<65, 66>>, <<65, 66, 67>>}}

\* The operands of an instruction, and other tokens in their place.
Adds == {<<Two>>, <<Nam("a")>>, <<Nam("a"), Op("+"), Two>>, <<Num(<<3>>), Op("*"), Nam("e")>>, <<Nam("c")>>}
Operand == {<<Num(<<3>>)>>, <<Op("*"), Nam("e")>>, <<Op("*"), Two, Op("+")>>}
    \cup {<<Op("@")>> \o x : x \in Adds} \cup {<<Op("@")>> \o x \o <<Op("("), Num(<<5>>), Op(")")>> : x \in Adds}
    \cup {<<Two, Op("+"), Num(<<1>>)>>}
Values == {<<Num(<<6>>)>>, <<Num(<<1, 7>>)>>, <<Nam("a")>>, <<Op("$"), Op("+"), Num(<<8>>)>>,
           <<Op("-"), Two>>, <<Nam("a"), Op("+"), Two>>, <<Two, Op("+"), Nam("a")>>, <<Nam("c")>>}
Insts ==
    {Line("MOV", p \o <<Sep>> \o q) : p, q \in Operand}
    \cup {Line(w, p \o <<Sep>> \o v) : w \in {"XOR", "TMB"}, p \in Operand, v \in Values}
    \cup {Line(w, v \o <<Sep>> \o u) : w \in {"SLA", "LI"}, v, u \in Values}
    \cup {Line("B", p) : p \in Operand} \cup {Line("RT", <<>>), Line("RT", <<Two>>)}
    \cup {Line(w, v) : w \in {"JMP", "SBZ", "LIMI"}, v \in Values}
    \cup {Line("B", ts) : ts \in UpTo({Two, Op("+"), Op("-"), Op("*"), Op("@"), Op("("), Op(")")}, 4)}
    \cup {Line("MOV", ts) : ts \in UpTo({Two, Op("+"), Op("-"), Op("*"), Op("@"), Op("("), Op(")"), Sep}, 3)}
InstSources == {Src(<<i>>) : i \in {i \in Insts : Allowed(i.toks)}}

\* An instruction, and data after it; data at an odd place; four references.
Tail2 == {Line("WORD", <<Nam("a"), Op("+"), Two>>), Line("WORD", <<Op("$"), Op("+"), Two, Sep, Two>>),
          Line("BYTE", <<Two>>), Line("WORD", <<Nam("c"), Sep, Nam("c")>>)}
PairSources == {Src(<<Line("B", p), t>>) : p \in Operand, t \in Tail2}
    \cup {Src(<<t, Line("MOV", p \o <<Sep>> \o <<Two>>), t>>) : p \in Operand, t \in Tail2}

\* Files that include others, or none, in all the places that differ.
W(n) == Line("WORD", <<Num(<<n>>)>>)
Incl(f, ts) == [op |-> "INCL", toks |-> ts, file |-> f]
FileLines == {<<>>, <<W(1)>>, <<W(1), W(2)>>, <<W(1), EndLine>>, <<Incl("f", <<>>)>>, <<W(1), Incl("g", <<>>), W(2)>>}
MainLines ==
    {p \o q \o r : p \in {<<>>, <<W(3)>>},
                   q \in {<<Incl("f", <<>>)>>, <<Incl("g", <<>>)>>, <<Incl("h", <<>>)>>, <<Incl("f", <<Two>>)>>,
                          <<Incl("f", <<>>), Incl("g", <<>>)>>, <<Incl("f", <<>>), W(4), Incl("f", <<>>)>>},
                   r \in {<<>>, <<W(5)>>, <<EndLine>>, <<EndLine, W(6)>>}}
Files == {[f \in {"main", "f", "g"} |->
              [lines |-> CASE f = "main" -> m [] f = "f" -> x [] f = "g" -> <<W(7)>>,
               cut |-> f \in cuts]] :
            m \in MainLines, x \in FileLines, cuts \in {{}, {"main"}, {"f"}}}
IncludeSources == {t \in Files : \A f \in DOMAIN t : t[f].cut => t[f].lines # <<>>}

MCSources == [h \in Heads |->
    IF h = Head2 THEN WordSources \cup NumberSources
    ELSE IF h = Head1 THEN InstSources \cup PairSources \cup IncludeSources
    ELSE {Src(<<>>)}]

\* Bound: texts are read with an object file, after a head that refers to no name.
Narrow == stage \in {"args", "head"} \/ files = Src(<<>>) \/ (made /\ answer = Undefined)
=============================================================================
