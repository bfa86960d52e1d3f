---------------------------- MODULE Preprocessor ----------------------------
(***************************************************************************)
(* The preprocessor of SmallC99: inline(), ifline(), preprocess(),         *)
(* dodefine(), doinclude() and doasm() of overlays/CC_PREP.C, putmac() of  *)
(* CC_MACS.C, and what parse() and blanks() do with the lines it makes.    *)
(*                                                                         *)
(* The source is read a line at a time, and a line is what its reader can  *)
(* tell of it: the directive it begins with and the tokens after it.  A    *)
(* token is a name, a comment mark, or Text, which stands for whatever     *)
(* else there is: numbers, operators, whole strings.  The macro pool keeps *)
(* a token in a cell where the code keeps its characters.  The compiler    *)
(* behind the preprocessor is parse() at file scope: it takes each line    *)
(* whole.                                                                  *)
(***************************************************************************)
EXTENDS Integers, Sequences, FiniteSets, SequencesExt

CONSTANTS
    Names,      \* names that can be macros
    Text,       \* any other token
    NUL,        \* ends a macro's text in the pool
    None,       \* not a macro
    MACNBR,     \* entries of macn
    MACMAX,     \* last cell of macq
    Bodies,     \* what may follow the name on a #define line
    Texts,      \* lines that are no directive
    MaxLines,   \* bound on the lines of the source
    IncLines    \* bound on the lines that includes give between two of the source

Marks == {"/*", "*/"}
Tokens == Names \cup {Text} \cup Marks
Directives == {"#define", "#include", "#asm", "#endasm"}

ASSUME NamesAssumption ==
    Text \notin Names /\ NUL \notin Names \cup {Text} /\ None \notin 0 .. MACMAX
ASSUME MarksAssumption == (Marks \cup Directives) \cap (Names \cup {Text, NUL}) = {}
ASSUME PoolAssumption == MACMAX \in Nat /\ MACNBR \in Nat
ASSUME LinesAssumption ==
    Bodies \subseteq Seq(Names \cup {Text}) /\ Texts \subseteq Seq(Tokens)
ASSUME BoundsAssumption == MaxLines \in Nat /\ IncLines \in Nat

VARIABLES
    mode,       \* who reads: "parse", "comment" (preprocess), "asm" (doasm)
    pending,    \* blanks() was called by dodefine or doinclude in mid-line
    pline,      \* what a line with an open comment has given so far
    lineno, incunit, incleft, eof,
    iflevel, skiplevel,
    macn,       \* name -> cell where its text begins, or None
    macq, macptr,
    errcnt,     \* an error has been reported
    conds,      \* history: for each open #if, whether its region counts
    defs        \* history: name -> the text its #define line gave

input == <<lineno, incunit, incleft, eof>>
ifs == <<iflevel, skiplevel, conds>>
macros == <<macn, macq, macptr, defs>>
reader == <<mode, pending, pline>>
vars == <<mode, pending, pline, lineno, incunit, incleft, eof, iflevel, skiplevel, conds,
          macn, macq, macptr, defs, errcnt>>

Line(d, t) == [dir |-> d, toks |-> t]
Lines ==
    {Line(d, <<n>>) : d \in {"#ifdef", "#ifndef"}, n \in Names}
    \cup {Line(d, <<>>) : d \in {"#else", "#endif", "#asm", "#endasm", "blank"}}
    \cup {Line("#define", <<n>> \o b) : n \in Names, b \in Bodies}
    \cup {Line("#include", t) : t \in {<<>>, <<Text>>}}
    \cup {Line("text", t) : t \in Texts}

TypeOK ==
    /\ mode \in {"parse", "comment", "asm"}
    /\ pending \in {"no", "define", "include"}
    /\ pline \in Seq(Tokens \cup Directives)
    /\ lineno \in 0 .. MaxLines /\ incleft \in 0 .. IncLines
    /\ incunit \in BOOLEAN /\ eof \in BOOLEAN /\ errcnt \in BOOLEAN
    /\ iflevel \in Nat /\ skiplevel \in Nat
    /\ conds \in Seq(BOOLEAN)
    /\ macn \in [Names -> 0 .. MACMAX \cup {None}]
    /\ macq \in [0 .. MACMAX -> Tokens \cup Directives \cup {NUL}]
    /\ macptr \in 0 .. MACMAX
    /\ defs \in [Names -> Seq(Tokens \cup Directives)]

Init ==
    /\ mode = "parse" /\ pending = "no" /\ pline = <<>>
    /\ lineno = 0 /\ incunit = FALSE /\ incleft = 0 /\ eof = FALSE
    /\ iflevel = 0 /\ skiplevel = 0 /\ conds = <<>>
    /\ macn = [n \in Names |-> None]
    /\ macq = [i \in 0 .. MACMAX |-> NUL] /\ macptr = 0
    /\ defs = [n \in Names |-> <<>>]
    /\ errcnt = FALSE

-----------------------------------------------------------------------------
(***************************************************************************)
(* inline(): the next line, of the include file while one is open.         *)
(***************************************************************************)
CanRead == ~eof /\ IF incunit THEN incleft > 0 ELSE lineno < MaxLines

Counted == lineno' = (IF incunit THEN lineno ELSE lineno + 1) /\ UNCHANGED eof

\* Nothing is opened.  A last line that has no end closes the include it is from.
SameFile == incunit' \in {incunit, FALSE} /\ incleft' = (IF incunit' THEN incleft - 1 ELSE 0)

inline == CanRead /\ Counted /\ SameFile

\* The end of an include file, after a line end: reading goes on in the source
\* within the call.
IncludeEnds ==
    /\ ~eof /\ incunit
    /\ incunit' = FALSE /\ incleft' = 0
    /\ UNCHANGED <<reader, lineno, eof, ifs, macros, errcnt>>

\* The end of the source.  Every reader stops; a last line without a line end
\* is stored, but ifline(), preprocess(), parse() and doasm() all look at eof
\* before they look at it.  A directive that was waiting for its operand takes
\* what it finds, which nobody reads any more.
SourceEnds ==
    /\ ~eof /\ ~incunit
    /\ eof' = TRUE /\ mode' = "parse" /\ pending' = "no" /\ pline' = <<>>
    /\ errcnt' \in {errcnt, errcnt \/ pending # "no"}
    /\ UNCHANGED <<lineno, incunit, incleft, ifs, macros>>

-----------------------------------------------------------------------------
(***************************************************************************)
(* ifline(): conditional directives, also those inside a comment.          *)
(***************************************************************************)
Defined(n) == macn[n] # None

Reads == mode \in {"parse", "comment"} /\ inline

\* Mutated form: a condition inside a skipped region is looked at as well.
OpensBug(holds) ==
    /\ iflevel' = iflevel + 1
    /\ skiplevel' = IF ~holds THEN iflevel' ELSE skiplevel
    /\ conds' = Append(conds, skiplevel # 0 \/ holds)

\* A skipped region does not look at the conditions inside it.
Opens(holds) ==
    /\ iflevel' = iflevel + 1
    /\ skiplevel' = IF skiplevel = 0 /\ ~holds THEN iflevel' ELSE skiplevel
    /\ conds' = Append(conds, skiplevel # 0 \/ holds)

Else ==
    /\ iflevel > 0
    /\ skiplevel' = IF skiplevel = iflevel THEN 0
                    ELSE IF skiplevel = 0 THEN iflevel ELSE skiplevel
    /\ conds' = [conds EXCEPT ![iflevel] = ~@]
    /\ UNCHANGED <<iflevel, errcnt>>

Endif ==
    /\ iflevel > 0
    /\ skiplevel' = IF skiplevel = iflevel THEN 0 ELSE skiplevel
    /\ iflevel' = iflevel - 1
    /\ conds' = Front(conds)
    /\ UNCHANGED errcnt

noiferr == iflevel = 0 /\ errcnt' = TRUE /\ UNCHANGED ifs

Conditional(l) ==
    \/ l.dir = "#ifdef" /\ Opens(Defined(l.toks[1])) /\ UNCHANGED errcnt
    \/ l.dir = "#ifndef" /\ Opens(~Defined(l.toks[1])) /\ UNCHANGED errcnt
    \/ l.dir = "#else" /\ (Else \/ noiferr)
    \/ l.dir = "#endif" /\ (Endif \/ noiferr)

IfLine(l) == Reads /\ Conditional(l) /\ UNCHANGED <<reader, macros>>

Conditionals == {"#ifdef", "#ifndef", "#else", "#endif"}

\* A line of a skipped region, or an empty one.
Dropped(l) ==
    /\ Reads
    /\ l.dir \notin Conditionals /\ (skiplevel # 0 \/ l.dir = "blank")
    /\ UNCHANGED <<reader, ifs, macros, errcnt>>

-----------------------------------------------------------------------------
(***************************************************************************)
(* The macro pool.                                                         *)
(***************************************************************************)
\* The text that begins at a cell of macq.
EndOf(i) == CHOOSE e \in i .. MACMAX :
                macq[e] = NUL /\ \A k \in i .. e - 1 : macq[k] # NUL
TextAt(i) == [k \in 1 .. EndOf(i) - i |-> macq[i + k - 1]]

\* Mutated form: the NUL is not counted.
putmacBug(text) ==
    LET n == Len(text) IN
    /\ macq' = [i \in 0 .. MACMAX |->
                   IF i < macptr THEN macq[i]
                   ELSE IF i = MACMAX /\ macptr + n >= MACMAX THEN NUL
                   ELSE IF i < macptr + n THEN text[i - macptr + 1]
                   ELSE IF i = macptr + n THEN NUL ELSE macq[i]]
    /\ macptr' = IF macptr + n < MACMAX THEN macptr + n ELSE MACMAX

\* dodefine's putmac() loop over a text and its NUL: past MACMAX every token
\* lands in the last cell, and the NUL is the last to do so.
putmac(text) ==
    LET n == Len(text) IN
    /\ macq' = [i \in 0 .. MACMAX |->
                   IF i < macptr THEN macq[i]
                   ELSE IF i = MACMAX /\ macptr + n >= MACMAX THEN NUL
                   ELSE IF i < macptr + n THEN text[i - macptr + 1]
                   ELSE IF i = macptr + n THEN NUL ELSE macq[i]]
    /\ macptr' = IF macptr + n + 1 < MACMAX THEN macptr + n + 1 ELSE MACMAX

\* Names are looked up once: what a text holds is not looked up again.
Expanded(t) == IF t \in Names /\ Defined(t) THEN TextAt(macn[t]) ELSE <<t>>

\* preprocess() over a line: comments go, names of macros become their text.
Scan(toks, comment) ==
    FoldLeft(LAMBDA s, t :
                 IF s.comment THEN [s EXCEPT !.comment = t # "*/"]
                 ELSE IF t = "/*" THEN [s EXCEPT !.comment = TRUE]
                 ELSE [s EXCEPT !.out = @ \o Expanded(t)],
             [out |-> pline, comment |-> comment], toks)

-----------------------------------------------------------------------------
(***************************************************************************)
(* dodefine() and doinclude(), given what follows the directive.           *)
(***************************************************************************)
Full == Cardinality({n \in Names : Defined(n)}) >= MACNBR

dodefine(rest) ==
    IF Head(rest) \notin Names \/ (~Defined(Head(rest)) /\ Full)
    THEN errcnt' = TRUE /\ UNCHANGED macros
    ELSE /\ macn' = [macn EXCEPT ![Head(rest)] = macptr]
         /\ putmac(Tail(rest))
         /\ defs' = [defs EXCEPT ![Head(rest)] = Tail(rest)]
         /\ errcnt' = (errcnt \/ macptr' >= MACMAX)

\* Open already at a last line without an end, the include is closed and its
\* successor opened: IncLines bounds the lines of both together.
doinclude ==
    \/ /\ incunit' = TRUE /\ incleft' = IF incunit THEN incleft - 1 ELSE IncLines
       /\ UNCHANGED errcnt
    \/ errcnt' = TRUE /\ SameFile                     \* nested, or no such file

\* A directive whose operand is not on its line takes it from the next one
\* that has anything on it: blanks() fetches it.
Operand(directive, rest) ==
    \/ /\ rest = <<>> /\ pending' = directive
       /\ SameFile /\ UNCHANGED <<macros, errcnt>>
    \/ /\ rest # <<>> /\ pending' = "no" /\ directive = "define"
       /\ dodefine(rest) /\ SameFile
    \/ /\ rest # <<>> /\ pending' = "no" /\ directive = "include"
       /\ doinclude /\ UNCHANGED macros

-----------------------------------------------------------------------------
(***************************************************************************)
(* A line that counts: preprocess() makes a line for parse() of it, unless *)
(* a comment is left open.                                                 *)
(***************************************************************************)
Scanned(l) ==
    Scan(IF l.dir = "text" THEN l.toks ELSE <<l.dir>> \o l.toks, mode = "comment")

Counts(l) ==
    /\ mode \in {"parse", "comment"} /\ CanRead /\ Counted
    /\ l.dir \notin Conditionals /\ skiplevel = 0 /\ l.dir # "blank"
    /\ UNCHANGED ifs

LeavesOpen(l) ==
    /\ Counts(l) /\ SameFile
    /\ Scanned(l).comment
    /\ mode' = "comment" /\ pline' = Scanned(l).out
    /\ UNCHANGED <<pending, macros, errcnt>>

Finished(l) == Counts(l) /\ ~Scanned(l).comment /\ pline' = <<>>

\* The operand of a directive of an earlier line.
Continues(l) ==
    /\ pending # "no" /\ Finished(l) /\ mode' = "parse"
    /\ Operand(pending, Scanned(l).out)

Begins(l, directive) ==
    /\ pending = "no" /\ Finished(l)
    /\ Scanned(l).out # <<>> /\ Head(Scanned(l).out) = directive

Define(l) ==
    /\ Begins(l, "#define") /\ mode' = "parse"
    /\ Operand("define", Tail(Scanned(l).out))

Include(l) ==
    /\ Begins(l, "#include") /\ mode' = "parse"
    /\ Operand("include", Tail(Scanned(l).out))

\* doasm() begins: ccode = NO, the rest of the line is lost.
Asm(l) ==
    /\ Begins(l, "#asm") /\ mode' = "asm" /\ SameFile
    /\ UNCHANGED <<pending, macros, errcnt>>

\* A line for the compiler, or one that only held a comment.
Compiled(l) ==
    /\ pending = "no" /\ Finished(l) /\ mode' = "parse" /\ SameFile
    /\ Scanned(l).out # <<>> => Head(Scanned(l).out) \notin {"#define", "#include", "#asm"}
    /\ UNCHANGED <<pending, macros, errcnt>>

\* doasm() copies lines as they are, conditional directives too, and loses
\* the blank ones: match() skips them with blanks().
AsmLine(l) ==
    /\ mode = "asm" /\ inline
    /\ mode' = IF l.dir = "#endasm" THEN "parse" ELSE "asm"
    /\ UNCHANGED <<pending, pline, ifs, macros, errcnt>>

Next ==
    \/ \E l \in Lines :
           \/ IfLine(l) \/ Dropped(l) \/ LeavesOpen(l) \/ Continues(l) \/ Define(l)
           \/ Include(l) \/ Asm(l) \/ Compiled(l) \/ AsmLine(l)
    \/ IncludeEnds \/ SourceEnds

Spec == Init /\ [][Next]_vars

-----------------------------------------------------------------------------
(***************************************************************************)
(* What makes the preprocessor correct.                                    *)
(***************************************************************************)

\* Lines are skipped exactly while the condition of some open #if does not
\* hold, and skiplevel names the outermost of them, however the #if, #else
\* and #endif lines nest, in skipped regions too (ifline).
SkipFollows ==
    /\ Len(conds) = iflevel
    /\ IF skiplevel = 0 THEN \A i \in 1 .. iflevel : conds[i]
       ELSE /\ skiplevel \in 1 .. iflevel /\ ~conds[skiplevel]
            /\ \A i \in 1 .. skiplevel - 1 : conds[i]

\* A name stands for the text its last #define gave it, whatever was defined
\* after it and however full the pool is; only a definition that was reported
\* may have lost the end of its text, and the pool never overflows (dodefine,
\* putmac).
MacroTrue ==
    /\ TypeOK
    /\ \A n \in Names : Defined(n) =>
          \/ TextAt(macn[n]) = defs[n]
          \/ errcnt /\ macptr = MACMAX /\ IsPrefix(TextAt(macn[n]), defs[n])
=============================================================================
