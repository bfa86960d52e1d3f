------------------------------ MODULE MCOverlay -----------------------------
(* The overlays of SMALLC99 as its build lays them out.                     *)
EXTENDS Overlay

\* OVLDEFS.INC
EXPR == 1
STMT == 2
DECL == 3
PREP == 4
DFUN == 5
CGEN == 6
CLI  == 7
STRD == 8

MCOverlays == EXPR .. STRD

\* A row with these pages, from this segment on.
From(seg, pages) == [s \in seg .. seg + Len(pages) - 1 |-> pages[s - seg + 1]]

\* OVL_TABLE, from the build's list of overlays.
MCRow == [o \in 0 .. STRD |->
    CASE o = EXPR -> From(8, <<4, 5, 7, 8>>)
      [] o = STMT -> From(8, <<3, 14>>)
      [] o = DECL -> From(8, <<2>>)
      [] o = PREP -> From(8, <<9, 10>>)
      [] o = DFUN -> From(8, <<6>>)
      [] o = CGEN -> From(8, <<11, 13>>)
      [] o = CLI  -> From(10, <<12>>)
      [] o = STRD -> From(8, <<15>>)
      [] OTHER    -> <<>>]

\* Who reaches whom, through the resident blanks, inbyte, error, gen,
\* dumpstage, setcodes, needsub, statement, doasm, test, constexpr, expression.
MCCalls ==
    ({0} \X {PREP, CGEN, CLI})
        \cup ({DECL} \X {PREP, CLI, CGEN, EXPR, STRD})
        \cup ({DFUN} \X {PREP, CLI, CGEN, EXPR, STRD, STMT})
        \cup ({STMT} \X {PREP, CLI, CGEN, EXPR, STRD})
        \cup ({EXPR} \X {PREP, CLI, CGEN, EXPR})
        \cup ({STRD} \X {PREP, CLI, EXPR})
        \cup ({PREP} \X {PREP, CLI})

MCUnframed == {DECL, DFUN}

\* The segments of the pages whose modules call error with a literal.
MCText == [o \in MCOverlays |->
    CASE o = EXPR -> {8, 9, 11}
      [] o = CLI  -> {}
      [] o = CGEN -> {}
      [] OTHER    -> {8}]

=============================================================================
