------------------------------- MODULE MCAssembler --------------------------
(***************************************************************************)
(* Sources of up to MaxLines lines, taken from MCLines: a label that pass  *)
(* 1 and pass 2 may place differently, the operations that move it, and    *)
(* references to it, to an external and to an entry.                       *)
(***************************************************************************)
EXTENDS Assembler

CONSTANTS a, s, x

Num(k) == [base |-> Number, plus |-> k, mark |-> "plain"]
Sym(n) == [base |-> n, plus |-> 0, mark |-> "plain"]
Far(n) == [base |-> n, plus |-> 0, mark |-> "##"]
At(k)  == [base |-> Here, plus |-> k, mark |-> "plain"]

Plain_(op, args) == [label |-> NoName, suffix |-> ":", op |-> op, name |-> NoName, args |-> args]
On(n, l) == [l EXCEPT !.label = n]
Entered(n, l) == [l EXCEPT !.label = n, !.suffix = "::"]
About(op, n) == [Plain_(op, <<>>) EXCEPT !.name = n]

MCLines == {
    Plain_("END", <<>>), Plain_("EOF", <<>>),
    Entered(a, Plain_("EVEN", <<>>)),
    On(s, Plain_("EQU", <<Num(2)>>)), On(s, Plain_("EQU", <<Sym(a)>>)), On(s, Plain_("SET", <<Num(3)>>)),
    Plain_("BSS", <<Sym(s)>>), Plain_("AORG", <<Num(4)>>),
    Plain_("WORD", <<Sym(a), Far(x)>>), Plain_("BYTE", <<Num(1), [base |-> Empty, plus |-> 0, mark |-> "plain"], Sym(s)>>),
    Plain_("format1", <<Sym(a), Far(x)>>), Plain_("format6", <<Sym(a)>>), On(a, Plain_("format6", <<Far(x)>>)),
    Plain_("format2", <<Sym(a)>>), Plain_("format7", <<At(2)>>),
    Plain_("IF", <<Sym(s)>>), Plain_("ELSE", <<>>), Plain_("ENDI", <<>>),
    About("ENT", a), About("EXT", x), About("DXOP", s), About("user", s), About("NAM", a) }
=============================================================================
