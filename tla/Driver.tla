-------------------------------- MODULE Driver ------------------------------
(***************************************************************************)
(* The driver of SmallC99 (SMALLC99.C) with its command line (CC_CL99.C).  *)
(* What it compiles between the opening and the closing of the files is    *)
(* left to the module that extends this one.                               *)
(*                                                                         *)
(* A file name is a stem and what follows its first dot; an argument of    *)
(* the command line is one of these, or a switch.  Case is gone: copyname  *)
(* takes it away.                                                          *)
(***************************************************************************)
EXTENDS Integers, Sequences, SequencesExt

CONSTANTS Commands,   \* the command lines
          length,     \* of a stem or an extension
          NAMEMAX     \* of a name: 14

ASSUME DriverAssumption == NAMEMAX \in Nat /\ \A part \in DOMAIN length : length[part] \in Nat

VARIABLES stage,      \* the step of main that comes next
          chosen,     \* the two files, as getoptions leaves them, until they are open
          srcfile, outfile, \* what the files hold: "old", "source", "part" or "whole"
          told        \* the last word to the user

driver == <<stage, chosen, srcfile, outfile, told>>

-----------------------------------------------------------------------------
(* The command line (getoptions).                                          *)

\* A name that is too long is refused (copyname, appendext, deriveout).
Fits(n) == length[n.stem] + length[n.ext] <= NAMEMAX

hasdot(n) == n.ext # ""
appendext(n, ext) == IF hasdot(n) THEN n ELSE [n EXCEPT !.ext = ext]
deriveout(n) == [n EXCEPT !.ext = ".A99"]

samefile(a, b) == a = b

Refused == [files |-> <<>>, ok |-> FALSE]

\* One argument: -? and an unknown switch end it; -V and -M are noted, and change
\* neither name.
Argument(o, a) ==
    IF ~o.ok \/ a.kind = "switch" THEN o
    ELSE IF a.kind = "file" /\ Fits(a.name) /\ Len(o.files) < 2
         THEN [o EXCEPT !.files = Append(@, a.name)]
    ELSE Refused

Sourced(files) == appendext(files[1], ".C")
Outputs(files) == IF Len(files) = 1 THEN deriveout(Sourced(files)) ELSE appendext(files[2], ".A99")

Chosen(files) == [src |-> Sourced(files), out |-> Outputs(files)]

Usable(n) == Fits(n.src) /\ Fits(n.out) /\ ~samefile(n.src, n.out)

\* The two names, none if the command is refused.
getoptions(argv) ==
    {Chosen(o.files) : o \in {p \in {FoldLeft(Argument, [files |-> <<>>, ok |-> TRUE], argv)} :
                                 p.files # <<>> /\ Usable(Chosen(p.files))}}

-----------------------------------------------------------------------------
(* main.                                                                   *)

Says(why) == stage' = "end" /\ told' = why

ask ==
    /\ stage = "ask"
    /\ \E argv \in Commands :
          IF getoptions(argv) = {} THEN Says("refused") /\ UNCHANGED chosen
          ELSE stage' = "open" /\ chosen' \in getoptions(argv) /\ UNCHANGED told
    /\ UNCHANGED <<srcfile, outfile>>

\* The output is emptied as it is chosen: the source too if they are one.
openfile ==
    /\ stage = "open" /\ chosen' = "none"
    /\ \/ Says("cannot open") /\ UNCHANGED <<srcfile, outfile>>
       \/ Says("cannot create") /\ UNCHANGED <<srcfile, outfile>>
       \/ /\ stage' = "parse" /\ outfile' = "part"
          /\ srcfile' = IF chosen.src = chosen.out THEN "part" ELSE srcfile
          /\ UNCHANGED told

\* The output that cannot be closed lacks its last buffer.
closefile ==
    /\ stage = "close" /\ UNCHANGED <<chosen, srcfile>>
    /\ \/ Says("cannot close") /\ UNCHANGED outfile
       \/ stage' = "finish" /\ outfile' = "whole" /\ UNCHANGED told

\* "compilation failed" (tmsfail) is said of a p-code that has no template, and every
\* p-code that the compiler's sources name has one (CC_CG99T.C): it is left out.
finish(clean) ==
    /\ stage = "finish" /\ Says(IF clean THEN "wrote" ELSE "wrote with errors")
    /\ UNCHANGED <<chosen, srcfile, outfile>>

DriverInit ==
    /\ stage = "ask" /\ chosen = "none"
    /\ srcfile = "source" /\ outfile = "old" /\ told = ""

-----------------------------------------------------------------------------
\* Whatever happens the source is still there, and a compiler that says it wrote
\* the output has written all of it (SMALLC99.C:96, CC_CL99.C:246).
FilesTrue ==
    /\ srcfile = "source"
    /\ told \in {"wrote", "wrote with errors"} => outfile = "whole"
    /\ told \in {"refused", "cannot open", "cannot create"} => outfile = "old"
=============================================================================
