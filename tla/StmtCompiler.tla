----------------------------- MODULE StmtCompiler ---------------------------
(***************************************************************************)
(* The statement compiler of SmallC99 (CC_STMT.C, CC_STMT_R.C), with the   *)
(* while queue of CC_RESIDENT.C, the stack arithmetic of gen (CC_CD99.C)   *)
(* and the frame of dofunction (CC_DFUN.C).                                *)
(*                                                                         *)
(* It compiles in one pass, by recursion, and knows how deep the stack of  *)
(* the compiled program will be only from csp, which each ADDSP moves.     *)
(* The source is whatever statement comes next; calls is the recursion.    *)
(* Beside what the compiler knows, code follows what the emitted code does *)
(* when it runs: how deep its stack is here, and at the labels.            *)
(*                                                                         *)
(* An expression pushes and pops alike, so only its jumps appear.          *)
(***************************************************************************)
EXTENDS Integers, Sequences, SequencesExt, FiniteSets

CONSTANTS Names,      \* the names of variables and labels
          WQTAB,      \* entries of the while queue: 9
          SWTAB,      \* cases of the switches open at a time: 90
          NUMLOCS,    \* entries of the table of locals
          MaxStmts,   \* bound: the statements of a source
          None        \* no depth: the place cannot be reached

ASSUME StmtAssumption ==
    /\ WQTAB \in Nat /\ SWTAB \in Nat /\ NUMLOCS \in Nat /\ MaxStmts \in Nat
    /\ None \notin Int

VARIABLES calls,      \* the statements being compiled, outermost first
          at,         \* "statement": one is to come, "done": the last call has one, "between"
          eof, stmts, \* the source has ended; how many statements it had
          csp,        \* the depth that the compiler knows
          declared, ncmp, nogo, noloc, lastst, nxtlab,
          locals,     \* the table of locals, in the order of locptr
          wq,         \* the while queue
          swactive, swdefault,
          swtab,      \* the labels from swstab to swnext
          code,       \* history: the stack of the emitted code
          given,      \* history: the label that each name got in this function
          errors,     \* history: an error has been reported
          astray      \* history: what made the compiler lose the depth

source == <<calls, at, eof, stmts>>
block == <<declared, ncmp, nogo, noloc>>
switch == <<swactive, swdefault, swtab>>
history == <<code, given, errors, astray>>
statement == <<source, csp, block, lastst, nxtlab, locals, wq, switch, history>>

\* Above the frame: the saved frame pointer, the return address, the last argument.
LastArgument == 4

\* lastst: RETURN and GOTO are asked for, every other statement is "other".
Leaving == {"return", "goto"}

-----------------------------------------------------------------------------
(* The emitted code.  sp is the depth of the stack here, if control gets   *)
(* here; flow has the depths with which control reaches each label.        *)

\* ADDSP to depth n, when the compiler believes in depth c.
AddSp(k, c, n) == [k EXCEPT !.sp = IF @ = None THEN None ELSE @ + (n - c)]

\* Jumps that may be taken, and one that is.
Branches(k, labels) == [k EXCEPT !.flow = @ \cup (IF k.sp = None THEN {} ELSE labels \X {k.sp})]
Branch(k, l) == Branches(k, {l})
Jump(k, l) == [Branch(k, l) EXCEPT !.sp = None]

Depths(k, l) == {e[2] : e \in {f \in k.flow : f[1] = l}}

\* A label that control reaches from above, or as it reaches label m.
Place(k, l, m) ==
    LET s == IF k.sp # None THEN k.sp
             ELSE IF Depths(k, m) # {} THEN CHOOSE d \in Depths(k, m) : TRUE ELSE None
    IN  [k EXCEPT !.sp = s, !.flow = @ \cup (IF s = None THEN {} ELSE {<<l, s>>})]

\* test: a condition may be a constant, and then jumps always or never.
Tested(k, l) == {Branch(k, l), k, Jump(k, l)}

-----------------------------------------------------------------------------
(* The recursion.                                                          *)

\* A call that waits for a statement: its labels, and what it saved.
Call(name, labels, depth) ==
    [call |-> name, labels |-> labels, savcsp |-> depth, savloc |-> Len(locals),
     swact |-> swactive, swdef |-> swdefault, swnex |-> Len(swtab), cases |-> <<>>, default |-> 0]

Top == Last(calls)

\* statement() is called: by a function, an arm or a body, or again by compound.
Called ==
    /\ ~eof /\ stmts < MaxStmts /\ calls # <<>>
    /\ at = "statement" \/ (at = "done" /\ Top.call = "compound")

\* Every statement but a declaration comes with this: the first in its block
\* moves the stack below the variables of the block.
Opened == IF declared >= 0 THEN csp - declared ELSE csp
OpenedCode == AddSp(code, csp, Opened)

Statement ==
    /\ Called
    /\ stmts' = stmts + 1
    /\ nogo' = IF declared >= 0 /\ ncmp > 1 THEN declared ELSE nogo
    /\ UNCHANGED eof

\* The statement is complete, or waits for another one as the call f.
Finished(kind) == at' = "done" /\ lastst' = kind /\ UNCHANGED calls
Waits(f) == at' = "statement" /\ calls' = Append(calls, f) /\ UNCHANGED lastst

\* The call on top is complete.
Returned(name) == at = "done" /\ calls # <<>> /\ Top.call = name

Complete(kind) == calls' = Front(calls) /\ at' = "done" /\ lastst' = kind /\ UNCHANGED <<eof, stmts>>

Error(b) == errors' = (errors \/ b)

\* The compiler may lose the depth when it leaves out code for lastst, or takes
\* another depth for what follows.
Astray(why) == astray' = astray \cup why

\* Variables have been declared since c was called, and are in scope.
Declared(c) == \E i \in DOMAIN locals : i > c.savloc /\ ~locals[i].label

Skips == lastst \in Leaving
SkipsLive == IF Skips /\ code.sp # None THEN {"skipped"} ELSE {}

-----------------------------------------------------------------------------
(* Variables, blocks and functions.                                        *)

\* Mutated form: the offset forgets the variables before it in the block.
declloc_Bug(n, z, what) ==
    /\ Called /\ stmts' = stmts + 1 /\ at' = "done"
    /\ Error(swactive \/ noloc \/ declared < 0 \/ Len(locals) = NUMLOCS)
    /\ declared' = declared + z
    /\ locals' = IF Len(locals) = NUMLOCS THEN locals
                 ELSE Append(locals, [name |-> n, label |-> FALSE, def |-> FALSE,
                                      offset |-> csp - z, size |-> z, is |-> what])
    /\ UNCHANGED <<calls, eof, csp, ncmp, nogo, noloc, lastst, nxtlab, wq, switch, code, given, astray>>

\* One declarator, with its slot of z bytes and what it declares.  It is entered, and
\* the bytes counted, whatever is wrong.
declloc_(n, z, what) ==
    /\ Called /\ stmts' = stmts + 1 /\ at' = "done"
    /\ Error(swactive \/ noloc \/ declared < 0 \/ Len(locals) = NUMLOCS)
    /\ declared' = declared + z
    /\ locals' = IF Len(locals) = NUMLOCS THEN locals
                 ELSE Append(locals, [name |-> n, label |-> FALSE, def |-> FALSE,
                                      offset |-> csp - declared', size |-> z, is |-> what])
    /\ UNCHANGED <<calls, eof, csp, ncmp, nogo, noloc, lastst, nxtlab, wq, switch, code, given, astray>>

compound ==
    /\ Statement /\ at' = "done"
    /\ calls' = Append(calls, Call("compound", <<>>, Opened))
    /\ declared' = 0 /\ ncmp' = ncmp + 1
    /\ csp' = Opened /\ code' = OpenedCode
    /\ UNCHANGED <<noloc, lastst, nxtlab, locals, wq, switch, given, errors, astray>>

\* Labels stay in the table when their block ends.
Retained(t, n) ==
    FoldLeft(LAMBDA q, e : IF e.label THEN Append(q, e) ELSE q,
             SubSeq(t, 1, n), SubSeq(t, n + 1, Len(t)))

\* Mutated form: a block leaves its variables on the stack.
ClosesBug == FALSE

\* The variables of an inner block go, unless it ends in return or goto.
Closes == ncmp # 1 /\ ~Skips

\* "}", or the end of the source.
CompoundEnd ==
    /\ Returned("compound")
    /\ calls' = Front(calls) /\ UNCHANGED <<at, eof, stmts, lastst>>
    /\ Error(eof)
    /\ ncmp' = ncmp - 1 /\ declared' = -1
    /\ csp' = IF Closes THEN Top.savcsp ELSE csp
    /\ code' = IF Closes THEN AddSp(code, csp, Top.savcsp) ELSE code
    /\ Astray(IF (Skips \/ ncmp = 1) /\ Declared(Top) /\ calls[Len(calls) - 1].call # "function"
              THEN {"kept"} ELSE {})
    /\ locals' = Retained(locals, Top.savloc)
    /\ UNCHANGED <<nogo, noloc, nxtlab, wq, switch, given>>

\* The arguments are the first entries of the table of locals.  One whose type is not
\* given stays an entry of a label, and a goto to it jumps to its offset.
dofunction_(arguments) ==
    /\ at = "between" /\ ~eof
    /\ calls' = <<Call("function", <<>>, 0)>> /\ at' = "statement"
    /\ nogo' = 0 /\ noloc' = FALSE /\ lastst' = "other" /\ nxtlab' = nxtlab + 1
    /\ csp' = 0 /\ locals' = arguments
    /\ code' = [sp |-> 0, flow |-> {}] /\ given' = [n \in Names |-> 0]
    /\ Astray(IF \E i \in DOMAIN arguments : arguments[i].label THEN {"untyped"} ELSE {})
    /\ UNCHANGED <<eof, stmts, declared, ncmp, wq, switch, errors>>

\* RETURN brings csp to 0, but not here: the function is over.
FunctionEnd ==
    /\ Returned("function")
    /\ calls' = <<>> /\ at' = "between"
    /\ csp' = IF Skips THEN csp ELSE 0
    /\ code' = IF Skips THEN code ELSE [code EXCEPT !.sp = None]
    /\ Astray(SkipsLive)
    /\ UNCHANGED <<eof, stmts, block, lastst, nxtlab, locals, wq, switch, given, errors>>

EndOfSource ==
    /\ at = "between" \/ Called
    /\ ~eof /\ eof' = TRUE
    /\ UNCHANGED <<calls, at, stmts, csp, block, lastst, nxtlab, locals, wq, switch, history>>

\* At the end of the source statement() returns at once.
NoStatement ==
    /\ at = "statement" /\ eof /\ at' = "done"
    /\ UNCHANGED <<calls, eof, stmts, csp, block, lastst, nxtlab, locals, wq, switch, history>>

-----------------------------------------------------------------------------
(* if.                                                                     *)

doif ==
    LET flab1 == nxtlab + 1 IN
    /\ Statement /\ declared' = -1 /\ csp' = Opened
    /\ code' \in Tested(OpenedCode, flab1)
    /\ nxtlab' = flab1 /\ Waits(Call("if", <<flab1>>, Opened))
    /\ UNCHANGED <<ncmp, noloc, locals, wq, switch, given, errors, astray>>

\* No else.
IfEnd ==
    /\ Returned("if") /\ Complete("other")
    /\ code' = Place(code, Top.labels[1], Top.labels[1])
    /\ UNCHANGED <<csp, block, nxtlab, locals, wq, switch, given, errors, astray>>

\* After a true arm that ends in return or goto there is nothing to jump over from.
OverElse(flab2) == IF Skips THEN code ELSE Jump(code, flab2)

Else ==
    LET flab2 == nxtlab + 1 IN
    /\ Returned("if") /\ ~eof
    /\ code' = Place(OverElse(flab2), Top.labels[1], Top.labels[1])
    /\ Astray(SkipsLive)
    /\ nxtlab' = flab2 /\ at' = "statement"
    /\ calls' = Append(Front(calls), [Top EXCEPT !.call = "else", !.labels = <<flab2>>])
    /\ UNCHANGED <<eof, stmts, csp, block, lastst, locals, wq, switch, given, errors>>

ElseEnd ==
    /\ Returned("else") /\ Complete("other")
    /\ code' = Place(code, Top.labels[1], Top.labels[1])
    /\ UNCHANGED <<csp, block, nxtlab, locals, wq, switch, given, errors, astray>>

-----------------------------------------------------------------------------
(* Loops and switches: the while queue.                                    *)

\* addwhile refuses: the statement is dropped after its keyword.
addwhileFails ==
    /\ Statement /\ Finished("other") /\ declared' = -1 /\ csp' = Opened /\ code' = OpenedCode
    /\ Len(wq) = WQTAB /\ Error(TRUE)
    /\ UNCHANGED <<ncmp, noloc, nxtlab, locals, wq, switch, given, astray>>

\* The labels of an entry, taken in this order.
Loop == nxtlab + 1
Exit == nxtlab + 2

addwhile(loop) ==
    /\ Statement /\ declared' = -1 /\ csp' = Opened
    /\ Len(wq) < WQTAB
    /\ wq' = Append(wq, [sp |-> Opened, loop |-> loop, exit |-> Exit])

delwhile == IF wq = <<>> THEN wq ELSE Front(wq)

dowhile ==
    /\ addwhile(Loop) /\ nxtlab' = Exit
    /\ code' \in Tested(Place(OpenedCode, Loop, Loop), Exit)
    /\ Waits(Call("while", <<Loop, Exit>>, Opened))
    /\ UNCHANGED <<ncmp, noloc, locals, switch, given, errors, astray>>

dodo ==
    /\ addwhile(Loop) /\ nxtlab' = Exit
    /\ code' = Place(OpenedCode, Loop, Loop)
    /\ Waits(Call("do", <<Loop, Exit>>, Opened))
    /\ UNCHANGED <<ncmp, noloc, locals, switch, given, errors, astray>>

\* The third expression stands before the body, and is reached from its end.
dofor ==
    LET lab1 == nxtlab + 3
        lab2 == nxtlab + 4
    IN  /\ addwhile(Loop) /\ nxtlab' = lab2
        /\ \E k \in Tested(Place(OpenedCode, lab1, lab1), Exit) :
              code' = Place(Jump(Place(Jump(k, lab2), Loop, lab2), lab1), lab2, lab2)
        /\ Waits(Call("for", <<Loop, Exit>>, Opened))
        /\ UNCHANGED <<ncmp, noloc, locals, switch, given, errors, astray>>

\* The end of the body of while and for: back to the loop label.
LoopEnd ==
    /\ Returned("while") \/ Returned("for")
    /\ Complete("other")
    /\ code' = Place(Jump(code, Top.labels[1]), Top.labels[2], Top.labels[2])
    /\ wq' = delwhile
    /\ UNCHANGED <<csp, block, nxtlab, locals, switch, given, errors, astray>>

DoEnd ==
    /\ Returned("do") /\ Complete("other") /\ Error(eof)
    /\ \E k \in Tested(code, Top.labels[2]) :
          code' = Place(Jump(k, Top.labels[1]), Top.labels[2], Top.labels[2])
    /\ wq' = delwhile
    /\ UNCHANGED <<csp, block, nxtlab, locals, switch, given, astray>>

\* A switch is a target of break and not of continue: the loop label is 0.
doswitch ==
    LET endlab == nxtlab + 3 IN
    /\ addwhile(0) /\ nxtlab' = endlab
    /\ code' = Jump(OpenedCode, endlab)
    /\ swdefault' = 0 /\ swactive' = TRUE
    /\ Waits(Call("switch", <<Exit, endlab>>, Opened))
    /\ UNCHANGED <<ncmp, noloc, locals, swtab, given, errors, astray>>

\* The table of the cases, read from where swnext was, follows the body.
Dispatch(k) ==
    LET m == Place(Jump(k, Top.labels[1]), Top.labels[2], Top.labels[2])
        t == Branches(m, {swtab[i] : i \in (Top.swnex + 1)..Len(swtab)})
    IN  IF swdefault # 0 THEN Jump(t, swdefault) ELSE t

\* Mutated form: the cases of the inner switch stay in the table of the outer one.
SwitchRestoredBug == swtab' = swtab /\ swdefault' = Top.swdef /\ swactive' = Top.swact

SwitchRestored ==
    swtab' = SubSeq(swtab, 1, Top.swnex) /\ swdefault' = Top.swdef /\ swactive' = Top.swact

SwitchEnd ==
    /\ Returned("switch") /\ Complete("other")
    /\ code' = Place(Dispatch(code), Top.labels[1], Top.labels[1])
    /\ wq' = delwhile /\ SwitchRestored
    /\ UNCHANGED <<csp, block, nxtlab, locals, given, errors, astray>>

\* The switch that a case or default belongs to; control reaches it as its table.
Switches == {i \in DOMAIN calls : calls[i].call = "switch"}
Inner == CHOOSE i \in Switches : \A j \in Switches : j <= i

CaseLabel(l) ==
    Place(OpenedCode, l, IF Switches = {} THEN l ELSE calls[Inner].labels[2])

\* The label is entered in the table, in a switch or not.
docase ==
    /\ Statement /\ declared' = -1 /\ csp' = Opened /\ at' = "done" /\ lastst' = "other"
    /\ Error(~swactive \/ Len(swtab) = SWTAB)
    /\ IF Len(swtab) = SWTAB THEN code' = OpenedCode /\ UNCHANGED <<nxtlab, swtab, calls>>
       ELSE /\ nxtlab' = nxtlab + 1
            /\ code' = CaseLabel(nxtlab')
            /\ swtab' = Append(swtab, nxtlab')
            /\ calls' = IF Switches = {} THEN calls
                        ELSE [calls EXCEPT ![Inner].cases = Append(@, nxtlab')]
    /\ UNCHANGED <<ncmp, noloc, locals, wq, swactive, swdefault, given, astray>>

dodefault ==
    /\ Statement /\ declared' = -1 /\ csp' = Opened /\ at' = "done" /\ lastst' = "other"
    /\ Error(~swactive \/ swdefault # 0)
    /\ nxtlab' = nxtlab + 1
    /\ code' = CaseLabel(nxtlab')
    /\ swdefault' = nxtlab'
    /\ calls' = IF Switches = {} THEN calls ELSE [calls EXCEPT ![Inner].default = nxtlab']
    /\ UNCHANGED <<ncmp, noloc, locals, wq, swactive, swtab, given, astray>>

-----------------------------------------------------------------------------
(* Leaving a statement.                                                    *)

\* RETURN takes csp to 0, and csp is put back.
doreturn ==
    /\ Statement /\ declared' = -1 /\ Finished("return")
    /\ csp' = Opened /\ code' = [code EXCEPT !.sp = None]
    /\ UNCHANGED <<ncmp, noloc, nxtlab, locals, wq, switch, given, errors, astray>>

\* break and continue bring the stack, and csp, to the depth of the entry e, which
\* was made for the innermost call with a name in this set.
Leave(e, l, names) ==
    LET own == {i \in DOMAIN calls : calls[i].call \in names} IN
    /\ csp' = e.sp /\ code' = Jump(AddSp(OpenedCode, Opened, e.sp), l)
    /\ Astray(IF \E i \in own : (\A j \in own : j <= i) /\ Declared(calls[i])
              THEN {"left"} ELSE {})

OutOfContext == csp' = Opened /\ code' = OpenedCode /\ UNCHANGED astray

dobreak ==
    /\ Statement /\ declared' = -1 /\ Finished("other")
    /\ Error(wq = <<>>)
    /\ IF wq = <<>> THEN OutOfContext ELSE Leave(Last(wq), Last(wq).exit, {"while", "do", "for", "switch"})
    /\ UNCHANGED <<ncmp, noloc, nxtlab, locals, wq, switch, given>>

Loops == {i \in DOMAIN wq : wq[i].loop # 0}

\* The innermost loop: a switch is passed over.
docont ==
    LET i == CHOOSE j \in Loops : \A m \in Loops : m <= j IN
    /\ Statement /\ declared' = -1 /\ Finished("other")
    /\ Error(Loops = {})
    /\ IF Loops = {} THEN OutOfContext ELSE Leave(wq[i], wq[i].loop, {"while", "do", "for"})
    /\ UNCHANGED <<ncmp, noloc, nxtlab, locals, wq, switch, given>>

\* findloc: the latest entry of that name.
Found(n) == {i \in DOMAIN locals : locals[i].name = n}
Latest(n) == CHOOSE i \in Found(n) : \A j \in Found(n) : j <= i

\* addlabel: a name that has no entry gets one, and a new label.
addlabel(n, def, wrong) ==
    IF Found(n) # {} THEN
        /\ Error(wrong \/ ~locals[Latest(n)].label \/ (def /\ locals[Latest(n)].def))
        /\ locals' = IF def /\ locals[Latest(n)].label
                     THEN [locals EXCEPT ![Latest(n)].def = TRUE] ELSE locals
        /\ UNCHANGED <<nxtlab, given>>
    ELSE
        /\ nxtlab' = nxtlab + 1
        /\ Error(wrong \/ Len(locals) = NUMLOCS)
        /\ IF Len(locals) = NUMLOCS THEN UNCHANGED <<locals, given>>
           ELSE /\ locals' = Append(locals, [name |-> n, label |-> TRUE, def |-> def,
                                             offset |-> nxtlab', size |-> 0, is |-> None])
                /\ given' = [given EXCEPT ![n] = nxtlab']

\* What is written for it: the OFFSET of the entry, of whatever kind.
Number(n) == IF Found(n) # {} THEN locals[Latest(n)].offset
             ELSE IF Len(locals) = NUMLOCS THEN 0 ELSE nxtlab + 1

\* goto is refused when nogo counts variables of a block, else it refuses those
\* to come.  The code is written all the same.
dogoto ==
    /\ Statement /\ declared' = -1 /\ csp' = Opened /\ Finished("goto")
    /\ noloc' = (noloc \/ nogo' <= 0)
    /\ \E n \in Names : addlabel(n, FALSE, nogo' > 0) /\ code' = Jump(OpenedCode, Number(n))
    /\ UNCHANGED <<ncmp, wq, switch, astray>>

\* Nothing is known of how control gets to a label that only later gotos name.
Named(k, l) ==
    LET m == Place(k, l, l) IN
    [m EXCEPT !.sp = IF @ = None THEN Opened ELSE @, !.flow = @ \cup {<<l, Opened>>}]

dolabel ==
    /\ Statement /\ declared' = -1 /\ csp' = Opened /\ Finished("other")
    /\ \E n \in Names : addlabel(n, TRUE, FALSE) /\ code' = Named(OpenedCode, Number(n))
    /\ UNCHANGED <<ncmp, noloc, wq, switch, astray>>

\* An expression or #asm; a semicolon alone does not count as a statement before.
doexpr ==
    /\ Statement /\ declared' = -1 /\ csp' = Opened /\ code' = OpenedCode
    /\ Finished("other") \/ Finished(lastst)
    /\ UNCHANGED <<ncmp, noloc, nxtlab, locals, wq, switch, given, errors, astray>>

-----------------------------------------------------------------------------
StmtInit ==
    /\ calls = <<>> /\ at = "between" /\ eof = FALSE /\ stmts = 0
    /\ csp = 0 /\ declared = -1 /\ ncmp = 0 /\ nogo = 0 /\ noloc = FALSE
    /\ lastst = "other" /\ nxtlab = 0 /\ locals = <<>> /\ wq = <<>>
    /\ swactive = FALSE /\ swdefault = 0 /\ swtab = <<>>
    /\ code = [sp |-> None, flow |-> {}] /\ given = [n \in Names |-> 0]
    /\ errors = FALSE /\ astray = {}

\* What comes next in the source, and what follows from it.  Declarations, the heads of
\* functions and expressions are left to the module that extends this one.
Starts ==
    \/ compound \/ doif \/ addwhileFails \/ dowhile \/ dodo \/ dofor
    \/ doswitch \/ docase \/ dodefault
    \/ doreturn \/ dobreak \/ docont \/ dogoto \/ dolabel

Ends ==
    \/ CompoundEnd \/ EndOfSource \/ NoStatement
    \/ IfEnd \/ Else \/ ElseEnd \/ LoopEnd \/ DoEnd \/ SwitchEnd

\* The table of the arguments: no more than it has entries.
ArgumentsOK(t) ==
    /\ t \in Seq(Range(t)) /\ Len(t) <= NUMLOCS
    /\ \A i \in DOMAIN t : /\ t[i].name \in Names /\ t[i].label \in BOOLEAN /\ t[i].def \in BOOLEAN
                           /\ t[i].offset \in Int /\ t[i].size \in Nat

\* A declaration outside of functions.
Elsewhere ==
    /\ at = "between" /\ ~eof /\ stmts < MaxStmts /\ stmts' = stmts + 1
    /\ UNCHANGED <<calls, at, eof, csp, block, lastst, nxtlab, locals, wq, switch, history>>

\* The statement compiler by itself, with any arguments and any locals.
StmtNext ==
    \/ Starts \/ doexpr \/ \E n \in Names, z \in Nat : \E what : declloc_(n, z, what)
    \/ Ends \/ FunctionEnd \/ Elsewhere
    \/ \E t : ArgumentsOK(t) /\ dofunction_(t)

StmtSpec == StmtInit /\ [][StmtNext]_statement

-----------------------------------------------------------------------------
CallNames == {"function", "compound", "if", "else", "while", "do", "for", "switch"}

CallRecord == [call : CallNames, labels : Seq(Nat), savcsp : Int, savloc : Nat, swact : BOOLEAN,
               swdef : Nat, swnex : Nat, cases : Seq(Nat), default : Nat]

\* The table of locals, and what it takes of the stack.
TableOK ==
    /\ locals \in Seq(Range(locals)) /\ Len(locals) <= NUMLOCS
    /\ \A i \in DOMAIN locals : /\ locals[i].name \in Names /\ locals[i].label \in BOOLEAN
                                 /\ locals[i].def \in BOOLEAN /\ locals[i].offset \in Int
                                 /\ locals[i].size \in Nat
    /\ declared \in Nat \cup {-1}

StmtTypeOK ==
    /\ calls \in Seq(CallRecord)
    /\ at \in {"statement", "done", "between"} /\ eof \in BOOLEAN /\ stmts \in 0..MaxStmts
    /\ csp \in Int /\ ncmp \in Nat /\ nogo \in Nat /\ noloc \in BOOLEAN
    /\ lastst \in Leaving \cup {"other"} /\ nxtlab \in Nat
    /\ TableOK
    /\ wq \in Seq([sp : Int, loop : Nat, exit : Nat]) /\ Len(wq) <= WQTAB
    /\ swactive \in BOOLEAN /\ swdefault \in Nat /\ swtab \in Seq(Nat) /\ Len(swtab) <= SWTAB
    /\ code \in [sp : Int \cup {None}, flow : SUBSET (Int \X Int)]
    /\ given \in [Names -> Nat] /\ errors \in BOOLEAN /\ astray \subseteq {"left", "kept", "skipped", "untyped"}

\* The statements that a break can leave, and the entry that each has in the queue.
Leavable == {i \in DOMAIN calls : calls[i].call \in {"while", "do", "for", "switch"}}
UpTo(i, S) == Cardinality({j \in S : j <= i})
EntryOf(c) == [sp |-> c.savcsp, loop |-> IF c.call = "switch" THEN 0 ELSE c.labels[1],
               exit |-> IF c.call = "switch" THEN c.labels[1] ELSE c.labels[2]]

\* The switches inside the switch i, where the cases of i end, and its default.
Within(i) == {j \in Switches : j > i}
Nearest(i) == CHOOSE j \in Within(i) : \A m \in Within(i) : j <= m
CasesEnd(i) == IF Within(i) = {} THEN Len(swtab) ELSE calls[Nearest(i)].swnex
DefaultOf(i) == IF Within(i) = {} THEN swdefault ELSE calls[Nearest(i)].swdef

\* The queue, the table of cases and the counts are as the recursion says, also
\* after an error: break, continue and the end of a loop find what belongs to the
\* innermost of the loops and switches still open (CC_RESIDENT.C:579), and no
\* table outgrows its array.  Each switch that is still open has its own cases and its
\* own default in the shared table, whatever switches were nested in it (CC_STMT.C:564).
TablesFollow ==
    /\ StmtTypeOK
    /\ Len(wq) = Cardinality(Leavable)
    /\ \A i \in Leavable : wq[UpTo(i, Leavable)] = EntryOf(calls[i])
    /\ ncmp = Cardinality({i \in DOMAIN calls : calls[i].call = "compound"})
    /\ ~errors =>
          /\ swactive = (Switches # {})
          /\ Switches = {} => swtab = <<>> /\ swdefault = 0
          /\ \A i \in Switches :
                /\ UpTo(i, Switches) = 1 => calls[i].swnex = 0
                /\ SubSeq(swtab, calls[i].swnex + 1, CasesEnd(i)) = calls[i].cases
                /\ DefaultOf(i) = calls[i].default

\* Control reaches each of these labels at one depth only.
Level(labels) == \A e, f \in code.flow : e[1] \in labels /\ e[1] = f[1] => e[2] = f[2]

OfNames == {given[n] : n \in Names} \ {0}

\* Programs in which no goto changes the depth, no break or continue leaves
\* variables of a block, no block with variables ends in return or goto, lastst
\* never speaks of an earlier statement, and every argument has a type.
Sound == ~errors /\ astray = {} /\ Level(OfNames)

\* The compiler knows the stack: where control can be, the stack of the running
\* program is as deep as csp says, and every way to a label of an if, a loop or a
\* switch arrives at the same depth (gen, compound, dobreak, doreturn).
TrackedIsReal == Sound => code.sp \in {None, csp} /\ Level(1..nxtlab)

\* No two variables in scope share a byte, and each is inside the stack that the
\* block will have when its first statement runs (CC_STMT.C:271), or above the saved
\* frame pointer and the return address, if it is an argument.
Variables == {i \in DOMAIN locals : ~locals[i].label}

Apart ==
    Sound /\ at # "between" => \A i \in Variables :
        /\ locals[i].offset >= Opened
        /\ locals[i].offset + locals[i].size <= 0 \/ locals[i].offset >= LastArgument
        /\ \A j \in Variables : i < j => locals[j].offset + locals[j].size <= locals[i].offset

\* A label keeps its number to the end of the function, past the end of the block
\* it stands in (CC_STMT.C:322), and no name has two.
Survive ==
    ~errors /\ calls # <<>> => \A n \in Names : given[n] # 0 =>
        {locals[i].offset : i \in {j \in Found(n) : locals[j].label}} = {given[n]}

\* The table of locals is right in both ways: declloc and the close of a block
\* change variables and labels in one array.
LocalsTrue == Apart /\ Survive
=============================================================================
