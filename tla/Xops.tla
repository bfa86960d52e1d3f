-------------------------------- MODULE Xops --------------------------------
(***************************************************************************)
(* The services of the MONITOR (src/Disc_Monitor/DISC_MONITOR_V56F.A99): a *)
(* program calls them with XOP instructions, which switch to a workspace   *)
(* of the service's own and leave the caller's workspace, program counter  *)
(* and status in its R13 to R15; RTWP goes back.  The terminal services    *)
(* call one another that way, and interrupts come in between.             *)
(*                                                                         *)
(* A digit is 0 .. Base - 1 and also the character that shows it; a byte   *)
(* is two digits, a word two bytes (16, 8 and 16 bits in the machine).     *)
(* The program's registers are R0 to R(SP): register 0 stands for R2, 1 for *)
(* R8, SP for R10.  A service that has returned keeps nothing: its next caller *)
(* overwrites the link.  The stubs INT1, INT3 and INT7 are left out: no    *)
(* device of the machine raises them.                                      *)
(***************************************************************************)
EXTENDS Integers, Sequences

CONSTANTS
    Base,       \* of the digits: 16
    SP,         \* how many registers before the stack pointer
    Depth,      \* words below STACKP
    Levels,     \* interrupt levels in use: 4, the timer, and 5 and 6, the drive
    Texts,      \* messages
    Values      \* the words that programs put into registers and call

Digit == 0 .. Base - 1
Byte == Base * Base
Word == 0 .. Byte * Byte - 1
Space == Base

ASSUME BaseAssumption == Base \in Nat /\ Base > 1
ASSUME RegisterAssumption == SP \in Nat /\ SP > 1 /\ Depth \in Word
ASSUME TextAssumption == Texts \subseteq Seq(Nat)
ASSUME LevelAssumption == Levels \subseteq 4 .. 6 /\ Values \subseteq Word

VARIABLES
    ctx,        \* whose workspace the processor uses
    pc,         \* where it is there: a label and a number
    st,         \* status: /PSEL and the interrupt mask
    ws,         \* the workspaces of the services and handlers in progress
    reg,        \* the program's R0 to R(SP)
    stk,        \* the words at and below STACKP
    ram,        \* DEBUG_BUFFER and, past its end, TIMEOUT and WPSTORE
    line,       \* characters that the terminal has sent
    out,        \* history: what the terminal shows since the last service call
    asked,      \* history: that call, and the program when it was made
    keys,       \* history: the characters read since
    left        \* bound: what the program and the devices still do

machine == <<ctx, pc, st, ws, reg, stk, ram, out, asked, keys>>

Terminal == {"WHEX", "RHEX", "WRITE", "READ", "MESG", "DEBUG"}
Paging == {"PSEL_DIS", "PSEL_EN"}

At(label) == [at |-> label, n |-> 0]
Position(p) == [at |-> "program", n |-> p]
Off == [psel |-> FALSE, mask |-> 7]

Fresh == [r8 |-> 0, r9 |-> 0, r10 |-> 0, r11 |-> 0, r12 |-> 0,
          r13 |-> "monitor", r14 |-> At("idle"), r15 |-> Off]

Quiet == [svc |-> "none"]

\* The words of DEBUG_BUFFER: the program counter, then the registers.  The
\* buffer ends before R8, and the words behind it are TIMEOUT and WPSTORE.
TIMEOUT == 2
WPSTORE == SP + 1

\* What a program finds does not depend on what the one before it left.
NoRegisters == [i \in 0 .. SP |-> IF i = SP THEN Depth ELSE 0]
NoStack == [i \in 0 .. Depth |-> 0]

Init ==
    /\ ctx = "monitor" /\ pc = At("idle") /\ st = Off
    /\ ws = [s \in {} |-> Fresh]
    /\ reg = NoRegisters /\ stk = NoStack
    /\ ram = [i \in 0 .. WPSTORE |-> IF i = TIMEOUT THEN 1 ELSE 0]
    /\ out = <<>> /\ asked = Quiet /\ keys = <<>>
-----------------------------------------------------------------------------
my == ws[ctx]

\* What an effective address holds.
Operand(ea) ==
    CASE ea[1] = "register" -> reg[ea[2]]
      [] ea[1] = "stack"    -> stk[ea[2]]
      [] ea[1] = "buffer"   -> ram[ea[2]]
      [] ea[1] = "link"     -> ws[ea[2]].r14.n
      [] OTHER              -> ws[ea[1]][ea[2]]

Char(w) == w \div Byte
High(ch) == ch * Byte
TopDigit(w) == w \div (Base * Byte)
Shifted(w, d) == ((w * Base) % (Byte * Byte)) + d
\* Mutated form: turned the other way.
RotatedBug(w) == w \div Base + (w % Base) * Base ^ 3

Rotated(w) == Shifted(w, TopDigit(w))

Goto(own, label) ==
    /\ ws' = [ws EXCEPT ![ctx] = own]
    /\ pc' = At(label)
    /\ UNCHANGED <<ctx, st>>

\* The link that a call or an interrupt leaves in R13 to R15.
Link(ea, back) == [Fresh EXCEPT !.r11 = ea, !.r13 = ctx, !.r14 = back, !.r15 = st]

\* The workspaces w and one more, and all but one.
Joined(s, own, w) == [c \in DOMAIN w \cup {s} |-> IF c = s THEN own ELSE w[c]]
Left(s) == [c \in DOMAIN ws \ {s} |-> ws[c]]

\* XOP s with effective address ea from a service or handler; own is the
\* caller's workspace, next where it goes on.
Xop(s, ea, own, next) ==
    /\ ws' = Joined(s, Link(ea, next), [ws EXCEPT ![ctx] = own])
    /\ ctx' = s /\ pc' = At("start")
    /\ UNCHANGED st

RTWP(w) ==
    /\ ctx' = w.r13 /\ pc' = w.r14 /\ st' = w.r15
    /\ ws' = Left(ctx)

\* RTWP of a service that stores v at its effective address.
Answer(v) ==
    /\ ctx' = my.r13 /\ pc' = my.r14 /\ st' = my.r15
    /\ IF my.r11[1] = "register"
       THEN reg' = [reg EXCEPT ![my.r11[2]] = v] /\ ws' = Left(ctx)
       ELSE ws' = [Left(ctx) EXCEPT ![my.r11[1]][my.r11[2]] = v] /\ UNCHANGED reg

Rest == UNCHANGED <<stk, ram, line, asked, left>>
-----------------------------------------------------------------------------
\* XOP 12 waits for the transmitter and sends the byte at *R11.
XOP12 ==
    /\ ctx = "WRITE"
    /\ out' = Append(out, Char(Operand(my.r11)))
    /\ RTWP(my)
    /\ Rest /\ UNCHANGED <<reg, keys>>

\* XOP 13 waits for a character.
XOP13 ==
    /\ ctx = "READ" /\ line # <<>>
    /\ Answer(High(Head(line).ch))
    /\ line' = Tail(line)
    /\ keys' = Append(keys, Head(line).ch)
    /\ UNCHANGED <<stk, ram, out, asked, left>>

\* XOP 14: the string at R11, a character at a time.
XOP14 ==
    /\ ctx = "MESG"
    /\ IF my.r11 = <<>>
       THEN RTWP(my)
       ELSE Xop("WRITE", <<"MESG", "r12">>,
                [my EXCEPT !.r12 = High(Head(my.r11)), !.r11 = Tail(@)], At("start"))
    /\ Rest /\ UNCHANGED <<reg, out, keys>>

\* XOP 10: four digits, the word turned by one digit after each.
XOP10 ==
    /\ ctx = "WHEX"
    /\ \/ pc.at = "start" /\ Goto([my EXCEPT !.r12 = Operand(my.r11), !.r9 = 4], "digit")
       \/ pc.at = "digit" /\ Xop("WRITE", <<"WHEX", "r8">>,
                                 [my EXCEPT !.r8 = High(TopDigit(my.r12))], At("next"))
       \/ pc.at = "next" /\ IF my.r9 = 1
                            THEN RTWP(my)
                            ELSE Goto([my EXCEPT !.r12 = Rotated(@), !.r9 = @ - 1], "digit")
    /\ Rest /\ UNCHANGED <<reg, out, keys>>

\* XOP 11: digits, each shown as it comes, up to the first other character.
XOP11 ==
    /\ ctx = "RHEX"
    /\ LET d == Char(my.r10) IN
       \/ pc.at = "start" /\ Xop("READ", <<"RHEX", "r10">>, my, At("echo")) /\ UNCHANGED reg
       \/ pc.at = "echo" /\ Xop("WRITE", <<"RHEX", "r10">>, my, At("check")) /\ UNCHANGED reg
       \/ /\ pc.at = "check" /\ d \in Digit
          /\ Goto([my EXCEPT !.r12 = Shifted(@, d)], "start")
          /\ UNCHANGED reg
       \/ pc.at = "check" /\ d \notin Digit /\ Answer(my.r12)
    /\ Rest /\ UNCHANGED <<out, keys>>

\* What DEBUG prints: its operand, the top of the stack, the copied words.
Listing == <<<<"MESG", my.r11>>, <<"WHEX", <<"stack", reg[SP]>>>>>>
           \o [i \in 1 .. SP + 2 |-> <<"WHEX", <<"buffer", i - 1>>>>]

\* What the crash handler prints: where the program was, and the segment.
Report == <<<<"WHEX", <<"link", "INT2">>>>, <<"WHEX", <<"INT2", "r8">>>>>>

Item(list) ==
    LET next == list[pc.n]
    IN Xop(next[1], next[2], my, [pc EXCEPT !.n = @ + 1])

\* XOP 15: the copy of the registers does not stop at the buffer's end.
XOP15 ==
    /\ ctx = "DEBUG"
    /\ \/ /\ pc.at = "start"
          /\ ram' = [i \in 0 .. WPSTORE |-> IF i = 0 THEN my.r14.n ELSE reg[i - 1]]
          /\ pc' = [at |-> "list", n |-> 1]
          /\ UNCHANGED <<ctx, st, ws>>
       \/ /\ pc.at = "list" /\ pc.n <= Len(Listing)
          /\ Item(Listing)
          /\ UNCHANGED ram
       \/ /\ pc.at = "list" /\ pc.n > Len(Listing)
          /\ RTWP(my)
          /\ UNCHANGED ram
    /\ UNCHANGED <<reg, stk, line, out, asked, keys, left>>
-----------------------------------------------------------------------------
\* XOP 4 to 9: the stack is the caller's, found through its workspace.
Top == reg[SP]

\* The words go below the top, the first one lowest.
Pushes(words) ==
    LET n == Len(words) IN
    /\ stk' = [j \in 0 .. Depth |-> IF j \in Top - n .. Top - 1 THEN words[j - Top + n + 1] ELSE stk[j]]
    /\ reg' = [reg EXCEPT ![SP] = Top - n]

Stacker(s) == ctx = s /\ UNCHANGED <<ram, line, out, asked, keys, left>>

\* R0 to Rn, the stack pointer as it was.
XOP4 ==
    /\ Stacker("PUSHREG")
    /\ Pushes([k \in 1 .. my.r11 + 1 |-> reg[my.r11 + 1 - k]])
    /\ RTWP(my)

\* Mutated form: R0 is left out.
XOP5Bug ==
    /\ Stacker("POPREG")
    /\ reg' = [i \in 0 .. SP |-> IF i = SP THEN Top + my.r11
                                 ELSE IF i \in 1 .. my.r11 THEN stk[Top + my.r11 - i] ELSE reg[i]]
    /\ RTWP(my)
    /\ UNCHANGED stk

\* Rn down to R0; the stack pointer is set last.
XOP5 ==
    /\ Stacker("POPREG")
    /\ reg' = [i \in 0 .. SP |-> IF i = SP THEN Top + my.r11 + 1
                                 ELSE IF i <= my.r11 THEN stk[Top + my.r11 - i] ELSE reg[i]]
    /\ RTWP(my)
    /\ UNCHANGED stk

XOP6 ==
    /\ Stacker("CALL")
    /\ Pushes(<<my.r14.n>>)
    /\ RTWP([my EXCEPT !.r14 = Position(my.r11)])

XOP7 ==
    /\ Stacker("RET")
    /\ reg' = [reg EXCEPT ![SP] = Top + 1]
    /\ RTWP([my EXCEPT !.r14 = Position(stk[Top])])
    /\ UNCHANGED stk

XOP8 ==
    /\ Stacker("PUSH")
    /\ Pushes(<<reg[my.r11]>>)
    /\ RTWP(my)

XOP9 ==
    /\ Stacker("POP")
    /\ reg' = [reg EXCEPT ![my.r11] = stk[Top], ![SP] = Top + 1]
    /\ RTWP(my)
    /\ UNCHANGED stk

\* XOP 0 and 1 change the status that RTWP restores.
XOP0_1 ==
    /\ ctx \in Paging
    /\ RTWP([my EXCEPT !.r15.psel = (ctx = "PSEL_EN")])
    /\ Rest /\ UNCHANGED <<reg, out, keys>>
-----------------------------------------------------------------------------
\* An interrupt of level n, taken by whatever runs while the mask allows it.
Interrupt(n, handler) ==
    /\ ctx # "monitor" /\ n <= st.mask
    /\ left > 0 /\ left' = left - 1
    /\ ws' = Joined(handler, Link(0, pc), ws)
    /\ ctx' = handler /\ pc' = At("start")
    /\ st' = [st EXCEPT !.mask = n - 1]
    /\ UNCHANGED <<reg, stk, ram, line, out, asked, keys>>

TimerInterrupt == 4 \in Levels /\ Interrupt(4, "INTTIMER")
DriveInterrupt == \E n \in Levels \ {4} : Interrupt(n, IF n = 5 THEN "IDE_IRQ" ELSE "IDE_DMARQ")

\* The timer may or may not be what raised level 4; at the end of TIMEOUT it
\* is turned off and TIMEOUT is 1 again.
INTTIMER ==
    /\ ctx = "INTTIMER"
    /\ RTWP(my)
    /\ \/ UNCHANGED ram
       \/ ram' = [ram EXCEPT ![TIMEOUT] = IF @ = 1 THEN 1
                                          ELSE (@ + Byte * Byte - 1) % (Byte * Byte)]
    /\ UNCHANGED <<reg, stk, line, out, asked, keys, left>>

\* The drive's status is read, which ends its request.
IDE_IRQ == ctx \in {"IDE_IRQ", "IDE_DMARQ"} /\ RTWP(my) /\ Rest /\ UNCHANGED <<reg, out, keys>>
-----------------------------------------------------------------------------
\* The program.  It keeps its stack within bounds.
Does == ctx = "program" /\ left > 0 /\ left' = left - 1

After(p) == Position((p + 1) % (Byte * Byte))

Calls(s, ea) ==
    /\ Does
    /\ ws' = Joined(s, Link(ea, After(pc.n)), ws)
    /\ ctx' = s /\ pc' = At("start")
    /\ asked' = IF s \in Terminal \cup Paging
                THEN [svc |-> s, ea |-> ea, reg |-> reg, top |-> stk[Top], at |-> After(pc.n), st |-> st]
                ELSE Quiet
    /\ out' = <<>> /\ keys' = <<>>
    /\ UNCHANGED <<st, reg, stk, ram, line>>

UsesTerminal == \/ \E s \in {"WHEX", "RHEX", "WRITE", "READ"}, i \in 0 .. SP - 1 :
                       Calls(s, <<"register", i>>)
                \/ \E s \in {"MESG", "DEBUG"}, t \in Texts : Calls(s, t)

UsesStack == \/ \E i \in 0 .. SP : \/ Top > 0 /\ Calls("PUSH", i)
                                   \/ Top < Depth /\ Calls("POP", i)
                                   \/ Top > i /\ Calls("PUSHREG", i)
                                   \/ Top + i < Depth /\ Calls("POPREG", i)
             \/ \E p \in Values : Top > 0 /\ Calls("CALL", p)
             \/ Top < Depth /\ Calls("RET", 0)

Pages == \E s \in Paging : Calls(s, 0)

Works ==
    /\ Does
    /\ \E i \in 0 .. SP - 1, v \in Values : reg' = [reg EXCEPT ![i] = v]
    /\ asked' = Quiet /\ out' = <<>> /\ keys' = <<>>
    /\ pc' = After(pc.n)
    /\ UNCHANGED <<ctx, st, ws, stk, ram, line>>

\* The program does something that the processor refuses: interrupt 2.
Crash ==
    /\ Does
    /\ ws' = Joined("INT2", [Link(0, pc) EXCEPT !.r8 = TopDigit(pc.n)], ws)
    /\ ctx' = "INT2" /\ pc' = [at |-> "list", n |-> 1]
    /\ st' = [st EXCEPT !.mask = 1]
    /\ asked' = [svc |-> "INT2", at |-> pc]
    /\ out' = <<>> /\ keys' = <<>>
    /\ UNCHANGED <<reg, stk, ram, line>>

\* B *R2 from the prompt, which has its number in R2.
Go(p) ==
    /\ ctx' = "program" /\ pc' = Position(p)
    /\ reg' = [reg EXCEPT ![0] = p]
    /\ asked' = Quiet /\ out' = <<>> /\ keys' = <<>>
    /\ UNCHANGED <<st, ws, stk, ram>>

\* BLWP to BANNER, which enables every interrupt: by the program, or by the
\* crash handler, which does not go back to the program.
ToBanner ==
    /\ ctx' = "monitor" /\ pc' = At("idle")
    /\ st' = [st EXCEPT !.mask = 7]
    /\ ws' = [s \in {} |-> Fresh]
    /\ reg' = NoRegisters /\ stk' = NoStack
    /\ UNCHANGED <<ram, out, asked, keys>>

INT2_HANDLER ==
    /\ ctx = "INT2" /\ pc.n <= Len(Report)
    /\ Item(Report)
    /\ Rest /\ UNCHANGED <<reg, out, keys>>

Reported == ctx = "INT2" /\ pc.n > Len(Report)

Serve ==
    \/ XOP12 \/ XOP13 \/ XOP14 \/ XOP10 \/ XOP11 \/ XOP15
    \/ XOP4 \/ XOP5 \/ XOP6 \/ XOP7 \/ XOP8 \/ XOP9 \/ XOP0_1
    \/ TimerInterrupt \/ DriveInterrupt \/ INTTIMER \/ IDE_IRQ \/ INT2_HANDLER
    \/ UsesTerminal \/ UsesStack \/ Pages \/ Works \/ Crash
=============================================================================
