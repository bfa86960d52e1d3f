------------------------------- MODULE Monitor -------------------------------
(***************************************************************************)
(* The console of the MONITOR (src/Disc_Monitor/DISC_MONITOR_V56F.A99):    *)
(* the prompt and its commands, the loaders of hexadecimal files, and the  *)
(* programs it starts, which use the services of Xops and come back to it. *)
(*                                                                         *)
(* The user types, and sends files at the loader's request; noise changes *)
(* at most one digit of a file, and none of a record's length (the README  *)
(* says what that does).  The console's own use of READ, WRITE, MESG and   *)
(* WHEX is one step each, as Xops shows they may be.  Files are loaded     *)
(* above the MONITOR's workspaces; Q is left to Disc.                      *)
(***************************************************************************)
EXTENDS Xops, SequencesExt

CONSTANTS
    STACKP,     \* the address of the console's stack
    Files,      \* what may be sent: sequences of records
    Typed       \* the characters a user types

VARIABLES
    con,        \* what the console reads next
    hex,        \* R2
    given,      \* R3: hex holds a number that was typed
    open,       \* R14: the open location
    paged,      \* the loader is V
    load,       \* R3, R4, R5 of a loader: sum, count, address
    mem,        \* the bytes of memory, Return where a return address was
    told,       \* history: LOAD ERROR since the file was sent
    sent,       \* history: the file sent since a key was typed
    typing      \* bound: the keys still typed

console == <<con, hex, given, open, paged, load, mem, told, sent>>
vars == <<machine, line, left, typing, console>>

\* A record's length, its data and its page are bytes.
Record == [at : Word, data : Seq(0 .. Byte - 1), page : 0 .. Byte - 1]

ASSUME FileAssumption ==
    Files \subseteq Seq(Record) /\ \A f \in Files : \A i \in DOMAIN f : Len(f[i].data) < Byte
ASSUME TypedAssumption == Typed \subseteq Nat

Return == Byte
Nothing == <<>>

\* Characters that are no digits.
Colon == Base + 1
CR == Base + 2
Minus == Base + 3
CtrlZ == Base + 4
Letter(i) == Base + 5 + i
Slash == Letter(0)
Q == Letter(1)
U == Letter(2)
V == Letter(3)
G == Letter(4)
M == Letter(5)
Z == Letter(6)
O == Letter(7)
W == Letter(8)
R == Letter(9)
P == Letter(10)
X == Letter(11)
L == Letter(12)
H == Letter(13)
S == Letter(14)
T == Letter(15)

INTAB == <<CtrlZ, Slash, Slash, Q, U, V, G, M, Z, O, W, R, P, X, L, H, S, T, Slash, Space>>

SUBTAB == <<"BANNER", "", "", "QBOOT", "HEXLOAD", "HEXLOAD2", "GO", "MOVE", "FIND", "OUTPUT",
            "WP", "PRINT_REGS", "PRINT", "XCUTE", "LOWW", "SETBP", "SSTEP", "TRACE", "CHAR",
            "OPEN">>

\* The table is searched from its end.
Places(c) == {i \in 1 .. Len(INTAB) : INTAB[i] = c}

\* Mutated form: an unknown character falls through to the last routine.
CommandBug(c) == IF Places(c) = {} THEN "OPEN" ELSE SUBTAB[Max(Places(c))]

Command(c) == IF Places(c) = {} THEN "??" ELSE SUBTAB[Max(Places(c))]

MonitorInit ==
    /\ Init
    /\ line = <<>>
    /\ con = "prompt" /\ hex = 0 /\ given = FALSE /\ open = 0
    /\ paged = FALSE /\ load = [sum |-> 0, count |-> 0, at |-> 0]
    /\ mem = [a \in Word |-> 0]
    /\ told = FALSE /\ sent = Nothing
-----------------------------------------------------------------------------
\* The console reads one character, or the two digits of a byte.
Reads(state) == /\ ctx = "monitor" /\ con = state /\ line # <<>>
                /\ line' = Tail(line)
                /\ UNCHANGED <<machine, left>>

ch == line[1].ch

Loading == UNCHANGED <<paged, load, told, sent, typing>>

Prompt == con' = "prompt" /\ hex' = 0 /\ given' = FALSE

Even(a) == a - (a % 2)
Address(default) == IF given THEN hex ELSE default

HexDigit ==
    /\ \E state \in {"prompt", "entry"} : Reads(state)
    /\ ch \in Digit
    /\ hex' = Shifted(hex, ch)
    /\ given' = TRUE
    /\ UNCHANGED <<con, open, mem>> /\ Loading

Instruction(name) == Reads("prompt") /\ ch \notin Digit /\ Command(ch) = name

\* Commands that print and commands that are not there.
Shows == {"BANNER", "PRINT_REGS", "MOVE", "FIND", "PRINT", "XCUTE", "LOWW", "SETBP", "SSTEP",
          "TRACE", "CHAR", "??"}
Show == /\ \E name \in Shows : Instruction(name)
        /\ Prompt
        /\ UNCHANGED <<open, mem>> /\ Loading

\* O shows eight lines, and eight more for each space.
OUTPUT == /\ Instruction("OUTPUT")
          /\ con' = "more"
          /\ UNCHANGED <<hex, given, open, mem>> /\ Loading

More == /\ Reads("more")
        /\ IF ch = Space THEN UNCHANGED <<con, hex, given>> ELSE Prompt
        /\ UNCHANGED <<open, mem>> /\ Loading

WP == /\ ctx = "monitor" /\ con = "prompt" /\ line # <<>> /\ Command(ch) = "WP"
      /\ line' = Tail(line)
      /\ ram' = IF given THEN [ram EXCEPT ![WPSTORE] = hex] ELSE ram
      /\ Prompt
      /\ UNCHANGED <<ctx, pc, st, ws, reg, stk, out, asked, keys, left, open, mem>> /\ Loading

OPEN == /\ Instruction("OPEN")
        /\ open' = Even(Address(open))
        /\ con' = "entry" /\ hex' = 0 /\ given' = FALSE
        /\ UNCHANGED mem /\ Loading

\* The number typed goes into the open location; space and minus go on.
Entry ==
    /\ Reads("entry") /\ ch \notin Digit
    /\ mem' = IF given THEN [mem EXCEPT ![open] = hex \div Byte, ![open + 1] = hex % Byte]
              ELSE mem
    /\ hex' = 0 /\ given' = FALSE
    /\ CASE ch = Space -> con' = "entry" /\ open' = (open + 2) % (Byte * Byte)
         [] ch = Minus -> con' = "entry" /\ open' = (open + Byte * Byte - 2) % (Byte * Byte)
         [] OTHER      -> con' = "prompt" /\ UNCHANGED open
    /\ Loading

GO == /\ ctx = "monitor" /\ con = "prompt" /\ line # <<>> /\ Command(ch) = "GO"
      /\ line' = Tail(line)
      /\ IF given THEN Go(hex) ELSE UNCHANGED machine
      /\ Prompt
      /\ UNCHANGED <<left, open, mem>> /\ Loading

HEXLOAD == /\ \E name \in {"HEXLOAD", "HEXLOAD2"} : Instruction(name)
           /\ con' = "colon"
           /\ paged' = (Command(ch) = "HEXLOAD2")
           /\ UNCHANGED <<hex, given, open, load, mem, told, sent, typing>>
-----------------------------------------------------------------------------
\* The loaders.  NEXTADDR and NEXTBYTE save their return addresses at STACKP.
LoaderStack(n) == {(STACKP + Byte * Byte - i) % (Byte * Byte) : i \in 1 .. 2 * n}

Stacked(n, m) == [a \in Word |-> IF a \in LoaderStack(n) THEN Return ELSE m[a]]

\* HEXLOAD's two digits; a character that is no digit has its low four bits.
CATOH(c) == c % Base
NEXTBYTE == CATOH(line[1].ch) * Base + CATOH(line[2].ch)
Sum == (load.sum + NEXTBYTE) % Byte

ReadsByte(state, depth) ==
    /\ ctx = "monitor" /\ con = state /\ Len(line) > 1
    /\ line' = SubSeq(line, 3, Len(line))
    /\ mem' = Stacked(depth, mem)
    /\ UNCHANGED <<machine, left, open, paged, told, sent, typing>>

Same == UNCHANGED <<hex, given>>

FindColon ==
    /\ Reads("colon")
    /\ con' = IF ch = Colon THEN "length" ELSE "colon"
    /\ load' = [load EXCEPT !.sum = 0]
    /\ UNCHANGED <<open, paged, mem, told, sent, typing>> /\ Same

\* A record without data ends the file at once.
Length ==
    /\ ReadsByte("length", 1)
    /\ load' = [load EXCEPT !.sum = Sum, !.count = NEXTBYTE]
    /\ IF NEXTBYTE = 0 THEN Prompt
       ELSE con' = (IF paged THEN "page" ELSE "high") /\ Same

\* The page byte is taken out of the sum again.
Page == ReadsByte("page", 1) /\ con' = "high" /\ Same /\ UNCHANGED load

AddressHigh ==
    /\ ReadsByte("high", 2) /\ con' = "low" /\ Same
    /\ load' = [load EXCEPT !.sum = Sum, !.at = NEXTBYTE * Byte]

AddressLow ==
    /\ ReadsByte("low", 2) /\ con' = "type" /\ Same
    /\ load' = [load EXCEPT !.sum = Sum, !.at = @ + NEXTBYTE]

Type == /\ ReadsByte("type", 1) /\ con' = "data" /\ Same
        /\ load' = [load EXCEPT !.sum = Sum]

\* A byte is in memory before the sum is known.
Data ==
    /\ ctx = "monitor" /\ con = "data" /\ Len(line) > 1
    /\ line' = SubSeq(line, 3, Len(line))
    /\ mem' = [Stacked(1, mem) EXCEPT ![load.at] = NEXTBYTE]
    /\ load' = [sum |-> Sum, count |-> load.count - 1, at |-> (load.at + 1) % (Byte * Byte)]
    /\ con' = IF load.count = 1 THEN "check" ELSE "data"
    /\ UNCHANGED <<machine, left, open, paged, told, sent, typing>> /\ Same

\* Mutated form: the sum is not looked at.
CheckBug ==
    /\ ReadsByte("check", 1) /\ Same
    /\ con' = "colon"
    /\ UNCHANGED load

Check ==
    /\ ReadsByte("check", 1) /\ Same
    /\ con' = IF Sum = 0 THEN "colon" ELSE "rubbish"
    /\ UNCHANGED load

\* One character, the message (its first character), one more character, the
\* prompt.
HL_14 ==
    \/ /\ Reads("rubbish") /\ con' = "error" /\ told' = TRUE /\ Same
       /\ UNCHANGED <<open, paged, load, mem, sent, typing>>
    \/ /\ Reads("error") /\ Prompt
       /\ UNCHANGED <<open, mem>> /\ Loading
-----------------------------------------------------------------------------
\* The terminal.
Characters(s, by) == [i \in 1 .. Len(s) |-> [ch |-> s[i], by |-> by]]

Key(c) ==
    /\ typing > 0 /\ typing' = typing - 1
    /\ line = <<>>
    /\ \/ ctx = "monitor" /\ con \in {"prompt", "entry", "more"}
       \/ ctx = "READ" /\ c < Byte
    /\ line' = Characters(<<c>>, "user")
    /\ told' = FALSE /\ sent' = Nothing
    /\ UNCHANGED <<machine, left, con, hex, given, open, paged, load, mem>>

Digits2(b) == <<b \div Base, b % Base>>
Bytes(b) == FlattenSeq([i \in 1 .. Len(b) |-> Digits2(b[i])])
Summed(b) == FoldLeft(LAMBDA x, y : (x + y) % Byte, 0, b)

\* A record as the assembler writes it: length, page for V, address, type 0,
\* data, and what makes the sum zero without the page.
Body(r) == <<r.at \div Byte, r.at % Byte, 0>> \o r.data
RecordText(r) ==
    <<Colon>> \o Digits2(Len(r.data)) \o (IF paged THEN Digits2(r.page) ELSE <<>>)
    \o Bytes(Body(r) \o <<(Byte - Summed(<<Len(r.data)>> \o Body(r))) % Byte>>) \o <<CR>>
EndText == <<Colon>> \o Bytes(<<0, 0, 0, 1, Byte - 1>>) \o <<CR>>

FileText(f) == FlattenSeq([i \in 1 .. Len(f) |-> RecordText(f[i])]) \o EndText

\* The digits of a text that noise may change: all but those of the lengths
\* and of the end record.
Noisy(text) == {i \in 4 .. Len(text) - Len(EndText) :
                   text[i] \in Digit /\ Colon \notin {text[i - 1], text[i - 2]}}

Noise(text) == {text} \cup {[text EXCEPT ![i] = d] : i \in Noisy(text), d \in Digit}

Send(f) ==
    /\ ctx = "monitor" /\ con = "colon" /\ line = <<>> /\ sent = Nothing
    /\ \E text \in Noise(FileText(f)) : line' = Characters(text, "file")
    /\ told' = FALSE /\ sent' = f
    /\ UNCHANGED <<machine, left, typing, con, hex, given, open, paged, load, mem>>
-----------------------------------------------------------------------------
\* A program ends, or crashes, and the console is back; BLWP leaves where it
\* was used in R14: in the program, or in the crash handler's ROM.
ROM == (Base - 1) * Base ^ 3

Ends == /\ \/ ctx = "program"
           \/ Reported
        /\ ToBanner
        /\ open' = IF ctx = "program" THEN pc.n ELSE ROM
        /\ con' = "prompt" /\ hex' = 0 /\ given' = FALSE
        /\ UNCHANGED <<line, left, mem>> /\ Loading

Next ==
    \/ Serve /\ UNCHANGED <<console, typing>>
    \/ HexDigit \/ Show \/ OUTPUT \/ More \/ WP \/ OPEN \/ Entry \/ GO \/ HEXLOAD
    \/ FindColon \/ Length \/ Page \/ AddressHigh \/ AddressLow \/ Type \/ Data \/ Check \/ HL_14
    \/ Ends
    \/ \E c \in Typed : Key(c)
    \/ \E f \in Files : Send(f)

Spec == MonitorInit /\ [][Next]_vars
-----------------------------------------------------------------------------
\* When a file has been read, every byte of it that no later byte replaced is
\* in memory, except where the loader's stack is, or the user has been told.
\* (HEXLOAD, HEXLOAD2: bytes are stored before the sum is known, the page is
\* not part of it, and the end record is not read to its end.)
Stores(f) == FlattenSeq([i \in 1 .. Len(f) |->
                 [k \in 1 .. Len(f[i].data) |->
                     <<(f[i].at + k - 1) % (Byte * Byte), f[i].data[k]>>]])
Final(f, k) == \A j \in k + 1 .. Len(Stores(f)) : Stores(f)[j][1] # Stores(f)[k][1]

LoadedOrTold ==
    ctx = "monitor" /\ con = "prompt" /\ line = <<>> /\ sent # Nothing /\ ~told =>
        \A k \in 1 .. Len(Stores(sent)) :
            Final(sent, k) /\ Stores(sent)[k][1] \notin LoaderStack(2) =>
                mem[Stores(sent)[k][1]] = Stores(sent)[k][2]

\* No character of a file is ever taken for a command, though what follows an
\* error or the end record is read by the prompt.
NoStrayCommand ==
    [][ctx = "monitor" /\ con = "prompt" /\ (con' # con \/ ctx' # ctx \/ ram' # ram \/ mem' # mem)
       => line[1].by = "user"]_vars

\* A service does what it is for and nothing else to its caller, however the
\* services nest and whatever interrupts came in between; a crash is reported
\* where it happened.  DEBUG's listing may show R8 changed: it is TIMEOUT.
\* Four is a word's digits; Number is what the last four digits typed are worth.
Four(w) == <<(w \div (Base * Byte)) % Base, (w \div Byte) % Base, (w \div Base) % Base, w % Base>>
FromEnd(s, k) == IF k < Len(s) THEN s[Len(s) - k] ELSE 0
Number(s) == ((FromEnd(s, 3) * Base + FromEnd(s, 2)) * Base + FromEnd(s, 1)) * Base + FromEnd(s, 0)
Kept == reg = asked.reg
Stored(v) == reg = [asked.reg EXCEPT ![asked.ea[2]] = v]
Value == asked.reg[asked.ea[2]]

ListingTrue ==
    LET shown(n) == SubSeq(out, Len(asked.ea) + 4 * n - 3, Len(asked.ea) + 4 * n)
    IN /\ Len(out) = Len(asked.ea) + 4 * (SP + 3)
       /\ SubSeq(out, 1, Len(asked.ea)) = asked.ea
       /\ shown(1) = Four(asked.top) /\ shown(2) = Four(asked.at.n)
       /\ \A i \in (0 .. SP) \ {1} : shown(i + 3) = Four(asked.reg[i])

Promised ==
    CASE asked.svc = "WRITE" -> Kept /\ out = <<Char(Value)>>
      [] asked.svc = "WHEX"  -> Kept /\ out = Four(Value)
      [] asked.svc = "READ"  -> out = <<>> /\ Len(keys) = 1 /\ Stored(High(keys[1]))
      [] asked.svc = "RHEX"  -> /\ out = keys /\ Last(keys) \notin Digit
                                /\ Stored(Number(Front(keys)))
      [] asked.svc = "MESG"  -> Kept /\ out = asked.ea
      [] asked.svc = "DEBUG" -> Kept /\ ListingTrue
      [] OTHER -> TRUE

ServicesTrue ==
    /\ ctx = "program" /\ asked.svc \in Terminal =>
        Promised /\ pc = asked.at /\ st = asked.st
    /\ ctx = "program" /\ asked.svc \in Paging =>
        Kept /\ pc = asked.at /\ st = [asked.st EXCEPT !.psel = (asked.svc = "PSEL_EN")]
    /\ ctx = "monitor" /\ asked.svc = "INT2" =>
        out = Four(asked.at.n) \o Four(asked.at.n \div (Base * Byte))

\* The stack services implement a stack of words with the program's registers.
Outermost == CHOOSE s \in DOMAIN ws : ws[s].r13 = "program"
Stack == INSTANCE CallStack WITH
            Word <- Word, SP <- SP, Depth <- Depth,
            reg <- [i \in 0 .. SP - 1 |-> reg[i]],
            stack <- [k \in 1 .. Depth - Top |-> stk[Top + k - 1]],
            pos <- IF ctx = "program" THEN pc.n
                   ELSE IF ctx = "monitor" THEN 0 ELSE ws[Outermost].r14.n
ImplementsCallStack == Stack!Spec
=============================================================================
