----------------------------- MODULE ObjectFile -----------------------------
(***************************************************************************)
(* The object file of the R99 assembler: putrel and putbits of R99REL.c,   *)
(* which pack items into a stream of bits, and rputchr and rflush of       *)
(* R99PUT.c, which write its bytes a buffer at a time.                     *)
(*                                                                         *)
(* An item is an item code with the type, field and symbol it needs; the   *)
(* stream is a record, threaded through the operators as the globals are   *)
(* through the calls.  A symbol is the sequence of its characters, without *)
(* the blanks it is padded with.                                           *)
(***************************************************************************)
EXTENDS Integers, Sequences, SequencesExt

CONSTANT BUFSIZE    \* bytes of a disk buffer: 16

ASSUME BufferAssumption == BUFSIZE \in Nat \ {0}

ABS == 0
PREL == 1
ENAME == 4
PNAME == 6
EXT == 8
XCHAIN == 10
EPOINT == 11
DSIZE == 14
SETLC == 15
CHAIN == 16
PSIZE == 17
EPROG == 18
EFILE == 19

\* The characters of XREFS.
XREFS == <<88, 82, 69, 70, 83>>

Rec(item, type, field, symbol) == [item |-> item, type |-> type, field |-> field, symbol |-> symbol]

\* relhead sets outrem and outchunk; setfiles has opened the file.
Empty == [outchunk |-> 0, outrem |-> 8, hexbuf |-> <<>>, file |-> <<>>]

\* Mutated form: the byte that fills the buffer is written and kept.
rputchrBug(byte, o) ==
    LET b == Append(o.hexbuf, byte) IN
    IF Len(b) = BUFSIZE THEN [o EXCEPT !.file = @ \o b, !.hexbuf = <<byte>>]
    ELSE [o EXCEPT !.hexbuf = b]

rputchr(byte, o) ==
    LET b == Append(o.hexbuf, byte) IN
    IF Len(b) = BUFSIZE THEN [o EXCEPT !.file = @ \o b, !.hexbuf = <<>>]
    ELSE [o EXCEPT !.hexbuf = b]

\* Of a buffer that is just empty one byte is written.
rflush(o) ==
    LET t == IF o.hexbuf = <<>> THEN 1 ELSE Len(o.hexbuf)
        padded == [i \in 1..BUFSIZE |-> IF i <= Len(o.hexbuf) THEN o.hexbuf[i] ELSE 0]
    IN  [o EXCEPT !.file = @ \o SubSeq(padded, 1, t), !.hexbuf = <<>>]

\* One turn of the loop of putbits: at most what the chunk has room for.
Turn(bits, put, o) ==
    LET chunk == (o.outchunk * 2^put + bits) % 256 IN
    IF put = o.outrem THEN [rputchr(chunk, o) EXCEPT !.outchunk = 0, !.outrem = 8]
    ELSE [o EXCEPT !.outchunk = chunk, !.outrem = @ - put]

\* Up to eight bits, the lowest of fld, first bit first.
putbits(fld, n, o) ==
    IF n <= o.outrem THEN Turn(fld % 2^n, n, o)
    ELSE LET left == n - o.outrem IN
         Turn(fld % 2^left, left, Turn((fld \div 2^left) % 2^o.outrem, o.outrem, o))

\* Low byte, then high byte.
putfld(field, o) == putbits(field \div 256, 8, putbits(field, 8, o))

\* At most 15 characters, so that their number has four bits.
MAXSYM == 15

putsym(symbol, o) ==
    LET i == IF Len(symbol) < MAXSYM THEN Len(symbol) ELSE MAXSYM IN
    FoldLeft(LAMBDA p, c : putbits(c, 8, p), putbits(i, 4, o), SubSeq(symbol, 1, i))

finish(o) == IF o.outrem < 8 THEN putbits(0, o.outrem, o) ELSE o

\* putrel, in pass 2.
putrel(o, r) ==
    LET typed(p) == putfld(r.field, putbits(r.type, 2, p))
        special == putbits(r.item - 4, 4, putbits(4, 3, o))
    IN  CASE r.item = ABS -> putbits(r.field, 8, putbits(0, 1, o))
          [] r.item = PREL -> putfld(r.field, putbits(r.item, 2, putbits(1, 1, o)))
          [] r.item \in {XCHAIN, EPOINT} -> putsym(r.symbol, typed(special))
          [] r.item \in {ENAME, PNAME, EXT} -> putsym(r.symbol, special)
          [] r.item \in {DSIZE, SETLC, CHAIN, PSIZE} -> typed(special)
          [] r.item = EPROG -> finish(typed(special))
          [] r.item = EFILE -> finish(special)

Put(recs, o) == FoldLeft(putrel, o, recs)

\* putabs2.
Word2(w) == <<Rec(ABS, 0, w \div 256, <<>>), Rec(ABS, 0, w % 256, <<>>)>>

-----------------------------------------------------------------------------
(* A reader, from the format in Include/rel99.h and rel99_format.h.        *)

Bits(bytes, p, n) ==
    LET Bit(k) == IF k < 8 * Len(bytes) THEN (bytes[(k \div 8) + 1] \div 2^(7 - (k % 8))) % 2 ELSE 0
    IN  FoldLeft(LAMBDA v, k : 2 * v + Bit(k), 0, [i \in 1..n |-> p + i - 1])

Field16(bytes, p) == Bits(bytes, p, 8) + 256 * Bits(bytes, p + 8, 8)

Symbol(bytes, p) == [i \in 1..Bits(bytes, p, 4) |-> Bits(bytes, p + 4 + 8 * (i - 1), 8)]

\* The item that begins at bit p, and the bit after it.
ItemAt(bytes, p) ==
    LET item == IF Bits(bytes, p, 1) = 0 THEN ABS
                ELSE IF Bits(bytes, p, 3) # 4 THEN Bits(bytes, p + 1, 2)
                ELSE Bits(bytes, p + 3, 4) + 4
        body == p + (IF item = ABS THEN 1 ELSE IF item < 4 THEN 3 ELSE 7)
        typed == item \in {XCHAIN, EPOINT, DSIZE, SETLC, CHAIN, PSIZE, EPROG}
        named == item \in {XCHAIN, EPOINT, ENAME, PNAME, EXT}
        name == IF named THEN Symbol(bytes, IF typed THEN body + 18 ELSE body) ELSE <<>>
    IN  [item |-> item,
         field |-> IF item = ABS THEN Bits(bytes, body, 8)
                   ELSE IF item < 4 THEN Field16(bytes, body)
                   ELSE IF typed THEN Field16(bytes, body + 2) ELSE 0,
         symbol |-> name,
         next |-> IF item = ABS THEN body + 8 ELSE IF item < 4 THEN body + 16
                  ELSE IF item \in {EPROG, EFILE}
                  THEN 8 * ((body + (IF typed THEN 18 ELSE 0) + 7) \div 8)
                  ELSE body + (IF typed THEN 18 ELSE 0) + (IF named THEN 4 + 8 * Len(name) ELSE 0)]

RECURSIVE ItemsFrom(_, _)
ItemsFrom(bytes, p) ==
    LET i == ItemAt(bytes, p) IN
    IF i.item = EFILE \/ i.next >= 8 * Len(bytes) THEN <<i>> ELSE <<i>> \o ItemsFrom(bytes, i.next)

\* What a linker learns: the bytes and words of the program, each with its place;
\* entry names and points; and where externals are referred to.  CHAIN is a place of
\* a reference within a group, and moves the location counter elsewhere.
Learned(bytes) ==
    LET Learn(k, i) ==
        CASE i.item = ABS -> [k EXCEPT !.code = Append(@, <<k.lc, "ABS", i.field>>), !.lc = @ + 1]
          [] i.item = PREL -> [k EXCEPT !.code = Append(@, <<k.lc, "PREL", i.field>>), !.lc = @ + 2]
          [] i.item = PNAME -> [k EXCEPT !.name = i.symbol]
          [] i.item = ENAME -> [k EXCEPT !.enames = Append(@, i.symbol)]
          [] i.item = EPOINT -> [k EXCEPT !.epoints = Append(@, <<i.symbol, i.field>>)]
          [] i.item = PSIZE -> [k EXCEPT !.size = i.field]
          [] i.item = SETLC -> [k EXCEPT !.lc = i.field]
          [] i.item = XCHAIN -> [k EXCEPT !.left = i.field, !.group = i.symbol]
          [] i.item = CHAIN /\ k.left > 0 ->
                [k EXCEPT !.left = @ - 1, !.refs = @ \cup {<<k.group, i.field>>}]
          [] i.item = CHAIN /\ k.left = 0 -> [k EXCEPT !.lc = i.field]
          [] OTHER -> k
    IN  FoldLeft(Learn, [name |-> <<>>, enames |-> <<>>, epoints |-> <<>>, size |-> 0, lc |-> 0,
                         code |-> <<>>, refs |-> {}, left |-> 0, group |-> <<>>],
                 ItemsFrom(bytes, 0))
=============================================================================
