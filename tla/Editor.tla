------------------------------- MODULE Editor -------------------------------
(***************************************************************************)
(* FileEdit's editor and viewer: the arena operations of EDITBUF.C, the    *)
(* editor's lifetime (EDITCTL.C), its one-key steps (OVL_EDIT.C) and the   *)
(* viewer's (VIEWCTL.C), over the frame OVL_VIEW.C draws.                  *)
(*                                                                         *)
(* The arena is one text in which CR ends a line.  The editor keeps the    *)
(* cursor as a line and a column and the number of lines in a counter it   *)
(* updates with every key; eblines is the count made when the file was     *)
(* loaded.  A character is the value the compiler gives to a read through  *)
(* a char pointer: a byte of 128 and more is negative.                     *)
(***************************************************************************)
EXTENDS Integers, Sequences, SequencesExt, FiniteSetsExt

CONSTANTS Key,          \* the characters the keyboard types: 32..126
          Byte,         \* the other characters a file may hold
          ebcap,        \* capacity of the arena: 12287
          Rows, Cols,   \* the text area of the screen: 20 by 73
          TabW,         \* distance of tab stops: 4
          StaleEntry    \* may the editor start on an outdated line count?

CR  == 13
TAB == 9

Char == Key \cup Byte \cup {CR, TAB}

ASSUME EditorAssumption ==
    /\ Char \subseteq -128..127 /\ Key \subseteq 32..126
    /\ ebcap \in Nat /\ StaleEntry \in BOOLEAN
    /\ {Rows, Cols, TabW} \subseteq Nat \ {0}

VARIABLES
    text,                            \* the arena: ebbase[0..eblen-1]
    eblines,                         \* file lines, as counted by the last load
    pc,                              \* "menu", "edit" or "view"
    eline, ecol, ewant,              \* cursor line and column; the column wanted
    etop, eleft,                     \* first line and column in the viewport
    etotal,                          \* the editor's count of lines
    shown,                           \* what the last frame was drawn from
    vtop, vtotal                     \* the viewer's first line and line count

docVars  == <<text, eblines>>
curVars  == <<eline, ecol, ewant>>
viewVars == <<vtop, vtotal>>
vars == <<docVars, pc, curVars, etop, eleft, etotal, shown, viewVars>>

Texts == UNION {[1..n -> Char] : n \in 0..ebcap}

-----------------------------------------------------------------------------
(* EDITBUF.C and EDITCTL.C: positions in a text t, counted from 0.         *)

Breaks(t) == Cardinality({i \in DOMAIN t : t[i] = CR})

\* What ebloadn counts: a last line without a CR is a line.
FileLines(t) == IF t = <<>> \/ Last(t) = CR THEN Breaks(t) ELSE Breaks(t) + 1

\* ebedln: the lines a cursor can be on, if eblines is right.
ebedln == CASE text = <<>>     -> 1
            [] text # <<>> /\ Last(text) = CR -> eblines + 1
            [] text # <<>> /\ Last(text) # CR -> Max({1, eblines})

\* ebseek: where line n starts, or the end of the text if there is no line n.
ebseek(t, n) ==
    Min({i \in 0..Len(t) : Breaks(SubSeq(t, 1, i)) >= n - 1} \cup {Len(t)})

\* The end of the line that position i is on.
LineEnd(t, i) == Min({j \in i..Len(t) : j = Len(t) \/ t[j + 1] = CR})

\* The length of line n, without its CR.
ebllen(t, n) == LineEnd(t, ebseek(t, n)) - ebseek(t, n)

ebindex(t, n, col) == Min({ebseek(t, n) + col, LineEnd(t, ebseek(t, n))})

\* The arena has room for a character.
Room == Len(text) < ebcap

\* Mutated form: the arena is opened one character too far.
ebinsBug(pos, c) == InsertAt(text, Min({pos + 2, Len(text) + 1}), c)

\* ebins: the text with c at position pos.
ebins(pos, c) == InsertAt(text, pos + 1, c)

\* ebdel: the text without the character at position pos.
Has(pos) == pos \in 0..(Len(text) - 1)
ebdel(pos) == RemoveAt(text, pos + 1)

\* Mutated form: a TAB counts as one column.
NextColBug(col, c) == col + 1

\* One character further on the screen.
NextCol(col, c) == IF c = TAB THEN col + (TabW - ((col - 1) % TabW)) ELSE col + 1

\* edxcol: the screen column of the cursor when the viewport starts at left.
edxcol(t, n, col, left) ==
    FoldLeft(NextCol, 1, SubSeq(t, ebindex(t, n, left) + 1, ebindex(t, n, col)))

\* OVL_VIEW.C: what vline draws of line n from column left on, as the sequence of
\* the positions whose characters fill the screen columns.
vline(t, n, left) ==
    LET first == ebindex(t, n, left)
        Draw(cells, i) ==
            cells \o [k \in 1..(IF t[i + 1] = TAB THEN TabW - (Len(cells) % TabW) ELSE 1) |-> i]
    IN  FoldLeft(Draw, <<>>, [k \in 1..(LineEnd(t, first) - first) |-> first + k - 1])

-----------------------------------------------------------------------------
(* OVL_EDIT.C: the viewport.                                               *)

\* evis: scroll vertically so that line n of total is in view.
evis(n, total) ==
    LET top == IF n < etop THEN n
               ELSE IF n > etop + Rows - 1 THEN n - (Rows - 1) ELSE etop
    IN  Min({Max({1, top}), Max({1, total - (Rows - 1)})})

\* eadj: scroll horizontally so that column col of line n is in view.
eadj(t, n, col) ==
    LET left == Min({col, eleft})
    IN  Min({l \in left..col : l = col \/ edxcol(t, n, col, l) <= Cols})

Frame(t, top, left, total) == [text |-> t, top |-> top, left |-> left, total |-> total]

\* Mutated form: a horizontal scroll alone does not redraw.
ScrolledBug == etop' # etop

Scrolled == etop' # etop \/ eleft' # eleft

\* The end of editstep, and the frame editctl draws if it has to.
Finish(redraw) ==
    /\ eleft' = eadj(text', eline', ecol')
    /\ shown' = IF redraw \/ Scrolled THEN Frame(text', etop', eleft', etotal') ELSE shown
    /\ pc = "edit" /\ UNCHANGED <<pc, eblines, viewVars>>

\* A cursor movement to line n, column col.
CursorTo(n, col) ==
    /\ eline' = n /\ ecol' = col
    /\ etop' = evis(n, etotal)
    /\ UNCHANGED <<text, etotal>>
    /\ Finish(FALSE)

eclamp(n) == Min({Max({1, n}), etotal})

eclmcol(t, n, col) == Min({col, ebllen(t, n)})

\* Cursor up and down, by a line or by a page.
emovev(delta) ==
    /\ CursorTo(eclamp(eline + delta), eclmcol(text, eclamp(eline + delta), ewant))
    /\ UNCHANGED ewant

emovel ==
    /\ \/ ecol > 0 /\ CursorTo(eline, ecol - 1)
       \/ ecol = 0 /\ eline > 1 /\ CursorTo(eline - 1, ebllen(text, eline - 1))
       \/ ecol = 0 /\ eline = 1 /\ CursorTo(eline, ecol)
    /\ ewant' = ecol'

\* Mutated form: Right at the end of a line stays in the column.
RightEndBug == ecol

\* The column Right starts the next line in.
RightEnd == 0

emover ==
    /\ \/ ecol < ebllen(text, eline) /\ CursorTo(eline, ecol + 1)
       \/ /\ ecol >= ebllen(text, eline) /\ eline < etotal
          /\ CursorTo(eline + 1, RightEnd)
       \/ /\ ecol >= ebllen(text, eline) /\ eline >= etotal
          /\ CursorTo(eline, ecol)
    /\ ewant' = ecol'

\* Home and End: the line stays, and with it the vertical viewport.
HomeEnd ==
    /\ ecol' \in {0, ebllen(text, eline)} /\ ewant' = ecol'
    /\ UNCHANGED <<text, eline, etop, etotal>>
    /\ Finish(FALSE)

\* A key that leaves text and cursor alone and redraws: a save, a bell.
RedrawOnly ==
    /\ UNCHANGED <<text, curVars, etop, etotal>>
    /\ Finish(TRUE)

\* A printable key or TAB.
edins(c) ==
    /\ Room
    /\ text' = ebins(ebindex(text, eline, ecol), c)
    /\ ecol' = ecol + 1 /\ ewant' = ecol + 1
    /\ UNCHANGED <<eline, etop, etotal>>
    /\ Finish(TRUE)

\* Enter splits the line.
edenter ==
    /\ Room
    /\ text' = ebins(ebindex(text, eline, ecol), CR)
    /\ etotal' = etotal + 1
    /\ eline' = eline + 1 /\ ecol' = 0 /\ ewant' = 0
    /\ etop' = evis(eline + 1, etotal + 1)
    /\ Finish(TRUE)

\* edbksp deletes at pos and puts the cursor at line n, column col, but only if
\* ebdel's answer, the deleted character, is not negative.
BackTo(pos, n, col, total) ==
    /\ Has(pos)
    /\ text' = ebdel(pos)
    /\ IF text[pos + 1] >= 0
       THEN eline' = n /\ ecol' = col /\ ewant' = col /\ etotal' = total
       ELSE UNCHANGED <<curVars, etotal>>

\* Mutated form: a join with the line above does not count the line off.
JoinedBug == etotal

\* The line count after two lines were joined.
Joined == Max({1, etotal - 1})

\* Backspace; at the start of a line it joins the line to the one above.
edbksp ==
    /\ \/ ecol > 0 /\ BackTo(ebindex(text, eline, ecol) - 1, eline, ecol - 1, etotal)
       \/ /\ ecol = 0 /\ eline > 1
          /\ BackTo(ebindex(text, eline, 0) - 1,
                    eline - 1, ebllen(text, eline - 1), Joined)
       \/ /\ ~Has(ebindex(text, eline, ecol) - 1)
          /\ UNCHANGED <<text, curVars, etotal>>
    /\ etop' = evis(eline', etotal')
    /\ Finish(TRUE)

\* Delete; at the end of a line it joins the next line to it.
eddel ==
    LET pos == ebindex(text, eline, ecol)
    IN  /\ text' = IF Has(pos) THEN ebdel(pos) ELSE text
        /\ etotal' = IF Has(pos) /\ text[pos + 1] = CR THEN Joined ELSE etotal
        /\ eline' = eline
        /\ ecol' = eclmcol(text', eline, ecol) /\ ewant' = ecol'
        /\ etop' = evis(eline, etotal')
        /\ Finish(TRUE)

\* editstep for one key; the keys that do nothing are stuttering.
editstep ==
    \/ \E delta \in {-1, 1, -Rows, Rows} : emovev(delta)
    \/ emovel \/ emover \/ HomeEnd
    \/ \E c \in Key \cup {TAB} : edins(c)
    \/ edenter \/ edbksp \/ eddel
    \/ RedrawOnly

-----------------------------------------------------------------------------
(* The lifetimes of document, editor and viewer.                           *)

\* The menu loads a file or makes a new document.
LoadDocument ==
    /\ pc = "menu"
    /\ \E t \in Texts : text' = t /\ eblines' = FileLines(t)
    /\ UNCHANGED <<pc, curVars, etop, eleft, etotal, shown, viewVars>>

\* The cursor and the counters of an editor that is not running.  The code leaves
\* them as they were and sets all of them on entry; here they are set on exit too,
\* since nothing reads them in between.
NoEditor ==
    /\ etop' = 1 /\ eline' = 1 /\ ecol' = 0 /\ ewant' = 0 /\ eleft' = 0 /\ etotal' = 1
    /\ shown' = Frame(<<>>, 1, 0, 1)

\* editctl up to the first key: the counter of lines starts from ebedln.
EnterEditor ==
    /\ pc = "menu"
    /\ StaleEntry \/ ebedln = Breaks(text) + 1
    /\ pc' = "edit"
    /\ etotal' = ebedln
    /\ etop' = 1 /\ eline' = 1 /\ ecol' = 0 /\ ewant' = 0 /\ eleft' = 0
    /\ shown' = Frame(text, 1, 0, ebedln)
    /\ UNCHANGED <<docVars, viewVars>>

\* ^X: back to the menu; the document stays.
LeaveEditor ==
    /\ pc = "edit"
    /\ pc' = "menu"
    /\ NoEditor
    /\ UNCHANGED <<docVars, viewVars>>

\* vclamp: the first line the viewer may show.
vclamp(top) == Min({Max({1, top}), Max({1, vtotal - (Rows - 1)})})

EnterViewer ==
    /\ pc = "menu"
    /\ pc' = "view"
    /\ vtotal' = eblines /\ vtop' = 1
    /\ UNCHANGED <<docVars, curVars, etop, eleft, etotal, shown>>

ViewKey ==
    /\ pc = "view" /\ UNCHANGED <<pc, vtotal>>
    /\ \/ \E delta \in {-1, 1, -Rows, Rows} : vtop' = vclamp(vtop + delta)
       \/ vtop' = 1
    /\ UNCHANGED <<docVars, curVars, etop, eleft, etotal, shown>>

\* Quit from the viewer; as NoEditor for what it leaves behind.
LeaveViewer ==
    /\ pc = "view"
    /\ pc' = "menu"
    /\ vtop' = 1 /\ vtotal' = 0
    /\ UNCHANGED <<docVars, curVars, etop, eleft, etotal, shown>>

Init ==
    /\ text = <<>> /\ eblines = 0 /\ pc = "menu"
    /\ etop = 1 /\ eline = 1 /\ ecol = 0 /\ ewant = 0 /\ eleft = 0 /\ etotal = 1
    /\ shown = Frame(<<>>, 1, 0, 1)
    /\ vtop = 1 /\ vtotal = 0

Next ==
    \/ LoadDocument \/ EnterEditor \/ editstep \/ LeaveEditor
    \/ EnterViewer \/ ViewKey \/ LeaveViewer

Spec == Init /\ [][Next]_vars

-----------------------------------------------------------------------------
TypeOK ==
    /\ text \in Seq(Char) /\ Len(text) <= ebcap
    /\ {eblines, vtotal, ecol, ewant, eleft} \subseteq Nat
    /\ {eline, etop, etotal, vtop} \subseteq Nat \ {0}
    /\ pc \in {"menu", "edit", "view"}

\* The buffer position the cursor stands for.
Pos == IF pc = "edit" THEN ebseek(text, eline) + ecol ELSE 0

\* The number of lines, as the keys count it, is how many there are: every line can be
\* reached and no other.
TotalIsTrue == etotal = Breaks(text) + 1

\* The cursor is on a line of the text, no further than its end, and that line is on
\* the screen, with the lines counted right by every key (eclamp, eclmcol, editstep).
CursorInText ==
    /\ TotalIsTrue
    /\ eline <= Breaks(text) + 1 /\ ecol <= ebllen(text, eline)
    /\ eline \in etop..(etop + Rows - 1)

\* The cursor is in the text and on the screen, whatever TABs the line holds, and the
\* terminal's cursor stands on the character that a key will act on: where the overlay
\* that draws puts it is where the one that edits thinks it is.
CursorOnItsCharacter ==
    /\ TypeOK
    /\ pc = "edit" =>
        LET cells == vline(text, eline, eleft)
            col   == edxcol(text, eline, ecol, eleft)
        IN  /\ CursorInText /\ col <= Cols
            /\ Has(Pos) /\ text[Pos + 1] # CR =>
                  col \in DOMAIN cells /\ cells[col] = Pos /\ (col = 1 \/ cells[col - 1] # Pos)

\* The frame on the screen was drawn from the text and viewport there are now:
\* no key that changed either was taken for one that needs no redraw.
ScreenIsFresh == pc = "edit" => shown = Frame(text, etop, eleft, etotal)

\* Left and Right move the cursor by one character, across line ends too, and
\* Backspace deletes the character to the left of the cursor, and only that
\* (docs/README.TXT:43).
KeysActAtCursor ==
    [][ /\ emovel => Pos' = Max({0, Pos - 1})
        /\ emover => Pos' = Min({Pos + 1, Len(text)})
        /\ edbksp /\ Pos > 0 => Pos' = Pos - 1 /\ text' = RemoveAt(text, Pos) ]_vars

\* The editor implements a text with a cursor in it (GapText).
Gap == INSTANCE GapText WITH
    Glyph    <- Char,
    Capacity <- ebcap,
    before   <- SubSeq(text, 1, Pos),
    after    <- SubSeq(text, Pos + 1, Len(text))

ImplementsGapText == Gap!Spec
=============================================================================
