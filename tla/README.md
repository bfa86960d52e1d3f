# Verification of the TMS99105 SBC software

This directory holds TLA+ models of the programs in this repository that run on
the TMS99105 single-board computer, the TLC configurations that check them on
small instances, and theorems about them checked by the TLA+ proof system.

Every definition is translated from the source; `PROJECT.json` names, definition
by definition, the lines it stands for. This file says which parts there are,
how module and code correspond, what the runs and proofs show, and what is left.

Contents: [1. The system](#1-the-system) ·
[2. Modules](#2-modules-and-their-code) · [3. Runs](#3-what-the-runs-show) ·
[4. Proofs](#4-what-is-proved) · [5. Disagreements](#5-where-code-and-documents-disagree) ·
[6. Not covered](#6-what-is-not-modelled) · [7. Plan](#7-plan)

## 1. The system

The board runs a MONITOR in ROM, which owns the interrupt vectors, the disk and
the console, and one program at a time above it. Programs too large for 64 KB
keep their overlays in pages that a memory-mapping unit shows in a window.

| Part | Sources (under `src/`) | State it keeps | Operations | Talks to |
|---|---|---|---|---|
| FileEdit receive queue | `FileEdit/src/resident/CONRX.A99` | 64-byte ring `RXBUF`, `RXHEAD`, `RXTAIL`, `RXOVFL`; saved vector and status word | `rxinit`, `rxwait`, `rxfini`, interrupt handler `RXISR` | UART, level-4 vector, MONITOR's `INTTIMER` |
| FileEdit file services | `FILEIO.C` | backup name; the disk behind it | `fssave`, `fssavas`: `cpyback`, `wrname`, `vrname` | C library, BDOS, arena |
| FileEdit menu | `EDITMENU.C` | name, dirty, exists and valid flags | Open, New, Save, Save As, Edit, View, Statistics, Quit, `docguard` | file services, editor |
| FileEdit arena and editor | `EDITBUF.C`, `EDITCTL.C`, `OVL_EDIT.C` | text, `eblines`, cursor, viewport, `etotal` | a key at a time | receive queue, renderer, file services |
| FileEdit viewer | `VIEWCTL.C`, `OVL_VIEW.C` | first line, `vtotal` | scrolling, drawing of one line | arena |
| FileEdit statistics | `FILESTAT.C`, `OVL_CHAR.C`, `OVL_WORD.C`, `OVL_RPT.C` | counters | passes over the saved file | disk |
| FileEdit overlays | `OVLMGR.A99`, `OVLAPI.A99` | page of each segment | map and jump | mapping unit |
| SmallC99 overlays | `SmallC99/src/resident/OVLMGR.A99`, `OVLSTUBS.A99`, `CLISTUB.A99`, `CC_PORT.A99` | trackers per segment, owner of the window, `TRSTACK` | `OVLMGR`, 13 framed stubs, unframed stubs, `R_GETOPTS` | mapping unit, every overlay |
| SmallC99 compiler | `resident/*.C`, `overlays/*.C` | symbol tables, macro pools, literal queue, while queue, switch table, staging buffer | preprocessor, declarations, functions, statements, expressions, code generator | one another, through the stubs |
| R99 assembler | `R99/src/*.c` | hashed symbol table, location counter, flags per line, REL bit stream | two passes over the source | files |
| MONITOR disc driver | `Disc_Monitor/DISC_MONITOR_V56F.A99` | request in registers; the drive's own state | read, write, select, boot | IDE drive |
| MONITOR console and services | the same | open location, number typed, workspaces of the services, `DEBUG_BUFFER` | prompt commands, two loaders, XOP services, interrupts | terminal, programs |
| SYSGEN, Overlay Tutorial, documents | | | | |

Where it is hard, and what must hold there:

- **Receive queue.** The handler and `rxwait` share a ring without a lock; the
  handler may run between any two instructions. A byte that the handler has read must come out
  once and in order, or be counted when the ring is full; what the chip may lose
  before that must be known. Installing and removing the hook must
  never leave a moment at which a receive interrupt reaches the MONITOR's handler,
  which would not acknowledge it. A wait must end when a byte comes.
- **Saving.** A disk write may fail aloud, or silently in `fclose`; the machine may
  be reset in the middle of a save. "Clean" must mean "on the disk", no command
  may discard a changed document unasked, and one fault must leave the text
  somewhere.
- **Editing.** The cursor is a line and a column, the number of lines is kept by
  hand, TAB stops are computed twice (by the renderer and by the cursor code), and
  a screen is redrawn only if somebody thought it had to be. All of these must
  agree after any sequence of keys.
- **Overlays.** A trampoline must bring back the caller's overlay and return word
  however the calls nest, with an overlay, the error reporter, that does not follow
  the rules of the others; a tracker that spares a register write must never be
  wrong; no message may be read after its page is gone.
- **Assembler.** The second pass must find every label where the first put it,
  although both only read the same lines; the object file must say where a loader
  finds labels, references, entries and externals; the hash table must find what was
  stored in it.
- **Compiler.** It compiles in one pass, by recursion, over fixed tables that the
  program it compiles fills, and takes back code it has already staged. It knows only
  by arithmetic how deep the stack of the compiled program will be, at every jump.
- **Preprocessor.** Lines skipped and lines kept, with comments, includes and
  conditionals that cut across one another; a macro pool that runs full.
- **Disc driver.** Driver and drive run beside each other, and a call that gives up
  leaves the drive at work.
- **Console and services.** A loader writes memory before it knows that what it reads
  is right, and the rest of a bad file goes to the prompt. Services nest by
  exchanging workspaces, with interrupts between any two instructions.

The list of hazards, each at its line and with the properties that would catch it,
is in `PROJECT.json`.

## 2. Modules and their code

| Module | Stands for | Kind |
|---|---|---|
| `RxFifo` | what the receive queue promises: a bounded first-in first-out queue behind a chip of one byte, and which bytes it loses | abstract |
| `RxQueue` | `CONRX.A99`, with the UART, its timer and the MONITOR's `INTTIMER` | detailed |
| `FileIO` | `FILEIO.C` and the document's flags, over disk and C library | operations |
| `DocMenu` | `EDITMENU.C`, composed with `FileIO` (EXTENDS) | detailed |
| `GapText` | what an editor promises: a text with a cursor in it | abstract |
| `Editor` | `EDITBUF.C`, `OVL_EDIT.C`, `EDITCTL.C`, `VIEWCTL.C`, `OVL_VIEW.C` | detailed |
| `FlatCalls` | what overlays promise: a call stack, as if all code were in memory | abstract |
| `Overlay` | SmallC99's `OVLMGR.A99`, `OVLSTUBS.A99`, `CLISTUB.A99`, `PORT_INIT` | detailed |
| `NameMap` | what a symbol table promises: a map from names to values | abstract |
| `SymTab` | R99's symbol table, `R99SYMB.c` and the places that store and read it | detailed |
| `Assembler` | R99's two passes over labels, conditionals and directives: `R99.c`, `R99ASMLN.c`, parts of `R99GET.c`, `R99REL.c` | detailed |
| `Operands` | R99's tokens, numbers and expressions: `R99GET.c`, `R99EVAL.c`, over `SymTab` (EXTENDS) | operations |
| `ObjectFile` | R99's object file: `putrel` and `putbits` of `R99REL.c`, the buffers of `R99PUT.c`; and a reader of the format | operations |
| `R99` | the assembler from source text to object file: lines, INCL, operands, instructions, both passes, composed with `Operands`, `SymTab` and `ObjectFile` | detailed |
| `Preprocessor` | `CC_PREP.C`, `CC_MACS.C` | detailed |
| `StmtCompiler` | `CC_STMT.C`, `CC_STMT_R.C`, with the queue, the locals and the frame of a function | detailed |
| `Declarations` | `CC_DECL.C`, `CC_STRD.C`, the heads of `CC_DFUN.C`, the table of globals of `CC_SCAN_SYM.C`, `CC_STRU.A99`: types, structs, rows, members, globals and their storage, arguments, locals | operations |
| `Driver` | `SMALLC99.C` with the command line of `CC_CL99.C` | operations |
| `Unit` | SmallC99 over one source: `parse`, composed of `StmtCompiler`, `Declarations` and `Driver` (EXTENDS), with calls, string literals and the trailer | detailed |
| `ExprCompiler` | `CC_EXPR_A.C` to `CC_EXPR_D.C`, with the code they stage, run | detailed |
| `Disc` | the MONITOR's IDE driver, beside the drive | detailed |
| `CallStack` | what the MONITOR's stack services promise: a stack | abstract |
| `Xops` | the XOP services, their workspaces, the interrupts, DEBUG | detailed |
| `Monitor` | the prompt and the loaders, composed with `Xops` (EXTENDS) | detailed |
| `FileEditProofs` (of `DocMenu` and `RxQueue`), `EditorProofs`, `SmallC99Proofs` (of `Overlay`, `StmtCompiler` and `Unit`), `SymTabProofs`, `AssemblerProofs`, `DiscProofs`, `MonitorProofs` (of `Xops` and `Monitor`), `PreprocessorProofs` | theorems | proofs |
| `MC...` | one instance for TLC of each detailed module | model checking |

**RxQueue.** Variables have the names of the code's words; `rbr`, `rbrl`, `rie`,
`timelp`, `timenb` are the UART's receive buffer, its full flag, the two interrupt
enables and the timer's flag. `pc` is the place of the main program in `CONRX`, and
`ipc` that of the handler ("off" when it is not running). An action is what happens
between two accesses to state that the other side can see, so `rxwait` is four
actions (load the tail, compare, fetch, advance) and the handler seven. A write to
CRU bit 18 sets or clears the enable *and* clears "receive buffer full": that is how
the code acknowledges a byte. `Arrive` and `TimerElapse`, the hardware, may happen
at any time. Inside `LIMI 0` the program cannot be interrupted, so its steps there
are as large as the hardware allows. `fresh` is a history variable: it tells a byte
nobody has read from the old contents of `rbr`, and the refinement maps it to the
`line` of `RxFifo`, so that a byte the handler's `SBO 18` throws away is lost in the
abstract queue too (`Miss`), and counted nowhere.

**FileIO and DocMenu.** A file is a name with a text or `Absent`, a name a base and
an extension, because `mkbak` looks at the extension. A save is the steps "backup",
"write", "verify", "saved"; each has its success, its reported failure with part of
the data written, its failure before anything is written, and, under `SilentFaults`,
its *unreported* failure: a last buffer lost in `fclose`, whose result the code
throws away. The backup of a Save As may be the document's own file (`BacksUp`): users
type the names of backups too. `Reset` may happen at any step and leaves any text in a file open for
writing. The prompts of the menu are choices of the user. `last`, `faults`,
`retried`, `shortread`, `spoiled` and `consent` are history variables that only properties
read. `faults` is capped at 2, which stands for "several": no property tells two
faults from three.

**Editor.** The arena is a sequence of characters in which CR ends a line; the gap
the code moves is a way to store it and is left out, but not what follows from it
(the bell and the unchanged text when it is full). A character is the value the
compiler gives a byte read through a `char *`: bytes of 128 and more are negative,
which `edbksp` depends on. Each key of `editstep` is one action that includes the
vertical and horizontal scroll at its end and the decision to redraw; `shown` is
what the last frame was drawn from. `vline` gives, for a line, which character
stands in each screen column, so that the renderer's idea of columns can be compared
with the cursor's. The escape sequences `edkey` decodes, and the text of status
line and headings, are left out.

**Overlay.** A row of `OVL_TABLE` is a function from segments to pages. `current`,
`currentId` and `owner` are `CURRENT_PAGE`, `CURRENT_ID` and `CUR_WINA_ID`; `mapped`
is the mapping registers, which the code can write but does not read. A return word
is the part of the program it leads back to; the resident shims between two
overlays (`blanks`, `gen`, `error` and others) are counted with their caller. All
framed stubs have the same code, so one action `FramedCall` stands for them;
`FramedError` is apart because `error` also passes a pointer into the caller's own
page. `PortInit` may happen at any time: it is the next run of the compiler, after
the last one ended or the machine was reset.

**SymTab.** `slookup`'s loop is not a sequence of steps, since nothing runs beside it:
its k-th probe is k squared slots after the first (steps of 1, 3, 5 ...), the search
ends at the first probe that meets a free slot or the name (`EndsAt`), and with answer
1 when no probe does (`Refused`). `hash` is any function to slots. `Store` is `addsym`
together with the value its caller puts in the entry, at any time in the two passes,
which is more than the passes do. `sortsym` is END in pass 2. The flags of an entry,
which one pass writes for the other, are `Assembler`'s.

**Assembler.** A line is a record of what its reader can tell: label, operation, the
name and the operands it takes. It takes two or more steps (its label, its operation
or each operand, its end), in the order of `asmline`. Here the symbol table is the map
that `SymTab` is shown to be. `loaded`, what a loader that follows the object has
placed where, is a history that pass 2 writes; properties compare it with the table.
Errors are one letter a line, the first, as in the code, and those of pass 1 are not
counted: only pass 2 marks.

**Operands, ObjectFile and R99.** These follow a line from its characters to the bits of
the object file, where `Assembler` begins and ends with records. A token is a name, a
number with its base letter, a string, or one character of an operator, so that `getitem`
still has `<=` to put together. The globals that `getitem` and `eval` share with the rest
of the line (`addrmode`, `itemflg`, `relflg`, `evalerr`, the item pushed back) are a record
that the operators thread through, in the order of the calls; what is left in it when a
line ends is left for the next, as in the code. A line is one step, because nothing else
runs; opening files, INCL, the end of a pass and every write that may fail are steps of
their own or outcomes of one. The names of the head of a source are defined by `SymTab`'s
own steps, so that `R99` runs on a hash table that collides, fills up and is compacted at
END. `said` and `read` are histories: the items written and the lines read in each pass.

**Preprocessor.** The source is read a line at a time: its directive and the tokens
after it. `mode` is who reads (the parser, a comment, `doasm`), because each treats
the end of a line and a directive in it differently. `iflevel` and `skiplevel` are the
code's; `conds` is the history they are to agree with, one Boolean per open
conditional. A cell of the macro pool holds a token where the code keeps its
characters, and `putmac` overwrites the last cell when the pool is full, as the code
does.

**StmtCompiler.** The source is whatever statement comes next, and `calls` is the
recursion of `statement`: what each activation still has to emit. `code` is a history
of what the emitted code does when it runs: how deep its stack is here, if control
gets here, and with which depths it reaches each label. It is compared with `csp`.
`astray` names the three places in which the compiler is known to lose count (section
5); the comparison ends there for the function and starts again at the next.

**Declarations, Driver and Unit.** A declaration is a value, what its tokens say; the
tables are a record (`glb`, `tagtab`, `memtab`, and `out`, what has been written) that the
operators thread through, in the order of the calls. A type is the compiler's byte: two
bits of pointers, and a size or an entry of the table that structs and rows share. After
an error that leaves the scanner in the middle of a declaration the compiler reads the
rest as something else: the model stops there (`lost`). `Unit` is the whole run: command
line, files, declarations, heads of functions, the statements of `StmtCompiler` as their
bodies, calls and string literals, the trailer, and the files closed or not. `said` and
`bodies` are histories: what the source declared. `ReadBack` reads a type byte as the rest
of the compiler does, and `Address` lays the written items out from an even address.

**ExprCompiler.** An expression is a tree that stands for its text with the
parentheses it needs; the eighteen levels of the code, each of which stages code, are
one operator over trees that returns the staged p-codes, and takes them back where the
code clears its stage. The p-codes are then run one step at a time on a machine of two
registers and a stack; `Means` is what C says of the tree, and never looks at the code.

**Disc.** The driver polls registers; the drive, which is external, changes them when
it likes. A call moves 512 bytes, which the drive keeps as two sectors of 256: its bus
is 16 bits wide and the machine reads 8 of them. `want` and `missed` are histories:
what a reader is owed, and why a call moved something else.

**Xops and Monitor.** `ctx` is whose workspace the processor uses; a service's
registers R13 to R15 link it to its caller, in `ws`, and it returns through them.
The services that print and read call one another that way, so that nesting and
interrupts are what they are in the machine; the stack services are one step each,
as they run at the caller's priority and touch only the caller. `ram` is
`DEBUG_BUFFER` together with what lies behind it, because DEBUG writes past its end.
The prompt's letters and the loaders' records are characters and digits, of two bits
instead of four.

## 3. What the runs show

All but the last run find no error.

| Run | Properties | Bounds, and why they are enough |
|---|---|---|
| `rx_safety` | vector, mask and enable agree in every interleaving (`NoOrphanRxInterrupt`), and are what they were when the hook is gone (`Restored`); the ring is a `RxFifo`, which says where bytes are lost (`ImplementsFifo`); a byte ends a wait and the MONITOR's timer is served (`BothServed`) | 3 slots: empty, partly full, full, each with a wrap of the index; two bytes tell order and duplication; counters modulo 2, so that they wrap. 0.7 million states |
| `doc_safety` | `CleanMatchesDisk`, `NoSilentDiscard`, `OneFaultKeepsText` under all faults and resets | `A.TXT` and `A.ASM`, which share the backup `A.BAK`, the case in which two files disturb each other, and `A.BAK` itself, typed by a user, with its own backup `A.BK1`; texts: empty, one character, and one over the arena's capacity of one. 3.2 million states |
| `edit_safety` | `CursorOnItsCharacter` (with `TotalIsTrue`), `ScreenIsFresh`, `KeysActAtCursor`, `ImplementsGapText`, for every key | every text of up to 5 characters over a glyph, TAB and CR: up to six lines on a screen of two rows, lines twice the width of three columns; TAB stops every 2 columns, so that a TAB is one or two columns wide and may straddle the edge |
| `overlay_safety` | `CodeInPlace`, `MessageReadable`, `TypeOK` (no overflow of `TRSTACK`); the overlays behave as if all were in memory (`ImplementsFlatCalls`) | none: the compiler's own table, its call graph as read from the source, 16 frames; the window starts with any mix of two pages |
| `r99_safety` | the symbol table is a map that half of its slots can be relied on for, also after compaction (`ImplementsNameMap`); a line that is not marked writes what its text means, loaded anywhere (`LinesTrue`); who reads the object file finds the module that was assembled (`ObjectTold`); both passes read the source with its includes in place (`SourceExpanded`) | 7 slots and 3 probes; five names of which three share their first slot and the other two start on the second and third slot of the same path, so that searches cross, fill up and overflow. Expressions: all of up to four tokens, of five over six tokens, and of three operators; every number base with wrong digits; every addressing mode in every operand of ten opcodes, one or more of each format, and all operand texts of up to four tokens for `B` and three for `MOV`; instruction and data lines after each other at odd and even places; sources with includes, nested, missing, cut or with END inside. Buffers of 4 bytes, 2 references, includes 1 deep as in the code; texts follow a head that defines `a` and `e`, or four names with an entry and an external (`Narrow`). 0.3 million states |
| `asm_safety` | of a source without marks: the object's bytes lie where its tags say (`LoaderFollows`), labels (`LabelsTrue`), references (`ReferencesTrue`), entries and externals (`HeaderTrue`) are where the object loads them | sources of four lines before END: a forward BSS, a label it moves, a second label and a use; three names; 2 references to externals, conditionals one deep, jumps of two words. 7.9 million states |
| `unit_safety` | queue and switch table follow the nesting (`TablesFollow`); the emitted code's stack is what `csp` says, at every place and label (`TrackedIsReal`); locals and labels keep their numbers (`LocalsTrue`); every name stands in its table for what the source declared (`NamesTrue`); the source survives, and the output defines once what it uses, with enough room and at the right addresses (`OutputTrue`) | sources of five declarations, heads and statements; beyond three (`Full`) only in a function alone without arguments, calls and rows, since there nothing else is new. Two names, which are interchangeable (symmetry), and a library function, all with the same hash; three slots for globals, three structs or rows, four members, six bytes of literals, two entries of the queue and of the switch table, three locals, so that each fills. A struct with a `char`, a pointer to itself and rows, a union, initialised arrays and pointers; seven command lines, one too long for a name and one that names the source twice. 4 million states |
| `disc_safety` | a read that saw its data returns it and no other request's (`AnswerTrue`); nothing is written elsewhere (`WritesLand`); every call returns (`CallReturns`) | three sectors: two requests that share one; three polls, so that each wait can succeed at once, late or not at all |
| `prep_safety` | what is skipped is what the conditionals say (`SkipFollows`); names are replaced by what was defined, or the overflow reported (`MacroTrue`) | five lines, includes of two, two macros, five cells of pool |
| `expr_safety` | `ValueIsRight`, `BranchIsRight`; depth tracked at each p-code is the machine's, and jumps land on labels of the stage (`StackTracked`) | some 22 000 trees of up to three operators, as values and as conditions, from three memories |
| `monitor_safety` | `LoadedOrTold`, `NoStrayCommand`, `ServicesTrue`, `ImplementsCallStack` | bytes of two bits, words of four, 16 bytes of memory, three keys, three steps of a program or of the devices; noise in one digit of a file. 4 million states |
| `expr_zero` | violated: `TestsAreRight` | the trees `expr_safety` leaves out |

Notes on the less obvious properties:

- `OneFaultKeepsText` promises nothing once the user saves again after a fault
  (`retried`): the second save copies the torn target over the good backup. The
  hazard is listed; the property says exactly how far the protection goes.
- The three properties of `doc_safety` except two states, each by a history variable
  that a load or a verified save clears. A document whose load met a read error
  (`shortread`): `fgetc` answers it as the end of the file, and nobody can tell. And
  one whose own file a Save As has used as its backup (`spoiled`): nothing in the code
  prevents it, so the properties do not catch this hazard; they say that nothing else
  leads to such a loss.
- `CodeInPlace` compares the mapping registers with the running overlay's row.
  `ImplementsFlatCalls` goes further: what the processor executes (`runningBar`) is
  the running overlay's code only if the window shows it, so a return into a wrong
  page is a step that no call stack can make.
- The call graph of SmallC99 lets frames recurse only through expressions within
  expressions (arguments of nested calls) and the preprocessor; therefore 16 frames
  can be explored completely.
- `EnterEditor` in `edit_safety` is restricted (`StaleEntry = FALSE`) to a line
  count that is right at entry; section 5 says what lifts the restriction.
- `LabelsTrue` and its companions speak of sources in which pass 2 marked no line.
  The phase error is one letter among thirteen, and the first letter of a line wins;
  the property says that a line on which another letter hides it is marked all the same.
- `HeaderTrue` is two statements: every external's chain of references names the
  places that hold it, and every entry the place of its label. `TrackedIsReal` covers
  the depths at labels as well as here. Type invariants and bounds of indices stand
  inside `CursorOnItsCharacter`, `TablesFollow` and `MacroTrue`.
- `LinesTrue` compares with `Says`, the meaning of a line by the rules of arithmetic and
  the instruction formats, which shares only `Computed` and the opcodes with the code's
  path. Relocation is defined through it: a word is relocatable if its meaning moves with
  the module. `Sound`, `Astray` and `Leaks` name the texts of which nothing is said
  (section 5); what is said of the others includes that errors are marked.
- `ObjectTold` reads the packed file back with a reader written from the format
  (`REL99.h`), bit by bit; it knows nothing of chunks and buffers.
- `AnswerTrue` is about calls that answer zero. The first half of the buffer is the sector asked for if
  the call saw DRQ; the second half is the next sector if the drive had that ready when
  the loop came to it. A call whose wait ran out while the error register was zero answers
  zero as well, with nothing read (section 5). A drive may answer late, never, or
  with an error; the caller may go on at once with another request.
- `CallReturns` rests on a drive that ends what it does (`Finishes`); one that is busy for ever
  holds the machine in `IDE_NOT_BUSY`, and no property catches that.
- In `monitor_safety` the constraint `Apart` starts programs and loads from one
  memory and open location, since neither looks at them, so that the two halves of
  the model do not multiply.

**Fairness** is stated where processes must make progress beside another: in
`RxQueue` and in `Disc`. The processor executes the handler's instructions (weak
fairness) and takes an admitted pending interrupt at the end of an instruction: strong
fairness, since handler and program take the processor from each other. The
program's own instructions get strong fairness too: a character takes about a
millisecond to arrive at 9600 baud and the handler runs for some tens of
microseconds, so the handler cannot keep the program from running for ever. The
program has no obligation to call another routine (`mpc = "idle"`), and neither the
line nor the timer is fair. In `Disc` the driver's instructions are weakly fair, and
so is the end of a command the drive has begun (`Finishes`): `IDE_NOT_BUSY` polls
without a count, so that the driver depends on it; a drive that never becomes
ready, or never has data, is still allowed. The other components are sequential
programs that wait for a user or end.

**Deadlock** is checked but where the program ends: `R99` and `Assembler` (the
assembler's end, or its `wipeout`), `Unit` and `Preprocessor` (the end of the
source), `Monitor` (the bounded number of keys is used up).

## 4. What is proved

tlapm proves these for every value of the constants that satisfies the modules'
assumptions (TLC evaluates those assumptions on every run).

| Module | Theorem | Says |
|---|---|---|
| `FileEditProofs` | `RxInvariance`, `RxTypeCorrect` | of `RxQueue`: the inductive invariant; indices stay in the ring |
| | `NoOrphan`, `ChainIsFinite`, `RestoredCorrect` | the hook properties |
| | `Refinement` | the ring implements `RxFifo`, its losses in the chip included, for every size and every interleaving |
| | `Invariance`, `TypeCorrect` | of `DocMenu`: the inductive invariant; the arena never overflows |
| | `CleanIsSaved`, `NothingDiscarded` | the two promises of the menu, but after a read error at the load or a Save As over the backup's own text (section 5) |
| | `TextSurvivesOneFault` | a text once saved survives one failing operation, with the same exceptions |
| `EditorProofs` | `TypeCorrect`, `FrameIsFresh` | types; the screen shows the text there is |
| | `CursorStaysInText`, `CursorStandsRight` | the cursor names a character of the text, and stands on it |
| | `KeysActThere` | what Left, Right and Backspace do |
| | `Refinement` | the editor implements `GapText` |
| `SmallC99Proofs` | `OverlayInvariance`, `OverlayTypeCorrect` | the inductive invariant; `TRSTACK` never overflows |
| | `RunsInPlace`, `MessagesReadable` | code and messages are in the window when used |
| | `OverlaysRefineCalls` | the overlaid program implements `FlatCalls` |
| | `StatementsTyped` | types; queue, cases and locals never outgrow their arrays |
| | `DepthTracked` | the depth the statement compiler knows is the stack of the compiled program, here and at every label |
| | `TablesAreFollowed` | the while queue, the cases and the counts are what the recursion says |
| | `LabelsSurvive` | a label keeps its number through the ends of blocks, and no name has two |
| | `LocalsAreTrue` | variables in scope share no word and lie in the open stack |
| | `UnitCompilesStatements`, `DepthTrackedInUnit`, `TablesFollowInUnit`, `LocalsTrueInUnit` | the whole compiler implements the statement compiler, and so the same is true there |
| `SymTabProofs` | `Invariance`, `OneSlotEachHolds` | a stored name is found again, and has one slot |
| | `Refinement` | the hashed table implements `NameMap` |
| `AssemblerProofs` | `TypeCorrect` | types |
| | `ObjectFollows`, `LabelsLoaded` | the object of an unmarked source has its bytes, and its labels, where pass 2 counted them |
| | `ReferencesLoaded`, `HeaderLoaded` | its operands, entries and externals name places where the object loads them |
| `DiscProofs` | `TypeCorrect` | types |
| | `ReadsAreTrue` | a read that answers zero and saw DRQ has its own first sector, and its own second one if the drive had it ready |
| | `NothingIsMisplaced` | no call writes the wrong sector |
| `MonitorProofs` | `ServicesKeep` | the inductive invariant: workspaces nest by rank, handlers keep their level out, a service keeps its operand and its room |
| | `NoCharacterStrays` | no character of a file is obeyed as a command |
| | `ServicesImplementStack` | the stack services implement `CallStack`, with services and handlers between any two instructions |
| | `ServicesDoTheirWork` | a terminal or page service has done what it is for and changed nothing else when the program goes on |
| `PreprocessorProofs` | `SkippingIsRight` | two counters do the work of the stack of open conditionals, at any depth |
| | `MacrosRight` | a name stands for the text of its last `#define`, in a pool of any size |

**RxQueue.** From `ConstAssumption` (a ring of at least two slots). None of the
hook properties is inductive: `HookInv` adds, for each place in `rxinit` and
`rxfini`, who owns the vector, whether level 4 is admitted and what the saved words
hold; `HandlerInv` says that the handler runs only admitted and, before its chain,
only hooked. `ReaderInv` is what makes the unlocked ring right: between `rxwait`'s
load and its store the handler never moves `RXTAIL`, never empties the ring and
never writes the slot `rxwait` reads. The refinement then rests on lemmas about rings
(`RingAppend`, `RingTail`, `RingFull`): storing at the head is appending to the
contents, advancing the tail is taking the first away. `LineInv` says when the byte
in the chip is one that nobody has read: always while it is reported, except between the
handler's STCR and its SBO 18.

**DocMenu.** From `NameAssumption` and `TextAssumption`, whatever names users type, those
of backups included. While a backup has not been written over the document's own file
(`spoiled`), `IInv` adds that a save of the document's own name is under way
only while the document counts as changed (so no failure in the middle can leave a
document called clean) and that control reaches Open, New or Quit unconsented only
with nothing to lose. `TextSurvivesOneFault` needs more (`KInv`): for each step of a
save, which of the file and its backup is whole, and for the steps after a fault that
none follows; a backup is only overwritten while the file it comes from is whole.

**Editor.** From `EditorAssumption`. `TypeCorrect` and `FrameIsFresh` hold of every
run. The others assume `~StaleEntry` (the editor starts on a line count that is right;
section 5 has the way to one that is not) and `NoHighByte` (no byte of 128 and more,
which `edbksp` takes for a failure of `ebdel`). Their invariant is `EInv`: the counter of lines
is the number of lines, and line and column name a position of the text, which is on the
screen. A key that inserts or deletes one character shifts the line starts behind it,
and `ebseek` and `LineEnd` are minima over positions, so the lemmas first say what
these find (`Starts`, `EndsAt`, `Upto`) and then what one character more or less does
to it (`BreaksOfLonger`, `NextLine`, `LastLine`); each key then has a lemma of its own.
`ViewInv` adds where the viewport may start. `CursorStandsRight` compares two folds over
one line, `edxcol`'s sum of columns and `vline`'s row of cells: `ColumnsMeet` says that
after any number of characters the one is the length of the other, `CellsStay` that what
is drawn later does not move it.

**Overlay.** From `TableAssumption` (rows of the table name real pages) and
`OwnershipContract`: an overlay that calls another through a framed stub owns
segment 8, as `docs/OVERLAY_OWNERSHIP_CONTRACT.md` demands and the build audits;
and, which no build audits, the error reporter calls nobody and is not mapped over
messages. (The contract forbids a nested service that owns no segment 8 while another
overlay does; the reporter is one, and by theorem does no harm as long as the
assumption holds.) `IInv` adds that the trackers are right wherever they know something, that
an overlay that calls others is the owner while it runs, and that the ID in every
frame is that of the overlay its return word leads to. The last is what makes a
return exact, and it is where the contract is used. `OverlaysRefineCalls` combines it with
facts on sequences of frames (`RetsAppend`, `RetsPop`, `ConcatPop`).

**StmtCompiler.** `StmtSpec` is the statement compiler by itself: any statements in any
order, any declaration of a local (a name, a slot of any size), any table of arguments that
fits `NUMLOCS`. From `StmtAssumption` (the sizes of the tables are numbers, and `None` is no
depth). `TrackedIsReal` only looks at the present; why the next step keeps it lies in what
the open calls saved. `DepthInv` therefore has, whatever errors there were, `Recursion`: what
the calls saved is in order (`Nested`), and the entries of the while queue belong to the loops
and switches among them, one each (`Queued`). While there is no error and nothing has led the
compiler astray (`Clean`) it has `Scoped`: between two calls with no variable
declared in between the depth is the same (`BlocksIn`), the cases and the default in the
shared table belong to a switch that is open (`SwitchesIn`), and the names of labels have the numbers
of their entries (`NamesIn`). And for the programs of the property (`Sound`) `Reached`: at
each label that an open call or the table of cases will place, control is awaited at the
depth that call saved (`Due`), every jump to it so far left at that depth, and it is no
label of a name. That is the part that makes the property inductive: the end of an `if` or a
loop places a label that was jumped to long before, and the depths agree only because both are the
depth at the call. `BlocksCounted` joins, because `ncmp` decides what the end of a block does.
The steps are taken by kind (`StayAction`, a statement that contains none; `PushStep`, one that
waits; `PopStep`, the end of one; and those that change the frame), with one lemma for each kind and part of
the invariant, on sequences that are rigid, so that the provers do not meet primes in them.

Three more invariants stand on this one. `CasesOwned` says whose each entry of the table of
cases is: those behind the mark that the deepest open switch saved are its own, those between
two marks belong to the switch outside, and the first switch starts from nothing. With
`Queued`, which has the queue as one entry for each call and which `Counting` turns into the
numbers of the property, that is `TablesAreFollowed`. `LabelsKept` says that every name given a number since the
function began is in the table as a label, and only with that number. The end of a block closes up the
table over its variables, so the lemmas about it (`RetainedLeft`) say that filtering keeps
the labels, and their order. Neither theorem has a hypothesis on the source, astray or not.
`VariablesApart` is for the slots: each variable is below those before it, none is below
what the innermost block has opened (`Above`), and every open call saved a depth that fits the
entries it will leave behind (`DepthsKept`): without the last, the end of a block could
not give the outer one its promise back. Its hypothesis is `ArgumentsApart`: when a function
begins, its arguments lie above the frame and each below the one before. This is a fact about
`doargs` and the table of declarations, and no more than `LocalsTrue` says at that moment of
arguments of a word each; a head that declares one name twice would break it, but leads
the compiler astray first. `unit_safety` checks it with `LocalsTrue`.

`Unit` has every variable of `StmtCompiler`, and other steps. `UnitStep` says that each of
them is a step of `StmtSpec` or leaves its variables alone, from `UnitAssumption` (the smaller
of two bounds of the model) and `Handed`: the slots that `declloc` gets from the tables
of declarations are numbers, and the arguments fit. `Handed` is the hypothesis of
`UnitCompilesStatements` and of the three theorems that carry the results above over to
`Unit`. It is about folds over declarations and
not proved; every run of `unit_safety` checks it, as a part of `NamesTrue`.

**SymTab.** From `TableAssumption` (an odd number of slots) and `ProbesDiffer`: no two
probes of one search meet in a slot, true when the size is prime, and evaluated for
the code's 101 by `MCR99`. The invariant is `FoundAgain`: every entry is where the
search for its name ends. Storing preserves it because the slot that changes was
free, so that no other search went past it, or held that very name. `OneSlotEach`
follows, since a search ends at one place. In `Refinement`, a search that ends nowhere
met as many different slots as it has probes, hence as many different names: only
then may the abstract map refuse. Compaction fills as many slots as there are entries
from different ones, hence loses none.

**Assembler.** From `AsmAssumption` and, but for the types, `NoEmptyWords` (no WORD
with nothing between its commas; section 5). `Inv` joins the types with `TodoRight`
(which operands a step still has), `FullWords` (an unmarked line has emitted what it
counted), `Follows` (the object so far lies where the location counter went) and
`LabelsRight` (a label met in pass 2 on an unmarked line has the value in the table).
The proof has one lemma for each kind of line. `ReferencesLoaded` adds `ItemsRight`
(what each item of the object was made from, and what the table said of it then) and
`PlacesKnown` (a name that has been placed keeps its value to the end of pass 2, unless
EQU or SET gave it one); `HeaderLoaded` adds `EntriesRight`.

**Disc.** `Inv` is `TypeOK`, `Quiet` (a drive that is not busy asks for nothing it was
not told), `Commanded` and `OwnCommand` (between the driver's command and the end of
its transfer, the command the drive has is this call's), `InStep` (driver and drive
agree on the half they are at, and a read loop begins only with its data on offer), `Owed` and `AnswerTrue`. `OwnCommand` is what
survives a call that gave up: the next one waits for "not busy" and a new command
replaces what was left.

**Xops and Monitor.** From `BaseAssumption`, `RegisterAssumption`, `LevelAssumption`, `TextAssumption`,
`FileAssumption` and `TypedAssumption`: digits, registers and stack are within a word,
interrupt levels are the three that are wired, a message is characters, the fields of a record are bytes,
and a key is a number.
A service has one workspace, fixed in ROM's vectors, so one that is entered twice
has lost its way back, and nothing in the code counts. What holds is an order: a workspace is only
entered from one of a lower rank, by a call or an interrupt (`Rank`: the services that only the
program calls, then MESG, WHEX and RHEX, then READ and WRITE, then the handlers by their level).
`ServiceInv` says it of the workspaces in use (`Nested`:
each leads back to the one of the next lower rank, the lowest to the program), of
the interrupt masks, those saved in R15 included (`Masked`: nothing that a handler goes back to
or that runs above it admits its level), and of the registers of each workspace (`Owned`: R13 to R15
a link, R11 the operand that the program gave, RHEX's number a word, a place for the answer, room on the stack for
what PUSHREG will store). `Held` joins the three, and two lemmas, `EnterStep` for BLWP and
`LeaveStep` for RTWP, carry it through each of the steps. Where the program goes on is R14 of
the outermost workspace; `Goes` does not change while services come and go (`GoesJoined`,
`GoesLeft`), and that is what makes a step of a nested service a stutter of `CallStack`. CALL and RET
change R14 of their own workspace, and are its steps; `PushedStack` and `StackRest` say what writing below the top,
and moving it, make of the stack that the program sees.

`ConsoleInv` adds that what the user typed comes one character at a time, and that whatever
else waits is a file's: digits, colons and carriage returns (`Sourced`). A command that the prompt obeys is none
of these. The lemmas that `FileText` writes no other character, for any file, go through the checksum and the
folds that build it (`SummedTyped`, `FlattenTyped`), as under "Induction over data".

`ServicesTrue` looks at the terminal only when the program goes on; in between, the promise is
spread over the workspaces. `Tasks` takes from them the services in progress, without the handlers, with the
registers, the place and the status of each, wherever these are at the moment: in the processor, or in R14 and R15 of
the one workspace that goes back there (`TopTask`, `TasksJoined`, `TasksLeft`). `Due` is
what they have still to print: MESG the rest of its text behind WRITE's character, WHEX the digits that its word, turned so
far, has in front. `ServedInv` says that what is on the terminal and what is due are together what the call asked for,
that DEBUG, RHEX and the crash handler have come as far as their own counters say (`ListTrue`, `NumberTrue`,
`ReportTrue`), and that no other service runs than the call needs, each called by the one that it
goes back to (`Serves`, `Linked`). A handler is no task, so taking an interrupt and going back change
nothing (`HandlerUnseen`); INTTIMER writes TIMEOUT, which is among the words that DEBUG lists and is the one that
the property leaves out (`TimeoutChanged`). The arithmetic under it: a word has four digits (`WordDigits`), turning it
brings the next one to the front (`TurnedDigits`), and shifting one in is what the number typed so far is worth
(`NumberShifts`).

**Preprocessor.** `Inv` is `Levels` (`iflevel` is the number of open conditionals,
`skiplevel` the depth of the outermost whose region does not count, or 0) and
`SkipFollows`. It is inductive because conditionals within a skipped one are counted
but never evaluated. `MacrosRight` rests on `Pool` instead: the text of each name lies in the
pool from its pointer on, before `macptr`, and only one that the full pool has cut short, with an
error, may lack its end; and on `Reading`, the types of what is read, since the pool is
searched for a NUL that no text may hold.

**Induction over data.** The library's induction theorems cannot be used here, but
most of what they are for can be had from `WFMin`: a set of numbers that is not empty has a least.
The fold over a line (`Scan`, `edxcol`, `vline`) is treated in this way: there is a
function as in the definition of `FoldLeft` (`FoldExists`: the least length
for which there were none would be one more than a length for which there is), and what
it is to satisfy holds for each prefix (`ScanType`, `Climbs`).

**What the proofs corrected.** `ReferencesTrue` said less than it meant (a
conjunction bound tighter than the implication around it); with its premise complete,
the proof did not go through, and a source with a relocatable EQU of a name that stands
lower down, `NAM`'s name among them, refutes it: EQU takes the mark back
and never compares (R99ASMLN.c:171). The property now leaves out the names that EQU and
SET define, as `Equated` says. The types of `Preprocessor` left out that a comment's end,
as in `#define` and then `a */`, becomes part of a macro's text. The assumptions of `Assembler` had left open
operands that no line can have. `TrackedIsReal` had not
taken notice of an argument that no declaration gives a type: its entry stays one of a
label, with an offset in the frame, and a goto to its name jumps to that number (CC_DFUN.C).

**Only model-checked.** Liveness (`BothServed`, `CallReturns`):
temporal reasoning under fairness is out of the prover's reach. `R99` with `Operands`,
whose arithmetic is `Bitwise`'s and recursive; `ExprCompiler`, whose code is run by a recursive
machine; `NamesTrue` and `OutputTrue` of
`Unit`, folds over declarations; of `Monitor`, `LoadedOrTold`, which compares memory with a
fold over the file.

## 5. Where code and documents disagree

`expr_zero` is a run that TLC finds violated: `down2` marks the code of a zero *left*
operand for the shortcut that compares with zero, so `0 < x` is tested as `x < 0`. The
comments at CC_EXPR_A.C:42 and CC_EXPR_D.C:338 speak of an operator followed by 0.

The following were met while reading. Where a model leaves the case out, or a property
excludes it, this is said.

FileEdit:

- `ebedln` starts the editor from the line count of the last load (EDITBUF.C:168): after
  Enter, `^X` and Edit the last lines cannot be reached. The viewer scrolls over the
  same count (VIEWCTL.C:117). Excluded by `StaleEntry = FALSE`.
- `edbksp` takes a deleted byte above 127 for "nothing deleted" and leaves the cursor
  where it was (OVL_EDIT.C:243). Such bytes are left out of `edit_safety`.
- `mkbak` looks at the target of a save only. With `A.BAK` open and clean, Save As
  `A.TXT` copies the old `A.TXT` over it; if the save then fails, the document is
  "clean" and nowhere, and `docguard` lets New, Open and Quit discard it (FILEIO.C:327).
  The model has it, and the properties except the state (`spoiled`).
- A byte that arrives after the handler's STCR and before its SBO 18 does not "assert
  INT4 again", as CONRX.A99:137-138 says: the write acknowledges it, and it is lost
  uncounted, with room in the ring. `RxFifo` states the loss (`Miss`); without it
  `ImplementsFifo` fails.
- New looks for an existing file *before* the guard saves the current document under
  that name; the next Save overwrites it with no backup (EDITMENU.C:202).
- `rxinit` called twice would save the hook's own vector as the MONITOR's; nobody calls
  it twice, and `Restored` covers the order in which it is called.

SmallC99 statements and preprocessor:

- `break`, `continue` and `return` compile the unwinding and then go on as if it had
  happened at the end of the block (CC_STMT_R.C:127, against the comment at
  CC_STMT.C:317); `else` looks at a `lastst` that an inner statement may have left
  (CC_STMT.C:386, 403); a second `goto` clears `nogo` (CC_STMT.C:195,
  CC_STMT_R.C:159). These are `astray`.
- A function's literals of an odd number of bytes, and an object of rows with an odd
  size, are not followed by EVEN as other objects are (CC_DFUN.C:193, CC_DECL.C:83), and
  the next word is at an odd address. `OutputTrue` excepts sources that have one (`Odd`).
- `int f();` without `extern` enters `f` as static and writes nothing; a later definition
  is "already defined", and a use of it has neither label nor EXT (`Foretold`).
  `char *f()` is not parsed; a function always returns `int`.
- An array whose size comes from its initialiser is entered with size 0; an argument
  `int a[3]` keeps size 6; a global of an incomplete struct gets no bytes and no error;
  more than three `*` wrap round in a member, a local or an argument (only `declglb`
  looks, CC_DECL.C:154). The model does all of these.
- Not modelled: labels of `goto` that are never defined are not reported; arguments
  use no entry of the locals table; bodies of functions without braces are accepted.
- `ifline` looks for conditionals inside comments (CC_PREP.C:335, 395). An unterminated
  last line is dropped, against the comment at :239. A second `#else` toggles again, an
  unclosed `#if` is not reported, the text of a macro is expanded when it is defined,
  `#asm` ignores conditionals and drops blank lines, a name over fifteen letters is
  two. The model does all of these but the last, as the code does. The comment at
  CC_PREP.C:129, that `search()` wraps for ever in a full table, is stale: it ends, and
  the model's does.
- `c ? a : d == 0` as a condition takes the label of its end back with the zero. Left
  out, as are the comparison of pointers and `!` of one (which keep "address"),
  `*(p + u)` of a `char *`, `(f(), 2)`, and the value of an assignment to a `char`.

R99:

- `slookup` answers 1, "symbol not found and table full", after 50 of the 101 slots
  (R99SYMB.c:44). By theorem it does so only with at least 50 names stored.
- The place of a reference to an external is taken before the instruction's length is
  known for two formats (R99REL.c:38); the model does what the code does and
  `HeaderTrue` holds for the formats it has.
- ENT of a name never defined is not reported; EQU of a name defined further down is
  accepted if relocatable; `@$+n` in a format 1 instruction is emitted as absolute; WORD
  with nothing between its commas emits one byte and counts two, with a tag it did not
  set; an ENT label moves without a mark; the program's size is that of pass 1; an IF
  inside a skipped region is evaluated, and ELSE takes the complement of its bits; SET
  twice is marked 'D'; an external with an offset loses the offset; the last line
  without an end is dropped.
- Of operands, all left out of `LinesTrue` by `Sound`, `Astray` or `Leaks` and none of them
  marked. `<>` is read as `>=` (R99GET.c:369), against the comment at R99gbl.h:104. A `)`
  ends an expression that begins with `(`, so `WORD (2)+3` is two words, and `2+(3)*4` is
  20 (R99EVAL.c:61, 76). A sign and `$` take the whole rest, so `-2+3` is -5 and `$-2+3`
  is `$-5` (:58, :68); a sign inside parentheses swallows the `)`; `((a)` passes. `@-2`
  loses its sign, and an index read later in the line is negated instead
  (R99ASMLN.c:606, 645). `@$+4` ignores `$`, `*R1+5` the 5; `MOV R1`, `MOV R1,R2,R3` and
  `MOV -1,R2` are accepted.
- `addrmode` is reset by instructions only (R99ASMLN.c:571): after `B @X`, a `(` in a WORD
  is taken for an index (R99EVAL.c:118), also from the last line of pass 1 to the first of
  pass 2.
- An immediate word is relocated if its *last* name is (R99GET.c:422): `LI R1,A+C` with
  C absolute is not. A difference of labels is emitted as relocatable. The value of an
  expression wraps at 65536 without a mark. The place of a reference is two too low for
  WORD and for the second word of a bit instruction; the byte skipped to align an
  instruction is not counted in the program's size. `sortsym` sorts nothing, against its
  comment.

MONITOR:

- `IDE_GET_ERROR` returns the error register as it is, against the comment above it, by
  which a zero becomes 255 (:712–723): a read whose wait for DRQ ran out may answer zero,
  success, with nothing read. `AnswerTrue` excepts it (`missed`). A write reports no errors, and does not wait for the drive to be ready;
  the second half is moved without looking at DRQ. MBOOT then runs what it did not read.
- A loader stores data before it knows the sum. Noise in the length of a record may end
  the load silently or be accepted by a sum that happens to fit; a lost ':' skips a
  record silently; the type of a record is not looked at. V reads the page byte and
  does nothing with it, and leaves it out of the sum. A record of length zero ends the
  load, and what follows is read by the prompt. `NoStrayCommand` says what saves it: a
  file is digits, colons and carriage returns, and the prompt obeys none of these,
  however the load ended. Of LOAD ERROR only the L is printed (:1762).
- `INIT_RAM` clears the `WPSTORE` just set. DEBUG writes 38 bytes into its buffer of
  20, over TIMEOUT and WPSTORE: `ServicesTrue` says which registers it then shows wrong.
- The search for a command begins one past the table. FIND is Z, the comment says F.
  XOP2 moves the page into R14 before it pushes R14 as "SAVED PC" (:1300–1304); it is
  left out. The stubs INT1, INT3 and INT7 would overwrite WRITE's link; nothing raises
  them.

## 6. What is not modelled

- FileEdit's statistics, prompts, terminal output, command line; its own overlay
  manager, in which overlays do not call one another (a special case of
  `Overlay`'s `TailCall`).
- In `Overlay`, data that overlays pass by pointer, other than error messages.
- R99: the listing, the characters of TEXT, division, the operators that are spelled out
  (`chkoprat` no longer finds them), numbers after `#` and `%`; opcodes that share their
  format with one that is modelled.
- SmallC99: "compilation failed" (SMALLC99.C:133), said of a p-code that has no
  template: all that the sources name have one; the characters of the scanner, peephole and output formatting, the text of
  error reports, pointers to functions as locals, what is read after an error inside a
  declaration; in expressions what the head of `ExprCompiler` names.
- MONITOR: XOP2 and XOP3 (pages), `IDE_DEBUG.A99`, MCIN and MCOUT.
- The runtime library, which the repository has as assembly; SYSGEN; the tutorial.
- Generated code, build outputs, test fixtures, schematics and earlier versions of the
  same sources.

## 7. Plan

1. FileEdit's statistics against a reference.
2. Proofs to add: `NamesTrue` of `Unit`, with its folds as functions over the declarations.
