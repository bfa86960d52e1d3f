------------------------------- MODULE Overlay ------------------------------
(***************************************************************************)
(* The overlay manager of SMALLC99 and the resident trampolines through    *)
(* which its overlays call one another.  All overlays share one window of  *)
(* memory segments; a mapping register per segment says which page of      *)
(* memory is seen there.  OVLMGR maps the pages of an overlay's row in     *)
(* OVL_TABLE, skipping a segment whose tracker says that its page is there *)
(* already.  A framed stub saves its caller's return word and the overlay  *)
(* that owns the window on TRSTACK, maps the callee, calls it, and maps    *)
(* the saved owner again before it returns.                                *)
(*                                                                         *)
(* A row is a function from segments to pages.  A return word is the part  *)
(* of the program it leads back to: an overlay, or the resident code.      *)
(***************************************************************************)
EXTENDS Naturals, Sequences

CONSTANTS Overlays,    \* overlay IDs
          Resident,    \* the ID of no overlay (0): the code that is never mapped
          Segments,    \* the segments of the window
          Window,      \* the segment whose overlay owns the window (8)
          Pages,       \* the pages a segment may show
          NoPage,      \* the tracker's "no page loaded" (0)
          RowOf,       \* OVL_TABLE: what each overlay maps where
          Calls,       \* who calls whom through a framed stub
          Unframed,    \* overlays the resident parser calls without a frame
          Cli,         \* the overlay of the option parser and the error reports
          Text,        \* the segments that hold an overlay's error messages
          Frames,      \* capacity of TRSTACK (16)
          ShellPages,  \* the pages the shell may leave mapped in the window
          Stopped,     \* no code: what runs after TRPANIC
          Wild         \* no code: what runs where another overlay's page is mapped

Code == Overlays \cup {Resident}

\* OVL_TABLE gives an overlay pages of its own, never page 0; row 0 is empty.
ASSUME TableAssumption ==
    /\ Resident \notin Overlays
    /\ {Stopped, Wild} \cap (Overlays \cup {Resident}) = {} /\ Wild # Stopped
    /\ Window \in Segments
    /\ NoPage \notin Pages
    /\ ShellPages \subseteq Pages \cup {NoPage}
    /\ Cli \in Overlays /\ Unframed \subseteq Overlays
    /\ Frames \in Nat
    /\ Calls \subseteq Code \X Overlays
    /\ \A o \in Code : /\ DOMAIN RowOf[o] \subseteq Segments
                       /\ \A s \in DOMAIN RowOf[o] : RowOf[o][s] \in Pages
    /\ RowOf[Resident] = <<>>
    /\ \A o \in Overlays : Text[o] \subseteq DOMAIN RowOf[o]

\* The ownership contract that the build audits: an overlay that calls others
\* through framed stubs has the window's first segment.  And what the build does
\* not audit: the reporter of errors calls nobody, and is not mapped where the
\* messages of others are.
ASSUME OwnershipContract ==
    \A c \in Overlays, o \in Overlays :
        <<c, o>> \in Calls =>
            /\ c # Cli
            /\ Window \in DOMAIN RowOf[c]
            /\ o = Cli => Text[c] \cap DOMAIN RowOf[Cli] = {}

VARIABLES current,     \* CURRENT_PAGE: the tracker of OVLMGR, per segment
          currentId,   \* CURRENT_ID: the overlay last mapped there, per segment
          mapped,      \* the mapping registers: the page each segment shows
          owner,       \* CUR_WINA_ID
          trstack,     \* TRSTACK up to TRSP: the frames of the calls in progress
          running,     \* the code that runs
          base,        \* how the resident code waits: not, for a tail call, for getoptions
          cliSave,     \* CLIRET and CLIID
          message,     \* where the message that is being reported lies
          phase        \* the driver: in the shell, asking options, compiling, in TRPANIC

windowVars == <<current, currentId, mapped, owner>>
overlayVars == <<windowVars, trstack, running, base, cliSave, message, phase>>

NoMessage == [seg |-> Window, page |-> NoPage]
Frame == [ret : Code, id : Code]

-----------------------------------------------------------------------------
(* OVLMGR: map the row of an overlay.                                      *)

CurrentAfter(id) == [s \in Segments |-> IF s \in DOMAIN RowOf[id] THEN RowOf[id][s] ELSE current[s]]

\* Mutated form: the map register of the next segment is written.
MappedAfterBug(id) ==
    [s \in Segments |->
        IF s - 1 \in DOMAIN RowOf[id] /\ current[s - 1] # RowOf[id][s - 1] THEN RowOf[id][s - 1] ELSE mapped[s]]

\* The register is written only when the tracker does not have the page yet.
MappedAfter(id) ==
    [s \in Segments |->
        IF s \in DOMAIN RowOf[id] /\ current[s] # RowOf[id][s] THEN RowOf[id][s] ELSE mapped[s]]

OVLMGR(id) ==
    /\ current' = CurrentAfter(id)
    /\ currentId' = [s \in Segments |-> IF s \in DOMAIN RowOf[id] THEN id ELSE currentId[s]]
    /\ mapped' = MappedAfter(id)
    /\ owner' = IF Window \in DOMAIN RowOf[id] THEN id ELSE owner

-----------------------------------------------------------------------------
(* The framed stubs.                                                       *)

\* Mutated form: the check before the frame is written lets one more in.
RoomBug == Len(trstack) <= Frames

Room == Len(trstack) < Frames

\* The frame: the caller's return word, and the owner of the window.
Saved(o) == [ret |-> running, id |-> owner]

Enter(o) ==
    /\ Room
    /\ trstack' = Append(trstack, Saved(o))
    /\ OVLMGR(o)
    /\ running' = o
    /\ UNCHANGED <<base, cliSave, phase>>

\* R_STMT, R_PREP, R_DEFINE, R_INCLUDE, R_DOASM, R_CCOUT, R_SETCODES, R_STRUCT,
\* R_TEST, R_EXPR, R_CEXPR, R_EXPRVAL, R_STR: all to an overlay's fixed entry.
FramedCall ==
    /\ phase = "compiling"
    /\ \E o \in Overlays \ {Cli} :
        /\ <<running, o>> \in Calls
        /\ Enter(o)
    /\ UNCHANGED message

\* error and R_ERROR: the report of a message that lies in the caller's own
\* page, or in the resident code.
FramedError ==
    /\ phase = "compiling"
    /\ <<running, Cli>> \in Calls
    /\ Enter(Cli)
    /\ message' \in {NoMessage} \cup
           (IF running = Resident THEN {}
            ELSE {[seg |-> s, page |-> RowOf[running][s]] : s \in Text[running]})

\* TRPANIC: a full stack stops the compiler for good.
Panic ==
    /\ phase = "compiling"
    /\ \E o \in Overlays : <<running, o>> \in Calls
    /\ ~Room
    /\ phase' = "panic"
    /\ UNCHANGED <<windowVars, trstack, running, base, cliSave, message>>

TopFrame == trstack[Len(trstack)]

\* Mutated form: the stub returns through the oldest frame, as the save words
\* did that TRSTACK replaced.
ReturnWordBug == trstack[1].ret

ReturnWord == TopFrame.ret

\* The second half of a framed stub.
FramedReturn ==
    /\ phase = "compiling"
    /\ trstack # <<>>
    /\ trstack' = SubSeq(trstack, 1, Len(trstack) - 1)
    /\ OVLMGR(TopFrame.id)
    /\ running' = ReturnWord
    /\ message' = NoMessage
    /\ UNCHANGED <<base, cliSave, phase>>

-----------------------------------------------------------------------------
(* The resident entries without a frame, and the driver.                   *)

\* R_DODECL, R_DOFN: the wrapper's own return word serves the callee.
TailCall ==
    /\ phase = "compiling"
    /\ running = Resident
    /\ \E o \in Unframed : OVLMGR(o) /\ running' = o
    /\ base' = "tail"
    /\ UNCHANGED <<trstack, cliSave, message, phase>>

TailReturn ==
    /\ phase = "compiling"
    /\ base = "tail"
    /\ trstack = <<>>
    /\ running' = Resident
    /\ base' = "main"
    /\ UNCHANGED <<windowVars, trstack, cliSave, message, phase>>

\* R_GETOPTS, and its answer, with which the driver goes on or gives up.
GetOptions ==
    /\ phase = "asking"
    /\ running = Resident
    /\ cliSave' = [ret |-> running, id |-> owner]
    /\ OVLMGR(Cli)
    /\ running' = Cli
    /\ base' = "getoptions"
    /\ UNCHANGED <<trstack, message, phase>>

GetOptionsReturn ==
    /\ phase = "asking"
    /\ base = "getoptions"
    /\ OVLMGR(cliSave.id)
    /\ running' = cliSave.ret
    /\ base' = "main"
    /\ phase' \in {"compiling", "shell"}
    /\ UNCHANGED <<trstack, cliSave, message>>

Finish ==
    /\ phase = "compiling"
    /\ running = Resident
    /\ trstack = <<>>
    /\ phase' = "shell"
    /\ UNCHANGED <<windowVars, trstack, running, base, cliSave, message>>

\* Mutated form: the tracker keeps what an earlier run put there.
TrackerResetBug == current

TrackerReset == [s \in Segments |-> NoPage]

\* PORT_INIT, at the start of a run: whatever the shell left in the window, and
\* wherever a reset of the machine caught the run before.
PortInit ==
    /\ mapped' \in [Segments -> ShellPages]
    /\ current' = TrackerReset
    /\ currentId' = [s \in Segments |-> Resident]
    /\ owner' = Resident
    /\ trstack' = <<>>
    /\ running' = Resident
    /\ base' = "main"
    /\ cliSave' = [ret |-> Resident, id |-> Resident]
    /\ message' = NoMessage
    /\ phase' = "asking"

OverlayInit ==
    /\ mapped \in [Segments -> ShellPages]
    /\ current = [s \in Segments |-> NoPage]
    /\ currentId = [s \in Segments |-> Resident]
    /\ owner = Resident
    /\ trstack = <<>>
    /\ running = Resident
    /\ base = "main"
    /\ cliSave = [ret |-> Resident, id |-> Resident]
    /\ message = NoMessage
    /\ phase = "asking"

OverlayNext ==
    \/ FramedCall \/ FramedError \/ Panic \/ FramedReturn
    \/ TailCall \/ TailReturn
    \/ GetOptions \/ GetOptionsReturn \/ Finish \/ PortInit

OverlaySpec == OverlayInit /\ [][OverlayNext]_overlayVars

-----------------------------------------------------------------------------
(* Properties.                                                             *)

\* Every variable has its type; the frame stack stays within TRSTACK.
TypeOK ==
    /\ current \in [Segments -> Pages \cup {NoPage}]
    /\ currentId \in [Segments -> Code]
    /\ mapped \in [Segments -> Pages \cup {NoPage}]
    /\ owner \in Code
    /\ trstack \in Seq(Frame) /\ Len(trstack) <= Frames
    /\ running \in Code
    /\ base \in {"main", "tail", "getoptions"}
    /\ cliSave \in Frame
    /\ message \in [seg : Segments, page : Pages \cup {NoPage}]
    /\ phase \in {"shell", "asking", "compiling", "panic"}

InPlace(o) == \A s \in DOMAIN RowOf[o] : mapped[s] = RowOf[o][s]

\* Whatever overlay runs, all its pages are in the window: no instruction is
\* ever fetched from another overlay's page.
CodeInPlace == InPlace(running)

\* While a message is reported, its text is still in the window.
MessageReadable == message # NoMessage => mapped[message.seg] = message.page

\* The overlays in memory are as good as all the code in memory.
waitingBar ==
    (IF base = "main" THEN <<>> ELSE <<Resident>>) \o [i \in 1 .. Len(trstack) |-> trstack[i].ret]

\* What the processor executes: the running code if the window shows it.
runningBar ==
    IF phase = "panic" THEN Stopped ELSE IF InPlace(running) THEN running ELSE Wild

FLAT == INSTANCE FlatCalls
            WITH Main <- Resident, waiting <- waitingBar, running <- runningBar

\* A call executes the code called and a return the code that called, at the
\* place it left, however the calls nest and whatever was mapped in between: the
\* window never shows in what the compiler does.
ImplementsFlatCalls == FLAT!Spec

-----------------------------------------------------------------------------
(* The inductive invariant.                                                *)

\* The tracker is right wherever it knows something.
TrackerRight == \A s \in Segments : current[s] # NoPage => mapped[s] = current[s]

\* An overlay that calls others owns the window while it runs.
CallerOwns ==
    \A o \in Overlays : running \in Overlays /\ <<running, o>> \in Calls => owner = running

\* A frame made for an overlay holds that overlay's own ID.
FramesRight ==
    \A i \in 1 .. Len(trstack) : trstack[i].ret \in Overlays => trstack[i].id = trstack[i].ret

\* A message is reported by a framed report only, and does not outlive it.
MessageInv == message # NoMessage => running = Cli /\ trstack # <<>> /\ MessageReadable

\* The resident code is at the bottom of all calls, or an overlay that it
\* called without a frame is.
StackInv ==
    /\ running = Resident => trstack = <<>> /\ base = "main"
    /\ running # Resident /\ trstack = <<>> => base # "main"
    /\ \A i \in 1 .. Len(trstack) :
        trstack[i].ret = Resident <=> i = 1 /\ base = "main"

\* The save words of R_GETOPTS are enough, because it does not nest.
AskInv ==
    /\ phase = "asking" => trstack = <<>>
    /\ base = "getoptions" => cliSave.ret = Resident

IInv ==
    /\ TypeOK
    /\ TrackerRight
    /\ CodeInPlace
    /\ CallerOwns
    /\ FramesRight
    /\ MessageInv
    /\ StackInv
    /\ AskInv

=============================================================================
