---------------------------- MODULE SmallC99Proofs --------------------------
(***************************************************************************)
(* Proofs about SMALLC99.                                                  *)
(*                                                                         *)
(* Its overlays, for every table that keeps the ownership contract, every  *)
(* call graph and every capacity of the frame stack; and its statement     *)
(* compiler, for every source and every size of its tables: what it knows  *)
(* of the stack of the compiled program is so, by itself and in Unit.      *)
(***************************************************************************)
EXTENDS Overlay, Unit, FiniteSetTheorems, SequenceTheorems, WellFoundedInduction, TLAPS

-----------------------------------------------------------------------------
(* The overlay manager and its stubs.                                      *)

\* What OVLMGR establishes: the overlay mapped is in place, the tracker is
\* right again, and the other segments show what they showed.
LEMMA Mapping ==
    ASSUME TypeOK, TrackerRight, NEW id \in Code, OVLMGR(id)
    PROVE  /\ current' \in [Segments -> Pages \cup {NoPage}]
           /\ currentId' \in [Segments -> Code]
           /\ mapped' \in [Segments -> Pages \cup {NoPage}]
           /\ owner' \in Code
           /\ TrackerRight'
           /\ \A s \in DOMAIN RowOf[id] : mapped'[s] = RowOf[id][s]
           /\ \A s \in Segments \ DOMAIN RowOf[id] : mapped'[s] = mapped[s]
           /\ Window \in DOMAIN RowOf[id] => owner' = id
<1>1. /\ DOMAIN RowOf[id] \subseteq Segments
      /\ \A s \in DOMAIN RowOf[id] : RowOf[id][s] \in Pages /\ RowOf[id][s] # NoPage
  BY TableAssumption
<1>2. /\ current' = [s \in Segments |-> IF s \in DOMAIN RowOf[id] THEN RowOf[id][s] ELSE current[s]]
      /\ mapped' = [s \in Segments |->
                      IF s \in DOMAIN RowOf[id] /\ current[s] # RowOf[id][s] THEN RowOf[id][s] ELSE mapped[s]]
  BY DEF OVLMGR, CurrentAfter, MappedAfter
<1>3. current' \in [Segments -> Pages \cup {NoPage}] /\ mapped' \in [Segments -> Pages \cup {NoPage}]
  BY <1>1, <1>2 DEF TypeOK
<1>4. currentId' \in [Segments -> Code] /\ owner' \in Code
  BY DEF OVLMGR, TypeOK
<1>5. \A s \in DOMAIN RowOf[id] : mapped'[s] = RowOf[id][s]
  BY <1>1, <1>2 DEF TrackerRight
<1>6. \A s \in Segments \ DOMAIN RowOf[id] : mapped'[s] = mapped[s] /\ current'[s] = current[s]
  BY <1>2
<1>7. \A s \in DOMAIN RowOf[id] : current'[s] = RowOf[id][s]
  BY <1>1, <1>2
<1>8. TrackerRight'
  BY <1>1, <1>5, <1>6, <1>7 DEF TrackerRight
<1>9. Window \in DOMAIN RowOf[id] => owner' = id
  BY DEF OVLMGR
<1>10. QED
  BY <1>3, <1>4, <1>5, <1>6, <1>8, <1>9

\* What an overlay that has just been mapped and runs satisfies.
LEMMA Runs ==
    ASSUME TypeOK, TrackerRight, NEW o \in Code, OVLMGR(o), running' = o
    PROVE  CodeInPlace' /\ CallerOwns'
<1>1. CodeInPlace'
  BY Mapping DEF CodeInPlace, InPlace
<1>2. CallerOwns'
  BY Mapping, OwnershipContract DEF CallerOwns
<1>3. QED
  BY <1>1, <1>2

\* The resident code needs no page, and makes no claim on the owner.
LEMMA ResidentRuns ==
    ASSUME running' = Resident
    PROVE  CodeInPlace' /\ CallerOwns'
<1>1. DOMAIN RowOf[Resident] = {}
  BY TableAssumption
<1>2. CodeInPlace'
  BY <1>1 DEF CodeInPlace, InPlace
<1>3. CallerOwns'
  BY TableAssumption DEF CallerOwns
<1>4. QED
  BY <1>2, <1>3

-----------------------------------------------------------------------------
LEMMA InitIInv == OverlayInit => IInv
<1> SUFFICES ASSUME OverlayInit PROVE IInv
  OBVIOUS
<1> USE TableAssumption DEF OverlayInit
<1>1. TypeOK
  <2>1. trstack \in Seq(Frame) /\ Len(trstack) = 0
    OBVIOUS
  <2>2. cliSave \in Frame /\ message \in [seg : Segments, page : Pages \cup {NoPage}]
    BY DEF Frame, NoMessage, Code
  <2>3. QED
    BY <2>1, <2>2 DEF TypeOK, Code
<1>2. TrackerRight
  BY DEF TrackerRight
<1>3. CodeInPlace /\ CallerOwns
  BY DEF CodeInPlace, InPlace, CallerOwns
<1>4. FramesRight /\ MessageInv /\ StackInv /\ AskInv
  BY DEF FramesRight, MessageInv, StackInv, AskInv
<1>5. QED
  BY <1>1, <1>2, <1>3, <1>4 DEF IInv

\* The first half of a framed stub: everything but the message.
LEMMA EnterStep ==
    ASSUME IInv, NEW o \in Overlays, <<running, o>> \in Calls, Enter(o), phase = "compiling"
    PROVE  /\ current' \in [Segments -> Pages \cup {NoPage}]
           /\ currentId' \in [Segments -> Code]
           /\ mapped' \in [Segments -> Pages \cup {NoPage}]
           /\ owner' \in Code
           /\ trstack' \in Seq(Frame) /\ Len(trstack') <= Frames /\ trstack' # <<>>
           /\ running' \in Code
           /\ TrackerRight' /\ CodeInPlace' /\ CallerOwns'
           /\ FramesRight' /\ StackInv' /\ AskInv'
<1> USE DEF IInv
<1>1. o \in Code /\ OVLMGR(o) /\ running' = o /\ trstack' = Append(trstack, Saved(o))
  BY DEF Enter, Code
<1>2. UNCHANGED <<base, cliSave, phase>> /\ Len(trstack) < Frames /\ o # Resident
  BY TableAssumption DEF Enter, Room
<1>3. running \in Code /\ owner \in Code /\ trstack \in Seq(Frame) /\ Len(trstack) \in Nat
  BY DEF TypeOK
<1>4. Saved(o) \in Frame
  BY <1>3 DEF Saved, Frame
<1>5. trstack' \in Seq(Frame) /\ Len(trstack') = Len(trstack) + 1
  BY <1>1, <1>3, <1>4
<1>6. /\ \A i \in 1 .. Len(trstack) : trstack'[i] = trstack[i]
      /\ trstack'[Len(trstack')] = Saved(o)
  BY <1>1, <1>3, <1>5
<1>7. /\ running \in Overlays => owner = running
      /\ Saved(o).ret = running /\ Saved(o).id = owner
  BY DEF CallerOwns, Saved
<1>8. FramesRight'
  <2> SUFFICES ASSUME NEW i \in 1 .. Len(trstack'), trstack'[i].ret \in Overlays
               PROVE  trstack'[i].id = trstack'[i].ret
    BY DEF FramesRight
  <2>1. CASE i \in 1 .. Len(trstack)
    BY <1>6, <2>1 DEF FramesRight
  <2>2. CASE i = Len(trstack')
    BY <1>6, <1>7, <2>2
  <2>3. QED
    BY <1>3, <1>5, <2>1, <2>2
<1>9. StackInv'
  <2>1. running' # Resident /\ trstack' # <<>>
    BY <1>1, <1>2, <1>3, <1>5
  <2> SUFFICES ASSUME NEW i \in 1 .. Len(trstack')
               PROVE  trstack'[i].ret = Resident <=> i = 1 /\ base' = "main"
    BY <2>1 DEF StackInv
  <2>2. CASE i \in 1 .. Len(trstack)
    BY <1>2, <1>6, <2>2 DEF StackInv
  <2>3. CASE i = Len(trstack')
    <3>1. i = 1 <=> trstack = <<>>
      BY <1>3, <1>5, <2>3
    <3>2. running = Resident <=> trstack = <<>> /\ base = "main"
      BY DEF StackInv
    <3>3. QED
      BY <1>2, <1>6, <1>7, <2>3, <3>1, <3>2
  <2>4. QED
    BY <1>3, <1>5, <2>2, <2>3
<1>10. AskInv'
  BY <1>2 DEF AskInv
<1>11. CodeInPlace' /\ CallerOwns'
  BY <1>1, Runs
<1>12. /\ current' \in [Segments -> Pages \cup {NoPage}]
       /\ currentId' \in [Segments -> Code]
       /\ mapped' \in [Segments -> Pages \cup {NoPage}]
       /\ owner' \in Code /\ TrackerRight'
  BY <1>1, Mapping
<1>13. Len(trstack') <= Frames /\ trstack' # <<>> /\ running' \in Code
  BY <1>1, <1>2, <1>3, <1>5, TableAssumption
<1>14. QED
  BY <1>5, <1>8, <1>9, <1>10, <1>11, <1>12, <1>13

LEMMA FramedCallStep == ASSUME IInv, FramedCall PROVE IInv'
<1>1. PICK o \in Overlays \ {Cli} : <<running, o>> \in Calls /\ Enter(o)
  BY DEF FramedCall
<1>2. phase = "compiling" /\ UNCHANGED <<base, cliSave, phase, message>>
  BY <1>1 DEF FramedCall, Enter
<1>3. message = NoMessage
  <2>1. running \in Code /\ Cli \in Overlays
    BY TableAssumption DEF IInv, TypeOK
  <2>2. running # Cli
    BY <1>1, <2>1, OwnershipContract
  <2>3. QED
    BY <2>2 DEF IInv, MessageInv
<1>4. MessageInv'
  BY <1>2, <1>3 DEF MessageInv, NoMessage
<1>5. TypeOK'
  BY <1>1, <1>2, EnterStep DEF IInv, TypeOK
<1>6. QED
  BY <1>1, <1>2, <1>4, <1>5, EnterStep DEF IInv

LEMMA FramedErrorStep == ASSUME IInv, FramedError PROVE IInv'
<1>1. <<running, Cli>> \in Calls /\ Enter(Cli) /\ Cli \in Overlays
  BY TableAssumption DEF FramedError
<1>2. phase = "compiling" /\ UNCHANGED <<base, cliSave, phase>>
  BY <1>1 DEF FramedError, Enter
<1>3. running' = Cli /\ OVLMGR(Cli) /\ Cli \in Code /\ running \in Code
  BY <1>1 DEF Enter, Code, IInv, TypeOK
<1>4. CASE message' = NoMessage
  <2>1. MessageInv' /\ NoMessage \in [seg : Segments, page : Pages \cup {NoPage}]
    BY <1>4, TableAssumption DEF MessageInv, NoMessage
  <2>2. TypeOK'
    BY <1>1, <1>2, <1>4, <2>1, EnterStep DEF IInv, TypeOK
  <2>3. QED
    BY <1>1, <1>2, <2>1, <2>2, EnterStep DEF IInv
<1>5. CASE message' # NoMessage
  <2>1. running \in Overlays
    BY <1>3, <1>5 DEF FramedError, Code
  <2>2. PICK s \in Text[running] : message' = [seg |-> s, page |-> RowOf[running][s]]
    BY <1>5, <2>1 DEF FramedError
  <2>3. s \in DOMAIN RowOf[running] /\ s \in Segments /\ RowOf[running][s] \in Pages
    BY <2>1, <2>2, <1>3, TableAssumption
  <2>4. s \notin DOMAIN RowOf[Cli]
    BY <1>1, <2>1, <2>2, OwnershipContract
  <2>5. mapped[s] = RowOf[running][s]
    BY <2>3 DEF IInv, CodeInPlace, InPlace
  <2>6. mapped'[s] = mapped[s]
    BY <1>3, <2>3, <2>4, Mapping DEF IInv
  <2>7. message'.seg = s /\ message'.page = RowOf[running][s]
    BY <2>2
  <2>8. MessageReadable'
    BY <2>5, <2>6, <2>7 DEF MessageReadable
  <2>9. trstack' # <<>>
    BY <1>1, <1>2, EnterStep
  <2>10. MessageInv'
    BY <1>3, <2>8, <2>9 DEF MessageInv
  <2>11. message' \in [seg : Segments, page : Pages \cup {NoPage}]
    BY <2>2, <2>3
  <2>12. TypeOK'
    BY <1>1, <1>2, <2>11, EnterStep DEF IInv, TypeOK
  <2>13. QED
    BY <1>1, <1>2, <2>10, <2>12, EnterStep DEF IInv
<1>6. QED
  BY <1>4, <1>5

\* What is left of a stack when its top is taken off.
LEMMA Popped ==
    ASSUME NEW S, NEW q \in Seq(S), NEW n \in Nat, n = Len(q), n >= 1
    PROVE  /\ SubSeq(q, 1, n - 1) \in Seq(S)
           /\ Len(SubSeq(q, 1, n - 1)) = n - 1
           /\ \A i \in 1 .. n - 1 : SubSeq(q, 1, n - 1)[i] = q[i]
<1>1. SubSeq(q, 1, n - 1) \in Seq(S)
  OBVIOUS
<1>2. Len(SubSeq(q, 1, n - 1)) = n - 1
  OBVIOUS
<1>3. \A i \in 1 .. n - 1 : SubSeq(q, 1, n - 1)[i] = q[i]
  OBVIOUS
<1>4. QED
  BY <1>1, <1>2, <1>3

\* The second half of a framed stub.
LEMMA FramedReturnStep == ASSUME IInv, FramedReturn PROVE IInv'
<1> USE DEF IInv
<1> DEFINE n == Len(trstack)
<1>1. trstack \in Seq(Frame) /\ trstack # <<>> /\ n \in Nat /\ n >= 1 /\ n <= Frames
  <2>1. trstack \in Seq(Frame) /\ trstack # <<>> /\ n <= Frames
    BY DEF FramedReturn, TypeOK
  <2>2. n \in Nat /\ n # 0
    BY <2>1, EmptySeq
  <2>3. QED
    BY <2>1, <2>2
<1>2. /\ TopFrame = trstack[n] /\ TopFrame \in Frame
      /\ TopFrame.ret \in Code /\ TopFrame.id \in Code
  <2>1. trstack[n] \in Frame
    BY <1>1, ElementOfSeq
  <2>2. TopFrame = trstack[n]
    BY DEF TopFrame
  <2>3. QED
    BY <2>1, <2>2 DEF Frame
<1>3. /\ OVLMGR(TopFrame.id) /\ running' = TopFrame.ret /\ message' = NoMessage
      /\ UNCHANGED <<base, cliSave, phase>> /\ phase = "compiling"
      /\ trstack' = SubSeq(trstack, 1, n - 1)
  BY DEF FramedReturn, ReturnWord
<1>4. /\ trstack' \in Seq(Frame) /\ Len(trstack') = n - 1
      /\ \A i \in 1 .. n - 1 : trstack'[i] = trstack[i]
  BY <1>1, <1>3, Popped
<1>5. FramesRight'
  <2>1. \A i \in 1 .. Len(trstack') : i \in 1 .. n /\ trstack'[i] = trstack[i]
    BY <1>1, <1>4
  <2>2. QED
    BY <2>1 DEF FramesRight
<1>6. StackInv'
  <2>1. \A i \in 1 .. Len(trstack') : trstack'[i].ret = Resident <=> i = 1 /\ base' = "main"
    <3>1. \A i \in 1 .. Len(trstack') : i \in 1 .. n /\ trstack'[i] = trstack[i]
      BY <1>1, <1>4
    <3>2. base' = base
      BY <1>3
    <3>3. QED
      BY <3>1, <3>2 DEF StackInv
  <2>2. running' = Resident => n = 1 /\ base' = "main"
    <3>1. n \in 1 .. n /\ base' = base
      BY <1>1, <1>3
    <3>2. trstack[n].ret = Resident <=> n = 1 /\ base = "main"
      BY <3>1 DEF StackInv
    <3>3. QED
      BY <1>2, <1>3, <3>1, <3>2
  <2>3. n = 1 => trstack' = <<>>
    BY <1>1, <1>4
  <2>4. trstack' = <<>> => n = 1
    BY <1>1, <1>4
  <2>5. n = 1 /\ running' # Resident => base' # "main"
    <3>1. n \in 1 .. n /\ base' = base
      BY <1>1, <1>3
    <3>2. trstack[n].ret = Resident <=> n = 1 /\ base = "main"
      BY <3>1 DEF StackInv
    <3>3. QED
      BY <1>2, <1>3, <3>1, <3>2
  <2>6. QED
    BY <2>1, <2>2, <2>3, <2>4, <2>5 DEF StackInv
<1>7. AskInv'
  BY <1>3 DEF AskInv
<1>8. CodeInPlace' /\ CallerOwns'
  <2>1. CASE TopFrame.ret = Resident
    BY <1>3, <2>1, ResidentRuns
  <2>2. CASE TopFrame.ret \in Overlays
    <3>1. TopFrame.id = TopFrame.ret
      BY <1>1, <1>2, <2>2 DEF FramesRight
    <3>2. QED
      BY <1>2, <1>3, <3>1, Runs
  <2>3. QED
    BY <1>2, <2>1, <2>2 DEF Code
<1>9. MessageInv' /\ message' \in [seg : Segments, page : Pages \cup {NoPage}]
  BY <1>3, TableAssumption DEF MessageInv, NoMessage
<1>10. /\ current' \in [Segments -> Pages \cup {NoPage}]
       /\ currentId' \in [Segments -> Code]
       /\ mapped' \in [Segments -> Pages \cup {NoPage}]
       /\ owner' \in Code /\ TrackerRight'
  BY <1>2, <1>3, Mapping
<1>11. Len(trstack') <= Frames
  BY <1>1, <1>4, TableAssumption
<1>12. TypeOK'
  BY <1>2, <1>3, <1>4, <1>9, <1>10, <1>11 DEF TypeOK
<1>13. QED
  BY <1>5, <1>6, <1>7, <1>8, <1>9, <1>10, <1>12

-----------------------------------------------------------------------------
(* The resident entries without a frame, and the driver.                    *)

\* While the resident code runs, no message is being reported.
LEMMA QuietResident == ASSUME IInv, running = Resident PROVE message = NoMessage
  BY TableAssumption DEF IInv, MessageInv

LEMMA TailCallStep == ASSUME IInv, TailCall PROVE IInv'
<1> USE DEF IInv
<1>1. PICK o \in Unframed : OVLMGR(o) /\ running' = o
  BY DEF TailCall
<1>2. o \in Code /\ o # Resident
  BY TableAssumption DEF Code
<1>3. /\ running = Resident /\ base' = "tail" /\ phase = "compiling"
      /\ UNCHANGED <<trstack, cliSave, message, phase>>
  BY DEF TailCall
<1>4. trstack = <<>> /\ message = NoMessage
  BY <1>3, QuietResident DEF StackInv
<1>5. FramesRight' /\ MessageInv' /\ AskInv'
  BY <1>3, <1>4 DEF FramesRight, MessageInv, AskInv, NoMessage
<1>6. StackInv'
  BY <1>1, <1>2, <1>3, <1>4 DEF StackInv
<1>7. CodeInPlace' /\ CallerOwns'
  BY <1>1, <1>2, Runs
<1>8. TypeOK' /\ TrackerRight'
  BY <1>1, <1>2, <1>3, Mapping DEF TypeOK
<1>9. QED
  BY <1>5, <1>6, <1>7, <1>8

LEMMA TailReturnStep == ASSUME IInv, TailReturn PROVE IInv'
<1> USE DEF IInv
<1>1. /\ running' = Resident /\ base' = "main" /\ trstack = <<>> /\ phase = "compiling"
      /\ UNCHANGED <<current, currentId, mapped, owner, trstack, cliSave, message, phase>>
  BY DEF TailReturn, windowVars
<1>2. message = NoMessage
  BY <1>1 DEF MessageInv
<1>3. CodeInPlace' /\ CallerOwns'
  BY <1>1, ResidentRuns
<1>4. TypeOK' /\ TrackerRight'
  BY <1>1 DEF TypeOK, TrackerRight, Code
<1>5. FramesRight' /\ MessageInv' /\ StackInv' /\ AskInv'
  BY <1>1, <1>2 DEF FramesRight, MessageInv, StackInv, AskInv
<1>6. QED
  BY <1>3, <1>4, <1>5

LEMMA GetOptionsStep == ASSUME IInv, GetOptions PROVE IInv'
<1> USE DEF IInv
<1>1. /\ running = Resident /\ running' = Cli /\ OVLMGR(Cli)
      /\ base' = "getoptions" /\ phase = "asking"
      /\ cliSave' = [ret |-> running, id |-> owner]
      /\ UNCHANGED <<trstack, message, phase>>
  BY DEF GetOptions
<1>2. Cli \in Code /\ Cli # Resident
  BY TableAssumption DEF Code
<1>3. trstack = <<>> /\ message = NoMessage
  BY <1>1, QuietResident DEF StackInv
<1>4. cliSave' \in Frame /\ cliSave'.ret = Resident
  BY <1>1 DEF Frame, TypeOK
<1>5. CodeInPlace' /\ CallerOwns'
  BY <1>1, <1>2, Runs
<1>6. TypeOK' /\ TrackerRight'
  BY <1>1, <1>2, <1>4, Mapping DEF TypeOK
<1>7. FramesRight' /\ MessageInv' /\ StackInv' /\ AskInv'
  BY <1>1, <1>2, <1>3, <1>4 DEF FramesRight, MessageInv, StackInv, AskInv, NoMessage
<1>8. QED
  BY <1>5, <1>6, <1>7

LEMMA GetOptionsReturnStep == ASSUME IInv, GetOptionsReturn PROVE IInv'
<1> USE DEF IInv
<1>1. /\ running' = cliSave.ret /\ OVLMGR(cliSave.id) /\ base' = "main"
      /\ phase' \in {"compiling", "shell"} /\ phase = "asking" /\ base = "getoptions"
      /\ UNCHANGED <<trstack, cliSave, message>>
  BY DEF GetOptionsReturn
<1>2. running' = Resident /\ trstack = <<>> /\ cliSave.id \in Code
  BY <1>1 DEF AskInv, TypeOK, Frame
<1>3. message = NoMessage
  BY <1>2 DEF MessageInv
<1>4. CodeInPlace' /\ CallerOwns'
  BY <1>2, ResidentRuns
<1>5. TypeOK' /\ TrackerRight'
  BY <1>1, <1>2, Mapping DEF TypeOK, Code
<1>6. FramesRight' /\ MessageInv' /\ StackInv' /\ AskInv'
  BY <1>1, <1>2, <1>3 DEF FramesRight, MessageInv, StackInv, AskInv
<1>7. QED
  BY <1>4, <1>5, <1>6

\* TRPANIC and the end of a run touch nothing but the driver.
LEMMA StopStep == ASSUME IInv, Panic \/ Finish PROVE IInv'
<1> USE DEF IInv
<1>1. /\ UNCHANGED <<current, currentId, mapped, owner, trstack, running, base, cliSave, message>>
      /\ phase' \in {"panic", "shell"}
  BY DEF Panic, Finish, windowVars
<1>2. TypeOK' /\ TrackerRight' /\ CodeInPlace' /\ CallerOwns'
  BY <1>1 DEF TypeOK, TrackerRight, CodeInPlace, InPlace, CallerOwns
<1>3. FramesRight' /\ MessageInv' /\ StackInv' /\ AskInv'
  BY <1>1 DEF FramesRight, MessageInv, MessageReadable, StackInv, AskInv
<1>4. QED
  BY <1>2, <1>3

\* A new run starts as the first one did, whatever the last one left.
LEMMA PortInitStep == ASSUME PortInit PROVE IInv'
<1> USE TableAssumption
<1>1. /\ mapped' \in [Segments -> ShellPages]
      /\ current' = [s \in Segments |-> NoPage] /\ currentId' = [s \in Segments |-> Resident]
      /\ owner' = Resident /\ trstack' = <<>> /\ running' = Resident /\ base' = "main"
      /\ cliSave' = [ret |-> Resident, id |-> Resident] /\ message' = NoMessage
      /\ phase' = "asking"
  BY DEF PortInit, TrackerReset
<1>2. cliSave' \in Frame /\ message' \in [seg : Segments, page : Pages \cup {NoPage}]
  BY <1>1 DEF Frame, NoMessage, Code
<1>3. TypeOK'
  BY <1>1, <1>2 DEF TypeOK, Code
<1>4. CodeInPlace' /\ CallerOwns'
  BY <1>1, ResidentRuns
<1>5. TrackerRight' /\ FramesRight' /\ MessageInv' /\ StackInv' /\ AskInv'
  BY <1>1 DEF TrackerRight, FramesRight, MessageInv, StackInv, AskInv
<1>6. QED
  BY <1>3, <1>4, <1>5 DEF IInv

LEMMA StutterStep == ASSUME IInv, UNCHANGED overlayVars PROVE IInv'
<1> USE DEF IInv, overlayVars, windowVars
<1>1. TypeOK' /\ TrackerRight' /\ CodeInPlace' /\ CallerOwns'
  BY DEF TypeOK, TrackerRight, CodeInPlace, InPlace, CallerOwns
<1>2. FramesRight' /\ MessageInv' /\ StackInv' /\ AskInv'
  BY DEF FramesRight, MessageInv, MessageReadable, StackInv, AskInv
<1>3. QED
  BY <1>1, <1>2

-----------------------------------------------------------------------------
\* The invariant of the overlay manager and its stubs.
THEOREM OverlayInvariance == OverlaySpec => []IInv
<1>1. OverlayInit => IInv
  BY InitIInv
<1>2. IInv /\ [OverlayNext]_overlayVars => IInv'
  <2> SUFFICES ASSUME IInv, [OverlayNext]_overlayVars PROVE IInv'
    OBVIOUS
  <2>1. CASE FramedCall
    BY <2>1, FramedCallStep
  <2>2. CASE FramedError
    BY <2>2, FramedErrorStep
  <2>3. CASE Panic \/ Finish
    BY <2>3, StopStep
  <2>4. CASE FramedReturn
    BY <2>4, FramedReturnStep
  <2>5. CASE TailCall
    BY <2>5, TailCallStep
  <2>6. CASE TailReturn
    BY <2>6, TailReturnStep
  <2>7. CASE GetOptions
    BY <2>7, GetOptionsStep
  <2>8. CASE GetOptionsReturn
    BY <2>8, GetOptionsReturnStep
  <2>9. CASE PortInit
    BY <2>9, PortInitStep
  <2>10. CASE UNCHANGED overlayVars
    BY <2>10, StutterStep
  <2>11. QED
    BY <2>1, <2>2, <2>3, <2>4, <2>5, <2>6, <2>7, <2>8, <2>9, <2>10 DEF OverlayNext
<1>3. QED
  BY <1>1, <1>2, PTL DEF OverlaySpec

\* Every variable has its type, and the frames fit TRSTACK.
THEOREM OverlayTypeCorrect == OverlaySpec => []TypeOK
<1>1. IInv => TypeOK
  BY DEF IInv
<1>2. QED
  BY <1>1, OverlayInvariance, PTL

\* No instruction is fetched from another overlay's page.
THEOREM RunsInPlace == OverlaySpec => []CodeInPlace
<1>1. IInv => CodeInPlace
  BY DEF IInv
<1>2. QED
  BY <1>1, OverlayInvariance, PTL

\* An error message is in the window while it is reported.
THEOREM MessagesReadable == OverlaySpec => []MessageReadable
<1>1. IInv => MessageReadable
  BY DEF IInv, MessageInv, MessageReadable
<1>2. QED
  BY <1>1, OverlayInvariance, PTL

-----------------------------------------------------------------------------
(* The window does not show: the overlays implement FlatCalls.              *)

Rets(q) == [i \in 1 .. Len(q) |-> q[i].ret]
Below == IF base = "main" THEN <<>> ELSE <<Resident>>

LEMMA RetsType ==
    ASSUME NEW q \in Seq(Frame)
    PROVE  /\ Rets(q) \in Seq(Code) /\ Len(Rets(q)) = Len(q)
           /\ \A i \in 1 .. Len(q) : Rets(q)[i] = q[i].ret
<1>1. \A i \in 1 .. Len(q) : q[i].ret \in Code
  <2>1. \A i \in 1 .. Len(q) : q[i] \in Frame
    BY ElementOfSeq
  <2>2. QED
    BY <2>1 DEF Frame
<1>2. Len(q) \in Nat
  OBVIOUS
<1>3. QED
  BY <1>1, <1>2 DEF Rets

\* A frame pushed is one more that waits.
LEMMA RetsAppend ==
    ASSUME NEW q \in Seq(Frame), NEW f \in Frame
    PROVE  Rets(Append(q, f)) = Append(Rets(q), f.ret)
<1>1. Append(q, f) \in Seq(Frame) /\ f.ret \in Code
  BY DEF Frame
<1>2. /\ Rets(Append(q, f)) \in Seq(Code) /\ Len(Rets(Append(q, f))) = Len(q) + 1
      /\ \A i \in 1 .. Len(q) + 1 : Rets(Append(q, f))[i] = Append(q, f)[i].ret
  <2>1. Len(Append(q, f)) = Len(q) + 1
    OBVIOUS
  <2>2. QED
    BY <1>1, <2>1, RetsType
<1>3. /\ Append(Rets(q), f.ret) \in Seq(Code) /\ Len(Append(Rets(q), f.ret)) = Len(q) + 1
      /\ \A i \in 1 .. Len(q) : Append(Rets(q), f.ret)[i] = q[i].ret
      /\ Append(Rets(q), f.ret)[Len(q) + 1] = f.ret
  BY <1>1, RetsType
<1>4. \A i \in 1 .. Len(q) + 1 : Rets(Append(q, f))[i] = Append(Rets(q), f.ret)[i]
  BY <1>2, <1>3
<1>5. QED
  BY <1>2, <1>3, <1>4, SeqEqual

\* A frame popped is one fewer.
LEMMA RetsPop ==
    ASSUME NEW q \in Seq(Frame), NEW n \in Nat, n = Len(q), n >= 1
    PROVE  Rets(SubSeq(q, 1, n - 1)) = SubSeq(Rets(q), 1, n - 1)
<1>1. /\ SubSeq(q, 1, n - 1) \in Seq(Frame) /\ Len(SubSeq(q, 1, n - 1)) = n - 1
      /\ \A i \in 1 .. n - 1 : SubSeq(q, 1, n - 1)[i] = q[i]
  BY Popped
<1>2. /\ Rets(SubSeq(q, 1, n - 1)) \in Seq(Code) /\ Len(Rets(SubSeq(q, 1, n - 1))) = n - 1
      /\ \A i \in 1 .. n - 1 : Rets(SubSeq(q, 1, n - 1))[i] = q[i].ret
  BY <1>1, RetsType
<1>3. /\ Rets(q) \in Seq(Code) /\ Len(Rets(q)) = n
      /\ \A i \in 1 .. n : Rets(q)[i] = q[i].ret
  BY RetsType
<1>4. /\ SubSeq(Rets(q), 1, n - 1) \in Seq(Code) /\ Len(SubSeq(Rets(q), 1, n - 1)) = n - 1
      /\ \A i \in 1 .. n - 1 : SubSeq(Rets(q), 1, n - 1)[i] = Rets(q)[i]
  BY <1>3, Popped
<1>5. \A i \in 1 .. n - 1 : Rets(SubSeq(q, 1, n - 1))[i] = SubSeq(Rets(q), 1, n - 1)[i]
  BY <1>2, <1>3, <1>4
<1>6. QED
  BY <1>2, <1>4, <1>5, SeqEqual

\* Who waits, in the words of these lemmas.
LEMMA Bar == /\ waitingBar = Below \o Rets(trstack)
             /\ Below \in Seq(Code)
             /\ waitingBar' = Below' \o Rets(trstack')
             /\ Below' \in Seq(Code)
<1>1. Resident \in Code
  BY DEF Code
<1>2. <<>> \in Seq(Code) /\ <<Resident>> \in Seq(Code)
  BY <1>1
<1>3. Below \in Seq(Code) /\ Below' \in Seq(Code)
  BY <1>2 DEF Below
<1>4. waitingBar = Below \o Rets(trstack)
  BY DEF waitingBar, Below, Rets
<1>5. waitingBar' = Below' \o Rets(trstack')
  BY DEF waitingBar, Below, Rets
<1>6. QED
  BY <1>3, <1>4, <1>5

\* The sequences themselves: adding to the end, and taking the end away.
LEMMA ConcatAppend ==
    ASSUME NEW S, NEW b \in Seq(S), NEW q \in Seq(S), NEW e \in S
    PROVE  b \o Append(q, e) = Append(b \o q, e)
  OBVIOUS

LEMMA ConcatPop ==
    ASSUME NEW S, NEW b \in Seq(S), NEW q \in Seq(S), NEW n \in Nat, n = Len(q), n >= 1
    PROVE  /\ b \o q # <<>>
           /\ (b \o q)[Len(b \o q)] = q[n]
           /\ SubSeq(b \o q, 1, Len(b \o q) - 1) = b \o SubSeq(q, 1, n - 1)
<1>1. b \o q \in Seq(S) /\ Len(b \o q) = Len(b) + n /\ Len(b) \in Nat
  OBVIOUS
<1>2. (b \o q)[Len(b) + n] = q[n]
  OBVIOUS
<1>3. /\ SubSeq(b \o q, 1, Len(b) + n - 1) \in Seq(S)
      /\ Len(SubSeq(b \o q, 1, Len(b) + n - 1)) = Len(b) + n - 1
      /\ \A i \in 1 .. Len(b) + n - 1 : SubSeq(b \o q, 1, Len(b) + n - 1)[i] = (b \o q)[i]
  BY <1>1, Popped
<1>4. /\ SubSeq(q, 1, n - 1) \in Seq(S) /\ Len(SubSeq(q, 1, n - 1)) = n - 1
      /\ \A i \in 1 .. n - 1 : SubSeq(q, 1, n - 1)[i] = q[i]
  BY Popped
<1>5. /\ b \o SubSeq(q, 1, n - 1) \in Seq(S)
      /\ Len(b \o SubSeq(q, 1, n - 1)) = Len(b) + n - 1
  BY <1>1, <1>4
<1>6. \A i \in 1 .. Len(b) + n - 1 : (b \o q)[i] = (b \o SubSeq(q, 1, n - 1))[i]
  <2> SUFFICES ASSUME NEW i \in 1 .. Len(b) + n - 1
               PROVE  (b \o q)[i] = (b \o SubSeq(q, 1, n - 1))[i]
    OBVIOUS
  <2>1. CASE i <= Len(b)
    BY <1>1, <1>4, <2>1
  <2>2. CASE i > Len(b)
    <3>1. i - Len(b) \in 1 .. n - 1
      BY <1>1, <2>2
    <3>2. (b \o q)[i] = q[i - Len(b)]
      BY <1>1, <2>2
    <3>3. (b \o SubSeq(q, 1, n - 1))[i] = SubSeq(q, 1, n - 1)[i - Len(b)]
      BY <1>1, <1>4, <2>2
    <3>4. QED
      BY <1>4, <3>1, <3>2, <3>3
  <2>3. QED
    BY <1>1, <2>1, <2>2
<1>7. SubSeq(b \o q, 1, Len(b) + n - 1) = b \o SubSeq(q, 1, n - 1)
  BY <1>3, <1>5, <1>6, SeqEqual
<1>8. QED
  BY <1>1, <1>2, <1>7

-----------------------------------------------------------------------------
\* What the window shows is what runs.
LEMMA Executes ==
    ASSUME IInv, IInv'
    PROVE  /\ runningBar = IF phase = "panic" THEN Stopped ELSE running
           /\ runningBar' = IF phase' = "panic" THEN Stopped ELSE running'
<1>1. InPlace(running) /\ InPlace(running)'
  BY DEF IInv, CodeInPlace
<1>2. QED
  BY <1>1 DEF runningBar

LEMMA EnterIsCall ==
    ASSUME IInv, IInv', NEW o \in Overlays, Enter(o), phase = "compiling"
    PROVE  FLAT!Call
<1>1. /\ trstack' = Append(trstack, Saved(o)) /\ running' = o
      /\ UNCHANGED <<base, phase>>
  BY DEF Enter
<1>2. /\ trstack \in Seq(Frame) /\ running \in Code /\ Saved(o) \in Frame
      /\ Saved(o).ret = running
  BY DEF IInv, TypeOK, Saved, Frame
<1>3. waitingBar' = Append(waitingBar, running)
  <2>1. Rets(trstack') = Append(Rets(trstack), running)
    BY <1>1, <1>2, RetsAppend
  <2>2. Below' = Below
    BY <1>1 DEF Below
  <2>3. Below \o Append(Rets(trstack), running) = Append(Below \o Rets(trstack), running)
    BY <1>2, Bar, RetsType, ConcatAppend
  <2>4. QED
    BY <2>1, <2>2, <2>3, Bar
<1>4. running # Stopped /\ running' \in Code /\ phase # "panic" /\ phase' # "panic"
  BY <1>1, <1>2, TableAssumption DEF Code
<1>5. runningBar = running /\ runningBar' = running'
  BY <1>4, Executes
<1>6. QED
  BY <1>3, <1>4, <1>5 DEF FLAT!Call

LEMMA FramedReturnIsReturn == ASSUME IInv, IInv', FramedReturn PROVE FLAT!Return
<1> DEFINE n == Len(trstack)
<1>1. /\ trstack \in Seq(Frame) /\ trstack # <<>> /\ running \in Code
  BY DEF FramedReturn, IInv, TypeOK
<1>2. n \in Nat /\ n >= 1 /\ n \in 1 .. n
  <2>1. n \in Nat \ {0}
    BY <1>1, EmptySeq
  <2>2. QED
    BY <2>1
<1>3. /\ trstack' = SubSeq(trstack, 1, n - 1) /\ running' = trstack[n].ret
      /\ UNCHANGED <<base, phase>> /\ phase = "compiling"
  BY DEF FramedReturn, ReturnWord, TopFrame
<1>4. /\ Rets(trstack') = SubSeq(Rets(trstack), 1, n - 1)
      /\ Rets(trstack) \in Seq(Code) /\ Len(Rets(trstack)) = n
      /\ Rets(trstack)[n] = trstack[n].ret
  BY <1>1, <1>2, <1>3, RetsPop, RetsType
<1>5. /\ Below \o Rets(trstack) # <<>>
      /\ (Below \o Rets(trstack))[Len(Below \o Rets(trstack))] = trstack[n].ret
      /\ SubSeq(Below \o Rets(trstack), 1, Len(Below \o Rets(trstack)) - 1)
            = Below \o SubSeq(Rets(trstack), 1, n - 1)
  <2> DEFINE b == Below
             q == Rets(trstack)
  <2>1. b \in Seq(Code) /\ q \in Seq(Code) /\ n \in Nat /\ n = Len(q) /\ n >= 1
    BY <1>2, <1>4, Bar
  <2>2. /\ b \o q # <<>>
        /\ (b \o q)[Len(b \o q)] = q[n]
        /\ SubSeq(b \o q, 1, Len(b \o q) - 1) = b \o SubSeq(q, 1, n - 1)
    <3> HIDE DEF b, q, n
    <3>1. QED
      BY <2>1, ConcatPop
  <2>3. QED
    BY <1>4, <2>2
<1>6. Below' = Below
  BY <1>3 DEF Below
<1>7. /\ waitingBar # <<>> /\ running' = waitingBar[Len(waitingBar)]
      /\ waitingBar' = SubSeq(waitingBar, 1, Len(waitingBar) - 1)
  BY <1>3, <1>4, <1>5, <1>6, Bar
<1>8. running # Stopped /\ phase # "panic" /\ phase' # "panic"
  BY <1>1, <1>3, TableAssumption DEF Code
<1>9. runningBar = running /\ runningBar' = running'
  BY <1>8, Executes
<1>10. QED
  BY <1>7, <1>8, <1>9 DEF FLAT!Return

\* No frames, no names.
LEMMA RetsEmpty == Rets(<<>>) = <<>>
<1>1. <<>> \in Seq(Frame) /\ Len(<<>>) = 0
  OBVIOUS
<1>2. Rets(<<>>) \in Seq(Code) /\ Len(Rets(<<>>)) = 0
  BY <1>1, RetsType
<1>3. QED
  BY <1>2, EmptySeq

\* Who waits while no frame is in use.
LEMMA BarEmpty ==
    /\ trstack = <<>> => waitingBar = Below
    /\ trstack' = <<>> => waitingBar' = Below'
<1>1. Below \in Seq(Code) /\ Below' \in Seq(Code)
  BY Bar
<1>2. Below \o <<>> = Below /\ Below' \o <<>> = Below'
  BY <1>1
<1>3. QED
  BY <1>2, Bar, RetsEmpty

LEMMA DirectIsCall == ASSUME IInv, IInv', TailCall \/ GetOptions PROVE FLAT!Call
<1>1. /\ running = Resident /\ running' \in Overlays /\ trstack' = trstack
      /\ base' # "main" /\ phase' = phase /\ phase # "panic"
  BY TableAssumption DEF TailCall, GetOptions
<1>2. trstack = <<>> /\ base = "main"
  BY <1>1 DEF IInv, StackInv
<1>3. waitingBar = <<>> /\ waitingBar' = <<Resident>>
  BY <1>1, <1>2, BarEmpty DEF Below
<1>4. waitingBar' = Append(waitingBar, running)
  BY <1>1, <1>3
<1>5. running # Stopped /\ running' \in Code
  BY <1>1, TableAssumption DEF Code
<1>6. runningBar = running /\ runningBar' = running'
  BY <1>1, Executes
<1>7. QED
  BY <1>4, <1>5, <1>6 DEF FLAT!Call

LEMMA DirectIsReturn == ASSUME IInv, IInv', TailReturn \/ GetOptionsReturn PROVE FLAT!Return
<1>1. /\ base # "main" /\ base' = "main" /\ trstack = <<>> /\ trstack' = <<>>
      /\ running' = Resident /\ phase # "panic" /\ phase' # "panic"
  BY DEF TailReturn, GetOptionsReturn, IInv, AskInv
<1>2. waitingBar = <<Resident>> /\ waitingBar' = <<>>
  BY <1>1, BarEmpty DEF Below
<1>3. /\ waitingBar # <<>> /\ running' = waitingBar[Len(waitingBar)]
      /\ waitingBar' = SubSeq(waitingBar, 1, Len(waitingBar) - 1)
  BY <1>1, <1>2
<1>4. running # Stopped
  BY TableAssumption DEF IInv, TypeOK, Code
<1>5. runningBar = running /\ runningBar' = running'
  BY <1>1, Executes
<1>6. QED
  BY <1>1, <1>3, <1>4, <1>5 DEF FLAT!Return

LEMMA PanicIsStop == ASSUME Panic PROVE FLAT!Stop
<1>1. UNCHANGED <<trstack, base>> /\ phase' = "panic"
  BY DEF Panic
<1>2. waitingBar' = waitingBar
  BY <1>1 DEF waitingBar
<1>3. QED
  BY <1>1, <1>2 DEF FLAT!Stop, runningBar

LEMMA PortInitIsStart == ASSUME IInv, IInv', PortInit PROVE FLAT!Start
<1>1. trstack' = <<>> /\ base' = "main" /\ running' = Resident /\ phase' = "asking"
  BY DEF PortInit
<1>2. waitingBar' = <<>>
  BY <1>1, BarEmpty DEF Below
<1>3. runningBar' = Resident
  BY <1>1, Executes
<1>4. QED
  BY <1>2, <1>3 DEF FLAT!Start

\* The end of a run, and nothing at all, are not seen.
LEMMA UnseenStep == ASSUME IInv, IInv', Finish \/ UNCHANGED overlayVars PROVE UNCHANGED FLAT!vars
<1>1. UNCHANGED <<trstack, base, running>> /\ (phase' = "panic" <=> phase = "panic")
  BY DEF Finish, overlayVars
<1>2. waitingBar' = waitingBar
  BY <1>1 DEF waitingBar
<1>3. runningBar' = runningBar
  BY <1>1, Executes
<1>4. QED
  BY <1>2, <1>3 DEF FLAT!vars

\* The overlays, their manager and the stubs are as good as memory for all.
THEOREM OverlaysRefineCalls == OverlaySpec => ImplementsFlatCalls
<1>1. OverlayInit => FLAT!Init
  <2> SUFFICES ASSUME OverlayInit PROVE FLAT!Init
    OBVIOUS
  <2>1. trstack = <<>> /\ base = "main" /\ running = Resident /\ phase = "asking"
    BY DEF OverlayInit
  <2>2. waitingBar = <<>>
    BY <2>1, BarEmpty DEF Below
  <2>3. runningBar = Resident
    BY <2>1, TableAssumption DEF runningBar, InPlace
  <2>4. QED
    BY <2>2, <2>3 DEF FLAT!Init
<1>2. IInv /\ IInv' /\ [OverlayNext]_overlayVars => [FLAT!Next]_(FLAT!vars)
  <2> SUFFICES ASSUME IInv, IInv', [OverlayNext]_overlayVars PROVE FLAT!Next \/ UNCHANGED FLAT!vars
    OBVIOUS
  <2>1. CASE FramedCall
    <3>1. PICK o \in Overlays : Enter(o)
      BY <2>1 DEF FramedCall
    <3>2. QED
      BY <2>1, <3>1, EnterIsCall DEF FramedCall, FLAT!Next
  <2>2. CASE FramedError
    BY <2>2, EnterIsCall, TableAssumption DEF FramedError, FLAT!Next
  <2>3. CASE FramedReturn
    BY <2>3, FramedReturnIsReturn DEF FLAT!Next
  <2>4. CASE TailCall \/ GetOptions
    BY <2>4, DirectIsCall DEF FLAT!Next
  <2>5. CASE TailReturn \/ GetOptionsReturn
    BY <2>5, DirectIsReturn DEF FLAT!Next
  <2>6. CASE Panic
    BY <2>6, PanicIsStop DEF FLAT!Next
  <2>7. CASE PortInit
    BY <2>7, PortInitIsStart DEF FLAT!Next
  <2>8. CASE Finish \/ UNCHANGED overlayVars
    BY <2>8, UnseenStep
  <2>9. QED
    BY <2>1, <2>2, <2>3, <2>4, <2>5, <2>6, <2>7, <2>8 DEF OverlayNext
<1>3. QED
  BY <1>1, <1>2, OverlayInvariance, PTL DEF OverlaySpec, ImplementsFlatCalls, FLAT!Spec

-----------------------------------------------------------------------------
(* The depth of the stack: the inductive invariant.                        *)

\* A waiting call, and behind the last one what the compiler is at.
LocOf(s, t, i) == IF i <= Len(s) THEN s[i].savloc ELSE Len(t)
SpOf(s, o, i) == IF i <= Len(s) THEN s[i].savcsp ELSE o

\* No variable is in the table from a to b.
Labelled(t, a, b) == \A k \in a..b : t[k].label

\* Labels of a call: none, one or two.
Arity(name) == CASE name = "compound" -> 0
                 [] name \in {"if", "else"} -> 1
                 [] OTHER -> 2

\* The calls of one function, with their labels, and what they saved in order.
Nested ==
    /\ (calls = <<>>) = (at = "between")
    /\ calls # <<>> => calls[1].call = "function"
    /\ \A i \in 2..Len(calls) :
          /\ calls[i].call # "function"
          /\ Len(calls[i].labels) = Arity(calls[i].call)
          /\ \A k \in DOMAIN calls[i].labels : calls[i].labels[k] \in 1..nxtlab
          /\ calls[i].savloc <= Len(locals) /\ calls[i].swnex <= Len(swtab)
          /\ \A j \in 2..i : calls[j].savloc <= calls[i].savloc /\ calls[j].swnex <= calls[i].swnex

\* With the calls s, the table t and the depth o: variables are declared in blocks and
\* in no switch; where none was declared in between the depth is the same.
BlocksIn(s, t, o) ==
    /\ \A i \in 2..Len(s) :
          /\ s[i].call # "compound" => Labelled(t, LocOf(s, t, i) + 1, LocOf(s, t, i + 1))
          /\ s[i].call = "switch" => Labelled(t, LocOf(s, t, i) + 1, Len(t))
    /\ \A i \in 2..Len(s) : \A j \in (i + 1)..(Len(s) + 1) :
          Labelled(t, LocOf(s, t, i) + 1, LocOf(s, t, j)) => SpOf(s, o, i) = SpOf(s, o, j)

\* Variables are declared before the first statement of a block.
OpensAt == declared >= 0 => at = "done" /\ Top.call = "compound" /\ csp = Top.savcsp

Blocks == OpensAt /\ BlocksIn(calls, locals, Opened)

\* The switches among the calls s, and the labels of their cases and defaults, of which
\* t has the cases and d the default of the innermost.
SwitchesOf(s) == {i \in 1..Len(s) : s[i].call = "switch"}

LabelsOf(s, t, d) == {t[q] : q \in DOMAIN t} \cup (({d} \cup {s[i].swdef : i \in SwitchesOf(s)}) \ {0})

SwitchesIn(s, t, d, a, m) ==
    /\ a = (SwitchesOf(s) # {})
    /\ SwitchesOf(s) = {} => t = <<>> /\ d = 0
    /\ \A i \in SwitchesOf(s) :
          /\ s[i].swact = ({j \in SwitchesOf(s) : j < i} # {})
          /\ {j \in SwitchesOf(s) : j < i} = {} => s[i].swnex = 0 /\ s[i].swdef = 0
    /\ LabelsOf(s, t, d) \subseteq 1..m

\* A label with a name has the number that the name was given, and no other entry.
NamesIn(t, g, m) ==
    /\ \A i \in DOMAIN t : t[i].label => t[i].offset = g[t[i].name] /\ t[i].offset \in 1..m
    /\ \A n \in Names : g[n] # 0 => \E i \in DOMAIN t : t[i].label /\ t[i].name = n

CaseLabels == LabelsOf(calls, swtab, swdefault)

\* The depths at which the labels of the calls and of the cases are awaited.
AwaitedBy(s) == UNION {Range(s[i].labels) \X {s[i].savcsp} : i \in 2..Len(s)}
Due == AwaitedBy(calls) \cup (CaseLabels \X {Opened})

\* Each label up to m is reached at one depth, and those of due at that one; those
\* with names are others.
LabelsRight(flow, due, named, m) ==
    /\ \A e \in flow : e[1] \in 1..m
    /\ \A e, f \in flow : e[1] = f[1] => e[2] = f[2]
    /\ \A e \in flow \cup due, p \in due : e[1] = p[1] => e[2] = p[2]
    /\ \A p \in due : p[1] \in 1..m /\ p[1] \notin named

Clean == ~errors /\ astray = {}

Reached == code.sp \in {None, csp} /\ LabelsRight(code.flow, Due, OfNames, nxtlab)

\* The entries of the while queue are of the calls at p.
Queued(p) ==
    /\ p \in Seq(Nat) /\ Len(p) = Len(wq)
    /\ \A q \in 1..Len(p) : p[q] \in Leavable /\ wq[q] = EntryOf(calls[p[q]])
    /\ \A q, r \in 1..Len(p) : q < r => p[q] < p[r]
    /\ \A i \in Leavable : \E q \in 1..Len(p) : p[q] = i

\* The recursion, whatever errors there were.
Recursion == Nested /\ \E p : Queued(p)

\* Without errors, and without what leads astray.
Scoped ==
    /\ Blocks /\ SwitchesIn(calls, swtab, swdefault, swactive, nxtlab) /\ NamesIn(locals, given, nxtlab)

\* The inductive invariant.
DepthInv ==
    /\ StmtTypeOK /\ Recursion
    /\ Clean => Scoped
    /\ Sound => Reached

-----------------------------------------------------------------------------
(* What the steps do to the recursion: a statement without others in it, a *)
(* call, the end of one.                                                   *)

Loops4 == {"while", "do", "for", "switch"}

SameCall(c, d) ==
    /\ c.call = d.call /\ c.labels = d.labels /\ c.savcsp = d.savcsp /\ c.savloc = d.savloc
    /\ c.swact = d.swact /\ c.swdef = d.swdef /\ c.swnex = d.swnex

Stays ==
    /\ calls # <<>> /\ at # "between" /\ at' # "between"
    /\ Len(calls') = Len(calls) /\ \A i \in 1..Len(calls) : SameCall(calls'[i], calls[i])
    /\ wq' = wq /\ nxtlab <= nxtlab'
    /\ Len(locals) <= Len(locals') /\ Len(swtab) <= Len(swtab')

Pushes(f) ==
    /\ calls # <<>> /\ at # "between" /\ at' # "between"
    /\ calls' = Append(calls, f)
    /\ f.call # "function" /\ f.savloc = Len(locals) /\ f.swnex = Len(swtab)
    /\ Len(f.labels) = Arity(f.call)
    /\ \A k \in 1..Len(f.labels) : f.labels[k] \in 1..nxtlab'
    /\ wq' = IF f.call \in Loops4 THEN Append(wq, EntryOf(f)) ELSE wq
    /\ Len(locals') = Len(locals) /\ Len(swtab') = Len(swtab) /\ nxtlab <= nxtlab'

Pops ==
    /\ calls # <<>> /\ at # "between" /\ at' # "between"
    /\ calls' = Front(calls) /\ Top.call # "function"
    /\ wq' = IF Top.call \in Loops4 THEN delwhile ELSE wq
    /\ Top.savloc <= Len(locals') /\ Top.swnex <= Len(swtab') /\ nxtlab <= nxtlab'

LEMMA Appended ==
    ASSUME NEW S, NEW s \in Seq(S), NEW e \in S
    PROVE  /\ Append(s, e) \in Seq(S) /\ Len(Append(s, e)) = Len(s) + 1 /\ Len(s) \in Nat
           /\ \A k \in 1..Len(s) : Append(s, e)[k] = s[k]
           /\ Append(s, e)[Len(s) + 1] = e
BY AppendProperties, LenProperties

LEMMA Fronted ==
    ASSUME NEW S, NEW s \in Seq(S), s # <<>>
    PROVE  /\ Front(s) \in Seq(S) /\ Len(Front(s)) = Len(s) - 1 /\ Len(s) \in Nat \ {0}
           /\ \A k \in 1..(Len(s) - 1) : Front(s)[k] = s[k]
           /\ Last(s) = s[Len(s)] /\ Last(s) \in S
<1>1. Len(s) \in Nat \ {0} /\ \A k \in 1..Len(s) : s[k] \in S
  BY LenProperties, EmptySeq, ElementOfSeq
<1>2. 1 \in 1..(Len(s) + 1) /\ Len(s) - 1 \in 0..Len(s) /\ Len(s) \in 1..Len(s)
  BY <1>1
<1>3. /\ SubSeq(s, 1, Len(s) - 1) \in Seq(S)
      /\ Len(SubSeq(s, 1, Len(s) - 1)) = Len(s) - 1
      /\ \A k \in 1..(Len(s) - 1) : SubSeq(s, 1, Len(s) - 1)[k] = s[k]
  <2>1. PICK m : m = Len(s) - 1
    OBVIOUS
  <2>2. 1 \in 1..(Len(s) + 1) /\ m \in 0..Len(s) /\ m \in Nat
    BY <1>1, <1>2, <2>1
  <2>3. SubSeq(s, 1, m) \in Seq(S) /\ Len(SubSeq(s, 1, m)) = m /\ \A k \in 1..m : SubSeq(s, 1, m)[k] = s[k]
    BY <1>1, <2>2, SubSeqProperties
  <2> QED BY <2>1, <2>3
<1>4. Front(s) = SubSeq(s, 1, Len(s) - 1) /\ Last(s) = s[Len(s)]
  BY DEF Front, Last
<1>5. Last(s) = s[Len(s)] /\ Last(s) \in S
  BY <1>1, <1>2, <1>4
<1>6. /\ Front(s) \in Seq(S) /\ Len(Front(s)) = Len(s) - 1
      /\ \A k \in 1..(Len(s) - 1) : Front(s)[k] = s[k]
  BY <1>3, <1>4, Zenon
<1> QED BY <1>1, <1>5, <1>6

LEMMA CallTypes ==
    ASSUME NEW s \in Seq(CallRecord), NEW i \in 1..Len(s)
    PROVE  /\ s[i] \in CallRecord /\ s[i].call \in CallNames
           /\ s[i].labels \in Seq(Nat) /\ s[i].savcsp \in Int /\ s[i].savloc \in Nat
           /\ s[i].swact \in BOOLEAN /\ s[i].swdef \in Nat /\ s[i].swnex \in Nat
<1>1. s[i] \in CallRecord
  BY ElementOfSeq
<1> QED BY <1>1 DEF CallRecord

\* What of the types the steps need.
LEMMA Typed1 ==
    StmtTypeOK => /\ calls \in Seq(CallRecord) /\ Len(calls) \in Nat /\ nxtlab \in Nat
                  /\ Len(locals) \in Nat /\ Len(swtab) \in Nat /\ csp \in Int
                  /\ locals \in Seq(Range(locals)) /\ swtab \in Seq(Nat) /\ declared \in Nat \cup {-1}
BY LenProperties DEF StmtTypeOK, TableOK

LEMMA Typed1Next ==
    StmtTypeOK' => /\ calls' \in Seq(CallRecord) /\ Len(calls') \in Nat /\ nxtlab' \in Nat
                   /\ Len(locals') \in Nat /\ Len(swtab') \in Nat /\ csp' \in Int
                   /\ locals' \in Seq(Range(locals')) /\ swtab' \in Seq(Nat)
                   /\ declared' \in Nat \cup {-1}
BY LenProperties DEF StmtTypeOK, TableOK

WqEntry == [sp : Int, loop : Nat, exit : Nat]

LEMMA TypedQueue ==
    /\ StmtTypeOK => wq \in Seq(WqEntry)
    /\ StmtTypeOK' => wq' \in Seq(WqEntry)
BY DEF StmtTypeOK, WqEntry

LEMMA NestedStays ==
    ASSUME StmtTypeOK, StmtTypeOK', Nested, Stays
    PROVE  Nested'
<1>1. /\ Len(calls) \in Nat /\ calls' # <<>> /\ Len(calls) # 0 /\ nxtlab \in Nat /\ nxtlab' \in Nat
      /\ Len(locals) \in Nat /\ Len(locals') \in Nat /\ Len(swtab) \in Nat /\ Len(swtab') \in Nat
  BY Typed1, Typed1Next, EmptySeq DEF Stays
<1>2. \A i \in 1..Len(calls) : calls[i].savloc \in Nat /\ calls[i].swnex \in Nat
  BY Typed1, CallTypes
<1>3. /\ Len(calls') = Len(calls) /\ calls # <<>> /\ at # "between" /\ at' # "between"
      /\ nxtlab <= nxtlab' /\ Len(locals) <= Len(locals') /\ Len(swtab) <= Len(swtab')
  BY DEF Stays
<1>4. ASSUME NEW i \in 1..Len(calls)
      PROVE  /\ calls'[i].call = calls[i].call /\ calls'[i].labels = calls[i].labels
             /\ calls'[i].savloc = calls[i].savloc /\ calls'[i].swnex = calls[i].swnex
  BY <1>4 DEF Stays, SameCall
<1>5. calls'[1].call = "function"
  <2>1. 1 \in 1..Len(calls) /\ calls[1].call = "function"
    BY <1>1, <1>3 DEF Nested
  <2> QED BY <1>4, <2>1
<1>6. ASSUME NEW i \in 2..Len(calls')
      PROVE  /\ calls'[i].call # "function"
             /\ Len(calls'[i].labels) = Arity(calls'[i].call)
             /\ \A k \in DOMAIN calls'[i].labels : calls'[i].labels[k] \in 1..nxtlab'
             /\ calls'[i].savloc <= Len(locals') /\ calls'[i].swnex <= Len(swtab')
             /\ \A j \in 2..i : calls'[j].savloc <= calls'[i].savloc /\ calls'[j].swnex <= calls'[i].swnex
  <2>1. i \in 1..Len(calls) /\ i \in 2..Len(calls) /\ \A j \in 2..i : j \in 1..Len(calls)
    BY <1>1, <1>3
  <2>2. /\ calls[i].call # "function" /\ Len(calls[i].labels) = Arity(calls[i].call)
        /\ \A k \in DOMAIN calls[i].labels : calls[i].labels[k] \in 1..nxtlab
        /\ calls[i].savloc <= Len(locals) /\ calls[i].swnex <= Len(swtab)
        /\ \A j \in 2..i : calls[j].savloc <= calls[i].savloc /\ calls[j].swnex <= calls[i].swnex
    BY <2>1 DEF Nested
  <2>3. \A k \in DOMAIN calls[i].labels : calls[i].labels[k] \in 1..nxtlab'
    BY <1>1, <1>3, <2>2
  <2>4. calls[i].savloc <= Len(locals') /\ calls[i].swnex <= Len(swtab')
    BY <1>1, <1>2, <1>3, <2>1, <2>2
  <2>5. \A j \in 2..i : calls'[j].savloc <= calls'[i].savloc /\ calls'[j].swnex <= calls'[i].swnex
    BY <1>4, <2>1, <2>2
  <2> QED BY <1>4, <2>1, <2>2, <2>3, <2>4, <2>5
<1> QED BY <1>1, <1>3, <1>5, <1>6 DEF Nested

LEMMA NestedPushes ==
    ASSUME StmtTypeOK, StmtTypeOK', Nested, NEW f \in CallRecord, Pushes(f)
    PROVE  Nested'
<1>1. /\ Len(calls') = Len(calls) + 1 /\ Len(calls) \in Nat
      /\ \A k \in 1..Len(calls) : calls'[k] = calls[k]
      /\ calls'[Len(calls) + 1] = f /\ calls' # <<>> /\ Len(calls) # 0
  <2>1. calls \in Seq(CallRecord) /\ calls # <<>> /\ calls' = Append(calls, f)
    BY DEF StmtTypeOK, Pushes
  <2>2. Len(calls) # 0 /\ Len(Append(calls, f)) # 0
    BY <2>1, Appended, EmptySeq
  <2> QED BY <2>1, <2>2, Appended, EmptySeq
<1>2. \A i \in 2..Len(calls') : i \in 2..Len(calls) \/ i = Len(calls) + 1
  BY <1>1
<1>3. /\ Len(locals) \in Nat /\ Len(locals') \in Nat /\ Len(swtab) \in Nat /\ Len(swtab') \in Nat
      /\ nxtlab \in Nat /\ nxtlab' \in Nat
  BY Typed1, Typed1Next
<1>4. \A i \in 1..Len(calls) : calls[i].savloc \in Nat /\ calls[i].swnex \in Nat
  BY Typed1, CallTypes
<1>5. f.labels \in Seq(Nat) /\ DOMAIN f.labels = 1..Len(f.labels)
  BY LenProperties DEF CallRecord
<1>6. /\ calls # <<>> /\ at # "between" /\ at' # "between" /\ f.call # "function" /\ f.savloc = Len(locals)
      /\ f.swnex = Len(swtab) /\ Len(f.labels) = Arity(f.call) /\ \A k \in 1..Len(f.labels) : f.labels[k] \in 1..nxtlab'
      /\ Len(locals') = Len(locals) /\ Len(swtab') = Len(swtab) /\ nxtlab <= nxtlab'
  BY DEF Pushes
<1>7. (calls' = <<>>) = (at' = "between") /\ calls'[1].call = "function"
  <2>1. 1 \in 1..Len(calls) /\ calls[1].call = "function"
    BY <1>1, <1>6 DEF Nested
  <2> QED BY <1>1, <1>6, <2>1
<1>8. ASSUME NEW i \in 2..Len(calls)
      PROVE  /\ calls'[i].call # "function"
             /\ Len(calls'[i].labels) = Arity(calls'[i].call)
             /\ \A k \in DOMAIN calls'[i].labels : calls'[i].labels[k] \in 1..nxtlab'
             /\ calls'[i].savloc <= Len(locals') /\ calls'[i].swnex <= Len(swtab')
             /\ \A j \in 2..i : calls'[j].savloc <= calls'[i].savloc /\ calls'[j].swnex <= calls'[i].swnex
  <2>1. \A j \in 2..i : j \in 1..Len(calls) /\ calls'[j] = calls[j]
    BY <1>1, <1>8
  <2>2. i \in 2..i /\ calls'[i] = calls[i]
    BY <2>1
  <2>3. /\ calls[i].call # "function" /\ Len(calls[i].labels) = Arity(calls[i].call)
        /\ \A k \in DOMAIN calls[i].labels : calls[i].labels[k] \in 1..nxtlab
        /\ calls[i].savloc <= Len(locals) /\ calls[i].swnex <= Len(swtab)
        /\ \A j \in 2..i : calls[j].savloc <= calls[i].savloc /\ calls[j].swnex <= calls[i].swnex
    BY <1>8 DEF Nested
  <2>4. \A k \in DOMAIN calls[i].labels : calls[i].labels[k] \in 1..nxtlab'
    BY <1>3, <1>6, <2>3
  <2>5. \A j \in 2..i : calls'[j].savloc <= calls'[i].savloc /\ calls'[j].swnex <= calls'[i].swnex
    BY <2>1, <2>2, <2>3
  <2> QED BY <1>6, <2>2, <2>3, <2>4, <2>5
<1>9. /\ f.call # "function"
      /\ Len(f.labels) = Arity(f.call)
      /\ \A k \in DOMAIN f.labels : f.labels[k] \in 1..nxtlab'
      /\ f.savloc <= Len(locals') /\ f.swnex <= Len(swtab')
      /\ \A j \in 2..(Len(calls) + 1) : calls'[j].savloc <= f.savloc /\ calls'[j].swnex <= f.swnex
  <2>1. f.savloc \in Nat /\ f.swnex \in Nat
    BY <1>3, <1>6
  <2>2. \A j \in 2..Len(calls) : calls[j].savloc <= Len(locals) /\ calls[j].swnex <= Len(swtab)
    BY DEF Nested
  <2>3. ASSUME NEW j \in 2..(Len(calls) + 1)
        PROVE  calls'[j].savloc <= f.savloc /\ calls'[j].swnex <= f.swnex
    <3>1. CASE j = Len(calls) + 1
      BY <1>1, <2>1, <3>1
    <3>2. CASE j # Len(calls) + 1
      <4>1. j \in 2..Len(calls) /\ j \in 1..Len(calls)
        BY <1>1, <3>2
      <4> QED BY <1>1, <1>6, <2>2, <4>1
    <3> QED BY <3>1, <3>2
  <2>4. f.savloc <= Len(locals') /\ f.swnex <= Len(swtab')
    BY <1>6, <2>1
  <2> QED BY <1>5, <1>6, <2>3, <2>4
<1>10. ASSUME NEW i \in 2..Len(calls')
       PROVE  /\ calls'[i].call # "function"
              /\ Len(calls'[i].labels) = Arity(calls'[i].call)
              /\ \A k \in DOMAIN calls'[i].labels : calls'[i].labels[k] \in 1..nxtlab'
              /\ calls'[i].savloc <= Len(locals') /\ calls'[i].swnex <= Len(swtab')
              /\ \A j \in 2..i : calls'[j].savloc <= calls'[i].savloc /\ calls'[j].swnex <= calls'[i].swnex
  <2>1. CASE i = Len(calls) + 1
    <3>1. calls'[i] = f
      BY <1>1, <2>1
    <3> QED BY <1>9, <2>1, <3>1
  <2>2. CASE i \in 2..Len(calls)
    BY <1>8, <2>2
  <2> QED BY <1>2, <2>1, <2>2
<1> QED BY <1>7, <1>10 DEF Nested

LEMMA NestedPops ==
    ASSUME StmtTypeOK, StmtTypeOK', Nested, Pops
    PROVE  Nested' /\ Len(calls) >= 2
<1>1. /\ Len(calls') = Len(calls) - 1 /\ Len(calls) \in Nat \ {0}
      /\ \A k \in 1..(Len(calls) - 1) : calls'[k] = calls[k]
      /\ Top = calls[Len(calls)]
  <2>1. calls \in Seq(CallRecord) /\ calls # <<>> /\ calls' = Front(calls)
    BY DEF StmtTypeOK, Pops
  <2> QED BY <2>1, Fronted DEF Top
<1>2. Len(calls) >= 2 /\ calls' # <<>>
  BY <1>1, EmptySeq DEF Nested, Pops
<1>3. \A i \in 2..Len(calls') : i \in 2..Len(calls) /\ i <= Len(calls)
  BY <1>1
<1>4. /\ Len(locals') \in Nat /\ Len(swtab') \in Nat /\ nxtlab \in Nat /\ nxtlab' \in Nat
  BY Typed1, Typed1Next
<1>5. \A i \in 1..Len(calls) : calls[i].savloc \in Nat /\ calls[i].swnex \in Nat
  BY Typed1, CallTypes
<1>6. ASSUME NEW i \in 2..Len(calls')
      PROVE  /\ calls'[i] = calls[i] /\ i \in 2..Len(calls)
             /\ calls[i].savloc <= Top.savloc /\ calls[i].swnex <= Top.swnex
  BY <1>1, <1>2, <1>3 DEF Nested
<1>7. ASSUME NEW i \in 2..Len(calls'), NEW j \in 2..i
      PROVE  calls'[j] = calls[j] /\ calls[j].savloc <= calls[i].savloc /\ calls[j].swnex <= calls[i].swnex
  BY <1>1, <1>2, <1>3, <1>6 DEF Nested
<1>8. Top.savloc \in Nat /\ Top.swnex \in Nat
  BY <1>1, <1>2, <1>5
<1>9. calls'[1].call = "function" /\ at' # "between"
  BY <1>1, <1>2 DEF Nested, Pops
<1>10. ASSUME NEW i \in 2..Len(calls')
       PROVE  /\ calls'[i].call # "function"
              /\ Len(calls'[i].labels) = Arity(calls'[i].call)
              /\ \A k \in DOMAIN calls'[i].labels : calls'[i].labels[k] \in 1..nxtlab'
              /\ calls'[i].savloc <= Len(locals') /\ calls'[i].swnex <= Len(swtab')
  <2>1. /\ calls[i].call # "function" /\ Len(calls[i].labels) = Arity(calls[i].call)
        /\ \A k \in DOMAIN calls[i].labels : calls[i].labels[k] \in 1..nxtlab
    BY <1>6 DEF Nested
  <2>2. /\ calls[i].savloc <= Len(locals') /\ calls[i].swnex <= Len(swtab')
    BY <1>4, <1>5, <1>6, <1>8 DEF Pops
  <2> QED BY <1>4, <1>6, <2>1, <2>2 DEF Pops
<1>11. \A i \in 2..Len(calls') : \A j \in 2..i :
          calls'[j].savloc <= calls'[i].savloc /\ calls'[j].swnex <= calls'[i].swnex
  BY <1>6, <1>7
<1> QED BY <1>2, <1>9, <1>10, <1>11 DEF Nested

LEMMA QueuedStays ==
    ASSUME StmtTypeOK, StmtTypeOK', Stays, NEW p, Queued(p)
    PROVE  Queued(p)'
<1>1. DOMAIN calls = 1..Len(calls) /\ DOMAIN calls' = 1..Len(calls)
  BY Typed1, Typed1Next, LenProperties DEF Stays
<1>2. Leavable' = Leavable
  BY <1>1 DEF Leavable, Stays, SameCall
<1>3. \A i \in 1..Len(calls) : EntryOf(calls'[i]) = EntryOf(calls[i])
  BY DEF Stays, SameCall, EntryOf
<1>4. \A q \in 1..Len(p) : p[q] \in 1..Len(calls)
  BY <1>1 DEF Queued, Leavable
<1>5. wq' = wq
  BY DEF Stays
<1> QED BY <1>2, <1>3, <1>4, <1>5 DEF Queued

LEMMA QueuedPushes ==
    ASSUME StmtTypeOK, StmtTypeOK', NEW f \in CallRecord, Pushes(f), NEW p, Queued(p)
    PROVE  \E r : Queued(r)'
<1> DEFINE n == Len(calls) + 1
<1>1. /\ calls \in Seq(CallRecord) /\ Len(calls) \in Nat /\ DOMAIN calls = 1..Len(calls)
      /\ calls' \in Seq(CallRecord) /\ DOMAIN calls' = 1..n
      /\ \A k \in 1..Len(calls) : calls'[k] = calls[k]
      /\ calls'[n] = f
  BY Typed1, Typed1Next, Appended, LenProperties DEF Pushes
<1>2. Leavable' = IF f.call \in Loops4 THEN Leavable \cup {n} ELSE Leavable
  <2>1. \A i : i \in 1..n <=> i \in 1..Len(calls) \/ i = n
    BY <1>1
  <2> QED BY <1>1, <2>1 DEF Leavable, Loops4
<1>3. /\ p \in Seq(Nat) /\ Len(p) = Len(wq) /\ Len(p) \in Nat
      /\ \A q \in 1..Len(p) : /\ p[q] \in Leavable /\ p[q] \in 1..Len(calls)
                               /\ wq[q] = EntryOf(calls[p[q]]) /\ calls'[p[q]] = calls[p[q]]
      /\ \A q, r \in 1..Len(p) : q < r => p[q] < p[r]
      /\ \A i \in Leavable : \E q \in 1..Len(p) : p[q] = i
  BY <1>1, LenProperties DEF Queued, Leavable
<1>4. CASE f.call \notin Loops4
  <2>1. Queued(p)'
    BY <1>2, <1>3, <1>4 DEF Queued, Pushes
  <2> QED BY <2>1
<1>5. CASE f.call \in Loops4
  <2>0. PICK r : r = Append(p, n)
    OBVIOUS
  <2>1. n \in Nat /\ wq \in Seq(WqEntry) /\ wq' \in Seq(WqEntry) /\ wq' = Append(wq, EntryOf(f))
    BY <1>1, <1>5, TypedQueue DEF Pushes
  <2>2. r \in Seq(Nat) /\ Len(r) = Len(p) + 1 /\ r[Len(p) + 1] = n /\ \A k \in 1..Len(p) : r[k] = p[k]
    BY <1>3, <2>0, <2>1, Appended
  <2>3. Len(wq') = Len(wq) + 1 /\ wq'[Len(wq) + 1] = EntryOf(f) /\ \A k \in 1..Len(wq) : wq'[k] = wq[k]
    <3>1. EntryOf(f) \in WqEntry
      <4>1. /\ f.savcsp \in Int /\ f.labels \in Seq(Nat) /\ f.call # "compound"
            /\ Len(f.labels) = Arity(f.call)
        BY <1>5 DEF CallRecord, Pushes, Loops4
      <4>2. f.labels[1] \in Nat /\ f.labels[2] \in Nat
        BY <1>5, <4>1, ElementOfSeq DEF Arity, Loops4
      <4> QED BY <4>1, <4>2 DEF EntryOf, WqEntry
    <3> QED BY <2>1, <3>1, Appended
  <2> HIDE DEF n
  <2>4. \A q : q \in 1..Len(r) <=> q \in 1..Len(p) \/ q = Len(p) + 1
    BY <1>3, <2>2
  <2>5. ASSUME NEW q \in 1..Len(r) PROVE r[q] \in Leavable' /\ wq'[q] = EntryOf(calls'[r[q]])
    <3>1. CASE q \in 1..Len(p)
      <4>1. r[q] = p[q] /\ wq'[q] = wq[q] /\ p[q] \in Leavable /\ wq[q] = EntryOf(calls[p[q]])
            /\ calls'[p[q]] = calls[p[q]]
        BY <1>3, <2>2, <2>3, <3>1
      <4> QED BY <1>2, <4>1
    <3>2. CASE q = Len(p) + 1
      <4>1. r[q] = n /\ wq'[q] = EntryOf(f) /\ calls'[n] = f
        BY <1>1, <1>3, <2>2, <2>3, <3>2 DEF n
      <4> QED BY <1>2, <1>5, <4>1
    <3> QED BY <2>4, <3>1, <3>2
  <2>6. ASSUME NEW q \in 1..Len(r), NEW k \in 1..Len(r), q < k PROVE r[q] < r[k]
    <3>1. q \in 1..Len(p)
      BY <1>3, <2>4, <2>6
    <3>2. k \in 1..Len(p) => r[q] < r[k]
      BY <1>3, <2>2, <2>6, <3>1
    <3>3. k = Len(p) + 1 => r[q] < r[k]
      BY <1>1, <1>3, <2>2, <3>1 DEF n
    <3> QED BY <2>4, <3>2, <3>3
  <2>7. ASSUME NEW i \in Leavable' PROVE \E q \in 1..Len(r) : r[q] = i
    <3>1. CASE i = n
      BY <1>3, <2>2, <2>4, <3>1
    <3>2. CASE i # n
      <4>1. PICK q \in 1..Len(p) : p[q] = i
        BY <1>2, <1>3, <1>5, <3>2
      <4> QED BY <2>2, <2>4, <4>1
    <3> QED BY <3>1, <3>2
  <2>8. Queued(r)'
    BY <1>3, <2>2, <2>3, <2>5, <2>6, <2>7 DEF Queued
  <2> QED BY <2>8
<1> QED BY <1>4, <1>5

LEMMA QueuedPops ==
    ASSUME StmtTypeOK, StmtTypeOK', Nested, Pops, NEW p, Queued(p)
    PROVE  \E r : Queued(r)'
<1> DEFINE n == Len(calls)
<1>1. /\ calls \in Seq(CallRecord) /\ n \in Nat \ {0} /\ DOMAIN calls = 1..n
      /\ calls' \in Seq(CallRecord) /\ DOMAIN calls' = 1..(n - 1)
      /\ \A k \in 1..(n - 1) : calls'[k] = calls[k]
      /\ Top = calls[n]
  BY Typed1, Typed1Next, Fronted, LenProperties DEF Pops, Top
<1>2. Leavable' = Leavable \ {n} /\ (n \in Leavable <=> Top.call \in Loops4)
  <2>1. \A i : i \in 1..(n - 1) <=> i \in 1..n /\ i # n
    BY <1>1
  <2>2. n \in 1..n
    BY <1>1
  <2> HIDE DEF n
  <2> QED BY <1>1, <2>1, <2>2 DEF Leavable, Loops4
<1>3. /\ p \in Seq(Nat) /\ Len(p) = Len(wq) /\ Len(p) \in Nat
      /\ \A q \in 1..Len(p) : /\ p[q] \in Leavable /\ p[q] \in 1..n
                               /\ wq[q] = EntryOf(calls[p[q]])
      /\ \A q, r \in 1..Len(p) : q < r => p[q] < p[r]
      /\ \A i \in Leavable : \E q \in 1..Len(p) : p[q] = i
  BY <1>1, LenProperties DEF Queued, Leavable
<1>4. CASE Top.call \notin Loops4
  <2>1. Leavable' = Leavable /\ \A q \in 1..Len(p) : calls'[p[q]] = calls[p[q]]
    <3>1. \A q \in 1..Len(p) : p[q] \in 1..(n - 1)
      BY <1>1, <1>2, <1>3, <1>4
    <3> QED BY <1>1, <1>2, <1>4, <3>1
  <2>2. Queued(p)'
    BY <1>3, <1>4, <2>1 DEF Queued, Pops
  <2> QED BY <2>2
<1>5. CASE Top.call \in Loops4
  <2> DEFINE m == Len(p)
             r == Front(p)
  <2>1. PICK q \in 1..m : p[q] = n
    BY <1>2, <1>3, <1>5
  <2>2. q = m
    <3>1. q < m => p[q] < p[m] /\ p[m] \in 1..n
      BY <1>3, <2>1
    <3> QED BY <1>1, <1>3, <2>1, <3>1
  <2>3. p # <<>> /\ m \in Nat \ {0}
    BY <1>3, <2>1, EmptySeq
  <2>4. r \in Seq(Nat) /\ Len(r) = m - 1 /\ \A k \in 1..(m - 1) : r[k] = p[k]
    BY <1>3, <2>3, Fronted
  <2>5. wq \in Seq(WqEntry) /\ wq # <<>>
    BY <1>3, <2>3, EmptySeq, TypedQueue
  <2>6. wq' = Front(wq)
    BY <1>5, <2>5 DEF Pops, delwhile
  <2>7. Len(wq') = m - 1 /\ \A k \in 1..(m - 1) : wq'[k] = wq[k]
    BY <1>3, <2>5, <2>6, Fronted
  <2> HIDE DEF n, r, m
  <2>8. ASSUME NEW k \in 1..(m - 1)
        PROVE  p[k] \in Leavable /\ p[k] \in 1..(n - 1) /\ wq[k] = EntryOf(calls[p[k]])
    <3>1. k \in 1..m /\ m \in 1..m /\ k < m
      BY <2>3
    <3>2. p[k] < p[m] /\ p[k] \in 1..n
      BY <1>3, <3>1 DEF m
    <3> QED BY <1>1, <1>3, <2>1, <2>2, <3>1, <3>2 DEF m
  <2>9. ASSUME NEW k \in 1..Len(r) PROVE r[k] \in Leavable' /\ wq'[k] = EntryOf(calls'[r[k]])
    <3>1. k \in 1..(m - 1) /\ r[k] = p[k]
      BY <2>4
    <3>2. p[k] # n /\ calls'[p[k]] = calls[p[k]]
      BY <1>1, <2>8, <3>1
    <3> QED BY <1>2, <2>7, <2>8, <3>1, <3>2
  <2>10. ASSUME NEW i \in 1..Len(r), NEW k \in 1..Len(r), i < k PROVE r[i] < r[k]
    <3>1. i \in 1..m /\ k \in 1..m
      BY <2>3, <2>4
    <3> QED BY <1>3, <2>4, <2>10, <3>1 DEF m
  <2>11. ASSUME NEW i \in Leavable' PROVE \E k \in 1..Len(r) : r[k] = i
    <3>1. PICK k \in 1..m : p[k] = i
      BY <1>2, <1>3 DEF m
    <3>2. k # m
      BY <1>2, <2>1, <2>2, <3>1
    <3>3. k \in 1..(m - 1)
      BY <2>3, <3>2
    <3> QED BY <2>4, <3>1, <3>3
  <2>12. Queued(r)'
    BY <2>4, <2>7, <2>9, <2>10, <2>11 DEF Queued
  <2> QED BY <2>12
<1> QED BY <1>4, <1>5

-----------------------------------------------------------------------------
(* Blocks and switches, step by step.                                      *)

SameBlock(c, d) ==
    /\ (c.call = "compound") = (d.call = "compound") /\ (c.call = "switch") = (d.call = "switch")
    /\ c.savcsp = d.savcsp /\ c.savloc = d.savloc
    /\ c.swact = d.swact /\ c.swdef = d.swdef /\ c.swnex = d.swnex

\* The table of locals gets entries of labels, or none.
GetsLabels ==
    /\ Len(locals) <= Len(locals')
    /\ \A k \in 1..Len(locals) : locals'[k].label = locals[k].label
    /\ \A k \in (Len(locals) + 1)..Len(locals') : locals'[k].label

\* A call as Call makes it.
Fresh(f) ==
    /\ f.savcsp = Opened /\ f.savloc = Len(locals) /\ f.swnex = Len(swtab)
    /\ f.swact = swactive /\ f.swdef = swdefault

\* What the calls saved, in order.
Ordered(s, t) ==
    /\ Len(t) \in Nat /\ Len(s) \in Nat /\ \A i \in 1..Len(s) : s[i].savloc \in Nat
    /\ \A i \in 2..Len(s) : s[i].savloc <= Len(t) /\ \A j \in 2..i : s[j].savloc <= s[i].savloc

LEMMA NestedOrdered ==
    StmtTypeOK /\ Nested => Ordered(calls, locals)
BY Typed1, CallTypes DEF Nested, Ordered

LEMMA BlocksStay ==
    ASSUME NEW s, NEW s2, NEW t, NEW t2, NEW o, Ordered(s, t), BlocksIn(s, t, o),
           Len(s2) = Len(s), \A i \in 1..Len(s) : SameBlock(s2[i], s[i]),
           Len(t2) \in Nat, Len(t) <= Len(t2),
           \A k \in 1..Len(t) : t2[k].label = t[k].label,
           \A k \in (Len(t) + 1)..Len(t2) : t2[k].label
    PROVE  BlocksIn(s2, t2, o)
<1> DEFINE n == Len(s)
<1>1. n \in Nat /\ Len(t) \in Nat /\ Len(t2) \in Nat
  BY DEF Ordered
<1>2. \A i \in 1..n : /\ LocOf(s2, t2, i) = LocOf(s, t, i) /\ SpOf(s2, o, i) = SpOf(s, o, i)
                       /\ LocOf(s, t, i) \in Nat
                       /\ (s2[i].call = "compound") = (s[i].call = "compound")
                       /\ (s2[i].call = "switch") = (s[i].call = "switch")
  BY <1>1 DEF SameBlock, LocOf, SpOf, Ordered
<1>3. /\ LocOf(s, t, n + 1) = Len(t) /\ LocOf(s2, t2, n + 1) = Len(t2)
      /\ SpOf(s2, o, n + 1) = SpOf(s, o, n + 1)
      /\ \A i \in 2..n : LocOf(s, t, i) <= Len(t)
  BY <1>1 DEF LocOf, SpOf, Ordered
<1>4. ASSUME NEW i \in 2..n, NEW j \in 2..(n + 1)
      PROVE  Labelled(t2, LocOf(s2, t2, i) + 1, LocOf(s2, t2, j)) <=> Labelled(t, LocOf(s, t, i) + 1, LocOf(s, t, j))
  <2>0. LocOf(s2, t2, i) = LocOf(s, t, i) /\ LocOf(s, t, i) \in Nat
    BY <1>1, <1>2
  <2>1. CASE j \in 2..n
    <3>1. LocOf(s2, t2, j) = LocOf(s, t, j) /\ LocOf(s, t, j) \in Nat /\ LocOf(s, t, j) <= Len(t)
      BY <1>1, <1>2, <1>3, <2>1
    <3>2. \A k \in (LocOf(s, t, i) + 1)..LocOf(s, t, j) : t2[k].label = t[k].label
      BY <1>1, <2>0, <3>1
    <3> QED BY <2>0, <3>1, <3>2 DEF Labelled
  <2>2. CASE j = n + 1
    <3>1. /\ \A k \in (LocOf(s, t, i) + 1)..Len(t) : t2[k].label = t[k].label
          /\ \A k \in (LocOf(s, t, i) + 1)..Len(t2) : k \in (LocOf(s, t, i) + 1)..Len(t) \/ t2[k].label
          /\ \A k \in (LocOf(s, t, i) + 1)..Len(t) : k \in (LocOf(s, t, i) + 1)..Len(t2)
      BY <1>1, <2>0
    <3> QED BY <1>3, <2>0, <2>2, <3>1 DEF Labelled
  <2> QED BY <1>1, <2>1, <2>2
<1>5. ASSUME NEW i \in 2..n
      PROVE  /\ s2[i].call # "compound" => Labelled(t2, LocOf(s2, t2, i) + 1, LocOf(s2, t2, i + 1))
             /\ s2[i].call = "switch" => Labelled(t2, LocOf(s2, t2, i) + 1, Len(t2))
  <2>1. i + 1 \in 2..(n + 1) /\ n + 1 \in 2..(n + 1) /\ i \in 1..n
    BY <1>1
  <2>2. /\ Labelled(t2, LocOf(s2, t2, i) + 1, LocOf(s2, t2, i + 1)) <=> Labelled(t, LocOf(s, t, i) + 1, LocOf(s, t, i + 1))
        /\ Labelled(t2, LocOf(s2, t2, i) + 1, LocOf(s2, t2, n + 1)) <=> Labelled(t, LocOf(s, t, i) + 1, LocOf(s, t, n + 1))
    BY <1>4, <2>1
  <2> QED BY <1>2, <1>3, <2>1, <2>2 DEF BlocksIn
<1>6. ASSUME NEW i \in 2..n, NEW j \in (i + 1)..(n + 1),
             Labelled(t2, LocOf(s2, t2, i) + 1, LocOf(s2, t2, j))
      PROVE  SpOf(s2, o, i) = SpOf(s2, o, j)
  <2>1. j \in 2..(n + 1) /\ i \in 1..n /\ (j \in 1..n \/ j = n + 1)
    BY <1>1
  <2>2. SpOf(s, o, i) = SpOf(s, o, j)
    BY <1>4, <1>6, <2>1 DEF BlocksIn
  <2> QED BY <1>2, <1>3, <2>1, <2>2
<1> QED BY <1>5, <1>6 DEF BlocksIn

LEMMA BlocksPush ==
    ASSUME NEW s \in Seq(CallRecord), NEW t, NEW o, Ordered(s, t), BlocksIn(s, t, o),
           NEW f \in CallRecord, f.savcsp = o, f.savloc = Len(t)
    PROVE  BlocksIn(Append(s, f), t, o)
<1> DEFINE n == Len(s)
           m == Len(t)
           s2 == Append(s, f)
<1>1. /\ n \in Nat /\ m \in Nat /\ Len(s2) = n + 1
      /\ \A i \in 1..n : s2[i] = s[i]
      /\ s2[n + 1] = f
  BY Appended DEF Ordered
<1> HIDE DEF s2
<1>2. /\ \A i \in 1..n : /\ LocOf(s2, t, i) = LocOf(s, t, i) /\ SpOf(s2, o, i) = SpOf(s, o, i)
                          /\ LocOf(s, t, i) \in Nat
      /\ LocOf(s2, t, n + 1) = m /\ SpOf(s2, o, n + 1) = o
      /\ LocOf(s2, t, n + 2) = m /\ SpOf(s2, o, n + 2) = o
      /\ LocOf(s, t, n + 1) = m /\ SpOf(s, o, n + 1) = o
  BY <1>1 DEF LocOf, SpOf, Ordered
<1> HIDE DEF n, m
<1>3. ASSUME NEW i \in 2..(n + 1)
      PROVE  /\ s2[i].call # "compound" => Labelled(t, LocOf(s2, t, i) + 1, LocOf(s2, t, i + 1))
             /\ s2[i].call = "switch" => Labelled(t, LocOf(s2, t, i) + 1, m)
  <2>1. CASE i = n + 1
    <3>1. LocOf(s2, t, i) = m /\ LocOf(s2, t, i + 1) = m
      <4>1. i + 1 = n + 2
        BY <1>1, <2>1
      <4> QED BY <1>2, <2>1, <4>1
    <3> QED BY <1>1, <3>1 DEF Labelled
  <2>2. CASE i \in 2..n
    <3>1. /\ s[i].call # "compound" => Labelled(t, LocOf(s, t, i) + 1, LocOf(s, t, i + 1))
          /\ s[i].call = "switch" => Labelled(t, LocOf(s, t, i) + 1, m)
      BY <2>2 DEF BlocksIn, n, m
    <3>2. LocOf(s2, t, i) = LocOf(s, t, i) /\ s2[i] = s[i]
      BY <1>1, <1>2, <2>2
    <3>3. LocOf(s2, t, i + 1) = LocOf(s, t, i + 1)
      <4>1. i + 1 \in 1..n \/ i + 1 = n + 1
        BY <1>1, <2>2
      <4>2. CASE i + 1 \in 1..n
        BY <1>2, <4>2
      <4>3. CASE i + 1 = n + 1
        BY <1>2, <4>3
      <4> QED BY <4>1, <4>2, <4>3
    <3> QED BY <3>1, <3>2, <3>3
  <2> QED BY <1>1, <2>1, <2>2
<1>4. ASSUME NEW i \in 2..(n + 1), NEW j \in (i + 1)..(n + 2),
             Labelled(t, LocOf(s2, t, i) + 1, LocOf(s2, t, j))
      PROVE  SpOf(s2, o, i) = SpOf(s2, o, j)
  <2>1. CASE i = n + 1
    <3>1. j = n + 2
      BY <1>1, <2>1
    <3> QED BY <1>2, <2>1, <3>1
  <2>2. CASE i \in 2..n
    <3>1. LocOf(s2, t, i) = LocOf(s, t, i) /\ SpOf(s2, o, i) = SpOf(s, o, i)
      BY <1>1, <1>2, <2>2
    <3>2. \E q \in (i + 1)..(n + 1) : LocOf(s2, t, j) = LocOf(s, t, q) /\ SpOf(s2, o, j) = SpOf(s, o, q)
      <4>1. CASE j = n + 2 \/ j = n + 1
        <5>1. n + 1 \in (i + 1)..(n + 1)
          BY <1>1, <2>2
        <5>2. LocOf(s2, t, j) = LocOf(s, t, n + 1) /\ SpOf(s2, o, j) = SpOf(s, o, n + 1)
          BY <1>2, <4>1
        <5> QED BY <5>1, <5>2
      <4>2. CASE j \in (i + 1)..n
        <5>1. j \in 1..n /\ j \in (i + 1)..(n + 1)
          BY <1>1, <2>2, <4>2
        <5> QED BY <1>2, <5>1
      <4> QED BY <1>1, <2>2, <4>1, <4>2
    <3>3. PICK q \in (i + 1)..(n + 1) : LocOf(s2, t, j) = LocOf(s, t, q) /\ SpOf(s2, o, j) = SpOf(s, o, q)
      BY <3>2
    <3>4. SpOf(s, o, i) = SpOf(s, o, q)
      BY <1>4, <2>2, <3>1, <3>3 DEF BlocksIn, n
    <3> QED BY <3>1, <3>3, <3>4
  <2> QED BY <1>1, <2>1, <2>2
<1>5. BlocksIn(s2, t, o)
  <2>1. Len(s2) = n + 1 /\ Len(t) = m /\ (n + 1) + 1 = n + 2
    BY <1>1 DEF m
  <2> QED BY <1>3, <1>4, <2>1 DEF BlocksIn
<1> QED BY <1>5 DEF s2

LEMMA BlocksPop ==
    ASSUME NEW s \in Seq(CallRecord), NEW t, NEW t2, NEW o, NEW o2, Ordered(s, t), BlocksIn(s, t, o),
           Len(s) >= 2, Len(t2) \in Nat, Last(s).savloc <= Len(t2),
           \A k \in 1..Last(s).savloc : t2[k].label = t[k].label,
           \A k \in (Last(s).savloc + 1)..Len(t2) : t2[k].label,
           Len(s) >= 3 => o2 = Last(s).savcsp
    PROVE  BlocksIn(Front(s), t2, o2)
<1> DEFINE n == Len(s)
           m == Len(t2)
           b == Last(s).savloc
           s2 == Front(s)
<1>1. /\ n \in Nat /\ m \in Nat /\ n >= 2 /\ Len(s2) = n - 1
      /\ \A i \in 1..(n - 1) : s2[i] = s[i]
      /\ Last(s) = s[n] /\ Len(t) \in Nat
  <2>1. s # <<>> /\ Len(s) \in Nat
    BY EmptySeq DEF Ordered
  <2> QED BY <2>1, Fronted DEF Ordered
<1> HIDE DEF s2
<1>2. LocOf(s, t, n) = b /\ SpOf(s, o, n) = Last(s).savcsp /\ b \in Nat /\ b <= m /\ b <= Len(t)
  BY <1>1 DEF LocOf, SpOf, Ordered
<1>3. /\ \A i \in 1..(n - 1) : /\ LocOf(s2, t2, i) = LocOf(s, t, i)
                                /\ SpOf(s2, o2, i) = SpOf(s, o, i) /\ LocOf(s, t, i) \in Nat
      /\ \A i \in 2..(n - 1) : LocOf(s, t, i) <= b
      /\ LocOf(s2, t2, n) = m /\ SpOf(s2, o2, n) = o2
  BY <1>1, <1>2 DEF LocOf, SpOf, Ordered
<1>4. n >= 3 => o2 = Last(s).savcsp
  OBVIOUS
<1>5. /\ \A k \in 1..b : t2[k].label = t[k].label
      /\ \A k \in (b + 1)..m : t2[k].label
  OBVIOUS
<1> HIDE DEF n, m, b
<1>6. ASSUME NEW i \in 2..(n - 1), NEW c \in 0..b
      PROVE  Labelled(t2, LocOf(s2, t2, i) + 1, c) <=> Labelled(t, LocOf(s, t, i) + 1, c)
  <2>1. LocOf(s2, t2, i) = LocOf(s, t, i) /\ LocOf(s, t, i) \in Nat
    BY <1>1, <1>3
  <2>2. \A k \in (LocOf(s, t, i) + 1)..c : t2[k].label = t[k].label
    BY <1>1, <1>2, <1>5, <2>1
  <2> QED BY <2>1, <2>2 DEF Labelled
<1>7. ASSUME NEW i \in 2..(n - 1)
      PROVE  Labelled(t2, LocOf(s2, t2, i) + 1, m) <=> Labelled(t, LocOf(s, t, i) + 1, b)
  <2>1. LocOf(s2, t2, i) = LocOf(s, t, i) /\ LocOf(s, t, i) \in Nat
    BY <1>1, <1>3
  <2>2. \A k \in (LocOf(s, t, i) + 1)..b : t2[k].label = t[k].label /\ k \in (LocOf(s, t, i) + 1)..m
    BY <1>1, <1>2, <1>5, <2>1
  <2>3. \A k \in (LocOf(s, t, i) + 1)..m : k \in (LocOf(s, t, i) + 1)..b \/ t2[k].label
    BY <1>1, <1>2, <1>5, <2>1
  <2> QED BY <2>1, <2>2, <2>3 DEF Labelled
<1>8. ASSUME NEW i \in 2..(n - 1)
      PROVE  /\ s2[i].call # "compound" => Labelled(t2, LocOf(s2, t2, i) + 1, LocOf(s2, t2, i + 1))
             /\ s2[i].call = "switch" => Labelled(t2, LocOf(s2, t2, i) + 1, m)
  <2>1. s2[i] = s[i] /\ i \in 2..n /\ LocOf(s, t, i) \in Nat
    BY <1>1, <1>3
  <2>2. /\ s[i].call # "compound" => Labelled(t, LocOf(s, t, i) + 1, LocOf(s, t, i + 1))
        /\ s[i].call = "switch" => Labelled(t, LocOf(s, t, i) + 1, Len(t))
    BY <2>1 DEF BlocksIn, n
  <2>3. CASE i = n - 1
    <3>1. i + 1 = n
      BY <1>1, <2>3
    <3>2. LocOf(s, t, i + 1) = b /\ LocOf(s2, t2, i + 1) = m
      BY <1>2, <1>3, <3>1
    <3> QED BY <1>7, <2>1, <2>2, <3>2
  <2>4. CASE i + 1 \in 2..(n - 1)
    <3>1. LocOf(s2, t2, i + 1) = LocOf(s, t, i + 1) /\ LocOf(s, t, i + 1) \in 0..b
      BY <1>1, <1>2, <1>3, <2>4
    <3>2. Labelled(t, LocOf(s, t, i) + 1, Len(t)) => Labelled(t, LocOf(s, t, i) + 1, b)
      BY <1>1, <1>2, <2>1 DEF Labelled
    <3> QED BY <1>6, <1>7, <2>1, <2>2, <3>1, <3>2
  <2> QED BY <1>1, <2>3, <2>4
<1>9. ASSUME NEW i \in 2..(n - 1), NEW j \in (i + 1)..n,
             Labelled(t2, LocOf(s2, t2, i) + 1, LocOf(s2, t2, j))
      PROVE  SpOf(s2, o2, i) = SpOf(s2, o2, j)
  <2>1. Labelled(t, LocOf(s, t, i) + 1, LocOf(s, t, j)) => SpOf(s, o, i) = SpOf(s, o, j)
    <3>1. i \in 2..n /\ j \in (i + 1)..(n + 1)
      BY <1>1
    <3> QED BY <3>1 DEF BlocksIn, n
  <2>2. LocOf(s2, t2, i) = LocOf(s, t, i) /\ SpOf(s2, o2, i) = SpOf(s, o, i)
    BY <1>1, <1>3
  <2>3. CASE j = n
    <3>1. n >= 3
      BY <1>1
    <3>2. o2 = SpOf(s, o, n)
      BY <1>2, <1>4, <3>1
    <3>3. Labelled(t, LocOf(s, t, i) + 1, LocOf(s, t, n))
      BY <1>2, <1>3, <1>7, <1>9, <2>3
    <3> QED BY <1>3, <2>1, <2>2, <2>3, <3>2, <3>3
  <2>4. CASE j \in 2..(n - 1)
    <3>1. LocOf(s2, t2, j) = LocOf(s, t, j) /\ SpOf(s2, o2, j) = SpOf(s, o, j) /\ LocOf(s, t, j) \in 0..b
      BY <1>1, <1>2, <1>3, <2>4
    <3> QED BY <1>6, <1>9, <2>1, <2>2, <3>1
  <2> QED BY <1>1, <2>3, <2>4
<1>10. BlocksIn(s2, t2, o2)
  <2>1. Len(s2) = n - 1 /\ Len(t2) = m /\ (n - 1) + 1 = n
    BY <1>1 DEF m
  <2> QED BY <1>8, <1>9, <2>1 DEF BlocksIn
<1> QED BY <1>10 DEF s2

\* What BlocksIn says of the innermost call and of a switch.
LEMMA TopDepth ==
    ASSUME NEW s, NEW t, NEW o, Ordered(s, t), BlocksIn(s, t, o), NEW i \in 2..Len(s),
           Labelled(t, s[i].savloc + 1, Len(t))
    PROVE  s[i].savcsp = o
<1> DEFINE n == Len(s)
<1>1. n \in Nat /\ i \in 1..n /\ n + 1 \in (i + 1)..(n + 1) /\ ~(n + 1 <= n)
  BY DEF Ordered
<1>2. LocOf(s, t, i) = s[i].savloc /\ SpOf(s, o, i) = s[i].savcsp
      /\ LocOf(s, t, n + 1) = Len(t) /\ SpOf(s, o, n + 1) = o
  BY <1>1 DEF LocOf, SpOf
<1> QED BY <1>1, <1>2 DEF BlocksIn

LEMMA PlainTop ==
    ASSUME NEW s \in Seq(CallRecord), NEW t, NEW o, Ordered(s, t), BlocksIn(s, t, o), Len(s) >= 2,
           Last(s).call # "compound"
    PROVE  Labelled(t, Last(s).savloc + 1, Len(t)) /\ Last(s).savcsp = o
<1> DEFINE n == Len(s)
<1>1. n \in Nat /\ n \in 2..n /\ n \in 1..n /\ s # <<>> /\ ~(n + 1 <= n)
  BY EmptySeq DEF Ordered
<1>2. Last(s) = s[n]
  BY <1>1, Fronted
<1>3. LocOf(s, t, n) = s[n].savloc /\ LocOf(s, t, n + 1) = Len(t)
  BY <1>1 DEF LocOf
<1>4. Labelled(t, s[n].savloc + 1, Len(t))
  BY <1>1, <1>2, <1>3 DEF BlocksIn
<1> QED BY <1>1, <1>2, <1>4, TopDepth

LEMMA SwitchDepth ==
    ASSUME NEW s \in Seq(CallRecord), NEW t, NEW o, Ordered(s, t), BlocksIn(s, t, o),
           NEW i \in 2..Len(s), s[i].call = "switch"
    PROVE  s[i].savcsp = o
<1>1. LocOf(s, t, i) = s[i].savloc
  BY DEF LocOf, Ordered
<1>2. Labelled(t, s[i].savloc + 1, Len(t))
  BY <1>1 DEF BlocksIn
<1> QED BY <1>2, TopDepth

-----------------------------------------------------------------------------
(* The cases.                                                              *)

LEMMA SwitchesStay ==
    ASSUME NEW s, NEW s2, Len(s2) = Len(s), \A i \in 1..Len(s) : SameBlock(s2[i], s[i]),
           NEW t \in Seq(Nat), NEW d, NEW a, NEW m \in Nat, NEW m2 \in Nat, m <= m2,
           SwitchesIn(s, t, d, a, m)
    PROVE  /\ SwitchesOf(s2) = SwitchesOf(s) /\ LabelsOf(s2, t, d) = LabelsOf(s, t, d)
           /\ SwitchesIn(s2, t, d, a, m2)
<1>1. SwitchesOf(s2) = SwitchesOf(s)
  BY DEF SwitchesOf, SameBlock
<1>2. \A i \in SwitchesOf(s) : s2[i].swact = s[i].swact /\ s2[i].swdef = s[i].swdef /\ s2[i].swnex = s[i].swnex
  BY DEF SwitchesOf, SameBlock
<1>3. LabelsOf(s2, t, d) = LabelsOf(s, t, d)
  BY <1>1, <1>2 DEF LabelsOf
<1>4. 1..m \subseteq 1..m2
  OBVIOUS
<1> QED BY <1>1, <1>2, <1>3, <1>4 DEF SwitchesIn

LEMMA SwitchesPush ==
    ASSUME NEW s \in Seq(CallRecord), NEW f \in CallRecord, f.call # "switch",
           NEW t \in Seq(Nat), NEW d, NEW a, NEW m \in Nat, NEW m2 \in Nat, m <= m2,
           SwitchesIn(s, t, d, a, m)
    PROVE  /\ LabelsOf(Append(s, f), t, d) = LabelsOf(s, t, d)
           /\ SwitchesIn(Append(s, f), t, d, a, m2)
<1> DEFINE s2 == Append(s, f)
<1>1. /\ Len(s) \in Nat /\ Len(s2) = Len(s) + 1
      /\ \A i \in 1..Len(s) : s2[i] = s[i]
      /\ s2[Len(s) + 1] = f
  BY Appended
<1> HIDE DEF s2
<1>2. SwitchesOf(s2) = SwitchesOf(s) /\ \A i \in SwitchesOf(s) : s2[i] = s[i]
  <2>1. \A i : i \in 1..(Len(s) + 1) <=> i \in 1..Len(s) \/ i = Len(s) + 1
    BY <1>1
  <2> QED BY <1>1, <2>1 DEF SwitchesOf
<1>3. LabelsOf(s2, t, d) = LabelsOf(s, t, d)
  BY <1>2 DEF LabelsOf
<1>4. 1..m \subseteq 1..m2
  OBVIOUS
<1>5. SwitchesIn(s2, t, d, a, m2)
  BY <1>2, <1>3, <1>4 DEF SwitchesIn
<1> QED BY <1>3, <1>5 DEF s2

LEMMA SwitchesPop ==
    ASSUME NEW s \in Seq(CallRecord), s # <<>>, Last(s).call # "switch",
           NEW t \in Seq(Nat), NEW d, NEW a, NEW m \in Nat, NEW m2 \in Nat, m <= m2,
           SwitchesIn(s, t, d, a, m)
    PROVE  /\ SwitchesOf(Front(s)) = SwitchesOf(s) /\ LabelsOf(Front(s), t, d) = LabelsOf(s, t, d)
           /\ SwitchesIn(Front(s), t, d, a, m2)
<1> DEFINE s2 == Front(s)
<1>1. /\ Len(s) \in Nat /\ Len(s2) = Len(s) - 1
      /\ \A i \in 1..(Len(s) - 1) : s2[i] = s[i]
      /\ Last(s) = s[Len(s)]
  BY Fronted
<1> HIDE DEF s2
<1>2. SwitchesOf(s2) = SwitchesOf(s) /\ \A i \in SwitchesOf(s) : s2[i] = s[i]
  <2>1. \A i : i \in 1..Len(s) <=> i \in 1..(Len(s) - 1) \/ (i = Len(s) /\ Len(s) # 0)
    BY <1>1
  <2> QED BY <1>1, <2>1 DEF SwitchesOf
<1>3. LabelsOf(s2, t, d) = LabelsOf(s, t, d)
  BY <1>2 DEF LabelsOf
<1>4. 1..m \subseteq 1..m2
  OBVIOUS
<1>5. SwitchesIn(s2, t, d, a, m2)
  BY <1>2, <1>3, <1>4 DEF SwitchesIn
<1> QED BY <1>2, <1>3, <1>5 DEF s2

\* A switch begins: the default of the outer one is put aside.
LEMMA SwitchBegins ==
    ASSUME NEW s \in Seq(CallRecord), NEW f \in CallRecord, f.call = "switch",
           NEW t \in Seq(Nat), NEW d, NEW a, NEW m \in Nat, NEW m2 \in Nat, m <= m2,
           SwitchesIn(s, t, d, a, m), f.swact = a, f.swdef = d, f.swnex = Len(t)
    PROVE  /\ LabelsOf(Append(s, f), t, 0) = LabelsOf(s, t, d)
           /\ SwitchesIn(Append(s, f), t, 0, TRUE, m2)
<1> DEFINE s2 == Append(s, f)
           n == Len(s) + 1
<1>1. /\ Len(s) \in Nat /\ Len(s2) = n
      /\ \A i \in 1..Len(s) : s2[i] = s[i]
      /\ s2[n] = f
  BY Appended
<1> HIDE DEF s2
<1>2. /\ SwitchesOf(s2) = SwitchesOf(s) \cup {n} /\ \A i \in SwitchesOf(s) : s2[i] = s[i]
      /\ \A i \in SwitchesOf(s) : i < n /\ ~(n < i) /\ i # n
  <2>1. \A i : i \in 1..n <=> i \in 1..Len(s) \/ i = n
    BY <1>1
  <2> QED BY <1>1, <2>1 DEF SwitchesOf
<1>3. LabelsOf(s2, t, 0) = LabelsOf(s, t, d)
  <2>1. {s2[i].swdef : i \in SwitchesOf(s2)} = {s[i].swdef : i \in SwitchesOf(s)} \cup {d}
    <3>1. PICK S, S2 : S = SwitchesOf(s) /\ S2 = SwitchesOf(s2)
      OBVIOUS
    <3>2. S2 = S \cup {n} /\ s2[n].swdef = d /\ \A i \in S : s2[i].swdef = s[i].swdef
      BY <1>1, <1>2, <3>1
    <3>3. {s2[i].swdef : i \in S2} = {s[i].swdef : i \in S} \cup {d}
      BY <3>2
    <3> QED BY <3>1, <3>3
  <2>2. PICK y, y2, c : /\ y = {s[i].swdef : i \in SwitchesOf(s)} /\ y2 = {s2[i].swdef : i \in SwitchesOf(s2)}
                        /\ c = {t[q] : q \in DOMAIN t}
    OBVIOUS
  <2>3. ({0} \cup y2) \ {0} = ({d} \cup y) \ {0}
    BY <2>1, <2>2
  <2>4. LabelsOf(s2, t, 0) = c \cup (({0} \cup y2) \ {0}) /\ LabelsOf(s, t, d) = c \cup (({d} \cup y) \ {0})
    BY <2>2, Zenon DEF LabelsOf
  <2> QED BY <2>3, <2>4
<1>4. 1..m \subseteq 1..m2
  OBVIOUS
<1>5. ~(n < n)
  BY <1>1
<1> HIDE DEF n
<1>6. /\ {j \in SwitchesOf(s2) : j < n} = SwitchesOf(s)
      /\ \A i \in SwitchesOf(s) : {j \in SwitchesOf(s2) : j < i} = {j \in SwitchesOf(s) : j < i}
  BY <1>2, <1>5
<1>7. SwitchesOf(s) = {} => Len(t) = 0
  BY EmptySeq DEF SwitchesIn
<1>8. SwitchesIn(s2, t, 0, TRUE, m2)
  <2>1. /\ s2[n].swact = (SwitchesOf(s) # {})
        /\ SwitchesOf(s) = {} => s2[n].swnex = 0 /\ s2[n].swdef = 0
    BY <1>1, <1>7 DEF SwitchesIn, n
  <2>2. \A i \in SwitchesOf(s) :
          /\ s2[i].swact = ({j \in SwitchesOf(s) : j < i} # {})
          /\ {j \in SwitchesOf(s) : j < i} = {} => s2[i].swnex = 0 /\ s2[i].swdef = 0
    BY <1>2 DEF SwitchesIn
  <2>3. LabelsOf(s2, t, 0) \subseteq 1..m2
    BY <1>3, <1>4 DEF SwitchesIn
  <2> QED BY <1>2, <1>6, <2>1, <2>2, <2>3 DEF SwitchesIn
<1> QED BY <1>3, <1>8 DEF s2

\* It ends: what the outer one had is back.
LEMMA SwitchEnds ==
    ASSUME NEW s \in Seq(CallRecord), s # <<>>, Last(s).call = "switch",
           NEW t \in Seq(Nat), NEW d, NEW a, NEW m \in Nat,
           SwitchesIn(s, t, d, a, m), Last(s).swnex <= Len(t)
    PROVE  /\ LabelsOf(Front(s), SubSeq(t, 1, Last(s).swnex), Last(s).swdef) \subseteq LabelsOf(s, t, d)
           /\ SwitchesIn(Front(s), SubSeq(t, 1, Last(s).swnex), Last(s).swdef, Last(s).swact, m)
<1> DEFINE s2 == Front(s)
           n == Len(s)
           k == Last(s).swnex
           t2 == SubSeq(t, 1, k)
<1>1. /\ n \in Nat \ {0} /\ Len(s2) = n - 1
      /\ \A i \in 1..(n - 1) : s2[i] = s[i]
      /\ Last(s) = s[n] /\ k \in Nat /\ Len(t) \in Nat /\ k \in 0..Len(t)
  <2>1. Last(s) \in CallRecord /\ Len(t) \in Nat
    BY Fronted, LenProperties
  <2>2. k \in Nat /\ k \in 0..Len(t)
    BY <2>1 DEF CallRecord
  <2> QED BY <2>1, <2>2, Fronted
<1> HIDE DEF s2
<1>2. t2 \in Seq(Nat) /\ DOMAIN t2 = 1..k /\ \A i \in 1..k : t2[i] = t[i] /\ i \in DOMAIN t
  <2>1. 1 \in 1..(Len(t) + 1)
    BY <1>1
  <2>2. t2 \in Seq(Nat) /\ Len(t2) = k /\ \A i \in 1..k : t2[i] = t[i]
    BY <1>1, <2>1, SubSeqProperties
  <2> QED BY <1>1, <2>2, LenProperties
<1>3. /\ SwitchesOf(s) = SwitchesOf(s2) \cup {n} /\ n \notin SwitchesOf(s2)
      /\ \A i \in SwitchesOf(s2) : s2[i] = s[i] /\ i < n /\ ~(n < i)
  <2>1. \A i : i \in 1..n <=> i \in 1..(n - 1) \/ i = n
    BY <1>1
  <2>2. \A i \in 1..(n - 1) : i < n /\ ~(n < i) /\ i # n
    BY <1>1
  <2>3. Len(s2) = n - 1 /\ Len(s) = n /\ s[n].call = "switch" /\ \A i \in 1..(n - 1) : s2[i] = s[i]
    BY <1>1
  <2> HIDE DEF n
  <2>4. /\ \A i \in SwitchesOf(s2) : i \in 1..(n - 1)
        /\ SwitchesOf(s) = SwitchesOf(s2) \cup {n}
    BY <2>1, <2>3 DEF SwitchesOf
  <2> QED BY <2>2, <2>3, <2>4
<1>4. ~(n < n) /\ s[n].swdef = Last(s).swdef
  BY <1>1
<1> HIDE DEF n, k, t2
<1>5. LabelsOf(s2, t2, Last(s).swdef) \subseteq LabelsOf(s, t, d)
  <2>1. {t2[q] : q \in DOMAIN t2} \subseteq {t[q] : q \in DOMAIN t}
    BY <1>2
  <2>2. {Last(s).swdef} \cup {s2[i].swdef : i \in SwitchesOf(s2)} \subseteq {s[i].swdef : i \in SwitchesOf(s)}
    BY <1>3, <1>4
  <2> QED BY <2>1, <2>2 DEF LabelsOf
<1>6. /\ {j \in SwitchesOf(s) : j < n} = SwitchesOf(s2)
      /\ \A i \in SwitchesOf(s2) : {j \in SwitchesOf(s) : j < i} = {j \in SwitchesOf(s2) : j < i}
  BY <1>3, <1>4
<1>7. SwitchesIn(s2, t2, Last(s).swdef, Last(s).swact, m)
  <2>1. /\ Last(s).swact = (SwitchesOf(s2) # {})
        /\ SwitchesOf(s2) = {} => k = 0 /\ Last(s).swdef = 0
    BY <1>1, <1>3, <1>6 DEF SwitchesIn, k
  <2>2. k = 0 => t2 = <<>>
    <3>1. k = 0 => Len(t2) = 0
      BY <1>2, LenProperties
    <3> QED BY <1>2, <3>1, EmptySeq
  <2>3. \A i \in SwitchesOf(s2) :
          /\ s2[i].swact = ({j \in SwitchesOf(s2) : j < i} # {})
          /\ {j \in SwitchesOf(s2) : j < i} = {} => s2[i].swnex = 0 /\ s2[i].swdef = 0
    BY <1>3, <1>6 DEF SwitchesIn
  <2>4. LabelsOf(s2, t2, Last(s).swdef) \subseteq 1..m
    BY <1>5 DEF SwitchesIn
  <2> QED BY <2>1, <2>2, <2>3, <2>4 DEF SwitchesIn
<1> QED BY <1>5, <1>7 DEF s2, t2, k

\* A case or the default of the innermost switch.
LEMMA CaseAdded ==
    ASSUME NEW s, NEW s2, Len(s2) = Len(s), \A i \in 1..Len(s) : SameBlock(s2[i], s[i]),
           NEW t \in Seq(Nat), NEW d, NEW m \in Nat, NEW t2 \in Seq(Nat), NEW d2, SwitchesIn(s, t, d, TRUE, m),
           (t2 = Append(t, m + 1) /\ d2 = d) \/ (t2 = t /\ d2 = m + 1)
    PROVE  /\ LabelsOf(s2, t2, d2) \subseteq LabelsOf(s, t, d) \cup {m + 1}
           /\ SwitchesIn(s2, t2, d2, TRUE, m + 1)
<1>1. /\ SwitchesOf(s2) = SwitchesOf(s)
      /\ \A i \in SwitchesOf(s) : s2[i].swact = s[i].swact /\ s2[i].swdef = s[i].swdef /\ s2[i].swnex = s[i].swnex
  BY DEF SwitchesOf, SameBlock
<1>2. {t2[q] : q \in DOMAIN t2} \subseteq {t[q] : q \in DOMAIN t} \cup {m + 1}
  <2>1. CASE t2 = Append(t, m + 1)
    <3>1. /\ Len(t2) = Len(t) + 1 /\ Len(t) \in Nat /\ \A k \in 1..Len(t) : t2[k] = t[k]
          /\ t2[Len(t) + 1] = m + 1
      BY <2>1, Appended
    <3>2. DOMAIN t2 = 1..(Len(t) + 1) /\ DOMAIN t = 1..Len(t)
      BY <3>1, LenProperties
    <3>3. \A q \in 1..(Len(t) + 1) : q \in 1..Len(t) \/ q = Len(t) + 1
      BY <3>1
    <3> QED BY <3>1, <3>2, <3>3
  <2> QED BY <2>1
<1>3. LabelsOf(s2, t2, d2) \subseteq LabelsOf(s, t, d) \cup {m + 1}
  <2>1. {s2[i].swdef : i \in SwitchesOf(s2)} = {s[i].swdef : i \in SwitchesOf(s)}
    BY <1>1
  <2> QED BY <1>2, <2>1 DEF LabelsOf
<1>4. 1..m \subseteq 1..(m + 1) /\ m + 1 \in 1..(m + 1)
  OBVIOUS
<1>5. LabelsOf(s2, t2, d2) \subseteq 1..(m + 1)
  BY <1>3, <1>4 DEF SwitchesIn
<1>6. SwitchesOf(s2) # {}
  BY <1>1 DEF SwitchesIn
<1> QED BY <1>1, <1>3, <1>5, <1>6 DEF SwitchesIn

-----------------------------------------------------------------------------
(* The table that a block leaves: a fold.                                  *)

\* A set of naturals that is not empty has a least element.
LEMMA LeastNat ==
    ASSUME NEW S \in SUBSET Nat, S # {}
    PROVE  \E i \in S : \A j \in S : i <= j
<1>1. IsWellFoundedOn(OpToRel(<, Nat), Nat)
  BY NatLessThanWellFounded
<1>2. \E i \in S : \A j \in S : ~(<<j, i>> \in OpToRel(<, Nat))
  BY <1>1, WFMin
<1>3. \A i, j \in Nat : j < i => <<j, i>> \in OpToRel(<, Nat)
  BY Zenon DEF OpToRel
<1>4. \E i \in S : \A j \in S : ~(j < i)
  BY <1>2, <1>3, Zenon
<1>5. QED
  BY <1>4

\* One entry of a block, as Retained folds it.
Keep(q, e) == IF e.label THEN Append(q, e) ELSE q

\* g is what the fold builds from kept over the sets of the first n entries.
Folds(g, u, n, kept) ==
    g = [s \in SUBSET (1..n) |-> IF s = {} THEN kept ELSE Keep(g[s \ {Max(s)}], u[Max(s)])]

LEMMA Greatest ==
    ASSUME NEW n \in Nat, NEW s \in SUBSET (1..n), s # {}
    PROVE  \E x \in s : \A y \in s : y <= x
<1> DEFINE D == {n - y : y \in s}
<1>1. D \in SUBSET Nat /\ D # {}
  <2>1. \A y \in s : n - y \in Nat
    OBVIOUS
  <2> QED BY <2>1
<1>2. PICK d \in D : \A j \in D : d <= j
  BY <1>1, LeastNat
<1>3. PICK x \in s : d = n - x
  BY <1>2
<1>4. \A y \in s : n - x <= n - y
  BY <1>2, <1>3
<1> QED BY <1>3, <1>4

LEMMA MaxOfSet ==
    ASSUME NEW n \in Nat, NEW s \in SUBSET (1..n), s # {}
    PROVE  Max(s) \in s /\ (n \in s => Max(s) = n) /\ Max(s) \in 1..n
<1>1. \E x \in s : \A y \in s : x >= y
  <2>1. PICK x \in s : \A y \in s : y <= x
    BY Greatest
  <2>2. \A y \in s : x >= y
    BY <2>1
  <2> QED BY <2>2
<1>2. Max(s) \in s /\ \A y \in s : Max(s) >= y
  BY <1>1 DEF Max
<1>3. Max(s) \in 1..n
  BY <1>2
<1>4. n \in s => Max(s) = n
  <2>1. n \in s => Max(s) >= n
    BY <1>2
  <2> QED BY <1>3, <2>1
<1> QED BY <1>2, <1>3, <1>4

LEMMA FoldExists ==
    ASSUME NEW u, NEW n \in Nat, NEW kept
    PROVE  \E g : Folds(g, u, n, kept)
<1> DEFINE Bad == {i \in Nat : ~ \E g : Folds(g, u, i, kept)}
<1>1. SUFFICES ASSUME Bad # {} PROVE FALSE
  OBVIOUS
<1>2. PICK i \in Bad : \A j \in Bad : i <= j
  BY <1>1, LeastNat
<1>3. CASE i = 0
  <2> DEFINE g == [s \in SUBSET (1..0) |-> kept]
  <2>1. Folds(g, u, 0, kept)
    <3>1. \A s \in SUBSET (1..0) : s = {}
      OBVIOUS
    <3>2. QED
      BY <3>1 DEF Folds
  <2>2. QED
    BY <1>2, <1>3, <2>1
<1>4. CASE i # 0
  <2>1. i - 1 \in Nat /\ i - 1 \notin Bad
    BY <1>2, <1>4
  <2>2. PICK h : Folds(h, u, i - 1, kept)
    BY <2>1
  <2> DEFINE g == [s \in SUBSET (1..i) |-> IF i \in s THEN Keep(h[s \ {i}], u[i]) ELSE h[s]]
             G(s) == IF s = {} THEN kept ELSE Keep(g[s \ {Max(s)}], u[Max(s)])
  <2>3. \A s \in SUBSET (1..i) : s \ {i} \in SUBSET (1..i - 1) /\ s \ {i} \in SUBSET (1..i)
    BY <2>1
  <2>4. \A s \in SUBSET (1..i - 1) : s \in SUBSET (1..i) /\ g[s] = h[s]
    BY <2>1
  <2>5. ASSUME NEW s \in SUBSET (1..i) PROVE g[s] = G(s)
    <3>1. CASE i \in s
      <4>1. Max(s) = i
        BY <1>2, <3>1, MaxOfSet
      <4>2. g[s \ {i}] = h[s \ {i}]
        BY <2>3, <2>4
      <4> HIDE DEF g
      <4>3. g[s] = Keep(h[s \ {i}], u[i])
        BY <3>1 DEF g
      <4>4. QED
        BY <3>1, <4>1, <4>2, <4>3
    <3>2. CASE i \notin s
      <4>1. s \in SUBSET (1..i - 1)
        BY <2>3, <3>2
      <4>2. g[s] = h[s]
        BY <2>4, <4>1
      <4>3. h[s] = IF s = {} THEN kept ELSE Keep(h[s \ {Max(s)}], u[Max(s)])
        BY <2>2, <4>1 DEF Folds
      <4>4. s # {} => s \ {Max(s)} \in SUBSET (1..i - 1)
        BY <4>1
      <4>5. s # {} => g[s \ {Max(s)}] = h[s \ {Max(s)}]
        BY <2>4, <4>4
      <4> HIDE DEF g
      <4>6. QED
        BY <4>2, <4>3, <4>5
    <3>3. QED
      BY <3>1, <3>2
  <2>6. g = [s \in SUBSET (1..i) |-> G(s)]
    <3>1. g = [s \in SUBSET (1..i) |-> g[s]]
      OBVIOUS
    <3> HIDE DEF g, G
    <3>2. QED
      BY <2>5, <3>1
  <2>7. Folds(g, u, i, kept)
    BY <2>6 DEF Folds
  <2>8. QED
    BY <1>2, <2>7
<1>5. QED
  BY <1>3, <1>4

\* What the first j entries of u leave behind kept.
Left(q, kept, u, j, S) ==
    /\ q \in Seq(S) /\ Len(q) >= Len(kept) /\ Len(q) <= Len(kept) + j
    /\ \A k \in 1..Len(kept) : q[k] = kept[k]
    /\ \A k \in (Len(kept) + 1)..Len(q) : q[k].label /\ \E i \in 1..j : q[k] = u[i]
    /\ \A i \in 1..j : u[i].label => \E k \in 1..Len(q) : q[k] = u[i]

LEMMA KeepLeft ==
    ASSUME NEW S, NEW kept \in Seq(S), NEW u \in Seq(S), NEW j \in 1..Len(u),
           NEW q, Left(q, kept, u, j - 1, S)
    PROVE  Left(Keep(q, u[j]), kept, u, j, S)
<1>1. /\ Len(kept) \in Nat /\ Len(q) \in Nat /\ q \in Seq(S) /\ u[j] \in S /\ j \in Nat
      /\ Len(u) \in Nat
  BY LenProperties, ElementOfSeq DEF Left
<1>2. \A i \in 1..j : i \in 1..(j - 1) \/ i = j
  BY <1>1
<1>3. \A i \in 1..(j - 1) : i \in 1..j
  BY <1>1
<1>4. CASE u[j].label
  <2> DEFINE r == Append(q, u[j])
  <2>1. /\ r \in Seq(S) /\ Len(r) = Len(q) + 1 /\ \A k \in 1..Len(q) : r[k] = q[k]
        /\ r[Len(q) + 1] = u[j]
    BY <1>1, Appended
  <2>2. Keep(q, u[j]) = r
    BY <1>4 DEF Keep
  <2> HIDE DEF r
  <2>3. \A k \in 1..Len(r) : k \in 1..Len(q) \/ k = Len(q) + 1
    BY <1>1, <2>1
  <2>4. \A k \in 1..Len(q) : k \in 1..Len(r)
    BY <1>1, <2>1
  <2>5. Len(r) >= Len(kept) /\ Len(r) <= Len(kept) + j
    BY <1>1, <2>1 DEF Left
  <2>6. \A k \in 1..Len(kept) : r[k] = kept[k]
    BY <1>1, <2>1 DEF Left
  <2>7. ASSUME NEW k \in (Len(kept) + 1)..Len(r) PROVE r[k].label /\ \E i \in 1..j : r[k] = u[i]
    <3>1. CASE k \in (Len(kept) + 1)..Len(q)
      <4>1. r[k] = q[k]
        BY <1>1, <2>1, <3>1
      <4> QED BY <1>3, <3>1, <4>1 DEF Left
    <3>2. CASE k = Len(q) + 1
      BY <1>1, <1>4, <2>1, <3>2
    <3> QED BY <1>1, <2>1, <3>1, <3>2
  <2>8. ASSUME NEW i \in 1..j, u[i].label PROVE \E k \in 1..Len(r) : r[k] = u[i]
    <3>1. CASE i = j
      <4>1. Len(q) + 1 \in 1..Len(r)
        BY <1>1, <2>1
      <4> QED BY <2>1, <3>1, <4>1
    <3>2. CASE i \in 1..(j - 1)
      <4>1. PICK k \in 1..Len(q) : q[k] = u[i]
        BY <2>8, <3>2 DEF Left
      <4> QED BY <2>1, <2>4, <4>1
    <3> QED BY <1>2, <3>1, <3>2
  <2> QED BY <2>1, <2>2, <2>5, <2>6, <2>7, <2>8 DEF Left
<1>5. CASE ~u[j].label
  <2>1. Keep(q, u[j]) = q
    BY <1>5 DEF Keep
  <2>2. Len(q) <= Len(kept) + j
    BY <1>1 DEF Left
  <2>3. \A k \in (Len(kept) + 1)..Len(q) : q[k].label /\ \E i \in 1..j : q[k] = u[i]
    BY <1>3 DEF Left
  <2>4. \A i \in 1..j : u[i].label => \E k \in 1..Len(q) : q[k] = u[i]
    BY <1>2, <1>5 DEF Left
  <2> QED BY <2>1, <2>2, <2>3, <2>4 DEF Left
<1> QED BY <1>4, <1>5

LEMMA FoldLeaves ==
    ASSUME NEW S, NEW kept \in Seq(S), NEW u \in Seq(S), NEW g, Folds(g, u, Len(u), kept)
    PROVE  Left(g[1..Len(u)], kept, u, Len(u), S)
<1> DEFINE n == Len(u)
           Bad == {j \in 0..n : ~Left(g[1..j], kept, u, j, S)}
<1>1. n \in Nat /\ Len(kept) \in Nat
  BY LenProperties
<1>2. SUFFICES ASSUME Bad # {} PROVE FALSE
  <2>1. n \in 0..n
    BY <1>1
  <2> QED BY <2>1
<1>3. Bad \in SUBSET Nat
  BY <1>1
<1>4. PICK j \in Bad : \A i \in Bad : j <= i
  BY <1>2, <1>3, LeastNat
<1>5. j \in 0..n /\ j \in Nat /\ ~Left(g[1..j], kept, u, j, S)
  BY <1>1, <1>4
<1>6. CASE j = 0
  <2>1. 1..0 = {} /\ 1..0 \in SUBSET (1..n)
    BY <1>1
  <2>2. g[1..0] = kept
    BY <2>1 DEF Folds
  <2>3. \A i \in 1..0 : FALSE
    OBVIOUS
  <2>4. \A k \in (Len(kept) + 1)..Len(kept) : FALSE
    BY <1>1
  <2>5. Left(kept, kept, u, 0, S)
    BY <1>1, <2>3, <2>4 DEF Left
  <2> QED BY <1>5, <1>6, <2>2, <2>5
<1>7. CASE j # 0
  <2>1. j \in 1..n /\ j - 1 \in 0..n /\ ~(j <= j - 1)
    BY <1>1, <1>5, <1>7
  <2>2. Left(g[1..(j - 1)], kept, u, j - 1, S)
    BY <1>4, <2>1
  <2>3. 1..j \in SUBSET (1..n) /\ 1..j # {} /\ j \in 1..j /\ (1..j) \ {j} = 1..(j - 1)
    <3>1. \A i : i \in 1..(j - 1) <=> i \in 1..j /\ i # j
      BY <1>5, <2>1
    <3>2. j \in 1..j /\ \A i \in 1..j : i \in 1..n
      BY <1>1, <1>5, <2>1
    <3> QED BY <3>1, <3>2
  <2>4. Max(1..j) = j
    BY <1>5, <2>3, MaxOfSet
  <2>5. g[1..j] = Keep(g[1..(j - 1)], u[j])
    <3>1. g[1..j] = Keep(g[(1..j) \ {Max(1..j)}], u[Max(1..j)])
      BY <2>3 DEF Folds
    <3> QED BY <2>3, <2>4, <3>1
  <2>6. Left(Keep(g[1..(j - 1)], u[j]), kept, u, j, S)
    BY <2>1, <2>2, KeepLeft
  <2> QED BY <1>5, <2>5, <2>6
<1> QED BY <1>6, <1>7

\* The table up to n stays, with every label behind, and nothing else.
LEMMA RetainedLeft ==
    ASSUME NEW S, NEW t \in Seq(S), NEW n \in 0..Len(t)
    PROVE  /\ Retained(t, n) \in Seq(S) /\ Len(Retained(t, n)) >= n /\ Len(Retained(t, n)) <= Len(t)
           /\ \A k \in 1..n : Retained(t, n)[k] = t[k]
           /\ \A k \in (n + 1)..Len(Retained(t, n)) :
                 Retained(t, n)[k].label /\ \E i \in 1..Len(t) : Retained(t, n)[k] = t[i]
           /\ \A i \in 1..Len(t) : t[i].label => \E k \in 1..Len(Retained(t, n)) : Retained(t, n)[k] = t[i]
<1> DEFINE kept == SubSeq(t, 1, n)
           u == SubSeq(t, n + 1, Len(t))
           f == CHOOSE g : g = [s \in SUBSET (DOMAIN u) |->
                   IF s = {} THEN kept ELSE Keep(g[s \ {Max(s)}], u[Max(s)])]
<1>1. Len(t) \in Nat /\ n \in Nat
  BY LenProperties
<1>2. kept \in Seq(S) /\ Len(kept) = n /\ \A k \in 1..n : kept[k] = t[k]
  <2>1. 1 \in 1..(Len(t) + 1)
    BY <1>1
  <2> QED BY <1>1, <2>1, SubSeqProperties
<1>3. u \in Seq(S) /\ Len(u) = Len(t) - n /\ DOMAIN u = 1..Len(u) /\ \A k \in 1..Len(u) : u[k] = t[n + k]
  <2>1. n + 1 \in 1..(Len(t) + 1) /\ Len(t) \in n..Len(t)
    BY <1>1
  <2>2. /\ SubSeq(t, n + 1, Len(t)) \in Seq(S)
        /\ Len(SubSeq(t, n + 1, Len(t))) = IF n + 1 <= Len(t) THEN Len(t) - (n + 1) + 1 ELSE 0
        /\ \A k \in 1..(Len(t) - (n + 1) + 1) : SubSeq(t, n + 1, Len(t))[k] = t[(n + 1) + k - 1]
    BY <1>1, <2>1, SubSeqProperties
  <2> QED BY <1>1, <2>2, LenProperties
<1>4. Retained(t, n) = f[DOMAIN u]
  BY DEF Retained, Keep, FoldLeft, MapThenFoldSet
<1>5. f = [s \in SUBSET (DOMAIN u) |-> IF s = {} THEN kept ELSE Keep(f[s \ {Max(s)}], u[Max(s)])]
  <2>1. Len(u) \in Nat
    BY <1>1, <1>3
  <2> HIDE DEF kept, u
  <2>2. \E g : Folds(g, u, Len(u), kept)
    BY <2>1, FoldExists
  <2> QED BY <1>3, <2>2 DEF Folds
<1> HIDE DEF f, kept, u
<1>6. Folds(f, u, Len(u), kept)
  BY <1>3, <1>5 DEF Folds
<1>7. Left(Retained(t, n), kept, u, Len(u), S)
  BY <1>2, <1>3, <1>4, <1>6, FoldLeaves
<1> HIDE DEF Retained
<1>8. \A i \in 1..Len(u) : u[i] = t[n + i] /\ n + i \in 1..Len(t)
  BY <1>1, <1>3
<1>9. \A i \in 1..Len(t) : i \in 1..n \/ (i - n \in 1..Len(u) /\ u[i - n] = t[i])
  BY <1>1, <1>3
<1>10. Len(Retained(t, n)) \in Nat
  BY <1>7, LenProperties DEF Left
<1>11. ASSUME NEW i \in 1..Len(t), t[i].label PROVE \E k \in 1..Len(Retained(t, n)) : Retained(t, n)[k] = t[i]
  <2>1. CASE i \in 1..n
    <3>1. i \in 1..Len(Retained(t, n)) /\ Retained(t, n)[i] = t[i]
      BY <1>1, <1>2, <1>7, <1>10, <2>1 DEF Left
    <3> QED BY <3>1
  <2>2. CASE i - n \in 1..Len(u) /\ u[i - n] = t[i]
    BY <1>7, <1>11, <2>2 DEF Left
  <2> QED BY <1>9, <2>1, <2>2
<1>12. ASSUME NEW k \in (n + 1)..Len(Retained(t, n))
       PROVE  Retained(t, n)[k].label /\ \E i \in 1..Len(t) : Retained(t, n)[k] = t[i]
  <2>1. Retained(t, n)[k].label /\ \E i \in 1..Len(u) : Retained(t, n)[k] = u[i]
    BY <1>2, <1>7 DEF Left
  <2> QED BY <1>8, <2>1
<1>13. Len(Retained(t, n)) <= Len(t)
  BY <1>1, <1>2, <1>3, <1>7, <1>10 DEF Left
<1> QED BY <1>2, <1>7, <1>11, <1>12, <1>13 DEF Left

-----------------------------------------------------------------------------
(* Names.                                                                  *)

\* The same entries of labels, in another order or with other variables.
SameLabels(t2, t) ==
    /\ \A k \in DOMAIN t2 : t2[k].label =>
          \E i \in DOMAIN t : t[i].label /\ t2[k].name = t[i].name /\ t2[k].offset = t[i].offset
    /\ \A i \in DOMAIN t : t[i].label =>
          \E k \in DOMAIN t2 : t2[k].label /\ t2[k].name = t[i].name

LEMMA NamesStay ==
    ASSUME NEW t, NEW t2, NEW g, NEW m \in Nat, NEW m2 \in Nat, m <= m2, NamesIn(t, g, m), SameLabels(t2, t)
    PROVE  NamesIn(t2, g, m2)
<1>1. 1..m \subseteq 1..m2
  OBVIOUS
<1>2. ASSUME NEW k \in DOMAIN t2, t2[k].label
      PROVE  t2[k].offset = g[t2[k].name] /\ t2[k].offset \in 1..m2
  <2>1. PICK i \in DOMAIN t : t[i].label /\ t2[k].name = t[i].name /\ t2[k].offset = t[i].offset
    BY <1>2 DEF SameLabels
  <2> QED BY <1>1, <2>1 DEF NamesIn
<1>3. ASSUME NEW n \in Names, g[n] # 0 PROVE \E k \in DOMAIN t2 : t2[k].label /\ t2[k].name = n
  <2>1. PICK i \in DOMAIN t : t[i].label /\ t[i].name = n
    BY <1>3 DEF NamesIn
  <2> QED BY <2>1 DEF SameLabels
<1> QED BY <1>2, <1>3 DEF NamesIn

LEMMA NameAdded ==
    ASSUME NEW S, NEW t \in Seq(S), NEW g \in [Names -> Nat], NEW m \in Nat, NamesIn(t, g, m),
           NEW e \in S, NEW n \in Names, e.label, e.name = n, e.offset = m + 1,
           \A i \in DOMAIN t : t[i].name # n /\ t[i].name \in Names
    PROVE  NamesIn(Append(t, e), [g EXCEPT ![n] = m + 1], m + 1)
<1> DEFINE t2 == Append(t, e)
           g2 == [g EXCEPT ![n] = m + 1]
<1>1. /\ t2 \in Seq(S) /\ Len(t2) = Len(t) + 1 /\ Len(t) \in Nat
      /\ \A k \in 1..Len(t) : t2[k] = t[k]
      /\ t2[Len(t) + 1] = e
  BY Appended
<1>2. DOMAIN t = 1..Len(t) /\ DOMAIN t2 = 1..(Len(t) + 1)
  BY <1>1, LenProperties
<1> HIDE DEF t2
<1>3. g2[n] = m + 1 /\ \A x \in Names : x # n => g2[x] = g[x]
  OBVIOUS
<1>4. 1..m \subseteq 1..(m + 1) /\ m + 1 \in 1..(m + 1)
  OBVIOUS
<1> HIDE DEF g2
<1>5. ASSUME NEW k \in DOMAIN t2, t2[k].label
      PROVE  t2[k].offset = g2[t2[k].name] /\ t2[k].offset \in 1..(m + 1)
  <2>1. CASE k = Len(t) + 1
    BY <1>1, <1>3, <1>4, <2>1
  <2>2. CASE k \in DOMAIN t
    <3>1. t2[k] = t[k] /\ t[k].name \in Names /\ t[k].name # n
      BY <1>1, <1>2, <2>2
    <3>2. t[k].offset = g[t[k].name] /\ t[k].offset \in 1..m
      BY <1>5, <2>2, <3>1 DEF NamesIn
    <3> QED BY <1>3, <1>4, <3>1, <3>2
  <2> QED BY <1>1, <1>2, <2>1, <2>2
<1>6. ASSUME NEW x \in Names, g2[x] # 0 PROVE \E k \in DOMAIN t2 : t2[k].label /\ t2[k].name = x
  <2>1. CASE x = n
    <3>1. Len(t) + 1 \in DOMAIN t2
      BY <1>1, <1>2
    <3> QED BY <1>1, <2>1, <3>1
  <2>2. CASE x # n
    <3>1. PICK i \in DOMAIN t : t[i].label /\ t[i].name = x
      BY <1>3, <1>6, <2>2 DEF NamesIn
    <3>2. i \in DOMAIN t2 /\ t2[i] = t[i]
      BY <1>1, <1>2, <3>1
    <3> QED BY <3>1, <3>2
  <2> QED BY <2>1, <2>2
<1>7. NamesIn(t2, g2, m + 1)
  BY <1>5, <1>6 DEF NamesIn
<1> QED BY <1>7 DEF t2, g2

LEMMA NamesRetained ==
    ASSUME NEW S, NEW t \in Seq(S), NEW n \in 0..Len(t)
    PROVE  SameLabels(Retained(t, n), t)
<1> DEFINE r == Retained(t, n)
<1>1. /\ r \in Seq(S) /\ Len(r) >= n /\ Len(t) \in Nat /\ n \in Nat /\ Len(r) \in Nat
      /\ Len(r) <= Len(t)
      /\ \A k \in 1..n : r[k] = t[k]
      /\ \A k \in (n + 1)..Len(r) : r[k].label /\ \E i \in 1..Len(t) : r[k] = t[i]
      /\ \A i \in 1..Len(t) : t[i].label => \E k \in 1..Len(r) : r[k] = t[i]
  <2>1. r \in Seq(S) /\ Len(t) \in Nat
    BY RetainedLeft, LenProperties
  <2> QED BY <2>1, RetainedLeft, LenProperties
<1> HIDE DEF r
<1>2. DOMAIN t = 1..Len(t) /\ DOMAIN r = 1..Len(r)
  BY <1>1, LenProperties
<1>3. ASSUME NEW k \in DOMAIN r PROVE \E i \in DOMAIN t : r[k] = t[i]
  <2>1. CASE k \in 1..n
    BY <1>1, <1>2, <2>1
  <2>2. CASE k \in (n + 1)..Len(r)
    BY <1>1, <1>2, <2>2
  <2> QED BY <1>1, <1>2, <2>1, <2>2
<1>4. SameLabels(r, t)
  <2>1. \A i \in DOMAIN t : t[i].label => \E k \in DOMAIN r : r[k] = t[i]
    BY <1>1, <1>2
  <2> QED BY <1>3, <2>1 DEF SameLabels
<1> QED BY <1>4 DEF r

LEMMA NamesVariable ==
    ASSUME NEW S, NEW t \in Seq(S), NEW e \in S, e.label = FALSE
    PROVE  SameLabels(Append(t, e), t)
<1> DEFINE t2 == Append(t, e)
<1>1. /\ Len(t2) = Len(t) + 1 /\ Len(t) \in Nat /\ t2 \in Seq(S)
      /\ \A k \in 1..Len(t) : t2[k] = t[k]
      /\ t2[Len(t) + 1] = e
  BY Appended
<1>2. DOMAIN t = 1..Len(t) /\ DOMAIN t2 = 1..(Len(t) + 1)
  BY <1>1, LenProperties
<1> HIDE DEF t2
<1>3. \A k \in 1..(Len(t) + 1) : k \in 1..Len(t) \/ k = Len(t) + 1
  BY <1>1
<1>4. \A k \in 1..Len(t) : k \in 1..(Len(t) + 1)
  BY <1>1
<1>5. SameLabels(t2, t)
  BY <1>1, <1>2, <1>3, <1>4 DEF SameLabels
<1> QED BY <1>5 DEF t2

NamesOf(g) == {g[n] : n \in Names} \ {0}

LEMMA NamesBelow ==
    ASSUME NEW t, NEW g, NEW m, NamesIn(t, g, m)
    PROVE  NamesOf(g) \subseteq 1..m
<1>1. ASSUME NEW n \in Names, g[n] # 0 PROVE g[n] \in 1..m
  <2>1. PICK i \in DOMAIN t : t[i].label /\ t[i].name = n
    BY <1>1 DEF NamesIn
  <2> QED BY <2>1 DEF NamesIn
<1> QED BY <1>1 DEF NamesOf

-----------------------------------------------------------------------------
(* The depths at the labels.                                               *)

CodeType == [sp : Int \cup {None}, flow : SUBSET (Int \X Int)]

\* At depth c, if control gets here; of the labels, those of l are reached beside f.
On(k, c, f, l) == k \in CodeType /\ k.sp \in {None, c} /\ k.flow \subseteq f \cup (l \X {c})

LEMMA PairOf ==
    ASSUME NEW l, NEW c, NEW e \in l \X {c}
    PROVE  e[1] \in l /\ e[2] = c
OBVIOUS

LEMMA AddSpOn ==
    ASSUME NEW k, NEW c \in Int, NEW n \in Int, NEW f, NEW l, k \in CodeType, k.sp \in {None, c},
           k.flow \subseteq f
    PROVE  On(AddSp(k, c, n), n, f, {}) /\ AddSp(k, c, n).flow = k.flow
<1>1. c # None /\ n # None
  BY StmtAssumption
<1>2. AddSp(k, c, n) = [sp |-> IF k.sp = None THEN None ELSE k.sp + (n - c), flow |-> k.flow]
  BY DEF AddSp, CodeType
<1>3. k.sp # None => k.sp + (n - c) = n
  OBVIOUS
<1> QED BY <1>2, <1>3 DEF On, CodeType

LEMMA BranchesOn ==
    ASSUME NEW k, NEW c \in Int, NEW f, NEW l, On(k, c, f, l), NEW labels \in SUBSET Int
    PROVE  On(Branches(k, labels), c, f, l \cup labels)
<1>1. c # None
  BY StmtAssumption
<1>2. Branches(k, labels) = [sp |-> k.sp, flow |-> k.flow \cup (IF k.sp = None THEN {} ELSE labels \X {k.sp})]
  BY DEF Branches, On, CodeType
<1>3. k.sp # None => labels \X {k.sp} \subseteq (l \cup labels) \X {c} /\ labels \X {k.sp} \subseteq Int \X Int
  BY DEF On
<1>4. l \X {c} \subseteq (l \cup labels) \X {c}
  OBVIOUS
<1>5. k.flow \subseteq f \cup ((l \cup labels) \X {c}) /\ k.flow \subseteq Int \X Int
  BY <1>4 DEF On, CodeType
<1> QED BY <1>2, <1>3, <1>5 DEF On, CodeType

LEMMA BranchOn ==
    ASSUME NEW k, NEW c \in Int, NEW f, NEW l, On(k, c, f, l), NEW x \in Int
    PROVE  On(Branch(k, x), c, f, l \cup {x})
<1>1. {x} \in SUBSET Int
  OBVIOUS
<1> QED BY <1>1, BranchesOn DEF Branch

LEMMA JumpOn ==
    ASSUME NEW k, NEW c \in Int, NEW f, NEW l, On(k, c, f, l), NEW x \in Int
    PROVE  On(Jump(k, x), c, f, l \cup {x})
<1>1. On(Branch(k, x), c, f, l \cup {x})
  BY BranchOn
<1>2. Jump(k, x) = [sp |-> None, flow |-> Branch(k, x).flow]
  BY <1>1 DEF Jump, On, CodeType
<1> QED BY <1>1, <1>2 DEF On, CodeType

\* Label m is reached at depth c only, as far as f says.
Only(f, m, c) == \A e \in f : e[1] = m => e[2] = c

LEMMA PlaceOn ==
    ASSUME NEW k, NEW c \in Int, NEW f, NEW l, On(k, c, f, l), NEW x \in Int, NEW m, Only(f, m, c)
    PROVE  On(Place(k, x, m), c, f, l \cup {x})
<1> DEFINE s == IF k.sp # None THEN k.sp
                ELSE IF Depths(k, m) # {} THEN CHOOSE d \in Depths(k, m) : TRUE ELSE None
<1>1. c # None
  BY StmtAssumption
<1>2. Depths(k, m) \subseteq {c}
  <2>1. ASSUME NEW e \in k.flow, e[1] = m PROVE e[2] = c
    <3>1. e \in f \/ e \in l \X {c}
      BY DEF On
    <3> QED BY <2>1, <3>1, PairOf DEF Only
  <2> QED BY <2>1 DEF Depths
<1>3. s \in {None, c}
  BY <1>2 DEF On
<1>4. Place(k, x, m) = [k EXCEPT !.sp = s, !.flow = @ \cup (IF s = None THEN {} ELSE {<<x, s>>})]
  BY DEF Place
<1> HIDE DEF s
<1>5. Place(k, x, m) = [sp |-> s, flow |-> k.flow \cup (IF s = None THEN {} ELSE {<<x, s>>})]
  BY <1>4 DEF On, CodeType
<1>6. s # None => {<<x, s>>} \subseteq (l \cup {x}) \X {c} /\ {<<x, s>>} \subseteq Int \X Int
  BY <1>3
<1>7. l \X {c} \subseteq (l \cup {x}) \X {c}
  OBVIOUS
<1>8. k.flow \subseteq f \cup ((l \cup {x}) \X {c}) /\ k.flow \subseteq Int \X Int
  BY <1>7 DEF On, CodeType
<1> QED BY <1>3, <1>5, <1>6, <1>8 DEF On, CodeType

LEMMA TestedOn ==
    ASSUME NEW k, NEW c \in Int, NEW f, NEW l, On(k, c, f, l), NEW x \in Int, NEW q \in Tested(k, x)
    PROVE  On(q, c, f, l \cup {x})
<1>1. On(k, c, f, l \cup {x})
  <2>1. l \X {c} \subseteq (l \cup {x}) \X {c}
    OBVIOUS
  <2> QED BY <2>1 DEF On
<1>2. On(Branch(k, x), c, f, l \cup {x}) /\ On(Jump(k, x), c, f, l \cup {x})
  BY BranchOn, JumpOn
<1> QED BY <1>1, <1>2 DEF Tested

\* A step reaches labels l at depth c, and awaits new ones there.
Reaches(flow2, flow, due, named2, l, c, m, m2) ==
    /\ flow2 \subseteq flow \cup (l \X {c})
    /\ \A x \in l : x \in 1..m2 /\ (x > m \/ <<x, c>> \in due \/ x \in named2)

Awaits(due2, due, named2, new, c, m, m2) ==
    /\ due2 \subseteq due \cup (new \X {c})
    /\ \A x \in new : x \in 1..m2 /\ x > m /\ x \notin named2

LEMMA LabelsStep ==
    ASSUME NEW flow, NEW flow2, NEW due, NEW due2, NEW named, NEW named2,
           NEW m \in Nat, NEW m2 \in Nat, m <= m2, NEW c, NEW l, NEW new,
           LabelsRight(flow, due, named, m),
           Reaches(flow2, flow, due, named2, l, c, m, m2), Awaits(due2, due, named2, new, c, m, m2),
           \A x \in named2 : x \in named \/ x > m,
           \A e, f \in flow2 : e[1] \in named2 /\ e[1] = f[1] => e[2] = f[2]
    PROVE  LabelsRight(flow2, due2, named2, m2)
<1> USE DEF Reaches, Awaits
<1>1. \A e \in flow2 : e \in flow \/ (e[1] \in l /\ e[2] = c)
  BY PairOf
<1>2. \A p \in due2 : p \in due \/ (p[1] \in new /\ p[2] = c)
  BY PairOf
<1>3. /\ \A e \in flow : e[1] \in 1..m
      /\ \A e, f \in flow : e[1] = f[1] => e[2] = f[2]
      /\ \A e \in flow, p \in due : e[1] = p[1] => e[2] = p[2]
      /\ \A e, p \in due : e[1] = p[1] => e[2] = p[2]
      /\ \A p \in due : p[1] \in 1..m /\ p[1] \notin named
  BY DEF LabelsRight
<1>4. 1..m \subseteq 1..m2 /\ \A x \in 1..m : ~(x > m)
  OBVIOUS
<1>5. \A p \in due : p[1] \notin named2
  BY <1>3, <1>4
\* The depth at a label that is awaited.
<1>6. ASSUME NEW e, NEW p \in due, e[1] = p[1], e[1] \in l, e[2] = c PROVE e[2] = p[2]
  <2>1. e[1] \in 1..m /\ e[1] \notin named2
    BY <1>3, <1>5, <1>6
  <2>2. PICK q \in due : q = <<e[1], c>>
    BY <1>4, <1>6, <2>1
  <2>3. q[1] = p[1] /\ q[2] = c
    BY <1>6, <2>2
  <2> QED BY <1>3, <1>6, <2>3
<1>7. ASSUME NEW e \in flow \cap flow2, NEW f \in flow2, e[1] = f[1], f[1] \in l, f[2] = c PROVE e[2] = f[2]
  <2>1. f[1] \in 1..m /\ ~(f[1] > m)
    BY <1>3, <1>4, <1>7
  <2>2. CASE f[1] \in named2
    BY <1>7, <2>2
  <2>3. CASE <<f[1], c>> \in due
    <3>1. PICK q \in due : q = <<f[1], c>>
      BY <2>3
    <3>2. q[1] = e[1] /\ q[2] = c
      BY <1>7, <3>1
    <3> QED BY <1>3, <1>7, <3>2
  <2> QED BY <1>7, <2>1, <2>2, <2>3
<1>8. ASSUME NEW e \in flow2, NEW f \in flow2, e[1] = f[1] PROVE e[2] = f[2]
  BY <1>1, <1>3, <1>7, <1>8
<1>9. ASSUME NEW e \in flow2 \cup due2, NEW p \in due2, e[1] = p[1] PROVE e[2] = p[2]
  <2>1. CASE p \in due
    <3>1. e \in flow => e[2] = p[2]
      BY <1>3, <1>9, <2>1
    <3>2. e \in due => e[2] = p[2]
      BY <1>3, <1>9, <2>1
    <3>3. e[1] \in new => FALSE
      BY <1>3, <1>4, <1>9, <2>1
    <3>4. e[1] \in l /\ e[2] = c => e[2] = p[2]
      BY <1>6, <1>9, <2>1
    <3> QED BY <1>1, <1>2, <3>1, <3>2, <3>3, <3>4
  <2>2. CASE p[1] \in new /\ p[2] = c
    <3>1. e[1] \notin 1..m
      BY <1>4, <1>9, <2>2
    <3>2. e \notin flow /\ e \notin due
      BY <1>3, <3>1
    <3> QED BY <1>1, <1>2, <2>2, <3>2
  <2> QED BY <1>2, <2>1, <2>2
<1>10. \A e \in flow2 : e[1] \in 1..m2
  BY <1>1, <1>3, <1>4
<1>11. \A p \in due2 : p[1] \in 1..m2 /\ p[1] \notin named2
  BY <1>2, <1>3, <1>4, <1>5
<1> QED BY <1>8, <1>9, <1>10, <1>11 DEF LabelsRight

-----------------------------------------------------------------------------
(* The labels that the calls await.                                        *)

LEMMA AwaitedOf ==
    ASSUME NEW s \in Seq(CallRecord), NEW i \in 2..Len(s), NEW k \in 1..Len(s[i].labels)
    PROVE  <<s[i].labels[k], s[i].savcsp>> \in AwaitedBy(s)
<1>1. i \in 1..Len(s)
  BY LenProperties
<1>2. s[i].labels \in Seq(Nat)
  BY <1>1, CallTypes
<1>3. k \in DOMAIN s[i].labels
  BY <1>2, LenProperties
<1> QED BY <1>3 DEF AwaitedBy, Range

LEMMA AwaitedStay ==
    ASSUME NEW s, NEW s2, Len(s) \in Nat, Len(s2) = Len(s), \A i \in 1..Len(s) : SameCall(s2[i], s[i])
    PROVE  AwaitedBy(s2) = AwaitedBy(s)
<1>1. \A i \in 2..Len(s) : s2[i].labels = s[i].labels /\ s2[i].savcsp = s[i].savcsp
  BY DEF SameCall
<1> QED BY <1>1 DEF AwaitedBy

LEMMA AwaitedPush ==
    ASSUME NEW s \in Seq(CallRecord), NEW f \in CallRecord
    PROVE  AwaitedBy(Append(s, f)) \subseteq AwaitedBy(s) \cup (Range(f.labels) \X {f.savcsp})
<1> DEFINE s2 == Append(s, f)
<1>1. /\ Len(s) \in Nat /\ Len(s2) = Len(s) + 1
      /\ \A i \in 1..Len(s) : s2[i] = s[i]
      /\ s2[Len(s) + 1] = f
  BY Appended
<1> HIDE DEF s2
<1>2. \A i \in 2..Len(s2) : (i \in 2..Len(s) /\ s2[i] = s[i]) \/ s2[i] = f
  BY <1>1
<1>3. AwaitedBy(s2) \subseteq AwaitedBy(s) \cup (Range(f.labels) \X {f.savcsp})
  BY <1>2 DEF AwaitedBy
<1> QED BY <1>3 DEF s2

LEMMA AwaitedPop ==
    ASSUME NEW s \in Seq(CallRecord), s # <<>>
    PROVE  AwaitedBy(Front(s)) \subseteq AwaitedBy(s)
<1> DEFINE s2 == Front(s)
<1>1. /\ Len(s) \in Nat /\ Len(s2) = Len(s) - 1
      /\ \A i \in 1..(Len(s) - 1) : s2[i] = s[i]
  BY Fronted
<1> HIDE DEF s2
<1>2. \A i \in 2..Len(s2) : i \in 2..Len(s) /\ s2[i] = s[i]
  BY <1>1
<1>3. AwaitedBy(s2) \subseteq AwaitedBy(s)
  BY <1>2 DEF AwaitedBy
<1> QED BY <1>3 DEF s2

-----------------------------------------------------------------------------
(* What the emitted code did stays done.                                   *)

Grown(k, f) == k \in CodeType /\ f \subseteq k.flow

LEMMA AddSpGrows ==
    ASSUME NEW k, NEW f, Grown(k, f), NEW c \in Int, NEW n \in Int
    PROVE  Grown(AddSp(k, c, n), f)
<1>1. AddSp(k, c, n) = [sp |-> IF k.sp = None THEN None ELSE k.sp + (n - c), flow |-> k.flow]
  BY DEF AddSp, Grown, CodeType
<1>2. k.sp # None => k.sp + (n - c) \in Int
  BY DEF Grown, CodeType
<1> QED BY <1>1, <1>2 DEF Grown, CodeType

LEMMA BranchesGrow ==
    ASSUME NEW k, NEW f, Grown(k, f), NEW labels \in SUBSET Int
    PROVE  Grown(Branches(k, labels), f)
<1>1. Branches(k, labels) = [sp |-> k.sp, flow |-> k.flow \cup (IF k.sp = None THEN {} ELSE labels \X {k.sp})]
  BY DEF Branches, Grown, CodeType
<1>2. k.sp # None => labels \X {k.sp} \subseteq Int \X Int
  BY DEF Grown, CodeType
<1> QED BY <1>1, <1>2 DEF Grown, CodeType

LEMMA BranchGrows ==
    ASSUME NEW k, NEW f, Grown(k, f), NEW x \in Int
    PROVE  Grown(Branch(k, x), f)
<1>1. {x} \in SUBSET Int
  OBVIOUS
<1> QED BY <1>1, BranchesGrow DEF Branch

LEMMA JumpGrows ==
    ASSUME NEW k, NEW f, Grown(k, f), NEW x \in Int
    PROVE  Grown(Jump(k, x), f)
<1>1. Grown(Branch(k, x), f)
  BY BranchGrows
<1>2. Jump(k, x) = [sp |-> None, flow |-> Branch(k, x).flow]
  BY <1>1 DEF Jump, Grown, CodeType
<1> QED BY <1>1, <1>2 DEF Grown, CodeType

LEMMA PlaceGrows ==
    ASSUME NEW k, NEW f, Grown(k, f), NEW x \in Int, NEW m
    PROVE  Grown(Place(k, x, m), f)
<1> DEFINE s == IF k.sp # None THEN k.sp
                ELSE IF Depths(k, m) # {} THEN CHOOSE d \in Depths(k, m) : TRUE ELSE None
<1>1. Depths(k, m) \subseteq Int
  BY DEF Depths, Grown, CodeType
<1>2. s \in Int \cup {None}
  BY <1>1 DEF Grown, CodeType
<1>3. Place(k, x, m) = [k EXCEPT !.sp = s, !.flow = @ \cup (IF s = None THEN {} ELSE {<<x, s>>})]
  BY DEF Place
<1> HIDE DEF s
<1>4. Place(k, x, m) = [sp |-> s, flow |-> k.flow \cup (IF s = None THEN {} ELSE {<<x, s>>})]
  BY <1>3 DEF Grown, CodeType
<1>5. s # None => <<x, s>> \in Int \X Int
  BY <1>2
<1> QED BY <1>2, <1>4, <1>5 DEF Grown, CodeType

LEMMA TestedGrows ==
    ASSUME NEW k, NEW f, Grown(k, f), NEW x \in Int, NEW q \in Tested(k, x)
    PROVE  Grown(q, f)
BY BranchGrows, JumpGrows DEF Tested

LEMMA NamedGrows ==
    ASSUME NEW k, NEW f, Grown(k, f), NEW x \in Int, Opened \in Int
    PROVE  Grown(Named(k, x), f)
<1> DEFINE m == Place(k, x, x)
<1>1. Grown(m, f)
  BY PlaceGrows
<1> HIDE DEF m
<1>2. Named(k, x) = [m EXCEPT !.sp = IF @ = None THEN Opened ELSE @, !.flow = @ \cup {<<x, Opened>>}]
  BY DEF Named, m
<1>3. Named(k, x) = [sp |-> IF m.sp = None THEN Opened ELSE m.sp, flow |-> m.flow \cup {<<x, Opened>>}]
  BY <1>1, <1>2 DEF Grown, CodeType
<1> QED BY <1>1, <1>3 DEF Grown, CodeType

LEMMA DispatchGrows ==
    ASSUME NEW k, NEW f, Grown(k, f), Top.labels[1] \in Int, Top.labels[2] \in Int,
           {swtab[i] : i \in (Top.swnex + 1)..Len(swtab)} \subseteq Int, swdefault \in Int
    PROVE  Grown(Dispatch(k), f)
<1> DEFINE j == Jump(k, Top.labels[1])
           m == Place(j, Top.labels[2], Top.labels[2])
           t == Branches(m, {swtab[i] : i \in (Top.swnex + 1)..Len(swtab)})
<1>1. Grown(j, f)
  BY JumpGrows
<1> HIDE DEF j
<1>2. Grown(m, f)
  BY <1>1, PlaceGrows
<1> HIDE DEF m
<1>3. Grown(t, f)
  BY <1>2, BranchesGrow
<1>4. Grown(Jump(t, swdefault), f)
  BY <1>3, JumpGrows
<1>5. Dispatch(k) = IF swdefault # 0 THEN Jump(t, swdefault) ELSE t
  BY DEF Dispatch, t, m, j
<1> QED BY <1>3, <1>4, <1>5

-----------------------------------------------------------------------------
(* The innermost of the loops and switches.                                *)

LEMMA Innermost ==
    ASSUME StmtTypeOK, Nested, NEW p, Queued(p), wq # <<>>
    PROVE  \E i \in Leavable : /\ i \in 2..Len(calls) /\ Last(wq) = EntryOf(calls[i])
                               /\ \A j \in Leavable : j <= i
<1>1. wq \in Seq(WqEntry) /\ Len(wq) \in Nat \ {0} /\ Last(wq) = wq[Len(wq)]
  BY TypedQueue, Fronted
<1>2. p \in Seq(Nat) /\ Len(p) = Len(wq)
  BY DEF Queued
<1> DEFINE n == Len(p)
<1>3. n \in 1..n /\ n \in Nat
  BY <1>1, <1>2
<1>4. p[n] \in Leavable /\ wq[n] = EntryOf(calls[p[n]])
  BY <1>3 DEF Queued
<1>5. ASSUME NEW j \in Leavable PROVE j <= p[n]
  <2>1. PICK q \in 1..n : p[q] = j
    BY DEF Queued
  <2>2. q < n => p[q] < p[n]
    BY <1>3 DEF Queued
  <2>3. p[q] \in Nat /\ p[n] \in Nat
    BY <1>2, <1>3, ElementOfSeq
  <2> QED BY <1>3, <2>1, <2>2, <2>3
<1>6. p[n] \in 2..Len(calls)
  <2>1. DOMAIN calls = 1..Len(calls) /\ Len(calls) \in Nat
    BY Typed1, LenProperties
  <2>2. p[n] \in 1..Len(calls) /\ calls[p[n]].call # "function"
    BY <1>4, <2>1 DEF Leavable
  <2>3. calls # <<>>
    BY <2>1, <2>2, EmptySeq
  <2> QED BY <2>1, <2>2, <2>3 DEF Nested
<1> QED BY <1>1, <1>2, <1>4, <1>5, <1>6

LEMMA InnermostLoop ==
    ASSUME StmtTypeOK, Nested, NEW p, Queued(p), Loops # {},
           NEW q, q = CHOOSE j \in Loops : \A m \in Loops : m <= j
    PROVE  \E i \in 2..Len(calls) :
              /\ calls[i].call \in {"while", "do", "for"} /\ wq[q] = EntryOf(calls[i])
              /\ \A j \in DOMAIN calls : calls[j].call \in {"while", "do", "for"} => j <= i
<1>1. wq \in Seq(WqEntry) /\ Len(wq) \in Nat /\ DOMAIN wq = 1..Len(wq)
  BY TypedQueue, LenProperties
<1>2. p \in Seq(Nat) /\ Len(p) = Len(wq)
  BY DEF Queued
<1>3. DOMAIN calls = 1..Len(calls) /\ Len(calls) \in Nat
  BY Typed1, LenProperties
<1>4. ASSUME NEW k \in 1..Len(wq)
      PROVE  /\ p[k] \in 2..Len(calls) /\ p[k] \in Leavable
             /\ (wq[k].loop # 0) = (calls[p[k]].call # "switch")
  <2>1. p[k] \in Leavable /\ wq[k] = EntryOf(calls[p[k]])
    BY <1>2 DEF Queued
  <2>2. p[k] \in 1..Len(calls) /\ calls[p[k]].call \in {"while", "do", "for", "switch"}
    BY <1>3, <2>1 DEF Leavable
  <2>3. calls # <<>> /\ p[k] \in 2..Len(calls)
    <3>1. calls # <<>>
      BY <1>3, <2>2, EmptySeq
    <3> QED BY <1>3, <2>2, <3>1 DEF Nested
  <2>4. Len(calls[p[k]].labels) = 2 /\ \A x \in DOMAIN calls[p[k]].labels : calls[p[k]].labels[x] \in 1..nxtlab
    BY <2>2, <2>3 DEF Nested, Arity
  <2>5. calls[p[k]].labels \in Seq(Nat)
    BY <2>2, Typed1, CallTypes
  <2>6. 1 \in DOMAIN calls[p[k]].labels
    BY <2>4, <2>5, LenProperties
  <2>7. calls[p[k]].labels[1] # 0
    BY <2>4, <2>6
  <2> QED BY <2>1, <2>2, <2>3, <2>7 DEF EntryOf
<1>5. \E k \in Loops : \A m \in Loops : m <= k
  <2>1. Loops \in SUBSET (1..Len(wq))
    BY <1>1 DEF Loops
  <2> QED BY <1>1, <2>1, Greatest
<1>6. q \in Loops /\ \A m \in Loops : m <= q
  BY <1>5
<1>7. q \in 1..Len(wq) /\ wq[q].loop # 0
  BY <1>1, <1>6 DEF Loops
<1>8. wq[q] = EntryOf(calls[p[q]])
  BY <1>2, <1>7 DEF Queued
<1>9. calls[p[q]].call \in {"while", "do", "for"} /\ p[q] \in 2..Len(calls)
  BY <1>4, <1>7 DEF Leavable
<1>10. ASSUME NEW j \in DOMAIN calls, calls[j].call \in {"while", "do", "for"} PROVE j <= p[q]
  <2>1. j \in Leavable
    BY <1>10 DEF Leavable
  <2>2. PICK k \in 1..Len(p) : p[k] = j
    BY <2>1 DEF Queued
  <2>3. k \in Loops
    BY <1>1, <1>2, <1>4, <1>10, <2>2 DEF Loops
  <2>4. k <= q
    BY <1>6, <2>3
  <2>5. k < q => p[k] < p[q]
    BY <1>2, <1>7, <2>2 DEF Queued
  <2>6. p[k] \in Nat /\ p[q] \in Nat
    BY <1>2, <1>7, <2>2, ElementOfSeq
  <2> QED BY <1>1, <1>2, <1>7, <2>2, <2>4, <2>5, <2>6
<1> QED BY <1>8, <1>9, <1>10

LEMMA InnerIs ==
    ASSUME StmtTypeOK, Nested, Switches # {}
    PROVE  Inner \in 2..Len(calls) /\ calls[Inner].call = "switch"
<1>1. DOMAIN calls = 1..Len(calls) /\ Len(calls) \in Nat
  BY Typed1, LenProperties
<1>2. Switches \in SUBSET (1..Len(calls))
  BY <1>1 DEF Switches
<1>3. \E i \in Switches : \A j \in Switches : j <= i
  BY <1>1, <1>2, Greatest
<1>4. Inner \in Switches
  BY <1>3 DEF Inner
<1>5. Inner \in 1..Len(calls) /\ calls[Inner].call = "switch"
  BY <1>2, <1>4 DEF Switches
<1>6. calls # <<>>
  BY <1>1, <1>5, EmptySeq
<1>7. Inner # 1
  BY <1>5, <1>6 DEF Nested
<1> QED BY <1>1, <1>5, <1>7

-----------------------------------------------------------------------------
(* Steps that keep the recursion as it is.                                 *)

StayAction ==
    \/ addwhileFails \/ docase \/ dodefault \/ doreturn \/ dobreak \/ docont
    \/ dogoto \/ dolabel \/ doexpr

LEMMA CodeTyped ==
    ASSUME StmtTypeOK
    PROVE  /\ code \in CodeType /\ Opened \in Int /\ csp \in Int
           /\ Grown(code, code.flow) /\ Grown(OpenedCode, code.flow)
<1>1. code \in CodeType /\ csp \in Int /\ declared \in Int
  BY DEF StmtTypeOK, TableOK, CodeType
<1>2. Opened \in Int
  BY <1>1 DEF Opened
<1>3. Grown(code, code.flow)
  BY <1>1 DEF Grown
<1> QED BY <1>1, <1>2, <1>3, AddSpGrows DEF OpenedCode

LEMMA OpenedNext ==
    ASSUME StmtTypeOK', declared' = -1
    PROVE  Opened' = csp'
BY Typed1Next DEF Opened

LEMMA CasesChange ==
    ASSUME NEW s \in Seq(CallRecord), NEW k, NEW v, NEW i \in 1..Len(s)
    PROVE  /\ SameCall([s EXCEPT ![k].cases = v][i], s[i])
           /\ SameCall([s EXCEPT ![k].default = v][i], s[i])
<1>1. s[i] \in CallRecord /\ i \in DOMAIN s
  BY CallTypes, LenProperties
<1>2. /\ [s EXCEPT ![k].cases = v][i] = IF i = k THEN [s[i] EXCEPT !.cases = v] ELSE s[i]
      /\ [s EXCEPT ![k].default = v][i] = IF i = k THEN [s[i] EXCEPT !.default = v] ELSE s[i]
  BY <1>1
<1>3. SameCall(s[i], s[i])
  BY DEF SameCall
<1>4. SameCall([s[i] EXCEPT !.cases = v], s[i]) /\ SameCall([s[i] EXCEPT !.default = v], s[i])
  BY <1>1 DEF SameCall, CallRecord
<1> QED BY <1>2, <1>3, <1>4

LEMMA SameCallBlock ==
    ASSUME NEW c, NEW d, SameCall(c, d)
    PROVE  SameBlock(c, d)
BY DEF SameCall, SameBlock

LEMMA LatestIs ==
    ASSUME StmtTypeOK, NEW n, Found(n) # {}
    PROVE  Latest(n) \in DOMAIN locals /\ locals[Latest(n)].name = n
<1>1. Len(locals) \in Nat /\ DOMAIN locals = 1..Len(locals)
  BY Typed1, LenProperties
<1>2. Found(n) \in SUBSET (1..Len(locals))
  BY <1>1 DEF Found
<1>3. \E i \in Found(n) : \A j \in Found(n) : j <= i
  BY <1>1, <1>2, Greatest
<1>4. Latest(n) \in Found(n)
  BY <1>3 DEF Latest
<1> QED BY <1>4 DEF Found

LEMMA addlabelGets ==
    ASSUME StmtTypeOK, StmtTypeOK', NEW n, NEW def \in BOOLEAN, NEW wrong, addlabel(n, def, wrong)
    PROVE  GetsLabels /\ nxtlab <= nxtlab'
<1>1. locals \in Seq(Range(locals)) /\ Len(locals) \in Nat /\ DOMAIN locals = 1..Len(locals) /\ nxtlab \in Nat
  BY Typed1, LenProperties
<1>2. CASE locals' = locals /\ nxtlab <= nxtlab'
  BY <1>1, <1>2 DEF GetsLabels
<1>3. CASE Found(n) # {} /\ nxtlab' = nxtlab /\ locals' = [locals EXCEPT ![Latest(n)].def = TRUE]
  <2>1. locals' \in Seq(Range(locals')) /\ DOMAIN locals' = DOMAIN locals
    BY <1>3, Typed1Next
  <2>2. Len(locals') = Len(locals)
    BY <1>1, <2>1, LenProperties
  <2>3. \A k \in 1..Len(locals) : locals'[k].label = locals[k].label
    BY <1>1, <1>3
  <2> QED BY <1>1, <1>3, <2>2, <2>3 DEF GetsLabels
<1>4. CASE \E e : e.label /\ locals' = Append(locals, e) /\ nxtlab' = nxtlab + 1
  <2>1. PICK e : e.label /\ locals' = Append(locals, e) /\ nxtlab' = nxtlab + 1
    BY <1>4
  <2> DEFINE S == Range(locals) \cup {e}
  <2>2. locals \in Seq(S) /\ e \in S
    BY <1>1, SeqMonotonic
  <2> HIDE DEF S
  <2>3. /\ Len(locals') = Len(locals) + 1 /\ \A k \in 1..Len(locals) : locals'[k] = locals[k]
        /\ locals'[Len(locals) + 1] = e
    BY <2>1, <2>2, Appended
  <2> QED BY <1>1, <2>1, <2>3 DEF GetsLabels
<1>5. nxtlab' = nxtlab + 1 => nxtlab <= nxtlab'
  BY <1>1
<1>6. nxtlab' = nxtlab => nxtlab <= nxtlab'
  BY <1>1
<1> QED BY <1>2, <1>3, <1>4, <1>5, <1>6 DEF addlabel

LEMMA SameLength ==
    ASSUME NEW a \in Nat, NEW b \in Nat, 1..a = 1..b
    PROVE  a = b
<1>1. a # 0 => a \in 1..b
  BY a \in 1..a \/ a = 0
<1>2. b # 0 => b \in 1..a
  BY b \in 1..b \/ b = 0
<1> QED BY <1>1, <1>2

LEMMA StaySteps ==
    ASSUME StmtTypeOK, StmtTypeOK', StayAction
    PROVE  Stays /\ GetsLabels /\ declared' = -1
<1>1. /\ calls \in Seq(CallRecord) /\ calls' \in Seq(CallRecord) /\ DOMAIN calls = 1..Len(calls)
      /\ DOMAIN calls' = 1..Len(calls') /\ Len(calls) \in Nat /\ Len(calls') \in Nat
      /\ nxtlab \in Nat /\ Len(locals) \in Nat /\ Len(swtab) \in Nat /\ swtab \in Seq(Nat)
  BY Typed1, Typed1Next, LenProperties
<1>2. calls # <<>> /\ at # "between" /\ at' # "between" /\ declared' = -1
  BY DEF StayAction, addwhileFails, docase, dodefault, doreturn, dobreak, docont, dogoto, dolabel, doexpr,
         Statement, Called, Finished
<1>3. nxtlab <= nxtlab' /\ GetsLabels
  <2>1. CASE dogoto \/ dolabel
    <3>1. CASE dogoto
      <4>1. PICK n \in Names : addlabel(n, FALSE, nogo' > 0)
        BY <3>1 DEF dogoto
      <4> QED BY <4>1, addlabelGets
    <3>2. CASE dolabel
      <4>1. PICK n \in Names : addlabel(n, TRUE, FALSE)
        BY <3>2 DEF dolabel
      <4> QED BY <4>1, addlabelGets
    <3> QED BY <2>1, <3>1, <3>2
  <2>2. CASE ~(dogoto \/ dolabel)
    <3>1. locals' = locals /\ (nxtlab' = nxtlab \/ nxtlab' = nxtlab + 1)
      BY <2>2 DEF StayAction, addwhileFails, docase, dodefault, doreturn, dobreak, docont, doexpr
    <3> QED BY <1>1, <3>1 DEF GetsLabels
  <2> QED BY <2>1, <2>2
<1>4. wq' = wq /\ Len(swtab) <= Len(swtab')
  <2>1. swtab' = swtab \/ swtab' = Append(swtab, nxtlab')
    BY DEF StayAction, addwhileFails, docase, dodefault, doreturn, dobreak, docont, dogoto, dolabel, doexpr, switch
  <2>2. nxtlab' \in Nat
    BY Typed1Next
  <2>3. Len(swtab) <= Len(swtab')
    BY <1>1, <2>1, <2>2, Appended
  <2>4. wq' = wq
    BY DEF StayAction, addwhileFails, docase, dodefault, doreturn, dobreak, docont, dogoto, dolabel, doexpr
  <2> QED BY <2>3, <2>4
<1>5. Len(calls') = Len(calls) /\ \A i \in 1..Len(calls) : SameCall(calls'[i], calls[i])
  <2>1. CASE calls' = calls
    BY <2>1 DEF SameCall
  <2>2. CASE \E k, v : calls' = [calls EXCEPT ![k].cases = v] \/ calls' = [calls EXCEPT ![k].default = v]
    <3>1. PICK k, v : calls' = [calls EXCEPT ![k].cases = v] \/ calls' = [calls EXCEPT ![k].default = v]
      BY <2>2
    <3>2. DOMAIN calls' = DOMAIN calls
      BY <3>1
    <3>3. Len(calls') = Len(calls)
      BY <1>1, <3>2, SameLength
    <3>4. ASSUME NEW i \in 1..Len(calls) PROVE SameCall(calls'[i], calls[i])
      <4>1. CASE calls' = [calls EXCEPT ![k].cases = v]
        BY <1>1, <4>1, CasesChange
      <4>2. CASE calls' = [calls EXCEPT ![k].default = v]
        BY <1>1, <4>2, CasesChange
      <4> QED BY <3>1, <4>1, <4>2
    <3> QED BY <3>3, <3>4
  <2>3. docase => calls' = calls \/ calls' = [calls EXCEPT ![Inner].cases = Append(calls[Inner].cases, nxtlab')]
    BY DEF docase
  <2>4. dodefault => calls' = calls \/ calls' = [calls EXCEPT ![Inner].default = nxtlab']
    BY DEF dodefault
  <2>5. ~docase /\ ~dodefault => calls' = calls
    BY DEF StayAction, addwhileFails, doreturn, dobreak, docont, dogoto, dolabel, doexpr, Finished
  <2> QED BY <2>1, <2>2, <2>3, <2>4, <2>5
<1> QED BY <1>2, <1>3, <1>4, <1>5 DEF Stays, GetsLabels

\* addlabel, when nothing is wrong: the number it writes is the label's.
LEMMA addlabelNames ==
    ASSUME StmtTypeOK, StmtTypeOK', NEW n \in Names, NEW def \in BOOLEAN, NEW wrong, addlabel(n, def, wrong),
           ~errors', NamesIn(locals, given, nxtlab)
    PROVE  /\ NamesIn(locals', given', nxtlab')
           /\ Number(n) \in NamesOf(given') /\ Number(n) \in 1..nxtlab'
           /\ NamesOf(given) \subseteq NamesOf(given')
           /\ \A x \in NamesOf(given') : x \in NamesOf(given) \/ x > nxtlab
<1>1. /\ locals \in Seq(Range(locals)) /\ Len(locals) \in Nat /\ DOMAIN locals = 1..Len(locals)
      /\ nxtlab \in Nat /\ given \in [Names -> Nat] /\ \A i \in DOMAIN locals : locals[i].name \in Names
  BY Typed1, LenProperties DEF StmtTypeOK, TableOK
<1>2. CASE Found(n) # {}
  <2>1. Latest(n) \in DOMAIN locals /\ locals[Latest(n)].name = n
    BY <1>2, LatestIs
  <2>2. /\ locals[Latest(n)].label /\ nxtlab' = nxtlab /\ given' = given
        /\ locals' = locals \/ locals' = [locals EXCEPT ![Latest(n)].def = TRUE]
    BY <1>2 DEF addlabel, Error
  <2>3. Number(n) = given[n] /\ Number(n) \in 1..nxtlab
    BY <1>2, <2>1, <2>2 DEF Number, NamesIn
  <2>4. Number(n) \in NamesOf(given)
    BY <1>1, <2>3 DEF NamesOf
  <2>5. SameLabels(locals', locals)
    <3>1. CASE locals' = locals
      BY <3>1 DEF SameLabels
    <3>2. CASE locals' = [locals EXCEPT ![Latest(n)].def = TRUE]
      <4>1. DOMAIN locals' = DOMAIN locals
        BY <3>2
      <4>2. \A k \in DOMAIN locals : /\ locals'[k].label = locals[k].label
                                     /\ locals'[k].name = locals[k].name /\ locals'[k].offset = locals[k].offset
        BY <3>2
      <4> QED BY <4>1, <4>2 DEF SameLabels
    <3> QED BY <2>2, <3>1, <3>2
  <2>6. NamesIn(locals', given', nxtlab')
    BY <1>1, <2>2, <2>5, NamesStay
  <2> QED BY <2>2, <2>3, <2>4, <2>6
<1>3. CASE Found(n) = {}
  <2> DEFINE e == [name |-> n, label |-> TRUE, def |-> def, offset |-> nxtlab', size |-> 0, is |-> None]
             S == Range(locals) \cup {e}
  <2>1. /\ Len(locals) # NUMLOCS /\ nxtlab' = nxtlab + 1
        /\ locals' = Append(locals, e)
        /\ given' = [given EXCEPT ![n] = nxtlab + 1]
    BY <1>3 DEF addlabel, Error
  <2>2. locals \in Seq(S) /\ e \in S
    BY <1>1, SeqMonotonic
  <2>3. e.label /\ e.name = n /\ e.offset = nxtlab + 1
    BY <2>1
  <2>4. \A i \in DOMAIN locals : locals[i].name # n
    BY <1>3 DEF Found
  <2> HIDE DEF e, S
  <2>5. NamesIn(locals', given', nxtlab')
    BY <1>1, <2>1, <2>2, <2>3, <2>4, NameAdded
  <2>6. Number(n) = nxtlab + 1 /\ given'[n] = nxtlab + 1 /\ Number(n) \in 1..nxtlab'
    BY <1>1, <1>3, <2>1 DEF Number
  <2>7. Number(n) \in NamesOf(given')
    BY <1>1, <2>6 DEF NamesOf
  <2>8. given[n] = 0
    <3>1. given[n] # 0 => \E i \in DOMAIN locals : locals[i].name = n
      BY DEF NamesIn
    <3> QED BY <2>4, <3>1
  <2>9. \A x \in Names : x # n => given'[x] = given[x]
    BY <1>1, <2>1
  <2>10. NamesOf(given) \subseteq NamesOf(given')
    BY <2>8, <2>9 DEF NamesOf
  <2>11. \A x \in NamesOf(given') : x \in NamesOf(given) \/ x > nxtlab
    <3>1. nxtlab + 1 > nxtlab
      BY <1>1
    <3> QED BY <2>6, <2>9, <3>1 DEF NamesOf
  <2> QED BY <2>5, <2>6, <2>7, <2>10, <2>11
<1> QED BY <1>2, <1>3

\* break and continue: the depth is that of the statement they leave.
LEMMA LeaveDepth ==
    ASSUME StmtTypeOK, StmtTypeOK', Nested, Blocks, NEW names, NEW i \in 2..Len(calls), NEW e, NEW l,
           Leave(e, l, names), calls[i].call \in names,
           \A j \in DOMAIN calls : calls[j].call \in names => j <= i,
           e = EntryOf(calls[i]), astray' = {}
    PROVE  calls[i].savcsp = Opened /\ csp' = Opened /\ e.sp = Opened
<1>1. Len(calls) \in Nat /\ DOMAIN calls = 1..Len(calls) /\ Ordered(calls, locals)
      /\ DOMAIN locals = 1..Len(locals) /\ Len(locals) \in Nat
  BY Typed1, LenProperties, NestedOrdered
<1>2. ~Declared(calls[i])
  <2>1. i \in {j \in DOMAIN calls : calls[j].call \in names}
    BY <1>1
  <2> QED BY <2>1 DEF Leave, Astray
<1>3. calls[i].savloc \in Nat
  BY <1>1 DEF Ordered
<1>4. Labelled(locals, calls[i].savloc + 1, Len(locals))
  BY <1>1, <1>2, <1>3 DEF Labelled, Declared
<1>5. calls[i].savcsp = Opened
  BY <1>1, <1>4, TopDepth DEF Blocks
<1>6. e.sp = calls[i].savcsp
  BY DEF EntryOf
<1> QED BY <1>5, <1>6 DEF Leave

-----------------------------------------------------------------------------
(* What a step has to show.                                                *)

LEMMA SoundBack ==
    ASSUME Grown(code', code.flow), NamesOf(given) \subseteq NamesOf(given'), Clean' => Clean, Sound'
    PROVE  Sound
<1>1. code.flow \subseteq code'.flow /\ OfNames \subseteq OfNames'
  BY DEF Grown, OfNames, NamesOf
<1>2. \A e, f \in code'.flow : e[1] \in OfNames' /\ e[1] = f[1] => e[2] = f[2]
  BY DEF Sound, Level
<1>3. Clean' /\ (Clean => ~errors /\ astray = {})
  BY DEF Sound, Clean
<1>4. Level(OfNames)
  BY <1>1, <1>2 DEF Level
<1> QED BY <1>3, <1>4 DEF Sound

LEMMA FreshOnly ==
    ASSUME nxtlab \in Nat, Reached, NEW x \in Nat, x > nxtlab, NEW c
    PROVE  Only(code.flow, x, c)
BY DEF Reached, LabelsRight, Only

LEMMA DueOnly ==
    ASSUME Reached, NEW x, NEW c, <<x, c>> \in Due
    PROVE  Only(code.flow, x, c) /\ x \in 1..nxtlab
<1>1. PICK p \in Due : p = <<x, c>>
  OBVIOUS
<1>2. p[1] = x /\ p[2] = c
  BY <1>1
<1> QED BY <1>2 DEF Reached, LabelsRight, Only

LEMMA Follows ==
    ASSUME nxtlab \in Nat, nxtlab' \in Nat, nxtlab <= nxtlab', Reached, Sound', NEW l, NEW new,
           On(code', csp', code.flow, l),
           \A x \in l : x \in 1..nxtlab' /\ (x > nxtlab \/ <<x, csp'>> \in Due \/ x \in OfNames'),
           Due' \subseteq Due \cup (new \X {csp'}),
           \A x \in new : x \in 1..nxtlab' /\ x > nxtlab /\ x \notin OfNames',
           \A x \in OfNames' : x \in OfNames \/ x > nxtlab
    PROVE  Reached'
<1>1. PICK flow, due, named, m, flow2, due2, named2, m2, c :
        /\ flow = code.flow /\ due = Due /\ named = OfNames /\ m = nxtlab
        /\ flow2 = code'.flow /\ due2 = Due' /\ named2 = OfNames' /\ m2 = nxtlab' /\ c = csp'
  OBVIOUS
<1>2. LabelsRight(flow, due, named, m) /\ m \in Nat /\ m2 \in Nat /\ m <= m2
  BY <1>1 DEF Reached
<1>3. flow2 \subseteq flow \cup (l \X {c}) /\ code'.sp \in {None, csp'}
  BY <1>1 DEF On
<1>4. \A e, f \in flow2 : e[1] \in named2 /\ e[1] = f[1] => e[2] = f[2]
  BY <1>1 DEF Sound, Level
<1>5. LabelsRight(flow2, due2, named2, m2)
  <2>1. Reaches(flow2, flow, due, named2, l, c, m, m2)
    BY <1>1, <1>3 DEF Reaches
  <2>2. Awaits(due2, due, named2, new, c, m, m2)
    BY <1>1 DEF Awaits
  <2>3. \A x \in named2 : x \in named \/ x > m
    BY <1>1
  <2> QED BY <1>2, <1>4, <2>1, <2>2, <2>3, LabelsStep
<1>6. Reached' = (code'.sp \in {None, csp'} /\ LabelsRight(code'.flow, Due', OfNames', nxtlab'))
  BY DEF Reached
<1> QED BY <1>1, <1>3, <1>5, <1>6

\* No label gets a name.
LEMMA FollowsPlain ==
    ASSUME nxtlab \in Nat, nxtlab' \in Nat, nxtlab <= nxtlab', Scoped, Reached, Sound', given' = given,
           NEW l, NEW new, On(code', csp', code.flow, l),
           \A x \in l : x \in 1..nxtlab' /\ (x > nxtlab \/ <<x, csp'>> \in Due),
           Due' \subseteq Due \cup (new \X {csp'}),
           \A x \in new : x \in 1..nxtlab' /\ x > nxtlab
    PROVE  Reached'
<1>1. OfNames' = OfNames
  BY DEF OfNames
<1>2. OfNames \subseteq 1..nxtlab
  BY NamesBelow DEF Scoped, OfNames, NamesOf
<1>3. \A x \in new : x \notin OfNames'
  BY <1>1, <1>2
<1> QED BY <1>1, <1>3, Follows

LEMMA OpenedOn ==
    ASSUME StmtTypeOK, Reached
    PROVE  On(OpenedCode, Opened, code.flow, {})
<1>1. code \in CodeType /\ Opened \in Int /\ csp \in Int /\ code.sp \in {None, csp}
  BY CodeTyped DEF Reached
<1> QED BY <1>1, AddSpOn DEF OpenedCode

-----------------------------------------------------------------------------
(* A statement without others in it.                                       *)

LEMMA StayClean ==
    ASSUME StayAction, Clean'
    PROVE  Clean
<1>1. errors => errors'
  <2>1. CASE dogoto
    <3>1. PICK n \in Names : addlabel(n, FALSE, nogo' > 0)
      BY <2>1 DEF dogoto
    <3> QED BY <3>1 DEF addlabel, Error
  <2>2. CASE dolabel
    <3>1. PICK n \in Names : addlabel(n, TRUE, FALSE)
      BY <2>2 DEF dolabel
    <3> QED BY <3>1 DEF addlabel, Error
  <2>3. CASE addwhileFails \/ docase \/ dodefault \/ doreturn
    BY <2>3 DEF addwhileFails, docase, dodefault, doreturn, Error
  <2>4. CASE dobreak \/ docont \/ doexpr
    BY <2>4 DEF dobreak, docont, doexpr, Error
  <2> QED BY <2>1, <2>2, <2>3, <2>4 DEF StayAction
<1>2. astray \subseteq astray'
  <2>1. CASE dobreak \/ docont
    BY <2>1 DEF dobreak, docont, Astray, Leave, OutOfContext
  <2>2. CASE ~(dobreak \/ docont)
    BY <2>2 DEF StayAction, addwhileFails, docase, dodefault, doreturn, dogoto, dolabel, doexpr
  <2> QED BY <2>1, <2>2
<1> QED BY <1>1, <1>2 DEF Clean

LEMMA BreakLeaves ==
    ASSUME StmtTypeOK, StmtTypeOK', Recursion, Blocks, Clean', dobreak \/ docont
    PROVE  /\ csp' = Opened
           /\ \E l : <<l, Opened>> \in Due /\ code' = Jump(AddSp(OpenedCode, Opened, Opened), l)
<1>1. PICK p : Queued(p)
  BY DEF Recursion
<1>2. Nested /\ Len(calls) \in Nat /\ DOMAIN calls = 1..Len(calls) /\ calls \in Seq(CallRecord)
  BY Typed1, LenProperties DEF Recursion
<1>3. ~errors' /\ astray' = {}
  BY DEF Clean
<1>4. ASSUME NEW i \in 2..Len(calls), calls[i].call \in {"while", "do", "for", "switch"},
             NEW k \in {1, 2}
      PROVE  <<calls[i].labels[k], calls[i].savcsp>> \in Due
  <2>1. Len(calls[i].labels) = 2
    BY <1>2, <1>4 DEF Nested, Arity
  <2>2. k \in 1..Len(calls[i].labels)
    BY <2>1
  <2> QED BY <1>2, <2>2, AwaitedOf DEF Due
<1>5. CASE dobreak
  <2>1. wq # <<>>
    BY <1>3, <1>5 DEF dobreak, Error
  <2>2. Leave(Last(wq), Last(wq).exit, {"while", "do", "for", "switch"})
    BY <1>5, <2>1 DEF dobreak
  <2>3. PICK i \in Leavable : i \in 2..Len(calls) /\ Last(wq) = EntryOf(calls[i]) /\ \A j \in Leavable : j <= i
    BY <1>1, <1>2, <2>1, Innermost
  <2>4. /\ calls[i].call \in {"while", "do", "for", "switch"}
        /\ \A j \in DOMAIN calls : calls[j].call \in {"while", "do", "for", "switch"} => j <= i
    BY <2>3 DEF Leavable
  <2>5. calls[i].savcsp = Opened /\ csp' = Opened /\ Last(wq).sp = Opened
    BY <1>2, <1>3, <2>2, <2>3, <2>4, LeaveDepth
  <2>6. \E k \in {1, 2} : Last(wq).exit = calls[i].labels[k]
    BY <2>3 DEF EntryOf
  <2>7. <<Last(wq).exit, Opened>> \in Due
    BY <1>4, <2>3, <2>4, <2>5, <2>6
  <2>8. code' = Jump(AddSp(OpenedCode, Opened, Opened), Last(wq).exit)
    BY <2>2, <2>5 DEF Leave
  <2> QED BY <2>5, <2>7, <2>8
<1>6. CASE docont
  <2>1. PICK q : q = CHOOSE j \in Loops : \A m \in Loops : m <= j
    OBVIOUS
  <2>2. Loops # {} /\ Leave(wq[q], wq[q].loop, {"while", "do", "for"})
    BY <1>3, <1>6, <2>1 DEF docont, Error
  <2>3. PICK i \in 2..Len(calls) :
          /\ calls[i].call \in {"while", "do", "for"} /\ wq[q] = EntryOf(calls[i])
          /\ \A j \in DOMAIN calls : calls[j].call \in {"while", "do", "for"} => j <= i
    BY <1>1, <1>2, <2>1, <2>2, InnermostLoop
  <2>4. calls[i].savcsp = Opened /\ csp' = Opened /\ wq[q].sp = Opened
    BY <1>2, <1>3, <2>2, <2>3, LeaveDepth
  <2>5. wq[q].loop = calls[i].labels[1]
    BY <2>3 DEF EntryOf
  <2>6. <<wq[q].loop, Opened>> \in Due
    BY <1>4, <2>3, <2>4, <2>5
  <2>7. code' = Jump(AddSp(OpenedCode, Opened, Opened), wq[q].loop)
    BY <2>2, <2>4 DEF Leave
  <2> QED BY <2>4, <2>6, <2>7
<1> QED BY <1>5, <1>6

LEMMA StayDepth ==
    ASSUME StmtTypeOK, StmtTypeOK', Recursion, Blocks, Clean', StayAction
    PROVE  csp' = Opened /\ Opened' = Opened
<1>1. csp' = Opened
  <2>1. CASE dobreak \/ docont
    BY <2>1, BreakLeaves
  <2>2. CASE ~(dobreak \/ docont)
    BY <2>2 DEF StayAction, addwhileFails, docase, dodefault, doreturn, dogoto, dolabel, doexpr
  <2> QED BY <2>1, <2>2
<1> QED BY <1>1, StaySteps, OpenedNext

LEMMA StayCases ==
    ASSUME StmtTypeOK, StmtTypeOK', Recursion, Scoped, Clean', StayAction
    PROVE  /\ SwitchesIn(calls', swtab', swdefault', swactive', nxtlab')
           /\ \/ CaseLabels' = CaseLabels
              \/ (docase \/ dodefault) /\ nxtlab' = nxtlab + 1 /\ CaseLabels' \subseteq CaseLabels \cup {nxtlab + 1}
<1>1. /\ Len(calls') = Len(calls) /\ nxtlab \in Nat /\ nxtlab' \in Nat /\ nxtlab <= nxtlab'
      /\ swtab \in Seq(Nat) /\ swtab' \in Seq(Nat)
      /\ \A i \in 1..Len(calls) : SameBlock(calls'[i], calls[i])
  BY StaySteps, SameCallBlock, Typed1, Typed1Next DEF Stays
<1>2. SwitchesIn(calls, swtab, swdefault, swactive, nxtlab)
  BY DEF Scoped
<1>3. PICK a, d, t, m, s : a = swactive' /\ d = swdefault' /\ t = swtab' /\ m = nxtlab' /\ s = calls'
  OBVIOUS
<1>4. CASE swtab' = swtab /\ swdefault' = swdefault /\ swactive' = swactive
  <2>1. LabelsOf(s, swtab, swdefault) = LabelsOf(calls, swtab, swdefault)
        /\ SwitchesIn(s, swtab, swdefault, swactive, m)
    BY <1>1, <1>2, <1>3, SwitchesStay
  <2> QED BY <1>3, <1>4, <2>1 DEF CaseLabels
<1>5. CASE /\ docase \/ dodefault
           /\ nxtlab' = nxtlab + 1 /\ swactive' = swactive
           /\ (swtab' = Append(swtab, nxtlab + 1) /\ swdefault' = swdefault) \/ (swtab' = swtab /\ swdefault' = nxtlab + 1)
  <2>1. swactive = TRUE
    <3>1. ~errors'
      BY DEF Clean
    <3>2. swactive
      BY <1>5, <3>1 DEF docase, dodefault, Error
    <3>3. swactive \in BOOLEAN
      BY DEF StmtTypeOK
    <3> QED BY <3>2, <3>3
  <2>2. (t = Append(swtab, nxtlab + 1) /\ d = swdefault) \/ (t = swtab /\ d = nxtlab + 1)
    BY <1>3, <1>5
  <2>3. SwitchesIn(calls, swtab, swdefault, TRUE, nxtlab)
    BY <1>2, <2>1
  <2>4. /\ LabelsOf(s, t, d) \subseteq LabelsOf(calls, swtab, swdefault) \cup {nxtlab + 1}
        /\ SwitchesIn(s, t, d, TRUE, nxtlab + 1)
    BY <1>1, <1>3, <2>2, <2>3, CaseAdded
  <2>5. a = TRUE /\ m = nxtlab + 1
    BY <1>3, <1>5, <2>1
  <2> QED BY <1>3, <1>5, <2>4, <2>5 DEF CaseLabels
<1>6. CASE docase
  BY <1>4, <1>5, <1>6 DEF docase
<1>7. CASE dodefault
  BY <1>4, <1>5, <1>7 DEF dodefault
<1>8. CASE ~(docase \/ dodefault)
  BY <1>4, <1>8 DEF StayAction, addwhileFails, doreturn, dobreak, docont, dogoto, dolabel, doexpr, switch
<1> QED BY <1>6, <1>7, <1>8

LEMMA StayNames ==
    ASSUME StmtTypeOK, StmtTypeOK', Scoped, Clean', StayAction
    PROVE  /\ NamesIn(locals', given', nxtlab')
           /\ NamesOf(given) \subseteq NamesOf(given')
           /\ \A x \in NamesOf(given') : x \in NamesOf(given) \/ x > nxtlab
<1>1. NamesIn(locals, given, nxtlab) /\ ~errors'
  BY DEF Scoped, Clean
<1>2. CASE dogoto
  <2>1. PICK n \in Names : addlabel(n, FALSE, nogo' > 0)
    BY <1>2 DEF dogoto
  <2> QED BY <1>1, <2>1, addlabelNames
<1>3. CASE dolabel
  <2>1. PICK n \in Names : addlabel(n, TRUE, FALSE)
    BY <1>3 DEF dolabel
  <2> QED BY <1>1, <2>1, addlabelNames
<1>4. CASE ~(dogoto \/ dolabel)
  <2>1. locals' = locals /\ given' = given
    BY <1>4 DEF StayAction, addwhileFails, docase, dodefault, doreturn, dobreak, docont, doexpr
  <2>2. nxtlab \in Nat /\ nxtlab' \in Nat /\ nxtlab <= nxtlab'
    BY StaySteps, Typed1, Typed1Next DEF Stays
  <2>3. SameLabels(locals, locals)
    BY DEF SameLabels
  <2>4. NamesIn(locals, given, nxtlab')
    BY <1>1, <2>2, <2>3, NamesStay
  <2> QED BY <2>1, <2>4
<1> QED BY <1>2, <1>3, <1>4

LEMMA StayScoped ==
    ASSUME StmtTypeOK, StmtTypeOK', Recursion, Scoped, Clean', StayAction
    PROVE  Scoped'
<1>1. /\ GetsLabels /\ declared' = -1 /\ Opened' = Opened
      /\ Len(calls') = Len(calls) /\ Len(locals') \in Nat
      /\ \A i \in 1..Len(calls) : SameBlock(calls'[i], calls[i])
  BY StaySteps, SameCallBlock, StayDepth, Typed1Next DEF Stays, Scoped
<1>2. Ordered(calls, locals) /\ BlocksIn(calls, locals, Opened)
  BY NestedOrdered DEF Scoped, Recursion, Blocks
<1>3. PICK s, t : s = calls' /\ t = locals'
  OBVIOUS
<1>4. BlocksIn(s, t, Opened)
  BY <1>1, <1>2, <1>3, BlocksStay DEF GetsLabels
<1>5. OpensAt'
  BY <1>1 DEF OpensAt
<1>6. Blocks'
  BY <1>1, <1>3, <1>4, <1>5 DEF Blocks
<1> QED BY <1>6, StayCases, StayNames DEF Scoped

LEMMA StayDue ==
    ASSUME StmtTypeOK, StmtTypeOK', Recursion, Scoped, Clean', StayAction
    PROVE  \/ Due' = Due
           \/ (docase \/ dodefault) /\ nxtlab' = nxtlab + 1 /\ Due' \subseteq Due \cup ({nxtlab + 1} \X {csp'})
<1>1. PICK s : s = calls'
  OBVIOUS
<1>2. AwaitedBy(s) = AwaitedBy(calls)
  BY <1>1, StaySteps, Typed1, AwaitedStay DEF Stays
<1>3. Opened' = Opened /\ csp' = Opened
  BY StayDepth DEF Scoped
<1>4. Due' = AwaitedBy(calls) \cup (CaseLabels' \X {Opened})
  BY <1>1, <1>2, <1>3 DEF Due
<1>5. CASE CaseLabels' = CaseLabels
  BY <1>4, <1>5 DEF Due
<1>6. CASE /\ docase \/ dodefault
           /\ nxtlab' = nxtlab + 1 /\ CaseLabels' \subseteq CaseLabels \cup {nxtlab + 1}
  <2>1. CaseLabels' \X {Opened} \subseteq (CaseLabels \X {Opened}) \cup ({nxtlab + 1} \X {Opened})
    BY <1>6
  <2>2. Due' \subseteq Due \cup ({nxtlab + 1} \X {csp'})
    BY <1>3, <1>4, <2>1 DEF Due
  <2> QED BY <1>6, <2>2
<1> QED BY <1>5, <1>6, StayCases

\* What each of them emits.
LEMMA CaseOn ==
    ASSUME StmtTypeOK, Recursion, Blocks, Reached, NEW x \in Nat, x > nxtlab
    PROVE  On(CaseLabel(x), Opened, code.flow, {x})
<1>1. On(OpenedCode, Opened, code.flow, {}) /\ Opened \in Int /\ nxtlab \in Nat
  BY OpenedOn, CodeTyped, Typed1
<1>2. CASE Switches = {}
  <2>1. Only(code.flow, x, Opened)
    BY <1>1, FreshOnly
  <2>2. CaseLabel(x) = Place(OpenedCode, x, x)
    BY <1>2 DEF CaseLabel
  <2>3. On(Place(OpenedCode, x, x), Opened, code.flow, {} \cup {x})
    BY <1>1, <2>1, PlaceOn
  <2> QED BY <2>2, <2>3
<1>3. CASE Switches # {}
  <2>1. Nested /\ Inner \in 2..Len(calls) /\ calls[Inner].call = "switch"
    BY <1>3, InnerIs DEF Recursion
  <2>2. calls[Inner].savcsp = Opened
    BY <2>1, Typed1, NestedOrdered, SwitchDepth DEF Blocks
  <2>3. 2 \in 1..Len(calls[Inner].labels)
    BY <2>1 DEF Nested, Arity
  <2>4. <<calls[Inner].labels[2], Opened>> \in Due
    BY <2>1, <2>2, <2>3, Typed1, AwaitedOf DEF Due
  <2>5. Only(code.flow, calls[Inner].labels[2], Opened)
    BY <2>4, DueOnly
  <2>6. CaseLabel(x) = Place(OpenedCode, x, calls[Inner].labels[2])
    BY <1>3 DEF CaseLabel
  <2>7. On(Place(OpenedCode, x, calls[Inner].labels[2]), Opened, code.flow, {} \cup {x})
    BY <1>1, <2>5, PlaceOn
  <2> QED BY <2>6, <2>7
<1> QED BY <1>2, <1>3

LEMMA NamedOn ==
    ASSUME StmtTypeOK, Reached, NEW x \in Int, Only(code.flow, x, Opened)
    PROVE  On(Named(OpenedCode, x), Opened, code.flow, {x})
<1> DEFINE m == Place(OpenedCode, x, x)
<1>1. On(OpenedCode, Opened, code.flow, {}) /\ Opened \in Int
  BY OpenedOn, CodeTyped
<1>2. On(m, Opened, code.flow, {} \cup {x})
  BY <1>1, PlaceOn
<1> HIDE DEF m
<1>3. Named(OpenedCode, x) = [m EXCEPT !.sp = IF @ = None THEN Opened ELSE @, !.flow = @ \cup {<<x, Opened>>}]
  BY DEF Named, m
<1>4. Named(OpenedCode, x) = [sp |-> IF m.sp = None THEN Opened ELSE m.sp, flow |-> m.flow \cup {<<x, Opened>>}]
  BY <1>2, <1>3 DEF On, CodeType
<1>5. m.sp \in {None, Opened} /\ m.flow \subseteq code.flow \cup ({x} \X {Opened}) /\ m.flow \subseteq Int \X Int
  BY <1>2 DEF On, CodeType
<1>6. <<x, Opened>> \in {x} \X {Opened} /\ <<x, Opened>> \in Int \X Int
  BY <1>1
<1> QED BY <1>1, <1>4, <1>5, <1>6 DEF On, CodeType

LEMMA NamedHas ==
    ASSUME StmtTypeOK, NEW x \in Int
    PROVE  <<x, Opened>> \in Named(OpenedCode, x).flow
<1> DEFINE m == Place(OpenedCode, x, x)
<1>1. Grown(m, code.flow)
  BY CodeTyped, PlaceGrows
<1> HIDE DEF m
<1>2. Named(OpenedCode, x) = [m EXCEPT !.sp = IF @ = None THEN Opened ELSE @, !.flow = @ \cup {<<x, Opened>>}]
  BY DEF Named, m
<1>3. Named(OpenedCode, x) = [sp |-> IF m.sp = None THEN Opened ELSE m.sp, flow |-> m.flow \cup {<<x, Opened>>}]
  BY <1>1, <1>2 DEF Grown, CodeType
<1> QED BY <1>3

LEMMA NumberTyped ==
    ASSUME StmtTypeOK, NEW n
    PROVE  Number(n) \in Int
<1>1. Found(n) # {} => locals[Latest(n)].offset \in Int
  BY LatestIs DEF StmtTypeOK, TableOK
<1>2. nxtlab + 1 \in Int
  BY Typed1
<1> QED BY <1>1, <1>2 DEF Number

LEMMA EntryTyped ==
    ASSUME StmtTypeOK
    PROVE  /\ wq # <<>> => Last(wq) \in WqEntry
           /\ Loops # {} => wq[CHOOSE j \in Loops : \A m \in Loops : m <= j] \in WqEntry
<1>1. wq \in Seq(WqEntry) /\ DOMAIN wq = 1..Len(wq) /\ Len(wq) \in Nat
  BY TypedQueue, LenProperties
<1>2. wq # <<>> => Last(wq) \in WqEntry
  BY <1>1, Fronted
<1>3. ASSUME Loops # {} PROVE wq[CHOOSE j \in Loops : \A m \in Loops : m <= j] \in WqEntry
  <2>1. Loops \in SUBSET (1..Len(wq))
    BY <1>1 DEF Loops
  <2>2. \E k \in Loops : \A m \in Loops : m <= k
    BY <1>1, <1>3, <2>1, Greatest
  <2>3. (CHOOSE j \in Loops : \A m \in Loops : m <= j) \in 1..Len(wq)
    BY <2>1, <2>2
  <2> QED BY <1>1, <2>3, ElementOfSeq
<1> QED BY <1>2, <1>3

LEMMA LeaveGrows ==
    ASSUME StmtTypeOK, NEW e \in WqEntry, NEW l \in Int, NEW names, Leave(e, l, names)
    PROVE  Grown(code', code.flow)
<1>1. Grown(OpenedCode, code.flow) /\ Opened \in Int /\ e.sp \in Int
  BY CodeTyped DEF WqEntry
<1>2. Grown(AddSp(OpenedCode, Opened, e.sp), code.flow)
  BY <1>1, AddSpGrows
<1>3. Grown(Jump(AddSp(OpenedCode, Opened, e.sp), l), code.flow)
  BY <1>2, JumpGrows
<1> QED BY <1>3 DEF Leave

LEMMA StayGrows ==
    ASSUME StmtTypeOK, StayAction
    PROVE  Grown(code', code.flow)
<1>1. /\ Grown(OpenedCode, code.flow) /\ Grown(code, code.flow) /\ Opened \in Int /\ nxtlab + 1 \in Int
  BY CodeTyped, Typed1
<1>2. CASE code' = OpenedCode
  BY <1>1, <1>2
<1>3. CASE nxtlab' = nxtlab + 1 /\ code' = CaseLabel(nxtlab')
  <2>1. \A m : Grown(Place(OpenedCode, nxtlab + 1, m), code.flow)
    BY <1>1, PlaceGrows
  <2> QED BY <1>3, <2>1 DEF CaseLabel
<1>4. CASE docase \/ dodefault
  BY <1>2, <1>3, <1>4 DEF docase, dodefault
<1>5. CASE addwhileFails \/ doexpr
  BY <1>2, <1>5 DEF addwhileFails, doexpr
<1>6. CASE doreturn
  <2>1. code' = [sp |-> None, flow |-> code.flow]
    BY <1>1, <1>6 DEF doreturn, Grown, CodeType
  <2> QED BY <1>1, <2>1 DEF Grown, CodeType
<1>7. CASE dobreak
  <2>1. CASE wq = <<>>
    BY <1>2, <1>7, <2>1 DEF dobreak, OutOfContext
  <2>2. CASE wq # <<>>
    <3>1. Last(wq) \in WqEntry /\ Last(wq).exit \in Int
      BY <2>2, EntryTyped DEF WqEntry
    <3>2. Leave(Last(wq), Last(wq).exit, {"while", "do", "for", "switch"})
      BY <1>7, <2>2 DEF dobreak
    <3> QED BY <3>1, <3>2, LeaveGrows
  <2> QED BY <2>1, <2>2
<1>8. CASE docont
  <2>1. CASE Loops = {}
    BY <1>2, <1>8, <2>1 DEF docont, OutOfContext
  <2>2. CASE Loops # {}
    <3>1. PICK i : i = CHOOSE j \in Loops : \A m \in Loops : m <= j
      OBVIOUS
    <3>2. wq[i] \in WqEntry /\ wq[i].loop \in Int
      BY <2>2, <3>1, EntryTyped DEF WqEntry
    <3>3. Leave(wq[i], wq[i].loop, {"while", "do", "for"})
      BY <1>8, <2>2, <3>1 DEF docont
    <3> QED BY <3>2, <3>3, LeaveGrows
  <2> QED BY <2>1, <2>2
<1>9. CASE dogoto
  <2>1. PICK n \in Names : code' = Jump(OpenedCode, Number(n))
    BY <1>9 DEF dogoto
  <2> QED BY <1>1, <2>1, NumberTyped, JumpGrows
<1>10. CASE dolabel
  <2>1. PICK n \in Names : code' = Named(OpenedCode, Number(n))
    BY <1>10 DEF dolabel
  <2> QED BY <1>1, <2>1, NumberTyped, NamedGrows
<1> QED BY <1>4, <1>5, <1>6, <1>7, <1>8, <1>9, <1>10 DEF StayAction

LEMMA StayReached ==
    ASSUME StmtTypeOK, StmtTypeOK', Recursion, Scoped, Reached, Sound', StayAction
    PROVE  Reached'
<1>1. /\ Clean' /\ nxtlab \in Nat /\ nxtlab' \in Nat /\ nxtlab <= nxtlab' /\ csp' = Opened
      /\ On(OpenedCode, Opened, code.flow, {}) /\ Opened \in Int /\ Blocks
  BY Typed1, Typed1Next, StaySteps, StayDepth, OpenedOn, CodeTyped DEF Sound, Clean, Stays, Scoped
<1>2. CASE docase \/ dodefault
  <2>1. CASE nxtlab' = nxtlab + 1 /\ code' = CaseLabel(nxtlab + 1)
    <3>1. On(code', csp', code.flow, {nxtlab + 1})
      BY <1>1, <2>1, CaseOn
    <3>2. given' = given
      BY <1>2 DEF docase, dodefault
    <3>3. Due' \subseteq Due \cup ({nxtlab + 1} \X {csp'})
      BY <1>1, StayDue
    <3>4. \A x \in {nxtlab + 1} : x \in 1..nxtlab' /\ x > nxtlab
      BY <1>1, <2>1
    <3> QED BY <1>1, <3>1, <3>2, <3>3, <3>4, FollowsPlain
  <2>2. nxtlab' = nxtlab + 1 /\ code' = CaseLabel(nxtlab + 1)
    <3>1. ~(Len(swtab) = SWTAB /\ docase)
      BY <1>1 DEF docase, Error, Clean
    <3> QED BY <1>2, <3>1 DEF docase, dodefault
  <2> QED BY <2>1, <2>2
<1>3. CASE ~(docase \/ dodefault)
  <2>1. Due' \subseteq Due \cup ({} \X {csp'})
    BY <1>1, <1>3, StayDue
  <2>2. CASE addwhileFails \/ doexpr \/ doreturn
    <3>1. given' = given
      BY <2>2 DEF addwhileFails, doexpr, doreturn
    <3>2. code' = OpenedCode \/ code' = [code EXCEPT !.sp = None]
      BY <2>2 DEF addwhileFails, doexpr, doreturn
    <3>3. code \in CodeType
      BY CodeTyped
    <3>4. On(code', csp', code.flow, {})
      BY <1>1, <3>2, <3>3 DEF On, CodeType
    <3> QED BY <1>1, <2>1, <3>1, <3>4, FollowsPlain
  <2>3. CASE dobreak \/ docont
    <3>1. given' = given
      BY <2>3 DEF dobreak, docont
    <3>2. PICK l : <<l, Opened>> \in Due /\ code' = Jump(AddSp(OpenedCode, Opened, Opened), l)
      BY <1>1, <2>3, BreakLeaves
    <3>3. l \in 1..nxtlab
      BY <3>2, DueOnly
    <3>4. l \in Int /\ l \in 1..nxtlab'
      BY <1>1, <3>3
    <3>5. On(AddSp(OpenedCode, Opened, Opened), Opened, code.flow, {})
      <4>1. /\ OpenedCode \in CodeType /\ OpenedCode.sp \in {None, Opened}
            /\ OpenedCode.flow \subseteq code.flow
        BY <1>1 DEF On
      <4> QED BY <1>1, <4>1, AddSpOn
    <3>6. On(code', csp', code.flow, {} \cup {l})
      BY <1>1, <3>2, <3>4, <3>5, JumpOn
    <3>7. On(code', csp', code.flow, {l})
      BY <3>6
    <3>8. \A x \in {l} : x \in 1..nxtlab' /\ (x > nxtlab \/ <<x, csp'>> \in Due)
      BY <1>1, <3>2, <3>4
    <3> QED BY <1>1, <2>1, <3>1, <3>7, <3>8, FollowsPlain
  <2>4. CASE dogoto \/ dolabel
    <3> DEFINE Goes(n) == /\ addlabel(n, FALSE, nogo' > 0) \/ addlabel(n, TRUE, FALSE)
                          /\ code' = Jump(OpenedCode, Number(n)) \/ code' = Named(OpenedCode, Number(n))
    <3>1. PICK n \in Names : Goes(n)
      BY <2>4 DEF dogoto, dolabel
    <3>2. Number(n) \in NamesOf(given') /\ Number(n) \in 1..nxtlab'
      <4>1. NamesIn(locals, given, nxtlab) /\ ~errors'
        BY <1>1 DEF Scoped, Clean
      <4> QED BY <3>1, <4>1, addlabelNames
    <3>3. PICK l : l = Number(n)
      OBVIOUS
    <3>4. l \in Int /\ l \in OfNames' /\ l \in 1..nxtlab'
      BY <3>2, <3>3, NumberTyped DEF OfNames, NamesOf
    <3>5. ASSUME code' = Jump(OpenedCode, l) PROVE On(code', csp', code.flow, {l})
      <4>1. On(code', csp', code.flow, {} \cup {l})
        BY <1>1, <3>4, <3>5, JumpOn
      <4> QED BY <4>1
    <3>6. ASSUME code' = Named(OpenedCode, l) PROVE On(code', csp', code.flow, {l})
      <4>1. <<l, Opened>> \in code'.flow
        BY <3>4, <3>6, NamedHas
      <4>2. code.flow \subseteq code'.flow
        BY StayGrows DEF Grown
      <4>3. \A e, f \in code'.flow : e[1] \in OfNames' /\ e[1] = f[1] => e[2] = f[2]
        BY DEF Sound, Level
      <4>4. Only(code.flow, l, Opened)
        <5>1. PICK q \in code'.flow : q = <<l, Opened>>
          BY <4>1
        <5>2. q[1] = l /\ q[2] = Opened
          BY <5>1
        <5> QED BY <3>4, <4>2, <4>3, <5>2 DEF Only
      <4> QED BY <1>1, <3>4, <3>6, <4>4, NamedOn
    <3>7. On(code', csp', code.flow, {l})
      BY <3>1, <3>3, <3>5, <3>6
    <3>8. \A x \in OfNames' : x \in OfNames \/ x > nxtlab
      BY <1>1, StayNames DEF OfNames, NamesOf
    <3>9. \A x \in {l} : x \in 1..nxtlab' /\ (x > nxtlab \/ <<x, csp'>> \in Due \/ x \in OfNames')
      BY <3>4
    <3> QED BY <1>1, <2>1, <3>7, <3>8, <3>9, Follows
  <2> QED BY <1>3, <2>2, <2>3, <2>4 DEF StayAction
<1> QED BY <1>2, <1>3

LEMMA StayInv ==
    ASSUME DepthInv, StmtTypeOK', StayAction
    PROVE  DepthInv'
<1>1. StmtTypeOK /\ Recursion /\ Nested /\ Stays
  BY StaySteps DEF DepthInv, Recursion
<1>2. Recursion'
  <2>1. PICK p : Queued(p)
    BY <1>1 DEF Recursion
  <2>2. Nested' /\ Queued(p)'
    BY <1>1, <2>1, NestedStays, QueuedStays
  <2> QED BY <2>2 DEF Recursion
<1>3. ASSUME Clean' PROVE Clean /\ Scoped /\ Scoped'
  BY <1>1, <1>3, StayClean, StayScoped DEF DepthInv
<1>4. ASSUME Sound' PROVE Reached'
  <2>1. Clean' /\ Scoped /\ Clean
    BY <1>3, <1>4 DEF Sound, Clean
  <2>2. Sound
    BY <1>1, <1>4, <2>1, StayGrows, StayNames, SoundBack
  <2> QED BY <1>1, <1>4, <2>1, <2>2, StayReached DEF DepthInv
<1> QED BY <1>2, <1>3, <1>4 DEF DepthInv

-----------------------------------------------------------------------------
(* Steps that only move on in the source, and declarations.                *)

Quiet ==
    /\ UNCHANGED <<calls, csp, declared, nxtlab, locals, wq, swactive, swdefault, swtab, code, given, errors, astray>>
    /\ at' = at \/ (at = "statement" /\ at' = "done")

LEMMA QuietSteps ==
    NoStatement \/ EndOfSource \/ Elsewhere \/ UNCHANGED statement => Quiet
BY DEF NoStatement, EndOfSource, Elsewhere, statement, source, block, switch, history, Quiet

LEMMA QuietInv ==
    ASSUME DepthInv, StmtTypeOK', Quiet
    PROVE  DepthInv'
<1>1. /\ calls' = calls /\ csp' = csp /\ declared' = declared /\ nxtlab' = nxtlab /\ locals' = locals /\ wq' = wq
      /\ swactive' = swactive /\ swdefault' = swdefault /\ swtab' = swtab /\ code' = code /\ given' = given
      /\ errors' = errors /\ astray' = astray
      /\ (at' = "between") = (at = "between")
  BY DEF Quiet
<1>2. Opened' = Opened /\ CaseLabels' = CaseLabels /\ Due' = Due /\ OfNames' = OfNames /\ Top' = Top
  BY <1>1 DEF Opened, CaseLabels, Due, OfNames, Top
<1>3. Recursion'
  <2>1. Nested'
    BY <1>1 DEF DepthInv, Recursion, Nested
  <2>2. PICK p : Queued(p)
    BY DEF DepthInv, Recursion
  <2>3. Queued(p)'
    BY <1>1, <2>2 DEF Queued, Leavable
  <2> QED BY <2>1, <2>3 DEF Recursion
<1>4. Clean' = Clean /\ Sound' = Sound
  BY <1>1, <1>2 DEF Clean, Sound, Level
<1>5. Scoped => Scoped'
  <2>1. OpensAt => OpensAt'
    BY <1>1, <1>2 DEF OpensAt, Quiet
  <2> QED BY <1>1, <1>2, <2>1 DEF Scoped, Blocks
<1>6. Reached => Reached'
  BY <1>1, <1>2 DEF Reached
<1> QED BY <1>3, <1>4, <1>5, <1>6 DEF DepthInv

\* A variable is declared in the innermost block, and no switch is open.
LEMMA BlocksDeclare ==
    ASSUME NEW s, NEW S, NEW t \in Seq(S), NEW e \in S, NEW o, NEW o2, Ordered(s, t), BlocksIn(s, t, o),
           ~e.label, s[Len(s)].call = "compound", SwitchesOf(s) = {}
    PROVE  BlocksIn(s, Append(t, e), o2)
<1> DEFINE n == Len(s)
           m == Len(t)
           t2 == Append(t, e)
<1>1. /\ n \in Nat /\ m \in Nat /\ t2 \in Seq(S) /\ Len(t2) = m + 1
      /\ \A k \in 1..m : t2[k] = t[k]
      /\ t2[m + 1] = e
  BY Appended DEF Ordered
<1>2. /\ \A i \in 1..n : /\ LocOf(s, t2, i) = LocOf(s, t, i) /\ LocOf(s, t, i) \in Nat
                          /\ SpOf(s, o2, i) = SpOf(s, o, i)
      /\ LocOf(s, t2, n + 1) = m + 1
      /\ \A i \in 2..n : LocOf(s, t, i) <= m
  BY <1>1 DEF LocOf, SpOf, Ordered
<1>3. \A i \in 1..n : s[i].call # "switch"
  BY DEF SwitchesOf
<1> HIDE DEF n, m, t2
<1>4. ASSUME NEW i \in 2..n, NEW c \in 0..m
      PROVE  Labelled(t2, LocOf(s, t2, i) + 1, c) <=> Labelled(t, LocOf(s, t, i) + 1, c)
  <2>1. LocOf(s, t2, i) = LocOf(s, t, i) /\ LocOf(s, t, i) \in Nat
    BY <1>1, <1>2
  <2>2. \A k \in (LocOf(s, t, i) + 1)..c : t2[k] = t[k]
    BY <1>1, <2>1
  <2> QED BY <2>1, <2>2 DEF Labelled
<1>5. ASSUME NEW i \in 2..n, s[i].call # "compound"
      PROVE  Labelled(t2, LocOf(s, t2, i) + 1, LocOf(s, t2, i + 1))
  <2>1. i # n /\ i + 1 \in 2..n
    BY <1>1, <1>5 DEF n
  <2>2. LocOf(s, t2, i + 1) = LocOf(s, t, i + 1) /\ LocOf(s, t, i + 1) \in 0..m
    BY <1>1, <1>2, <2>1
  <2>3. Labelled(t, LocOf(s, t, i) + 1, LocOf(s, t, i + 1))
    BY <1>5 DEF BlocksIn, n
  <2> QED BY <1>4, <2>2, <2>3
<1>6. ASSUME NEW i \in 2..n, NEW j \in (i + 1)..(n + 1), Labelled(t2, LocOf(s, t2, i) + 1, LocOf(s, t2, j))
      PROVE  SpOf(s, o2, i) = SpOf(s, o2, j)
  <2>1. j # n + 1
    <3>1. LocOf(s, t2, i) \in Nat /\ LocOf(s, t2, i) <= m
      BY <1>1, <1>2
    <3>2. m + 1 \in (LocOf(s, t2, i) + 1)..(m + 1) /\ ~t2[m + 1].label
      BY <1>1, <3>1
    <3> QED BY <1>2, <1>6, <3>2 DEF Labelled
  <2>2. j \in 2..n /\ i \in 1..n /\ j \in 1..n
    BY <1>1, <2>1
  <2>3. LocOf(s, t2, j) = LocOf(s, t, j) /\ LocOf(s, t, j) \in 0..m
    BY <1>1, <1>2, <2>2
  <2>4. SpOf(s, o, i) = SpOf(s, o, j)
    BY <1>4, <1>6, <2>3 DEF BlocksIn, n
  <2> QED BY <1>2, <2>2, <2>4
<1>7. BlocksIn(s, t2, o2)
  <2>1. \A i \in 2..n : s[i].call # "switch"
    BY <1>1, <1>3
  <2> QED BY <1>5, <1>6, <2>1 DEF BlocksIn, n
<1> QED BY <1>7 DEF t2

LEMMA NoCases ==
    ASSUME NEW s, NEW t, NEW d, NEW a, NEW m, SwitchesIn(s, t, d, a, m), SwitchesOf(s) = {}
    PROVE  LabelsOf(s, t, d) = {}
<1>1. t = <<>> /\ d = 0
  BY DEF SwitchesIn
<1>2. DOMAIN t = {}
  BY <1>1
<1> QED BY <1>1, <1>2 DEF LabelsOf

LEMMA DeclareInv ==
    ASSUME DepthInv, StmtTypeOK', NEW n \in Names, NEW z \in Nat, NEW what, declloc_(n, z, what)
    PROVE  DepthInv'
<1>1. /\ calls' = calls /\ csp' = csp /\ nxtlab' = nxtlab /\ wq' = wq /\ at' = "done"
      /\ swactive' = swactive /\ swdefault' = swdefault /\ swtab' = swtab /\ code' = code /\ given' = given
      /\ astray' = astray /\ (errors => errors') /\ at # "between" /\ calls # <<>>
  BY DEF declloc_, Error, Called, switch
<1>2. /\ calls \in Seq(CallRecord) /\ Len(calls) \in Nat /\ Len(locals) \in Nat /\ Len(locals') \in Nat
      /\ nxtlab \in Nat /\ csp \in Int /\ locals \in Seq(Range(locals)) /\ declared \in Nat \cup {-1}
      /\ StmtTypeOK /\ Recursion /\ Nested /\ swtab \in Seq(Nat)
  BY Typed1, Typed1Next DEF DepthInv, Recursion
<1> DEFINE e == [name |-> n, label |-> FALSE, def |-> FALSE, offset |-> csp - declared', size |-> z, is |-> what]
           S == Range(locals) \cup {e}
<1>3. /\ locals \in Seq(S) /\ e \in S /\ e.label = FALSE
      /\ locals' = locals \/ locals' = Append(locals, e)
  <2>1. locals \in Seq(S)
    BY <1>2, SeqMonotonic
  <2> QED BY <2>1 DEF declloc_
<1> HIDE DEF e, S
<1>4. Recursion'
  <2>1. Len(locals) <= Len(locals')
    BY <1>2, <1>3, Appended
  <2>2. Stays
    BY <1>1, <1>2, <2>1 DEF Stays, SameCall
  <2>3. PICK p : Queued(p)
    BY <1>2 DEF Recursion
  <2>4. Nested' /\ Queued(p)'
    BY <1>2, <2>2, <2>3, NestedStays, QueuedStays
  <2> QED BY <2>4 DEF Recursion
<1>5. ASSUME Clean' PROVE Clean /\ Scoped /\ SwitchesOf(calls) = {} /\ Scoped'
  <2>1. ~errors' /\ Clean /\ Scoped
    BY <1>1, <1>5 DEF Clean, DepthInv
  <2>2. /\ ~swactive /\ declared >= 0 /\ declared' = declared + z /\ Len(locals) # NUMLOCS
        /\ locals' = Append(locals, e)
    <3>1. errors' = (errors \/ (swactive \/ noloc \/ declared < 0 \/ Len(locals) = NUMLOCS))
      BY DEF declloc_, Error
    <3>2. ~swactive /\ ~(declared < 0) /\ Len(locals) # NUMLOCS
      BY <2>1, <3>1
    <3>3. declared' = declared + z /\ locals' = Append(locals, e)
      BY <3>2 DEF declloc_, e
    <3> QED BY <1>2, <3>2, <3>3
  <2>3. SwitchesOf(calls) = {}
    BY <2>1, <2>2 DEF Scoped, SwitchesIn
  <2>4. OpensAt /\ BlocksIn(calls, locals, Opened)
    BY <2>1 DEF Scoped, Blocks
  <2>5. Top.call = "compound" /\ csp = Top.savcsp /\ Top = calls[Len(calls)]
    BY <1>1, <1>2, <2>2, <2>4, Fronted DEF OpensAt, Top
  <2>6. OpensAt'
    BY <1>1, <2>5 DEF OpensAt, Top
  <2>7. PICK o : o = Opened'
    OBVIOUS
  <2>8. BlocksIn(calls, Append(locals, e), o)
    BY <1>2, <1>3, <2>3, <2>4, <2>5, NestedOrdered, BlocksDeclare
  <2>9. Blocks'
    BY <1>1, <2>2, <2>6, <2>7, <2>8 DEF Blocks
  <2>10. SameLabels(Append(locals, e), locals)
    BY <1>3, NamesVariable
  <2>11. NamesIn(Append(locals, e), given, nxtlab)
    BY <1>2, <2>1, <2>10, NamesStay DEF Scoped
  <2> QED BY <1>1, <2>1, <2>2, <2>3, <2>9, <2>11 DEF Scoped
<1>6. ASSUME Sound' PROVE Reached'
  <2>1. Clean' /\ Clean /\ Scoped /\ SwitchesOf(calls) = {}
    BY <1>5, <1>6 DEF Sound, Clean
  <2>2. Grown(code', code.flow)
    BY <1>1, <1>2, CodeTyped
  <2>3. Sound
    BY <1>1, <1>6, <2>1, <2>2, SoundBack
  <2>4. Reached
    BY <2>3 DEF DepthInv
  <2>5. CaseLabels = {}
    BY <2>1, NoCases DEF Scoped, CaseLabels
  <2>6. Due' = Due
    BY <1>1, <2>5 DEF Due, CaseLabels
  <2>7. On(code', csp', code.flow, {})
    <3>1. code \in CodeType /\ code.sp \in {None, csp}
      BY <1>2, <2>4, CodeTyped DEF Reached
    <3> QED BY <1>1, <3>1 DEF On
  <2>8. Due' \subseteq Due \cup ({} \X {csp'})
    BY <2>6
  <2>9. nxtlab' \in Nat /\ nxtlab <= nxtlab'
    BY <1>1, <1>2
  <2> QED BY <1>1, <1>2, <1>6, <2>1, <2>4, <2>7, <2>8, <2>9, FollowsPlain
<1> QED BY <1>4, <1>5, <1>6 DEF DepthInv

-----------------------------------------------------------------------------
(* A call.                                                                 *)

\* The statement that makes the call f: it emits code at the depth of its block.
PushAction(f) ==
    /\ Pushes(f) /\ f \in CallRecord /\ Fresh(f)
    /\ csp' = Opened /\ Opened' = Opened /\ OpensAt'
    /\ UNCHANGED <<locals, given, errors, astray, swtab>>
    /\ IF f.call = "switch" THEN swactive' = TRUE /\ swdefault' = 0
       ELSE swactive' = swactive /\ swdefault' = swdefault
    /\ \A k \in 1..Len(f.labels) : f.labels[k] > nxtlab

\* What it emits reaches only labels of its own.
PushOn ==
    \E l : On(code', Opened, code.flow, l) /\ \A x \in l : x \in 1..nxtlab' /\ x > nxtlab

LEMMA PushCases ==
    ASSUME StmtTypeOK, StmtTypeOK', Scoped, NEW f, PushAction(f)
    PROVE  CaseLabels' = CaseLabels /\ SwitchesIn(calls', swtab', swdefault', swactive', nxtlab')
<1>1. /\ calls \in Seq(CallRecord) /\ f \in CallRecord /\ calls' = Append(calls, f) /\ swtab' = swtab
      /\ swtab \in Seq(Nat) /\ nxtlab \in Nat /\ nxtlab' \in Nat /\ nxtlab <= nxtlab'
      /\ f.swact = swactive /\ f.swdef = swdefault /\ f.swnex = Len(swtab)
      /\ SwitchesIn(calls, swtab, swdefault, swactive, nxtlab)
  BY Typed1, Typed1Next DEF PushAction, Pushes, Fresh, Scoped
<1>2. PICK m : m = nxtlab'
  OBVIOUS
<1>3. CASE f.call = "switch"
  <2>1. /\ LabelsOf(Append(calls, f), swtab, 0) = LabelsOf(calls, swtab, swdefault)
        /\ SwitchesIn(Append(calls, f), swtab, 0, TRUE, m)
    BY <1>1, <1>2, <1>3, SwitchBegins
  <2>2. swdefault' = 0 /\ swactive' = TRUE
    BY <1>3 DEF PushAction
  <2> QED BY <1>1, <1>2, <2>1, <2>2 DEF CaseLabels
<1>4. CASE f.call # "switch"
  <2>1. /\ LabelsOf(Append(calls, f), swtab, swdefault) = LabelsOf(calls, swtab, swdefault)
        /\ SwitchesIn(Append(calls, f), swtab, swdefault, swactive, m)
    BY <1>1, <1>2, <1>4, SwitchesPush
  <2>2. swdefault' = swdefault /\ swactive' = swactive
    BY <1>4 DEF PushAction
  <2> QED BY <1>1, <1>2, <2>1, <2>2 DEF CaseLabels
<1> QED BY <1>3, <1>4

LEMMA PushInv ==
    ASSUME DepthInv, StmtTypeOK', NEW f, PushAction(f), Grown(code', code.flow),
           Reached => PushOn
    PROVE  DepthInv'
<1>1. /\ calls \in Seq(CallRecord) /\ f \in CallRecord /\ calls' = Append(calls, f) /\ Pushes(f)
      /\ nxtlab \in Nat /\ nxtlab' \in Nat /\ nxtlab <= nxtlab'
      /\ StmtTypeOK /\ Recursion /\ Nested
      /\ csp' = Opened /\ Opened' = Opened /\ locals' = locals /\ given' = given /\ errors' = errors
      /\ astray' = astray /\ f.savcsp = Opened /\ f.savloc = Len(locals)
  BY Typed1, Typed1Next DEF PushAction, Pushes, Fresh, DepthInv, Recursion
<1>2. Recursion'
  <2>1. PICK p : Queued(p)
    BY <1>1 DEF Recursion
  <2>2. Nested' /\ \E r : Queued(r)'
    BY <1>1, <2>1, NestedPushes, QueuedPushes
  <2> QED BY <2>2 DEF Recursion
<1>3. Clean' = Clean
  BY <1>1 DEF Clean
<1>4. ASSUME Clean PROVE Scoped /\ Scoped'
  <2>1. Scoped
    BY <1>4 DEF DepthInv
  <2>2. OpensAt'
    BY DEF PushAction
  <2>3. BlocksIn(Append(calls, f), locals, Opened)
    BY <1>1, <2>1, NestedOrdered, BlocksPush DEF Scoped, Blocks
  <2>4. Blocks'
    BY <1>1, <2>2, <2>3 DEF Blocks
  <2>5. SwitchesIn(calls', swtab', swdefault', swactive', nxtlab')
    BY <1>1, <2>1, PushCases
  <2>6. SameLabels(locals, locals)
    BY DEF SameLabels
  <2>7. NamesIn(locals', given', nxtlab')
    <3>1. NamesIn(locals, given, nxtlab')
      BY <1>1, <2>1, <2>6, NamesStay DEF Scoped
    <3> QED BY <1>1, <3>1
  <2> QED BY <2>1, <2>4, <2>5, <2>7 DEF Scoped
<1>5. ASSUME Sound' PROVE Reached'
  <2>1. Clean /\ Scoped
    BY <1>3, <1>4, <1>5 DEF Sound, Clean
  <2>2. Reached
    BY <1>1, <1>3, <1>5, SoundBack DEF DepthInv
  <2>3. PICK l : On(code', Opened, code.flow, l) /\ \A x \in l : x \in 1..nxtlab' /\ x > nxtlab
    BY <2>2 DEF PushOn
  <2>4. PICK s : s = Append(calls, f)
    OBVIOUS
  <2>5. AwaitedBy(s) \subseteq AwaitedBy(calls) \cup (Range(f.labels) \X {Opened})
    BY <1>1, <2>4, AwaitedPush
  <2>6. Due' = AwaitedBy(s) \cup (CaseLabels \X {Opened})
    BY <1>1, <2>1, <2>4, PushCases DEF Due
  <2>7. Due' \subseteq Due \cup (Range(f.labels) \X {csp'})
    BY <1>1, <2>5, <2>6 DEF Due
  <2>8. \A x \in Range(f.labels) : x \in 1..nxtlab' /\ x > nxtlab
    <3>1. DOMAIN f.labels = 1..Len(f.labels)
      BY <1>1, LenProperties DEF CallRecord
    <3>2. \A k \in 1..Len(f.labels) : f.labels[k] \in 1..nxtlab' /\ f.labels[k] > nxtlab
      BY DEF PushAction, Pushes
    <3> QED BY <3>1, <3>2 DEF Range
  <2> QED BY <1>1, <1>5, <2>1, <2>2, <2>3, <2>7, <2>8, FollowsPlain
<1> QED BY <1>2, <1>3, <1>4, <1>5 DEF DepthInv

LEMMA CallTyped ==
    ASSUME StmtTypeOK, NEW name \in CallNames, NEW ls \in Seq(Nat), NEW d \in Int
    PROVE  /\ Call(name, ls, d) \in CallRecord
           /\ Call(name, ls, d).call = name /\ Call(name, ls, d).labels = ls /\ Call(name, ls, d).savcsp = d
           /\ Call(name, ls, d).savloc = Len(locals) /\ Call(name, ls, d).swnex = Len(swtab)
           /\ Call(name, ls, d).swact = swactive /\ Call(name, ls, d).swdef = swdefault
<1>1. Len(locals) \in Nat /\ Len(swtab) \in Nat /\ swactive \in BOOLEAN /\ swdefault \in Nat
  BY Typed1 DEF StmtTypeOK
<1>2. <<>> \in Seq(Nat)
  OBVIOUS
<1> QED BY <1>1, <1>2 DEF Call, CallRecord

\* One call, to wait for a statement.
Calling(name, ls) ==
    /\ Called /\ calls' = Append(calls, Call(name, ls, Opened)) /\ at' # "between"
    /\ csp' = Opened /\ nxtlab <= nxtlab'
    /\ UNCHANGED <<locals, given, errors, astray, swtab>>
    /\ Len(ls) = Arity(name) /\ \A k \in 1..Len(ls) : ls[k] \in 1..nxtlab' /\ ls[k] > nxtlab
    /\ IF name = "switch" THEN swactive' = TRUE /\ swdefault' = 0
       ELSE swactive' = swactive /\ swdefault' = swdefault
    /\ wq' = IF name \in Loops4 THEN Append(wq, EntryOf(Call(name, ls, Opened))) ELSE wq

LEMMA CallingPush ==
    ASSUME StmtTypeOK, StmtTypeOK', NEW name \in CallNames \ {"function"}, NEW ls \in Seq(Nat), Calling(name, ls),
           Opened' = Opened, OpensAt'
    PROVE  PushAction(Call(name, ls, Opened))
<1>1. Opened \in Int /\ name \in CallNames /\ name # "function"
  BY CodeTyped
<1>2. PICK f : f = Call(name, ls, Opened)
  OBVIOUS
<1>3. /\ f \in CallRecord /\ f.call = name /\ f.labels = ls /\ f.savcsp = Opened
      /\ f.savloc = Len(locals) /\ f.swnex = Len(swtab) /\ f.swact = swactive /\ f.swdef = swdefault
  BY <1>1, <1>2, CallTyped
<1>4. calls # <<>> /\ at # "between" /\ at' # "between" /\ calls' = Append(calls, f)
  BY <1>2 DEF Calling, Called
<1>5. wq' = IF name \in Loops4 THEN Append(wq, EntryOf(f)) ELSE wq
  BY <1>2 DEF Calling
<1>6. Pushes(f)
  BY <1>1, <1>3, <1>4, <1>5 DEF Pushes, Calling
<1>7. PushAction(f)
  BY <1>3, <1>6 DEF PushAction, Fresh, Calling
<1> QED BY <1>2, <1>7

LEMMA TwoLabels ==
    ASSUME NEW a \in Nat, NEW b \in Nat
    PROVE  /\ <<a, b>> \in Seq(Nat) /\ Len(<<a, b>>) = 2
           /\ \A k \in 1..2 : <<a, b>>[k] \in {a, b}
           /\ <<a>> \in Seq(Nat) /\ Len(<<a>>) = 1 /\ \A k \in 1..1 : <<a>>[k] = a
           /\ <<>> \in Seq(Nat) /\ Len(<<>>) = 0
OBVIOUS

PushStep == compound \/ doif \/ dowhile \/ dodo \/ dofor \/ doswitch

LEMMA PushCalls ==
    ASSUME StmtTypeOK, StmtTypeOK', PushStep
    PROVE  \E f : PushAction(f)
<1>1. nxtlab \in Nat /\ nxtlab' \in Nat /\ Opened \in Int
  BY Typed1, Typed1Next, CodeTyped
<1>2. CASE compound
  <2>1. /\ Called /\ csp' = Opened /\ declared' = 0 /\ at' = "done" /\ nxtlab' = nxtlab
        /\ calls' = Append(calls, Call("compound", <<>>, Opened))
    BY <1>2 DEF compound, Statement
  <2>2. Calling("compound", <<>>)
    BY <1>1, <1>2, <2>1, TwoLabels DEF compound, Calling, Arity, Loops4, switch
  <2>3. Opened' = Opened
    BY <1>1, <2>1 DEF Opened
  <2>4. OpensAt'
    <3>1. /\ Call("compound", <<>>, Opened) \in CallRecord /\ Call("compound", <<>>, Opened).call = "compound"
          /\ Call("compound", <<>>, Opened).savcsp = Opened
      <4>1. <<>> \in Seq(Nat) /\ "compound" \in CallNames
        BY DEF CallNames
      <4> QED BY <1>1, <4>1, CallTyped
    <3>2. Top' = Call("compound", <<>>, Opened)
      <4>1. PICK f, s, c : f = Call("compound", <<>>, Opened) /\ s = calls' /\ c = calls
        OBVIOUS
      <4>2. s = Append(c, f) /\ c \in Seq(CallRecord) /\ s \in Seq(CallRecord) /\ f \in CallRecord
        BY <2>1, <3>1, <4>1, Typed1, Typed1Next
      <4>3. Len(s) = Len(c) + 1 /\ s[Len(c) + 1] = f /\ Len(c) \in Nat
        BY <4>2, Appended
      <4>4. Last(s) = f
        BY <4>3 DEF Last
      <4> QED BY <4>1, <4>4 DEF Top
    <3> QED BY <2>1, <3>1, <3>2 DEF OpensAt
  <2> QED BY <2>2, <2>3, <2>4, TwoLabels, CallingPush DEF CallNames
<1>3. ASSUME NEW name \in {"if", "while", "do", "for", "switch"}, NEW ls \in Seq(Nat),
             Calling(name, ls), declared' = -1
      PROVE  \E f : PushAction(f)
  <2>1. Opened' = Opened
    BY <1>3, OpenedNext DEF Calling
  <2>2. OpensAt'
    BY <1>3 DEF OpensAt
  <2>3. name \in CallNames \ {"function"}
    BY DEF CallNames
  <2> QED BY <1>3, <2>1, <2>2, <2>3, CallingPush
<1>4. CASE doif
  <2>1. nxtlab' = nxtlab + 1 /\ declared' = -1 /\ calls' = Append(calls, Call("if", <<nxtlab + 1>>, Opened))
    BY <1>4 DEF doif, Waits
  <2>2. Calling("if", <<nxtlab + 1>>)
    BY <1>1, <1>4, <2>1, TwoLabels DEF doif, Statement, Waits, Calling, Arity, Loops4, switch
  <2> QED BY <1>1, <1>3, <2>1, <2>2, TwoLabels
<1>5. ASSUME NEW name \in {"while", "do", "for"}, NEW m \in Nat, m >= Exit, addwhile(Loop), nxtlab' = m,
             Waits(Call(name, <<Loop, Exit>>, Opened)),
             UNCHANGED <<locals, given, errors, astray, switch>>
      PROVE  \E f : PushAction(f)
  <2>1. Loop \in Nat /\ Exit \in Nat /\ Loop > nxtlab /\ Exit > nxtlab /\ Loop \in 1..m /\ Exit \in 1..m
        /\ nxtlab <= m
    BY <1>1, <1>5 DEF Loop, Exit
  <2>2. PICK x, y : x = Loop /\ y = Exit
    OBVIOUS
  <2>3. EntryOf(Call(name, <<x, y>>, Opened)) = [sp |-> Opened, loop |-> x, exit |-> y]
    <3>1. name \in CallNames /\ name # "switch"
      BY DEF CallNames
    <3>2. PICK ls : ls = <<x, y>>
      OBVIOUS
    <3>3. ls \in Seq(Nat) /\ ls[1] = x /\ ls[2] = y
      BY <2>1, <2>2, <3>2
    <3>4. Call(name, ls, Opened).call = name /\ Call(name, ls, Opened).labels = ls
          /\ Call(name, ls, Opened).savcsp = Opened
      BY <1>1, <3>1, <3>3, CallTyped
    <3> QED BY <3>1, <3>2, <3>3, <3>4 DEF EntryOf
  <2>4. Len(<<x, y>>) = Arity(name) /\ \A k \in 1..2 : <<x, y>>[k] \in 1..m /\ <<x, y>>[k] > nxtlab
    BY <2>1, <2>2, TwoLabels DEF Arity
  <2>5. calls' = Append(calls, Call(name, <<x, y>>, Opened)) /\ Called /\ at' = "statement"
    BY <1>5, <2>2 DEF Waits, addwhile, Statement
  <2>6. Calling(name, <<x, y>>)
    BY <1>5, <2>1, <2>2, <2>3, <2>4, <2>5, TwoLabels DEF addwhile, Calling, Loops4, switch
  <2> QED BY <1>3, <1>5, <2>1, <2>2, <2>6, TwoLabels DEF addwhile
<1>6. Exit \in Nat /\ Exit >= Exit /\ nxtlab + 4 \in Nat /\ nxtlab + 4 >= Exit
  BY <1>1 DEF Exit
<1>7. CASE dowhile
  BY <1>5, <1>6, <1>7 DEF dowhile
<1>8. CASE dodo
  BY <1>5, <1>6, <1>8 DEF dodo
<1>9. CASE dofor
  BY <1>5, <1>6, <1>9 DEF dofor
<1>10. CASE doswitch
  <2>1. PICK x, y : x = Exit /\ y = nxtlab + 3
    OBVIOUS
  <2>2. x \in Nat /\ y \in Nat /\ x > nxtlab /\ y > nxtlab /\ x \in 1..y /\ y \in 1..y /\ nxtlab <= y
    BY <1>1, <2>1 DEF Exit
  <2>3. EntryOf(Call("switch", <<x, y>>, Opened)) = [sp |-> Opened, loop |-> 0, exit |-> x]
    <3>1. PICK ls : ls = <<x, y>>
      OBVIOUS
    <3>2. ls \in Seq(Nat) /\ ls[1] = x /\ ls[2] = y /\ "switch" \in CallNames
      BY <2>2, <3>1 DEF CallNames
    <3>3. Call("switch", ls, Opened).call = "switch" /\ Call("switch", ls, Opened).labels = ls
          /\ Call("switch", ls, Opened).savcsp = Opened
      BY <1>1, <3>2, CallTyped
    <3> QED BY <3>1, <3>2, <3>3 DEF EntryOf
  <2>4. Len(<<x, y>>) = Arity("switch") /\ \A k \in 1..2 : <<x, y>>[k] \in 1..y /\ <<x, y>>[k] > nxtlab
    BY <2>2, TwoLabels DEF Arity
  <2>5. calls' = Append(calls, Call("switch", <<x, y>>, Opened)) /\ Called /\ at' = "statement" /\ nxtlab' = y
        /\ declared' = -1
    BY <1>10, <2>1 DEF doswitch, Waits, addwhile, Statement
  <2>6. Calling("switch", <<x, y>>)
    BY <1>10, <2>1, <2>2, <2>3, <2>4, <2>5, TwoLabels DEF doswitch, addwhile, Calling, Loops4
  <2> QED BY <1>3, <2>2, <2>5, <2>6, TwoLabels
<1> QED BY <1>2, <1>4, <1>7, <1>8, <1>9, <1>10 DEF PushStep

LEMMA PushGrows ==
    ASSUME StmtTypeOK, PushStep
    PROVE  Grown(code', code.flow)
<1>1. Grown(OpenedCode, code.flow) /\ Loop \in Int /\ Exit \in Int /\ nxtlab + 1 \in Int /\ nxtlab + 3 \in Int
      /\ nxtlab + 4 \in Int
  BY CodeTyped, Typed1 DEF Loop, Exit
<1>2. PICK k, a, b, c, d, f : k = OpenedCode /\ a = Loop /\ b = Exit /\ c = nxtlab + 3 /\ d = nxtlab + 4 /\ f = code.flow
  OBVIOUS
<1>3. Grown(k, f) /\ a \in Int /\ b \in Int /\ c \in Int /\ d \in Int
  BY <1>1, <1>2
<1>4. CASE compound
  BY <1>1, <1>4 DEF compound
<1>5. CASE doif
  BY <1>1, <1>5, TestedGrows DEF doif
<1>6. CASE dowhile
  <2>1. code' \in Tested(Place(k, a, a), b)
    BY <1>2, <1>6 DEF dowhile
  <2>2. Grown(Place(k, a, a), f)
    BY <1>3, PlaceGrows
  <2> QED BY <1>2, <1>3, <2>1, <2>2, TestedGrows
<1>7. CASE dodo
  BY <1>1, <1>7, PlaceGrows DEF dodo
<1>8. CASE dofor
  <2>1. PICK q \in Tested(Place(k, c, c), b) : code' = Place(Jump(Place(Jump(q, d), a, d), c), d, d)
    BY <1>2, <1>8 DEF dofor
  <2>2. Grown(Place(k, c, c), f)
    BY <1>3, PlaceGrows
  <2>3. Grown(q, f)
    BY <1>3, <2>1, <2>2, TestedGrows
  <2>4. Grown(Jump(q, d), f)
    BY <1>3, <2>3, JumpGrows
  <2>5. Grown(Place(Jump(q, d), a, d), f)
    BY <1>3, <2>4, PlaceGrows
  <2>6. Grown(Jump(Place(Jump(q, d), a, d), c), f)
    BY <1>3, <2>5, JumpGrows
  <2>7. Grown(Place(Jump(Place(Jump(q, d), a, d), c), d, d), f)
    BY <1>3, <2>6, PlaceGrows
  <2> QED BY <1>2, <2>1, <2>7
<1>9. CASE doswitch
  <2>1. code' = Jump(k, c)
    BY <1>2, <1>9 DEF doswitch
  <2> QED BY <1>2, <1>3, <2>1, JumpGrows
<1> QED BY <1>4, <1>5, <1>6, <1>7, <1>8, <1>9 DEF PushStep

LEMMA PushReaches ==
    ASSUME StmtTypeOK, StmtTypeOK', Reached, PushStep
    PROVE  PushOn
<1>1. On(OpenedCode, Opened, code.flow, {}) /\ Opened \in Int /\ nxtlab \in Nat
  BY OpenedOn, CodeTyped, Typed1
<1>2. PICK k, o, f, n, a, b, c, d :
        /\ k = OpenedCode /\ o = Opened /\ f = code.flow /\ n = nxtlab
        /\ a = Loop /\ b = Exit /\ c = nxtlab + 3 /\ d = nxtlab + 4
  OBVIOUS
<1>3. On(k, o, f, {}) /\ o \in Int /\ n \in Nat /\ a = n + 1 /\ b = n + 2 /\ c = n + 3 /\ d = n + 4
  BY <1>1, <1>2 DEF Loop, Exit
<1>4. a \in Int /\ b \in Int /\ c \in Int /\ d \in Int
  BY <1>3
<1>5. Only(f, a, o) /\ Only(f, c, o) /\ Only(f, d, o)
  BY <1>1, <1>2, <1>3, FreshOnly
<1>6. /\ a \in 1..a /\ a > n /\ a \in 1..b /\ b \in 1..b /\ b > n /\ c \in 1..c /\ c > n
      /\ a \in 1..d /\ b \in 1..d /\ c \in 1..d /\ d \in 1..d /\ d > n
  BY <1>3
<1>7. ASSUME NEW l, On(code', o, f, l), NEW m, nxtlab' = m, \A x \in l : x \in 1..m /\ x > n
      PROVE  PushOn
  BY <1>2, <1>7 DEF PushOn
<1>8. CASE compound
  <2>1. On(code', o, f, {})
    BY <1>2, <1>3, <1>8 DEF compound
  <2> QED BY <1>7, <2>1
<1>9. CASE doif
  <2>1. code' \in Tested(k, a) /\ nxtlab' = a
    BY <1>2, <1>9 DEF doif, Loop
  <2>2. On(code', o, f, {} \cup {a})
    BY <1>3, <1>4, <2>1, TestedOn
  <2> QED BY <1>6, <1>7, <2>1, <2>2
<1>10. On(Place(k, a, a), o, f, {} \cup {a})
  BY <1>3, <1>4, <1>5, PlaceOn
<1>11. CASE dowhile
  <2>1. code' \in Tested(Place(k, a, a), b) /\ nxtlab' = b
    BY <1>2, <1>11 DEF dowhile
  <2>2. On(code', o, f, ({} \cup {a}) \cup {b})
    BY <1>3, <1>4, <1>10, <2>1, TestedOn
  <2> QED BY <1>6, <1>7, <2>1, <2>2
<1>12. CASE dodo
  <2>1. code' = Place(k, a, a) /\ nxtlab' = b
    BY <1>2, <1>12 DEF dodo
  <2> QED BY <1>6, <1>7, <1>10, <2>1
<1>13. CASE dofor
  <2>1. PICK q \in Tested(Place(k, c, c), b) : code' = Place(Jump(Place(Jump(q, d), a, d), c), d, d)
    BY <1>2, <1>13 DEF dofor
  <2>2. nxtlab' = d
    BY <1>2, <1>13 DEF dofor
  <2>3. On(Place(k, c, c), o, f, {} \cup {c})
    BY <1>3, <1>4, <1>5, PlaceOn
  <2>4. On(q, o, f, ({} \cup {c}) \cup {b})
    BY <1>3, <1>4, <2>1, <2>3, TestedOn
  <2>5. PICK l : l = ({} \cup {c}) \cup {b}
    OBVIOUS
  <2>6. On(Jump(q, d), o, f, l \cup {d})
    BY <1>3, <1>4, <2>4, <2>5, JumpOn
  <2>7. On(Place(Jump(q, d), a, d), o, f, (l \cup {d}) \cup {a})
    BY <1>3, <1>4, <1>5, <2>6, PlaceOn
  <2>8. On(Jump(Place(Jump(q, d), a, d), c), o, f, ((l \cup {d}) \cup {a}) \cup {c})
    BY <1>3, <1>4, <2>7, JumpOn
  <2>9. On(code', o, f, (((l \cup {d}) \cup {a}) \cup {c}) \cup {d})
    BY <1>3, <1>4, <1>5, <2>1, <2>8, PlaceOn
  <2>10. \A x \in (((l \cup {d}) \cup {a}) \cup {c}) \cup {d} : x \in 1..d /\ x > n
    BY <1>6, <2>5
  <2> QED BY <1>7, <2>2, <2>9, <2>10
<1>14. CASE doswitch
  <2>1. code' = Jump(k, c) /\ nxtlab' = c
    BY <1>2, <1>14 DEF doswitch
  <2>2. On(code', o, f, {} \cup {c})
    BY <1>3, <1>4, <2>1, JumpOn
  <2> QED BY <1>6, <1>7, <2>1, <2>2
<1> QED BY <1>8, <1>9, <1>11, <1>12, <1>13, <1>14 DEF PushStep

LEMMA PushStepInv ==
    ASSUME DepthInv, StmtTypeOK', PushStep
    PROVE  DepthInv'
<1>1. StmtTypeOK
  BY DEF DepthInv
<1>2. PICK f : PushAction(f)
  BY <1>1, PushCalls
<1> QED BY <1>1, <1>2, PushGrows, PushReaches, PushInv

-----------------------------------------------------------------------------
(* The end of a call.                                                      *)

\* Of an if, an else, a loop or a switch.
PlainPop ==
    /\ calls # <<>> /\ at = "done" /\ Top.call \notin {"function", "compound"}
    /\ calls' = Front(calls) /\ at' = "done"
    /\ UNCHANGED <<csp, declared, nxtlab, locals, given, astray>> /\ (errors => errors')
    /\ wq' = IF Top.call \in Loops4 THEN delwhile ELSE wq
    /\ IF Top.call = "switch" THEN SwitchRestored ELSE UNCHANGED switch

LEMMA TopIs ==
    ASSUME StmtTypeOK, Nested, calls # <<>>, Top.call # "function"
    PROVE  /\ Top = calls[Len(calls)] /\ Len(calls) \in 2..Len(calls) /\ Len(calls) >= 2
           /\ Top \in CallRecord /\ Len(Top.labels) = Arity(Top.call) /\ Top.labels \in Seq(Nat)
           /\ \A k \in 1..Len(Top.labels) : Top.labels[k] \in 1..nxtlab /\ Top.labels[k] \in Int
           /\ Top.savloc \in 0..Len(locals) /\ Top.swnex \in 0..Len(swtab) /\ Top.savcsp \in Int
<1>1. calls \in Seq(CallRecord) /\ Len(calls) \in Nat \ {0} /\ Top = calls[Len(calls)] /\ Top \in CallRecord
  BY Typed1, Fronted DEF Top
<1>2. Len(calls) # 1
  <2>1. calls[1].call = "function"
    BY DEF Nested
  <2> QED BY <1>1, <2>1
<1>3. Len(calls) \in 2..Len(calls) /\ Len(calls) >= 2
  <2>1. Len(calls) \in Nat /\ Len(calls) # 0 /\ Len(calls) # 1
    BY <1>1, <1>2
  <2>2. ASSUME NEW n \in Nat, n # 0, n # 1 PROVE n \in 2..n /\ n >= 2
    BY <2>2
  <2> QED BY <2>1, <2>2
<1>4. Top.labels \in Seq(Nat) /\ Top.savloc \in Nat /\ Top.swnex \in Nat /\ Top.savcsp \in Int
  BY <1>1 DEF CallRecord
<1>5. DOMAIN Top.labels = 1..Len(Top.labels)
  BY <1>4, LenProperties
<1>6. /\ Len(Top.labels) = Arity(Top.call)
      /\ \A k \in DOMAIN Top.labels : Top.labels[k] \in 1..nxtlab
      /\ Top.savloc <= Len(locals) /\ Top.swnex <= Len(swtab)
  BY <1>1, <1>3 DEF Nested
<1>7. Top.savloc \in 0..Len(locals) /\ Top.swnex \in 0..Len(swtab)
  BY <1>4, <1>6, Typed1
<1> QED BY <1>1, <1>3, <1>4, <1>5, <1>6, <1>7

LEMMA PopDepth ==
    ASSUME StmtTypeOK, Nested, Blocks, PlainPop
    PROVE  /\ Opened = csp /\ Opened' = csp /\ Top.savcsp = csp /\ declared < 0
           /\ Labelled(locals, Top.savloc + 1, Len(locals))
           /\ \A k \in 1..Len(Top.labels) : <<Top.labels[k], csp>> \in Due
<1>1. /\ calls \in Seq(CallRecord) /\ calls # <<>> /\ Last(calls).call # "compound" /\ Top.call # "function"
      /\ Top = Last(calls) /\ declared \in Nat \cup {-1}
  BY Typed1 DEF PlainPop, Top
<1>2. declared < 0
  BY <1>1 DEF Blocks, OpensAt
<1>3. Opened = csp /\ Opened' = csp
  BY <1>1, <1>2 DEF Opened, PlainPop
<1>4. Len(calls) >= 2 /\ Top = calls[Len(calls)] /\ Len(calls) \in 2..Len(calls)
  BY <1>1, TopIs
<1>5. Labelled(locals, Top.savloc + 1, Len(locals)) /\ Top.savcsp = Opened
  BY <1>1, <1>4, NestedOrdered, PlainTop DEF Blocks
<1>6. \A k \in 1..Len(Top.labels) : <<Top.labels[k], csp>> \in Due
  BY <1>1, <1>3, <1>4, <1>5, AwaitedOf DEF Due
<1> QED BY <1>2, <1>3, <1>5, <1>6

LEMMA PopCases ==
    ASSUME StmtTypeOK, StmtTypeOK', Nested, Scoped, PlainPop
    PROVE  CaseLabels' \subseteq CaseLabels /\ SwitchesIn(calls', swtab', swdefault', swactive', nxtlab')
<1>1. /\ calls \in Seq(CallRecord) /\ calls # <<>> /\ calls' = Front(calls) /\ Top = Last(calls)
      /\ swtab \in Seq(Nat) /\ nxtlab \in Nat /\ nxtlab' = nxtlab /\ Top.call # "function"
      /\ SwitchesIn(calls, swtab, swdefault, swactive, nxtlab)
  BY Typed1 DEF PlainPop, Scoped, Top
<1>2. CASE Top.call = "switch"
  <2>1. Last(calls).swnex <= Len(swtab)
    BY <1>1, TopIs
  <2>2. /\ LabelsOf(Front(calls), SubSeq(swtab, 1, Last(calls).swnex), Last(calls).swdef)
              \subseteq LabelsOf(calls, swtab, swdefault)
        /\ SwitchesIn(Front(calls), SubSeq(swtab, 1, Last(calls).swnex), Last(calls).swdef, Last(calls).swact, nxtlab)
    BY <1>1, <1>2, <2>1, SwitchEnds
  <2>3. swtab' = SubSeq(swtab, 1, Last(calls).swnex) /\ swdefault' = Last(calls).swdef /\ swactive' = Last(calls).swact
    BY <1>1, <1>2 DEF PlainPop, SwitchRestored
  <2> QED BY <1>1, <2>2, <2>3 DEF CaseLabels
<1>3. CASE Top.call # "switch"
  <2>1. /\ LabelsOf(Front(calls), swtab, swdefault) = LabelsOf(calls, swtab, swdefault)
        /\ SwitchesIn(Front(calls), swtab, swdefault, swactive, nxtlab)
    BY <1>1, <1>3, SwitchesPop
  <2>2. swtab' = swtab /\ swdefault' = swdefault /\ swactive' = swactive
    BY <1>3 DEF PlainPop, switch
  <2> QED BY <1>1, <2>1, <2>2 DEF CaseLabels
<1> QED BY <1>2, <1>3

LEMMA PopScoped ==
    ASSUME StmtTypeOK, StmtTypeOK', Nested, Scoped, PlainPop
    PROVE  Scoped'
<1>1. /\ calls \in Seq(CallRecord) /\ calls # <<>> /\ calls' = Front(calls) /\ Top = Last(calls)
      /\ Top.call # "function" /\ locals' = locals /\ given' = given /\ nxtlab' = nxtlab
      /\ declared' = declared /\ Len(locals) \in Nat
  BY Typed1 DEF PlainPop, Top
<1>2. Opened' = csp /\ Top.savcsp = csp /\ declared < 0 /\ Labelled(locals, Top.savloc + 1, Len(locals))
  BY PopDepth DEF Scoped
<1>3. Len(calls) >= 2 /\ Top.savloc <= Len(locals)
  BY <1>1, TopIs
<1>4. BlocksIn(Front(calls), locals, csp)
  BY <1>1, <1>2, <1>3, NestedOrdered, BlocksPop DEF Scoped, Blocks, Labelled
<1>5. OpensAt'
  BY <1>1, <1>2, Typed1 DEF OpensAt
<1>6. Blocks'
  BY <1>1, <1>2, <1>4, <1>5 DEF Blocks
<1>7. NamesIn(locals', given', nxtlab')
  BY <1>1 DEF Scoped
<1> QED BY <1>6, <1>7, PopCases DEF Scoped

\* What it emits reaches labels that are awaited here.
PopOn == \E l : On(code', csp, code.flow, l) /\ \A x \in l : <<x, csp>> \in Due

LEMMA PopInv ==
    ASSUME DepthInv, StmtTypeOK', PlainPop, Grown(code', code.flow), Scoped /\ Reached => PopOn
    PROVE  DepthInv'
<1>1. /\ StmtTypeOK /\ Recursion /\ Nested /\ calls \in Seq(CallRecord) /\ calls # <<>>
      /\ calls' = Front(calls) /\ Top.call # "function" /\ at' # "between" /\ at # "between"
      /\ csp' = csp /\ nxtlab' = nxtlab /\ locals' = locals /\ given' = given /\ astray' = astray
      /\ nxtlab \in Nat
  BY Typed1 DEF DepthInv, Recursion, PlainPop
<1>2. Recursion'
  <2>1. Top.savloc <= Len(locals') /\ Top.swnex <= Len(swtab')
    <3>1. Top.savloc <= Len(locals) /\ Top.swnex \in 0..Len(swtab) /\ Len(swtab) \in Nat
          /\ swtab \in Seq(Nat)
      BY <1>1, TopIs, Typed1
    <3>2. CASE Top.call = "switch"
      <4>1. Len(SubSeq(swtab, 1, Top.swnex)) = Top.swnex
        <5>1. 1 \in 1..(Len(swtab) + 1) /\ Top.swnex \in Nat
          BY <3>1
        <5> QED BY <3>1, <5>1, SubSeqProperties
      <4> QED BY <1>1, <3>1, <3>2, <4>1 DEF PlainPop, SwitchRestored
    <3>3. CASE Top.call # "switch"
      BY <1>1, <3>1, <3>3 DEF PlainPop, switch
    <3> QED BY <3>2, <3>3
  <2>2. Pops
    BY <1>1, <2>1 DEF Pops, PlainPop
  <2>3. PICK p : Queued(p)
    BY <1>1 DEF Recursion
  <2>4. Nested' /\ \E r : Queued(r)'
    BY <1>1, <2>2, <2>3, NestedPops, QueuedPops
  <2> QED BY <2>4 DEF Recursion
<1>3. ASSUME Clean' PROVE Clean /\ Scoped /\ Scoped'
  <2>1. Clean
    BY <1>1, <1>3 DEF Clean, PlainPop
  <2> QED BY <1>1, <2>1, PopScoped DEF DepthInv
<1>4. ASSUME Sound' PROVE Reached'
  <2>1. Clean' /\ Clean /\ Scoped
    BY <1>3, <1>4 DEF Sound, Clean
  <2>2. Reached
    BY <1>1, <1>4, <2>1, SoundBack DEF DepthInv
  <2>3. PICK l : On(code', csp, code.flow, l) /\ \A x \in l : <<x, csp>> \in Due
    BY <2>1, <2>2 DEF PopOn
  <2>4. Opened = csp /\ Opened' = csp /\ CaseLabels' \subseteq CaseLabels
    BY <1>1, <2>1, PopDepth, PopCases DEF Scoped
  <2>5. PICK s : s = Front(calls)
    OBVIOUS
  <2>6. AwaitedBy(s) \subseteq AwaitedBy(calls)
    BY <1>1, <2>5, AwaitedPop
  <2>7. CaseLabels' \X {csp} \subseteq CaseLabels \X {csp}
    BY <2>4
  <2>8. Due' = AwaitedBy(s) \cup (CaseLabels' \X {csp})
    BY <1>1, <2>4, <2>5 DEF Due
  <2>9. Due' \subseteq Due \cup ({} \X {csp'})
    BY <2>4, <2>6, <2>7, <2>8 DEF Due
  <2>10. \A x \in l : x \in 1..nxtlab' /\ (x > nxtlab \/ <<x, csp'>> \in Due)
    BY <1>1, <2>2, <2>3, DueOnly
  <2>11. nxtlab' \in Nat /\ nxtlab <= nxtlab'
    BY <1>1
  <2>12. On(code', csp', code.flow, l)
    BY <1>1, <2>3
  <2> QED BY <1>1, <1>4, <2>1, <2>2, <2>9, <2>10, <2>11, <2>12, FollowsPlain
<1> QED BY <1>2, <1>3, <1>4 DEF DepthInv

PopStep == IfEnd \/ ElseEnd \/ LoopEnd \/ DoEnd \/ SwitchEnd

LEMMA PopIs ==
    ASSUME PopStep
    PROVE  PlainPop
<1>1. CASE IfEnd \/ ElseEnd
  BY <1>1 DEF IfEnd, ElseEnd, Returned, Complete, PlainPop, block, Loops4
<1>2. CASE LoopEnd
  BY <1>2 DEF LoopEnd, Returned, Complete, PlainPop, block, Loops4
<1>3. CASE DoEnd
  BY <1>3 DEF DoEnd, Returned, Complete, PlainPop, block, Loops4, Error
<1>4. CASE SwitchEnd
  BY <1>4 DEF SwitchEnd, Returned, Complete, PlainPop, block, Loops4
<1> QED BY <1>1, <1>2, <1>3, <1>4 DEF PopStep

LEMMA PopLabels ==
    ASSUME StmtTypeOK, Nested, PopStep
    PROVE  /\ 1 \in 1..Len(Top.labels) /\ Top.labels[1] \in Int
           /\ LoopEnd \/ DoEnd \/ SwitchEnd => 2 \in 1..Len(Top.labels) /\ Top.labels[2] \in Int
<1>1. /\ calls # <<>> /\ Top.call # "function" /\ Top.call \in {"if", "else", "while", "do", "for", "switch"}
      /\ LoopEnd \/ DoEnd \/ SwitchEnd => Top.call \in {"while", "do", "for", "switch"}
  BY DEF PopStep, IfEnd, ElseEnd, LoopEnd, DoEnd, SwitchEnd, Returned
<1>2. Len(Top.labels) = Arity(Top.call) /\ \A k \in 1..Len(Top.labels) : Top.labels[k] \in Int
  BY <1>1, TopIs
<1>3. 1 \in 1..Len(Top.labels)
  BY <1>1, <1>2 DEF Arity
<1>4. Top.call \in {"while", "do", "for", "switch"} => 2 \in 1..Len(Top.labels)
  BY <1>2 DEF Arity
<1> QED BY <1>1, <1>2, <1>3, <1>4

LEMMA PopGrows ==
    ASSUME StmtTypeOK, Nested, PopStep
    PROVE  Grown(code', code.flow)
<1>1. Grown(code, code.flow) /\ Top.labels[1] \in Int
  BY CodeTyped, PopLabels
<1>2. PICK k, a, b, f : k = code /\ a = Top.labels[1] /\ b = Top.labels[2] /\ f = code.flow
  OBVIOUS
<1>3. Grown(k, f) /\ a \in Int
  BY <1>1, <1>2
<1>4. CASE IfEnd \/ ElseEnd
  <2>1. code' = Place(k, a, a)
    BY <1>2, <1>4 DEF IfEnd, ElseEnd
  <2> QED BY <1>2, <1>3, <2>1, PlaceGrows
<1>5. CASE LoopEnd
  <2>1. code' = Place(Jump(k, a), b, b) /\ b \in Int
    BY <1>2, <1>5, PopLabels DEF LoopEnd
  <2>2. Grown(Jump(k, a), f)
    BY <1>3, JumpGrows
  <2> QED BY <1>2, <2>1, <2>2, PlaceGrows
<1>6. CASE DoEnd
  <2>1. PICK q \in Tested(k, b) : code' = Place(Jump(q, a), b, b)
    BY <1>2, <1>6 DEF DoEnd
  <2>2. b \in Int
    BY <1>2, <1>6, PopLabels
  <2>3. Grown(q, f)
    BY <1>3, <2>1, <2>2, TestedGrows
  <2>4. Grown(Jump(q, a), f)
    BY <1>3, <2>3, JumpGrows
  <2> QED BY <1>2, <2>1, <2>2, <2>4, PlaceGrows
<1>7. CASE SwitchEnd
  <2>1. code' = Place(Dispatch(k), a, a)
    BY <1>2, <1>7 DEF SwitchEnd
  <2>2. Top.labels[2] \in Int /\ swdefault \in Int /\ {swtab[i] : i \in (Top.swnex + 1)..Len(swtab)} \subseteq Int
    <3>1. Top.swnex \in 0..Len(swtab)
      BY <1>7, TopIs DEF SwitchEnd, Returned
    <3>2. swtab \in Seq(Nat) /\ swdefault \in Nat
      BY DEF StmtTypeOK
    <3>3. \A i \in (Top.swnex + 1)..Len(swtab) : i \in 1..Len(swtab)
      BY <3>1
    <3>4. \A i \in 1..Len(swtab) : swtab[i] \in Nat
      BY <3>2, ElementOfSeq
    <3> QED BY <1>7, <3>2, <3>3, <3>4, PopLabels
  <2>3. Grown(Dispatch(k), f)
    BY <1>1, <1>3, <2>2, DispatchGrows
  <2> QED BY <1>2, <1>3, <2>1, <2>3, PlaceGrows
<1> QED BY <1>4, <1>5, <1>6, <1>7 DEF PopStep

LEMMA PopReaches ==
    ASSUME StmtTypeOK, Nested, Scoped, Reached, PopStep
    PROVE  PopOn
<1>1. /\ PlainPop /\ Opened = csp /\ csp \in Int /\ code \in CodeType /\ code.sp \in {None, csp}
      /\ Top.labels[1] \in Int /\ <<Top.labels[1], csp>> \in Due
  BY PopIs, PopDepth, PopLabels, CodeTyped DEF Scoped, Reached
<1>2. PICK k, a, b, c, f : k = code /\ a = Top.labels[1] /\ b = Top.labels[2] /\ c = csp /\ f = code.flow
  OBVIOUS
<1>3. On(k, c, f, {}) /\ a \in Int /\ c \in Int /\ <<a, c>> \in Due /\ Only(f, a, c)
  <2>1. On(k, c, f, {})
    BY <1>1, <1>2 DEF On
  <2> QED BY <1>1, <1>2, <2>1, DueOnly
<1>4. ASSUME NEW l, On(code', c, f, l), \A x \in l : <<x, c>> \in Due PROVE PopOn
  BY <1>2, <1>4 DEF PopOn
<1>5. ASSUME LoopEnd \/ DoEnd \/ SwitchEnd PROVE b \in Int /\ <<b, c>> \in Due /\ Only(f, b, c)
  <2>1. 2 \in 1..Len(Top.labels) /\ b \in Int
    BY <1>2, <1>5, PopLabels
  <2>2. <<b, c>> \in Due
    BY <1>1, <1>2, <2>1, PopDepth DEF Scoped
  <2> QED BY <1>2, <2>1, <2>2, DueOnly
<1>6. CASE IfEnd \/ ElseEnd
  <2>1. code' = Place(k, a, a)
    BY <1>2, <1>6 DEF IfEnd, ElseEnd
  <2>2. On(code', c, f, {} \cup {a})
    BY <1>3, <2>1, PlaceOn
  <2> QED BY <1>3, <1>4, <2>2
<1>7. CASE LoopEnd
  <2>1. code' = Place(Jump(k, a), b, b)
    BY <1>2, <1>7 DEF LoopEnd
  <2>2. On(Jump(k, a), c, f, {} \cup {a})
    BY <1>3, JumpOn
  <2>3. On(code', c, f, ({} \cup {a}) \cup {b})
    BY <1>3, <1>5, <1>7, <2>1, <2>2, PlaceOn
  <2> QED BY <1>3, <1>4, <1>5, <1>7, <2>3
<1>8. CASE DoEnd
  <2>1. PICK q \in Tested(k, b) : code' = Place(Jump(q, a), b, b)
    BY <1>2, <1>8 DEF DoEnd
  <2>2. On(q, c, f, {} \cup {b})
    BY <1>3, <1>5, <1>8, <2>1, TestedOn
  <2>3. On(Jump(q, a), c, f, ({} \cup {b}) \cup {a})
    BY <1>3, <2>2, JumpOn
  <2>4. On(code', c, f, (({} \cup {b}) \cup {a}) \cup {b})
    BY <1>3, <1>5, <1>8, <2>1, <2>3, PlaceOn
  <2> QED BY <1>3, <1>4, <1>5, <1>8, <2>4
<1>9. CASE SwitchEnd
  <2> DEFINE cases == {swtab[i] : i \in (Top.swnex + 1)..Len(swtab)}
             j == Jump(k, a)
             m == Place(j, b, b)
             t == Branches(m, cases)
  <2>1. code' = Place(IF swdefault # 0 THEN Jump(t, swdefault) ELSE t, a, a)
    BY <1>2, <1>9 DEF SwitchEnd, Dispatch
  <2>2. /\ cases \in SUBSET Int /\ \A x \in cases : <<x, c>> \in Due
        /\ swdefault \in Int /\ (swdefault # 0 => <<swdefault, c>> \in Due)
    <3>1. Top.swnex \in 0..Len(swtab)
      BY <1>9, TopIs DEF SwitchEnd, Returned
    <3>2. swtab \in Seq(Nat) /\ swdefault \in Nat /\ DOMAIN swtab = 1..Len(swtab)
      BY LenProperties DEF StmtTypeOK
    <3>3. \A i \in (Top.swnex + 1)..Len(swtab) : i \in DOMAIN swtab
      BY <3>1, <3>2
    <3>4. \A i \in DOMAIN swtab : swtab[i] \in Nat
      BY <3>2, ElementOfSeq
    <3>5. cases \subseteq CaseLabels /\ cases \in SUBSET Int
      BY <3>3, <3>4 DEF CaseLabels, LabelsOf
    <3>6. swdefault # 0 => swdefault \in CaseLabels
      BY DEF CaseLabels, LabelsOf
    <3>7. \A x \in CaseLabels : <<x, c>> \in Due
      BY <1>1, <1>2 DEF Due
    <3> QED BY <3>2, <3>5, <3>6, <3>7
  <2> HIDE DEF cases
  <2>3. On(j, c, f, {} \cup {a})
    BY <1>3, JumpOn
  <2> HIDE DEF j
  <2>4. On(m, c, f, ({} \cup {a}) \cup {b})
    BY <1>3, <1>5, <1>9, <2>3, PlaceOn
  <2>5. PICK l : l = ({} \cup {a}) \cup {b}
    OBVIOUS
  <2> HIDE DEF m
  <2>6. On(t, c, f, l \cup cases)
    BY <1>3, <2>2, <2>4, <2>5, BranchesOn
  <2>7. \A x \in l \cup cases : <<x, c>> \in Due
    BY <1>3, <1>5, <1>9, <2>2, <2>5
  <2> HIDE DEF t
  <2>8. CASE swdefault = 0
    <3>1. code' = Place(t, a, a)
      BY <2>1, <2>8
    <3>2. On(code', c, f, (l \cup cases) \cup {a})
      BY <1>3, <2>6, <3>1, PlaceOn
    <3> QED BY <1>3, <1>4, <2>7, <3>2
  <2>9. CASE swdefault # 0
    <3>1. PICK d : d = swdefault
      OBVIOUS
    <3>2. code' = Place(Jump(t, d), a, a) /\ d \in Int /\ <<d, c>> \in Due
      BY <2>1, <2>2, <2>9, <3>1
    <3>3. On(Jump(t, d), c, f, (l \cup cases) \cup {d})
      BY <1>3, <2>6, <3>2, JumpOn
    <3>4. On(code', c, f, ((l \cup cases) \cup {d}) \cup {a})
      BY <1>3, <3>2, <3>3, PlaceOn
    <3>5. \A x \in ((l \cup cases) \cup {d}) \cup {a} : <<x, c>> \in Due
      BY <1>3, <2>7, <3>2
    <3> QED BY <1>4, <3>4, <3>5
  <2> QED BY <2>8, <2>9
<1> QED BY <1>6, <1>7, <1>8, <1>9 DEF PopStep

LEMMA PopStepInv ==
    ASSUME DepthInv, StmtTypeOK', PopStep
    PROVE  DepthInv'
<1>1. StmtTypeOK /\ Nested
  BY DEF DepthInv, Recursion
<1> QED BY <1>1, PopIs, PopGrows, PopReaches, PopInv

LEMMA NestedOrderedNext ==
    StmtTypeOK' /\ Nested' => Ordered(calls', locals')
<1>1. StmtTypeOK' => /\ calls' \in Seq(CallRecord) /\ Len(calls') \in Nat /\ Len(locals') \in Nat
  BY Typed1Next
<1>2. ASSUME StmtTypeOK', NEW i \in 1..Len(calls') PROVE calls'[i].savloc \in Nat
  BY <1>1, <1>2, CallTypes
<1> QED BY <1>1, <1>2 DEF Nested, Ordered

\* The end of a block.
LEMMA BlockEnds ==
    ASSUME StmtTypeOK, Nested, CompoundEnd
    PROVE  /\ Pops /\ Top.call = "compound" /\ calls # <<>> /\ calls' = Front(calls) /\ Len(calls) >= 2
           /\ Top = calls[Len(calls)] /\ Len(calls) \in 2..Len(calls) /\ Top = Last(calls)
           /\ Top.savloc \in 0..Len(locals) /\ Top.savcsp \in Int /\ csp' \in Int /\ declared' = -1
           /\ locals' = Retained(locals, Top.savloc) /\ Top.savloc <= Len(locals') /\ Len(locals') \in Nat
           /\ \A k \in 1..Top.savloc : locals'[k].label = locals[k].label
           /\ \A k \in (Top.savloc + 1)..Len(locals') : locals'[k].label
           /\ SameLabels(locals', locals)
           /\ nxtlab' = nxtlab /\ swtab' = swtab /\ swdefault' = swdefault /\ swactive' = swactive /\ given' = given
           /\ (Clean' => Clean)
<1>1. calls # <<>> /\ Top.call = "compound" /\ at = "done" /\ at' = "done" /\ calls' = Front(calls) /\ Top = Last(calls)
  BY DEF CompoundEnd, Returned, Top
<1>2. /\ Top = calls[Len(calls)] /\ Len(calls) \in 2..Len(calls) /\ Len(calls) >= 2
      /\ Top.savloc \in 0..Len(locals) /\ Top.swnex \in 0..Len(swtab) /\ Top.savcsp \in Int
  BY <1>1, TopIs
<1>3. csp' \in Int
  BY <1>2, Typed1 DEF CompoundEnd
<1>4. PICK n, t, S : n = Top.savloc /\ t = locals /\ S = Range(locals)
  OBVIOUS
<1>5. t \in Seq(S) /\ n \in 0..Len(t)
  BY <1>2, <1>4, Typed1
<1>6. PICK r : r = Retained(t, n)
  OBVIOUS
<1>7. /\ r \in Seq(S) /\ n <= Len(r) /\ \A k \in 1..n : r[k] = t[k]
      /\ \A k \in (n + 1)..Len(r) : r[k].label
      /\ SameLabels(r, t) /\ Len(r) \in Nat
  <2>1. r \in Seq(S)
    BY <1>5, <1>6, RetainedLeft
  <2>2. Len(r) >= n /\ n \in Nat /\ Len(r) \in Nat
    BY <1>5, <1>6, <2>1, RetainedLeft, LenProperties
  <2> QED BY <1>5, <1>6, <2>1, <2>2, RetainedLeft, NamesRetained
<1>8. locals' = r
  BY <1>4, <1>6 DEF CompoundEnd
<1>9. /\ nxtlab' = nxtlab /\ swtab' = swtab /\ swdefault' = swdefault /\ swactive' = swactive /\ given' = given
      /\ wq' = wq /\ declared' = -1 /\ (errors => errors') /\ astray \subseteq astray'
  BY DEF CompoundEnd, switch, Error, Astray
<1>10. Pops
  <2>1. nxtlab <= nxtlab' /\ Top.swnex <= Len(swtab')
    BY <1>2, <1>9, Typed1
  <2> QED BY <1>1, <1>4, <1>7, <1>8, <1>9, <2>1 DEF Pops, Loops4
<1>11. Clean' => Clean
  BY <1>9 DEF Clean
<1> QED BY <1>1, <1>2, <1>3, <1>4, <1>6, <1>7, <1>8, <1>9, <1>10, <1>11

LEMMA BlockDepth ==
    ASSUME StmtTypeOK, StmtTypeOK', Nested, Blocks, CompoundEnd, Clean', Len(calls) >= 3
    PROVE  csp' = Top.savcsp
<1>1. /\ calls \in Seq(CallRecord) /\ Top = calls[Len(calls)] /\ Len(calls) \in 2..Len(calls)
      /\ Top.savloc \in 0..Len(locals) /\ csp \in Int /\ DOMAIN locals = 1..Len(locals) /\ Len(locals) \in Nat
      /\ declared \in Nat \cup {-1}
  BY BlockEnds, Typed1, LenProperties
<1>2. CASE Closes
  BY <1>2 DEF CompoundEnd
<1>3. CASE ~Closes
  <2>1. csp' = csp /\ (Skips \/ ncmp = 1)
    BY <1>3 DEF CompoundEnd, Closes
  <2>2. calls[Len(calls) - 1].call # "function"
    <3>1. Len(calls) - 1 \in 2..Len(calls)
      BY Typed1
    <3> QED BY <3>1 DEF Nested
  <2>3. ~Declared(Top)
    <3>1. astray' = {}
      BY DEF Clean
    <3>2. astray' = astray \cup (IF (Skips \/ ncmp = 1) /\ Declared(Top) /\ calls[Len(calls) - 1].call # "function"
                                 THEN {"kept"} ELSE {})
      BY DEF CompoundEnd, Astray
    <3> QED BY <2>1, <2>2, <3>1, <3>2
  <2>4. Labelled(locals, Top.savloc + 1, Len(locals))
    BY <1>1, <2>3 DEF Labelled, Declared
  <2>5. Top.savcsp = Opened
    BY <1>1, <2>4, NestedOrdered, TopDepth DEF Blocks
  <2>6. Top.savcsp = csp
    <3>1. CASE declared >= 0
      BY <3>1 DEF Blocks, OpensAt
    <3>2. CASE ~(declared >= 0)
      BY <2>5, <3>2 DEF Opened
    <3> QED BY <3>1, <3>2
  <2> QED BY <2>1, <2>6
<1> QED BY <1>2, <1>3

LEMMA BlockScoped ==
    ASSUME StmtTypeOK, StmtTypeOK', Nested, Scoped, CompoundEnd, Clean'
    PROVE  Scoped' /\ CaseLabels' = CaseLabels /\ Opened' = csp'
<1>1. /\ calls \in Seq(CallRecord) /\ calls # <<>> /\ calls' = Front(calls) /\ Len(calls) >= 2 /\ Top = Last(calls)
      /\ Len(locals') \in Nat /\ Top.savloc <= Len(locals') /\ declared' = -1 /\ Top.call # "switch"
      /\ \A k \in 1..Top.savloc : locals'[k].label = locals[k].label
      /\ \A k \in (Top.savloc + 1)..Len(locals') : locals'[k].label
      /\ swtab \in Seq(Nat) /\ nxtlab \in Nat
      /\ nxtlab' = nxtlab /\ swtab' = swtab /\ swdefault' = swdefault /\ swactive' = swactive /\ given' = given
  BY BlockEnds, Typed1
<1>2. Len(calls) >= 3 => csp' = Last(calls).savcsp
  BY <1>1, BlockDepth DEF Scoped
<1>3. PICK o2, t2 : o2 = csp' /\ t2 = locals'
  OBVIOUS
<1>4. BlocksIn(Front(calls), t2, o2)
  BY <1>1, <1>2, <1>3, NestedOrdered, BlocksPop DEF Scoped, Blocks
<1>5. Opened' = csp'
  BY <1>1, OpenedNext
<1>6. OpensAt'
  BY <1>1 DEF OpensAt
<1>7. Blocks'
  BY <1>1, <1>3, <1>4, <1>5, <1>6 DEF Blocks
<1>8. /\ LabelsOf(Front(calls), swtab, swdefault) = LabelsOf(calls, swtab, swdefault)
      /\ SwitchesIn(Front(calls), swtab, swdefault, swactive, nxtlab)
  BY <1>1, SwitchesPop DEF Scoped
<1>9. SameLabels(locals', locals)
  BY BlockEnds
<1>10. NamesIn(t2, given, nxtlab)
  BY <1>1, <1>3, <1>9, NamesStay DEF Scoped
<1> QED BY <1>1, <1>3, <1>5, <1>7, <1>8, <1>10 DEF Scoped, CaseLabels

LEMMA BlockGrows ==
    ASSUME StmtTypeOK, Nested, CompoundEnd
    PROVE  Grown(code', code.flow)
<1>1. Grown(code, code.flow) /\ csp \in Int /\ Top.savcsp \in Int
  BY CodeTyped, BlockEnds
<1>2. Grown(AddSp(code, csp, Top.savcsp), code.flow)
  BY <1>1, AddSpGrows
<1> QED BY <1>1, <1>2 DEF CompoundEnd

LEMMA BlockReached ==
    ASSUME StmtTypeOK, StmtTypeOK', Nested, Scoped, Reached, CompoundEnd, Sound'
    PROVE  Reached'
<1>1. /\ calls \in Seq(CallRecord) /\ calls # <<>> /\ calls' = Front(calls) /\ Top = Last(calls)
      /\ nxtlab' = nxtlab /\ given' = given /\ nxtlab \in Nat /\ nxtlab <= nxtlab' /\ Clean' /\ Len(calls) >= 2
      /\ Top.call # "switch" /\ Len(calls) \in Nat
  BY BlockEnds, Typed1 DEF Sound, Clean
<1>2. Scoped' /\ CaseLabels' = CaseLabels /\ Opened' = csp'
  BY <1>1, BlockScoped
<1>3. On(code', csp', code.flow, {})
  <2>1. code \in CodeType /\ csp \in Int /\ code.sp \in {None, csp} /\ Top.savcsp \in Int
    BY CodeTyped, BlockEnds DEF Reached
  <2>2. On(AddSp(code, csp, Top.savcsp), Top.savcsp, code.flow, {})
    BY <2>1, AddSpOn
  <2>3. On(code, csp, code.flow, {})
    BY <2>1 DEF On
  <2> QED BY <2>2, <2>3 DEF CompoundEnd
<1>4. PICK s : s = Front(calls)
  OBVIOUS
<1>5. AwaitedBy(s) \subseteq AwaitedBy(calls)
  BY <1>1, <1>4, AwaitedPop
<1>6. SwitchesOf(calls) # {} => Opened' = Opened
  <2>1. ASSUME NEW i \in SwitchesOf(calls) PROVE Opened' = Opened
    <3>1. i \in 1..Len(calls) /\ calls[i].call = "switch"
      BY DEF SwitchesOf
    <3>2. calls[1].call = "function" /\ calls[Len(calls)].call # "switch"
      BY <1>1, BlockEnds DEF Nested
    <3>3. i # 1 /\ i # Len(calls)
      BY <3>1, <3>2
    <3>4. i \in 2..Len(calls) /\ i \in 1..(Len(calls) - 1)
      BY <1>1, <3>1, <3>3
    <3>5. calls[i].savcsp = Opened
      BY <1>1, <3>1, <3>4, NestedOrdered, SwitchDepth DEF Scoped, Blocks
    <3>6. Len(s) = Len(calls) - 1 /\ s[i] = calls[i] /\ s \in Seq(CallRecord)
      BY <1>1, <1>4, <3>4, Fronted
    <3>7. i \in 2..Len(s) /\ s[i].call = "switch"
      BY <1>1, <3>1, <3>4, <3>6
    <3>8. Nested'
      BY BlockEnds, NestedPops
    <3>9. PICK t2, o2 : t2 = locals' /\ o2 = Opened'
      OBVIOUS
    <3>10. Ordered(s, t2)
      <4>1. Ordered(calls', locals')
        BY <3>8, NestedOrderedNext
      <4> QED BY <1>1, <1>4, <3>9, <4>1
    <3>11. BlocksIn(s, t2, o2)
      BY <1>1, <1>2, <1>4, <3>9 DEF Scoped, Blocks
    <3>12. s[i].savcsp = o2
      BY <3>6, <3>7, <3>10, <3>11, SwitchDepth
    <3> QED BY <3>5, <3>6, <3>9, <3>12
  <2> QED BY <2>1
<1>7. CaseLabels' \X {Opened'} = CaseLabels \X {Opened}
  <2>1. CASE SwitchesOf(calls) = {}
    <3>1. CaseLabels = {}
      BY <2>1, NoCases DEF Scoped, CaseLabels
    <3> QED BY <1>2, <3>1
  <2>2. CASE SwitchesOf(calls) # {}
    BY <1>2, <1>6, <2>2
  <2> QED BY <2>1, <2>2
<1>8. Due' = AwaitedBy(s) \cup (CaseLabels \X {Opened})
  BY <1>1, <1>4, <1>7 DEF Due
<1>9. Due' \subseteq Due \cup ({} \X {csp'})
  BY <1>5, <1>8 DEF Due
<1>10. nxtlab' \in Nat
  BY <1>1
<1> QED BY <1>1, <1>3, <1>9, <1>10, FollowsPlain

LEMMA BlockInv ==
    ASSUME DepthInv, StmtTypeOK', CompoundEnd
    PROVE  DepthInv'
<1>1. StmtTypeOK /\ Recursion /\ Nested
  BY DEF DepthInv, Recursion
<1>2. Pops /\ given' = given /\ (Clean' => Clean)
  BY <1>1, BlockEnds
<1>3. Recursion'
  <2>1. PICK p : Queued(p)
    BY <1>1 DEF Recursion
  <2>2. Nested' /\ \E r : Queued(r)'
    BY <1>1, <1>2, <2>1, NestedPops, QueuedPops
  <2> QED BY <2>2 DEF Recursion
<1>4. Clean' => Scoped /\ Scoped'
  BY <1>1, <1>2, BlockScoped DEF DepthInv
<1>5. ASSUME Sound' PROVE Reached'
  <2>1. Clean' /\ Scoped
    BY <1>4, <1>5 DEF Sound, Clean
  <2>2. Reached
    BY <1>1, <1>2, <1>5, BlockGrows, SoundBack DEF DepthInv
  <2> QED BY <1>1, <1>5, <2>1, <2>2, BlockReached
<1> QED BY <1>3, <1>4, <1>5 DEF DepthInv

-----------------------------------------------------------------------------
(* Else: the call of the if becomes that of the else.                      *)

LEMMA ElseCalls ==
    ASSUME StmtTypeOK, Nested, Else
    PROVE  \E g \in CallRecord, x \in Nat :
              /\ x = nxtlab + 1 /\ nxtlab' = x /\ calls' = Append(Front(calls), g) /\ g \in CallRecord
              /\ g.call = "else" /\ g.labels = <<x>> /\ SameBlock(g, Top)
              /\ Len(calls') = Len(calls) /\ calls' \in Seq(CallRecord) /\ Len(calls) >= 2
              /\ \A i \in 1..(Len(calls) - 1) : calls'[i] = calls[i]
              /\ calls'[Len(calls)] = g /\ calls[Len(calls)] = Top /\ Top.call = "if"
              /\ \A i \in 1..Len(calls) : SameBlock(calls'[i], calls[i])
<1>1. calls # <<>> /\ Top.call = "if" /\ calls \in Seq(CallRecord) /\ nxtlab \in Nat /\ Len(calls) \in Nat
  BY Typed1 DEF Else, Returned
<1>2. Top = calls[Len(calls)] /\ Len(calls) >= 2 /\ Top \in CallRecord
  BY <1>1, TopIs
<1>3. PICK x \in Nat : x = nxtlab + 1
  BY <1>1
<1>4. PICK g : g = [Top EXCEPT !.call = "else", !.labels = <<x>>]
  OBVIOUS
<1>5. nxtlab' = x /\ calls' = Append(Front(calls), g)
  BY <1>3, <1>4 DEF Else
<1>6. PICK ls : ls = <<x>>
  OBVIOUS
<1>7. ls \in Seq(Nat)
  BY <1>6
<1>8. /\ g \in CallRecord /\ g.call = "else" /\ g.labels = ls /\ g.savcsp = Top.savcsp /\ g.savloc = Top.savloc
      /\ g.swact = Top.swact /\ g.swdef = Top.swdef /\ g.swnex = Top.swnex
  BY <1>2, <1>4, <1>6, <1>7 DEF CallRecord, CallNames
<1>9. SameBlock(g, Top)
  BY <1>1, <1>8 DEF SameBlock
<1>10. /\ Front(calls) \in Seq(CallRecord) /\ Len(Front(calls)) = Len(calls) - 1
       /\ \A i \in 1..(Len(calls) - 1) : Front(calls)[i] = calls[i]
  BY <1>1, Fronted
<1>11. /\ calls' \in Seq(CallRecord) /\ Len(calls') = Len(calls)
       /\ \A i \in 1..(Len(calls) - 1) : calls'[i] = calls[i]
       /\ calls'[Len(calls)] = g
  <2>1. PICK s : s = Front(calls)
    OBVIOUS
  <2>2. /\ Append(s, g) \in Seq(CallRecord) /\ Len(Append(s, g)) = Len(s) + 1
        /\ \A k \in 1..Len(s) : Append(s, g)[k] = s[k]
        /\ Append(s, g)[Len(s) + 1] = g
    BY <1>8, <1>10, <2>1, Appended
  <2>3. Len(s) = Len(calls) - 1 /\ Len(s) + 1 = Len(calls) /\ Append(s, g) = calls'
        /\ \A i \in 1..(Len(calls) - 1) : s[i] = calls[i]
    BY <1>1, <1>5, <1>10, <2>1
  <2> QED BY <2>2, <2>3
<1>12. \A i \in 1..Len(calls) : SameBlock(calls'[i], calls[i])
  <2>1. \A i \in 1..Len(calls) : i \in 1..(Len(calls) - 1) \/ i = Len(calls)
    BY <1>1
  <2>2. \A i \in 1..(Len(calls) - 1) : SameBlock(calls'[i], calls[i])
    BY <1>11 DEF SameBlock
  <2> QED BY <1>2, <1>9, <1>11, <2>1, <2>2
<1> QED BY <1>1, <1>2, <1>3, <1>5, <1>6, <1>8, <1>9, <1>11, <1>12

LEMMA ElseGrows ==
    ASSUME StmtTypeOK, Nested, Else
    PROVE  Grown(code', code.flow)
<1>1. Top.labels[1] \in Int /\ nxtlab + 1 \in Int
  <2>1. Top.call = "if" /\ calls # <<>>
    BY DEF Else, Returned
  <2>2. /\ Len(Top.labels) = Arity(Top.call)
        /\ \A k \in 1..Len(Top.labels) : Top.labels[k] \in Int
    BY <2>1, TopIs
  <2>3. 1 \in 1..Len(Top.labels)
    BY <2>1, <2>2 DEF Arity
  <2> QED BY <2>2, <2>3, Typed1
<1>2. Grown(OverElse(nxtlab + 1), code.flow)
  BY <1>1, CodeTyped, JumpGrows DEF OverElse
<1> QED BY <1>1, <1>2, PlaceGrows DEF Else

LEMMA ElseRecursion ==
    ASSUME StmtTypeOK, StmtTypeOK', Recursion, Else
    PROVE  Recursion'
<1>1. Nested
  BY DEF Recursion
<1>2. PICK g \in CallRecord, x \in Nat :
              /\ x = nxtlab + 1 /\ nxtlab' = x /\ calls' = Append(Front(calls), g) /\ g \in CallRecord
              /\ g.call = "else" /\ g.labels = <<x>> /\ SameBlock(g, Top)
              /\ Len(calls') = Len(calls) /\ calls' \in Seq(CallRecord) /\ Len(calls) >= 2
              /\ \A i \in 1..(Len(calls) - 1) : calls'[i] = calls[i]
              /\ calls'[Len(calls)] = g /\ calls[Len(calls)] = Top /\ Top.call = "if"
              /\ \A i \in 1..Len(calls) : SameBlock(calls'[i], calls[i])
  BY <1>1, ElseCalls
<1>3. /\ Len(calls) \in Nat /\ nxtlab \in Nat /\ locals' = locals /\ swtab' = swtab /\ wq' = wq
      /\ at' # "between" /\ calls # <<>> /\ calls' # <<>>
  BY <1>2, Typed1, EmptySeq DEF Else, switch, Returned
<1>4. PICK n : n = Len(calls)
  OBVIOUS
<1>5. Nested'
  <2>1. ASSUME NEW i \in 2..n
        PROVE  /\ calls'[i].call # "function" /\ Len(calls'[i].labels) = Arity(calls'[i].call)
               /\ \A k \in DOMAIN calls'[i].labels : calls'[i].labels[k] \in 1..nxtlab'
    <3>1. CASE i = n
      <4>1. PICK ls : ls = <<x>>
        OBVIOUS
      <4>2. Len(ls) = 1 /\ DOMAIN ls = 1..1 /\ ls[1] = x
        BY <4>1
      <4>3. x \in 1..nxtlab' /\ \A k \in 1..1 : k = 1
        BY <1>2, <1>3
      <4>4. calls'[i] = g /\ g.labels = ls /\ g.call = "else"
        BY <1>2, <1>4, <3>1, <4>1
      <4> QED BY <4>2, <4>3, <4>4 DEF Arity
    <3>2. CASE i # n
      <4>1. calls'[i] = calls[i] /\ i \in 2..Len(calls)
        BY <1>2, <1>3, <1>4, <3>2
      <4>2. /\ calls[i].call # "function" /\ Len(calls[i].labels) = Arity(calls[i].call)
            /\ \A k \in DOMAIN calls[i].labels : calls[i].labels[k] \in 1..nxtlab
        BY <1>1, <4>1 DEF Nested
      <4>3. 1..nxtlab \subseteq 1..nxtlab'
        BY <1>2, <1>3
      <4> QED BY <4>1, <4>2, <4>3
    <3> QED BY <3>1, <3>2
  <2>2. /\ \A i \in 2..n : calls[i].savloc <= Len(locals) /\ calls[i].swnex <= Len(swtab)
        /\ \A i \in 2..n : \A j \in 2..i : calls[j].savloc <= calls[i].savloc /\ calls[j].swnex <= calls[i].swnex
    BY <1>1, <1>4 DEF Nested
  <2>3. \A i \in 1..n : calls'[i].savloc = calls[i].savloc /\ calls'[i].swnex = calls[i].swnex
    BY <1>2, <1>4 DEF SameBlock
  <2>4. \A i \in 2..n : i \in 1..n /\ \A j \in 2..i : j \in 1..n
    BY <1>3, <1>4
  <2>5. calls'[1].call = "function"
    <3>1. 1 \in 1..(Len(calls) - 1)
      BY <1>2, <1>3
    <3> QED BY <1>1, <1>2, <1>3, <3>1 DEF Nested
  <2> QED BY <1>2, <1>3, <1>4, <2>1, <2>2, <2>3, <2>4, <2>5 DEF Nested
<1>6. PICK p : Queued(p)
  BY DEF Recursion
<1>7. DOMAIN calls = 1..n /\ DOMAIN calls' = 1..n /\ \A i \in 1..n : i \in 1..(n - 1) \/ i = n
  BY <1>2, <1>3, <1>4, Typed1, LenProperties
<1>8. Leavable' = Leavable
  BY <1>2, <1>4, <1>7 DEF Leavable
<1>9. \A i \in Leavable : calls'[i] = calls[i]
  <2>1. \A i \in Leavable : i \in 1..n /\ i # n
    BY <1>2, <1>4, <1>7 DEF Leavable
  <2> QED BY <1>2, <1>4, <1>7, <2>1
<1>10. Queued(p)'
  <2>1. \A i \in Leavable : EntryOf(calls'[i]) = EntryOf(calls[i])
    BY <1>9
  <2> QED BY <1>3, <1>6, <1>8, <2>1 DEF Queued
<1> QED BY <1>5, <1>10 DEF Recursion

LEMMA ElseInv ==
    ASSUME DepthInv, StmtTypeOK', Else
    PROVE  DepthInv'
<1>1. StmtTypeOK /\ Recursion /\ Nested
  BY DEF DepthInv, Recursion
<1>2. PICK g \in CallRecord, x \in Nat :
              /\ x = nxtlab + 1 /\ nxtlab' = x /\ calls' = Append(Front(calls), g) /\ g \in CallRecord
              /\ g.call = "else" /\ g.labels = <<x>> /\ SameBlock(g, Top)
              /\ Len(calls') = Len(calls) /\ calls' \in Seq(CallRecord) /\ Len(calls) >= 2
              /\ \A i \in 1..(Len(calls) - 1) : calls'[i] = calls[i]
              /\ calls'[Len(calls)] = g /\ calls[Len(calls)] = Top /\ Top.call = "if"
              /\ \A i \in 1..Len(calls) : SameBlock(calls'[i], calls[i])
  BY <1>1, ElseCalls
<1>3. /\ calls \in Seq(CallRecord) /\ Len(calls) \in Nat /\ nxtlab \in Nat /\ locals' = locals /\ swtab' = swtab
      /\ wq' = wq /\ csp' = csp /\ declared' = declared /\ given' = given /\ swdefault' = swdefault
      /\ swactive' = swactive /\ (Clean' => Clean) /\ Top.call = "if" /\ at' = "statement" /\ at = "done" /\ calls # <<>>
      /\ Top = Last(calls) /\ swtab \in Seq(Nat) /\ csp \in Int /\ declared \in Nat \cup {-1}
      /\ nxtlab' = nxtlab + 1 /\ Len(locals) \in Nat /\ locals \in Seq(Range(locals))
  <2>1. Clean' => Clean
    <3>1. errors' = errors /\ astray \subseteq astray'
      BY DEF Else, Astray
    <3> QED BY <3>1 DEF Clean
  <2>2. /\ calls \in Seq(CallRecord) /\ Len(calls) \in Nat /\ nxtlab \in Nat /\ swtab \in Seq(Nat) /\ csp \in Int
        /\ declared \in Nat \cup {-1} /\ Len(locals) \in Nat /\ locals \in Seq(Range(locals))
    BY <1>1, Typed1
  <2>3. /\ locals' = locals /\ swtab' = swtab /\ wq' = wq /\ csp' = csp /\ declared' = declared /\ given' = given
        /\ swdefault' = swdefault /\ swactive' = swactive /\ Top.call = "if" /\ at' = "statement" /\ at = "done"
        /\ calls # <<>> /\ nxtlab' = nxtlab + 1
    BY DEF Else, switch, block, Returned
  <2> QED BY <2>1, <2>2, <2>3 DEF Top
<1>4. ASSUME Scoped
      PROVE  /\ declared < 0 /\ Opened = csp /\ Opened' = csp /\ Top.savcsp = csp
             /\ Scoped' /\ CaseLabels' = CaseLabels
  <2>1. declared < 0
    BY <1>3, <1>4 DEF Scoped, Blocks, OpensAt
  <2>2. Opened = csp /\ Opened' = csp
    BY <1>3, <2>1 DEF Opened
  <2>3. Top.savcsp = Opened
    BY <1>1, <1>2, <1>3, <1>4, NestedOrdered, PlainTop DEF Scoped, Blocks
  <2>4. PICK s2, m2 : s2 = calls' /\ m2 = nxtlab'
    OBVIOUS
  <2>5. BlocksIn(s2, locals, csp)
    <3>1. \A k \in (Len(locals) + 1)..Len(locals) : locals[k].label
      BY <1>3
    <3>2. /\ Len(s2) = Len(calls) /\ (\A i \in 1..Len(calls) : SameBlock(s2[i], calls[i]))
          /\ Ordered(calls, locals) /\ BlocksIn(calls, locals, csp)
      BY <1>1, <1>2, <1>4, <2>2, <2>4, NestedOrdered DEF Scoped, Blocks
    <3> QED BY <1>3, <3>1, <3>2, BlocksStay
  <2>6. /\ LabelsOf(s2, swtab, swdefault) = LabelsOf(calls, swtab, swdefault)
        /\ SwitchesIn(s2, swtab, swdefault, swactive, m2)
    <3>1. m2 \in Nat /\ nxtlab <= m2
      BY <1>3, <2>4
    <3> QED BY <1>2, <1>3, <1>4, <2>4, <3>1, SwitchesStay DEF Scoped
  <2>7. OpensAt'
    BY <1>3, <2>1 DEF OpensAt
  <2>8. NamesIn(locals, given, m2)
    <3>1. m2 \in Nat /\ nxtlab <= m2 /\ SameLabels(locals, locals)
      BY <1>3, <2>4 DEF SameLabels
    <3> QED BY <1>3, <1>4, <3>1, NamesStay DEF Scoped
  <2>9. Scoped'
    BY <1>3, <2>2, <2>4, <2>5, <2>6, <2>7, <2>8 DEF Scoped, Blocks
  <2> QED BY <1>3, <2>1, <2>2, <2>3, <2>4, <2>6, <2>9 DEF CaseLabels
<1>5. ASSUME Sound' PROVE Reached'
  <2>1. Clean' /\ Clean /\ Scoped
    BY <1>3, <1>5 DEF Sound, Clean, DepthInv
  <2>2. Reached
    BY <1>1, <1>3, <1>5, <2>1, ElseGrows, SoundBack DEF DepthInv
  <2>3. Opened = csp /\ Opened' = csp /\ Top.savcsp = csp /\ CaseLabels' = CaseLabels
    BY <1>4, <2>1
  <2>4. PICK k, a, c, f : k = code /\ a = Top.labels[1] /\ c = csp /\ f = code.flow
    OBVIOUS
  <2>5. a \in Int /\ <<a, c>> \in Due
    <3>1. Top.call # "function" /\ Top.savcsp = csp
      BY <1>3, <2>3
    <3>2. 1 \in 1..Len(Top.labels) /\ Len(calls) \in 2..Len(calls) /\ Top = calls[Len(calls)] /\ Top.labels[1] \in Int
      <4>1. /\ Len(Top.labels) = Arity(Top.call) /\ Len(calls) \in 2..Len(calls) /\ Top = calls[Len(calls)]
            /\ \A j \in 1..Len(Top.labels) : Top.labels[j] \in Int
        BY <1>1, <1>3, TopIs
      <4>2. 1 \in 1..Len(Top.labels)
        BY <1>3, <4>1 DEF Arity
      <4> QED BY <4>1, <4>2
    <3>3. <<Top.labels[1], Top.savcsp>> \in AwaitedBy(calls)
      BY <1>3, <3>2, AwaitedOf
    <3> QED BY <2>4, <3>1, <3>2, <3>3 DEF Due
  <2>6. Only(f, a, c) /\ a \in 1..nxtlab
    BY <2>2, <2>4, <2>5, DueOnly
  <2>7. On(k, c, f, {}) /\ c \in Int
    BY <1>1, <1>3, <2>2, <2>4, CodeTyped DEF On, Reached
  <2>8. On(OverElse(x), c, f, {} \cup {x})
    <3>1. On(Jump(k, x), c, f, {} \cup {x})
      BY <2>7, JumpOn
    <3>2. On(k, c, f, {} \cup {x})
      <4>1. {} \X {c} \subseteq {x} \X {c}
        OBVIOUS
      <4> QED BY <2>7, <4>1 DEF On
    <3> QED BY <2>4, <3>1, <3>2 DEF OverElse
  <2>9. code' = Place(OverElse(x), a, a)
    BY <1>2, <2>4 DEF Else
  <2>10. PICK y, l : y = OverElse(x) /\ l = {} \cup {x}
    OBVIOUS
  <2>11. On(Place(y, a, a), c, f, l \cup {a})
    BY <2>5, <2>6, <2>7, <2>8, <2>10, PlaceOn
  <2>12. On(code', csp', code.flow, l \cup {a})
    BY <1>3, <2>4, <2>9, <2>10, <2>11
  <2>13. \A z \in l \cup {a} : z \in 1..nxtlab' /\ (z > nxtlab \/ <<z, csp'>> \in Due)
    <3>1. x \in 1..nxtlab' /\ x > nxtlab /\ a \in 1..nxtlab'
      BY <1>2, <1>3, <2>6
    <3> QED BY <1>3, <2>4, <2>5, <2>10, <3>1
  <2>14. PICK s : s = Front(calls)
    OBVIOUS
  <2>15. s \in Seq(CallRecord) /\ AwaitedBy(s) \subseteq AwaitedBy(calls)
    BY <1>3, <2>14, Fronted, AwaitedPop
  <2>16. Range(g.labels) = {x} /\ g.savcsp = csp
    <3>1. PICK ls : ls = <<x>>
      OBVIOUS
    <3>2. DOMAIN ls = {1} /\ ls[1] = x
      BY <3>1
    <3>3. Range(ls) = {x}
      BY <3>2 DEF Range
    <3> QED BY <1>2, <2>3, <3>1, <3>3 DEF SameBlock
  <2>17. AwaitedBy(Append(s, g)) \subseteq AwaitedBy(s) \cup ({x} \X {csp})
    <3>1. AwaitedBy(Append(s, g)) \subseteq AwaitedBy(s) \cup (Range(g.labels) \X {g.savcsp})
      BY <1>2, <2>15, AwaitedPush
    <3> QED BY <2>16, <3>1
  <2>18. Due' = AwaitedBy(Append(s, g)) \cup (CaseLabels \X {csp})
    BY <1>2, <2>3, <2>14 DEF Due
  <2>19. Due' \subseteq Due \cup ({x} \X {csp'})
    BY <1>3, <2>3, <2>15, <2>17, <2>18 DEF Due
  <2>20. \A z \in {x} : z \in 1..nxtlab' /\ z > nxtlab
    BY <1>2, <1>3
  <2>21. nxtlab' \in Nat /\ nxtlab <= nxtlab'
    BY <1>3
  <2>22. PICK l2, new : l2 = l \cup {a} /\ new = {x}
    OBVIOUS
  <2>23. /\ On(code', csp', code.flow, l2)
         /\ \A z \in l2 : z \in 1..nxtlab' /\ (z > nxtlab \/ <<z, csp'>> \in Due)
         /\ Due' \subseteq Due \cup (new \X {csp'})
         /\ \A z \in new : z \in 1..nxtlab' /\ z > nxtlab
    BY <2>12, <2>13, <2>19, <2>20, <2>22
  <2> QED BY <1>3, <1>5, <2>1, <2>2, <2>21, <2>23, FollowsPlain
<1>6. Recursion'
  BY <1>1, ElseRecursion
<1>7. Clean' => Scoped'
  BY <1>3, <1>4 DEF DepthInv
<1> QED BY <1>5, <1>6, <1>7 DEF DepthInv

-----------------------------------------------------------------------------
(* Functions.                                                              *)

LEMMA OutsideCalls ==
    ASSUME NEW s, Len(s) \in {0, 1}, s[1].call # "switch", NEW t, NEW o
    PROVE  BlocksIn(s, t, o) /\ AwaitedBy(s) = {} /\ SwitchesOf(s) = {}
<1>1. ASSUME NEW n \in {0, 1} PROVE 2..n = {} /\ \A i \in 1..n : i = 1
  OBVIOUS
<1>2. 2..Len(s) = {} /\ \A i \in 1..Len(s) : i = 1
  BY <1>1
<1> QED BY <1>2 DEF BlocksIn, AwaitedBy, SwitchesOf

LEMMA QueueOutside ==
    ASSUME NEW p, Queued(p), Leavable = {}, Leavable' = {}, wq' = wq
    PROVE  Queued(p)'
BY DEF Queued

LEMMA FunctionEndInv ==
    ASSUME DepthInv, StmtTypeOK', FunctionEnd
    PROVE  DepthInv'
<1>1. /\ StmtTypeOK /\ Nested /\ calls \in Seq(CallRecord) /\ calls # <<>> /\ Top.call = "function"
      /\ Len(calls) \in Nat \ {0} /\ Top = calls[Len(calls)]
  <2>1. /\ StmtTypeOK /\ Nested /\ calls \in Seq(CallRecord) /\ calls # <<>> /\ Top.call = "function"
    BY Typed1 DEF DepthInv, Recursion, FunctionEnd, Returned
  <2> QED BY <2>1, Fronted DEF Top
<1>2. Len(calls) = 1
  <2>1. Len(calls) \notin 2..Len(calls)
    BY <1>1 DEF Nested
  <2>2. ASSUME NEW n \in Nat \ {0}, n \notin 2..n PROVE n = 1
    BY <2>2
  <2> QED BY <1>1, <2>1, <2>2
<1>3. /\ calls' = <<>> /\ Len(calls') = 0 /\ DOMAIN calls' = {} /\ at' = "between" /\ declared' = declared
      /\ swtab' = swtab /\ swdefault' = swdefault /\ swactive' = swactive /\ nxtlab' = nxtlab /\ locals' = locals
      /\ given' = given /\ wq' = wq /\ errors' = errors /\ astray \subseteq astray' /\ code'.flow = code.flow
      /\ code' \in CodeType
  <2>1. /\ calls' = <<>> /\ at' = "between" /\ declared' = declared
        /\ swtab' = swtab /\ swdefault' = swdefault /\ swactive' = swactive /\ nxtlab' = nxtlab /\ locals' = locals
        /\ given' = given /\ wq' = wq /\ errors' = errors /\ astray \subseteq astray'
    BY DEF FunctionEnd, block, switch, Astray
  <2>2. code \in CodeType
    BY <1>1, CodeTyped
  <2>3. code'.flow = code.flow /\ code' \in CodeType
    BY <2>2 DEF FunctionEnd, CodeType
  <2>4. Len(<<>>) = 0 /\ DOMAIN <<>> = {}
    OBVIOUS
  <2> QED BY <2>1, <2>3, <2>4
<1>4. Recursion'
  <2>1. Nested'
    BY <1>3 DEF Nested
  <2>2. DOMAIN calls = {1}
    BY <1>1, <1>2, LenProperties
  <2>3. Leavable = {} /\ Leavable' = {}
    BY <1>1, <1>2, <1>3, <2>2 DEF Leavable
  <2>4. PICK p : Queued(p)
    BY DEF DepthInv, Recursion
  <2>5. Queued(p)'
    BY <1>3, <2>3, <2>4, QueueOutside
  <2> QED BY <2>1, <2>5 DEF Recursion
<1>5. Clean' => Clean
  BY <1>3 DEF Clean
<1>6. ASSUME Scoped PROVE Scoped' /\ CaseLabels' = {}
  <2>1. declared < 0
    BY <1>1, <1>6, Typed1 DEF Scoped, Blocks, OpensAt
  <2>2. OpensAt'
    BY <1>1, <1>3, <2>1, Typed1 DEF OpensAt
  <2>3. PICK s, t, o : s = calls' /\ t = locals' /\ o = Opened'
    OBVIOUS
  <2>4. BlocksIn(s, t, o) /\ SwitchesOf(s) = {}
    BY <1>3, <2>3 DEF BlocksIn, SwitchesOf
  <2>5. calls[1].call # "switch" /\ SwitchesOf(calls) = {}
    BY <1>1, <1>2 DEF SwitchesOf
  <2>6. swtab = <<>> /\ swdefault = 0 /\ swactive = FALSE
    BY <1>6, <2>5 DEF Scoped, SwitchesIn
  <2>7. LabelsOf(s, swtab, swdefault) = {}
    <3>1. DOMAIN swtab = {}
      BY <2>6
    <3> QED BY <2>4, <2>6, <3>1 DEF LabelsOf
  <2>8. SwitchesIn(s, swtab, swdefault, swactive, nxtlab)
    BY <2>4, <2>6, <2>7 DEF SwitchesIn
  <2>9. NamesIn(locals', given', nxtlab')
    BY <1>3, <1>6 DEF Scoped
  <2> QED BY <1>3, <2>2, <2>3, <2>4, <2>7, <2>8, <2>9 DEF Scoped, Blocks, CaseLabels
<1>7. ASSUME Sound' PROVE Reached'
  <2>1. Clean /\ Scoped
    BY <1>5, <1>7 DEF Sound, Clean, DepthInv
  <2>2. Grown(code', code.flow)
    BY <1>3 DEF Grown
  <2>3. Reached
    BY <1>3, <1>5, <1>7, <2>2, SoundBack DEF DepthInv
  <2>4. Due' = {}
    <3>1. AwaitedBy(calls') = {}
      BY <1>3 DEF AwaitedBy
    <3>2. CaseLabels' = {}
      BY <1>6, <2>1
    <3> QED BY <3>1, <3>2 DEF Due
  <2>5. LabelsRight(code.flow, {}, OfNames, nxtlab)
    BY <2>3 DEF Reached, LabelsRight
  <2>6. OfNames' = OfNames
    BY <1>3 DEF OfNames
  <2>7. code'.sp \in {None, csp'}
    <3>1. CASE Skips
      BY <2>3, <3>1 DEF FunctionEnd, Reached
    <3>2. CASE ~Skips
      BY <1>1, <3>2, CodeTyped DEF FunctionEnd, CodeType
    <3> QED BY <3>1, <3>2
  <2> QED BY <1>3, <2>4, <2>5, <2>6, <2>7 DEF Reached
<1> QED BY <1>4, <1>5, <1>6, <1>7 DEF DepthInv

LEMMA FunctionInv ==
    ASSUME DepthInv, StmtTypeOK', NEW t, ArgumentsOK(t), dofunction_(t)
    PROVE  DepthInv'
<1>1. StmtTypeOK /\ Nested /\ calls = <<>> /\ at = "between"
  BY DEF DepthInv, Recursion, Nested, dofunction_
<1>2. PICK f : f = Call("function", <<>>, 0)
  OBVIOUS
<1>3. PICK s : s = <<f>>
  OBVIOUS
<1>4. Len(s) = 1 /\ DOMAIN s = {1} /\ s[1] = f /\ f.call = "function" /\ s # <<>>
  BY <1>2, <1>3 DEF Call
<1>5. /\ calls' = s /\ at' = "statement" /\ nxtlab' = nxtlab + 1 /\ csp' = 0 /\ locals' = t
      /\ code' = [sp |-> 0, flow |-> {}] /\ given' = [n \in Names |-> 0] /\ declared' = declared
      /\ swtab' = swtab /\ swdefault' = swdefault /\ swactive' = swactive /\ wq' = wq /\ errors' = errors
      /\ astray' = astray \cup (IF \E i \in DOMAIN t : t[i].label THEN {"untyped"} ELSE {})
      /\ nxtlab \in Nat /\ declared \in Nat \cup {-1}
  BY <1>1, <1>2, <1>3, Typed1 DEF dofunction_, switch, Astray
<1>6. Recursion'
  <2>1. Nested'
    <3>1. 2..Len(s) = {}
      BY <1>4
    <3> QED BY <1>4, <1>5, <3>1 DEF Nested
  <2>2. DOMAIN calls = {}
    BY <1>1
  <2>3. Leavable = {} /\ Leavable' = {}
    BY <1>4, <1>5, <2>2 DEF Leavable
  <2>4. PICK p : Queued(p)
    BY DEF DepthInv, Recursion
  <2>5. Queued(p)'
    BY <1>5, <2>3, <2>4, QueueOutside
  <2> QED BY <2>1, <2>5 DEF Recursion
<1>7. ASSUME Clean' PROVE Scoped' /\ CaseLabels' = {}
  <2>1. Clean /\ Scoped /\ \A i \in DOMAIN t : ~t[i].label
    BY <1>5, <1>7 DEF Clean, DepthInv
  <2>2. declared < 0
    BY <1>1, <1>5, <2>1 DEF Scoped, Blocks, OpensAt
  <2>3. OpensAt'
    BY <1>5, <2>2 DEF OpensAt
  <2>4. PICK o, m, g : o = Opened' /\ m = nxtlab' /\ g = given'
    OBVIOUS
  <2>5. BlocksIn(s, t, o) /\ SwitchesOf(s) = {}
    BY <1>4, OutsideCalls
  <2>6. swtab = <<>> /\ swdefault = 0 /\ swactive = FALSE
    <3>1. SwitchesOf(calls) = {}
      <4>1. Len(<<>>) = 0
        OBVIOUS
      <4> QED BY <1>1, <4>1 DEF SwitchesOf
    <3> QED BY <2>1, <3>1 DEF Scoped, SwitchesIn
  <2>7. LabelsOf(s, swtab, swdefault) = {}
    <3>1. DOMAIN swtab = {}
      BY <2>6
    <3> QED BY <2>5, <2>6, <3>1 DEF LabelsOf
  <2>8. SwitchesIn(s, swtab, swdefault, swactive, m)
    BY <2>5, <2>6, <2>7 DEF SwitchesIn
  <2>9. NamesIn(t, g, m)
    BY <1>5, <2>1, <2>4 DEF NamesIn
  <2> QED BY <1>5, <2>3, <2>4, <2>5, <2>7, <2>8, <2>9 DEF Scoped, Blocks, CaseLabels
<1>8. ASSUME Sound' PROVE Reached'
  <2>1. CaseLabels' = {}
    BY <1>7, <1>8 DEF Sound, Clean
  <2>2. AwaitedBy(calls') = {}
    BY <1>4, <1>5, OutsideCalls
  <2>3. Due' = {}
    BY <2>1, <2>2 DEF Due
  <2>4. LabelsRight({}, {}, OfNames', nxtlab')
    BY DEF LabelsRight
  <2> QED BY <1>5, <2>3, <2>4 DEF Reached
<1> QED BY <1>6, <1>7, <1>8 DEF DepthInv

-----------------------------------------------------------------------------
(* The beginning.                                                          *)

LEMMA StmtInitTypes ==
    StmtInit => StmtTypeOK
<1> SUFFICES ASSUME StmtInit PROVE StmtTypeOK
  OBVIOUS
<1>1. \A S : <<>> \in Seq(S)
  OBVIOUS
<1>2. Len(<<>>) = 0 /\ DOMAIN <<>> = {}
  OBVIOUS
<1>3. TableOK
  BY <1>1, <1>2, StmtAssumption DEF StmtInit, TableOK
<1>4. code \in [sp : Int \cup {None}, flow : SUBSET (Int \X Int)]
  BY DEF StmtInit
<1>5. given \in [Names -> Nat]
  BY DEF StmtInit
<1>6. 0 \in 0..MaxStmts /\ 0 <= WQTAB /\ 0 <= SWTAB
  BY StmtAssumption
<1>7. /\ calls \in Seq(CallRecord) /\ wq \in Seq([sp : Int, loop : Nat, exit : Nat]) /\ swtab \in Seq(Nat)
      /\ Len(wq) <= WQTAB /\ Len(swtab) <= SWTAB
  BY <1>1, <1>2, <1>6 DEF StmtInit
<1>8. /\ at = "between" /\ eof = FALSE /\ stmts = 0 /\ csp = 0 /\ ncmp = 0 /\ nogo = 0 /\ noloc = FALSE
      /\ lastst = "other" /\ nxtlab = 0 /\ swactive = FALSE /\ swdefault = 0 /\ errors = FALSE /\ astray = {}
  BY DEF StmtInit
<1>9. eof \in BOOLEAN /\ noloc \in BOOLEAN /\ swactive \in BOOLEAN /\ errors \in BOOLEAN
  BY <1>8
<1> QED BY <1>3, <1>4, <1>5, <1>6, <1>7, <1>8, <1>9 DEF StmtTypeOK, Leaving

LEMMA StmtInitInv ==
    StmtInit => DepthInv
<1> SUFFICES ASSUME StmtInit PROVE DepthInv
  OBVIOUS
<1>1. /\ calls = <<>> /\ at = "between" /\ declared = -1 /\ csp = 0 /\ wq = <<>> /\ locals = <<>>
      /\ swactive = FALSE /\ swdefault = 0 /\ swtab = <<>> /\ code = [sp |-> None, flow |-> {}]
      /\ given = [n \in Names |-> 0]
  BY DEF StmtInit
<1>2. Len(<<>>) = 0 /\ DOMAIN <<>> = {} /\ <<>> \in Seq(Nat) /\ 2..0 = {} /\ 1..0 = {}
  OBVIOUS
<1>3. Recursion
  <2>1. Nested
    BY <1>1, <1>2 DEF Nested
  <2>2. Leavable = {}
    BY <1>1, <1>2 DEF Leavable
  <2>3. Queued(<<>>)
    BY <1>1, <1>2, <2>2 DEF Queued
  <2> QED BY <2>1, <2>3 DEF Recursion
<1>4. SwitchesOf(calls) = {} /\ LabelsOf(calls, swtab, swdefault) = {} /\ AwaitedBy(calls) = {}
  <2>1. SwitchesOf(calls) = {} /\ AwaitedBy(calls) = {}
    BY <1>1, <1>2 DEF SwitchesOf, AwaitedBy
  <2> QED BY <1>1, <1>2, <2>1 DEF LabelsOf
<1>5. Scoped
  <2>1. OpensAt
    BY <1>1 DEF OpensAt
  <2>2. BlocksIn(calls, locals, Opened)
    BY <1>1, <1>2 DEF BlocksIn
  <2>3. SwitchesIn(calls, swtab, swdefault, swactive, nxtlab)
    BY <1>1, <1>4 DEF SwitchesIn
  <2>4. NamesIn(locals, given, nxtlab)
    BY <1>1, <1>2 DEF NamesIn
  <2> QED BY <2>1, <2>2, <2>3, <2>4 DEF Scoped, Blocks
<1>6. Reached
  <2>1. Due = {}
    BY <1>4 DEF Due, CaseLabels
  <2> QED BY <1>1, <2>1 DEF Reached, LabelsRight
<1> QED BY <1>3, <1>5, <1>6, StmtInitTypes DEF DepthInv

-----------------------------------------------------------------------------
(* The types.                                                              *)

SourceOK ==
    calls \in Seq(CallRecord) /\ at \in {"statement", "done", "between"} /\ eof \in BOOLEAN /\ stmts \in 0..MaxStmts

CountsOK ==
    /\ csp \in Int /\ ncmp \in Nat /\ nogo \in Nat /\ noloc \in BOOLEAN
    /\ lastst \in {"return", "goto", "other"} /\ nxtlab \in Nat

QueueOK == wq \in Seq(WqEntry) /\ Len(wq) <= WQTAB

CasesOK == swactive \in BOOLEAN /\ swdefault \in Nat /\ swtab \in Seq(Nat) /\ Len(swtab) <= SWTAB

PastOK ==
    /\ code \in CodeType /\ given \in [Names -> Nat] /\ errors \in BOOLEAN
    /\ astray \subseteq {"left", "kept", "skipped", "untyped"}

EntryOK(e) ==
    /\ e.name \in Names /\ e.label \in BOOLEAN /\ e.def \in BOOLEAN /\ e.offset \in Int /\ e.size \in Nat

TableIn(t) == t \in Seq(Range(t)) /\ Len(t) <= NUMLOCS /\ \A i \in DOMAIN t : EntryOK(t[i])

LocalsOK == TableIn(locals) /\ declared \in Nat \cup {-1}

LEMMA TypesAre ==
    /\ StmtTypeOK => SourceOK /\ CountsOK /\ LocalsOK /\ QueueOK /\ CasesOK /\ PastOK
    /\ SourceOK' /\ CountsOK' /\ LocalsOK' /\ QueueOK' /\ CasesOK' /\ PastOK' => StmtTypeOK'
<1>1. StmtTypeOK => SourceOK /\ CountsOK /\ LocalsOK /\ QueueOK /\ CasesOK /\ PastOK
  BY DEF StmtTypeOK, TableOK, SourceOK, CountsOK, LocalsOK, QueueOK, CasesOK, PastOK, TableIn, EntryOK, WqEntry,
         CodeType, Leaving
<1>2. SourceOK' /\ CountsOK' /\ LocalsOK' /\ QueueOK' /\ CasesOK' /\ PastOK' => StmtTypeOK'
  BY DEF StmtTypeOK, TableOK, SourceOK, CountsOK, LocalsOK, QueueOK, CasesOK, PastOK, TableIn, EntryOK, WqEntry,
         CodeType, Leaving
<1> QED BY <1>1, <1>2

LEMMA SeqItself ==
    ASSUME NEW S, NEW s \in Seq(S)
    PROVE  s \in Seq(Range(s))
<1>1. PICK n \in Nat : s \in [1..n -> S]
  BY SeqDef
<1>2. \A i \in 1..n : s[i] \in Range(s)
  BY <1>1 DEF Range
<1>3. s \in [1..n -> Range(s)]
  BY <1>1, <1>2
<1> QED BY <1>3, SeqDef

LEMMA TableAppended ==
    ASSUME NEW t, TableIn(t), Len(t) # NUMLOCS, NEW e, EntryOK(e)
    PROVE  TableIn(Append(t, e))
<1> DEFINE S == Range(t) \cup {e}
           t2 == Append(t, e)
<1>1. t \in Seq(S) /\ e \in S
  BY SeqMonotonic DEF TableIn
<1>2. /\ t2 \in Seq(S) /\ Len(t2) = Len(t) + 1 /\ Len(t) \in Nat
      /\ \A k \in 1..Len(t) : t2[k] = t[k]
      /\ t2[Len(t) + 1] = e
  BY <1>1, Appended
<1>3. DOMAIN t = 1..Len(t) /\ DOMAIN t2 = 1..(Len(t) + 1)
  BY <1>1, <1>2, LenProperties
<1> HIDE DEF S, t2
<1>4. \A k \in 1..(Len(t) + 1) : k \in 1..Len(t) \/ k = Len(t) + 1
  BY <1>2
<1>5. t2 \in Seq(Range(t2))
  BY <1>2, SeqItself
<1>6. Len(t2) <= NUMLOCS
  BY <1>2, StmtAssumption DEF TableIn
<1>7. TableIn(t2)
  BY <1>2, <1>3, <1>4, <1>5, <1>6 DEF TableIn
<1> QED BY <1>7 DEF t2

LEMMA TableDefined ==
    ASSUME NEW t, TableIn(t), NEW k \in DOMAIN t
    PROVE  TableIn([t EXCEPT ![k].def = TRUE])
<1> DEFINE e == [t[k] EXCEPT !.def = TRUE]
           S == Range(t) \cup {e}
           t2 == [t EXCEPT ![k] = e]
<1>1. t \in Seq(S) /\ e \in S
  BY SeqMonotonic DEF TableIn
<1>2. k \in 1..Len(t) /\ DOMAIN t = 1..Len(t)
  BY <1>1, LenProperties
<1>3. EntryOK(t[k]) => EntryOK(e)
  BY DEF EntryOK
<1> HIDE DEF e, S
<1>4. /\ t2 \in Seq(S) /\ Len(t2) = Len(t)
      /\ \A j \in 1..Len(t) : t2[j] = IF j = k THEN e ELSE t[j]
  BY <1>1, <1>2, ExceptSeq
<1>5. DOMAIN t2 = 1..Len(t)
  BY <1>4, LenProperties
<1> HIDE DEF t2
<1>6. t2 \in Seq(Range(t2))
  BY <1>4, SeqItself
<1>7. TableIn(t2)
  BY <1>2, <1>3, <1>4, <1>5, <1>6 DEF TableIn
<1> QED BY <1>7 DEF t2, e

LEMMA TableRetained ==
    ASSUME NEW t, TableIn(t), NEW n \in 0..Len(t)
    PROVE  TableIn(Retained(t, n))
<1>1. PICK S, r : S = Range(t) /\ r = Retained(t, n)
  OBVIOUS
<1>2. t \in Seq(S) /\ Len(t) <= NUMLOCS /\ DOMAIN t = 1..Len(t) /\ Len(t) \in Nat
  BY <1>1, LenProperties DEF TableIn
<1>3. /\ r \in Seq(S) /\ Len(r) >= n /\ Len(r) <= Len(t) /\ \A k \in 1..n : r[k] = t[k]
      /\ \A k \in (n + 1)..Len(r) : \E i \in 1..Len(t) : r[k] = t[i]
  BY <1>1, <1>2, RetainedLeft
<1>4. Len(r) \in Nat /\ DOMAIN r = 1..Len(r) /\ r \in Seq(Range(r))
  BY <1>3, LenProperties, SeqItself
<1>5. \A k \in 1..Len(r) : (k \in 1..n /\ k \in 1..Len(t)) \/ k \in (n + 1)..Len(r)
  BY <1>2, <1>3, <1>4
<1>6. \A k \in 1..Len(r) : EntryOK(r[k])
  BY <1>2, <1>3, <1>5 DEF TableIn
<1>7. Len(r) <= NUMLOCS
  BY <1>2, <1>3, <1>4, StmtAssumption
<1>8. TableIn(r)
  BY <1>4, <1>6, <1>7 DEF TableIn
<1> QED BY <1>1, <1>8

LEMMA ErrorTyped ==
    ASSUME NEW b, Error(b)
    PROVE  errors' \in BOOLEAN
BY DEF Error

LEMMA AstrayTyped ==
    ASSUME StmtTypeOK, NEW why, why \subseteq {"left", "kept", "skipped", "untyped"}, Astray(why)
    PROVE  astray' \subseteq {"left", "kept", "skipped", "untyped"}
BY DEF StmtTypeOK, Astray

LEMMA StatementTyped ==
    ASSUME StmtTypeOK, Statement
    PROVE  stmts' \in 0..MaxStmts /\ eof' = eof /\ eof \in BOOLEAN /\ nogo' \in Nat /\ calls # <<>>
<1>1. stmts \in 0..MaxStmts /\ stmts < MaxStmts /\ stmts' = stmts + 1
  BY DEF StmtTypeOK, Statement, Called
<1>2. stmts' \in 0..MaxStmts
  BY <1>1, StmtAssumption
<1>3. nogo' \in Nat
  BY Typed1 DEF Statement, StmtTypeOK
<1> QED BY <1>2, <1>3 DEF Statement, Called, StmtTypeOK

-----------------------------------------------------------------------------
(* The blocks that are open, and ncmp.                                     *)

CompoundsOf(s) == {i \in 1..Len(s) : s[i].call = "compound"}

BlocksCounted == ncmp = Cardinality(CompoundsOf(calls))

LEMMA CountOf ==
    ASSUME NEW s, Len(s) \in Nat
    PROVE  IsFiniteSet(CompoundsOf(s)) /\ Cardinality(CompoundsOf(s)) \in Nat
<1>1. IsFiniteSet(1..Len(s)) /\ CompoundsOf(s) \in SUBSET (1..Len(s))
  BY FS_Interval DEF CompoundsOf
<1> QED BY <1>1, FS_Subset, FS_CardinalityType

LEMMA CountSame ==
    ASSUME NEW s, NEW s2, Len(s2) = Len(s), \A i \in 1..Len(s) : (s2[i].call = "compound") = (s[i].call = "compound")
    PROVE  CompoundsOf(s2) = CompoundsOf(s)
BY DEF CompoundsOf

LEMMA CountAppended ==
    ASSUME NEW s \in Seq(CallRecord), NEW f \in CallRecord
    PROVE  Cardinality(CompoundsOf(Append(s, f)))
              = Cardinality(CompoundsOf(s)) + (IF f.call = "compound" THEN 1 ELSE 0)
<1> DEFINE s2 == Append(s, f)
           n == Len(s) + 1
<1>1. /\ Len(s2) = n /\ Len(s) \in Nat
      /\ \A k \in 1..Len(s) : s2[k] = s[k]
      /\ s2[n] = f
  BY Appended
<1>2. \A k : k \in 1..n <=> k \in 1..Len(s) \/ k = n
  BY <1>1
<1>3. n \notin 1..Len(s)
  BY <1>1
<1> HIDE DEF n, s2
<1>4. n \notin CompoundsOf(s) /\ IsFiniteSet(CompoundsOf(s)) /\ Cardinality(CompoundsOf(s)) \in Nat
  BY <1>1, <1>3, CountOf DEF CompoundsOf
<1>5. CASE f.call = "compound"
  <2>1. CompoundsOf(s2) = CompoundsOf(s) \cup {n}
    BY <1>1, <1>2, <1>5 DEF CompoundsOf
  <2> QED BY <1>4, <1>5, <2>1, FS_AddElement DEF s2
<1>6. CASE f.call # "compound"
  <2>1. CompoundsOf(s2) = CompoundsOf(s)
    BY <1>1, <1>2, <1>6 DEF CompoundsOf
  <2> QED BY <1>4, <1>6, <2>1 DEF s2
<1> QED BY <1>5, <1>6

LEMMA CountFront ==
    ASSUME NEW s \in Seq(CallRecord), s # <<>>
    PROVE  Cardinality(CompoundsOf(s))
              = Cardinality(CompoundsOf(Front(s))) + (IF Last(s).call = "compound" THEN 1 ELSE 0)
<1> DEFINE s2 == Front(s)
           n == Len(s)
<1>1. /\ Len(s2) = n - 1 /\ n \in Nat \ {0}
      /\ \A k \in 1..(n - 1) : s2[k] = s[k]
      /\ Last(s) = s[n]
  BY Fronted
<1>2. \A k : k \in 1..n <=> k \in 1..(n - 1) \/ k = n
  BY <1>1
<1>3. n \notin 1..(n - 1) /\ Len(s2) \in Nat
  BY <1>1
<1> HIDE DEF s2
<1>4. n \notin CompoundsOf(s2) /\ IsFiniteSet(CompoundsOf(s2)) /\ Cardinality(CompoundsOf(s2)) \in Nat
  BY <1>1, <1>3, CountOf DEF CompoundsOf
<1>5. CASE Last(s).call = "compound"
  <2>1. CompoundsOf(s) = CompoundsOf(s2) \cup {n}
    BY <1>1, <1>2, <1>5 DEF CompoundsOf
  <2> QED BY <1>4, <1>5, <2>1, FS_AddElement DEF s2
<1>6. CASE Last(s).call # "compound"
  <2>1. CompoundsOf(s) = CompoundsOf(s2)
    BY <1>1, <1>2, <1>6 DEF CompoundsOf
  <2> QED BY <1>4, <1>6, <2>1 DEF s2
<1> QED BY <1>5, <1>6

-----------------------------------------------------------------------------
(* A statement without others in it keeps the types.                       *)

LEMMA addlabelTyped ==
    ASSUME StmtTypeOK, NEW n \in Names, NEW def \in BOOLEAN, NEW wrong, addlabel(n, def, wrong)
    PROVE  TableIn(locals') /\ nxtlab' \in Nat /\ given' \in [Names -> Nat] /\ errors' \in BOOLEAN
<1>1. TableIn(locals) /\ nxtlab \in Nat /\ given \in [Names -> Nat] /\ nxtlab + 1 \in Nat
  BY TypesAre DEF LocalsOK, CountsOK, PastOK
<1>2. errors' \in BOOLEAN
  BY ErrorTyped DEF addlabel
<1>3. CASE Found(n) # {}
  <2>1. Latest(n) \in DOMAIN locals
    BY <1>3, LatestIs
  <2>2. locals' = locals \/ locals' = [locals EXCEPT ![Latest(n)].def = TRUE]
    BY <1>3 DEF addlabel
  <2>3. TableIn([locals EXCEPT ![Latest(n)].def = TRUE])
    BY <1>1, <2>1, TableDefined
  <2>4. nxtlab' = nxtlab /\ given' = given
    BY <1>3 DEF addlabel
  <2> QED BY <1>1, <1>2, <2>2, <2>3, <2>4
<1>4. CASE Found(n) = {}
  <2> DEFINE e == [name |-> n, label |-> TRUE, def |-> def, offset |-> nxtlab', size |-> 0, is |-> None]
  <2>1. nxtlab' = nxtlab + 1
    BY <1>4 DEF addlabel
  <2>2. EntryOK(e)
    BY <1>1, <2>1 DEF EntryOK
  <2>3. CASE Len(locals) = NUMLOCS
    BY <1>1, <1>2, <1>4, <2>1, <2>3 DEF addlabel
  <2>4. CASE Len(locals) # NUMLOCS
    <3>1. locals' = Append(locals, e) /\ given' = [given EXCEPT ![n] = nxtlab']
      BY <1>4, <2>4 DEF addlabel
    <3>2. given' \in [Names -> Nat]
      BY <1>1, <2>1, <3>1
    <3> HIDE DEF e
    <3>3. TableIn(Append(locals, e))
      BY <1>1, <2>2, <2>4, TableAppended
    <3> QED BY <1>1, <1>2, <2>1, <3>1, <3>2, <3>3
  <2> QED BY <2>3, <2>4
<1> QED BY <1>3, <1>4

LEMMA StayCalls ==
    ASSUME StmtTypeOK, Nested, StayAction
    PROVE  /\ calls' \in Seq(CallRecord) /\ Len(calls') = Len(calls)
           /\ \A i \in 1..Len(calls) : calls'[i].call = calls[i].call
<1>1. calls \in Seq(CallRecord) /\ nxtlab \in Nat
  BY Typed1
<1>2. CASE calls' = calls
  BY <1>1, <1>2
<1>3. ASSUME NEW k \in 1..Len(calls), NEW v, v \in CallRecord, v.call = calls[k].call, calls' = [calls EXCEPT ![k] = v]
      PROVE  /\ calls' \in Seq(CallRecord) /\ Len(calls') = Len(calls)
             /\ \A i \in 1..Len(calls) : calls'[i].call = calls[i].call
  <2>1. /\ [calls EXCEPT ![k] = v] \in Seq(CallRecord) /\ Len([calls EXCEPT ![k] = v]) = Len(calls)
        /\ \A i \in 1..Len(calls) : [calls EXCEPT ![k] = v][i] = IF i = k THEN v ELSE calls[i]
    BY <1>1, <1>3, ExceptSeq
  <2> QED BY <1>3, <2>1
<1>4. ASSUME Switches # {} PROVE Inner \in 1..Len(calls) /\ calls[Inner] \in CallRecord
  <2>1. Inner \in 2..Len(calls)
    BY <1>4, InnerIs
  <2>2. Inner \in 1..Len(calls)
    BY <1>1, <2>1, LenProperties
  <2> QED BY <1>1, <2>2, ElementOfSeq
<1>5. CASE docase /\ calls' # calls
  <2>1. /\ Switches # {} /\ nxtlab' = nxtlab + 1
        /\ calls' = [calls EXCEPT ![Inner].cases = Append(calls[Inner].cases, nxtlab')]
    BY <1>5 DEF docase
  <2>2. PICK k, c, ls, y, x : k = Inner /\ c = calls[k] /\ ls = c.cases /\ y = nxtlab' /\ x = Append(ls, y)
    OBVIOUS
  <2>3. k \in 1..Len(calls) /\ c \in CallRecord
    BY <1>4, <2>1, <2>2
  <2>4. x \in Seq(Nat)
    <3>1. ls \in Seq(Nat)
      <4>1. c.cases \in Seq(Nat)
        BY <2>3 DEF CallRecord
      <4> QED BY <2>2, <4>1
    <3>2. y \in Nat
      BY <1>1, <2>1, <2>2
    <3>3. x = Append(ls, y)
      BY <2>2
    <3> QED BY <3>1, <3>2, <3>3, Appended
  <2>5. [c EXCEPT !.cases = x] \in CallRecord /\ [c EXCEPT !.cases = x].call = c.call
    BY <2>3, <2>4 DEF CallRecord
  <2>6. calls' = [calls EXCEPT ![k] = [c EXCEPT !.cases = x]]
    BY <2>1, <2>2
  <2> QED BY <1>3, <2>2, <2>3, <2>5, <2>6
<1>6. CASE dodefault /\ calls' # calls
  <2>1. Switches # {} /\ nxtlab' = nxtlab + 1 /\ calls' = [calls EXCEPT ![Inner].default = nxtlab']
    BY <1>6 DEF dodefault
  <2>2. PICK k, c, x : k = Inner /\ c = calls[k] /\ x = nxtlab'
    OBVIOUS
  <2>3. k \in 1..Len(calls) /\ c \in CallRecord
    BY <1>4, <2>1, <2>2
  <2>4. x \in Nat
    BY <1>1, <2>1, <2>2
  <2>5. [c EXCEPT !.default = x] \in CallRecord /\ [c EXCEPT !.default = x].call = c.call
    BY <2>3, <2>4 DEF CallRecord
  <2>6. calls' = [calls EXCEPT ![k] = [c EXCEPT !.default = x]]
    BY <2>1, <2>2
  <2> QED BY <1>3, <2>2, <2>3, <2>5, <2>6
<1>7. ~docase /\ ~dodefault => calls' = calls
  BY DEF StayAction, addwhileFails, doreturn, dobreak, docont, dogoto, dolabel, doexpr, Finished
<1> QED BY <1>2, <1>5, <1>6, <1>7

LEMMA StayDeclares ==
    ASSUME StayAction
    PROVE  /\ Statement /\ declared' = -1 /\ ncmp' = ncmp /\ wq' = wq
           /\ at' = "done" /\ lastst' \in {"return", "goto", "other", lastst}
BY DEF StayAction, addwhileFails, docase, dodefault, doreturn, dobreak, docont, dogoto, dolabel, doexpr, Finished

LEMMA StayTypes ==
    ASSUME StmtTypeOK, Nested, StayAction
    PROVE  StmtTypeOK'
<1>1. SourceOK /\ CountsOK /\ LocalsOK /\ QueueOK /\ CasesOK /\ PastOK /\ Opened \in Int
  BY TypesAre, CodeTyped
<1>2. /\ Statement /\ declared' = -1 /\ ncmp' = ncmp /\ wq' = wq
      /\ at' = "done" /\ lastst' \in {"return", "goto", "other", lastst}
  BY StayDeclares
<1>3. SourceOK' /\ nogo' \in Nat
  BY <1>2, StatementTyped, StayCalls DEF SourceOK
<1>4. csp' \in Int
  <2>1. wq # <<>> => Last(wq).sp \in Int
    BY EntryTyped DEF WqEntry
  <2>2. Loops # {} => wq[CHOOSE j \in Loops : \A m \in Loops : m <= j].sp \in Int
    BY EntryTyped DEF WqEntry
  <2>3. CASE dobreak
    BY <1>1, <2>1, <2>3 DEF dobreak, OutOfContext, Leave
  <2>4. CASE docont
    BY <1>1, <2>2, <2>4 DEF docont, OutOfContext, Leave
  <2>5. CASE ~dobreak /\ ~docont
    <3>1. csp' = Opened
      BY <2>5 DEF StayAction, addwhileFails, docase, dodefault, doreturn, dogoto, dolabel, doexpr
    <3> QED BY <1>1, <3>1
  <2> QED BY <2>3, <2>4, <2>5
<1>5. noloc' \in BOOLEAN
  <2>1. CASE dogoto
    <3>1. noloc' = (noloc \/ nogo' <= 0)
      BY <2>1 DEF dogoto
    <3> QED BY <3>1, Zenon
  <2>2. CASE ~dogoto
    <3>1. noloc' = noloc
      BY <2>2 DEF StayAction, addwhileFails, docase, dodefault, doreturn, dobreak, docont, dolabel, doexpr
    <3> QED BY <1>1, <3>1 DEF CountsOK
  <2> QED BY <2>1, <2>2
<1>6. TableIn(locals') /\ nxtlab' \in Nat /\ given' \in [Names -> Nat]
  <2>1. CASE dogoto
    <3>1. PICK n \in Names : addlabel(n, FALSE, nogo' > 0)
      BY <2>1 DEF dogoto
    <3> QED BY <3>1, addlabelTyped
  <2>2. CASE dolabel
    <3>1. PICK n \in Names : addlabel(n, TRUE, FALSE)
      BY <2>2 DEF dolabel
    <3> QED BY <3>1, addlabelTyped
  <2>3. CASE ~dogoto /\ ~dolabel
    <3>1. locals' = locals /\ given' = given /\ (nxtlab' = nxtlab \/ nxtlab' = nxtlab + 1)
      BY <2>3 DEF StayAction, addwhileFails, docase, dodefault, doreturn, dobreak, docont, doexpr
    <3> QED BY <1>1, <3>1 DEF LocalsOK, CountsOK, PastOK
  <2> QED BY <2>1, <2>2, <2>3
<1>7. errors' \in BOOLEAN
  <2>1. CASE addwhileFails \/ docase \/ dodefault \/ dobreak \/ docont
    BY <2>1, ErrorTyped DEF addwhileFails, docase, dodefault, dobreak, docont
  <2>2. CASE doreturn \/ doexpr
    <3>1. errors' = errors
      BY <2>2 DEF doreturn, doexpr
    <3> QED BY <1>1, <3>1 DEF PastOK
  <2>3. CASE dogoto
    <3>1. PICK n \in Names : addlabel(n, FALSE, nogo' > 0)
      BY <2>3 DEF dogoto
    <3> QED BY <3>1, addlabelTyped
  <2>4. CASE dolabel
    <3>1. PICK n \in Names : addlabel(n, TRUE, FALSE)
      BY <2>4 DEF dolabel
    <3> QED BY <3>1, addlabelTyped
  <2> QED BY <2>1, <2>2, <2>3, <2>4 DEF StayAction
<1>8. astray' \subseteq {"left", "kept", "skipped", "untyped"}
  <2>1. CASE dobreak \/ docont
    <3>1. astray' = astray \/ astray' = astray \cup {"left"} \/ astray' = astray \cup {}
      BY <2>1 DEF dobreak, docont, OutOfContext, Leave, Astray
    <3> QED BY <1>1, <3>1 DEF PastOK
  <2>2. CASE ~dobreak /\ ~docont
    <3>1. astray' = astray
      BY <2>2 DEF StayAction, addwhileFails, docase, dodefault, doreturn, dogoto, dolabel, doexpr
    <3> QED BY <1>1, <3>1 DEF PastOK
  <2> QED BY <2>1, <2>2
<1>9. CasesOK'
  <2>1. CASE docase
    <3>1. CASE Len(swtab) = SWTAB
      BY <1>1, <2>1, <3>1 DEF docase, CasesOK
    <3>2. CASE Len(swtab) # SWTAB
      <4>1. swtab' = Append(swtab, nxtlab') /\ swactive' = swactive /\ swdefault' = swdefault
        BY <2>1, <3>2 DEF docase
      <4>2. swtab' \in Seq(Nat) /\ Len(swtab') = Len(swtab) + 1 /\ Len(swtab) \in Nat
        BY <1>1, <1>6, <4>1, Appended DEF CasesOK
      <4>3. Len(swtab') <= SWTAB
        BY <1>1, <3>2, <4>2, StmtAssumption DEF CasesOK
      <4> QED BY <1>1, <4>1, <4>2, <4>3 DEF CasesOK
    <3> QED BY <3>1, <3>2
  <2>2. CASE dodefault
    <3>1. swtab' = swtab /\ swactive' = swactive /\ swdefault' = nxtlab'
      BY <2>2 DEF dodefault
    <3> QED BY <1>1, <1>6, <3>1 DEF CasesOK
  <2>3. CASE ~docase /\ ~dodefault
    <3>1. swtab' = swtab /\ swactive' = swactive /\ swdefault' = swdefault
      BY <2>3 DEF StayAction, addwhileFails, doreturn, dobreak, docont, dogoto, dolabel, doexpr, switch
    <3> QED BY <1>1, <3>1 DEF CasesOK
  <2> QED BY <2>1, <2>2, <2>3
<1>10. code' \in CodeType
  BY StayGrows DEF Grown
<1>11. CountsOK'
  BY <1>1, <1>2, <1>3, <1>4, <1>5, <1>6 DEF CountsOK
<1>12. QueueOK' /\ LocalsOK' /\ PastOK'
  BY <1>1, <1>2, <1>6, <1>7, <1>8, <1>10 DEF QueueOK, LocalsOK, PastOK
<1> QED BY <1>3, <1>9, <1>11, <1>12, TypesAre

LEMMA StayCounts ==
    ASSUME StmtTypeOK, Nested, BlocksCounted, StayAction
    PROVE  BlocksCounted'
<1>1. PICK s : s = calls'
  OBVIOUS
<1>2. CompoundsOf(s) = CompoundsOf(calls)
  BY <1>1, StayCalls, CountSame
<1> QED BY <1>1, <1>2, StayDeclares DEF BlocksCounted

-----------------------------------------------------------------------------
(* So do a call and its end.                                               *)

LEMMA PushShape ==
    ASSUME StmtTypeOK, PushStep
    PROVE  \E name \in CallNames, ls \in Seq(Nat) :
              /\ calls' = Append(calls, Call(name, ls, Opened))
              /\ ncmp' = ncmp + (IF name = "compound" THEN 1 ELSE 0)
<1>1. nxtlab \in Nat /\ ncmp \in Nat
  BY TypesAre DEF CountsOK
<1>2. Loop \in Nat /\ Exit \in Nat /\ nxtlab + 1 \in Nat /\ nxtlab + 3 \in Nat /\ ncmp + 0 = ncmp
  BY <1>1 DEF Loop, Exit
<1>3. CASE compound
  <2>1. <<>> \in Seq(Nat) /\ "compound" \in CallNames
    BY DEF CallNames
  <2>2. calls' = Append(calls, Call("compound", <<>>, Opened)) /\ ncmp' = ncmp + 1
    BY <1>3 DEF compound
  <2> QED BY <2>1, <2>2
<1>4. ASSUME NEW name \in CallNames \ {"compound"}, NEW a \in Nat, NEW b \in Nat, ncmp' = ncmp,
             calls' = Append(calls, Call(name, <<a, b>>, Opened)) \/ calls' = Append(calls, Call(name, <<a>>, Opened))
      PROVE  \E nm \in CallNames, ls \in Seq(Nat) :
                /\ calls' = Append(calls, Call(nm, ls, Opened))
                /\ ncmp' = ncmp + (IF nm = "compound" THEN 1 ELSE 0)
  <2>1. <<a, b>> \in Seq(Nat) /\ <<a>> \in Seq(Nat)
    BY TwoLabels
  <2>2. name # "compound" /\ name \in CallNames
    OBVIOUS
  <2> QED BY <1>2, <1>4, <2>1, <2>2
<1>5. CASE doif
  <2>1. calls' = Append(calls, Call("if", <<nxtlab + 1>>, Opened)) /\ ncmp' = ncmp
    BY <1>5 DEF doif, Waits
  <2> QED BY <1>2, <1>4, <2>1 DEF CallNames
<1>6. CASE dowhile
  <2>1. calls' = Append(calls, Call("while", <<Loop, Exit>>, Opened)) /\ ncmp' = ncmp
    BY <1>6 DEF dowhile, Waits
  <2> QED BY <1>2, <1>4, <2>1 DEF CallNames
<1>7. CASE dodo
  <2>1. calls' = Append(calls, Call("do", <<Loop, Exit>>, Opened)) /\ ncmp' = ncmp
    BY <1>7 DEF dodo, Waits
  <2> QED BY <1>2, <1>4, <2>1 DEF CallNames
<1>8. CASE dofor
  <2>1. calls' = Append(calls, Call("for", <<Loop, Exit>>, Opened)) /\ ncmp' = ncmp
    BY <1>8 DEF dofor, Waits
  <2> QED BY <1>2, <1>4, <2>1 DEF CallNames
<1>9. CASE doswitch
  <2>1. calls' = Append(calls, Call("switch", <<Exit, nxtlab + 3>>, Opened)) /\ ncmp' = ncmp
    BY <1>9 DEF doswitch, Waits
  <2> QED BY <1>2, <1>4, <2>1 DEF CallNames
<1> QED BY <1>3, <1>5, <1>6, <1>7, <1>8, <1>9 DEF PushStep

LEMMA PushTypes ==
    ASSUME StmtTypeOK, PushStep
    PROVE  StmtTypeOK' /\ (BlocksCounted => BlocksCounted')
<1>1. SourceOK /\ CountsOK /\ LocalsOK /\ QueueOK /\ CasesOK /\ PastOK /\ Opened \in Int
  BY TypesAre, CodeTyped
<1>2. PICK name \in CallNames, ls \in Seq(Nat) :
              /\ calls' = Append(calls, Call(name, ls, Opened))
              /\ ncmp' = ncmp + (IF name = "compound" THEN 1 ELSE 0)
  BY PushShape
<1>3. PICK f : f = Call(name, ls, Opened)
  OBVIOUS
<1>4. f \in CallRecord /\ f.call = name
  BY <1>1, <1>3, CallTyped
<1>5. calls' = Append(calls, f) /\ calls' \in Seq(CallRecord) /\ calls \in Seq(CallRecord)
  BY <1>1, <1>2, <1>3, <1>4, Appended DEF SourceOK
<1>6. /\ Statement /\ csp' = Opened /\ declared' \in {0, -1} /\ at' \in {"done", "statement"}
      /\ noloc' = noloc /\ lastst' = lastst /\ locals' = locals /\ given' = given /\ errors' = errors /\ astray' = astray
      /\ swtab' = swtab
  BY DEF PushStep, compound, doif, dowhile, dodo, dofor, doswitch, addwhile, Waits, switch
<1>7. SourceOK' /\ nogo' \in Nat
  BY <1>1, <1>5, <1>6, StatementTyped DEF SourceOK
<1>8. ncmp' \in Nat /\ nxtlab' \in Nat
  <2>1. ncmp \in Nat /\ nxtlab \in Nat
    BY <1>1 DEF CountsOK
  <2>2. nxtlab' \in {nxtlab, nxtlab + 1, nxtlab + 2, nxtlab + 3, nxtlab + 4}
    BY DEF PushStep, compound, doif, dowhile, dodo, dofor, doswitch, Exit
  <2> QED BY <1>2, <2>1, <2>2
<1>9. CountsOK' /\ LocalsOK'
  BY <1>1, <1>6, <1>7, <1>8 DEF CountsOK, LocalsOK
<1>10. QueueOK'
  <2>1. CASE compound \/ doif
    <3>1. wq' = wq
      BY <2>1 DEF compound, doif
    <3> QED BY <1>1, <3>1 DEF QueueOK
  <2>2. CASE ~(compound \/ doif)
    <3>1. Len(wq) < WQTAB /\ \E loop \in {Loop, 0} : wq' = Append(wq, [sp |-> Opened, loop |-> loop, exit |-> Exit])
      BY <2>2 DEF PushStep, dowhile, dodo, dofor, doswitch, addwhile
    <3>2. PICK loop \in {Loop, 0} : wq' = Append(wq, [sp |-> Opened, loop |-> loop, exit |-> Exit])
      BY <3>1
    <3>3. [sp |-> Opened, loop |-> loop, exit |-> Exit] \in WqEntry
      BY <1>1 DEF WqEntry, Loop, Exit, CountsOK
    <3>4. wq' \in Seq(WqEntry) /\ Len(wq') = Len(wq) + 1 /\ Len(wq) \in Nat
      BY <1>1, <3>2, <3>3, Appended DEF QueueOK
    <3>5. Len(wq') <= WQTAB
      BY <3>1, <3>4, StmtAssumption
    <3> QED BY <3>4, <3>5 DEF QueueOK
  <2> QED BY <2>1, <2>2
<1>11. CasesOK'
  <2>1. CASE doswitch
    BY <1>1, <1>6, <2>1 DEF doswitch, CasesOK
  <2>2. CASE ~doswitch
    <3>1. swactive' = swactive /\ swdefault' = swdefault
      BY <2>2 DEF PushStep, compound, doif, dowhile, dodo, dofor, switch
    <3> QED BY <1>1, <1>6, <3>1 DEF CasesOK
  <2> QED BY <2>1, <2>2
<1>12. PastOK'
  <2>1. code' \in CodeType
    BY PushGrows DEF Grown
  <2> QED BY <1>1, <1>6, <2>1 DEF PastOK
<1>13. BlocksCounted => BlocksCounted'
  <2>1. Cardinality(CompoundsOf(Append(calls, f)))
              = Cardinality(CompoundsOf(calls)) + (IF f.call = "compound" THEN 1 ELSE 0)
    BY <1>4, <1>5, CountAppended
  <2> QED BY <1>2, <1>4, <1>5, <2>1 DEF BlocksCounted
<1> QED BY <1>7, <1>9, <1>10, <1>11, <1>12, <1>13, TypesAre

LEMMA CountsPop ==
    ASSUME StmtTypeOK, BlocksCounted, calls # <<>>, calls' = Front(calls),
           ncmp' = IF Top.call = "compound" THEN ncmp - 1 ELSE ncmp
    PROVE  BlocksCounted' /\ ncmp' \in Nat
<1>1. calls \in Seq(CallRecord) /\ Front(calls) \in Seq(CallRecord)
  BY Typed1, Fronted
<1>2. PICK s : s = Front(calls)
  OBVIOUS
<1>3. Cardinality(CompoundsOf(calls)) = Cardinality(CompoundsOf(s)) + (IF Top.call = "compound" THEN 1 ELSE 0)
  BY <1>1, <1>2, CountFront DEF Top
<1>4. Cardinality(CompoundsOf(s)) \in Nat
  BY <1>1, <1>2, LenProperties, CountOf
<1>5. ncmp' = Cardinality(CompoundsOf(s))
  BY <1>3, <1>4 DEF BlocksCounted
<1> QED BY <1>2, <1>4, <1>5 DEF BlocksCounted

LEMMA delwhileTyped ==
    ASSUME QueueOK
    PROVE  delwhile \in Seq(WqEntry) /\ Len(delwhile) <= WQTAB
<1>1. CASE wq = <<>>
  BY <1>1 DEF QueueOK, delwhile
<1>2. CASE wq # <<>>
  <2>1. Front(wq) \in Seq(WqEntry) /\ Len(Front(wq)) = Len(wq) - 1 /\ Len(wq) \in Nat
    BY <1>2, Fronted DEF QueueOK
  <2>2. Len(Front(wq)) <= WQTAB
    BY <2>1, StmtAssumption DEF QueueOK
  <2> QED BY <1>2, <2>1, <2>2 DEF delwhile
<1> QED BY <1>1, <1>2

LEMMA PopTypes ==
    ASSUME StmtTypeOK, Nested, BlocksCounted, PopStep
    PROVE  StmtTypeOK' /\ BlocksCounted'
<1>1. SourceOK /\ CountsOK /\ LocalsOK /\ QueueOK /\ CasesOK /\ PastOK /\ calls \in Seq(CallRecord)
  BY TypesAre, Typed1
<1>2. PlainPop
  BY PopIs
<1>3. /\ calls # <<>> /\ calls' = Front(calls) /\ at' = "done" /\ csp' = csp /\ declared' = declared
      /\ nxtlab' = nxtlab /\ locals' = locals /\ given' = given /\ astray' = astray /\ Top.call # "function"
      /\ Top.call # "compound"
  BY <1>2 DEF PlainPop
<1>4. /\ eof' = eof /\ stmts' = stmts /\ lastst' = "other" /\ ncmp' = ncmp /\ nogo' = nogo /\ noloc' = noloc
  BY DEF PopStep, IfEnd, ElseEnd, LoopEnd, DoEnd, SwitchEnd, Complete, block
<1>5. SourceOK'
  BY <1>1, <1>3, <1>4, Fronted DEF SourceOK
<1>6. CountsOK' /\ LocalsOK'
  BY <1>1, <1>3, <1>4 DEF CountsOK, LocalsOK
<1>7. QueueOK'
  <2>1. wq' = delwhile \/ wq' = wq
    BY <1>2 DEF PlainPop
  <2> QED BY <1>1, <2>1, delwhileTyped DEF QueueOK
<1>8. CasesOK'
  <2>1. CASE Top.call = "switch"
    <3>1. PICK n, d, a : n = Top.swnex /\ d = Top.swdef /\ a = Top.swact
      OBVIOUS
    <3>2. swtab' = SubSeq(swtab, 1, n) /\ swdefault' = d /\ swactive' = a
      BY <1>2, <2>1, <3>1 DEF PlainPop, SwitchRestored
    <3>3. Top \in CallRecord /\ n \in 0..Len(swtab)
      BY <1>1, <1>3, <3>1, TopIs
    <3>4. d \in Nat /\ a \in BOOLEAN
      BY <3>1, <3>3 DEF CallRecord
    <3>5. swtab \in Seq(Nat) /\ Len(swtab) \in Nat /\ Len(swtab) <= SWTAB
      BY <1>1, LenProperties DEF CasesOK
    <3>6. \A i \in 1..n : i \in 1..Len(swtab)
      BY <3>3, <3>5
    <3>7. \A i \in 1..n : swtab[i] \in Nat
      BY <3>5, <3>6, ElementOfSeq
    <3>8. SubSeq(swtab, 1, n) \in Seq(Nat) /\ Len(SubSeq(swtab, 1, n)) = n
      <4>1. n \in Nat /\ 1 \in 1..(Len(swtab) + 1)
        BY <3>3, <3>5
      <4> QED BY <3>3, <3>5, <3>7, <4>1, SubSeqProperties
    <3>9. n <= SWTAB
      BY <3>3, <3>5, StmtAssumption
    <3> QED BY <3>2, <3>4, <3>8, <3>9 DEF CasesOK
  <2>2. CASE Top.call # "switch"
    BY <1>1, <1>2, <2>2 DEF PlainPop, CasesOK, switch
  <2> QED BY <2>1, <2>2
<1>9. PastOK'
  <2>1. code' \in CodeType
    BY PopGrows DEF Grown
  <2>2. errors' \in BOOLEAN
    <3>1. CASE DoEnd
      BY <3>1, ErrorTyped DEF DoEnd
    <3>2. CASE ~DoEnd
      <4>1. errors' = errors
        BY <3>2 DEF PopStep, IfEnd, ElseEnd, LoopEnd, SwitchEnd
      <4> QED BY <1>1, <4>1 DEF PastOK
    <3> QED BY <3>1, <3>2
  <2> QED BY <1>1, <1>3, <2>1, <2>2 DEF PastOK
<1>10. BlocksCounted'
  BY <1>3, <1>4, CountsPop
<1> QED BY <1>5, <1>6, <1>7, <1>8, <1>9, <1>10, TypesAre

-----------------------------------------------------------------------------
(* And the other steps.                                                    *)

LEMMA BlockTypes ==
    ASSUME StmtTypeOK, Nested, BlocksCounted, CompoundEnd
    PROVE  StmtTypeOK' /\ BlocksCounted'
<1>1. SourceOK /\ CountsOK /\ LocalsOK /\ QueueOK /\ CasesOK /\ PastOK /\ calls \in Seq(CallRecord)
  BY TypesAre, Typed1
<1>2. /\ calls # <<>> /\ calls' = Front(calls) /\ Top.call = "compound" /\ at' = at /\ eof' = eof /\ stmts' = stmts
      /\ lastst' = lastst /\ ncmp' = ncmp - 1 /\ declared' = -1 /\ nogo' = nogo /\ noloc' = noloc /\ nxtlab' = nxtlab
      /\ wq' = wq /\ given' = given /\ swtab' = swtab /\ swdefault' = swdefault /\ swactive' = swactive
      /\ locals' = Retained(locals, Top.savloc)
  BY DEF CompoundEnd, Returned, switch
<1>3. BlocksCounted' /\ ncmp' \in Nat
  BY <1>2, CountsPop
<1>4. csp' \in Int /\ Top.savloc \in 0..Len(locals)
  BY BlockEnds
<1>5. SourceOK'
  BY <1>1, <1>2, Fronted DEF SourceOK
<1>6. CountsOK'
  BY <1>1, <1>2, <1>3, <1>4 DEF CountsOK
<1>7. LocalsOK'
  <2>1. PICK t, n : t = locals /\ n = Top.savloc
    OBVIOUS
  <2>2. TableIn(Retained(t, n))
    BY <1>1, <1>4, <2>1, TableRetained DEF LocalsOK
  <2> QED BY <1>2, <2>1, <2>2 DEF LocalsOK
<1>8. QueueOK' /\ CasesOK'
  BY <1>1, <1>2 DEF QueueOK, CasesOK
<1>9. PastOK'
  <2>1. code' \in CodeType
    BY BlockGrows DEF Grown
  <2>2. errors' \in BOOLEAN
    BY ErrorTyped DEF CompoundEnd
  <2>3. astray' = astray \cup {"kept"} \/ astray' = astray \cup {}
    BY DEF CompoundEnd, Astray
  <2> QED BY <1>1, <1>2, <2>1, <2>2, <2>3 DEF PastOK
<1> QED BY <1>3, <1>5, <1>6, <1>7, <1>8, <1>9, TypesAre

LEMMA SkipsTyped ==
    ASSUME PastOK, Astray(SkipsLive)
    PROVE  astray' \subseteq {"left", "kept", "skipped", "untyped"}
<1>1. astray' = astray \cup {"skipped"} \/ astray' = astray \cup {}
  BY DEF Astray, SkipsLive
<1> QED BY <1>1 DEF PastOK

LEMMA ElseTypes ==
    ASSUME StmtTypeOK, Nested, BlocksCounted, Else
    PROVE  StmtTypeOK' /\ BlocksCounted'
<1>1. SourceOK /\ CountsOK /\ LocalsOK /\ QueueOK /\ CasesOK /\ PastOK
  BY TypesAre
<1>2. PICK g \in CallRecord, x \in Nat :
              /\ x = nxtlab + 1 /\ nxtlab' = x /\ calls' = Append(Front(calls), g) /\ g \in CallRecord
              /\ g.call = "else" /\ g.labels = <<x>> /\ SameBlock(g, Top)
              /\ Len(calls') = Len(calls) /\ calls' \in Seq(CallRecord) /\ Len(calls) >= 2
              /\ \A i \in 1..(Len(calls) - 1) : calls'[i] = calls[i]
              /\ calls'[Len(calls)] = g /\ calls[Len(calls)] = Top /\ Top.call = "if"
              /\ \A i \in 1..Len(calls) : SameBlock(calls'[i], calls[i])
  BY ElseCalls
<1>3. /\ at' = "statement" /\ eof' = eof /\ stmts' = stmts /\ csp' = csp /\ declared' = declared /\ ncmp' = ncmp
      /\ nogo' = nogo /\ noloc' = noloc /\ lastst' = lastst /\ locals' = locals /\ wq' = wq /\ swtab' = swtab
      /\ swdefault' = swdefault /\ swactive' = swactive /\ given' = given /\ errors' = errors /\ Astray(SkipsLive)
  BY DEF Else, block, switch
<1>4. SourceOK' /\ CountsOK' /\ LocalsOK' /\ QueueOK' /\ CasesOK'
  BY <1>1, <1>2, <1>3 DEF SourceOK, CountsOK, LocalsOK, QueueOK, CasesOK
<1>5. PastOK'
  <2>1. code' \in CodeType
    BY ElseGrows DEF Grown
  <2> QED BY <1>1, <1>3, <2>1, SkipsTyped DEF PastOK
<1>6. BlocksCounted'
  <2>1. PICK s : s = calls'
    OBVIOUS
  <2>2. CompoundsOf(s) = CompoundsOf(calls)
    <3>1. Len(s) = Len(calls) /\ \A i \in 1..Len(calls) : (s[i].call = "compound") = (calls[i].call = "compound")
      BY <1>2, <2>1 DEF SameBlock
    <3> QED BY <3>1, CountSame
  <2> QED BY <1>3, <2>1, <2>2 DEF BlocksCounted
<1> QED BY <1>4, <1>5, <1>6, TypesAre

LEMMA DeclareTypes ==
    ASSUME StmtTypeOK, BlocksCounted, NEW n \in Names, NEW z \in Nat, NEW what, declloc_(n, z, what)
    PROVE  StmtTypeOK' /\ BlocksCounted'
<1>1. SourceOK /\ CountsOK /\ LocalsOK /\ QueueOK /\ CasesOK /\ PastOK
  BY TypesAre
<1>2. /\ Called /\ stmts' = stmts + 1 /\ at' = "done" /\ calls' = calls /\ eof' = eof /\ csp' = csp /\ ncmp' = ncmp
      /\ nogo' = nogo /\ noloc' = noloc /\ lastst' = lastst /\ nxtlab' = nxtlab /\ wq' = wq /\ swtab' = swtab
      /\ swdefault' = swdefault /\ swactive' = swactive /\ code' = code /\ given' = given /\ astray' = astray
      /\ declared' = declared + z
  BY DEF declloc_, switch
<1>3. SourceOK'
  <2>1. stmts' \in 0..MaxStmts
    BY <1>1, <1>2, StmtAssumption DEF SourceOK, Called
  <2> QED BY <1>1, <1>2, <2>1 DEF SourceOK
<1>4. CountsOK' /\ QueueOK' /\ CasesOK'
  BY <1>1, <1>2 DEF CountsOK, QueueOK, CasesOK
<1>5. declared' \in Nat \cup {-1}
  <2>1. declared \in Nat \cup {-1}
    BY <1>1 DEF LocalsOK
  <2> QED BY <1>2, <2>1
<1>6. TableIn(locals')
  <2> DEFINE e == [name |-> n, label |-> FALSE, def |-> FALSE, offset |-> csp - declared', size |-> z, is |-> what]
  <2>1. EntryOK(e)
    BY <1>1, <1>5 DEF EntryOK, CountsOK
  <2>2. locals' = IF Len(locals) = NUMLOCS THEN locals ELSE Append(locals, e)
    BY DEF declloc_
  <2> HIDE DEF e
  <2> QED BY <1>1, <2>1, <2>2, TableAppended DEF LocalsOK
<1>7. PastOK'
  <2>1. errors' \in BOOLEAN
    BY ErrorTyped DEF declloc_
  <2> QED BY <1>1, <1>2, <2>1 DEF PastOK
<1>8. BlocksCounted'
  BY <1>2 DEF BlocksCounted
<1> QED BY <1>3, <1>4, <1>5, <1>6, <1>7, <1>8, TypesAre DEF LocalsOK

LEMMA QuietTypes ==
    ASSUME StmtTypeOK, BlocksCounted, NoStatement \/ EndOfSource \/ Elsewhere \/ UNCHANGED statement
    PROVE  StmtTypeOK' /\ BlocksCounted'
<1>1. SourceOK /\ CountsOK /\ LocalsOK /\ QueueOK /\ CasesOK /\ PastOK
  BY TypesAre
<1>2. Quiet
  BY QuietSteps
<1>3. /\ calls' = calls /\ csp' = csp /\ declared' = declared /\ nxtlab' = nxtlab /\ locals' = locals /\ wq' = wq
      /\ swactive' = swactive /\ swdefault' = swdefault /\ swtab' = swtab /\ code' = code /\ given' = given
      /\ errors' = errors /\ astray' = astray /\ at' \in {at, "done"}
  BY <1>2 DEF Quiet
<1>4. ncmp' = ncmp /\ nogo' = nogo /\ noloc' = noloc /\ lastst' = lastst /\ eof' \in {eof, TRUE}
  BY DEF NoStatement, EndOfSource, Elsewhere, statement, source, block
<1>5. stmts' \in 0..MaxStmts
  <2>1. stmts' = stmts \/ (stmts < MaxStmts /\ stmts' = stmts + 1)
    BY DEF NoStatement, EndOfSource, Elsewhere, statement, source
  <2> QED BY <1>1, <2>1, StmtAssumption DEF SourceOK
<1>6. SourceOK'
  <2>1. eof' \in BOOLEAN
    BY <1>1, <1>4 DEF SourceOK
  <2> QED BY <1>1, <1>3, <1>5, <2>1 DEF SourceOK
<1>7. CountsOK' /\ LocalsOK' /\ QueueOK' /\ CasesOK' /\ PastOK' /\ BlocksCounted'
  BY <1>1, <1>3, <1>4 DEF CountsOK, LocalsOK, QueueOK, CasesOK, PastOK, BlocksCounted
<1> QED BY <1>6, <1>7, TypesAre

LEMMA FunctionEndTypes ==
    ASSUME StmtTypeOK, Nested, BlocksCounted, FunctionEnd
    PROVE  StmtTypeOK' /\ BlocksCounted'
<1>1. SourceOK /\ CountsOK /\ LocalsOK /\ QueueOK /\ CasesOK /\ PastOK
  BY TypesAre
<1>2. /\ calls' = <<>> /\ at' = "between" /\ eof' = eof /\ stmts' = stmts /\ declared' = declared /\ ncmp' = ncmp
      /\ nogo' = nogo /\ noloc' = noloc /\ lastst' = lastst /\ nxtlab' = nxtlab /\ locals' = locals /\ wq' = wq
      /\ swtab' = swtab /\ swdefault' = swdefault /\ swactive' = swactive /\ given' = given /\ errors' = errors
      /\ Astray(SkipsLive) /\ csp' \in {csp, 0}
  BY DEF FunctionEnd, block, switch
<1>3. SourceOK' /\ CountsOK' /\ LocalsOK' /\ QueueOK' /\ CasesOK'
  <2>1. <<>> \in Seq(CallRecord) /\ csp' \in Int
    BY <1>1, <1>2 DEF CountsOK
  <2> QED BY <1>1, <1>2, <2>1 DEF SourceOK, CountsOK, LocalsOK, QueueOK, CasesOK
<1>4. PastOK'
  <2>1. code' \in CodeType
    BY <1>1 DEF FunctionEnd, PastOK, CodeType
  <2> QED BY <1>1, <1>2, <2>1, SkipsTyped DEF PastOK
<1>5. BlocksCounted'
  <2>1. calls \in Seq(CallRecord) /\ Len(calls) \in Nat \ {0} /\ calls # <<>> /\ Top = calls[Len(calls)] /\ Top.call = "function"
    <3>1. calls \in Seq(CallRecord) /\ calls # <<>> /\ Top.call = "function"
      BY Typed1 DEF FunctionEnd, Returned
    <3> QED BY <3>1, Fronted DEF Top
  <2>2. Len(calls) = 1
    <3>1. Len(calls) \notin 2..Len(calls)
      BY <2>1 DEF Nested
    <3>2. ASSUME NEW n \in Nat \ {0}, n \notin 2..n PROVE n = 1
      BY <3>2
    <3> QED BY <2>1, <3>1, <3>2
  <2>3. CompoundsOf(calls) = {} /\ CompoundsOf(<<>>) = {}
    <3>1. 1..0 = {} /\ Len(<<>>) = 0 /\ \A i \in 1..1 : i = 1
      OBVIOUS
    <3> QED BY <2>1, <2>2, <3>1 DEF CompoundsOf
  <2> QED BY <1>2, <2>3 DEF BlocksCounted
<1> QED BY <1>3, <1>4, <1>5, TypesAre

LEMMA FunctionTypes ==
    ASSUME StmtTypeOK, Nested, BlocksCounted, NEW t, ArgumentsOK(t), dofunction_(t)
    PROVE  StmtTypeOK' /\ BlocksCounted'
<1>1. SourceOK /\ CountsOK /\ LocalsOK /\ QueueOK /\ CasesOK /\ PastOK
  BY TypesAre
<1>2. PICK f, s : f = Call("function", <<>>, 0) /\ s = <<f>>
  OBVIOUS
<1>3. f \in CallRecord /\ f.call = "function" /\ s \in Seq(CallRecord) /\ Len(s) = 1 /\ s[1] = f
  <2>1. <<>> \in Seq(Nat) /\ "function" \in CallNames
    BY DEF CallNames
  <2>2. PICK ls : ls = <<>>
    OBVIOUS
  <2>3. f = Call("function", ls, 0) /\ ls \in Seq(Nat)
    BY <1>2, <2>1, <2>2
  <2>4. f \in CallRecord
    BY <2>1, <2>3, CallTyped
  <2>5. f.call = "function"
    BY <2>3 DEF Call
  <2> QED BY <1>2, <2>4, <2>5
<1>4. /\ calls' = s /\ at' = "statement" /\ eof' = eof /\ stmts' = stmts /\ declared' = declared /\ ncmp' = ncmp
      /\ nogo' = 0 /\ noloc' = FALSE /\ lastst' = "other" /\ nxtlab' = nxtlab + 1 /\ locals' = t /\ wq' = wq
      /\ swtab' = swtab /\ swdefault' = swdefault /\ swactive' = swactive /\ given' = [n \in Names |-> 0]
      /\ errors' = errors /\ csp' = 0 /\ code' = [sp |-> 0, flow |-> {}] /\ calls = <<>>
      /\ (astray' = astray \cup {"untyped"} \/ astray' = astray \cup {})
  <2>1. calls' = s
    BY <1>2 DEF dofunction_
  <2>2. /\ at' = "statement" /\ eof' = eof /\ stmts' = stmts /\ declared' = declared /\ ncmp' = ncmp
        /\ nogo' = 0 /\ lastst' = "other" /\ nxtlab' = nxtlab + 1 /\ locals' = t /\ wq' = wq
        /\ swtab' = swtab /\ swdefault' = swdefault /\ swactive' = swactive
        /\ errors' = errors /\ csp' = 0 /\ at = "between"
    BY DEF dofunction_, switch
  <2>3. noloc' = FALSE /\ given' = [n \in Names |-> 0] /\ code' = [sp |-> 0, flow |-> {}]
    BY DEF dofunction_
  <2>4. astray' = astray \cup {"untyped"} \/ astray' = astray \cup {}
    BY DEF dofunction_, Astray
  <2>5. calls = <<>>
    BY <2>2 DEF Nested
  <2> QED BY <2>1, <2>2, <2>3, <2>4, <2>5
<1>5. SourceOK' /\ QueueOK' /\ CasesOK'
  BY <1>1, <1>3, <1>4 DEF SourceOK, QueueOK, CasesOK
<1>6. CountsOK'
  <2>1. nxtlab \in Nat /\ ncmp \in Nat
    BY <1>1 DEF CountsOK
  <2>2. csp' \in Int /\ ncmp' \in Nat /\ nogo' \in Nat /\ nxtlab' \in Nat /\ lastst' \in {"return", "goto", "other"}
    BY <1>4, <2>1
  <2>3. noloc' \in BOOLEAN
    BY <1>4
  <2> QED BY <2>2, <2>3 DEF CountsOK
<1>7. LocalsOK'
  BY <1>1, <1>4 DEF LocalsOK, ArgumentsOK, TableIn, EntryOK
<1>8. PastOK'
  <2>1. code' \in CodeType /\ given' \in [Names -> Nat]
    BY <1>4 DEF CodeType
  <2> QED BY <1>1, <1>4, <2>1 DEF PastOK
<1>9. BlocksCounted'
  <2>1. CompoundsOf(s) = {} /\ CompoundsOf(<<>>) = {}
    <3>1. 1..0 = {} /\ Len(<<>>) = 0 /\ \A i \in 1..1 : i = 1
      OBVIOUS
    <3> QED BY <1>3, <3>1 DEF CompoundsOf
  <2> QED BY <1>4, <2>1 DEF BlocksCounted
<1> QED BY <1>5, <1>6, <1>7, <1>8, <1>9, TypesAre

-----------------------------------------------------------------------------
(* The theorems.                                                           *)

StmtInv == DepthInv /\ BlocksCounted

LEMMA StmtStarts ==
    StmtInit => StmtInv
<1> SUFFICES ASSUME StmtInit PROVE BlocksCounted
  BY StmtInitInv DEF StmtInv
<1>1. 1..0 = {} /\ Len(<<>>) = 0
  OBVIOUS
<1>2. CompoundsOf(<<>>) = {}
  BY <1>1 DEF CompoundsOf
<1>3. Cardinality(CompoundsOf(<<>>)) = 0
  BY <1>2, FS_EmptySet
<1> QED BY <1>3 DEF StmtInit, BlocksCounted

LEMMA StmtStep ==
    StmtInv /\ [StmtNext]_statement => StmtInv'
<1> SUFFICES ASSUME StmtInv, [StmtNext]_statement PROVE StmtInv'
  OBVIOUS
<1>1. DepthInv /\ StmtTypeOK /\ Nested /\ BlocksCounted
  BY DEF StmtInv, DepthInv, Recursion
<1>2. CASE StayAction
  BY <1>1, <1>2, StayTypes, StayCounts, StayInv DEF StmtInv
<1>3. CASE PushStep
  BY <1>1, <1>3, PushTypes, PushStepInv DEF StmtInv
<1>4. CASE PopStep
  BY <1>1, <1>4, PopTypes, PopStepInv DEF StmtInv
<1>5. CASE CompoundEnd
  BY <1>1, <1>5, BlockTypes, BlockInv DEF StmtInv
<1>6. CASE Else
  BY <1>1, <1>6, ElseTypes, ElseInv DEF StmtInv
<1>7. CASE FunctionEnd
  BY <1>1, <1>7, FunctionEndTypes, FunctionEndInv DEF StmtInv
<1>8. CASE NoStatement \/ EndOfSource \/ Elsewhere \/ UNCHANGED statement
  BY <1>1, <1>8, QuietTypes, QuietSteps, QuietInv DEF StmtInv
<1>9. CASE \E n \in Names, z \in Nat : \E what : declloc_(n, z, what)
  <2>1. PICK n \in Names, z \in Nat : \E what : declloc_(n, z, what)
    BY <1>9
  <2>2. PICK what : declloc_(n, z, what)
    BY <2>1
  <2> QED BY <1>1, <2>2, DeclareTypes, DeclareInv DEF StmtInv
<1>10. CASE \E t : ArgumentsOK(t) /\ dofunction_(t)
  <2>1. PICK t : ArgumentsOK(t) /\ dofunction_(t)
    BY <1>10
  <2> QED BY <1>1, <2>1, FunctionTypes, FunctionInv DEF StmtInv
<1> QED BY <1>2, <1>3, <1>4, <1>5, <1>6, <1>7, <1>8, <1>9, <1>10
        DEF StmtNext, Starts, Ends, StayAction, PushStep, PopStep

LEMMA StmtInvariant ==
    StmtSpec => []StmtInv
BY StmtStarts, StmtStep, PTL DEF StmtSpec

\* The tables and the counts of the statement compiler keep their types, and no table
\* outgrows its array (wq of CC_RESIDENT.C, the cases and the locals), for every source.
THEOREM StatementsTyped == StmtSpec => []StmtTypeOK
<1>1. StmtInv => StmtTypeOK
  BY DEF StmtInv, DepthInv
<1> QED BY <1>1, StmtInvariant, PTL

\* Where control can be, the stack of the running program is as deep as csp says, and
\* every way to a label arrives at one depth (gen, compound, dobreak, doreturn).
THEOREM DepthTracked == StmtSpec => []TrackedIsReal
<1>1. StmtInv => TrackedIsReal
  <2> SUFFICES ASSUME StmtInv, Sound PROVE code.sp \in {None, csp} /\ Level(1..nxtlab)
    BY DEF TrackedIsReal
  <2>1. Reached
    BY DEF StmtInv, DepthInv
  <2> QED BY <2>1 DEF Reached, LabelsRight, Level
<1> QED BY <1>1, StmtInvariant, PTL

-----------------------------------------------------------------------------
(* The tables and the recursion: what the statements TablesFollow needs.   *)

\* c is what t has between a and b.
Slice(t, a, b, c) == a <= b /\ Len(c) = b - a /\ \A k \in 1..Len(c) : c[k] = t[a + k]

\* The switch i of s has no other in it; or j is the first in it.
Deepest(s, i) == i \in SwitchesOf(s) /\ \A k \in SwitchesOf(s) : k <= i
Follow(s, i, j) ==
    /\ i \in SwitchesOf(s) /\ j \in SwitchesOf(s) /\ i < j
    /\ \A k \in SwitchesOf(s) : k <= i \/ j <= k

\* Each open switch of s has its cases in t, and its default, beside those put aside.
OwnCases(s, t, d) ==
    /\ \A i : Deepest(s, i) => Slice(t, s[i].swnex, Len(t), s[i].cases) /\ s[i].default = d
    /\ \A i, j : Follow(s, i, j) =>
          Slice(t, s[i].swnex, s[j].swnex, s[i].cases) /\ s[i].default = s[j].swdef

\* And the flags say which is the outermost.
Chained(s, t, d, a) ==
    /\ a = (SwitchesOf(s) # {})
    /\ SwitchesOf(s) = {} => Len(t) = 0 /\ d = 0
    /\ \A i \in SwitchesOf(s) :
          /\ s[i].swact = ({j \in SwitchesOf(s) : j < i} # {})
          /\ {j \in SwitchesOf(s) : j < i} = {} => s[i].swnex = 0 /\ s[i].swdef = 0
          /\ s[i].swnex <= Len(t)
          /\ \A j \in SwitchesOf(s) : j <= i => s[j].swnex <= s[i].swnex

TablesIn(s, t, d, a) == Chained(s, t, d, a) /\ OwnCases(s, t, d)

\* The switches are the same, and have the same cases.
SameSwitches(s2, s) == SwitchesOf(s2) = SwitchesOf(s) /\ \A i \in SwitchesOf(s) : s2[i] = s[i]

LEMMA TablesSame ==
    ASSUME NEW s, NEW s2, NEW t, NEW d, NEW a, SameSwitches(s2, s), TablesIn(s, t, d, a)
    PROVE  TablesIn(s2, t, d, a)
<1>1. SwitchesOf(s2) = SwitchesOf(s) /\ \A i \in SwitchesOf(s) : s2[i] = s[i]
  BY DEF SameSwitches
<1>2. Chained(s2, t, d, a)
  BY <1>1 DEF TablesIn, Chained
<1>3. /\ \A i : Deepest(s2, i) <=> Deepest(s, i)
      /\ \A i, j : Follow(s2, i, j) <=> Follow(s, i, j)
  BY <1>1 DEF Deepest, Follow
<1>4. /\ \A i : Deepest(s, i) => s2[i] = s[i]
      /\ \A i, j : Follow(s, i, j) => s2[i] = s[i] /\ s2[j] = s[j]
  BY <1>1 DEF Deepest, Follow
<1>5. OwnCases(s2, t, d)
  BY <1>3, <1>4 DEF TablesIn, OwnCases
<1> QED BY <1>2, <1>5 DEF TablesIn

LEMMA NoSwitches ==
    ASSUME NEW s, SwitchesOf(s) = {}, NEW t, Len(t) = 0
    PROVE  TablesIn(s, t, 0, FALSE)
BY DEF TablesIn, Chained, OwnCases, Deepest, Follow

\* A switch begins: it has no cases, and those so far are the outer one's.
LEMMA TablesBegin ==
    ASSUME NEW s \in Seq(CallRecord), NEW f \in CallRecord, f.call = "switch", NEW t \in Seq(Nat),
           NEW d, NEW a, TablesIn(s, t, d, a), f.swact = a, f.swdef = d, f.swnex = Len(t),
           Len(f.cases) = 0, f.default = 0
    PROVE  TablesIn(Append(s, f), t, 0, TRUE)
<1> DEFINE s2 == Append(s, f)
           n == Len(s) + 1
<1>1. /\ Len(s) \in Nat /\ Len(s2) = n
      /\ \A i \in 1..Len(s) : s2[i] = s[i]
      /\ s2[n] = f /\ Len(t) \in Nat
  BY Appended, LenProperties
<1>2. \A i \in 1..Len(s) : i < n /\ ~(n < i) /\ i # n /\ i <= n /\ ~(n <= i) /\ s[i].swnex \in Nat
  BY <1>1, CallTypes
<1>3. \A i : i \in 1..n <=> i \in 1..Len(s) \/ i = n
  BY <1>1
<1>4. ~(n < n) /\ n <= n
  BY <1>1
<1> HIDE DEF s2, n
<1>5. /\ SwitchesOf(s2) = SwitchesOf(s) \cup {n}
      /\ \A i \in SwitchesOf(s) : i \in 1..Len(s) /\ s2[i] = s[i]
  BY <1>1, <1>3 DEF SwitchesOf
<1>6. /\ {j \in SwitchesOf(s2) : j < n} = SwitchesOf(s)
      /\ \A i \in SwitchesOf(s) : {j \in SwitchesOf(s2) : j < i} = {j \in SwitchesOf(s) : j < i}
  BY <1>2, <1>4, <1>5
<1>7. Chained(s2, t, 0, TRUE)
  <2>1. /\ s2[n].swact = (SwitchesOf(s) # {})
        /\ SwitchesOf(s) = {} => s2[n].swnex = 0 /\ s2[n].swdef = 0
        /\ s2[n].swnex <= Len(t)
    BY <1>1 DEF TablesIn, Chained
  <2>2. \A j \in SwitchesOf(s2) : s2[j].swnex <= s2[n].swnex
    BY <1>1, <1>5 DEF TablesIn, Chained
  <2>3. \A i \in SwitchesOf(s) :
          /\ s2[i].swact = ({j \in SwitchesOf(s) : j < i} # {})
          /\ {j \in SwitchesOf(s) : j < i} = {} => s2[i].swnex = 0 /\ s2[i].swdef = 0
          /\ s2[i].swnex <= Len(t)
          /\ \A j \in SwitchesOf(s2) : j <= i => s2[j].swnex <= s2[i].swnex
    BY <1>2, <1>5 DEF TablesIn, Chained
  <2> QED BY <1>5, <1>6, <2>1, <2>2, <2>3 DEF Chained
<1>8. ASSUME NEW i, Deepest(s2, i) PROVE Slice(t, s2[i].swnex, Len(t), s2[i].cases) /\ s2[i].default = 0
  <2>1. i = n
    BY <1>2, <1>5, <1>8 DEF Deepest
  <2> QED BY <1>1, <2>1 DEF Slice
<1>9. ASSUME NEW i, NEW j, Follow(s2, i, j)
      PROVE  Slice(t, s2[i].swnex, s2[j].swnex, s2[i].cases) /\ s2[i].default = s2[j].swdef
  <2>1. i \in SwitchesOf(s) /\ s2[i] = s[i]
    BY <1>2, <1>4, <1>5, <1>9 DEF Follow
  <2>2. CASE j = n
    <3>1. Deepest(s, i)
      BY <1>2, <1>5, <1>9, <2>1, <2>2 DEF Follow, Deepest
    <3> QED BY <1>1, <2>1, <2>2, <3>1 DEF TablesIn, OwnCases
  <2>3. CASE j # n
    <3>1. Follow(s, i, j) /\ s2[j] = s[j]
      BY <1>5, <1>9, <2>1, <2>3 DEF Follow
    <3> QED BY <2>1, <3>1 DEF TablesIn, OwnCases
  <2> QED BY <2>2, <2>3
<1> QED BY <1>7, <1>8, <1>9 DEF TablesIn, OwnCases, s2

\* It ends: the table is cut to where it began.
LEMMA TablesEnd ==
    ASSUME NEW s \in Seq(CallRecord), s # <<>>, Last(s).call = "switch", NEW t \in Seq(Nat),
           NEW d, NEW a, TablesIn(s, t, d, a)
    PROVE  TablesIn(Front(s), SubSeq(t, 1, Last(s).swnex), Last(s).swdef, Last(s).swact)
<1> DEFINE s2 == Front(s)
           n == Len(s)
           m == Last(s).swnex
           t2 == SubSeq(t, 1, m)
<1>1. /\ n \in Nat \ {0} /\ Len(s2) = n - 1
      /\ \A i \in 1..(n - 1) : s2[i] = s[i]
      /\ Last(s) = s[n] /\ Last(s) \in CallRecord /\ Len(t) \in Nat /\ m \in Nat
  <2>1. Last(s) \in CallRecord
    BY Fronted
  <2>2. m \in Nat
    BY <2>1 DEF CallRecord
  <2> QED BY <2>1, <2>2, Fronted, LenProperties
<1>2. \A i \in 1..n : s[i].swnex \in Nat
  BY CallTypes
<1>3. \A i \in 1..(n - 1) : i < n /\ ~(n < i) /\ i # n /\ i <= n /\ ~(n <= i) /\ i \in 1..n
  BY <1>1
<1>4. \A i : i \in 1..n <=> i \in 1..(n - 1) \/ i = n
  BY <1>1
<1>5. ~(n < n) /\ n <= n
  BY <1>1
<1>6. n \in 1..n /\ s[n].call = "switch"
  BY <1>1
<1> HIDE DEF s2, t2, n, m
<1>7. /\ SwitchesOf(s) = SwitchesOf(s2) \cup {n}
      /\ \A i \in SwitchesOf(s2) : i \in 1..(n - 1) /\ s2[i] = s[i] /\ s[i].swnex \in Nat
  BY <1>1, <1>2, <1>3, <1>4, <1>6 DEF SwitchesOf, n
<1>8. /\ s[n].swnex = m /\ m <= Len(t)
      /\ \A i \in SwitchesOf(s2) : s[i].swnex <= m
  BY <1>1, <1>3, <1>7 DEF TablesIn, Chained, m
<1>9. Len(t2) = m /\ \A k \in 1..m : t2[k] = t[k]
  <2>1. 1 \in 1..(Len(t) + 1) /\ m \in 0..Len(t) /\ m \in Nat
    BY <1>1, <1>8
  <2> QED BY <2>1, SubSeqProperties DEF t2
<1>10. /\ {j \in SwitchesOf(s) : j < n} = SwitchesOf(s2)
       /\ \A i \in SwitchesOf(s2) : {j \in SwitchesOf(s) : j < i} = {j \in SwitchesOf(s2) : j < i}
  BY <1>3, <1>5, <1>7
<1>11. Chained(s2, t2, Last(s).swdef, Last(s).swact)
  <2>1. /\ Last(s).swact = (SwitchesOf(s2) # {})
        /\ SwitchesOf(s2) = {} => m = 0 /\ Last(s).swdef = 0
    BY <1>1, <1>7, <1>8, <1>10 DEF TablesIn, Chained
  <2>2. \A i \in SwitchesOf(s2) :
          /\ s2[i].swact = ({j \in SwitchesOf(s2) : j < i} # {})
          /\ {j \in SwitchesOf(s2) : j < i} = {} => s2[i].swnex = 0 /\ s2[i].swdef = 0
          /\ s2[i].swnex <= Len(t2)
    BY <1>7, <1>8, <1>9, <1>10 DEF TablesIn, Chained
  <2>3. \A i \in SwitchesOf(s2) : \A j \in SwitchesOf(s2) : j <= i => s2[j].swnex <= s2[i].swnex
    BY <1>7 DEF TablesIn, Chained
  <2> QED BY <1>9, <2>1, <2>2, <2>3 DEF Chained
<1>12. ASSUME NEW i, NEW b, i \in SwitchesOf(s2), b \in Nat, b <= m, Slice(t, s[i].swnex, b, s[i].cases)
       PROVE  Slice(t2, s2[i].swnex, b, s2[i].cases)
  <2>1. s2[i] = s[i] /\ s[i].swnex \in Nat
    BY <1>7, <1>12
  <2>2. PICK x, c : x = s[i].swnex /\ c = s[i].cases
    OBVIOUS
  <2>3. x \in Nat /\ x <= b /\ Len(c) = b - x /\ \A k \in 1..Len(c) : c[k] = t[x + k]
    BY <1>12, <2>1, <2>2 DEF Slice
  <2>4. ASSUME NEW k \in 1..Len(c) PROVE c[k] = t2[x + k]
    <3>1. x + k \in 1..m
      BY <1>1, <1>12, <2>3
    <3> QED BY <1>9, <2>3, <3>1
  <2> QED BY <2>1, <2>2, <2>3, <2>4 DEF Slice
<1>13. ASSUME NEW i, Deepest(s2, i)
       PROVE  Slice(t2, s2[i].swnex, Len(t2), s2[i].cases) /\ s2[i].default = Last(s).swdef
  <2>1. i \in SwitchesOf(s2) /\ s2[i] = s[i]
    BY <1>7, <1>13 DEF Deepest
  <2>2. Follow(s, i, n)
    BY <1>3, <1>5, <1>7, <1>13, <2>1 DEF Follow, Deepest
  <2>3. Slice(t, s[i].swnex, m, s[i].cases) /\ s[i].default = Last(s).swdef
    BY <1>1, <1>8, <2>2 DEF TablesIn, OwnCases
  <2>4. m <= m
    BY <1>1
  <2> QED BY <1>1, <1>9, <1>12, <2>1, <2>3, <2>4
<1>14. ASSUME NEW i, NEW j, Follow(s2, i, j)
       PROVE  Slice(t2, s2[i].swnex, s2[j].swnex, s2[i].cases) /\ s2[i].default = s2[j].swdef
  <2>1. i \in SwitchesOf(s2) /\ j \in SwitchesOf(s2) /\ s2[i] = s[i] /\ s2[j] = s[j] /\ j <= n
        /\ s[j].swnex \in Nat /\ s[j].swnex <= m
    BY <1>3, <1>7, <1>8, <1>14 DEF Follow
  <2>2. Follow(s, i, j)
    BY <1>7, <1>14, <2>1 DEF Follow
  <2>3. Slice(t, s[i].swnex, s[j].swnex, s[i].cases) /\ s[i].default = s[j].swdef
    BY <2>2 DEF TablesIn, OwnCases
  <2> QED BY <1>12, <2>1, <2>3
<1>15. TablesIn(s2, t2, Last(s).swdef, Last(s).swact)
  BY <1>11, <1>13, <1>14 DEF TablesIn, OwnCases
<1> QED BY <1>15 DEF s2, t2, m

\* A case, or the default, of the innermost switch.
Gains(s2, s, k) ==
    /\ Len(s2) = Len(s) /\ \A i \in 1..Len(s) : SameCall(s2[i], s[i]) /\ (i # k => s2[i] = s[i])
    /\ Deepest(s, k)

LEMMA AddedChain ==
    ASSUME NEW s, NEW s2, NEW k, Gains(s2, s, k), NEW t, NEW t2, Len(t) \in Nat, Len(t2) \in Nat, Len(t) <= Len(t2),
           NEW d, NEW d2, NEW a, Chained(s, t, d, a), \A i \in 1..Len(s) : s[i].swnex \in Nat
    PROVE  Chained(s2, t2, d2, a)
<1>1. /\ SwitchesOf(s2) = SwitchesOf(s) /\ SwitchesOf(s) # {}
      /\ \A i \in SwitchesOf(s) : /\ i \in 1..Len(s)
                                  /\ s2[i].swact = s[i].swact /\ s2[i].swdef = s[i].swdef /\ s2[i].swnex = s[i].swnex
                                  /\ s[i].swnex \in Nat
  BY DEF SwitchesOf, Gains, SameCall, Deepest
<1>2. \A i \in SwitchesOf(s) : s2[i].swnex <= Len(t2)
  BY <1>1 DEF Chained
<1> QED BY <1>1, <1>2 DEF Chained

LEMMA AddedFollow ==
    ASSUME NEW s, NEW s2, NEW k, Gains(s2, s, k)
    PROVE  /\ \A i : Deepest(s2, i) <=> i = k
           /\ \A i, j : Follow(s2, i, j) => Follow(s, i, j) /\ s2[i] = s[i] /\ s2[j].swnex = s[j].swnex
                                            /\ s2[j].swdef = s[j].swdef
<1>1. /\ SwitchesOf(s2) = SwitchesOf(s)
      /\ \A i \in SwitchesOf(s) : /\ i \in 1..Len(s)
                                  /\ s2[i].swdef = s[i].swdef /\ s2[i].swnex = s[i].swnex
                                  /\ (i # k => s2[i] = s[i])
  BY DEF SwitchesOf, Gains, SameCall
<1>2. k \in SwitchesOf(s) /\ \A i \in SwitchesOf(s) : i <= k /\ i \in Int
  BY DEF Gains, Deepest, SwitchesOf
<1>3. \A i : Deepest(s2, i) <=> i = k
  BY <1>1, <1>2 DEF Deepest
<1>4. \A i, j : Follow(s2, i, j) => Follow(s, i, j) /\ i # k /\ i \in SwitchesOf(s) /\ j \in SwitchesOf(s)
  BY <1>1, <1>2 DEF Follow
<1> QED BY <1>1, <1>3, <1>4

LEMMA TablesCase ==
    ASSUME NEW s \in Seq(CallRecord), NEW s2, NEW k, Gains(s2, s, k), NEW t \in Seq(Nat), NEW l \in Nat,
           NEW d, NEW a, TablesIn(s, t, d, a), s2[k].cases = Append(s[k].cases, l), s2[k].default = s[k].default
    PROVE  TablesIn(s2, Append(t, l), d, a)
<1> DEFINE t2 == Append(t, l)
<1>1. /\ Len(t) \in Nat /\ Len(t2) = Len(t) + 1 /\ t2[Len(t) + 1] = l /\ \A i \in 1..Len(t) : t2[i] = t[i]
  BY Appended
<1>2. \A i \in 1..Len(s) : s[i].swnex \in Nat
  BY CallTypes
<1> HIDE DEF t2
<1>3. Chained(s2, t2, d, a)
  <2>1. Len(t2) \in Nat /\ Len(t) <= Len(t2) /\ Chained(s, t, d, a)
    BY <1>1 DEF TablesIn
  <2> QED BY <1>1, <1>2, <2>1, AddedChain
<1>4. k \in 1..Len(s) /\ Deepest(s, k)
  <2>1. Deepest(s, k)
    BY DEF Gains
  <2> QED BY <2>1 DEF Deepest, SwitchesOf
<1>5. Slice(t2, s2[k].swnex, Len(t2), s2[k].cases) /\ s2[k].default = d
  <2>1. PICK x, c, c2 : x = s[k].swnex /\ c = s[k].cases /\ c2 = s2[k].cases
    OBVIOUS
  <2>2. c \in Seq(Nat) /\ c2 = Append(c, l) /\ x \in Nat /\ s2[k].swnex = x
    <3>1. s[k] \in CallRecord
      BY <1>4, CallTypes
    <3>2. s[k].cases \in Seq(Nat)
      BY <3>1 DEF CallRecord
    <3> QED BY <1>2, <1>4, <2>1, <3>2 DEF Gains, SameCall
  <2>3. Len(c2) = Len(c) + 1 /\ Len(c) \in Nat /\ c2[Len(c) + 1] = l /\ \A i \in 1..Len(c) : c2[i] = c[i]
    BY <2>2, Appended
  <2>4. x <= Len(t) /\ Len(c) = Len(t) - x /\ (\A i \in 1..Len(c) : c[i] = t[x + i]) /\ s[k].default = d
    BY <1>4, <2>1 DEF TablesIn, OwnCases, Slice
  <2>5. ASSUME NEW i \in 1..Len(c2) PROVE c2[i] = t2[x + i]
    <3>1. CASE i = Len(c) + 1
      <4>1. x + i = Len(t) + 1
        BY <1>1, <2>2, <2>3, <2>4, <3>1
      <4> QED BY <1>1, <2>3, <3>1, <4>1
    <3>2. CASE i # Len(c) + 1
      <4>1. i \in 1..Len(c) /\ x + i \in 1..Len(t)
        BY <1>1, <2>2, <2>3, <2>4, <3>2
      <4> QED BY <1>1, <2>3, <2>4, <4>1
    <3> QED BY <3>1, <3>2
  <2>6. x <= Len(t2) /\ Len(c2) = Len(t2) - x
    BY <1>1, <2>2, <2>3, <2>4
  <2> QED BY <2>1, <2>2, <2>4, <2>5, <2>6 DEF Slice
<1>6. ASSUME NEW i, NEW j, Follow(s2, i, j)
      PROVE  Slice(t2, s2[i].swnex, s2[j].swnex, s2[i].cases) /\ s2[i].default = s2[j].swdef
  <2>1. /\ Follow(s, i, j) /\ s2[i] = s[i] /\ s2[j].swnex = s[j].swnex /\ s2[j].swdef = s[j].swdef
        /\ s[j].swnex <= Len(t)
    <3>1. Follow(s, i, j) /\ s2[i] = s[i] /\ s2[j].swnex = s[j].swnex /\ s2[j].swdef = s[j].swdef
      BY <1>6, AddedFollow
    <3> QED BY <3>1 DEF Follow, TablesIn, Chained
  <2>2. Slice(t, s[i].swnex, s[j].swnex, s[i].cases) /\ s[i].default = s[j].swdef
    BY <2>1 DEF TablesIn, OwnCases
  <2>3. s[i].swnex \in Nat /\ s[j].swnex \in Nat
    BY <1>2, <2>1 DEF Follow, SwitchesOf
  <2>4. PICK x, y, c : x = s[i].swnex /\ y = s[j].swnex /\ c = s[i].cases
    OBVIOUS
  <2>5. x \in Nat /\ y \in Nat /\ y <= Len(t) /\ x <= y /\ Len(c) = y - x /\ \A m \in 1..Len(c) : c[m] = t[x + m]
    BY <2>1, <2>2, <2>3, <2>4 DEF Slice
  <2>6. ASSUME NEW m \in 1..Len(c) PROVE c[m] = t2[x + m]
    <3>1. x + m \in 1..Len(t)
      BY <1>1, <2>5
    <3> QED BY <1>1, <2>5, <3>1
  <2> QED BY <2>1, <2>2, <2>4, <2>5, <2>6 DEF Slice
<1>7. \A i : Deepest(s2, i) => i = k
  BY AddedFollow
<1>8. TablesIn(s2, t2, d, a)
  BY <1>3, <1>5, <1>6, <1>7 DEF TablesIn, OwnCases
<1> QED BY <1>8 DEF t2

LEMMA TablesDefault ==
    ASSUME NEW s \in Seq(CallRecord), NEW s2, NEW k, Gains(s2, s, k), NEW t \in Seq(Nat), NEW l \in Nat,
           NEW d, NEW a, TablesIn(s, t, d, a), s2[k].cases = s[k].cases, s2[k].default = l
    PROVE  TablesIn(s2, t, l, a)
<1>1. Len(t) \in Nat /\ Len(t) <= Len(t)
  BY LenProperties
<1>2. \A i \in 1..Len(s) : s[i].swnex \in Nat
  BY CallTypes
<1>3. Chained(s2, t, l, a)
  <2>1. Chained(s, t, d, a)
    BY DEF TablesIn
  <2> QED BY <1>1, <1>2, <2>1, AddedChain
<1>4. k \in 1..Len(s) /\ Deepest(s, k) /\ s2[k].swnex = s[k].swnex
  <2>1. Deepest(s, k) /\ \A i \in 1..Len(s) : s2[i].swnex = s[i].swnex
    BY DEF Gains, SameCall
  <2> QED BY <2>1 DEF Deepest, SwitchesOf
<1>5. Slice(t, s2[k].swnex, Len(t), s2[k].cases) /\ s2[k].default = l
  BY <1>4 DEF TablesIn, OwnCases
<1>6. ASSUME NEW i, NEW j, Follow(s2, i, j)
      PROVE  Slice(t, s2[i].swnex, s2[j].swnex, s2[i].cases) /\ s2[i].default = s2[j].swdef
  <2>1. Follow(s, i, j) /\ s2[i] = s[i] /\ s2[j].swnex = s[j].swnex /\ s2[j].swdef = s[j].swdef
    BY <1>6, AddedFollow
  <2> QED BY <2>1 DEF TablesIn, OwnCases
<1> QED BY <1>3, <1>5, <1>6, AddedFollow DEF TablesIn, OwnCases

-----------------------------------------------------------------------------
(* They hold at every step, as long as no error is reported.               *)

CasesOwned == ~errors => TablesIn(calls, swtab, swdefault, swactive)

LEMMA SameSwitchesStep ==
    ASSUME CasesOwned, SameSwitches(calls', calls), UNCHANGED switch, errors => errors'
    PROVE  CasesOwned'
<1>1. PICK s : s = calls'
  OBVIOUS
<1>2. ASSUME ~errors PROVE TablesIn(s, swtab, swdefault, swactive)
  BY <1>1, <1>2, TablesSame DEF CasesOwned
<1> QED BY <1>1, <1>2 DEF CasesOwned, switch

LEMMA FrontSame ==
    ASSUME NEW s \in Seq(CallRecord), s # <<>>, Last(s).call # "switch"
    PROVE  SameSwitches(Front(s), s)
<1> DEFINE s2 == Front(s)
<1>1. /\ Len(s) \in Nat \ {0} /\ Len(s2) = Len(s) - 1
      /\ \A i \in 1..(Len(s) - 1) : s2[i] = s[i]
      /\ Last(s) = s[Len(s)]
  BY Fronted
<1> HIDE DEF s2
<1>2. \A i : i \in 1..Len(s) <=> i \in 1..(Len(s) - 1) \/ i = Len(s)
  BY <1>1
<1>3. SameSwitches(s2, s)
  BY <1>1, <1>2 DEF SwitchesOf, SameSwitches
<1> QED BY <1>3 DEF s2

LEMMA AppendSame ==
    ASSUME NEW s \in Seq(CallRecord), NEW f \in CallRecord, f.call # "switch"
    PROVE  SameSwitches(Append(s, f), s)
<1> DEFINE s2 == Append(s, f)
<1>1. /\ Len(s) \in Nat /\ Len(s2) = Len(s) + 1
      /\ \A i \in 1..Len(s) : s2[i] = s[i]
      /\ s2[Len(s) + 1] = f
  BY Appended
<1> HIDE DEF s2
<1>2. \A i : i \in 1..(Len(s) + 1) <=> i \in 1..Len(s) \/ i = Len(s) + 1
  BY <1>1
<1>3. SameSwitches(s2, s)
  BY <1>1, <1>2 DEF SwitchesOf, SameSwitches
<1> QED BY <1>3 DEF s2

LEMMA InnerDeepest ==
    ASSUME StmtTypeOK, Switches # {}
    PROVE  Deepest(calls, Inner) /\ Switches = SwitchesOf(calls)
<1>1. DOMAIN calls = 1..Len(calls) /\ Len(calls) \in Nat
  BY Typed1, LenProperties
<1>2. Switches \in SUBSET (1..Len(calls)) /\ Switches = SwitchesOf(calls)
  BY <1>1 DEF Switches, SwitchesOf
<1>3. \E i \in Switches : \A j \in Switches : j <= i
  BY <1>1, <1>2, Greatest
<1>4. Inner \in Switches /\ \A j \in Switches : j <= Inner
  BY <1>3 DEF Inner
<1> QED BY <1>2, <1>4 DEF Deepest

LEMMA CaseStep ==
    ASSUME StmtTypeOK, StmtTypeOK', CasesOwned, docase
    PROVE  CasesOwned'
<1> SUFFICES ASSUME ~errors' PROVE TablesIn(calls', swtab', swdefault', swactive')
  BY DEF CasesOwned
<1>1. ~errors /\ swactive /\ Len(swtab) # SWTAB
  BY DEF docase, Error
<1>2. TablesIn(calls, swtab, swdefault, swactive) /\ swactive = TRUE
  BY <1>1 DEF CasesOwned, StmtTypeOK
<1>3. SwitchesOf(calls) # {} /\ TablesIn(calls, swtab, swdefault, TRUE)
  BY <1>2 DEF TablesIn, Chained
<1>4. Switches # {} /\ calls \in Seq(CallRecord) /\ DOMAIN calls = 1..Len(calls) /\ swtab \in Seq(Nat)
      /\ nxtlab' \in Nat /\ calls' \in Seq(CallRecord)
  BY <1>3, Typed1, Typed1Next, LenProperties DEF Switches, SwitchesOf
<1>5. PICK k : k = Inner
  OBVIOUS
<1>6. Deepest(calls, k) /\ k \in 1..Len(calls)
  BY <1>4, <1>5, InnerDeepest DEF Deepest, SwitchesOf
<1>7. /\ calls' = [calls EXCEPT ![k].cases = Append(calls[k].cases, nxtlab')]
      /\ swtab' = Append(swtab, nxtlab') /\ swdefault' = swdefault /\ swactive' = TRUE
  BY <1>1, <1>2, <1>4, <1>5 DEF docase
<1>8. PICK s, l, v : s = calls' /\ l = nxtlab' /\ v = Append(calls[k].cases, l)
  OBVIOUS
<1>9. s = [calls EXCEPT ![k].cases = v]
  BY <1>7, <1>8
<1>10. Gains(s, calls, k)
  <2>1. Len(s) = Len(calls)
    <3>1. DOMAIN s = DOMAIN calls /\ s \in Seq(CallRecord)
      BY <1>4, <1>8, <1>9
    <3> QED BY <1>4, <3>1, LenProperties, SameLength
  <2>2. \A i \in 1..Len(calls) : SameCall(s[i], calls[i])
    BY <1>4, <1>9, CasesChange
  <2>3. \A i \in 1..Len(calls) : i # k => s[i] = calls[i]
    BY <1>4, <1>9
  <2> QED BY <1>6, <2>1, <2>2, <2>3 DEF Gains
<1>11. s[k].cases = v /\ s[k].default = calls[k].default
  <2>1. calls[k] \in CallRecord
    BY <1>4, <1>6, CallTypes
  <2> QED BY <1>4, <1>6, <1>9, <2>1 DEF CallRecord
<1>12. TablesIn(s, Append(swtab, l), swdefault, TRUE)
  BY <1>3, <1>4, <1>8, <1>10, <1>11, TablesCase
<1> QED BY <1>7, <1>8, <1>12

LEMMA DefaultStep ==
    ASSUME StmtTypeOK, StmtTypeOK', CasesOwned, dodefault
    PROVE  CasesOwned'
<1> SUFFICES ASSUME ~errors' PROVE TablesIn(calls', swtab', swdefault', swactive')
  BY DEF CasesOwned
<1>1. ~errors /\ swactive
  BY DEF dodefault, Error
<1>2. TablesIn(calls, swtab, swdefault, swactive) /\ swactive = TRUE
  BY <1>1 DEF CasesOwned, StmtTypeOK
<1>3. SwitchesOf(calls) # {} /\ TablesIn(calls, swtab, swdefault, TRUE)
  BY <1>2 DEF TablesIn, Chained
<1>4. Switches # {} /\ calls \in Seq(CallRecord) /\ DOMAIN calls = 1..Len(calls) /\ swtab \in Seq(Nat)
      /\ nxtlab' \in Nat /\ calls' \in Seq(CallRecord)
  BY <1>3, Typed1, Typed1Next, LenProperties DEF Switches, SwitchesOf
<1>5. PICK k : k = Inner
  OBVIOUS
<1>6. Deepest(calls, k) /\ k \in 1..Len(calls)
  BY <1>4, <1>5, InnerDeepest DEF Deepest, SwitchesOf
<1>7. /\ calls' = [calls EXCEPT ![k].default = nxtlab']
      /\ swtab' = swtab /\ swdefault' = nxtlab' /\ swactive' = TRUE
  BY <1>1, <1>2, <1>4, <1>5 DEF dodefault
<1>8. PICK s, l : s = calls' /\ l = nxtlab'
  OBVIOUS
<1>9. s = [calls EXCEPT ![k].default = l]
  BY <1>7, <1>8
<1>10. Gains(s, calls, k)
  <2>1. Len(s) = Len(calls)
    <3>1. DOMAIN s = DOMAIN calls /\ s \in Seq(CallRecord)
      BY <1>4, <1>8, <1>9
    <3> QED BY <1>4, <3>1, LenProperties, SameLength
  <2>2. \A i \in 1..Len(calls) : SameCall(s[i], calls[i])
    BY <1>4, <1>9, CasesChange
  <2>3. \A i \in 1..Len(calls) : i # k => s[i] = calls[i]
    BY <1>4, <1>9
  <2> QED BY <1>6, <2>1, <2>2, <2>3 DEF Gains
<1>11. s[k].default = l /\ s[k].cases = calls[k].cases
  <2>1. calls[k] \in CallRecord
    BY <1>4, <1>6, CallTypes
  <2> QED BY <1>4, <1>6, <1>9, <2>1 DEF CallRecord
<1>12. TablesIn(s, swtab, l, TRUE)
  BY <1>3, <1>4, <1>8, <1>10, <1>11, TablesDefault
<1> QED BY <1>7, <1>8, <1>12

LEMMA StayOwned ==
    ASSUME StmtTypeOK, StmtTypeOK', CasesOwned, StayAction
    PROVE  CasesOwned'
<1>1. CASE docase \/ dodefault
  BY <1>1, CaseStep, DefaultStep
<1>2. CASE ~(docase \/ dodefault)
  <2>1. calls' = calls /\ UNCHANGED switch
    BY <1>2 DEF StayAction, addwhileFails, doreturn, dobreak, docont, dogoto, dolabel, doexpr, Finished
  <2>3. errors => errors'
    <3>1. CASE dogoto
      <4>1. PICK n \in Names : addlabel(n, FALSE, nogo' > 0)
        BY <3>1 DEF dogoto
      <4> QED BY <4>1 DEF addlabel, Error
    <3>2. CASE dolabel
      <4>1. PICK n \in Names : addlabel(n, TRUE, FALSE)
        BY <3>2 DEF dolabel
      <4> QED BY <4>1 DEF addlabel, Error
    <3>3. CASE addwhileFails \/ dobreak \/ docont
      BY <3>3 DEF addwhileFails, dobreak, docont, Error
    <3>4. CASE doreturn \/ doexpr
      BY <3>4 DEF doreturn, doexpr
    <3> QED BY <1>2, <3>1, <3>2, <3>3, <3>4 DEF StayAction
  <2>2. SameSwitches(calls', calls)
    BY <2>1 DEF SameSwitches
  <2> QED BY <2>1, <2>2, <2>3, SameSwitchesStep
<1> QED BY <1>1, <1>2

LEMMA PushOwned ==
    ASSUME StmtTypeOK, StmtTypeOK', CasesOwned, PushStep
    PROVE  CasesOwned'
<1>1. calls \in Seq(CallRecord) /\ swtab \in Seq(Nat) /\ swactive \in BOOLEAN /\ swdefault \in Nat /\ Opened \in Int
      /\ nxtlab \in Nat
  BY Typed1, CodeTyped DEF StmtTypeOK
<1>2. CASE doswitch
  <2>1. PICK x, y : x = Exit /\ y = nxtlab + 3
    OBVIOUS
  <2>2. PICK ls : ls = <<x, y>>
    OBVIOUS
  <2>3. ls \in Seq(Nat) /\ "switch" \in CallNames
    BY <1>1, <2>1, <2>2 DEF Exit, CallNames
  <2>4. PICK f : f = Call("switch", ls, Opened)
    OBVIOUS
  <2>5. /\ f \in CallRecord /\ f.call = "switch" /\ f.swnex = Len(swtab) /\ f.swact = swactive /\ f.swdef = swdefault
    BY <1>1, <2>3, <2>4, CallTyped
  <2>6. f.cases = <<>> /\ f.default = 0
    BY <2>4 DEF Call
  <2>7. Len(f.cases) = 0
    BY <2>6
  <2>8. /\ calls' = Append(calls, f) /\ swtab' = swtab /\ swdefault' = 0 /\ swactive' = TRUE /\ errors' = errors
    BY <1>2, <2>1, <2>2, <2>4 DEF doswitch, Waits
  <2>9. ASSUME ~errors PROVE TablesIn(Append(calls, f), swtab, 0, TRUE)
    BY <1>1, <2>5, <2>6, <2>7, <2>9, TablesBegin DEF CasesOwned
  <2> QED BY <2>8, <2>9 DEF CasesOwned
<1>3. ASSUME NEW name \in CallNames, name # "switch", NEW ls \in Seq(Nat),
             calls' = Append(calls, Call(name, ls, Opened)), UNCHANGED switch, errors' = errors
      PROVE  CasesOwned'
  <2>1. PICK f : f = Call(name, ls, Opened)
    OBVIOUS
  <2>2. f \in CallRecord /\ f.call = name
    BY <1>1, <2>1, CallTyped
  <2>3. SameSwitches(calls', calls)
    BY <1>1, <1>3, <2>1, <2>2, AppendSame
  <2> QED BY <1>3, <2>3, SameSwitchesStep
<1>4. CASE ~doswitch
  <2>1. PICK name \in CallNames, ls \in Seq(Nat) : name # "switch" /\ calls' = Append(calls, Call(name, ls, Opened))
    <3>1. Loop \in Nat /\ Exit \in Nat /\ nxtlab + 1 \in Nat
      BY <1>1 DEF Loop, Exit
    <3>2. <<Loop, Exit>> \in Seq(Nat) /\ <<nxtlab + 1>> \in Seq(Nat) /\ <<>> \in Seq(Nat)
      BY <3>1
    <3>3. {"compound", "if", "while", "do", "for"} \subseteq CallNames \ {"switch"}
      BY DEF CallNames
    <3>4. CASE compound
      BY <3>2, <3>3, <3>4 DEF compound
    <3>5. CASE doif
      BY <3>2, <3>3, <3>5 DEF doif, Waits
    <3>6. CASE dowhile
      BY <3>2, <3>3, <3>6 DEF dowhile, Waits
    <3>7. CASE dodo
      BY <3>2, <3>3, <3>7 DEF dodo, Waits
    <3>8. CASE dofor
      BY <3>2, <3>3, <3>8 DEF dofor, Waits
    <3> QED BY <1>4, <3>4, <3>5, <3>6, <3>7, <3>8 DEF PushStep
  <2>2. UNCHANGED switch /\ errors' = errors
    BY <1>4 DEF PushStep, compound, doif, dowhile, dodo, dofor
  <2> QED BY <1>3, <2>1, <2>2
<1> QED BY <1>2, <1>4

LEMMA PopOwned ==
    ASSUME StmtTypeOK, StmtTypeOK', CasesOwned, PopStep
    PROVE  CasesOwned'
<1>1. /\ calls \in Seq(CallRecord) /\ calls # <<>> /\ calls' = Front(calls) /\ Top = Last(calls)
      /\ swtab \in Seq(Nat) /\ (errors => errors')
      /\ IF Top.call = "switch" THEN SwitchRestored ELSE UNCHANGED switch
  BY PopIs, Typed1 DEF PlainPop, Top
<1>2. CASE Top.call = "switch"
  <2>1. swtab' = SubSeq(swtab, 1, Last(calls).swnex) /\ swdefault' = Last(calls).swdef /\ swactive' = Last(calls).swact
    BY <1>1, <1>2 DEF SwitchRestored
  <2>2. ASSUME ~errors
        PROVE  TablesIn(Front(calls), SubSeq(swtab, 1, Last(calls).swnex), Last(calls).swdef, Last(calls).swact)
    BY <1>1, <1>2, <2>2, TablesEnd DEF CasesOwned
  <2> QED BY <1>1, <2>1, <2>2 DEF CasesOwned
<1>3. CASE Top.call # "switch"
  <2>1. SameSwitches(calls', calls)
    BY <1>1, <1>3, FrontSame
  <2> QED BY <1>1, <1>3, <2>1, SameSwitchesStep
<1> QED BY <1>2, <1>3

LEMMA ElseOwned ==
    ASSUME StmtTypeOK, Nested, CasesOwned, Else
    PROVE  CasesOwned'
<1>1. PICK g \in CallRecord, x \in Nat :
              /\ g.call = "else"
              /\ Len(calls') = Len(calls) /\ calls' \in Seq(CallRecord) /\ Len(calls) >= 2
              /\ \A i \in 1..(Len(calls) - 1) : calls'[i] = calls[i]
              /\ calls'[Len(calls)] = g /\ calls[Len(calls)] = Top /\ Top.call = "if"
  BY ElseCalls
<1>2. Len(calls) \in Nat
  BY Typed1
<1>3. \A i \in 1..Len(calls) : i \in 1..(Len(calls) - 1) \/ i = Len(calls)
  BY <1>2
<1>4. \A i \in 1..Len(calls) : (calls'[i].call = "switch") = (calls[i].call = "switch")
  <2>1. ASSUME NEW i \in 1..Len(calls) PROVE (calls'[i].call = "switch") = (calls[i].call = "switch")
    <3>1. CASE i = Len(calls)
      BY <1>1, <3>1
    <3>2. CASE i \in 1..(Len(calls) - 1)
      BY <1>1, <3>2
    <3> QED BY <1>3, <3>1, <3>2
  <2> QED BY <2>1
<1>5. PICK s : s = calls'
  OBVIOUS
<1>6. SwitchesOf(s) = SwitchesOf(calls)
  BY <1>1, <1>4, <1>5 DEF SwitchesOf
<1>7. \A i \in SwitchesOf(calls) : s[i] = calls[i]
  <2>1. \A i \in SwitchesOf(calls) : i \in 1..(Len(calls) - 1)
    BY <1>1, <1>3 DEF SwitchesOf
  <2> QED BY <1>1, <1>5, <2>1
<1>8. SameSwitches(calls', calls)
  BY <1>5, <1>6, <1>7 DEF SameSwitches
<1> QED BY <1>8, SameSwitchesStep DEF Else

LEMMA BlockOwned ==
    ASSUME StmtTypeOK, Nested, CasesOwned, CompoundEnd
    PROVE  CasesOwned'
<1>1. /\ calls \in Seq(CallRecord) /\ calls # <<>> /\ calls' = Front(calls) /\ Last(calls).call = "compound"
  BY Typed1 DEF CompoundEnd, Returned, Top
<1>2. SameSwitches(calls', calls)
  BY <1>1, FrontSame
<1>3. UNCHANGED switch /\ (errors => errors')
  BY DEF CompoundEnd, Error
<1> QED BY <1>2, <1>3, SameSwitchesStep

LEMMA FunctionEndOwned ==
    ASSUME StmtTypeOK, Nested, CasesOwned, FunctionEnd
    PROVE  CasesOwned'
<1>1. /\ calls \in Seq(CallRecord) /\ calls # <<>> /\ Top.call = "function" /\ calls' = <<>>
      /\ UNCHANGED switch /\ errors' = errors
  BY Typed1 DEF FunctionEnd, Returned
<1>2. Len(calls) \in Nat \ {0} /\ Top = calls[Len(calls)]
  BY <1>1, Fronted DEF Top
<1>3. Len(calls) = 1
  <2>1. Len(calls) \notin 2..Len(calls)
    BY <1>1, <1>2 DEF Nested
  <2>2. ASSUME NEW n \in Nat \ {0}, n \notin 2..n PROVE n = 1
    BY <2>2
  <2> QED BY <1>2, <2>1, <2>2
<1>4. PICK s : s = calls'
  OBVIOUS
<1>5. Len(s) = 0
  BY <1>1, <1>4
<1>6. SwitchesOf(s) = {} /\ SwitchesOf(calls) = {}
  BY <1>1, <1>2, <1>3, <1>5 DEF SwitchesOf
<1>7. SameSwitches(calls', calls)
  BY <1>4, <1>6 DEF SameSwitches
<1> QED BY <1>1, <1>7, SameSwitchesStep

LEMMA FunctionOwned ==
    ASSUME StmtTypeOK, Nested, CasesOwned, NEW t, dofunction_(t)
    PROVE  CasesOwned'
<1>1. PICK f : f = Call("function", <<>>, 0)
  OBVIOUS
<1>2. PICK s : s = <<f>>
  OBVIOUS
<1>3. Len(s) = 1 /\ s[1] = f /\ f.call = "function"
  BY <1>1, <1>2 DEF Call
<1>4. /\ calls' = s /\ calls = <<>> /\ UNCHANGED switch /\ errors' = errors
  BY <1>1, <1>2 DEF dofunction_, Nested
<1>5. PICK c : c = calls
  OBVIOUS
<1>6. Len(c) = 0
  BY <1>4, <1>5
<1>7. SwitchesOf(s) = {} /\ SwitchesOf(c) = {}
  BY <1>3, <1>6 DEF SwitchesOf
<1>8. SameSwitches(calls', calls)
  BY <1>4, <1>5, <1>7 DEF SameSwitches
<1> QED BY <1>4, <1>8, SameSwitchesStep

LEMMA QuietOwned ==
    ASSUME CasesOwned, Quiet \/ \E n \in Names, z \in Nat : \E what : declloc_(n, z, what)
    PROVE  CasesOwned'
<1>1. calls' = calls /\ UNCHANGED switch /\ (errors => errors')
  <2>1. CASE Quiet
    BY <2>1 DEF Quiet, switch
  <2>2. CASE \E n \in Names, z \in Nat : \E what : declloc_(n, z, what)
    <3>1. PICK n \in Names, z \in Nat : \E what : declloc_(n, z, what)
      BY <2>2
    <3>2. PICK what : declloc_(n, z, what)
      BY <3>1
    <3> QED BY <3>2 DEF switch, declloc_, Error
  <2> QED BY <2>1, <2>2
<1>2. SameSwitches(calls', calls)
  BY <1>1 DEF SameSwitches
<1> QED BY <1>1, <1>2, SameSwitchesStep

-----------------------------------------------------------------------------
(* The queue and the loops and switches that are open.                     *)

\* A strictly increasing enumeration of S counts its members.
LEMMA Counting ==
    ASSUME NEW S, NEW p \in Seq(Nat), \A q \in 1..Len(p) : p[q] \in S,
           \A q, r \in 1..Len(p) : q < r => p[q] < p[r],
           \A i \in S : \E q \in 1..Len(p) : p[q] = i,
           NEW n \in 0..Len(p)
    PROVE  Cardinality({i \in S : \E q \in 1..n : p[q] = i}) = n
<1> DEFINE T == {i \in S : \E q \in 1..n : p[q] = i}
           f == [q \in 1..n |-> p[q]]
<1>1. Len(p) \in Nat /\ n \in Nat /\ \A q \in 1..n : q \in 1..Len(p) /\ p[q] \in Nat
  BY LenProperties, ElementOfSeq
<1>2. f \in [1..n -> T]
  BY <1>1
<1>3. \A q, r \in 1..n : f[q] = f[r] => q = r
  <2>1. ASSUME NEW q \in 1..n, NEW r \in 1..n, p[q] = p[r], q # r PROVE FALSE
    <3>1. q < r \/ r < q
      BY <1>1, <2>1
    <3>2. p[q] < p[r] \/ p[r] < p[q]
      BY <1>1, <3>1
    <3> QED BY <1>1, <2>1, <3>2
  <2> QED BY <2>1
<1>4. \A i \in T : \E q \in 1..n : f[q] = i
  OBVIOUS
<1>5. ExistsBijection(1..n, T)
  <2> HIDE DEF f, T
  <2>1. f \in Bijection(1..n, T)
    BY <1>2, <1>3, <1>4 DEF Bijection, Injection, Surjection, IsInjective
  <2> QED BY <2>1 DEF ExistsBijection
<1> HIDE DEF T
<1>6. Cardinality(T) = n
  BY <1>1, <1>5, FS_CountingElements
<1> QED BY <1>6 DEF T

LEMMA QueueFollows ==
    ASSUME StmtTypeOK, NEW p, Queued(p)
    PROVE  /\ Len(wq) = Cardinality(Leavable)
           /\ \A i \in Leavable : wq[UpTo(i, Leavable)] = EntryOf(calls[i])
<1>1. /\ p \in Seq(Nat) /\ Len(p) = Len(wq) /\ Len(p) \in Nat
      /\ \A q \in 1..Len(p) : p[q] \in Leavable /\ wq[q] = EntryOf(calls[p[q]]) /\ p[q] \in Nat
      /\ \A q, r \in 1..Len(p) : q < r => p[q] < p[r]
      /\ \A i \in Leavable : \E q \in 1..Len(p) : p[q] = i
  BY LenProperties, ElementOfSeq DEF Queued
<1>2. ASSUME NEW n \in 0..Len(p)
      PROVE  Cardinality({i \in Leavable : \E q \in 1..n : p[q] = i}) = n
  BY <1>1, Counting
<1>3. Len(wq) = Cardinality(Leavable)
  <2>1. {i \in Leavable : \E q \in 1..Len(p) : p[q] = i} = Leavable /\ Len(p) \in 0..Len(p)
    BY <1>1
  <2> QED BY <1>1, <1>2, <2>1
<1>4. ASSUME NEW i \in Leavable PROVE wq[UpTo(i, Leavable)] = EntryOf(calls[i])
  <2>1. PICK q \in 1..Len(p) : p[q] = i
    BY <1>1
  <2>2. ASSUME NEW j \in Leavable PROVE j <= i <=> \E r \in 1..q : p[r] = j
    <3>1. PICK r \in 1..Len(p) : p[r] = j
      BY <1>1
    <3>2. r <= q => r \in 1..q /\ (r < q \/ r = q)
      BY <1>1
    <3>3. r <= q => j <= i
      BY <1>1, <2>1, <3>1, <3>2
    <3>4. ~(r <= q) => q < r
      BY <1>1
    <3>5. ~(r <= q) => i < j
      BY <1>1, <2>1, <3>1, <3>4
    <3>6. ASSUME NEW x \in 1..q, p[x] = j PROVE x = r
      <4>1. x \in 1..Len(p)
        BY <1>1
      <4>2. x < r \/ r < x \/ x = r
        BY <1>1
      <4> QED BY <1>1, <3>1, <3>6, <4>1, <4>2
    <3>7. i \in Nat /\ j \in Nat
      BY <1>1, <2>1, <3>1
    <3> QED BY <1>1, <3>1, <3>2, <3>3, <3>5, <3>6, <3>7
  <2>3. {j \in Leavable : j <= i} = {j \in Leavable : \E r \in 1..q : p[r] = j}
    BY <2>2
  <2>4. q \in 0..Len(p)
    BY <1>1
  <2>5. UpTo(i, Leavable) = q
    BY <1>2, <2>3, <2>4 DEF UpTo
  <2> QED BY <1>1, <2>1, <2>5
<1> QED BY <1>3, <1>4

\* What TablesFollow says of the switches.
LEMMA SwitchesFollow ==
    ASSUME StmtTypeOK, TablesIn(calls, swtab, swdefault, swactive)
    PROVE  /\ swactive = (Switches # {})
           /\ Switches = {} => swtab = <<>> /\ swdefault = 0
           /\ \A i \in Switches :
                 /\ UpTo(i, Switches) = 1 => calls[i].swnex = 0
                 /\ SubSeq(swtab, calls[i].swnex + 1, CasesEnd(i)) = calls[i].cases
                 /\ DefaultOf(i) = calls[i].default
<1>1. /\ calls \in Seq(CallRecord) /\ Len(calls) \in Nat /\ DOMAIN calls = 1..Len(calls)
      /\ swtab \in Seq(Nat) /\ Len(swtab) \in Nat
  BY Typed1, LenProperties
<1>2. Switches = SwitchesOf(calls) /\ Switches \in SUBSET (1..Len(calls)) /\ Switches \in SUBSET Nat
  BY <1>1 DEF Switches, SwitchesOf
<1>3. swactive = (Switches # {})
  BY <1>2 DEF TablesIn, Chained
<1>4. Switches = {} => swtab = <<>> /\ swdefault = 0
  BY <1>1, <1>2, EmptySeq DEF TablesIn, Chained
<1>5. ASSUME NEW i \in Switches, UpTo(i, Switches) = 1 PROVE calls[i].swnex = 0
  <2>1. IsFiniteSet({j \in Switches : j <= i})
    <3>1. IsFiniteSet(1..Len(calls)) /\ {j \in Switches : j <= i} \in SUBSET (1..Len(calls))
      BY <1>1, <1>2, FS_Interval
    <3> QED BY <3>1, FS_Subset
  <2>2. PICK x : {j \in Switches : j <= i} = {x}
    BY <1>5, <2>1, FS_Singleton DEF UpTo
  <2>3. i \in {j \in Switches : j <= i}
    BY <1>2
  <2>4. {j \in Switches : j < i} = {}
    <3>1. \A j \in Switches : j < i => j <= i /\ j # i
      BY <1>2
    <3> QED BY <2>2, <2>3, <3>1
  <2> QED BY <1>2, <2>4 DEF TablesIn, Chained
<1>6. ASSUME NEW i \in Switches, NEW b \in Nat, b <= Len(swtab), Slice(swtab, calls[i].swnex, b, calls[i].cases)
      PROVE  SubSeq(swtab, calls[i].swnex + 1, b) = calls[i].cases
  <2>1. PICK x, c : x = calls[i].swnex /\ c = calls[i].cases
    OBVIOUS
  <2>2. x \in Nat /\ c \in Seq(Nat)
    <3>1. calls[i] \in CallRecord
      BY <1>1, <1>2, CallTypes
    <3> QED BY <2>1, <3>1 DEF CallRecord
  <2>3. x <= b /\ Len(c) = b - x /\ \A k \in 1..Len(c) : c[k] = swtab[x + k]
    BY <1>6, <2>1 DEF Slice
  <2>4. PICK m : m = x + 1
    OBVIOUS
  <2>5. m \in 1..(Len(swtab) + 1) /\ b \in (m - 1)..Len(swtab) /\ m \in Nat
    BY <1>1, <1>6, <2>2, <2>3, <2>4
  <2>6. PICK u : u = SubSeq(swtab, m, b)
    OBVIOUS
  <2>7. u \in Seq(Nat) /\ Len(u) = b - m + 1 /\ \A k \in 1..(b - m + 1) : u[k] = swtab[m + k - 1]
    BY <1>1, <2>5, <2>6, SubSeqProperties
  <2>8. Len(u) = Len(c) /\ Len(c) \in Nat
    BY <1>6, <2>2, <2>3, <2>4, <2>7
  <2>9. \A k \in 1..Len(c) : u[k] = c[k]
    <3>1. ASSUME NEW k \in 1..Len(c) PROVE u[k] = c[k]
      <4>1. m + k - 1 = x + k /\ k \in 1..(b - m + 1)
        BY <1>6, <2>2, <2>3, <2>4
      <4> QED BY <2>3, <2>7, <4>1
    <3> QED BY <3>1
  <2>10. u = c
    BY <2>2, <2>7, <2>8, <2>9, SeqEqual
  <2> QED BY <2>1, <2>4, <2>6, <2>10
<1>7. ASSUME NEW i \in Switches
      PROVE  /\ SubSeq(swtab, calls[i].swnex + 1, CasesEnd(i)) = calls[i].cases
             /\ DefaultOf(i) = calls[i].default
  <2>1. CASE Within(i) = {}
    <3>1. Deepest(calls, i)
      BY <1>2, <2>1 DEF Deepest, Within
    <3>2. Slice(swtab, calls[i].swnex, Len(swtab), calls[i].cases) /\ calls[i].default = swdefault
      BY <3>1 DEF TablesIn, OwnCases
    <3>3. Len(swtab) <= Len(swtab)
      BY <1>1
    <3> QED BY <1>1, <1>6, <2>1, <3>2, <3>3 DEF CasesEnd, DefaultOf
  <2>2. CASE Within(i) # {}
    <3>1. PICK j : j = Nearest(i)
      OBVIOUS
    <3>2. Within(i) \in SUBSET Nat
      BY <1>2 DEF Within
    <3>3. \E k \in Within(i) : \A m \in Within(i) : k <= m
      BY <2>2, <3>2, LeastNat
    <3>4. j \in Within(i) /\ \A m \in Within(i) : j <= m
      BY <3>1, <3>3 DEF Nearest
    <3>5. Follow(calls, i, j)
      BY <1>2, <3>4 DEF Follow, Within
    <3>6. Slice(swtab, calls[i].swnex, calls[j].swnex, calls[i].cases) /\ calls[i].default = calls[j].swdef
      BY <3>5 DEF TablesIn, OwnCases
    <3>7. calls[j].swnex \in Nat /\ calls[j].swnex <= Len(swtab)
      <4>1. j \in 1..Len(calls) /\ j \in SwitchesOf(calls)
        BY <1>2, <3>4 DEF Within
      <4> QED BY <1>1, <4>1, CallTypes DEF TablesIn, Chained
    <3> QED BY <1>6, <2>2, <3>1, <3>6, <3>7 DEF CasesEnd, DefaultOf
  <2> QED BY <2>1, <2>2
<1> QED BY <1>3, <1>4, <1>5, <1>7

LEMMA TablesHold ==
    ASSUME StmtInv, CasesOwned
    PROVE  TablesFollow
<1>1. StmtTypeOK /\ \E p : Queued(p)
  BY DEF StmtInv, DepthInv, Recursion
<1>2. DOMAIN calls = 1..Len(calls)
  BY <1>1, Typed1, LenProperties
<1>3. ncmp = Cardinality({i \in DOMAIN calls : calls[i].call = "compound"})
  BY <1>2 DEF StmtInv, BlocksCounted, CompoundsOf
<1> QED BY <1>1, <1>3, QueueFollows, SwitchesFollow DEF TablesFollow, CasesOwned

LEMMA OwnedStep ==
    ASSUME StmtInv, StmtInv', CasesOwned, [StmtNext]_statement
    PROVE  CasesOwned'
<1>1. StmtTypeOK /\ StmtTypeOK' /\ Nested
  BY DEF StmtInv, DepthInv, Recursion
<1>2. CASE StayAction
  BY <1>1, <1>2, StayOwned
<1>3. CASE PushStep
  BY <1>1, <1>3, PushOwned
<1>4. CASE PopStep
  BY <1>1, <1>4, PopOwned
<1>5. CASE CompoundEnd
  BY <1>1, <1>5, BlockOwned
<1>6. CASE Else
  BY <1>1, <1>6, ElseOwned
<1>7. CASE FunctionEnd
  BY <1>1, <1>7, FunctionEndOwned
<1>8. CASE NoStatement \/ EndOfSource \/ Elsewhere \/ UNCHANGED statement
  BY <1>8, QuietSteps, QuietOwned
<1>9. CASE \E n \in Names, z \in Nat : \E what : declloc_(n, z, what)
  BY <1>9, QuietOwned
<1>10. CASE \E t : ArgumentsOK(t) /\ dofunction_(t)
  BY <1>1, <1>10, FunctionOwned
<1> QED BY <1>2, <1>3, <1>4, <1>5, <1>6, <1>7, <1>8, <1>9, <1>10
        DEF StmtNext, Starts, Ends, StayAction, PushStep, PopStep

LEMMA OwnedStarts ==
    StmtInit => CasesOwned
<1> SUFFICES ASSUME StmtInit PROVE TablesIn(calls, swtab, swdefault, swactive)
  BY DEF CasesOwned
<1>1. PICK s : s = <<>>
  OBVIOUS
<1>2. Len(s) = 0
  BY <1>1
<1>3. SwitchesOf(s) = {}
  BY <1>2 DEF SwitchesOf
<1>4. calls = s /\ swtab = s /\ swdefault = 0 /\ swactive = FALSE
  BY <1>1 DEF StmtInit
<1> QED BY <1>2, <1>3, <1>4, NoSwitches

\* The queue, the table of cases and the counts are as the recursion says, whatever the
\* source is: break, continue and the end of a loop or a switch find what is theirs
\* (CC_RESIDENT.C:579, CC_STMT.C:564).
THEOREM TablesAreFollowed == StmtSpec => []TablesFollow
<1>1. StmtInit => StmtInv /\ CasesOwned
  BY StmtStarts, OwnedStarts
<1>2. StmtInv /\ CasesOwned /\ [StmtNext]_statement => StmtInv' /\ CasesOwned'
  BY StmtStep, OwnedStep
<1>3. StmtInv /\ CasesOwned => TablesFollow
  BY TablesHold
<1> QED BY <1>1, <1>2, <1>3, PTL DEF StmtSpec

-----------------------------------------------------------------------------
(* The labels of the function: what LocalsTrue says of them.               *)

\* The table t has the numbers g that the names were given, and no others for them.
Numbered(t, g) ==
    \A n \in Names : g[n] # 0 =>
        /\ \E i \in DOMAIN t : t[i].label /\ t[i].name = n
        /\ \A i \in DOMAIN t : t[i].label /\ t[i].name = n => t[i].offset = g[n]

LabelsKept == calls # <<>> => Numbered(locals, given)

LEMMA KeptSame ==
    ASSUME NEW t, NEW t2, NEW g, Numbered(t, g), SameLabels(t2, t)
    PROVE  Numbered(t2, g)
<1> SUFFICES ASSUME NEW n \in Names, g[n] # 0
             PROVE  /\ \E i \in DOMAIN t2 : t2[i].label /\ t2[i].name = n
                    /\ \A i \in DOMAIN t2 : t2[i].label /\ t2[i].name = n => t2[i].offset = g[n]
  BY DEF Numbered
<1>1. PICK i \in DOMAIN t : t[i].label /\ t[i].name = n
  BY DEF Numbered
<1>2. \E k \in DOMAIN t2 : t2[k].label /\ t2[k].name = n
  BY <1>1 DEF SameLabels
<1>3. ASSUME NEW k \in DOMAIN t2, t2[k].label, t2[k].name = n PROVE t2[k].offset = g[n]
  <2>1. PICK j \in DOMAIN t : t[j].label /\ t2[k].name = t[j].name /\ t2[k].offset = t[j].offset
    BY <1>3 DEF SameLabels
  <2> QED BY <1>3, <2>1 DEF Numbered
<1> QED BY <1>2, <1>3

LEMMA KeptAdded ==
    ASSUME NEW S, NEW t \in Seq(S), NEW g \in [Names -> Nat], NEW m, Numbered(t, g),
           NEW e \in S, NEW n \in Names, e.label, e.name = n, e.offset = m,
           \A i \in DOMAIN t : t[i].name # n
    PROVE  Numbered(Append(t, e), [g EXCEPT ![n] = m])
<1> DEFINE t2 == Append(t, e)
           g2 == [g EXCEPT ![n] = m]
<1>1. /\ Len(t2) = Len(t) + 1 /\ Len(t) \in Nat
      /\ \A k \in 1..Len(t) : t2[k] = t[k]
      /\ t2[Len(t) + 1] = e
      /\ t2 \in Seq(S)
  BY Appended
<1>2. DOMAIN t = 1..Len(t) /\ DOMAIN t2 = 1..(Len(t) + 1)
  BY <1>1, LenProperties
<1>3. g2[n] = m /\ \A x \in Names : x # n => g2[x] = g[x]
  OBVIOUS
<1>4. /\ \A k \in DOMAIN t : k \in DOMAIN t2 /\ t2[k] = t[k]
      /\ \A k \in DOMAIN t2 : k \in DOMAIN t \/ k = Len(t) + 1
      /\ Len(t) + 1 \in DOMAIN t2
  BY <1>1, <1>2
<1> HIDE DEF t2, g2
<1>5. ASSUME NEW x \in Names, g2[x] # 0
      PROVE  /\ \E i \in DOMAIN t2 : t2[i].label /\ t2[i].name = x
             /\ \A i \in DOMAIN t2 : t2[i].label /\ t2[i].name = x => t2[i].offset = g2[x]
  <2>1. CASE x = n
    <3>1. \E i \in DOMAIN t2 : t2[i].label /\ t2[i].name = x
      BY <1>1, <1>4, <2>1
    <3>2. ASSUME NEW i \in DOMAIN t2, t2[i].name = x PROVE t2[i].offset = g2[x]
      <4>1. i = Len(t) + 1
        BY <1>4, <2>1, <3>2
      <4> QED BY <1>1, <1>3, <2>1, <4>1
    <3> QED BY <3>1, <3>2
  <2>2. CASE x # n
    <3>1. g2[x] = g[x] /\ g[x] # 0
      BY <1>3, <1>5, <2>2
    <3>2. PICK i \in DOMAIN t : t[i].label /\ t[i].name = x
      BY <3>1 DEF Numbered
    <3>3. ASSUME NEW k \in DOMAIN t2, t2[k].label, t2[k].name = x PROVE t2[k].offset = g2[x]
      <4>1. k \in DOMAIN t /\ t2[k] = t[k]
        BY <1>1, <1>4, <2>2, <3>3
      <4> QED BY <3>1, <3>3, <4>1 DEF Numbered
    <3> QED BY <1>4, <3>2, <3>3
  <2> QED BY <2>1, <2>2
<1> QED BY <1>5 DEF Numbered, t2, g2

\* goto and a label: an entry of that name, new or old.
LEMMA addlabelKept ==
    ASSUME StmtTypeOK, StmtTypeOK', NEW n \in Names, NEW def \in BOOLEAN, NEW wrong, addlabel(n, def, wrong),
           Numbered(locals, given)
    PROVE  Numbered(locals', given')
<1>1. /\ locals \in Seq(Range(locals)) /\ DOMAIN locals = 1..Len(locals) /\ nxtlab \in Nat
      /\ given \in [Names -> Nat]
  BY Typed1, LenProperties DEF StmtTypeOK
<1>2. CASE UNCHANGED <<locals, given>>
  BY <1>2
<1>3. CASE Found(n) # {} /\ given' = given /\ locals' = [locals EXCEPT ![Latest(n)].def = TRUE]
  <2>1. Latest(n) \in DOMAIN locals
    BY <1>3, LatestIs
  <2>2. DOMAIN locals' = DOMAIN locals
    BY <1>3
  <2>3. \A k \in DOMAIN locals : /\ locals'[k].label = locals[k].label
                                 /\ locals'[k].name = locals[k].name /\ locals'[k].offset = locals[k].offset
    BY <1>3
  <2>4. SameLabels(locals', locals)
    BY <2>2, <2>3 DEF SameLabels
  <2> QED BY <1>3, <2>4, KeptSame
<1>4. CASE Found(n) = {} /\ Len(locals) # NUMLOCS
  <2> DEFINE e == [name |-> n, label |-> TRUE, def |-> def, offset |-> nxtlab', size |-> 0, is |-> None]
             S == Range(locals) \cup {e}
  <2>1. locals' = Append(locals, e) /\ given' = [given EXCEPT ![n] = nxtlab']
    BY <1>4 DEF addlabel
  <2>2. locals \in Seq(S) /\ e \in S
    BY <1>1, SeqMonotonic
  <2>3. e.label /\ e.name = n /\ e.offset = nxtlab'
    OBVIOUS
  <2>4. \A i \in DOMAIN locals : locals[i].name # n
    BY <1>4 DEF Found
  <2> HIDE DEF e, S
  <2> QED BY <1>1, <2>1, <2>2, <2>3, <2>4, KeptAdded
<1> QED BY <1>2, <1>3, <1>4 DEF addlabel

LEMMA KeptStarts ==
    StmtInit => LabelsKept
BY DEF StmtInit, LabelsKept

LEMMA KeptStep ==
    ASSUME StmtInv, StmtInv', LabelsKept, [StmtNext]_statement
    PROVE  LabelsKept'
<1>1. StmtTypeOK /\ StmtTypeOK' /\ Nested
  BY DEF StmtInv, DepthInv, Recursion
<1>2. CASE dogoto
  <2>1. PICK n \in Names : addlabel(n, FALSE, nogo' > 0)
    BY <1>2 DEF dogoto
  <2>2. calls # <<>>
    BY <1>2 DEF dogoto, Statement, Called
  <2> QED BY <1>1, <2>1, <2>2, addlabelKept DEF LabelsKept
<1>3. CASE dolabel
  <2>1. PICK n \in Names : addlabel(n, TRUE, FALSE)
    BY <1>3 DEF dolabel
  <2>2. calls # <<>>
    BY <1>3 DEF dolabel, Statement, Called
  <2> QED BY <1>1, <2>1, <2>2, addlabelKept DEF LabelsKept
<1>4. CASE addwhileFails \/ docase \/ dodefault \/ doreturn \/ dobreak \/ docont \/ doexpr
  <2>1. calls # <<>> /\ UNCHANGED <<locals, given>>
    BY <1>4 DEF addwhileFails, docase, dodefault, doreturn, dobreak, docont, doexpr, Statement, Called
  <2> QED BY <2>1 DEF LabelsKept
<1>5. CASE PushStep
  <2>1. calls # <<>> /\ UNCHANGED <<locals, given>>
    BY <1>5 DEF PushStep, compound, doif, dowhile, dodo, dofor, doswitch, addwhile, Statement, Called
  <2> QED BY <2>1 DEF LabelsKept
<1>6. CASE PopStep \/ Else
  <2>1. calls # <<>> /\ UNCHANGED <<locals, given>>
    BY <1>6, PopIs DEF PlainPop, Else, Returned
  <2> QED BY <2>1 DEF LabelsKept
<1>7. CASE CompoundEnd
  <2>1. calls # <<>> /\ given' = given /\ SameLabels(locals', locals)
    BY <1>1, <1>7, BlockEnds
  <2> QED BY <2>1, KeptSame DEF LabelsKept
<1>8. CASE FunctionEnd
  BY <1>8 DEF FunctionEnd, LabelsKept
<1>9. CASE NoStatement \/ EndOfSource \/ Elsewhere \/ UNCHANGED statement
  <2>1. calls' = calls /\ UNCHANGED <<locals, given>>
    BY <1>9, QuietSteps DEF Quiet
  <2> QED BY <2>1 DEF LabelsKept
<1>10. CASE \E n \in Names, z \in Nat : \E what : declloc_(n, z, what)
  <2>1. PICK n \in Names, z \in Nat : \E what : declloc_(n, z, what)
    BY <1>10
  <2>2. PICK what : declloc_(n, z, what)
    BY <2>1
  <2>3. calls # <<>> /\ given' = given
    BY <2>2 DEF declloc_, Called
  <2>4. PICK e : e = [name |-> n, label |-> FALSE, def |-> FALSE, offset |-> csp - declared', size |-> z, is |-> what]
    OBVIOUS
  <2>5. e.label = FALSE /\ (locals' = locals \/ locals' = Append(locals, e))
    BY <2>2, <2>4 DEF declloc_
  <2>6. PICK S : S = Range(locals) \cup {e}
    OBVIOUS
  <2>7. locals \in Seq(S) /\ e \in S
    BY <1>1, <2>6, Typed1, SeqMonotonic
  <2>8. locals' = locals \/ SameLabels(locals', locals)
    BY <2>5, <2>7, NamesVariable
  <2> QED BY <2>3, <2>8, KeptSame DEF LabelsKept
<1>11. CASE \E t : ArgumentsOK(t) /\ dofunction_(t)
  <2>1. PICK t : ArgumentsOK(t) /\ dofunction_(t)
    BY <1>11
  <2>2. \A n \in Names : given'[n] = 0
    BY <2>1 DEF dofunction_
  <2> QED BY <2>2 DEF LabelsKept, Numbered
<1> QED BY <1>2, <1>3, <1>4, <1>5, <1>6, <1>7, <1>8, <1>9, <1>10, <1>11
        DEF StmtNext, Starts, Ends, PushStep, PopStep

LEMMA KeptSurvives ==
    ASSUME LabelsKept
    PROVE  Survive
<1> SUFFICES ASSUME calls # <<>>, NEW n \in Names, given[n] # 0
             PROVE  {locals[i].offset : i \in {j \in Found(n) : locals[j].label}} = {given[n]}
  BY DEF Survive
<1>1. Numbered(locals, given)
  BY DEF LabelsKept
<1>2. PICK i \in DOMAIN locals : locals[i].label /\ locals[i].name = n
  BY <1>1 DEF Numbered
<1>3. i \in {j \in Found(n) : locals[j].label}
  BY <1>2 DEF Found
<1>4. \A k \in {j \in Found(n) : locals[j].label} : locals[k].offset = given[n]
  BY <1>1 DEF Numbered, Found
<1> QED BY <1>3, <1>4

-----------------------------------------------------------------------------
(* The slots of the variables: what LocalsTrue says of them.               *)

\* When a function begins (its only call is that of its body) its arguments have places
\* above the frame, each below the one before it.
ArgumentsApart ==
    Clean /\ Len(calls) = 1 /\ at = "statement" => \A i \in Variables :
        /\ locals[i].offset >= LastArgument
        /\ \A j \in Variables : i < j => locals[j].offset + locals[j].size <= locals[i].offset

\* No variable of the first n entries of t is below depth o.
Above(t, n, o) == \A i \in DOMAIN t : i <= n /\ ~t[i].label => t[i].offset >= o

\* Each is below the frame or an argument, and below those before it.
InOrder(t) ==
    /\ \A i \in DOMAIN t : ~t[i].label => t[i].offset + t[i].size <= 0 \/ t[i].offset >= LastArgument
    /\ \A i, j \in DOMAIN t : i < j /\ ~t[i].label /\ ~t[j].label => t[j].offset + t[j].size <= t[i].offset

\* The calls s keep the depths at which the variables so far end.
DepthsKept(s, t) == \A c \in 2..Len(s) : s[c].savcsp <= 0 /\ Above(t, s[c].savloc, s[c].savcsp)

VariablesApart ==
    Clean /\ at # "between" =>
        Opened <= 0 /\ Above(locals, Len(locals), Opened) /\ InOrder(locals) /\ DepthsKept(calls, locals)

\* t2 has the variables of t, or some of them.
SameVariables(t2, t) ==
    \A i \in DOMAIN t2 : ~t2[i].label =>
        i \in DOMAIN t /\ ~t[i].label /\ t2[i].offset = t[i].offset /\ t2[i].size = t[i].size

SameDepths(s2, s) ==
    Len(s2) <= Len(s) /\ \A c \in 2..Len(s2) : s2[c].savcsp = s[c].savcsp /\ s2[c].savloc = s[c].savloc

LEMMA AboveSame ==
    ASSUME NEW t, NEW t2, SameVariables(t2, t), NEW n, NEW o, Above(t, n, o)
    PROVE  Above(t2, n, o)
BY DEF SameVariables, Above

LEMMA InOrderSame ==
    ASSUME NEW t, NEW t2, SameVariables(t2, t), InOrder(t)
    PROVE  InOrder(t2)
BY DEF SameVariables, InOrder

LEMMA DepthsStay ==
    ASSUME NEW t, NEW t2, SameVariables(t2, t), NEW s, NEW s2, SameDepths(s2, s), DepthsKept(s, t),
           Len(s) \in Nat, Len(s2) \in Nat
    PROVE  DepthsKept(s2, t2)
<1> SUFFICES ASSUME NEW c \in 2..Len(s2) PROVE s2[c].savcsp <= 0 /\ Above(t2, s2[c].savloc, s2[c].savcsp)
  BY DEF DepthsKept
<1>1. c \in 2..Len(s) /\ s2[c].savcsp = s[c].savcsp /\ s2[c].savloc = s[c].savloc
  BY DEF SameDepths
<1>2. s[c].savcsp <= 0 /\ Above(t, s[c].savloc, s[c].savcsp)
  BY <1>1 DEF DepthsKept
<1> QED BY <1>1, <1>2, AboveSame

\* Of a table that only gets shorter or gets labels.
LEMMA AboveAll ==
    ASSUME NEW S, NEW t \in Seq(S), NEW S2, NEW t2 \in Seq(S2), SameVariables(t2, t), NEW o,
           Above(t, Len(t), o)
    PROVE  Above(t2, Len(t2), o)
<1>1. \A i \in DOMAIN t : i <= Len(t)
  BY LenProperties
<1> QED BY <1>1 DEF SameVariables, Above

LEMMA SameVariablesSelf ==
    ASSUME NEW t
    PROVE  SameVariables(t, t)
BY DEF SameVariables

LEMMA SameDepthsSelf ==
    ASSUME NEW s, Len(s) \in Nat
    PROVE  SameDepths(s, s)
BY DEF SameDepths

\* Nothing is declared: the variables, the depths and the next depth are the same, or
\* those of calls that go on.
LEMMA ApartStays ==
    ASSUME StmtTypeOK, StmtTypeOK', Clean' => Clean /\ Opened' = Opened, at # "between", VariablesApart,
           SameVariables(locals', locals), SameDepths(calls', calls)
    PROVE  VariablesApart'
<1> SUFFICES ASSUME Clean'
             PROVE  Opened' <= 0 /\ Above(locals', Len(locals'), Opened') /\ InOrder(locals') /\ DepthsKept(calls', locals')
  BY DEF VariablesApart
<1>1. Opened <= 0 /\ Above(locals, Len(locals), Opened) /\ InOrder(locals) /\ DepthsKept(calls, locals) /\ Opened' = Opened
  BY DEF VariablesApart
<1>2. PICK t, t2, s, s2, S, S2, o : /\ t = locals /\ t2 = locals' /\ s = calls /\ s2 = calls'
                                    /\ S = Range(locals) /\ S2 = Range(locals)' /\ o = Opened
  OBVIOUS
<1>3. t \in Seq(S) /\ t2 \in Seq(S2) /\ Len(s) \in Nat /\ Len(s2) \in Nat
  BY <1>2, Typed1, Typed1Next
<1>4. Above(t2, Len(t2), o)
  BY <1>1, <1>2, <1>3, AboveAll
<1>5. InOrder(t2) /\ DepthsKept(s2, t2)
  BY <1>1, <1>2, <1>3, InOrderSame, DepthsStay
<1> QED BY <1>1, <1>2, <1>4, <1>5

LEMMA addlabelVariables ==
    ASSUME StmtTypeOK, StmtTypeOK', NEW n, NEW def \in BOOLEAN, NEW wrong, addlabel(n, def, wrong)
    PROVE  SameVariables(locals', locals)
<1>1. locals \in Seq(Range(locals)) /\ Len(locals) \in Nat /\ DOMAIN locals = 1..Len(locals)
  BY Typed1, LenProperties
<1>2. CASE locals' = locals
  BY <1>2, SameVariablesSelf
<1>3. CASE Found(n) # {} /\ locals' = [locals EXCEPT ![Latest(n)].def = TRUE]
  <2>1. DOMAIN locals' = DOMAIN locals
    BY <1>3
  <2>2. \A k \in DOMAIN locals : /\ locals'[k].label = locals[k].label
                                 /\ locals'[k].offset = locals[k].offset /\ locals'[k].size = locals[k].size
    BY <1>3
  <2> QED BY <2>1, <2>2 DEF SameVariables
<1>4. CASE Found(n) = {} /\ Len(locals) # NUMLOCS
  <2>1. PICK e : e = [name |-> n, label |-> TRUE, def |-> def, offset |-> nxtlab', size |-> 0, is |-> None]
    OBVIOUS
  <2>2. locals' = Append(locals, e) /\ e.label
    BY <1>4, <2>1 DEF addlabel
  <2>3. PICK S : S = Range(locals) \cup {e}
    OBVIOUS
  <2>4. locals \in Seq(S) /\ e \in S
    BY <1>1, <2>3, SeqMonotonic
  <2>5. PICK t, t2 : t = locals /\ t2 = locals'
    OBVIOUS
  <2>6. /\ Len(t2) = Len(t) + 1 /\ t2[Len(t) + 1] = e /\ t2 \in Seq(S)
        /\ \A k \in 1..Len(t) : t2[k] = t[k]
    <3>1. t \in Seq(S) /\ t2 = Append(t, e)
      BY <2>2, <2>4, <2>5
    <3> QED BY <2>4, <3>1, Appended
  <2>7. DOMAIN t2 = 1..(Len(t) + 1) /\ DOMAIN t = 1..Len(t) /\ Len(t) \in Nat
    BY <1>1, <2>5, <2>6, LenProperties
  <2>8. \A k \in DOMAIN t2 : k \in DOMAIN t \/ k = Len(t) + 1
    BY <2>7
  <2>9. SameVariables(t2, t)
    BY <2>2, <2>6, <2>7, <2>8 DEF SameVariables
  <2> QED BY <2>5, <2>9
<1> QED BY <1>2, <1>3, <1>4 DEF addlabel

LEMMA SameCallDepths ==
    ASSUME NEW s, NEW s2, Len(s2) = Len(s), Len(s) \in Nat, \A i \in 1..Len(s) : SameCall(s2[i], s[i])
    PROVE  SameDepths(s2, s)
BY DEF SameDepths, SameCall

LEMMA StayApart ==
    ASSUME StmtInv, StmtInv', VariablesApart, StayAction
    PROVE  VariablesApart'
<1>1. StmtTypeOK /\ StmtTypeOK' /\ Recursion
  BY DEF StmtInv, DepthInv
<1>2. Stays
  BY <1>1, StaySteps
<1>3. at # "between" /\ Len(calls') = Len(calls) /\ \A i \in 1..Len(calls) : SameCall(calls'[i], calls[i])
  BY <1>2 DEF Stays
<1>4. SameDepths(calls', calls)
  BY <1>1, <1>3, Typed1, SameCallDepths
<1>5. Clean' => Clean
  BY StayClean
<1>6. Clean' => Opened' = Opened
  <2>1. ASSUME Clean' PROVE Opened' = Opened
    <3>1. Blocks
      BY <1>5, <2>1 DEF StmtInv, DepthInv, Scoped
    <3> QED BY <1>1, <2>1, <3>1, StayDepth
  <2> QED BY <2>1
<1>7. SameVariables(locals', locals)
  <2>1. CASE dogoto
    <3>1. PICK n \in Names : addlabel(n, FALSE, nogo' > 0)
      BY <2>1 DEF dogoto
    <3> QED BY <1>1, <3>1, addlabelVariables
  <2>2. CASE dolabel
    <3>1. PICK n \in Names : addlabel(n, TRUE, FALSE)
      BY <2>2 DEF dolabel
    <3> QED BY <1>1, <3>1, addlabelVariables
  <2>3. CASE ~(dogoto \/ dolabel)
    <3>1. locals' = locals
      BY <2>3 DEF StayAction, addwhileFails, docase, dodefault, doreturn, dobreak, docont, doexpr
    <3> QED BY <3>1, SameVariablesSelf
  <2> QED BY <2>1, <2>2, <2>3
<1> QED BY <1>1, <1>3, <1>4, <1>5, <1>6, <1>7, ApartStays

LEMMA PopApart ==
    ASSUME StmtInv, StmtInv', VariablesApart, PopStep
    PROVE  VariablesApart'
<1>1. StmtTypeOK /\ StmtTypeOK' /\ Nested /\ PlainPop
  BY PopIs DEF StmtInv, DepthInv, Recursion
<1>2. calls # <<>> /\ at = "done" /\ calls' = Front(calls) /\ locals' = locals /\ astray' = astray /\ (errors => errors')
  BY <1>1 DEF PlainPop
<1>3. SameDepths(calls', calls)
  <2>1. /\ Len(Front(calls)) = Len(calls) - 1 /\ Len(calls) \in Nat
        /\ \A k \in 1..(Len(calls) - 1) : Front(calls)[k] = calls[k]
    BY <1>1, <1>2, Typed1, Fronted
  <2> QED BY <1>2, <2>1 DEF SameDepths
<1>4. Clean' => Clean
  BY <1>2 DEF Clean
<1>5. Clean' => Opened' = Opened
  <2>1. ASSUME Clean' PROVE Opened' = Opened
    <3>1. Blocks
      BY <1>4, <2>1 DEF StmtInv, DepthInv, Scoped
    <3> QED BY <1>1, <3>1, PopDepth
  <2> QED BY <2>1
<1>6. SameVariables(locals', locals)
  BY <1>2, SameVariablesSelf
<1> QED BY <1>1, <1>2, <1>3, <1>4, <1>5, <1>6, ApartStays

LEMMA ElseApart ==
    ASSUME StmtInv, StmtInv', VariablesApart, Else
    PROVE  VariablesApart'
<1>1. StmtTypeOK /\ StmtTypeOK' /\ Nested
  BY DEF StmtInv, DepthInv, Recursion
<1>2. at # "between" /\ locals' = locals /\ errors' = errors /\ astray \subseteq astray' /\ Opened' = Opened
  BY DEF Else, Returned, Astray, block, Opened
<1>3. Len(calls') = Len(calls) /\ \A i \in 1..Len(calls) : SameBlock(calls'[i], calls[i])
  BY <1>1, ElseCalls
<1>4. SameDepths(calls', calls)
  BY <1>1, <1>3, Typed1 DEF SameDepths, SameBlock
<1>5. Clean' => Clean
  BY <1>2 DEF Clean
<1>6. SameVariables(locals', locals)
  BY <1>2, SameVariablesSelf
<1> QED BY <1>1, <1>2, <1>4, <1>5, <1>6, ApartStays

LEMMA QuietApart ==
    ASSUME StmtInv, StmtInv', VariablesApart, Quiet
    PROVE  VariablesApart'
<1>1. /\ UNCHANGED <<calls, csp, declared, locals, errors, astray>>
      /\ at' = at \/ (at = "statement" /\ at' = "done")
  BY DEF Quiet
<1>2. Opened' = Opened /\ Clean' = Clean
  BY <1>1 DEF Opened, Clean
<1> QED BY <1>1, <1>2 DEF VariablesApart

\* A call waits at the depth at which the variables so far end.
LEMMA DepthsPushed ==
    ASSUME NEW S, NEW t \in Seq(S), NEW o, NEW s \in Seq(CallRecord), NEW f \in CallRecord,
           DepthsKept(s, t), f.savcsp = o, f.savloc = Len(t), o <= 0, Above(t, Len(t), o)
    PROVE  DepthsKept(Append(s, f), t)
<1>1. /\ Len(Append(s, f)) = Len(s) + 1 /\ Append(s, f)[Len(s) + 1] = f /\ Len(s) \in Nat
      /\ \A k \in 1..Len(s) : Append(s, f)[k] = s[k]
  BY Appended
<1>2. PICK s2 : s2 = Append(s, f)
  OBVIOUS
<1>3. ASSUME NEW c \in 2..Len(s2) PROVE s2[c].savcsp <= 0 /\ Above(t, s2[c].savloc, s2[c].savcsp)
  <2>1. CASE c = Len(s) + 1
    BY <1>1, <1>2, <2>1
  <2>2. CASE c # Len(s) + 1
    <3>1. c \in 2..Len(s) /\ s2[c] = s[c]
      BY <1>1, <1>2, <2>2
    <3> QED BY <3>1 DEF DepthsKept
  <2> QED BY <2>1, <2>2
<1> QED BY <1>2, <1>3 DEF DepthsKept

LEMMA PushApart ==
    ASSUME StmtInv, StmtInv', VariablesApart, PushStep
    PROVE  VariablesApart'
<1>1. StmtTypeOK /\ StmtTypeOK'
  BY DEF StmtInv, DepthInv
<1>2. PICK f : PushAction(f)
  BY <1>1, PushCalls
<1>3. /\ f \in CallRecord /\ calls' = Append(calls, f) /\ f.savcsp = Opened /\ f.savloc = Len(locals)
      /\ at # "between" /\ Opened' = Opened /\ locals' = locals /\ errors' = errors /\ astray' = astray
  BY <1>2 DEF PushAction, Pushes, Fresh
<1> SUFFICES ASSUME Clean'
             PROVE  Opened' <= 0 /\ Above(locals', Len(locals'), Opened') /\ InOrder(locals')
                    /\ DepthsKept(calls', locals')
  BY DEF VariablesApart
<1>4. Clean
  BY <1>3 DEF Clean
<1>5. Opened <= 0 /\ Above(locals, Len(locals), Opened) /\ InOrder(locals) /\ DepthsKept(calls, locals)
  BY <1>3, <1>4 DEF VariablesApart
<1>6. PICK t, s, o, S : t = locals /\ s = calls /\ o = Opened /\ S = Range(locals)
  OBVIOUS
<1>7. t \in Seq(S) /\ s \in Seq(CallRecord)
  BY <1>1, <1>6, Typed1
<1>8. DepthsKept(Append(s, f), t)
  BY <1>3, <1>5, <1>6, <1>7, DepthsPushed
<1> QED BY <1>3, <1>5, <1>6, <1>8

\* Of the variables above depth o in the first n entries, a table that keeps these and labels.
LEMMA AboveKept ==
    ASSUME NEW t, NEW t2, SameVariables(t2, t), NEW n, NEW o, Above(t, n, o),
           \A i \in DOMAIN t2 : ~t2[i].label => i <= n
    PROVE  Above(t2, Len(t2), o)
BY DEF SameVariables, Above

\* The variables of a block go.
LEMMA BlockVariables ==
    ASSUME StmtTypeOK, Nested, CompoundEnd
    PROVE  /\ SameVariables(locals', locals)
           /\ \A i \in DOMAIN locals' : ~locals'[i].label => i <= Top.savloc
<1>1. Top.savloc \in 0..Len(locals) /\ locals' = Retained(locals, Top.savloc)
  BY BlockEnds
<1>2. PICK t, t2, n, S : t = locals /\ t2 = locals' /\ n = Top.savloc /\ S = Range(locals)
  OBVIOUS
<1>3. t \in Seq(S) /\ n \in 0..Len(t) /\ t2 = Retained(t, n)
  BY <1>1, <1>2, Typed1
<1>4. t2 \in Seq(S) /\ Len(t2) >= n /\ \A k \in 1..n : t2[k] = t[k]
  BY <1>3, RetainedLeft
<1>5. \A k \in (n + 1)..Len(t2) : t2[k].label
  BY <1>3, RetainedLeft
<1>6. DOMAIN t = 1..Len(t) /\ DOMAIN t2 = 1..Len(t2) /\ Len(t) \in Nat /\ Len(t2) \in Nat /\ n \in Nat
  BY <1>3, <1>4, LenProperties
<1>7. \A i \in DOMAIN t2 : ~t2[i].label => i \in 1..n
  BY <1>5, <1>6
<1>8. \A i \in 1..n : i <= n /\ i \in DOMAIN t
  BY <1>3, <1>6
<1>9. SameVariables(t2, t)
  BY <1>4, <1>7, <1>8 DEF SameVariables
<1> QED BY <1>2, <1>7, <1>8, <1>9

\* And the depth is that at which the block began, or the compiler stays in the function's.
LEMMA BlockApart ==
    ASSUME StmtInv, StmtInv', VariablesApart, CompoundEnd
    PROVE  VariablesApart'
<1>1. StmtTypeOK /\ StmtTypeOK' /\ Nested
  BY DEF StmtInv, DepthInv, Recursion
<1>2. /\ Top.call = "compound" /\ calls # <<>> /\ calls' = Front(calls) /\ Len(calls) >= 2
      /\ Top = calls[Len(calls)] /\ Len(calls) \in 2..Len(calls) /\ declared' = -1
      /\ Top.savcsp \in Int /\ csp' \in Int
  BY <1>1, BlockEnds
<1>3. /\ SameVariables(locals', locals)
      /\ \A i \in DOMAIN locals' : ~locals'[i].label => i <= Top.savloc
  BY <1>1, BlockVariables
<1> SUFFICES ASSUME Clean'
             PROVE  Opened' <= 0 /\ Above(locals', Len(locals'), Opened') /\ InOrder(locals')
                    /\ DepthsKept(calls', locals')
  BY DEF VariablesApart
<1>4. Clean /\ at # "between"
  <2>1. Clean' => Clean
    BY <1>1, BlockEnds
  <2> QED BY <2>1 DEF CompoundEnd, Returned
<1>5. Opened <= 0 /\ Above(locals, Len(locals), Opened) /\ InOrder(locals) /\ DepthsKept(calls, locals)
  BY <1>4 DEF VariablesApart
<1>6. Opened' = csp'
  BY <1>2 DEF Opened
<1>7. PICK t, t2, n, s, s2, d : /\ t = locals /\ t2 = locals' /\ n = Top.savloc /\ s = calls /\ s2 = calls'
                                /\ d = Top.savcsp
  OBVIOUS
<1>8. SameDepths(s2, s) /\ Len(s) \in Nat /\ Len(s2) \in Nat
  <2>1. /\ Len(Front(s)) = Len(s) - 1 /\ Len(s) \in Nat /\ s2 = Front(s)
        /\ \A k \in 1..(Len(s) - 1) : Front(s)[k] = s[k]
    BY <1>1, <1>2, <1>7, Typed1, Fronted
  <2>2. Len(s) >= 2
    BY <1>2, <1>7
  <2> QED BY <2>1, <2>2 DEF SameDepths
<1>9. InOrder(t2) /\ DepthsKept(s2, t2)
  BY <1>3, <1>5, <1>7, <1>8, InOrderSame, DepthsStay
<1>10. d <= 0 /\ Above(t, n, d)
  BY <1>2, <1>5, <1>7 DEF DepthsKept
<1>11. Above(t2, Len(t2), d)
  BY <1>3, <1>7, <1>10, AboveKept
<1>12. CASE csp' = Top.savcsp
  BY <1>6, <1>7, <1>9, <1>10, <1>11, <1>12
<1>13. CASE csp' # Top.savcsp
  <2>1. csp' = csp
    BY <1>13 DEF CompoundEnd
  <2>2. OpensAt
    BY <1>4 DEF StmtInv, DepthInv, Scoped, Blocks
  <2>3. declared < 0
    BY <1>1, <1>13, <2>1, <2>2, Typed1 DEF OpensAt
  <2>4. Opened = csp
    BY <1>1, <2>3, Typed1 DEF Opened
  <2>5. PICK o, S, S2 : o = Opened /\ S = Range(locals) /\ S2 = Range(locals)'
    OBVIOUS
  <2>6. t \in Seq(S) /\ t2 \in Seq(S2)
    BY <1>1, <1>7, <2>5, Typed1, Typed1Next
  <2>7. Above(t2, Len(t2), o)
    BY <1>3, <1>5, <1>7, <2>5, <2>6, AboveAll
  <2> QED BY <1>5, <1>6, <1>7, <1>9, <2>1, <2>4, <2>5, <2>7
<1> QED BY <1>12, <1>13

\* A declaration: the new variable ends where the others begin.
LEMMA DeclaredApart ==
    ASSUME NEW S, NEW t \in Seq(S), NEW e \in S, NEW o \in Int, NEW z \in Nat, e.offset = o - z, e.size = z,
           \A i \in DOMAIN t : t[i].offset \in Int,
           o <= 0, Above(t, Len(t), o), InOrder(t)
    PROVE  Above(Append(t, e), Len(Append(t, e)), o - z) /\ InOrder(Append(t, e))
<1>1. PICK u : u = Append(t, e)
  OBVIOUS
<1>2. /\ Len(u) = Len(t) + 1 /\ u[Len(t) + 1] = e /\ u \in Seq(S) /\ Len(t) \in Nat
      /\ \A k \in 1..Len(t) : u[k] = t[k]
  BY <1>1, Appended
<1>3. DOMAIN u = 1..(Len(t) + 1) /\ DOMAIN t = 1..Len(t)
  BY <1>2, LenProperties
<1>4. \A k \in DOMAIN u : k = Len(t) + 1 \/ (k \in DOMAIN t /\ k <= Len(t) /\ u[k] = t[k] /\ ~(Len(t) + 1 < k))
  BY <1>2, <1>3
<1>5. \A k \in DOMAIN t : ~t[k].label => t[k].offset >= o
  BY <1>3, <1>4 DEF Above
<1>6. e.offset <= o /\ e.offset + e.size = o /\ e.offset = o - z
  OBVIOUS
<1>7. \A i \in DOMAIN u : ~u[i].label => u[i].offset >= o - z
  <2>1. ASSUME NEW i \in DOMAIN u, ~u[i].label PROVE u[i].offset >= o - z
    <3>1. CASE i = Len(t) + 1
      BY <1>2, <1>6, <3>1
    <3>2. CASE i \in DOMAIN t /\ u[i] = t[i]
      <4>1. t[i].offset >= o /\ t[i].offset \in Int
        BY <1>5, <2>1, <3>2
      <4> QED BY <3>2, <4>1
    <3> QED BY <1>4, <3>1, <3>2
  <2> QED BY <2>1
<1>8. \A i \in DOMAIN u : ~u[i].label => u[i].offset + u[i].size <= 0 \/ u[i].offset >= LastArgument
  <2>1. ASSUME NEW i \in DOMAIN u, ~u[i].label PROVE u[i].offset + u[i].size <= 0 \/ u[i].offset >= LastArgument
    <3>1. CASE i = Len(t) + 1
      BY <1>2, <1>6, <3>1
    <3>2. CASE i \in DOMAIN t /\ u[i] = t[i]
      BY <2>1, <3>2 DEF InOrder
    <3> QED BY <1>4, <3>1, <3>2
  <2> QED BY <2>1
<1>9. ASSUME NEW i \in DOMAIN u, NEW j \in DOMAIN u, i < j, ~u[i].label, ~u[j].label
      PROVE  u[j].offset + u[j].size <= u[i].offset
  <2>1. i \in DOMAIN t /\ u[i] = t[i]
    BY <1>2, <1>3, <1>4, <1>9
  <2>2. CASE j = Len(t) + 1
    <3>1. t[i].offset >= o
      BY <1>5, <1>9, <2>1
    <3> QED BY <1>2, <1>6, <2>1, <2>2, <3>1
  <2>3. CASE j \in DOMAIN t /\ u[j] = t[j]
    BY <1>9, <2>1, <2>3 DEF InOrder
  <2> QED BY <1>4, <2>2, <2>3
<1>10. Above(u, Len(u), o - z)
  BY <1>7 DEF Above
<1>11. InOrder(u)
  BY <1>8, <1>9 DEF InOrder
<1> QED BY <1>1, <1>10, <1>11

LEMMA DeclareApart ==
    ASSUME StmtInv, StmtInv', VariablesApart, NEW n \in Names, NEW z \in Nat, NEW what, declloc_(n, z, what)
    PROVE  VariablesApart'
<1>1. StmtTypeOK /\ StmtTypeOK' /\ Nested
  BY DEF StmtInv, DepthInv, Recursion
<1>2. calls' = calls /\ csp' = csp /\ astray' = astray /\ (errors => errors') /\ at # "between" /\ calls # <<>>
  BY DEF declloc_, Error, Called
<1> SUFFICES ASSUME Clean'
             PROVE  Opened' <= 0 /\ Above(locals', Len(locals'), Opened') /\ InOrder(locals')
                    /\ DepthsKept(calls', locals')
  BY DEF VariablesApart
<1>3. Clean
  BY <1>2 DEF Clean
<1>4. Opened <= 0 /\ Above(locals, Len(locals), Opened) /\ InOrder(locals) /\ DepthsKept(calls, locals)
  BY <1>2, <1>3 DEF VariablesApart
<1>5. PICK e : e = [name |-> n, label |-> FALSE, def |-> FALSE, offset |-> csp - declared', size |-> z, is |-> what]
  OBVIOUS
<1>6. declared >= 0 /\ declared' = declared + z /\ locals' = Append(locals, e)
  <2>1. errors' = (errors \/ (swactive \/ noloc \/ declared < 0 \/ Len(locals) = NUMLOCS)) /\ ~errors'
    BY DEF declloc_, Error, Clean
  <2>2. ~(declared < 0) /\ Len(locals) # NUMLOCS
    BY <2>1
  <2>3. declared >= 0
    BY <1>1, <2>2, Typed1
  <2> QED BY <1>5, <2>2, <2>3 DEF declloc_
<1>7. PICK o, t, S : o = Opened /\ t = locals /\ S = Range(locals) \cup {e}
  OBVIOUS
<1>8. /\ csp \in Int /\ declared \in Nat /\ declared' \in Nat /\ o = csp - declared /\ o \in Int
      /\ Opened' = o - z /\ e.offset = o - z /\ e.size = z
  <2>1. csp \in Int /\ declared \in Nat
    BY <1>1, <1>6, Typed1
  <2>2. o = csp - declared /\ Opened' = csp - (declared + z) /\ e.offset = csp - (declared + z)
    BY <1>2, <1>5, <1>6, <1>7, <2>1 DEF Opened
  <2> QED BY <1>5, <1>6, <2>1, <2>2
<1>9. t \in Seq(S) /\ e \in S /\ \A i \in DOMAIN t : t[i].offset \in Int
  <2>1. locals \in Seq(S) /\ e \in S
    BY <1>1, <1>7, Typed1, SeqMonotonic
  <2>2. \A i \in DOMAIN locals : locals[i].offset \in Int
    BY <1>1 DEF StmtTypeOK, TableOK
  <2> QED BY <1>7, <2>1, <2>2
<1>10. Above(Append(t, e), Len(Append(t, e)), o - z) /\ InOrder(Append(t, e))
  BY <1>4, <1>7, <1>8, <1>9, DeclaredApart
<1>11. Opened' <= 0
  BY <1>4, <1>7, <1>8
<1>12. DepthsKept(calls, Append(t, e))
  <2>1. ASSUME NEW c \in 2..Len(calls)
        PROVE  calls[c].savcsp <= 0 /\ Above(Append(t, e), calls[c].savloc, calls[c].savcsp)
    <3>1. calls[c].savcsp <= 0 /\ Above(t, calls[c].savloc, calls[c].savcsp)
      BY <1>4, <1>7 DEF DepthsKept
    <3>2. PICK m, d : m = calls[c].savloc /\ d = calls[c].savcsp
      OBVIOUS
    <3>3. m <= Len(t) /\ m \in Nat
      <4>1. calls \in Seq(CallRecord) /\ c \in 1..Len(calls)
        BY <1>1, Typed1
      <4> QED BY <1>1, <1>7, <3>2, <4>1, CallTypes DEF Nested
    <3>4. PICK u : u = Append(t, e)
      OBVIOUS
    <3>5. /\ Len(u) = Len(t) + 1 /\ u \in Seq(S) /\ Len(t) \in Nat
          /\ \A k \in 1..Len(t) : u[k] = t[k]
      BY <1>9, <3>4, Appended
    <3>6. DOMAIN u = 1..(Len(t) + 1) /\ DOMAIN t = 1..Len(t)
      BY <1>9, <3>5, LenProperties
    <3>7. \A i \in DOMAIN u : i <= m => i \in DOMAIN t /\ u[i] = t[i]
      BY <3>3, <3>5, <3>6
    <3>8. Above(u, m, d)
      BY <3>1, <3>2, <3>7 DEF Above
    <3> QED BY <3>1, <3>2, <3>4, <3>8
  <2> QED BY <2>1 DEF DepthsKept
<1> QED BY <1>2, <1>6, <1>7, <1>8, <1>10, <1>11, <1>12

\* A function begins: its arguments are apart, as they are handed to it.
LEMMA FunctionApart ==
    ASSUME StmtInv, StmtInv', ArgumentsApart', NEW a, ArgumentsOK(a), dofunction_(a)
    PROVE  VariablesApart'
<1>1. StmtTypeOK /\ StmtTypeOK' /\ at = "between"
  BY DEF StmtInv, DepthInv, dofunction_
<1>2. PICK f : f = Call("function", <<>>, 0)
  OBVIOUS
<1>3. PICK s : s = <<f>>
  OBVIOUS
<1>4. Len(s) = 1
  BY <1>3
<1>5. calls' = s /\ at' = "statement" /\ csp' = 0 /\ declared' = declared /\ errors' = errors /\ astray \subseteq astray'
  BY <1>2, <1>3 DEF dofunction_, Astray
<1> SUFFICES ASSUME Clean'
             PROVE  Opened' <= 0 /\ Above(locals', Len(locals'), Opened') /\ InOrder(locals')
                    /\ DepthsKept(calls', locals')
  BY DEF VariablesApart
<1>6. Clean
  BY <1>5 DEF Clean
<1>7. Opened' = 0
  <2>1. OpensAt
    BY <1>6 DEF StmtInv, DepthInv, Scoped, Blocks
  <2>2. ~(declared >= 0)
    BY <1>1, <2>1, Typed1 DEF OpensAt
  <2> QED BY <1>5, <2>2 DEF Opened
<1>8. PICK t : t = locals'
  OBVIOUS
<1>9. \A i \in DOMAIN t : t[i].offset \in Int
  BY <1>1, <1>8 DEF StmtTypeOK, TableOK
<1>10. \A i \in {k \in DOMAIN t : ~t[k].label} :
          /\ t[i].offset >= LastArgument
          /\ \A j \in {k \in DOMAIN t : ~t[k].label} : i < j => t[j].offset + t[j].size <= t[i].offset
  BY <1>4, <1>5, <1>8 DEF ArgumentsApart, Variables
<1>11. Above(t, Len(t), 0)
  BY <1>9, <1>10 DEF Above, LastArgument
<1>12. InOrder(t)
  BY <1>10 DEF InOrder
<1>13. DepthsKept(s, t)
  BY <1>4 DEF DepthsKept
<1> QED BY <1>5, <1>7, <1>8, <1>11, <1>12, <1>13

LEMMA ApartStarts ==
    StmtInit => VariablesApart
BY DEF StmtInit, VariablesApart

LEMMA ApartStep ==
    ASSUME StmtInv, StmtInv', VariablesApart, ArgumentsApart', [StmtNext]_statement
    PROVE  VariablesApart'
<1>1. CASE StayAction
  BY <1>1, StayApart
<1>2. CASE PushStep
  BY <1>2, PushApart
<1>3. CASE PopStep
  BY <1>3, PopApart
<1>4. CASE CompoundEnd
  BY <1>4, BlockApart
<1>5. CASE Else
  BY <1>5, ElseApart
<1>6. CASE FunctionEnd
  BY <1>6 DEF FunctionEnd, VariablesApart
<1>7. CASE NoStatement \/ EndOfSource \/ Elsewhere \/ UNCHANGED statement
  BY <1>7, QuietSteps, QuietApart
<1>8. CASE \E n \in Names, z \in Nat : \E what : declloc_(n, z, what)
  <2>1. PICK n \in Names, z \in Nat : \E what : declloc_(n, z, what)
    BY <1>8
  <2>2. PICK what : declloc_(n, z, what)
    BY <2>1
  <2> QED BY <2>2, DeclareApart
<1>9. CASE \E t : ArgumentsOK(t) /\ dofunction_(t)
  <2>1. PICK t : ArgumentsOK(t) /\ dofunction_(t)
    BY <1>9
  <2> QED BY <2>1, FunctionApart
<1> QED BY <1>1, <1>2, <1>3, <1>4, <1>5, <1>6, <1>7, <1>8, <1>9
        DEF StmtNext, Starts, Ends, StayAction, PushStep, PopStep

LEMMA ApartHolds ==
    ASSUME StmtInv, VariablesApart
    PROVE  Apart
<1> SUFFICES ASSUME Sound, at # "between", NEW i \in Variables
             PROVE  /\ locals[i].offset >= Opened
                    /\ locals[i].offset + locals[i].size <= 0 \/ locals[i].offset >= LastArgument
                    /\ \A j \in Variables : i < j => locals[j].offset + locals[j].size <= locals[i].offset
  BY DEF Apart
<1>1. Above(locals, Len(locals), Opened) /\ InOrder(locals)
  BY DEF VariablesApart, Sound, Clean
<1>2. DOMAIN locals = 1..Len(locals) /\ Len(locals) \in Nat
  BY Typed1, LenProperties DEF StmtInv, DepthInv
<1>3. i \in DOMAIN locals /\ ~locals[i].label /\ i <= Len(locals)
  BY <1>2 DEF Variables
<1>4. locals[i].offset >= Opened
  BY <1>1, <1>3 DEF Above
<1>5. locals[i].offset + locals[i].size <= 0 \/ locals[i].offset >= LastArgument
  BY <1>1, <1>3 DEF InOrder
<1>6. \A j \in Variables : i < j => locals[j].offset + locals[j].size <= locals[i].offset
  BY <1>1, <1>3 DEF InOrder, Variables
<1> QED BY <1>4, <1>5, <1>6

\* A label keeps its number to the end of the function, and no name has two
\* (CC_STMT.C:322), whatever the source is.
THEOREM LabelsSurvive == StmtSpec => []Survive
<1>1. StmtInit => StmtInv /\ LabelsKept
  BY StmtStarts, KeptStarts
<1>2. StmtInv /\ LabelsKept /\ [StmtNext]_statement => StmtInv' /\ LabelsKept'
  BY StmtStep, KeptStep
<1>3. LabelsKept => Survive
  BY KeptSurvives
<1> QED BY <1>1, <1>2, <1>3, PTL DEF StmtSpec

\* Where the arguments of each function are apart when it begins, all its variables in
\* scope are apart to its end, and inside the stack of their blocks (CC_STMT.C:271); the
\* labels among them are right in every source.
THEOREM LocalsAreTrue == StmtSpec /\ []ArgumentsApart => []LocalsTrue
<1>1. StmtInit => StmtInv /\ LabelsKept /\ VariablesApart
  BY StmtStarts, KeptStarts, ApartStarts
<1>2. /\ StmtInv /\ LabelsKept /\ VariablesApart /\ ArgumentsApart' /\ [StmtNext]_statement
      => StmtInv' /\ LabelsKept' /\ VariablesApart'
  BY StmtStep, KeptStep, ApartStep
<1>3. StmtInv /\ LabelsKept /\ VariablesApart => LocalsTrue
  BY KeptSurvives, ApartHolds DEF LocalsTrue
<1> QED BY <1>1, <1>2, <1>3, PTL DEF StmtSpec

-----------------------------------------------------------------------------
(* The statement compiler in Unit.                                         *)

LEMMA UnitStarts ==
    Init => StmtInit
BY DEF Init

\* Each step of the whole compiler is one of the statement compiler, or none.
LEMMA UnitStep ==
    StmtTypeOK /\ Handed /\ [Next]_vars => [StmtNext]_statement
<1> SUFFICES ASSUME StmtTypeOK, Handed, [Next]_vars PROVE StmtNext \/ UNCHANGED statement
  OBVIOUS
<1>1. CASE UNCHANGED <<statement, unit>>
  BY <1>1
<1>2. CASE Declare
  <2>1. stmts < Full
    BY <1>2 DEF Declare
  <2>2. stmts \in Int /\ Full \in Int /\ MaxStmts \in Int /\ Full <= MaxStmts
    BY StmtAssumption, UnitAssumption DEF StmtTypeOK
  <2>3. stmts < MaxStmts
    BY <2>1, <2>2
  <2>4. /\ at = "between" /\ ~eof /\ stmts' = stmts + 1
        /\ UNCHANGED <<calls, at, eof, csp, block, lastst, nxtlab, locals, wq, switch, history>>
    BY <1>2 DEF Declare
  <2> QED BY <2>3, <2>4 DEF Elsewhere, StmtNext
<1>3. CASE dofunction
  <2>1. Parsing /\ stmts < Full
    BY <1>3 DEF dofunction
  <2>2. PICK h \in Heads : Begin(h, FunctionHead(h, tables))
    BY <1>3 DEF dofunction
  <2>3. PICK t : t = AsLocals(FunctionHead(h, tables).args)
    OBVIOUS
  <2>4. ArgumentsOK(t)
    BY <2>1, <2>3 DEF Handed
  <2>5. dofunction_(t)
    BY <2>2, <2>3 DEF Begin
  <2> QED BY <2>4, <2>5 DEF StmtNext
<1>4. CASE FunctionDone
  BY <1>4 DEF FunctionDone, StmtNext
<1>5. CASE declloc
  <2>1. More
    BY <1>5 DEF declloc
  <2>2. PICK n \in Names, l \in Locals : DeclareLocal(n, l, Read(l.of, TypeOf(l.spec, tables)))
    BY <1>5 DEF declloc
  <2>3. PICK r : r = Read(l.of, TypeOf(l.spec, tables))
    OBVIOUS
  <2>4. r.slot \in Nat
    BY <2>1, <2>3 DEF Handed
  <2>5. \E what : declloc_(n, r.slot, what)
    BY <2>2, <2>3 DEF DeclareLocal
  <2> QED BY <2>4, <2>5 DEF StmtNext
<1>6. CASE Expression
  BY <1>6 DEF Expression, StmtNext
<1>7. CASE More /\ Starts /\ UNCHANGED <<unit, driver>>
  BY <1>7 DEF StmtNext
<1>8. CASE Parsing /\ Ends /\ UNCHANGED <<unit, driver>>
  BY <1>8 DEF StmtNext
<1>9. CASE EndOfUnit
  BY <1>9 DEF EndOfUnit
<1>10. CASE UNCHANGED vars
  BY <1>10 DEF vars
<1> QED BY <1>1, <1>2, <1>3, <1>4, <1>5, <1>6, <1>7, <1>8, <1>9, <1>10 DEF Next

\* The whole compiler implements the statement compiler, as long as its declarations
\* hand it slots and arguments that it can enter (dodeclare, dofunction, declloc).
THEOREM UnitCompilesStatements == Spec /\ []Handed => StmtSpec
<1>1. StmtInv => StmtTypeOK
  BY DEF StmtInv, DepthInv
<1>2. Init => StmtInit /\ StmtInv
  BY UnitStarts, StmtStarts
<1>3. StmtInv /\ Handed /\ [Next]_vars => StmtInv' /\ [StmtNext]_statement
  BY <1>1, UnitStep, StmtStep
<1> QED BY <1>2, <1>3, PTL DEF Spec, StmtSpec

\* And so the depth that the compiler knows is real in every source with declarations,
\* calls and literals among its statements (gen, compound, dobreak, doreturn).
THEOREM DepthTrackedInUnit == Spec /\ []Handed => []TrackedIsReal
BY UnitCompilesStatements, DepthTracked, PTL

\* And the queue, the table of cases and the counts follow the recursion in every such
\* source (CC_RESIDENT.C:579, CC_STMT.C:564).
THEOREM TablesFollowInUnit == Spec /\ []Handed => []TablesFollow
BY UnitCompilesStatements, TablesAreFollowed, PTL

\* The labels keep their numbers in every such source, and the variables are apart where
\* the arguments are (CC_STMT.C:271, CC_STMT.C:322).
THEOREM LocalsTrueInUnit == Spec /\ []Handed /\ []ArgumentsApart => []LocalsTrue
BY UnitCompilesStatements, LocalsAreTrue, PTL
=============================================================================
