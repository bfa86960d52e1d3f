--------------------------- MODULE FileEditProofs ---------------------------
(***************************************************************************)
(* FileEdit's proofs, first of DocMenu: that a document FileEdit calls     *)
(* clean is what its file holds, and that Open, New and Quit never lose a  *)
(* changed document unasked, for any names and texts, until a Save As uses *)
(* the document's own file as a backup; and that a text once saved         *)
(* survives one failing operation.  Then of RxQueue, for every ring size,  *)
(* byte set and word width: the hook and the handler, and that the ring is *)
(* a queue.                                                                *)
(***************************************************************************)
EXTENDS DocMenu, RxQueue, SequenceTheorems, TLAPS

\* A part of a text that fits is a text that fits.
LEMMA PartsType ==
    ASSUME NEW t \in Text, NEW u, u \in Parts(t) \/ u \in Torn(t)
    PROVE  u \in Text /\ Len(u) <= Len(t)
<1>1. t \in Seq(Nat) /\ Text \subseteq Seq(Nat)
  BY TextAssumption
<1>2. u \in Text
  BY DEF Parts, Torn
<1>3. u \in Seq(Nat)
  BY <1>1, <1>2
<1>4. Len(u) \in Nat /\ Len(t) \in Nat
  BY <1>1, <1>3
<1>5. Len(u) <= Len(t)
  BY <1>4 DEF Parts, Torn, IsPrefix, IsStrictPrefix
<1> QED BY <1>2, <1>5

\* Writing a text to a file keeps the type of the disk and the other files.
LEMMA WriteFile ==
    ASSUME files \in [Name -> Text \cup {Absent}], NEW n \in Name, NEW t \in Text,
           files' = [files EXCEPT ![n] = t]
    PROVE  /\ files' \in [Name -> Text \cup {Absent}]
           /\ files'[n] = t
           /\ \A m \in Name : m # n => files'[m] = files[m]
  OBVIOUS

\* A backup never has the name of what it backs up.
LEMMA BackupDiffers ==
    ASSUME NEW n \in Name
    PROVE  mkbak(n) # n
<1>1. n \in [base : STRING, ext : STRING]
  BY NameAssumption
<1>2. mkbak(n).ext = IF n.ext = "BAK" THEN "BK1" ELSE "BAK"
  BY <1>1 DEF mkbak
<1>3. mkbak(n).ext # n.ext
  BY <1>2
<1> QED BY <1>3

\* The initial states satisfy the invariant.
LEMMA InitIInv == Init => IInv
<1> SUFFICES ASSUME Init PROVE IInv
  OBVIOUS
<1>1. <<>> \in Text /\ Len(<<>>) <= ebcap
  BY TextAssumption
<1>2. last \in [name : Name \cup {NoName}, text : Text]
  BY <1>1 DEF Init, NoDoc
<1>3. TypeOK
  <2>1. faults = 0 /\ pc = "off" /\ then = "menu"
    BY DEF Init
  <2>2. /\ ebdirty \in BOOLEAN /\ ebvalid \in BOOLEAN /\ fsexist \in BOOLEAN
        /\ retried \in BOOLEAN /\ shortread \in BOOLEAN /\ spoiled \in BOOLEAN
        /\ consent \in BOOLEAN
    BY DEF Init
  <2>3. /\ files \in [Name -> Text \cup {Absent}] /\ text = <<>>
        /\ fsname = NoName /\ target = NoName /\ arg = NoName
    BY DEF Init
  <2> QED BY <2>1, <2>2, <2>3, <1>1, <1>2 DEF TypeOK
<1>4. pc = "off" /\ then = "menu" /\ ~ebvalid
  BY DEF Init
<1> QED BY <1>3, <1>4 DEF IInv, CleanMatchesDisk, SavePoints, Transitions

\* A successful load leaves a clean document.
LEMMA LoadStep ==
    ASSUME IInv, NEW n \in UserName, ebloadn(n), UNCHANGED files
    PROVE  /\ text' \in Text /\ Len(text') <= ebcap
           /\ last' \in [name : Name \cup {NoName}, text : Text]
           /\ faults' \in 0..2 /\ retried' \in BOOLEAN /\ shortread' \in BOOLEAN
           /\ spoiled' \in BOOLEAN
           /\ fsname' = n /\ fsexist' = TRUE /\ ebdirty' = FALSE /\ ebvalid' = TRUE
           /\ CleanMatchesDisk'
<1>1. files[n] \in Text /\ Len(files[n]) <= ebcap /\ n \in Name
  BY NameAssumption DEF IInv, TypeOK, ebloadn, Readable, Fits
<1>2. Len(files[n]) \in Nat /\ ebcap \in Nat
  BY <1>1, TextAssumption
<1>3. text' \in Text /\ Len(text') <= ebcap
  <2>1. CASE text' = files[n]
    BY <2>1, <1>1
  <2>2. CASE text' \in Torn(files[n])
    <3>1. text' \in Text /\ Len(text') <= Len(files[n])
      BY <2>2, <1>1, PartsType
    <3>2. Len(text') \in Nat
      BY <3>1, TextAssumption
    <3> QED BY <3>1, <3>2, <1>1, <1>2
  <2> QED BY <2>1, <2>2 DEF ebloadn
<1>4. last' \in [name : Name \cup {NoName}, text : Text]
  BY <1>1 DEF ebloadn
<1>5. CleanMatchesDisk'
  <2>1. shortread' \/ text' = files[n]
    BY DEF ebloadn
  <2>2. text' = files[n] => files'[fsname'] = text'
    BY DEF ebloadn
  <2> QED BY <2>1, <2>2 DEF CleanMatchesDisk
<1>6. faults' = 0 \/ faults' = 1
  BY DEF ebloadn
<1>7. shortread' \in BOOLEAN /\ retried' \in BOOLEAN /\ spoiled' \in BOOLEAN
  BY DEF ebloadn
<1>8. fsname' = n /\ fsexist' = TRUE /\ ebdirty' = FALSE /\ ebvalid' = TRUE
  BY DEF ebloadn
<1> QED BY <1>3, <1>4, <1>5, <1>6, <1>7, <1>8

\* fssave, from a document that is there.
LEMMA SaveBegins ==
    ASSUME IInv, NEW k \in {"menu"} \cup Transitions, ebvalid, fssave(k),
           UNCHANGED menuVars, k \in {"open", "new"} => arg \in UserName
    PROVE  IInv'
<1> USE DEF IInv, TypeOK
<1>1. fsname \in UserName
  OBVIOUS
<1>2. UNCHANGED <<files, docVars, last, faults, shortread, spoiled, menuVars>>
  BY DEF fssave
<1>3. UNCHANGED CleanMatchesDisk
  BY <1>2 DEF docVars, CleanMatchesDisk
<1>4. then' = k /\ target' = fsname
  BY DEF fssave
<1>5. retried' \in BOOLEAN
  <2>1. (retried \/ faults > 0) \in BOOLEAN
    OBVIOUS
  <2> QED BY <2>1 DEF fssave
<1>6. CASE SavedAlready
  <2>1. pc' = "saved" /\ ~Changed'
    BY <1>2, <1>6 DEF fssave, SavedAlready, Changed, docVars
  <2> QED BY <1>1, <1>2, <1>3, <1>4, <1>5, <2>1
             DEF docVars, menuVars, SavePoints, Transitions
<1>7. CASE ~SavedAlready
  <2>1. pc' \in {"backup", "write"} /\ Changed'
    BY <1>2, <1>7 DEF fssave, SavedAlready, SaveEntry, Changed, docVars
  <2> QED BY <1>1, <1>2, <1>3, <1>4, <1>5, <2>1
             DEF docVars, menuVars, SavePoints, Transitions
<1> QED BY <1>6, <1>7

\* A step that ends at the menu with the document, the disk and the consent kept.
LEMMA QuietStep ==
    ASSUME IInv, UNCHANGED <<files, docVars, then, target, arg, last, shortread, spoiled>>,
           faults' \in 0..2, retried' \in BOOLEAN, consent' \in BOOLEAN, pc' = "menu"
    PROVE  IInv'
<1> USE DEF IInv, TypeOK
<1>1. UNCHANGED CleanMatchesDisk
  BY DEF docVars, CleanMatchesDisk
<1> QED BY <1>1 DEF docVars, SavePoints, Transitions

\* A fault is counted within the type of the counter.
LEMMA FaultType == ASSUME faults \in 0..2, Fault \/ NoFault PROVE faults' \in 0..2
  BY DEF Fault, NoFault

\* What cpyback does to the disk: nothing, or it leaves a text in the backup.
LEMMA BackupWritten ==
    ASSUME IInv, cpyback
    PROVE  /\ target \in Name /\ mkbak(target) \in Name /\ fsname \in Name
           /\ \/ UNCHANGED <<files, spoiled>>
              \/ \E t \in Text : BacksUp(t)
           /\ files' \in [Name -> Text \cup {Absent}] /\ spoiled' \in BOOLEAN
           /\ spoiled \/ (~UNCHANGED files /\ mkbak(target) = fsname) => spoiled'
           /\ \A n \in Name : n # mkbak(target) => files'[n] = files[n]
<1>1. /\ target \in Name /\ mkbak(target) \in Name /\ fsname \in Name
      /\ files \in [Name -> Text \cup {Absent}] /\ spoiled \in BOOLEAN
  BY NameAssumption DEF IInv, TypeOK, cpyback, SavePoints
<1>2. UNCHANGED <<files, spoiled>> \/ \E t \in Text : BacksUp(t)
  <2>1. Readable(target) => files[target] \in Text
    BY <1>1 DEF Readable
  <2> QED BY <2>1, PartsType DEF cpyback
<1>3. ASSUME NEW t \in Text, BacksUp(t)
      PROVE  /\ files' \in [Name -> Text \cup {Absent}] /\ spoiled' \in BOOLEAN
             /\ spoiled \/ mkbak(target) = fsname => spoiled'
             /\ \A n \in Name : n # mkbak(target) => files'[n] = files[n]
  <2>1. files' = [files EXCEPT ![mkbak(target)] = t]
    BY <1>3 DEF BacksUp
  <2>2. spoiled' = (spoiled \/ mkbak(target) = fsname)
    BY <1>3 DEF BacksUp
  <2>3. spoiled' \in BOOLEAN
    BY <2>2
  <2> QED BY <1>1, <2>1, <2>2, <2>3, WriteFile
<1> QED BY <1>1, <1>2, <1>3

\* cpyback: the disk changes at the backup, and if that is the document's own file
\* the document counts as spoiled.
LEMMA BackupStep ==
    ASSUME IInv, cpyback, UNCHANGED menuVars PROVE IInv'
<1>1. target \in UserName /\ pc = "backup" /\ ebvalid /\ fsname \in UserName
  BY DEF IInv, cpyback, SavePoints
<1>2. UNCHANGED <<docVars, then, target, last, retried, shortread, menuVars>>
  BY DEF cpyback, SaveFails
<1>3. faults' \in 0..2
  BY FaultType DEF cpyback, IInv, TypeOK
<1>4. pc' \in {"write", "menu"}
  BY DEF cpyback, SaveFails
<1>5. files' \in [Name -> Text \cup {Absent}] /\ spoiled' \in BOOLEAN
  BY BackupWritten
<1>6. spoiled' \/ (~spoiled /\ files'[fsname] = files[fsname])
  <2>1. CASE mkbak(target) = fsname
    BY <2>1, BackupWritten
  <2>2. CASE mkbak(target) # fsname
    BY <2>2, BackupWritten
  <2> QED BY <2>1, <2>2
<1>7. CleanMatchesDisk'
  BY <1>2, <1>6 DEF IInv, CleanMatchesDisk, docVars
<1> QED BY <1>1, <1>2, <1>3, <1>4, <1>5, <1>7
           DEF IInv, TypeOK, Changed, docVars, menuVars, SavePoints, Transitions

\* wrname: the disk changes at the target, and the document counts as changed
\* if the target is its own file.
LEMMA WriteStep ==
    ASSUME IInv, wrname, UNCHANGED menuVars PROVE IInv'
<1>1. /\ target \in UserName /\ target \in Name /\ pc = "write"
      /\ ebvalid /\ fsname \in UserName /\ fsname \in Name
  BY NameAssumption DEF IInv, wrname, SavePoints
<1>2. UNCHANGED <<docVars, then, target, last, retried, shortread, spoiled, menuVars>>
  BY DEF wrname, SaveFails
<1>3. faults' \in 0..2
  BY FaultType DEF wrname, IInv, TypeOK
<1>4. pc' \in {"verify", "menu"}
  BY DEF wrname, SaveFails
<1>5. UNCHANGED files \/ \E t \in Text : files' = [files EXCEPT ![target] = t]
  <2>1. text \in Text
    BY DEF IInv, TypeOK
  <2> QED BY <2>1, PartsType DEF wrname
<1>6. files' \in [Name -> Text \cup {Absent}]
  BY <1>1, <1>5, WriteFile DEF IInv, TypeOK
<1>7. CleanMatchesDisk'
  <2>1. CASE target = fsname
    BY <1>1, <1>2, <2>1 DEF IInv, CleanMatchesDisk, Changed, docVars, SavePoints
  <2>2. CASE target # fsname
    <3>1. files'[fsname] = files[fsname]
      BY <1>1, <1>5, <2>2, WriteFile DEF IInv, TypeOK
    <3> QED BY <1>2, <3>1 DEF IInv, CleanMatchesDisk, docVars
  <2> QED BY <2>1, <2>2
<1> QED BY <1>1, <1>2, <1>3, <1>4, <1>6, <1>7
           DEF IInv, TypeOK, Changed, docVars, menuVars, SavePoints, Transitions

\* vrname: the document becomes clean exactly when the file was seen to be whole.
LEMMA VerifyStep ==
    ASSUME IInv, vrname, UNCHANGED menuVars PROVE IInv'
<1>1. /\ target \in UserName /\ target \in Name /\ pc = "verify" /\ ebvalid
      /\ UNCHANGED <<files, text, ebvalid, then, target, menuVars>>
  BY NameAssumption DEF IInv, vrname, SaveFails, SavePoints, docVars
<1>2. CASE pc' = "saved"
  <2>1. /\ Same /\ fsname' = target /\ fsexist' = TRUE /\ ebdirty' = FALSE
        /\ last' = [name |-> target, text |-> text]
        /\ retried' = FALSE /\ shortread' = FALSE /\ spoiled' = FALSE
    BY <1>2 DEF vrname, SaveFails
  <2>2. last' \in [name : Name \cup {NoName}, text : Text]
    BY <1>1, <2>1 DEF IInv, TypeOK
  <2>3. CleanMatchesDisk' /\ ~Changed'
    BY <1>1, <2>1 DEF Same, CleanMatchesDisk, Changed
  <2>4. faults' = 0
    BY <1>2 DEF vrname, SaveFails
  <2>5. retried' \in BOOLEAN /\ shortread' \in BOOLEAN /\ spoiled' \in BOOLEAN
    BY <2>1
  <2>6. TypeOK'
    <3>1. /\ ebdirty' \in BOOLEAN /\ ebvalid' \in BOOLEAN /\ fsexist' \in BOOLEAN
          /\ consent' \in BOOLEAN
      BY <1>1, <2>1 DEF IInv, TypeOK, menuVars
    <3>2. files' = files /\ text' = text /\ then' = then /\ target' = target /\ arg' = arg
      BY <1>1 DEF menuVars
    <3> QED BY <1>1, <1>2, <2>1, <2>2, <2>4, <2>5, <3>1, <3>2 DEF IInv, TypeOK
  <2>7. then' \in {"open", "new"} => arg' \in UserName
    BY <1>1 DEF IInv, menuVars
  <2> QED BY <1>1, <1>2, <2>1, <2>3, <2>6, <2>7 DEF IInv, SavePoints, Transitions
<1>3. CASE pc' # "saved"
  <2>1. /\ pc' = "menu" /\ (Fault \/ NoFault)
        /\ UNCHANGED <<docVars, last, retried, shortread, spoiled>>
    BY <1>3 DEF vrname, SaveFails
  <2>2. faults' \in 0..2
    BY <2>1, FaultType DEF IInv, TypeOK
  <2>3. retried' \in BOOLEAN /\ consent' \in BOOLEAN
    BY <1>1, <2>1 DEF IInv, TypeOK, menuVars
  <2>4. UNCHANGED <<files, docVars, then, target, arg, last, shortread, spoiled>>
    BY <1>1, <2>1 DEF menuVars
  <2>5. pc' = "menu"
    BY <2>1
  <2> QED BY <2>2, <2>3, <2>4, <2>5, QuietStep
<1> QED BY <1>2, <1>3

\* Control moves, to the menu or to a transition that may be taken, and nothing
\* else does but the consent.
LEMMA ControlStep ==
    ASSUME IInv, UNCHANGED <<files, docVars, histVars, then, target, arg>>,
           consent' \in BOOLEAN,
           pc' = "menu" \/ (pc' = then /\ (~ebvalid \/ ~Changed \/ consent'))
    PROVE  IInv'
<1> USE DEF IInv, TypeOK
<1>1. UNCHANGED CleanMatchesDisk
  BY DEF docVars, histVars, CleanMatchesDisk
<1>2. UNCHANGED Changed
  BY DEF docVars, Changed
<1>3. pc' \in {"menu"} \cup Transitions
  BY DEF Transitions
<1> QED BY <1>1, <1>2, <1>3 DEF docVars, histVars, SavePoints, Transitions

\* Replacing the document by a loaded, a new or no document, from the menu loop.
LEMMA DocStep ==
    ASSUME IInv, UNCHANGED <<files, then, target, consent, arg>>,
           pc' \in {"menu", "off"},
           \/ \E n \in UserName : ebloadn(n) \/ ebnewn(n)
           \/ \E n \in UserName \cup {NoName} : ebnone(n)
    PROVE  IInv'
<1>1. ASSUME NEW n \in UserName, ebloadn(n) PROVE IInv'
  BY <1>1, LoadStep DEF IInv, TypeOK, SavePoints, Transitions
<1>2. ASSUME NEW n \in UserName, ebnewn(n) PROVE IInv'
  <2>1. text' = <<>> /\ text' \in Text /\ Len(text') <= ebcap
    BY <1>2, TextAssumption DEF ebnewn
  <2>2. last' \in [name : Name \cup {NoName}, text : Text]
    BY <1>2, <2>1 DEF ebnewn
  <2>3. /\ fsname' = n /\ ebvalid' = TRUE /\ fsexist' = FALSE /\ ebdirty' = FALSE
        /\ retried' = FALSE /\ shortread' = FALSE /\ spoiled' = FALSE
    BY <1>2 DEF ebnewn
  <2>4. /\ ebvalid' \in BOOLEAN /\ fsexist' \in BOOLEAN /\ ebdirty' \in BOOLEAN
        /\ retried' \in BOOLEAN /\ shortread' \in BOOLEAN /\ spoiled' \in BOOLEAN
    BY <2>3
  <2>6. faults' = 0
    BY <1>2 DEF ebnewn
  <2>5. CleanMatchesDisk'
    BY <2>3 DEF CleanMatchesDisk
  <2> QED BY <2>1, <2>2, <2>3, <2>4, <2>5, <2>6
             DEF IInv, TypeOK, SavePoints, Transitions
<1>3. ASSUME NEW n \in UserName \cup {NoName}, ebnone(n) PROVE IInv'
  <2>1. text' = <<>> /\ text' \in Text /\ Len(text') <= ebcap
    BY <1>3, TextAssumption DEF ebnone
  <2>2. /\ fsname' = n /\ ebvalid' = FALSE /\ fsexist' = FALSE /\ ebdirty' = FALSE
        /\ UNCHANGED histVars
    BY <1>3 DEF ebnone
  <2>3. ebvalid' \in BOOLEAN /\ fsexist' \in BOOLEAN /\ ebdirty' \in BOOLEAN
    BY <2>2
  <2>4. CleanMatchesDisk'
    BY <2>2 DEF CleanMatchesDisk
  <2> QED BY <2>1, <2>2, <2>3, <2>4
             DEF IInv, TypeOK, histVars, SavePoints, Transitions
<1> QED BY <1>1, <1>2, <1>3

\* A reset loses the document, and a file at most.
LEMMA ResetStep == ASSUME IInv, Reset PROVE IInv'
<1>1. text' = <<>> /\ text' \in Text /\ Len(text') <= ebcap
  BY TextAssumption DEF Reset
<1>2. /\ fsname' = NoName /\ ebvalid' = FALSE /\ fsexist' = FALSE /\ ebdirty' = FALSE
      /\ UNCHANGED <<then, target, last, retried, shortread, menuVars>> /\ pc' = "off"
  BY DEF Reset
<1>3. ebvalid' \in BOOLEAN /\ fsexist' \in BOOLEAN /\ ebdirty' \in BOOLEAN
  BY <1>2
<1>4. faults' \in 0..2
  BY FaultType DEF Reset, IInv, TypeOK
<1>5. files' \in [Name -> Text \cup {Absent}] /\ spoiled' \in BOOLEAN
  <2>1. ASSUME NEW n \in OpenForWriting PROVE n \in Name
    BY <2>1, NameAssumption DEF OpenForWriting, IInv, SavePoints
  <2>2. spoiled' \in BOOLEAN
    BY DEF Reset, IInv, TypeOK
  <2> QED BY <2>1, <2>2, WriteFile DEF Reset, IInv, TypeOK
<1>6. CleanMatchesDisk'
  BY <1>2 DEF CleanMatchesDisk
<1> QED BY <1>1, <1>2, <1>3, <1>4, <1>5, <1>6
           DEF IInv, TypeOK, menuVars, SavePoints, Transitions

\* The steps that open, change or guard the document.
LEMMA MenuStep ==
    ASSUME IInv,
           Start \/ Edit \/ Save \/ SaveAs \/ openone \/ newone \/ Quit
             \/ docguard \/ OpenLoads \/ NewCreates \/ QuitEnds
    PROVE  IInv'
<1> USE DEF IInv, TypeOK
<1>1. CASE Start
  BY <1>1, DocStep DEF Start, Goto
<1>2. CASE Edit
  <2>1. /\ text' \in Text /\ Len(text') <= ebcap /\ ebdirty' = TRUE /\ pc = "menu"
        /\ UNCHANGED <<files, fsname, fsexist, ebvalid, pc, then, target,
                       histVars, menuVars>>
    BY <1>2 DEF Edit, AtMenu, Fits
  <2>2. CleanMatchesDisk' /\ ebdirty' \in BOOLEAN
    BY <2>1 DEF CleanMatchesDisk
  <2> QED BY <2>1, <2>2 DEF histVars, menuVars, SavePoints, Transitions
<1>3. CASE Save
  <2>1. ebvalid /\ fssave("menu") /\ UNCHANGED menuVars
    BY <1>3 DEF Save
  <2> QED BY <2>1, SaveBegins
<1>4. CASE SaveAs
  <2>1. PICK n \in UserName \ {fsname} : fssavas(n)
    BY <1>4 DEF SaveAs
  <2>2. /\ ebvalid /\ then' = "menu" /\ target' = n /\ pc' \in {"backup", "write"}
        /\ UNCHANGED <<files, docVars, last, faults, shortread, spoiled, menuVars>>
    BY <1>4, <2>1 DEF SaveAs, fssavas
  <2>3. retried' \in BOOLEAN
    <3>1. (retried \/ faults > 0) \in BOOLEAN
      OBVIOUS
    <3> QED BY <2>1, <3>1 DEF fssavas
  <2>4. UNCHANGED CleanMatchesDisk
    BY <2>2 DEF docVars, CleanMatchesDisk
  <2> QED BY <2>1, <2>2, <2>3, <2>4
             DEF docVars, menuVars, Changed, SavePoints, Transitions
<1>5. CASE openone \/ newone \/ Quit
  <2>1. PICK k \in Transitions, n \in UserName \cup {NoName} :
           AskGuard(k, n) /\ (k # "quit" => n \in UserName)
    BY <1>5 DEF openone, newone, Quit, Transitions
  <2>2. /\ pc' = "guard" /\ then' = k /\ arg' = n /\ consent' = FALSE
        /\ UNCHANGED <<files, docVars, target, histVars>>
    BY <2>1 DEF AskGuard
  <2>3. UNCHANGED CleanMatchesDisk /\ consent' \in BOOLEAN
    BY <2>2 DEF docVars, histVars, CleanMatchesDisk
  <2> QED BY <2>1, <2>2, <2>3 DEF docVars, histVars, SavePoints, Transitions
<1>6. CASE docguard
  <2>1. pc = "guard" /\ then \in Transitions
    BY <1>6 DEF docguard
  <2>2. CASE ~NothingToLose /\ fssave(then) /\ UNCHANGED menuVars
    <3>1. ebvalid
      BY <2>2 DEF NothingToLose
    <3> QED BY <2>1, <2>2, <3>1, SaveBegins
  <2>3. CASE NothingToLose /\ Goto(then) /\ KeepsDocument /\ UNCHANGED arg
    <3>1. ~ebvalid \/ ~Changed
      BY <2>3 DEF NothingToLose, Changed
    <3>2. pc' = then /\ UNCHANGED <<files, docVars, histVars, then, target, arg, consent>>
      BY <2>3 DEF Goto, KeepsDocument
    <3> QED BY <3>1, <3>2, ControlStep
  <2>4. CASE pc' = then /\ consent' = TRUE /\ KeepsDocument
                /\ UNCHANGED <<files, then, target, arg>>
    <3>1. consent' \in BOOLEAN
      BY <2>4
    <3> QED BY <2>4, <3>1, ControlStep DEF KeepsDocument
  <2>5. CASE Goto("menu") /\ KeepsDocument /\ UNCHANGED arg
    BY <2>5, ControlStep DEF Goto, KeepsDocument
  <2> QED BY <1>6, <2>2, <2>3, <2>4, <2>5 DEF docguard
<1>7. CASE OpenLoads
  <2>1. arg \in UserName /\ pc' = "menu" /\ UNCHANGED <<files, then, target, consent, arg>>
    BY <1>7 DEF OpenLoads, Goto, Transitions
  <2>2. CASE ebloadn(arg)
    BY <2>1, <2>2, DocStep
  <2>3. CASE KeepsDocument
    BY <2>1, <2>3, ControlStep DEF KeepsDocument
  <2> QED BY <1>7, <2>2, <2>3 DEF OpenLoads
<1>8. CASE NewCreates
  <2>1. arg \in UserName /\ pc' = "menu" /\ UNCHANGED <<files, then, target, consent, arg>>
    BY <1>8 DEF NewCreates, Goto, Transitions
  <2> QED BY <1>8, <2>1, DocStep DEF NewCreates
<1>9. CASE QuitEnds
  BY <1>9, DocStep DEF QuitEnds, Goto
<1> QED BY <1>1, <1>2, <1>3, <1>4, <1>5, <1>6, <1>7, <1>8, <1>9

\* SaveReturns: a verified save lets the command it belongs to go on.
LEMMA ReturnStep == ASSUME IInv, SaveReturns, UNCHANGED menuVars PROVE IInv'
<1>1. pc = "saved" /\ pc' = then /\ ~Changed
  BY DEF SaveReturns, IInv
<1>2. UNCHANGED <<files, docVars, histVars, then, target, arg>> /\ consent' \in BOOLEAN
  BY DEF SaveReturns, menuVars, IInv, TypeOK
<1> QED BY <1>1, <1>2, ControlStep

\* The invariant holds throughout, for any names that users type.
THEOREM Invariance == Spec => []IInv
<1>1. Init => IInv
  BY InitIInv
<1>2. IInv /\ [Next]_vars => IInv'
  <2> SUFFICES ASSUME IInv, [Next]_vars PROVE IInv'
    OBVIOUS
  <2>1. CASE SaveProceeds
    BY <2>1, BackupStep, WriteStep, VerifyStep, ReturnStep DEF SaveProceeds, SaveStep
  <2>2. CASE Reset
    BY <2>2, ResetStep
  <2>3. CASE UNCHANGED vars
    BY <2>3 DEF vars, docVars, histVars, menuVars, IInv, TypeOK, Changed,
                CleanMatchesDisk, SavePoints, Transitions
  <2> QED BY <2>1, <2>2, <2>3, MenuStep DEF Next
<1> QED BY <1>1, <1>2, PTL DEF Spec

\* The arena never overflows and every variable keeps its type.
THEOREM TypeCorrect == Spec => []TypeOK
<1>1. IInv => TypeOK
  BY DEF IInv
<1> QED BY <1>1, Invariance, PTL

\* A document the menu calls clean is what its file holds, until a Save As whose
\* backup is that file.
THEOREM CleanIsSaved == Spec => []CleanMatchesDisk
<1>1. IInv => CleanMatchesDisk
  BY DEF IInv
<1> QED BY <1>1, Invariance, PTL

\* Open, New and Quit never lose a changed document unasked, whatever names users
\* type, backups among them; but docguard does not see that a Save As has used the
\* document's own file as its backup, nor that a read error cut a load short.
THEOREM NothingDiscarded == Spec => []NoSilentDiscard
<1>1. IInv => NoSilentDiscard
  BY DEF IInv, Changed, CleanMatchesDisk, NoSilentDiscard
<1> QED BY <1>1, Invariance, PTL
-----------------------------------------------------------------------------
(* The last good text survives one fault.                                  *)

\* A step from outside a save to outside a save that leaves the disk and the
\* history alone keeps the invariant, if the document keeps its name.
LEMMA KeptQuiet ==
    ASSUME KInv, UNCHANGED <<files, last, faults, retried, spoiled>>,
           pc \notin SavePoints, pc' \notin SavePoints,
           ebvalid' => ebvalid /\ UNCHANGED <<fsname, fsexist>>
    PROVE  KInv'
  BY DEF KInv, Held, OwnSave, InFile, InBackup, SavePoints

\* A document newly loaded is in its file; a new one has no last good text, and
\* where there is no document no save can begin.
LEMMA KeptDocument ==
    ASSUME IInv, KInv, UNCHANGED files, pc \notin SavePoints, pc' \notin SavePoints,
           \/ \E n \in UserName : ebloadn(n) \/ ebnewn(n)
           \/ \E n \in UserName \cup {NoName} : ebnone(n)
    PROVE  KInv'
<1>1. ASSUME NEW n \in UserName, ebloadn(n) PROVE KInv'
  <2>1. /\ fsname' = n /\ fsexist' = TRUE
        /\ last' = [name |-> n, text |-> files[n]]
    BY <1>1 DEF ebloadn
  <2>2. last'.name = n /\ files'[last'.name] = last'.text
    BY <2>1
  <2> QED BY <2>1, <2>2 DEF KInv, Held, OwnSave, InFile
<1>2. ASSUME NEW n \in UserName, ebnewn(n) PROVE KInv'
  BY <1>2 DEF ebnewn, KInv
<1>3. ASSUME NEW n \in UserName \cup {NoName}, ebnone(n) PROVE KInv'
  <2>1. ebvalid' = FALSE /\ UNCHANGED <<last, faults, retried, spoiled>>
    BY <1>3 DEF ebnone, histVars
  <2> QED BY <2>1, KeptQuiet
<1> QED BY <1>1, <1>2, <1>3

\* A save begins with the last good text in its file, unless it was tried before
\* or a fault has been met; a document with a last good text exists on the disk,
\* so a save to its name begins with the backup.
LEMMA KeptBegins ==
    ASSUME IInv, KInv, pc \notin SavePoints, ebvalid,
           \/ \E k \in {"menu"} \cup Transitions : fssave(k)
           \/ \E n \in UserName \ {fsname} : fssavas(n)
    PROVE  KInv'
<1>1. UNCHANGED <<files, docVars, last, faults, spoiled>>
  BY DEF fssave, fssavas
<1>2. SUFFICES ASSUME last.name # NoName, faults <= 1, ~retried', ~spoiled
               PROVE  Held'
  <2>1. retried' \/ ~retried
    BY DEF fssave, fssavas
  <2>2. last.name # NoName => last.name \in UserName /\ fsname = last.name /\ fsexist
    BY DEF KInv
  <2> QED BY <1>1, <2>1, <2>2 DEF KInv, docVars
<1>3. fsname = last.name /\ fsexist
  BY <1>2 DEF KInv
<1>4. CASE \E k \in {"menu"} \cup Transitions : fssave(k)
  <2>1. PICK k \in {"menu"} \cup Transitions : fssave(k)
    BY <1>4
  <2>2. target' = last.name
    BY <1>3, <2>1 DEF fssave
  <2>3. CASE SavedAlready
    <3>1. pc' = "saved" /\ ~retried
      BY <1>2, <2>1, <2>3 DEF fssave
    <3>2. Held /\ ~OwnSave
      BY <1>2, <3>1 DEF KInv, OwnSave
    <3> QED BY <1>1, <3>1, <3>2 DEF Held, OwnSave, InFile, InBackup, SavePoints
  <2>4. CASE ~SavedAlready
    <3>1. pc' = "backup" /\ ~retried /\ ~(faults > 0)
      BY <1>2, <1>3, <2>1, <2>4 DEF fssave, SaveEntry
    <3>2. faults = 0
      BY <3>1 DEF IInv, TypeOK
    <3>3. Held /\ ~OwnSave
      BY <1>2, <3>1 DEF KInv, OwnSave
    <3>4. InFile
      BY <3>2, <3>3 DEF Held
    <3> QED BY <1>1, <3>1, <3>2, <3>4, <2>2 DEF Held, OwnSave, InFile, SavePoints
  <2> QED BY <2>3, <2>4
<1>5. CASE \E n \in UserName \ {fsname} : fssavas(n)
  <2>1. target' # last.name /\ ~retried /\ ~(faults > 0)
    BY <1>2, <1>3, <1>5 DEF fssavas
  <2>2. faults = 0
    BY <2>1 DEF IInv, TypeOK
  <2>3. Held /\ ~OwnSave
    BY <1>2, <2>1 DEF KInv, OwnSave
  <2>4. InFile
    BY <2>2, <2>3 DEF Held
  <2> QED BY <1>1, <2>1, <2>4 DEF Held, OwnSave, InFile
<1> QED BY <1>4, <1>5

\* What a step of a save starts from, when the promise holds after it.
LEMMA KeptBefore ==
    ASSUME IInv, KInv, pc \in SavePoints, UNCHANGED last,
           UNCHANGED retried, Fault \/ NoFault, spoiled => spoiled',
           last.name # NoName, faults' <= 1, ~retried', ~spoiled'
    PROVE  /\ Held /\ faults \in {0, 1} /\ faults' \in {0, 1}
           /\ Fault => faults = 0 /\ faults' = 1
           /\ last.name \in UserName /\ last.name \in Name /\ fsname = last.name
           /\ fsexist /\ ebvalid
           /\ mkbak(last.name) \in Name /\ mkbak(last.name) # last.name
           /\ target \in UserName /\ target \in Name /\ mkbak(target) \in Name
<1>1. ebvalid /\ target \in UserName
  BY DEF IInv
<1>2. last.name \in UserName /\ fsname = last.name /\ fsexist
  BY <1>1 DEF KInv
<1>3. faults \in {0, 1} /\ faults' \in {0, 1} /\ (Fault => faults = 0 /\ faults' = 1)
  BY DEF Fault, NoFault, IInv, TypeOK
<1>4. Held
  BY <1>3 DEF KInv
<1> QED BY <1>1, <1>2, <1>3, <1>4, NameAssumption, BackupDiffers

\* The name and the history of the document hold in the state a step leads to, if
\* the text is still to be found there.
LEMMA KeptAfter ==
    ASSUME KInv, UNCHANGED <<docVars, last>>,
           last.name # NoName /\ faults' <= 1 /\ ~retried' /\ ~spoiled' => Held'
    PROVE  KInv'
  BY DEF KInv, docVars

\* A save that fails leaves the document and the history of names alone.
LEMMA SaveStepKeeps ==
    ASSUME cpyback \/ wrname
    PROVE  UNCHANGED <<docVars, last, retried, target>> /\ (Fault \/ NoFault)
  BY DEF cpyback, wrname, SaveFails

\* cpyback: the copy is made before the file is touched.
LEMMA KeptBackup == ASSUME IInv, KInv, cpyback PROVE KInv'
<1>1. pc = "backup" /\ pc \in SavePoints
  BY DEF cpyback, SavePoints
<1>2. UNCHANGED <<docVars, last, retried, target>> /\ (Fault \/ NoFault)
  BY SaveStepKeeps
<1>3. SUFFICES ASSUME last.name # NoName, faults' <= 1, ~retried', ~spoiled' PROVE Held'
  BY <1>2, KeptAfter
<1>4. /\ Held /\ faults \in {0, 1} /\ faults' \in {0, 1}
      /\ Fault => faults = 0 /\ faults' = 1
      /\ last.name \in Name /\ mkbak(last.name) # last.name
      /\ mkbak(last.name) \in Name /\ fsname = last.name
      /\ target \in UserName /\ target \in Name /\ mkbak(target) \in Name
  <2>1. spoiled => spoiled'
    BY BackupWritten
  <2> QED BY <1>1, <1>2, <1>3, <2>1, KeptBefore
<1>5. InFile
  BY <1>1, <1>4 DEF Held
<1>6. files'[last.name] = files[last.name]
  <2>1. UNCHANGED files \/ mkbak(target) # last.name
    BY <1>3, <1>4, BackupWritten
  <2> QED BY <1>4, <2>1, BackupWritten
<1>7. InFile'
  BY <1>2, <1>5, <1>6 DEF InFile
<1>8. CASE target = last.name
  <2>1. CASE pc' = "write" /\ NoFault
    <3>1. files' = [files EXCEPT ![mkbak(target)] = files[target]]
      BY <2>1, <1>1, <1>4 DEF cpyback, BacksUp, SaveFails, Fault, NoFault
    <3>2. InBackup'
      BY <1>2, <1>4, <1>5, <1>8, <3>1 DEF InBackup, InFile, IInv, TypeOK
    <3> QED BY <1>2, <1>7, <2>1, <3>2 DEF Held, OwnSave
  <2>2. CASE pc' = "write" /\ ~NoFault
    BY <1>2, <1>4, <1>7, <2>2 DEF Held, OwnSave
  <2>3. CASE pc' = "menu"
    BY <1>7, <2>3 DEF Held, OwnSave, SavePoints
  <2> QED BY <2>1, <2>2, <2>3 DEF cpyback, SaveFails
<1>9. CASE target # last.name
  BY <1>2, <1>7, <1>9 DEF Held, OwnSave
<1> QED BY <1>8, <1>9

\* wrname: the file is overwritten once the backup holds the text, or after the
\* one fault the promise allows.
LEMMA KeptWrite == ASSUME IInv, KInv, wrname PROVE KInv'
<1>1. pc = "write" /\ pc \in SavePoints
  BY DEF wrname, SavePoints
<1>2. UNCHANGED <<docVars, last, retried, target>> /\ (Fault \/ NoFault)
  BY SaveStepKeeps
<1>3. SUFFICES ASSUME last.name # NoName, faults' <= 1, ~retried', ~spoiled' PROVE Held'
  BY <1>2, KeptAfter
<1>4. /\ Held /\ faults \in {0, 1} /\ faults' \in {0, 1}
      /\ Fault => faults = 0 /\ faults' = 1
      /\ last.name \in Name /\ mkbak(last.name) # last.name
      /\ mkbak(last.name) \in Name /\ target \in Name
  <2>1. spoiled => spoiled'
    BY DEF wrname
  <2> QED BY <1>1, <1>2, <1>3, <2>1, KeptBefore
<1>5. UNCHANGED files \/ \E t \in Text : files' = [files EXCEPT ![target] = t]
  <2>1. text \in Text
    BY DEF IInv, TypeOK
  <2> QED BY <2>1, PartsType DEF wrname
<1>6. CASE target = last.name
  <2>1. InFile /\ (InBackup \/ faults = 1)
    BY <1>1, <1>4, <1>6 DEF Held, OwnSave, SavePoints
  <2>2. files'[mkbak(last.name)] = files[mkbak(last.name)]
    BY <1>4, <1>5, <1>6, WriteFile DEF IInv, TypeOK
  <2>3. InBackup => InBackup'
    BY <1>2, <2>2 DEF InBackup
  <2>4. CASE Fault
    <3>1. faults' = 1 /\ InBackup'
      BY <1>4, <2>1, <2>3, <2>4
    <3>2. pc' \in {"verify", "menu"}
      BY DEF wrname, SaveFails
    <3> QED BY <1>2, <1>6, <3>1, <3>2 DEF Held, OwnSave, SavePoints
  <2>5. CASE ~Fault
    <3>1. /\ files' = [files EXCEPT ![target] = text] /\ pc' = "verify"
          /\ faults' = faults
      BY <2>5 DEF wrname, NoFault
    <3>2. Same'
      BY <1>2, <1>4, <3>1 DEF Same, docVars, IInv, TypeOK
    <3> QED BY <1>2, <1>6, <2>1, <2>3, <3>1, <3>2 DEF Held, OwnSave, SavePoints
  <2> QED BY <2>4, <2>5
<1>7. CASE target # last.name
  <2>1. InFile
    BY <1>1, <1>4, <1>7 DEF Held, OwnSave
  <2>2. files'[last.name] = files[last.name]
    BY <1>4, <1>5, <1>7, WriteFile DEF IInv, TypeOK
  <2>3. InFile'
    BY <1>2, <2>1, <2>2 DEF InFile
  <2> QED BY <1>2, <1>7, <2>3 DEF Held, OwnSave
<1> QED BY <1>6, <1>7

\* vrname: the text becomes the last good one exactly when the file holds it; if
\* it does not, the backup does.
LEMMA KeptVerify == ASSUME IInv, KInv, vrname PROVE KInv'
<1>1. pc = "verify" /\ pc \in SavePoints /\ ebvalid /\ target \in UserName
  BY DEF vrname, SavePoints, IInv
<1>2. CASE pc' = "saved"
  <2>1. /\ Same /\ fsname' = target /\ fsexist' = TRUE
        /\ last' = [name |-> target, text |-> text] /\ UNCHANGED files
    BY <1>2 DEF vrname, SaveFails
  <2>2. last'.name = target /\ InFile'
    BY <2>1 DEF Same, InFile
  <2> QED BY <1>1, <1>2, <2>1, <2>2 DEF KInv, Held, OwnSave, SavePoints
<1>3. CASE pc' # "saved"
  <2>1. /\ pc' = "menu" /\ (Fault \/ NoFault) /\ (NoFault /\ ~Fault => ~Same)
        /\ UNCHANGED <<files, docVars, last, retried, spoiled, target>>
    BY <1>3 DEF vrname, SaveFails
  <2>2. SUFFICES ASSUME last.name # NoName, faults' <= 1, ~retried', ~spoiled' PROVE Held'
    BY <2>1, KeptAfter
  <2>3. /\ Held /\ faults \in {0, 1} /\ faults' \in {0, 1}
        /\ Fault => faults = 0 /\ faults' = 1
    BY <1>1, <2>1, <2>2, KeptBefore
  <2>4. UNCHANGED <<InFile, InBackup>>
    BY <2>1 DEF InFile, InBackup
  <2>5. CASE target = last.name
    <3>1. (InBackup \/ Same) /\ (faults = 0 => InBackup /\ Same)
      BY <1>1, <2>3, <2>5 DEF Held, OwnSave, SavePoints
    <3>2. InBackup /\ faults' = 1
      BY <2>1, <2>3, <3>1 DEF NoFault
    <3> QED BY <2>1, <2>4, <3>2 DEF Held, OwnSave, SavePoints
  <2>6. CASE target # last.name
    BY <1>1, <2>1, <2>3, <2>4, <2>6 DEF Held, OwnSave, SavePoints
  <2> QED BY <2>5, <2>6
<1> QED BY <1>2, <1>3

\* A reset may tear the file that is open for writing, and counts as the fault.
LEMMA KeptReset == ASSUME IInv, KInv, Reset PROVE KInv'
<1>1. /\ ebvalid' = FALSE /\ pc' = "off" /\ UNCHANGED <<last, retried>>
      /\ pc \in SavePoints => Fault
      /\ pc \notin SavePoints => NoFault
  BY DEF Reset, SavePoints
<1>2. SUFFICES ASSUME last.name # NoName, faults' <= 1, ~retried', ~spoiled' PROVE Held'
  BY <1>1 DEF KInv
<1>3. ~OwnSave' /\ pc' \notin SavePoints
  BY <1>1 DEF OwnSave, SavePoints
<1>4. CASE pc \in SavePoints
  <2>1. /\ Held /\ faults = 0 /\ faults' = 1
        /\ last.name \in Name /\ mkbak(last.name) # last.name
        /\ mkbak(last.name) \in Name /\ target \in Name /\ mkbak(target) \in Name
        /\ fsname = last.name
    <3>1. spoiled => spoiled'
      BY DEF Reset
    <3> QED BY <1>1, <1>2, <1>4, <3>1, KeptBefore
  <2>2. InFile => InFile' \/ (target = last.name /\ pc = "write")
    <3>1. CASE UNCHANGED files
      BY <1>1, <3>1 DEF InFile
    <3>2. CASE ~UNCHANGED files
      <4>1. PICK n \in OpenForWriting, t \in Text :
               /\ files' = [files EXCEPT ![n] = t]
               /\ spoiled' = (spoiled \/ (pc = "backup" /\ n = fsname))
        BY <3>2 DEF Reset
      <4>2. n \in Name /\ (n # last.name \/ (target = last.name /\ pc = "write"))
        BY <1>2, <2>1, <4>1 DEF OpenForWriting
      <4> QED BY <1>1, <2>1, <4>1, <4>2, WriteFile DEF InFile, IInv, TypeOK
    <3> QED BY <3>1, <3>2
  <2>3. pc \in {"write", "verify"} /\ target = last.name => InBackup'
    <3>1. pc \in {"write", "verify"} /\ target = last.name => InBackup
      BY <2>1 DEF Held, OwnSave, SavePoints
    <3>2. CASE UNCHANGED files
      BY <1>1, <3>1, <3>2 DEF InBackup
    <3>3. CASE ~UNCHANGED files
      <4>1. PICK n \in OpenForWriting, t \in Text : files' = [files EXCEPT ![n] = t]
        BY <3>3 DEF Reset
      <4>2. pc \in {"write", "verify"} => n = target
        BY <4>1 DEF OpenForWriting
      <4> QED BY <1>1, <2>1, <3>1, <4>1, <4>2, WriteFile DEF InBackup, IInv, TypeOK
    <3> QED BY <3>2, <3>3
  <2>4. InFile \/ (pc = "verify" /\ target = last.name)
    BY <1>4, <2>1 DEF Held, OwnSave, SavePoints
  <2> QED BY <1>3, <2>1, <2>2, <2>3, <2>4 DEF Held
<1>5. CASE pc \notin SavePoints
  <2>1. UNCHANGED <<faults, files, spoiled>>
    BY <1>1, <1>5 DEF NoFault, Reset, OpenForWriting, SavePoints
  <2> QED BY <1>1, <1>2, <1>3, <1>5, <2>1
             DEF KInv, Held, OwnSave, InFile, InBackup
<1> QED BY <1>4, <1>5

\* The steps that open, change or guard the document.
LEMMA KeptMenu ==
    ASSUME IInv, KInv,
           Start \/ Edit \/ Save \/ SaveAs \/ openone \/ newone \/ Quit
             \/ docguard \/ OpenLoads \/ NewCreates \/ QuitEnds
    PROVE  KInv'
<1>1. pc \notin SavePoints
  BY DEF Start, Edit, Save, SaveAs, openone, newone, Quit, docguard, OpenLoads,
         NewCreates, QuitEnds, AtMenu, SavePoints
<1>2. CASE Start \/ QuitEnds
  <2>1. UNCHANGED files /\ pc' \notin SavePoints
    BY <1>2 DEF Start, QuitEnds, Goto, SavePoints
  <2> QED BY <1>1, <1>2, <2>1, KeptDocument DEF Start, QuitEnds
<1>3. CASE Edit
  <2>1. pc' \notin SavePoints /\ UNCHANGED <<files, last, faults, retried, spoiled, fsname, fsexist, ebvalid>>
    BY <1>1, <1>3 DEF Edit, histVars
  <2> QED BY <1>1, <2>1, KeptQuiet
<1>4. CASE Save
  BY <1>1, <1>4, KeptBegins DEF Save
<1>5. CASE SaveAs
  BY <1>1, <1>5, KeptBegins DEF SaveAs
<1>6. CASE openone \/ newone \/ Quit
  <2>1. /\ pc' = "guard" /\ pc' \notin SavePoints
        /\ UNCHANGED <<files, last, faults, retried, spoiled, fsname, fsexist, ebvalid>>
    BY <1>6 DEF openone, newone, Quit, AskGuard, docVars, histVars, SavePoints
  <2> QED BY <1>1, <2>1, KeptQuiet
<1>7. CASE docguard
  <2>1. then \in Transitions
    BY <1>7 DEF docguard, IInv, TypeOK
  <2>2. CASE ~NothingToLose /\ fssave(then)
    BY <1>1, <2>1, <2>2, KeptBegins DEF NothingToLose
  <2>3. CASE ~(~NothingToLose /\ fssave(then))
    <3>1. /\ pc' \in {"menu", then}
          /\ UNCHANGED <<files, last, faults, retried, spoiled, fsname, fsexist, ebvalid>>
      BY <1>7, <2>3 DEF docguard, Goto, KeepsDocument, docVars, histVars
    <3>2. pc' \notin SavePoints
      BY <2>1, <3>1 DEF Transitions, SavePoints
    <3> QED BY <1>1, <3>1, <3>2, KeptQuiet
  <2> QED BY <2>2, <2>3
<1>8. CASE OpenLoads \/ NewCreates
  <2>1. arg \in UserName /\ pc' = "menu" /\ UNCHANGED files
    BY <1>8 DEF OpenLoads, NewCreates, Goto, IInv, Transitions
  <2>2. pc' \notin SavePoints
    BY <2>1 DEF SavePoints
  <2>3. CASE KeepsDocument
    BY <1>1, <2>1, <2>2, <2>3, KeptQuiet DEF KeepsDocument, docVars, histVars
  <2>4. CASE ebloadn(arg) \/ ebnewn(arg)
    BY <1>1, <2>1, <2>2, <2>4, KeptDocument
  <2> QED BY <1>8, <2>3, <2>4 DEF OpenLoads, NewCreates
<1> QED BY <1>2, <1>3, <1>4, <1>5, <1>6, <1>7, <1>8

\* SaveReturns: the save is over.
LEMMA KeptReturn == ASSUME IInv, KInv, SaveReturns PROVE KInv'
<1>1. pc = "saved" /\ pc' = then
  BY DEF SaveReturns
<1>2. pc \notin SavePoints /\ pc' \notin SavePoints
  BY <1>1 DEF IInv, TypeOK, SavePoints, Transitions
<1> QED BY <1>2, KeptQuiet DEF SaveReturns, docVars, histVars

\* One disk fault or reset never costs the last text that was loaded or verified.
THEOREM TextSurvivesOneFault == Spec => []OneFaultKeepsText
<1>1. Init => KInv
  BY DEF Init, KInv, NoDoc
<1>2. IInv /\ KInv /\ [Next]_vars => KInv'
  <2> SUFFICES ASSUME IInv, KInv, [Next]_vars PROVE KInv'
    OBVIOUS
  <2>1. CASE SaveProceeds
    BY <2>1, KeptBackup, KeptWrite, KeptVerify, KeptReturn DEF SaveProceeds, SaveStep
  <2>2. CASE Reset
    BY <2>2, KeptReset
  <2>3. CASE UNCHANGED vars
    BY <2>3 DEF vars, docVars, histVars, KInv, Held, OwnSave, InFile, InBackup, Same
  <2> QED BY <2>1, <2>2, <2>3, KeptMenu DEF Next
<1>3. KInv => OneFaultKeepsText
  <2> SUFFICES ASSUME KInv, last.name # NoName, faults <= 1, ~retried, ~spoiled PROVE Kept(last)
    BY DEF OneFaultKeepsText
  <2>1. Held /\ last.name \in UserName
    BY DEF KInv
  <2>2. InFile \/ InBackup \/ (pc = "verify" /\ target = last.name /\ Same)
    BY <2>1 DEF Held, OwnSave, SavePoints
  <2> QED BY <2>1, <2>2, NameAssumption DEF Kept, InFile, InBackup, Same
<1> QED BY <1>1, <1>2, <1>3, Invariance, PTL DEF Spec
-----------------------------------------------------------------------------
\* The successor of a ring index, without the modulus: INC then ANDI stays in
\* the ring and is "next slot, or slot 0 after the last".
LEMMA SuccIndex ==
    ASSUME NEW i \in 0 .. N - 1
    PROVE  /\ Succ(i) \in 0 .. N - 1
           /\ Succ(i) = IF i = N - 1 THEN 0 ELSE i + 1
<1>1. N \in Nat /\ N >= 2
  BY ConstAssumption
<1>2. CASE i = N - 1
  <2>1. Succ(i) = N % N
    BY <1>1, <1>2 DEF Succ
  <2>2. N % N = 0
    BY <1>1
  <2>3. QED
    BY <1>1, <1>2, <2>1, <2>2
<1>3. CASE i # N - 1
  <2>1. i + 1 \in 0 .. N - 1
    BY <1>1, <1>3
  <2>2. (i + 1) % N = i + 1
    BY <1>1, <2>1
  <2>3. QED
    BY <1>3, <2>1, <2>2 DEF Succ
<1>4. QED
  BY <1>2, <1>3

\* A machine word stays a word when it is counted up or down.
LEMMA WordClosed ==
    ASSUME NEW w \in Nat
    PROVE  w % WordMod \in 0 .. WordMod - 1
  BY ConstAssumption

-----------------------------------------------------------------------------
\* Every variable stays in its type: ring indices in the ring, words in a word.
LEMMA TypeStep == RxInv /\ [RxNext]_rxVars => RxTypeOK'
<1> SUFFICES ASSUME RxTypeOK, HookInv, [RxNext]_rxVars
             PROVE  RxTypeOK'
  BY DEF RxInv
<1> USE DEF RxTypeOK
<1>1. CASE Arrive
  BY <1>1 DEF Arrive, timerVars, hookVars, maskVars, queueVars, mainVars, isrVars
<1>2. CASE TimerElapse
  BY <1>2 DEF TimerElapse, uartVars, hookVars, maskVars, queueVars, mainVars, isrVars
<1>3. CASE RxInitEnter
  BY <1>3 DEF RxInitEnter, InitCall, MainAt, uartVars, timerVars, queueVars, isrVars
<1>4. CASE RxInitHook
  BY <1>4, ConstAssumption DEF RxInitHook, MainAt, uartVars, timerVars, maskVars, isrVars
<1>5. CASE RxInitEnable
  BY <1>5 DEF RxInitEnable, MainAt, timerVars, maskVars, queueVars, isrVars
<1>6. CASE RxInitDone
  BY <1>6 DEF RxInitDone, MainAt, uartVars, timerVars, hookVars, queueVars, isrVars
<1>7. CASE RxWaitLoad
  BY <1>7 DEF RxWaitLoad, MainAt, uartVars, timerVars, hookVars, maskVars, queueVars, isrVars
<1>8. CASE RxWaitCompare
  BY <1>8 DEF RxWaitCompare, MainAt, uartVars, timerVars, hookVars, maskVars, queueVars, isrVars
<1>9. CASE RxWaitFetch
  BY <1>9 DEF RxWaitFetch, MainAt, uartVars, timerVars, hookVars, maskVars, queueVars, isrVars
<1>10. CASE RxWaitAdvance
  <2>1. RXTAIL' \in 0 .. N - 1
    BY <1>10, SuccIndex DEF RxWaitAdvance
  <2>2. QED
    BY <1>10, <2>1 DEF RxWaitAdvance, uartVars, timerVars, hookVars, maskVars, isrVars
<1>11. CASE RxFiniMask
  BY <1>11 DEF RxFiniMask, MainAt, uartVars, timerVars, hookVars, queueVars, isrVars
<1>12. CASE RxFiniDisable
  BY <1>12 DEF RxFiniDisable, DisableRx, MainAt, timerVars, hookVars, maskVars, queueVars, isrVars
<1>13. CASE RxFiniRestore
  BY <1>13 DEF HookInv, Hooked, RxFiniRestore, MainAt, uartVars, timerVars, maskVars, queueVars, isrVars
<1>14. CASE RxFiniStatus
  BY <1>14 DEF RxFiniStatus, MainAt, uartVars, timerVars, hookVars, queueVars, isrVars
<1>15. CASE Interrupt
  BY <1>15 DEF Interrupt, EntryOf, uartVars, timerVars, hookVars, maskVars, queueVars, mainVars
<1>16. CASE IsrTest
  BY <1>16 DEF IsrTest, uartVars, timerVars, hookVars, maskVars, queueVars, mainVars
<1>17. CASE IsrAck
  <2>1. rie' \in BOOLEAN /\ rbrl' \in BOOLEAN /\ fresh' = fresh
    BY <1>17 DEF IsrAck
  <2>2. QED
    BY <1>17, <2>1 DEF IsrAck, timerVars, hookVars, maskVars, queueVars, mainVars
<1>18. CASE IsrRead
  <2>1. rie' = rie /\ rbrl' = rbrl /\ fresh' \in BOOLEAN
    BY <1>18 DEF IsrRead
  <2>2. QED
    BY <1>18, <2>1 DEF IsrRead, timerVars, hookVars, maskVars, queueVars, mainVars
<1>19. CASE IsrArm
  BY <1>19 DEF IsrArm, RearmRx, timerVars, hookVars, maskVars, queueVars, mainVars
<1>20. CASE IsrStore
  <2>1. /\ RXBUF' \in [0 .. N - 1 -> Byte]
        /\ RXHEAD' \in 0 .. N - 1
    BY <1>20, SuccIndex DEF IsrStore
  <2>2. RXOVFL' \in 0 .. WordMod - 1
    <3>1. (RXOVFL + 1) % WordMod \in 0 .. WordMod - 1
      <4>1. RXOVFL + 1 \in Nat
        BY ConstAssumption
      <4>2. QED
        BY <4>1, WordClosed
    <3>2. QED
      BY <1>20, <3>1 DEF IsrStore
  <2>3. QED
    BY <1>20, <2>1, <2>2 DEF IsrStore, uartVars, timerVars, hookVars, maskVars, mainVars
<1>21. CASE IsrChain
  BY <1>21 DEF IsrChain, ChainTarget, EntryOf, uartVars, timerVars, hookVars, maskVars, queueVars, mainVars
<1>22. CASE IntTimer
  <2>1. (TIMEOUT + WordMod - 1) % WordMod \in 0 .. WordMod - 1
    <3>1. TIMEOUT + WordMod - 1 \in Nat
      BY ConstAssumption
    <3>2. QED
      BY <3>1, WordClosed
  <2>2. TIMEOUT' \in 0 .. WordMod - 1
    BY <1>22, <2>1, ConstAssumption DEF IntTimer, timerVars
  <2>3. timelp' \in BOOLEAN /\ timenb' \in BOOLEAN
    BY <1>22 DEF IntTimer, timerVars
  <2>4. QED
    BY <1>22, <2>2, <2>3 DEF IntTimer, uartVars, hookVars, maskVars, queueVars, mainVars
<1>23. CASE UNCHANGED rxVars
  BY <1>23 DEF rxVars, uartVars, timerVars, hookVars, maskVars, queueVars, mainVars, isrVars
<1>24. QED
  BY <1>1, <1>2, <1>3, <1>4, <1>5, <1>6, <1>7, <1>8, <1>9, <1>10, <1>11, <1>12, <1>13,
     <1>14, <1>15, <1>16, <1>17, <1>18, <1>19, <1>20, <1>21, <1>22, <1>23
     DEF RxNext, Main, Isr

-----------------------------------------------------------------------------
\* The places of rxinit and rxfini keep vector, enable and mask consistent.
LEMMA HookStep == RxInv /\ [RxNext]_rxVars => HookInv' /\ HandlerInv'
<1> SUFFICES ASSUME RxTypeOK, HookInv, HandlerInv, [RxNext]_rxVars
             PROVE  HookInv' /\ HandlerInv'
  BY DEF RxInv
<1> USE DEF RxTypeOK, HookInv, HandlerInv, Hooked, Unhooked, MainAt, IsrAt, EntryOf
<1>1. CASE Arrive \/ TimerElapse
  BY <1>1 DEF Arrive, TimerElapse, timerVars, uartVars, hookVars, maskVars, mainVars, isrVars
<1>2. CASE RxInitEnter \/ RxInitHook \/ RxInitEnable \/ RxInitDone
  BY <1>2 DEF RxInitEnter, InitCall, RxInitHook, RxInitEnable, RxInitDone,
              uartVars, hookVars, maskVars, isrVars
<1>3. CASE RxWaitLoad \/ RxWaitCompare \/ RxWaitFetch \/ RxWaitAdvance
  BY <1>3 DEF RxWaitLoad, RxWaitCompare, RxWaitFetch, RxWaitAdvance,
              uartVars, hookVars, maskVars, isrVars
<1>4. CASE RxFiniMask \/ RxFiniDisable \/ RxFiniRestore \/ RxFiniStatus
  BY <1>4 DEF RxFiniMask, RxFiniDisable, DisableRx, RxFiniRestore, RxFiniStatus,
              uartVars, hookVars, maskVars, isrVars
<1>5. CASE Interrupt
  BY <1>5 DEF Interrupt, uartVars, hookVars, maskVars, mainVars
<1>6. CASE IsrTest \/ IsrAck \/ IsrRead \/ IsrArm
  BY <1>6 DEF IsrTest, IsrAck, IsrRead, IsrArm, RearmRx, uartVars, hookVars, maskVars, mainVars
<1>7. CASE IsrStore \/ IsrChain \/ IntTimer
  BY <1>7 DEF IsrStore, IsrChain, ChainTarget, IntTimer, uartVars, hookVars, maskVars, mainVars
<1>8. CASE UNCHANGED rxVars
  BY <1>8 DEF rxVars, uartVars, hookVars, maskVars, mainVars, isrVars
<1>9. QED
  BY <1>1, <1>2, <1>3, <1>4, <1>5, <1>6, <1>7, <1>8 DEF RxNext, Main, Isr

\* The handler never touches the slot a reader is about to read or has just read.
LEMMA ReaderStep == RxInv /\ [RxNext]_rxVars => ReaderInv'
<1> SUFFICES ASSUME RxTypeOK, HookInv, HandlerInv, ReaderInv, [RxNext]_rxVars
             PROVE  ReaderInv'
  BY DEF RxInv
<1> USE DEF RxTypeOK, ReaderInv, MainAt, IsrAt
<1>1. CASE Arrive \/ TimerElapse
  BY <1>1 DEF Arrive, TimerElapse, queueVars, mainVars
<1>2. CASE RxInitEnter \/ RxInitHook \/ RxInitEnable \/ RxInitDone
  BY <1>2 DEF RxInitEnter, InitCall, RxInitHook, RxInitEnable, RxInitDone
<1>3. CASE RxWaitLoad \/ RxWaitCompare \/ RxWaitFetch \/ RxWaitAdvance
  BY <1>3 DEF RxWaitLoad, RxWaitCompare, Empty, RxWaitFetch, RxWaitAdvance, queueVars
<1>4. CASE RxFiniMask \/ RxFiniDisable \/ RxFiniRestore \/ RxFiniStatus
  BY <1>4 DEF RxFiniMask, RxFiniDisable, RxFiniRestore, RxFiniStatus
<1>5. CASE Interrupt \/ IsrTest \/ IsrAck \/ IsrRead \/ IsrArm \/ IsrChain \/ IntTimer
  BY <1>5 DEF Interrupt, IsrTest, IsrAck, IsrRead, IsrArm, IsrChain, IntTimer, queueVars, mainVars
<1>6. CASE IsrStore
  <2>1. RXHEAD' # RXTAIL \/ RXHEAD' = RXHEAD
    BY <1>6 DEF IsrStore, Full
  <2>2. RXHEAD # RXTAIL => RXBUF'[RXTAIL] = RXBUF[RXTAIL]
    BY <1>6 DEF IsrStore
  <2>3. UNCHANGED <<RXTAIL, mpc, r0, rxchar>>
    BY <1>6 DEF IsrStore, mainVars
  <2>4. QED
    BY <2>1, <2>2, <2>3
<1>7. CASE UNCHANGED rxVars
  BY <1>7 DEF rxVars, queueVars, mainVars
<1>8. QED
  BY <1>1, <1>2, <1>3, <1>4, <1>5, <1>6, <1>7 DEF RxNext, Main, Isr

\* What the handler takes for a new byte is one.
LEMMA LineStep == RxInv /\ [RxNext]_rxVars => LineInv'
<1> SUFFICES ASSUME RxTypeOK, LineInv, [RxNext]_rxVars
             PROVE  LineInv'
  BY DEF RxInv
<1> USE DEF RxTypeOK, LineInv, MainAt, IsrAt
<1>1. CASE Arrive \/ TimerElapse
  BY <1>1 DEF Arrive, TimerElapse, uartVars, isrVars
<1>2. CASE RxInitEnter \/ RxInitHook \/ RxInitEnable \/ RxInitDone
  BY <1>2 DEF RxInitEnter, InitCall, RxInitHook, RxInitEnable, RxInitDone, uartVars, isrVars
<1>3. CASE RxWaitLoad \/ RxWaitCompare \/ RxWaitFetch \/ RxWaitAdvance
  BY <1>3 DEF RxWaitLoad, RxWaitCompare, RxWaitFetch, RxWaitAdvance, uartVars, isrVars
<1>4. CASE RxFiniMask \/ RxFiniDisable \/ RxFiniRestore \/ RxFiniStatus
  BY <1>4 DEF RxFiniMask, RxFiniDisable, DisableRx, RxFiniRestore, RxFiniStatus,
              uartVars, isrVars
<1>5. CASE Interrupt
  BY <1>5 DEF Interrupt, EntryOf, uartVars
<1>6. CASE IsrTest \/ IsrAck \/ IsrRead \/ IsrArm
  BY <1>6 DEF IsrTest, IsrAck, IsrRead, IsrArm, RearmRx, uartVars
<1>7. CASE IsrStore \/ IsrChain \/ IntTimer
  BY <1>7 DEF IsrStore, IsrChain, ChainTarget, EntryOf, IntTimer, uartVars
<1>8. CASE UNCHANGED rxVars
  BY <1>8 DEF rxVars, uartVars, isrVars
<1>9. QED
  BY <1>1, <1>2, <1>3, <1>4, <1>5, <1>6, <1>7, <1>8 DEF RxNext, Main, Isr

LEMMA InitRxInv == RxInit => RxInv
<1> SUFFICES ASSUME RxInit PROVE RxInv
  OBVIOUS
<1>1. RxTypeOK
  <2>1. RXBUF \in [0 .. N - 1 -> Byte]
    BY ConstAssumption DEF RxInit
  <2>2. TIMEOUT \in 0 .. WordMod - 1
    BY ConstAssumption DEF RxInit
  <2>3. 0 \in 0 .. N - 1 /\ 0 \in 0 .. WordMod - 1
    BY ConstAssumption
  <2>4. QED
    BY <2>1, <2>2, <2>3, ConstAssumption DEF RxInit, RxTypeOK
<1>2. HookInv /\ HandlerInv /\ ReaderInv /\ LineInv
  BY DEF RxInit, HookInv, HandlerInv, ReaderInv, LineInv, Unhooked
<1>3. QED
  BY <1>1, <1>2 DEF RxInv

\* The inductive invariant holds of every reachable state.
THEOREM RxInvariance == RxSpec => []RxInv
<1>1. RxInv /\ [RxNext]_rxVars => RxInv'
  BY TypeStep, HookStep, ReaderStep, LineStep DEF RxInv
<1>2. QED
  BY InitRxInv, <1>1, PTL DEF RxSpec

\* The ring's indices, words and registers keep their types.
THEOREM RxTypeCorrect == RxSpec => []RxTypeOK
<1>1. RxInv => RxTypeOK
  BY DEF RxInv
<1>2. QED
  BY RxInvariance, <1>1, PTL

\* No byte can interrupt a handler that does not acknowledge it.
THEOREM NoOrphan == RxSpec => []NoOrphanRxInterrupt
<1>1. RxInv => NoOrphanRxInterrupt
  BY DEF RxInv, RxTypeOK, HookInv, Hooked, Unhooked, NoOrphanRxInterrupt
<1>2. QED
  BY RxInvariance, <1>1, PTL

\* The hook chains to the MONITOR's handler, never to itself.
THEOREM ChainIsFinite == RxSpec => []ChainsToMonitor
<1>1. RxInv => ChainsToMonitor
  BY DEF RxInv, RxTypeOK, HookInv, Hooked, Unhooked, ChainsToMonitor
<1>2. QED
  BY RxInvariance, <1>1, PTL

\* rxfini leaves the machine as rxinit found it.
THEOREM RestoredCorrect == RxSpec => []Restored
<1>1. RxInv => Restored
  BY DEF RxInv, RxTypeOK, HookInv, Hooked, Unhooked, Restored
<1>2. QED
  BY RxInvariance, <1>1, PTL

-----------------------------------------------------------------------------
(* The ring as a sequence.                                                 *)

LEMMA SeqIntro ==
    ASSUME NEW S, NEW n \in Nat, NEW f \in [1 .. n -> S]
    PROVE  f \in Seq(S) /\ Len(f) = n
<1>1. f \in Seq(S)
  BY SeqDef
<1>2. DOMAIN f = 1 .. n /\ DOMAIN f = 1 .. Len(f) /\ Len(f) \in Nat
  BY <1>1, LenProperties
<1>3. QED
  BY <1>1, <1>2

\* What a ring with head h and tail t holds, slot by slot.
LEMMA RingContents ==
    ASSUME NEW h \in 0 .. N - 1, NEW t \in 0 .. N - 1, NEW buf \in [0 .. N - 1 -> Byte]
    PROVE  /\ CountOf(h, t) \in 0 .. N - 1
           /\ Contents(h, t, buf) \in Seq(Byte)
           /\ Len(Contents(h, t, buf)) = CountOf(h, t)
           /\ \A k \in 1 .. CountOf(h, t) : SlotOf(t, k - 1) \in 0 .. N - 1
           /\ \A k \in 1 .. CountOf(h, t) : Contents(h, t, buf)[k] = buf[SlotOf(t, k - 1)]
<1>1. CountOf(h, t) \in 0 .. N - 1
  BY ConstAssumption DEF CountOf
<1>2. \A k \in 1 .. CountOf(h, t) : SlotOf(t, k - 1) \in 0 .. N - 1
  BY <1>1, ConstAssumption DEF SlotOf
<1>3. Contents(h, t, buf) \in [1 .. CountOf(h, t) -> Byte]
  BY <1>2 DEF Contents
<1>4. CountOf(h, t) \in Nat
  BY <1>1, ConstAssumption
<1>5. QED
  BY <1>1, <1>2, <1>3, <1>4, SeqIntro DEF Contents

\* The ring is full when the next head would meet the tail: it holds N - 1 bytes.
LEMMA RingFull ==
    ASSUME NEW h \in 0 .. N - 1, NEW t \in 0 .. N - 1
    PROVE  Succ(h) = t <=> CountOf(h, t) = N - 1
  BY SuccIndex, ConstAssumption DEF CountOf

LEMMA RingEmpty ==
    ASSUME NEW h \in 0 .. N - 1, NEW t \in 0 .. N - 1, NEW buf \in [0 .. N - 1 -> Byte]
    PROVE  Contents(h, t, buf) = <<>> <=> h = t
<1>1. CountOf(h, t) = 0 <=> h = t
  BY ConstAssumption DEF CountOf
<1>2. Contents(h, t, buf) = <<>> <=> Len(Contents(h, t, buf)) = 0
  BY RingContents, EmptySeq
<1>3. QED
  BY <1>1, <1>2, RingContents

\* Storing a byte at the head and advancing it appends the byte.
LEMMA RingAppend ==
    ASSUME NEW h \in 0 .. N - 1, NEW t \in 0 .. N - 1, NEW buf \in [0 .. N - 1 -> Byte],
           NEW b \in Byte, Succ(h) # t
    PROVE  Contents(Succ(h), t, [buf EXCEPT ![h] = b]) = Append(Contents(h, t, buf), b)
<1> DEFINE buf2 == [buf EXCEPT ![h] = b]
           old == Contents(h, t, buf)
           new == Contents(Succ(h), t, buf2)
           n == CountOf(h, t)
<1>1. /\ Succ(h) \in 0 .. N - 1
      /\ Succ(h) = IF h = N - 1 THEN 0 ELSE h + 1
  BY SuccIndex
<1>2. CountOf(Succ(h), t) = n + 1
  BY <1>1, ConstAssumption DEF CountOf
<1>3. /\ n \in 0 .. N - 1 /\ old \in Seq(Byte) /\ Len(old) = n
      /\ \A k \in 1 .. n : SlotOf(t, k - 1) \in 0 .. N - 1
      /\ \A k \in 1 .. n : old[k] = buf[SlotOf(t, k - 1)]
  BY RingContents
<1>4. buf2 \in [0 .. N - 1 -> Byte]
  OBVIOUS
<1>5. /\ new \in Seq(Byte) /\ Len(new) = n + 1
      /\ \A k \in 1 .. n + 1 : new[k] = buf2[SlotOf(t, k - 1)]
  <2> HIDE DEF n, buf2
  <2>1. /\ new \in Seq(Byte) /\ Len(new) = CountOf(Succ(h), t)
        /\ \A k \in 1 .. CountOf(Succ(h), t) : new[k] = buf2[SlotOf(t, k - 1)]
    BY <1>1, <1>4, RingContents
  <2>2. QED
    BY <1>2, <2>1
<1>6. \A k \in 1 .. n : SlotOf(t, k - 1) # h
  BY <1>3, ConstAssumption DEF CountOf, SlotOf
<1>7. SlotOf(t, n) = h
  BY <1>3, ConstAssumption DEF CountOf, SlotOf
<1>8. \A i \in 0 .. N - 1 : buf2[i] = IF i = h THEN b ELSE buf[i]
  OBVIOUS
<1> HIDE DEF n, old, new, buf2
<1>9. \A k \in 1 .. n : new[k] = old[k]
  <2> SUFFICES ASSUME NEW k \in 1 .. n
               PROVE  new[k] = old[k]
    OBVIOUS
  <2>1. k \in 1 .. n + 1
    BY <1>3, ConstAssumption
  <2>2. new[k] = buf2[SlotOf(t, k - 1)]
    BY <1>5, <2>1
  <2>3. QED
    BY <1>3, <1>6, <1>8, <2>2
<1>10. new[n + 1] = b
  <2>1. n + 1 \in 1 .. n + 1 /\ (n + 1) - 1 = n
    BY <1>3, ConstAssumption
  <2>2. new[n + 1] = buf2[SlotOf(t, n)]
    BY <1>5, <2>1
  <2>3. QED
    BY <1>7, <1>8, <2>2
<1>11. /\ Append(old, b) \in Seq(Byte) /\ Len(Append(old, b)) = n + 1
       /\ \A k \in 1 .. n : Append(old, b)[k] = old[k]
       /\ Append(old, b)[n + 1] = b
  BY <1>3
<1>12. \A k \in 1 .. n + 1 : new[k] = Append(old, b)[k]
  <2> SUFFICES ASSUME NEW k \in 1 .. n + 1
               PROVE  new[k] = Append(old, b)[k]
    OBVIOUS
  <2>1. k \in 1 .. n \/ k = n + 1
    BY <1>3, ConstAssumption
  <2>2. QED
    BY <1>9, <1>10, <1>11, <2>1
<1>13. new = Append(old, b)
  BY <1>5, <1>11, <1>12, SeqEqual
<1>14. QED
  BY <1>13 DEF new, old, buf2

\* Advancing the tail removes the byte at the tail.
LEMMA RingTail ==
    ASSUME NEW h \in 0 .. N - 1, NEW t \in 0 .. N - 1, NEW buf \in [0 .. N - 1 -> Byte],
           h # t
    PROVE  /\ Contents(h, t, buf) # <<>>
           /\ Head(Contents(h, t, buf)) = buf[t]
           /\ Contents(h, Succ(t), buf) = Tail(Contents(h, t, buf))
<1> DEFINE old == Contents(h, t, buf)
           new == Contents(h, Succ(t), buf)
           n == CountOf(h, t)
<1>1. /\ Succ(t) \in 0 .. N - 1
      /\ Succ(t) = IF t = N - 1 THEN 0 ELSE t + 1
  BY SuccIndex
<1>2. n \in 1 .. N - 1 /\ CountOf(h, Succ(t)) = n - 1
  BY <1>1, ConstAssumption DEF CountOf
<1>3. /\ old \in Seq(Byte) /\ Len(old) = n
      /\ \A k \in 1 .. n : old[k] = buf[SlotOf(t, k - 1)]
  BY RingContents
<1>4. /\ new \in Seq(Byte) /\ Len(new) = n - 1
      /\ \A k \in 1 .. n - 1 : new[k] = buf[SlotOf(Succ(t), k - 1)]
  <2> HIDE DEF n
  <2>1. /\ new \in Seq(Byte) /\ Len(new) = CountOf(h, Succ(t))
        /\ \A k \in 1 .. CountOf(h, Succ(t)) : new[k] = buf[SlotOf(Succ(t), k - 1)]
    BY <1>1, RingContents
  <2>2. CountOf(h, Succ(t)) = n - 1
    BY <1>2
  <2> HIDE DEF new
  <2>3. QED
    BY <2>1, <2>2
<1>5. old # <<>>
  BY <1>2, <1>3, EmptySeq
<1>6. Head(old) = buf[t]
  <2>1. Head(old) = old[1]
    BY <1>3
  <2>2. SlotOf(t, 0) = t
    BY ConstAssumption DEF SlotOf
  <2>3. old[1] = buf[SlotOf(t, 0)]
    BY <1>2, <1>3
  <2>4. QED
    BY <2>1, <2>2, <2>3
<1>7. /\ Tail(old) \in Seq(Byte) /\ Len(Tail(old)) = n - 1
      /\ \A k \in 1 .. n - 1 : Tail(old)[k] = old[k + 1]
  BY <1>3, <1>5, HeadTailProperties
<1>8. \A k \in 1 .. n - 1 : SlotOf(Succ(t), k - 1) = SlotOf(t, k)
  BY <1>1, <1>2, ConstAssumption DEF SlotOf
<1> HIDE DEF n, old, new
<1>9. \A k \in 1 .. n - 1 : new[k] = Tail(old)[k]
  <2> SUFFICES ASSUME NEW k \in 1 .. n - 1
               PROVE  new[k] = Tail(old)[k]
    OBVIOUS
  <2>1. k + 1 \in 1 .. n /\ (k + 1) - 1 = k
    BY <1>2, ConstAssumption
  <2>2. old[k + 1] = buf[SlotOf(t, k)]
    BY <1>3, <2>1
  <2>3. QED
    BY <1>4, <1>7, <1>8, <2>2
<1>10. new = Tail(old)
  BY <1>4, <1>7, <1>9, SeqEqual
<1>11. QED
  BY <1>5, <1>6, <1>10 DEF old, new

-----------------------------------------------------------------------------
(* The refinement: every step of the hook is a step of the bounded queue.   *)

LEMMA InitRefines == RxInit => Fifo!Init
<1> SUFFICES ASSUME RxInit PROVE Fifo!Init
  OBVIOUS
<1>1. Unread = <<>>
  <2>1. 0 \in 0 .. N - 1
    BY ConstAssumption
  <2>2. RXBUF \in [0 .. N - 1 -> Byte]
    BY ConstAssumption DEF RxInit
  <2>3. QED
    BY <2>1, <2>2, RingEmpty DEF RxInit, Unread
<1>2. Latched = NoByte /\ RXOVFL = 0 /\ rxchar \in Byte
  BY ConstAssumption DEF RxInit, Latched
<1>3. Waiting \in Byte \cup {NoByte} /\ InSession = FALSE
  BY DEF RxInit, Waiting, InSession
<1>4. QED
  BY <1>1, <1>2, <1>3 DEF Fifo!Init

\* A byte that interrupts the program interrupts a session.
LEMMA HandlerInSession ==
    ASSUME RxInv
    PROVE  /\ ipc \in {"ack", "read", "arm", "store"} => InSession
           /\ mpc \in {"fetch", "advance"} => InSession
  BY DEF RxInv, RxTypeOK, HookInv, HandlerInv, Hooked, Unhooked, InSession

LEMMA StepRefines == RxInv /\ [RxNext]_rxVars => [Fifo!Next]_(Fifo!vars)
<1> SUFFICES ASSUME RxInv, [RxNext]_rxVars
             PROVE  [Fifo!Next]_(Fifo!vars)
  OBVIOUS
<1>0. RxTypeOK /\ HookInv /\ ReaderInv /\ LineInv
  BY DEF RxInv
<1>b. rbr \in Byte /\ rbr # NoByte /\ fresh \in BOOLEAN
  BY <1>0, ConstAssumption DEF RxTypeOK
<1>a. ASSUME UNCHANGED queueVars, UNCHANGED rxchar
      PROVE  UNCHANGED <<Unread, RXOVFL, rxchar>>
  BY <1>a DEF Unread, Contents, CountOf, SlotOf, queueVars
<1>c. ASSUME UNCHANGED queueVars, UNCHANGED rxchar, UNCHANGED Waiting,
             UNCHANGED InSession, UNCHANGED Latched
      PROVE  UNCHANGED Fifo!vars
  BY <1>a, <1>c DEF Fifo!vars
<1>1. CASE Arrive
  <2>1. Waiting' = rbr' /\ rbr' \in Byte
    BY <1>1 DEF Arrive, Waiting
  <2>2. UNCHANGED <<InSession, Latched>> /\ UNCHANGED queueVars /\ UNCHANGED rxchar
    BY <1>1 DEF Arrive, InSession, Latched, hookVars, mainVars, isrVars
  <2>3. Fifo!Arrive
    BY <1>a, <2>1, <2>2 DEF Fifo!Arrive
  <2> QED
    BY <2>3 DEF Fifo!Next
<1>2. CASE TimerElapse \/ UNCHANGED rxVars
  BY <1>2, <1>c DEF TimerElapse, Waiting, InSession, Latched, rxVars, uartVars, hookVars,
                    mainVars, isrVars
<1>3. CASE RxInitEnter \/ RxInitDone
  BY <1>3, <1>c DEF RxInitEnter, InitCall, RxInitDone, MainAt, Waiting, InSession, Latched,
                    uartVars, hookVars, isrVars
<1>4. CASE RxInitHook
  <2>1. Latched = NoByte /\ UNCHANGED <<Waiting, InSession, Latched>>
    BY <1>4 DEF RxInitHook, MainAt, Waiting, InSession, Latched, uartVars, isrVars
  <2>2. Unread' = <<>>
    <3>1. 0 \in 0 .. N - 1 /\ RXBUF \in [0 .. N - 1 -> Byte]
      BY <1>0, ConstAssumption DEF RxTypeOK
    <3>2. Contents(0, 0, RXBUF) = <<>>
      BY <3>1, RingEmpty
    <3>3. Unread' = Contents(0, 0, RXBUF)
      BY <1>4 DEF RxInitHook, Unread, Contents, CountOf, SlotOf
    <3>4. QED
      BY <3>2, <3>3
  <2>3. ~InSession
    BY <1>0, <1>4 DEF HookInv, RxInitHook, MainAt, InSession
  <2>4. Fifo!Reset
    BY <1>4, <2>1, <2>2, <2>3, ConstAssumption DEF RxInitHook, Fifo!Reset
  <2>5. QED
    BY <2>4 DEF Fifo!Next
<1>5. CASE RxInitEnable \/ RxFiniDisable
  <2>1. Latched = NoByte /\ Waiting' = NoByte /\ UNCHANGED Latched
    BY <1>5 DEF RxInitEnable, RxFiniDisable, MainAt, Waiting, Latched, isrVars
  <2>2. UNCHANGED <<Unread, RXOVFL, rxchar>>
    BY <1>5, <1>a DEF RxInitEnable, RxFiniDisable, mainVars
  <2>3. ASSUME RxInitEnable PROVE Fifo!Open
    <3>1. ~InSession /\ InSession' = TRUE
      BY <1>0, <2>3 DEF HookInv, RxInitEnable, MainAt, InSession
    <3> QED
      BY <3>1 DEF Fifo!Open
  <2>4. ASSUME RxFiniDisable PROVE Fifo!Close
    <3>1. InSession /\ InSession' = FALSE
      BY <1>0, <2>4 DEF HookInv, RxFiniDisable, MainAt, InSession, hookVars
    <3> QED
      BY <3>1 DEF Fifo!Close
  <2>5. Fifo!Open \/ Fifo!Close
    BY <1>5, <2>3, <2>4
  <2>6. Fifo!Session
    BY <2>1, <2>2, <2>5 DEF Fifo!Session
  <2> QED
    BY <2>6 DEF Fifo!Next
<1>6. CASE RxWaitLoad \/ RxWaitCompare
  BY <1>6, <1>c DEF RxWaitLoad, RxWaitCompare, MainAt, Waiting, InSession, Latched,
                    uartVars, hookVars, isrVars
<1>7. CASE RxWaitFetch
  <2>1. /\ Unread # <<>>
        /\ Head(Unread) = RXBUF[RXTAIL]
    BY <1>0, <1>7, RingTail DEF RxTypeOK, ReaderInv, RxWaitFetch, MainAt, Unread
  <2>2. rxchar' = Head(Unread)
    BY <1>0, <1>7, <2>1 DEF ReaderInv, RxWaitFetch, MainAt
  <2>3. UNCHANGED <<Latched, Unread, RXOVFL, Waiting>>
    BY <1>7 DEF RxWaitFetch, Latched, Waiting, Unread, Contents, CountOf, SlotOf, uartVars,
                queueVars, isrVars
  <2>4. InSession /\ UNCHANGED InSession
    BY <1>7, HandlerInSession DEF RxWaitFetch, MainAt, InSession, hookVars
  <2>5. Fifo!Deliver
    BY <2>1, <2>2, <2>3, <2>4 DEF Fifo!Deliver
  <2>6. QED
    BY <2>5 DEF Fifo!Next
<1>8. CASE RxWaitAdvance
  <2>1. /\ Unread # <<>>
        /\ rxchar = Head(Unread)
        /\ Contents(RXHEAD, Succ(RXTAIL), RXBUF) = Tail(Unread)
    BY <1>0, <1>8, RingTail DEF RxTypeOK, ReaderInv, RxWaitAdvance, MainAt, Unread
  <2>2. Unread' = Contents(RXHEAD, Succ(RXTAIL), RXBUF)
    BY <1>0, <1>8 DEF ReaderInv, RxWaitAdvance, MainAt, Unread, Contents, CountOf, SlotOf
  <2>3. UNCHANGED <<Latched, RXOVFL, rxchar, Waiting>>
    BY <1>8 DEF RxWaitAdvance, Latched, Waiting, uartVars, isrVars
  <2>4. InSession /\ UNCHANGED InSession
    BY <1>8, HandlerInSession DEF RxWaitAdvance, MainAt, InSession, hookVars
  <2>5. Fifo!Remove
    BY <2>1, <2>2, <2>3, <2>4 DEF Fifo!Remove
  <2>6. QED
    BY <2>5 DEF Fifo!Next
<1>9. CASE RxFiniMask \/ RxFiniRestore \/ RxFiniStatus
  BY <1>9, <1>0, <1>c DEF RxFiniMask, RxFiniRestore, RxFiniStatus, MainAt, Waiting, InSession,
                    Latched, HookInv, uartVars, hookVars, isrVars
<1>10. CASE Interrupt \/ IsrTest \/ IsrAck \/ IsrChain \/ IntTimer
  BY <1>10, <1>c DEF Interrupt, IsrTest, IsrAck, IsrChain, ChainTarget, IntTimer,
                    EntryOf, IsrAt, Waiting, InSession, Latched, uartVars, hookVars, mainVars
<1>11. CASE IsrRead
  <2>1. Latched = NoByte /\ Latched' = rbr /\ Waiting' = NoByte
    BY <1>11 DEF IsrRead, IsrAt, Latched, Waiting
  <2>2. Waiting = rbr /\ rbr # NoByte
    BY <1>0, <1>b, <1>11 DEF LineInv, IsrRead, IsrAt, Waiting
  <2>3. UNCHANGED <<Unread, RXOVFL, rxchar>>
    BY <1>11, <1>a DEF IsrRead, mainVars
  <2>4. InSession /\ UNCHANGED InSession
    BY <1>11, HandlerInSession DEF IsrRead, IsrAt, InSession, hookVars, mainVars
  <2>5. Fifo!Latch
    BY <2>1, <2>2, <2>3, <2>4 DEF Fifo!Latch
  <2>6. QED
    BY <2>5 DEF Fifo!Next
<1>12. CASE IsrArm
  <2>1. Latched # NoByte /\ UNCHANGED Latched /\ Waiting' = NoByte
    BY <1>0, <1>12, ConstAssumption DEF RxTypeOK, IsrArm, IsrAt, Latched, Waiting
  <2>2. UNCHANGED queueVars /\ UNCHANGED rxchar
    BY <1>12 DEF IsrArm, mainVars
  <2>3. InSession /\ UNCHANGED InSession
    BY <1>12, HandlerInSession DEF IsrArm, IsrAt, InSession, hookVars, mainVars
  <2>4. CASE Waiting = NoByte
    BY <1>c, <2>1, <2>2, <2>3, <2>4
  <2>5. CASE Waiting # NoByte
    <3>1. Fifo!Miss
      BY <1>a, <2>1, <2>2, <2>3, <2>5 DEF Fifo!Miss
    <3> QED
      BY <3>1 DEF Fifo!Next
  <2> QED
    BY <2>4, <2>5
<1>13. CASE IsrStore
  <2>1. /\ Latched = r1 /\ Latched # NoByte /\ Latched' = NoByte
        /\ UNCHANGED <<RXTAIL, rxchar, Waiting, InSession>>
    BY <1>0, <1>13, ConstAssumption DEF IsrStore, IsrAt, Latched, Waiting, InSession,
                    RxTypeOK, uartVars, hookVars, mainVars
  <2>2. /\ Len(Unread) = CountOf(RXHEAD, RXTAIL)
        /\ CountOf(RXHEAD, RXTAIL) \in 0 .. N - 1
    BY <1>0, RingContents DEF RxTypeOK, Unread
  <2>3. CASE Full
    <3>1. Len(Unread) = N - 1
      BY <1>0, <2>2, <2>3, RingFull DEF Full, RxTypeOK
    <3>2. RXOVFL' = (RXOVFL + 1) % WordMod /\ Unread' = Unread
      BY <1>13, <2>1, <2>3 DEF IsrStore, Unread, Contents, CountOf, SlotOf
    <3>3. Fifo!Drop
      BY <2>1, <3>1, <3>2 DEF Fifo!Drop
    <3>4. QED
      BY <3>3 DEF Fifo!Next
  <2>4. CASE ~Full
    <3>1. Len(Unread) < N - 1
      BY <1>0, <2>2, <2>4, RingFull, ConstAssumption DEF Full, RxTypeOK
    <3>2. /\ Unread' = Contents(Succ(RXHEAD), RXTAIL, [RXBUF EXCEPT ![RXHEAD] = r1])
          /\ RXOVFL' = RXOVFL
      BY <1>13, <2>1, <2>4 DEF IsrStore, Unread, Contents, CountOf, SlotOf
    <3>3. Unread' = Append(Unread, r1)
      BY <1>0, <2>4, <3>2, RingAppend DEF Full, RxTypeOK, Unread
    <3>4. Fifo!Accept
      BY <2>1, <3>1, <3>2, <3>3 DEF Fifo!Accept
    <3>5. QED
      BY <3>4 DEF Fifo!Next
  <2>5. QED
    BY <2>3, <2>4
<1>14. QED
  BY <1>1, <1>2, <1>3, <1>4, <1>5, <1>6, <1>7, <1>8, <1>9, <1>10, <1>11, <1>12, <1>13
     DEF RxNext, Main, Isr

\* The ring implements the bounded queue, for every size and every interleaving,
\* and the only bytes lost uncounted are those that RxFifo says the chip loses.
THEOREM Refinement == RxSpec => ImplementsFifo
<1>1. RxSpec => Fifo!Init /\ [][Fifo!Next]_(Fifo!vars)
  BY InitRefines, StepRefines, RxInvariance, PTL DEF RxSpec
<1>2. QED
  BY <1>1 DEF ImplementsFifo, Fifo!Spec
=============================================================================
