------------------------------- MODULE DocMenu ------------------------------
(***************************************************************************)
(* FileEdit's menu (EDITMENU.C): Open, New, Save, Save As, Edit and Quit   *)
(* over the file services of FileIO.  docguard protects a changed document *)
(* before Open, New and Quit.  Every command runs to its end before the    *)
(* next key is read, so the menu is a single process; what interleaves     *)
(* with it is the disk and a reset of the machine.                         *)
(*                                                                         *)
(* pc is "off" between two runs of the program, "menu" where the menu or   *)
(* the editor waits for a key, "guard" at docguard's prompt, "backup",     *)
(* "write", "verify" and "saved" within a save, and "open", "new" or       *)
(* "quit" where docguard has returned 1 to that command.                   *)
(***************************************************************************)
EXTENDS FileIO

VARIABLES arg,      \* the name typed for Open or New
          consent   \* history: the user answered "Don't save"

menuVars == <<arg, consent>>

vars == <<files, docVars, pc, then, target, histVars, menuVars>>

NoDoc == [name |-> NoName, text |-> <<>>]

Init ==
    /\ files \in [Name -> Text \cup {Absent}]
    /\ pc = "off" /\ then = "menu"
    /\ fsname = NoName /\ target = NoName /\ arg = NoName
    /\ fsexist = FALSE /\ text = <<>> /\ ebdirty = FALSE /\ ebvalid = FALSE
    /\ last = NoDoc /\ faults = 0 /\ retried = FALSE /\ shortread = FALSE /\ spoiled = FALSE
    /\ consent = FALSE

AtMenu == pc = "menu"

\* Control goes to k; the disk, the save in progress and the consent stay.
Goto(k) == pc' = k /\ UNCHANGED <<files, then, target, consent>>

KeepsDocument == UNCHANGED <<docVars, histVars>>

\* ebnone: the arena of a program that has no document.
ebnone(n) ==
    /\ text' = <<>> /\ fsname' = n /\ fsexist' = FALSE
    /\ ebdirty' = FALSE /\ ebvalid' = FALSE
    /\ UNCHANGED histVars

\* editmenu up to its loop: load the file the command line names, if any.
Start ==
    /\ pc = "off"
    /\ Goto("menu") /\ UNCHANGED arg
    /\ \/ \E n \in UserName : ebloadn(n)
       \/ \E n \in UserName \cup {NoName} : ebnone(n)

\* A session in the editor that changes the text; ^O in it is Save.
Edit ==
    /\ AtMenu /\ ebvalid
    /\ \E t \in Text : Fits(t) /\ text' = t
    /\ ebdirty' = TRUE
    /\ UNCHANGED <<files, fsname, fsexist, ebvalid, pc, then, target, histVars, menuVars>>

\* saveone, edsave, and Save from statone's prompt.
Save ==
    /\ AtMenu /\ ebvalid
    /\ fssave("menu")
    /\ UNCHANGED menuVars

\* asone to another name, the replacement of an existing file confirmed.
SaveAs ==
    /\ AtMenu /\ ebvalid
    /\ \E n \in UserName \ {fsname} : fssavas(n)
    /\ UNCHANGED menuVars

\* docguard is entered for command k with the name n typed.
AskGuard(k, n) ==
    /\ pc' = "guard" /\ then' = k /\ arg' = n /\ consent' = FALSE
    /\ UNCHANGED <<files, docVars, target, histVars>>

\* openone and newone up to docguard, and Quit.
openone == AtMenu /\ \E n \in UserName : Readable(n) /\ AskGuard("open", n)

newone == AtMenu /\ \E n \in UserName : ~Readable(n) /\ AskGuard("new", n)

Quit == AtMenu /\ AskGuard("quit", NoName)

\* docguard returns 1 at once.
NothingToLose == ~ebvalid \/ (~ebdirty /\ fsexist)

docguard ==
    /\ pc = "guard"
    /\ \/ NothingToLose /\ Goto(then) /\ KeepsDocument /\ UNCHANGED arg
       \/ ~NothingToLose /\ fssave(then) /\ UNCHANGED menuVars
       \/ /\ ~NothingToLose                                 \* Don't save
          /\ pc' = then /\ consent' = TRUE
          /\ KeepsDocument /\ UNCHANGED <<files, then, target, arg>>
       \/ ~NothingToLose /\ Goto("menu") /\ KeepsDocument /\ UNCHANGED arg   \* Cancel

\* openone after docguard: a load that fails leaves the document as it was.
OpenLoads ==
    /\ pc = "open"
    /\ Goto("menu") /\ UNCHANGED arg
    /\ ebloadn(arg) \/ KeepsDocument

\* newone after docguard.
NewCreates ==
    /\ pc = "new"
    /\ Goto("menu") /\ UNCHANGED arg
    /\ ebnewn(arg)

\* editmenu returns.
QuitEnds ==
    /\ pc = "quit"
    /\ Goto("off") /\ UNCHANGED arg
    /\ ebnone(NoName)

\* The file the program has open for writing, if any.
OpenForWriting == CASE pc = "backup" -> {mkbak(target)}
                    [] pc = "write"  -> {target}
                    [] OTHER         -> {}

\* The machine is reset.  Memory is lost; a file being written holds some text.
Reset ==
    /\ pc # "off"
    /\ pc' = "off"
    /\ \/ UNCHANGED <<files, spoiled>>
       \/ \E n \in OpenForWriting, t \in Text :
             /\ files' = [files EXCEPT ![n] = t]
             /\ spoiled' = (spoiled \/ (pc = "backup" /\ n = fsname))
    /\ text' = <<>> /\ fsname' = NoName /\ fsexist' = FALSE
    /\ ebdirty' = FALSE /\ ebvalid' = FALSE
    /\ IF pc \in {"backup", "write", "verify"} THEN Fault ELSE NoFault
    /\ UNCHANGED <<then, target, last, retried, shortread, menuVars>>

SaveProceeds == SaveStep /\ UNCHANGED menuVars

Next ==
    \/ Start \/ Edit \/ Save \/ SaveAs \/ openone \/ newone \/ Quit
    \/ docguard \/ OpenLoads \/ NewCreates \/ QuitEnds
    \/ SaveProceeds \/ Reset

Spec == Init /\ [][Next]_vars

-----------------------------------------------------------------------------
Transitions == {"open", "new", "quit"}

SavePoints == {"backup", "write", "verify"}

\* Types of the variables; the text never outgrows the arena.
TypeOK ==
    /\ files \in [Name -> Text \cup {Absent}]
    /\ fsname \in UserName \cup {NoName} /\ fsexist \in BOOLEAN
    /\ text \in Text /\ Len(text) <= ebcap /\ ebdirty \in BOOLEAN /\ ebvalid \in BOOLEAN
    /\ pc \in {"off", "menu", "guard", "saved"} \cup SavePoints \cup Transitions
    /\ then \in {"menu"} \cup Transitions
    /\ target \in UserName \cup {NoName}
    /\ last \in [name : Name \cup {NoName}, text : Text]
    /\ faults \in 0..2 /\ retried \in BOOLEAN /\ shortread \in BOOLEAN /\ spoiled \in BOOLEAN
    /\ arg \in UserName \cup {NoName} /\ consent \in BOOLEAN

\* "Clean" tells the truth: a document the menu shows without [NEW] or [MOD] is
\* what its file holds, unless a read error cut the load short or a Save As has
\* used the document's own file as the backup of its target and failed.
CleanMatchesDisk ==
    ebvalid /\ fsexist /\ ~ebdirty /\ ~shortread /\ ~spoiled => files[fsname] = text

\* Open, New and Quit go ahead only when the document is on the disk, or the
\* user said not to save it, whatever faults a save asked for on the way met:
\* with the same two exceptions, which docguard does not see.
NoSilentDiscard ==
    pc \in Transitions /\ ebvalid /\ ~shortread /\ ~spoiled /\ ~consent
        => fsexist /\ files[fsname] = text

\* One disk fault or reset never costs the last text that was loaded or
\* verified: it is in its file or in that file's backup, or the file already
\* holds the whole of the text that replaces it.  The promise ends when a save
\* is tried again after a fault, and when a Save As uses the document's own
\* file as the backup of its target.
Kept(d) ==
    \/ files[d.name] = d.text
    \/ mkbak(d.name) \in Name /\ files[mkbak(d.name)] = d.text
    \/ pc = "verify" /\ target = d.name /\ files[target] = text

OneFaultKeepsText ==
    last.name # NoName /\ faults <= 1 /\ ~retried /\ ~spoiled => Kept(last)

\* The inductive strengthening of CleanMatchesDisk and NoSilentDiscard: a save
\* of the document's own name is under way only while the document counts as
\* changed, and control reaches a transition unconsented only when it does not.
Changed == ebdirty \/ ~fsexist

IInv ==
    /\ TypeOK
    /\ ebvalid => fsname \in UserName
    /\ then \in {"open", "new"} => arg \in UserName
    /\ pc \in SavePoints => ebvalid /\ target \in UserName
    /\ pc \in SavePoints /\ target = fsname => Changed
    /\ pc = "saved" => ebvalid /\ ~Changed
    /\ pc = "guard" => then # "menu"
    /\ pc \in Transitions => then = pc
    /\ pc \in Transitions /\ ebvalid /\ ~consent => ~Changed
    /\ CleanMatchesDisk

\* The inductive strengthening of OneFaultKeepsText: where the last good text is at
\* each step of a save of its own file, and that every other save leaves it alone.
InFile == files[last.name] = last.text

InBackup == files[mkbak(last.name)] = last.text

OwnSave == pc \in SavePoints /\ target = last.name

Held ==
    /\ ~OwnSave => InFile \/ (faults = 1 /\ pc \notin SavePoints /\ InBackup)
    /\ OwnSave /\ pc = "backup" => InFile /\ faults = 0
    /\ OwnSave /\ pc = "write" => InFile /\ (InBackup \/ faults = 1)
    /\ OwnSave /\ pc = "verify" =>
          (InBackup \/ Same) /\ (faults = 0 => InBackup /\ Same)

KInv ==
    last.name # NoName =>
        /\ last.name \in UserName
        /\ ebvalid => fsname = last.name /\ fsexist
        /\ faults <= 1 /\ ~retried /\ ~spoiled => Held
=============================================================================
