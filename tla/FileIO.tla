------------------------------- MODULE FileIO -------------------------------
(***************************************************************************)
(* FileEdit's document and file services: the document in memory           *)
(* (EDITBUF.C, FILEDATA.C) and the save protocol of FILEIO.C, which copies *)
(* an existing target to a rolling backup, writes the target, reopens it   *)
(* and compares it with memory before the document counts as clean.        *)
(*                                                                         *)
(* A text is a sequence of characters and a file holds a text.  The disk   *)
(* and the C library under fopen, putc and fclose are the environment: an  *)
(* open may be refused; a write may fail part of the way, which putc       *)
(* reports, or when the last buffer is flushed by fclose, whose result the *)
(* code discards (SilentFaults); the machine may be reset at any moment,   *)
(* which leaves a file that was being written holding part of its text.    *)
(***************************************************************************)
EXTENDS Naturals, Sequences, SequencesExt

CONSTANTS Name,          \* file names, records [base, ext]
          UserName,      \* the names typed at the prompts, some of Name
          NoName,        \* the empty file name
          Text,          \* texts, closed under prefixes
          Absent,        \* "no such file"
          ebcap,         \* characters the arena holds: 12287 in the code
          SilentFaults   \* may fclose lose the last buffer unnoticed?

\* mkbak: the backup of NAME.EXT is NAME.BAK, and that of NAME.BAK is NAME.BK1.
mkbak(n) == [n EXCEPT !.ext = IF n.ext = "BAK" THEN "BK1" ELSE "BAK"]

ASSUME NameAssumption ==
    /\ UserName \subseteq Name /\ NoName \notin Name
    /\ Name \subseteq [base : STRING, ext : STRING]
    /\ \A n \in UserName : mkbak(n) \in Name

ASSUME TextAssumption ==
    /\ Text \subseteq Seq(Nat) /\ <<>> \in Text /\ Absent \notin Text
    /\ ebcap \in Nat /\ SilentFaults \in BOOLEAN

VARIABLES
    files,                     \* the disk: what each name holds
    fsname, fsexist,           \* the document's name; is it known to be on disk?
    text, ebdirty, ebvalid,    \* the arena; changed since saved? a document at all?
    pc,                        \* where the program is
    then,                      \* what it goes on with when a save succeeds
    target,                    \* the name a save is writing
    last,                      \* history: name and text last loaded or verified
    faults, retried,           \* history: disk faults since, capped; saved again?
    shortread,                 \* history: the load met a read error and cut the text
    spoiled                    \* history: a backup was written over the document's file

docVars  == <<fsname, fsexist, text, ebdirty, ebvalid>>
histVars == <<last, faults, retried, shortread, spoiled>>

Readable(n) == n \in Name /\ files[n] # Absent

Parts(t) == {u \in Text : IsPrefix(u, t)}

Torn(t) == {u \in Text : IsStrictPrefix(u, t)}

\* A fault is counted since the last load or verified save; two mean "several".
Fault == faults' = IF faults < 2 THEN faults + 1 ELSE 2

NoFault == UNCHANGED faults

-----------------------------------------------------------------------------
(* The save protocol.                                                      *)

\* Mutated form: a document that is not dirty is taken to be saved.
SavedAlreadyBug == ~ebdirty

SavedAlready == fsexist /\ ~ebdirty

\* Mutated form: the target is written with no backup of what it held.
SaveEntryBug == "write"

\* Where a save of the document's own name begins.
SaveEntry == IF fsexist THEN "backup" ELSE "write"

\* fssave, up to its first file operation; k is what follows a success.
fssave(k) ==
    /\ then' = k
    /\ target' = fsname
    /\ IF SavedAlready
       THEN pc' = "saved" /\ UNCHANGED retried
       ELSE pc' = SaveEntry /\ retried' = (retried \/ faults > 0)
    /\ UNCHANGED <<files, docVars, last, faults, shortread, spoiled>>

\* fssavas to a name that is not the document's, up to its first file operation.
fssavas(n) ==
    /\ then' = "menu"
    /\ target' = n
    /\ pc' = IF Readable(n) THEN "backup" ELSE "write"
    /\ retried' = (retried \/ faults > 0)
    /\ UNCHANGED <<files, docVars, last, faults, shortread, spoiled>>

SaveFails ==
    /\ pc' = "menu"
    /\ UNCHANGED <<docVars, then, target, last, retried, shortread>>

\* The backup of the target comes to hold t.  Nothing keeps it from being the
\* document's own file: NAME.BAK, when NAME.EXT is the target of a Save As.
BacksUp(t) ==
    /\ files' = [files EXCEPT ![mkbak(target)] = t]
    /\ spoiled' = (spoiled \/ mkbak(target) = fsname)

\* cpyback: the copy ends in success (and the save goes on to write), or in a
\* failure that leaves the target alone.
cpyback ==
    /\ pc = "backup"
    /\ \/ /\ Readable(target)
          /\ BacksUp(files[target])
          /\ pc' = "write"
          /\ NoFault
          /\ UNCHANGED <<docVars, then, target, last, retried, shortread>>
       \/ /\ Readable(target) /\ SilentFaults
          /\ \E part \in Torn(files[target]) : BacksUp(part)
          /\ pc' = "write"
          /\ Fault
          /\ UNCHANGED <<docVars, then, target, last, retried, shortread>>
       \/ /\ Readable(target)
          /\ \E part \in Parts(files[target]) : BacksUp(part)
          /\ Fault
          /\ SaveFails
       \/ /\ UNCHANGED <<files, spoiled>>
          /\ Fault
          /\ SaveFails

\* wrname: write the arena over the target.
wrname ==
    /\ pc = "write" /\ UNCHANGED spoiled
    /\ \/ /\ files' = [files EXCEPT ![target] = text]
          /\ pc' = "verify"
          /\ NoFault
          /\ UNCHANGED <<docVars, then, target, last, retried, shortread>>
       \/ /\ SilentFaults
          /\ \E part \in Torn(text) : files' = [files EXCEPT ![target] = part]
          /\ pc' = "verify"
          /\ Fault
          /\ UNCHANGED <<docVars, then, target, last, retried, shortread>>
       \/ /\ \E part \in Parts(text) : files' = [files EXCEPT ![target] = part]
          /\ Fault
          /\ SaveFails
       \/ /\ UNCHANGED files
          /\ Fault
          /\ SaveFails

\* Mutated form: the comparison stops at the end of the file, not of the text.
SameBug == IsPrefix(files[target], text)

\* vrname's comparison of the file with the arena, to the end of both.
Same == files[target] = text

\* vrname, and what fssave or fssavas assign when it succeeds.
vrname ==
    /\ pc = "verify"
    /\ UNCHANGED files
    /\ \/ /\ Same
          /\ fsname' = target /\ fsexist' = TRUE /\ ebdirty' = FALSE
          /\ last' = [name |-> target, text |-> text]
          /\ faults' = 0 /\ retried' = FALSE /\ shortread' = FALSE /\ spoiled' = FALSE
          /\ pc' = "saved"
          /\ UNCHANGED <<text, ebvalid, then, target>>
       \/ /\ ~Same
          /\ NoFault
          /\ SaveFails /\ UNCHANGED spoiled
       \/ /\ Fault
          /\ SaveFails /\ UNCHANGED spoiled

\* fssave or fssavas has returned 1.
SaveReturns ==
    /\ pc = "saved"
    /\ pc' = then
    /\ UNCHANGED <<files, docVars, then, target, histVars>>

SaveStep == cpyback \/ wrname \/ vrname \/ SaveReturns

-----------------------------------------------------------------------------
(* The document in memory.                                                 *)

\* The text fits in the arena.
Fits(t) == Len(t) <= ebcap

\* ebloadn, when both passes over the file succeed.  fgetc answers a read error
\* as it answers the end of the file, so the second pass may stop early.
ebloadn(n) ==
    /\ Readable(n)
    /\ Fits(files[n])
    /\ \/ text' = files[n] /\ faults' = 0 /\ shortread' = FALSE
       \/ SilentFaults /\ text' \in Torn(files[n]) /\ faults' = 1 /\ shortread' = TRUE
    /\ fsname' = n /\ fsexist' = TRUE
    /\ ebdirty' = FALSE /\ ebvalid' = TRUE
    /\ last' = [name |-> n, text |-> files[n]] /\ retried' = FALSE /\ spoiled' = FALSE

\* ebnewn: an empty document; nothing is written.
ebnewn(n) ==
    /\ text' = <<>>
    /\ fsname' = n /\ fsexist' = FALSE
    /\ ebdirty' = FALSE /\ ebvalid' = TRUE
    /\ last' = [name |-> NoName, text |-> <<>>]
    /\ faults' = 0 /\ retried' = FALSE /\ shortread' = FALSE /\ spoiled' = FALSE
=============================================================================
