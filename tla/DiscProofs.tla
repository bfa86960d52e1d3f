----------------------------- MODULE DiscProofs -----------------------------
(***************************************************************************)
(* Proofs about the disc driver, for every drive, every number of polls    *)
(* and every text.  The invariant that carries them says what an           *)
(* unfinished command means: where it is in its two sectors, that it is    *)
(* this call's command once the call has waited for its data, and that     *)
(* the sector a busy drive still has to store is the only one that may be  *)
(* behind what was written last.                                           *)
(***************************************************************************)
EXTENDS Disc, TLAPS

USE DataAssumption, LBAAssumption, PollsAssumption

\* A call that has seen the drive idle and has not given it a command yet.
Quiet ==
    /\ pc \in {"IDE_WR_LBA", "command"} => ~drive.bsy
    /\ pc = "command" => regs = lba
    /\ pc = "IDE_GET_ERROR" => missed = "drq"
    /\ pc = "IDE_READY" => r0 > 0
    /\ pc \in {"IDE_READY", "IDE_NOT_BUSY", "IDE_WR_LBA", "command"} =>
           half = 0 /\ missed = "no"

\* The drive: a command has sectors left exactly while it is unfinished.
Commanded ==
    /\ drive.cmd = "none" => drive.todo = 0 /\ ~drive.drq /\ drive.held = Unknown
    /\ drive.cmd # "none" => drive.todo > 0 /\ drive.at + drive.todo <= LastLBA + 1
    /\ drive.drq => ~drive.bsy
    /\ drive.held # Unknown => drive.cmd = "WRITE" /\ drive.bsy

Waiting == {"IDE_WAIT_DRQ", "IDE_READ_DATA", "IDE_WRITE_DATA"}

\* The command the drive performs while the driver waits is this call's.
OwnCommand ==
    pc \in Waiting /\ drive.cmd # "none" /\ missed = "no" =>
        drive.cmd = Verb /\ drive.at = lba + 2 - drive.todo

InStep ==
    /\ pc = "IDE_READ_DATA" => op # "WRITE"
    /\ pc = "IDE_WRITE_DATA" => op = "WRITE"
    /\ pc = "IDE_READ_DATA" => missed = "no" /\ (half = 0 => Offers)
    /\ pc = "IDE_READ_DATA" /\ half = 1 => want[lba] \in {buffer[0], Unknown}
    /\ pc \in {"IDE_READ_DATA", "IDE_WRITE_DATA"} /\ missed = "no"
           /\ drive.cmd # "none" /\ drive.held = Unknown => drive.todo = 2 - half
    /\ pc = "IDE_WRITE_DATA" /\ missed = "no" /\ half = 1 =>
           /\ drive.todo = 2 => drive.held = buffer[0]
           /\ drive.todo = 1 => media[lba] = buffer[0] /\ drive.held = Unknown
    /\ pc = "IDE_WAIT_DRQ" => half = 0 /\ missed = "no" /\ drive.held = Unknown
                              /\ (drive.cmd # "none" => drive.todo = 2)
    /\ pc = "IDE_WRITE_DATA" /\ half = 0 => drive.held = Unknown \/ missed # "no"

\* The sector the drive has been given and not stored yet.
Pending(h) == drive.held # Unknown /\ h = drive.at /\ want[h] = drive.held

\* A reader is owed what the sector holds, but for the one being stored.
Owed ==
    /\ \A h \in LBAs : want[h] \in {media[h], Unknown}
                       \/ Pending(h)
    /\ drive.cmd = "WRITE" =>
           \A h \in drive.at .. drive.at + drive.todo - 1 :
               want[h] = Unknown
               \/ Pending(h)
    /\ pc # "idle" /\ op = "WRITE" => want[lba] = Unknown /\ want[lba + 1] = Unknown

Inv == TypeOK /\ Quiet /\ Commanded /\ OwnCommand /\ InStep /\ Owed /\ AnswerTrue

\* The edits of the drive's record keep it one.
LEMMA DriveEdits ==
    ASSUME NEW d \in Drive, NEW a \in BOOLEAN, NEW c \in BOOLEAN, NEW e \in 0 .. 1,
           NEW f \in {"none", "READ", "WRITE"}, NEW g \in Nat, NEW h \in 0 .. 2,
           NEW i \in Data \cup {Unknown}
    PROVE  /\ [d EXCEPT !.bsy = a, !.drq = c, !.error = e, !.cmd = f, !.at = g, !.todo = h,
                        !.held = i] \in Drive
           /\ [d EXCEPT !.bsy = a, !.drq = c, !.error = e, !.cmd = f, !.todo = h,
                        !.held = i] \in Drive
           /\ [d EXCEPT !.error = e, !.drq = c, !.cmd = f, !.todo = h] \in Drive
           /\ [d EXCEPT !.bsy = a, !.cmd = f, !.todo = h, !.held = i] \in Drive
           /\ [d EXCEPT !.bsy = a, !.drq = c, !.at = g, !.todo = h, !.held = i] \in Drive
           /\ [d EXCEPT !.drq = c, !.bsy = a, !.at = g, !.todo = h] \in Drive
           /\ [d EXCEPT !.drq = c, !.cmd = f, !.todo = h] \in Drive
<1>1. [d EXCEPT !.bsy = a, !.drq = c, !.error = e, !.cmd = f, !.at = g, !.todo = h,
              !.held = i] \in Drive
  BY DEF Drive
<1>2. [d EXCEPT !.bsy = a, !.drq = c, !.error = e, !.cmd = f, !.todo = h, !.held = i] \in Drive
  BY DEF Drive
<1>3. [d EXCEPT !.error = e, !.drq = c, !.cmd = f, !.todo = h] \in Drive
  BY DEF Drive
<1>4. [d EXCEPT !.bsy = a, !.cmd = f, !.todo = h, !.held = i] \in Drive
  BY DEF Drive
<1>5. [d EXCEPT !.bsy = a, !.drq = c, !.at = g, !.todo = h, !.held = i] \in Drive
  BY DEF Drive
<1>6. [d EXCEPT !.drq = c, !.bsy = a, !.at = g, !.todo = h] \in Drive
  BY DEF Drive
<1>7. [d EXCEPT !.drq = c, !.cmd = f, !.todo = h] \in Drive
  BY DEF Drive
<1> QED
  BY <1>1, <1>2, <1>3, <1>4, <1>5, <1>6, <1>7

LEMMA Values ==
    /\ TRUE \in BOOLEAN /\ FALSE \in BOOLEAN
    /\ 0 \in 0 .. 1 /\ 1 \in 0 .. 1 /\ 0 \in 0 .. 2 /\ 1 \in 0 .. 2 /\ 2 \in 0 .. 2
    /\ 0 \in Nat
    /\ "none" \in {"none", "READ", "WRITE"}
    /\ Unknown \in Data \cup {Unknown}
  OBVIOUS

\* What the transfer loops make of the drive.
LEMMA FetchesNext ==
    ASSUME drive \in Drive, drive.todo = 2
    PROVE  /\ Fetched \in Drive
           /\ Fetched.cmd = drive.cmd /\ Fetched.at = drive.at + 1 /\ Fetched.todo = 1
           /\ ~Fetched.drq /\ Fetched.bsy /\ Fetched.held = drive.held
<1> DEFINE n == drive.at + 1
<1>1. n \in Nat
  BY DEF Drive
<1>2. Fetched = [drive EXCEPT !.drq = FALSE, !.bsy = TRUE, !.at = n, !.todo = 1]
  BY DEF Fetched
<1> HIDE DEF n
<1>3. Fetched \in Drive
  BY <1>1, <1>2, DriveEdits, Values
<1>4. /\ Fetched.cmd = drive.cmd /\ Fetched.at = n /\ Fetched.todo = 1
      /\ ~Fetched.drq /\ Fetched.bsy /\ Fetched.held = drive.held
  BY <1>2 DEF Drive
<1> QED
  BY <1>3, <1>4 DEF n

LEMMA FetchedLast ==
    ASSUME drive \in Drive, drive.todo = 1
    PROVE  /\ Fetched \in Drive
           /\ Fetched.cmd = "none" /\ Fetched.todo = 0 /\ ~Fetched.drq
           /\ Fetched.held = drive.held /\ Fetched.bsy = drive.bsy
<1>1. Fetched = [drive EXCEPT !.drq = FALSE, !.cmd = "none", !.todo = 0]
  BY DEF Fetched
<1>2. Fetched \in Drive
  BY <1>1, DriveEdits, Values
<1>3. /\ Fetched.cmd = "none" /\ Fetched.todo = 0 /\ ~Fetched.drq
      /\ Fetched.held = drive.held /\ Fetched.bsy = drive.bsy
  BY <1>1 DEF Drive
<1> QED
  BY <1>2, <1>3

LEMMA EnteredKeeps ==
    ASSUME Inv, \/ \E a \in 0 .. LastLBA - 1 : Read(a)
          \/ Boot \/ Select
    PROVE  Inv'
<1>1. TypeOK'
  BY DEF Read, Boot, Select, Enters, Inv, TypeOK, Drive, Half, LBAs, Entries, Reads
<1>2. Quiet'
  BY DEF Read, Boot, Select, Enters, Inv, Quiet
<1>3. Commanded'
  BY DEF Read, Boot, Select, Enters, Inv, Commanded
<1>4. OwnCommand'
  BY DEF Read, Boot, Select, Enters, Inv, OwnCommand, Waiting, Verb
<1>5. InStep'
  BY DEF Read, Boot, Select, Enters, Inv, InStep
<1>6. Owed'
  BY DEF Read, Boot, Select, Enters, Inv, Owed, Pending
<1>7. AnswerTrue'
  BY DEF Read, Boot, Select, Enters, Inv, AnswerTrue, Reads
<1> QED
  BY <1>1, <1>2, <1>3, <1>4, <1>5, <1>6, <1>7 DEF Inv

LEMMA WriteKeeps ==
    ASSUME Inv, \E a \in 0 .. LastLBA - 1, text \in [Half -> Data] : Write(a, text)
    PROVE  Inv'
<1>1. TypeOK'
  BY DEF Write, Enters, Inv, TypeOK, Drive, Half, LBAs, Entries, Reads
<1>2. Quiet'
  BY DEF Write, Enters, Inv, Quiet
<1>3. Commanded'
  BY DEF Write, Enters, Inv, Commanded
<1>4. OwnCommand'
  BY DEF Write, Enters, Inv, OwnCommand, Waiting, Verb
<1>5. InStep'
  BY DEF Write, Enters, Inv, InStep
<1>6. Owed'
  BY DEF Write, Enters, Inv, TypeOK, Drive, Commanded, Owed, Pending, LBAs
<1>7. AnswerTrue'
  BY DEF Write, Enters, Inv, AnswerTrue, Reads
<1> QED
  BY <1>1, <1>2, <1>3, <1>4, <1>5, <1>6, <1>7 DEF Inv

LEMMA IDE_READYKeeps ==
    ASSUME Inv, IDE_READY
    PROVE  Inv'
<1>1. TypeOK'
  <2>1. r0' \in 0 .. Polls
    <3>1. r0 \in 0 .. Polls /\ r0 > 0
      BY DEF IDE_READY, Inv, TypeOK, Quiet
    <3>2. r0' \in {r0, 0} \/ (r0 # 1 /\ r0' = r0 - 1)
      <4>1. CASE Polled
        <5>1. r0' = IF Polled THEN r0 ELSE 0
          BY <4>1 DEF IDE_READY
        <5>2. r0' = r0
          BY <4>1, <5>1, Zenon
        <5> QED
          BY <5>2
      <4>2. CASE ~Polled
        BY <4>2 DEF IDE_READY
      <4> QED
        BY <4>1, <4>2
    <3> QED
      BY <3>1, <3>2
  <2>2. pc' \in {"idle", "IDE_READY", "IDE_NOT_BUSY"} /\ answer' \in 0 .. 1
    BY DEF IDE_READY, Answers, Goes, Inv, TypeOK
  <2> QED
    BY <2>1, <2>2 DEF IDE_READY, Inv, TypeOK
<1>2. Quiet'
  BY DEF IDE_READY, Answers, Goes, Polled, Inv, TypeOK, Quiet
<1>3. Commanded'
  BY DEF IDE_READY, Answers, Goes, Polled, Inv, Commanded
<1>4. OwnCommand'
  BY DEF IDE_READY, Answers, Goes, Polled, Inv, OwnCommand, Waiting, Verb
<1>5. InStep'
  BY DEF IDE_READY, Answers, Goes, Polled, Inv, InStep
<1>6. Owed'
  BY DEF IDE_READY, Answers, Goes, Polled, Inv, Owed, Pending
<1>7. AnswerTrue'
  BY DEF IDE_READY, Answers, Goes, Polled, Inv, AnswerTrue, Reads
<1> QED
  BY <1>1, <1>2, <1>3, <1>4, <1>5, <1>6, <1>7 DEF Inv

LEMMA IDE_NOT_BUSYKeeps ==
    ASSUME Inv, IDE_NOT_BUSY
    PROVE  Inv'
<1>1. TypeOK'
  BY DEF IDE_NOT_BUSY, Goes, Inv, TypeOK
<1>2. Quiet'
  BY DEF IDE_NOT_BUSY, Goes, Inv, Quiet
<1>3. Commanded'
  BY DEF IDE_NOT_BUSY, Goes, Inv, Commanded
<1>4. OwnCommand'
  BY DEF IDE_NOT_BUSY, Goes, Inv, OwnCommand, Waiting, Verb
<1>5. InStep'
  BY DEF IDE_NOT_BUSY, Goes, Inv, InStep
<1>6. Owed'
  BY DEF IDE_NOT_BUSY, Goes, Inv, Owed, Pending
<1>7. AnswerTrue'
  BY DEF IDE_NOT_BUSY, Goes, Inv, AnswerTrue, Reads
<1> QED
  BY <1>1, <1>2, <1>3, <1>4, <1>5, <1>6, <1>7 DEF Inv

LEMMA IDE_WR_LBAKeeps ==
    ASSUME Inv, IDE_WR_LBA
    PROVE  Inv'
<1>1. TypeOK'
  BY DEF IDE_WR_LBA, Goes, Inv, TypeOK
<1>2. Quiet'
  BY DEF IDE_WR_LBA, Goes, Inv, Quiet
<1>3. Commanded'
  BY DEF IDE_WR_LBA, Goes, Inv, Commanded
<1>4. OwnCommand'
  BY DEF IDE_WR_LBA, Goes, Inv, OwnCommand, Waiting, Verb
<1>5. InStep'
  BY DEF IDE_WR_LBA, Goes, Inv, InStep
<1>6. Owed'
  BY DEF IDE_WR_LBA, Goes, Inv, Owed, Pending
<1>7. AnswerTrue'
  BY DEF IDE_WR_LBA, Goes, Inv, AnswerTrue, Reads
<1> QED
  BY <1>1, <1>2, <1>3, <1>4, <1>5, <1>6, <1>7 DEF Inv

LEMMA CommandKeeps ==
    ASSUME Inv, Command
    PROVE  Inv'
<1>1. TypeOK'
  <2>1. drive' \in Drive
    <3>0. drive \in Drive
      BY DEF Inv, TypeOK
    <3>1. ~drive.bsy /\ regs \in Nat /\ Verb \in {"READ", "WRITE"}
      BY DEF Command, Inv, TypeOK, Quiet, Verb
    <3>2. CASE drive.drdy
      BY <3>0, <3>1, <3>2, DriveEdits, Values DEF Command, Takes
    <3>3. CASE ~drive.drdy
      BY <3>0, <3>1, <3>3, DriveEdits, Values DEF Command, Takes
    <3> QED
      BY <3>2, <3>3
  <2> QED
    BY <2>1 DEF Command, Goes, Inv, TypeOK
<1>2. Quiet'
  BY DEF Command, Goes, Takes, Inv, Quiet
<1>3. Commanded'
  BY DEF Command, Goes, Takes, Verb, Inv, TypeOK, Drive, Quiet, Commanded,
     OwnCommand, InStep, Owed, Pending, AnswerTrue, Half, LBAs, Entries, Reads,
     Waiting
<1>4. OwnCommand'
  BY DEF Command, Goes, Takes, Inv, TypeOK, Drive, Quiet, OwnCommand, Commanded,
     Waiting, Verb
<1>5. InStep'
  <2>1. ~drive.bsy /\ drive.held = Unknown
    BY DEF Command, Inv, Quiet, Commanded, TypeOK, Drive
  <2>2. drive'.held = Unknown /\ (drive'.cmd # "none" => drive'.todo = 2)
    BY <2>1 DEF Command, Takes, Inv, TypeOK, Drive
  <2>3. half = 0 /\ missed = "no"
    BY DEF Command, Inv, Quiet
  <2> QED
    BY <2>2, <2>3 DEF Command, Goes, InStep
<1>6. Owed'
  BY DEF Command, Goes, Takes, Verb, Inv, TypeOK, Drive, Quiet, Commanded,
     OwnCommand, InStep, Owed, Pending, AnswerTrue, Half, LBAs, Entries, Reads,
     Waiting
<1>7. AnswerTrue'
  BY DEF Command, Goes, Takes, Inv, AnswerTrue, Reads
<1> QED
  BY <1>1, <1>2, <1>3, <1>4, <1>5, <1>6, <1>7 DEF Inv

\* The drive that a read loop finds at its first half is not at work.
LEMMA Found0 ==
    ASSUME Inv, pc = "IDE_READ_DATA", half = 0
    PROVE  Offers /\ ~drive.bsy
  BY DEF Inv, InStep, Commanded, Offers

LEMMA FoundKeeps ==
    ASSUME Inv, Found
    PROVE  Inv'
<1>1. TypeOK'
  BY DEF Found, Goes, Transfer, Inv, TypeOK
<1>2. Quiet'
  BY DEF Found, Goes, Transfer, Inv, Quiet
<1>3. Commanded'
  BY DEF Found, Goes, Transfer, Inv, Commanded
<1>4. OwnCommand'
  BY DEF Found, Goes, Transfer, Inv, OwnCommand, Waiting, Verb
<1>5. InStep'
  <2>1. /\ half' = half /\ drive' = drive /\ missed' = missed /\ op' = op
        /\ buffer' = buffer /\ want' = want /\ media' = media /\ lba' = lba
        /\ pc' = IF op = "WRITE" THEN "IDE_WRITE_DATA" ELSE "IDE_READ_DATA"
    BY DEF Found, Goes, Transfer
  <2>2. half = 0 /\ missed = "no" /\ drive.held = Unknown
        /\ (drive.cmd # "none" => drive.todo = 2)
    BY DEF Found, Inv, InStep
  <2>3. op # "WRITE" => Offers
    <3>1. drive.drq /\ pc = "IDE_WAIT_DRQ"
      BY DEF Found
    <3>2. drive.cmd # "none"
      BY <3>1 DEF Inv, Commanded
    <3> QED
      BY <2>2, <3>1, <3>2 DEF Inv, OwnCommand, Waiting, Verb, Offers
  <2>4. op # "WRITE" => Offers'
    BY <2>1, <2>3 DEF Offers
  <2> QED
    BY <2>1, <2>2, <2>4 DEF InStep
<1>6. Owed'
  BY DEF Found, Goes, Transfer, Inv, Owed, Pending
<1>7. AnswerTrue'
  BY DEF Found, Goes, Transfer, Inv, AnswerTrue, Reads
<1> QED
  BY <1>1, <1>2, <1>3, <1>4, <1>5, <1>6, <1>7 DEF Inv

LEMMA CountsKeeps ==
    ASSUME Inv, Counts
    PROVE  Inv'
<1>1. TypeOK'
  BY DEF Counts, Goes, Inv, TypeOK
<1>2. Quiet'
  BY DEF Counts, Goes, Inv, Quiet
<1>3. Commanded'
  BY DEF Counts, Goes, Inv, Commanded
<1>4. OwnCommand'
  BY DEF Counts, Goes, Inv, OwnCommand, Waiting, Verb
<1>5. InStep'
  BY DEF Counts, Goes, Inv, InStep
<1>6. Owed'
  BY DEF Counts, Goes, Inv, Owed, Pending
<1>7. AnswerTrue'
  BY DEF Counts, Goes, Inv, AnswerTrue, Reads
<1> QED
  BY <1>1, <1>2, <1>3, <1>4, <1>5, <1>6, <1>7 DEF Inv

LEMMA TimesOutKeeps ==
    ASSUME Inv, TimesOut
    PROVE  Inv'
<1>1. TypeOK'
  BY DEF TimesOut, Goes, Inv, TypeOK
<1>2. Quiet'
  BY DEF TimesOut, Goes, Inv, Quiet
<1>3. Commanded'
  BY DEF TimesOut, Goes, Inv, Commanded
<1>4. OwnCommand'
  BY DEF TimesOut, Goes, Inv, OwnCommand, Waiting, Verb
<1>5. InStep'
  BY DEF TimesOut, Goes, Inv, InStep
<1>6. Owed'
  BY DEF TimesOut, Goes, Inv, Owed, Pending
<1>7. AnswerTrue'
  BY DEF TimesOut, Goes, Inv, AnswerTrue, Reads
<1> QED
  BY <1>1, <1>2, <1>3, <1>4, <1>5, <1>6, <1>7 DEF Inv

LEMMA IDE_GET_ERRORKeeps ==
    ASSUME Inv, IDE_GET_ERROR
    PROVE  Inv'
<1>1. TypeOK'
  BY DEF IDE_GET_ERROR, Answers, Inv, TypeOK, Drive
<1>2. Quiet'
  BY DEF IDE_GET_ERROR, Answers, Inv, Quiet
<1>3. Commanded'
  BY DEF IDE_GET_ERROR, Answers, Inv, Commanded
<1>4. OwnCommand'
  BY DEF IDE_GET_ERROR, Answers, Inv, OwnCommand, Waiting, Verb
<1>5. InStep'
  BY DEF IDE_GET_ERROR, Answers, Inv, InStep
<1>6. Owed'
  BY DEF IDE_GET_ERROR, Answers, Inv, Owed, Pending
<1>7. AnswerTrue'
  BY DEF IDE_GET_ERROR, Answers, Inv, Quiet, AnswerTrue
<1> QED
  BY <1>1, <1>2, <1>3, <1>4, <1>5, <1>6, <1>7 DEF Inv

LEMMA IDE_READ_DATAKeeps ==
    ASSUME Inv, IDE_READ_DATA
    PROVE  Inv'
<1>1. TypeOK'
  <2>1. drive' \in Drive
    <3>1. drive \in Drive /\ (Offers => drive.todo \in 1 .. 2)
      BY DEF Inv, TypeOK, Drive, Commanded, Offers
    <3>2. drive' \in {drive, Fetched} /\ (~Offers => drive' = drive)
      BY DEF IDE_READ_DATA
    <3> QED
      BY <3>1, <3>2, FetchesNext, FetchedLast
  <2>2. buffer' \in [Half -> Data]
    <3>1. CASE Offers
      BY <3>1 DEF IDE_READ_DATA, Offers, Inv, TypeOK, Commanded, Drive, LBAs
    <3>2. CASE ~Offers
      BY <3>2 DEF IDE_READ_DATA, Inv, TypeOK
    <3> QED
      BY <3>1, <3>2
  <2>3. half' \in Half /\ answer' \in 0 .. 1 /\ pc' \in {"idle", "IDE_READ_DATA"}
    BY DEF IDE_READ_DATA, Moves, Answers, Inv, TypeOK, Half
  <2>4. missed' \in {missed, "data"}
    BY DEF IDE_READ_DATA
  <2> QED
    BY <2>1, <2>2, <2>3, <2>4 DEF IDE_READ_DATA, Inv, TypeOK
<1>2. Quiet'
  BY DEF IDE_READ_DATA, Moves, Answers, Offers, Fetched, Inv, Quiet
<1>3. Commanded'
  <2>1. CASE Offers /\ drive.todo = 1
    BY <2>1 DEF IDE_READ_DATA, Offers, Fetched, Inv, TypeOK, Drive, Commanded
  <2>2. CASE Offers /\ drive.todo = 2
    <3>1. drive \in Drive /\ drive.at + drive.todo <= LastLBA + 1 /\ drive.at \in Nat
      BY <2>2 DEF Inv, TypeOK, Commanded, Offers, Drive
    <3>2. drive' = Fetched /\ drive.cmd = "READ" /\ drive.drq
      BY <2>2 DEF IDE_READ_DATA, Offers
    <3>3. drive.held = Unknown
      BY <3>2 DEF Inv, Commanded
    <3> QED
      BY <2>2, <3>1, <3>2, <3>3, FetchesNext DEF Commanded
  <2>3. CASE ~Offers
    BY <2>3 DEF IDE_READ_DATA, Inv, Commanded
  <2> QED
    BY <2>1, <2>2, <2>3 DEF Inv, TypeOK, Drive, Commanded, Offers
<1>4. OwnCommand'
  <2>1. CASE Offers /\ drive.todo = 1
    BY <2>1 DEF IDE_READ_DATA, Fetched, Inv, TypeOK, Drive, OwnCommand
  <2>2. CASE Offers /\ drive.todo = 2
    <3>1. drive'.cmd = drive.cmd /\ drive'.at = drive.at + 1 /\ drive'.todo = 1
      BY <2>2, FetchesNext DEF IDE_READ_DATA, Inv, TypeOK
    <3>2. missed' = missed /\ op' = op /\ lba' = lba /\ drive.at \in Nat /\ lba \in Nat
      BY <2>2 DEF IDE_READ_DATA, Inv, TypeOK, Drive
    <3>3. drive.cmd # "none" /\ pc \in Waiting
      BY <2>2 DEF Offers, IDE_READ_DATA, Waiting
    <3>4. missed = "no" => drive.cmd = Verb /\ drive.at = lba + 2 - drive.todo
      BY <3>3 DEF Inv, OwnCommand
    <3> QED
      BY <2>2, <3>1, <3>2, <3>4 DEF OwnCommand, Verb
  <2>3. CASE ~Offers
    BY <2>3 DEF IDE_READ_DATA, OwnCommand
  <2> QED
    BY <2>1, <2>2, <2>3 DEF Inv, TypeOK, Drive, Commanded, Offers
<1>5. InStep'
  <2>1. CASE Offers
    <3>1. /\ drive \in Drive /\ drive.todo \in 1 .. 2 /\ drive.cmd = "READ"
          /\ drive.held = Unknown /\ drive.at \in LBAs /\ ~drive.bsy
      BY <2>1 DEF Inv, TypeOK, Commanded, Offers, Drive, LBAs
    <3>2. /\ drive' = Fetched /\ buffer' = [buffer EXCEPT ![half] = media[drive.at]]
          /\ missed' = missed /\ want' = want /\ lba' = lba /\ op' = op
      BY <2>1 DEF IDE_READ_DATA
    <3>3. missed = "no" => drive.todo = 2 - half /\ drive.at = lba + half
      BY <3>1 DEF IDE_READ_DATA, Inv, InStep, OwnCommand, Waiting, Half, TypeOK
    <3>4. CASE half = 0
      <4>1. half' = 1 /\ pc' = pc
        BY <3>4 DEF IDE_READ_DATA, Moves
      <4>2. missed = "no" => drive.todo = 2 /\ drive.at = lba
        BY <3>3, <3>4 DEF Inv, TypeOK
      <4>3. want[drive.at] \in {media[drive.at], Unknown}
        BY <3>1 DEF Inv, Owed, Pending
      <4>4. missed = "no" => want[lba] \in {buffer'[0], Unknown}
        BY <3>2, <3>4, <4>2, <4>3 DEF Inv, TypeOK, Half
      <4>5. missed = "no" => drive'.todo = 1
        BY <3>1, <3>2, <4>2, FetchesNext
      <4> QED
        BY <3>2, <4>1, <4>4, <4>5 DEF IDE_READ_DATA, InStep, Inv
    <3>5. CASE half # 0
      BY <3>2, <3>5 DEF IDE_READ_DATA, Moves, Answers, InStep, Inv
    <3> QED
      BY <3>4, <3>5
  <2>2. CASE ~Offers
    BY <2>2 DEF IDE_READ_DATA, Moves, Answers, Inv, InStep
  <2> QED
    BY <2>1, <2>2
<1>6. Owed'
  BY DEF IDE_READ_DATA, Moves, Answers, Offers, Fetched, Inv, TypeOK, Drive,
     Commanded, Owed, Pending
<1>7. AnswerTrue'
  BY DEF IDE_READ_DATA, Moves, Answers, Offers, Fetched, Inv, TypeOK, Drive,
     Quiet, Commanded, InStep, OwnCommand, Owed, Pending, AnswerTrue, Reads, Half,
     LBAs, Waiting, Verb
<1> QED
  BY <1>1, <1>2, <1>3, <1>4, <1>5, <1>6, <1>7 DEF Inv

LEMMA IDE_WRITE_DATAKeeps ==
    ASSUME Inv, IDE_WRITE_DATA
    PROVE  Inv'
<1>1. TypeOK'
  <2>1. half \in Half /\ buffer[half] \in Data /\ buffer[0] \in Data /\ buffer[1] \in Data
    BY DEF Inv, TypeOK, Half
  <2>2. drive' \in Drive
    <3>1. drive \in Drive
      BY DEF Inv, TypeOK
    <3> QED
      BY <2>1, <3>1 DEF IDE_WRITE_DATA, Drive
  <2>3. want' \in [LBAs -> Data \cup {Unknown}]
    BY <2>1 DEF IDE_WRITE_DATA, Inv, TypeOK, LBAs
  <2>4. half' \in Half /\ answer' \in 0 .. 1 /\ pc' \in {"idle", "IDE_WRITE_DATA"}
    BY DEF IDE_WRITE_DATA, Moves, Answers, Inv, TypeOK, Half
  <2>5. missed' \in {missed, "data"}
    BY DEF IDE_WRITE_DATA
  <2> QED
    BY <2>2, <2>3, <2>4, <2>5 DEF IDE_WRITE_DATA, Inv, TypeOK
<1>2. Quiet'
  BY DEF IDE_WRITE_DATA, Moves, Answers, Inv, Quiet
<1>3. Commanded'
  BY DEF IDE_WRITE_DATA, Moves, Answers, Inv, TypeOK, Drive, Commanded
<1>4. OwnCommand'
  BY DEF IDE_WRITE_DATA, Moves, Answers, Inv, TypeOK, Drive, OwnCommand, Waiting, Verb
<1>5. InStep'
  <2>1. CASE half = 0 /\ drive.drq /\ drive.cmd = "WRITE"
    <3>1. half' = 1 /\ pc' = pc /\ op' = op
      BY <2>1 DEF IDE_WRITE_DATA, Moves
    <3>2. /\ drive'.held = buffer[0] /\ drive'.todo = drive.todo /\ drive'.cmd = "WRITE"
          /\ missed' = missed /\ buffer' = buffer
      BY <2>1 DEF IDE_WRITE_DATA, Inv, TypeOK, Drive
    <3>3. drive.held = Unknown /\ buffer[0] # Unknown
      BY <2>1 DEF Inv, TypeOK, Half, Drive, Commanded
    <3>4. missed = "no" => drive.todo = 2
      BY <2>1, <3>3 DEF IDE_WRITE_DATA, Inv, InStep
    <3> QED
      BY <3>1, <3>2, <3>3, <3>4 DEF IDE_WRITE_DATA, Inv, InStep
  <2>2. CASE half = 0 /\ ~(drive.drq /\ drive.cmd = "WRITE")
    BY <2>2 DEF IDE_WRITE_DATA, Moves, Inv, InStep
  <2>3. CASE half # 0
    BY <2>3 DEF IDE_WRITE_DATA, Moves, Answers, Inv, InStep
  <2> QED
    BY <2>1, <2>2, <2>3
<1>6. Owed'
  <2>1. CASE ~(drive.drq /\ drive.cmd = "WRITE")
    BY <2>1 DEF IDE_WRITE_DATA, Moves, Answers, Inv, Owed, Pending
  <2>2. CASE drive.drq /\ drive.cmd = "WRITE"
    <3>1. /\ drive.held = Unknown /\ drive.todo \in 1 .. 2 /\ drive.at \in Nat /\ half \in 0 .. 1
          /\ lba \in LBAs /\ lba + 1 \in LBAs /\ lba # lba + 1
      BY <2>2 DEF Inv, TypeOK, Commanded, Drive, Half, LBAs
    <3>2. /\ drive'.held = buffer[half] /\ drive'.todo = drive.todo /\ drive'.cmd = "WRITE"
          /\ drive'.at = drive.at /\ media' = media /\ lba' = lba /\ op' = op
      BY <2>2 DEF IDE_WRITE_DATA, Inv, TypeOK, Drive
    <3>3. buffer[half] # Unknown
      BY DEF Inv, TypeOK, Half
    <3>4. CASE half = 1 /\ missed = "no"
      <4>1. drive.todo = 1 /\ drive.at = lba + 1 /\ media[lba] = buffer[0]
        BY <2>2, <3>1, <3>4 DEF IDE_WRITE_DATA, Inv, InStep, OwnCommand, Waiting
      <4>2. /\ want'[lba] = buffer[0] /\ want'[lba + 1] = buffer[1]
            /\ \A h \in LBAs : h \notin {lba, lba + 1} => want'[h] = want[h]
        BY <2>2, <3>1, <3>4 DEF IDE_WRITE_DATA, Inv, TypeOK
      <4>3. pc' = "idle"
        BY <3>4 DEF IDE_WRITE_DATA, Moves, Answers
      <4>4. \A h \in LBAs : want[h] \in {media[h], Unknown}
        BY <3>1 DEF Inv, Owed, Pending
      <4>5. Pending(lba + 1)'
        BY <3>2, <3>3, <3>4, <4>1, <4>2 DEF Pending
      <4>6. \A h \in LBAs : want'[h] \in {media'[h], Unknown} \/ Pending(h)'
        BY <3>2, <4>1, <4>2, <4>4, <4>5
      <4>7. \A h \in drive'.at .. drive'.at + drive'.todo - 1 : Pending(h)'
        BY <3>1, <3>2, <4>1, <4>5 DEF LBAs
      <4> QED
        BY <4>3, <4>6, <4>7 DEF Owed
    <3>5. CASE ~(half = 1 /\ missed = "no")
      <4>1. want' = want
        BY <2>2, <3>5 DEF IDE_WRITE_DATA
      <4>2. pc' # "idle" /\ op' = "WRITE" => pc # "idle" /\ op = "WRITE"
        BY <3>2 DEF IDE_WRITE_DATA
      <4> QED
        BY <2>2, <3>1, <3>2, <4>1, <4>2 DEF Inv, Owed, Pending
    <3> QED
      BY <3>4, <3>5
  <2> QED
    BY <2>1, <2>2
<1>7. AnswerTrue'
  BY DEF IDE_WRITE_DATA, Moves, Answers, Inv, TypeOK, Drive, InStep, AnswerTrue, Reads
<1> QED
  BY <1>1, <1>2, <1>3, <1>4, <1>5, <1>6, <1>7 DEF Inv

LEMMA SpinsUpKeeps ==
    ASSUME Inv, SpinsUp
    PROVE  Inv'
<1>1. TypeOK'
  BY DEF SpinsUp, Works, cpu, Inv, TypeOK, Drive
<1>2. Quiet'
  BY DEF SpinsUp, Works, cpu, Inv, Quiet
<1>3. Commanded'
  BY DEF SpinsUp, Works, cpu, Inv, Commanded
<1>4. OwnCommand'
  BY DEF SpinsUp, Works, cpu, Inv, OwnCommand, Waiting, Verb
<1>5. InStep'
  BY Found0 DEF SpinsUp, Works, cpu, Inv, InStep
<1>6. Owed'
  BY DEF SpinsUp, Works, cpu, Inv, Owed, Pending
<1>7. AnswerTrue'
  BY DEF SpinsUp, Works, cpu, Inv, AnswerTrue, Reads
<1> QED
  BY <1>1, <1>2, <1>3, <1>4, <1>5, <1>6, <1>7 DEF Inv

LEMMA ComesReadyKeeps ==
    ASSUME Inv, ComesReady
    PROVE  Inv'
<1>1. TypeOK'
  BY DEF ComesReady, cpu, Inv, TypeOK, Drive
<1>2. Quiet'
  BY DEF ComesReady, cpu, Inv, Quiet
<1>3. Commanded'
  BY DEF ComesReady, cpu, Inv, Commanded
<1>4. OwnCommand'
  BY DEF ComesReady, cpu, Inv, OwnCommand, Waiting, Verb
<1>5. InStep'
  <2>1. drive' = [drive EXCEPT !.drdy = TRUE] /\ drive \in Drive
    BY DEF ComesReady, Inv, TypeOK
  <2>2. /\ drive'.cmd = drive.cmd /\ drive'.drq = drive.drq /\ drive'.held = drive.held
        /\ drive'.todo = drive.todo
    BY <2>1 DEF Drive
  <2> QED
    BY <2>2 DEF ComesReady, cpu, Inv, InStep, Offers
<1>6. Owed'
  BY DEF ComesReady, cpu, Inv, Owed, Pending
<1>7. AnswerTrue'
  BY DEF ComesReady, cpu, Inv, AnswerTrue, Reads
<1> QED
  BY <1>1, <1>2, <1>3, <1>4, <1>5, <1>6, <1>7 DEF Inv

LEMMA AsksKeeps ==
    ASSUME Inv, Asks
    PROVE  Inv'
<1>1. TypeOK'
  BY DEF Asks, Works, cpu, Inv, TypeOK, Drive
<1>2. Quiet'
  BY DEF Asks, Works, cpu, Inv, Quiet
<1>3. Commanded'
  BY DEF Asks, Works, cpu, Inv, Commanded
<1>4. OwnCommand'
  BY DEF Asks, Works, cpu, Inv, OwnCommand, Waiting, Verb
<1>5. InStep'
  BY Found0 DEF Asks, Works, cpu, Inv, InStep
<1>6. Owed'
  BY DEF Asks, Works, cpu, Inv, Owed, Pending
<1>7. AnswerTrue'
  BY DEF Asks, Works, cpu, Inv, AnswerTrue, Reads
<1> QED
  BY <1>1, <1>2, <1>3, <1>4, <1>5, <1>6, <1>7 DEF Inv

LEMMA StoresKeeps ==
    ASSUME Inv, Stores
    PROVE  Inv'
<1>1. TypeOK'
  <2>1. drive.held \in Data /\ drive.cmd = "WRITE" /\ drive.todo \in 1 .. 2 /\ drive.at \in LBAs
    BY DEF Stores, Inv, TypeOK, Drive, Commanded, LBAs
  <2>2. media' \in [LBAs -> Data]
    BY <2>1 DEF Stores, Inv, TypeOK
  <2>3. drive' \in Drive
    <3>0. drive \in Drive /\ drive.at + 1 \in Nat
      BY <2>1 DEF Inv, TypeOK, LBAs
    <3>1. CASE drive.todo = 1
      BY <3>0, <3>1, DriveEdits, Values DEF Stores
    <3>2. CASE drive.todo = 2
      BY <3>0, <3>2, DriveEdits, Values DEF Stores
    <3> QED
      BY <2>1, <3>1, <3>2
  <2> QED
    BY <2>2, <2>3 DEF Stores, Works, cpu, Inv, TypeOK
<1>2. Quiet'
  BY DEF Stores, Works, cpu, Inv, Quiet
<1>3. Commanded'
  BY DEF Stores, Works, cpu, Inv, TypeOK, Drive, Commanded
<1>4. OwnCommand'
  BY DEF Stores, Works, cpu, Inv, TypeOK, Drive, Quiet, OwnCommand, Commanded,
     Waiting, Verb
<1>5. InStep'
  BY DEF Stores, Works, cpu, Inv, TypeOK, Drive, Quiet, Commanded, OwnCommand,
     InStep, Owed, Pending, AnswerTrue, Half, LBAs, Entries, Reads, Waiting, Verb
<1>6. Owed'
  <2>1. /\ drive.held \in Data /\ drive.cmd = "WRITE" /\ drive.todo \in 1 .. 2
        /\ drive.at \in LBAs /\ drive.at + drive.todo <= LastLBA + 1
    BY DEF Stores, Inv, TypeOK, Drive, Commanded, LBAs
  <2>2. /\ media' = [media EXCEPT ![drive.at] = drive.held]
        /\ want' = want /\ pc' = pc /\ op' = op /\ lba' = lba
        /\ drive'.held = Unknown
    BY DEF Stores, Works, cpu, Inv, TypeOK, Drive
  <2>3. ASSUME NEW h \in LBAs PROVE want[h] \in {media'[h], Unknown}
    <3>1. CASE h = drive.at
      <4>1. h \in drive.at .. drive.at + drive.todo - 1
        BY <2>1, <3>1 DEF LBAs
      <4>2. want[h] \in {drive.held, Unknown}
        BY <2>1, <4>1 DEF Inv, Owed, Pending
      <4> QED
        BY <2>1, <2>2, <3>1, <4>2 DEF Inv, TypeOK
    <3>2. CASE h # drive.at
      <4>1. want[h] \in {media[h], Unknown}
        BY <3>2 DEF Inv, Owed, Pending
      <4> QED
        BY <2>2, <3>2, <4>1 DEF Inv, TypeOK
    <3> QED
      BY <3>1, <3>2
  <2>4. drive'.cmd = "WRITE" =>
            \A h \in drive'.at .. drive'.at + drive'.todo - 1 : want[h] = Unknown
    <3>1. CASE drive.todo = 1
      BY <3>1 DEF Stores, Inv, TypeOK, Drive
    <3>2. CASE drive.todo = 2
      <4>1. drive'.at = drive.at + 1 /\ drive'.todo = 1
        BY <3>2 DEF Stores, Inv, TypeOK, Drive
      <4>2. want[drive.at + 1] = Unknown
        BY <2>1, <3>2 DEF Inv, Owed, Pending, LBAs
      <4> QED
        BY <2>1, <4>1, <4>2 DEF LBAs
    <3> QED
      BY <2>1, <3>1, <3>2
  <2> QED
    BY <2>2, <2>3, <2>4 DEF Owed, Inv
<1>7. AnswerTrue'
  BY DEF Stores, Works, cpu, Inv, AnswerTrue, Reads
<1> QED
  BY <1>1, <1>2, <1>3, <1>4, <1>5, <1>6, <1>7 DEF Inv

LEMMA FailsKeeps ==
    ASSUME Inv, Fails
    PROVE  Inv'
<1>1. TypeOK'
  <2>1. drive' \in Drive
    <3>1. drive \in Drive
      BY DEF Inv, TypeOK
    <3> QED
      BY <3>1, DriveEdits, Values DEF Fails
  <2>2. want' \in [LBAs -> Data \cup {Unknown}]
    BY DEF Fails, Inv, TypeOK, Drive
  <2> QED
    BY <2>1, <2>2 DEF Fails, Works, cpu, Inv, TypeOK
<1>2. Quiet'
  BY DEF Fails, Works, cpu, Inv, Quiet
<1>3. Commanded'
  BY DEF Fails, Works, cpu, Inv, Commanded
<1>4. OwnCommand'
  BY DEF Fails, Works, cpu, Inv, OwnCommand, Waiting, Verb
<1>5. InStep'
  <2>1. drive'.cmd = "none" /\ drive'.held = Unknown /\ drive.bsy
    BY DEF Fails, Works, Inv, TypeOK, Drive
  <2>2. /\ pc' = pc /\ op' = op /\ half' = half /\ missed' = missed /\ buffer' = buffer
        /\ lba' = lba /\ media' = media
    BY DEF Fails, Works, cpu
  <2>3. want'[lba] \in {want[lba], Unknown}
    BY DEF Fails, Inv, TypeOK, LBAs
  <2>4. ~(pc = "IDE_READ_DATA" /\ half = 0)
    BY <2>1, Found0
  <2>5. pc = "IDE_WRITE_DATA" /\ missed = "no" /\ half = 1 =>
            /\ drive'.todo # 2
            /\ drive'.todo # 1
    BY DEF Fails, Works, Inv, TypeOK, Drive
  <2> QED
    BY <2>1, <2>2, <2>3, <2>4, <2>5 DEF Inv, InStep
<1>6. Owed'
  BY DEF Fails, Works, cpu, Inv, TypeOK, Drive, Commanded, Owed, Pending, LBAs
<1>7. AnswerTrue'
  BY DEF Fails, Works, cpu, Inv, TypeOK, Drive, Quiet, Commanded, InStep,
     OwnCommand, Owed, Pending, AnswerTrue, Reads, Half, LBAs, Waiting, Verb
<1> QED
  BY <1>1, <1>2, <1>3, <1>4, <1>5, <1>6, <1>7 DEF Inv

LEMMA StutterKeeps ==
    ASSUME Inv, UNCHANGED vars
    PROVE  Inv'
  BY DEF vars, Inv, TypeOK, Quiet, Commanded, OwnCommand, Verb, InStep, Owed,
     Pending, AnswerTrue, Offers

LEMMA InitInv == Init => Inv
<1> SUFFICES ASSUME Init PROVE Inv
  OBVIOUS
<1>1. lba \in 0 .. LastLBA - 1 /\ regs \in 0 .. LastLBA - 1
  BY DEF Init
<1>2. drive \in Drive
  BY DEF Init, Drive
<1>3. want \in [LBAs -> Data \cup {Unknown}]
  BY DEF Init
<1>4. TypeOK
  BY <1>1, <1>2, <1>3 DEF Init, TypeOK, Half, Entries
<1>5. Quiet /\ Commanded /\ OwnCommand /\ InStep
  BY DEF Init, Quiet, Commanded, OwnCommand, InStep, Waiting
<1>6. Owed /\ AnswerTrue
  BY DEF Init, Owed, AnswerTrue, Reads
<1> QED
  BY <1>4, <1>5, <1>6 DEF Inv

LEMMA NextInv == Inv /\ [Next]_vars => Inv'
<1> SUFFICES ASSUME Inv, [Next]_vars PROVE Inv'
  OBVIOUS
<1>1. CASE Calls
  BY <1>1, EnteredKeeps, WriteKeeps DEF Calls
<1>2. CASE Processor
  BY <1>2, IDE_READYKeeps, IDE_NOT_BUSYKeeps, IDE_WR_LBAKeeps, CommandKeeps, FoundKeeps,
     CountsKeeps, TimesOutKeeps, IDE_GET_ERRORKeeps, IDE_READ_DATAKeeps, IDE_WRITE_DATAKeeps
     DEF Processor
<1>3. CASE Finishes \/ ComesReady
  BY <1>3, SpinsUpKeeps, ComesReadyKeeps, AsksKeeps, StoresKeeps, FailsKeeps DEF
     Finishes
<1>4. CASE UNCHANGED vars
  BY <1>4, StutterKeeps
<1> QED
  BY <1>1, <1>2, <1>3, <1>4 DEF Next

LEMMA Invariance == Spec => []Inv
<1>1. Init => Inv
  BY InitInv
<1>2. Inv /\ [Next]_vars => Inv'
  BY NextInv
<1> QED
  BY <1>1, <1>2, PTL DEF Spec

\* Every variable of the driver and the drive keeps its type, the poll counter
\* and the sector counts among them.
THEOREM TypeCorrect == Spec => []TypeOK
<1>1. Inv => TypeOK
  BY DEF Inv
<1> QED
  BY <1>1, Invariance, PTL

\* A read that answers zero and saw DRQ returns in its first half what was written
\* last to its sector, and in its second half what was written last to the next
\* one if the drive had it ready: on a drive of any size and after any history of
\* calls that gave up (READ_SECTOR, READ_DBR, MBOOT).
THEOREM ReadsAreTrue == Spec => []AnswerTrue
<1>1. Inv => AnswerTrue
  BY DEF Inv
<1> QED
  BY <1>1, Invariance, PTL

\* A drive at rest holds what was written to it last, whatever call was
\* abandoned before it (WRITE_SECTOR, WRITE_DBR).
THEOREM NothingIsMisplaced == Spec => []WritesLand
<1>1. Inv => WritesLand
  BY DEF Inv, Owed, Pending, Commanded, WritesLand
<1> QED
  BY <1>1, Invariance, PTL
=============================================================================
