-------------------------------- MODULE Disc --------------------------------
(***************************************************************************)
(* The disc driver of the MONITOR (src/Disc_Monitor/                       *)
(* DISC_MONITOR_V56F.A99): READ_SECTOR, READ_DBR, WRITE_SECTOR, WRITE_DBR, *)
(* MSELDSK and MBOOT, and the IDE drive they talk to.                      *)
(*                                                                         *)
(* A call moves 512 bytes, which the drive keeps as two sectors of 256     *)
(* bytes: the drive's data bus is 16 bits wide and the machine reads 8 of  *)
(* them.  A sector's contents are one member of Data.  The driver and the  *)
(* drive are two processes: the driver polls the status register and      *)
(* gives up after Polls looks (65535 in the code), the drive answers when  *)
(* it likes.  The drive is external: it is what the driver's comments and  *)
(* the ATA register protocol say of it.  It ignores register writes while  *)
(* it is busy, aborts a command it gets before it is ready, and drops an   *)
(* unfinished command when the next one arrives.                           *)
(***************************************************************************)
EXTENDS Integers

CONSTANTS
    Data,       \* contents of a sector
    Unknown,    \* none of them
    LastLBA,    \* the drive's last sector
    Polls       \* what SETO R0 counts down from

ASSUME DataAssumption == Data # {} /\ Unknown \notin Data
ASSUME LBAAssumption == LastLBA \in Nat \ {0}
ASSUME PollsAssumption == Polls \in Nat \ {0}

LBAs == 0 .. LastLBA
Half == 0 .. 1

VARIABLES
    pc,         \* the routine the processor is in, "idle" between calls
    op,         \* the entry called last
    lba,        \* R3, then R5
    buffer,     \* the two halves of the 512 bytes at R4
    r0,         \* the polls left of IDE_READY and IDE_WAIT_DRQ
    half,       \* how many sectors the transfer loop has moved
    answer,     \* what the last call left in R1: 0 is success
    regs,       \* the drive's LBA registers
    drive,      \* status bits and the command being performed
    media,      \* the sectors
    want,       \* history: what a reader is owed, Unknown after a failed write
    missed      \* history: what this call missed: "drq", its wait for DRQ ran out;
                \* "data", the drive was not ready for a half that was moved

cpu == <<pc, op, lba, buffer, r0, half, answer>>
vars == <<pc, op, lba, buffer, r0, half, answer, regs, drive, media, want, missed>>

Reads == {"READ", "BOOT"}
Entries == Reads \cup {"WRITE", "SELECT"}

Drive == [bsy : BOOLEAN, drdy : BOOLEAN, drq : BOOLEAN, error : 0 .. 1,
          cmd : {"none", "READ", "WRITE"}, at : Nat, todo : 0 .. 2,
          held : Data \cup {Unknown}]

TypeOK ==
    /\ pc \in {"idle", "IDE_READY", "IDE_NOT_BUSY", "IDE_WR_LBA", "command",
               "IDE_WAIT_DRQ", "IDE_READ_DATA", "IDE_WRITE_DATA", "IDE_GET_ERROR"}
    /\ op \in Entries
    /\ lba \in 0 .. LastLBA - 1
    /\ buffer \in [Half -> Data]
    /\ r0 \in 0 .. Polls
    /\ half \in Half
    /\ answer \in 0 .. 1
    /\ regs \in 0 .. LastLBA - 1
    /\ drive \in Drive
    /\ media \in [LBAs -> Data]
    /\ want \in [LBAs -> Data \cup {Unknown}]
    /\ missed \in {"no", "drq", "data"}

Init ==
    /\ pc = "idle" /\ op = "SELECT" /\ lba = 0 /\ r0 = 0 /\ half = 0 /\ answer = 0
    /\ buffer \in [Half -> Data]
    /\ regs = 0
    /\ drive = [bsy |-> TRUE, drdy |-> FALSE, drq |-> FALSE, error |-> 0,
                cmd |-> "none", at |-> 0, todo |-> 0, held |-> Unknown]
    /\ media \in [LBAs -> Data]
    /\ want = media
    /\ missed = "no"

-----------------------------------------------------------------------------
(***************************************************************************)
(* The entries.                                                            *)
(***************************************************************************)
Enters(entry, routine, a) ==
    /\ pc = "idle"
    /\ pc' = routine /\ op' = entry /\ lba' = a /\ missed' = "no" /\ half' = 0
    /\ r0' = Polls
    /\ UNCHANGED <<answer, regs, drive, media>>

\* READ_SECTOR, READ_DBR.
Read(a) == Enters("READ", "IDE_READY", a) /\ UNCHANGED <<buffer, want>>

\* MBOOT reads LBA 0.
Boot == Enters("BOOT", "IDE_READY", 0) /\ UNCHANGED <<buffer, want>>

\* MSELDSK.
Select == Enters("SELECT", "IDE_READY", lba) /\ UNCHANGED <<buffer, want>>

\* Mutated form: the call does not wait for the drive to be done.
WriteBug(a, text) ==
    /\ Enters("WRITE", "IDE_WR_LBA", a)
    /\ buffer' = text
    /\ want' = [h \in LBAs |-> IF h \in {a, a + 1} THEN Unknown ELSE want[h]]

\* WRITE_SECTOR, WRITE_DBR: no IDE_READY.  Until the call is over a reader is
\* owed neither the old text of its sectors nor the new one.
Write(a, text) ==
    /\ Enters("WRITE", "IDE_NOT_BUSY", a)
    /\ buffer' = text
    /\ want' = [h \in LBAs |-> IF h \in {a, a + 1} THEN Unknown ELSE want[h]]

Answers(code) == pc' = "idle" /\ answer' = code

-----------------------------------------------------------------------------
(***************************************************************************)
(* The driver's routines.                                                  *)
(***************************************************************************)
Goes(routine) == pc' = routine /\ UNCHANGED answer

Polled == drive.drdy /\ ~drive.bsy

\* The status is looked at before R0 is counted.  A read call does not look at
\* the answer: it goes on to IDE_NOT_BUSY after a timeout too.
IDE_READY ==
    /\ pc = "IDE_READY"
    /\ IF Polled \/ r0 = 1
       THEN /\ IF op = "SELECT" THEN Answers(IF Polled THEN 0 ELSE 1)
                                ELSE Goes("IDE_NOT_BUSY")
            /\ r0' = IF Polled THEN r0 ELSE 0
       ELSE r0' = r0 - 1 /\ Goes("IDE_READY")
    /\ UNCHANGED <<op, lba, buffer, half, regs, drive, media, want, missed>>

\* Mutated form: the loop gives up, as IDE_READY does.
IDE_NOT_BUSYBug ==
    /\ pc = "IDE_NOT_BUSY" /\ Goes("IDE_WR_LBA")
    /\ UNCHANGED <<op, lba, buffer, r0, half, regs, drive, media, want, missed>>

\* The loop has no timeout.
IDE_NOT_BUSY ==
    /\ pc = "IDE_NOT_BUSY" /\ ~drive.bsy /\ Goes("IDE_WR_LBA")
    /\ UNCHANGED <<op, lba, buffer, r0, half, regs, drive, media, want, missed>>

IDE_WR_LBA ==
    /\ pc = "IDE_WR_LBA" /\ Goes("command")
    /\ regs' = IF drive.bsy THEN regs ELSE lba
    /\ UNCHANGED <<op, lba, buffer, r0, half, drive, media, want, missed>>

Verb == IF op = "WRITE" THEN "WRITE" ELSE "READ"

\* What the drive makes of a command: an unfinished command is dropped.
Takes(verb) ==
    IF drive.bsy THEN drive
    ELSE IF drive.drdy
    THEN [drive EXCEPT !.bsy = TRUE, !.drq = FALSE, !.error = 0, !.cmd = verb,
                       !.at = regs, !.todo = 2, !.held = Unknown]
    ELSE [drive EXCEPT !.error = 1, !.drq = FALSE, !.cmd = "none", !.todo = 0]

\* LDCR of the command; SETO R0 of IDE_WAIT_DRQ.
Command ==
    /\ pc = "command" /\ Goes("IDE_WAIT_DRQ")
    /\ drive' = Takes(Verb)
    /\ r0' = Polls
    /\ UNCHANGED <<op, lba, buffer, half, regs, media, want, missed>>

Transfer == IF op = "WRITE" THEN "IDE_WRITE_DATA" ELSE "IDE_READ_DATA"

Found ==
    /\ pc = "IDE_WAIT_DRQ" /\ r0 > 1 /\ drive.drq
    /\ Goes(Transfer)
    /\ r0' = r0 - 1
    /\ UNCHANGED <<op, lba, buffer, half, regs, drive, media, want, missed>>

\* Mutated form: R0 is not counted.
CountsBug ==
    /\ pc = "IDE_WAIT_DRQ" /\ r0 > 1 /\ ~drive.drq
    /\ Goes("IDE_WAIT_DRQ") /\ UNCHANGED r0
    /\ UNCHANGED <<op, lba, buffer, half, regs, drive, media, want, missed>>

Counts ==
    /\ pc = "IDE_WAIT_DRQ" /\ r0 > 1 /\ ~drive.drq
    /\ Goes("IDE_WAIT_DRQ") /\ r0' = r0 - 1
    /\ UNCHANGED <<op, lba, buffer, half, regs, drive, media, want, missed>>

\* A read call goes to IDE_GET_ERROR, a write call on with its transfer.
TimesOut ==
    /\ pc = "IDE_WAIT_DRQ" /\ r0 = 1
    /\ Goes(IF op = "WRITE" THEN "IDE_WRITE_DATA" ELSE "IDE_GET_ERROR")
    /\ r0' = 0 /\ missed' = "drq"
    /\ UNCHANGED <<op, lba, buffer, half, regs, drive, media, want>>

\* The error code is the answer, zero as it may be: nothing makes it 255.  A
\* busy drive shows its status, which is not zero, in every register.
IDE_GET_ERROR ==
    /\ pc = "IDE_GET_ERROR" /\ Answers(IF drive.bsy THEN 1 ELSE drive.error)
    /\ UNCHANGED <<op, lba, buffer, r0, half, regs, drive, media, want, missed>>

-----------------------------------------------------------------------------
(***************************************************************************)
(* The transfer loops: 512 bytes without another look at the status, here  *)
(* one step for each sector.                                               *)
(***************************************************************************)
Offers == drive.drq /\ drive.cmd = "READ"

\* A sector has been read: the drive fetches the next one, or is done.
Fetched == IF drive.todo = 1
           THEN [drive EXCEPT !.drq = FALSE, !.cmd = "none", !.todo = 0]
           ELSE [drive EXCEPT !.drq = FALSE, !.bsy = TRUE, !.at = @ + 1, !.todo = 1]

Moves ==
    IF half = 0 THEN half' = 1 /\ UNCHANGED <<pc, answer>>
                ELSE half' = 0 /\ Answers(0)

\* A drive that has no data yields whatever is on the bus.
IDE_READ_DATA ==
    /\ pc = "IDE_READ_DATA" /\ Moves
    /\ IF Offers
       THEN /\ buffer' = [buffer EXCEPT ![half] = media[drive.at]]
            /\ drive' = Fetched /\ UNCHANGED missed
       ELSE /\ missed' = "data" /\ UNCHANGED drive
            /\ \E noise \in Data : buffer' = [buffer EXCEPT ![half] = noise]
    /\ UNCHANGED <<op, lba, r0, regs, media, want>>

\* A drive that asks for no data ignores it.  The answer is zero either way.
IDE_WRITE_DATA ==
    /\ pc = "IDE_WRITE_DATA" /\ Moves
    /\ IF drive.drq /\ drive.cmd = "WRITE"
       THEN /\ drive' = [drive EXCEPT !.drq = FALSE, !.bsy = TRUE, !.held = buffer[half]]
            /\ UNCHANGED missed
            /\ want' = IF half = 1 /\ missed = "no"
                       THEN [want EXCEPT ![lba] = buffer[0], ![lba + 1] = buffer[1]]
                       ELSE want
       ELSE missed' = "data" /\ UNCHANGED <<drive, want>>
    /\ UNCHANGED <<op, lba, buffer, r0, regs, media>>

-----------------------------------------------------------------------------
(***************************************************************************)
(* The drive (external).                                                   *)
(***************************************************************************)
Works == drive.bsy /\ UNCHANGED <<cpu, regs, missed>>

SpinsUp ==
    /\ Works /\ drive.cmd = "none"
    /\ \E ready \in BOOLEAN : drive' = [drive EXCEPT !.bsy = FALSE, !.drdy = ready]
    /\ UNCHANGED <<media, want>>

ComesReady ==
    /\ ~drive.bsy /\ ~drive.drdy
    /\ drive' = [drive EXCEPT !.drdy = TRUE]
    /\ UNCHANGED <<cpu, regs, missed, media, want>>

\* The drive has a sector to give, or room for one.
Asks ==
    /\ Works /\ drive.cmd # "none" /\ drive.held = Unknown
    /\ drive' = [drive EXCEPT !.bsy = FALSE, !.drq = TRUE]
    /\ UNCHANGED <<media, want>>

Stores ==
    /\ Works /\ drive.held # Unknown
    /\ media' = [media EXCEPT ![drive.at] = drive.held]
    /\ drive' = IF drive.todo = 1
                THEN [drive EXCEPT !.bsy = FALSE, !.cmd = "none", !.todo = 0, !.held = Unknown]
                ELSE [drive EXCEPT !.bsy = FALSE, !.drq = TRUE, !.at = @ + 1, !.todo = 1,
                                   !.held = Unknown]
    /\ UNCHANGED want

\* A sector that cannot be read or written.  Nobody asks about a write that
\* fails after its data was handed over.
Fails ==
    /\ Works /\ drive.cmd # "none"
    /\ drive' = [drive EXCEPT !.bsy = FALSE, !.drq = FALSE, !.error = 1, !.cmd = "none",
                              !.todo = 0, !.held = Unknown]
    /\ want' = [h \in LBAs |->
                   IF drive.cmd = "WRITE" /\ h \in drive.at .. drive.at + drive.todo - 1
                   THEN Unknown ELSE want[h]]
    /\ UNCHANGED media

Processor ==
    \/ IDE_READY \/ IDE_NOT_BUSY \/ IDE_WR_LBA \/ Command \/ Found \/ Counts
    \/ TimesOut \/ IDE_GET_ERROR \/ IDE_READ_DATA \/ IDE_WRITE_DATA

Calls ==
    \/ \E a \in 0 .. LastLBA - 1 : Read(a)
    \/ \E a \in 0 .. LastLBA - 1, text \in [Half -> Data] : Write(a, text)
    \/ Boot \/ Select

Finishes == SpinsUp \/ Asks \/ Stores \/ Fails

Next == Calls \/ Processor \/ Finishes \/ ComesReady

Spec == Init /\ [][Next]_vars

\* The processor runs, and a busy drive comes to an end of what it is doing.
FairSpec == Spec /\ WF_vars(Processor) /\ WF_vars(Finishes)
-----------------------------------------------------------------------------
(***************************************************************************)
(* What makes the driver correct.                                          *)
(***************************************************************************)

\* A read or a boot that answers zero and saw DRQ has in the first half of its
\* buffer what was written last to the sector it names, and in the second half
\* what was written last to the next one if the drive had that sector ready when
\* the loop came to it: however many earlier calls ran out of polls and left the
\* drive at work on another sector (READ_SECTOR, IDE_NOT_BUSY, IDE_WR_LBA).  The
\* answer tells neither exception: a call whose wait for DRQ ran out moves
\* nothing and answers zero if the error register is zero, and the loop moves the
\* second half without another look at the status.
AnswerTrue ==
    pc = "idle" /\ op \in Reads /\ answer = 0 =>
        /\ missed # "drq" => want[lba] \in {buffer[0], Unknown}
        /\ missed = "no" => want[lba + 1] \in {buffer[1], Unknown}

\* Whenever the drive is at rest every sector holds what was written to it
\* last, save the sectors of writes that went wrong: a write reaches no other
\* sector and no write that was answered is lost while the next call begins
\* (WRITE_SECTOR, IDE_NOT_BUSY before IDE_WR_LBA).
WritesLand ==
    ~drive.bsy => \A h \in LBAs : want[h] \in {media[h], Unknown}

\* Every call comes back to its caller, also from a drive that is never ready,
\* fails or has lost the command (IDE_READY, IDE_WAIT_DRQ).
CallReturns == pc # "idle" ~> pc = "idle"
=============================================================================
