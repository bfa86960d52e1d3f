------------------------------ MODULE RxQueue -------------------------------
(***************************************************************************)
(* FileEdit's interrupt-driven console input (CONRX.A99): the receive side *)
(* of the TMS9902, the hook on interrupt level 4, the 64-byte ring filled  *)
(* by the handler and drained by rxwait, and the MONITOR's own level-4     *)
(* handler, to which the hook always chains.                               *)
(*                                                                         *)
(* One processor runs the main program (mpc) and the handler (ipc): the    *)
(* handler may run between any two instructions of the program that touch  *)
(* shared state, never the other way round, while the serial chip and its  *)
(* timer change at any moment.  A write to CRU bit 18 also clears the      *)
(* chip's "receive buffer full" flag, which is how the MONITOR's READ and  *)
(* the hook acknowledge a byte.                                            *)
(***************************************************************************)
EXTENDS Naturals, Sequences

CONSTANTS Byte,       \* bytes the line can carry
          Zero,       \* the byte the buffer and rxchar start with
          N,          \* ring slots: 64 in the code (RXMASK + 1)
          WordMod,    \* machine words wrap modulo this: 65536 in the code
          NoByte,     \* no byte: the abstract queue's "nothing latched"
          Timeouts    \* values the MONITOR's TIMEOUT word may start with

ASSUME ConstAssumption ==
    /\ Zero \in Byte
    /\ NoByte \notin Byte
    /\ N \in Nat \ {0, 1}
    /\ WordMod \in Nat \ {0, 1}
    /\ Timeouts \subseteq 0 .. WordMod - 1 /\ Timeouts # {}

VARIABLES
    rbr, rbrl, rie,       \* receive buffer, its full flag, interrupt enable
    fresh,                \* history: nobody has read the byte in rbr or given it up
    timelp, timenb,       \* timer elapsed, timer interrupt enable
    TIMEOUT,              \* the MONITOR's count of timer interrupts
    vec,                  \* owner of the level-4 vector word
    admitted,             \* does the interrupt mask admit level 4?
    callerAdmitted,       \* ... and did it when FileEdit was started?
    RXACT, RXHEAD, RXTAIL, RXOVFL, rxchar, RXBUF, OLDPC, OLDST,
    mpc, r0,              \* main program: place in CONRX, register R0
    ipc, r1               \* handler: place, and register R1 (the byte)

uartVars   == <<rbr, rbrl, rie, fresh>>
timerVars  == <<timelp, timenb, TIMEOUT>>
hookVars   == <<vec, OLDPC, OLDST, RXACT>>
maskVars   == <<admitted, callerAdmitted>>
queueVars  == <<RXHEAD, RXTAIL, RXOVFL, RXBUF>>
mainVars   == <<mpc, r0, rxchar>>
isrVars    == <<ipc, r1>>
rxVars == <<uartVars, timerVars, hookVars, maskVars, queueVars, mainVars, isrVars>>

\* The index after i in the ring: INC, then ANDI with RXMASK.
Succ(i) == (i + 1) % N

-----------------------------------------------------------------------------
(* The outside: the serial line and the timer.                             *)

\* A character is assembled into the receive buffer.  One that was still
\* there is lost: the chip's overrun, which the code does not look at.
Arrive ==
    /\ rbr' \in Byte
    /\ rbrl' = TRUE /\ fresh' = TRUE
    /\ UNCHANGED <<rie, timerVars, hookVars, maskVars, queueVars, mainVars, isrVars>>

\* The interval timer runs on whether or not its interrupt is enabled.
TimerElapse ==
    /\ timelp' = TRUE
    /\ UNCHANGED <<timenb, TIMEOUT, uartVars, hookVars, maskVars, queueVars, mainVars, isrVars>>

-----------------------------------------------------------------------------
(* The main program.  Each of its steps needs the processor.               *)

MainAt(p) == ipc = "off" /\ mpc = p

\* Mutated form: the RXACT test at the top of rxinit is missing.
InitCallBug ==
    /\ MainAt("idle")
    /\ OLDST' = admitted
    /\ admitted' = FALSE
    /\ mpc' = "hook"

\* rxinit: return at once when active; save the status word, then LIMI 0.
InitCall ==
    /\ MainAt("idle")
    /\ ~RXACT
    /\ OLDST' = admitted
    /\ admitted' = FALSE
    /\ mpc' = "hook"

RxInitEnter ==
    /\ InitCall
    /\ UNCHANGED <<vec, OLDPC, RXACT, callerAdmitted, r0, rxchar, uartVars, timerVars, queueVars, isrVars>>

\* Save the old vector, clear the queue, install the hook.
RxInitHook ==
    /\ MainAt("hook")
    /\ OLDPC' = vec
    /\ vec' = "RXISR"
    /\ RXHEAD' = 0 /\ RXTAIL' = 0 /\ RXOVFL' = 0
    /\ rxchar' = Zero
    /\ mpc' = "enable"
    /\ UNCHANGED <<OLDST, RXACT, RXBUF, r0, uartVars, timerVars, maskVars, isrVars>>

\* Read and discard a stale byte, then SBO 18, which also acknowledges it.
RxInitEnable ==
    /\ MainAt("enable")
    /\ rie' = TRUE
    /\ rbrl' = FALSE /\ fresh' = FALSE
    /\ RXACT' = TRUE
    /\ mpc' = "limi7"
    /\ UNCHANGED <<rbr, vec, OLDPC, OLDST, r0, rxchar, timerVars, maskVars, queueVars, isrVars>>

RxInitDone ==
    /\ MainAt("limi7")
    /\ admitted' = TRUE
    /\ mpc' = "idle"
    /\ UNCHANGED <<callerAdmitted, r0, rxchar, uartVars, timerVars, hookVars, queueVars, isrVars>>

\* rxwait, called while the hook is active: RXTAIL into R0 ...
RxWaitLoad ==
    /\ \/ MainAt("idle") /\ RXACT
       \/ MainAt("poll")
    /\ r0' = RXTAIL
    /\ mpc' = "compare"
    /\ UNCHANGED <<rxchar, uartVars, timerVars, hookVars, maskVars, queueVars, isrVars>>

\* The test the busy wait ends on: the copied tail index against RXHEAD.
Empty == r0 = RXHEAD

RxWaitCompare ==
    /\ MainAt("compare")
    /\ mpc' = IF Empty THEN "poll" ELSE "fetch"
    /\ UNCHANGED <<r0, rxchar, uartVars, timerVars, hookVars, maskVars, queueVars, isrVars>>

RxWaitFetch ==
    /\ MainAt("fetch")
    /\ rxchar' = RXBUF[r0]
    /\ mpc' = "advance"
    /\ UNCHANGED <<r0, uartVars, timerVars, hookVars, maskVars, queueVars, isrVars>>

RxWaitAdvance ==
    /\ MainAt("advance")
    /\ RXTAIL' = Succ(r0)
    /\ mpc' = "idle"
    /\ UNCHANGED <<RXHEAD, RXOVFL, RXBUF, r0, rxchar, uartVars, timerVars, hookVars, maskVars, isrVars>>

\* rxfini: return at once when not active; LIMI 0.
RxFiniMask ==
    /\ MainAt("idle")
    /\ RXACT
    /\ admitted' = FALSE
    /\ mpc' = "disable"
    /\ UNCHANGED <<callerAdmitted, r0, rxchar, uartVars, timerVars, hookVars, queueVars, isrVars>>

\* Mutated form: receive interrupts are left enabled (SBO for SBZ).
DisableRxBug == rie' = TRUE /\ rbrl' = FALSE

\* SBZ 18.
DisableRx == rie' = FALSE /\ rbrl' = FALSE

\* A byte that was waiting is given up.
RxFiniDisable ==
    /\ MainAt("disable")
    /\ DisableRx /\ fresh' = FALSE
    /\ mpc' = "restore"
    /\ UNCHANGED <<rbr, r0, rxchar, timerVars, hookVars, maskVars, queueVars, isrVars>>

RxFiniRestore ==
    /\ MainAt("restore")
    /\ vec' = OLDPC
    /\ RXACT' = FALSE
    /\ mpc' = "status"
    /\ UNCHANGED <<OLDPC, OLDST, r0, rxchar, uartVars, timerVars, maskVars, queueVars, isrVars>>

\* LST: the caller's status word, interrupt mask included.
RxFiniStatus ==
    /\ MainAt("status")
    /\ admitted' = OLDST
    /\ mpc' = "idle"
    /\ UNCHANGED <<callerAdmitted, r0, rxchar, uartVars, timerVars, hookVars, queueVars, isrVars>>

Main ==
    \/ RxInitEnter \/ RxInitHook \/ RxInitEnable \/ RxInitDone
    \/ RxWaitLoad \/ RxWaitCompare \/ RxWaitFetch \/ RxWaitAdvance
    \/ RxFiniMask \/ RxFiniDisable \/ RxFiniRestore \/ RxFiniStatus

-----------------------------------------------------------------------------
(* The level-4 handler.  It runs to its RTWP before the program resumes.   *)

IsrAt(p) == ipc = p

Int4Asserted == (rbrl /\ rie) \/ (timelp /\ timenb)

\* The address a vector word or OLDPC sends the handler to.
EntryOf(owner) == IF owner = "RXISR" THEN "test" ELSE "timer"

Interrupt ==
    /\ IsrAt("off")
    /\ admitted
    /\ Int4Asserted
    /\ ipc' = EntryOf(vec)
    /\ UNCHANGED <<r1, uartVars, timerVars, hookVars, maskVars, queueVars, mainVars>>

\* TB 21.
IsrTest ==
    /\ IsrAt("test")
    /\ ipc' = IF rbrl THEN "ack" ELSE "chain"
    /\ UNCHANGED <<r1, uartVars, timerVars, hookVars, maskVars, queueVars, mainVars>>

\* SBZ 18: inhibit and acknowledge.
IsrAck ==
    /\ IsrAt("ack")
    /\ rie' = FALSE
    /\ rbrl' = FALSE
    /\ ipc' = "read"
    /\ UNCHANGED <<rbr, fresh, r1, timerVars, hookVars, maskVars, queueVars, mainVars>>

\* STCR: the byte into R1, the last to arrive up to here.
IsrRead ==
    /\ IsrAt("read")
    /\ r1' = rbr /\ fresh' = FALSE
    /\ ipc' = "arm"
    /\ UNCHANGED <<rbr, rbrl, rie, timerVars, hookVars, maskVars, queueVars, mainVars>>

\* Mutated form: the receive interrupt is not re-armed.
RearmRxBug == UNCHANGED <<rie, rbrl>>

\* SBO 18: re-arm, which acknowledges a byte that came in meanwhile: it does not
\* assert INT4 again, though CONRX.A99:137 says that it will.
RearmRx == rie' = TRUE /\ rbrl' = FALSE

\* ... so that one that came in after the STCR is given up.
IsrArm ==
    /\ IsrAt("arm")
    /\ RearmRx /\ fresh' = FALSE
    /\ ipc' = "store"
    /\ UNCHANGED <<rbr, r1, timerVars, hookVars, maskVars, queueVars, mainVars>>

\* Mutated form: the head is compared before it is advanced.
FullBug == RXHEAD = RXTAIL /\ RXOVFL # 0

\* The ring is full when the next head would meet the tail.
Full == Succ(RXHEAD) = RXTAIL

\* Queue the byte, or count it when the ring is full.
IsrStore ==
    /\ IsrAt("store")
    /\ \/ /\ ~Full
          /\ RXBUF' = [RXBUF EXCEPT ![RXHEAD] = r1]
          /\ RXHEAD' = Succ(RXHEAD)
          /\ UNCHANGED RXOVFL
       \/ /\ Full
          /\ RXOVFL' = (RXOVFL + 1) % WordMod
          /\ UNCHANGED <<RXBUF, RXHEAD>>
    /\ ipc' = "chain"
    /\ UNCHANGED <<RXTAIL, r1, uartVars, timerVars, hookVars, maskVars, mainVars>>

\* Mutated form: the hook returns with its own RTWP after a byte.
ChainTargetBug == "off"

\* B *OLDPC, always.
ChainTarget == EntryOf(OLDPC)

IsrChain ==
    /\ IsrAt("chain")
    /\ ipc' = ChainTarget
    /\ UNCHANGED <<r1, uartVars, timerVars, hookVars, maskVars, queueVars, mainVars>>

\* The MONITOR's INTTIMER: acknowledge an elapsed timer (SBO 20, which also
\* enables its interrupt) and count TIMEOUT down; at zero put it back to one
\* and disable the interrupt.  Then RTWP.
IntTimer ==
    /\ IsrAt("timer")
    /\ IF timelp
       THEN LET left == (TIMEOUT + WordMod - 1) % WordMod
            IN  /\ timelp' = FALSE
                /\ timenb' = (left # 0)
                /\ TIMEOUT' = IF left = 0 THEN 1 ELSE left
       ELSE UNCHANGED timerVars
    /\ ipc' = "off"
    /\ UNCHANGED <<r1, uartVars, hookVars, maskVars, queueVars, mainVars>>

Isr == IsrTest \/ IsrAck \/ IsrRead \/ IsrArm \/ IsrStore \/ IsrChain \/ IntTimer

-----------------------------------------------------------------------------
\* The MONITOR owns the vector; receive interrupts are off.  It normally runs
\* with LIMI 7, but the caller's mask is whatever it is.
RxInit ==
    /\ rbr \in Byte /\ rbrl \in BOOLEAN /\ rie = FALSE /\ fresh = rbrl
    /\ timelp \in BOOLEAN /\ timenb \in BOOLEAN /\ TIMEOUT \in Timeouts
    /\ vec = "MONITOR" /\ OLDPC = "NONE" /\ OLDST = FALSE /\ RXACT = FALSE
    /\ admitted \in BOOLEAN /\ callerAdmitted = admitted
    /\ RXHEAD = 0 /\ RXTAIL = 0 /\ RXOVFL = 0
    /\ RXBUF = [i \in 0 .. N - 1 |-> Zero] /\ rxchar = Zero
    /\ mpc = "idle" /\ r0 = 0
    /\ ipc = "off" /\ r1 = Zero

RxNext == Arrive \/ TimerElapse \/ Main \/ Interrupt \/ Isr

\* The processor keeps executing, and takes a pending interrupt that it admits at
\* the end of an instruction.  A character
\* takes far longer to arrive than the handler takes to run, so the program's
\* instructions get their turn however often the handler runs (strong fairness);
\* which routine is called next is the user's choice and carries no obligation.
Fairness ==
    /\ SF_rxVars(Interrupt) /\ WF_rxVars(Isr)
    /\ SF_rxVars(mpc # "idle" /\ Main)

RxSpec == RxInit /\ [][RxNext]_rxVars

FairSpec == RxSpec /\ Fairness

-----------------------------------------------------------------------------
(* Properties.                                                             *)

RxTypeOK ==
    /\ rbr \in Byte /\ rbrl \in BOOLEAN /\ rie \in BOOLEAN /\ fresh \in BOOLEAN
    /\ timelp \in BOOLEAN /\ timenb \in BOOLEAN /\ TIMEOUT \in 0 .. WordMod - 1
    /\ vec \in {"MONITOR", "RXISR"} /\ OLDPC \in {"MONITOR", "RXISR", "NONE"}
    /\ admitted \in BOOLEAN /\ callerAdmitted \in BOOLEAN
    /\ OLDST \in BOOLEAN /\ RXACT \in BOOLEAN
    /\ RXHEAD \in 0 .. N - 1 /\ RXTAIL \in 0 .. N - 1 /\ r0 \in 0 .. N - 1
    /\ RXOVFL \in 0 .. WordMod - 1
    /\ RXBUF \in [0 .. N - 1 -> Byte] /\ rxchar \in Byte /\ r1 \in Byte
    /\ mpc \in {"idle", "hook", "enable", "limi7", "poll", "compare", "fetch",
              "advance", "disable", "restore", "status"}
    /\ ipc \in {"off", "test", "ack", "read", "arm", "store", "chain", "timer"}

\* Whenever level 4 is admitted and the chip may interrupt for a byte, the vector
\* leads to the hook.  The MONITOR's handler never acknowledges bit 18: a byte it
\* were called for would interrupt again for ever.  rxinit and rxfini must do
\* their steps in an order that never opens this window, with any byte arriving.
NoOrphanRxInterrupt == (rie /\ admitted) => vec = "RXISR"

\* The hook never chains to itself, which would be a handler that never returns:
\* OLDPC is the MONITOR's handler whenever the vector leads to the hook.
ChainsToMonitor == vec = "RXISR" => OLDPC = "MONITOR"

\* After rxfini (and before rxinit) the machine is as FileEdit found it: the
\* MONITOR's vector, receive interrupts off, the caller's interrupt mask.
Restored ==
    (~RXACT /\ mpc = "idle") =>
        /\ vec = "MONITOR"
        /\ ~rie
        /\ admitted = callerAdmitted

\* The inductive invariant behind the three invariants above, and behind the
\* refinement below: which of the two vector owners, masks and enables each place
\* of the program implies, and what the handler may not do to a reader.
Hooked == vec = "RXISR" /\ OLDPC = "MONITOR" /\ OLDST = callerAdmitted

Unhooked == vec = "MONITOR" /\ ~rie

HookInv ==
    /\ mpc \in {"idle", "poll", "compare", "fetch", "advance"} =>
          \/ RXACT /\ Hooked /\ admitted
          \/ ~RXACT /\ Unhooked /\ admitted = callerAdmitted /\ mpc = "idle"
    /\ mpc \in {"hook", "enable", "limi7", "disable", "restore", "status"} => ~admitted
    /\ mpc = "hook" => ~RXACT /\ Unhooked /\ OLDST = callerAdmitted
    /\ mpc = "enable" => ~RXACT /\ Hooked /\ ~rie
    /\ mpc \in {"limi7", "disable"} => RXACT /\ Hooked
    /\ mpc = "restore" => RXACT /\ Hooked /\ ~rie
    /\ mpc = "status" => ~RXACT /\ Unhooked /\ OLDST = callerAdmitted

HandlerInv ==
    /\ ipc # "off" => admitted
    /\ ipc \in {"test", "ack", "read", "arm", "store", "chain"} => vec = "RXISR"

ReaderInv ==
    /\ mpc \in {"compare", "fetch", "advance"} => r0 = RXTAIL
    /\ mpc \in {"fetch", "advance"} => RXHEAD # RXTAIL
    /\ mpc = "advance" => rxchar = RXBUF[RXTAIL]

\* A byte the chip reports is one nobody has read, except between STCR and SBO 18.
LineInv ==
    /\ rbrl /\ ipc # "arm" => fresh
    /\ ipc \in {"ack", "read"} => fresh

RxInv == RxTypeOK /\ HookInv /\ HandlerInv /\ ReaderInv /\ LineInv

\* The unread bytes, oldest first, of a ring with head h and tail t.
CountOf(h, t) == IF t <= h THEN h - t ELSE h + N - t

SlotOf(t, k) == IF t + k < N THEN t + k ELSE t + k - N

Contents(h, t, buf) == [k \in 1 .. CountOf(h, t) |-> buf[SlotOf(t, k - 1)]]

Unread == Contents(RXHEAD, RXTAIL, RXBUF)

Latched == IF ipc \in {"arm", "store"} THEN r1 ELSE NoByte

Waiting == IF fresh THEN rbr ELSE NoByte

\* Receiving is on, or about to be switched off.
InSession == RXACT /\ mpc # "restore"

\* The ring and its two indices, one written by the handler and one by rxwait
\* with no lock between them, implement the bounded queue of RxFifo: a byte the
\* handler has read comes out once, in order, or found the ring full and is
\* counted.  A byte is lost uncounted, with room in the ring, only in the chip:
\* by the overrun of the next one, by the handler's own SBO 18 when it arrives
\* after the STCR, and by the SBO 18 of rxinit and the SBZ 18 of rxfini.
Fifo == INSTANCE RxFifo WITH Cap <- N - 1, line <- Waiting, open <- InSession,
                             hold <- Latched, items <- Unread,
                             overflow <- RXOVFL, out <- rxchar

ImplementsFifo == Fifo!Spec

\* A byte that arrives while the program waits in rxwait ends the wait.  One that
\* arrives while the handler is busy with an earlier one may be lost, but then
\* the earlier one ends the wait.
ByteEndsWait == (mpc = "poll" /\ rbrl) ~> (mpc = "idle")

\* The hook does not take the timer away from the MONITOR: when the machine runs
\* with level 4 admitted, an elapsed timer is still serviced, however many bytes
\* arrive and however often the hook is installed and removed.
TimerServed == (timelp /\ timenb /\ callerAdmitted) ~> ~(timelp /\ timenb)

\* Level 4 serves both: the program that waits and the MONITOR (CONRX.A99:139,
\* CONRX.A99:166).
BothServed == ByteEndsWait /\ TimerServed
=============================================================================
