------------------------------ MODULE IrqPath -------------------------------
(***************************************************************************)
(* The interrupt path of NEMU: device threads raise interrupts through the *)
(* one-slot i8259 model while the CPU thread runs guest instructions,      *)
(* polls cpu.intr between two instructions, waits in HLT, and starts and   *)
(* stops at the monitor's command.  Every access to a variable two threads *)
(* share (i8259_intr_no, cpu.intr, nemu_state, the mutex) is a step of its *)
(* own, in the order gcc -O2 emits them: the compare that arbitrates and   *)
(* the store that follows it are two.                                      *)
(*                                                                         *)
(* The guest is arbitrary: any instruction of GuestInstrs at any time, and *)
(* IRET or a gate may leave either value in EFLAGS.IF.                     *)
(***************************************************************************)
EXTENDS Integers

CONSTANTS
  Cpu,          \* the thread that runs main(), ui_mainloop() and exec()
  Timer,        \* TIMER_Thread (the program starts one)
  Keyboard,     \* KEYBOARD_Thread (one)
  Audio,        \* AUDIO_Monitor_Thread (at most one)
  Free,         \* value of mutex: nobody holds it
  Destroyed,    \* value of mutex: SDL_DestroyMutex has freed it
  GuestInstrs,  \* the kinds of instruction the guest uses
  GateTypes,    \* the type fields of the gates in the guest's IDT
  Steps,        \* bound: the arguments of exec() the user asks for
  Watchpoints   \* TRUE if a watchpoint is set, FALSE if none is

Devices == Timer \cup Keyboard \cup Audio
Threads == Devices \cup {Cpu}

InstrKinds == {"plain", "sti", "cli", "iret", "int", "hlt", "ide_read",
               "audio_ctl", "nemu_trap", "break_point"}

ASSUME ThreadsAssumption ==
  /\ Cpu \notin Devices
  /\ Timer \cap Keyboard = {} /\ Timer \cap Audio = {} /\ Keyboard \cap Audio = {}
  /\ Free # Destroyed /\ Free \notin Threads /\ Destroyed \notin Threads
ASSUME GuestAssumption == GuestInstrs \subseteq InstrKinds /\ GateTypes \subseteq 0..31
\* exec(-1) is "run until something stops it": 2^32 - 1 iterations.
ASSUME StepsAssumption == Steps \subseteq {-1} \cup (Nat \ {0})
ASSUME WatchAssumption == Watchpoints \in BOOLEAN

IRQ_BASE      == 32
I8259_NO_INTR == 255
TIMER_IRQ     == 0
KEYBOARD_IRQ  == 1
AUDIO_IRQ     == 2
IDE_IRQ       == 14

\* The irq each thread passes to i8259_raise_intr; the CPU thread raises the
\* IDE interrupt itself, inside the OUT instruction that starts a read.
IrqOf(t) ==
  CASE t \in Timer    -> TIMER_IRQ
    [] t \in Keyboard -> KEYBOARD_IRQ
    [] t \in Audio    -> AUDIO_IRQ
    [] OTHER          -> IDE_IRQ

VectorOf(t) == IrqOf(t) + IRQ_BASE
Vectors == {VectorOf(t) : t \in Threads}
IdeVector == IDE_IRQ + IRQ_BASE

VARIABLES
  nemu_state,     \* "STOP" | "RUN" | "READY" | "BREAK"
  i8259_intr_no,  \* the slot: a vector or I8259_NO_INTR
  intr,           \* cpu.intr
  mutex,          \* i8259_mutex: Free, Destroyed or its holder
  eflags_IF,      \* cpu.eflags.IF
  n,              \* exec()'s remaining iterations, -1 for exec(-1)
  intr_no,        \* do_intr()'s local: the vector it queried
  active,         \* timer_active, keyboard_active, audio_active
  pc,             \* where each thread is
  pending,        \* history: vectors raised since the last acknowledge
  delivered       \* history: the vector acknowledged last

picVars  == <<i8259_intr_no, intr, mutex>>
histVars == <<pending, delivered>>
vars == <<nemu_state, i8259_intr_no, intr, mutex, eflags_IF, n, intr_no, active, pc,
          pending, delivered>>

\* exit() ends every thread of the process.
ProcessAlive == pc[Cpu] # "exited"

Goto(t, from, to) ==
  /\ ProcessAlive
  /\ pc[t] = from
  /\ pc' = [pc EXCEPT ![t] = to]

Init ==  \* single_run() has just set NEMU_READY
  /\ nemu_state = "READY"
  /\ i8259_intr_no = I8259_NO_INTR
  /\ intr = 0
  /\ mutex = Free
  /\ eflags_IF = 0
  /\ n = 0
  /\ intr_no = I8259_NO_INTR
  /\ active = [d \in Devices |-> d \notin Audio]
  /\ pc = [t \in Threads |-> IF t = Cpu THEN "ui" ELSE "idle"]
  /\ pending = {}
  /\ delivered = I8259_NO_INTR

-----------------------------------------------------------------------------
(* i8259_raise_intr, called by any thread; pc "raise" is the call of       *)
(* SDL_LockMutex.                                                          *)

AfterRaise(t) == IF t = Cpu THEN "watch" ELSE "idle"

\* (Mutant of RaiseLock: the lock's result is not waited for.)
RaiseNoLock(t) ==
  /\ Goto(t, "raise", "compare")
  /\ UNCHANGED <<nemu_state, picVars, eflags_IF, n, intr_no, active, histVars>>

RaiseLock(t) ==
  /\ Goto(t, "raise", "compare")
  /\ mutex = Free
  /\ mutex' = t
  /\ UNCHANGED <<nemu_state, i8259_intr_no, intr, eflags_IF, n, intr_no, active, histVars>>

\* Locking freed memory is undefined: the call seems to succeed, or it fails
\* and the loop's test of NEMU_STOP returns.
RaiseLockDestroyed(t) ==
  /\ mutex = Destroyed
  /\ \/ Goto(t, "raise", "compare")
     \/ nemu_state = "STOP" /\ Goto(t, "raise", AfterRaise(t))
  /\ UNCHANGED <<nemu_state, picVars, eflags_IF, n, intr_no, active, histVars>>

\* irq_no against the slot's content.  (Mutant: the last one always wins.)
LastWins(irq_no) == TRUE
Wins(irq_no) ==
  \/ i8259_intr_no = I8259_NO_INTR
  \/ irq_no > i8259_intr_no - IRQ_BASE

\* The condition, one load of the slot.  A thread that loses is arbitrated here,
\* one that wins when it stores.
RaiseCompare(t) ==
  /\ \/ Wins(IrqOf(t)) /\ Goto(t, "compare", "store") /\ UNCHANGED pending
     \/ ~Wins(IrqOf(t)) /\ Goto(t, "compare", "intr") /\ pending' = pending \cup {VectorOf(t)}
  /\ UNCHANGED <<nemu_state, picVars, eflags_IF, n, intr_no, active, delivered>>

\* What is stored for irq_no.  (Mutant: the bare irq number.)
SlotOfBare(irq_no) == irq_no
SlotOf(irq_no)     == irq_no + IRQ_BASE

RaiseStore(t) ==
  /\ Goto(t, "store", "intr")
  /\ i8259_intr_no' = SlotOf(IrqOf(t))
  /\ pending' = pending \cup {VectorOf(t)}
  /\ UNCHANGED <<nemu_state, intr, mutex, eflags_IF, n, intr_no, active, delivered>>

RaiseIntr(t) ==
  /\ Goto(t, "intr", "unlock")
  /\ intr' = 1
  /\ UNCHANGED <<nemu_state, i8259_intr_no, mutex, eflags_IF, n, intr_no, active, histVars>>

RaiseUnlock(t) ==
  /\ Goto(t, "unlock", AfterRaise(t))
  /\ mutex' = IF mutex = t THEN Free ELSE mutex
  /\ UNCHANGED <<nemu_state, i8259_intr_no, intr, eflags_IF, n, intr_no, active, histVars>>

Raise(t) ==
  \/ RaiseLock(t) \/ RaiseLockDestroyed(t)
  \/ RaiseCompare(t) \/ RaiseStore(t) \/ RaiseIntr(t) \/ RaiseUnlock(t)

\* EFLAGS.IF after raise_intr through a gate of this type.
GateIF(type) == CASE type = 14 -> 1 [] type = 15 -> 0 [] OTHER -> eflags_IF

-----------------------------------------------------------------------------
(* Device threads.                                                         *)

\* TIMER_Thread: one pass of the loop; the test of nemu_state and the raise
\* that follows are not atomic.
TimerIntr(t) ==
  /\ active[t]
  /\ nemu_state = "RUN"
  /\ Goto(t, "idle", "raise")
  /\ UNCHANGED <<nemu_state, picVars, eflags_IF, n, intr_no, active, histVars>>

\* KEYBOARD_Thread draining SDL's queue.  The inner loop tests neither
\* nemu_state nor keyboard_active: it goes on after SDL_QUIT until the queue
\* is empty.
KeyEvent(t) ==
  /\ Goto(t, "idle", "raise")
  /\ UNCHANGED <<nemu_state, picVars, eflags_IF, n, intr_no, active, histVars>>

KeyboardQuit(t) ==
  /\ ProcessAlive
  /\ pc[t] = "idle"
  /\ nemu_state' = "STOP"
  /\ active' = [active EXCEPT ![t] = FALSE]
  /\ UNCHANGED <<picVars, eflags_IF, n, intr_no, pc, histVars>>

KeyboardEnd(t) ==
  /\ ~active[t]
  /\ Goto(t, "idle", "ended")
  /\ UNCHANGED <<nemu_state, picVars, eflags_IF, n, intr_no, active, histVars>>

\* AUDIO_Monitor_Thread finds switch_buf set.
AudioSwitch(t) ==
  /\ active[t]
  /\ Goto(t, "idle", "raise")
  /\ UNCHANGED <<nemu_state, picVars, eflags_IF, n, intr_no, active, histVars>>

DeviceStep(t) ==
  \/ t \in Timer /\ TimerIntr(t)
  \/ t \in Keyboard /\ (KeyEvent(t) \/ KeyboardQuit(t) \/ KeyboardEnd(t))
  \/ t \in Audio /\ AudioSwitch(t)

-----------------------------------------------------------------------------
(* The CPU thread: ui_mainloop() and exec().                               *)

\* cmd_c and cmd_si.
Command ==
  /\ Goto(Cpu, "ui", "loop")
  /\ n' \in Steps
  /\ nemu_state' = "RUN"
  /\ UNCHANGED <<picVars, eflags_IF, intr_no, active, histVars>>

CmdQuit ==
  /\ Goto(Cpu, "ui", "close")
  /\ UNCHANGED <<nemu_state, picVars, eflags_IF, n, intr_no, active, histVars>>

LoopTest ==
  /\ \/ n # 0 /\ nemu_state = "RUN" /\ Goto(Cpu, "loop", "exec_inst")
     \/ ~(n # 0 /\ nemu_state = "RUN") /\ Goto(Cpu, "loop", "after")
  /\ UNCHANGED <<nemu_state, picVars, eflags_IF, n, intr_no, active, histVars>>

\* n-- in exec(); the 2^32 - 1 iterations of exec(-1) are taken as endless.
CountDown == IF n = -1 THEN n ELSE n - 1

\* exec_inst() and the n-- that follows, by kind of instruction.
ExecInst(k) ==
  /\ k \in GuestInstrs
  /\ n' = CountDown
  /\ Goto(Cpu, "exec_inst", CASE k = "hlt"      -> "hlt"
                               [] k = "ide_read" -> "raise"
                               [] OTHER          -> "watch")
  /\ eflags_IF' \in CASE k = "sti" -> {1}
               [] k = "cli" -> {0}
               [] k = "iret" -> {0, 1}
               [] k = "int"  -> {GateIF(g) : g \in GateTypes}
               [] OTHER      -> {eflags_IF}
  /\ nemu_state' = CASE k = "nemu_trap"   -> "STOP"
                     [] k = "break_point" -> "BREAK"
                     [] OTHER             -> nemu_state
  /\ active' = [d \in Devices |-> active[d] \/ (k = "audio_ctl" /\ d \in Audio)]
  /\ UNCHANGED <<picVars, intr_no, histVars>>

\* HLT_Thread polls until an interrupt is pending, whatever IF says.
\* (Mutants: only an enabled interrupt counts; NEMU_STOP does not.)
HltDoneEnabled == (intr = 1 /\ eflags_IF = 1) \/ nemu_state = "STOP"
HltDoneByIntr  == intr = 1
HltDone        == intr = 1 \/ nemu_state = "STOP"

HltWake ==
  /\ HltDone
  /\ Goto(Cpu, "hlt", "watch")
  /\ UNCHANGED <<nemu_state, picVars, eflags_IF, n, intr_no, active, histVars>>

\* scan_watchpoint: a hit leaves the loop before do_intr.
ScanWatchpoint ==
  /\ \/ /\ Goto(Cpu, "watch", "do_intr")
        /\ UNCHANGED nemu_state
     \/ /\ Watchpoints
        /\ Goto(Cpu, "watch", "after")
        /\ nemu_state' = "READY"
  /\ UNCHANGED <<picVars, eflags_IF, n, intr_no, active, histVars>>

DoIntr ==
  /\ \/ intr = 1 /\ eflags_IF = 1 /\ Goto(Cpu, "do_intr", "query")
     \/ ~(intr = 1 /\ eflags_IF = 1) /\ Goto(Cpu, "do_intr", "loop")
  /\ UNCHANGED <<nemu_state, picVars, eflags_IF, n, intr_no, active, histVars>>

Query ==  \* i8259_query_intr_no takes no lock
  /\ Goto(Cpu, "query", "ack")
  /\ intr_no' = i8259_intr_no
  /\ UNCHANGED <<nemu_state, picVars, eflags_IF, n, active, histVars>>

AckLock ==
  /\ Goto(Cpu, "ack", "ack_slot")
  /\ mutex = Free
  /\ mutex' = Cpu
  /\ UNCHANGED <<nemu_state, i8259_intr_no, intr, eflags_IF, n, intr_no, active, histVars>>

AckSlot ==
  /\ Goto(Cpu, "ack_slot", "ack_intr")
  /\ i8259_intr_no' = I8259_NO_INTR
  /\ pending' = {}
  /\ delivered' = intr_no
  /\ UNCHANGED <<nemu_state, intr, mutex, eflags_IF, n, intr_no, active>>

\* (Mutant of AckIntr: cpu.intr stays set.)
AckIntrKept ==
  /\ Goto(Cpu, "ack_intr", "ack_unlock")
  /\ UNCHANGED <<nemu_state, picVars, eflags_IF, n, intr_no, active, histVars>>

AckIntr ==
  /\ Goto(Cpu, "ack_intr", "ack_unlock")
  /\ intr' = 0
  /\ UNCHANGED <<nemu_state, i8259_intr_no, mutex, eflags_IF, n, intr_no, active, histVars>>

AckUnlock ==
  /\ Goto(Cpu, "ack_unlock", "raise_intr")
  /\ mutex' = Free
  /\ UNCHANGED <<nemu_state, i8259_intr_no, intr, eflags_IF, n, intr_no, active, histVars>>

Vector ==
  /\ Goto(Cpu, "raise_intr", "loop")
  /\ eflags_IF' \in {GateIF(g) : g \in GateTypes}
  /\ UNCHANGED <<nemu_state, picVars, n, intr_no, active, histVars>>

\* The end of exec(): the test of NEMU_STOP and the store of NEMU_READY.
AfterLoop ==
  /\ \/ /\ nemu_state = "STOP"
        /\ mutex' = Destroyed
        /\ Goto(Cpu, "after", "ui_test")
     \/ /\ nemu_state # "STOP"
        /\ Goto(Cpu, "after", IF n = 0 THEN "set_ready" ELSE "ui_test")
        /\ UNCHANGED mutex
  /\ UNCHANGED <<nemu_state, i8259_intr_no, intr, eflags_IF, n, intr_no, active, histVars>>

SetReady ==
  /\ Goto(Cpu, "set_ready", "ui_test")
  /\ nemu_state' = "READY"
  /\ UNCHANGED <<picVars, eflags_IF, n, intr_no, active, histVars>>

UiTest ==
  /\ Goto(Cpu, "ui_test", IF nemu_state = "STOP" THEN "close" ELSE "ui")
  /\ UNCHANGED <<nemu_state, picVars, eflags_IF, n, intr_no, active, histVars>>

CloseSdl ==
  /\ Goto(Cpu, "close", "exit")
  /\ active' = [d \in Devices |-> FALSE]
  /\ UNCHANGED <<nemu_state, picVars, eflags_IF, n, intr_no, histVars>>

Exit ==
  /\ Goto(Cpu, "exit", "exited")
  /\ UNCHANGED <<nemu_state, picVars, eflags_IF, n, intr_no, active, histVars>>

CpuStep ==
  \/ Command \/ CmdQuit \/ LoopTest \/ (\E k \in InstrKinds : ExecInst(k))
  \/ HltWake \/ ScanWatchpoint \/ DoIntr \/ Query
  \/ AckLock \/ AckSlot \/ AckIntr \/ AckUnlock \/ Vector
  \/ AfterLoop \/ SetReady \/ UiTest \/ CloseSdl \/ Exit

Terminated == ~ProcessAlive /\ UNCHANGED vars

Next ==
  \/ CpuStep
  \/ \E t \in Threads : Raise(t)
  \/ \E t \in Devices : DeviceStep(t)
  \/ Terminated

Spec == Init /\ [][Next]_vars

(* The OS schedules every thread; SDL_Delay keeps a device thread away     *)
(* from the mutex long enough for a waiter to get it, hence strong         *)
(* fairness on the two lock operations.  The user need not type, no key    *)
(* need be pressed, no watchpoint need fire.                               *)
CpuAdvances ==
  \/ LoopTest \/ (\E k \in InstrKinds : ExecInst(k)) \/ HltWake \/ ScanWatchpoint
  \/ DoIntr \/ Query \/ AckSlot \/ AckIntr \/ AckUnlock \/ Vector
  \/ AfterLoop \/ SetReady \/ UiTest \/ CloseSdl \/ Exit

Fairness ==
  /\ WF_vars(CpuAdvances)
  /\ SF_vars(AckLock)
  /\ \A t \in Threads :
       /\ WF_vars(RaiseCompare(t) \/ RaiseStore(t) \/ RaiseIntr(t) \/ RaiseUnlock(t))
       /\ SF_vars(RaiseLock(t))
  /\ \A t \in Timer : WF_vars(TimerIntr(t))

FairSpec == Spec /\ Fairness

-----------------------------------------------------------------------------
(* Properties.                                                             *)

TypeOK ==
  /\ nemu_state \in {"STOP", "RUN", "READY", "BREAK"}
  /\ i8259_intr_no \in Vectors \cup {I8259_NO_INTR}
  /\ intr \in {0, 1} /\ eflags_IF \in {0, 1}
  /\ mutex \in Threads \cup {Free, Destroyed}
  /\ n \in Nat \cup {-1}
  /\ intr_no \in Vectors \cup {I8259_NO_INTR}
  /\ active \in [Devices -> BOOLEAN]
  /\ pc \in [Threads -> {"idle", "raise", "compare", "store", "intr", "unlock", "ended",
                         "ui", "loop", "exec_inst", "hlt", "watch", "do_intr",
                         "query", "ack", "ack_slot", "ack_intr", "ack_unlock",
                         "raise_intr", "after", "set_ready", "ui_test",
                         "close", "exit", "exited"}]
  /\ pending \subseteq Vectors
  /\ delivered \in Vectors \cup {I8259_NO_INTR}

\* cpu.c:145: the vector do_intr queried, with no lock, is an interrupt.
AssertIntrNo == pc[Cpu] = "ack" => intr_no # I8259_NO_INTR

InCritical(t) == pc[t] \in {"compare", "store", "intr", "unlock", "ack_slot", "ack_intr", "ack_unlock"}

\* i8259_mutex keeps two threads from updating the slot and cpu.intr at the
\* same time, as long as the mutex exists.
MutualExclusion ==
  \A s, t \in Threads : InCritical(s) /\ InCritical(t) => s = t \/ mutex = Destroyed

\* The slot's arbitration, as long as the mutex exists: of everything raised
\* since the last acknowledge the slot holds the highest irq, and is empty when
\* nothing was raised.  A thread decides by one load and stores later, so that
\* only the mutex keeps a lower irq from overwriting a higher one; when it is
\* gone, that can happen.
HighestWins ==
  mutex # Destroyed =>
  /\ pending = {} <=> i8259_intr_no = I8259_NO_INTR
  /\ \A v \in pending : i8259_intr_no \in pending /\ v <= i8259_intr_no

\* The path is the mailbox of IrqMailbox: whatever threads and CPU do, each
\* delivery is of an irq raised since the previous one, and an IDE interrupt
\* is never the one discarded.
Mailbox == INSTANCE IrqMailbox
  WITH Top <- IdeVector, None <- I8259_NO_INTR, req <- pending
MailboxSpec == Mailbox!Spec

\* A CPU in HLT is woken although the guest may have disabled interrupts and
\* no key is pressed: the timer thread keeps raising while NEMU runs.
HltWakes == (pc[Cpu] = "hlt") ~> (pc[Cpu] # "hlt")

\* Once NEMU_STOP is set while the guest runs under `c', the CPU thread leaves
\* exec(), even out of HLT or while it waits for the mutex, and the process ends.
StopEndsRun == (nemu_state = "STOP" /\ pc[Cpu] # "ui") ~> (pc[Cpu] = "exited")

\* If the guest keeps coming to do_intr with interrupts enabled, a raised IDE
\* interrupt is delivered, however many device threads contend for the mutex.
IdeDelivered ==
  []<>(pc[Cpu] = "do_intr" /\ eflags_IF = 1) =>
    (i8259_intr_no = IdeVector ~> delivered = IdeVector)

\* timer.c:15 calls the timer's raise "multi-thread safe": the timer thread
\* never comes to SDL_LockMutex with a mutex that was destroyed.
NoUseOfDestroyedMutex == \A t \in Timer : pc[t] = "raise" => mutex # Destroyed
=============================================================================
