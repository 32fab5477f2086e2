--------------------------- MODULE IrqPath_proofs ---------------------------
(* Proofs about IrqPath for any number of device threads, any guest and any *)
(* sequence of monitor commands.                                            *)
EXTENDS IrqPath, TLAPS

DevicePcs == {"idle", "raise", "compare", "store", "intr", "unlock", "ended"}
CpuPcs == {"ui", "loop", "exec_inst", "hlt", "raise", "compare", "store", "intr",
           "unlock", "watch", "do_intr", "query", "ack", "ack_slot", "ack_intr",
           "ack_unlock", "raise_intr", "after", "set_ready", "ui_test",
           "close", "exit", "exited"}

(* A thread inside a critical section holds the mutex while there is one.  *)
Owner == \A t \in Threads : InCritical(t) => mutex = t \/ mutex = Destroyed

(* The mutex is destroyed only on the way out of the process.              *)
AfterDestroy ==
  mutex = Destroyed => /\ pc[Cpu] \in {"ui_test", "close", "exit", "exited"}
                       /\ nemu_state = "STOP"

(* cpu.intr promises an occupied slot, except while the CPU, which is the  *)
(* only reader, is half way through its own acknowledge.                   *)
IntrHasSlot ==
  /\ intr = 1 => i8259_intr_no # I8259_NO_INTR \/ pc[Cpu] = "ack_intr"
  /\ \A t \in Threads : pc[t] = "intr" => i8259_intr_no # I8259_NO_INTR

(* What a thread decided by its load of the slot is still so at its store,  *)
(* because it holds the mutex in between.                                  *)
Decided == \A t \in Threads : pc[t] = "store" => mutex = Destroyed \/ Wins(IrqOf(t))

(* What do_intr knows between its test of cpu.intr and its acknowledge.    *)
Queried ==
  /\ pc[Cpu] = "query" => intr = 1
  /\ pc[Cpu] \in {"ack", "ack_slot"} =>
       /\ intr_no \in pending
       /\ IdeVector \in pending => intr_no = IdeVector

Counting == pc[Cpu] = "exec_inst" => n # 0

Protocol == Owner /\ AfterDestroy /\ IntrHasSlot /\ Decided /\ Queried /\ HighestWins

IInv == TypeOK /\ Counting /\ Protocol

(* The vectors the program raises are 32, 33, 34 (devices) and 46 (IDE).   *)
LEMMA VectorFacts ==
  /\ \A d \in Devices : VectorOf(d) \in {32, 33, 34}
  /\ VectorOf(Cpu) = 46
  /\ \A t \in Threads : VectorOf(t) = IrqOf(t) + 32 /\ IrqOf(t) \in 0..14
  /\ IdeVector = 46
  /\ Vectors \subseteq {32, 33, 34, 46}
  /\ \A t \in Threads : VectorOf(t) \in Vectors
<1>1. \A d \in Devices : IrqOf(d) \in {0, 1, 2}
  BY DEF Devices, IrqOf, TIMER_IRQ, KEYBOARD_IRQ, AUDIO_IRQ
<1>2. IrqOf(Cpu) = 14
  BY ThreadsAssumption DEF Devices, IrqOf, IDE_IRQ
<1> QED
  BY <1>1, <1>2 DEF Threads, VectorOf, IRQ_BASE, IDE_IRQ, IdeVector, Vectors

(* The initial states satisfy IInv.                                        *)
LEMMA InitIInv == Init => IInv
<1> SUFFICES ASSUME Init PROVE IInv
  OBVIOUS
<1> USE ThreadsAssumption DEF Init
<1>1. TypeOK
  BY DEF TypeOK, Threads, Devices
<1>2. pc[Cpu] = "ui" /\ \A t \in Threads : pc[t] \in {"ui", "idle"}
  BY DEF Threads
<1>3. Owner /\ AfterDestroy /\ Counting
  BY <1>2 DEF Owner, InCritical, AfterDestroy, Counting
<1>4. IntrHasSlot /\ Decided /\ Queried /\ HighestWins
  BY <1>2 DEF IntrHasSlot, Decided, Queried, HighestWins
<1> QED
  BY <1>1, <1>3, <1>4 DEF IInv, Protocol

(* Every step keeps the types; the counting of requests needs only them.    *)
LEMMA TypeStep == TypeOK /\ Counting /\ [Next]_vars => TypeOK' /\ Counting'
<1> SUFFICES ASSUME TypeOK, Counting, [Next]_vars PROVE TypeOK' /\ Counting'
  OBVIOUS
<1> USE ThreadsAssumption DEF TypeOK, Counting, Goto, picVars, histVars, Threads
<1>1. CASE Command
  BY <1>1, StepsAssumption DEF Command
<1>2. CASE CmdQuit
  BY <1>2 DEF CmdQuit
<1>3. CASE LoopTest
  BY <1>3 DEF LoopTest
<1>4. ASSUME NEW k \in InstrKinds, ExecInst(k) PROVE TypeOK' /\ Counting'
  BY <1>4 DEF ExecInst, CountDown, GateIF
<1>5. CASE HltWake
  BY <1>5 DEF HltWake, HltDone
<1>6. CASE ScanWatchpoint
  BY <1>6 DEF ScanWatchpoint
<1>7. CASE DoIntr
  BY <1>7 DEF DoIntr
<1>8. CASE Query
  BY <1>8 DEF Query
<1>9. CASE AckLock
  BY <1>9 DEF AckLock
<1>10. CASE AckSlot
  BY <1>10 DEF AckSlot
<1>11. CASE AckIntr
  BY <1>11 DEF AckIntr
<1>12. CASE AckUnlock
  BY <1>12 DEF AckUnlock
<1>13. CASE Vector
  BY <1>13 DEF Vector, GateIF
<1>14. CASE AfterLoop
  BY <1>14 DEF AfterLoop
<1>15. CASE SetReady
  BY <1>15 DEF SetReady
<1>16. CASE UiTest
  BY <1>16 DEF UiTest
<1>17. CASE CloseSdl
  BY <1>17 DEF CloseSdl
<1>18. CASE Exit
  BY <1>18 DEF Exit
<1>19. ASSUME NEW t \in Threads, RaiseLock(t) PROVE TypeOK' /\ Counting'
  BY <1>19 DEF RaiseLock
<1>20. ASSUME NEW t \in Threads, RaiseLockDestroyed(t) PROVE TypeOK' /\ Counting'
  BY <1>20 DEF RaiseLockDestroyed, AfterRaise
<1>21. ASSUME NEW t \in Threads, RaiseCompare(t) \/ RaiseStore(t) PROVE TypeOK' /\ Counting'
  <2>1. VectorOf(t) \in Vectors /\ SlotOf(IrqOf(t)) = VectorOf(t)
    BY VectorFacts DEF SlotOf, VectorOf
  <2> QED
    BY <1>21, <2>1 DEF RaiseCompare, RaiseStore
<1>22. ASSUME NEW t \in Threads, RaiseIntr(t) PROVE TypeOK' /\ Counting'
  BY <1>22 DEF RaiseIntr
<1>23. ASSUME NEW t \in Threads, RaiseUnlock(t) PROVE TypeOK' /\ Counting'
  BY <1>23 DEF RaiseUnlock, AfterRaise
<1>24. ASSUME NEW t \in Devices, TimerIntr(t) PROVE TypeOK' /\ Counting'
  BY <1>24 DEF TimerIntr
<1>25. ASSUME NEW t \in Devices, KeyEvent(t) PROVE TypeOK' /\ Counting'
  BY <1>25 DEF KeyEvent
<1>26. ASSUME NEW t \in Devices, KeyboardQuit(t) PROVE TypeOK' /\ Counting'
  BY <1>26 DEF KeyboardQuit
<1>27. ASSUME NEW t \in Devices, KeyboardEnd(t) PROVE TypeOK' /\ Counting'
  BY <1>27 DEF KeyboardEnd
<1>28. ASSUME NEW t \in Devices, AudioSwitch(t) PROVE TypeOK' /\ Counting'
  BY <1>28 DEF AudioSwitch
<1>29. CASE UNCHANGED vars
  BY <1>29 DEF vars
<1> HIDE DEF TypeOK, Counting, Goto, picVars, histVars, Threads
<1> QED
  BY <1>1, <1>2, <1>3, <1>4, <1>5, <1>6, <1>7, <1>8, <1>9, <1>10, <1>11, <1>12, <1>13, <1>14, <1>15, <1>16, <1>17, <1>18, <1>19, <1>20, <1>21, <1>22, <1>23, <1>24, <1>25, <1>26, <1>27, <1>28, <1>29
     DEF Next, CpuStep, Raise, DeviceStep, Terminated

(* Every step keeps the protocol of slot, flag and mutex.                   *)
LEMMA ProtocolStep == IInv /\ [Next]_vars => Protocol'
<1> SUFFICES ASSUME IInv, [Next]_vars PROVE Protocol'
  OBVIOUS
<1>a. \A t \in Devices : VectorOf(t) # IdeVector /\ t # Cpu
  BY VectorFacts, ThreadsAssumption
<1> USE ThreadsAssumption DEF IInv, TypeOK, Protocol, Owner, InCritical, AfterDestroy,
      IntrHasSlot, Decided, Wins, Queried, HighestWins, Goto, ProcessAlive, picVars, histVars, Threads
<1>1. CASE Command
  BY <1>1 DEF Command
<1>2. CASE CmdQuit
  BY <1>2 DEF CmdQuit
<1>3. CASE LoopTest
  BY <1>3 DEF LoopTest
<1>4. ASSUME NEW k \in InstrKinds, ExecInst(k) PROVE Protocol'
  BY <1>4 DEF ExecInst, CountDown
<1>5. CASE HltWake
  BY <1>5 DEF HltWake, HltDone
<1>6. CASE ScanWatchpoint
  BY <1>6 DEF ScanWatchpoint
<1>7. CASE DoIntr
  BY <1>7 DEF DoIntr
<1>8. CASE Query
  <2>1. i8259_intr_no # I8259_NO_INTR /\ mutex # Destroyed
    BY <1>8 DEF Query
  <2>2. PICK v \in pending : TRUE
    BY <2>1
  <2>3. i8259_intr_no \in pending /\ pending \subseteq {32, 33, 34, 46}
    BY <2>1, <2>2, VectorFacts
  <2>4. IdeVector \in pending => i8259_intr_no = IdeVector
    BY <2>1, <2>3, VectorFacts
  <2> QED
    BY <1>8, <2>3, <2>4 DEF Query
<1>9. CASE AckLock
  BY <1>9 DEF AckLock
<1>10. CASE AckSlot
  BY <1>10 DEF AckSlot
<1>11. CASE AckIntr
  BY <1>11 DEF AckIntr
<1>12. CASE AckUnlock
  BY <1>12 DEF AckUnlock
<1>13. CASE Vector
  BY <1>13 DEF Vector
<1>14. CASE AfterLoop
  BY <1>14 DEF AfterLoop
<1>15. CASE SetReady
  BY <1>15 DEF SetReady
<1>16. CASE UiTest
  BY <1>16 DEF UiTest
<1>17. CASE CloseSdl
  BY <1>17 DEF CloseSdl
<1>18. CASE Exit
  BY <1>18 DEF Exit
<1>19. ASSUME NEW t \in Threads, RaiseLock(t) PROVE Protocol'
  BY <1>19 DEF RaiseLock
<1>20. ASSUME NEW t \in Threads, RaiseLockDestroyed(t) PROVE Protocol'
  BY <1>20 DEF RaiseLockDestroyed, AfterRaise
<1>21. ASSUME NEW t \in Threads, RaiseCompare(t) \/ RaiseStore(t) PROVE Protocol'
  <2> DEFINE v == VectorOf(t)
  <2>1. v \in 32..46 /\ IrqOf(t) = v - 32 /\ v # I8259_NO_INTR /\ SlotOf(IrqOf(t)) = v
    BY VectorFacts DEF I8259_NO_INTR, SlotOf, VectorOf
  <2>2. pending \subseteq 32..46
    BY VectorFacts
  <2>3. Wins(IrqOf(t)) <=> i8259_intr_no = I8259_NO_INTR \/ v > i8259_intr_no
    <3>1. CASE i8259_intr_no = I8259_NO_INTR
      BY <3>1
    <3>2. CASE i8259_intr_no # I8259_NO_INTR
      <4>1. i8259_intr_no \in 32..46
        BY <3>2, VectorFacts
      <4> QED
        BY <2>1, <3>2, <4>1 DEF IRQ_BASE
    <3> QED
      BY <3>1, <3>2
  <2>4. CASE RaiseCompare(t)
    <3>1. HighestWins'
      <4>1. UNCHANGED <<i8259_intr_no, mutex>>
        BY <2>4 DEF RaiseCompare
      <4>2. CASE UNCHANGED pending
        BY <4>1, <4>2
      <4>3. CASE ~Wins(IrqOf(t)) /\ pending' = pending \cup {v}
        <5>1. i8259_intr_no # I8259_NO_INTR /\ v <= i8259_intr_no
          <6>1. i8259_intr_no # I8259_NO_INTR /\ ~(v > i8259_intr_no)
            BY <2>3, <4>3
          <6>2. i8259_intr_no \in 32..46
            BY <6>1, VectorFacts
          <6> QED
            BY <2>1, <6>1, <6>2
        <5> QED
          BY <4>1, <4>3, <5>1
      <4> QED
        BY <2>4, <4>2, <4>3 DEF RaiseCompare
    <3>2. Owner' /\ AfterDestroy' /\ IntrHasSlot' /\ Decided'
      BY <2>1, <2>3, <2>4 DEF RaiseCompare
    <3>3. Queried'
      BY <1>a, <2>4 DEF RaiseCompare
    <3> QED
      BY <3>1, <3>2, <3>3
  <2>5. CASE RaiseStore(t)
    <3>1. mutex # Destroyed => /\ i8259_intr_no = I8259_NO_INTR \/ v > i8259_intr_no
                              /\ \A s \in Threads : pc[s] = "store" => s = t
      BY <2>3, <2>5 DEF RaiseStore
    <3>2. /\ i8259_intr_no' = v /\ pending' = pending \cup {v}
          /\ UNCHANGED <<nemu_state, intr, mutex, intr_no>>
      BY <2>1, <2>5 DEF RaiseStore
    <3>3. HighestWins'
      BY <2>1, <2>2, <3>1, <3>2
    <3>4. Owner' /\ AfterDestroy' /\ IntrHasSlot'
      BY <2>1, <2>5, <3>2 DEF RaiseStore
    <3>5. Decided'
      BY <2>5, <3>1, <3>2 DEF RaiseStore
    <3>6. Queried'
      BY <1>a, <2>5 DEF RaiseStore
    <3> QED
      BY <3>3, <3>4, <3>5, <3>6
  <2> QED
    BY <1>21, <2>4, <2>5
<1>22. ASSUME NEW t \in Threads, RaiseIntr(t) PROVE Protocol'
  BY <1>22 DEF RaiseIntr
<1>23. ASSUME NEW t \in Threads, RaiseUnlock(t) PROVE Protocol'
  BY <1>23 DEF RaiseUnlock, AfterRaise
<1>24. ASSUME NEW t \in Devices, TimerIntr(t) PROVE Protocol'
  BY <1>24 DEF TimerIntr
<1>25. ASSUME NEW t \in Devices, KeyEvent(t) PROVE Protocol'
  BY <1>25 DEF KeyEvent
<1>26. ASSUME NEW t \in Devices, KeyboardQuit(t) PROVE Protocol'
  BY <1>26 DEF KeyboardQuit
<1>27. ASSUME NEW t \in Devices, KeyboardEnd(t) PROVE Protocol'
  BY <1>27 DEF KeyboardEnd
<1>28. ASSUME NEW t \in Devices, AudioSwitch(t) PROVE Protocol'
  BY <1>28 DEF AudioSwitch
<1>29. CASE UNCHANGED vars
  BY <1>29 DEF vars
<1> HIDE DEF IInv, TypeOK, Protocol, Owner, InCritical, AfterDestroy,
      IntrHasSlot, Decided, Wins, Queried, HighestWins, Goto, ProcessAlive, picVars, histVars, Threads
<1> QED
  BY <1>1, <1>2, <1>3, <1>4, <1>5, <1>6, <1>7, <1>8, <1>9, <1>10, <1>11, <1>12, <1>13, <1>14, <1>15, <1>16, <1>17, <1>18, <1>19, <1>20, <1>21, <1>22, <1>23, <1>24, <1>25, <1>26, <1>27, <1>28, <1>29
     DEF Next, CpuStep, Raise, DeviceStep, Terminated

(* IInv is inductive.                                                      *)
THEOREM Invariance == Spec => []IInv
<1>1. IInv /\ [Next]_vars => IInv'
  BY TypeStep, ProtocolStep DEF IInv
<1> QED
  BY InitIInv, <1>1, PTL DEF Spec

(* Type correctness of the model.                                          *)
THEOREM TypeCorrect == Spec => []TypeOK
<1>1. IInv => TypeOK
  BY DEF IInv
<1> QED
  BY <1>1, Invariance, PTL

(* The assertion of cpu.c:145 never fails, for any number of device        *)
(* threads: do_intr reads cpu.intr and the slot without the lock, and still *)
(* never takes a vector that is not there.                                 *)
THEOREM NoSpuriousInterrupt == Spec => []AssertIntrNo
<1>1. IInv => AssertIntrNo
  <2> SUFFICES ASSUME IInv, pc[Cpu] = "ack" PROVE intr_no # I8259_NO_INTR
    BY DEF AssertIntrNo
  <2>1. intr_no \in Vectors
    BY DEF IInv, Protocol, Queried, TypeOK
  <2> QED
    BY <2>1, VectorFacts DEF I8259_NO_INTR
<1> QED
  BY <1>1, Invariance, PTL

(* Until it is destroyed the mutex excludes.                               *)
THEOREM MutexExcludes == Spec => []MutualExclusion
<1>1. IInv => MutualExclusion
  BY DEF IInv, Protocol, Owner, MutualExclusion
<1> QED
  BY <1>1, Invariance, PTL

(* While the mutex exists, the slot holds the highest irq raised since the  *)
(* last acknowledge, although a thread compares and stores in two steps.    *)
THEOREM Arbitration == Spec => []HighestWins
<1>1. IInv => HighestWins
  BY DEF IInv, Protocol
<1> QED
  BY <1>1, Invariance, PTL

(* The threads, the mutex, the slot and the CPU loop implement the mailbox: *)
(* no delivery without a raise since the previous one, and an IDE interrupt *)
(* is never discarded.                                                      *)
THEOREM Refinement == Spec => MailboxSpec
<1>1. Init => Mailbox!Init
  BY DEF Init, Mailbox!Init
<1>2. IInv /\ [Next]_vars => [Mailbox!Next]_<<pending, delivered>>
  <2> SUFFICES ASSUME IInv, [Next]_vars PROVE [Mailbox!Next]_<<pending, delivered>>
    OBVIOUS
  <2>1. CASE AckSlot
    <3>1. Mailbox!Deliver(intr_no)
      BY <2>1 DEF AckSlot, Goto, IInv, Protocol, Queried, Mailbox!Deliver, Mailbox!Discharge
    <3>2. intr_no \in Vectors
      BY <2>1 DEF AckSlot, Goto, IInv, Protocol, Queried, TypeOK
    <3> QED
      BY <3>1, <3>2 DEF Mailbox!Next
  <2>2. ASSUME NEW t \in Threads, RaiseCompare(t) \/ RaiseStore(t)
        PROVE  [Mailbox!Next]_<<pending, delivered>>
    <3>1. Mailbox!Request(VectorOf(t)) \/ UNCHANGED <<pending, delivered>>
      BY <2>2 DEF RaiseCompare, RaiseStore, Mailbox!Request
    <3> QED
      BY <3>1, VectorFacts DEF Mailbox!Next
  <2>3. CASE UNCHANGED <<pending, delivered>>
    BY <2>3
  <2>4. \/ AckSlot
        \/ \E t \in Threads : RaiseCompare(t) \/ RaiseStore(t)
        \/ UNCHANGED <<pending, delivered>>
    <3>1. ASSUME NEW t \in Threads, Raise(t)
          PROVE  RaiseCompare(t) \/ RaiseStore(t) \/ UNCHANGED <<pending, delivered>>
      BY <3>1 DEF Raise, RaiseLock, RaiseLockDestroyed, RaiseIntr, RaiseUnlock, histVars
    <3>2. ASSUME NEW t \in Devices, DeviceStep(t)
          PROVE  UNCHANGED <<pending, delivered>>
      BY <3>2 DEF DeviceStep, TimerIntr, KeyEvent, KeyboardQuit, KeyboardEnd,
                  AudioSwitch, histVars
    <3>3. ASSUME CpuStep PROVE AckSlot \/ UNCHANGED <<pending, delivered>>
      BY <3>3 DEF CpuStep, Command, CmdQuit, LoopTest, ExecInst, HltWake, ScanWatchpoint,
                  DoIntr, Query, AckLock, AckIntr, AckUnlock, Vector, AfterLoop, SetReady,
                  UiTest, CloseSdl, Exit, histVars
    <3>4. ASSUME UNCHANGED vars PROVE UNCHANGED <<pending, delivered>>
      BY <3>4 DEF vars
    <3> QED
      BY <3>1, <3>2, <3>3, <3>4 DEF Next, Terminated
  <2> QED
    BY <2>1, <2>2, <2>3, <2>4
<1> QED
  BY <1>1, <1>2, Invariance, PTL DEF Spec, MailboxSpec, Mailbox!Spec, Mailbox!mailboxVars
=============================================================================
