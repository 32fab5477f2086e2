---------------------------- MODULE Audio_proofs ----------------------------
(* Proofs about Audio: for pieces of any lengths, any number of bytes per  *)
(* callback, and any interleaving of guest, callback and threads.          *)
EXTENDS Audio, TLAPS

GuestCalls    == {"lock", "create", "rewind", "join", "unlock"}
CpuLabels     == GuestLabels \cup GuestCalls \cup {"close", "closed"}
CbLabels      == {"idle", "lock", "poll", "switch", "request", "mix", "none"}
MonLabels     == {"none", "test", "raised", "done"}

Shape ==
  /\ pc \in [{"cpu", "cb", "mon"} -> CpuLabels \cup CbLabels \cup MonLabels]
  /\ pc["cpu"] \in CpuLabels /\ pc["cb"] \in CbLabels /\ pc["mon"] \in MonLabels
  /\ play_idx \in Chunks /\ fill_idx \in Chunks /\ m \in Chunks
  /\ audio_mutex \in [Chunks -> {"free", "cpu", "cb", "destroyed"}]
  /\ audio_chunk_ready \in [Chunks -> BOOLEAN]
  /\ DOMAIN stamp = Chunks
  /\ audio_state \in {0, 1} /\ audio_reload \in {0, 1} /\ switch_buf \in BOOLEAN

(* Where the request for the next piece may be: in switch_buf, in the      *)
(* interrupt controller, in the guest's flag, or being served.             *)
Asked   == switch_buf /\ pc["mon"] = "test"
Raised  == AUDIO_VECTOR \in req
Told    == audio_reload = 1 /\ pc["cpu"] \in {"boot", "wait"}
Serving == pc["cpu"] \in {"fread", "out", "lock", "create", "rewind", "join"}
Nowhere == ~Asked /\ ~Raised /\ ~Told /\ ~Serving

(* Until the guest starts the device nothing happens; then the callback    *)
(* never plays the chunk that is to be filled.                             *)
Started ==
  /\ audio_state = 1 =>
       /\ pc["cpu"] \in {"boot", "close", "closed"} /\ pc["cb"] \in {"idle", "none"}
       /\ pc["mon"] = "none" /\ ~Raised /\ audio_reload = 0
       /\ play_idx = 0 /\ \A c \in Chunks : ~audio_chunk_ready[c]
  /\ audio_state = 0 => pc["cpu"] # "boot" /\ play_idx # fill_idx

(* The request is in one place at most, and nowhere once the chunk to be   *)
(* filled is ready, until the callback has switched and asks again.        *)
OneRequest ==
  /\ Asked => ~Raised /\ ~Told /\ ~Serving
  /\ Raised => ~Told /\ ~Serving
  /\ audio_chunk_ready[fill_idx] \/ pc["cb"] \in {"switch", "request"} => Nowhere

(* What the callback and the OUT instruction know of the chunks.           *)
Ready ==
  /\ pc["cb"] \in {"lock", "poll", "switch"} => ~audio_chunk_ready[play_idx]
  /\ pc["cb"] = "switch" => audio_chunk_ready[fill_idx]
  /\ pc["cb"] = "request" => ~audio_chunk_ready[fill_idx]
  /\ pc["cpu"] = "unlock" => audio_chunk_ready[fill_idx]

(* Who holds the mutex of the chunk to be filled.                          *)
Held ==
  /\ pc["cpu"] \in GuestCalls => m = fill_idx
  /\ Filling => audio_mutex[fill_idx] = "cpu"
  /\ pc["cb"] \in {"poll", "switch"} => audio_mutex[fill_idx] = "cb"

(* The piece the guest holds, against the pieces in the chunks.            *)
Order ==
  /\ audio_chunk_ready[fill_idx] =>
       /\ stamp[fill_idx] = Feed!Following(stamp[play_idx])
       /\ piece = stamp[fill_idx]
  /\ ~audio_chunk_ready[fill_idx] =>
       /\ pc["cpu"] \in {"boot", "wait", "fread", "clear"} => piece = stamp[play_idx]
       /\ pc["cpu"] \in {"out", "lock", "create", "rewind", "join"} =>
            piece = Feed!Following(stamp[play_idx])

AudioInv == Shape /\ Started /\ OneRequest /\ Ready /\ Held /\ Order

(* The initial state satisfies the invariant.                              *)
LEMMA InitAudio == Init => AudioInv
<1> SUFFICES ASSUME Init PROVE AudioInv
  OBVIOUS
<1> USE DEF Init, Chunks
<1>1. pc = [t \in {"cpu", "cb", "mon"} |->
              IF t = "cpu" THEN "boot" ELSE IF t = "cb" THEN "idle" ELSE "none"]
  OBVIOUS
<1>2. Shape
  BY <1>1 DEF Shape, CpuLabels, CbLabels, MonLabels, GuestLabels, GuestCalls
<1>3. Started
  BY DEF Started, Raised, Mailbox!Init
<1>4. OneRequest /\ Ready /\ Held /\ Order
  BY DEF OneRequest, Asked, Raised, Told, Serving, Nowhere, Ready, Held, Order, Filling,
         GuestCalls, Mailbox!Init
<1> QED
  BY <1>2, <1>3, <1>4 DEF AudioInv

(* The ready flags stay flags.                                             *)
LEMMA ReadyFlags ==
  ASSUME NEW f \in [Chunks -> BOOLEAN], NEW c \in Chunks, NEW b \in BOOLEAN
  PROVE  [f EXCEPT ![c] = b] \in [Chunks -> BOOLEAN]
OBVIOUS

(* Every step keeps the invariant.                                         *)
LEMMA AudioStep == AudioInv /\ [Next]_vars => AudioInv'
<1> SUFFICES ASSUME AudioInv, [Next]_vars PROVE AudioInv'
  OBVIOUS
<1> USE DEF AudioInv, Shape, CpuLabels, CbLabels, MonLabels, GuestLabels, GuestCalls, Chunks,
            Started, OneRequest, Asked, Raised, Told, Serving, Nowhere, Ready, Held, Filling,
            Order, Feed!Following, Goto,
            cbFrame, copyVars, guestVars, irqVars, ctlVars, chunkVars, idxVars
<1>1. CASE StartPlaying
  <2>1. pc' \in [{"cpu", "cb", "mon"} -> CpuLabels \cup CbLabels \cup MonLabels]
    BY <1>1 DEF StartPlaying, AudioCtl
  <2>2. Shape'
    BY <1>1, <2>1 DEF StartPlaying, AudioCtl
  <2>3. Started'
    BY <1>1 DEF StartPlaying, AudioCtl
  <2>4. OneRequest'
    BY <1>1 DEF StartPlaying, AudioCtl
  <2>5. Ready'
    BY <1>1 DEF StartPlaying, AudioCtl
  <2>6. Held'
    BY <1>1 DEF StartPlaying, AudioCtl
  <2>7. Order'
    BY <1>1 DEF StartPlaying, AudioCtl
  <2> QED
    BY <2>2, <2>3, <2>4, <2>5, <2>6, <2>7
<1>2. CASE DoIntr
  BY <1>2 DEF DoIntr, Mailbox!Discharge, AtGuest, GuestLabels, IDE_VECTOR, AUDIO_VECTOR
<1>3. CASE TestReload
  BY <1>3 DEF TestReload, Guest
<1>4. CASE Fread
  BY <1>4 DEF Fread, Guest, Mailbox!Request, IDE_VECTOR, AUDIO_VECTOR
<1>5. CASE LoadMutex
  BY <1>5 DEF LoadMutex, Guest
<1>6. CASE LockFill
  BY <1>6 DEF LockFill, Lock, CanLock
<1>7. CASE CreateWorkers
  BY <1>7 DEF CreateWorkers, copyFrame
<1>8. CASE RewindLoop
  BY <1>8 DEF RewindLoop, copyFrame
<1>9. CASE JoinWorkers
  <2>1. audio_chunk_ready' \in {audio_chunk_ready,
                               [audio_chunk_ready EXCEPT ![fill_idx] = TRUE]}
    BY <1>9 DEF JoinWorkers, copyFrame
  <2>2. audio_chunk_ready' \in [Chunks -> BOOLEAN]
    <3>1. fill_idx \in Chunks /\ audio_chunk_ready \in [Chunks -> BOOLEAN]
      OBVIOUS
    <3> HIDE DEF AudioInv, Chunks
    <3> QED
      BY <2>1, <3>1, ReadyFlags, Zenon
  <2>3. Shape'
    BY <1>9, <2>2 DEF JoinWorkers, copyFrame
  <2>4. Started'
    BY <1>9, <2>2 DEF JoinWorkers, copyFrame
  <2>5. OneRequest'
    BY <1>9, <2>2 DEF JoinWorkers, copyFrame
  <2>6. Ready'
    BY <1>9, <2>2 DEF JoinWorkers, copyFrame
  <2>7. Held'
    BY <1>9, <2>2 DEF JoinWorkers, copyFrame
  <2>8. Order'
    BY <1>9, <2>2 DEF JoinWorkers, copyFrame
  <2> QED
    BY <2>3, <2>4, <2>5, <2>6, <2>7, <2>8
<1>10. CASE UnlockFill
  BY <1>10 DEF UnlockFill, Unlocked
<1>11. CASE ClearReload
  BY <1>11 DEF ClearReload, Guest
<1>12. CASE StateChange
  BY <1>12 DEF StateChange
<1>13. CASE AudioStop
  BY <1>13 DEF AudioStop, GuestLabels
<1>14. CASE CloseAudio
  BY <1>14 DEF CloseAudio
<1>15. CASE WorkerStep
  BY <1>15 DEF WorkerStep, ReadIdx, Copy, WorkerGoto
<1>16. CASE RaiseIntr
  BY <1>16 DEF RaiseIntr, Mailbox!Request, monFrame
<1>17. CASE ClearSwitch
  <2>1. Shape'
    BY <1>17 DEF ClearSwitch, monFrame
  <2>2. Started'
    BY <1>17 DEF ClearSwitch, monFrame
  <2>3. OneRequest'
    BY <1>17 DEF ClearSwitch, monFrame
  <2>4. Ready'
    BY <1>17 DEF ClearSwitch, monFrame
  <2>5. Held'
    BY <1>17 DEF ClearSwitch, monFrame
  <2>6. Order'
    BY <1>17 DEF ClearSwitch, monFrame
  <2> QED
    BY <2>1, <2>2, <2>3, <2>4, <2>5, <2>6
<1>18. CASE MonitorEnd
  BY <1>18 DEF MonitorEnd, monFrame
<1>19. CASE LockPlay
  <2>1. audio_chunk_ready' \in {audio_chunk_ready,
                               [audio_chunk_ready EXCEPT ![play_idx] = FALSE]}
    BY <1>19 DEF LockPlay, Emptied, Lock, CanLock
  <2>2. audio_chunk_ready' \in [Chunks -> BOOLEAN]
    <3>1. play_idx \in Chunks /\ audio_chunk_ready \in [Chunks -> BOOLEAN]
      OBVIOUS
    <3> HIDE DEF AudioInv, Chunks
    <3> QED
      BY <2>1, <3>1, ReadyFlags, Zenon
  <2>3. Shape'
    BY <1>19, <2>2 DEF LockPlay, Emptied, Lock, CanLock
  <2>4. Started'
    BY <1>19, <2>2 DEF LockPlay, Emptied, Lock, CanLock
  <2>5. OneRequest'
    BY <1>19, <2>2 DEF LockPlay, Emptied, Lock, CanLock
  <2>6. Ready'
    BY <1>19, <2>2 DEF LockPlay, Emptied, Lock, CanLock
  <2>7. Held'
    BY <1>19, <2>2 DEF LockPlay, Emptied, Lock, CanLock
  <2>8. Order'
    BY <1>19, <2>2 DEF LockPlay, Emptied, Lock, CanLock
  <2> QED
    BY <2>3, <2>4, <2>5, <2>6, <2>7, <2>8
<1>20. CASE LockNext
  BY <1>20 DEF LockNext, Lock, CanLock
<1>21. CASE Poll
  BY <1>21 DEF Poll, AfterPoll, Unlocked
<1>22. CASE Switch
  BY <1>22 DEF Switch, NextFill, NextPlay, Unlocked
<1>23. CASE RequestNext
  BY <1>23 DEF RequestNext
<1>24. CASE Mix
  BY <1>24 DEF Mix, Unlocked
<1>25. CASE \E v \in OtherVectors : RaiseOther(v)
  <2>1. Raised' <=> Raised
    BY <1>25, VectorsAssumption DEF RaiseOther, Mailbox!Request
  <2> HIDE DEF Raised
  <2> QED
    BY <1>25, <2>1 DEF RaiseOther
<1>26. CASE UNCHANGED vars
  BY <1>26 DEF vars
<1> QED
  BY <1>1, <1>2, <1>3, <1>4, <1>5, <1>6, <1>7, <1>8, <1>9, <1>10, <1>11, <1>12, <1>13,
     <1>14, <1>15, <1>16, <1>17, <1>18, <1>19, <1>20, <1>21, <1>22, <1>23, <1>24, <1>25, <1>26
     DEF Next, CpuStep, GuestStep, CallbackStep, MonitorStep

(* AudioInv is an invariant.                                               *)
LEMMA AudioInvariance == Spec => []AudioInv
BY InitAudio, AudioStep, PTL DEF Spec

(* For pieces and callbacks of any size the assertion of fill_audio        *)
(* (audio.c:122) holds: the chunk it plays is not the one the guest fills.  *)
THEOREM PlayIsNotFill == Spec => []AssertIdx
<1>1. AudioInv => AssertIdx
  BY DEF AudioInv, Started, AssertIdx
<1> QED
  BY <1>1, AudioInvariance, PTL

(* The OUT handler may use audio_chunk_fill_idx again after it blocked on   *)
(* the mutex it loaded by it (audio.c:99-110): no switch comes in between.  *)
THEOREM FillHoldsItsMutex == Spec => []FillsWhatItLocked
<1>1. AudioInv => FillsWhatItLocked
  BY DEF AudioInv, Held, Filling, GuestCalls, FillsWhatItLocked
<1> QED
  BY <1>1, AudioInvariance, PTL

(* The two chunks, their mutexes and the request that travels from callback *)
(* to guest implement AudioFeed: pieces are played in the order they were   *)
(* written and once, and none is overwritten before it was played.          *)
THEOREM FeedRefinement == Spec => FeedSpec
<1> DEFINE playing == stamp[play_idx]
<1>1. Init => Written = 0 /\ playing = 0
  BY DEF Init, Written, Chunks
<1>2. AudioInv /\ AudioInv' /\ [Next]_vars => [Feed!Next]_<<Written, playing>>
  <2> SUFFICES ASSUME AudioInv, AudioInv', [Next]_vars
               PROVE  [Feed!Next]_<<Written, playing>>
    OBVIOUS
  <2> USE DEF Goto
  <2>1. CASE JoinWorkers /\ pc' # pc
    <3>1. /\ ~audio_chunk_ready[fill_idx] /\ piece = Feed!Following(playing)
          /\ audio_chunk_ready[fill_idx]' /\ stamp'[fill_idx] = piece
          /\ UNCHANGED <<fill_idx, play_idx>>
      BY <2>1 DEF JoinWorkers, copyFrame, chunkVars, idxVars, AudioInv, Shape, OneRequest,
                  Nowhere, Serving, Order
    <3>2. play_idx # fill_idx
      BY <2>1 DEF JoinWorkers, AudioInv, Shape, Started
    <3>3. UNCHANGED playing
      BY <2>1, <3>1, <3>2 DEF JoinWorkers, AudioInv, Shape
    <3> QED
      BY <3>1, <3>3 DEF Written, Feed!Next, Feed!Write
  <2>2. CASE Switch
    <3>1. audio_chunk_ready[fill_idx] /\ ~audio_chunk_ready[play_idx]
      BY <2>2 DEF Switch, AudioInv, Ready
    <3>2. play_idx' = fill_idx /\ fill_idx' = play_idx
      BY <2>2 DEF Switch, AudioInv, Shape, Started, Chunks, NextPlay, NextFill
    <3>3. UNCHANGED <<audio_chunk_ready, stamp>>
      BY <2>2 DEF Switch, cbFrame
    <3> QED
      BY <3>1, <3>2, <3>3 DEF AudioInv, Order, Written, Feed!Next, Feed!Switch
  <2>3. CASE StartPlaying
    <3>1. ~audio_chunk_ready[fill_idx] /\ ~audio_chunk_ready'[fill_idx']
      BY <2>3 DEF StartPlaying, AudioCtl, chunkVars, AudioInv, Shape, Started, Chunks
    <3> QED
      BY <2>3, <3>1 DEF StartPlaying, chunkVars, Written
  <2>4. CASE LockPlay
    <3>1. audio_chunk_ready'[fill_idx] = audio_chunk_ready[fill_idx]
      BY <2>4 DEF LockPlay, Emptied, AudioInv, Shape, Started
    <3> QED
      BY <2>4, <3>1 DEF LockPlay, idxVars, Written
  <2>5. CASE UNCHANGED <<fill_idx, play_idx, audio_chunk_ready, stamp>>
    BY <2>5 DEF Written
  <2>6. \/ (JoinWorkers /\ pc' # pc) \/ Switch \/ StartPlaying \/ LockPlay
        \/ UNCHANGED <<fill_idx, play_idx, audio_chunk_ready, stamp>>
    BY DEF Next, CpuStep, GuestStep, CallbackStep, MonitorStep, WorkerStep, vars, chunkVars,
           idxVars, RaiseOther,
           cbFrame, monFrame, copyFrame, DoIntr, TestReload, Fread, LoadMutex, LockFill,
           CreateWorkers, RewindLoop, JoinWorkers, UnlockFill, ClearReload, StateChange,
           AudioStop, CloseAudio, ReadIdx, Copy, RaiseIntr, ClearSwitch, MonitorEnd,
           LockNext, Poll, RequestNext, Mix, AudioInv, Shape
  <2> QED
    BY <2>1, <2>2, <2>3, <2>4, <2>5, <2>6
<1> QED
  BY <1>1, <1>2, AudioInvariance, PTL DEF Spec, FeedSpec, Feed!Spec, Feed!feedVars
=============================================================================
