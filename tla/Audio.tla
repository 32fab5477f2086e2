------------------------------- MODULE Audio --------------------------------
(***************************************************************************)
(* NEMU's audio device between a guest that streams a file (the credits)   *)
(* and SDL's audio callback.  Two chunks: the callback plays one while the *)
(* OUT instruction of the guest fills the other.  When the chunk it plays  *)
(* is empty the callback takes the other one and asks, through switch_buf  *)
(* and AUDIO_Monitor_Thread, for an interrupt that makes the guest write   *)
(* again.                                                                  *)
(*                                                                         *)
(* Threads: "cpu" (NEMU's main thread, which runs the guest), "cb"         *)
(* (fill_audio), "mon" (AUDIO_Monitor_Thread), and workers 0 and 1         *)
(* (AUDIO_CP_Thread).  A step is one access to something two threads       *)
(* share.  The interrupt controller is the mailbox IrqPath implements, with *)
(* the requests of the timer and keyboard threads beside those of the two  *)
(* devices the guest waits for.                                            *)
(***************************************************************************)
EXTENDS Integers, FiniteSets

CONSTANTS
  Lengths,      \* the lengths fread may return for a piece, in bytes
  Take,         \* bytes one callback plays
  Pieces,       \* bound: pieces are numbered modulo this
  OtherVectors  \* what the timer's and the keyboard's threads request: {32, 33}

MaxLen == CHOOSE l \in Lengths : \A k \in Lengths : k <= l

ASSUME LengthsAssumption ==
  Lengths \subseteq Nat /\ IsFiniteSet(Lengths) /\ Lengths # {}
ASSUME TakeAssumption   == Take \in Nat \ {0}
ASSUME PiecesAssumption == Pieces \in Nat /\ Pieces > 2

NUM_AUDIO_WORKER == 2
Workers == 0 .. NUM_AUDIO_WORKER - 1
Chunks  == {0, 1}
Bytes   == 0 .. MaxLen - 1

AUDIO_VECTOR == 34
IDE_VECTOR   == 46
NO_INTR      == 255

ASSUME VectorsAssumption ==
  OtherVectors \subseteq Nat \ {AUDIO_VECTOR, IDE_VECTOR, NO_INTR}

VARIABLES
  audio_chunk,        \* bytes of each chunk that belong to the piece it holds
  audio_len,          \* bytes of each chunk not played yet
  audio_chunk_ready,
  play_idx, fill_idx, \* audio_chunk_play_idx, audio_chunk_fill_idx
  audio_mutex,        \* the thread that holds each mutex, "free" or "destroyed"
  audio_state,        \* 1 paused, 0 playing
  data_len,           \* length of the piece being copied
  audio_active, switch_buf,
  i,                  \* copy_audio_data's loop variable, which the workers read
  idx,                \* what each worker read
  nemu_state,         \* "RUN", "READY" (at the prompt) or "STOP"
  audio_reload,       \* the guest's flag, set by its interrupt handler
  piece,              \* the piece in the guest's buffer
  m,                  \* the mutex handle the OUT handler has loaded
  pc,                 \* where "cpu", "cb" and "mon" are
  worker,             \* where each worker is
  req,                \* the interrupt controller's requests
  stamp,              \* history: the piece each chunk was filled with
  token               \* history: where the request for the next piece is

chunkVars == <<audio_chunk, audio_len, audio_chunk_ready, stamp>>
idxVars   == <<play_idx, fill_idx>>
copyVars  == <<data_len, i, idx, m, worker>>
guestVars == <<audio_reload, piece>>
irqVars   == <<req>>
ctlVars   == <<audio_state, audio_active, nemu_state>>
vars == <<chunkVars, idxVars, copyVars, guestVars, irqVars, ctlVars, audio_mutex,
          switch_buf, pc, token>>

Mailbox == INSTANCE IrqMailbox
  WITH Vectors <- OtherVectors \cup {AUDIO_VECTOR, IDE_VECTOR}, Top <- IDE_VECTOR,
       None <- NO_INTR, delivered <- NO_INTR  \* DoIntr is the delivery

Init ==  \* after audio_start(), with the guest at audio_pause(0)
  /\ audio_chunk = [c \in Chunks |-> {}]
  /\ audio_len = [c \in Chunks |-> 0]
  /\ audio_chunk_ready = [c \in Chunks |-> FALSE]
  /\ play_idx = 0 /\ fill_idx = 0
  /\ audio_mutex = [c \in Chunks |-> "free"]
  /\ audio_state = 1 /\ data_len = 0
  /\ audio_active = FALSE /\ switch_buf = FALSE
  /\ i = 0 /\ idx = [w \in Workers |-> 0]
  /\ nemu_state = "RUN"
  /\ audio_reload = 0 /\ piece = 0 /\ m = 0
  /\ pc = [cpu |-> "boot", cb |-> "idle", mon |-> "none"]
  /\ worker = [w \in Workers |-> "none"]
  /\ Mailbox!Init
  /\ stamp = [c \in Chunks |-> 0]
  /\ token = "none"

Goto(t, from, to) == pc[t] = from /\ pc' = [pc EXCEPT ![t] = to]

\* SDL mutexes are recursive.
CanLock(t, c) == audio_mutex[c] \in {"free", t}
Lock(t, c)    == CanLock(t, c) /\ audio_mutex' = [audio_mutex EXCEPT ![c] = t]
\* Unlocking a mutex another thread holds fails and changes nothing.
Unlocked(t, c) == [audio_mutex EXCEPT ![c] = IF @ = t THEN "free" ELSE @]

-----------------------------------------------------------------------------
(* The CPU thread: monitor, interrupts and guest.                          *)

GuestLabels == {"boot", "wait", "fread", "out", "clear"}

\* do_intr: between two guest instructions.
AtGuest == nemu_state = "RUN" /\ pc["cpu"] \in GuestLabels

\* A guest instruction; a pending interrupt comes first.
Guest(from, to) == nemu_state = "RUN" /\ req = {} /\ Goto("cpu", from, to)

\* irq_handle and audio_event; the IDE's handler is IdeStack's, and those of
\* timer and keyboard do nothing here.  What do_intr queried need not be what
\* i8259_ack_intr finds in the slot: the mailbox delivers any request but
\* passes over no IDE's, and discards the others.
DoIntr ==
  /\ AtGuest
  /\ \E v \in req :
       /\ Mailbox!Discharge(v)
       /\ audio_reload' = IF v = AUDIO_VECTOR THEN 1 ELSE audio_reload
       /\ token' = IF token # "irq" THEN token
                   ELSE IF v = AUDIO_VECTOR THEN "reload" ELSE "lost"
  /\ UNCHANGED <<chunkVars, idxVars, copyVars, piece, ctlVars, audio_mutex, switch_buf, pc>>

\* OUT to AUDIO_CTL.
AudioCtl(cmd) ==
  /\ IF pc["mon"] = "none" /\ cmd = 0
     THEN /\ fill_idx' = 1
          /\ audio_active' = TRUE
          /\ switch_buf' = TRUE
          /\ token' = "switch"
          /\ pc' = [pc EXCEPT !["mon"] = "test", !["cpu"] = "wait"]
     ELSE /\ pc' = [pc EXCEPT !["cpu"] = "wait"]
          /\ UNCHANGED <<fill_idx, audio_active, switch_buf, token>>
  /\ audio_state' = cmd

\* main_loop of the credits up to its loop.
StartPlaying ==
  /\ nemu_state = "RUN" /\ req = {} /\ pc["cpu"] = "boot"
  /\ AudioCtl(0)
  /\ UNCHANGED <<chunkVars, play_idx, copyVars, guestVars, irqVars, nemu_state,
                 audio_mutex>>

\* wait_intr() has returned (the timer sees to that) and audio_reload is set.
TestReload ==
  /\ Guest("wait", "fread")
  /\ audio_reload = 1
  /\ token' = IF token = "reload" THEN "write" ELSE token
  /\ UNCHANGED <<chunkVars, idxVars, copyVars, guestVars, irqVars, ctlVars, audio_mutex,
                 switch_buf>>

\* fread: the next piece comes from the sector cache, or from the disk with
\* an interrupt.
Fread ==
  /\ Guest("fread", "out")
  /\ piece' = (piece + 1) % Pieces
  /\ Mailbox!Request(IDE_VECTOR) \/ UNCHANGED irqVars
  /\ UNCHANGED <<chunkVars, idxVars, copyVars, audio_reload, ctlVars, audio_mutex,
                 switch_buf, token>>

\* OUT to AUDIO_DATA, inside one guest instruction.  The handle is loaded
\* before SDL_LockMutex blocks on it.
LoadMutex ==
  /\ Guest("out", "lock")
  /\ m' = fill_idx
  /\ UNCHANGED <<chunkVars, idxVars, data_len, i, idx, worker, guestVars, irqVars, ctlVars,
                 audio_mutex, switch_buf, token>>

\* (Mutant of LockFill: SDL_LockMutex's failure is not waited for.)
LockFillNoWait ==
  /\ Goto("cpu", "lock", "create")
  /\ data_len' \in Lengths
  /\ UNCHANGED <<chunkVars, idxVars, m, i, idx, worker, guestVars, irqVars, ctlVars, audio_mutex,
                 switch_buf, token>>

LockFill ==
  /\ Goto("cpu", "lock", "create")
  /\ Lock("cpu", m)
  /\ data_len' \in Lengths
  /\ UNCHANGED <<chunkVars, idxVars, m, i, idx, worker, guestVars, irqVars, ctlVars, switch_buf,
                 token>>

copyFrame == <<idxVars, data_len, m, guestVars, irqVars, ctlVars, audio_mutex,
               switch_buf, token>>

\* The two loops of copy_audio_data: one step per store to i, with the call
\* that follows it.
CreateWorkers ==
  /\ pc["cpu"] = "create"
  /\ IF i = 0 /\ worker[0] = "none"
     THEN worker' = [worker EXCEPT ![0] = "start"] /\ UNCHANGED <<i, pc>>
     ELSE IF i = 0
     THEN worker' = [worker EXCEPT ![1] = "start"] /\ i' = 1 /\ UNCHANGED pc
     ELSE Goto("cpu", "create", "rewind") /\ i' = NUM_AUDIO_WORKER /\ UNCHANGED worker
  /\ UNCHANGED <<chunkVars, idx, copyFrame>>

RewindLoop ==
  /\ Goto("cpu", "rewind", "join")
  /\ i' = 0
  /\ UNCHANGED <<chunkVars, idx, worker, copyFrame>>

JoinWorkers ==
  /\ pc["cpu"] = "join" /\ worker[i] = "done"
  /\ worker' = [worker EXCEPT ![i] = "none"] /\ idx' = [idx EXCEPT ![i] = 0]
  /\ IF i = 0
     THEN i' = 1 /\ UNCHANGED <<pc, chunkVars>>
     ELSE /\ Goto("cpu", "join", "unlock")
          /\ i' = 0
          /\ audio_chunk_ready' = [audio_chunk_ready EXCEPT ![fill_idx] = TRUE]
          /\ stamp' = [stamp EXCEPT ![fill_idx] = piece]
          /\ UNCHANGED <<audio_chunk, audio_len>>
  /\ UNCHANGED copyFrame

UnlockFill ==
  /\ Goto("cpu", "unlock", "clear")
  /\ audio_len' = [audio_len EXCEPT ![fill_idx] = data_len]
  /\ audio_mutex' = Unlocked("cpu", fill_idx)
  /\ m' = 0
  /\ UNCHANGED <<audio_chunk, audio_chunk_ready, stamp, idxVars, data_len, i, idx, worker,
                 guestVars, irqVars, ctlVars, switch_buf, token>>

\* audio_reload = 0 discards what the handler has set since the test.
ClearReload ==
  /\ Guest("clear", "wait")
  /\ audio_reload' = 0
  /\ token' = IF token = "reload" THEN "lost" ELSE token
  /\ UNCHANGED <<chunkVars, idxVars, copyVars, piece, irqVars, ctlVars, audio_mutex,
                 switch_buf>>

\* A break returns to the prompt, c goes on; the keyboard thread or a
\* nemu_trap stops.
StateChange ==
  /\ pc["cpu"] \notin {"close", "closed"}
  /\ \/ AtGuest /\ nemu_state' = "READY"
     \/ nemu_state = "READY" /\ nemu_state' = "RUN"
     \/ nemu_state \in {"RUN", "READY"} /\ nemu_state' = "STOP"
  /\ UNCHANGED <<chunkVars, idxVars, copyVars, guestVars, irqVars, audio_state,
                 audio_active, audio_mutex, switch_buf, pc, token>>

\* main() goes on to close_sdl() after STOP or q: audio_stop() up to
\* SDL_CloseAudio, which makes SDL start no further callback ...
AudioStop ==
  /\ pc["cpu"] \in GuestLabels /\ nemu_state # "RUN"
  /\ pc' = [pc EXCEPT !["cpu"] = "close"]
  /\ audio_active' = FALSE
  /\ UNCHANGED <<chunkVars, idxVars, copyVars, guestVars, irqVars, audio_state, nemu_state,
                 audio_mutex, switch_buf, token>>

\* ... and waits for the one that is running, and the two SDL_DestroyMutex.
CloseAudio ==
  /\ pc["cpu"] = "close" /\ pc["cb"] = "idle"
  /\ pc' = [pc EXCEPT !["cpu"] = "closed", !["cb"] = "none"]
  /\ audio_mutex' = [c \in Chunks |-> "destroyed"]
  /\ UNCHANGED <<chunkVars, idxVars, copyVars, guestVars, irqVars, ctlVars, switch_buf,
                 token>>

-----------------------------------------------------------------------------
(* The timer thread, every 10 ms while NEMU runs, and the keyboard thread.  *)
(* do_intr looks at requests between two instructions only: one that comes  *)
(* inside an instruction is as one that comes just before the next look.    *)

RaiseOther(v) ==
  /\ v \in OtherVectors
  /\ AtGuest
  /\ Mailbox!Request(v)
  /\ UNCHANGED <<chunkVars, idxVars, copyVars, guestVars, ctlVars, audio_mutex, switch_buf, pc,
                 token>>

-----------------------------------------------------------------------------
(* AUDIO_CP_Thread.                                                        *)

\* int idx = *(int *)ptr
WorkerGoto(w, from, to) == worker[w] = from /\ worker' = [worker EXCEPT ![w] = to]

ReadIdx(w) ==
  /\ WorkerGoto(w, "start", "copy")
  /\ idx' = [idx EXCEPT ![w] = i]
  /\ UNCHANGED <<chunkVars, idxVars, data_len, i, m, guestVars, irqVars, ctlVars,
                 audio_mutex, switch_buf, pc, token>>

\* With idx = 2 the last of these is a byte beyond the piece.
Copied(w) == {k * NUM_AUDIO_WORKER + idx[w] : k \in 0 .. data_len \div NUM_AUDIO_WORKER - 1}

Copy(w) ==
  /\ WorkerGoto(w, "copy", "done")
  /\ audio_chunk' = [audio_chunk EXCEPT ![fill_idx] = @ \cup (Copied(w) \cap Bytes)]
  /\ UNCHANGED <<audio_len, audio_chunk_ready, stamp, idxVars, data_len, i, idx, m, guestVars,
                 irqVars, ctlVars, audio_mutex, switch_buf, pc, token>>

-----------------------------------------------------------------------------
(* AUDIO_Monitor_Thread.                                                   *)

monFrame == <<chunkVars, idxVars, copyVars, guestVars, ctlVars, audio_mutex>>

RaiseIntr ==
  /\ Goto("mon", "test", "raised")
  /\ audio_active /\ switch_buf
  /\ Mailbox!Request(AUDIO_VECTOR)
  /\ token' = IF token = "switch" THEN "irq" ELSE token
  /\ UNCHANGED <<monFrame, switch_buf>>

\* Discards a switch requested since the raise.
ClearSwitch ==
  /\ Goto("mon", "raised", "test")
  /\ switch_buf' = FALSE
  /\ token' = IF token = "switch" THEN "lost" ELSE token
  /\ UNCHANGED <<monFrame, irqVars>>

MonitorEnd ==
  /\ Goto("mon", "test", "done")
  /\ ~audio_active
  /\ UNCHANGED <<monFrame, irqVars, switch_buf, token>>

-----------------------------------------------------------------------------
(* fill_audio, called by SDL while the device is open and not paused.      *)

cbFrame == <<audio_chunk, stamp, copyVars, guestVars, irqVars, ctlVars>>

\* (Mutant of Emptied: the chunk stays ready.)
EmptiedReady == audio_chunk_ready
Emptied == [audio_chunk_ready EXCEPT ![play_idx] = FALSE]

\* The chunk being played has bytes left, or the other chunk is needed.
LockPlay ==
  /\ pc["cb"] = "idle"
  /\ audio_state = 0 /\ pc["cpu"] # "close"
  /\ Lock("cb", play_idx)
  /\ IF audio_len[play_idx] > 0 /\ audio_chunk_ready[play_idx]
     THEN Goto("cb", "idle", "mix") /\ UNCHANGED <<audio_chunk, audio_chunk_ready>>
     ELSE /\ Goto("cb", "idle", "lock")
          /\ audio_chunk_ready' = Emptied
          /\ audio_chunk' = [audio_chunk EXCEPT ![play_idx] = {}]
  /\ UNCHANGED <<stamp, copyVars, guestVars, irqVars, ctlVars, audio_len, idxVars, switch_buf,
                 token>>

LockNext ==
  /\ Goto("cb", "lock", "poll")
  /\ Lock("cb", fill_idx)
  /\ UNCHANGED <<cbFrame, audio_len, audio_chunk_ready, idxVars, switch_buf, token>>

\* After STOP the callback returns with whatever it holds.  (Mutant of
\* AfterPoll: it does not test for STOP.)
AfterPollReady == IF audio_chunk_ready[fill_idx] THEN "switch" ELSE "lock"
AfterPoll ==
  IF nemu_state = "STOP" THEN "idle"
  ELSE IF audio_chunk_ready[fill_idx] THEN "switch" ELSE "lock"

Poll ==
  /\ Goto("cb", "poll", AfterPoll)
  /\ audio_mutex' = IF audio_chunk_ready[fill_idx] THEN audio_mutex
                    ELSE Unlocked("cb", fill_idx)
  /\ UNCHANGED <<cbFrame, audio_len, audio_chunk_ready, idxVars, switch_buf, token>>

\* (Mutant of NextFill: the wrong chunk.)
NextPlay == (play_idx + 1) % 2
NextFillSame == fill_idx
NextFill == play_idx

Switch ==
  /\ Goto("cb", "switch", "request")
  /\ fill_idx' = NextFill
  /\ play_idx' = NextPlay
  /\ audio_mutex' = Unlocked("cb", fill_idx')
  /\ UNCHANGED <<cbFrame, audio_len, audio_chunk_ready, switch_buf, token>>

\* (Mutant of RequestNext: the flag is not set.)
RequestNothing ==
  /\ Goto("cb", "request", "mix")
  /\ token' = "switch"
  /\ UNCHANGED <<cbFrame, audio_len, audio_chunk_ready, idxVars, audio_mutex, switch_buf>>

RequestNext ==
  /\ Goto("cb", "request", "mix")
  /\ switch_buf' = TRUE
  /\ token' = "switch"
  /\ UNCHANGED <<cbFrame, audio_len, audio_chunk_ready, idxVars, audio_mutex>>

Mix ==
  /\ Goto("cb", "mix", "idle")
  /\ audio_len' = [audio_len EXCEPT ![play_idx] = IF Take > @ THEN 0 ELSE @ - Take]
  /\ audio_mutex' = Unlocked("cb", play_idx)
  /\ UNCHANGED <<cbFrame, audio_chunk_ready, idxVars, switch_buf, token>>

-----------------------------------------------------------------------------
GuestStep == StartPlaying \/ TestReload \/ Fread \/ LoadMutex \/ ClearReload

CpuStep ==
  \/ DoIntr \/ GuestStep \/ LockFill \/ CreateWorkers \/ RewindLoop \/ JoinWorkers \/ UnlockFill

WorkerStep == \E w \in Workers : ReadIdx(w) \/ Copy(w)

MonitorStep == RaiseIntr \/ ClearSwitch \/ MonitorEnd

CallbackStep ==
  LockPlay \/ LockNext \/ Poll \/ Switch \/ RequestNext \/ Mix

Next == CpuStep \/ StateChange \/ AudioStop \/ CloseAudio \/ WorkerStep \/ MonitorStep
        \/ CallbackStep \/ \E v \in OtherVectors : RaiseOther(v)

Spec == Init /\ [][Next]_vars

(* The OS schedules every thread; the callback sleeps 1 ms between two     *)
(* tries of the mutex the guest waits for, and the timer thread 10 ms      *)
(* between two ticks, in which the CPU thread leaves the handler and gets  *)
(* on with the program; nobody types faster.  A user at the prompt of a    *)
(* stopped NEMU enters something.  Nothing is assumed of anyone else.      *)
Fairness ==
  /\ WF_vars(CpuStep) /\ SF_vars(GuestStep) /\ SF_vars(LockFill)
  /\ \A w \in Workers : WF_vars(ReadIdx(w) \/ Copy(w))
  /\ WF_vars(MonitorStep)
  /\ WF_vars(CallbackStep)
  /\ WF_vars(nemu_state = "STOP" /\ AudioStop) /\ WF_vars(CloseAudio)

FairSpec == Spec /\ Fairness

-----------------------------------------------------------------------------
(* Properties.                                                             *)

\* fill_audio's assertion (audio.c:122): whenever SDL may call it, the chunk
\* it plays is not the one the guest fills.
AssertIdx == audio_state = 0 /\ pc["cb"] = "idle" => play_idx # fill_idx

\* The OUT handler loads the mutex by audio_chunk_fill_idx, blocks on it, and
\* uses audio_chunk_fill_idx again to copy and to unlock (audio.c:99-110): the
\* chunk it fills is the one it locked, and nobody else holds it.
Filling == pc["cpu"] \in {"create", "rewind", "join", "unlock"}
FillsWhatItLocked == Filling => m = fill_idx /\ audio_mutex[m] = "cpu"

\* Pieces are played in the order they were written, each once, and a chunk is
\* not written again before it was played.
Written == IF audio_chunk_ready[fill_idx] THEN stamp[fill_idx] ELSE stamp[play_idx]
Feed == INSTANCE AudioFeed WITH written <- Written, playing <- stamp[play_idx]
FeedSpec == Feed!Spec

\* Closing the window or a nemu_trap ends the process although the callback may
\* be waiting for a chunk and return with mutexes locked.
StopCloses == nemu_state = "STOP" ~> pc["cpu"] = "closed"

\* While NEMU runs the sound goes on, chunk after chunk, unless a request for
\* the next piece got lost at one of four places: AUDIO_Monitor_Thread cleared a
\* switch it had not raised, the IDE's interrupt displaced the audio interrupt,
\* do_intr acknowledged it away after it had queried the timer's or the
\* keyboard's (cpu.c:143-146), or the guest cleared a reload it had not served.
StallsOnlyByLoss ==
  <>[](nemu_state = "RUN") => []<>(pc["cb"] = "request") \/ <>(token = "lost")

\* audio.c:164: the chunk taken for playing "should be already ready", with
\* every byte of the piece in it.
ReadyIsComplete ==
  pc["cb"] = "request" =>
    0 .. audio_len[play_idx] - 1 \subseteq audio_chunk[play_idx]
=============================================================================
