------------------------------- MODULE Typing -------------------------------
(***************************************************************************)
(* The typing game on NEMU: the keyboard thread's scan code buffer, the    *)
(* game's two interrupt handlers and its main loop, which share tick,      *)
(* key_code and letter_pressed.  NEMU's interrupt gates leave IF set, so   *)
(* the handlers interrupt each other and themselves.                       *)
(*                                                                         *)
(* One CPU runs a stack of contexts, the main loop at the bottom.  A step  *)
(* is one access to something two contexts share, as the game is built     *)
(* without optimisation.  Between cli() and sti() only the main loop runs, *)
(* and what it does there is one step.  The interrupt controller is what   *)
(* is left of IrqMailbox without the IDE: a set of requests, all of which  *)
(* the delivery of one discards.                                           *)
(***************************************************************************)
EXTENDS Integers, Sequences, SequencesExt

CONSTANTS
  Keys,          \* letters, the keys that type them and their scan codes
  NoKey,         \* none of them
  CREATE_PERIOD, \* HZ / CHARACTER_PER_SECOND: ticks between two letters
  Bottom,        \* updates until a letter leaves the screen below (385)
  Rise,          \* how much faster a letter that was hit flies up (6)
  MaxNest,       \* bound: contexts on the stack
  MaxBehind      \* bound: ticks the game is behind when another one comes

ASSUME TypingAssumption ==
  /\ NoKey \notin Keys
  /\ {CREATE_PERIOD, Bottom, Rise, MaxNest, MaxBehind} \subseteq Nat \ {0}
  /\ CREATE_PERIOD > 1

(* Bound: tick, target and now count modulo Cycle, a multiple of the       *)
(* period.  It is twice what the game can be behind at least, so that a    *)
(* tick that falls behind `now' does not look like one that is ahead.      *)
Cycle == CREATE_PERIOD * (MaxBehind + 1)
Plus1(n) == (n + 1) % Cycle

TIMER_VECTOR    == 32
KEYBOARD_VECTOR == 33

VARIABLES
  scan_code_buf,   \* the keyboard device's data port
  kbd,             \* the keyboard thread: "poll", or "raise" after a store
  eflags_IF,       \* EFLAGS.IF
  stack,           \* contexts, the running one last
  tick,            \* counted by timer_event
  key_code,        \* stored by keyboard_event
  letter_pressed,  \* set by keyboard_event, cleared by the main loop
  now, target,     \* the main loop's locals
  letters,         \* the list from head on: newest first
  req,             \* vectors requested since the previous delivery
  ticks,           \* history: tick when the main loop ran last, and every timer
                   \* interrupt taken since, unless one is ...
  nested,          \* history: ... taken inside another one's increment
  stroke           \* history: a key that went down and is to hit a letter

device   == <<scan_code_buf, kbd>>
gameVars == <<now, target, letters>>
history  == <<ticks, nested, stroke>>
vars == <<scan_code_buf, kbd, eflags_IF, stack, tick, key_code, letter_pressed, now, target,
          letters, req, ticks, nested, stroke>>

\* A scan code: `up' is the bit 0x80 of a key that was released.
ScanCodes == [key : Keys, up : BOOLEAN]
NoScan    == [key |-> NoKey, up |-> TRUE]

\* A context: where it is, and the register it holds a loaded value in.
Context(at) == [pc |-> at, eax |-> 0]

Running == stack[Len(stack)]
Main    == stack[1]
Load(at, value) == stack' = [stack EXCEPT ![Len(stack)] = [pc |-> at, eax |-> value]]
Goto(at) == Load(at, 0)
\* The last access of a handler, and IRET.
Return ==
  /\ stack' = Front(stack)
  /\ IF Len(stack) = 2 THEN ticks' = tick' /\ nested' = FALSE ELSE UNCHANGED <<ticks, nested>>

\* do_intr takes a pending interrupt before the next instruction.
At(label) == Running.pc = label /\ (eflags_IF => req = {})

Falls(ls, k) == \E i \in DOMAIN ls : ls[i].text = k /\ ~ls[i].up

Behind == (tick - now) % Cycle

Init ==  \* main_loop, after game_init registered the handlers
  /\ scan_code_buf = NoScan /\ kbd = "poll"
  /\ eflags_IF = TRUE
  /\ stack = <<Context("loop")>>
  /\ tick = 0 /\ now = 0 /\ target = 0
  /\ key_code = NoScan
  /\ letter_pressed = [k \in Keys |-> FALSE]
  /\ letters = <<>>
  /\ ticks = 0 /\ nested = FALSE /\ stroke = NoKey
  /\ req = {}

-----------------------------------------------------------------------------
(* NEMU: the keyboard thread, the timer thread, the interrupt entry.       *)

\* A key whose press is not recorded yet can no longer be relied on.
Forget == stroke' = IF stroke \in Keys /\ ~letter_pressed[stroke] THEN NoKey ELSE stroke

\* keyboard_down and keyboard_up: the buffer, whether it was read or not.
KeyEvent ==
  /\ kbd = "poll"
  /\ scan_code_buf' \in ScanCodes
  /\ kbd' = "raise"
  /\ Forget
  /\ UNCHANGED <<eflags_IF, stack, tick, key_code, letter_pressed, gameVars, req, ticks, nested>>

\* The interrupt, while the bound on the stack leaves room for it.
KeyRaise ==
  /\ kbd = "raise" /\ Len(stack) < MaxNest
  /\ req' = req \cup {KEYBOARD_VECTOR}
  /\ kbd' = "poll"
  /\ stroke' = IF ~scan_code_buf.up /\ Falls(letters, scan_code_buf.key)
               THEN scan_code_buf.key ELSE stroke
  /\ UNCHANGED <<scan_code_buf, eflags_IF, stack, tick, key_code, letter_pressed, gameVars, ticks, nested>>

TicksUnderWay == Cardinality({i \in DOMAIN stack : stack[i].pc \in {"tick_load", "tick_store"}})

\* The bound leaves out no tick that wakes the game: a tick that comes
\* between Sample and WaitIntr only counts, and the game waits for the next.
Tick ==
  /\ Len(stack) < MaxNest
  /\ TIMER_VECTOR \notin req
  /\ Behind + TicksUnderWay < MaxBehind \/ Running.pc = "halted"
  /\ req' = req \cup {TIMER_VECTOR}
  /\ UNCHANGED <<device, eflags_IF, stack, tick, key_code, letter_pressed, gameVars, history>>

HandlerOf(v) == IF v = TIMER_VECTOR THEN "tick_load" ELSE "key_in"

\* A context that waits in HLT goes on behind it when the handler returns.
Woken == IF Running.pc = "halted" THEN [stack EXCEPT ![Len(stack)].pc = "sample"] ELSE stack

\* raise_intr and irq_handle: the handler of the vector is called.
TakeInterrupt(v) ==
  /\ eflags_IF
  /\ v \in req
  /\ req' = {}
  /\ stack' = Append(Woken, Context(HandlerOf(v)))
  /\ IF v = TIMER_VECTOR
     THEN /\ nested' = (nested \/ \E i \in DOMAIN stack : stack[i].pc = "tick_store")
          /\ ticks' = IF nested' THEN 0 ELSE Plus1(ticks)
     ELSE UNCHANGED <<ticks, nested>>
  /\ IF v # KEYBOARD_VECTOR /\ KEYBOARD_VECTOR \in req THEN Forget ELSE UNCHANGED stroke
  /\ UNCHANGED <<device, eflags_IF, tick, key_code, letter_pressed, gameVars>>

-----------------------------------------------------------------------------
(* timer_event: tick++, a load and a store.                                *)

TickLoad ==
  /\ At("tick_load")
  /\ Load("tick_store", tick)
  /\ UNCHANGED <<device, eflags_IF, tick, key_code, letter_pressed, gameVars, req, history>>

\* (Mutant of TickStore: the value that was loaded, `tick = tick++'.)
TickStoreSame ==
  /\ At("tick_store")
  /\ tick' = Running.eax
  /\ Return
  /\ UNCHANGED <<device, eflags_IF, key_code, letter_pressed, gameVars, req, stroke>>

TickStore ==
  /\ At("tick_store")
  /\ tick' = Plus1(Running.eax)
  /\ Return
  /\ UNCHANGED <<device, eflags_IF, key_code, letter_pressed, gameVars, req, stroke>>

(* keyboard_event: in_byte, the store to key_code, press_key(key_code).    *)

KeyIn ==
  /\ At("key_in")
  /\ Load("key_store", scan_code_buf)
  /\ UNCHANGED <<device, eflags_IF, tick, key_code, letter_pressed, gameVars, req, history>>

KeyStore ==
  /\ At("key_store")
  /\ key_code' = Running.eax
  /\ Goto("key_press")
  /\ UNCHANGED <<device, eflags_IF, tick, letter_pressed, gameVars, req, history>>

\* press_key: a code with 0x80 is no letter's.  (Mutant: the bit is not
\* looked at the right way round.)
KeyPressReleased ==
  /\ At("key_press")
  /\ letter_pressed' = [k \in Keys |-> letter_pressed[k] \/ key_code = [key |-> k, up |-> TRUE]]
  /\ UNCHANGED <<device, eflags_IF, tick, key_code, gameVars, req, stroke>>
  /\ Return
KeyPress ==
  /\ At("key_press")
  /\ letter_pressed' = [k \in Keys |-> letter_pressed[k] \/ key_code = [key |-> k, up |-> FALSE]]
  /\ UNCHANGED <<device, eflags_IF, tick, key_code, gameVars, req, stroke>>
  /\ Return

-----------------------------------------------------------------------------
(* The main loop.                                                          *)

WaitIntr ==
  /\ At("loop")
  /\ Goto("halted")
  /\ UNCHANGED <<device, eflags_IF, tick, key_code, letter_pressed, gameVars, req, history>>

\* cli(), the test of now == tick, target = tick, sti().  (Mutant of Sample: the
\* loop is to simulate one tick more than there were.)
SampleBeyond ==
  /\ At("sample")
  /\ IF now = tick THEN Goto("loop") /\ UNCHANGED target
     ELSE Goto("keys") /\ target' = Plus1(tick)
  /\ UNCHANGED <<device, eflags_IF, tick, key_code, letter_pressed, now, letters, req, history>>
Sample ==
  /\ At("sample")
  /\ IF now = tick THEN Goto("loop") /\ UNCHANGED target
     ELSE Goto("keys") /\ target' = tick
  /\ UNCHANGED <<device, eflags_IF, tick, key_code, letter_pressed, now, letters, req, history>>

\* update_keypress: the falling letters whose key is pressed, and of these
\* the first of the list that no other is below.
Candidates == {i \in DOMAIN letters : ~letters[i].up /\ letter_pressed[letters[i].text]}
IsTarget(i) == \A j \in Candidates :
                 letters[j].x < letters[i].x \/ (letters[j].x = letters[i].x /\ i <= j)

\* After cli(), it returns true without a sti(): the caller's loop calls it again.
Hit ==
  /\ At("keys")
  /\ \E i \in Candidates :
       /\ IsTarget(i)
       /\ letter_pressed' = [letter_pressed EXCEPT ![letters[i].text] = FALSE]
       /\ letters' = [letters EXCEPT ![i].up = TRUE]
       /\ stroke' = IF stroke = letters[i].text THEN NoKey ELSE stroke
  /\ eflags_IF' = FALSE
  /\ UNCHANGED <<device, stack, tick, key_code, now, target, req, ticks, nested>>

\* (Mutant of NoHit: sti() is forgotten here too.)
NoHitMasked ==
  /\ At("keys") /\ Candidates = {}
  /\ Goto("simulate")
  /\ UNCHANGED <<device, eflags_IF, tick, key_code, letter_pressed, gameVars, req, history>>

\* cli(), no letter, sti().
NoHit ==
  /\ At("keys") /\ Candidates = {}
  /\ eflags_IF' = TRUE
  /\ Goto("simulate")
  /\ UNCHANGED <<device, tick, key_code, letter_pressed, gameVars, req, history>>

\* create_new_letter: a letter at the top, in front of the list.
Created(k) == <<[text |-> k, x |-> 0, up |-> FALSE]>> \o letters

\* update_letter_pos.  (Mutant of OnScreen: the top is no end.)
Moved(l) == [l EXCEPT !.x = IF l.up THEN @ - Rise ELSE @ + 1]
OnScreenAbove(l) == l.x < Bottom
OnScreen(l) == 0 <= l.x /\ l.x < Bottom
Updated(ls) ==
  LET kept[n \in 0 .. Len(ls)] ==
        IF n = 0 THEN <<>>
        ELSE IF OnScreen(Moved(ls[n])) THEN Append(kept[n - 1], Moved(ls[n])) ELSE kept[n - 1]
  IN kept[Len(ls)]

\* One tick of the loop: now and then a new letter, whose key is cleared,
\* then update_letter_pos (HZ / UPDATE_PER_SECOND = 1) and now++.
Simulate ==
  /\ At("simulate")
  /\ IF now % CREATE_PERIOD = 0
     THEN \E k \in Keys :
            /\ letters' = Updated(Created(k))
            /\ letter_pressed' = [letter_pressed EXCEPT ![k] = FALSE]
            /\ stroke' = IF stroke = k \/ ~Falls(letters', stroke) THEN NoKey ELSE stroke
     ELSE /\ letters' = Updated(letters)
          /\ stroke' = IF ~Falls(letters', stroke) THEN NoKey ELSE stroke
          /\ UNCHANGED letter_pressed
  /\ now' = Plus1(now)
  /\ Goto(IF now' = target THEN "loop" ELSE "simulate")
  /\ UNCHANGED <<device, eflags_IF, tick, key_code, target, req, ticks, nested>>

-----------------------------------------------------------------------------
HandlerStep == TickLoad \/ TickStore \/ KeyIn \/ KeyStore \/ KeyPress
MainStep == WaitIntr \/ Sample \/ Hit \/ NoHit \/ Simulate

Next ==
  \/ KeyEvent \/ KeyRaise \/ Tick
  \/ \E v \in {TIMER_VECTOR, KEYBOARD_VECTOR} : TakeInterrupt(v)
  \/ HandlerStep \/ MainStep

Spec == Init /\ [][Next]_vars

(* The CPU keeps running, and the timer thread raises every 10 ms: a       *)
(* handler is over long before the next interrupt, so that what it         *)
(* interrupted gets to run again and again (strong fairness at each depth  *)
(* of the stack), and nobody types so fast that no tick gets through.      *)
(* Nobody has to press a key.                                              *)
Fairness ==
  /\ WF_vars(KeyRaise) /\ WF_vars(TakeInterrupt(KEYBOARD_VECTOR))
  /\ SF_vars(Tick) /\ SF_vars(TakeInterrupt(TIMER_VECTOR))
  /\ \A d \in 1 .. MaxNest : SF_vars((HandlerStep \/ MainStep) /\ Len(stack) = d)

FairSpec == Spec /\ Fairness

-----------------------------------------------------------------------------
(* Properties.                                                             *)

\* game.c:32 says that tick is the number of timer interrupts so far.  It
\* is, whenever the main loop gets to look at it, as long as no timer
\* interrupt was taken between the load and the store of another one's
\* tick++; and even then it has not fallen behind `now' (the assertion of
\* game.c:51), which would show as Cycle less the number of ticks.
TicksCounted ==
  [][Len(stack) = 2 /\ Len(stack') = 1 =>
       /\ ~nested => tick' = ticks
       /\ Behind' <= MaxBehind + 1]_vars

\* fly_new's assertion: the pool of letters does not run out, because a
\* letter leaves the screen within Bottom updates, or, if it was hit, in
\* the time it takes to rise from where it was.
PoolBound ==
  Len(letters) <= (Bottom + (Bottom \div Rise) + 1) \div CREATE_PERIOD + 1

\* The loop makes up for the ticks it missed: whatever interrupts it, it
\* finds time to simulate ticks, and to reach the last one it knows of.
CatchesUp == []<>(now # target) /\ []<>(now = target)

\* The key of a falling letter makes a letter fly up: when the loop has
\* looked at the keys, no stroke is left without an answer but one whose
\* interrupt waits for the sti().  A stroke is lost only if, before it is
\* recorded, the next key event overwrites the buffer or another interrupt
\* is delivered in its place, or if, before the loop looks, a letter of the
\* same name is created or the last one leaves the screen.
StrokeHits ==
  [][Main.pc = "keys" /\ Main'.pc = "simulate" =>
       stroke = NoKey \/ KEYBOARD_VECTOR \in req]_vars
=============================================================================
