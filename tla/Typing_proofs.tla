--------------------------- MODULE Typing_proofs ---------------------------
(***************************************************************************)
(* The typing game for any keyboard, any speed of the letters, any depth   *)
(* of nested handlers and any number of ticks it may be behind: no tick is *)
(* lost but by a nested increment, every stroke hits or is lost as said,   *)
(* and the pool of letters does not run out.                               *)
(***************************************************************************)
EXTENDS Typing, FiniteSetTheorems, SequenceTheorems, WellFoundedInduction, TLAPS

-----------------------------------------------------------------------------
(* The inductive invariant.                                                *)

MainPcs    == {"loop", "halted", "sample", "keys", "simulate"}
CountPcs   == {"tick_load", "tick_store"}
HandlerPcs == CountPcs \cup {"key_in", "key_store", "key_press"}

Times    == 0 .. Cycle - 1
Codes    == ScanCodes \cup {NoScan}
Contexts == [pc : (MainPcs \cup HandlerPcs) \ {"key_store"}, eax : Times]
            \cup [pc : {"key_store"}, eax : Codes]
Letters  == [text : Keys, x : Nat, up : BOOLEAN]

TypeInv ==
  /\ scan_code_buf \in Codes /\ key_code \in Codes /\ kbd \in {"poll", "raise"}
  /\ stack \in Seq(Contexts)
  /\ {tick, now, target, ticks} \subseteq Times
  /\ letter_pressed \in [Keys -> BOOLEAN] /\ letters \in Seq(Letters)
  /\ {eflags_IF, nested} \subseteq BOOLEAN
  /\ req \subseteq {TIMER_VECTOR, KEYBOARD_VECTOR} /\ stroke \in Keys \cup {NoKey}

\* The main loop is at the bottom and handlers are above it, none while it
\* waits in HLT or has cleared IF.
StackInv ==
  /\ Len(stack) >= 1 /\ Main.pc \in MainPcs
  /\ \A i \in 2 .. Len(stack) : stack[i].pc \in HandlerPcs
  /\ Main.pc = "halted" => Len(stack) = 1
  /\ ~eflags_IF => Main.pc = "keys" /\ Len(stack) = 1

\* As long as no tick was taken inside another one's increment, a value that
\* was loaded is still that of tick, and the ticks taken are in tick or under way.
StoresCurrent ==
  \A i \in 2 .. Len(stack) : stack[i].pc = "tick_store" =>
    /\ stack[i].eax = tick
    /\ \A j \in i + 1 .. Len(stack) : stack[j].pc \notin CountPcs
CountInv == ~nested => ticks = (tick + TicksUnderWay) % Cycle /\ StoresCurrent

\* How far the game is behind at the time v.
Distance(v, t) == (v - t) % Cycle
Lag(v)  == Distance(v, now)
Pending == IF TIMER_VECTOR \in req THEN 1 ELSE 0
Slack   == IF Main.pc = "loop" \/ (Main.pc = "halted" /\ TIMER_VECTOR \notin req) THEN 0 ELSE 1

\* The ticks that are counted, under way or pending stay within the bound, and
\* one more once the main loop is awake.
LagInv == Lag(tick) + TicksUnderWay + Pending <= MaxBehind + Slack

\* A store of an old value takes tick back, but not behind what a context below
\* has loaded or the main loop has set out to reach.
StoresOrdered ==
  \A i \in 2 .. Len(stack) : stack[i].pc = "tick_store" =>
    /\ Lag(stack[i].eax) <= Lag(tick)
    /\ \A j \in i + 1 .. Len(stack) :
         stack[j].pc = "tick_store" => Lag(stack[i].eax) <= Lag(stack[j].eax)
TargetAhead ==
  Main.pc \in {"keys", "simulate"} =>
    /\ 1 <= Lag(target) /\ Lag(target) <= Lag(tick)
    /\ \A i \in 2 .. Len(stack) :
         stack[i].pc = "tick_store" => Lag(target) <= Lag(stack[i].eax)

\* A handler that has yet to record the code in the device's buffer.
Carries(c) ==
  \/ c.pc = "key_in"
  \/ c.pc = "key_store" /\ c.eax = scan_code_buf
  \/ c.pc = "key_press" /\ key_code = scan_code_buf

\* The code in the buffer will be recorded: its interrupt is pending, or its
\* handler has been interrupted by ticks alone.
OnItsWay ==
  \/ KEYBOARD_VECTOR \in req
  \/ \E i \in 2 .. Len(stack) :
       Carries(stack[i]) /\ \A j \in i + 1 .. Len(stack) : stack[j].pc \in CountPcs

\* A stroke is of a falling letter, and if it is not recorded it is on its way.
StrokeInv ==
  /\ stroke \in Keys => Falls(letters, stroke)
  /\ stroke \in Keys /\ ~letter_pressed[stroke] =>
       kbd = "poll" /\ scan_code_buf = [key |-> stroke, up |-> FALSE] /\ OnItsWay

GameInv ==
  /\ TypeInv /\ StackInv /\ CountInv /\ LagInv
  /\ StoresOrdered /\ TargetAhead /\ StrokeInv

\* Updates since a letter was created: its place among the letters, the newest
\* being 0, times the period, and the updates since the newest one was created.
Phase == ((now - 1) % CREATE_PERIOD) + 1
Age(q, a) == q * CREATE_PERIOD + a

\* Where a letter is at its age: it falls, or has risen since it was hit.
Fits(l, age) ==
  /\ ~l.up => l.x = age
  /\ l.x < Bottom
  /\ Rise * age + l.x <= (Bottom - 1) * (Rise + 1)

\* Every letter has a place of its own, and is where its age says.
Placed(ls, places, a) ==
  /\ places \in [1 .. Len(ls) -> Nat]
  /\ \A i, j \in 1 .. Len(ls) : places[i] = places[j] => i = j
  /\ \A i \in 1 .. Len(ls) : Fits(ls[i], Age(places[i], a))
PlaceInv == \E places : Placed(letters, places, Phase)

-----------------------------------------------------------------------------
(* Counting modulo Cycle.                                                  *)

LEMMA ModNear ==
  ASSUME NEW M \in Nat \ {0}, NEW v \in Int
  PROVE  /\ 0 <= v /\ v < M => v % M = v
         /\ M <= v /\ v < 2 * M => v % M = v - M
         /\ -M <= v /\ v < 0 => v % M = v + M
BY SMT

LEMMA CycleBound ==
  /\ Cycle \in Nat \ {0} /\ MaxBehind \in Nat /\ MaxBehind >= 1 /\ MaxBehind + 1 < Cycle
<1>1. CREATE_PERIOD \in Nat /\ CREATE_PERIOD >= 2 /\ MaxBehind \in Nat /\ MaxBehind >= 1
  BY TypingAssumption
<1>2. CREATE_PERIOD * (MaxBehind + 1) \in Int /\ CREATE_PERIOD * (MaxBehind + 1) >= 2 * (MaxBehind + 1)
  BY <1>1, SMT
<1> QED
  BY <1>1, <1>2, SMT DEF Cycle

LEMMA Plus1Is ==
  ASSUME NEW v \in Times
  PROVE  /\ Plus1(v) = IF v + 1 = Cycle THEN 0 ELSE v + 1
         /\ Plus1(v) \in Times
<1>1. v \in Int /\ Cycle \in Nat \ {0} /\ v + 1 \in Int /\ 0 <= v /\ v + 1 <= Cycle
  BY CycleBound DEF Times
<1>2. (v + 1) % Cycle = IF v + 1 = Cycle THEN 0 ELSE v + 1
  <2> DEFINE d == v + 1
  <2>1. d \in Int /\ 0 <= d /\ (d < Cycle \/ d = Cycle)
    BY <1>1
  <2> HIDE DEF d
  <2>2. d % Cycle = IF d = Cycle THEN 0 ELSE d
    <3>1. d = Cycle => Cycle <= d /\ d < 2 * Cycle /\ d - Cycle = 0
      BY <1>1, <2>1
    <3>2. QED
      BY <1>1, <2>1, <3>1, ModNear
  <2>3. QED
    BY <2>2 DEF d
<1>3. QED
  BY <1>1, <1>2 DEF Plus1, Times

LEMMA DistanceIs ==
  ASSUME NEW v \in Times, NEW t \in Times
  PROVE  /\ Distance(v, t) = IF v >= t THEN v - t ELSE v - t + Cycle
         /\ Distance(v, t) \in Nat /\ Distance(v, t) < Cycle
<1>1. v \in Int /\ t \in Int /\ 0 <= v /\ v < Cycle /\ 0 <= t /\ t < Cycle /\ Cycle \in Nat \ {0}
      /\ v - t \in Int
  BY CycleBound DEF Times
<1>2. (v - t) % Cycle = IF v >= t THEN v - t ELSE v - t + Cycle
  <2> DEFINE d == v - t
  <2>1. d \in Int /\ d < Cycle /\ -Cycle <= d /\ (v >= t <=> 0 <= d)
    BY <1>1
  <2> HIDE DEF d
  <2>2. d % Cycle = IF 0 <= d THEN d ELSE d + Cycle
    <3>1. 0 <= d \/ d < 0
      BY <2>1
    <3>2. QED
      BY <1>1, <2>1, <3>1, ModNear
  <2>3. QED
    BY <2>1, <2>2 DEF d
<1>3. QED
  BY <1>1, <1>2 DEF Distance

LEMMA DistanceMoves ==
  ASSUME NEW v \in Times, NEW t \in Times
  PROVE  /\ v = t <=> Distance(v, t) = 0
         /\ Distance(v, t) + 1 < Cycle => Distance(Plus1(v), t) = Distance(v, t) + 1
         /\ Distance(v, t) >= 1 => Distance(v, Plus1(t)) = Distance(v, t) - 1
<1>1. v \in Int /\ t \in Int /\ 0 <= v /\ v < Cycle /\ 0 <= t /\ t < Cycle /\ Cycle \in Nat \ {0}
  BY CycleBound DEF Times
<1>2. /\ Plus1(v) = IF v + 1 = Cycle THEN 0 ELSE v + 1
      /\ Plus1(t) = IF t + 1 = Cycle THEN 0 ELSE t + 1
      /\ Plus1(v) \in Times /\ Plus1(t) \in Times
  BY Plus1Is
<1>3. /\ Distance(v, t) = IF v >= t THEN v - t ELSE v - t + Cycle
      /\ Distance(Plus1(v), t) = IF Plus1(v) >= t THEN Plus1(v) - t ELSE Plus1(v) - t + Cycle
      /\ Distance(v, Plus1(t)) = IF v >= Plus1(t) THEN v - Plus1(t) ELSE v - Plus1(t) + Cycle
  BY <1>2, DistanceIs
<1>4. v = t <=> Distance(v, t) = 0
  BY <1>1, <1>3
<1>5. Distance(v, t) + 1 < Cycle => Distance(Plus1(v), t) = Distance(v, t) + 1
  BY <1>1, <1>2, <1>3
<1>6. Distance(v, t) >= 1 => Distance(v, Plus1(t)) = Distance(v, t) - 1
  BY <1>1, <1>2, <1>3
<1>7. QED
  BY <1>4, <1>5, <1>6

LEMMA LagFacts ==
  ASSUME now \in Times, NEW v \in Times
  PROVE  /\ Lag(v) \in Nat /\ Lag(v) < Cycle
         /\ v = now <=> Lag(v) = 0
         /\ Lag(v) + 1 < Cycle => Lag(Plus1(v)) = Lag(v) + 1
         /\ Plus1(v) \in Times
BY DistanceIs, DistanceMoves, Plus1Is DEF Lag

-----------------------------------------------------------------------------
(* The stack.                                                              *)

LEMMA SetTop ==
  ASSUME NEW S, NEW s \in Seq(S), Len(s) >= 1, NEW c \in S
  PROVE  LET t == [s EXCEPT ![Len(s)] = c] IN
         /\ t \in Seq(S) /\ Len(t) = Len(s) /\ t[Len(s)] = c
         /\ \A i \in 1 .. Len(s) - 1 : t[i] = s[i]
OBVIOUS

LEMMA Pushed ==
  ASSUME NEW S, NEW s \in Seq(S), NEW c \in S
  PROVE  LET t == Append(s, c) IN
         /\ t \in Seq(S) /\ Len(t) = Len(s) + 1 /\ t[Len(s) + 1] = c
         /\ \A i \in 1 .. Len(s) : t[i] = s[i]
OBVIOUS

LEMMA Popped ==
  ASSUME NEW S, NEW s \in Seq(S), Len(s) >= 1
  PROVE  LET t == Front(s) IN
         /\ t \in Seq(S) /\ Len(t) = Len(s) - 1
         /\ \A i \in 1 .. Len(s) - 1 : t[i] = s[i]
<1>1. \A i \in 1 .. Len(s) - 1 : s[i] \in S
  OBVIOUS
<1>2. Len(s) - 1 \in Int
  OBVIOUS
<1> DEFINE n == Len(s) - 1
<1>3. /\ SubSeq(s, 1, n) \in Seq(S)
      /\ Len(SubSeq(s, 1, n)) = IF 1 <= n THEN n - 1 + 1 ELSE 0
      /\ \A i \in 1 .. n - 1 + 1 : SubSeq(s, 1, n)[i] = s[1 + i - 1]
  <2>1. 1 \in Int /\ n \in Int /\ \A i \in 1 .. n : s[i] \in S
    BY <1>1, <1>2
  <2> HIDE DEF n
  <2>2. QED
    BY <2>1, SubSeqProperties
<1>4. n \in Nat /\ Front(s) = SubSeq(s, 1, n)
  BY DEF Front
<1> HIDE DEF n
<1>5. /\ SubSeq(s, 1, n) \in Seq(S) /\ Len(SubSeq(s, 1, n)) = n
      /\ \A i \in 1 .. n : SubSeq(s, 1, n)[i] = s[i]
  BY <1>3, <1>4
<1>6. QED
  BY <1>4, <1>5 DEF n

LEMMA RunningKinds ==
  ASSUME TypeInv, StackInv
  PROVE  /\ stack \in Seq(Contexts) /\ Len(stack) \in Nat /\ Len(stack) >= 1
         /\ Running \in Contexts /\ Running = stack[Len(stack)]
         /\ Running.pc \in MainPcs => Len(stack) = 1 /\ Running = Main
         /\ Running.pc \in HandlerPcs => Len(stack) >= 2
<1>1. stack \in Seq(Contexts) /\ Len(stack) \in Nat /\ Len(stack) >= 1 /\ Running = stack[Len(stack)]
      /\ Running \in Contexts
  BY DEF TypeInv, StackInv, Running
<1>0. Len(stack) = 1 \/ Len(stack) >= 2
  <2>1. Len(stack) \in Nat /\ Len(stack) >= 1
    BY <1>1
  <2>2. QED
    BY <2>1
<1>2. \A p \in MainPcs : p \notin HandlerPcs
  BY DEF MainPcs, HandlerPcs, CountPcs
<1>3. Running.pc \in MainPcs => Len(stack) = 1 /\ Running = Main
  <2>1. Len(stack) >= 2 => Running.pc \in HandlerPcs
    BY <1>1 DEF StackInv
  <2>2. Len(stack) = 1 => Running = Main
    BY <1>1 DEF Main
  <2>3. QED
    BY <1>0, <1>2, <2>1, <2>2
<1>4. Running.pc \in HandlerPcs => Len(stack) >= 2
  <2>1. Len(stack) = 1 => Running.pc \in MainPcs
    BY <1>1 DEF StackInv, Main
  <2>2. QED
    BY <1>0, <1>2, <2>1
<1>5. QED
  BY <1>1, <1>3, <1>4

\* A handler goes on.
LEMMA HandlerLoads ==
  ASSUME TypeInv, StackInv, Running.pc \in HandlerPcs, NEW label, NEW v,
         [pc |-> label, eax |-> v] \in Contexts, Load(label, v)
  PROVE  \E n \in Nat :
           /\ n = Len(stack) /\ n >= 2 /\ Running = stack[n]
           /\ stack' \in Seq(Contexts) /\ Len(stack') = n
           /\ stack'[n].pc = label /\ stack'[n].eax = v
           /\ \A i \in 1 .. n - 1 : stack'[i] = stack[i]
           /\ stack'[1] = stack[1]
<1> DEFINE c == [pc |-> label, eax |-> v]
<1>1. c.pc = label /\ c.eax = v /\ c \in Contexts /\ stack' = [stack EXCEPT ![Len(stack)] = c]
  BY DEF Load
<1> HIDE DEF c
<1>2. stack \in Seq(Contexts) /\ Len(stack) \in Nat /\ Len(stack) >= 2 /\ Running = stack[Len(stack)]
  BY RunningKinds
<1>3. /\ stack' \in Seq(Contexts) /\ Len(stack') = Len(stack) /\ stack'[Len(stack)] = c
      /\ \A i \in 1 .. Len(stack) - 1 : stack'[i] = stack[i]
  BY <1>1, <1>2, SetTop
<1>4. 1 \in 1 .. Len(stack) - 1
  BY <1>2
<1>5. QED
  BY <1>1, <1>2, <1>3, <1>4

\* The main loop goes on.
LEMMA MainLoads ==
  ASSUME TypeInv, StackInv, Running.pc \in MainPcs, NEW label \in MainPcs, NEW v \in Times,
         Load(label, v)
  PROVE  /\ stack \in Seq(Contexts) /\ Len(stack) = 1 /\ Running = Main
         /\ stack' \in Seq(Contexts) /\ Len(stack') = 1 /\ Main'.pc = label
<1> DEFINE c == [pc |-> label, eax |-> v]
<1>1. c.pc = label /\ stack' = [stack EXCEPT ![Len(stack)] = c] /\ c \in Contexts
  BY DEF Load, Contexts, MainPcs
<1> HIDE DEF c
<1>2. stack \in Seq(Contexts) /\ Len(stack) = 1 /\ Running = Main
  BY RunningKinds
<1>3. stack' \in Seq(Contexts) /\ Len(stack') = 1 /\ stack'[1] = c
  <2>1. stack \in Seq(Contexts) /\ Len(stack) >= 1
    BY RunningKinds
  <2>2. stack' \in Seq(Contexts) /\ Len(stack') = Len(stack) /\ stack'[Len(stack)] = c
    BY <1>1, <2>1, SetTop
  <2>3. QED
    BY <1>2, <2>2
<1>4. QED
  BY <1>1, <1>2, <1>3 DEF Main

\* A handler returns.
LEMMA HandlerReturns ==
  ASSUME TypeInv, StackInv, Running.pc \in HandlerPcs, Return
  PROVE  \E n \in Nat :
           /\ n = Len(stack) /\ n >= 2 /\ Running = stack[n]
           /\ stack' \in Seq(Contexts) /\ Len(stack') = n - 1
           /\ \A i \in 1 .. n - 1 : stack'[i] = stack[i]
           /\ stack'[1] = stack[1]
           /\ IF n = 2 THEN ticks' = tick' /\ nested' = FALSE
                       ELSE ticks' = ticks /\ nested' = nested
<1>1. stack \in Seq(Contexts) /\ Len(stack) \in Nat /\ Len(stack) >= 2 /\ Running = stack[Len(stack)]
  BY RunningKinds
<1>2. stack' = Front(stack)
  BY DEF Return
<1>3. /\ stack' \in Seq(Contexts) /\ Len(stack') = Len(stack) - 1
      /\ \A i \in 1 .. Len(stack) - 1 : stack'[i] = stack[i]
  BY <1>1, <1>2, Popped
<1>4. 1 \in 1 .. Len(stack) - 1
  BY <1>1
<1>5. IF Len(stack) = 2 THEN ticks' = tick' /\ nested' = FALSE ELSE ticks' = ticks /\ nested' = nested
  BY DEF Return
<1>6. QED
  BY <1>1, <1>3, <1>4, <1>5

\* An interrupt is taken: only the program counter of a main loop in HLT changes
\* below the handler.
LEMMA HandlerCalled ==
  ASSUME TypeInv, StackInv, NEW label \in HandlerPcs \ {"key_store"},
         stack' = Append(Woken, Context(label))
  PROVE  \E n \in Nat :
           /\ n = Len(stack) /\ n >= 1
           /\ stack' \in Seq(Contexts) /\ Len(stack') = n + 1 /\ stack'[n + 1].pc = label
           /\ \A i \in 2 .. n : stack'[i] = stack[i]
           /\ stack'[1].pc = IF Main.pc = "halted" THEN "sample" ELSE Main.pc
<1>1. /\ stack \in Seq(Contexts) /\ Len(stack) \in Nat /\ Len(stack) >= 1 /\ Running \in Contexts
      /\ Running = stack[Len(stack)]
  BY RunningKinds
<1>2. Running.pc = "halted" => Len(stack) = 1 /\ Running = Main
  BY RunningKinds DEF MainPcs
<1>3. Main.pc = "halted" => Running.pc = "halted"
  BY <1>1 DEF StackInv, Main
<1>4. /\ Woken \in Seq(Contexts) /\ Len(Woken) = Len(stack)
      /\ \A i \in 2 .. Len(stack) : Woken[i] = stack[i]
      /\ Woken[1].pc = IF Main.pc = "halted" THEN "sample" ELSE Main.pc
  <2>1. CASE Running.pc # "halted"
    BY <1>1, <1>3, <2>1 DEF Woken, Main
  <2>2. CASE Running.pc = "halted"
    <3>1. PICK c \in Contexts : c = [Running EXCEPT !.pc = "sample"] /\ c.pc = "sample"
      <4>1. Running \in [pc : (MainPcs \cup HandlerPcs) \ {"key_store"}, eax : Times]
        BY <1>1, <2>2 DEF Contexts
      <4>2. "sample" \in (MainPcs \cup HandlerPcs) \ {"key_store"}
        BY DEF MainPcs
      <4>3. [Running EXCEPT !.pc = "sample"] \in [pc : (MainPcs \cup HandlerPcs) \ {"key_store"}, eax : Times]
        BY <4>1, <4>2
      <4>4. [Running EXCEPT !.pc = "sample"].pc = "sample"
        BY <4>1
      <4>5. QED
        BY <4>3, <4>4 DEF Contexts
    <3>2. Woken = [stack EXCEPT ![Len(stack)] = c]
      BY <1>1, <2>2, <3>1 DEF Woken
    <3>3. Woken \in Seq(Contexts) /\ Len(Woken) = Len(stack) /\ Woken[1] = c
      BY <1>1, <1>2, <2>2, <3>2, SetTop
    <3>4. QED
      BY <1>1, <1>2, <2>2, <3>1, <3>3
  <2>3. QED
    BY <2>1, <2>2
<1>5. Context(label) \in Contexts /\ Context(label).pc = label
  BY CycleBound DEF Context, Contexts, Times
<1>6. /\ stack' \in Seq(Contexts) /\ Len(stack') = Len(stack) + 1
      /\ stack'[Len(stack) + 1] = Context(label)
      /\ \A i \in 1 .. Len(stack) : stack'[i] = Woken[i]
  BY <1>4, <1>5, Pushed
<1>7. QED
  BY <1>1, <1>4, <1>5, <1>6

-----------------------------------------------------------------------------
(* Ticks under way.                                                        *)

UnderWay(s) == {i \in 1 .. Len(s) : s[i].pc \in CountPcs}

LEMMA UnderWayIs ==
  ASSUME stack \in Seq(Contexts)
  PROVE  TicksUnderWay = Cardinality(UnderWay(stack)) /\ IsFiniteSet(UnderWay(stack))
         /\ TicksUnderWay \in Nat
<1>1. DOMAIN stack = 1 .. Len(stack) /\ Len(stack) \in Nat
  OBVIOUS
<1>2. IsFiniteSet(1 .. Len(stack))
  BY <1>1, FS_Interval
<1>3. UnderWay(stack) \in SUBSET (1 .. Len(stack))
  BY DEF UnderWay
<1>4. IsFiniteSet(UnderWay(stack))
  BY <1>2, <1>3, FS_Subset
<1>5. TicksUnderWay = Cardinality(UnderWay(stack))
  BY <1>1 DEF TicksUnderWay, UnderWay, CountPcs
<1>6. QED
  BY <1>4, <1>5, FS_CardinalityType

LEMMA UnderWayThen ==
  ASSUME stack' \in Seq(Contexts)
  PROVE  TicksUnderWay' = Cardinality(UnderWay(stack')) /\ TicksUnderWay' \in Nat
         /\ IsFiniteSet(UnderWay(stack'))
<1>1. DOMAIN stack' = 1 .. Len(stack') /\ Len(stack') \in Nat
  OBVIOUS
<1>2. IsFiniteSet(1 .. Len(stack'))
  BY <1>1, FS_Interval
<1>3. UnderWay(stack') \in SUBSET (1 .. Len(stack'))
  BY DEF UnderWay
<1>4. IsFiniteSet(UnderWay(stack'))
  BY <1>2, <1>3, FS_Subset
<1>5. TicksUnderWay' = Cardinality(UnderWay(stack'))
  BY <1>1 DEF TicksUnderWay, UnderWay, CountPcs
<1>6. QED
  BY <1>4, <1>5, FS_CardinalityType

LEMMA UnderWayKept ==
  ASSUME stack \in Seq(Contexts), stack' \in Seq(Contexts), Len(stack') = Len(stack),
         \A i \in 1 .. Len(stack) : stack'[i].pc \in CountPcs <=> stack[i].pc \in CountPcs
  PROVE  TicksUnderWay' = TicksUnderWay /\ TicksUnderWay \in Nat
<1>1. UnderWay(stack') = UnderWay(stack)
  BY DEF UnderWay
<1>2. QED
  BY <1>1, UnderWayIs, UnderWayThen

LEMMA UnderWayPushed ==
  ASSUME stack \in Seq(Contexts), stack' \in Seq(Contexts), Len(stack') = Len(stack) + 1,
         \A i \in 1 .. Len(stack) : stack'[i].pc \in CountPcs <=> stack[i].pc \in CountPcs
  PROVE  /\ TicksUnderWay \in Nat
         /\ TicksUnderWay' = TicksUnderWay + (IF stack'[Len(stack) + 1].pc \in CountPcs THEN 1 ELSE 0)
<1>1. PICK n \in Nat : n = Len(stack)
  OBVIOUS
<1>2. n + 1 \notin UnderWay(stack)
  BY <1>1 DEF UnderWay
<1>3. UnderWay(stack') = IF stack'[n + 1].pc \in CountPcs THEN UnderWay(stack) \cup {n + 1} ELSE UnderWay(stack)
  <2>1. 1 .. Len(stack') = (1 .. n) \cup {n + 1}
    BY <1>1
  <2>2. QED
    BY <1>1, <2>1 DEF UnderWay
<1>4. Cardinality(UnderWay(stack) \cup {n + 1}) = Cardinality(UnderWay(stack)) + 1
  BY <1>2, UnderWayIs, FS_AddElement
<1>5. QED
  BY <1>1, <1>3, <1>4, UnderWayIs, UnderWayThen

LEMMA UnderWayPopped ==
  ASSUME stack \in Seq(Contexts), stack' \in Seq(Contexts), Len(stack) = Len(stack') + 1,
         \A i \in 1 .. Len(stack') : stack'[i] = stack[i]
  PROVE  /\ TicksUnderWay' \in Nat
         /\ TicksUnderWay = TicksUnderWay' + (IF stack[Len(stack)].pc \in CountPcs THEN 1 ELSE 0)
<1>1. PICK n \in Nat : n = Len(stack')
  OBVIOUS
<1>2. n + 1 \notin UnderWay(stack')
  BY <1>1 DEF UnderWay
<1>3. UnderWay(stack) = IF stack[n + 1].pc \in CountPcs THEN UnderWay(stack') \cup {n + 1} ELSE UnderWay(stack')
  <2>1. 1 .. Len(stack) = (1 .. n) \cup {n + 1}
    BY <1>1
  <2>2. QED
    BY <1>1, <2>1 DEF UnderWay
<1>4. Cardinality(UnderWay(stack') \cup {n + 1}) = Cardinality(UnderWay(stack')) + 1
  BY <1>2, UnderWayThen, FS_AddElement
<1>5. QED
  BY <1>1, <1>3, <1>4, UnderWayIs, UnderWayThen

\* Nothing is under way while the main loop runs.
LEMMA NoneUnderWay ==
  ASSUME TypeInv, StackInv, Len(stack) = 1
  PROVE  TicksUnderWay = 0
<1>1. UnderWay(stack) = {}
  BY DEF UnderWay, StackInv, Main, MainPcs, CountPcs
<1>2. QED
  BY <1>1, UnderWayIs, FS_EmptySet DEF TypeInv

-----------------------------------------------------------------------------
(* Steps that leave the counting alone.                                    *)

\* No value is loaded and none stored, and nothing that counts is pushed.
LEMMA QuietStores ==
  ASSUME StoresOrdered, stack' \in Seq(Contexts), tick' = tick, now' = now,
         \A i \in 2 .. Len(stack') : stack'[i].pc = "tick_store" =>
           i \in 2 .. Len(stack) /\ stack'[i] = stack[i]
  PROVE  /\ StoresOrdered'
         /\ TargetAhead /\ target' = target /\ (Main'.pc \in {"keys", "simulate"} => Main'.pc = Main.pc)
              => TargetAhead'
<1>1. Len(stack') \in Nat
  OBVIOUS
<1>2. ASSUME NEW i \in 2 .. Len(stack'), stack'[i].pc = "tick_store"
      PROVE  /\ Distance(stack'[i].eax, now) <= Distance(tick, now)
             /\ \A j \in i + 1 .. Len(stack') :
                  stack'[j].pc = "tick_store" => Distance(stack'[i].eax, now) <= Distance(stack'[j].eax, now)
  <2>1. i \in 2 .. Len(stack) /\ stack'[i] = stack[i]
    BY <1>2
  <2>2. ASSUME NEW j \in i + 1 .. Len(stack'), stack'[j].pc = "tick_store"
        PROVE  Distance(stack[i].eax, now) <= Distance(stack[j].eax, now) /\ stack'[j] = stack[j]
    <3>1. j \in 2 .. Len(stack')
      BY <1>1
    <3>2. j \in 2 .. Len(stack) /\ stack'[j] = stack[j]
      BY <2>2, <3>1
    <3>3. j \in i + 1 .. Len(stack)
      BY <3>2
    <3>4. QED
      BY <1>2, <2>1, <2>2, <3>2, <3>3 DEF StoresOrdered, Lag
  <2>3. Distance(stack[i].eax, now) <= Distance(tick, now)
    BY <1>2, <2>1 DEF StoresOrdered, Lag
  <2>4. QED
    BY <2>1, <2>2, <2>3
<1>3. StoresOrdered'
  BY <1>2 DEF StoresOrdered, Lag
<1>4. ASSUME TargetAhead, target' = target, Main'.pc \in {"keys", "simulate"} => Main'.pc = Main.pc
      PROVE  TargetAhead'
  <2>1. SUFFICES ASSUME Main'.pc \in {"keys", "simulate"}
                 PROVE  /\ 1 <= Distance(target, now) /\ Distance(target, now) <= Distance(tick, now)
                        /\ \A i \in 2 .. Len(stack') :
                             stack'[i].pc = "tick_store" => Distance(target, now) <= Distance(stack'[i].eax, now)
    BY <1>4 DEF TargetAhead, Lag
  <2>2. QED
    BY <1>4, <2>1 DEF TargetAhead, Lag
<1>5. QED
  BY <1>3, <1>4

LEMMA QuietCount ==
  ASSUME StoresCurrent, stack' \in Seq(Contexts), tick' = tick,
         \A i \in 2 .. Len(stack') :
           /\ stack'[i].pc = "tick_store" => stack'[i].eax = stack[i].eax /\ stack[i].pc = "tick_store"
           /\ stack'[i].pc \in CountPcs => i \in 2 .. Len(stack) /\ stack[i].pc \in CountPcs
  PROVE  StoresCurrent'
<1>1. SUFFICES ASSUME NEW i \in 2 .. Len(stack'), stack'[i].pc = "tick_store"
               PROVE  /\ stack'[i].eax = tick
                      /\ \A j \in i + 1 .. Len(stack') : stack'[j].pc \notin CountPcs
  BY DEF StoresCurrent
<1>2. i \in 2 .. Len(stack) /\ stack[i].pc = "tick_store" /\ stack'[i].eax = stack[i].eax
  BY <1>1 DEF CountPcs
<1>3. ASSUME NEW j \in i + 1 .. Len(stack'), stack'[j].pc \in CountPcs
      PROVE  FALSE
  <2>1. Len(stack') \in Nat
    OBVIOUS
  <2>2. j \in 2 .. Len(stack')
    BY <2>1
  <2>3. j \in 2 .. Len(stack) /\ stack[j].pc \in CountPcs
    BY <1>3, <2>2
  <2>4. j \in i + 1 .. Len(stack)
    BY <2>3
  <2>5. QED
    BY <1>2, <2>3, <2>4 DEF StoresCurrent
<1>4. QED
  BY <1>2, <1>3 DEF StoresCurrent

\* The same for a stack that keeps its tick handlers, with the rest of the
\* counting.
LEMMA QuietStep ==
  ASSUME GameInv, stack' \in Seq(Contexts), Len(stack') = Len(stack),
         \A i \in 1 .. Len(stack) : stack'[i].pc \in CountPcs <=> stack[i].pc \in CountPcs,
         \A i \in 2 .. Len(stack) : stack'[i].pc = "tick_store" => stack'[i] = stack[i],
         tick' = tick, now' = now, ticks' = ticks, nested' = nested
  PROVE  /\ CountInv' /\ StoresOrdered'
         /\ target' = target /\ (Main'.pc \in {"keys", "simulate"} => Main'.pc = Main.pc)
              => TargetAhead'
         /\ Lag(tick)' = Lag(tick) /\ TicksUnderWay' = TicksUnderWay
         /\ Pending' <= Pending /\ Slack <= Slack' => LagInv'
<1>1. stack \in Seq(Contexts) /\ Len(stack) \in Nat
  BY DEF GameInv, TypeInv
<1>2. Lag(tick)' = Lag(tick) /\ TicksUnderWay' = TicksUnderWay
  BY <1>1, UnderWayKept DEF Lag
<1>3. \A i \in 2 .. Len(stack) : i \in 1 .. Len(stack)
  BY <1>1
<1>4. CountInv'
  BY <1>2, <1>3, QuietCount DEF GameInv, CountInv
<1>5. /\ StoresOrdered'
      /\ target' = target /\ (Main'.pc \in {"keys", "simulate"} => Main'.pc = Main.pc) => TargetAhead'
  BY QuietStores DEF GameInv
<1>6. Pending' <= Pending /\ Slack <= Slack' => LagInv'
  <2>1. /\ Lag(tick) \in Nat /\ TicksUnderWay \in Nat /\ MaxBehind \in Nat
        /\ Pending \in Nat /\ Slack \in Nat /\ Pending' \in Nat /\ Slack' \in Nat
    BY <1>1, UnderWayIs, LagFacts, CycleBound DEF GameInv, TypeInv, Pending, Slack
  <2>2. Lag(tick) + TicksUnderWay + Pending <= MaxBehind + Slack
    BY DEF GameInv, LagInv
  <2>3. Pending' <= Pending /\ Slack <= Slack' => Lag(tick) + TicksUnderWay + Pending' <= MaxBehind + Slack'
    BY <2>1, <2>2
  <2>4. QED
    BY <1>2, <2>3 DEF LagInv
<1>7. QED
  BY <1>2, <1>4, <1>5, <1>6

-----------------------------------------------------------------------------
(* The devices.                                                            *)

LEMMA SameStack ==
  ASSUME GameInv, stack' = stack, tick' = tick, now' = now, target' = target,
         ticks' = ticks, nested' = nested, eflags_IF' = eflags_IF
  PROVE  /\ StackInv' /\ CountInv' /\ StoresOrdered' /\ TargetAhead'
         /\ Pending' <= Pending /\ Slack <= Slack' => LagInv'
<1>1. stack \in Seq(Contexts) /\ Main' = Main
  BY DEF GameInv, TypeInv, Main
<1>2. StackInv'
  BY <1>1 DEF GameInv, StackInv
<1>3. QED
  BY <1>1, <1>2, QuietStep

LEMMA KeyEventStep ==
  ASSUME GameInv, KeyEvent
  PROVE  GameInv'
<1>1. /\ kbd' = "raise" /\ scan_code_buf' \in ScanCodes /\ Forget
      /\ UNCHANGED <<eflags_IF, stack, tick, key_code, letter_pressed, now, target, letters, req, ticks, nested>>
  BY DEF KeyEvent, gameVars
<1>2. TypeInv'
  BY <1>1 DEF GameInv, TypeInv, Codes, Forget
<1>3. Pending' = Pending /\ Slack' = Slack /\ Pending \in Int /\ Slack \in Int
  BY <1>1 DEF Pending, Slack, Main
<1>4. StackInv' /\ CountInv' /\ StoresOrdered' /\ TargetAhead' /\ LagInv'
  BY <1>1, <1>3, SameStack
<1>5. StrokeInv'
  <2>1. stroke' \in Keys => stroke' = stroke /\ letter_pressed[stroke]
    BY <1>1, TypingAssumption DEF Forget
  <2>2. QED
    BY <1>1, <2>1 DEF GameInv, StrokeInv
<1>6. QED
  BY <1>2, <1>4, <1>5 DEF GameInv

LEMMA KeyRaiseStep ==
  ASSUME GameInv, KeyRaise
  PROVE  GameInv'
<1>1. /\ kbd = "raise" /\ kbd' = "poll" /\ req' = req \cup {KEYBOARD_VECTOR}
      /\ stroke' = IF ~scan_code_buf.up /\ Falls(letters, scan_code_buf.key) THEN scan_code_buf.key ELSE stroke
      /\ UNCHANGED <<scan_code_buf, eflags_IF, stack, tick, key_code, letter_pressed, now, target, letters, ticks, nested>>
  BY DEF KeyRaise, gameVars
<1>2. /\ scan_code_buf = NoScan \/ scan_code_buf \in ScanCodes
      /\ stroke \in Keys \cup {NoKey}
  BY DEF GameInv, TypeInv, Codes
<1>3. ~scan_code_buf.up => scan_code_buf \in ScanCodes /\ scan_code_buf.key \in Keys
                           /\ scan_code_buf = [key |-> scan_code_buf.key, up |-> FALSE]
  BY <1>2 DEF NoScan, ScanCodes
<1>4. TypeInv'
  BY <1>1, <1>2, <1>3 DEF GameInv, TypeInv
<1>5. Pending' = Pending /\ Slack' = Slack /\ Pending \in Int /\ Slack \in Int
  BY <1>1 DEF Pending, Slack, Main, TIMER_VECTOR, KEYBOARD_VECTOR
<1>6. StackInv' /\ CountInv' /\ StoresOrdered' /\ TargetAhead' /\ LagInv'
  BY <1>1, <1>5, SameStack
<1>7. StrokeInv'
  <2>1. OnItsWay'
    BY <1>1 DEF OnItsWay
  <2>2. CASE stroke' = stroke /\ stroke \in Keys /\ letter_pressed[stroke]
    BY <1>1, <2>2 DEF GameInv, StrokeInv
  <2>3. stroke \in Keys => letter_pressed[stroke]
    BY <1>1 DEF GameInv, StrokeInv
  <2>4. CASE ~scan_code_buf.up /\ Falls(letters, scan_code_buf.key)
    BY <1>1, <1>3, <2>1, <2>4 DEF StrokeInv
  <2>5. QED
    BY <1>1, <2>2, <2>3, <2>4 DEF StrokeInv
<1>8. QED
  BY <1>4, <1>6, <1>7 DEF GameInv

\* A tick is raised: while there is room for it, or to wake the loop.
LEMMA TickStep ==
  ASSUME GameInv, Tick
  PROVE  GameInv'
<1>1. /\ TIMER_VECTOR \notin req /\ req' = req \cup {TIMER_VECTOR}
      /\ Behind + TicksUnderWay < MaxBehind \/ Running.pc = "halted"
      /\ UNCHANGED <<scan_code_buf, kbd, eflags_IF, stack, tick, key_code, letter_pressed, now, target,
                     letters, ticks, nested, stroke>>
  BY DEF Tick, device, gameVars, history
<1>2. TypeInv'
  BY <1>1 DEF GameInv, TypeInv
<1>3. StackInv' /\ CountInv' /\ StoresOrdered' /\ TargetAhead'
  BY <1>1, SameStack
<1>4. LagInv'
  <2>1. /\ Lag(tick) \in Nat /\ TicksUnderWay \in Nat /\ MaxBehind \in Nat
    BY UnderWayIs, LagFacts, CycleBound DEF GameInv, TypeInv
  <2>2. Lag(tick)' = Lag(tick) /\ TicksUnderWay' = TicksUnderWay
    BY <1>1 DEF Lag, TicksUnderWay
  <2>3. Pending' = 1 /\ Pending = 0
    BY <1>1 DEF Pending
  <2>4. CASE Behind + TicksUnderWay < MaxBehind
    <3>1. Lag(tick) + TicksUnderWay < MaxBehind
      BY <2>4 DEF Behind, Lag, Distance
    <3>2. Slack' \in {0, 1}
      BY DEF Slack
    <3>3. Lag(tick) + TicksUnderWay + 1 <= MaxBehind + Slack'
      BY <2>1, <3>1, <3>2
    <3>4. QED
      BY <2>2, <2>3, <3>3 DEF LagInv
  <2>5. CASE Running.pc = "halted"
    <3>1. Main.pc = "halted" /\ Main' = Main
      BY <1>1, <2>5, RunningKinds DEF GameInv, MainPcs, Main
    <3>2. Slack = 0 /\ Slack' = 1
      BY <1>1, <3>1 DEF Slack
    <3>3. Lag(tick) + TicksUnderWay + 0 <= MaxBehind + 0
      BY <2>3, <3>2 DEF GameInv, LagInv
    <3>4. Lag(tick) + TicksUnderWay + 1 <= MaxBehind + 1
      BY <2>1, <3>3
    <3>5. QED
      BY <2>2, <2>3, <3>2, <3>4 DEF LagInv
  <2>6. QED
    BY <1>1, <2>4, <2>5
<1>5. StrokeInv'
  <2>1. OnItsWay => OnItsWay'
    BY <1>1 DEF OnItsWay, Carries
  <2>2. QED
    BY <1>1, <2>1 DEF GameInv, StrokeInv
<1>6. QED
  BY <1>2, <1>3, <1>4, <1>5 DEF GameInv

LEMMA StutterStep ==
  ASSUME GameInv, UNCHANGED vars
  PROVE  GameInv'
<1>1. UNCHANGED <<scan_code_buf, kbd, eflags_IF, stack, tick, key_code, letter_pressed, now, target,
                  letters, req, ticks, nested, stroke>>
  BY DEF vars
<1>2. TypeInv'
  BY <1>1 DEF GameInv, TypeInv
<1>3. Pending' = Pending /\ Slack' = Slack /\ Pending \in Int /\ Slack \in Int
  BY <1>1 DEF Pending, Slack, Main
<1>4. StackInv' /\ CountInv' /\ StoresOrdered' /\ TargetAhead' /\ LagInv'
  BY <1>1, <1>3, SameStack
<1>5. StrokeInv'
  <2>1. OnItsWay => OnItsWay'
    BY <1>1 DEF OnItsWay, Carries
  <2>2. QED
    BY <1>1, <2>1 DEF GameInv, StrokeInv
<1>6. QED
  BY <1>2, <1>4, <1>5 DEF GameInv

-----------------------------------------------------------------------------
(* keyboard_event.                                                         *)

\* It goes on to another label.
LEMMA KeyLoads ==
  ASSUME GameInv, Running.pc \in {"key_in", "key_store"}, NEW label \in {"key_store", "key_press"}, NEW v,
         [pc |-> label, eax |-> v] \in Contexts, Load(label, v),
         UNCHANGED <<eflags_IF, tick, now, target, letters, req, ticks, nested>>
  PROVE  StackInv' /\ CountInv' /\ LagInv' /\ StoresOrdered' /\ TargetAhead'
<1>1. PICK n \in Nat :
        /\ n = Len(stack) /\ n >= 2 /\ Running = stack[n]
        /\ stack' \in Seq(Contexts) /\ Len(stack') = n
        /\ stack'[n].pc = label
        /\ \A i \in 1 .. n - 1 : stack'[i] = stack[i]
        /\ stack'[1] = stack[1]
  BY HandlerLoads DEF GameInv, HandlerPcs
<1>2. Main' = Main
  BY <1>1 DEF Main
<1>3. StackInv'
  <2>1. \A i \in 2 .. n : i \in 2 .. Len(stack) /\ (i = n \/ i \in 1 .. n - 1)
    BY <1>1
  <2>2. label \in HandlerPcs
    BY DEF HandlerPcs
  <2>3. Main.pc # "halted" /\ eflags_IF
    BY <1>1 DEF GameInv, StackInv
  <2>4. Len(stack') >= 1
    BY <1>1
  <2>5. QED
    BY <1>1, <1>2, <2>1, <2>2, <2>3, <2>4 DEF GameInv, StackInv
<1>4. /\ \A i \in 1 .. Len(stack) : stack'[i].pc \in CountPcs <=> stack[i].pc \in CountPcs
      /\ \A i \in 2 .. Len(stack) : stack'[i].pc = "tick_store" => stack'[i] = stack[i]
  <2>1. \A i \in 1 .. Len(stack) : i = n \/ i \in 1 .. n - 1
    BY <1>1
  <2>2. \A i \in 2 .. Len(stack) : i = n \/ i \in 1 .. n - 1
    BY <1>1
  <2>3. label \notin CountPcs /\ Running.pc \notin CountPcs /\ label # "tick_store"
    BY DEF CountPcs
  <2>4. QED
    BY <1>1, <2>1, <2>2, <2>3
<1>5. Pending' = Pending /\ Slack' = Slack /\ Pending \in Int /\ Slack \in Int
  BY <1>2 DEF Pending, Slack
<1>6. QED
  BY <1>1, <1>2, <1>3, <1>4, <1>5, QuietStep

LEMMA KeyInStep ==
  ASSUME GameInv, KeyIn
  PROVE  GameInv'
<1>1. /\ Running.pc = "key_in" /\ Load("key_store", scan_code_buf)
      /\ UNCHANGED <<scan_code_buf, kbd, eflags_IF, tick, key_code, letter_pressed, now, target, letters,
                     req, ticks, nested, stroke>>
  BY DEF KeyIn, At, device, gameVars, history
<1>2. [pc |-> "key_store", eax |-> scan_code_buf] \in Contexts
  BY DEF GameInv, TypeInv, Contexts
<1>3. PICK n \in Nat :
        /\ n = Len(stack) /\ n >= 2 /\ Running = stack[n]
        /\ stack' \in Seq(Contexts) /\ Len(stack') = n
        /\ stack'[n].pc = "key_store" /\ stack'[n].eax = scan_code_buf
        /\ \A i \in 1 .. n - 1 : stack'[i] = stack[i]
        /\ stack'[1] = stack[1]
  BY <1>1, <1>2, HandlerLoads DEF GameInv, HandlerPcs
<1>4. StackInv' /\ CountInv' /\ LagInv' /\ StoresOrdered' /\ TargetAhead'
  BY <1>1, <1>2, KeyLoads
<1>5. TypeInv'
  BY <1>1, <1>3 DEF GameInv, TypeInv
<1>6. StrokeInv'
  <2>1. n \in 2 .. Len(stack') /\ \A j \in n + 1 .. Len(stack') : FALSE
    BY <1>3
  <2>2. OnItsWay'
    BY <1>1, <1>3, <2>1 DEF OnItsWay, Carries
  <2>3. QED
    BY <1>1, <2>2 DEF GameInv, StrokeInv
<1>7. QED
  BY <1>4, <1>5, <1>6 DEF GameInv

LEMMA KeyStoreStep ==
  ASSUME GameInv, KeyStore
  PROVE  GameInv'
<1>1. /\ Running.pc = "key_store" /\ key_code' = Running.eax /\ Load("key_press", 0)
      /\ UNCHANGED <<scan_code_buf, kbd, eflags_IF, tick, letter_pressed, now, target, letters,
                     req, ticks, nested, stroke>>
  BY DEF KeyStore, At, Goto, device, gameVars, history
<1>2. [pc |-> "key_press", eax |-> 0] \in Contexts
  BY CycleBound DEF Contexts, HandlerPcs, Times
<1>3. PICK n \in Nat :
        /\ n = Len(stack) /\ n >= 2 /\ Running = stack[n]
        /\ stack' \in Seq(Contexts) /\ Len(stack') = n
        /\ stack'[n].pc = "key_press"
        /\ \A i \in 1 .. n - 1 : stack'[i] = stack[i]
        /\ stack'[1] = stack[1]
  BY <1>1, <1>2, HandlerLoads DEF GameInv, HandlerPcs
<1>4. StackInv' /\ CountInv' /\ LagInv' /\ StoresOrdered' /\ TargetAhead'
  BY <1>1, <1>2, KeyLoads
<1>5. Running.eax \in Codes
  <2>1. Running \in Contexts
    BY RunningKinds DEF GameInv
  <2>2. QED
    BY <1>1, <2>1 DEF Contexts
<1>6. TypeInv'
  BY <1>1, <1>3, <1>5 DEF GameInv, TypeInv
<1>7. OnItsWay => OnItsWay'
  <2>1. CASE KEYBOARD_VECTOR \in req
    BY <1>1, <2>1 DEF OnItsWay
  <2>2. ASSUME NEW i \in 2 .. Len(stack), Carries(stack[i]),
               \A j \in i + 1 .. Len(stack) : stack[j].pc \in CountPcs
        PROVE  OnItsWay'
    <3>1. i = n
      <4>1. i = n \/ n \in i + 1 .. Len(stack)
        BY <1>3
      <4>2. QED
        BY <1>1, <1>3, <2>2, <4>1 DEF CountPcs
    <3>2. key_code' = scan_code_buf
      BY <1>1, <1>3, <2>2, <3>1 DEF Carries
    <3>3. n \in 2 .. Len(stack') /\ \A j \in n + 1 .. Len(stack') : FALSE
      BY <1>3
    <3>4. QED
      BY <1>1, <1>3, <3>2, <3>3 DEF OnItsWay, Carries
  <2>3. QED
    BY <2>1, <2>2 DEF OnItsWay
<1>8. StrokeInv'
  BY <1>1, <1>7 DEF GameInv, StrokeInv
<1>9. QED
  BY <1>4, <1>6, <1>8 DEF GameInv

\* The key is recorded, whichever code key_code holds by now.
LEMMA KeyPressStep ==
  ASSUME GameInv, KeyPress
  PROVE  GameInv'
<1>1. /\ Running.pc = "key_press" /\ Return
      /\ letter_pressed' = [k \in Keys |-> letter_pressed[k] \/ key_code = [key |-> k, up |-> FALSE]]
      /\ UNCHANGED <<scan_code_buf, kbd, eflags_IF, tick, key_code, now, target, letters, req, stroke>>
  BY DEF KeyPress, At, device, gameVars
<1>2. PICK n \in Nat :
        /\ n = Len(stack) /\ n >= 2 /\ Running = stack[n]
        /\ stack' \in Seq(Contexts) /\ Len(stack') = n - 1
        /\ \A i \in 1 .. n - 1 : stack'[i] = stack[i]
        /\ stack'[1] = stack[1]
        /\ IF n = 2 THEN ticks' = tick' /\ nested' = FALSE ELSE ticks' = ticks /\ nested' = nested
  BY <1>1, HandlerReturns DEF GameInv, HandlerPcs
<1>3. /\ Main' = Main /\ Main.pc # "halted" /\ eflags_IF
      /\ \A i \in 2 .. n - 1 : i \in 2 .. Len(stack) /\ i \in 1 .. n - 1
  BY <1>2 DEF Main, GameInv, StackInv
<1>4. StackInv'
  <2>1. Len(stack') >= 1
    BY <1>2
  <2>2. QED
    BY <1>1, <1>2, <1>3, <2>1 DEF GameInv, StackInv
<1>5. TypeInv'
  BY <1>1, <1>2 DEF GameInv, TypeInv
<1>6. TicksUnderWay' = TicksUnderWay /\ TicksUnderWay \in Nat
  <2>1. stack \in Seq(Contexts) /\ Len(stack) = Len(stack') + 1 /\ \A i \in 1 .. Len(stack') : stack'[i] = stack[i]
    BY <1>2 DEF GameInv, TypeInv
  <2>2. stack[Len(stack)].pc \notin CountPcs
    BY <1>1, <1>2 DEF CountPcs
  <2>3. QED
    BY <1>2, <2>1, <2>2, UnderWayPopped
<1>7. StoresOrdered' /\ TargetAhead'
  BY <1>1, <1>2, <1>3, QuietStores DEF GameInv
<1>8. CountInv'
  <2>1. CASE n = 2
    <3>1. TicksUnderWay' = 0
      <4>1. Len(stack') = 1
        BY <1>2, <2>1
      <4>2. UnderWay(stack') = {}
        BY <1>3, <4>1 DEF UnderWay, Main, GameInv, StackInv, MainPcs, CountPcs
      <4>3. QED
        BY <1>2, <4>2, UnderWayThen, FS_EmptySet
    <3>2. tick \in Times /\ ticks' = tick
      BY <1>1, <1>2, <2>1 DEF GameInv, TypeInv
    <3>3. (tick + 0) % Cycle = tick
      <4>1. tick \in Int /\ 0 <= tick /\ tick < Cycle /\ Cycle \in Nat \ {0} /\ tick + 0 = tick
        BY <3>2, CycleBound DEF Times
      <4>2. QED
        BY <4>1, ModNear
    <3>4. \A i \in 2 .. Len(stack') : FALSE
      BY <1>2, <2>1
    <3>5. QED
      BY <1>1, <3>1, <3>2, <3>3, <3>4 DEF CountInv, StoresCurrent
  <2>2. CASE n # 2
    BY <1>1, <1>2, <1>3, <1>6, <2>2, QuietCount DEF GameInv, CountInv
  <2>3. QED
    BY <2>1, <2>2
<1>9. LagInv'
  <2>1. Lag(tick)' = Lag(tick) /\ Pending' = Pending /\ Slack' = Slack
    BY <1>1, <1>3 DEF Lag, Pending, Slack
  <2>2. QED
    BY <1>6, <2>1 DEF GameInv, LagInv
<1>10. StrokeInv'
  <2>1. SUFFICES ASSUME stroke \in Keys, ~letter_pressed'[stroke]
                 PROVE  kbd = "poll" /\ scan_code_buf = [key |-> stroke, up |-> FALSE] /\ OnItsWay'
    BY <1>1 DEF GameInv, StrokeInv
  <2>2. ~letter_pressed[stroke] /\ key_code # [key |-> stroke, up |-> FALSE]
    BY <1>1, <2>1 DEF GameInv, TypeInv
  <2>3. kbd = "poll" /\ scan_code_buf = [key |-> stroke, up |-> FALSE] /\ OnItsWay
    BY <2>1, <2>2 DEF GameInv, StrokeInv
  <2>4. ASSUME NEW i \in 2 .. Len(stack), Carries(stack[i]),
               \A j \in i + 1 .. Len(stack) : stack[j].pc \in CountPcs
        PROVE  FALSE
    <3>1. i = n \/ n \in i + 1 .. Len(stack)
      BY <1>2
    <3>2. i = n
      BY <1>1, <1>2, <2>4, <3>1 DEF CountPcs
    <3>3. QED
      BY <1>1, <1>2, <2>2, <2>3, <2>4, <3>2 DEF Carries
  <2>5. KEYBOARD_VECTOR \in req
    BY <2>3, <2>4 DEF OnItsWay
  <2>6. QED
    BY <1>1, <2>3, <2>5 DEF OnItsWay
<1>11. QED
  BY <1>4, <1>5, <1>7, <1>8, <1>9, <1>10 DEF GameInv

-----------------------------------------------------------------------------
(* timer_event.                                                            *)

LEMMA SumMoves ==
  ASSUME NEW v \in Times, NEW u \in Nat, u + 1 < Cycle
  PROVE  /\ (Plus1(v) + u) % Cycle = (v + (u + 1)) % Cycle
         /\ Plus1((v + u) % Cycle) = (v + (u + 1)) % Cycle
         /\ (v + 0) % Cycle = v
<1>1. v \in Int /\ 0 <= v /\ v < Cycle /\ Cycle \in Nat \ {0}
  BY CycleBound DEF Times
<1>2. Plus1(v) = IF v + 1 = Cycle THEN 0 ELSE v + 1
  BY Plus1Is
<1>3. \A d \in 0 .. 2 * Cycle - 1 : d % Cycle = IF d < Cycle THEN d ELSE d - Cycle
  <2>1. ASSUME NEW d \in 0 .. 2 * Cycle - 1
        PROVE  d % Cycle = IF d < Cycle THEN d ELSE d - Cycle
    <3>1. d \in Int /\ 0 <= d /\ d < 2 * Cycle /\ (d < Cycle \/ Cycle <= d)
      BY <1>1
    <3>2. QED
      BY <1>1, <3>1, ModNear
  <2>2. QED
    BY <2>1
<1>4. PICK a \in Int, b \in Int : a = v + u /\ b = v + (u + 1)
  BY <1>1
<1>5. a \in 0 .. 2 * Cycle - 1 /\ b \in 0 .. 2 * Cycle - 1 /\ b = a + 1
  BY <1>1, <1>4
<1>6. /\ a % Cycle = IF a < Cycle THEN a ELSE a - Cycle
      /\ b % Cycle = IF b < Cycle THEN b ELSE b - Cycle
  BY <1>3, <1>5
<1>7. (Plus1(v) + u) % Cycle = b % Cycle
  <2>1. CASE v + 1 = Cycle
    <3>1. Plus1(v) + u = u /\ u \in 0 .. 2 * Cycle - 1 /\ u < Cycle
      BY <1>1, <1>2, <2>1
    <3>2. u % Cycle = u
      BY <1>3, <3>1
    <3>3. b - Cycle = u /\ ~(b < Cycle)
      BY <1>1, <1>4, <2>1
    <3>4. QED
      BY <1>6, <3>1, <3>2, <3>3
  <2>2. CASE v + 1 # Cycle
    <3>1. Plus1(v) + u = b
      BY <1>1, <1>2, <1>4, <2>2
    <3>2. QED
      BY <3>1
  <2>3. QED
    BY <2>1, <2>2
<1>8. Plus1(a % Cycle) = b % Cycle
  <2>1. a % Cycle \in Times
    BY <1>1, <1>5, <1>6 DEF Times
  <2>2. PICK c \in Int : c = a % Cycle
    BY <1>1, <1>5, <1>6
  <2>3. Plus1(c) = IF c + 1 = Cycle THEN 0 ELSE c + 1
    BY <2>1, <2>2, Plus1Is
  <2>4. Plus1(c) = b % Cycle
    BY <1>1, <1>5, <1>6, <2>2, <2>3
  <2>5. QED
    BY <2>2, <2>4
<1>9. (v + 0) % Cycle = v
  <2>1. v + 0 = v /\ v \in 0 .. 2 * Cycle - 1
    BY <1>1
  <2>2. QED
    BY <1>1, <1>3, <2>1
<1>10. QED
  BY <1>4, <1>5, <1>7, <1>8, <1>9

\* The bound on the ticks, for the arithmetic.
LEMMA SumBound ==
  ASSUME GameInv
  PROVE  /\ Lag(tick) \in Nat /\ TicksUnderWay \in Nat /\ Pending \in {0, 1} /\ Slack \in {0, 1}
         /\ Lag(tick) + TicksUnderWay + Pending <= MaxBehind + 1
         /\ MaxBehind \in Nat /\ Cycle \in Nat /\ MaxBehind + 1 < Cycle
         /\ TicksUnderWay + Pending < Cycle
<1>1. /\ Lag(tick) \in Nat /\ TicksUnderWay \in Nat /\ Pending \in {0, 1} /\ Slack \in {0, 1}
      /\ MaxBehind \in Nat /\ Cycle \in Nat /\ MaxBehind + 1 < Cycle
  BY LagFacts, UnderWayIs, CycleBound DEF GameInv, TypeInv, Pending, Slack
<1>2. Lag(tick) + TicksUnderWay + Pending <= MaxBehind + Slack
  BY DEF GameInv, LagInv
<1>3. Lag(tick) + TicksUnderWay + Pending <= MaxBehind + 1
  BY <1>1, <1>2
<1>4. TicksUnderWay + Pending < Cycle
  BY <1>1, <1>3
<1>5. QED
  BY <1>1, <1>3, <1>4

LEMMA TickLoadStep ==
  ASSUME GameInv, TickLoad
  PROVE  GameInv'
<1>1. /\ Running.pc = "tick_load" /\ Load("tick_store", tick)
      /\ UNCHANGED <<scan_code_buf, kbd, eflags_IF, tick, key_code, letter_pressed, now, target, letters,
                     req, ticks, nested, stroke>>
  BY DEF TickLoad, At, device, gameVars, history
<1>2. [pc |-> "tick_store", eax |-> tick] \in Contexts
  BY DEF GameInv, TypeInv, Contexts, HandlerPcs, CountPcs
<1>3. PICK n \in Nat :
        /\ n = Len(stack) /\ n >= 2 /\ Running = stack[n]
        /\ stack' \in Seq(Contexts) /\ Len(stack') = n
        /\ stack'[n].pc = "tick_store" /\ stack'[n].eax = tick
        /\ \A i \in 1 .. n - 1 : stack'[i] = stack[i]
        /\ stack'[1] = stack[1]
  BY <1>1, <1>2, HandlerLoads DEF GameInv, HandlerPcs, CountPcs
<1>4. /\ Main' = Main /\ Main.pc # "halted" /\ eflags_IF
      /\ \A i \in 2 .. n : i \in 2 .. Len(stack) /\ (i = n \/ (i \in 1 .. n - 1 /\ n \in i + 1 .. Len(stack)))
      /\ {"tick_load", "tick_store"} \subseteq CountPcs /\ CountPcs \subseteq HandlerPcs
  BY <1>3 DEF Main, GameInv, StackInv, HandlerPcs, CountPcs
<1>5. StackInv'
  <2>1. Len(stack') >= 1
    BY <1>3
  <2>2. QED
    BY <1>1, <1>3, <1>4, <2>1 DEF GameInv, StackInv
<1>6. TypeInv'
  BY <1>1, <1>3 DEF GameInv, TypeInv
<1>7. TicksUnderWay' = TicksUnderWay
  <2>1. \A i \in 1 .. Len(stack) : i = n \/ i \in 1 .. n - 1
    BY <1>3
  <2>2. \A i \in 1 .. Len(stack) : stack'[i].pc \in CountPcs <=> stack[i].pc \in CountPcs
    BY <1>1, <1>3, <1>4, <2>1
  <2>3. QED
    BY <1>3, <2>2, UnderWayKept DEF GameInv, TypeInv
<1>8. LagInv'
  BY <1>1, <1>4, <1>7 DEF GameInv, LagInv, Lag, Pending, Slack
<1>9. CountInv'
  <2>1. ASSUME StoresCurrent
        PROVE  StoresCurrent'
    <3>1. SUFFICES ASSUME NEW i \in 2 .. n, stack'[i].pc = "tick_store"
                   PROVE  /\ stack'[i].eax = tick
                          /\ \A j \in i + 1 .. n : stack'[j].pc \notin CountPcs
      BY <1>1, <1>3 DEF StoresCurrent
    <3>2. i = n
      <4>1. ASSUME i # n
            PROVE  stack[i].pc = "tick_store" /\ n \in i + 1 .. Len(stack) /\ stack[n].pc \in CountPcs
        BY <1>1, <1>3, <1>4, <3>1, <4>1
      <4>2. QED
        BY <1>4, <2>1, <4>1 DEF StoresCurrent
    <3>3. \A j \in n + 1 .. n : FALSE
      OBVIOUS
    <3>4. QED
      BY <1>3, <3>2, <3>3
  <2>2. QED
    BY <1>1, <1>7, <2>1 DEF GameInv, CountInv
<1>10. StoresOrdered' /\ TargetAhead'
  <2>1. ASSUME NEW i \in 2 .. n, stack'[i].pc = "tick_store"
        PROVE  /\ Distance(stack'[i].eax, now) <= Distance(tick, now)
               /\ \A j \in i + 1 .. n :
                    stack'[j].pc = "tick_store" => Distance(stack'[i].eax, now) <= Distance(stack'[j].eax, now)
               /\ Main.pc \in {"keys", "simulate"} => Distance(target, now) <= Distance(stack'[i].eax, now)
    <3>1. CASE i = n
      <4>1. Distance(tick, now) <= Distance(tick, now)
        BY SumBound DEF Lag
      <4>2. \A j \in n + 1 .. n : FALSE
        OBVIOUS
      <4>3. QED
        BY <1>3, <3>1, <4>1, <4>2 DEF GameInv, TargetAhead, Lag
    <3>2. CASE i # n
      <4>1. i \in 2 .. Len(stack) /\ stack'[i] = stack[i]
        BY <1>3, <1>4, <3>2
      <4>2. \A j \in i + 1 .. n : j \in i + 1 .. Len(stack) /\ (j = n \/ stack'[j] = stack[j])
        BY <1>3
      <4>3. QED
        BY <1>3, <2>1, <4>1, <4>2 DEF GameInv, StoresOrdered, TargetAhead, Lag
    <3>3. QED
      BY <3>1, <3>2
  <2>2. StoresOrdered'
    BY <1>1, <1>3, <2>1 DEF StoresOrdered, Lag
  <2>3. TargetAhead'
    BY <1>1, <1>3, <1>4, <2>1 DEF GameInv, TargetAhead, Lag
  <2>4. QED
    BY <2>2, <2>3
<1>11. StrokeInv'
  <2>1. ASSUME NEW i \in 2 .. Len(stack), Carries(stack[i]),
               \A j \in i + 1 .. Len(stack) : stack[j].pc \in CountPcs
        PROVE  OnItsWay'
    <3>1. i # n /\ i \in 1 .. n - 1
      <4>1. i # n
        BY <1>1, <1>3, <2>1 DEF Carries
      <4>2. QED
        BY <1>3, <4>1
    <3>2. i \in 2 .. Len(stack') /\ stack'[i] = stack[i]
      BY <1>3, <3>1
    <3>3. \A j \in i + 1 .. Len(stack') : j \in i + 1 .. Len(stack) /\ (j = n \/ stack'[j] = stack[j])
      BY <1>3
    <3>4. \A j \in i + 1 .. Len(stack') : stack'[j].pc \in CountPcs
      BY <1>3, <1>4, <2>1, <3>3
    <3>5. QED
      BY <1>1, <2>1, <3>2, <3>4 DEF OnItsWay, Carries
  <2>2. OnItsWay => OnItsWay'
    BY <1>1, <2>1 DEF OnItsWay
  <2>3. QED
    BY <1>1, <2>2 DEF GameInv, StrokeInv
<1>12. QED
  BY <1>5, <1>6, <1>8, <1>9, <1>10, <1>11 DEF GameInv

\* A lost update takes tick back to a value that is still ahead of everything the
\* contexts below know.
LEMMA TickStoreStep ==
  ASSUME GameInv, TickStore
  PROVE  GameInv'
<1>1. /\ Running.pc = "tick_store" /\ tick' = Plus1(Running.eax) /\ Return
      /\ UNCHANGED <<scan_code_buf, kbd, eflags_IF, key_code, letter_pressed, now, target, letters, req, stroke>>
  BY DEF TickStore, At, device, gameVars
<1>2. PICK n \in Nat :
        /\ n = Len(stack) /\ n >= 2 /\ Running = stack[n]
        /\ stack' \in Seq(Contexts) /\ Len(stack') = n - 1
        /\ \A i \in 1 .. n - 1 : stack'[i] = stack[i]
        /\ stack'[1] = stack[1]
        /\ IF n = 2 THEN ticks' = tick' /\ nested' = FALSE ELSE ticks' = ticks /\ nested' = nested
  BY <1>1, HandlerReturns DEF GameInv, HandlerPcs, CountPcs
<1>3. PICK e \in Times : e = Running.eax /\ e = stack[n].eax
  <2>1. Running \in Contexts
    BY RunningKinds DEF GameInv
  <2>2. Running.eax \in Times
    BY <1>1, <2>1 DEF Contexts
  <2>3. QED
    BY <1>2, <2>2
<1>4. /\ Main' = Main /\ Main.pc # "halted" /\ eflags_IF
      /\ \A i \in 2 .. n - 1 : i \in 2 .. Len(stack) /\ i \in 1 .. n - 1 /\ n \in i + 1 .. Len(stack)
      /\ n \in 2 .. Len(stack)
  BY <1>2 DEF Main, GameInv, StackInv
<1>5. StackInv'
  <2>1. Len(stack') >= 1
    BY <1>2
  <2>2. QED
    BY <1>1, <1>2, <1>4, <2>1 DEF GameInv, StackInv
<1>6. tick' \in Times /\ tick' = Plus1(e)
  BY <1>1, <1>3, Plus1Is
<1>7. TypeInv'
  <2>1. ticks' \in Times /\ nested' \in BOOLEAN
    BY <1>2, <1>6 DEF GameInv, TypeInv
  <2>2. QED
    BY <1>1, <1>2, <1>6, <2>1 DEF GameInv, TypeInv
<1>8. TicksUnderWay = TicksUnderWay' + 1 /\ TicksUnderWay' \in Nat
  <2>1. stack \in Seq(Contexts) /\ Len(stack) = Len(stack') + 1 /\ \A i \in 1 .. Len(stack') : stack'[i] = stack[i]
    BY <1>2 DEF GameInv, TypeInv
  <2>2. stack[Len(stack)].pc \in CountPcs
    BY <1>1, <1>2 DEF CountPcs
  <2>3. QED
    BY <1>2, <2>1, <2>2, UnderWayPopped
<1>9. /\ Distance(e, now) <= Distance(tick, now) /\ Distance(e, now) \in Nat
      /\ Distance(tick', now) = Distance(e, now) + 1
  <2>1. now \in Times
    BY DEF GameInv, TypeInv
  <2>2. Lag(e) <= Lag(tick)
    BY <1>1, <1>2, <1>3, <1>4 DEF GameInv, StoresOrdered
  <2>3. Lag(e) \in Nat /\ (Lag(e) + 1 < Cycle => Lag(Plus1(e)) = Lag(e) + 1)
    BY <2>1, LagFacts
  <2>4. Lag(e) + 1 < Cycle
    BY <1>8, <2>2, <2>3, SumBound
  <2>5. QED
    BY <1>6, <2>2, <2>3, <2>4 DEF Lag
<1>10. LagInv'
  <2>1. Pending' = Pending /\ Slack' = Slack /\ Lag(tick)' = Distance(e, now) + 1
    BY <1>1, <1>4, <1>9 DEF Lag, Pending, Slack
  <2>2. Lag(tick) + TicksUnderWay + Pending <= MaxBehind + Slack
    BY DEF GameInv, LagInv
  <2>3. PICK p \in Int, q \in Int, t \in Nat, u \in Nat, b \in Nat, d \in Nat :
          /\ p = Pending /\ q = Slack /\ t = Lag(tick) /\ u = TicksUnderWay' /\ b = MaxBehind
          /\ d = Distance(e, now) /\ d <= t
    <3>1. Pending \in Int /\ Slack \in Int /\ Lag(tick) \in Nat /\ MaxBehind \in Nat
      BY SumBound
    <3>2. Distance(e, now) <= Lag(tick)
      BY <1>9 DEF Lag
    <3>3. QED
      BY <1>8, <1>9, <3>1, <3>2, Zenon
  <2>4. t + (u + 1) + p <= b + q
    BY <1>8, <2>2, <2>3
  <2>5. (d + 1) + u + p <= b + q
    BY <2>3, <2>4
  <2>6. QED
    BY <2>1, <2>3, <2>5 DEF LagInv
<1>11. \A i \in 2 .. n - 1 : stack[i].pc = "tick_store" => Distance(stack[i].eax, now) <= Distance(e, now)
  BY <1>1, <1>2, <1>3, <1>4 DEF GameInv, StoresOrdered, Lag
<1>12. StoresOrdered'
  <2>1. ASSUME NEW i \in 2 .. n - 1, stack'[i].pc = "tick_store"
        PROVE  /\ Distance(stack'[i].eax, now) <= Distance(tick', now)
               /\ \A j \in i + 1 .. n - 1 :
                    stack'[j].pc = "tick_store" => Distance(stack'[i].eax, now) <= Distance(stack'[j].eax, now)
    <3>1. i \in 2 .. Len(stack) /\ stack'[i] = stack[i]
      BY <1>2, <1>4
    <3>2. \A j \in i + 1 .. n - 1 : j \in i + 1 .. Len(stack) /\ stack'[j] = stack[j]
      BY <1>2
    <3>3. stack[i].eax \in Times
      <4>1. stack[i] \in Contexts
        BY <1>2, <3>1 DEF GameInv, TypeInv
      <4>2. QED
        BY <2>1, <3>1, <4>1 DEF Contexts
    <3>4. Distance(stack[i].eax, now) <= Distance(tick', now)
      <4>1. Distance(stack[i].eax, now) \in Nat
        BY <3>3, DistanceIs DEF GameInv, TypeInv
      <4>2. Distance(stack[i].eax, now) <= Distance(e, now)
        BY <1>11, <2>1, <3>1
      <4>3. QED
        BY <1>9, <4>1, <4>2
    <3>5. QED
      BY <2>1, <3>1, <3>2, <3>4 DEF GameInv, StoresOrdered, Lag
  <2>2. QED
    BY <1>1, <1>2, <2>1 DEF StoresOrdered, Lag
<1>13. TargetAhead'
  <2>1. ASSUME Main.pc \in {"keys", "simulate"}
        PROVE  /\ 1 <= Distance(target, now) /\ Distance(target, now) <= Distance(tick', now)
               /\ \A i \in 2 .. n - 1 :
                    stack'[i].pc = "tick_store" => Distance(target, now) <= Distance(stack'[i].eax, now)
    <3>1. 1 <= Distance(target, now) /\ Distance(target, now) <= Distance(e, now)
      BY <1>1, <1>2, <1>3, <1>4, <2>1 DEF GameInv, TargetAhead, Lag
    <3>2. Distance(target, now) \in Nat
      BY DistanceIs DEF GameInv, TypeInv
    <3>3. Distance(target, now) <= Distance(tick', now)
      BY <1>9, <3>1, <3>2
    <3>4. QED
      BY <1>2, <1>4, <2>1, <3>1, <3>3 DEF GameInv, TargetAhead, Lag
  <2>2. QED
    BY <1>1, <1>2, <1>4, <2>1 DEF TargetAhead, Lag
<1>14. CountInv'
  <2>1. CASE n = 2
    <3>1. TicksUnderWay' = 0
      <4>1. Len(stack') = 1
        BY <1>2, <2>1
      <4>2. UnderWay(stack') = {}
        BY <1>4, <4>1 DEF UnderWay, Main, GameInv, StackInv, MainPcs, CountPcs
      <4>3. QED
        BY <1>2, <4>2, UnderWayThen, FS_EmptySet
    <3>2. (tick' + 0) % Cycle = tick'
      BY <1>6, CycleBound, SumMoves
    <3>3. \A i \in 2 .. Len(stack') : FALSE
      BY <1>2, <2>1
    <3>4. QED
      BY <1>2, <2>1, <3>1, <3>2, <3>3 DEF CountInv, StoresCurrent
  <2>2. CASE n # 2
    <3>1. SUFFICES ASSUME ~nested
                   PROVE  ticks = (tick' + TicksUnderWay') % Cycle /\ StoresCurrent'
      BY <1>2, <2>2 DEF CountInv
    <3>2. StoresCurrent /\ ticks = (tick + TicksUnderWay) % Cycle
      BY <3>1 DEF GameInv, CountInv
    <3>3. e = tick
      BY <1>1, <1>2, <1>3, <1>4, <3>2 DEF StoresCurrent
    <3>4. PICK u \in Nat : u = TicksUnderWay' /\ u + 1 = TicksUnderWay /\ u + 1 < Cycle
      <4>1. TicksUnderWay' + 1 < Cycle
        BY <1>8, SumBound
      <4>2. QED
        BY <1>8, <4>1
    <3>5. (Plus1(e) + u) % Cycle = (e + (u + 1)) % Cycle
      BY <3>4, SumMoves
    <3>6. \A i \in 2 .. Len(stack') : stack'[i].pc # "tick_store"
      <4>1. ASSUME NEW i \in 2 .. n - 1, stack'[i].pc = "tick_store"
            PROVE  FALSE
        <5>1. stack[n].pc \notin CountPcs
          BY <1>2, <1>4, <3>2, <4>1 DEF StoresCurrent
        <5>2. QED
          BY <1>1, <1>2, <5>1 DEF CountPcs
      <4>2. QED
        BY <1>2, <4>1
    <3>7. QED
      BY <1>6, <3>2, <3>3, <3>4, <3>5, <3>6 DEF StoresCurrent
  <2>3. QED
    BY <2>1, <2>2
<1>15. StrokeInv'
  <2>1. ASSUME NEW i \in 2 .. Len(stack), Carries(stack[i]),
               \A j \in i + 1 .. Len(stack) : stack[j].pc \in CountPcs
        PROVE  OnItsWay'
    <3>1. i # n
      BY <1>1, <1>2, <2>1 DEF Carries
    <3>2. i \in 2 .. n - 1
      BY <1>2, <3>1
    <3>3. i \in 2 .. Len(stack') /\ stack'[i] = stack[i]
      BY <1>2, <1>4, <3>2
    <3>4. \A j \in i + 1 .. Len(stack') : j \in i + 1 .. Len(stack) /\ stack'[j] = stack[j]
      BY <1>2
    <3>5. QED
      BY <1>1, <2>1, <3>3, <3>4 DEF OnItsWay, Carries
  <2>2. OnItsWay => OnItsWay'
    BY <1>1, <2>1 DEF OnItsWay
  <2>3. QED
    BY <1>1, <2>2 DEF GameInv, StrokeInv
<1>16. QED
  BY <1>5, <1>7, <1>10, <1>12, <1>13, <1>14, <1>15 DEF GameInv

-----------------------------------------------------------------------------
(* The entry into a handler.                                               *)

LEMMA TakeInterruptStep ==
  ASSUME GameInv, NEW v \in {TIMER_VECTOR, KEYBOARD_VECTOR}, TakeInterrupt(v)
  PROVE  GameInv'
<1> DEFINE label == IF v = TIMER_VECTOR THEN "tick_load" ELSE "key_in"
<1>1. /\ eflags_IF /\ v \in req /\ req' = {}
      /\ stack' = Append(Woken, Context(label))
      /\ UNCHANGED <<scan_code_buf, kbd, eflags_IF, tick, key_code, letter_pressed, now, target, letters>>
  BY DEF TakeInterrupt, HandlerOf, device, gameVars
<1>2. v = TIMER_VECTOR =>
        /\ nested' = (nested \/ \E i \in DOMAIN stack : stack[i].pc = "tick_store")
        /\ ticks' = IF nested' THEN 0 ELSE Plus1(ticks)
        /\ IF KEYBOARD_VECTOR \in req THEN Forget ELSE stroke' = stroke
  BY DEF TakeInterrupt, TIMER_VECTOR, KEYBOARD_VECTOR
<1>3. v # TIMER_VECTOR => v = KEYBOARD_VECTOR /\ nested' = nested /\ ticks' = ticks /\ stroke' = stroke
  BY DEF TakeInterrupt, TIMER_VECTOR, KEYBOARD_VECTOR
<1>4. label \in HandlerPcs \ {"key_store"} /\ (label \in CountPcs <=> v = TIMER_VECTOR)
      /\ label # "tick_store" /\ label \in HandlerPcs
  BY DEF HandlerPcs, CountPcs
<1>5. PICK n \in Nat :
        /\ n = Len(stack) /\ n >= 1
        /\ stack' \in Seq(Contexts) /\ Len(stack') = n + 1 /\ stack'[n + 1].pc = label
        /\ \A i \in 2 .. n : stack'[i] = stack[i]
        /\ stack'[1].pc = IF Main.pc = "halted" THEN "sample" ELSE Main.pc
  BY <1>1, <1>4, HandlerCalled DEF GameInv
<1>6. label = IF v = TIMER_VECTOR THEN "tick_load" ELSE "key_in"
  OBVIOUS
<1> HIDE DEF label
<1>7. \A i \in 2 .. n + 1 : i = n + 1 \/ i \in 2 .. n
  BY <1>5
<1>8. Main'.pc = IF Main.pc = "halted" THEN "sample" ELSE Main.pc
  BY <1>5 DEF Main
<1>9. StackInv'
  <2>1. Len(stack') >= 1
    BY <1>5
  <2>2. Main'.pc \in MainPcs /\ Main'.pc # "halted"
    BY <1>8 DEF GameInv, StackInv, MainPcs
  <2>3. \A i \in 2 .. Len(stack') : stack'[i].pc \in HandlerPcs
    BY <1>4, <1>5, <1>7 DEF GameInv, StackInv
  <2>4. QED
    BY <1>1, <2>1, <2>2, <2>3 DEF StackInv
<1>10. TypeInv'
  <2>1. ticks' \in Times /\ nested' \in BOOLEAN
    <3>1. ticks \in Times /\ nested \in BOOLEAN /\ 0 \in Times
      BY CycleBound DEF GameInv, TypeInv, Times
    <3>2. CASE v = TIMER_VECTOR
      BY <1>2, <3>1, <3>2, Plus1Is
    <3>3. CASE v # TIMER_VECTOR
      BY <1>3, <3>1, <3>3
    <3>4. QED
      BY <3>2, <3>3
  <2>2. stroke' \in Keys \cup {NoKey}
    BY <1>2, <1>3 DEF GameInv, TypeInv, Forget
  <2>3. QED
    BY <1>1, <1>5, <2>1, <2>2 DEF GameInv, TypeInv
<1>11. TicksUnderWay' = TicksUnderWay + (IF v = TIMER_VECTOR THEN 1 ELSE 0) /\ TicksUnderWay \in Nat
  <2>1. \A i \in 1 .. Len(stack) : stack'[i].pc \in CountPcs <=> stack[i].pc \in CountPcs
    <3>1. \A i \in 1 .. Len(stack) : i = 1 \/ i \in 2 .. n
      BY <1>5
    <3>2. stack'[1].pc \notin CountPcs /\ stack[1].pc \notin CountPcs
      BY <1>8 DEF Main, GameInv, StackInv, MainPcs, CountPcs
    <3>3. QED
      BY <1>5, <3>1, <3>2
  <2>2. stack \in Seq(Contexts)
    BY DEF GameInv, TypeInv
  <2>3. QED
    BY <1>4, <1>5, <2>1, <2>2, UnderWayPushed
<1>12. StoresOrdered' /\ TargetAhead'
  <2>1. \A i \in 2 .. Len(stack') : stack'[i].pc = "tick_store" => i \in 2 .. Len(stack) /\ stack'[i] = stack[i]
    BY <1>4, <1>5, <1>7
  <2>2. Main'.pc \in {"keys", "simulate"} => Main'.pc = Main.pc
    BY <1>8
  <2>3. QED
    BY <1>1, <1>5, <2>1, <2>2, QuietStores DEF GameInv
<1>13. LagInv'
  <2>1. Lag(tick)' = Lag(tick) /\ Pending' = 0
    BY <1>1 DEF Lag, Pending
  <2>2. Slack' = IF Main.pc = "loop" THEN 0 ELSE 1
    BY <1>1, <1>8 DEF Slack
  <2>3. Slack \in {0, 1} /\ (Main.pc = "loop" => Slack = 0) /\ (v = TIMER_VECTOR => Pending = 1)
    BY <1>1 DEF Slack, Pending
  <2>4. Lag(tick) + TicksUnderWay + Pending <= MaxBehind + Slack
    BY DEF GameInv, LagInv
  <2>5. PICK p \in {0, 1}, q \in {0, 1}, t \in Nat, u \in Nat, b \in Nat :
          p = Pending /\ q = Slack /\ t = Lag(tick) /\ u = TicksUnderWay /\ b = MaxBehind
    BY SumBound
  <2>6. CASE v = TIMER_VECTOR
    BY <1>11, <2>1, <2>2, <2>3, <2>4, <2>5, <2>6 DEF LagInv
  <2>7. CASE v # TIMER_VECTOR
    <3>1. TicksUnderWay' = TicksUnderWay
      BY <1>11, <2>7
    <3>2. t + u + 0 <= b + Slack'
      BY <2>2, <2>3, <2>4, <2>5
    <3>3. QED
      BY <2>1, <2>5, <3>1, <3>2 DEF LagInv
  <2>8. QED
    BY <2>6, <2>7
<1>14. CountInv'
  <2>1. SUFFICES ASSUME ~nested'
                 PROVE  ticks' = (tick + TicksUnderWay') % Cycle /\ StoresCurrent'
    BY <1>1 DEF CountInv
  <2>2. ~nested
    BY <1>2, <1>3, <2>1
  <2>3. StoresCurrent /\ ticks = (tick + TicksUnderWay) % Cycle /\ tick \in Times
    BY <2>2 DEF GameInv, CountInv, TypeInv
  <2>4. CASE v = TIMER_VECTOR
    <3>1. ticks' = Plus1(ticks) /\ \A i \in DOMAIN stack : stack[i].pc # "tick_store"
      BY <1>2, <2>1, <2>4
    <3>2. TicksUnderWay + 1 < Cycle
      <4>1. Pending = 1
        BY <1>1, <2>4 DEF Pending
      <4>2. QED
        BY <4>1, SumBound
    <3>3. Plus1((tick + TicksUnderWay) % Cycle) = (tick + (TicksUnderWay + 1)) % Cycle
      BY <1>11, <2>3, <3>2, SumMoves
    <3>4. \A i \in 2 .. Len(stack') : stack'[i].pc # "tick_store"
      <4>1. \A i \in 2 .. n : i \in DOMAIN stack
        BY <1>5 DEF GameInv, TypeInv
      <4>2. QED
        BY <1>4, <1>5, <1>7, <3>1, <4>1
    <3>5. QED
      BY <1>11, <2>3, <2>4, <3>1, <3>3, <3>4 DEF StoresCurrent
  <2>5. CASE v # TIMER_VECTOR
    <3>1. StoresCurrent'
      <4>1. \A i \in 2 .. Len(stack') :
              /\ stack'[i].pc = "tick_store" => stack'[i].eax = stack[i].eax /\ stack[i].pc = "tick_store"
              /\ stack'[i].pc \in CountPcs => i \in 2 .. Len(stack) /\ stack[i].pc \in CountPcs
        BY <1>4, <1>5, <1>7, <2>5
      <4>2. QED
        BY <1>1, <1>5, <2>3, <4>1, QuietCount
    <3>2. TicksUnderWay' = TicksUnderWay
      BY <1>11, <2>5
    <3>3. QED
      BY <1>3, <2>3, <2>5, <3>1, <3>2
  <2>6. QED
    BY <2>4, <2>5
<1>15. StrokeInv'
  <2>1. CASE v # TIMER_VECTOR
    <3>1. n + 1 \in 2 .. Len(stack') /\ \A j \in n + 1 + 1 .. Len(stack') : FALSE
      BY <1>5
    <3>2. OnItsWay'
      BY <1>5, <1>6, <2>1, <3>1 DEF OnItsWay, Carries
    <3>3. QED
      BY <1>1, <1>3, <2>1, <3>2 DEF GameInv, StrokeInv
  <2>2. CASE v = TIMER_VECTOR /\ KEYBOARD_VECTOR \in req
    <3>1. stroke' \in Keys => stroke' = stroke /\ letter_pressed[stroke]
      BY <1>2, <2>2, TypingAssumption DEF Forget
    <3>2. QED
      BY <1>1, <3>1 DEF GameInv, StrokeInv
  <2>3. CASE v = TIMER_VECTOR /\ KEYBOARD_VECTOR \notin req
    <3>1. ASSUME NEW i \in 2 .. Len(stack), Carries(stack[i]),
                 \A j \in i + 1 .. Len(stack) : stack[j].pc \in CountPcs
          PROVE  OnItsWay'
      <4>1. i \in 2 .. Len(stack') /\ stack'[i] = stack[i]
        BY <1>5
      <4>2. \A j \in i + 1 .. Len(stack') : j = n + 1 \/ (j \in i + 1 .. Len(stack) /\ stack'[j] = stack[j])
        BY <1>5
      <4>3. \A j \in i + 1 .. Len(stack') : stack'[j].pc \in CountPcs
        BY <1>4, <1>5, <2>3, <3>1, <4>2
      <4>4. QED
        BY <1>1, <3>1, <4>1, <4>3 DEF OnItsWay, Carries
    <3>2. OnItsWay => OnItsWay'
      BY <2>3, <3>1 DEF OnItsWay
    <3>3. QED
      BY <1>1, <1>2, <2>3, <3>2 DEF GameInv, StrokeInv
  <2>4. QED
    BY <2>1, <2>2, <2>3
<1>16. QED
  BY <1>9, <1>10, <1>12, <1>13, <1>14, <1>15 DEF GameInv

-----------------------------------------------------------------------------
(* The letters that stay on the screen.                                    *)

\* A set of natural numbers has a least element.
LEMMA Least ==
  ASSUME NEW T \in SUBSET Nat, T # {}
  PROVE  \E m \in T : \A k \in T : m <= k
<1> DEFINE R == {ss \in Nat \X Nat : ss[1] < ss[2]}
<1>1. OpToRel(<, Nat) = R
  BY Zenon DEF OpToRel
<1>2. IsWellFoundedOn(R, Nat)
  BY <1>1, NatLessThanWellFounded
<1>3. \A m, k \in Nat : ~(<<k, m>> \in R) => m <= k
  OBVIOUS
<1> HIDE DEF R
<1>4. PICK m \in T : \A k \in T : ~(<<k, m>> \in R)
  BY <1>2, WFMin
<1>5. \A k \in T : m <= k
  BY <1>3, <1>4, Zenon
<1>6. QED
  BY <1>5

\* What Updated has of the first n letters, computed from what it has of fewer.
KeptOf(ls, f, n) ==
  IF n = 0 THEN <<>>
  ELSE IF OnScreen(Moved(ls[n])) THEN Append(f[n - 1], Moved(ls[n])) ELSE f[n - 1]
IsKept(ls, f, N) == f = [n \in 0 .. N |-> KeptOf(ls, f, n)]

LEMMA KeptExists ==
  ASSUME NEW ls, NEW N \in Nat
  PROVE  \E f : IsKept(ls, f, N)
<1> DEFINE Bad == {m \in Nat : ~\E f : IsKept(ls, f, m)}
<1> SUFFICES ASSUME Bad # {}
             PROVE  FALSE
  OBVIOUS
<1>1. PICK m \in Bad : \A k \in Bad : m <= k
  <2>1. Bad \in SUBSET Nat
    OBVIOUS
  <2> HIDE DEF Bad
  <2>2. QED
    BY <2>1, Least
<1>2. CASE m = 0
  <2> DEFINE f == [k \in 0 .. 0 |-> <<>>]
  <2>1. IsKept(ls, f, 0)
    BY DEF IsKept, KeptOf
  <2>2. QED
    BY <1>1, <1>2, <2>1
<1>3. CASE m # 0
  <2>1. m - 1 \in Nat /\ ~(m <= m - 1)
    BY <1>1, <1>3
  <2>2. PICK g : IsKept(ls, g, m - 1)
    BY <1>1, <2>1
  <2> DEFINE f == [k \in 0 .. m |-> KeptOf(ls, g, k)]
  <2>3. \A k \in 0 .. m - 1 : f[k] = g[k]
    BY <2>1, <2>2 DEF IsKept
  <2> HIDE DEF f
  <2>4. ASSUME NEW k \in 0 .. m
        PROVE  KeptOf(ls, f, k) = KeptOf(ls, g, k)
    <3>1. k = 0 \/ k - 1 \in 0 .. m - 1
      BY <2>1
    <3>2. k = 0 \/ f[k - 1] = g[k - 1]
      BY <2>3, <3>1
    <3>3. QED
      BY <3>2, Zenon DEF KeptOf
  <2>5. f = [k \in 0 .. m |-> KeptOf(ls, g, k)]
    BY DEF f
  <2>6. IsKept(ls, f, m)
    BY <2>4, <2>5, Zenon DEF IsKept
  <2>7. QED
    BY <1>1, <2>6
<1>4. QED
  BY <1>2, <1>3

\* Each letter of s is one of the first n of ls, a place further, and on the screen.
Embeds(ls, s, n, pos) ==
  /\ pos \in [1 .. Len(s) -> 1 .. n]
  /\ \A i, j \in 1 .. Len(s) : pos[i] = pos[j] => i = j
  /\ \A i \in 1 .. Len(s) : s[i] = Moved(ls[pos[i]]) /\ OnScreen(s[i])

LEMMA MovedIs ==
  ASSUME NEW l \in Letters
  PROVE  /\ Moved(l).text = l.text
         /\ Moved(l).up <=> l.up
         /\ Moved(l).x = IF l.up THEN l.x - Rise ELSE l.x + 1
         /\ OnScreen(Moved(l)) => Moved(l) \in Letters
<1>1. l.x \in Nat /\ Rise \in Nat
  BY TypingAssumption DEF Letters
<1>2. (IF l.up THEN l.x - Rise ELSE l.x + 1) \in Int
  BY <1>1
<1>3. Moved(l).x = IF l.up THEN l.x - Rise ELSE l.x + 1
  BY DEF Moved, Letters
<1>4. Moved(l).text = l.text /\ Moved(l).up = l.up
  BY DEF Moved, Letters
<1>5. OnScreen(Moved(l)) => Moved(l).x \in Nat
  BY <1>2, <1>3 DEF OnScreen
<1>6. Moved(l).x \in Nat => Moved(l) \in Letters
  BY <1>3 DEF Moved, Letters
<1>7. QED
  BY <1>3, <1>4, <1>5, <1>6

LEMMA KeptEmbeds ==
  ASSUME NEW ls \in Seq(Letters), NEW N \in Nat, N = Len(ls), NEW f, IsKept(ls, f, N), NEW n \in 0 .. N
  PROVE  f[n] \in Seq(Letters) /\ \E pos : Embeds(ls, f[n], n, pos)
<1> DEFINE Good(k) == f[k] \in Seq(Letters) /\ \E pos : Embeds(ls, f[k], k, pos)
           Bad == {k \in 0 .. N : ~Good(k)}
<1> SUFFICES ASSUME Bad # {}
             PROVE  FALSE
  OBVIOUS
<1>1. PICK m \in Bad : \A k \in Bad : m <= k
  <2>1. Bad \in SUBSET Nat
    OBVIOUS
  <2> HIDE DEF Bad
  <2>2. QED
    BY <2>1, Least
<1>2. m \in 0 .. N /\ ~Good(m) /\ f[m] = KeptOf(ls, f, m)
  BY <1>1 DEF IsKept
<1>3. CASE m = 0
  <2>1. f[m] = <<>>
    BY <1>2, <1>3 DEF KeptOf
  <2>2. Embeds(ls, <<>>, 0, <<>>)
    BY DEF Embeds
  <2>3. <<>> \in Seq(Letters)
    OBVIOUS
  <2> HIDE DEF Bad
  <2>4. f[m] \in Seq(Letters) /\ Embeds(ls, f[m], m, <<>>)
    BY <1>3, <2>1, <2>2, <2>3
  <2>5. QED
    BY <1>2, <2>4
<1>4. CASE m # 0
  <2>1. m - 1 \in 0 .. N /\ ~(m <= m - 1) /\ m \in 1 .. Len(ls) /\ m \in Nat
    BY <1>2, <1>4
  <2>2. Good(m - 1)
    BY <1>1, <2>1
  <2> HIDE DEF Bad
  <2>3. PICK s \in Seq(Letters) : s = f[m - 1] /\ \E pos : Embeds(ls, s, m - 1, pos)
    BY <2>2
  <2>4. PICK pos : Embeds(ls, s, m - 1, pos)
    BY <2>3
  <2>5. PICK k \in Nat : k = Len(s)
    BY <2>3
  <2> DEFINE l == Moved(ls[m])
  <2>6. OnScreen(l) => l \in Letters
    BY <2>1, MovedIs
  <2>7. f[m] = IF OnScreen(l) THEN Append(s, l) ELSE s
    BY <1>2, <1>4, <2>3 DEF KeptOf
  <2>8. CASE ~OnScreen(l)
    <3>1. Embeds(ls, s, m, pos)
      <4>1. \A i \in 1 .. m - 1 : i \in 1 .. m
        BY <2>1
      <4>2. QED
        BY <2>4, <4>1 DEF Embeds
    <3>2. QED
      BY <1>2, <2>3, <2>7, <2>8, <3>1
  <2>9. CASE OnScreen(l)
    <3> DEFINE t == Append(s, l)
               q == [i \in 1 .. k + 1 |-> IF i = k + 1 THEN m ELSE pos[i]]
    <3>1. t \in Seq(Letters) /\ Len(t) = k + 1 /\ t[k + 1] = l /\ \A i \in 1 .. k : t[i] = s[i]
      BY <2>5, <2>6, <2>9
    <3>2. \A i \in 1 .. k + 1 : i = k + 1 \/ i \in 1 .. k
      BY <2>5
    <3>3. \A i \in 1 .. k : pos[i] \in 1 .. m - 1 /\ s[i] = Moved(ls[pos[i]]) /\ OnScreen(s[i])
      BY <2>5, <2>4 DEF Embeds
    <3>4. \A i \in 1 .. m - 1 : i \in 1 .. m /\ i # m
      BY <2>1
    <3>5. m \in 1 .. m /\ k + 1 \notin 1 .. k
      BY <2>1, <2>5
    <3>6. q \in [1 .. k + 1 -> 1 .. m]
      BY <3>2, <3>3, <3>4, <3>5
    <3>7. q[k + 1] = m /\ \A i \in 1 .. k : q[i] = pos[i]
      BY <2>5, <3>5
    <3> HIDE DEF q, t
    <3>8. \A i, j \in 1 .. k + 1 : q[i] = q[j] => i = j
      BY <2>5, <2>4, <3>2, <3>3, <3>4, <3>7 DEF Embeds
    <3>9. \A i \in 1 .. k + 1 : t[i] = Moved(ls[q[i]]) /\ OnScreen(t[i])
      BY <2>9, <3>1, <3>2, <3>3, <3>7
    <3>10. Embeds(ls, t, m, q)
      BY <3>1, <3>6, <3>8, <3>9 DEF Embeds
    <3>11. f[m] = t
      BY <2>7, <2>9 DEF t
    <3>12. QED
      BY <1>2, <3>1, <3>10, <3>11
  <2>10. QED
    BY <2>8, <2>9
<1>5. QED
  BY <1>3, <1>4

LEMMA UpdatedEmbeds ==
  ASSUME NEW ls \in Seq(Letters)
  PROVE  Updated(ls) \in Seq(Letters) /\ \E pos : Embeds(ls, Updated(ls), Len(ls), pos)
<1> DEFINE N == Len(ls)
           F == CHOOSE f : IsKept(ls, f, N)
<1>1. N \in Nat
  OBVIOUS
<1>2. IsKept(ls, F, N)
  BY <1>1, KeptExists
<1>3. Updated(ls) = F[N]
  BY DEF Updated, IsKept, KeptOf
<1> HIDE DEF F
<1>4. N \in 0 .. N
  BY <1>1
<1>5. QED
  BY <1>1, <1>2, <1>3, <1>4, KeptEmbeds

-----------------------------------------------------------------------------
(* The main loop.                                                          *)

\* It goes on to another label, within one tick.
LEMMA MainMoves ==
  ASSUME GameInv, Running.pc \in MainPcs, NEW label \in MainPcs, Load(label, 0),
         UNCHANGED <<tick, now, ticks, nested>>
  PROVE  /\ Len(stack) = 1 /\ Running = Main
         /\ stack' \in Seq(Contexts) /\ Len(stack') = 1 /\ Main'.pc = label
         /\ CountInv' /\ StoresOrdered'
         /\ TicksUnderWay = 0 /\ TicksUnderWay' = 0 /\ Lag(tick)' = Lag(tick)
         /\ target' = target /\ (label \in {"keys", "simulate"} => Main.pc = label \/ Main.pc = "keys")
              => TargetAhead'
         /\ req' = req /\ Slack <= Slack' => LagInv'
<1>1. /\ stack \in Seq(Contexts) /\ Len(stack) = 1 /\ Running = Main
      /\ stack' \in Seq(Contexts) /\ Len(stack') = 1 /\ Main'.pc = label
  BY MainLoads, CycleBound DEF GameInv, Times
<1>2. TicksUnderWay = 0
  BY <1>1, NoneUnderWay DEF GameInv
<1>3. \A p \in MainPcs : p \notin CountPcs
  BY DEF MainPcs, CountPcs
<1>4. /\ \A i \in 1 .. Len(stack) : stack'[i].pc \in CountPcs <=> stack[i].pc \in CountPcs
      /\ \A i \in 2 .. Len(stack) : stack'[i].pc = "tick_store" => stack'[i] = stack[i]
  BY <1>1, <1>3 DEF Main, Running
<1>5. /\ CountInv' /\ StoresOrdered' /\ Lag(tick)' = Lag(tick) /\ TicksUnderWay' = TicksUnderWay
      /\ Pending' <= Pending /\ Slack <= Slack' => LagInv'
  BY <1>1, <1>4, QuietStep
<1>6. req' = req => Pending' = Pending /\ Pending' <= Pending
  <2>1. req' = req => Pending' = Pending
    BY DEF Pending
  <2>2. Pending \in Int
    BY DEF Pending
  <2>3. QED
    BY <2>1, <2>2
<1>7. ASSUME target' = target, label \in {"keys", "simulate"} => Main.pc = label \/ Main.pc = "keys"
      PROVE  TargetAhead'
  <2>1. Main'.pc \in {"keys", "simulate"} => Main.pc \in {"keys", "simulate"}
    BY <1>1, <1>7
  <2>2. \A i \in 2 .. Len(stack') : FALSE
    BY <1>1
  <2>3. QED
    BY <1>7, <2>1, <2>2 DEF GameInv, TargetAhead, Lag
<1>8. QED
  BY <1>1, <1>2, <1>5, <1>6, <1>7

\* Without handlers, what is on its way is a pending interrupt.
LEMMA KeyPending ==
  ASSUME Len(stack) = 1
  PROVE  OnItsWay <=> KEYBOARD_VECTOR \in req
BY DEF OnItsWay

LEMMA WaitIntrStep ==
  ASSUME GameInv, WaitIntr
  PROVE  GameInv'
<1>1. /\ Running.pc = "loop" /\ Load("halted", 0) /\ (eflags_IF => req = {})
      /\ UNCHANGED <<scan_code_buf, kbd, eflags_IF, tick, key_code, letter_pressed, now, target, letters,
                     req, ticks, nested, stroke>>
  BY DEF WaitIntr, At, Goto, device, gameVars, history
<1>2. /\ Len(stack) = 1 /\ Running = Main
      /\ stack' \in Seq(Contexts) /\ Len(stack') = 1 /\ Main'.pc = "halted"
  BY <1>1, MainMoves DEF MainPcs
<1>3. eflags_IF /\ req = {}
  BY <1>1, <1>2 DEF GameInv, StackInv
<1>4. TypeInv'
  BY <1>1, <1>2 DEF GameInv, TypeInv
<1>5. StackInv'
  BY <1>1, <1>2, <1>3 DEF StackInv, MainPcs
<1>6. CountInv' /\ StoresOrdered' /\ TargetAhead' /\ LagInv'
  <2>1. Slack = 0 /\ Slack' = 0
    BY <1>1, <1>2, <1>3 DEF Slack
  <2>2. "halted" \in MainPcs /\ Running.pc \in MainPcs
    BY <1>1 DEF MainPcs
  <2>3. CountInv' /\ StoresOrdered' /\ TargetAhead' /\ (Slack <= Slack' => LagInv')
    BY <1>1, <2>2, MainMoves
  <2>4. QED
    BY <2>1, <2>3
<1>7. StrokeInv'
  <2>1. OnItsWay => OnItsWay'
    BY <1>1, <1>2 DEF OnItsWay
  <2>2. QED
    BY <1>1, <2>1 DEF GameInv, StrokeInv
<1>8. QED
  BY <1>4, <1>5, <1>6, <1>7 DEF GameInv

\* The loop goes to sleep only when it has caught up, and sets out for a tick
\* that is still ahead of it.
LEMMA SampleStep ==
  ASSUME GameInv, Sample
  PROVE  GameInv'
<1>1. PICK label \in {"loop", "keys"} :
        /\ Running.pc = "sample" /\ Load(label, 0) /\ (eflags_IF => req = {})
        /\ IF now = tick THEN label = "loop" /\ target' = target ELSE label = "keys" /\ target' = tick
        /\ UNCHANGED <<scan_code_buf, kbd, eflags_IF, tick, key_code, letter_pressed, now, letters,
                       req, ticks, nested, stroke>>
  BY DEF Sample, At, Goto, device, history
<1>2. label \in MainPcs /\ Running.pc \in MainPcs
  BY <1>1 DEF MainPcs
<1>3. /\ Len(stack) = 1 /\ Running = Main
      /\ stack' \in Seq(Contexts) /\ Len(stack') = 1 /\ Main'.pc = label
      /\ CountInv' /\ StoresOrdered'
      /\ TicksUnderWay = 0 /\ TicksUnderWay' = 0 /\ Lag(tick)' = Lag(tick)
  BY <1>1, <1>2, MainMoves
<1>4. eflags_IF /\ req = {}
  BY <1>1, <1>3 DEF GameInv, StackInv
<1>5. TypeInv'
  BY <1>1, <1>3 DEF GameInv, TypeInv
<1>6. StackInv'
  BY <1>1, <1>2, <1>3, <1>4 DEF StackInv
<1>7. /\ now \in Times /\ tick \in Times /\ MaxBehind \in Nat
      /\ Lag(tick) \in Nat /\ (now = tick <=> Lag(tick) = 0) /\ Pending = 0 /\ Pending' = 0
  <2>1. now \in Times /\ tick \in Times
    BY DEF GameInv, TypeInv
  <2>2. Pending = 0 /\ Pending' = 0
    BY <1>1, <1>4 DEF Pending
  <2>3. QED
    BY <2>1, <2>2, LagFacts, CycleBound
<1>8. TargetAhead'
  <2>1. CASE now = tick
    BY <1>1, <1>3, <2>1 DEF TargetAhead
  <2>2. CASE now # tick
    <3>1. Lag(tick) >= 1 /\ Lag(tick) <= Lag(tick)
      BY <1>7, <2>2
    <3>2. Lag(target)' = Lag(tick)
      BY <1>1, <2>2 DEF Lag
    <3>3. \A i \in 2 .. Len(stack') : FALSE
      BY <1>3
    <3>4. QED
      BY <1>3, <3>1, <3>2, <3>3 DEF TargetAhead
  <2>3. QED
    BY <2>1, <2>2
<1>9. LagInv'
  <2>1. Lag(tick) + 0 + 0 <= MaxBehind + 1
    <3>1. Slack = 1
      BY <1>1, <1>3 DEF Slack
    <3>2. QED
      BY <1>3, <1>7, <3>1 DEF GameInv, LagInv
  <2>2. CASE now = tick
    <3>1. 0 + 0 + 0 <= MaxBehind + 0 /\ 0 + 0 + 0 <= MaxBehind + 1
      BY <1>7
    <3>2. Slack' \in {0, 1}
      BY DEF Slack
    <3>3. Lag(tick)' = 0
      BY <1>3, <1>7, <2>2
    <3>4. QED
      BY <1>3, <1>7, <3>1, <3>2, <3>3 DEF LagInv
  <2>3. CASE now # tick
    <3>1. Slack' = 1
      BY <1>1, <1>3, <2>3 DEF Slack
    <3>2. QED
      BY <1>3, <1>7, <2>1, <3>1 DEF LagInv
  <2>4. QED
    BY <2>2, <2>3
<1>10. StrokeInv'
  <2>1. OnItsWay => OnItsWay'
    BY <1>1, <1>3, KeyPending DEF OnItsWay
  <2>2. QED
    BY <1>1, <2>1 DEF GameInv, StrokeInv
<1>11. QED
  BY <1>3, <1>5, <1>6, <1>8, <1>9, <1>10 DEF GameInv

LEMMA NoHitStep ==
  ASSUME GameInv, NoHit
  PROVE  GameInv'
<1>1. /\ Running.pc = "keys" /\ eflags_IF' = TRUE /\ Load("simulate", 0)
      /\ UNCHANGED <<scan_code_buf, kbd, tick, key_code, letter_pressed, now, target, letters,
                     req, ticks, nested, stroke>>
  BY DEF NoHit, At, Goto, device, gameVars, history
<1>2. /\ Len(stack) = 1 /\ Running = Main
      /\ stack' \in Seq(Contexts) /\ Len(stack') = 1 /\ Main'.pc = "simulate"
  BY <1>1, MainMoves DEF MainPcs
<1>3. CountInv' /\ StoresOrdered' /\ TargetAhead' /\ LagInv'
  <2>1. CountInv' /\ StoresOrdered' /\ (Slack <= Slack' => LagInv')
    BY <1>1, MainMoves DEF MainPcs
  <2>2. Main.pc = "keys" /\ "simulate" \in MainPcs /\ Running.pc \in MainPcs
    BY <1>1, <1>2 DEF MainPcs
  <2>3. TargetAhead'
    BY <1>1, <2>2, MainMoves
  <2>4. Slack = 1 /\ Slack' = 1
    BY <1>1, <1>2 DEF Slack
  <2>5. QED
    BY <2>1, <2>3, <2>4
<1>4. TypeInv'
  BY <1>1, <1>2 DEF GameInv, TypeInv
<1>5. StackInv'
  BY <1>1, <1>2 DEF StackInv, MainPcs
<1>6. StrokeInv'
  <2>1. OnItsWay => OnItsWay'
    BY <1>1, <1>2, KeyPending DEF OnItsWay
  <2>2. QED
    BY <1>1, <2>1 DEF GameInv, StrokeInv
<1>7. QED
  BY <1>3, <1>4, <1>5, <1>6 DEF GameInv

\* A letter that is hit no longer falls; one of another name is as it was.
LEMMA HitStep ==
  ASSUME GameInv, Hit
  PROVE  GameInv'
<1>1. PICK i \in DOMAIN letters :
        /\ Running.pc = "keys"
        /\ letter_pressed' = [letter_pressed EXCEPT ![letters[i].text] = FALSE]
        /\ letters' = [letters EXCEPT ![i].up = TRUE]
        /\ stroke' = IF stroke = letters[i].text THEN NoKey ELSE stroke
        /\ eflags_IF' = FALSE
        /\ UNCHANGED <<scan_code_buf, kbd, stack, tick, key_code, now, target, req, ticks, nested>>
  BY DEF Hit, At, Candidates, device
<1>2. Len(stack) = 1 /\ Main.pc = "keys" /\ Main' = Main
  BY <1>1, RunningKinds DEF GameInv, MainPcs, Main
<1>3. /\ letters \in Seq(Letters) /\ letters[i] \in Letters /\ letters[i].text \in Keys
      /\ letter_pressed \in [Keys -> BOOLEAN]
  <2>1. letters \in Seq(Letters) /\ letter_pressed \in [Keys -> BOOLEAN]
    BY DEF GameInv, TypeInv
  <2>2. letters[i] \in Letters
    BY <1>1, <2>1
  <2>3. QED
    BY <2>1, <2>2 DEF Letters
<1>4. letters' \in Seq(Letters) /\ \A j \in DOMAIN letters : j # i => j \in DOMAIN letters' /\ letters'[j] = letters[j]
  <2>1. PICK l \in Letters : l = [letters[i] EXCEPT !.up = TRUE]
    BY <1>3 DEF Letters
  <2>2. letters' = [letters EXCEPT ![i] = l]
    BY <1>1, <2>1
  <2>3. QED
    BY <1>3, <2>2
<1>5. TypeInv'
  BY <1>1, <1>3, <1>4 DEF GameInv, TypeInv
<1>6. StackInv'
  BY <1>1, <1>2 DEF GameInv, StackInv
<1>7. CountInv' /\ StoresOrdered' /\ TargetAhead' /\ LagInv'
  <2>1. stack' \in Seq(Contexts) /\ Pending' = Pending /\ Slack' = Slack /\ Pending \in Int /\ Slack \in Int
    BY <1>1, <1>2 DEF GameInv, TypeInv, Pending, Slack
  <2>2. Pending' <= Pending /\ Slack <= Slack'
    BY <2>1
  <2>3. QED
    BY <1>1, <1>2, <2>1, <2>2, QuietStep
<1>8. StrokeInv'
  <2>1. SUFFICES ASSUME stroke' \in Keys
                 PROVE  /\ Falls(letters', stroke')
                        /\ ~letter_pressed'[stroke'] =>
                             kbd' = "poll" /\ scan_code_buf' = [key |-> stroke', up |-> FALSE] /\ OnItsWay'
    BY DEF StrokeInv
  <2>2. stroke' = stroke /\ stroke \in Keys /\ stroke # letters[i].text
    BY <1>1, <2>1, TypingAssumption
  <2>3. Falls(letters', stroke')
    <3>1. PICK j \in DOMAIN letters : letters[j].text = stroke /\ ~letters[j].up
      BY <2>2 DEF GameInv, StrokeInv, Falls
    <3>2. j \in DOMAIN letters' /\ letters'[j] = letters[j]
      BY <1>4, <2>2, <3>1
    <3>3. QED
      BY <2>2, <3>1, <3>2 DEF Falls
  <2>4. letter_pressed'[stroke'] <=> letter_pressed[stroke]
    BY <1>1, <1>3, <2>2
  <2>5. OnItsWay => OnItsWay'
    BY <1>1 DEF OnItsWay, Carries
  <2>6. QED
    BY <1>1, <2>2, <2>3, <2>4, <2>5 DEF GameInv, StrokeInv
<1>9. QED
  BY <1>5, <1>6, <1>7, <1>8 DEF GameInv

LEMMA CreatedIs ==
  ASSUME letters \in Seq(Letters), NEW k \in Keys
  PROVE  /\ Created(k) \in Seq(Letters) /\ Len(Created(k)) = Len(letters) + 1
         /\ Created(k)[1] = [text |-> k, x |-> 0, up |-> FALSE]
         /\ \A i \in 2 .. Len(Created(k)) : i - 1 \in 1 .. Len(letters) /\ Created(k)[i] = letters[i - 1]
<1> DEFINE l == [text |-> k, x |-> 0, up |-> FALSE]
<1>1. l \in Letters
  BY DEF Letters
<1>2. Created(k) = <<l>> \o letters
  BY DEF Created
<1> HIDE DEF l
<1>3. <<l>> \in Seq(Letters) /\ Len(<<l>>) = 1 /\ <<l>>[1] = l
  BY <1>1
<1>4. /\ <<l>> \o letters \in Seq(Letters) /\ Len(<<l>> \o letters) = Len(letters) + 1
      /\ \A i \in 1 .. Len(letters) + 1 : (<<l>> \o letters)[i] = IF i <= 1 THEN <<l>>[i] ELSE letters[i - 1]
  BY <1>3, ConcatProperties
<1>5. Len(letters) \in Nat
  OBVIOUS
<1>6. /\ 1 \in 1 .. Len(letters) + 1
      /\ \A i \in 2 .. Len(letters) + 1 : i \in 1 .. Len(letters) + 1 /\ ~(i <= 1) /\ i - 1 \in 1 .. Len(letters)
  BY <1>5
<1>7. QED
  BY <1>2, <1>3, <1>4, <1>6 DEF l

\* The loop gets a tick closer to the one it has set out to reach.
LEMMA SimulateStep ==
  ASSUME GameInv, Simulate
  PROVE  GameInv'
<1>1. PICK label \in {"loop", "simulate"} :
        /\ Running.pc = "simulate" /\ Load(label, 0)
        /\ now' = Plus1(now) /\ (label = "simulate" => now' # target)
        /\ UNCHANGED <<scan_code_buf, kbd, eflags_IF, tick, key_code, target, req, ticks, nested>>
  BY DEF Simulate, At, Goto, device
<1>2. PICK ls \in Seq(Letters) :
        /\ letters' = Updated(ls) /\ letter_pressed' \in [Keys -> BOOLEAN]
        /\ stroke' = NoKey \/ (stroke' = stroke /\ Falls(letters', stroke) /\
                               (stroke \in Keys => letter_pressed'[stroke] = letter_pressed[stroke]))
  <2>1. letters \in Seq(Letters) /\ letter_pressed \in [Keys -> BOOLEAN]
    BY DEF GameInv, TypeInv
  <2>2. CASE now % CREATE_PERIOD = 0
    <3>1. PICK k \in Keys :
            /\ letters' = Updated(Created(k))
            /\ letter_pressed' = [letter_pressed EXCEPT ![k] = FALSE]
            /\ stroke' = IF stroke = k \/ ~Falls(letters', stroke) THEN NoKey ELSE stroke
      BY <2>2 DEF Simulate
    <3>2. Created(k) \in Seq(Letters)
      BY <2>1, CreatedIs
    <3>3. letter_pressed' \in [Keys -> BOOLEAN]
      BY <2>1, <3>1
    <3>4. \A q \in Keys : q # k => letter_pressed'[q] = letter_pressed[q]
      BY <2>1, <3>1
    <3>5. stroke' = NoKey \/ (stroke' = stroke /\ stroke # k /\ Falls(letters', stroke))
      BY <3>1
    <3>6. QED
      BY <3>1, <3>2, <3>3, <3>4, <3>5
  <2>3. CASE ~(now % CREATE_PERIOD = 0)
    <3>1. /\ letters' = Updated(letters) /\ letter_pressed' = letter_pressed
          /\ stroke' = IF ~Falls(letters', stroke) THEN NoKey ELSE stroke
      BY <2>3 DEF Simulate
    <3>2. QED
      BY <2>1, <3>1
  <2>4. QED
    BY <2>2, <2>3
<1>3. label \in MainPcs /\ Running.pc \in MainPcs /\ 0 \in Times
  BY <1>1, CycleBound DEF MainPcs, Times
<1>4. /\ stack \in Seq(Contexts) /\ Len(stack) = 1 /\ Running = Main
      /\ stack' \in Seq(Contexts) /\ Len(stack') = 1 /\ Main'.pc = label
  BY <1>1, <1>3, MainLoads DEF GameInv
<1>5. Main.pc = "simulate" /\ eflags_IF
  BY <1>1, <1>4 DEF GameInv, StackInv
<1>6. /\ now \in Times /\ tick \in Times /\ target \in Times
      /\ now' \in Times /\ now' = Plus1(now)
  <2>1. now \in Times /\ tick \in Times /\ target \in Times
    BY DEF GameInv, TypeInv
  <2>2. QED
    BY <1>1, <2>1, Plus1Is
<1>7. StackInv'
  <2>1. Len(stack') >= 1 /\ \A i \in 2 .. Len(stack') : FALSE
    BY <1>4
  <2>2. Main'.pc # "halted"
    BY <1>4
  <2>3. QED
    BY <1>1, <1>3, <1>4, <1>5, <2>1, <2>2 DEF StackInv
<1>8. TypeInv'
  <2>1. letters' \in Seq(Letters)
    BY <1>2, UpdatedEmbeds
  <2>2. stroke' \in Keys \cup {NoKey}
    BY <1>2 DEF GameInv, TypeInv
  <2>3. QED
    BY <1>1, <1>2, <1>4, <1>6, <2>1, <2>2 DEF GameInv, TypeInv
<1>9. TicksUnderWay = 0 /\ TicksUnderWay' = 0
  <2>1. UnderWay(stack') = {}
    BY <1>3, <1>4 DEF UnderWay, Main, MainPcs, CountPcs
  <2>2. TicksUnderWay' = 0
    BY <1>4, <2>1, UnderWayThen, FS_EmptySet
  <2>3. QED
    BY <1>4, <2>2, NoneUnderWay DEF GameInv
<1>10. CountInv' /\ StoresOrdered'
  <2>1. \A i \in 2 .. Len(stack') : FALSE
    BY <1>4
  <2>2. StoresCurrent' /\ StoresOrdered'
    BY <2>1 DEF StoresCurrent, StoresOrdered
  <2>3. QED
    BY <1>1, <1>9, <2>2 DEF GameInv, CountInv
<1>11. PICK g \in Nat, t \in Nat :
         /\ g = Distance(target, now) /\ t = Distance(tick, now) /\ 1 <= g /\ g <= t
         /\ Distance(target, now') = g - 1 /\ Distance(tick, now') = t - 1
  <2>1. Distance(target, now) \in Nat /\ Distance(tick, now) \in Nat
    BY <1>6, DistanceIs
  <2>2. 1 <= Distance(target, now) /\ Distance(target, now) <= Distance(tick, now)
    BY <1>5 DEF GameInv, TargetAhead, Lag
  <2>3. Distance(target, now) >= 1 /\ Distance(tick, now) >= 1
    BY <2>1, <2>2
  <2>4. Distance(target, Plus1(now)) = Distance(target, now) - 1
    BY <1>6, <2>3, DistanceMoves
  <2>5. Distance(tick, Plus1(now)) = Distance(tick, now) - 1
    BY <1>6, <2>3, DistanceMoves
  <2>6. QED
    BY <1>6, <2>1, <2>2, <2>4, <2>5
<1>12. TargetAhead'
  <2>1. \A i \in 2 .. Len(stack') : FALSE
    BY <1>4
  <2>2. now' # target => g - 1 # 0
    BY <1>6, <1>11, DistanceMoves
  <2>3. label = "simulate" => 1 <= g - 1 /\ g - 1 <= t - 1
    BY <1>1, <1>11, <2>2
  <2>4. Lag(target)' = g - 1 /\ Lag(tick)' = t - 1
    BY <1>1, <1>11 DEF Lag
  <2>5. QED
    BY <1>4, <2>1, <2>3, <2>4 DEF TargetAhead
<1>13. LagInv'
  <2>1. PICK p \in Nat : p = Pending /\ Pending' = p
    BY <1>1 DEF Pending
  <2>2. Slack = 1 /\ Slack' \in {0, 1}
    BY <1>5 DEF Slack
  <2>3. MaxBehind \in Nat
    BY CycleBound
  <2>4. t + 0 + p <= MaxBehind + 1
    BY <1>9, <1>11, <2>1, <2>2 DEF GameInv, LagInv, Lag
  <2>5. t - 1 + 0 + p <= MaxBehind + 0 /\ t - 1 + 0 + p <= MaxBehind + 1
    BY <2>3, <2>4
  <2>6. Lag(tick)' = t - 1
    BY <1>1, <1>11 DEF Lag
  <2>7. QED
    BY <1>9, <2>1, <2>2, <2>5, <2>6 DEF LagInv
<1>14. StrokeInv'
  <2>1. OnItsWay => OnItsWay'
    BY <1>1, <1>4, KeyPending DEF OnItsWay
  <2>2. stroke' \in Keys => /\ stroke' = stroke /\ Falls(letters', stroke)
                            /\ letter_pressed'[stroke] = letter_pressed[stroke]
    BY <1>2, TypingAssumption
  <2>3. QED
    BY <1>1, <2>1, <2>2 DEF GameInv, StrokeInv
<1>15. QED
  BY <1>7, <1>8, <1>10, <1>12, <1>13, <1>14 DEF GameInv

-----------------------------------------------------------------------------
(* The theorems.                                                           *)

LEMMA GameInit ==
  ASSUME Init
  PROVE  GameInv
<1>1. 0 \in Times /\ Cycle \in Nat \ {0} /\ MaxBehind \in Nat
  BY CycleBound DEF Times
<1>2. /\ stack = <<Context("loop")>> /\ tick = 0 /\ now = 0 /\ target = 0 /\ ticks = 0 /\ req = {}
      /\ stroke = NoKey /\ eflags_IF = TRUE /\ nested = FALSE
  BY DEF Init
<1>3. /\ Context("loop") \in Contexts /\ Context("loop").pc = "loop" /\ "loop" \in MainPcs
      /\ stack \in Seq(Contexts) /\ Len(stack) = 1 /\ Main.pc = "loop"
  <2>1. Context("loop") \in Contexts /\ Context("loop").pc = "loop" /\ "loop" \in MainPcs
    BY <1>1 DEF Context, Contexts, MainPcs
  <2>2. Len(stack) = 1 /\ stack[1] = Context("loop") /\ stack \in Seq(Contexts)
    BY <1>2, <2>1
  <2>3. QED
    BY <2>1, <2>2 DEF Main
<1>4. TypeInv
  <2>1. letters = <<>> /\ letters \in Seq(Letters)
    BY DEF Init
  <2>2. QED
    BY <1>1, <1>2, <1>3, <2>1 DEF Init, TypeInv, Codes, ScanCodes, NoScan
<1>5. StackInv /\ StoresCurrent /\ StoresOrdered /\ TargetAhead
  <2>1. Len(stack) >= 1 /\ \A i \in 2 .. Len(stack) : FALSE
    BY <1>3
  <2>2. QED
    BY <1>2, <1>3, <2>1 DEF StackInv, StoresCurrent, StoresOrdered, TargetAhead
<1>6. TicksUnderWay = 0
  BY <1>3, <1>4, <1>5, NoneUnderWay
<1>7. CountInv
  <2>1. (0 + 0) % Cycle = 0
    <3>1. 0 + 0 = 0 /\ 0 \in Int /\ 0 <= 0 /\ 0 < Cycle
      BY <1>1
    <3>2. QED
      BY <1>1, <3>1, ModNear
  <2>2. QED
    BY <1>2, <1>5, <1>6, <2>1 DEF CountInv
<1>8. LagInv
  <2>1. Lag(tick) = 0
    BY <1>1, <1>2, LagFacts
  <2>2. Pending = 0 /\ Slack = 0
    BY <1>2, <1>3 DEF Pending, Slack
  <2>3. 0 + 0 + 0 <= MaxBehind + 0
    BY <1>1
  <2>4. QED
    BY <1>6, <2>1, <2>2, <2>3 DEF LagInv
<1>9. StrokeInv
  BY <1>2, TypingAssumption DEF StrokeInv
<1>10. QED
  BY <1>4, <1>5, <1>7, <1>8, <1>9 DEF GameInv

LEMMA GameStep ==
  ASSUME GameInv, [Next]_vars
  PROVE  GameInv'
<1>1. CASE HandlerStep
  BY <1>1, TickLoadStep, TickStoreStep, KeyInStep, KeyStoreStep, KeyPressStep DEF HandlerStep
<1>2. CASE MainStep
  BY <1>2, WaitIntrStep, SampleStep, HitStep, NoHitStep, SimulateStep DEF MainStep
<1>3. CASE KeyEvent \/ KeyRaise \/ Tick \/ UNCHANGED vars
  BY <1>3, KeyEventStep, KeyRaiseStep, TickStep, StutterStep
<1>4. ASSUME NEW v \in {TIMER_VECTOR, KEYBOARD_VECTOR}, TakeInterrupt(v)
      PROVE  GameInv'
  BY <1>4, TakeInterruptStep
<1>5. QED
  BY <1>1, <1>2, <1>3, <1>4 DEF Next

\* The handlers are above the main loop and nothing else is; the ticks that are
\* counted, under way and pending add up; the game is never further behind than
\* the bound; the key of every stroke is recorded or on its way.
THEOREM GameInvariant == Spec => []GameInv
<1>1. Init => GameInv
  BY GameInit
<1>2. GameInv /\ [Next]_vars => GameInv'
  BY GameStep
<1>3. QED
  BY <1>1, <1>2, PTL DEF Spec

LEMMA LoadKeeps ==
  ASSUME stack \in Seq(Contexts), NEW label, NEW v, Load(label, v)
  PROVE  Len(stack') = Len(stack)
BY DEF Load

\* The main loop runs again when a handler returns.
LEMMA OnlyReturnsPop ==
  ASSUME GameInv, Next, Len(stack) = 2, Len(stack') = 1
  PROVE  TickStore \/ KeyPress
<1>1. stack \in Seq(Contexts) /\ Running.pc \notin MainPcs
  BY RunningKinds DEF GameInv
<1>2. stack' # stack
  OBVIOUS
<1>3. ~(KeyEvent \/ KeyRaise \/ Tick)
  BY <1>2 DEF KeyEvent, KeyRaise, Tick
<1>4. ~MainStep
  BY <1>1 DEF MainStep, WaitIntr, Sample, Hit, NoHit, Simulate, At, MainPcs
<1>5. ASSUME NEW v \in {TIMER_VECTOR, KEYBOARD_VECTOR}, TakeInterrupt(v)
      PROVE  FALSE
  <2>1. stack' = Append(Woken, Context(HandlerOf(v))) /\ HandlerOf(v) \in HandlerPcs \ {"key_store"}
    BY <1>5 DEF TakeInterrupt, HandlerOf, HandlerPcs, CountPcs
  <2>2. Len(stack') = 2 + 1
    BY <2>1, HandlerCalled DEF GameInv
  <2>3. QED
    BY <2>2
<1>6. ~(TickLoad \/ KeyIn \/ KeyStore)
  <2>1. \A label, v : ~Load(label, v)
    BY <1>1, LoadKeeps
  <2>2. QED
    BY <2>1 DEF TickLoad, KeyIn, KeyStore, Goto
<1>7. QED
  BY <1>3, <1>4, <1>5, <1>6 DEF Next, HandlerStep

\* The main loop takes note of every tick that was taken, unless one was taken
\* inside the increment of another one.
LEMMA CountedStep ==
  ASSUME GameInv, GameInv', Next, Len(stack) = 2, Len(stack') = 1
  PROVE  /\ ~nested => tick' = ticks
         /\ Behind' <= MaxBehind + 1
<1>1. Behind' <= MaxBehind + 1
  <2>1. tick' \in Times /\ now' \in Times /\ stack' \in Seq(Contexts)
    BY DEF GameInv, TypeInv
  <2>2. PICK d \in Nat : d = Distance(tick', now')
    BY <2>1, DistanceIs
  <2>3. PICK u \in Nat, p \in Nat, s \in {0, 1} : u = TicksUnderWay' /\ p = Pending' /\ s = Slack'
    BY <2>1, UnderWayThen DEF Pending, Slack
  <2>4. d + u + p <= MaxBehind + s
    BY <2>2, <2>3 DEF GameInv, LagInv, Lag
  <2>5. d <= MaxBehind + 1
    <3>1. MaxBehind \in Nat /\ (s = 0 \/ s = 1)
      BY CycleBound
    <3>2. s \in Nat /\ s <= 1
      BY <3>1
    <3>3. QED
      BY <2>4, <3>1, <3>2
  <2>6. QED
    BY <2>2, <2>5 DEF Behind, Distance
<1>2. ASSUME ~nested
      PROVE  tick' = ticks
  <2>1. /\ stack \in Seq(Contexts) /\ stack' \in Seq(Contexts) /\ tick \in Times
        /\ ticks = (tick + TicksUnderWay) % Cycle /\ StoresCurrent
    BY <1>2 DEF GameInv, TypeInv, CountInv
  <2>2. TicksUnderWay' = 0
    <3>1. UnderWay(stack') = {}
      BY DEF UnderWay, GameInv, StackInv, Main, MainPcs, CountPcs
    <3>2. QED
      BY <2>1, <3>1, UnderWayThen, FS_EmptySet
  <2>3. TicksUnderWay = IF Running.pc \in CountPcs THEN 1 ELSE 0
    <3>1. Return
      BY OnlyReturnsPop DEF TickStore, KeyPress
    <3>2. Len(stack) = Len(stack') + 1 /\ \A i \in 1 .. Len(stack') : stack'[i] = stack[i]
      BY <2>1, <3>1, Popped DEF Return
    <3>3. TicksUnderWay = 0 + (IF stack[Len(stack)].pc \in CountPcs THEN 1 ELSE 0)
      BY <2>1, <2>2, <3>2, UnderWayPopped
    <3>4. QED
      BY <3>3 DEF Running
  <2>4. CASE KeyPress
    <3>1. Running.pc \notin CountPcs /\ tick' = tick
      BY <2>4 DEF KeyPress, At, CountPcs
    <3>2. 0 \in Nat /\ 0 + 1 < Cycle
      BY CycleBound
    <3>3. (tick + 0) % Cycle = tick
      BY <2>1, <3>2, SumMoves
    <3>4. QED
      BY <2>1, <2>3, <3>1, <3>3
  <2>5. CASE TickStore
    <3>1. Running.pc = "tick_store" /\ tick' = Plus1(Running.eax) /\ Running.pc \in CountPcs
      BY <2>5 DEF TickStore, At, CountPcs
    <3>2. Running.eax = tick
      BY <2>1, <3>1 DEF StoresCurrent, Running
    <3>3. QED
      BY <2>1, <2>3, <3>1, <3>2 DEF Plus1
  <2>6. QED
    BY <2>4, <2>5, OnlyReturnsPop
<1>3. QED
  BY <1>1, <1>2

\* game.c:32 and the assertion of game.c:51: tick is the number of timer
\* interrupts, and the game is never further behind than the bound.
THEOREM TicksAreCounted == Spec => TicksCounted
<1>1. GameInv /\ GameInv' /\ [Next]_vars =>
        [Len(stack) = 2 /\ Len(stack') = 1 =>
           (~nested => tick' = ticks) /\ Behind' <= MaxBehind + 1]_vars
  BY CountedStep
<1>2. QED
  BY <1>1, GameInvariant, PTL DEF Spec, TicksCounted

\* The main loop leaves the keys when no falling letter's key is pressed.
LEMMA OnlyNoHit ==
  ASSUME GameInv, Next, Main.pc = "keys", Main'.pc = "simulate"
  PROVE  NoHit
<1>1. stack' # stack
  BY DEF Main
<1>2. ~(KeyEvent \/ KeyRaise \/ Tick \/ Hit)
  BY <1>1 DEF KeyEvent, KeyRaise, Tick, Hit
<1>3. ~(WaitIntr \/ Sample \/ Simulate)
  <2>1. Running.pc \in MainPcs => Running = Main
    BY RunningKinds DEF GameInv
  <2>2. QED
    BY <2>1 DEF WaitIntr, Sample, Simulate, At, MainPcs
<1>4. ASSUME NEW v \in {TIMER_VECTOR, KEYBOARD_VECTOR}, TakeInterrupt(v)
      PROVE  FALSE
  <2>1. stack' = Append(Woken, Context(HandlerOf(v))) /\ HandlerOf(v) \in HandlerPcs \ {"key_store"}
    BY <1>4 DEF TakeInterrupt, HandlerOf, HandlerPcs, CountPcs
  <2>2. stack'[1].pc = "keys"
    BY <2>1, HandlerCalled DEF GameInv
  <2>3. QED
    BY <2>2 DEF Main
<1>5. ~(TickStore \/ KeyPress)
  <2>1. Running.pc \in HandlerPcs /\ Return => stack'[1] = stack[1]
    BY HandlerReturns DEF GameInv
  <2>2. TickStore \/ KeyPress => Running.pc \in HandlerPcs /\ Return
    BY DEF TickStore, KeyPress, At, HandlerPcs, CountPcs
  <2>3. QED
    BY <2>1, <2>2 DEF Main
<1>6. ~(TickLoad \/ KeyIn \/ KeyStore)
  <2>1. ASSUME NEW label, NEW v, Running.pc \in HandlerPcs, Load(label, v)
        PROVE  stack'[1] = stack[1]
    <3>1. stack \in Seq(Contexts) /\ Len(stack) >= 2
      BY <2>1, RunningKinds DEF GameInv
    <3>2. QED
      BY <2>1, <3>1 DEF Load
  <2>2. TickLoad \/ KeyIn \/ KeyStore => Running.pc \in HandlerPcs /\ \E label, v : Load(label, v)
    BY DEF TickLoad, KeyIn, KeyStore, At, Goto, HandlerPcs, CountPcs
  <2>3. QED
    BY <2>1, <2>2 DEF Main
<1>7. QED
  BY <1>2, <1>3, <1>4, <1>5, <1>6 DEF Next, HandlerStep, MainStep

\* No stroke that was recorded is left without a letter to hit.
LEMMA StrokeStep ==
  ASSUME GameInv, NoHit
  PROVE  stroke = NoKey \/ KEYBOARD_VECTOR \in req
<1>1. SUFFICES ASSUME stroke \in Keys
               PROVE  KEYBOARD_VECTOR \in req
  BY DEF GameInv, TypeInv
<1>2. Running.pc = "keys" /\ Candidates = {}
  BY DEF NoHit, At
<1>3. Len(stack) = 1
  BY <1>2, RunningKinds DEF GameInv, MainPcs
<1>4. ~letter_pressed[stroke]
  <2>1. PICK i \in DOMAIN letters : letters[i].text = stroke /\ ~letters[i].up
    BY <1>1 DEF GameInv, StrokeInv, Falls
  <2>2. QED
    BY <1>2, <2>1 DEF Candidates
<1>5. QED
  BY <1>1, <1>3, <1>4, KeyPending DEF GameInv, StrokeInv

\* The key of a falling letter makes a letter fly up, unless the stroke is lost
\* in one of the ways named there.
THEOREM StrokesHit == Spec => StrokeHits
<1>1. GameInv /\ [Next]_vars =>
        [Main.pc = "keys" /\ Main'.pc = "simulate" => stroke = NoKey \/ KEYBOARD_VECTOR \in req]_vars
  BY OnlyNoHit, StrokeStep
<1>2. QED
  BY <1>1, GameInvariant, PTL DEF Spec, StrokeHits

-----------------------------------------------------------------------------
(* The pool of letters.                                                    *)

LEMMA TimesGrow ==
  ASSUME NEW M \in Nat, NEW a \in Int, NEW b \in Int, a <= b
  PROVE  M * a <= M * b /\ M * a \in Int /\ M * b \in Int
BY SMT

LEMMA DivMod ==
  ASSUME NEW M \in Int, M > 0, NEW v \in Int
  PROVE  v % M \in 0 .. M - 1 /\ \E d \in Int : v = M * d + (v % M)
<1>1. v % M \in 0 .. M - 1
  BY SMT
<1>2. \E d \in Int : v = M * d + (v % M)
  BY SMT
<1>3. QED
  BY <1>1, <1>2

LEMMA ModIs ==
  ASSUME NEW M \in Nat \ {0}, NEW q \in Int, NEW r \in 0 .. M - 1, NEW v \in Int, v = M * q + r
  PROVE  v % M = r
<1>1. PICK d \in Int, s \in 0 .. M - 1 : v = M * d + s /\ s = v % M
  <2>1. M \in Int /\ M > 0
    OBVIOUS
  <2>2. QED
    BY <2>1, DivMod
<1>2. CASE d + 1 <= q
  <2>1. M * (d + 1) <= M * q
    BY <1>2, TimesGrow
  <2>2. M * (d + 1) = M * d + M
    BY SMT
  <2>3. QED
    BY <1>1, <2>1, <2>2
<1>3. CASE q + 1 <= d
  <2>1. M * (q + 1) <= M * d
    BY <1>3, TimesGrow
  <2>2. M * (q + 1) = M * q + M
    BY SMT
  <2>3. QED
    BY <1>1, <2>1, <2>2
<1>4. CASE d = q
  <2>1. PICK z \in Int : z = M * q
    BY SMT
  <2>2. v = z + s /\ v = z + r
    BY <1>1, <1>4, <2>1
  <2>3. s = r
    BY <2>2
  <2>4. QED
    BY <1>1, <2>3
<1>5. QED
  BY <1>2, <1>3, <1>4

LEMMA ModPred ==
  ASSUME NEW M \in Nat \ {0}, NEW v \in Int
  PROVE  (v - 1) % M = IF v % M = 0 THEN M - 1 ELSE (v % M) - 1
<1>1. PICK d \in Int, s \in 0 .. M - 1, w \in Int : v = M * d + s /\ s = v % M /\ w = v - 1
  BY DivMod
<1>2. CASE s = 0
  <2>1. M * (d - 1) = M * d - M /\ d - 1 \in Int /\ M - 1 \in 0 .. M - 1 /\ M * d \in Int
    BY SMT
  <2>2. w = M * (d - 1) + (M - 1)
    BY <1>1, <1>2, <2>1
  <2>3. w % M = M - 1
    BY <2>1, <2>2, ModIs
  <2>4. QED
    BY <1>1, <1>2, <2>3
<1>3. CASE s # 0
  <2>1. s - 1 \in 0 .. M - 1
    BY <1>3
  <2>2. w = M * d + (s - 1)
    <3>1. PICK z \in Int : z = M * d
      BY SMT
    <3>2. v = z + s /\ w = v - 1
      BY <1>1, <3>1
    <3>3. w = z + (s - 1)
      BY <3>1, <3>2
    <3>4. QED
      BY <3>1, <3>3
  <2>3. w % M = s - 1
    BY <2>1, <2>2, ModIs
  <2>4. QED
    BY <1>1, <1>3, <2>3
<1>4. QED
  BY <1>2, <1>3

\* The period divides Cycle, so that letters come at their times when now wraps.
LEMMA PhaseMoves ==
  ASSUME now \in Times
  PROVE  /\ Phase = IF now % CREATE_PERIOD = 0 THEN CREATE_PERIOD ELSE now % CREATE_PERIOD
         /\ Phase \in 1 .. CREATE_PERIOD
         /\ now' = Plus1(now) => Phase' = (now % CREATE_PERIOD) + 1
<1>1. /\ CREATE_PERIOD \in Nat \ {0} /\ MaxBehind \in Nat \ {0} /\ Cycle \in Nat \ {0}
      /\ now \in Int /\ 0 <= now /\ now < Cycle
  BY CycleBound, TypingAssumption DEF Times
<1>2. PICK r \in 0 .. CREATE_PERIOD - 1 : r = now % CREATE_PERIOD
  BY <1>1, DivMod
<1>3. (now - 1) % CREATE_PERIOD = IF r = 0 THEN CREATE_PERIOD - 1 ELSE r - 1
  BY <1>1, <1>2, ModPred
<1>4. Phase = IF r = 0 THEN CREATE_PERIOD ELSE r
  BY <1>1, <1>3 DEF Phase
<1>5. ASSUME now' = Plus1(now)
      PROVE  Phase' = r + 1
  <2>1. Plus1(now) = IF now + 1 = Cycle THEN 0 ELSE now + 1
    BY Plus1Is
  <2>2. CASE now + 1 # Cycle
    <3>1. now' - 1 = now
      BY <1>1, <1>5, <2>1, <2>2
    <3>2. QED
      BY <1>2, <3>1 DEF Phase
  <2>3. CASE now + 1 = Cycle
    <3>1. Cycle % CREATE_PERIOD = 0
      <4>1. Cycle = CREATE_PERIOD * (MaxBehind + 1) + 0 /\ 0 \in 0 .. CREATE_PERIOD - 1 /\ MaxBehind + 1 \in Int /\ Cycle \in Int
        BY <1>1 DEF Cycle
      <4>2. QED
        BY <1>1, <4>1, ModIs
    <3>2. (Cycle - 1) % CREATE_PERIOD = CREATE_PERIOD - 1
      <4>1. Cycle \in Int /\ CREATE_PERIOD \in Nat \ {0}
        BY <1>1
      <4>2. QED
        BY <3>1, <4>1, ModPred
    <3>3. now = Cycle - 1
      BY <1>1, <2>3
    <3>4. r = CREATE_PERIOD - 1
      BY <1>2, <3>2, <3>3
    <3>5. (0 - 1) % CREATE_PERIOD = CREATE_PERIOD - 1
      <4>1. 0 % CREATE_PERIOD = 0
        BY <1>1, ModNear
      <4>2. 0 \in Int /\ CREATE_PERIOD \in Nat \ {0}
        BY <1>1
      <4>3. QED
        BY <4>1, <4>2, ModPred
    <3>6. now' = 0
      BY <1>5, <2>1, <2>3
    <3>7. QED
      BY <3>4, <3>5, <3>6 DEF Phase
  <2>4. QED
    BY <2>2, <2>3
<1>6. QED
  BY <1>1, <1>2, <1>4, <1>5

\* An update makes a letter older by one.
LEMMA LetterAges ==
  ASSUME NEW l \in Letters, NEW age \in Nat, Fits(l, age), OnScreen(Moved(l))
  PROVE  Fits(Moved(l), age + 1)
<1>1. PICK m : m = Moved(l) /\ (m.up <=> l.up) /\ m.x = IF l.up THEN l.x - Rise ELSE l.x + 1
  BY MovedIs
<1>2. /\ l.x \in Nat /\ Rise \in Nat \ {0} /\ Bottom \in Nat \ {0}
      /\ l.x < Bottom /\ (~l.up => l.x = age) /\ m.x < Bottom
  BY <1>1, TypingAssumption DEF Letters, Fits, OnScreen
<1>3. PICK x \in Nat, R \in Nat, B \in Nat : x = l.x /\ R = Rise /\ B = Bottom
  BY <1>2
<1>4. R * (age + 1) = R * age + R /\ R * age \in Int
  BY SMT
<1>5. R * age + x <= (B - 1) * (R + 1)
  BY <1>3 DEF Fits
<1>6. CASE l.up
  <2>1. m.x = x - R
    BY <1>1, <1>3, <1>6
  <2>2. R * (age + 1) + (x - R) = R * age + x
    BY <1>4
  <2>3. Rise * (age + 1) + m.x <= (Bottom - 1) * (Rise + 1)
    BY <1>3, <1>5, <2>1, <2>2
  <2>4. QED
    BY <1>1, <1>2, <1>6, <2>3 DEF Fits
<1>7. CASE ~l.up
  <2>1. m.x = age + 1 /\ age + 1 <= B - 1
    BY <1>1, <1>2, <1>3, <1>7
  <2>2. (R + 1) * (age + 1) <= (R + 1) * (B - 1)
    <3>1. age + 1 \in Int /\ B - 1 \in Int /\ R + 1 \in Nat
      OBVIOUS
    <3>2. QED
      BY <2>1, <3>1, TimesGrow
  <2>3. (R + 1) * (age + 1) = R * (age + 1) + (age + 1) /\ (R + 1) * (B - 1) = (B - 1) * (R + 1)
    BY SMT
  <2>4. R * (age + 1) + m.x <= (B - 1) * (R + 1)
    BY <2>1, <2>2, <2>3
  <2>5. QED
    BY <1>1, <1>2, <1>3, <1>7, <2>1, <2>4 DEF Fits
<1>8. QED
  BY <1>6, <1>7

LEMMA AgeIs ==
  ASSUME NEW q \in Nat, NEW a \in Nat
  PROVE  /\ Age(q, a) \in Nat
         /\ Age(q, a + 1) = Age(q, a) + 1
         /\ Age(q + 1, a) = Age(q, CREATE_PERIOD + a)
         /\ Age(0, a) = a
<1>1. PICK P \in Nat : P = CREATE_PERIOD
  BY TypingAssumption
<1>2. PICK z \in Nat : z = q * P /\ (q + 1) * P = z + P /\ 0 * P = 0
  BY SMT
<1>3. /\ z + a \in Nat /\ z + (a + 1) = (z + a) + 1 /\ (z + P) + a = z + (P + a) /\ 0 + a = a
  BY <1>1, <1>2
<1>4. QED
  BY <1>1, <1>2, <1>3 DEF Age

\* An update keeps the places, and drops those of the letters that leave.
LEMMA UpdatedPlaced ==
  ASSUME NEW ls \in Seq(Letters), NEW places, NEW a \in Nat, Placed(ls, places, a)
  PROVE  \E p : Placed(Updated(ls), p, a + 1)
<1>1. PICK n \in Nat : n = Len(ls)
  OBVIOUS
<1>2. Updated(ls) \in Seq(Letters) /\ \E pos : Embeds(ls, Updated(ls), n, pos)
  BY <1>1, UpdatedEmbeds
<1>3. PICK s \in Seq(Letters) : s = Updated(ls) /\ \E pos : Embeds(ls, s, n, pos)
  BY <1>2
<1>4. PICK pos : Embeds(ls, s, n, pos)
  BY <1>3
<1>5. PICK k \in Nat : k = Len(s)
  BY <1>3
<1> DEFINE p == [i \in 1 .. k |-> places[pos[i]]]
<1>6. \A i \in 1 .. k : pos[i] \in 1 .. n /\ places[pos[i]] \in Nat /\ p[i] = places[pos[i]]
  BY <1>1, <1>4, <1>5 DEF Embeds, Placed
<1>7. p \in [1 .. k -> Nat]
  BY <1>6
<1> HIDE DEF p
<1>8. \A i, j \in 1 .. k : p[i] = p[j] => i = j
  <2>1. SUFFICES ASSUME NEW i \in 1 .. k, NEW j \in 1 .. k, p[i] = p[j]
                 PROVE  i = j
    OBVIOUS
  <2>2. pos[i] = pos[j]
    BY <1>1, <1>6, <2>1 DEF Placed
  <2>3. QED
    BY <1>4, <1>5, <2>2 DEF Embeds
<1>9. ASSUME NEW i \in 1 .. k
      PROVE  Fits(s[i], Age(p[i], a + 1))
  <2>1. PICK m \in 1 .. n : m = pos[i] /\ p[i] = places[m] /\ places[m] \in Nat
    BY <1>6
  <2>2. ls[m] \in Letters /\ Fits(ls[m], Age(places[m], a))
    BY <1>1, <2>1 DEF Placed
  <2>3. s[i] = Moved(ls[m]) /\ OnScreen(Moved(ls[m]))
    BY <1>4, <1>5, <2>1 DEF Embeds
  <2>4. Age(places[m], a) \in Nat /\ Age(places[m], a + 1) = Age(places[m], a) + 1
    BY <2>1, AgeIs
  <2>5. Fits(Moved(ls[m]), Age(places[m], a) + 1)
    BY <2>2, <2>3, <2>4, LetterAges
  <2>6. QED
    BY <2>1, <2>3, <2>4, <2>5
<1>10. Placed(s, p, a + 1)
  BY <1>5, <1>7, <1>8, <1>9 DEF Placed
<1>11. QED
  BY <1>3, <1>10

\* A new letter takes the first place, and the others move up a place.
LEMMA CreatedPlaced ==
  ASSUME letters \in Seq(Letters), NEW k \in Keys, NEW places, Placed(letters, places, CREATE_PERIOD)
  PROVE  \E p : Placed(Created(k), p, 0)
<1>1. PICK n \in Nat : n = Len(letters)
  OBVIOUS
<1>2. PICK ls \in Seq(Letters) :
        /\ ls = Created(k) /\ Len(ls) = n + 1 /\ ls[1] = [text |-> k, x |-> 0, up |-> FALSE]
        /\ \A i \in 2 .. n + 1 : i - 1 \in 1 .. n /\ ls[i] = letters[i - 1]
  BY <1>1, CreatedIs
<1> DEFINE p == [i \in 1 .. n + 1 |-> IF i = 1 THEN 0 ELSE places[i - 1] + 1]
<1>3. \A i \in 1 .. n + 1 : i = 1 \/ (i # 1 /\ i \in 2 .. n + 1)
  OBVIOUS
<1>4. /\ places \in [1 .. n -> Nat]
      /\ \A i, j \in 1 .. n : places[i] = places[j] => i = j
      /\ \A i \in 1 .. n : Fits(letters[i], Age(places[i], CREATE_PERIOD))
  BY <1>1 DEF Placed
<1>5. \A i \in 2 .. n + 1 : places[i - 1] \in Nat
  BY <1>2, <1>4
<1>6. /\ p \in [1 .. n + 1 -> Nat]
      /\ p[1] = 0 /\ \A i \in 2 .. n + 1 : p[i] = places[i - 1] + 1
  <2>1. 1 \in 1 .. n + 1 /\ \A i \in 2 .. n + 1 : i \in 1 .. n + 1 /\ i # 1
    OBVIOUS
  <2>2. \A i \in 1 .. n + 1 : (IF i = 1 THEN 0 ELSE places[i - 1] + 1) \in Nat
    BY <1>3, <1>5
  <2>3. QED
    BY <2>1, <2>2
<1> HIDE DEF p
<1>7. \A i, j \in 1 .. n + 1 : p[i] = p[j] => i = j
  <2>1. SUFFICES ASSUME NEW i \in 1 .. n + 1, NEW j \in 1 .. n + 1, p[i] = p[j]
                 PROVE  i = j
    OBVIOUS
  <2>2. CASE i = 1 \/ j = 1
    <3>1. \A m \in 2 .. n + 1 : p[m] # 0
      BY <1>5, <1>6
    <3>2. QED
      BY <1>3, <1>6, <2>1, <2>2, <3>1
  <2>3. CASE i # 1 /\ j # 1
    <3>1. i \in 2 .. n + 1 /\ j \in 2 .. n + 1
      BY <1>3, <2>3
    <3>2. places[i - 1] = places[j - 1]
      <4>1. p[i] = places[i - 1] + 1 /\ p[j] = places[j - 1] + 1
        BY <1>6, <3>1
      <4>2. PICK a \in Nat, b \in Nat : a = places[i - 1] /\ b = places[j - 1]
        BY <1>5, <3>1
      <4>3. a + 1 = b + 1
        BY <2>1, <4>1, <4>2
      <4>4. QED
        BY <4>2, <4>3
    <3>3. i - 1 \in 1 .. n /\ j - 1 \in 1 .. n
      BY <1>2, <3>1
    <3>4. i - 1 = j - 1
      BY <1>4, <3>2, <3>3
    <3>5. QED
      BY <3>4
  <2>4. QED
    BY <2>2, <2>3
<1>8. ASSUME NEW i \in 1 .. n + 1
      PROVE  Fits(ls[i], Age(p[i], 0))
  <2>1. CASE i = 1
    <3>1. Age(p[i], 0) = 0
      BY <1>6, <2>1, AgeIs
    <3>2. Bottom \in Nat \ {0} /\ Rise \in Nat
      BY TypingAssumption
    <3>3. 0 < Bottom /\ Rise * 0 + 0 <= (Bottom - 1) * (Rise + 1)
      <4>1. Bottom - 1 \in Nat /\ Rise + 1 \in Nat /\ Rise * 0 = 0
        BY <3>2
      <4>2. (Bottom - 1) * (Rise + 1) \in Nat
        BY <4>1
      <4>3. QED
        BY <3>2, <4>1, <4>2
    <3>4. QED
      BY <1>2, <2>1, <3>1, <3>3 DEF Fits
  <2>2. CASE i # 1
    <3>1. PICK m \in 1 .. n : m = i - 1 /\ ls[i] = letters[m] /\ p[i] = places[m] + 1 /\ places[m] \in Nat
      BY <1>2, <1>3, <1>5, <1>6, <2>2
    <3>2. Age(places[m] + 1, 0) = Age(places[m], CREATE_PERIOD + 0)
      <4>1. PICK q \in Nat : q = places[m]
        BY <3>1
      <4>2. Age(q + 1, 0) = Age(q, CREATE_PERIOD + 0)
        BY AgeIs
      <4>3. QED
        BY <4>1, <4>2
    <3>3. CREATE_PERIOD + 0 = CREATE_PERIOD
      BY TypingAssumption
    <3>4. QED
      BY <1>4, <3>1, <3>2, <3>3
  <2>3. QED
    BY <2>1, <2>2
<1>9. Placed(ls, p, 0)
  BY <1>2, <1>6, <1>7, <1>8 DEF Placed
<1>10. QED
  BY <1>2, <1>9

LEMMA DivIs ==
  ASSUME NEW M \in Int, M > 0, NEW v \in Nat
  PROVE  v \div M \in Nat /\ \E s \in 0 .. M - 1 : v = M * (v \div M) + s
<1>1. v \div M \in Int
  BY SMT
<1>2. v = M * (v \div M) + (v % M)
  BY Z3
<1>3. v % M \in 0 .. M - 1
  BY SMT
<1>4. PICK d \in Int, s \in 0 .. M - 1 : d = v \div M /\ s = v % M /\ v = M * d + s
  BY <1>1, <1>2, <1>3
<1>5. d >= 0
  <2>1. SUFFICES ASSUME d <= -1
                 PROVE  FALSE
    OBVIOUS
  <2>2. M \in Nat /\ -1 \in Int
    OBVIOUS
  <2>3. M * d <= M * (-1)
    BY <2>1, <2>2, TimesGrow
  <2>4. PICK z \in Int : z = M * d /\ M * (-1) = -M
    BY SMT
  <2>5. z <= -M /\ v = z + s
    BY <1>4, <2>3, <2>4
  <2>6. QED
    BY <2>5
<1>6. QED
  BY <1>4, <1>5

\* A letter is gone by the time it has fallen to the bottom and risen to the top.
LEMMA AgeBound ==
  ASSUME NEW l \in Letters, NEW age \in Nat, Fits(l, age)
  PROVE  age <= Bottom + (Bottom \div Rise) + 1
<1>1. PICK B \in Nat, R \in Nat, x \in Nat : B = Bottom /\ R = Rise /\ R > 0 /\ x = l.x
  BY TypingAssumption DEF Letters
<1>2. PICK D \in Nat, r \in 0 .. R - 1 : D = Bottom \div Rise /\ B = R * D + r
  BY <1>1, DivIs
<1>3. R * age + x <= (B - 1) * (R + 1)
  BY <1>1 DEF Fits
<1>4. SUFFICES ASSUME B + D + 2 <= age
               PROVE  FALSE
  <2>1. age \in Int /\ B + D + 1 \in Int /\ (age <= B + D + 1 \/ B + D + 2 <= age)
    OBVIOUS
  <2>2. QED
    BY <1>1, <1>2, <2>1
<1>5. R * (B + D + 2) <= R * age
  <2>1. B + D + 2 \in Int /\ age \in Int
    OBVIOUS
  <2>2. QED
    BY <1>4, <2>1, TimesGrow
<1>6. PICK u \in Int, v \in Int, w \in Int :
        /\ u = R * B /\ v = R * D /\ w = R * age
        /\ R * (B + D + 2) = u + v + R + R /\ (B - 1) * (R + 1) = u + B - R - 1
  BY SMT
<1>7. u + v + R + R <= w /\ w + x <= u + B - R - 1 /\ B = v + r
  BY <1>2, <1>3, <1>5, <1>6
<1>8. QED
  BY <1>1, <1>7

LEMMA PoolFits ==
  ASSUME NEW ls \in Seq(Letters), NEW places, NEW a \in Nat, a >= 1, Placed(ls, places, a)
  PROVE  Len(ls) <= (Bottom + (Bottom \div Rise) + 1) \div CREATE_PERIOD + 1
<1>1. PICK n \in Nat : n = Len(ls)
  OBVIOUS
<1>2. PICK P \in Nat, m \in Nat : P = CREATE_PERIOD /\ P > 0 /\ m = Bottom + (Bottom \div Rise) + 1
  <2>1. Bottom \in Nat /\ Rise \in Nat /\ Rise > 0 /\ CREATE_PERIOD \in Nat /\ CREATE_PERIOD > 0
    BY TypingAssumption
  <2>2. Bottom \div Rise \in Nat
    BY <2>1, DivIs
  <2>3. QED
    BY <2>1, <2>2
<1>3. PICK K \in Nat, s \in 0 .. P - 1 : K = m \div P /\ m = P * K + s
  <2>1. P \in Int /\ P > 0
    BY <1>2
  <2>2. QED
    BY <2>1, DivIs
<1>4. ASSUME NEW i \in 1 .. n
      PROVE  places[i] \in 0 .. K
  <2>1. PICK q \in Nat : q = places[i]
    BY <1>1 DEF Placed
  <2>2. Fits(ls[i], Age(q, a)) /\ ls[i] \in Letters
    BY <1>1, <2>1 DEF Placed
  <2>3. Age(q, a) <= m
    BY <1>2, <2>2, AgeIs, AgeBound
  <2>4. q * P + a <= m
    BY <1>2, <2>3 DEF Age
  <2>5. ASSUME K + 1 <= q
        PROVE  FALSE
    <3>1. P * (K + 1) <= P * q
      BY <2>5, TimesGrow
    <3>2. PICK z \in Int, y \in Int : z = P * K /\ y = q * P /\ P * (K + 1) = z + P /\ P * q = y
      BY SMT
    <3>3. z + P <= y /\ y + a <= m /\ m = z + s
      BY <1>3, <2>4, <3>1, <3>2
    <3>4. QED
      BY <3>3
  <2>6. q <= K
    BY <2>5
  <2>7. QED
    BY <2>1, <2>6
<1>5. places \in Injection(1 .. n, 0 .. K)
  <2>1. places \in [1 .. n -> 0 .. K]
    BY <1>1, <1>4 DEF Placed
  <2>2. \A i, j \in 1 .. n : places[i] = places[j] => i = j
    BY <1>1 DEF Placed
  <2>3. QED
    BY <2>1, <2>2 DEF Injection, IsInjective
<1>6. IsFiniteSet(0 .. K) /\ Cardinality(0 .. K) = K + 1 /\ Cardinality(1 .. n) = n
  <2>1. 0 \in Int /\ 1 \in Int /\ K \in Int /\ n \in Int /\ ~(0 > K) /\ K - 0 + 1 = K + 1
        /\ (IF 1 > n THEN 0 ELSE n - 1 + 1) = n
    OBVIOUS
  <2>2. QED
    BY <2>1, FS_Interval
<1>7. n <= K + 1
  BY <1>5, <1>6, FS_Injection
<1>8. QED
  BY <1>1, <1>2, <1>3, <1>7

\* Everything but an update leaves the letters where they are.
LEMMA PlaceStep ==
  ASSUME GameInv, PlaceInv, [Next]_vars
  PROVE  PlaceInv'
<1>1. PICK places : Placed(letters, places, Phase)
  BY DEF PlaceInv
<1>2. letters \in Seq(Letters) /\ now \in Times
  BY DEF GameInv, TypeInv
<1>3. CASE letters' = letters /\ now' = now
  BY <1>1, <1>3 DEF PlaceInv, Phase
<1>4. CASE Hit
  <2>1. PICK i \in DOMAIN letters : letters' = [letters EXCEPT ![i].up = TRUE]
    BY <1>4 DEF Hit, Candidates
  <2>2. now' = now
    BY <1>4 DEF Hit
  <2>3. PICK n \in Nat : n = Len(letters) /\ DOMAIN letters = 1 .. n
    BY <1>2
  <2>4. PICK l \in Letters : l = [letters[i] EXCEPT !.up = TRUE] /\ l.up = TRUE /\ l.x = letters[i].x
    <3>1. letters[i] \in Letters
      BY <1>2, <2>1
    <3>2. letters[i] \in [text : Keys, x : Nat, up : BOOLEAN]
      BY <3>1 DEF Letters
    <3>3. /\ [letters[i] EXCEPT !.up = TRUE] \in [text : Keys, x : Nat, up : BOOLEAN]
          /\ [letters[i] EXCEPT !.up = TRUE].up = TRUE
          /\ [letters[i] EXCEPT !.up = TRUE].x = letters[i].x
      BY <3>2
    <3>4. QED
      BY <3>3 DEF Letters
  <2>5. letters' = [letters EXCEPT ![i] = l]
    BY <2>1, <2>4
  <2>6. /\ Len(letters') = n /\ letters'[i] = l
        /\ \A j \in 1 .. n : j # i => letters'[j] = letters[j]
    BY <1>2, <2>3, <2>5
  <2>7. \A j \in 1 .. n : Fits(letters'[j], Age(places[j], Phase))
    <3>1. SUFFICES ASSUME NEW j \in 1 .. n
                   PROVE  Fits(letters'[j], Age(places[j], Phase))
      OBVIOUS
    <3>2. Fits(letters[j], Age(places[j], Phase))
      BY <1>1, <2>3 DEF Placed
    <3>3. QED
      BY <2>4, <2>6, <3>2 DEF Fits
  <2>8. Placed(letters', places, Phase)
    BY <1>1, <2>3, <2>6, <2>7 DEF Placed
  <2>9. Phase' = Phase
    BY <2>2 DEF Phase
  <2>10. QED
    BY <2>8, <2>9 DEF PlaceInv
<1>5. CASE Simulate
  <2>1. now' = Plus1(now)
    BY <1>5 DEF Simulate
  <2>2. Phase' = (now % CREATE_PERIOD) + 1
    BY <1>2, <2>1, PhaseMoves
  <2>3. CASE now % CREATE_PERIOD = 0
    <3>1. PICK k \in Keys : letters' = Updated(Created(k))
      BY <1>5, <2>3 DEF Simulate
    <3>2. Phase = CREATE_PERIOD /\ Phase' = 0 + 1
      BY <1>2, <2>2, <2>3, PhaseMoves
    <3>3. PICK p : Placed(Created(k), p, 0)
      BY <1>1, <1>2, <3>2, CreatedPlaced
    <3>4. Created(k) \in Seq(Letters) /\ 0 \in Nat
      BY <1>2, CreatedIs
    <3>5. \E q : Placed(Updated(Created(k)), q, 0 + 1)
      BY <3>3, <3>4, UpdatedPlaced
    <3>6. QED
      BY <3>1, <3>2, <3>5 DEF PlaceInv
  <2>4. CASE ~(now % CREATE_PERIOD = 0)
    <3>1. letters' = Updated(letters)
      BY <1>5, <2>4 DEF Simulate
    <3>2. Phase' = Phase + 1 /\ Phase \in Nat
      BY <1>2, <2>2, <2>4, PhaseMoves
    <3>3. \E q : Placed(Updated(letters), q, Phase + 1)
      BY <1>1, <1>2, <3>2, UpdatedPlaced
    <3>4. QED
      BY <3>1, <3>2, <3>3 DEF PlaceInv
  <2>5. QED
    BY <2>3, <2>4
<1>6. (letters' = letters /\ now' = now) \/ Hit \/ Simulate
  BY DEF Next, HandlerStep, MainStep, KeyEvent, KeyRaise, Tick, TakeInterrupt, TickLoad, TickStore,
         KeyIn, KeyStore, KeyPress, WaitIntr, Sample, NoHit, gameVars, vars
<1>7. QED
  BY <1>3, <1>4, <1>5, <1>6

\* The assertion of fly_new: the pool of letters does not run out.
THEOREM PoolStaysBounded == Spec => []PoolBound
<1>1. Init => GameInv /\ PlaceInv
  <2>1. ASSUME Init
        PROVE  PlaceInv
    <3>1. letters = <<>>
      BY <2>1 DEF Init
    <3>2. Placed(<<>>, <<>>, Phase)
      <4>1. <<>> \in [1 .. Len(<<>>) -> Nat] /\ \A i \in 1 .. Len(<<>>) : FALSE
        OBVIOUS
      <4>2. QED
        BY <4>1 DEF Placed
    <3>3. QED
      BY <3>1, <3>2 DEF PlaceInv
  <2>2. QED
    BY <2>1, GameInit
<1>2. GameInv /\ PlaceInv /\ [Next]_vars => PlaceInv'
  BY PlaceStep
<1>3. GameInv /\ PlaceInv => PoolBound
  <2>1. SUFFICES ASSUME GameInv, PlaceInv
                 PROVE  PoolBound
    OBVIOUS
  <2>2. PICK places : Placed(letters, places, Phase)
    BY <2>1 DEF PlaceInv
  <2>3. letters \in Seq(Letters) /\ now \in Times
    BY <2>1 DEF GameInv, TypeInv
  <2>4. Phase \in Nat /\ Phase >= 1
    <3>1. Phase \in 1 .. CREATE_PERIOD /\ CREATE_PERIOD \in Nat
      BY <2>3, PhaseMoves, TypingAssumption
    <3>2. QED
      BY <3>1
  <2>5. QED
    BY <2>2, <2>3, <2>4, PoolFits DEF PoolBound
<1>4. QED
  BY <1>1, <1>2, <1>3, GameInvariant, PTL DEF Spec
=============================================================================
