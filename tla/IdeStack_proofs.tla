--------------------------- MODULE IdeStack_proofs ---------------------------
(***************************************************************************)
(* The assertions of the device, the clean slots and the block store, for  *)
(* any disk, any cache and any depth of interrupts.                        *)
(***************************************************************************)
EXTENDS IdeStack, SequenceTheorems, TLAPS

-----------------------------------------------------------------------------
(* The inductive invariant.                                                *)

ReadPcs  == {"rd_clear", "rd_wait", "rd_regs", "rd_issue", "rd_sleep", "rd_clear2", "rd_data"}
WritePcs == {"wr_wait", "wr_regs", "wr_issue", "wr_data"}
FillPcs  == ReadPcs \cup {"fetch_read", "set_used", "set_sector"}
CalmPcs  == {"idle", "fetch", "access", "mark_dirty"}
ScanPcs  == WritePcs \cup {"scan", "scan_clean", "scan_next", "tick_reset"}
TickPcs  == ScanPcs \cup {"tick_load", "tick_store", "tick_test"}
ClientPcs  == CalmPcs \cup FillPcs \cup WritePcs \cup {"set_dirty"}
HandlerPcs == TickPcs \cup {"ide_intr", "iret"}

Values   == NewValues \cup {ImageWord(p) : p \in Nat}
Contexts == [pc : ClientPcs \cup HandlerPcs, slot : Slots, sector : Sectors, word : 0 .. Words,
             ret : {"", "fetch_read", "scan_clean"}, eax : 0 .. HZ + 1]
Entries  == [sector : Sectors, used : BOOLEAN, dirty : BOOLEAN, content : [Offsets -> Values]]

IdeType ==
  /\ cache \in [Slots -> Entries]
  /\ counter \in 0 .. HZ + 1
  /\ sec_regs \in Sectors /\ byte_cnt \in Nat /\ ide_write \in BOOLEAN /\ fpos \in Nat
  /\ disk \in [0 .. NSectors * Words - 1 -> Values]
  /\ stack \in Seq(Contexts) /\ Len(stack) >= 1
  /\ use \in Uses
  /\ client \in RequestsOf(use) \cup {NoRequest}
  /\ req \subseteq {TIMER_VECTOR, IDE_VECTOR}

\* The client: what it works on, and that a slot is refilled from the disk.
ClientInv ==
  LET c == stack[1] IN
  /\ c.pc \in ClientPcs
  /\ c.pc = "idle" <=> client = NoRequest
  /\ c.pc = "mark_dirty" => client.op = "write"
  /\ c.pc \in FillPcs \cup WritePcs \cup {"set_dirty"} => c.slot = Slot
  /\ c.pc \in ReadPcs => c.sector = client.sector
  /\ c.pc \in WritePcs =>
       /\ use.nest = 1 /\ c.ret = "fetch_read"
       /\ cache[c.slot].used /\ cache[c.slot].dirty /\ c.sector = cache[c.slot].sector
  /\ c.pc \in {"access", "mark_dirty", "set_dirty"} => Holds(Slot, client.sector)
  /\ c.pc \in {"set_used", "set_sector", "set_dirty"} => cache[Slot].content = OnDisk(client.sector)
  /\ c.pc = "set_sector" => cache[Slot].used

\* Interrupt handlers: a write-back has a dirty slot, and has written it when
\* it clears dirty.
HandlerInv ==
  /\ TIMER_VECTOR \in req => use.nest > 1
  /\ \A i \in 2 .. Len(stack) :
       LET c == stack[i] IN
       /\ c.pc \in HandlerPcs
       /\ c.pc \in TickPcs => use.nest > 1
       /\ c.pc \in WritePcs => c.ret = "scan_clean" /\ c.sector = cache[c.slot].sector
       /\ c.pc \in WritePcs \cup {"scan_clean"} => cache[c.slot].dirty
       /\ c.pc = "scan_clean" => cache[c.slot].content = OnDisk(cache[c.slot].sector)

\* Slots: a sector is in its slot, and a slot is dirty only of a client that
\* writes, and where ticks may find it only while the client is not in the driver.
SlotInv ==
  \A i \in Slots :
    cache[i].used \/ cache[i].dirty =>
      /\ cache[i].used
      /\ ~(stack[1].pc = "set_sector" /\ stack[1].slot = i) => cache[i].sector % NR_SEC_CACHE = i
      /\ cache[i].dirty => ~(use.ops \subseteq {"read"})
      /\ use.nest > 1 /\ ~(use.ops \subseteq {"read"}) =>
           /\ stack[1].pc \in CalmPcs \cup {"set_sector", "set_dirty"}
           /\ stack[1].pc \in {"set_sector", "set_dirty"} => ~cache[i].dirty
           /\ ~(stack[1].pc = "set_sector" /\ stack[1].slot = i) => cache[i].sector \in use.sectors

\* The device does what the one context in the driver asked for last.
DriverInv ==
  \A i \in 1 .. Len(stack) :
    LET c == stack[i] IN
    /\ c.pc \in {"rd_issue", "wr_issue"} => sec_regs = c.sector
    /\ c.pc \in {"rd_sleep", "rd_clear2"} =>
         ~ide_write /\ byte_cnt = 0 /\ fpos = c.sector * Words
    /\ c.pc \in {"rd_data", "wr_data"} =>
         /\ ide_write <=> c.pc = "wr_data"
         /\ byte_cnt = c.word /\ c.word < Words
         /\ fpos = c.sector * Words + c.word
         /\ \A w \in 0 .. c.word - 1 : cache[c.slot].content[w] = disk[c.sector * Words + w]

\* One handler writes back at a time: a tick that comes meanwhile counts on
\* from HZ or more.
ScanInv ==
  \A i \in 2 .. Len(stack) :
    stack[i].pc \in ScanPcs =>
      /\ counter >= HZ
      /\ \A j \in i + 1 .. Len(stack) :
           /\ stack[j].pc \notin ScanPcs
           /\ stack[j].pc = "tick_store" => stack[j].eax >= HZ
           /\ stack[j].pc = "tick_test" => counter > HZ

\* CleanSlotIsOnDisk, of one slot.
SlotClean(i) ==
  \/ ~cache[i].used \/ cache[i].dirty \/ Refilling(i)
  \/ stack[1].pc = "mark_dirty" /\ Slot = i
  \/ cache[i].content = OnDisk(cache[i].sector)

\* One sector of StoreView, and a step that the client does not see.
View(s) == IF Cached(s) THEN cache[s % NR_SEC_CACHE].content ELSE OnDisk(s)
StoreKept == StoreView' = StoreView /\ RequestView' = RequestView

IdeInv == IdeType /\ ClientInv /\ HandlerInv /\ SlotInv /\ DriverInv /\ ScanInv /\ CleanSlotIsOnDisk

-----------------------------------------------------------------------------
(* The stack.                                                              *)

LEMMA SetTop ==
  ASSUME NEW S, NEW s \in Seq(S), Len(s) >= 1, NEW c \in S
  PROVE  LET t == [s EXCEPT ![Len(s)] = c] IN
         /\ t \in Seq(S) /\ Len(t) = Len(s) /\ t[Len(s)] = c
         /\ \A i \in 1 .. Len(s) - 1 : t[i] = s[i]
OBVIOUS

LEMMA Pushed ==
  ASSUME NEW S, NEW s \in Seq(S), NEW c \in S
  PROVE  LET t == Append(s, c) IN
         /\ t \in Seq(S) /\ Len(t) = Len(s) + 1 /\ t[Len(s) + 1] = c
         /\ \A i \in 1 .. Len(s) : t[i] = s[i]
OBVIOUS

LEMMA Popped ==
  ASSUME NEW S, NEW s \in Seq(S), Len(s) >= 1
  PROVE  LET t == Front(s) IN
         /\ t \in Seq(S) /\ Len(t) = Len(s) - 1
         /\ \A i \in 1 .. Len(s) - 1 : t[i] = s[i]
<1>1. \A i \in 1 .. Len(s) - 1 : s[i] \in S
  OBVIOUS
<1>2. Len(s) - 1 \in Int
  OBVIOUS
<1> DEFINE n == Len(s) - 1
<1>3. /\ SubSeq(s, 1, n) \in Seq(S)
      /\ Len(SubSeq(s, 1, n)) = IF 1 <= n THEN n - 1 + 1 ELSE 0
      /\ \A i \in 1 .. n - 1 + 1 : SubSeq(s, 1, n)[i] = s[1 + i - 1]
  <2>1. 1 \in Int /\ n \in Int /\ \A i \in 1 .. n : s[i] \in S
    BY <1>1, <1>2
  <2> HIDE DEF n
  <2>2. QED
    BY <2>1, SubSeqProperties
<1>4. n \in Nat /\ Front(s) = SubSeq(s, 1, n)
  BY DEF Front
<1> HIDE DEF n
<1>5. /\ SubSeq(s, 1, n) \in Seq(S) /\ Len(SubSeq(s, 1, n)) = n
      /\ \A i \in 1 .. n : SubSeq(s, 1, n)[i] = s[i]
  BY <1>3, <1>4
<1>6. QED
  BY <1>4, <1>5 DEF n

\* What a step of the running context does to the stack.
LEMMA TopChanged ==
  ASSUME IdeType, NEW c \in Contexts, SetRunning(c)
  PROVE  /\ stack' \in Seq(Contexts) /\ Len(stack') = Len(stack)
         /\ stack'[Len(stack)] = c /\ Running' = c
         /\ \A i \in 1 .. Len(stack) - 1 : stack'[i] = stack[i]
BY SetTop DEF IdeType, SetRunning, Running

LEMMA RunningType == IdeType => Running \in Contexts /\ Len(stack) \in Nat
BY DEF IdeType, Running

LEMMA ContextFields ==
  ASSUME NEW c \in Contexts
  PROVE  /\ c.slot \in Slots /\ c.sector \in Sectors /\ c.sector \in Int
         /\ c.word \in Nat /\ c.word <= Words /\ c.eax \in Nat /\ c.eax <= HZ + 1
         /\ c.pc \in ClientPcs \cup HandlerPcs
<1>1. c.slot \in Slots /\ c.sector \in Sectors /\ c.word \in 0 .. Words /\ c.eax \in 0 .. HZ + 1
      /\ c.pc \in ClientPcs \cup HandlerPcs
  BY DEF Contexts
<1>2. QED
  BY <1>1, SizeAssumption DEF Sectors

\* The client runs only when there is no handler.
LEMMA OnlyClient ==
  ASSUME IdeInv, Running.pc \in ClientPcs \ HandlerPcs
  PROVE  Len(stack) = 1 /\ Running = stack[1]
<1>1. stack \in Seq(Contexts) /\ Len(stack) >= 1
  BY DEF IdeInv, IdeType
<1>2. ~(Len(stack) >= 2)
  BY <1>1 DEF IdeInv, HandlerInv, Running
<1>3. QED
  BY <1>1, <1>2 DEF Running

LEMMA ClientMoves ==
  ASSUME IdeInv, Running.pc \in ClientPcs \ HandlerPcs, NEW c \in Contexts, SetRunning(c)
  PROVE  /\ stack' \in Seq(Contexts) /\ Len(stack) = 1 /\ Len(stack') = 1
         /\ Running = stack[1] /\ stack[1] \in Contexts /\ stack'[1] = c /\ Running' = c
<1>1. Len(stack) = 1 /\ Running = stack[1]
  BY OnlyClient
<1>2. QED
  BY <1>1, TopChanged, RunningType DEF IdeInv

\* The client's request and its slot.
LEMMA RequestType ==
  ASSUME IdeType
  PROVE  /\ client.sector \in Sectors /\ client.word \in Offsets /\ Slot \in Slots
         /\ client # NoRequest => client.sector \in use.sectors /\ client.op \in {"read", "write"}
         /\ client.op = "write" => client.value \in Values /\ ~(use.ops \subseteq {"read"})
<1>1. 0 \in Sectors /\ 0 \in Offsets /\ use.sectors \subseteq Sectors
  BY SizeAssumption, UseAssumption DEF IdeType, Sectors, Offsets
<1>2. CASE client = NoRequest
  <2>1. client.sector = 0 /\ client.word = 0 /\ client.op = "none"
    BY <1>2 DEF NoRequest
  <2>2. QED
    BY <1>1, <1>2, <2>1, SizeAssumption DEF Slot, Slots
<1>3. CASE client \in RequestsOf(use)
  <2>1. client.sector \in use.sectors /\ client.word \in Offsets /\ client.op \in {"read", "write"}
    BY <1>3 DEF RequestsOf
  <2>2. client.op = "write" => client.value \in NewValues /\ "write" \in use.ops
    BY <1>3 DEF RequestsOf
  <2>3. Slot \in Slots
    BY <1>1, <2>1, SizeAssumption DEF Slot, Slots, Sectors
  <2>4. QED
    BY <1>1, <2>1, <2>2, <2>3 DEF Values
<1>4. QED
  BY <1>2, <1>3 DEF IdeType

\* Where a sector's words are on the disk.
LEMMA Positions ==
  ASSUME NEW s \in Sectors, NEW w \in Offsets
  PROVE  /\ s * Words + w \in 0 .. NSectors * Words - 1
         /\ \A t \in Sectors, v \in Offsets : s * Words + w = t * Words + v => s = t /\ w = v
<1>1. /\ NSectors \in Nat /\ Words \in Nat /\ Words > 0 /\ s \in Nat /\ w \in Nat
      /\ s <= NSectors - 1 /\ w < Words
  BY SizeAssumption DEF Sectors, Offsets
<1>2. s * Words <= (NSectors - 1) * Words
  BY <1>1
<1>3. (NSectors - 1) * Words = NSectors * Words - Words /\ s * Words \in Nat /\ NSectors * Words \in Int
  BY <1>1
<1>4. ASSUME NEW t \in Sectors, NEW v \in Offsets, s * Words + w = t * Words + v
      PROVE  s = t /\ w = v
  <2>1. t \in Nat /\ v \in Nat /\ v < Words
    BY SizeAssumption DEF Sectors, Offsets
  <2>2. CASE s < t
    <3>1. (s + 1) * Words <= t * Words /\ (s + 1) * Words = s * Words + Words
      BY <1>1, <2>1, <2>2
    <3>2. QED
      BY <1>1, <1>3, <1>4, <2>1, <3>1
  <2>3. CASE t < s
    <3>1. (t + 1) * Words <= s * Words /\ (t + 1) * Words = t * Words + Words
      BY <1>1, <2>1, <2>3
    <3>2. t * Words \in Nat
      BY <1>1, <2>1
    <3>3. QED
      BY <1>1, <1>3, <1>4, <2>1, <3>1, <3>2
  <2>4. QED
    BY <1>1, <1>4, <2>1, <2>2, <2>3
<1>5. QED
  BY <1>1, <1>2, <1>3, <1>4

LEMMA OnDiskType ==
  ASSUME IdeType, NEW s \in Sectors
  PROVE  OnDisk(s) \in [Offsets -> Values]
BY Positions DEF OnDisk, IdeType

LEMMA SlotOf ==
  ASSUME NEW s \in Sectors
  PROVE  s % NR_SEC_CACHE \in Slots
BY SizeAssumption DEF Sectors, Slots

\* The client sees nothing of a step that keeps what every sector reads as and
\* does not pass the store of a written word.
LEMMA KeptBySector ==
  ASSUME \A s \in Sectors : View(s)' = View(s), client' = client,
         stack'[1].pc = "mark_dirty" <=> stack[1].pc = "mark_dirty"
  PROVE  StoreKept
BY DEF StoreKept, StoreView, RequestView, View

LEMMA KeptBySlot ==
  ASSUME client' = client, disk' = disk,
         stack'[1].pc = "mark_dirty" <=> stack[1].pc = "mark_dirty",
         \A i \in Slots : /\ cache'[i].used <=> cache[i].used
                          /\ cache'[i].sector = cache[i].sector /\ cache'[i].content = cache[i].content
                          /\ Refilling(i)' <=> Refilling(i)
  PROVE  StoreKept
<1>1. ASSUME NEW s \in Sectors
      PROVE  View(s)' = View(s)
  <2> DEFINE i == s % NR_SEC_CACHE
  <2>1. i \in Slots
    BY SlotOf
  <2>2. OnDisk(s)' = OnDisk(s)
    BY DEF OnDisk
  <2> HIDE DEF i
  <2>3. Cached(s)' <=> Cached(s)
    BY <2>1 DEF Cached, i
  <2>4. QED
    BY <2>1, <2>2, <2>3 DEF View, i
<1>2. QED
  BY <1>1, KeptBySector

-----------------------------------------------------------------------------
(* Steps of the client.                                                    *)

\* While the client runs there is nothing to say of handlers.
LEMMA ClientAlone ==
  ASSUME IdeInv, Len(stack') = 1, use' = use, TIMER_VECTOR \in req' => TIMER_VECTOR \in req
  PROVE  HandlerInv' /\ ScanInv'
BY DEF IdeInv, HandlerInv, ScanInv

LEMMA OneDriver ==
  ASSUME Serialised, IdeInv, NEW i \in 1 .. Len(stack), NEW j \in 1 .. Len(stack), i < j,
         stack[i].pc \in ReadPcs \cup WritePcs, stack[j].pc \in ReadPcs \cup WritePcs
  PROVE  FALSE
<1>1. stack \in Seq(Contexts) /\ j \in 2 .. Len(stack) /\ stack[j] \in Contexts
  BY DEF IdeInv, IdeType
<1>2. stack[j].pc \in WritePcs
  BY <1>1 DEF IdeInv, HandlerInv, HandlerPcs, TickPcs, ScanPcs, ReadPcs, WritePcs
<1>3. cache[stack[j].slot].dirty /\ use.nest > 1 /\ stack[j].slot \in Slots
  BY <1>1, <1>2, ContextFields DEF IdeInv, HandlerInv, TickPcs, ScanPcs
<1>4. stack[1].pc \in CalmPcs \cup {"set_sector", "set_dirty"}
  BY <1>3 DEF IdeInv, SlotInv
<1>5. i # 1
  BY <1>4 DEF CalmPcs, ReadPcs, WritePcs
<1>6. i \in 2 .. Len(stack) /\ stack[i].pc \in WritePcs
  BY <1>1, <1>5 DEF IdeInv, HandlerInv, HandlerPcs, TickPcs, ScanPcs, ReadPcs, WritePcs
<1>7. j \in i + 1 .. Len(stack)
  BY <1>1
<1>8. QED
  BY <1>2, <1>6, <1>7 DEF IdeInv, ScanInv, ScanPcs

LEMMA ClearIdeIntrStep ==
  ASSUME Serialised, IdeInv, ClearIdeIntr
  PROVE  IdeInv'
<1> DEFINE c == [Running EXCEPT !.pc = "rd_wait"]
<1>1. /\ Running.pc = "rd_clear" /\ SetRunning(c)
      /\ UNCHANGED <<cache, counter, deviceVars, use, client, irqVars>>
  BY DEF ClearIdeIntr, Goto, At
<1>2. Running.pc \in ClientPcs \ HandlerPcs
  BY <1>1 DEF ClientPcs, HandlerPcs, FillPcs, ReadPcs, WritePcs, TickPcs, ScanPcs, CalmPcs
<1>3. /\ c \in Contexts
      /\ c.pc = "rd_wait" /\ c.slot = Running.slot /\ c.sector = Running.sector
  BY <1>1, RunningType DEF IdeInv, ClientPcs, HandlerPcs, FillPcs, ReadPcs, WritePcs, TickPcs, ScanPcs, CalmPcs, Contexts
<1> HIDE DEF c
<1>4. /\ stack' \in Seq(Contexts) /\ Len(stack) = 1 /\ Len(stack') = 1
      /\ Running = stack[1] /\ stack'[1] = c
  BY <1>1, <1>2, <1>3, ClientMoves
<1>5. IdeType'
  BY <1>1, <1>4 DEF IdeInv, IdeType, deviceVars, irqVars
<1>6. ClientInv'
  BY <1>1, <1>2, <1>3, <1>4 DEF IdeInv, ClientInv, deviceVars, irqVars, ClientPcs, HandlerPcs, FillPcs, ReadPcs, WritePcs, TickPcs, ScanPcs, CalmPcs, OnDisk, Slot, Holds
<1>7. SlotInv'
  BY <1>1, <1>2, <1>3, <1>4 DEF IdeInv, SlotInv, CalmPcs
<1>8. DriverInv'
  BY <1>1, <1>2, <1>3, <1>4 DEF IdeInv, DriverInv, deviceVars
<1>9. CleanSlotIsOnDisk'
  BY <1>1, <1>2, <1>3, <1>4 DEF IdeInv, CleanSlotIsOnDisk, Refilling, OnDisk, Slot, deviceVars
<1>10. QED
  BY <1>1, <1>4, <1>5, <1>6, <1>7, <1>8, <1>9, ClientAlone DEF IdeInv, irqVars

LEMMA WaitIdeIntrStep ==
  ASSUME Serialised, IdeInv, WaitIdeIntr
  PROVE  IdeInv'
<1> DEFINE c == [Running EXCEPT !.pc = "rd_clear2"]
<1>1. /\ Running.pc = "rd_sleep" /\ SetRunning(c)
      /\ UNCHANGED <<cache, counter, deviceVars, use, client, irqVars>>
  BY DEF WaitIdeIntr, Goto, At, cacheVars
<1>2. Running.pc \in ClientPcs \ HandlerPcs
  BY <1>1 DEF ClientPcs, HandlerPcs, FillPcs, ReadPcs, WritePcs, TickPcs, ScanPcs, CalmPcs
<1>3. /\ c \in Contexts
      /\ c.pc = "rd_clear2" /\ c.slot = Running.slot /\ c.sector = Running.sector
  BY <1>1, RunningType DEF IdeInv, ClientPcs, HandlerPcs, FillPcs, ReadPcs, WritePcs, TickPcs, ScanPcs, CalmPcs, Contexts
<1> HIDE DEF c
<1>4. /\ stack' \in Seq(Contexts) /\ Len(stack) = 1 /\ Len(stack') = 1
      /\ Running = stack[1] /\ stack'[1] = c
  BY <1>1, <1>2, <1>3, ClientMoves
<1>5. IdeType'
  BY <1>1, <1>4 DEF IdeInv, IdeType, deviceVars, irqVars
<1>6. ClientInv'
  BY <1>1, <1>2, <1>3, <1>4 DEF IdeInv, ClientInv, deviceVars, irqVars, ClientPcs, HandlerPcs, FillPcs, ReadPcs, WritePcs, TickPcs, ScanPcs, CalmPcs, OnDisk, Slot, Holds
<1>7. SlotInv'
  BY <1>1, <1>2, <1>3, <1>4 DEF IdeInv, SlotInv, CalmPcs
<1>8. DriverInv'
  BY <1>1, <1>2, <1>3, <1>4 DEF IdeInv, DriverInv, deviceVars
<1>9. CleanSlotIsOnDisk'
  BY <1>1, <1>2, <1>3, <1>4 DEF IdeInv, CleanSlotIsOnDisk, Refilling, OnDisk, Slot, deviceVars
<1>10. QED
  BY <1>1, <1>4, <1>5, <1>6, <1>7, <1>8, <1>9, ClientAlone DEF IdeInv, irqVars

LEMMA FetchReadStep ==
  ASSUME Serialised, IdeInv, FetchRead
  PROVE  IdeInv'
<1> DEFINE c == [Running EXCEPT !.pc = "rd_clear", !.sector = client.sector]
<1>1. /\ Running.pc = "fetch_read" /\ SetRunning(c)
      /\ UNCHANGED <<cache, counter, deviceVars, use, client, irqVars>>
  BY DEF FetchRead, At, cacheVars
<1>2. Running.pc \in ClientPcs \ HandlerPcs
  BY <1>1 DEF ClientPcs, HandlerPcs, FillPcs, ReadPcs, WritePcs, TickPcs, ScanPcs, CalmPcs
<1>3. /\ c \in Contexts
      /\ c.pc = "rd_clear" /\ c.slot = Running.slot /\ c.sector = client.sector
  BY <1>1, RunningType, RequestType DEF IdeInv, ClientPcs, HandlerPcs, FillPcs, ReadPcs, WritePcs, TickPcs, ScanPcs, CalmPcs, Contexts
<1> HIDE DEF c
<1>4. /\ stack' \in Seq(Contexts) /\ Len(stack) = 1 /\ Len(stack') = 1
      /\ Running = stack[1] /\ stack'[1] = c
  BY <1>1, <1>2, <1>3, ClientMoves
<1>5. IdeType'
  BY <1>1, <1>4 DEF IdeInv, IdeType, deviceVars, irqVars
<1>6. ClientInv'
  BY <1>1, <1>2, <1>3, <1>4 DEF IdeInv, ClientInv, deviceVars, irqVars, ClientPcs, HandlerPcs, FillPcs, ReadPcs, WritePcs, TickPcs, ScanPcs, CalmPcs, OnDisk, Slot, Holds
<1>7. SlotInv'
  BY <1>1, <1>2, <1>3, <1>4 DEF IdeInv, SlotInv, CalmPcs
<1>8. DriverInv'
  BY <1>1, <1>2, <1>3, <1>4 DEF IdeInv, DriverInv, deviceVars
<1>9. CleanSlotIsOnDisk'
  BY <1>1, <1>2, <1>3, <1>4 DEF IdeInv, CleanSlotIsOnDisk, Refilling, OnDisk, Slot, deviceVars
<1>10. QED
  BY <1>1, <1>4, <1>5, <1>6, <1>7, <1>8, <1>9, ClientAlone DEF IdeInv, irqVars

LEMMA ClearIdeIntrAgainStep ==
  ASSUME Serialised, IdeInv, ClearIdeIntrAgain
  PROVE  IdeInv'
<1> DEFINE c == [Running EXCEPT !.pc = "rd_data", !.word = 0]
<1>1. /\ Running.pc = "rd_clear2" /\ SetRunning(c)
      /\ UNCHANGED <<cache, counter, deviceVars, use, client, irqVars>>
  BY DEF ClearIdeIntrAgain, At
<1>2. Running.pc \in ClientPcs \ HandlerPcs
  BY <1>1 DEF ClientPcs, HandlerPcs, FillPcs, ReadPcs, WritePcs, TickPcs, ScanPcs, CalmPcs
<1>3. /\ c \in Contexts /\ c.sector \in Int
      /\ c.pc = "rd_data" /\ c.word = 0 /\ c.slot = Running.slot /\ c.sector = Running.sector
  <2>1. "rd_data" \in ClientPcs \cup HandlerPcs /\ 0 \in 0 .. Words
    BY SizeAssumption DEF ClientPcs, FillPcs, ReadPcs
  <2>2. Running \in Contexts
    BY RunningType DEF IdeInv
  <2>3. c \in Contexts /\ c.pc = "rd_data" /\ c.word = 0 /\ c.slot = Running.slot /\ c.sector = Running.sector
    BY <2>1, <2>2 DEF Contexts
  <2>4. QED
    BY <2>3, ContextFields
<1> HIDE DEF c
<1>4. /\ stack' \in Seq(Contexts) /\ Len(stack) = 1 /\ Len(stack') = 1
      /\ Running = stack[1] /\ stack'[1] = c
  BY <1>1, <1>2, <1>3, ClientMoves
<1>5. IdeType'
  BY <1>1, <1>4 DEF IdeInv, IdeType, deviceVars, irqVars
<1>6. ClientInv'
  BY <1>1, <1>2, <1>3, <1>4 DEF IdeInv, ClientInv, deviceVars, irqVars, ClientPcs, HandlerPcs, FillPcs, ReadPcs, WritePcs, TickPcs, ScanPcs, CalmPcs, OnDisk, Slot, Holds
<1>7. SlotInv'
  BY <1>1, <1>2, <1>3, <1>4 DEF IdeInv, SlotInv, CalmPcs
<1>8. DriverInv'
  <2>1. ~ide_write /\ byte_cnt = 0 /\ fpos = c.sector * Words
    BY <1>1, <1>3, <1>4 DEF IdeInv, DriverInv
  <2>2. fpos = c.sector * Words + c.word /\ byte_cnt = c.word /\ c.word < Words /\ 0 .. c.word - 1 = {}
    BY <1>3, <2>1, SizeAssumption
  <2>3. QED
    BY <1>1, <1>3, <1>4, <2>1, <2>2 DEF DriverInv, deviceVars
<1>9. CleanSlotIsOnDisk'
  BY <1>1, <1>2, <1>3, <1>4 DEF IdeInv, CleanSlotIsOnDisk, Refilling, OnDisk, Slot, deviceVars
<1>10. QED
  BY <1>1, <1>4, <1>5, <1>6, <1>7, <1>8, <1>9, ClientAlone DEF IdeInv, irqVars


LEMMA IssueReadStep ==
  ASSUME Serialised, IdeInv, IssueRead
  PROVE  IdeInv'
<1> DEFINE c == [Running EXCEPT !.pc = "rd_sleep"]
<1>1. /\ Running.pc = "rd_issue" /\ SetRunning(c)
      /\ UNCHANGED <<cache, counter, use, client, sec_regs, disk>>
      /\ ide_write' = FALSE /\ byte_cnt' = 0 /\ fpos' = sec_regs * Words
      /\ req' = req \cup {IDE_VECTOR}
  BY DEF IssueRead, Goto, At, OutCommand, Mailbox!Request, cacheVars
<1>2. Running.pc \in ClientPcs \ HandlerPcs
  BY <1>1 DEF ClientPcs, HandlerPcs, FillPcs, ReadPcs, WritePcs, TickPcs, ScanPcs, CalmPcs
<1>3. /\ c \in Contexts
      /\ c.pc = "rd_sleep" /\ c.slot = Running.slot /\ c.sector = Running.sector
  BY <1>1, RunningType DEF IdeInv, ClientPcs, HandlerPcs, FillPcs, ReadPcs, WritePcs, TickPcs, ScanPcs, CalmPcs, Contexts
<1> HIDE DEF c
<1>4. /\ stack' \in Seq(Contexts) /\ Len(stack) = 1 /\ Len(stack') = 1
      /\ Running = stack[1] /\ stack'[1] = c
  BY <1>1, <1>2, <1>3, ClientMoves
<1>5. IdeType'
  <2>1. sec_regs * Words \in Nat
    BY SizeAssumption DEF IdeInv, IdeType, Sectors
  <2>2. QED
    BY <1>1, <1>4, <2>1 DEF IdeInv, IdeType
<1>6. ClientInv'
  BY <1>1, <1>2, <1>3, <1>4 DEF IdeInv, ClientInv, ClientPcs, HandlerPcs, FillPcs, ReadPcs, WritePcs, TickPcs, ScanPcs, CalmPcs, OnDisk, Slot, Holds
<1>7. SlotInv'
  BY <1>1, <1>2, <1>3, <1>4 DEF IdeInv, SlotInv, CalmPcs
<1>8. DriverInv'
  BY <1>1, <1>3, <1>4 DEF IdeInv, DriverInv
<1>9. CleanSlotIsOnDisk'
  BY <1>1, <1>2, <1>3, <1>4 DEF IdeInv, CleanSlotIsOnDisk, Refilling, OnDisk, Slot
<1>10. QED
  BY <1>1, <1>4, <1>5, <1>6, <1>7, <1>8, <1>9, ClientAlone DEF IdeInv, TIMER_VECTOR, IDE_VECTOR

LEMMA ReadDataStep ==
  ASSUME Serialised, IdeInv, ReadData
  PROVE  IdeInv' /\ StoreKept
<1> DEFINE c == [Running EXCEPT !.word = @ + 1, !.pc = IF LastWord THEN "set_used" ELSE @]
           k == Running.slot
           w == Running.word
<1>1. /\ Running.pc = "rd_data" /\ SetRunning(c)
      /\ UNCHANGED <<counter, use, client, sec_regs, ide_write, disk, irqVars>>
      /\ fpos' = fpos + 1 /\ byte_cnt' = byte_cnt + 1
      /\ cache' = [cache EXCEPT ![k].content[w] = disk[fpos]]
  BY DEF ReadData, At, InData, CountWord
<1>2. Running.pc \in ClientPcs \ HandlerPcs
  BY <1>1 DEF ClientPcs, HandlerPcs, FillPcs, ReadPcs, WritePcs, TickPcs, ScanPcs, CalmPcs
<1>3. Len(stack) = 1 /\ Running = stack[1] /\ Running \in Contexts
  BY <1>2, OnlyClient, RunningType DEF IdeInv
<1>4. /\ k = Slot /\ Running.sector = client.sector /\ k \in Slots /\ Running.sector \in Sectors
      /\ w < Words /\ w \in Offsets /\ byte_cnt = w /\ ~ide_write /\ fpos = Running.sector * Words + w
      /\ \A v \in 0 .. w - 1 : cache[k].content[v] = disk[Running.sector * Words + v]
  <2>1. k \in Slots /\ Running.sector \in Sectors /\ w \in Nat
    BY <1>3, ContextFields
  <2>2. k = Slot /\ Running.sector = client.sector
    BY <1>1, <1>3 DEF IdeInv, ClientInv, FillPcs, ReadPcs
  <2>3. /\ w < Words /\ byte_cnt = w /\ ~ide_write /\ fpos = Running.sector * Words + w
        /\ \A v \in 0 .. w - 1 : cache[k].content[v] = disk[Running.sector * Words + v]
    BY <1>1, <1>3 DEF IdeInv, DriverInv
  <2>4. w \in Offsets
    BY <2>1, <2>3, SizeAssumption DEF Offsets
  <2>5. QED
    BY <2>1, <2>2, <2>3, <2>4
<1>5. /\ c \in Contexts /\ c.slot = k /\ c.sector = Running.sector /\ c.word = w + 1
      /\ c.pc = IF w = Words - 1 THEN "set_used" ELSE "rd_data"
  <2>1. w + 1 \in 0 .. Words
    BY <1>4, SizeAssumption DEF Offsets
  <2>2. {"set_used", "rd_data"} \subseteq ClientPcs \cup HandlerPcs
    BY DEF ClientPcs, FillPcs, ReadPcs
  <2>3. c \in Contexts
    BY <1>1, <1>3, <2>1, <2>2 DEF Contexts
  <2>4. QED
    BY <1>1, <1>3, <2>3 DEF Contexts, LastWord
<1>6. disk[fpos] \in Values
  BY <1>4, Positions DEF IdeInv, IdeType
<1>7. /\ cache' \in [Slots -> Entries]
      /\ \A i \in Slots : /\ cache'[i].used = cache[i].used /\ cache'[i].dirty = cache[i].dirty
                          /\ cache'[i].sector = cache[i].sector
                          /\ i # k => cache'[i] = cache[i]
      /\ \A v \in Offsets : cache'[k].content[v] = IF v = w THEN disk[fpos] ELSE cache[k].content[v]
  <2>1. cache \in [Slots -> Entries]
    BY DEF IdeInv, IdeType
  <2>2. cache' = [cache EXCEPT ![k] = [cache[k] EXCEPT !.content = [cache[k].content EXCEPT ![w] = disk[fpos]]]]
    BY <1>1
  <2>3. /\ cache[k].content \in [Offsets -> Values]
        /\ [cache[k].content EXCEPT ![w] = disk[fpos]] \in [Offsets -> Values]
    BY <1>4, <1>6, <2>1 DEF Entries
  <2>4. [cache[k] EXCEPT !.content = [cache[k].content EXCEPT ![w] = disk[fpos]]] \in Entries
    BY <1>4, <2>1, <2>3 DEF Entries
  <2>5. cache' \in [Slots -> Entries]
    BY <1>4, <2>1, <2>2, <2>4
  <2>6. /\ \A i \in Slots : i # k => cache'[i] = cache[i]
        /\ cache'[k] = [cache[k] EXCEPT !.content = [cache[k].content EXCEPT ![w] = disk[fpos]]]
    BY <1>4, <2>1, <2>2
  <2>7. /\ cache'[k].used = cache[k].used /\ cache'[k].dirty = cache[k].dirty
        /\ cache'[k].sector = cache[k].sector
        /\ cache'[k].content = [cache[k].content EXCEPT ![w] = disk[fpos]]
    BY <1>4, <2>1, <2>6 DEF Entries
  <2>8. \A v \in Offsets : cache'[k].content[v] = IF v = w THEN disk[fpos] ELSE cache[k].content[v]
    BY <2>3, <2>7
  <2>9. QED
    BY <2>5, <2>6, <2>7, <2>8
<1> HIDE DEF c, k, w
<1>8. /\ stack' \in Seq(Contexts) /\ Len(stack') = 1 /\ stack'[1] = c
  BY <1>1, <1>2, <1>5, ClientMoves
<1>9. IdeType'
  BY <1>1, <1>7, <1>8 DEF IdeInv, IdeType, irqVars
<1>10. \A v \in 0 .. w : cache'[k].content[v] = disk[Running.sector * Words + v]
  <2>1. \A v \in 0 .. w : v \in Offsets /\ (v = w \/ v \in 0 .. w - 1)
    BY <1>4, SizeAssumption DEF Offsets
  <2>2. QED
    BY <1>4, <1>7, <2>1
<1>11. ClientInv'
  <2>1. w = Words - 1 => cache'[k].content = OnDisk(client.sector)
    <3>1. SUFFICES ASSUME w = Words - 1
                   PROVE  cache'[k].content = OnDisk(client.sector)
      OBVIOUS
    <3>2. cache'[k].content \in [Offsets -> Values]
      BY <1>4, <1>7 DEF Entries
    <3>3. \A v \in Offsets : cache'[k].content[v] = disk[client.sector * Words + v]
      BY <1>4, <1>10, <3>1 DEF Offsets
    <3>4. QED
      BY <3>2, <3>3 DEF OnDisk
  <2>2. /\ "rd_data" \in ClientPcs \ (WritePcs \cup CalmPcs) /\ "set_used" \in ClientPcs \ (WritePcs \cup CalmPcs \cup ReadPcs)
        /\ "rd_data" \in ReadPcs
    BY DEF ClientPcs, FillPcs, ReadPcs, WritePcs, CalmPcs
  <2>3. Slot' = Slot /\ OnDisk(client.sector)' = OnDisk(client.sector)
    BY <1>1 DEF Slot, OnDisk
  <2>4. client # NoRequest
    BY <1>1, <1>3 DEF IdeInv, ClientInv
  <2>5. QED
    BY <1>1, <1>4, <1>5, <1>8, <2>1, <2>2, <2>3, <2>4 DEF ClientInv, CalmPcs
<1>12. SlotInv'
  BY <1>1, <1>3, <1>5, <1>7, <1>8 DEF IdeInv, SlotInv, CalmPcs
<1>13. DriverInv'
  <2>1. w \in Nat /\ Words \in Nat /\ Running.sector \in Int
    BY <1>4, SizeAssumption DEF Offsets, Sectors
  <2>2. c.pc = "rd_data" => w + 1 < Words
    BY <1>4, <1>5, <2>1
  <2>3. c.word - 1 = w /\ byte_cnt' = c.word
    BY <1>1, <1>4, <1>5, <2>1
  <2>4. fpos' = c.sector * Words + c.word
    BY <1>1, <1>4, <1>5, <2>1
  <2>5. c.pc \notin {"rd_issue", "wr_issue", "rd_sleep", "rd_clear2", "wr_data"}
    BY <1>5
  <2>6. \A v \in 0 .. c.word - 1 : cache'[c.slot].content[v] = disk'[c.sector * Words + v]
    BY <1>1, <1>5, <1>10, <2>3
  <2>7. QED
    BY <1>1, <1>4, <1>5, <1>8, <2>2, <2>3, <2>4, <2>5, <2>6 DEF DriverInv
<1>14. CleanSlotIsOnDisk'
  <2>1. ASSUME NEW i \in Slots
        PROVE  SlotClean(i)'
    <3>1. CASE i = k
      BY <1>5, <1>8, <3>1 DEF SlotClean, Refilling
    <3>2. CASE i # k
      <4>1. SlotClean(i) /\ stack[1].slot # i /\ stack[1].pc # "mark_dirty"
        BY <1>1, <1>3, <3>2 DEF k, IdeInv, CleanSlotIsOnDisk, SlotClean
      <4>2. QED
        BY <1>1, <1>7, <3>2, <4>1 DEF SlotClean, Refilling, OnDisk
    <3>3. QED
      BY <3>1, <3>2
  <2>2. QED
    BY <2>1 DEF CleanSlotIsOnDisk, SlotClean
<1>15. StoreKept
  <2>1. ASSUME NEW s \in Sectors
        PROVE  View(s)' = View(s)
    <3>1. PICK i \in Slots : i = s % NR_SEC_CACHE
      BY SlotOf
    <3>2. OnDisk(s)' = OnDisk(s)
      BY <1>1 DEF OnDisk
    <3>3. CASE i = k
      <4>1. Refilling(i) /\ Refilling(i)'
        BY <1>1, <1>3, <1>5, <1>8, <3>3 DEF Refilling, k
      <4>2. QED
        BY <3>1, <3>2, <4>1 DEF View, Cached
    <3>4. CASE i # k
      BY <1>3, <1>5, <1>7, <1>8, <3>1, <3>2, <3>4 DEF View, Cached, Refilling, k
    <3>5. QED
      BY <3>3, <3>4
  <2>2. QED
    BY <1>1, <1>3, <1>5, <1>8, <2>1, KeptBySector
<1>16. QED
  BY <1>1, <1>3, <1>8, <1>9, <1>11, <1>12, <1>13, <1>14, <1>15, ClientAlone DEF IdeInv, irqVars

\* A miss in a use with ticks and writes is the first one: nothing is cached.
LEMMA NothingCached ==
  ASSUME Serialised, IdeInv, stack[1].pc = "fetch", ~Holds(Slot, client.sector),
         use.nest > 1, ~(use.ops \subseteq {"read"}), NEW i \in Slots
  PROVE  ~cache[i].used /\ ~cache[i].dirty
<1>1. PICK s \in Sectors : use.sectors \subseteq {s}
  BY UseAssumption DEF Serialised, IdeInv, IdeType
<1>2. client.sector = s
  BY <1>1, RequestType DEF IdeInv, ClientInv
<1>3. cache[i].used => cache[i].sector = s /\ cache[i].sector % NR_SEC_CACHE = i
  BY <1>1 DEF IdeInv, SlotInv
<1>4. cache[i].used => FALSE
  BY <1>2, <1>3 DEF Holds, Slot
<1>5. QED
  BY <1>4 DEF IdeInv, SlotInv

LEMMA FetchStep ==
  ASSUME Serialised, IdeInv, Fetch
  PROVE  IdeInv' /\ StoreKept
<1> DEFINE ptr == cache[Slot]
           hit == Holds(Slot, client.sector)
<1>1. /\ Running.pc = "fetch"
      /\ UNCHANGED <<cache, counter, sec_regs, byte_cnt, ide_write, fpos, disk, use, client, irqVars>>
      /\ \/ hit /\ SetRunning([Running EXCEPT !.pc = "access"])
         \/ /\ ~hit /\ ptr.used /\ ptr.dirty
            /\ SetRunning([Running EXCEPT !.pc = "wr_wait", !.slot = Slot, !.sector = ptr.sector,
                                          !.ret = "fetch_read"])
         \/ /\ ~hit /\ ~(ptr.used /\ ptr.dirty)
            /\ SetRunning([Running EXCEPT !.pc = "fetch_read", !.slot = Slot])
  BY DEF Fetch, At, Goto, Slot, cacheVars, deviceVars
<1>2. Len(stack) = 1 /\ Running = stack[1] /\ Running \in Contexts /\ Running.pc \in ClientPcs \ HandlerPcs
  <2>1. Running.pc \in ClientPcs \ HandlerPcs
    BY <1>1 DEF ClientPcs, HandlerPcs, ReadPcs, WritePcs, TickPcs, ScanPcs, CalmPcs
  <2>2. QED
    BY <2>1, OnlyClient, RunningType DEF IdeInv
<1>3. Slot \in Slots /\ ptr.sector \in Sectors /\ client # NoRequest
  BY <1>1, <1>2, RequestType DEF IdeInv, IdeType, ClientInv, Entries
<1>4. PICK c \in Contexts :
        /\ SetRunning(c) /\ c.pc \in {"access", "wr_wait", "fetch_read"}
        /\ c.pc = "access" => hit
        /\ c.pc # "access" => ~hit /\ c.slot = Slot
        /\ c.pc = "wr_wait" => ptr.used /\ ptr.dirty /\ c.sector = ptr.sector /\ c.ret = "fetch_read"
        /\ c.pc = "fetch_read" => ~(ptr.used /\ ptr.dirty)
  <2>1. {"access", "wr_wait", "fetch_read"} \subseteq ClientPcs
    BY DEF ClientPcs, CalmPcs, WritePcs, FillPcs
  <2>2. CASE hit
    <3>1. [Running EXCEPT !.pc = "access"] \in Contexts
      BY <1>2, <2>1 DEF Contexts
    <3>2. QED
      BY <1>1, <1>2, <2>2, <3>1 DEF Contexts
  <2>3. CASE ~hit /\ ptr.used /\ ptr.dirty
    <3> DEFINE d == [Running EXCEPT !.pc = "wr_wait", !.slot = Slot, !.sector = ptr.sector, !.ret = "fetch_read"]
    <3>1. /\ d \in Contexts /\ d.pc = "wr_wait" /\ d.slot = Slot /\ d.sector = ptr.sector
          /\ d.ret = "fetch_read"
      BY <1>2, <1>3, <2>1 DEF Contexts
    <3>2. SetRunning(d)
      BY <1>1, <2>3
    <3> HIDE DEF d
    <3>3. QED
      BY <2>3, <3>1, <3>2
  <2>4. CASE ~hit /\ ~(ptr.used /\ ptr.dirty)
    <3> DEFINE d == [Running EXCEPT !.pc = "fetch_read", !.slot = Slot]
    <3>1. d \in Contexts /\ d.pc = "fetch_read" /\ d.slot = Slot
      BY <1>2, <1>3, <2>1 DEF Contexts
    <3>2. SetRunning(d)
      BY <1>1, <2>4
    <3> HIDE DEF d
    <3>3. QED
      BY <2>4, <3>1, <3>2
  <2>5. QED
    BY <2>2, <2>3, <2>4
<1>5. stack' \in Seq(Contexts) /\ Len(stack') = 1 /\ stack'[1] = c
  BY <1>2, <1>4, ClientMoves
<1>6. c.pc = "wr_wait" => use.nest = 1
  <2>1. c.pc = "wr_wait" => ~(use.ops \subseteq {"read"}) /\ use.nest \in Nat \ {0}
    BY <1>3, <1>4, UseAssumption DEF IdeInv, SlotInv, IdeType
  <2>2. QED
    BY <1>1, <1>2, <1>3, <1>4, <2>1, NothingCached
<1>7. IdeType'
  BY <1>1, <1>5 DEF IdeInv, IdeType, irqVars
<1>8. ClientInv'
  BY <1>1, <1>2, <1>3, <1>4, <1>5, <1>6 DEF IdeInv, ClientInv, irqVars, ClientPcs, FillPcs, ReadPcs, WritePcs, CalmPcs, OnDisk, Slot, Holds
<1>9. SlotInv'
  BY <1>1, <1>2, <1>4, <1>5, NothingCached DEF IdeInv, SlotInv, CalmPcs
<1>10. DriverInv'
  BY <1>4, <1>5 DEF DriverInv
<1>11. CleanSlotIsOnDisk'
  BY <1>1, <1>2, <1>4, <1>5 DEF IdeInv, CleanSlotIsOnDisk, Refilling, OnDisk, Slot
<1>12. StoreKept
  <2>1. ASSUME NEW s \in Sectors
        PROVE  View(s)' = View(s)
    <3>1. PICK i \in Slots : i = s % NR_SEC_CACHE
      BY SlotOf
    <3>2. OnDisk(s)' = OnDisk(s)
      BY <1>1 DEF OnDisk
    <3>3. ~Refilling(i) /\ (Refilling(i)' => c.pc = "fetch_read" /\ i = Slot)
      BY <1>1, <1>2, <1>4, <1>5 DEF Refilling
    <3>4. CASE Refilling(i)' /\ Cached(s)
      <4>1. ~cache[i].dirty /\ cache[i].used /\ cache[i].sector = s
        BY <1>4, <3>1, <3>3, <3>4 DEF Cached
      <4>2. cache[i].content = OnDisk(s)
        BY <1>1, <1>2, <3>3, <4>1 DEF IdeInv, CleanSlotIsOnDisk
      <4>3. QED
        BY <3>1, <3>2, <3>4, <4>2 DEF View, Cached
    <3>5. CASE ~(Refilling(i)' /\ Cached(s))
      BY <1>1, <3>1, <3>2, <3>3, <3>5 DEF View, Cached
    <3>6. QED
      BY <3>4, <3>5
  <2>2. QED
    BY <1>1, <1>2, <1>4, <1>5, <2>1, KeptBySector
<1>13. QED
  BY <1>1, <1>5, <1>7, <1>8, <1>9, <1>10, <1>11, <1>12, ClientAlone DEF IdeInv, irqVars

LEMMA FetchSetStep ==
  ASSUME Serialised, IdeInv, FetchSet
  PROVE  IdeInv' /\ StoreKept
<1> DEFINE k == Running.slot
<1>1. /\ UNCHANGED <<counter, sec_regs, byte_cnt, ide_write, fpos, disk, use, client, irqVars>>
      /\ \/ /\ Running.pc = "set_used" /\ SetRunning([Running EXCEPT !.pc = "set_sector"])
            /\ cache' = [cache EXCEPT ![k].used = TRUE]
         \/ /\ Running.pc = "set_sector" /\ SetRunning([Running EXCEPT !.pc = "set_dirty"])
            /\ cache' = [cache EXCEPT ![k].sector = client.sector]
         \/ /\ Running.pc = "set_dirty" /\ SetRunning([Running EXCEPT !.pc = "access"])
            /\ cache' = [cache EXCEPT ![k].dirty = FALSE]
  BY DEF FetchSet, At, Goto, deviceVars
<1>2. Len(stack) = 1 /\ Running = stack[1] /\ Running \in Contexts /\ Running.pc \in ClientPcs \ HandlerPcs
  <2>1. Running.pc \in ClientPcs \ HandlerPcs
    BY <1>1 DEF ClientPcs, HandlerPcs, FillPcs, ReadPcs, WritePcs, TickPcs, ScanPcs, CalmPcs
  <2>2. QED
    BY <2>1, OnlyClient, RunningType DEF IdeInv
<1>3. k = Slot /\ Slot \in Slots /\ client.sector \in Sectors /\ client # NoRequest
  BY <1>1, <1>2, RequestType DEF IdeInv, ClientInv, FillPcs
<1>4. /\ cache[Slot].content = OnDisk(client.sector)
      /\ Running.pc = "set_sector" => cache[Slot].used
      /\ Running.pc = "set_dirty" => cache[Slot].used /\ cache[Slot].sector = client.sector
  BY <1>1, <1>2 DEF IdeInv, ClientInv, Holds
<1>5. PICK c \in Contexts :
        /\ SetRunning(c) /\ c.slot = k
        /\ c.pc = IF Running.pc = "set_used" THEN "set_sector"
                  ELSE IF Running.pc = "set_sector" THEN "set_dirty" ELSE "access"
  <2>1. {"set_sector", "set_dirty", "access"} \subseteq ClientPcs
    BY DEF ClientPcs, CalmPcs, FillPcs
  <2>2. \A p \in ClientPcs : LET c == [Running EXCEPT !.pc = p] IN c \in Contexts /\ c.pc = p /\ c.slot = k
    BY <1>2 DEF Contexts
  <2>3. QED
    BY <1>1, <2>1, <2>2
<1>6. stack' \in Seq(Contexts) /\ Len(stack') = 1 /\ stack'[1] = c
  BY <1>2, <1>5, ClientMoves
<1>7. /\ cache' \in [Slots -> Entries]
      /\ \A i \in Slots : cache'[i].content = cache[i].content /\ (i # Slot => cache'[i] = cache[i])
      /\ cache'[Slot].used <=> Running.pc = "set_used" \/ cache[Slot].used
      /\ cache'[Slot].sector = IF Running.pc = "set_sector" THEN client.sector ELSE cache[Slot].sector
      /\ cache'[Slot].dirty <=> Running.pc # "set_dirty" /\ cache[Slot].dirty
  <2>1. cache \in [Slots -> Entries]
    BY DEF IdeInv, IdeType
  <2>2. CASE Running.pc = "set_used"
    <3>1. cache' = [cache EXCEPT ![Slot].used = TRUE]
      BY <1>1, <1>3, <2>2
    <3>2. QED
      BY <1>3, <2>1, <2>2, <3>1, ZenonT(60) DEF Entries
  <2>3. CASE Running.pc = "set_sector"
    <3>1. cache' = [cache EXCEPT ![Slot].sector = client.sector]
      BY <1>1, <1>3, <2>3
    <3>2. QED
      BY <1>3, <2>1, <2>3, <3>1 DEF Entries
  <2>4. CASE Running.pc = "set_dirty"
    <3>1. cache' = [cache EXCEPT ![Slot].dirty = FALSE]
      BY <1>1, <1>3, <2>4
    <3>2. QED
      BY <1>3, <2>1, <2>4, <3>1, ZenonT(60) DEF Entries
  <2>5. QED
    BY <1>1, <2>2, <2>3, <2>4
<1>8. Slot' = Slot
  BY <1>1 DEF Slot
<1>9. IdeType'
  BY <1>1, <1>6, <1>7 DEF IdeInv, IdeType, irqVars
<1>10. ClientInv'
  BY <1>1, <1>2, <1>3, <1>4, <1>5, <1>6, <1>7, <1>8 DEF IdeInv, ClientInv, ClientPcs, FillPcs, ReadPcs, WritePcs, CalmPcs, OnDisk, Holds
<1>11. SlotInv'
  <2>1. client.sector % NR_SEC_CACHE = Slot /\ client.sector \in use.sectors
    BY <1>3, RequestType DEF Slot, IdeInv
  <2>2. QED
    BY <1>1, <1>2, <1>3, <1>4, <1>5, <1>6, <1>7, <2>1 DEF IdeInv, SlotInv, CalmPcs
<1>12. DriverInv'
  BY <1>5, <1>6 DEF DriverInv
<1>13. CleanSlotIsOnDisk'
  <2>1. ASSUME NEW i \in Slots
        PROVE  SlotClean(i)'
    <3>1. CASE i # Slot
      <4>1. SlotClean(i) /\ ~Refilling(i) /\ stack[1].pc # "mark_dirty"
        BY <1>1, <1>2, <1>3, <3>1 DEF IdeInv, CleanSlotIsOnDisk, SlotClean, Refilling
      <4>2. QED
        BY <1>1, <1>7, <3>1, <4>1 DEF SlotClean, OnDisk
    <3>2. CASE i = Slot
      BY <1>1, <1>3, <1>4, <1>5, <1>6, <1>7, <3>2 DEF SlotClean, Refilling, OnDisk
    <3>3. QED
      BY <3>1, <3>2
  <2>2. QED
    BY <2>1 DEF CleanSlotIsOnDisk, SlotClean
<1>14. StoreKept
  <2>1. ASSUME NEW s \in Sectors
        PROVE  View(s)' = View(s)
    <3>1. PICK i \in Slots : i = s % NR_SEC_CACHE
      BY SlotOf
    <3>2. \A t : OnDisk(t)' = OnDisk(t)
      BY <1>1 DEF OnDisk
    <3>3. CASE i # Slot
      <4>1. ~Refilling(i) /\ ~Refilling(i)'
        BY <1>2, <1>3, <1>5, <1>6, <3>3 DEF Refilling
      <4>2. QED
        BY <1>7, <3>1, <3>2, <3>3, <4>1 DEF View, Cached
    <3>4. CASE i = Slot
      <4>1. CASE Running.pc = "set_used"
        <5>1. Refilling(i) /\ Refilling(i)'
          BY <1>2, <1>3, <1>5, <1>6, <3>4, <4>1 DEF Refilling
        <5>2. QED
          BY <3>1, <3>2, <5>1 DEF View, Cached
      <4>2. CASE Running.pc = "set_sector"
        <5>1. Refilling(i) /\ ~Refilling(i)'
          BY <1>2, <1>3, <1>5, <1>6, <3>4, <4>2 DEF Refilling
        <5>2. View(s) = OnDisk(s)
          BY <3>1, <5>1 DEF View, Cached
        <5>3. cache'[i].sector = client.sector /\ cache'[i].content = OnDisk(client.sector)
          BY <1>4, <1>7, <3>4, <4>2
        <5>4. QED
          BY <3>1, <3>2, <5>2, <5>3 DEF View, Cached
      <4>3. CASE Running.pc = "set_dirty"
        <5>1. ~Refilling(i) /\ ~Refilling(i)'
          BY <1>2, <1>3, <1>5, <1>6, <3>4, <4>3 DEF Refilling
        <5>2. QED
          BY <1>4, <1>7, <3>1, <3>2, <3>4, <4>3, <5>1 DEF View, Cached
      <4>4. QED
        BY <1>1, <4>1, <4>2, <4>3
    <3>5. QED
      BY <3>3, <3>4
  <2>2. QED
    BY <1>1, <1>2, <1>5, <1>6, <2>1, KeptBySector
<1>15. QED
  BY <1>1, <1>6, <1>9, <1>10, <1>11, <1>12, <1>13, <1>14, ClientAlone DEF IdeInv, irqVars

LEMMA RequestStep ==
  ASSUME Serialised, IdeInv, Request
  PROVE  IdeInv'
<1> DEFINE c == [Running EXCEPT !.pc = "fetch"]
<1>1. /\ Running.pc = "idle" /\ SetRunning(c)
      /\ UNCHANGED <<cache, counter, deviceVars, use, irqVars>>
      /\ client' \in RequestsOf(use)
  BY DEF Request, At, Goto, cacheVars
<1>2. Running.pc \in ClientPcs \ HandlerPcs
  BY <1>1 DEF ClientPcs, HandlerPcs, FillPcs, ReadPcs, WritePcs, TickPcs, ScanPcs, CalmPcs
<1>3. c \in Contexts /\ c.pc = "fetch"
  BY <1>1, <1>2, RunningType DEF IdeInv, ClientPcs, CalmPcs, Contexts
<1> HIDE DEF c
<1>4. /\ stack' \in Seq(Contexts) /\ Len(stack) = 1 /\ Len(stack') = 1
      /\ Running = stack[1] /\ stack'[1] = c
  BY <1>1, <1>2, <1>3, ClientMoves
<1>5. client' # NoRequest
  BY <1>1 DEF RequestsOf, NoRequest
<1>6. IdeType'
  BY <1>1, <1>4 DEF IdeInv, IdeType, deviceVars, irqVars
<1>7. ClientInv'
  BY <1>1, <1>3, <1>4, <1>5 DEF ClientInv, ClientPcs, FillPcs, ReadPcs, WritePcs, CalmPcs
<1>8. SlotInv'
  BY <1>1, <1>3, <1>4 DEF IdeInv, SlotInv, CalmPcs
<1>9. DriverInv'
  BY <1>3, <1>4 DEF DriverInv
<1>10. CleanSlotIsOnDisk'
  BY <1>1, <1>4 DEF IdeInv, CleanSlotIsOnDisk, Refilling, OnDisk, deviceVars
<1>11. QED
  BY <1>1, <1>4, <1>6, <1>7, <1>8, <1>9, <1>10, ClientAlone DEF IdeInv, irqVars

LEMMA AccessReadStep ==
  ASSUME Serialised, IdeInv, AccessRead
  PROVE  IdeInv'
<1> DEFINE c == Context("idle")
<1>1. /\ Running.pc = "access" /\ SetRunning(c) /\ client' = NoRequest
      /\ UNCHANGED <<cache, counter, deviceVars, use, irqVars>>
  BY DEF AccessRead, At, cacheVars
<1>2. Running.pc \in ClientPcs \ HandlerPcs
  BY <1>1 DEF ClientPcs, HandlerPcs, FillPcs, ReadPcs, WritePcs, TickPcs, ScanPcs, CalmPcs
<1>3. c \in Contexts /\ c.pc = "idle"
  BY SizeAssumption DEF Context, Contexts, ClientPcs, CalmPcs, Slots, Sectors
<1> HIDE DEF c
<1>4. /\ stack' \in Seq(Contexts) /\ Len(stack) = 1 /\ Len(stack') = 1
      /\ Running = stack[1] /\ stack'[1] = c
  BY <1>1, <1>2, <1>3, ClientMoves
<1>5. IdeType'
  BY <1>1, <1>4 DEF IdeInv, IdeType, deviceVars, irqVars
<1>6. ClientInv'
  BY <1>1, <1>3, <1>4 DEF ClientInv, ClientPcs, FillPcs, ReadPcs, WritePcs, CalmPcs
<1>7. SlotInv'
  BY <1>1, <1>3, <1>4 DEF IdeInv, SlotInv, CalmPcs
<1>8. DriverInv'
  BY <1>3, <1>4 DEF DriverInv
<1>9. CleanSlotIsOnDisk'
  BY <1>1, <1>4 DEF IdeInv, CleanSlotIsOnDisk, Refilling, OnDisk, deviceVars
<1>10. QED
  BY <1>1, <1>4, <1>5, <1>6, <1>7, <1>8, <1>9, ClientAlone DEF IdeInv, irqVars

LEMMA AccessWriteStep ==
  ASSUME Serialised, IdeInv, AccessWrite
  PROVE  IdeInv'
<1> DEFINE c == [Running EXCEPT !.pc = "mark_dirty"]
<1>1. /\ Running.pc = "access" /\ SetRunning(c) /\ client.op = "write"
      /\ UNCHANGED <<counter, deviceVars, use, client, irqVars>>
      /\ cache' = [cache EXCEPT ![Slot].content[client.word] = client.value]
  BY DEF AccessWrite, At, Goto, WriteOffset
<1>2. Running.pc \in ClientPcs \ HandlerPcs
  BY <1>1 DEF ClientPcs, HandlerPcs, FillPcs, ReadPcs, WritePcs, TickPcs, ScanPcs, CalmPcs
<1>3. c \in Contexts /\ c.pc = "mark_dirty"
  BY <1>1, <1>2, RunningType DEF IdeInv, ClientPcs, CalmPcs, Contexts
<1> HIDE DEF c
<1>4. /\ stack' \in Seq(Contexts) /\ Len(stack) = 1 /\ Len(stack') = 1
      /\ Running = stack[1] /\ stack'[1] = c
  BY <1>1, <1>2, <1>3, ClientMoves
<1>5. Slot \in Slots /\ client.word \in Offsets /\ client.value \in Values /\ Slot' = Slot
  BY <1>1, RequestType DEF IdeInv, Slot
<1>6. /\ cache' \in [Slots -> Entries]
      /\ \A i \in Slots : /\ cache'[i].used = cache[i].used /\ cache'[i].dirty = cache[i].dirty
                          /\ cache'[i].sector = cache[i].sector
                          /\ i # Slot => cache'[i] = cache[i]
  BY <1>1, <1>5 DEF IdeInv, IdeType, Entries
<1>7. IdeType'
  BY <1>1, <1>4, <1>6 DEF IdeInv, IdeType, deviceVars, irqVars
<1>8. ClientInv'
  BY <1>1, <1>3, <1>4, <1>5, <1>6 DEF IdeInv, ClientInv, ClientPcs, FillPcs, ReadPcs, WritePcs, CalmPcs, Holds
<1>9. SlotInv'
  BY <1>1, <1>3, <1>4, <1>6 DEF IdeInv, SlotInv, CalmPcs
<1>10. DriverInv'
  BY <1>3, <1>4 DEF DriverInv
<1>11. CleanSlotIsOnDisk'
  BY <1>1, <1>3, <1>4, <1>5, <1>6 DEF IdeInv, CleanSlotIsOnDisk, Refilling, OnDisk, deviceVars
<1>12. QED
  BY <1>1, <1>4, <1>7, <1>8, <1>9, <1>10, <1>11, ClientAlone DEF IdeInv, irqVars

LEMMA MarkDirtyStep ==
  ASSUME Serialised, IdeInv, MarkDirty
  PROVE  IdeInv'
<1> DEFINE c == Context("idle")
<1>1. /\ Running.pc = "mark_dirty" /\ SetRunning(c) /\ client' = NoRequest
      /\ UNCHANGED <<counter, deviceVars, use, irqVars>>
      /\ cache' = [cache EXCEPT ![Slot].dirty = TRUE]
  BY DEF MarkDirty, At
<1>2. Running.pc \in ClientPcs \ HandlerPcs
  BY <1>1 DEF ClientPcs, HandlerPcs, FillPcs, ReadPcs, WritePcs, TickPcs, ScanPcs, CalmPcs
<1>3. c \in Contexts /\ c.pc = "idle"
  BY SizeAssumption DEF Context, Contexts, ClientPcs, CalmPcs, Slots, Sectors
<1> HIDE DEF c
<1>4. /\ stack' \in Seq(Contexts) /\ Len(stack) = 1 /\ Len(stack') = 1
      /\ Running = stack[1] /\ stack'[1] = c
  BY <1>1, <1>2, <1>3, ClientMoves
<1>5. Slot \in Slots /\ client.op = "write" /\ client # NoRequest /\ ~(use.ops \subseteq {"read"})
      /\ client.sector \in use.sectors /\ cache[Slot].used /\ cache[Slot].sector = client.sector
  <2>1. client.op = "write" /\ client # NoRequest /\ cache[Slot].used /\ cache[Slot].sector = client.sector
    BY <1>1, <1>4 DEF IdeInv, ClientInv, Holds
  <2>2. QED
    BY <2>1, RequestType DEF IdeInv
<1>6. /\ cache' \in [Slots -> Entries]
      /\ \A i \in Slots : /\ cache'[i].used = cache[i].used /\ cache'[i].content = cache[i].content
                          /\ cache'[i].sector = cache[i].sector
                          /\ i # Slot => cache'[i] = cache[i]
      /\ cache'[Slot].dirty
  BY <1>1, <1>5 DEF IdeInv, IdeType, Entries
<1>7. IdeType'
  BY <1>1, <1>4, <1>6 DEF IdeInv, IdeType, deviceVars, irqVars
<1>8. ClientInv'
  BY <1>1, <1>3, <1>4 DEF ClientInv, ClientPcs, FillPcs, ReadPcs, WritePcs, CalmPcs
<1>9. SlotInv'
  <2>1. cache[Slot].sector % NR_SEC_CACHE = Slot
    BY <1>5 DEF Slot
  <2>2. QED
    BY <1>1, <1>3, <1>4, <1>5, <1>6, <2>1 DEF IdeInv, SlotInv, CalmPcs
<1>10. DriverInv'
  BY <1>3, <1>4 DEF DriverInv
<1>11. CleanSlotIsOnDisk'
  <2>1. ASSUME NEW i \in Slots, i # Slot
        PROVE  SlotClean(i)'
    <3>1. SlotClean(i) /\ ~Refilling(i)
      BY <1>1, <1>4 DEF IdeInv, CleanSlotIsOnDisk, SlotClean, Refilling
    <3>2. QED
      BY <1>1, <1>6, <2>1, <3>1 DEF SlotClean, OnDisk, deviceVars
  <2>2. QED
    BY <1>6, <2>1 DEF CleanSlotIsOnDisk, SlotClean
<1>12. QED
  BY <1>1, <1>4, <1>7, <1>8, <1>9, <1>10, <1>11, ClientAlone DEF IdeInv, irqVars

-----------------------------------------------------------------------------
(* Steps of the driver that client and handler share.                      *)

\* A step inside the driver leaves the rest of the stack alone, and nothing
\* below it is in the driver.
LEMMA DriverMoves ==
  ASSUME Serialised, IdeInv, NEW c \in Contexts, SetRunning(c),
         Running.pc \in ReadPcs \cup WritePcs,
         c.pc \in ReadPcs <=> Running.pc \in ReadPcs, c.pc \in WritePcs <=> Running.pc \in WritePcs,
         c.slot = Running.slot, c.sector = Running.sector, c.ret = Running.ret,
         UNCHANGED <<cache, counter, disk, use, client, req>>
  PROVE  /\ stack' \in Seq(Contexts) /\ Len(stack') = Len(stack) /\ stack'[Len(stack)] = c
         /\ Len(stack) \in Nat /\ Len(stack) >= 1
         /\ \A i \in 1 .. Len(stack) - 1 : stack'[i].pc \notin ReadPcs \cup WritePcs
         /\ ClientInv' /\ HandlerInv' /\ SlotInv' /\ ScanInv' /\ CleanSlotIsOnDisk'
<1> DEFINE n == Len(stack)
<1>1. /\ stack \in Seq(Contexts) /\ n \in Nat /\ n >= 1 /\ stack' \in Seq(Contexts) /\ Len(stack') = n
      /\ Running = stack[n] /\ stack'[n] = c /\ Running \in Contexts
      /\ \A i \in 1 .. n - 1 : stack'[i] = stack[i]
  BY TopChanged, RunningType DEF IdeInv, IdeType, Running
<1> HIDE DEF n
<1>2. \A i \in 1 .. n - 1 : stack'[i].pc \notin ReadPcs \cup WritePcs
  BY <1>1, OneDriver DEF n
<1>3. /\ stack'[1].slot = stack[1].slot /\ stack'[1].sector = stack[1].sector /\ stack'[1].ret = stack[1].ret
      /\ \/ stack'[1].pc = stack[1].pc
         \/ stack'[1].pc \in ReadPcs /\ stack[1].pc \in ReadPcs
         \/ stack'[1].pc \in WritePcs /\ stack[1].pc \in WritePcs
  <2>1. CASE n = 1
    BY <1>1, <2>1
  <2>2. CASE n > 1
    BY <1>1, <2>2
  <2>3. QED
    BY <1>1, <2>1, <2>2
<1>4. ClientInv'
  BY <1>3 DEF IdeInv, ClientInv, ClientPcs, FillPcs, ReadPcs, WritePcs, CalmPcs, OnDisk, Slot, Holds
<1>5. \A i \in 1 .. n : /\ stack'[i].slot = stack[i].slot /\ stack'[i].sector = stack[i].sector
                        /\ stack'[i].ret = stack[i].ret
                        /\ \/ stack'[i].pc = stack[i].pc /\ stack'[i].eax = stack[i].eax
                           \/ stack'[i].pc \in ReadPcs /\ stack[i].pc \in ReadPcs
                           \/ stack'[i].pc \in WritePcs /\ stack[i].pc \in WritePcs
  BY <1>1
<1>6. HandlerInv'
  <2>1. TIMER_VECTOR \in req' => use'.nest > 1
    BY DEF IdeInv, HandlerInv
  <2>2. ASSUME NEW i \in 2 .. Len(stack')
        PROVE  /\ stack'[i].pc \in HandlerPcs
               /\ stack'[i].pc \in TickPcs => use'.nest > 1
               /\ stack'[i].pc \in WritePcs => stack'[i].ret = "scan_clean" /\ stack'[i].sector = cache'[stack'[i].slot].sector
               /\ stack'[i].pc \in WritePcs \cup {"scan_clean"} => cache'[stack'[i].slot].dirty
               /\ stack'[i].pc = "scan_clean" => cache'[stack'[i].slot].content = OnDisk(cache[stack[i].slot].sector)
    <3>1. i \in 2 .. Len(stack) /\ i \in 1 .. n
      BY <1>1 DEF n
    <3>2. stack[i].pc \notin ReadPcs
      BY <3>1 DEF IdeInv, HandlerInv, HandlerPcs, TickPcs, ScanPcs, ReadPcs, WritePcs
    <3>3. QED
      BY <1>5, <3>1, <3>2 DEF IdeInv, HandlerInv, HandlerPcs, TickPcs, ScanPcs, WritePcs
  <2>3. \A i \in 2 .. Len(stack') : stack'[i].slot = stack[i].slot
    BY <1>1, <1>5
  <2>4. \A s : OnDisk(s)' = OnDisk(s)
    BY DEF OnDisk
  <2>5. QED
    BY <2>1, <2>2, <2>3 DEF HandlerInv, OnDisk
<1>7. SlotInv'
  BY <1>3 DEF IdeInv, SlotInv, CalmPcs, ReadPcs, WritePcs
<1>8. ScanInv'
  <2>1. ASSUME NEW i \in 2 .. n, stack'[i].pc \in ScanPcs
        PROVE  /\ counter >= HZ
               /\ \A j \in i + 1 .. n :
                    /\ stack'[j].pc \notin ScanPcs
                    /\ stack'[j].pc = "tick_store" => stack'[j].eax >= HZ
                    /\ stack'[j].pc = "tick_test" => counter > HZ
    <3>1. i \in 1 .. n /\ i \in 2 .. Len(stack)
      BY <1>1 DEF n
    <3>2. stack[i].pc \notin ReadPcs
      BY <3>1 DEF IdeInv, HandlerInv, HandlerPcs, TickPcs, ScanPcs, ReadPcs, WritePcs
    <3>3. stack[i].pc \in ScanPcs
      BY <1>5, <2>1, <3>1, <3>2 DEF ScanPcs
    <3>4. ASSUME NEW j \in i + 1 .. n
          PROVE  /\ stack'[j].pc \notin ScanPcs
                 /\ stack'[j].pc = "tick_store" => stack'[j].eax >= HZ
                 /\ stack'[j].pc = "tick_test" => counter > HZ
      <4>1. j \in 1 .. n /\ j \in i + 1 .. Len(stack) /\ j \in 2 .. Len(stack)
        BY <1>1 DEF n
      <4>2. /\ stack[j].pc \notin ScanPcs
            /\ stack[j].pc = "tick_store" => stack[j].eax >= HZ
            /\ stack[j].pc = "tick_test" => counter > HZ
        BY <3>1, <3>3, <4>1 DEF IdeInv, ScanInv
      <4>3. stack[j].pc \notin ReadPcs
        BY <4>1 DEF IdeInv, HandlerInv, HandlerPcs, TickPcs, ScanPcs, ReadPcs, WritePcs
      <4>4. stack'[j].pc = stack[j].pc /\ stack'[j].eax = stack[j].eax
        BY <1>5, <4>1, <4>2, <4>3 DEF ScanPcs
      <4>5. QED
        BY <4>2, <4>4
    <3>5. QED
      BY <3>1, <3>3, <3>4 DEF IdeInv, ScanInv
  <2>2. QED
    BY <1>1, <2>1 DEF ScanInv
<1>9. CleanSlotIsOnDisk'
  BY <1>3 DEF IdeInv, CleanSlotIsOnDisk, Refilling, OnDisk, Slot, ReadPcs, WritePcs
<1>10. QED
  BY <1>1, <1>2, <1>4, <1>6, <1>7, <1>8, <1>9 DEF n

LEMMA WaitDiskStep ==
  ASSUME Serialised, IdeInv, WaitDisk
  PROVE  IdeInv'
<1> DEFINE p == IF Running.pc = "rd_wait" THEN "rd_regs" ELSE "wr_regs"
           c == [Running EXCEPT !.pc = p]
<1>1. /\ Running.pc \in {"rd_wait", "wr_wait"} /\ SetRunning(c)
      /\ UNCHANGED <<cache, counter, deviceVars, use, client, irqVars>>
  BY DEF WaitDisk, Goto, At, cacheVars
<1>2. /\ c \in Contexts /\ c.pc = p
      /\ c.slot = Running.slot /\ c.sector = Running.sector /\ c.ret = Running.ret
  <2>1. p \in ClientPcs \cup HandlerPcs
    BY DEF ClientPcs, FillPcs, ReadPcs, WritePcs
  <2>2. QED
    BY <2>1, RunningType DEF IdeInv, Contexts
<1>3. /\ Running.pc \in ReadPcs \cup WritePcs
      /\ p \in ReadPcs <=> Running.pc \in ReadPcs
      /\ p \in WritePcs <=> Running.pc \in WritePcs
      /\ p \in {"rd_regs", "wr_regs"}
  BY <1>1 DEF ReadPcs, WritePcs
<1> HIDE DEF c, p
<1>4. /\ stack' \in Seq(Contexts) /\ Len(stack') = Len(stack) /\ stack'[Len(stack)] = c
      /\ Len(stack) \in Nat /\ Len(stack) >= 1
      /\ \A i \in 1 .. Len(stack) - 1 : stack'[i].pc \notin ReadPcs \cup WritePcs
      /\ ClientInv' /\ HandlerInv' /\ SlotInv' /\ ScanInv' /\ CleanSlotIsOnDisk'
  BY <1>1, <1>2, <1>3, DriverMoves DEF deviceVars, irqVars
<1>5. IdeType'
  BY <1>1, <1>4 DEF IdeInv, IdeType, deviceVars, irqVars
<1>6. DriverInv'
  BY <1>2, <1>3, <1>4 DEF DriverInv, ReadPcs, WritePcs
<1>7. QED
  BY <1>4, <1>5, <1>6 DEF IdeInv

LEMMA PrepareStep ==
  ASSUME Serialised, IdeInv, Prepare
  PROVE  IdeInv'
<1> DEFINE p == IF Running.pc = "rd_regs" THEN "rd_issue" ELSE "wr_issue"
           c == [Running EXCEPT !.pc = p]
<1>1. /\ Running.pc \in {"rd_regs", "wr_regs"} /\ SetRunning(c) /\ sec_regs' = Running.sector
      /\ UNCHANGED <<cache, counter, byte_cnt, ide_write, fpos, disk, use, client, irqVars>>
  BY DEF Prepare, Goto, At, cacheVars
<1>2. /\ c \in Contexts /\ c.pc = p /\ Running.sector \in Sectors
      /\ c.slot = Running.slot /\ c.sector = Running.sector /\ c.ret = Running.ret
  <2>1. p \in ClientPcs \cup HandlerPcs
    BY DEF ClientPcs, FillPcs, ReadPcs, WritePcs
  <2>2. QED
    BY <2>1, RunningType DEF IdeInv, Contexts
<1>3. /\ Running.pc \in ReadPcs \cup WritePcs
      /\ p \in ReadPcs <=> Running.pc \in ReadPcs
      /\ p \in WritePcs <=> Running.pc \in WritePcs
      /\ p \in {"rd_issue", "wr_issue"}
  BY <1>1 DEF ReadPcs, WritePcs
<1> HIDE DEF c, p
<1>4. /\ stack' \in Seq(Contexts) /\ Len(stack') = Len(stack) /\ stack'[Len(stack)] = c
      /\ Len(stack) \in Nat /\ Len(stack) >= 1
      /\ \A i \in 1 .. Len(stack) - 1 : stack'[i].pc \notin ReadPcs \cup WritePcs
      /\ ClientInv' /\ HandlerInv' /\ SlotInv' /\ ScanInv' /\ CleanSlotIsOnDisk'
  BY <1>1, <1>2, <1>3, DriverMoves DEF irqVars
<1>5. IdeType'
  BY <1>1, <1>2, <1>4 DEF IdeInv, IdeType, irqVars
<1>6. DriverInv'
  BY <1>1, <1>2, <1>3, <1>4 DEF DriverInv, ReadPcs, WritePcs
<1>7. QED
  BY <1>4, <1>5, <1>6 DEF IdeInv

LEMMA IssueWriteStep ==
  ASSUME Serialised, IdeInv, IssueWrite
  PROVE  IdeInv'
<1> DEFINE c == [Running EXCEPT !.pc = "wr_data", !.word = 0]
<1>1. /\ Running.pc = "wr_issue" /\ SetRunning(c)
      /\ UNCHANGED <<cache, counter, sec_regs, disk, use, client, irqVars>>
      /\ fpos' = sec_regs * Words /\ byte_cnt' = 0 /\ ide_write' = TRUE
  BY DEF IssueWrite, At, cacheVars, OutCommand
<1>2. /\ c \in Contexts /\ c.pc = "wr_data" /\ c.word = 0 /\ Running.sector \in Sectors
      /\ c.slot = Running.slot /\ c.sector = Running.sector /\ c.ret = Running.ret
  <2>1. "wr_data" \in ClientPcs \cup HandlerPcs /\ 0 \in 0 .. Words
    BY SizeAssumption DEF ClientPcs, WritePcs
  <2>2. QED
    BY <2>1, RunningType DEF IdeInv, Contexts
<1>3. /\ Running.pc \in ReadPcs \cup WritePcs
      /\ c.pc \in ReadPcs <=> Running.pc \in ReadPcs
      /\ c.pc \in WritePcs <=> Running.pc \in WritePcs
  BY <1>1, <1>2 DEF ReadPcs, WritePcs
<1> HIDE DEF c
<1>4. /\ stack' \in Seq(Contexts) /\ Len(stack') = Len(stack) /\ stack'[Len(stack)] = c
      /\ Len(stack) \in Nat /\ Len(stack) >= 1
      /\ \A i \in 1 .. Len(stack) - 1 : stack'[i].pc \notin ReadPcs \cup WritePcs
      /\ ClientInv' /\ HandlerInv' /\ SlotInv' /\ ScanInv' /\ CleanSlotIsOnDisk'
  BY <1>1, <1>2, <1>3, DriverMoves DEF irqVars
<1>5. sec_regs = Running.sector /\ Running.sector * Words \in Nat
  <2>1. sec_regs = Running.sector
    BY <1>1, <1>4 DEF IdeInv, DriverInv, Running
  <2>2. QED
    BY <1>2, <2>1, SizeAssumption DEF Sectors
<1>6. IdeType'
  BY <1>1, <1>4, <1>5 DEF IdeInv, IdeType, irqVars
<1>7. DriverInv'
  <2>1. /\ byte_cnt' = c.word /\ c.word < Words /\ ide_write'
        /\ fpos' = c.sector * Words + c.word
        /\ \A w \in 0 .. c.word - 1 : FALSE
    BY <1>1, <1>2, <1>5, SizeAssumption
  <2>2. QED
    BY <1>2, <1>4, <2>1 DEF DriverInv, ReadPcs, WritePcs
<1>8. QED
  BY <1>4, <1>6, <1>7 DEF IdeInv

LEMMA WriteDataStep ==
  ASSUME Serialised, IdeInv, WriteData
  PROVE  IdeInv' /\ StoreKept
<1> DEFINE c == [Running EXCEPT !.word = @ + 1, !.pc = IF LastWord THEN Running.ret ELSE @]
<1>0. PICK n \in Nat, k \in Slots, w \in Nat, x \in Sectors :
        n = Len(stack) /\ k = Running.slot /\ w = Running.word /\ x = Running.sector
  BY RunningType, ContextFields DEF IdeInv
<1>1. /\ Running.pc = "wr_data" /\ SetRunning(c)
      /\ UNCHANGED <<cache, counter, sec_regs, ide_write, use, client, irqVars>>
      /\ byte_cnt' = byte_cnt + 1
      /\ use.fileMode # "rb" => disk' = [disk EXCEPT ![fpos] = cache[k].content[w]] /\ fpos' = fpos + 1
  BY <1>0 DEF WriteData, At, OutData, CountWord, cacheVars
<1>2. /\ stack \in Seq(Contexts) /\ n \in Nat /\ n >= 1 /\ Running = stack[n] /\ Running \in Contexts
      /\ stack[1].pc \in ClientPcs
  BY <1>0, RunningType DEF IdeInv, IdeType, ClientInv, Running
<1>3. /\ w < Words /\ w \in Offsets /\ byte_cnt = w /\ ide_write /\ fpos = x * Words + w
      /\ \A v \in 0 .. w - 1 : cache[k].content[v] = disk[x * Words + v]
  <2>1. /\ w < Words /\ byte_cnt = w /\ ide_write /\ fpos = x * Words + w
        /\ \A v \in 0 .. w - 1 : cache[k].content[v] = disk[x * Words + v]
    BY <1>0, <1>1, <1>2 DEF IdeInv, DriverInv
  <2>2. QED
    BY <1>2, <2>1, SizeAssumption DEF Offsets
<1>4. /\ cache[k].dirty /\ cache[k].used /\ cache[k].sector = x
      /\ Running.ret = IF n = 1 THEN "fetch_read" ELSE "scan_clean"
      /\ n = 1 => use.nest = 1 /\ k = Slot
      /\ n > 1 => use.nest > 1
  <2>1. CASE n = 1
    BY <1>0, <1>1, <1>2, <2>1 DEF IdeInv, ClientInv, WritePcs
  <2>2. CASE n > 1
    <3>1. n \in 2 .. Len(stack)
      BY <1>0, <1>2, <2>2
    <3>2. cache[k].dirty /\ cache[k].sector = x /\ Running.ret = "scan_clean" /\ use.nest > 1
      BY <1>0, <1>1, <1>2, <3>1 DEF IdeInv, HandlerInv, WritePcs, TickPcs, ScanPcs
    <3>3. QED
      BY <1>2, <2>2, <3>2 DEF IdeInv, SlotInv
  <2>3. QED
    BY <1>2, <2>1, <2>2
<1>5. use.fileMode = "r+b" /\ ~(use.ops \subseteq {"read"})
  BY <1>2, <1>4 DEF Serialised, IdeInv, IdeType, SlotInv
<1>6. /\ stack[1].pc \in CalmPcs \cup {"wr_data"}
      /\ stack[1].pc = "wr_data" <=> n = 1
  <2>1. CASE n = 1
    BY <1>1, <1>2, <2>1
  <2>2. CASE n > 1
    <3>1. stack[1].pc \in CalmPcs \cup {"set_sector", "set_dirty"}
      BY <1>2, <1>4, <1>5, <2>2 DEF IdeInv, SlotInv
    <3>2. stack[1].pc \notin {"set_sector", "set_dirty"}
      BY <1>2, <1>4, <1>5, <2>2 DEF IdeInv, SlotInv
    <3>3. QED
      BY <2>2, <3>1, <3>2 DEF CalmPcs
  <2>3. QED
    BY <1>2, <2>1, <2>2
<1>7. /\ c \in Contexts /\ c.slot = k /\ c.sector = x /\ c.word = w + 1 /\ c.ret = Running.ret
      /\ c.pc = IF w = Words - 1 THEN Running.ret ELSE "wr_data"
  <2>1. w + 1 \in 0 .. Words
    BY <1>3, SizeAssumption DEF Offsets
  <2>2. {"fetch_read", "scan_clean", "wr_data"} \subseteq ClientPcs \cup HandlerPcs
    BY DEF ClientPcs, HandlerPcs, FillPcs, WritePcs, TickPcs, ScanPcs
  <2>3. (IF LastWord THEN Running.ret ELSE Running.pc) \in ClientPcs \cup HandlerPcs
    BY <1>1, <1>4, <2>2
  <2>4. c \in Contexts
    BY <1>0, <1>2, <2>1, <2>3 DEF Contexts
  <2>5. QED
    BY <1>0, <1>1, <1>2, <2>4 DEF Contexts, LastWord
<1>8. /\ stack' \in Seq(Contexts) /\ Len(stack') = n /\ stack'[n] = c
      /\ \A i \in 1 .. n - 1 : stack'[i] = stack[i]
  BY <1>0, <1>1, <1>7, TopChanged DEF IdeInv
<1> DEFINE word == cache[k].content[w]
<1>9. /\ word \in Values /\ fpos \in 0 .. NSectors * Words - 1 /\ fpos' = fpos + 1
      /\ disk' \in [0 .. NSectors * Words - 1 -> Values]
      /\ \A p \in 0 .. NSectors * Words - 1 : disk'[p] = IF p = fpos THEN word ELSE disk[p]
  <2>1. word \in Values
    BY <1>2, <1>3 DEF IdeInv, IdeType, Entries
  <2>2. fpos \in 0 .. NSectors * Words - 1
    BY <1>2, <1>3, Positions
  <2>3. disk' = [disk EXCEPT ![fpos] = word] /\ fpos' = fpos + 1
    BY <1>1, <1>5
  <2>4. disk \in [0 .. NSectors * Words - 1 -> Values]
    BY DEF IdeInv, IdeType
  <2> HIDE DEF word
  <2>5. QED
    BY <2>1, <2>2, <2>3, <2>4
<1>10. /\ \A s \in Sectors : s # x => OnDisk(s)' = OnDisk(s)
       /\ \A v \in Offsets : disk'[x * Words + v] = IF v = w THEN word ELSE disk[x * Words + v]
  <2>1. ASSUME NEW s \in Sectors, NEW v \in Offsets
        PROVE  disk'[s * Words + v] = IF s = x /\ v = w THEN word ELSE disk[s * Words + v]
    <3>1. s * Words + v \in 0 .. NSectors * Words - 1
      BY Positions
    <3>2. s * Words + v = x * Words + w => s = x /\ v = w
      BY <1>2, <1>3, Positions
    <3>3. QED
      BY <1>3, <1>9, <3>1, <3>2
  <2>2. QED
    BY <1>2, <2>1 DEF OnDisk
<1> HIDE DEF c, word
<1>11. \A v \in 0 .. w : cache[k].content[v] = disk'[x * Words + v]
  <2>1. \A v \in 0 .. w : v \in Offsets /\ (v = w \/ v \in 0 .. w - 1)
    BY <1>2, <1>3, SizeAssumption DEF Offsets
  <2>2. QED
    BY <1>3, <1>10, <2>1 DEF word
<1>12. w = Words - 1 => cache[k].content = OnDisk(x)'
  <2>1. cache[k].content \in [Offsets -> Values]
    BY <1>2 DEF IdeInv, IdeType, Entries
  <2>2. QED
    BY <1>11, <2>1, SizeAssumption DEF OnDisk, Offsets
<1>13. /\ n = 1 => stack'[1] = c
       /\ n > 1 => stack'[1] = stack[1]
  BY <1>2, <1>8
<1>14. \A i \in 1 .. n - 1 : stack'[i].pc \notin ReadPcs \cup ScanPcs
  <2>1. ASSUME NEW i \in 1 .. n - 1
        PROVE  stack[i].pc \notin ReadPcs \cup ScanPcs
    <3>1. i \in 1 .. Len(stack) /\ n \in 1 .. Len(stack) /\ i < n
      BY <1>0, <1>2
    <3>2. Running.pc \in WritePcs
      BY <1>1 DEF WritePcs
    <3>3. stack[i].pc \notin ReadPcs \cup WritePcs
      BY <1>2, <3>1, <3>2, OneDriver
    <3>4. CASE i = 1
      BY <1>2, <3>3, <3>4 DEF ClientPcs, CalmPcs, FillPcs, ScanPcs
    <3>5. CASE i # 1
      <4>1. i \in 2 .. Len(stack) /\ n \in i + 1 .. Len(stack)
        BY <1>2, <3>1, <3>5
      <4>2. stack[i].pc \notin ScanPcs
        BY <1>2, <3>2, <4>1 DEF IdeInv, ScanInv, ScanPcs
      <4>3. QED
        BY <3>3, <4>2
    <3>6. QED
      BY <3>4, <3>5
  <2>2. QED
    BY <1>8, <2>1
<1>15. IdeType'
  BY <1>1, <1>2, <1>3, <1>8, <1>9 DEF IdeInv, IdeType, irqVars
<1>16. ClientInv'
  <2>1. CASE n = 1
    BY <1>1, <1>2, <1>4, <1>7, <1>13, <2>1 DEF IdeInv, ClientInv, ClientPcs, FillPcs, ReadPcs, WritePcs, CalmPcs, Slot, Holds
  <2>2. CASE n > 1
    BY <1>1, <1>6, <1>13, <2>2 DEF IdeInv, ClientInv, ClientPcs, FillPcs, ReadPcs, WritePcs, CalmPcs, Slot, Holds
  <2>3. QED
    BY <1>2, <2>1, <2>2
<1>17. HandlerInv'
  <2>1. TIMER_VECTOR \in req' => use'.nest > 1
    BY <1>1 DEF IdeInv, HandlerInv, irqVars
  <2>2. ASSUME NEW i \in 2 .. n - 1
        PROVE  /\ stack'[i].pc \in HandlerPcs \ ScanPcs
               /\ stack'[i].pc \in TickPcs => use'.nest > 1
    <3>1. i \in 2 .. Len(stack) /\ i \in 1 .. n - 1
      BY <1>0, <1>2
    <3>2. QED
      BY <1>1, <1>8, <1>14, <3>1 DEF IdeInv, HandlerInv
  <2>3. n > 1 => /\ c.pc \in HandlerPcs /\ use'.nest > 1 /\ c.ret = "scan_clean" /\ c.sector = cache'[c.slot].sector
                 /\ cache'[c.slot].dirty
                 /\ c.pc = "scan_clean" => w = Words - 1
    BY <1>1, <1>4, <1>7 DEF HandlerPcs, TickPcs, ScanPcs, WritePcs
  <2>4. n > 1 /\ c.pc = "scan_clean" => cache'[c.slot].content = OnDisk(x)'
    BY <1>1, <1>7, <1>12, <2>3
  <2>5. \A i \in 2 .. n : i = n \/ i \in 2 .. n - 1
    BY <1>2
  <2>6. "scan_clean" \in ScanPcs /\ WritePcs \subseteq ScanPcs
    BY DEF ScanPcs
  <2>7. QED
    BY <1>2, <1>7, <1>8, <2>1, <2>2, <2>3, <2>4, <2>5, <2>6, SMTT(40) DEF HandlerInv, OnDisk
<1>18. SlotInv'
  BY <1>1, <1>2, <1>4, <1>6, <1>7, <1>13 DEF IdeInv, SlotInv, CalmPcs
<1>19. DriverInv'
  <2>1. /\ w + 1 \in Nat /\ Words \in Nat /\ x \in Int
        /\ byte_cnt' = w + 1 /\ fpos' = x * Words + (w + 1) /\ (w + 1) - 1 = w
    BY <1>1, <1>2, <1>3, <1>9, SizeAssumption DEF Sectors
  <2>2. c.pc = "wr_data" => w + 1 < Words
    BY <1>2, <1>3, <1>4, <1>7, <2>1
  <2>3. c.pc \notin {"rd_issue", "wr_issue", "rd_sleep", "rd_clear2", "rd_data"}
    BY <1>4, <1>7
  <2>4. \A v \in 0 .. c.word - 1 : cache'[c.slot].content[v] = disk'[c.sector * Words + v]
    BY <1>1, <1>7, <1>11, <2>1
  <2>5. \A i \in 1 .. n : i = n \/ i \in 1 .. n - 1
    BY <1>2
  <2>6. \A i \in 1 .. n - 1 :
          stack'[i].pc \notin {"rd_issue", "wr_issue", "rd_sleep", "rd_clear2", "rd_data", "wr_data"}
    BY <1>14 DEF ReadPcs, ScanPcs, WritePcs
  <2>7. c.pc = "wr_data" => ide_write' /\ byte_cnt' = c.word /\ c.word < Words /\ fpos' = c.sector * Words + c.word
    BY <1>1, <1>3, <1>7, <2>1, <2>2
  <2>8. QED
    BY <1>8, <2>3, <2>4, <2>5, <2>6, <2>7 DEF DriverInv
<1>20. ScanInv'
  <2>1. n > 1 => counter >= HZ
    <3>1. ASSUME n > 1
          PROVE  n \in 2 .. Len(stack) /\ stack[n].pc \in ScanPcs
      BY <1>0, <1>1, <1>2, <3>1 DEF ScanPcs, WritePcs
    <3>2. QED
      BY <3>1 DEF IdeInv, ScanInv
  <2>2. \A i \in 2 .. n : i = n \/ i \in 1 .. n - 1
    BY <1>2
  <2>3. QED
    BY <1>1, <1>2, <1>8, <1>14, <2>1, <2>2 DEF ScanInv
<1>21. CleanSlotIsOnDisk'
  <2>1. ASSUME NEW i \in Slots
        PROVE  SlotClean(i)'
    <3>1. CASE i = k
      BY <1>1, <1>4, <3>1 DEF SlotClean
    <3>2. CASE ~cache[i].used \/ cache[i].dirty
      BY <1>1, <3>2 DEF SlotClean
    <3>3. CASE stack[1].pc = "mark_dirty" /\ Slot = i
      <4>1. stack'[1] = stack[1]
        BY <1>2, <1>6, <1>13, <3>3
      <4>2. QED
        BY <1>1, <3>3, <4>1 DEF SlotClean, Slot
    <3>4. CASE i # k /\ cache[i].used /\ ~cache[i].dirty /\ ~(stack[1].pc = "mark_dirty" /\ Slot = i)
      <4>1. ~Refilling(i)
        BY <1>6 DEF Refilling, CalmPcs
      <4>2. cache[i].content = OnDisk(cache[i].sector) /\ cache[i].sector \in Sectors
        BY <3>4, <4>1 DEF IdeInv, IdeType, Entries, CleanSlotIsOnDisk
      <4>3. cache[i].sector % NR_SEC_CACHE = i /\ x % NR_SEC_CACHE = k
        BY <1>2, <1>4, <1>6, <3>4 DEF IdeInv, SlotInv, CalmPcs
      <4>4. cache[i].content = OnDisk(cache[i].sector)'
        BY <1>1, <1>10, <3>4, <4>2, <4>3
      <4>5. QED
        BY <1>1, <4>4 DEF SlotClean, OnDisk
    <3>5. QED
      BY <3>1, <3>2, <3>3, <3>4
  <2>2. QED
    BY <2>1 DEF CleanSlotIsOnDisk, SlotClean
<1>22. StoreKept
  <2>1. ASSUME NEW s \in Sectors
        PROVE  View(s)' = View(s)
    <3>1. PICK i \in Slots : i = s % NR_SEC_CACHE
      BY SlotOf
    <3>2. ~Refilling(i) /\ (Refilling(i)' => n = 1 /\ i = k /\ w = Words - 1)
      BY <1>2, <1>4, <1>6, <1>7, <1>13 DEF Refilling, CalmPcs
    <3>3. CASE s = x
      <4>1. i = k
        BY <1>2, <1>4, <1>6, <3>1, <3>3 DEF IdeInv, SlotInv, CalmPcs
      <4>2. View(s) = cache[k].content
        BY <1>4, <3>1, <3>2, <3>3, <4>1 DEF View, Cached
      <4>3. CASE Refilling(i)'
        BY <1>12, <3>1, <3>2, <3>3, <4>2, <4>3 DEF View, Cached
      <4>4. CASE ~Refilling(i)'
        BY <1>1, <1>4, <3>1, <3>3, <4>1, <4>2, <4>4 DEF View, Cached
      <4>5. QED
        BY <4>3, <4>4
    <3>4. CASE s # x
      <4>1. OnDisk(s)' = OnDisk(s)
        BY <1>10, <3>4
      <4>2. Cached(s)' <=> Cached(s)
        BY <1>1, <1>4, <3>1, <3>2, <3>4 DEF Cached
      <4>3. QED
        BY <1>1, <4>1, <4>2 DEF View
    <3>5. QED
      BY <3>3, <3>4
  <2>2. stack'[1].pc = "mark_dirty" <=> stack[1].pc = "mark_dirty"
    BY <1>2, <1>4, <1>6, <1>7, <1>13
  <2>3. QED
    BY <1>1, <2>1, <2>2, KeptBySector
<1>23. QED
  BY <1>15, <1>16, <1>17, <1>18, <1>19, <1>20, <1>21, <1>22 DEF IdeInv

-----------------------------------------------------------------------------
(* Steps of the handlers.                                                  *)

LEMMA HandlerRuns ==
  ASSUME IdeInv, Running.pc \in HandlerPcs \ ClientPcs, NEW c \in Contexts, SetRunning(c)
  PROVE  \E n \in Nat :
           /\ n = Len(stack) /\ n >= 2 /\ Running = stack[n] /\ Running \in Contexts
           /\ stack' \in Seq(Contexts) /\ Len(stack') = n /\ stack'[n] = c
           /\ \A i \in 1 .. n - 1 : stack'[i] = stack[i]
           /\ stack'[1] = stack[1]
<1>1. PICK n \in Nat : n = Len(stack)
  BY RunningType DEF IdeInv
<1>2. /\ n >= 1 /\ Running = stack[n] /\ Running \in Contexts
      /\ stack' \in Seq(Contexts) /\ Len(stack') = n /\ stack'[n] = c
      /\ \A i \in 1 .. n - 1 : stack'[i] = stack[i]
  BY <1>1, TopChanged, RunningType DEF IdeInv, IdeType, Running
<1>3. n # 1
  BY <1>2 DEF IdeInv, ClientInv
<1>4. QED
  BY <1>1, <1>2, <1>3

\* What a handler does besides its own work leaves the invariant alone.
LEMMA HandlerMoves ==
  ASSUME IdeInv, Running.pc \in HandlerPcs \ ClientPcs, NEW c \in Contexts, SetRunning(c),
         c.pc \in HandlerPcs \ (WritePcs \ {"wr_wait"}), c.pc # "scan_clean",
         c.pc \in TickPcs => Running.pc \in TickPcs,
         c.pc = "wr_wait" => c.ret = "scan_clean" /\ c.sector = cache[c.slot].sector /\ cache[c.slot].dirty,
         UNCHANGED <<cache, sec_regs, byte_cnt, ide_write, fpos, disk, use, client, req>>
  PROVE  ClientInv' /\ HandlerInv' /\ SlotInv' /\ DriverInv' /\ CleanSlotIsOnDisk'
<1>1. PICK n \in Nat :
        /\ n = Len(stack) /\ n >= 2 /\ Running = stack[n] /\ Running \in Contexts
        /\ stack' \in Seq(Contexts) /\ Len(stack') = n /\ stack'[n] = c
        /\ \A i \in 1 .. n - 1 : stack'[i] = stack[i]
        /\ stack'[1] = stack[1]
  BY HandlerRuns
<1>2. ClientInv'
  BY <1>1 DEF IdeInv, ClientInv, OnDisk, Slot, Holds
<1>3. SlotInv'
  BY <1>1 DEF IdeInv, SlotInv
<1>4. CleanSlotIsOnDisk'
  BY <1>1 DEF IdeInv, CleanSlotIsOnDisk, Refilling, OnDisk, Slot
<1>5. DriverInv'
  <2>1. \A i \in 1 .. n : i \in 1 .. Len(stack) /\ (i = n \/ stack'[i] = stack[i])
    BY <1>1
  <2>2. c.pc \notin {"rd_issue", "wr_issue", "rd_sleep", "rd_clear2", "rd_data", "wr_data"}
    BY DEF HandlerPcs, TickPcs, ScanPcs, WritePcs
  <2>3. QED
    BY <1>1, <2>1, <2>2 DEF IdeInv, DriverInv
<1>6. HandlerInv'
  <2>1. \A i \in 2 .. n : i \in 2 .. Len(stack) /\ (i = n \/ stack'[i] = stack[i])
    BY <1>1
  <2>2. /\ c.pc \in HandlerPcs
        /\ c.pc \in TickPcs => use.nest > 1
        /\ c.pc \in WritePcs => c.ret = "scan_clean" /\ c.sector = cache[c.slot].sector
        /\ c.pc \in WritePcs \cup {"scan_clean"} => cache[c.slot].dirty
        /\ c.pc # "scan_clean"
    BY <1>1, <2>1 DEF IdeInv, HandlerInv
  <2>3. QED
    BY <1>1, <2>1, <2>2 DEF IdeInv, HandlerInv, OnDisk
<1>7. QED
  BY <1>2, <1>3, <1>4, <1>5, <1>6

\* A handler that does not start to write back.
LEMMA ScanMoves ==
  ASSUME IdeInv, Running.pc \in HandlerPcs \ ClientPcs, NEW c \in Contexts, SetRunning(c),
         c.pc \in ScanPcs => Running.pc \in ScanPcs, c.pc \notin {"tick_store", "tick_test"},
         counter' = counter
  PROVE  ScanInv'
<1>1. PICK n \in Nat :
        /\ n = Len(stack) /\ n >= 2 /\ Running = stack[n] /\ Running \in Contexts
        /\ stack' \in Seq(Contexts) /\ Len(stack') = n /\ stack'[n] = c
        /\ \A i \in 1 .. n - 1 : stack'[i] = stack[i]
        /\ stack'[1] = stack[1]
  BY HandlerRuns
<1>2. \A i \in 2 .. n : i \in 2 .. Len(stack) /\ (i = n \/ stack'[i] = stack[i])
  BY <1>1
<1>3. \A i \in 2 .. n : \A j \in i + 1 .. n : j \in i + 1 .. Len(stack) /\ i # n /\ (j = n \/ stack'[j] = stack[j])
  BY <1>1
<1>4. Running.pc \notin ScanPcs => c.pc \notin ScanPcs
  OBVIOUS
<1>5. SUFFICES ASSUME NEW i \in 2 .. n, stack'[i].pc \in ScanPcs
               PROVE  /\ counter >= HZ
                      /\ \A j \in i + 1 .. n :
                           /\ stack'[j].pc \notin ScanPcs
                           /\ stack'[j].pc = "tick_store" => stack'[j].eax >= HZ
                           /\ stack'[j].pc = "tick_test" => counter > HZ
  BY <1>1 DEF ScanInv
<1>6. i \in 2 .. Len(stack) /\ stack[i].pc \in ScanPcs
  BY <1>1, <1>2, <1>4, <1>5
<1>7. /\ counter >= HZ
      /\ \A j \in i + 1 .. Len(stack) :
           /\ stack[j].pc \notin ScanPcs
           /\ stack[j].pc = "tick_store" => stack[j].eax >= HZ
           /\ stack[j].pc = "tick_test" => counter > HZ
  BY <1>6 DEF IdeInv, ScanInv
<1>8. ASSUME NEW j \in i + 1 .. n
      PROVE  /\ stack'[j].pc \notin ScanPcs
             /\ stack'[j].pc = "tick_store" => stack'[j].eax >= HZ
             /\ stack'[j].pc = "tick_test" => counter > HZ
  <2>1. j \in i + 1 .. Len(stack) /\ (j = n \/ stack'[j] = stack[j])
    BY <1>3, <1>5, <1>8
  <2>2. CASE j = n
    BY <1>1, <1>4, <1>7, <2>1, <2>2
  <2>3. CASE stack'[j] = stack[j]
    BY <1>7, <2>1, <2>3
  <2>4. QED
    BY <2>1, <2>2, <2>3
<1>9. QED
  BY <1>7, <1>8

LEMMA IdeIntrStep ==
  ASSUME Serialised, IdeInv, IdeIntr
  PROVE  IdeInv'
<1> DEFINE c == [Running EXCEPT !.pc = "iret"]
<1>1. /\ Running.pc = "ide_intr" /\ SetRunning(c)
      /\ UNCHANGED <<cache, counter, deviceVars, use, client, irqVars>>
  BY DEF IdeIntr, Goto, At
<1>2. Running.pc \in HandlerPcs \ ClientPcs
  BY <1>1 DEF ClientPcs, HandlerPcs, FillPcs, ReadPcs, WritePcs, CalmPcs
<1>3. /\ c \in Contexts /\ c.pc = "iret" /\ c.pc \in HandlerPcs /\ c.pc \notin TickPcs \cup WritePcs
  BY <1>1, <1>2, RunningType DEF IdeInv, HandlerPcs, TickPcs, ScanPcs, WritePcs, Contexts
<1> HIDE DEF c
<1>4. stack' \in Seq(Contexts) /\ Len(stack') >= 1
  BY <1>1, <1>3, TopChanged DEF IdeInv, IdeType
<1>5. IdeType'
  BY <1>1, <1>4 DEF IdeInv, IdeType, deviceVars, irqVars
<1>6. ClientInv' /\ HandlerInv' /\ SlotInv' /\ DriverInv' /\ CleanSlotIsOnDisk'
  BY <1>1, <1>2, <1>3, HandlerMoves DEF deviceVars, irqVars
<1>7. ScanInv'
  BY <1>1, <1>2, <1>3, ScanMoves DEF TickPcs
<1>8. QED
  BY <1>5, <1>6, <1>7 DEF IdeInv

LEMMA TickLoadStep ==
  ASSUME Serialised, IdeInv, TickLoad
  PROVE  IdeInv'
<1> DEFINE c == [Running EXCEPT !.pc = "tick_store", !.eax = counter]
<1>1. /\ Running.pc = "tick_load" /\ SetRunning(c)
      /\ UNCHANGED <<cache, counter, deviceVars, use, client, irqVars>>
  BY DEF TickLoad, At, cacheVars
<1>2. Running.pc \in HandlerPcs \ ClientPcs /\ Running.pc \in TickPcs
  BY <1>1 DEF ClientPcs, HandlerPcs, TickPcs, FillPcs, ReadPcs, WritePcs, CalmPcs
<1>3. /\ c \in Contexts /\ c.pc = "tick_store" /\ c.eax = counter
      /\ c.pc \in HandlerPcs /\ c.pc \notin ScanPcs \cup WritePcs
  BY <1>1, <1>2, RunningType DEF IdeInv, IdeType, HandlerPcs, TickPcs, ScanPcs, WritePcs, Contexts
<1> HIDE DEF c
<1>4. PICK n \in Nat :
        /\ n = Len(stack) /\ n >= 2 /\ Running = stack[n] /\ Running \in Contexts
        /\ stack' \in Seq(Contexts) /\ Len(stack') = n /\ stack'[n] = c
        /\ \A i \in 1 .. n - 1 : stack'[i] = stack[i]
        /\ stack'[1] = stack[1]
  BY <1>1, <1>2, <1>3, HandlerRuns
<1>5. IdeType'
  BY <1>1, <1>4 DEF IdeInv, IdeType, deviceVars, irqVars
<1>6. ClientInv' /\ HandlerInv' /\ SlotInv' /\ DriverInv' /\ CleanSlotIsOnDisk'
  BY <1>1, <1>2, <1>3, HandlerMoves DEF deviceVars, irqVars
<1>7. ScanInv'
  <2>1. \A i \in 2 .. n : i \in 2 .. Len(stack) /\ (i = n \/ stack'[i] = stack[i])
    BY <1>4
  <2>2. \A i \in 2 .. n : \A j \in i + 1 .. n : j \in i + 1 .. Len(stack) /\ i # n /\ (j = n \/ stack'[j] = stack[j])
    BY <1>4
  <2>3. QED
    BY <1>1, <1>3, <1>4, <2>1, <2>2 DEF IdeInv, ScanInv
<1>8. QED
  BY <1>5, <1>6, <1>7 DEF IdeInv

LEMMA TickStoreStep ==
  ASSUME Serialised, IdeInv, TickStore
  PROVE  IdeInv'
<1> DEFINE c == [Running EXCEPT !.pc = "tick_test"]
<1>1. /\ Running.pc = "tick_store" /\ SetRunning(c)
      /\ counter' = IF Running.eax > HZ THEN HZ + 1 ELSE Running.eax + 1
      /\ UNCHANGED <<cache, deviceVars, use, client, irqVars>>
  BY DEF TickStore, Goto, At
<1>2. Running.pc \in HandlerPcs \ ClientPcs /\ Running.pc \in TickPcs
  BY <1>1 DEF ClientPcs, HandlerPcs, TickPcs, FillPcs, ReadPcs, WritePcs, CalmPcs
<1>3. /\ c \in Contexts /\ c.pc = "tick_test"
      /\ c.pc \in HandlerPcs /\ c.pc \notin ScanPcs \cup WritePcs
  BY <1>1, <1>2, RunningType DEF IdeInv, HandlerPcs, TickPcs, ScanPcs, WritePcs, Contexts
<1> HIDE DEF c
<1>4. PICK n \in Nat :
        /\ n = Len(stack) /\ n >= 2 /\ Running = stack[n] /\ Running \in Contexts
        /\ stack' \in Seq(Contexts) /\ Len(stack') = n /\ stack'[n] = c
        /\ \A i \in 1 .. n - 1 : stack'[i] = stack[i]
        /\ stack'[1] = stack[1]
  BY <1>1, <1>2, <1>3, HandlerRuns
<1>5. /\ HZ \in Nat /\ counter' \in 0 .. HZ + 1 /\ counter \in 0 .. HZ + 1
      /\ Running.eax >= HZ => counter' > HZ
  <2>1. Running.eax \in Nat /\ Running.eax <= HZ + 1 /\ HZ \in Nat
    BY <1>4, ContextFields, SizeAssumption
  <2>2. QED
    BY <1>1, <2>1 DEF IdeInv, IdeType
<1>6. IdeType'
  BY <1>1, <1>4, <1>5 DEF IdeInv, IdeType, deviceVars, irqVars
<1>7. ClientInv' /\ HandlerInv' /\ SlotInv' /\ DriverInv' /\ CleanSlotIsOnDisk'
  BY <1>1, <1>2, <1>3, HandlerMoves DEF deviceVars, irqVars
<1>8. ScanInv'
  <2>1. \A i \in 2 .. n : i \in 2 .. Len(stack) /\ (i = n \/ stack'[i] = stack[i])
    BY <1>4
  <2>2. \A i \in 2 .. n : \A j \in i + 1 .. n : j \in i + 1 .. Len(stack) /\ i # n /\ (j = n \/ stack'[j] = stack[j])
    BY <1>4
  <2>3. ASSUME NEW i \in 2 .. n, stack'[i].pc \in ScanPcs
        PROVE  counter' > HZ
    <3>1. i # n /\ stack[i].pc \in ScanPcs
      BY <1>3, <1>4, <2>1, <2>3
    <3>2. i \in 2 .. Len(stack) /\ n \in i + 1 .. Len(stack)
      BY <1>4, <3>1
    <3>3. Running.eax >= HZ
      BY <1>1, <1>4, <3>1, <3>2 DEF IdeInv, ScanInv
    <3>4. QED
      BY <1>5, <3>3
  <2>4. QED
    BY <1>3, <1>4, <1>5, <2>1, <2>2, <2>3 DEF IdeInv, ScanInv
<1>9. QED
  BY <1>6, <1>7, <1>8 DEF IdeInv

LEMMA TickTestStep ==
  ASSUME Serialised, IdeInv, TickTest
  PROVE  IdeInv'
<1> DEFINE c == [Running EXCEPT !.pc = IF counter = HZ THEN "scan" ELSE "iret", !.slot = 0]
<1>1. /\ Running.pc = "tick_test" /\ SetRunning(c)
      /\ UNCHANGED <<cache, counter, deviceVars, use, client, irqVars>>
  BY DEF TickTest, At, cacheVars
<1>2. Running.pc \in HandlerPcs \ ClientPcs /\ Running.pc \in TickPcs
  BY <1>1 DEF ClientPcs, HandlerPcs, TickPcs, FillPcs, ReadPcs, WritePcs, CalmPcs
<1>3. /\ c \in Contexts /\ c.pc = IF counter = HZ THEN "scan" ELSE "iret"
      /\ c.pc \in HandlerPcs /\ c.pc \notin WritePcs
  <2>1. 0 \in Slots
    BY SizeAssumption DEF Slots
  <2>2. {"scan", "iret"} \subseteq HandlerPcs \ WritePcs
    BY DEF HandlerPcs, TickPcs, ScanPcs, WritePcs
  <2>3. Running \in Contexts
    BY RunningType DEF IdeInv
  <2>4. c \in Contexts
    BY <2>1, <2>2, <2>3 DEF Contexts
  <2>5. QED
    BY <2>2, <2>3, <2>4 DEF Contexts
<1> HIDE DEF c
<1>4. PICK n \in Nat :
        /\ n = Len(stack) /\ n >= 2 /\ Running = stack[n] /\ Running \in Contexts
        /\ stack' \in Seq(Contexts) /\ Len(stack') = n /\ stack'[n] = c
        /\ \A i \in 1 .. n - 1 : stack'[i] = stack[i]
        /\ stack'[1] = stack[1]
  BY <1>1, <1>2, <1>3, HandlerRuns
<1>5. IdeType'
  BY <1>1, <1>4 DEF IdeInv, IdeType, deviceVars, irqVars
<1>6. ClientInv' /\ HandlerInv' /\ SlotInv' /\ DriverInv' /\ CleanSlotIsOnDisk'
  BY <1>1, <1>2, <1>3, HandlerMoves DEF deviceVars, irqVars
<1>7. ScanInv'
  <2>1. \A i \in 2 .. n : i \in 2 .. Len(stack) /\ (i = n \/ stack'[i] = stack[i])
    BY <1>4
  <2>2. \A i \in 2 .. n : \A j \in i + 1 .. n : j \in i + 1 .. Len(stack) /\ i # n /\ (j = n \/ stack'[j] = stack[j])
    BY <1>4
  <2>3. HZ \in Nat
    BY SizeAssumption
  <2>4. ASSUME NEW i \in 2 .. n, i # n, stack'[i].pc \in ScanPcs
        PROVE  c.pc = "iret"
    <3>1. i \in 2 .. Len(stack) /\ n \in i + 1 .. Len(stack) /\ stack[i].pc \in ScanPcs
      BY <1>4, <2>1, <2>4
    <3>2. counter > HZ /\ counter \in Nat
      BY <1>1, <1>4, <3>1 DEF IdeInv, IdeType, ScanInv
    <3>3. QED
      BY <1>3, <2>3, <3>2
  <2>5. c.pc \in ScanPcs => counter >= HZ
    BY <1>3, <2>3 DEF ScanPcs, WritePcs
  <2>6. "iret" \notin ScanPcs
    BY DEF ScanPcs, WritePcs
  <2>7. QED
    BY <1>1, <1>3, <1>4, <2>1, <2>2, <2>4, <2>5, <2>6 DEF IdeInv, ScanInv
<1>8. QED
  BY <1>5, <1>6, <1>7 DEF IdeInv

LEMMA TickResetStep ==
  ASSUME Serialised, IdeInv, TickReset
  PROVE  IdeInv'
<1> DEFINE c == [Running EXCEPT !.pc = "iret"]
<1>1. /\ Running.pc = "tick_reset" /\ SetRunning(c) /\ counter' = 0
      /\ UNCHANGED <<cache, deviceVars, use, client, irqVars>>
  BY DEF TickReset, Goto, At
<1>2. Running.pc \in HandlerPcs \ ClientPcs /\ Running.pc \in ScanPcs
  BY <1>1 DEF ClientPcs, HandlerPcs, TickPcs, ScanPcs, FillPcs, ReadPcs, WritePcs, CalmPcs
<1>3. /\ c \in Contexts /\ c.pc = "iret" /\ c.pc \in HandlerPcs /\ c.pc \notin TickPcs \cup WritePcs
  BY <1>1, <1>2, RunningType DEF IdeInv, HandlerPcs, TickPcs, ScanPcs, WritePcs, Contexts
<1> HIDE DEF c
<1>4. PICK n \in Nat :
        /\ n = Len(stack) /\ n >= 2 /\ Running = stack[n] /\ Running \in Contexts
        /\ stack' \in Seq(Contexts) /\ Len(stack') = n /\ stack'[n] = c
        /\ \A i \in 1 .. n - 1 : stack'[i] = stack[i]
        /\ stack'[1] = stack[1]
  BY <1>1, <1>2, <1>3, HandlerRuns
<1>5. IdeType'
  <2>1. 0 \in 0 .. HZ + 1
    BY SizeAssumption
  <2>2. QED
    BY <1>1, <1>4, <2>1 DEF IdeInv, IdeType, deviceVars, irqVars
<1>6. ClientInv' /\ HandlerInv' /\ SlotInv' /\ DriverInv' /\ CleanSlotIsOnDisk'
  BY <1>1, <1>2, <1>3, HandlerMoves DEF deviceVars, irqVars
<1>7. ScanInv'
  <2>1. ASSUME NEW i \in 2 .. n
        PROVE  stack'[i].pc \notin ScanPcs
    <3>1. CASE i = n
      BY <1>3, <1>4, <3>1 DEF TickPcs
    <3>2. CASE i # n
      <4>1. i \in 2 .. Len(stack) /\ n \in i + 1 .. Len(stack) /\ stack'[i] = stack[i]
        BY <1>4, <3>2
      <4>2. QED
        BY <1>2, <1>4, <4>1 DEF IdeInv, ScanInv
    <3>3. QED
      BY <3>1, <3>2
  <2>2. QED
    BY <1>4, <2>1 DEF ScanInv
<1>8. QED
  BY <1>5, <1>6, <1>7 DEF IdeInv

LEMMA ScanStep ==
  ASSUME Serialised, IdeInv, Scan
  PROVE  IdeInv'
<1>1. /\ Running.pc = "scan"
      /\ UNCHANGED <<cache, counter, deviceVars, use, client, irqVars>>
  BY DEF Scan, At, cacheVars
<1>2. Running.pc \in HandlerPcs \ ClientPcs /\ Running.pc \in ScanPcs /\ Running.pc \in TickPcs
  BY <1>1 DEF ClientPcs, HandlerPcs, TickPcs, ScanPcs, FillPcs, ReadPcs, WritePcs, CalmPcs
<1>3. Running \in Contexts /\ Running.slot \in Slots /\ cache[Running.slot].sector \in Sectors
  BY RunningType, ContextFields DEF IdeInv, IdeType, Entries
<1>4. PICK c \in Contexts :
        /\ SetRunning(c) /\ c.slot = Running.slot /\ c.pc \in {"wr_wait", "scan_next"}
        /\ c.pc = "wr_wait" => /\ c.ret = "scan_clean" /\ c.sector = cache[Running.slot].sector
                               /\ cache[Running.slot].dirty
  <2>1. {"wr_wait", "scan_next"} \subseteq HandlerPcs
    BY DEF HandlerPcs, TickPcs, ScanPcs, WritePcs
  <2>2. CASE cache[Running.slot].dirty
    <3> DEFINE d == [Running EXCEPT !.pc = "wr_wait", !.sector = cache[Running.slot].sector,
                                    !.ret = "scan_clean"]
    <3>1. /\ d \in Contexts /\ d.pc = "wr_wait" /\ d.slot = Running.slot /\ d.ret = "scan_clean"
          /\ d.sector = cache[Running.slot].sector
      BY <1>3, <2>1 DEF Contexts
    <3>2. SetRunning(d)
      BY <2>2 DEF Scan
    <3> HIDE DEF d
    <3>3. QED
      BY <2>2, <3>1, <3>2
  <2>3. CASE ~cache[Running.slot].dirty
    <3> DEFINE d == [Running EXCEPT !.pc = "scan_next"]
    <3>1. d \in Contexts /\ d.pc = "scan_next" /\ d.slot = Running.slot
      BY <1>3, <2>1 DEF Contexts
    <3>2. SetRunning(d)
      BY <2>3 DEF Scan, Goto
    <3> HIDE DEF d
    <3>3. QED
      BY <3>1, <3>2
  <2>4. QED
    BY <2>2, <2>3
<1>5. /\ c.pc \in HandlerPcs \ (WritePcs \ {"wr_wait"}) /\ c.pc # "scan_clean"
      /\ c.pc \notin {"tick_store", "tick_test"}
  BY <1>4 DEF HandlerPcs, TickPcs, ScanPcs, WritePcs
<1>6. stack' \in Seq(Contexts) /\ Len(stack') >= 1
  BY <1>4, TopChanged DEF IdeInv, IdeType
<1>7. IdeType'
  BY <1>1, <1>6 DEF IdeInv, IdeType, deviceVars, irqVars
<1>8. ClientInv' /\ HandlerInv' /\ SlotInv' /\ DriverInv' /\ CleanSlotIsOnDisk'
  BY <1>1, <1>2, <1>4, <1>5, HandlerMoves DEF deviceVars, irqVars
<1>9. ScanInv'
  BY <1>1, <1>2, <1>4, <1>5, ScanMoves
<1>10. QED
  BY <1>7, <1>8, <1>9 DEF IdeInv

LEMMA ScanNextStep ==
  ASSUME Serialised, IdeInv, ScanNext
  PROVE  IdeInv'
<1>1. /\ Running.pc = "scan_next"
      /\ UNCHANGED <<cache, counter, deviceVars, use, client, irqVars>>
  BY DEF ScanNext, At, cacheVars
<1>2. Running.pc \in HandlerPcs \ ClientPcs /\ Running.pc \in ScanPcs /\ Running.pc \in TickPcs
  BY <1>1 DEF ClientPcs, HandlerPcs, TickPcs, ScanPcs, FillPcs, ReadPcs, WritePcs, CalmPcs
<1>3. Running \in Contexts /\ Running.slot \in Slots
  BY RunningType, ContextFields DEF IdeInv
<1>4. PICK c \in Contexts : SetRunning(c) /\ c.pc \in {"scan", "tick_reset"}
  <2>1. {"scan", "tick_reset"} \subseteq HandlerPcs
    BY DEF HandlerPcs, TickPcs, ScanPcs
  <2>2. CASE Running.slot < NR_SEC_CACHE - 1
    <3> DEFINE d == [Running EXCEPT !.pc = "scan", !.slot = @ + 1]
    <3>1. Running.slot + 1 \in Slots
      BY <1>3, <2>2, SizeAssumption DEF Slots
    <3>2. d \in Contexts /\ d.pc = "scan"
      BY <1>3, <2>1, <3>1 DEF Contexts
    <3>3. SetRunning(d)
      BY <2>2 DEF ScanNext
    <3> HIDE DEF d
    <3>4. QED
      BY <3>2, <3>3
  <2>3. CASE ~(Running.slot < NR_SEC_CACHE - 1)
    <3> DEFINE d == [Running EXCEPT !.pc = "tick_reset"]
    <3>1. d \in Contexts /\ d.pc = "tick_reset"
      BY <1>3, <2>1 DEF Contexts
    <3>2. SetRunning(d)
      BY <2>3 DEF ScanNext, Goto
    <3> HIDE DEF d
    <3>3. QED
      BY <3>1, <3>2
  <2>4. QED
    BY <2>2, <2>3
<1>5. /\ c.pc \in HandlerPcs \ (WritePcs \ {"wr_wait"}) /\ c.pc # "scan_clean" /\ c.pc # "wr_wait"
      /\ c.pc \notin {"tick_store", "tick_test"}
  BY <1>4 DEF HandlerPcs, TickPcs, ScanPcs, WritePcs
<1>6. stack' \in Seq(Contexts) /\ Len(stack') >= 1
  BY <1>4, TopChanged DEF IdeInv, IdeType
<1>7. IdeType'
  BY <1>1, <1>6 DEF IdeInv, IdeType, deviceVars, irqVars
<1>8. ClientInv' /\ HandlerInv' /\ SlotInv' /\ DriverInv' /\ CleanSlotIsOnDisk'
  BY <1>1, <1>2, <1>4, <1>5, HandlerMoves DEF deviceVars, irqVars
<1>9. ScanInv'
  BY <1>1, <1>2, <1>4, <1>5, ScanMoves
<1>10. QED
  BY <1>7, <1>8, <1>9 DEF IdeInv

LEMMA ScanCleanStep ==
  ASSUME Serialised, IdeInv, ScanClean
  PROVE  IdeInv'
<1> DEFINE c == [Running EXCEPT !.pc = "scan_next"]
<1>0. PICK k \in Slots : k = Running.slot
  BY RunningType, ContextFields DEF IdeInv
<1>1. /\ Running.pc = "scan_clean" /\ SetRunning(c)
      /\ cache' = [cache EXCEPT ![k].dirty = FALSE]
      /\ UNCHANGED <<counter, deviceVars, use, client, irqVars>>
  BY <1>0 DEF ScanClean, Goto, At
<1>2. Running.pc \in HandlerPcs \ ClientPcs /\ Running.pc \in ScanPcs /\ Running.pc \in TickPcs
  BY <1>1 DEF ClientPcs, HandlerPcs, TickPcs, ScanPcs, FillPcs, ReadPcs, WritePcs, CalmPcs
<1>3. /\ c \in Contexts /\ c.pc = "scan_next"
      /\ c.pc \in HandlerPcs /\ c.pc \notin WritePcs
  BY <1>1, <1>2, RunningType DEF IdeInv, HandlerPcs, TickPcs, ScanPcs, WritePcs, Contexts
<1> HIDE DEF c
<1>4. PICK n \in Nat :
        /\ n = Len(stack) /\ n >= 2 /\ Running = stack[n] /\ Running \in Contexts
        /\ stack' \in Seq(Contexts) /\ Len(stack') = n /\ stack'[n] = c
        /\ \A i \in 1 .. n - 1 : stack'[i] = stack[i]
        /\ stack'[1] = stack[1]
  BY <1>1, <1>2, <1>3, HandlerRuns
<1>5. /\ cache[k].content = OnDisk(cache[k].sector) /\ cache[k].dirty /\ use.nest > 1
  <2>1. n \in 2 .. Len(stack)
    BY <1>4
  <2>2. QED
    BY <1>0, <1>1, <1>2, <1>4, <2>1 DEF IdeInv, HandlerInv
<1>6. /\ cache' \in [Slots -> Entries]
      /\ \A i \in Slots : /\ cache'[i].used = cache[i].used /\ cache'[i].content = cache[i].content
                          /\ cache'[i].sector = cache[i].sector
                          /\ i # k => cache'[i] = cache[i]
      /\ ~cache'[k].dirty
  BY <1>1 DEF IdeInv, IdeType, Entries
<1>7. \A i \in 2 .. n : i \in 2 .. Len(stack) /\ (i = n \/ (stack'[i] = stack[i] /\ stack[i].pc \notin ScanPcs))
  <2>1. ASSUME NEW i \in 2 .. n, i # n
        PROVE  i \in 2 .. Len(stack) /\ stack'[i] = stack[i] /\ stack[i].pc \notin ScanPcs
    <3>1. i \in 2 .. Len(stack) /\ n \in i + 1 .. Len(stack) /\ stack'[i] = stack[i]
      BY <1>4, <2>1
    <3>2. QED
      BY <1>2, <1>4, <3>1 DEF IdeInv, ScanInv
  <2>2. QED
    BY <1>4, <2>1
<1>8. IdeType'
  BY <1>1, <1>4, <1>6 DEF IdeInv, IdeType, deviceVars, irqVars
<1>9. \A i \in 1 .. n : stack'[i] \in Contexts
  BY <1>4
<1>10. \A i \in 1 .. n : stack'[i].slot \in Slots
  BY <1>9, ContextFields
<1>11. ClientInv'
  <2>1. stack[1].pc \notin WritePcs /\ stack[1].slot \in Slots /\ Slot \in Slots /\ Slot' = Slot
    <3>1. stack[1] \in Contexts /\ ~(use.nest = 1)
      BY <1>4, <1>5, <1>9, UseAssumption DEF IdeInv, IdeType
    <3>2. QED
      BY <1>1, <3>1, ContextFields, RequestType DEF IdeInv, ClientInv, Slot
  <2>2. QED
    BY <1>1, <1>4, <1>6, <2>1 DEF IdeInv, ClientInv, OnDisk, Holds, deviceVars
<1>12. HandlerInv'
  <2>1. WritePcs \cup {"scan_clean"} \subseteq ScanPcs
    BY DEF ScanPcs
  <2>2. TIMER_VECTOR \in req' => use'.nest > 1
    BY <1>1 DEF IdeInv, HandlerInv, irqVars
  <2>3. ASSUME NEW i \in 2 .. n
        PROVE  /\ stack'[i].pc \in HandlerPcs
               /\ stack'[i].pc \in TickPcs => use'.nest > 1
               /\ stack'[i].pc \notin WritePcs \cup {"scan_clean"}
    <3>1. CASE i = n
      BY <1>1, <1>3, <1>4, <1>5, <3>1
    <3>2. CASE i # n
      BY <1>1, <1>7, <2>1, <3>2 DEF IdeInv, HandlerInv
    <3>3. QED
      BY <3>1, <3>2
  <2>4. QED
    BY <1>4, <2>2, <2>3 DEF HandlerInv
<1>13. SlotInv'
  BY <1>1, <1>4, <1>6 DEF IdeInv, SlotInv
<1>14. DriverInv'
  <2>1. \A i \in 1 .. n : i \in 1 .. Len(stack) /\ (i = n \/ stack'[i] = stack[i])
    BY <1>4
  <2>2. QED
    BY <1>1, <1>3, <1>4, <1>6, <1>10, <2>1 DEF IdeInv, DriverInv, deviceVars
<1>15. ScanInv'
  BY <1>1, <1>2, <1>3, ScanMoves
<1>16. CleanSlotIsOnDisk'
  <2>1. ASSUME NEW i \in Slots
        PROVE  SlotClean(i)'
    <3>1. CASE i = k
      BY <1>1, <1>5, <1>6, <3>1 DEF SlotClean, OnDisk, deviceVars
    <3>2. CASE i # k
      BY <1>1, <1>4, <1>6, <3>2 DEF IdeInv, CleanSlotIsOnDisk, SlotClean, Refilling, OnDisk, Slot, deviceVars
    <3>3. QED
      BY <3>1, <3>2
  <2>2. QED
    BY <2>1 DEF CleanSlotIsOnDisk, SlotClean
<1>17. QED
  BY <1>8, <1>11, <1>12, <1>13, <1>14, <1>15, <1>16 DEF IdeInv

-----------------------------------------------------------------------------
(* Interrupts come and go.                                                 *)

LEMMA IretStep ==
  ASSUME Serialised, IdeInv, Iret
  PROVE  IdeInv'
<1>1. /\ Running.pc = "iret" /\ stack' = Front(stack)
      /\ UNCHANGED <<cache, counter, deviceVars, use, client, irqVars>>
  BY DEF Iret, At, cacheVars
<1>2. PICK n \in Nat : n = Len(stack)
  BY RunningType DEF IdeInv
<1>3. n >= 2
  BY <1>1, <1>2 DEF IdeInv, IdeType, ClientInv, Running, ClientPcs, CalmPcs, FillPcs, ReadPcs, WritePcs
<1>4. stack \in Seq(Contexts) /\ stack' \in Seq(Contexts) /\ Len(stack') = n - 1
      /\ \A i \in 1 .. n - 1 : stack'[i] = stack[i]
  BY <1>1, <1>2, <1>3, Popped DEF IdeInv, IdeType
<1>5. /\ \A i \in 1 .. n - 1 : i \in 1 .. Len(stack)
      /\ \A i \in 2 .. n - 1 : i \in 2 .. Len(stack) /\ i \in 1 .. n - 1
                               /\ \A j \in i + 1 .. n - 1 : j \in i + 1 .. Len(stack) /\ j \in 1 .. n - 1
      /\ stack'[1] = stack[1]
  BY <1>2, <1>3, <1>4
<1>6. IdeType'
  BY <1>1, <1>3, <1>4 DEF IdeInv, IdeType, deviceVars, irqVars
<1>7. ClientInv'
  BY <1>1, <1>5 DEF IdeInv, ClientInv, OnDisk, Slot, Holds, deviceVars
<1>8. HandlerInv'
  <2>1. TIMER_VECTOR \in req' => use'.nest > 1
    BY <1>1 DEF IdeInv, HandlerInv, irqVars
  <2>2. \A t : OnDisk(t)' = OnDisk(t)
    BY <1>1 DEF OnDisk, deviceVars
  <2>3. \A i \in 2 .. Len(stack') : i \in 2 .. Len(stack) /\ stack'[i] = stack[i]
    BY <1>4, <1>5
  <2>4. QED
    BY <1>1, <2>1, <2>2, <2>3, SMTT(40) DEF IdeInv, HandlerInv
<1>9. SlotInv'
  BY <1>1, <1>5 DEF IdeInv, SlotInv
<1>10. DriverInv'
  BY <1>1, <1>4, <1>5 DEF IdeInv, DriverInv, deviceVars
<1>11. ScanInv'
  <2>1. SUFFICES ASSUME NEW i \in 2 .. n - 1, stack'[i].pc \in ScanPcs
                 PROVE  /\ counter >= HZ
                        /\ \A j \in i + 1 .. n - 1 :
                             /\ stack'[j].pc \notin ScanPcs
                             /\ stack'[j].pc = "tick_store" => stack'[j].eax >= HZ
                             /\ stack'[j].pc = "tick_test" => counter > HZ
    BY <1>1, <1>4 DEF ScanInv
  <2>2. i \in 2 .. Len(stack) /\ stack[i].pc \in ScanPcs
    BY <1>4, <1>5, <2>1
  <2>3. /\ counter >= HZ
        /\ \A j \in i + 1 .. Len(stack) :
             /\ stack[j].pc \notin ScanPcs
             /\ stack[j].pc = "tick_store" => stack[j].eax >= HZ
             /\ stack[j].pc = "tick_test" => counter > HZ
    BY <2>2 DEF IdeInv, ScanInv
  <2>4. \A j \in i + 1 .. n - 1 : j \in i + 1 .. Len(stack) /\ stack'[j] = stack[j]
    BY <1>4, <1>5, <2>1
  <2>5. QED
    BY <2>3, <2>4
<1>12. CleanSlotIsOnDisk'
  BY <1>1, <1>5 DEF IdeInv, CleanSlotIsOnDisk, Refilling, OnDisk, Slot, deviceVars
<1>13. QED
  BY <1>6, <1>7, <1>8, <1>9, <1>10, <1>11, <1>12 DEF IdeInv

LEMMA TakeInterruptStep ==
  ASSUME Serialised, IdeInv, TakeInterrupt
  PROVE  IdeInv'
<1>1. PICK v \in req : /\ Mailbox!Deliver(v)
                       /\ stack' = Append(stack, Context(IF v = IDE_VECTOR THEN "ide_intr" ELSE "tick_load"))
  BY DEF TakeInterrupt
<1>2. UNCHANGED <<cache, counter, deviceVars, use, client>> /\ req' = {}
  BY <1>1 DEF TakeInterrupt, cacheVars, Mailbox!Deliver, Mailbox!Discharge
<1> DEFINE c == Context(IF v = IDE_VECTOR THEN "ide_intr" ELSE "tick_load")
<1>3. c \in Contexts /\ c.pc = (IF v = IDE_VECTOR THEN "ide_intr" ELSE "tick_load") /\ c.pc \in HandlerPcs
  BY SizeAssumption DEF Context, Contexts, HandlerPcs, TickPcs, Slots, Sectors
<1>4. PICK n \in Nat : n = Len(stack)
  BY RunningType DEF IdeInv
<1>5. stack' = Append(stack, c)
  BY <1>1
<1> HIDE DEF c
<1>6. /\ stack \in Seq(Contexts) /\ n >= 1 /\ stack' \in Seq(Contexts) /\ Len(stack') = n + 1 /\ stack'[n + 1] = c
      /\ \A i \in 1 .. n : stack'[i] = stack[i]
  BY <1>3, <1>4, <1>5, Pushed DEF IdeInv, IdeType
<1>7. /\ \A i \in 1 .. n + 1 : i = n + 1 \/ (i \in 1 .. Len(stack) /\ stack'[i] = stack[i])
      /\ \A i \in 2 .. n + 1 : \/ i = n + 1 /\ \A j \in i + 1 .. n + 1 : FALSE
                               \/ /\ i \in 2 .. Len(stack) /\ stack'[i] = stack[i]
                                  /\ \A j \in i + 1 .. n + 1 :
                                       j = n + 1 \/ (j \in i + 1 .. Len(stack) /\ stack'[j] = stack[j])
      /\ stack'[1] = stack[1]
  BY <1>4, <1>6
<1>8. IdeType'
  BY <1>2, <1>6 DEF IdeInv, IdeType, deviceVars
<1>9. ClientInv'
  BY <1>2, <1>7 DEF IdeInv, ClientInv, OnDisk, Slot, Holds, deviceVars
<1>10. HandlerInv'
  <2>1. c.pc \in TickPcs => use.nest > 1
    <3>1. c.pc \in TickPcs => v = TIMER_VECTOR
      BY <1>3 DEF IdeInv, IdeType, TickPcs, ScanPcs, WritePcs
    <3>2. QED
      BY <3>1 DEF IdeInv, HandlerInv
  <2>2. c.pc \notin WritePcs \cup {"scan_clean"}
    BY <1>3 DEF WritePcs
  <2>3. QED
    BY <1>2, <1>3, <1>6, <1>7, <2>1, <2>2 DEF IdeInv, HandlerInv, OnDisk, deviceVars
<1>11. SlotInv'
  BY <1>2, <1>7 DEF IdeInv, SlotInv
<1>12. DriverInv'
  BY <1>2, <1>3, <1>6, <1>7 DEF IdeInv, DriverInv, deviceVars
<1>13. ScanInv'
  <2>1. c.pc \notin ScanPcs \cup {"tick_store", "tick_test"}
    BY <1>3 DEF ScanPcs, WritePcs
  <2>2. ASSUME NEW i \in 2 .. n + 1, stack'[i].pc \in ScanPcs
        PROVE  /\ counter >= HZ
               /\ \A j \in i + 1 .. n + 1 :
                    /\ stack'[j].pc \notin ScanPcs
                    /\ stack'[j].pc = "tick_store" => stack'[j].eax >= HZ
                    /\ stack'[j].pc = "tick_test" => counter > HZ
    <3>1. i # n + 1
      BY <1>6, <2>1, <2>2
    <3>2. /\ i \in 2 .. Len(stack) /\ stack[i].pc \in ScanPcs
          /\ \A j \in i + 1 .. n + 1 : j = n + 1 \/ (j \in i + 1 .. Len(stack) /\ stack'[j] = stack[j])
      BY <1>7, <2>2, <3>1
    <3>3. QED
      BY <1>6, <2>1, <3>2 DEF IdeInv, ScanInv
  <2>3. QED
    BY <1>2, <1>6, <2>2 DEF ScanInv
<1>14. CleanSlotIsOnDisk'
  BY <1>2, <1>7 DEF IdeInv, CleanSlotIsOnDisk, Refilling, OnDisk, Slot, deviceVars
<1>15. QED
  BY <1>8, <1>9, <1>10, <1>11, <1>12, <1>13, <1>14 DEF IdeInv

LEMMA TickStep ==
  ASSUME Serialised, IdeInv, Tick
  PROVE  IdeInv'
<1>1. /\ Len(stack) < use.nest /\ req' = req \cup {TIMER_VECTOR}
      /\ UNCHANGED <<cache, counter, deviceVars, stack, use, client>>
  BY DEF Tick, Mailbox!Request, cacheVars
<1>2. use.nest > 1
  <2>1. Len(stack) \in Nat /\ Len(stack) >= 1 /\ use.nest \in Nat
    BY UseAssumption DEF IdeInv, IdeType
  <2>2. QED
    BY <1>1, <2>1
<1>3. IdeType'
  BY <1>1 DEF IdeInv, IdeType, deviceVars
<1>4. HandlerInv'
  BY <1>1, <1>2 DEF IdeInv, HandlerInv, OnDisk, deviceVars
<1>5. /\ ClientInv'
      /\ SlotInv' /\ CleanSlotIsOnDisk'
      /\ DriverInv' /\ ScanInv'
  <2>1. ClientInv'
    BY <1>1 DEF IdeInv, ClientInv, OnDisk, Slot, Holds, deviceVars
  <2>2. SlotInv'
    BY <1>1 DEF IdeInv, SlotInv
  <2>3. CleanSlotIsOnDisk'
    BY <1>1 DEF IdeInv, CleanSlotIsOnDisk, Refilling, OnDisk, Slot, deviceVars
  <2>4. DriverInv' /\ ScanInv'
    BY <1>1 DEF IdeInv, DriverInv, ScanInv, deviceVars
  <2>5. QED
    BY <2>1, <2>2, <2>3, <2>4
<1>6. QED
  BY <1>3, <1>4, <1>5 DEF IdeInv

LEMMA Stutter ==
  ASSUME IdeInv, UNCHANGED vars
  PROVE  IdeInv'
<1>1. IdeType' /\ ClientInv'
  BY DEF vars, IdeInv, IdeType, ClientInv, OnDisk, Slot, Holds
<1>2. HandlerInv'
  <2>1. HandlerInv /\ UNCHANGED <<stack, cache, disk, use, req>>
    BY DEF IdeInv, vars
  <2>2. TIMER_VECTOR \in req' => use'.nest > 1
    BY <2>1 DEF HandlerInv
  <2>3. \A s : OnDisk(s)' = OnDisk(s)
    BY <2>1 DEF OnDisk
  <2>4. QED
    BY <2>1, <2>2, <2>3, SMTT(40) DEF HandlerInv
<1>3. SlotInv' /\ DriverInv' /\ ScanInv' /\ CleanSlotIsOnDisk'
  BY DEF vars, IdeInv, SlotInv, DriverInv, ScanInv, CleanSlotIsOnDisk, Refilling, OnDisk, Slot
<1>4. QED
  BY <1>1, <1>2, <1>3 DEF IdeInv

LEMMA IdeInitInv == Init => IdeInv
<1> SUFFICES ASSUME Init
             PROVE  IdeInv
  OBVIOUS
<1>1. /\ stack = <<Context("idle")>> /\ Len(stack) = 1 /\ stack[1] = Context("idle")
      /\ Context("idle") \in Contexts /\ stack \in Seq(Contexts) /\ stack[1].pc = "idle"
  <2>1. Context("idle") \in Contexts /\ Context("idle").pc = "idle"
    BY SizeAssumption DEF Context, Contexts, ClientPcs, CalmPcs, Slots, Sectors
  <2>2. stack = <<Context("idle")>>
    BY DEF Init
  <2>3. QED
    BY <2>1, <2>2
<1>2. ImageWord(0) \in Values /\ \A p \in Nat : ImageWord(p) \in Values
  BY DEF Values
<1>3. IdeType
  <2>1. cache \in [Slots -> Entries]
    BY <1>2, SizeAssumption DEF Init, Entries, Sectors
  <2>2. disk \in [0 .. NSectors * Words - 1 -> Values]
    BY <1>2 DEF Init
  <2>3. counter = 0 /\ sec_regs = 0 /\ byte_cnt = 0 /\ fpos = 0
    BY DEF Init
  <2>4. ide_write \in BOOLEAN /\ use \in Uses /\ client = NoRequest /\ req = {}
    BY DEF Init, Mailbox!Init
  <2>5. 0 \in 0 .. HZ + 1 /\ 0 \in Sectors /\ 0 \in Nat
    BY SizeAssumption DEF Sectors
  <2>6. QED
    BY <1>1, <2>1, <2>2, <2>3, <2>4, <2>5 DEF IdeType
<1>4. ClientInv
  BY <1>1 DEF Init, ClientInv, ClientPcs, FillPcs, ReadPcs, WritePcs, CalmPcs
<1>5. HandlerInv /\ ScanInv
  BY <1>1 DEF Init, HandlerInv, ScanInv, Mailbox!Init
<1>6. SlotInv /\ CleanSlotIsOnDisk
  BY DEF Init, SlotInv, CleanSlotIsOnDisk
<1>7. DriverInv
  BY <1>1 DEF DriverInv
<1>8. QED
  BY <1>3, <1>4, <1>5, <1>6, <1>7 DEF IdeInv

LEMMA IdeStepInv ==
  ASSUME Serialised, IdeInv, [Next]_vars
  PROVE  IdeInv'
<1>1. CASE Request
  BY <1>1, RequestStep
<1>2. CASE DriverStep
  BY <1>2, FetchStep, FetchReadStep, FetchSetStep, AccessReadStep, AccessWriteStep, MarkDirtyStep,
     ClearIdeIntrStep, WaitDiskStep, PrepareStep, IssueReadStep, WaitIdeIntrStep,
     ClearIdeIntrAgainStep, ReadDataStep, IssueWriteStep, WriteDataStep DEF DriverStep
<1>3. CASE HandlerStep
  BY <1>3, IdeIntrStep, IretStep, TickLoadStep, TickStoreStep, TickTestStep, ScanStep, ScanCleanStep,
     ScanNextStep, TickResetStep DEF HandlerStep
<1>4. CASE TakeInterrupt
  BY <1>4, TakeInterruptStep
<1>5. CASE Tick
  BY <1>5, TickStep
<1>6. CASE UNCHANGED vars
  BY <1>6, Stutter
<1>7. QED
  BY <1>1, <1>2, <1>3, <1>4, <1>5, <1>6 DEF Next

\* The invariant every theorem below rests on.
THEOREM IdeInvariant == ASSUME Serialised PROVE Spec => []IdeInv
<1>1. IdeInv /\ [Next]_vars => IdeInv'
  BY IdeStepInv
<1>2. QED
  BY <1>1, IdeInitInv, PTL DEF Spec

\* The assertions of handler_ide never fail.
THEOREM DeviceAssertsHold == ASSUME Serialised PROVE Spec => []DeviceAsserts
<1>1. IdeInv => DeviceAsserts
  <2> SUFFICES ASSUME IdeInv
               PROVE  DeviceAsserts
    OBVIOUS
  <2>1. PICK n \in Nat : n = Len(stack) /\ n >= 1 /\ Running = stack[n] /\ Running \in Contexts
    BY RunningType DEF IdeInv, IdeType, Running
  <2>2. Running.word \in Nat /\ Words \in Nat
    BY <2>1, ContextFields, SizeAssumption
  <2>3. QED
    BY <2>1, <2>2 DEF IdeInv, DriverInv, DeviceAsserts
<1>2. QED
  BY <1>1, IdeInvariant, PTL

\* A clean slot can be dropped: its words are on the disk.
THEOREM CleanSlots == ASSUME Serialised PROVE Spec => []CleanSlotIsOnDisk
<1>1. IdeInv => CleanSlotIsOnDisk
  BY DEF IdeInv
<1>2. QED
  BY <1>1, IdeInvariant, PTL

-----------------------------------------------------------------------------
(* The block store.                                                        *)

\* A step of a handler, an interrupt or a tick.
LEMMA KeptByHandler ==
  ASSUME UNCHANGED <<client, disk>>, stack'[1] = stack[1],
         \A i \in Slots : /\ cache'[i].used <=> cache[i].used
                          /\ cache'[i].sector = cache[i].sector /\ cache'[i].content = cache[i].content
  PROVE  StoreKept
BY KeptBySlot DEF Refilling

LEMMA HandlersKeep ==
  ASSUME IdeInv, HandlerStep \/ TakeInterrupt \/ Tick
  PROVE  StoreKept /\ buf' = buf
<1>1. UNCHANGED <<client, disk, buf>>
  BY DEF HandlerStep, IdeIntr, Iret, TickLoad, TickStore, TickTest, Scan, ScanClean, ScanNext,
         TickReset, TakeInterrupt, Tick, deviceVars
<1>2. cache' = cache \/ ScanClean
  BY DEF HandlerStep, IdeIntr, Iret, TickLoad, TickStore, TickTest, Scan, ScanNext,
         TickReset, TakeInterrupt, Tick, cacheVars
<1>3. ASSUME NEW i \in Slots
      PROVE  /\ cache'[i].used <=> cache[i].used
             /\ cache'[i].sector = cache[i].sector /\ cache'[i].content = cache[i].content
  <2>1. CASE ScanClean
    <3>1. Running.slot \in Slots /\ cache' = [cache EXCEPT ![Running.slot].dirty = FALSE]
      BY <2>1, RunningType, ContextFields DEF ScanClean, IdeInv
    <3>2. QED
      BY <3>1 DEF IdeInv, IdeType, Entries
  <2>2. QED
    BY <1>2, <2>1
<1>4. PICK m \in Nat : m = Len(stack) /\ m >= 1 /\ Running = stack[m] /\ stack \in Seq(Contexts)
  BY RunningType DEF IdeInv, IdeType, Running
<1>5. stack'[1] = stack[1]
  <2>1. CASE TakeInterrupt \/ Tick
    <3>1. stack' = stack \/ \E c : stack' = Append(stack, c)
      BY <2>1 DEF TakeInterrupt, Tick
    <3>2. QED
      BY <1>4, <3>1
  <2>2. CASE HandlerStep
    <3>1. Running.pc \in HandlerPcs \ ClientPcs
      BY <2>2 DEF HandlerStep, IdeIntr, Iret, TickLoad, TickStore, TickTest, Scan, ScanClean, ScanNext,
                  TickReset, At, ClientPcs, HandlerPcs, TickPcs, ScanPcs, FillPcs, ReadPcs, WritePcs, CalmPcs
    <3>2. m # 1
      BY <1>4, <3>1 DEF IdeInv, ClientInv
    <3>3. stack' = Front(stack) \/ \E c : stack' = [stack EXCEPT ![Len(stack)] = c]
      BY <2>2 DEF HandlerStep, IdeIntr, Iret, TickLoad, TickStore, TickTest, Scan, ScanClean, ScanNext,
                  TickReset, Goto, SetRunning
    <3>4. CASE stack' = Front(stack)
      BY <1>4, <3>2, <3>4, Popped
    <3>5. CASE \E c : stack' = [stack EXCEPT ![Len(stack)] = c]
      BY <1>4, <3>2, <3>5
    <3>6. QED
      BY <3>3, <3>4, <3>5
  <2>3. QED
    BY <2>1, <2>2
<1>6. QED
  BY <1>1, <1>3, <1>5, KeptByHandler

\* The steps of the driver that touch neither the cache nor the disk.
LEMMA DriverKeeps ==
  ASSUME IdeInv,
         FetchRead \/ ClearIdeIntr \/ WaitDisk \/ Prepare \/ IssueRead \/ WaitIdeIntr
         \/ ClearIdeIntrAgain \/ IssueWrite
  PROVE  StoreKept
<1>1. UNCHANGED <<cache, client, disk>>
  BY DEF FetchRead, ClearIdeIntr, WaitDisk, Prepare, IssueRead, WaitIdeIntr, ClearIdeIntrAgain,
         IssueWrite, OutCommand, cacheVars, deviceVars
<1>2. Running \in Contexts
  BY RunningType DEF IdeInv
<1> DEFINE read == {"fetch_read"} \cup ReadPcs
<1>3. \E c : /\ SetRunning(c) /\ c.slot = Running.slot
             /\ \/ Running.pc \in read /\ c.pc \in read
                \/ Running.pc \in WritePcs /\ c.pc \in WritePcs
  <2> DEFINE plain(p) == [Running EXCEPT !.pc = p]
             reset(p) == [Running EXCEPT !.pc = p, !.word = 0]
             fetch    == [Running EXCEPT !.pc = "rd_clear", !.sector = client.sector]
  <2>1. /\ \A p : plain(p).pc = p /\ plain(p).slot = Running.slot
        /\ \A p : reset(p).pc = p /\ reset(p).slot = Running.slot
        /\ fetch.pc = "rd_clear" /\ fetch.slot = Running.slot
    BY <1>2 DEF Contexts
  <2>2. \/ Running.pc = "fetch_read" /\ SetRunning(fetch)
        \/ Running.pc = "rd_clear" /\ SetRunning(plain("rd_wait"))
        \/ Running.pc = "rd_wait" /\ SetRunning(plain("rd_regs"))
        \/ Running.pc = "wr_wait" /\ SetRunning(plain("wr_regs"))
        \/ Running.pc = "rd_regs" /\ SetRunning(plain("rd_issue"))
        \/ Running.pc = "wr_regs" /\ SetRunning(plain("wr_issue"))
        \/ Running.pc = "rd_issue" /\ SetRunning(plain("rd_sleep"))
        \/ Running.pc = "rd_sleep" /\ SetRunning(plain("rd_clear2"))
        \/ Running.pc = "rd_clear2" /\ SetRunning(reset("rd_data"))
        \/ Running.pc = "wr_issue" /\ SetRunning(reset("wr_data"))
    BY ZenonT(60) DEF FetchRead, ClearIdeIntr, WaitDisk, Prepare, IssueRead, WaitIdeIntr, ClearIdeIntrAgain,
           IssueWrite, At, Goto
  <2> HIDE DEF plain, reset, fetch
  <2>3. QED
    BY <2>1, <2>2 DEF ReadPcs, WritePcs
<1>4. PICK m \in Nat : m = Len(stack) /\ m >= 1 /\ Running = stack[m] /\ stack \in Seq(Contexts)
  BY RunningType DEF IdeInv, IdeType, Running
<1>5. PICK c : /\ stack' = [stack EXCEPT ![m] = c] /\ c.slot = Running.slot
               /\ \/ Running.pc \in read /\ c.pc \in read
                  \/ Running.pc \in WritePcs /\ c.pc \in WritePcs
  BY <1>3, <1>4 DEF SetRunning
<1>6. /\ stack'[1].slot = stack[1].slot
      /\ \/ stack'[1].pc = stack[1].pc
         \/ stack[1].pc \in read /\ stack'[1].pc \in read
         \/ stack[1].pc \in WritePcs /\ stack'[1].pc \in WritePcs
  <2>1. CASE m = 1
    BY <1>4, <1>5, <2>1
  <2>2. CASE m # 1
    BY <1>4, <1>5, <2>2
  <2>3. QED
    BY <2>1, <2>2
<1>7. stack'[1].pc = "mark_dirty" <=> stack[1].pc = "mark_dirty"
  BY <1>6 DEF ReadPcs, WritePcs
<1>8. \A i : Refilling(i)' <=> Refilling(i)
  BY <1>6 DEF Refilling, ReadPcs, WritePcs
<1>9. QED
  BY <1>1, <1>7, <1>8, KeptBySlot

\* The client's own steps are those of the block store.
LEMMA RequestIsCall ==
  ASSUME IdeInv, Request
  PROVE  Store!Next
<1>1. /\ stack[1].pc = "idle" /\ Len(stack) = 1 /\ Running = stack[1] /\ Running \in Contexts
      /\ UNCHANGED <<cache, disk, buf>> /\ client' \in RequestsOf(use)
      /\ SetRunning([Running EXCEPT !.pc = "fetch"])
  <2>1. Running.pc = "idle" /\ "idle" \in ClientPcs \ HandlerPcs
    BY DEF Request, At, ClientPcs, HandlerPcs, CalmPcs, TickPcs, ScanPcs, WritePcs
  <2>2. QED
    BY <2>1, OnlyClient, RunningType DEF Request, Goto, cacheVars, deviceVars, IdeInv
<1> DEFINE c == [Running EXCEPT !.pc = "fetch"]
<1>2. c.pc = "fetch" /\ stack'[1] = c
  <2>1. c.pc = "fetch"
    BY <1>1 DEF Contexts
  <2>2. stack' = [stack EXCEPT ![1] = c] /\ 1 \in DOMAIN stack
    BY <1>1 DEF SetRunning, IdeInv, IdeType
  <2> HIDE DEF c
  <2>3. QED
    BY <2>1, <2>2
<1> HIDE DEF c
<1>3. StoreView' = StoreView
  BY <1>1, <1>2 DEF StoreView, Cached, Refilling, OnDisk
<1>4. RequestView = NoRequest /\ RequestView' = client'
  BY <1>1, <1>2 DEF RequestView, IdeInv, ClientInv
<1>5. client' \in Requests
  BY <1>1 DEF Requests, IdeInv, IdeType
<1>6. QED
  BY <1>1, <1>3, <1>4, <1>5 DEF Store!Next, Store!Call

\* The slot of the client's sector is what the client sees of it.
LEMMA ClientSees ==
  ASSUME IdeInv, stack[1].pc \in {"access", "mark_dirty"}
  PROVE  /\ client.sector \in Sectors /\ client.word \in Offsets /\ Slot \in Slots
         /\ Cached(client.sector) /\ View(client.sector) = cache[Slot].content
         /\ \A i : ~Refilling(i)
<1>1. Holds(Slot, client.sector) /\ \A i : ~Refilling(i)
  BY DEF IdeInv, ClientInv, Refilling
<1>2. QED
  BY <1>1, RequestType DEF Holds, Slot, Cached, View, IdeInv

LEMMA IdleAgain ==
  ASSUME IdeInv, Running.pc \in ClientPcs \ HandlerPcs, SetRunning(Context("idle")), client' = NoRequest
  PROVE  (\A i : ~Refilling(i)') /\ RequestView' = NoRequest
<1>1. Context("idle") \in Contexts /\ Context("idle").pc = "idle"
  <2>1. 0 \in Slots /\ 0 \in Sectors /\ 0 \in 0 .. Words /\ 0 \in 0 .. HZ + 1
    BY SizeAssumption DEF Slots, Sectors
  <2>2. QED
    BY <2>1 DEF Context, Contexts, ClientPcs, CalmPcs
<1>2. stack'[1] = Context("idle")
  BY <1>1, ClientMoves
<1>3. QED
  BY <1>1, <1>2 DEF Refilling, RequestView

LEMMA AccessReadIsRead ==
  ASSUME IdeInv, AccessRead
  PROVE  Store!Read
<1>1. /\ Running.pc = "access" /\ Running.pc \in ClientPcs \ HandlerPcs
      /\ client.op = "read" /\ buf' = cache[Slot].content[client.word]
      /\ SetRunning(Context("idle")) /\ client' = NoRequest /\ UNCHANGED <<cache, disk>>
  BY DEF AccessRead, At, cacheVars, deviceVars, ClientPcs, HandlerPcs, CalmPcs, TickPcs, ScanPcs, WritePcs
<1>2. stack[1].pc = "access"
  BY <1>1, OnlyClient
<1>3. (\A i : ~Refilling(i)') /\ RequestView' = NoRequest
  BY <1>1, IdleAgain
<1>4. /\ client.sector \in Sectors /\ View(client.sector) = cache[Slot].content
      /\ \A i : ~Refilling(i)
  BY <1>2, ClientSees
<1>5. StoreView' = StoreView
  BY <1>1, <1>3, <1>4 DEF StoreView, Cached, OnDisk
<1>6. RequestView = client /\ StoreView[client.sector] = cache[Slot].content
  BY <1>2, <1>4 DEF RequestView, StoreView, View
<1>7. QED
  BY <1>1, <1>3, <1>5, <1>6 DEF Store!Read

LEMMA MarkDirtyIsReturn ==
  ASSUME IdeInv, MarkDirty
  PROVE  Store!Return
<1>1. /\ Running.pc = "mark_dirty" /\ Running.pc \in ClientPcs \ HandlerPcs
      /\ cache' = [cache EXCEPT ![Slot].dirty = TRUE]
      /\ SetRunning(Context("idle")) /\ client' = NoRequest /\ UNCHANGED <<disk, buf>>
  BY DEF MarkDirty, At, deviceVars, ClientPcs, HandlerPcs, CalmPcs, TickPcs, ScanPcs, WritePcs
<1>2. stack[1].pc = "mark_dirty"
  BY <1>1, OnlyClient
<1>3. (\A i : ~Refilling(i)') /\ RequestView' = NoRequest
  BY <1>1, IdleAgain
<1>4. Slot \in Slots /\ \A i : ~Refilling(i)
  BY <1>2, ClientSees
<1>5. \A i \in Slots : /\ cache'[i].used = cache[i].used /\ cache'[i].content = cache[i].content
                       /\ cache'[i].sector = cache[i].sector
  BY <1>1, <1>4 DEF IdeInv, IdeType, Entries
<1>6. StoreView' = StoreView
  <2>1. ASSUME NEW s \in Sectors
        PROVE  View(s)' = View(s)
    BY <1>1, <1>3, <1>4, <1>5, SlotOf DEF View, Cached, OnDisk
  <2>2. QED
    BY <2>1 DEF StoreView, View
<1>7. RequestView.op = "written"
  <2>1. "op" \in DOMAIN client
    BY DEF IdeInv, IdeType, RequestsOf, NoRequest
  <2>2. QED
    BY <1>2, <2>1 DEF RequestView
<1>8. QED
  BY <1>1, <1>3, <1>6, <1>7 DEF Store!Return

LEMMA AccessWriteIsWrite ==
  ASSUME IdeInv, AccessWrite
  PROVE  Store!Write
<1> DEFINE c == [Running EXCEPT !.pc = "mark_dirty"]
<1>1. /\ Running.pc = "access" /\ Running.pc \in ClientPcs \ HandlerPcs
      /\ client.op = "write" /\ client' = client
      /\ cache' = [cache EXCEPT ![Slot].content[client.word] = client.value]
      /\ SetRunning(c) /\ UNCHANGED <<disk, buf>>
  BY DEF AccessWrite, At, Goto, WriteOffset, deviceVars, ClientPcs, HandlerPcs, CalmPcs, TickPcs, ScanPcs, WritePcs
<1>2. stack[1].pc = "access"
  BY <1>1, OnlyClient
<1>3. c \in Contexts /\ c.pc = "mark_dirty"
  BY <1>1, RunningType DEF IdeInv, ClientPcs, CalmPcs, Contexts
<1> HIDE DEF c
<1>4. stack'[1] = c
  BY <1>1, <1>3, ClientMoves
<1>5. /\ client.sector \in Sectors /\ client.word \in Offsets /\ Slot \in Slots
      /\ Cached(client.sector) /\ View(client.sector) = cache[Slot].content
      /\ \A i : ~Refilling(i)
  BY <1>2, ClientSees
<1>6. \A i : ~Refilling(i)'
  BY <1>3, <1>4 DEF Refilling
<1>7. /\ \A i \in Slots : /\ cache'[i].used = cache[i].used /\ cache'[i].sector = cache[i].sector
                          /\ i # Slot => cache'[i].content = cache[i].content
      /\ cache'[Slot].content = [cache[Slot].content EXCEPT ![client.word] = client.value]
  BY <1>1, <1>5 DEF IdeInv, IdeType, Entries
<1>8. ASSUME NEW s \in Sectors
      PROVE  View(s)' = IF s = client.sector THEN [View(s) EXCEPT ![client.word] = client.value] ELSE View(s)
  <2>1. PICK i \in Slots : i = s % NR_SEC_CACHE
    BY SlotOf
  <2>2. (Cached(s)' <=> Cached(s)) /\ OnDisk(s)' = OnDisk(s)
    BY <1>1, <1>5, <1>6, <1>7, <2>1 DEF Cached, OnDisk
  <2>3. CASE s = client.sector
    BY <1>5, <1>7, <2>1, <2>2, <2>3 DEF View, Slot
  <2>4. CASE s # client.sector
    <3>1. Cached(s) => i # Slot
      BY <1>5, <2>1, <2>4 DEF Cached, Slot
    <3>2. QED
      BY <1>7, <2>1, <2>2, <2>4, <3>1 DEF View
  <2>5. QED
    BY <2>3, <2>4
<1>9. StoreView' = [StoreView EXCEPT ![client.sector][client.word] = client.value]
  <2>1. StoreView = [s \in Sectors |-> View(s)]
    BY DEF StoreView, View
  <2>2. StoreView' = [s \in Sectors |-> View(s)']
    BY DEF StoreView, View
  <2>3. QED
    BY <1>5, <1>8, <2>1, <2>2
<1>10. RequestView = client /\ RequestView' = [client EXCEPT !.op = "written"]
  BY <1>1, <1>2, <1>3, <1>4 DEF RequestView
<1>11. QED
  BY <1>1, <1>9, <1>10 DEF Store!Write

\* The driver, its cache and its device implement the block store.
THEOREM StoreRefinement == ASSUME Serialised PROVE Spec => StoreSpec
<1>1. Init => /\ StoreView = [s \in Sectors |-> [w \in Offsets |-> ImageWord(s * Words + w)]]
              /\ RequestView = NoRequest
  <2> SUFFICES ASSUME Init
               PROVE  /\ StoreView = [s \in Sectors |-> [w \in Offsets |-> ImageWord(s * Words + w)]]
                      /\ RequestView = NoRequest
    OBVIOUS
  <2>1. ASSUME NEW s \in Sectors
        PROVE  View(s) = [w \in Offsets |-> ImageWord(s * Words + w)]
    <3>1. ~Cached(s)
      BY SlotOf DEF Init, Cached
    <3>2. ASSUME NEW w \in Offsets
          PROVE  disk[s * Words + w] = ImageWord(s * Words + w)
      BY Positions DEF Init
    <3>3. QED
      BY <3>1, <3>2 DEF View, OnDisk
  <2>2. QED
    BY <2>1 DEF Init, StoreView, View, RequestView, Context
<1>2. IdeInv /\ [Next]_vars => [Store!Next]_<<StoreView, RequestView, buf>>
  <2> SUFFICES ASSUME IdeInv, [Next]_vars
               PROVE  Store!Next \/ (StoreKept /\ buf' = buf)
    BY DEF StoreKept
  <2>1. CASE Request
    BY <2>1, RequestIsCall
  <2>2. CASE DriverStep
    <3>1. CASE AccessRead \/ AccessWrite \/ MarkDirty
      BY <3>1, AccessReadIsRead, AccessWriteIsWrite, MarkDirtyIsReturn DEF Store!Next
    <3>2. CASE Fetch \/ FetchSet \/ ReadData \/ WriteData
      BY <3>2, FetchStep, FetchSetStep, ReadDataStep, WriteDataStep DEF Fetch, FetchSet, ReadData, WriteData
    <3>3. CASE FetchRead \/ ClearIdeIntr \/ WaitDisk \/ Prepare \/ IssueRead \/ WaitIdeIntr
               \/ ClearIdeIntrAgain \/ IssueWrite
      BY <3>3, DriverKeeps DEF FetchRead, ClearIdeIntr, WaitDisk, Prepare, IssueRead, WaitIdeIntr,
         ClearIdeIntrAgain, IssueWrite
    <3>4. QED
      BY <2>2, <3>1, <3>2, <3>3 DEF DriverStep
  <2>3. CASE HandlerStep \/ TakeInterrupt \/ Tick
    BY <2>3, HandlersKeep
  <2>4. CASE UNCHANGED vars
    BY <2>4 DEF vars, StoreKept, StoreView, RequestView, Cached, Refilling, OnDisk
  <2>5. QED
    BY <2>1, <2>2, <2>3, <2>4 DEF Next
<1>3. QED
  BY <1>1, <1>2, IdeInvariant, PTL DEF Spec, StoreSpec, Store!Spec, Store!storeVars
=============================================================================
