------------------------------ MODULE IdeStack ------------------------------
(***************************************************************************)
(* The disk path from ide_read() down to the image file: the kernel's      *)
(* sector cache and disk driver, NEMU's IDE device behind the I/O ports,   *)
(* and the timer interrupt that writes the cache back from inside whatever *)
(* it interrupted.  NEMU's interrupt gates leave IF set, so handlers nest. *)
(*                                                                         *)
(* One CPU runs a stack of contexts: the client at the bottom, interrupt   *)
(* handlers above it.  A step is one access to something two contexts      *)
(* share.  The interrupt controller is the mailbox IrqPath implements.     *)
(* A word here is one 4-byte transfer of the data port.                    *)
(***************************************************************************)
EXTENDS Integers, Sequences, SequencesExt

CONSTANTS
  NSectors,        \* bound: sectors of the disk image
  NR_SEC_CACHE,    \* slots of the direct-mapped cache (128 in the code)
  Words,           \* words of a sector (128 in the code)
  HZ,              \* timer ticks between two write-backs (100 in the code)
  NewValues,       \* values ide_write may be given
  Uses             \* bound: what client and timer do in one behaviour, see UseAssumption

ASSUME SizeAssumption ==
  /\ NSectors \in Nat \ {0} /\ NR_SEC_CACHE \in Nat \ {0}
  /\ Words \in Nat \ {0} /\ HZ \in Nat \ {0}

\* The operations the client calls, the sectors it names, the number of
\* contexts up to which ticks nest (1: no tick), and how init_ide opens the
\* image ("rb" in the code).
ASSUME UseAssumption ==
  \A u \in Uses :
    /\ u.ops \subseteq {"read", "write"} /\ u.sectors \subseteq 0 .. NSectors - 1
    /\ u.nest \in Nat \ {0} /\ u.fileMode \in {"rb", "r+b"}
MaxNest == Max({u.nest : u \in Uses})

Sectors == 0 .. NSectors - 1
Offsets == 0 .. Words - 1
Slots   == 0 .. NR_SEC_CACHE - 1

TIMER_VECTOR == 32
IDE_VECTOR   == 46
NO_INTR      == 255

\* The word of the image at file position p, before any write.
ImageWord(p) == <<"image", p>>

VARIABLES
  cache,         \* struct SectorCache cache[NR_SEC_CACHE]
  has_ide_intr, counter,
  port,          \* port 0x1F7: "ready" (0x40) or "busy" (0x30)
  sec_regs,      \* ports 0x1F3-0x1F6
  byte_cnt,      \* words transferred by the current command
  ide_write,     \* the current command is a write
  fpos, disk,    \* position in the image file, and its words
  stack,         \* contexts, the running one last
  use,           \* the element of Uses this behaviour is of, which never changes
  client,        \* the client's request
  buf,           \* the word its last read returned
  req, delivered \* the interrupt controller

cacheVars  == <<cache, has_ide_intr, counter>>
deviceVars == <<port, sec_regs, byte_cnt, ide_write, fpos, disk>>
irqVars    == <<req, delivered>>
vars == <<cache, has_ide_intr, counter, port, sec_regs, byte_cnt, ide_write, fpos,
          disk, stack, use, client, buf, req, delivered>>

Mailbox == INSTANCE IrqMailbox
  WITH Vectors <- {TIMER_VECTOR, IDE_VECTOR}, Top <- IDE_VECTOR, None <- NO_INTR

(* A context: where it is, the cache slot and sector it works on, the next *)
(* word to transfer, where disk_do_write returns to, and the register that *)
(* holds counter between a load and the use of it.                         *)
Context(at) ==
  [pc |-> at, slot |-> 0, sector |-> 0, word |-> 0, ret |-> "", eax |-> 0]

Running == stack[Len(stack)]
SetRunning(c) == stack' = [stack EXCEPT ![Len(stack)] = c]
Goto(at) == SetRunning([Running EXCEPT !.pc = at])

\* do_intr takes a pending interrupt before the next instruction.
At(label) == req = {} /\ Running.pc = label

RequestsOf(u) ==
  [op : u.ops \cap {"read"}, sector : u.sectors, word : Offsets, value : {ImageWord(0)}] \cup
  [op : u.ops \cap {"write"}, sector : u.sectors, word : Offsets, value : NewValues]
Requests == UNION {RequestsOf(u) : u \in Uses}
NoRequest == [op |-> "none", sector |-> 0, word |-> 0, value |-> ImageWord(0)]

Init ==  \* after init_ide() of the kernel, before the loader reads
  /\ cache = [i \in Slots |-> [sector |-> 0, used |-> FALSE, dirty |-> FALSE,
                               content |-> [w \in Offsets |-> ImageWord(0)]]]
  /\ has_ide_intr = 0 /\ counter = 0
  /\ port = "ready" /\ sec_regs = 0 /\ byte_cnt = 0 /\ ide_write = FALSE
  /\ fpos = 0
  /\ disk = [p \in 0 .. NSectors * Words - 1 |-> ImageWord(p)]
  /\ stack = <<Context("idle")>>
  /\ use \in Uses
  /\ client = NoRequest
  /\ buf = ImageWord(0)
  /\ Mailbox!Init

-----------------------------------------------------------------------------
(* The interrupt controller and do_irq.                                    *)

\* Interrupts nest until the stack bound is reached.
Tick ==
  /\ Len(stack) < use.nest
  /\ TIMER_VECTOR \notin req
  /\ Mailbox!Request(TIMER_VECTOR)
  /\ UNCHANGED <<cacheVars, deviceVars, stack, use, client, buf>>

\* raise_intr and asm_do_irq: push a context for the first registered handler.
TakeInterrupt ==
  /\ \E v \in req :
       /\ Mailbox!Deliver(v)
       /\ stack' = Append(stack, Context(IF v = IDE_VECTOR THEN "ide_intr" ELSE "tick_load"))
  /\ UNCHANGED <<cacheVars, deviceVars, use, client, buf>>

Iret ==
  /\ At("iret")
  /\ stack' = Front(stack)
  /\ UNCHANGED <<cacheVars, deviceVars, use, client, buf, irqVars>>

\* (Mutant of IdeIntr: the flag is not set.)
IdeIntrNoFlag ==
  /\ At("ide_intr")
  /\ Goto("iret")
  /\ UNCHANGED <<cacheVars, deviceVars, use, client, buf, irqVars>>

IdeIntr ==
  /\ At("ide_intr")
  /\ has_ide_intr' = 1
  /\ Goto("iret")
  /\ UNCHANGED <<cache, counter, deviceVars, use, client, buf, irqVars>>

-----------------------------------------------------------------------------
(* NEMU's device: what one port access does.                               *)

\* (Mutants of OutCommand: byte_cnt is not cleared; there is no fseek.)
OutCommandNoReset(write) ==
  /\ fpos' = sec_regs * Words
  /\ ide_write' = write
  /\ port' = IF write THEN "busy" ELSE "ready"
  /\ IF write THEN UNCHANGED irqVars ELSE Mailbox!Request(IDE_VECTOR)
  /\ UNCHANGED <<byte_cnt, sec_regs, disk>>
OutCommandNoSeek(write) ==
  /\ byte_cnt' = 0
  /\ ide_write' = write
  /\ port' = IF write THEN "busy" ELSE "ready"
  /\ IF write THEN UNCHANGED irqVars ELSE Mailbox!Request(IDE_VECTOR)
  /\ UNCHANGED <<fpos, sec_regs, disk>>

\* OUT 0x1F7: seek, clear the count, and for a read raise the interrupt.
OutCommand(write) ==
  /\ fpos' = sec_regs * Words
  /\ byte_cnt' = 0
  /\ ide_write' = write
  /\ port' = IF write THEN "busy" ELSE "ready"
  /\ IF write THEN UNCHANGED irqVars ELSE Mailbox!Request(IDE_VECTOR)
  /\ UNCHANGED <<sec_regs, disk>>

\* The end of a 512-byte transfer.
CountWord ==
  /\ byte_cnt' = byte_cnt + 1
  /\ port' = IF byte_cnt' = Words THEN "ready" ELSE port

\* IN 0x1F0: assert(byte_cnt <= 512), assert(!ide_write), fread.
InData ==
  /\ byte_cnt <= Words
  /\ ~ide_write
  /\ fpos \in DOMAIN disk
  /\ fpos' = fpos + 1
  /\ CountWord
  /\ UNCHANGED <<sec_regs, ide_write, disk>>

\* OUT 0x1F0: assert(byte_cnt <= 512), assert(ide_write), fwrite, which
\* fails on a file opened "rb".
OutData(v) ==
  /\ byte_cnt <= Words
  /\ ide_write
  /\ IF use.fileMode = "rb" THEN UNCHANGED <<fpos, disk>>
     ELSE disk' = [disk EXCEPT ![fpos] = v] /\ fpos' = fpos + 1
  /\ CountWord
  /\ UNCHANGED <<sec_regs, ide_write>>

-----------------------------------------------------------------------------
(* disk_do_read: reached from cache_fetch only.                            *)

ClearIdeIntr ==
  /\ At("rd_clear")
  /\ has_ide_intr' = 0
  /\ Goto("rd_wait")
  /\ UNCHANGED <<cache, counter, deviceVars, use, client, buf, irqVars>>

\* waitdisk: spins until the status port says ready.
WaitDisk ==
  /\ At("rd_wait") \/ At("wr_wait")
  /\ port = "ready"
  /\ Goto(IF Running.pc = "rd_wait" THEN "rd_regs" ELSE "wr_regs")
  /\ UNCHANGED <<cacheVars, deviceVars, use, client, buf, irqVars>>

\* ide_prepare's sector registers; sector numbers below 256 only use one.
Prepare ==
  /\ At("rd_regs") \/ At("wr_regs")
  /\ sec_regs' = Running.sector
  /\ Goto(IF Running.pc = "rd_regs" THEN "rd_issue" ELSE "wr_issue")
  /\ UNCHANGED <<cacheVars, port, byte_cnt, ide_write, fpos, disk, use, client, buf, irqVars>>

IssueRead ==
  /\ At("rd_issue")
  /\ OutCommand(FALSE)
  /\ Goto("rd_sleep")
  /\ UNCHANGED <<cacheVars, use, client, buf>>

\* wait_ide_intr: the loop around HLT ends when the handler has run.
WaitIdeIntr ==
  /\ At("rd_sleep")
  /\ has_ide_intr = 1
  /\ Goto("rd_clear2")
  /\ UNCHANGED <<cacheVars, deviceVars, use, client, buf, irqVars>>

ClearIdeIntrAgain ==
  /\ At("rd_clear2")
  /\ has_ide_intr' = 0
  /\ SetRunning([Running EXCEPT !.pc = "rd_data", !.word = 0])
  /\ UNCHANGED <<cache, counter, deviceVars, use, client, buf, irqVars>>

\* The loop bound 512 / sizeof(uint32_t).
LastWord == Running.word = Words - 1

ReadData ==
  /\ At("rd_data")
  /\ InData
  /\ cache' = [cache EXCEPT ![Running.slot].content[Running.word] = disk[fpos]]
  /\ SetRunning([Running EXCEPT !.word = @ + 1,
                                !.pc = IF LastWord THEN "set_used" ELSE @])
  /\ UNCHANGED <<has_ide_intr, counter, use, client, buf, irqVars>>

(* disk_do_write: reached from cache_fetch (victim) and cache_writeback.   *)

IssueWrite ==
  /\ At("wr_issue")
  /\ OutCommand(TRUE)
  /\ SetRunning([Running EXCEPT !.pc = "wr_data", !.word = 0])
  /\ UNCHANGED <<cacheVars, use, client, buf>>

WriteData ==
  /\ At("wr_data")
  /\ OutData(cache[Running.slot].content[Running.word])
  /\ SetRunning([Running EXCEPT !.word = @ + 1,
                                !.pc = IF LastWord THEN Running.ret ELSE @])
  /\ UNCHANGED <<cacheVars, use, client, buf, irqVars>>

-----------------------------------------------------------------------------
(* The client: ide_read and ide_write, one word at a time, and cache_fetch. *)

Request ==
  /\ At("idle")
  /\ client' \in RequestsOf(use)
  /\ Goto("fetch")
  /\ UNCHANGED <<cacheVars, deviceVars, use, buf, irqVars>>

\* A slot holds the sector asked for.  (Mutant: any sector will do.)
HoldsAny(i, sector) == cache[i].used
Holds(i, sector)    == cache[i].used /\ cache[i].sector = sector

\* cache_fetch: a hit, a miss on a dirty victim, or a plain miss.
Fetch ==
  LET i == client.sector % NR_SEC_CACHE
      ptr == cache[i]
      hit == Holds(i, client.sector)
  IN
  /\ At("fetch")
  /\ \/ hit /\ Goto("access")
     \/ /\ ~hit /\ ptr.used /\ ptr.dirty
        /\ SetRunning([Running EXCEPT !.pc = "wr_wait", !.slot = i, !.sector = ptr.sector,
                                      !.ret = "fetch_read"])
     \/ /\ ~hit /\ ~(ptr.used /\ ptr.dirty)
        /\ SetRunning([Running EXCEPT !.pc = "fetch_read", !.slot = i])
  /\ UNCHANGED <<cacheVars, deviceVars, use, client, buf, irqVars>>

FetchRead ==
  /\ At("fetch_read")
  /\ SetRunning([Running EXCEPT !.pc = "rd_clear", !.sector = client.sector])
  /\ UNCHANGED <<cacheVars, deviceVars, use, client, buf, irqVars>>

\* After disk_do_read: used, sector and dirty are stored one after the other.
FetchSet ==
  /\ \/ /\ At("set_used")
        /\ cache' = [cache EXCEPT ![Running.slot].used = TRUE]
        /\ Goto("set_sector")
     \/ /\ At("set_sector")
        /\ cache' = [cache EXCEPT ![Running.slot].sector = client.sector]
        /\ Goto("set_dirty")
     \/ /\ At("set_dirty")
        /\ cache' = [cache EXCEPT ![Running.slot].dirty = FALSE]
        /\ Goto("access")
  /\ UNCHANGED <<has_ide_intr, counter, deviceVars, use, client, buf, irqVars>>

Slot == client.sector % NR_SEC_CACHE

AccessRead ==
  /\ At("access") /\ client.op = "read"
  /\ buf' = cache[Slot].content[client.word]
  /\ SetRunning(Context("idle")) /\ client' = NoRequest
  /\ UNCHANGED <<cacheVars, deviceVars, use, irqVars>>

\* offset & 511.
WriteOffset == client.word

AccessWrite ==
  /\ At("access") /\ client.op = "write"
  /\ cache' = [cache EXCEPT ![Slot].content[WriteOffset] = client.value]
  /\ Goto("mark_dirty")
  /\ UNCHANGED <<has_ide_intr, counter, deviceVars, use, client, buf, irqVars>>

MarkDirty ==
  /\ At("mark_dirty")
  /\ cache' = [cache EXCEPT ![Slot].dirty = TRUE]
  /\ SetRunning(Context("idle")) /\ client' = NoRequest
  /\ UNCHANGED <<has_ide_intr, counter, deviceVars, use, buf, irqVars>>

-----------------------------------------------------------------------------
(* The timer's handler: ide_writeback, as its unoptimised code loads and   *)
(* stores counter, and cache_writeback.                                    *)

TickLoad ==
  /\ At("tick_load")
  /\ SetRunning([Running EXCEPT !.pc = "tick_store", !.eax = counter])
  /\ UNCHANGED <<cacheVars, deviceVars, use, client, buf, irqVars>>

\* Bound: every value above HZ is counted as HZ + 1.
TickStore ==
  /\ At("tick_store")
  /\ counter' = IF Running.eax > HZ THEN HZ + 1 ELSE Running.eax + 1
  /\ Goto("tick_test")
  /\ UNCHANGED <<cache, has_ide_intr, deviceVars, use, client, buf, irqVars>>

TickTest ==
  /\ At("tick_test")
  /\ SetRunning([Running EXCEPT !.pc = IF counter = HZ THEN "scan" ELSE "iret", !.slot = 0])
  /\ UNCHANGED <<cacheVars, deviceVars, use, client, buf, irqVars>>

\* cache_writeback's loop over the slots.
Scan ==
  /\ At("scan")
  /\ IF cache[Running.slot].dirty
     THEN SetRunning([Running EXCEPT !.pc = "wr_wait", !.sector = cache[Running.slot].sector,
                                     !.ret = "scan_clean"])
     ELSE Goto("scan_next")
  /\ UNCHANGED <<cacheVars, deviceVars, use, client, buf, irqVars>>

ScanClean ==
  /\ At("scan_clean")
  /\ cache' = [cache EXCEPT ![Running.slot].dirty = FALSE]
  /\ Goto("scan_next")
  /\ UNCHANGED <<has_ide_intr, counter, deviceVars, use, client, buf, irqVars>>

ScanNext ==
  /\ At("scan_next")
  /\ IF Running.slot < NR_SEC_CACHE - 1
     THEN SetRunning([Running EXCEPT !.pc = "scan", !.slot = @ + 1])
     ELSE Goto("tick_reset")
  /\ UNCHANGED <<cacheVars, deviceVars, use, client, buf, irqVars>>

TickReset ==
  /\ At("tick_reset")
  /\ counter' = 0
  /\ Goto("iret")
  /\ UNCHANGED <<cache, has_ide_intr, deviceVars, use, client, buf, irqVars>>

-----------------------------------------------------------------------------
DriverStep ==
  \/ Fetch \/ FetchRead \/ FetchSet \/ AccessRead \/ AccessWrite \/ MarkDirty
  \/ ClearIdeIntr \/ WaitDisk \/ Prepare \/ IssueRead \/ WaitIdeIntr
  \/ ClearIdeIntrAgain \/ ReadData \/ IssueWrite \/ WriteData

HandlerStep ==
  \/ IdeIntr \/ Iret
  \/ TickLoad \/ TickStore \/ TickTest \/ Scan \/ ScanClean \/ ScanNext \/ TickReset

Next == Request \/ DriverStep \/ HandlerStep \/ TakeInterrupt \/ Tick

Spec == Init /\ [][Next]_vars

(* The CPU keeps running.  The handler of one tick is over long before the *)
(* next tick, 10 ms later, so an interrupted context gets to run again and *)
(* again: strong fairness on the steps at each depth of the stack.         *)
Fairness ==
  /\ WF_vars(TakeInterrupt)
  /\ \A d \in 1 .. MaxNest + 1 : SF_vars((DriverStep \/ HandlerStep) /\ Len(stack) = d)

FairSpec == Spec /\ Fairness

-----------------------------------------------------------------------------
(* Properties.                                                             *)

\* What the properties ask of a use: no tick may find a dirty slot while the
\* client is inside the driver.  So it is if nothing is written, as in the
\* kernel as built, and, of an image that can be written, if ticks do not come
\* or if there is one sector, which is never evicted.
Serialised ==
  \A u \in Uses :
    \/ u.ops \subseteq {"read"}
    \/ u.fileMode = "r+b" /\ (u.nest = 1 \/ \E s \in Sectors : u.sectors \subseteq {s})

\* The assertions of handler_ide (ide.c:24, 30 and 84): the data port is only
\* used in the direction of the last command and for at most 512 bytes.
DeviceAsserts ==
  /\ Running.pc = "rd_data" => ~ide_write /\ byte_cnt <= Words
  /\ Running.pc = "wr_data" => ide_write /\ byte_cnt <= Words

\* The store the client sees: a sector's words are in its slot if the slot
\* holds it and is not being refilled, else on the disk.
Refilling(i) ==
  /\ stack[1].slot = i
  /\ stack[1].pc \in {"fetch_read", "rd_clear", "rd_wait", "rd_regs", "rd_issue", "rd_sleep",
                      "rd_clear2", "rd_data", "set_used", "set_sector"}
OnDisk(s) == [w \in Offsets |-> disk[s * Words + w]]
Cached(s) == LET i == s % NR_SEC_CACHE IN
  cache[i].used /\ cache[i].sector = s /\ ~Refilling(i)
StoreView ==
  [s \in Sectors |-> IF Cached(s) THEN cache[s % NR_SEC_CACHE].content ELSE OnDisk(s)]

RequestView ==
  IF stack[1].pc = "mark_dirty" THEN [client EXCEPT !.op = "written"] ELSE client

\* Cache, driver, device and interrupts implement the block store: a read
\* returns the word written last to the place it asks for, through any sequence
\* of hits, misses, evictions and write-backs, and nothing but a write changes
\* a word.
Store == INSTANCE BlockStore
  WITH Image <- [s \in Sectors |-> [w \in Offsets |-> ImageWord(s * Words + w)]],
       store <- StoreView, request <- RequestView
StoreSpec == Store!Spec

\* A call of ide_read or ide_write returns, however many ticks interrupt it.
CallReturns == (stack[1].pc = "fetch") ~> (stack[1].pc = "idle")

\* A clean slot may be dropped at any time: its words are on the disk.
CleanSlotIsOnDisk ==
  \A i \in Slots :
    \/ ~cache[i].used \/ cache[i].dirty \/ Refilling(i)
    \/ stack[1].pc = "mark_dirty" /\ Slot = i
    \/ cache[i].content = OnDisk(cache[i].sector)

\* ide.c:3 of the kernel: "writeback cache for every 1 second".  The count of
\* ticks never passes the value that starts a write-back.
CounterWithinPeriod == counter <= HZ
=============================================================================
