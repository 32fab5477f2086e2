------------------------------- MODULE Memory -------------------------------
(***************************************************************************)
(* A guest access in NEMU: page_translate with the TLB of tlb.c or without *)
(* it, then paddr_read/paddr_write, through the L1 cache of cache.c or to  *)
(* hw_mem and the VGA window.  The kernel side is its page directory, the  *)
(* user directory it builds, and the switch from one to the other.         *)
(*                                                                         *)
(* include/config.h selects the build (CACHE_ENABLED, TLB_ENABLED): it is  *)
(* a variable chosen at the start.  The entries of the page tables are not *)
(* in ram here: the kernel writes each as one aligned word.                *)
(***************************************************************************)
EXTENDS Vga, FiniteSetsExt

CONSTANTS
  LineSize, Groups, Ways,  \* 64, 128 and 8 in the code
  TlbSize,                 \* 64 in the code
  PageSize, Frames,        \* 4096 and PHY_MEM / PAGE_SIZE in the code
  UserPages,               \* pages below KOFFSET and above PHY_MEM
  VideoPage,               \* the first page (and frame) of the window, 0xa0
  KOffset,                 \* the page of KOFFSET, above the user's
  Lengths,                 \* {1, 2, 4} in the code
  Builds                   \* [cache, tlb: BOOLEAN, pages: the pages used, writes: Nat]

None     == -1
FrameNos == 0 .. Frames - 1
Low      == FrameNos
High     == {KOffset + f : f \in FrameNos}
Pages    == Low \cup UserPages \cup High
Lines    == 0 .. (Frames * PageSize) \div LineSize - 1
Addrs    == 0 .. Frames * PageSize - 1

\* The pages of the window, and those of them the screen needs.
WindowPages == VideoPage .. VideoPage + VgaSize \div PageSize - 1
VideoPages  == VideoPage .. VideoPage + (CTR_ROW * CTR_COL - 1) \div PageSize

ASSUME MemoryAssumption ==
  /\ PageSize \in Nat \ {0} /\ PageSize % LineSize = 0 /\ Lengths \subseteq 1 .. LineSize
  /\ LineSize \in Nat \ {0} /\ Groups \in Nat \ {0} /\ Ways \in Nat
  /\ VideoPage \in Nat /\ VgaSize % PageSize = 0 /\ WindowPages \subseteq FrameNos
  /\ Frames \in Nat /\ KOffset \in Nat /\ Frames <= KOffset
  /\ UserPages \subseteq Frames .. KOffset - 1
  /\ \A b \in Builds : b.pages \subseteq Pages

VARIABLES
  build,   \* which of Builds this behaviour is of, with its bounds
  cr3,     \* "kernel" or "user": the directory in use
  updir,   \* the user directory below KOFFSET
  ram,     \* hw_mem
  cache,   \* L1_dcache
  tlb,
  stores,  \* how many stores the guest made
  torn     \* history: lines the code leaves stale, see CacheCoherent

mmuVars == <<build, cr3, updir, ram, cache, tlb, stores, torn>>
vars == <<mmuVars, vgaVars>>

-----------------------------------------------------------------------------
(* Translation.                                                            *)

\* init_page maps physical memory at 0 and at KOFFSET; init_mm gives the user
\* directory the second half of that.
Walk(v) ==
  CASE v \in High                    -> v - KOffset
    [] v \in Low /\ cr3 = "kernel"   -> v
    [] v \in UserPages \cup Low /\ cr3 = "user" -> updir[v]
    [] OTHER                         -> None

Held(v) == {i \in DOMAIN tlb : tlb[i].valid /\ tlb[i].vpn = v}

\* What page_translate returns for the page: the entry found, or the walk's.
Translate(v) == IF build.tlb /\ Held(v) # {} THEN tlb[CHOOSE i \in Held(v) : TRUE].frame
                                             ELSE Walk(v)

\* tlb_fetch: a random victim for a page that is not held.
TlbFill(v) ==
  IF build.tlb /\ Held(v) = {}
  THEN \E i \in DOMAIN tlb : tlb' = [tlb EXCEPT ![i] = [valid |-> TRUE, vpn |-> v, frame |-> Walk(v)]]
  ELSE UNCHANGED tlb

-----------------------------------------------------------------------------
(* cache_read and cache_write.  A line of memory is named by its number.   *)

LineOf(p)  == p \div LineSize
GroupOf(l) == l % Groups
\* (Mutant of Tag: a field one bit short.)
TagShort(l) == (l \div Groups) % 2
Tag(l)      == l \div Groups

LineOfRam(l) == [k \in 0 .. LineSize - 1 |-> ram[l * LineSize + k]]

\* (Mutant of WaysSearched: a scan that stops one way early.)
WaysSearchedFew == 0 .. Ways - 2
WaysSearched    == 0 .. Ways - 1

WayOf(l) == {w \in WaysSearched : LET c == cache[GroupOf(l)][w] IN c.valid /\ c.tag = Tag(l)}
Hit(l)   == WayOf(l) # {}
Block(l) == cache[GroupOf(l)][Min(WayOf(l))].block

\* A hit that runs into the next line reads that one by a call of its own; a
\* miss is answered from memory, whatever the next line's state is.
CacheByte(p, k) ==
  LET l == LineOf(p + k) IN IF Hit(LineOf(p)) /\ Hit(l) THEN Block(l)[(p + k) % LineSize] ELSE ram[p + k]

\* The line a read of these bytes brings in: at most one.
Missing(p, len) ==
  LET touched == {LineOf(p), LineOf(p + len - 1)}
      absent  == {l \in touched : ~Hit(l)}
  IN  IF absent = {} THEN {} ELSE {Min(absent)}

\* The first way that is free, any way when none is.
Fill(l) ==
  LET g    == GroupOf(l)
      free == {w \in 0 .. Ways - 1 : ~cache[g][w].valid}
  IN  \E w \in IF free # {} THEN {Min(free)} ELSE 0 .. Ways - 1 :
        /\ cache' = [cache EXCEPT ![g][w] = [valid |-> TRUE, tag |-> Tag(l), block |-> LineOfRam(l)]]
        /\ torn' = torn \ {l}

Stored(old, base, p, data) ==
  [k \in DOMAIN old |-> IF base + k - p + 1 \in DOMAIN data THEN data[base + k - p + 1] ELSE old[k]]

\* (Mutant of UpdatesSecond: the part of a store in the next line is dropped.)
UpdatesSecondNever(p) == FALSE
\* Only a store whose first line is cached goes on to the next.
UpdatesSecond(p) == Hit(LineOf(p))

CacheStore(p, data) ==
  LET first == LineOf(p)
      last  == LineOf(p + Len(data) - 1)
      Updated(l) == Hit(l) /\ (l = first \/ (l = last /\ UpdatesSecond(p)))
  IN  /\ cache' = [g \in DOMAIN cache |-> [w \in DOMAIN cache[g] |->
                     LET l == cache[g][w].tag * Groups + g IN
                       IF Updated(l) /\ w = Min(WayOf(l))
                       THEN [cache[g][w] EXCEPT !.block = Stored(@, l * LineSize, p, data)]
                       ELSE cache[g][w]]]
      /\ torn' = IF Hit(last) /\ ~Hit(first) THEN torn \cup {last} ELSE torn

-----------------------------------------------------------------------------
(* The guest's accesses.  A page that is not mapped stops NEMU (assert).   *)

Mapped(v)       == Walk(v) # None
\* is_mmio, of the first byte; a build with the cache does not ask.
InWindow(p) == ~build.cache /\ p - VideoPage * PageSize \in Vmem
Physical(v, off) == Translate(v) * PageSize + off
Fits(p, len) == p + len - 1 \in Addrs

Value(p, k) ==
  CASE build.cache              -> CacheByte(p, k)
    [] InWindow(p)              -> vmem[p + k - VideoPage * PageSize]
    [] OTHER                    -> ram[p + k]

Load(v, off, len) ==
  LET p == Physical(v, off) IN
  /\ cpu_pc = "idle" /\ Mapped(v) /\ Fits(p, len)
  /\ TlbFill(v)
  /\ IF build.cache /\ Missing(p, len) # {} THEN \E l \in Missing(p, len) : Fill(l)
                                            ELSE UNCHANGED <<cache, torn>>
  /\ UNCHANGED <<build, cr3, updir, ram, stores, vgaVars>>

\* The bytes of the n-th store.
Data(n, len) == [k \in 1 .. len |-> 2 * n + k]

Store(v, off, len) ==
  LET p    == Physical(v, off)
      data == Data(stores, len)
  IN
  /\ cpu_pc = "idle" /\ Mapped(v) /\ Fits(p, len) /\ stores < build.writes
  /\ stores' = stores + 1
  /\ TlbFill(v)
  /\ IF InWindow(p)
     THEN VmemStore(p - VideoPage * PageSize, data) /\ UNCHANGED <<ram, cache, torn>>
     ELSE /\ ram' = Stored(ram, 0, p, data)
          /\ IF build.cache THEN CacheStore(p, data) ELSE UNCHANGED <<cache, torn>>
          /\ UNCHANGED vgaVars
  /\ UNCHANGED <<build, cr3, updir>>

-----------------------------------------------------------------------------
(* The kernel.                                                             *)

\* (Mutant of UserRange: a program linked below PHY_MEM.)
UserRangeLow == UserPages \cup Low
UserRange    == UserPages

\* mm_malloc, for the loader's segments, the stack and mm_brk: a page that is
\* not mapped yet, a frame that is not in use yet.
MmMalloc(v, f) ==
  /\ cpu_pc = "idle"
  /\ v \in UserRange /\ updir[v] = None
  /\ \A u \in DOMAIN updir : updir[u] # f
  /\ updir' = [updir EXCEPT ![v] = f]
  /\ UNCHANGED <<build, cr3, ram, cache, tlb, stores, torn, vgaVars>>

\* The end of loader: create_video_mapping, which maps the screen's pages of the
\* window to themselves, then write_cr3, a store to cpu.cr3 and nothing else.
EnterUser ==
  /\ cpu_pc = "idle" /\ cr3 = "kernel"
  /\ updir' = [v \in DOMAIN updir |-> IF v \in VideoPages THEN v ELSE updir[v]]
  /\ cr3' = "user"
  /\ UNCHANGED <<build, ram, cache, tlb, stores, torn, vgaVars>>

Access == \E v \in build.pages, off \in 0 .. PageSize - 1, len \in Lengths :
            Load(v, off, len) \/ Store(v, off, len)
Kernel == EnterUser \/ \E v \in Pages, f \in FrameNos \ WindowPages : MmMalloc(v, f)
Device == (MarkLine \/ MarkVmem \/ VgaThread) /\ UNCHANGED mmuVars

EmptyLine == [valid |-> FALSE, tag |-> 0, block |-> [k \in 0 .. LineSize - 1 |-> 0]]

Init ==
  /\ build \in Builds
  /\ cr3 = "kernel" /\ updir = [v \in UserPages \cup Low |-> None]
  /\ ram = [p \in Addrs |-> 0]
  /\ cache = [g \in 0 .. Groups - 1 |-> [w \in 0 .. Ways - 1 |-> EmptyLine]]
  /\ tlb = [i \in 0 .. TlbSize - 1 |-> [valid |-> FALSE, vpn |-> 0, frame |-> 0]]
  /\ stores = 0 /\ torn = {}
  /\ VgaInit

Next == Access \/ Kernel \/ Device
Spec == Init /\ [][Next]_vars
\* VGA_Thread keeps running, and an instruction that entered the handler ends.
FairSpec == Spec /\ WF_vars(VgaThread /\ UNCHANGED mmuVars)
                 /\ WF_vars((MarkLine \/ MarkVmem) /\ UNCHANGED mmuVars)

-----------------------------------------------------------------------------
\* The cache is write-through: every valid line is what memory holds, except
\* where the code forgets it - a store over two lines whose first is not cached
\* never looks for the second (cache.c:80-93).
CacheCoherent ==
  \A g \in DOMAIN cache : \A w \in DOMAIN cache[g] :
    LET c == cache[g][w]
        l == c.tag * Groups + g
    IN  c.valid => c.block = LineOfRam(l) \/ l \in torn

\* A line is in one way: cache_write updates the first it finds and stops.
OneWayPerLine ==
  \A g \in DOMAIN cache : \A w, x \in DOMAIN cache[g] :
    cache[g][w].valid /\ cache[g][x].valid /\ cache[g][w].tag = cache[g][x].tag => w = x

\* Nothing flushes the TLB, not even a new cr3: an entry is still what a walk
\* would give for every page the directory in use maps, because the pages the
\* kernel maps low are not the ones it gives to the user.
TlbCurrent ==
  \A i \in DOMAIN tlb : tlb[i].valid /\ Mapped(tlb[i].vpn) => tlb[i].frame = Walk(tlb[i].vpn)

\* What a load of the guest returns now, whichever way it goes through the TLB
\* and the cache, is byte for byte what its page tables and memory say.  Loads
\* that leave the page go on in the next frame (memory.c:62), and torn lines are
\* stale: those are excepted.
LoadsAreRight ==
  \A v \in Pages, off \in 0 .. PageSize - 1, len \in Lengths :
    Mapped(v) /\ off + len <= PageSize =>
      \A k \in 0 .. len - 1 :
        LET q == Walk(v) * PageSize + off + k IN
        \/ LineOf(q) \in torn
        \/ Value(Physical(v, off), k) = IF InWindow(q) THEN vmem[q - VideoPage * PageSize] ELSE ram[q]
=============================================================================
