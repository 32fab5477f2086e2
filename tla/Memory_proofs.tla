--------------------------- MODULE Memory_proofs ----------------------------
(***************************************************************************)
(* What a guest access goes through, for any memory, TLB, cache and        *)
(* screen: the TLB that nothing flushes is never wrong; the screen shows   *)
(* video memory but for the lines that will be drawn or that the code      *)
(* forgot; a line is cached once, and a cached line is what memory holds.  *)
(***************************************************************************)
EXTENDS Memory, TLAPS

-----------------------------------------------------------------------------
(* The TLB.                                                                *)

\* Which frame an entry may name: the one its page has in every directory that
\* maps it.  Below PHY_MEM that is the page's own number, because the user
\* directory maps nothing there but pages of the window, to themselves.
UpdirShape ==
  /\ DOMAIN updir = UserPages \cup Low
  /\ cr3 \in {"kernel", "user"}
  /\ \A v \in Low : updir[v] = None \/ updir[v] = v
  /\ \A v \in UserPages : updir[v] \in FrameNos \cup {None}
TlbShape ==
  /\ DOMAIN tlb = 0 .. TlbSize - 1
  /\ \A i \in DOMAIN tlb : tlb[i].valid =>
       /\ tlb[i].vpn \in Pages
       /\ tlb[i].vpn \in High => tlb[i].frame = tlb[i].vpn - KOffset
       /\ tlb[i].vpn \in Low => tlb[i].frame = tlb[i].vpn
       /\ tlb[i].vpn \in UserPages => updir[tlb[i].vpn] # None /\ tlb[i].frame = updir[tlb[i].vpn]
TlbInv == build \in Builds /\ UpdirShape /\ TlbShape

\* The three parts of the address space are apart.
LEMMA Apart ==
  /\ Low \cap High = {} /\ Low \cap UserPages = {} /\ UserPages \cap High = {}
  /\ \A v \in Low : v # None
BY MemoryAssumption, SMT DEF Low, High, FrameNos, None

\* The screen's pages are in the window: it has as many pages as the last of its
\* bytes needs.
LEMMA ScreenInWindow == VideoPages \subseteq Low
<1> DEFINE x == CTR_ROW * CTR_COL
<1> DEFINE n == (x - 1) \div PageSize
<1> DEFINE w == VgaSize \div PageSize
<1>1. x \in Nat /\ x >= 1 /\ x <= VgaSize /\ VgaSize \in Nat
  BY VgaAssumption, SMT
<1>2. PageSize \in Nat \ {0} /\ VideoPage \in Nat /\ VgaSize % PageSize = 0
  BY MemoryAssumption
<1> HIDE DEF x
<1>3. n <= w - 1 /\ n \in Int /\ w \in Int
  BY <1>1, <1>2, SMT
<1> HIDE DEF n, w
<1>4. WindowPages = VideoPage .. VideoPage + w - 1 /\ VideoPages = VideoPage .. VideoPage + n
  BY DEF WindowPages, VideoPages, w, n, x
<1>5. WindowPages \subseteq Low
  BY MemoryAssumption DEF Low
<1> QED
  BY <1>2, <1>3, <1>4, <1>5, SMT

\* The invariant says that a valid entry of a mapped page is what a walk finds.
LEMMA TlbInvMeans == TlbInv => TlbCurrent
<1> SUFFICES ASSUME TlbInv, NEW i \in DOMAIN tlb, tlb[i].valid, Mapped(tlb[i].vpn)
             PROVE  tlb[i].frame = Walk(tlb[i].vpn)
  BY DEF TlbCurrent
<1> DEFINE v == tlb[i].vpn
<1>1. v \in Low \cup UserPages \cup High
  BY DEF TlbInv, TlbShape, Pages
<1>2. CASE v \in High
  BY <1>2, Apart, SMT DEF TlbInv, TlbShape, Walk
<1>3. CASE v \in UserPages
  <2>1. cr3 = "user" /\ Walk(v) = updir[v]
    BY <1>3, Apart, SMT DEF Mapped, Walk, TlbInv, UpdirShape
  <2> QED
    BY <1>3, <2>1 DEF TlbInv, TlbShape
<1>4. CASE v \in Low
  <2>1. tlb[i].frame = v
    BY <1>4 DEF TlbInv, TlbShape
  <2>2. CASE cr3 = "kernel"
    BY <1>4, <2>1, <2>2, Apart, SMT DEF Walk
  <2>3. CASE cr3 = "user"
    <3>1. Walk(v) = updir[v]
      BY <1>4, <2>3, Apart, SMT DEF Walk
    <3> QED
      BY <1>4, <2>1, <3>1 DEF TlbInv, UpdirShape, Mapped
  <2> QED
    BY <2>2, <2>3 DEF TlbInv, UpdirShape
<1> QED
  BY <1>1, <1>2, <1>3, <1>4

\* The TLB's answer is the walk's.
LEMMA TranslateIsWalk ==
  ASSUME TlbInv, NEW v \in Pages, Mapped(v)
  PROVE  Translate(v) = Walk(v)
<1>1. CASE build.tlb /\ Held(v) # {}
  <2> DEFINE i == CHOOSE i \in Held(v) : TRUE
  <2>1. i \in Held(v)
    BY <1>1
  <2> HIDE DEF i
  <2>2. tlb[i].frame = Walk(v)
    BY <2>1, TlbInvMeans DEF TlbCurrent, Held
  <2>3. Translate(v) = tlb[i].frame
    BY <1>1, Zenon DEF Translate, i
  <2> QED
    BY <2>2, <2>3
<1> QED
  BY <1>1 DEF Translate

\* A page that is mapped has a frame of physical memory.
LEMMA Framed ==
  ASSUME TlbInv, NEW v \in Pages, Mapped(v)
  PROVE  Translate(v) \in FrameNos
<1>1. Walk(v) \in FrameNos
  <2>1. CASE v \in High
    <3>1. PICK f \in FrameNos : v = KOffset + f
      BY <2>1 DEF High
    <3>2. v - KOffset = f
      BY <3>1, MemoryAssumption, SMT DEF FrameNos
    <3>3. Walk(v) = v - KOffset
      BY <2>1, Apart, SMT DEF Walk
    <3> QED
      BY <3>2, <3>3
  <2>2. CASE v \in Low
    BY <2>2, Apart, SMT DEF Walk, Mapped, TlbInv, UpdirShape, Low
  <2>3. CASE v \in UserPages
    BY <2>3, Apart, SMT DEF Walk, Mapped, TlbInv, UpdirShape
  <2> QED
    BY <2>1, <2>2, <2>3 DEF Pages
<1> QED
  BY <1>1, TranslateIsWalk

\* A page that is not held is entered with the frame a walk gives.
LEMMA TlbFillKeeps ==
  ASSUME TlbInv, NEW v \in Pages, Mapped(v), TlbFill(v), UNCHANGED <<build, cr3, updir>>
  PROVE  TlbInv'
<1>1. UpdirShape'
  BY DEF TlbInv, UpdirShape
<1>2. CASE UNCHANGED tlb
  BY <1>1, <1>2 DEF TlbInv, TlbShape
<1>3. CASE \E i \in DOMAIN tlb : tlb' = [tlb EXCEPT ![i] = [valid |-> TRUE, vpn |-> v, frame |-> Walk(v)]]
  <2>1. PICK i \in DOMAIN tlb : tlb' = [tlb EXCEPT ![i] = [valid |-> TRUE, vpn |-> v, frame |-> Walk(v)]]
    BY <1>3
  <2>2. /\ v \in High => Walk(v) = v - KOffset
        /\ v \in Low => Walk(v) = v
        /\ v \in UserPages => updir[v] # None /\ Walk(v) = updir[v]
    BY Apart, SMT DEF TlbInv, UpdirShape, Walk, Mapped
  <2>3. DOMAIN tlb' = 0 .. TlbSize - 1
    BY <2>1 DEF TlbInv, TlbShape
  <2>4. ASSUME NEW j \in DOMAIN tlb', j # i
        PROVE  tlb'[j] = tlb[j] /\ j \in DOMAIN tlb
    BY <2>1, <2>4 DEF TlbInv, TlbShape
  <2>5. tlb'[i] = [valid |-> TRUE, vpn |-> v, frame |-> Walk(v)]
    BY <2>1 DEF TlbInv, TlbShape
  <2>6. ASSUME NEW j \in DOMAIN tlb', tlb'[j].valid
        PROVE  /\ tlb'[j].vpn \in Pages
               /\ tlb'[j].vpn \in High => tlb'[j].frame = tlb'[j].vpn - KOffset
               /\ tlb'[j].vpn \in Low => tlb'[j].frame = tlb'[j].vpn
               /\ tlb'[j].vpn \in UserPages => updir[tlb'[j].vpn] # None /\ tlb'[j].frame = updir[tlb'[j].vpn]
    <3>1. CASE j = i
      BY <2>2, <2>5, <3>1
    <3>2. CASE j # i
      BY <2>4, <2>6, <3>2 DEF TlbInv, TlbShape
    <3> QED
      BY <3>1, <3>2
  <2> QED
    BY <1>1, <2>3, <2>6 DEF TlbInv, TlbShape
<1> QED
  BY <1>2, <1>3 DEF TlbFill

\* An empty TLB satisfies it.
LEMMA TlbInvInit == Init => TlbInv
BY Apart, SMT DEF Init, TlbInv, UpdirShape, TlbShape

\* Every access and every step of the kernel keeps it: the kernel maps a page
\* of the user directory once, and the switch of CR3 leaves Low and High alone.
LEMMA TlbInvNext ==
  ASSUME TlbInv, [Next]_vars
  PROVE  TlbInv'
<1>1. CASE UNCHANGED vars
  BY <1>1 DEF vars, mmuVars, TlbInv, UpdirShape, TlbShape
<1>2. ASSUME NEW v \in Pages, NEW off, NEW len, Load(v, off, len) \/ Store(v, off, len)
      PROVE  TlbInv'
  BY <1>2, TlbFillKeeps, Zenon DEF Load, Store
<1>3. ASSUME NEW v, NEW f \in FrameNos, MmMalloc(v, f)
      PROVE  TlbInv'
  <2>1. v \in UserPages /\ updir[v] = None /\ updir' = [updir EXCEPT ![v] = f] /\ UNCHANGED <<build, cr3, tlb>>
    BY <1>3 DEF MmMalloc, UserRange
  <2>2. UpdirShape'
    BY <2>1, Apart DEF TlbInv, UpdirShape
  <2>3. ASSUME NEW i \in DOMAIN tlb, tlb[i].valid, tlb[i].vpn \in UserPages
        PROVE  updir'[tlb[i].vpn] = updir[tlb[i].vpn]
    BY <2>1, <2>3 DEF TlbInv, TlbShape
  <2> QED
    BY <2>1, <2>2, <2>3 DEF TlbInv, TlbShape
<1>4. CASE EnterUser
  <2>1. /\ updir' = [v \in DOMAIN updir |-> IF v \in VideoPages THEN v ELSE updir[v]]
        /\ cr3' = "user" /\ UNCHANGED <<build, tlb>>
    BY <1>4 DEF EnterUser
  <2>2. \A u \in UserPages : updir'[u] = updir[u]
    BY <2>1, Apart, ScreenInWindow DEF TlbInv, UpdirShape
  <2>3. UpdirShape'
    BY <2>1, <2>2 DEF TlbInv, UpdirShape
  <2> QED
    BY <2>1, <2>2, <2>3 DEF TlbInv, TlbShape
<1>5. CASE Device
  BY <1>5 DEF Device, mmuVars, TlbInv, UpdirShape, TlbShape
<1> QED
  <2>1. \A b \in Builds : b.pages \subseteq Pages
    BY MemoryAssumption
  <2>2. CASE Access
    BY <1>2, <2>1, <2>2 DEF Access, TlbInv
  <2>3. CASE Kernel
    BY <1>3, <1>4, <2>3 DEF Kernel
  <2> QED
    BY <1>1, <1>5, <2>2, <2>3 DEF Next

\* For any number of entries, pages and frames: no entry of the TLB is ever
\* wrong for a page that is mapped, although nothing flushes it.
THEOREM TlbNeverStale == Spec => []TlbCurrent
BY TlbInvInit, TlbInvNext, TlbInvMeans, PTL DEF Spec

-----------------------------------------------------------------------------
(* The screen.                                                             *)

VgaShape ==
  /\ DOMAIN screen = Rows /\ DOMAIN line_dirty = Rows
  /\ cpu_pc \in {"idle", "line", "flag"}
  /\ row \in Rows
  /\ cpu_pc # "idle" => cpu_line \in Rows
VgaInv == VgaShape /\ ScreenCurrent

\* A byte of the window is in a row or beyond all of them.
LEMMA RowOfByte ==
  ASSUME NEW r \in Rows, NEW c \in Cols
  PROVE  /\ r * CTR_COL + c \in Vmem
         /\ (r * CTR_COL + c) \div CTR_COL = r
<1>1. r \in Nat /\ r < CTR_ROW /\ c \in Nat /\ c < CTR_COL /\ CTR_COL \in Nat /\ CTR_COL >= 1 /\ CTR_ROW \in Nat
  BY VgaAssumption DEF Rows, Cols
<1>2. (r + 1) * CTR_COL <= CTR_ROW * CTR_COL
  BY <1>1, SMT
<1>3. (r + 1) * CTR_COL = r * CTR_COL + CTR_COL
  BY <1>1, SMT
<1>4. (r * CTR_COL + c) \div CTR_COL = r
  BY <1>1, SMT
<1>5. r * CTR_COL \in Nat
  BY <1>1, SMT
<1> QED
  BY <1>1, <1>2, <1>3, <1>4, <1>5, VgaAssumption, SMT DEF Vmem

\* A store changes bytes of the row it will mark, and of rows it forgets.
LEMMA StoreKeeps ==
  ASSUME VgaInv, NEW a \in Vmem, NEW data, Len(data) \in Nat, DOMAIN data = 1 .. Len(data),
         VmemStore(a, data)
  PROVE  VgaInv'
<1>1. /\ cpu_pc = "idle"
      /\ vmem' = [b \in Vmem |-> IF b - a + 1 \in DOMAIN data THEN data[b - a + 1] ELSE vmem[b]]
      /\ UNCHANGED <<line_dirty, screen, row>>
  BY DEF VmemStore
<1>2. LineOfStore(a) \in Nat
  BY VgaAssumption, SMT DEF LineOfStore, Vmem
<1>3. VgaShape'
  BY <1>2, VgaAssumption, SMT DEF VgaInv, VgaShape, VmemStore, Rows
<1>4. ASSUME NEW r \in Rows
      PROVE  screen'[r] = Line(r)' \/ Awaited(r)' \/ r \in unmarked'
  <2>1. CASE \E c \in Cols : (r * CTR_COL + c) - a + 1 \in DOMAIN data
    <3>1. PICK c \in Cols : (r * CTR_COL + c) - a + 1 \in DOMAIN data
      BY <2>1
    <3> DEFINE b == r * CTR_COL + c
    <3>2. b \in Vmem /\ b \div CTR_COL = r
      BY RowOfByte
    <3>3. b \in a .. a + Len(data) - 1
      <4>1. b - a + 1 \in 1 .. Len(data)
        BY <3>1, Zenon
      <4> HIDE DEF b
      <4> QED
        BY <3>2, <4>1, VgaAssumption, SMT DEF Vmem
    <3> HIDE DEF b
    <3>4. CASE r = a \div CTR_COL
      <4>1. LineOfStore(a) = r /\ r < CTR_ROW
        BY <3>4, VgaAssumption DEF LineOfStore, Rows
      <4>2. cpu_line' = r /\ cpu_pc' = "line"
        BY <4>1 DEF VmemStore
      <4> QED
        BY <4>2 DEF Awaited
    <3>5. CASE r # a \div CTR_COL
      BY <3>2, <3>3, <3>5 DEF VmemStore
    <3> QED
      BY <3>4, <3>5
  <2>2. CASE \A c \in Cols : (r * CTR_COL + c) - a + 1 \notin DOMAIN data
    <3>1. ASSUME NEW c \in Cols
          PROVE  vmem'[r * CTR_COL + c] = vmem[r * CTR_COL + c]
      <4> DEFINE b == r * CTR_COL + c
      <4>1. b \in Vmem
        BY RowOfByte
      <4>2. b - a + 1 \notin DOMAIN data
        BY <2>2, Zenon
      <4> HIDE DEF b
      <4>3. vmem'[b] = vmem[b]
        BY <1>1, <4>1, <4>2, Zenon
      <4> QED
        BY <4>3 DEF b
    <3>2. Line(r)' = Line(r)
      BY <3>1 DEF Line
    <3> QED
      BY <1>1, <3>2 DEF VgaInv, ScreenCurrent, Awaited, VmemStore
  <2> QED
    BY <2>1, <2>2
<1> QED
  BY <1>3, <1>4 DEF VgaInv, ScreenCurrent

\* The length of a sequence given by its elements.
LEMMA LenOf ==
  ASSUME NEW n \in Nat, NEW m
  PROVE  Len([k \in 1 .. n |-> 2 * m + k]) = n
OBVIOUS

\* The thread draws what is there and the marks it clears it has drawn or forgets.
LEMMA DeviceKeeps ==
  ASSUME VgaInv, MarkLine \/ MarkVmem \/ VgaThread
  PROVE  VgaInv'
<1>1. CASE MarkLine
  BY <1>1, Zenon DEF MarkLine, VgaInv, VgaShape, ScreenCurrent, Awaited, Line
<1>2. CASE MarkVmem
  BY <1>2 DEF MarkVmem, VgaInv, VgaShape, ScreenCurrent, Awaited, Line
<1>3. CASE TestVmemDirty
  BY <1>3, VgaAssumption DEF TestVmemDirty, VgaInv, VgaShape, ScreenCurrent, Awaited, Line, Rows
<1>4. CASE DrawLine
  <2>1. row' \in Rows
    BY <1>4, VgaAssumption, SMT DEF DrawLine, VgaInv, VgaShape, Rows
  <2>2. \A r \in Rows : screen'[r] = screen[r] \/ screen'[r] = Line(r)
    BY <1>4 DEF DrawLine, VgaInv, VgaShape
  <2>3. \A r : Line(r)' = Line(r) /\ Awaited(r)' = Awaited(r)
    BY <1>4 DEF DrawLine, Line, Awaited
  <2> QED
    BY <1>4, <2>1, <2>2, <2>3 DEF DrawLine, VgaInv, VgaShape, ScreenCurrent
<1>5. CASE ClearVmemDirty
  BY <1>5 DEF ClearVmemDirty, VgaInv, VgaShape, ScreenCurrent, Awaited, Line
<1>6. CASE ClearLines
  <2>1. VgaShape'
    BY <1>6 DEF ClearLines, VgaInv, VgaShape
  <2>2. \A r : Line(r)' = Line(r)
    BY <1>6 DEF ClearLines, Line
  <2> QED
    BY <1>6, <2>1, <2>2 DEF ClearLines, VgaInv, VgaShape, ScreenCurrent, Awaited
<1> QED
  BY <1>1, <1>2, <1>3, <1>4, <1>5, <1>6 DEF VgaThread

\* For any screen and any window: what is shown is video memory, but for lines
\* that will be drawn and lines the code forgot.
THEOREM ScreenIsCurrent == Spec => []ScreenCurrent
<1>1. Init => VgaInv
  <2> SUFFICES ASSUME Init PROVE VgaInv
    OBVIOUS
  <2>1. VgaShape
    BY VgaAssumption, SMT DEF Init, VgaInit, VgaShape, Rows
  <2>2. ASSUME NEW r \in Rows
        PROVE  screen[r] = Line(r)
    <3>1. \A c \in Cols : vmem[r * CTR_COL + c] = 0
      <4> SUFFICES ASSUME NEW c \in Cols PROVE vmem[r * CTR_COL + c] = 0
        OBVIOUS
      <4> DEFINE b == r * CTR_COL + c
      <4>1. b \in Vmem
        BY RowOfByte
      <4> HIDE DEF b
      <4>2. vmem[b] = 0
        BY <4>1 DEF Init, VgaInit
      <4> QED
        BY <4>2 DEF b
    <3> QED
      BY <3>1 DEF Init, VgaInit, Line
  <2> QED
    BY <2>1, <2>2 DEF VgaInv, ScreenCurrent
<1>2. TlbInv /\ VgaInv /\ [Next]_vars => VgaInv'
  <2> SUFFICES ASSUME TlbInv, VgaInv, [Next]_vars PROVE VgaInv'
    OBVIOUS
  <2>1. CASE UNCHANGED vgaVars
    BY <2>1 DEF vgaVars, VgaInv, VgaShape, ScreenCurrent, Awaited, Line
  <2>2. ASSUME NEW v \in Pages, NEW off \in 0 .. PageSize - 1, NEW len \in Lengths, Store(v, off, len)
        PROVE  VgaInv'
    <3> DEFINE a == Physical(v, off) - VideoPage * PageSize
    <3> DEFINE data == Data(stores, len)
    <3>1. CASE InWindow(Physical(v, off))
      <4>1. a \in Vmem
        BY <3>1, Zenon DEF InWindow
      <4>2. len \in Nat
        BY MemoryAssumption
      <4>3. DOMAIN data = 1 .. len
        BY Zenon DEF Data
      <4>4. Len(data) = len
        BY <4>2, LenOf DEF Data
      <4>5. VmemStore(a, data)
        BY <2>2, <3>1, Zenon DEF Store
      <4> HIDE DEF a, data
      <4> QED
        BY <4>1, <4>2, <4>3, <4>4, <4>5, StoreKeeps
    <3>2. CASE ~InWindow(Physical(v, off))
      BY <2>1, <2>2, <3>2, Zenon DEF Store
    <3> QED
      BY <3>1, <3>2
  <2>3. CASE Device
    BY <2>3, DeviceKeeps DEF Device
  <2>4. CASE Access
    <3>1. build.pages \subseteq Pages
      BY MemoryAssumption DEF TlbInv
    <3> QED
      BY <2>1, <2>2, <2>4, <3>1 DEF Access, Load
  <2>5. CASE Kernel
    BY <2>1, <2>5 DEF Kernel, EnterUser, MmMalloc
  <2>6. CASE UNCHANGED vars
    BY <2>1, <2>6 DEF vars
  <2> QED
    BY <2>3, <2>4, <2>5, <2>6 DEF Next
<1>3. VgaInv => ScreenCurrent
  BY DEF VgaInv
<1>4. Init => TlbInv
  BY TlbInvInit
<1>5. TlbInv /\ [Next]_vars => TlbInv'
  BY TlbInvNext
<1> QED
  BY <1>1, <1>2, <1>3, <1>4, <1>5, PTL DEF Spec

-----------------------------------------------------------------------------
(* The L1 cache.                                                           *)

\* An entry, and that a valid one names bytes that memory has.
EntryOK(c, g) ==
  /\ DOMAIN c = {"valid", "tag", "block"}
  /\ c.valid => /\ c.tag \in Nat
                /\ \A k \in 0 .. LineSize - 1 : (c.tag * Groups + g) * LineSize + k \in Addrs
                /\ DOMAIN c.block = 0 .. LineSize - 1
CacheShape ==
  /\ DOMAIN ram = Addrs
  /\ DOMAIN cache = 0 .. Groups - 1
  /\ \A g \in 0 .. Groups - 1 :
       /\ DOMAIN cache[g] = 0 .. Ways - 1
       /\ \A w \in 0 .. Ways - 1 : EntryOK(cache[g][w], g)
CacheInv == CacheShape /\ OneWayPerLine /\ CacheCoherent

-----------------------------------------------------------------------------
(* Lines, groups and tags.                                                 *)

\* Quotient and remainder of a division.
LEMMA DivMod ==
  ASSUME NEW x \in Nat, NEW d \in Nat \ {0}
  PROVE  /\ x \div d \in Nat /\ x % d \in 0 .. d - 1
         /\ x = (x \div d) * d + (x % d)
BY SMT

\* There is no other quotient and remainder.
LEMMA DivModUnique ==
  ASSUME NEW q \in Nat, NEW d \in Nat \ {0}, NEW r \in 0 .. d - 1
  PROVE  (q * d + r) \div d = q /\ (q * d + r) % d = r
BY SMT

\* The window begins and ends with a page: a byte of a page is in it if the page is.
LEMMA WholePages ==
  ASSUME NEW d \in Int, NEW s \in Nat \ {0}, NEW w \in Nat, NEW j \in 0 .. s - 1
  PROVE  d * s + j \in 0 .. w * s - 1 <=> d \in 0 .. w - 1
<1>1. d * s \in Int /\ w * s \in Int /\ (d + 1) * s = d * s + s
  BY SMT
<1>2. CASE d < 0
  <2>1. (d + 1) * s <= 0
    BY <1>2, SMT
  <2> QED
    BY <1>1, <1>2, <2>1, SMT
<1>3. CASE d >= w
  <2>1. d * s >= w * s
    BY <1>3, SMT
  <2> QED
    BY <1>1, <1>3, <2>1, SMT
<1>4. CASE d >= 0 /\ d < w
  <2>1. (d + 1) * s <= w * s /\ d * s >= 0
    BY <1>4, SMT
  <2> QED
    BY <1>1, <1>4, <2>1, SMT
<1> QED
  BY <1>2, <1>3, <1>4, SMT

\* A line's number is its tag and its group.
LEMMA LineNumber ==
  /\ \A l \in Nat : /\ Tag(l) \in Nat /\ GroupOf(l) \in 0 .. Groups - 1
                    /\ Tag(l) * Groups + GroupOf(l) = l
  /\ \A t \in Nat, g \in 0 .. Groups - 1 : Tag(t * Groups + g) = t /\ GroupOf(t * Groups + g) = g
<1>1. ASSUME NEW l \in Nat
      PROVE  Tag(l) \in Nat /\ GroupOf(l) \in 0 .. Groups - 1 /\ Tag(l) * Groups + GroupOf(l) = l
  <2>1. Groups \in Nat \ {0}
    BY MemoryAssumption
  <2>2. l \div Groups \in Nat /\ l % Groups \in 0 .. Groups - 1 /\ l = (l \div Groups) * Groups + (l % Groups)
    BY <2>1, DivMod
  <2> QED
    BY <2>2 DEF Tag, GroupOf
<1>2. ASSUME NEW t \in Nat, NEW g \in 0 .. Groups - 1
      PROVE  Tag(t * Groups + g) = t /\ GroupOf(t * Groups + g) = g
  <2>1. Groups \in Nat \ {0}
    BY MemoryAssumption
  <2> QED
    BY <2>1, DivModUnique DEF Tag, GroupOf
<1> QED
  BY <1>1, <1>2

\* The line of an address is in memory as a whole.
LEMMA LineInMemory ==
  ASSUME NEW p \in Addrs
  PROVE  /\ LineOf(p) \in Nat
         /\ \A k \in 0 .. LineSize - 1 : LineOf(p) * LineSize + k \in Addrs
         /\ p - LineOf(p) * LineSize \in 0 .. LineSize - 1
<1> DEFINE l == LineOf(p)
<1>1. l \in Nat /\ p = l * LineSize + (p % LineSize) /\ p % LineSize \in 0 .. LineSize - 1
  <2>1. p \in Nat
    BY DEF Addrs
  <2>2. LineSize \in Nat \ {0}
    BY MemoryAssumption
  <2> QED
    BY <2>1, <2>2, DivMod DEF LineOf
<1>2. PICK n \in Nat : Frames * PageSize = n * LineSize
  <2>1. PICK m \in Nat : PageSize = m * LineSize
    <3>1. PageSize \in Nat /\ LineSize \in Nat \ {0} /\ PageSize % LineSize = 0
      BY MemoryAssumption
    <3>2. PageSize \div LineSize \in Nat /\ PageSize = (PageSize \div LineSize) * LineSize + (PageSize % LineSize)
      BY <3>1, DivMod
    <3>3. (PageSize \div LineSize) * LineSize \in Nat
      BY <3>1, <3>2
    <3> QED
      BY <3>1, <3>2, <3>3
  <2>2. Frames * m \in Nat /\ Frames * (m * LineSize) = (Frames * m) * LineSize
    BY <2>1, MemoryAssumption, SMT
  <2> QED
    BY <2>1, <2>2
<1> HIDE DEF l
<1>6. p \in Nat /\ p < n * LineSize
  BY <1>2, MemoryAssumption, SMT DEF Addrs
<1>3. l < n
  <2>1. l * LineSize < n * LineSize
    <3>1. l * LineSize <= p /\ p < n * LineSize
      BY <1>1, <1>2, <1>6, MemoryAssumption, SMT
    <3> QED
      BY <3>1, <1>1, <1>6, MemoryAssumption, SMT
  <2>2. l >= n => l * LineSize >= n * LineSize
    BY <1>1, MemoryAssumption, SMT
  <2> QED
    BY <1>1, <2>1, <2>2, MemoryAssumption, SMT
<1>4. (l + 1) * LineSize <= n * LineSize /\ (l + 1) * LineSize = l * LineSize + LineSize
  BY <1>1, <1>3, MemoryAssumption, SMT
<1>5. ASSUME NEW k \in 0 .. LineSize - 1 PROVE l * LineSize + k \in Addrs
  <2>1. l * LineSize \in Nat /\ n * LineSize \in Nat
    BY <1>1, MemoryAssumption, SMT
  <2> QED
    BY <1>2, <1>4, <2>1, MemoryAssumption, SMT DEF Addrs
<1>7. p - l * LineSize \in 0 .. LineSize - 1
  BY <1>1, <1>6, MemoryAssumption, SMT
<1> QED
  BY <1>1, <1>5, <1>7 DEF l

\* A run of at most a line's length touches two lines at most.
LEMMA TwoLines ==
  ASSUME NEW p \in Addrs, NEW len \in 1 .. LineSize, p + len - 1 \in Addrs,
         NEW l \in Nat, NEW k \in 0 .. LineSize - 1, l * LineSize + k \in p .. p + len - 1
  PROVE  l = LineOf(p) \/ l = LineOf(p + len - 1)
<1> DEFINE lo == LineOf(p)
<1> DEFINE hi == LineOf(p + len - 1)
<1>1. /\ LineSize \in Nat \ {0} /\ p \in Int /\ lo \in Nat /\ hi \in Nat
      /\ p - lo * LineSize \in 0 .. LineSize - 1
      /\ (p + len - 1) - hi * LineSize \in 0 .. LineSize - 1
  BY LineInMemory, MemoryAssumption DEF Addrs
<1> HIDE DEF lo, hi
<1>2. ASSUME NEW a \in Nat, NEW b \in Nat, a < b
      PROVE  a * LineSize + LineSize <= b * LineSize
  <2>1. (a + 1) * LineSize <= b * LineSize
    BY <1>1, <1>2, SMT
  <2>2. (a + 1) * LineSize = a * LineSize + LineSize
    BY <1>1, SMT
  <2> QED
    BY <2>1, <2>2
<1> DEFINE L(n) == n * LineSize
<1>3. L(lo) \in Nat /\ L(hi) \in Nat /\ L(l) \in Nat /\ L(lo + 1) = L(lo) + LineSize
  BY <1>1, SMT
<1>4. /\ l < lo => L(l) + LineSize <= L(lo)
      /\ hi < l => L(hi) + LineSize <= L(l)
      /\ lo + 1 < hi => L(lo + 1) + LineSize <= L(hi)
  BY <1>1, <1>2
<1>5. p - L(lo) \in 0 .. LineSize - 1 /\ (p + len - 1) - L(hi) \in 0 .. LineSize - 1 /\ L(l) + k \in p .. p + len - 1
  BY <1>1
<1> HIDE DEF L
<1>6. ~(l < lo) /\ ~(hi < l) /\ ~(lo + 1 < hi)
  BY <1>1, <1>3, <1>4, <1>5, SMT
<1>7. l = lo \/ l = hi
  BY <1>1, <1>6, SMT
<1> QED
  BY <1>7 DEF lo, hi

-----------------------------------------------------------------------------
\* An entry of the cache belongs to the way of its line, and only it does.
LEMMA OneWay ==
  ASSUME CacheInv, NEW g \in 0 .. Groups - 1, NEW w \in 0 .. Ways - 1, cache[g][w].valid,
         NEW l, l = cache[g][w].tag * Groups + g
  PROVE  /\ l \in Nat /\ GroupOf(l) = g /\ Tag(l) = cache[g][w].tag
         /\ WayOf(l) = {w} /\ Hit(l) /\ Min(WayOf(l)) = w
<1>1. cache[g][w].tag \in Nat
  BY DEF CacheInv, CacheShape, EntryOK
<1>2. l \in Nat
  BY <1>1, MemoryAssumption, SMT
<1>3. GroupOf(l) = g /\ Tag(l) = cache[g][w].tag
  BY <1>1, LineNumber
<1>4. WayOf(l) = {w}
  <2>1. w \in WayOf(l)
    BY <1>3 DEF WayOf, WaysSearched
  <2>2. ASSUME NEW x \in WayOf(l) PROVE x = w
    BY <1>3 DEF WayOf, WaysSearched, CacheInv, CacheShape, OneWayPerLine
  <2> QED
    BY <2>1, <2>2
<1>5. Min({w}) = w
  BY SMT DEF Min
<1> QED
  BY <1>2, <1>3, <1>4, <1>5 DEF Hit

\* A line that is not held is brought in as memory holds it.
LEMMA FillKeeps ==
  ASSUME CacheInv, NEW l \in Nat, \A k \in 0 .. LineSize - 1 : l * LineSize + k \in Addrs,
         ~Hit(l), Fill(l), UNCHANGED ram
  PROVE  CacheInv'
<1> DEFINE g == GroupOf(l)
<1> DEFINE new == [valid |-> TRUE, tag |-> Tag(l), block |-> LineOfRam(l)]
<1>1. g \in 0 .. Groups - 1 /\ Tag(l) \in Nat /\ Tag(l) * Groups + g = l
  BY LineNumber
<1>2. PICK w : cache' = [cache EXCEPT ![g][w] = new] /\ torn' = torn \ {l}
  BY DEF Fill
<1>3. \A x \in 0 .. Ways - 1 : ~(cache[g][x].valid /\ cache[g][x].tag = Tag(l))
  BY DEF Hit, WayOf, WaysSearched
<1> HIDE DEF new
<1>4. /\ DOMAIN cache' = 0 .. Groups - 1
      /\ \A h \in 0 .. Groups - 1 :
           /\ DOMAIN cache'[h] = 0 .. Ways - 1
           /\ \A x \in 0 .. Ways - 1 : cache'[h][x] = IF h = g /\ x = w THEN new ELSE cache[h][x]
  BY <1>1, <1>2 DEF CacheInv, CacheShape
<1>5. new.valid /\ new.tag = Tag(l) /\ new.block = LineOfRam(l) /\ DOMAIN new = {"valid", "tag", "block"}
  BY DEF new
<1>6. EntryOK(new, g)
  BY <1>1, <1>5 DEF EntryOK, LineOfRam
<1>7. CacheShape'
  BY <1>4, <1>6 DEF CacheInv, CacheShape
<1>8. OneWayPerLine'
  <2>1. SUFFICES ASSUME NEW h \in 0 .. Groups - 1, NEW x \in 0 .. Ways - 1, NEW y \in 0 .. Ways - 1,
                        cache'[h][x].valid, cache'[h][y].valid, cache'[h][x].tag = cache'[h][y].tag
                 PROVE  x = y
    BY <1>4, Zenon DEF OneWayPerLine
  <2>2. ASSUME NEW z \in 0 .. Ways - 1, z # w, h = g
        PROVE  ~(cache'[h][z].valid /\ cache'[h][z].tag = Tag(l))
    BY <1>3, <1>4, <2>2
  <2>3. CASE h = g /\ (x = w \/ y = w)
    BY <1>4, <1>5, <2>1, <2>2, <2>3
  <2>4. CASE ~(h = g /\ (x = w \/ y = w))
    <3>1. cache'[h][x] = cache[h][x] /\ cache'[h][y] = cache[h][y]
      BY <1>4, <2>4
    <3> QED
      BY <2>1, <3>1 DEF CacheInv, CacheShape, OneWayPerLine
  <2> QED
    BY <2>3, <2>4
<1>9. CacheCoherent'
  <2>1. \A m : LineOfRam(m)' = LineOfRam(m)
    BY DEF LineOfRam
  <2>2. SUFFICES ASSUME NEW h \in 0 .. Groups - 1, NEW x \in 0 .. Ways - 1, cache'[h][x].valid
                 PROVE  LET c == cache'[h][x]
                            m == c.tag * Groups + h
                        IN  c.block = LineOfRam(m) \/ m \in torn'
    BY <1>4, <2>1 DEF CacheCoherent
  <2>3. CASE h = g /\ x = w
    BY <1>1, <1>4, <1>5, <2>3
  <2>4. CASE ~(h = g /\ x = w)
    <3> DEFINE m == cache[h][x].tag * Groups + h
    <3>1. cache'[h][x] = cache[h][x]
      BY <1>4, <2>4
    <3>2. m # l
      <4>1. GroupOf(m) = h /\ Tag(m) = cache[h][x].tag
        BY <2>2, <3>1, OneWay
      <4> QED
        BY <1>3, <2>2, <3>1, <4>1
    <3> QED
      BY <1>2, <2>2, <3>1, <3>2 DEF CacheInv, CacheShape, CacheCoherent
  <2> QED
    BY <2>3, <2>4
<1> QED
  BY <1>7, <1>8, <1>9 DEF CacheInv

\* A store changes memory and the copies alike, or the line is torn.
LEMMA CacheStoreKeeps ==
  ASSUME CacheInv, NEW p \in Addrs, NEW len \in 1 .. LineSize, p + len - 1 \in Addrs,
         NEW data, Len(data) = len, DOMAIN data = 1 .. len,
         CacheStore(p, data), ram' = Stored(ram, 0, p, data)
  PROVE  CacheInv'
<1> DEFINE first == LineOf(p)
<1> DEFINE last  == LineOf(p + Len(data) - 1)
<1> DEFINE Updated(l) == Hit(l) /\ (l = first \/ (l = last /\ UpdatesSecond(p)))
<1> DEFINE L(g, w) == cache[g][w].tag * Groups + g
<1>1. \A x \in Addrs : ram'[x] = IF x - p + 1 \in 1 .. len THEN data[x - p + 1] ELSE ram[x]
  <2>1. \A x \in Addrs : x \in Int /\ p \in Int /\ 0 + x - p + 1 = x - p + 1
    BY MemoryAssumption, SMT DEF Addrs
  <2>2. \A x \in Addrs : ram'[x] = IF 0 + x - p + 1 \in DOMAIN data THEN data[0 + x - p + 1] ELSE ram[x]
    BY DEF CacheInv, CacheShape, Stored
  <2> QED
    BY <2>1, <2>2, Zenon
<1>2. DOMAIN ram' = Addrs
  BY DEF CacheInv, CacheShape, Stored
<1>3. ASSUME NEW g \in 0 .. Groups - 1, NEW w \in 0 .. Ways - 1
      PROVE  cache'[g][w] = IF Updated(L(g, w)) /\ w = Min(WayOf(L(g, w)))
                            THEN [cache[g][w] EXCEPT !.block = Stored(@, L(g, w) * LineSize, p, data)]
                            ELSE cache[g][w]
  BY Zenon DEF CacheInv, CacheShape, CacheStore
<1>4. /\ DOMAIN cache' = 0 .. Groups - 1
      /\ \A g \in 0 .. Groups - 1 : DOMAIN cache'[g] = 0 .. Ways - 1
  BY DEF CacheInv, CacheShape, CacheStore
<1>5. torn \subseteq torn' /\ (Hit(last) /\ ~Hit(first) => last \in torn')
  BY DEF CacheStore
<1> HIDE DEF Updated
<1>6. ASSUME NEW g \in 0 .. Groups - 1, NEW w \in 0 .. Ways - 1
      PROVE  /\ cache'[g][w].valid = cache[g][w].valid /\ cache'[g][w].tag = cache[g][w].tag
             /\ DOMAIN cache'[g][w] = {"valid", "tag", "block"}
             /\ cache[g][w].valid => DOMAIN cache'[g][w].block = 0 .. LineSize - 1
  <2>1. EntryOK(cache[g][w], g)
    BY DEF CacheInv, CacheShape
  <2>2. DOMAIN Stored(cache[g][w].block, L(g, w) * LineSize, p, data) = DOMAIN cache[g][w].block
    BY DEF Stored
  <2> HIDE DEF L
  <2>3. CASE cache'[g][w] = cache[g][w]
    BY <2>1, <2>3 DEF EntryOK
  <2>4. CASE cache'[g][w] = [cache[g][w] EXCEPT !.block = Stored(@, L(g, w) * LineSize, p, data)]
    BY <2>1, <2>2, <2>4 DEF EntryOK
  <2> QED
    BY <1>3, <2>3, <2>4
<1>7. CacheShape'
  BY <1>2, <1>4, <1>6 DEF CacheInv, CacheShape, EntryOK
<1>8. OneWayPerLine'
  <2>1. SUFFICES ASSUME NEW h \in 0 .. Groups - 1, NEW x \in 0 .. Ways - 1, NEW y \in 0 .. Ways - 1,
                        cache'[h][x].valid, cache'[h][y].valid, cache'[h][x].tag = cache'[h][y].tag
                 PROVE  x = y
    BY <1>4, Zenon DEF OneWayPerLine
  <2>2. cache[h][x].valid /\ cache[h][y].valid /\ cache[h][x].tag = cache[h][y].tag
    BY <1>6, <2>1
  <2>3. OneWayPerLine /\ DOMAIN cache = 0 .. Groups - 1 /\ DOMAIN cache[h] = 0 .. Ways - 1
    BY DEF CacheInv, CacheShape
  <2> QED
    BY <2>2, <2>3, Zenon DEF OneWayPerLine
<1>9. CacheCoherent'
  <2>1. SUFFICES ASSUME NEW g \in 0 .. Groups - 1, NEW w \in 0 .. Ways - 1, cache[g][w].valid
                 PROVE  cache'[g][w].block = [k \in 0 .. LineSize - 1 |-> ram'[L(g, w) * LineSize + k]]
                          \/ L(g, w) \in torn'
    BY <1>4, <1>6, ZenonT(30) DEF CacheCoherent, LineOfRam
  <2> DEFINE l == L(g, w)
  <2>2. /\ l \in Nat /\ Hit(l) /\ Min(WayOf(l)) = w
        /\ \A k \in 0 .. LineSize - 1 : l * LineSize + k \in Addrs
        /\ DOMAIN cache[g][w].block = 0 .. LineSize - 1
    BY <2>1, OneWay DEF CacheInv, CacheShape, EntryOK
  <2>3. cache[g][w].block = LineOfRam(l) \/ l \in torn
    BY <2>1 DEF CacheInv, CacheShape, CacheCoherent
  <2> HIDE DEF l
  <2>4. CASE l \in torn
    BY <1>5, <2>4 DEF l
  <2>5. CASE cache[g][w].block = LineOfRam(l) /\ Updated(l)
    <3>1. cache'[g][w].block = Stored(LineOfRam(l), l * LineSize, p, data)
      <4>1. cache'[g][w] = [cache[g][w] EXCEPT !.block = Stored(@, l * LineSize, p, data)]
        BY <1>3, <2>2, <2>5 DEF l
      <4>2. "block" \in DOMAIN cache[g][w]
        BY DEF CacheInv, CacheShape, EntryOK
      <4> QED
        BY <2>5, <4>1, <4>2
    <3>2. ASSUME NEW k \in 0 .. LineSize - 1
          PROVE  Stored(LineOfRam(l), l * LineSize, p, data)[k] = ram'[l * LineSize + k]
      <4> DEFINE b == l * LineSize
      <4>1. b \in Nat /\ b + k \in Addrs /\ p \in Int
        <5>1. LineSize \in Nat /\ l \in Nat
          BY <2>2, MemoryAssumption
        <5>2. b \in Nat
          BY <5>1, SMT
        <5>3. b + k \in Addrs
          BY <2>2
        <5>4. p \in Int
          BY DEF Addrs
        <5> QED
          BY <5>2, <5>3, <5>4
      <4>2. LineOfRam(l)[k] = ram[b + k] /\ DOMAIN LineOfRam(l) = 0 .. LineSize - 1
        BY DEF LineOfRam
      <4> HIDE DEF b
      <4>3. b + k - p + 1 = (b + k) - p + 1
        BY <4>1, SMT
      <4>4. Stored(LineOfRam(l), b, p, data)[k] =
              IF b + k - p + 1 \in DOMAIN data THEN data[b + k - p + 1] ELSE LineOfRam(l)[k]
        BY <4>2, Zenon DEF Stored
      <4> QED
        BY <1>1, <4>1, <4>2, <4>3, <4>4, Zenon DEF b
    <3>3. Stored(LineOfRam(l), l * LineSize, p, data) = [k \in 0 .. LineSize - 1 |-> ram'[l * LineSize + k]]
      BY <3>2 DEF Stored, LineOfRam
    <3> QED
      BY <3>1, <3>3, Zenon DEF l
  <2>6. CASE cache[g][w].block = LineOfRam(l) /\ ~Updated(l)
    <3>1. cache'[g][w].block = LineOfRam(l)
      BY <1>3, <2>6, Zenon DEF l
    <3>2. l # first /\ (l = last => ~Hit(first))
      BY <2>2, <2>6, Zenon DEF Updated, UpdatesSecond
    <3>3. CASE l = last
      BY <1>5, <2>2, <3>2, <3>3 DEF l
    <3>4. CASE l # last
      <4>1. ASSUME NEW k \in 0 .. LineSize - 1
            PROVE  ram'[l * LineSize + k] = ram[l * LineSize + k]
        <5> DEFINE x == l * LineSize + k
        <5>1. x \in Addrs /\ x \in Int /\ p \in Int
          BY <2>2 DEF Addrs
        <5>2. x \notin p .. p + len - 1
          BY <2>2, <3>2, <3>4, TwoLines
        <5> HIDE DEF x
        <5>3. x - p + 1 \notin 1 .. len
          BY <5>1, <5>2, SMT
        <5>4. ram'[x] = ram[x]
          BY <1>1, <5>1, <5>3, Zenon
        <5> QED
          BY <5>4 DEF x
      <4> QED
        BY <3>1, <4>1, Zenon DEF LineOfRam, l
    <3> QED
      BY <3>3, <3>4
  <2> QED
    BY <2>3, <2>4, <2>5, <2>6
<1> QED
  BY <1>7, <1>8, <1>9 DEF CacheInv

-----------------------------------------------------------------------------
\* The physical address of a mapped page is in memory.
LEMMA PhysicalInMemory ==
  ASSUME TlbInv, NEW v \in Pages, Mapped(v), NEW off \in 0 .. PageSize - 1
  PROVE  Physical(v, off) \in Addrs
<1>1. Translate(v) \in 0 .. Frames - 1 /\ Frames \in Nat /\ PageSize \in Nat
  BY Framed, MemoryAssumption DEF FrameNos
<1>2. ASSUME NEW f \in 0 .. Frames - 1
      PROVE  f * PageSize + off \in 0 .. Frames * PageSize - 1
  <2>1. (f + 1) * PageSize <= Frames * PageSize
    BY <1>1, SMT
  <2>2. (f + 1) * PageSize = f * PageSize + PageSize /\ f * PageSize \in Nat /\ Frames * PageSize \in Nat
    BY <1>1, SMT
  <2> QED
    BY <1>1, <2>1, <2>2
<1> QED
  BY <1>1, <1>2 DEF Physical, Addrs

\* A build without the cache never fills it.
Unused == ~build.cache => \A g \in DOMAIN cache : \A w \in DOMAIN cache[g] : ~cache[g][w].valid

\* Only a build with the cache fills it.
LEMMA UnusedNext ==
  ASSUME Unused, [Next]_vars
  PROVE  Unused'
<1>1. CASE UNCHANGED <<build, cache>>
  BY <1>1 DEF Unused
<1>2. ASSUME NEW v, NEW off, NEW len, Load(v, off, len) \/ Store(v, off, len)
      PROVE  Unused'
  <2>1. build' = build /\ (build.cache \/ UNCHANGED cache)
    BY <1>2, Zenon DEF Load, Store
  <2> QED
    BY <1>1, <2>1 DEF Unused
<1> QED
  BY <1>1, <1>2 DEF Next, Access, Kernel, EnterUser, MmMalloc, Device, mmuVars, vars

\* The empty cache of init_cache satisfies the invariant.
LEMMA CacheInvInit == Init => CacheInv /\ Unused
<1> SUFFICES ASSUME Init PROVE CacheInv /\ Unused
  OBVIOUS
<1>1. /\ DOMAIN ram = Addrs /\ DOMAIN cache = 0 .. Groups - 1
      /\ \A g \in 0 .. Groups - 1 : /\ DOMAIN cache[g] = 0 .. Ways - 1
                                    /\ \A w \in 0 .. Ways - 1 : cache[g][w] = EmptyLine
  BY DEF Init
<1>2. ~EmptyLine.valid /\ DOMAIN EmptyLine = {"valid", "tag", "block"}
  BY DEF EmptyLine
<1>3. CacheShape
  BY <1>1, <1>2, Zenon DEF CacheShape, EntryOK
<1>4. \A g \in DOMAIN cache : \A w \in DOMAIN cache[g] : ~cache[g][w].valid
  BY <1>1, <1>2, Zenon
<1>5. OneWayPerLine
  BY <1>4, Zenon DEF OneWayPerLine
<1>6. CacheCoherent
  BY <1>4, Zenon DEF CacheCoherent
<1>7. Unused
  BY <1>4, Zenon DEF Unused
<1> QED
  BY <1>3, <1>5, <1>6, <1>7 DEF CacheInv

\* Every access keeps the invariant, whether it hits, fills or stores over two lines.
LEMMA CacheInvNext ==
  ASSUME TlbInv, CacheInv, Unused, [Next]_vars
  PROVE  CacheInv'
<1>1. CASE UNCHANGED <<ram, cache, torn>>
  BY <1>1 DEF CacheInv, CacheShape, OneWayPerLine, CacheCoherent, LineOfRam
<1>2. ASSUME NEW v \in Pages, NEW off \in 0 .. PageSize - 1, NEW len \in Lengths,
             Load(v, off, len)
      PROVE  CacheInv'
  <2> DEFINE p == Physical(v, off)
  <2>1. p \in Addrs /\ p + len - 1 \in Addrs /\ UNCHANGED ram
    BY <1>2, PhysicalInMemory DEF Load, Fits
  <2>2. CASE \E l \in Missing(p, len) : Fill(l)
    <3>1. PICK l \in Missing(p, len) : Fill(l)
      BY <2>2
    <3>2. ~Hit(l) /\ (l = LineOf(p) \/ l = LineOf(p + len - 1))
      <4> DEFINE a == LineOf(p)
      <4> DEFINE b == LineOf(p + len - 1)
      <4> DEFINE absent == {x \in {a, b} : ~Hit(x)}
      <4>1. a \in Nat /\ b \in Nat
        BY <2>1, LineInMemory
      <4>2. absent # {} /\ l = Min(absent)
        BY Zenon DEF Missing
      <4> HIDE DEF a, b
      <4>3. \E x \in absent : \A y \in absent : x <= y
        BY <4>1, <4>2, SMT
      <4>4. Min(absent) \in absent
        BY <4>3, Zenon DEF Min
      <4> QED
        BY <4>2, <4>4 DEF a, b
    <3>3. l \in Nat /\ \A k \in 0 .. LineSize - 1 : l * LineSize + k \in Addrs
      BY <2>1, <3>2, LineInMemory
    <3> QED
      BY <2>1, <3>1, <3>2, <3>3, FillKeeps
  <2>3. CASE UNCHANGED <<cache, torn>>
    BY <1>1, <2>1, <2>3
  <2> QED
    BY <1>2, <2>2, <2>3, Zenon DEF Load
<1>3. ASSUME NEW v \in Pages, NEW off \in 0 .. PageSize - 1, NEW len \in Lengths,
             Store(v, off, len)
      PROVE  CacheInv'
  <2> DEFINE p    == Physical(v, off)
  <2> DEFINE data == Data(stores, len)
  <2>1. p \in Addrs /\ p + len - 1 \in Addrs
    BY <1>3, PhysicalInMemory DEF Store, Fits
  <2>2. CASE InWindow(p)
    BY <1>1, <1>3, <2>2, Zenon DEF Store
  <2>3. CASE ~InWindow(p) /\ build.cache
    <3>1. ram' = Stored(ram, 0, p, data) /\ CacheStore(p, data)
      BY <1>3, <2>3, Zenon DEF Store
    <3>2. len \in 1 .. LineSize /\ len \in Nat
      BY MemoryAssumption
    <3>3. DOMAIN data = 1 .. len
      BY Zenon DEF Data
    <3>4. Len(data) = len
      BY <3>2, LenOf DEF Data
    <3> HIDE DEF p, data
    <3> QED
      BY <2>1, <3>1, <3>2, <3>3, <3>4, CacheStoreKeeps
  <2>4. CASE ~InWindow(p) /\ ~build.cache
    <3>1. ram' = Stored(ram, 0, p, data) /\ UNCHANGED <<cache, torn>>
      BY <1>3, <2>4, Zenon DEF Store
    <3>2. DOMAIN ram' = Addrs
      BY <3>1 DEF CacheInv, CacheShape, Stored
    <3>3. \A g \in DOMAIN cache : \A w \in DOMAIN cache[g] : ~cache[g][w].valid
      BY <2>4 DEF Unused
    <3> HIDE DEF p, data
    <3>4. CacheShape' /\ OneWayPerLine'
      BY <3>1, <3>2, Zenon DEF CacheInv, CacheShape, OneWayPerLine
    <3>5. CacheCoherent'
      BY <3>1, <3>3, Zenon DEF CacheCoherent
    <3> QED
      BY <3>4, <3>5 DEF CacheInv
  <2> QED
    BY <2>2, <2>3, <2>4
<1>4. build.pages \subseteq Pages
  BY MemoryAssumption DEF TlbInv
<1>5. CASE Access
  BY <1>2, <1>3, <1>4, <1>5 DEF Access
<1>6. CASE Kernel
  BY <1>1, <1>6 DEF Kernel, EnterUser, MmMalloc
<1>7. CASE Device
  BY <1>1, <1>7 DEF Device, mmuVars
<1>8. CASE UNCHANGED vars
  BY <1>1, <1>8 DEF vars, mmuVars
<1> QED
  BY <1>5, <1>6, <1>7, <1>8 DEF Next

\* For every cache: a line is held by one way.
THEOREM LineHeldOnce == Spec => []OneWayPerLine
<1>1. TlbInv /\ CacheInv /\ Unused /\ [Next]_vars => CacheInv' /\ Unused' /\ TlbInv'
  BY CacheInvNext, UnusedNext, TlbInvNext
<1>2. CacheInv => OneWayPerLine
  BY DEF CacheInv
<1> QED
  BY <1>1, <1>2, CacheInvInit, TlbInvInit, PTL DEF Spec

\* For every cache: what a valid line holds is what memory holds, unless a store
\* over two lines missed it.
THEOREM CacheIsCoherent == Spec => []CacheCoherent
<1>1. TlbInv /\ CacheInv /\ Unused /\ [Next]_vars => CacheInv' /\ Unused' /\ TlbInv'
  BY CacheInvNext, UnusedNext, TlbInvNext
<1>2. CacheInv => CacheCoherent
  BY DEF CacheInv
<1> QED
  BY <1>1, <1>2, CacheInvInit, TlbInvInit, PTL DEF Spec

-----------------------------------------------------------------------------
\* A held line that is not torn has memory's bytes.
LEMMA HeldByte ==
  ASSUME CacheInv, NEW q \in Addrs, Hit(LineOf(q)), LineOf(q) \notin torn
  PROVE  Block(LineOf(q))[q % LineSize] = ram[q]
<1> DEFINE l == LineOf(q)
<1>1. /\ l \in Nat /\ q % LineSize \in 0 .. LineSize - 1
      /\ q = l * LineSize + (q % LineSize)
  <2>1. q \in Nat /\ LineSize \in Nat \ {0}
    BY MemoryAssumption DEF Addrs
  <2> QED
    BY <2>1, DivMod DEF LineOf
<1> HIDE DEF l
<1> DEFINE g == GroupOf(l)
<1>2. g \in 0 .. Groups - 1 /\ Tag(l) * Groups + g = l
  BY <1>1, LineNumber
<1>3. PICK w \in 0 .. Ways - 1 : cache[g][w].valid /\ cache[g][w].tag = Tag(l)
  BY DEF Hit, WayOf, WaysSearched, l
<1>4. Min(WayOf(l)) = w
  BY <1>2, <1>3, OneWay
<1>5. cache[g][w].block = LineOfRam(l)
  BY <1>2, <1>3 DEF CacheInv, CacheShape, CacheCoherent, l
<1> QED
  BY <1>1, <1>4, <1>5 DEF Block, LineOfRam, l

\* What TLB and cache give a load is what page tables and memory hold.
LEMMA LoadIsRight ==
  ASSUME TlbInv, CacheInv
  PROVE  LoadsAreRight
<1> SUFFICES ASSUME NEW v \in Pages, NEW off \in 0 .. PageSize - 1, NEW len \in Lengths,
                    Mapped(v), off + len <= PageSize, NEW k \in 0 .. len - 1
             PROVE  LET q == Walk(v) * PageSize + off + k IN
                    \/ LineOf(q) \in torn
                    \/ Value(Physical(v, off), k) = IF InWindow(q) THEN vmem[q - VideoPage * PageSize] ELSE ram[q]
  BY DEF LoadsAreRight
<1> DEFINE f == Walk(v)
<1> DEFINE p == f * PageSize + off
<1> DEFINE q == f * PageSize + off + k
<1>1. Translate(v) = f /\ f \in FrameNos
  BY Framed, TranslateIsWalk
<1>2. /\ PageSize \in Nat \ {0} /\ f \in Nat /\ off \in Nat /\ k \in Nat
      /\ off + k \in 0 .. PageSize - 1 /\ VideoPage \in Nat
  BY <1>1, MemoryAssumption DEF FrameNos
<1>3. p \in Int /\ q \in Int /\ q = p + k
  BY <1>2, SMT
<1>4. /\ p - VideoPage * PageSize \in Vmem <=> f - VideoPage \in 0 .. VgaSize \div PageSize - 1
      /\ q - VideoPage * PageSize \in Vmem <=> f - VideoPage \in 0 .. VgaSize \div PageSize - 1
  <2> DEFINE w == VgaSize \div PageSize
  <2> DEFINE d == f - VideoPage
  <2>1. w \in Nat /\ VgaSize = w * PageSize
    <3>1. VgaSize \in Nat /\ VgaSize % PageSize = 0
      BY VgaAssumption, MemoryAssumption
    <3>2. w \in Nat /\ VgaSize = w * PageSize + (VgaSize % PageSize)
      BY <1>2, <3>1, DivMod
    <3>3. w * PageSize \in Int
      BY <1>2, <3>2, SMT
    <3> HIDE DEF w
    <3> QED
      BY <3>1, <3>2, <3>3, SMT
  <2>2. d \in Int /\ off \in 0 .. PageSize - 1 /\ off + k \in 0 .. PageSize - 1
    BY <1>2, SMT
  <2>3. d * PageSize = f * PageSize - VideoPage * PageSize
    BY <1>2, SMT
  <2>4. f * PageSize \in Int /\ VideoPage * PageSize \in Int
    BY <1>2, SMT
  <2>5. p - VideoPage * PageSize = d * PageSize + off
    <3> HIDE DEF d
    <3> QED
      BY <1>2, <2>3, <2>4, SMT
  <2>6. q - VideoPage * PageSize = d * PageSize + (off + k)
    <3> HIDE DEF d
    <3> QED
      BY <1>2, <2>3, <2>4, SMT
  <2> HIDE DEF w, d, p, q
  <2>7. d * PageSize + off \in 0 .. w * PageSize - 1 <=> d \in 0 .. w - 1
    BY <1>2, <2>1, <2>2, WholePages
  <2>8. d * PageSize + (off + k) \in 0 .. w * PageSize - 1 <=> d \in 0 .. w - 1
    BY <1>2, <2>1, <2>2, WholePages
  <2>9. Vmem = 0 .. w * PageSize - 1
    BY <2>1, Zenon DEF Vmem
  <2> QED
    BY <2>5, <2>6, <2>7, <2>8, <2>9, Zenon DEF d, w
<1>5. q \in Addrs
  <2>1. Physical(v, off + k) \in Addrs
    BY <1>2, PhysicalInMemory
  <2>2. Physical(v, off + k) = q
    BY <1>1, <1>2, SMT DEF Physical
  <2> QED
    BY <2>1, <2>2
<1>6. Physical(v, off) = p
  BY <1>1 DEF Physical
<1> HIDE DEF f, p, q
<1>7. InWindow(p) <=> InWindow(q)
  BY <1>4 DEF InWindow
<1>8. p + k - VideoPage * PageSize = q - VideoPage * PageSize
  <2>1. VideoPage * PageSize \in Int
    BY <1>2, SMT
  <2> QED
    BY <1>2, <1>3, <2>1, SMT
<1>9. Value(p, k) = (IF InWindow(q) THEN vmem[q - VideoPage * PageSize] ELSE ram[q]) \/ LineOf(q) \in torn
  <2>1. CASE build.cache
    <3>1. ~InWindow(q) /\ Value(p, k) = CacheByte(p, k)
      BY <2>1 DEF InWindow, Value
    <3>2. CASE Hit(LineOf(p)) /\ Hit(LineOf(q)) /\ LineOf(q) \notin torn
      BY <1>3, <1>5, <3>1, <3>2, HeldByte DEF CacheByte
    <3>3. CASE ~(Hit(LineOf(p)) /\ Hit(LineOf(q)))
      BY <1>3, <3>1, <3>3 DEF CacheByte
    <3> QED
      BY <3>2, <3>3
  <2>2. CASE ~build.cache
    BY <1>3, <1>7, <1>8, <2>2, Zenon DEF Value
  <2> QED
    BY <2>1, <2>2
<1> QED
  BY <1>6, <1>9, Zenon DEF f, q

\* For every memory, TLB and cache: a load within a page returns, byte for byte,
\* what the page tables and memory say, unless its line is torn.
THEOREM LoadsReturnMemory == Spec => []LoadsAreRight
<1>1. TlbInv /\ CacheInv /\ Unused /\ [Next]_vars => CacheInv' /\ Unused' /\ TlbInv'
  BY CacheInvNext, UnusedNext, TlbInvNext
<1>2. TlbInv /\ CacheInv => LoadsAreRight
  BY LoadIsRight
<1> QED
  BY <1>1, <1>2, CacheInvInit, TlbInvInit, PTL DEF Spec
=============================================================================
