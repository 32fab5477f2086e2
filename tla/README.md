# A verification project for NEMU and its kernel

NEMU is a teaching emulator of an x86 machine (`pa2019_fall/nemu`), with a small
kernel (`pa2019_fall/kernel`), games and test cases that run on it. This directory
holds TLA+ models of the parts whose correctness depends on the order in which
things happen, TLC configurations that check them on small instances, and TLAPS
proofs for all instances. Paths below are relative to `pa2019_fall/` unless they
say `LAB/`.

## 1. Inventory

The program has three layers. **NEMU** is one process: the *CPU thread* runs
`main`, the monitor's prompt and `exec()`, which interprets guest instructions;
*device threads* (timer, keyboard, audio) and SDL's audio callback run beside it.
The **kernel** is guest code; it is sequential except that interrupt handlers
preempt it between two instructions, and each other. The **games** are guest code
whose handlers the kernel calls.

| component | state | operations | interacts with |
|---|---|---|---|
| interrupt controller `nemu/src/device/i8259_pic.c` | `i8259_intr_no` (one slot), `cpu.intr`, a mutex | raise, query (no lock), ack, init, destroy | all device threads and the CPU thread |
| CPU loop `nemu/src/cpu/cpu.c`, `intr.c`, `instr/hlt.c` | `nemu_state`, EFLAGS.IF, `n` | `exec`, `exec_inst`, `do_intr`, `raise_intr`, HLT | controller, monitor; `nemu_state` is written by the keyboard thread too |
| timer, keyboard, SDL `nemu/src/device/dev/{timer,keyboard}.c`, `sdl.c` | `*_active`, `scan_code_buf` | thread loops, start, stop | controller; guest's IN |
| audio `nemu/src/device/dev/audio.c` | two chunks, their lengths, ready flags and mutexes, play and fill index, `switch_buf` | OUT handlers, two copy threads, monitor thread, SDL callback | controller, guest memory |
| VGA `dev/vga.c`, serial `dev/serial.c` | dirty lines, palette; none | memory and port handlers, redraw | CPU thread |
| IDE device `dev/ide.c`, ports `device/io/port_io.c` | port bytes, `sector`, `byte_cnt`, `ide_write`, file position, image | command, data in, data out | controller; kernel's driver |
| kernel IDE driver `kernel/src/driver/ide/` | sector cache, `has_ide_intr`, `counter` | `ide_read`, `ide_write`, `cache_fetch`, `disk_do_read/write`, handlers of timer and IDE | device, `irq_handle` |
| kernel interrupts `kernel/src/irq/`, system calls `syscall/` | IDT, handler pool and lists | `add_irq_handle`, `irq_handle`, `do_syscall` | driver, games |
| kernel memory, loader, files `kernel/src/{memory,elf,fs}` | page tables, `mm_brk`, file table | start-up, `brk`, open, read, lseek | IDE driver |
| monitor `nemu/src/monitor/{ui,breakpoint}.c` | pool of 32 records in two linked lists, bytes patched into guest code | c, si, b, w, d, q; exec's break handling | CPU loop, guest memory |
| expressions, symbols `monitor/{expr,elf}.c` | token array, symbol table | `expr`, lookup | monitor |
| memory `nemu/src/memory/` | main memory, L1 cache, TLB, segment caches | physical, linear and virtual read and write, translate | CPU, devices |
| ALU, FPU, decoding `nemu/src/cpu/` | registers, flags | one function per instruction | CPU loop |
| typing, credits `game/src/{typing,credits}` | key states, tick counters, falling characters | handlers, main loops | kernel handlers, audio port |
| nemu-pal, newlib, nemu-ref, test cases, `LAB/` | - | - | third-party, prebuilt, inputs, or other course work |

What makes each component correct:

* **controller and CPU loop**: `do_intr` never takes an interrupt that is not
  there, the highest irq wins, the IDE's interrupt is never lost, a CPU in HLT
  wakes up, a closed window ends the process, nobody uses the mutex after it was
  destroyed;
* **disk path**: a read returns what is on the disk or was written last, whatever
  ticks interrupt it; the device's assertions hold; a call returns; the periodic
  write-back is periodic;
* **monitor**: the guest does not notice breakpoints; a breakpoint once set is
  there every time the guest passes it; no record of the pool is lost;
* **audio**: the pieces a guest writes are played in order and once, the callback
  never plays the chunk the guest fills, a chunk that is declared ready is whole,
  the sound does not stall, a stopped NEMU closes;
* **memory**: a load returns what page tables and memory hold, whichever way it
  goes through TLB and L1 cache; **VGA**: the screen shows video memory;
* **ALU, FPU, expressions**: they compute what arithmetic says;
* **typing**: no tick is lost, the loop catches up with the ticks, a stroke hits a
  falling letter, the pool of letters does not run out.

The hard behaviours are interleavings of NEMU's threads (unlocked reads,
check-then-act on `nemu_state`, a destroyed mutex), nested handlers in the kernel
(NEMU *sets* IF when it enters an interrupt gate, `intr.c:16`), and long
sequences of monitor commands. There is no network and nothing is persisted, so
messages are not lost in transit and there is no recovery after a crash.
`PROJECT.json` lists the hazards line by line.

## 2. Plan

Done, the most important behaviour first:

1. `IrqMailbox`, `IrqPath`, `IrqPath_proofs`: NEMU's threads, interrupts, life cycle
2. `BlockStore`, `IdeStack`, `IdeStack_proofs`: device, driver, sector cache, nested handlers. It
   composes with `IrqMailbox`, which `IrqPath` is proved to implement, instead of
   repeating its threads; so does `Audio`
3. `BpRegistry`, `BpPool`, `GuestRun`, `Monitor`, `Monitor_proofs`: breakpoints and
   watchpoints
4. `AudioFeed`, `Audio`, `Audio_proofs`: the audio device with the credits as guest
5. `Vga`, `Memory` (which extends `Vga`), `Memory_proofs`
6. `Powers`, `Alu`, `Alu_proofs`, `Fpu`, `Fpu_proofs`, `Expr`: pure functions, checked at a small
   width and, but for `Expr`, proved for every width
7. `Typing`, `Typing_proofs`: the typing game on its two handlers and the keyboard's buffer

What remains worth doing: the x87 register stack and `fpu_cmp`; the symbol table's
lookup in `monitor/elf.c`.

## 3. The modules

### IrqMailbox, IrqPath

`IrqMailbox` is the promise: devices request vectors, the CPU delivers one that
was requested since the previous delivery, never passing over the top one; a
delivery discards the other requests.

`IrqPath` is the code. Each thread has a `pc`; a step is one access to a variable
two threads share, in the order the optimised build performs them (slot before
`cpu.intr`, both inside the mutex).

| code | definitions |
|---|---|
| `i8259_raise_intr`, by any thread | `RaiseLock`, `RaiseCompare` (with `Wins`), `RaiseStore` (with `SlotOf`), `RaiseIntr`, `RaiseUnlock`; `RaiseLockDestroyed` if the mutex was destroyed |
| `i8259_query_intr_no`, `i8259_ack_intr` | `Query`, `AckLock`, `AckSlot`, `AckIntr`, `AckUnlock` |
| `exec` | `Command`, `LoopTest`, `ExecInst(k)`, `ScanWatchpoint`, `AfterLoop`, `SetReady` |
| `do_intr`, `raise_intr` | `DoIntr`, `Query` ..., `Vector` |
| `hlt` | `ExecInst("hlt")`, `HltWake` |
| timer, keyboard, audio monitor threads | `TimerIntr`, `KeyEvent`, `KeyboardQuit`, `KeyboardEnd`, `AudioSwitch` |
| prompt, `close_sdl`, end of `main` | `CmdQuit`, `UiTest`, `CloseSdl`, `Exit` |

A raise reads the slot in one step and stores it in another, so that only the mutex keeps
two threads from both finding it lower than their own irq. `HighestWins` is therefore
about the slot while the mutex exists: after `i8259_destroy` a thread that is let into
the critical section can overwrite a higher irq, and nothing is delivered any more.

The guest is any sequence of the kinds of instruction that matter to the path. `exec(-1)`,
which is 2^32 - 1 instructions, is taken to be endless.
`pending` and `delivered` are history variables, read by no guard; `pending` is the mailbox's
`req` in the refinement mapping. Locking a destroyed mutex is undefined behaviour and modelled as
either outcome a freed mutex can show: the call succeeds, or it fails and the loop's test of
`NEMU_STOP` returns. A thread started by `SDL_CreateThread` is there from `Init` on; the audio
monitor, which the guest starts, is inactive until `ExecInst("audio_ctl")`.

### BlockStore, IdeStack

`BlockStore` is a map from sectors and offsets to words with `Read` and `Write`.

`IdeStack` has one stack of contexts (client below, handlers above), because the
kernel has one CPU; each context has its `pc` and the locals it works with. A
step is one access to something that two contexts share: a word of the cache, one
of its three fields, `has_ide_intr`, `counter` (load, store and re-load, as the
kernel is built without optimisation), or one port access. A port access runs
NEMU's handler in the same step, since the CPU thread executes the handler inside
the instruction. `At(label)` holds only with no interrupt pending: `do_intr` runs
after every instruction. The IDE's handler, the timer's handler and `iret` are
contexts of their own, so that a tick can interrupt a handler. `StoreView` is the
refinement mapping: the slot's words if it holds the sector, the disk's if not.

`ide_write` has no caller in the kernel at this commit, and the image is opened
`"rb"` (`ide.c:15`), so nothing ever reaches the file. The runs with writes set `FileMode` to
`"r+b"`: they are about the driver and cache a client that writes would get.
They hold under a restriction that the code needs, `Serialised`: a client that
writes has no ticks, or only one sector is in play. Otherwise the periodic
write-back can interrupt `cache_fetch` in the middle of a sector, send its own command
to the device and make the interrupted read fail `assert(!ide_write)`, or spin in
`waitdisk` on a busy port that only the interrupted context could release. `Serialised`
also excludes a client that writes an image opened `"rb"`: its write-back marks slots
clean whose words never reached the file. Every use of the run meets it (`MCIdeStack`
asserts that), and the theorems have it as their hypothesis.

### BpRegistry, BpPool, GuestRun, Monitor

`BpPool` follows the pointers (`next`, `head`, `free_`, `in_use`) of
`breakpoint.c`; `BpRegistry` is two sequences. `Monitor` adds the records, the
guest's code bytes, the commands and one iteration of `exec()`'s loop per step:
everything runs in the CPU thread. `GuestRun` is the same guest without a
monitor. Interrupts are left out (`IrqPath` has them), and instructions are one
byte long; a watchpoint's expression is a guest variable with two values. An aborted NEMU
(`assert(free_ != NULL)`) is the state `at = "aborted"`. `Walk` follows the pointers from `head`;
`Live` is the set of records it meets, and `First` the one of some records that a
search along the list (`find_breakpoint`, `scan_watchpoint`) comes upon.

`si` and `c` differ only in `n`. That is enough for a difference the user sees: if
the last step of `si` hits a breakpoint, `exec()` replaces `NEMU_BREAK` by
`NEMU_READY` and the breakpoint is not armed again. `ArmedWhileRunning` is
therefore about `c`. The properties name the other things the code does not do well:

* a second watchpoint on the same value is found late and stops another step, where
  it hides a breakpoint or a trap (`OneWatchpoint`);
* a deleted breakpoint leaves its INT3 in the code (`NoDeletion`);
* a second breakpoint, armed again while the first is still armed, has INT3 for its
  original byte (`OneBreakpoint`, and the run that finds it);
* a guest that stops at a BREAK_POINT of its own is the same case with one breakpoint:
  `exec()` arms it again (`breakpoint.c:204`) although it was never restored
  (`BreaksItself`).

Only `CodeIntact` needs the last two: where its byte is lost the guest breaks again and
again, but it computes nothing wrong.

### AudioFeed, Audio

`AudioFeed` is the promise: one piece is played while at most one is waiting;
pieces are played in the order they were written, each once. `Audio` is
`audio.c`, with `main_loop` and `audio_event` of the credits as the guest.

| code | definitions |
|---|---|
| `audio_io_handler`, port `AUDIO_CTL` | `AudioCtl`, `StartPlaying` |
| port `AUDIO_DATA`, `copy_audio_data` | `LoadMutex`, `LockFill`, `CreateWorkers`, `RewindLoop`, `JoinWorkers`, `UnlockFill` |
| `AUDIO_CP_Thread` | `ReadIdx`, `Copy` |
| `AUDIO_Monitor_Thread` | `RaiseIntr`, `ClearSwitch`, `MonitorEnd` |
| `fill_audio` | `LockPlay`, `LockNext`, `Poll`, `Switch`, `RequestNext`, `Mix` |
| credits: loop, handler | `TestReload`, `Fread`, `ClearReload`, `DoIntr` |
| `audio_stop`, NEMU's states | `AudioStop`, `CloseAudio`, `StateChange` |
| timer and keyboard threads | `RaiseOther` |

The samples' values are left out: a chunk is the set of its bytes that were
copied from the piece. `token` is a history variable that follows the request for
the next piece from `switch_buf` through the interrupt to `audio_reload`, and is
"lost" when one of four places discards it: `ClearSwitch` after a raise, the IDE's
interrupt that displaces it in the slot, an acknowledge after `do_intr` had queried the timer's or
the keyboard's vector (`cpu.c:143-146`; the mailbox has both as a delivery that discards
the others), `ClearReload`. `StallsOnlyByLoss` says that there is no
other way for the sound to stop; it does stop in those four. `RaiseOther` is the timer's and
keyboard's requests: they matter here for what they discard, and for waking the loop's HLT,
which `TestReload` takes for granted.

### Vga, Memory

`Vga` has one step per access to a mark, a flag or a line. Two stores are
forgotten on the screen: one that runs into the next line (only the line of its
first byte is marked) and one between the drawing of its line and the `memset` of
the marks. `unmarked` names these rows, and `ScreenCurrent` and `ShownEventually` say
that there are no others.

`Memory` extends it with the path of a guest's access: `Translate` and `TlbFill`
(`page_translate`, `tlb.c`), `CacheByte`, `Fill` and `CacheStore` (`cache.c`),
`InWindow` (`is_mmio`), `Load` and `Store` for a length at an offset of a page. The
page tables are `init_page`'s, `init_mm`'s and the loader's, as a function from page
to frame; `EnterUser` maps the screen's pages of the window (`VideoPages`, 16 of the 32 in
the code) and switches CR3, which flushes nothing. `build` is
`config.h`: with or without cache and TLB. `torn` names the lines that
`cache_write` leaves stale: a store over two lines of which only the second is
cached. An access over the end of a page (`memory.c:62`) goes on in the next frame;
`LoadsAreRight` is about the others.

### Alu, Fpu, Expr

The operators follow the C functions; the width is a parameter, and everything
has two readings: the code's, and the one of arithmetic on integers that the
properties state. `Alu`'s carry and overflow come from comparisons of
sign-extended words, as in the code. `Powers` has the powers of two that C's shifts
multiply and divide by. `Fpu` is `internal_normalize` and the four
operations on patterns with F fraction and E exponent bits, with the dividend shifted to the top of a
word of `SigBits` bits (23, 8 and 64 in the code); `FpuRight` says that a
result is the nearest number, and names two cases the code gets wrong: a result
that rounding carries from the denormals into the normals comes out as zero
(`fpu.c:118`), and a product whose exponent starts at 0 is taken for a sum of
denormals (`fpu.c:107`). `Expr` prints an expression tree as tokens and evaluates them the
way `expr.c` does; `ExprRight` names its exceptions too: a prefix operator that
follows another prefix operator or a parenthesis may be read as a binary one, and
a number's text may keep the end of a longer one of an earlier call (`expr.c:131`
copies no terminator). C's undefined cases are kept out by the guards: a shift by the
width, and the division by zero that kills NEMU.

### Typing

One CPU, a stack of contexts with the main loop at the bottom and the two
handlers above it, nested as interrupt gates allow. `tick++` and
`key_code` are loads and stores of their own. Facts about the code that the model
shows and the properties take into account:

* `tick++` loses the ticks that nest in it, so that `tick` is not the number of
  timer interrupts (`game.c:32`) then; it never falls behind `now`;
* the keyboard thread overwrites `scan_code_buf`, `keyboard_event` stores `key_code`
  and reads it again, and another interrupt's delivery discards a key's: each
  loses a stroke;
* `create_new_letter` clears the key of the letter it creates, even when it was
  pressed for another letter of that name;
* `update_keypress` leaves IF cleared when it has found a letter; its caller calls it
  again at once, and the last call sets it;
* a tick between the test of `now == tick` and HLT wakes nobody: the loop makes up
  for it at the next one.

Letters move by one row or `Rise` rows at a time; the random speed of `effect.c:47` is
always the same number, because `(rand() % 1000) / 2000` is an integer division.

## 4. The runs

| run | question | bounds |
|---|---|---|
| `irq_path` | assertion of `do_intr`, mutual exclusion, arbitration, mailbox refinement | one thread per device, the number the program starts; `si 1` and `c`; interrupt, trap and other gates; every kind of instruction |
| `irq_live` | HLT wakes, the run ends, the IDE interrupt is delivered | timer and keyboard, `c`, kernel's gates, no watchpoint |
| `irq_destroyed_mutex` | *violated*: "multi-thread safe" (`timer.c:15`) | as `irq_live` |
| `ide` | assertions, clean slots, the store, every call returns, in three uses: a client that only reads, with ticks; reads and writes with eviction, no ticks; reads and writes with the write-back and ticks nested in ticks | 2 words per sector, 2 slots, write-back every 2 ticks; 3 sectors; 2 sectors that share a slot; 1 sector |
| `ide_counter` | *violated*: "every 1 second" (`ide.c:3`) | a tick inside a tick |
| `monitor` | pool and lists, the guest does not notice, armed while running, no missed change, `c` comes back, in five uses: all commands until the pool runs out, with a guest that breaks by itself; `c` and `si` over a loop and a trap; `c` over an endless loop; two breakpoints, which may share an address; breakpoints set and deleted under `c` | 3 records; 1 or 2 breakpoints and 0 to 2 watchpoints; guests of 3 or 4 instructions |
| `monitor_two_breakpoints` | *violated*: "restore the original opcode" (`cpu.c:78`) | 2 breakpoints |
| `audio` | assertion of `fill_audio`, locks, order of pieces, closing, stalls | requests of timer and keyboard; pieces of 0 and 2 bytes (one for each worker, and the end of the file), callbacks of 1 byte, pieces numbered modulo 3 |
| `audio_copy` | *violated*: "should be already ready" (`audio.c:164`) | the same |
| `memory` | cache, TLB, loads, screen, in three builds: cache only, TLB only, neither | 4 frames of 4 bytes, lines of 2 bytes, 2 groups of 2 ways, 2 TLB entries, a window of 2 pages of which the user gets the one with the screen, 2 rows of 2 columns, accesses of 1 and 2 bytes; 1 or 2 stores |
| `arith` | ALU, FPU and expressions against arithmetic | a word of 4 bits with operands of 2, 3 and 4 bits; 4 fraction and 3 exponent bits and the narrowest dividend, 14 bits, every pair of numbers; expressions with up to two operators, one call after another |
| `typing` | ticks, catching up, strokes, the pool of letters | 1 key, a letter every 2 ticks, 3 rows, 2 handlers on the stack, 2 ticks behind when another one comes, times modulo 6: a tick up to 2 behind `now` is told from one ahead |

Where a run has several uses, they are members of one set and `Init` chooses one: the
properties are the same question asked of different clients. Alternatives that
the code's compile-time switches offer (`build`) are treated alike.

Why the bounds are enough. The controller has one slot and one mutex, and two
contenders besides the CPU thread already give every order of its steps; a cache
slot needs two sectors that compete and a neighbour that does not; two words show
a transfer cut in the middle; a pool of three has a head, a middle and an end to
delete. There are two audio chunks and two workers in the code as well, and three
piece numbers tell the piece that is played, the next and the one after. A line of
the cache that a store straddles needs a store of two bytes, an eviction one line
more than a group has ways; two TLB entries hold a page before and after CR3
changed. A word of 4 bits has carries into and out of every position an operand of
2 or 3 bits has, and the FPU's small format has denormals, normals, both
infinities and a rounding carry at every exponent. In `Typing` two handlers are
enough for one to interrupt the other or itself, and two letters of a name fall at
once. For `IrqPath`, `IdeStack`, `BpPool`, `Monitor`, `Audio`, `Memory`, `Vga`, `Alu`,
`Fpu` and `Typing` the proofs remove the bounds from the safety properties they name.

**Fairness.** `IrqPath`: weak fairness on the CPU thread's steps and on each
thread inside the critical section (the OS schedules every thread), strong
fairness on the two lock operations: a device thread sleeps in `SDL_Delay` (1 or
10 ms) between two raises, which is ages for a waiter. The timer keeps ticking
while NEMU runs. Nothing is assumed of the user, the keyboard, the guest or
watchpoints. `IdeDelivered` is conditional on a guest that reaches `do_intr` with
IF set again and again, which a kernel waiting in `wait_ide_intr` does.
`IdeStack`: strong fairness at each depth of the stack: a handler is over before
the next tick 10 ms later, so the interrupted context runs again and again.
`Monitor`: weak fairness on `exec()`'s loop only. `Audio`: weak fairness on every
thread, strong fairness on the lock the guest waits for, because the callback
releases it and sleeps a millisecond between two tries, and on the guest's own instructions,
because the next tick is 10 ms away when a handler returns and nobody types faster; a user of a stopped NEMU
leaves the prompt. `Memory`: weak fairness on `VGA_Thread` and on the two marks of a store
in progress, since an instruction ends. `Typing`: as `IdeStack`, with strong fairness on the tick
and its delivery: nobody types so fast that no tick gets through. No key has to
be pressed.

## 5. What is proved

`IrqPath_proofs`, for any finite or infinite set of device threads of each kind, any guest and any sequence
of commands (assumptions: the threads are distinct, the sets of gates and step
counts are sane; those of `IrqPath`):

* `NoSpuriousInterrupt`: `do_intr`'s assertion (`cpu.c:145`) never fails;
* `Arbitration`: while the mutex exists the slot holds the highest irq raised since the acknowledge;
* `MutexExcludes`: nobody shares a critical section while the mutex exists;
* `Refinement`: `IrqPath` implements `IrqMailbox`;
* `TypeCorrect`.

None of these is inductive alone. `IInv` adds: a thread in a critical section
holds the mutex or the mutex is gone (`Owner`); the mutex is gone only when the
CPU thread is on its way out, so it acknowledges nothing any more
(`AfterDestroy`); `cpu.intr` is set only while the slot is occupied, except when
the CPU thread, its only reader, is half way through its own acknowledge
(`IntrHasSlot`); what was queried is still among the requests, and is the IDE's
if that is (`Queried`): the slot can only rise between query and acknowledge; a thread between
compare and store still has the higher irq while the mutex exists (`Decided`).
That is the argument why the unlocked query is harmless. `InitIInv`, `TypeStep`
and `ProtocolStep` establish `IInv`, one step per action; the refinement uses it
for `AckSlot` (a `Deliver`), and for `RaiseStore` and a `RaiseCompare` that finds a higher
irq in the slot (a `Request`); every other step stutters.

`Audio_proofs`, for pieces of any lengths, any number of bytes per callback and any
number of piece numbers above two, and any vectors the other devices request:

* `PlayIsNotFill`: the assertion of `fill_audio` (`audio.c:122`);
* `FillHoldsItsMutex`: the chunk that is filled and unlocked is the one that was locked;
* `FeedRefinement`: `Audio` implements `AudioFeed`.

The danger is that the callback switches the chunks between two uses of
`audio_chunk_fill_idx` in the OUT instruction. It would have to find the chunk
ready and take a mutex the guest holds. The invariant `AudioInv` says why the
guest does not even begin to fill a chunk that is ready: the request for the next
piece is in one place at most (`switch_buf`, the controller, `audio_reload`, or
being served), and nowhere once the chunk is ready, until the switch
(`OneRequest`); who holds which mutex (`Held`), what callback and guest know of
the ready flags (`Ready`), and how the pieces in the chunks follow each other
(`Order`) complete it.

`Memory_proofs`, for any sizes of memory, cache, TLB, window and screen. `MemoryAssumption`
and `VgaAssumption` ask what the code has: a page is a whole number of lines, the window a
whole number of pages of physical memory and at least as large as the screen (4096 bytes,
lines of 64; 0x20000 bytes at page 0xa0 of 32768; 64000 bytes), and a user's pages lie above
physical memory and below `KOFFSET`:

* `TlbNeverStale`: the invariant `TlbInv` adds that an entry was a walk's result in the kernel's directory or the user's, and
  that the user's directory maps no page the kernel's maps to another frame: user
  pages lie above physical memory and below `KOFFSET`, the high pages are the
  same, and the low pages are the screen's pages of the window, mapped to themselves
  (`ScreenInWindow`);
* `ScreenIsCurrent`: `VgaInv` is inductive by itself, with the shape of the
  variables;
* `LineHeldOnce`, `CacheIsCoherent`: `CacheInv` is the two together, since a store
  updates only the first way that holds a line, plus the fact that a way that was
  never filled keeps its initial value in the builds without a cache (`Unused`);
* `LoadsReturnMemory`: from these and `TlbNeverStale`, byte by byte; a page is in the
  window or outside it as a whole (`WholePages`).

`Alu_proofs`, for every word and every operand size that divides it:
`FlagsAreRight`, the results, CF, OF, ZF and SF of ADD, ADC, SUB and SBB. Its
lemmas say what sign extension does to order (`Extended`, `LowOfOperand`) and carry a sum or
a difference over to the truncated result (`Adding`, `Subtracting`).
`QuotientsAreRight`, MUL's flags and, for the dividends and quotients that fit one
operand, the quotient of DIV and IDIV rounded toward zero and its remainder, from
`Truncated` (division toward zero), `QuotientFits` and `SignedDividend` (cutting to the
operand's size changes neither). `ShiftsAreRight`, SHL, SHR and SAR by any count: the
result is the product with or the quotient by a power of two, and CF the last bit that
left the operand. Dividing by the power of `src - 1` and then by 2 is dividing by the power of `src`, and
the bit in between is whether the remainder reaches half of it (`ShiftPowers`, `HalfAgain`); for SHL cutting to the word in between and
to the operand at the end leaves the same remainder (`ShiftedLeft`).

`Fpu_proofs`, for every width of fraction (4 bits at least), of exponent (2 at
least) and of the word a quotient is computed in (more than `2 * F + 5` bits):
`FpuIsRight`, what an addition, subtraction, multiplication or division leaves in the
register is the number nearest to the exact result, ties to even, with the
sign of zero and the overflow to infinity; for a quotient possibly the number below,
as `fpu_test.c` accepts; but for the two cases `FpuRight` names. The inductive invariant
`FpuInv` adds only that the register holds a pattern, because every operation starts
from any pattern; the work is in one step. A significand *stands for* a fraction
N / D if it compares with every even number (coarser: with every multiple of 4) as N / D does
(`Stands`):

* a sum stands for the exact sum because the smaller operand, shifted with
  its sticky bit, stands for itself (`AlignedStands`, `OperandStands`, `SumStands`), a product is exact
  (`ProductIsRight`), a quotient is cut, and stands but for equality (`QuotientStands`);
* the loops of `internal_normalize` keep it, because a sticky shift does
  (`ShiftRightIs`, `ShiftStands`); a shift to the left could not, and is by at most one
  place unless the significand is exact (`RightIsRight`, `LeftIsRight`);
* the rounding compares with multiples of 8 (the neighbours) and odd multiples of 4 (the
  ties) and with nothing else, so that it takes the neighbour that `Nearest`
  takes (`RoundedRight`), for denormals and normals and at the border to infinity
  (`EndZero`, `EndFinite`, `EndInf`).

The proof asked for one change of the model: the width assumed for the dividend had been
`2 * F + 5` bits, which passes for many pairs of numbers and is one too few: the quotient of some
has too few bits to be shifted left without losing its cut part. TLC finds such a
pair with F = 4 and 13 bits; the code has 64, where 52 are needed.

`IdeStack_proofs`, for any disk, sector and cache size, write-back period and depth of
nested handlers, for clients that meet `Serialised`:

* `DeviceAssertsHold`: the assertions of `handler_ide` (`ide.c:24`, `30` and `84`);
* `CleanSlots`: a used slot that is not dirty and not being refilled agrees with the disk;
* `StoreRefinement`: `IdeStack` implements `BlockStore` under `StoreView`.

The state is a stack of contexts, so that the invariant `IdeInv` speaks of every depth.
`DriverInv` is the heart of it: wherever a context is inside a command, `byte_cnt`, the file
position and the direction are what its word index says. Two contexts inside commands
would contradict each other there, so that the other parts exclude it. `SlotInv` says
that a client that is interrupted inside the driver leaves nothing dirty that a tick
could write back (for a client that only reads nothing ever is, and with one
sector a miss finds only clean slots); `ScanInv` that a handler that writes back found
`counter` at `HZ` or more and those above it count on from there, so that they do
not begin a second write-back; `HandlerInv` that a slot written back is dirty until all
its words are on the disk; `ClientInv` what the client knows of its slot between
`cache_fetch` and the access. For the refinement the client's access is a `Read` or
`Write`, and every other step a stutter: `StoreKept` shows that moving words between
disk and slot does not change the view, `ClientSees` that the slot is the view of the
sector accessed. TLC checked `IdeInv` on the run's instances before
the proof.

`Monitor_proofs`, for pools of any size, any guest, and any user:

* `PoolInvariant`, `RecordsInUse`: `next` forms two lists without cycles from `head` and
  `free_`, every record is in exactly one, and `in_use` marks those of the first;
* `RegistryRefinement`: `BpPool`'s operations on pointers implement `BpRegistry`'s on
  sequences;
* `GuestRunsUnaware`, `CodeStaysIntact`, `BreakpointsArmed`, `ChangesNoticed`,
  `TrapEndsTheRun`: what the monitor promises, under the conditions named above.

The two sequences are witnesses in `PoolInv`, and a walk along the pointers is shown
to find the sequence. That is an induction; it is done by the least counterexample
(`Least`, from the natural numbers' order being well-founded), and `Along`, which computes
the walk, is a recursive function, whose existence `TableExists` shows in the same way.
`MonInv` then adds what relates the bytes to the records: memory and records hold the
text's bytes or INT3 (`ByteInv`); unless something is deleted, an INT3 in place of the
text's byte has a breakpoint (`CoverInv`); a breakpoint that is the only one holds the
text's byte, and memory is the text when `exec()` is to re-execute an instruction
(`AloneInv`, `RerunInv`); under `c` every breakpoint is armed, except from the break to
the end of the re-executed instruction (`ArmInv`); the only watchpoint knows `x` (`WatchInv`).
TLC checked these before the proof.

`Typing_proofs`, for any keys, period of two ticks or more (33 in the code), screen and speed of the letters, any depth of
nested handlers and any number of ticks the game may be behind:

* `TicksAreCounted`: `tick` is the number of timer interrupts whenever the main loop
  gets to look at it (`game.c:32`), unless one was taken inside another one's
  increment, and it is never behind `now` (`game.c:51`);
* `StrokesHit`: when the loop has looked at the keys no recorded stroke is left
  without a letter;
* `PoolStaysBounded`: the assertion of `fly_new` (`linklist.h:61`), with the bound spelled out.

`GameInv` relates the contexts of the stack to each other: ticks counted, under way and
pending add up to the interrupts taken, and a value loaded by `tick++` is `tick` as long
as nothing nested in it (`CountInv`); they exceed the bound only by the one tick that wakes
the loop (`LagInv`); a lost update takes `tick` back, but never behind a value loaded below
it on the stack, nor behind the loop's `target` (`StoresOrdered`, `TargetAhead`), which is why
`now` cannot overtake it; a stroke that is not recorded is the code in the device's buffer, and
its interrupt is pending or its handler interrupted by ticks alone (`StrokeInv`). For
the pool, `PlaceInv` gives every letter a place, the number of letters created since:
places are distinct, a falling letter's position is its age, and a rising one has
paid for every update with `Rise` rows, so that ages, and by the injection of letters
into places the letters, are bounded. The period divides `Cycle`, so that the
letters come at their times when `now` wraps in the model. `Updated`, which drops letters, is a recursive
function; that its result embeds in its argument is shown by the least counterexample
(`KeptEmbeds`). TLC checked `GameInv` and `PlaceInv` before the proof, with three handlers nested.

Only model-checked: every liveness property; and `Expr`, whose trees, tokens and
evaluation are recursive operators: `ExprRight` is a statement about every tree, which needs an
induction over data.

## 6. Not modelled

Most of the tree by lines is not the emulator's logic, so that the share of it
the models cover is small: two font tables (47 000 lines of data) and the 28 000
lines of `nemu-pal`, the port of a third-party game that meets NEMU only through the ports
and handlers modelled here; newlib; the prebuilt reference emulator and objects
(`mm_malloc.o`); the test cases, which are inputs; `LAB/`, other course work.

Of the emulator and kernel:

* decoding and the instructions that only move data: tables of one-line cases with
  no state of their own;
* and, or, xor, `alu_imul` (no flags), the x87 register stack and `fpu_cmp`;
* the serial port (no state), the palette (three bytes stored per colour);
* segmentation: the kernel's segments have base 0 and are loaded once;
* the symbol table's lookup: a search in a table that is read once;
* system calls: a dispatch; `brk` is `MmMalloc`, `add_irq_handle` appends to a list whose
  assertion lets a 33rd handler past a pool of 32, while no program registers more
  than five; the file calls panic at this commit (`fs.c`);
* drawing in the games, and the text of the credits.

Inside the modelled parts: what `raise_intr` pushes, the DMA command, sector numbers
above 8 bits, the printed output, `mask_breakpoints`, which nothing calls, and
what SDL does inside its own calls. Hazards without a property have a note in `PROJECT.json`.
