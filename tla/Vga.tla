-------------------------------- MODULE Vga ---------------------------------
(***************************************************************************)
(* NEMU's VGA: the guest's stores to video memory mark lines dirty, and    *)
(* VGA_Thread redraws the dirty lines and clears the marks.  Nothing is    *)
(* locked: each access to a flag or a line is a step.                      *)
(*                                                                         *)
(* A byte is a number that tells the stores apart.                         *)
(***************************************************************************)
EXTENDS Integers, Sequences

CONSTANTS
  CTR_ROW, CTR_COL,  \* 200 and 320 in the code
  VgaSize,           \* bytes of the window at 0xa0000 (0x20000 in the code)
  Byte               \* the values of a byte, 0 the first one

ASSUME VgaAssumption ==
  /\ CTR_ROW \in Nat \ {0} /\ CTR_COL \in Nat \ {0} /\ 0 \in Byte
  /\ VgaSize \in Nat /\ VgaSize >= CTR_ROW * CTR_COL

Rows   == 0 .. CTR_ROW - 1
Cols   == 0 .. CTR_COL - 1
Vmem   == 0 .. VgaSize - 1

VARIABLES
  vmem,        \* the window's bytes
  vmem_dirty, line_dirty,
  screen,      \* what real_screen shows: a line of bytes for each row
  vga_pc,      \* VGA_Thread: "delay", "draw" or "clear"
  row,         \* do_update_screen_graphic_mode's i
  cpu_line,    \* a store in progress: the line to mark, or -1
  cpu_pc,      \* "idle", "line" (about to set line_dirty), "flag" (vmem_dirty)
  unmarked     \* history: rows the code leaves undrawn, see ShownEventually

vgaVars == <<vmem, vmem_dirty, line_dirty, screen, vga_pc, row, cpu_line, cpu_pc, unmarked>>

Line(r) == [c \in Cols |-> vmem[r * CTR_COL + c]]

VgaInit ==
  /\ vmem = [a \in Vmem |-> 0]
  /\ vmem_dirty = FALSE /\ line_dirty = [r \in Rows |-> FALSE]
  /\ screen = [r \in Rows |-> [c \in Cols |-> 0]]
  /\ vga_pc = "delay" /\ row = 0
  /\ cpu_line = -1 /\ cpu_pc = "idle"
  /\ unmarked = {}

-----------------------------------------------------------------------------
(* The CPU thread: mmio_write, then vga_vmem_io_handler.                   *)

\* (Mutant of LineOfStore: the line after the one of the first byte.)
LineOfStoreNext(a) == a \div CTR_COL + 1
LineOfStore(a)     == a \div CTR_COL

\* mmio_write's copy of data to offset a of the window.  Only the line of the
\* first byte is going to be marked.
VmemStore(a, data) ==
  /\ cpu_pc = "idle"
  /\ vmem' = [b \in Vmem |-> IF b - a + 1 \in DOMAIN data THEN data[b - a + 1] ELSE vmem[b]]
  /\ IF LineOfStore(a) < CTR_ROW
     THEN cpu_line' = LineOfStore(a) /\ cpu_pc' = "line"
     ELSE UNCHANGED <<cpu_line, cpu_pc>>
  /\ unmarked' = unmarked \cup
       {r \in Rows : \E b \in a .. a + Len(data) - 1 : r = b \div CTR_COL /\ r # a \div CTR_COL}
  /\ UNCHANGED <<vmem_dirty, line_dirty, screen, vga_pc, row>>

MarkLine ==
  /\ cpu_pc = "line"
  /\ line_dirty' = [line_dirty EXCEPT ![cpu_line] = TRUE]
  /\ cpu_pc' = "flag"
  /\ UNCHANGED <<vmem, vmem_dirty, screen, vga_pc, row, cpu_line, unmarked>>

\* (Mutant of MarkVmem: the flag is left as it is.)
MarkVmemNot ==
  /\ cpu_pc = "flag"
  /\ cpu_pc' = "idle" /\ cpu_line' = -1
  /\ UNCHANGED <<vmem, vmem_dirty, line_dirty, screen, vga_pc, row, unmarked>>

MarkVmem ==
  /\ cpu_pc = "flag"
  /\ vmem_dirty' = TRUE
  /\ cpu_pc' = "idle" /\ cpu_line' = -1
  /\ UNCHANGED <<vmem, line_dirty, screen, vga_pc, row, unmarked>>

-----------------------------------------------------------------------------
(* VGA_Thread: update_screen.                                              *)

TestVmemDirty ==
  /\ vga_pc = "delay" /\ vmem_dirty
  /\ vga_pc' = "draw" /\ row' = 0
  /\ UNCHANGED <<vmem, vmem_dirty, line_dirty, screen, cpu_line, cpu_pc, unmarked>>

DrawLine ==
  /\ vga_pc = "draw"
  /\ screen' = IF line_dirty[row] THEN [screen EXCEPT ![row] = Line(row)] ELSE screen
  /\ IF row = CTR_ROW - 1 THEN vga_pc' = "undirty" /\ row' = 0
                          ELSE row' = row + 1 /\ UNCHANGED vga_pc
  /\ UNCHANGED <<vmem, vmem_dirty, line_dirty, cpu_line, cpu_pc, unmarked>>

ClearVmemDirty ==
  /\ vga_pc = "undirty"
  /\ vmem_dirty' = FALSE
  /\ vga_pc' = "clear"
  /\ UNCHANGED <<vmem, line_dirty, screen, row, cpu_line, cpu_pc, unmarked>>

\* memset(line_dirty): the mark of a line stored to since it was drawn goes too.
ClearLines ==
  /\ vga_pc = "clear"
  /\ line_dirty' = [r \in Rows |-> FALSE]
  /\ unmarked' = unmarked \cup {r \in Rows : line_dirty[r] /\ screen[r] # Line(r)}
  /\ vga_pc' = "delay"
  /\ UNCHANGED <<vmem, vmem_dirty, screen, row, cpu_line, cpu_pc>>

VgaThread == TestVmemDirty \/ DrawLine \/ ClearVmemDirty \/ ClearLines

-----------------------------------------------------------------------------
\* What the user sees differs from video memory only in lines that will be
\* drawn, and in lines the code forgets: a store that runs into the next line
\* marks only the first (vga.c:39), and clearing the marks after the drawing
\* (vga.c:82-83) forgets what was stored in between.
Awaited(r) == line_dirty[r] \/ (cpu_line = r /\ cpu_pc = "line")
ScreenCurrent == \A r \in Rows : screen[r] = Line(r) \/ Awaited(r) \/ r \in unmarked

\* When the guest stops storing, the screen becomes and stays what video memory
\* holds, except for the lines forgotten in those two ways.
ShownEventually == <>[](\A r \in Rows : screen[r] = Line(r) \/ r \in unmarked)
=============================================================================
