----------------------------- MODULE MCIrqPath ------------------------------
(* IrqPath with the threads the program starts: one timer thread, one      *)
(* keyboard thread, at most one audio monitor thread.                      *)
EXTENDS IrqPath

\* `si' and `c'.
MCSteps == {-1, 1}
MCContinue == {-1}
\* An interrupt gate, a trap gate and a task gate.
MCGates == {14, 15, 5}
\* The kernel's IDT: its irq vectors are interrupt gates.
MCKernelGates == {14}
MCLive == {"plain", "sti", "cli", "hlt", "ide_read", "nemu_trap"}
=============================================================================
