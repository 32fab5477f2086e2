------------------------------ MODULE MCMemory ------------------------------
(* Small instances of Memory: the cache alone, the TLB alone, and the build *)
(* as configured, where the VGA window is reached.  The screen takes the    *)
(* first of the window's two pages, as it takes 16 of 32 in the code.       *)
EXTENDS Memory

MCByte   == 0 .. 8
MCBuilds == {[cache |-> TRUE,  tlb |-> FALSE, writes |-> 1, pages |-> Low],
             [cache |-> FALSE, tlb |-> TRUE,  writes |-> 1, pages |-> Pages],
             [cache |-> FALSE, tlb |-> FALSE, writes |-> 2, pages |-> {0} \cup WindowPages]}
=============================================================================
