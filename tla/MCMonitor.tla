----------------------------- MODULE MCMonitor ------------------------------
(* Monitor with a pool of three records and guests of up to four           *)
(* instructions.                                                           *)
EXTENDS Monitor

MCText(list) == [a \in 0 .. Len(list) - 1 |-> list[a + 1]]

\* A guest with a BREAK_POINT of its own; breakpoints and watchpoints are set
\* and deleted until the pool is exhausted.
Pool ==
  [text |-> MCText(<<"inc", "int3", "jmp">>), commands |-> {"c", "si", "b", "w", "d", "d all"},
   steps |-> {-1, 1, 2}, breakAddresses |-> {0, 1}, maxBreakpoints |-> 2, maxWatchpoints |-> 2]

\* A guest that goes round twice and traps, under c and si.
Trap ==
  [text |-> MCText(<<"inc", "jx", "trap", "jmp">>), commands |-> {"c", "si", "b", "w"},
   steps |-> {-1, 1, 2}, breakAddresses |-> 0 .. 2, maxBreakpoints |-> 1, maxWatchpoints |-> 1]

\* A guest that runs for ever over all of its addresses, under c.
Loop ==
  [Trap EXCEPT !.text = MCText(<<"nop", "inc", "nop", "jmp">>), !.commands = {"c", "b", "w"},
               !.steps = {-1}]

\* Two breakpoints, which may share an address.
Shared ==
  [Trap EXCEPT !.commands = {"c", "si", "b"}, !.steps = {-1, 1}, !.breakAddresses = {0, 2},
               !.maxBreakpoints = 2, !.maxWatchpoints = 0]

\* Breakpoints come and go while c runs the guest.
Deleted ==
  [Loop EXCEPT !.commands = {"c", "b", "w", "d"}, !.breakAddresses = {0, 2}, !.maxBreakpoints = 2]

MCUses == {Pool, Trap, Loop, Shared, Deleted}
TwoBreakpoints ==
  {[Loop EXCEPT !.commands = {"c", "b"}, !.maxBreakpoints = 2, !.maxWatchpoints = 0]}
=============================================================================
