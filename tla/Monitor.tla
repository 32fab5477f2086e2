------------------------------ MODULE Monitor -------------------------------
(***************************************************************************)
(* NEMU's monitor: the user's commands and exec()'s loop, with breakpoints *)
(* that overwrite the guest's code by INT3 and watchpoints scanned after   *)
(* every instruction.  Everything here runs in one thread: a command is    *)
(* one step and so is one iteration of the loop.                           *)
(*                                                                         *)
(* The guest's code is a text of one-byte instructions; a byte is the name *)
(* of its instruction.  A watchpoint's expression is the guest variable x. *)
(* GuestRun says what the same guest does without a monitor.               *)
(***************************************************************************)
EXTENDS BpPool

CONSTANT Uses  \* bound: guests, and what the user does with each, see UseAssumption

INT3 == "int3"   \* INT3_CODE, also what BREAK_POINT in guest code is
Opcodes == {"nop", "inc", "jx", "jmp", "trap", INT3}

\* The guest's code (a function on addresses 0 .. N), the commands the user
\* gives, the arguments of exec() (-1 is exec(-1)), the addresses of breakpoints,
\* and how many breakpoints and watchpoints the user sets at once.
ASSUME UseAssumption ==
  \A u \in Uses :
    /\ u.text \in [DOMAIN u.text -> Opcodes] /\ 0 \in DOMAIN u.text
    /\ \A a \in DOMAIN u.text :
         /\ a \in Nat /\ (a = 0 \/ a - 1 \in DOMAIN u.text)
         /\ a + 1 \in DOMAIN u.text \/ (u.text[a] = "jmp" /\ a \notin u.breakAddresses)
    /\ u.commands \subseteq {"c", "si", "b", "w", "d", "d all"}
    /\ u.steps \subseteq {-1} \cup (Nat \ {0})
    /\ u.breakAddresses \subseteq DOMAIN u.text
    /\ u.maxBreakpoints \in Nat /\ u.maxWatchpoints \in Nat

VARIABLES
  use,         \* the element of Uses this behaviour is of, which never changes
  bp,          \* type, addr, ori_byte and old_val of each record
  mem,         \* the code bytes in guest memory
  eip, x,      \* x is 0 or 1: INC toggles it
  nemu_state, n,
  rerun,       \* hit_break_rerun
  at           \* "ui", "exec", "exited" or "aborted"

vars == <<next, in_use, head, free_, use, bp, mem, eip, x, nemu_state, n,
          rerun, at>>

Text      == use.text
Addresses == DOMAIN Text

NoRecord == [type |-> "BREAKPOINT", addr |-> 0, ori_byte |-> "nop", old_val |-> 0]

Init ==
  /\ use \in Uses
  /\ InitPool
  /\ bp = [i \in Numbers |-> NoRecord]
  /\ mem = Text
  /\ eip = 0 /\ x = 0
  /\ nemu_state = "READY" /\ n = 0 /\ rerun = FALSE /\ at = "ui"

\* The live records of one type, and the one of some records that a walk over
\* the list finds first.
Live(type) == {p \in Range(Walk(head)) : bp[p].type = type}
First(records) ==
  LET list == Walk(head) IN list[Min({i \in DOMAIN list : list[i] \in records})]
BpAddrs == {bp[p].addr : p \in Live("BREAKPOINT")}

-----------------------------------------------------------------------------
(* Commands.                                                               *)

\* set_breakpoint reads the byte it overwrites.  (Mutant: too late.)
NewBreakpointLate(a) ==
  [type |-> "BREAKPOINT", addr |-> a, ori_byte |-> INT3, old_val |-> 0]
NewBreakpoint(a) ==
  [type |-> "BREAKPOINT", addr |-> a, ori_byte |-> mem[a], old_val |-> 0]

CmdB(a) ==
  /\ at = "ui" /\ "b" \in use.commands /\ Cardinality(Live("BREAKPOINT")) < use.maxBreakpoints
  /\ PushNew
  /\ bp' = [bp EXCEPT ![free_] = NewBreakpoint(a)]
  /\ mem' = [mem EXCEPT ![a] = INT3]
  /\ UNCHANGED <<use, eip, x, nemu_state, n, rerun, at>>

CmdW ==
  /\ at = "ui" /\ "w" \in use.commands /\ Cardinality(Live("WATCHPOINT")) < use.maxWatchpoints
  /\ PushNew
  /\ bp' = [bp EXCEPT ![free_] =
              [type |-> "WATCHPOINT", addr |-> 0, ori_byte |-> "nop", old_val |-> x]]
  /\ UNCHANGED <<use, mem, eip, x, nemu_state, n, rerun, at>>

\* assert(free_ != NULL) in new_BP.
PoolExhausted ==
  /\ at = "ui"
  /\ \/ "b" \in use.commands /\ Cardinality(Live("BREAKPOINT")) < use.maxBreakpoints
     \/ "w" \in use.commands /\ Cardinality(Live("WATCHPOINT")) < use.maxWatchpoints
  /\ free_ = NULL
  /\ at' = "aborted"
  /\ UNCHANGED <<poolVars, use, bp, mem, eip, x, nemu_state, n, rerun>>

CmdD(no) ==
  /\ at = "ui" /\ "d" \in use.commands
  /\ Delete(no)
  /\ UNCHANGED <<use, bp, mem, eip, x, nemu_state, n, rerun, at>>

CmdDAll ==
  /\ at = "ui" /\ "d all" \in use.commands
  /\ DeleteAll
  /\ UNCHANGED <<use, bp, mem, eip, x, nemu_state, n, rerun, at>>

\* cmd_c and cmd_si up to the loop of exec().
CmdExec ==
  /\ at = "ui"
  /\ n' \in {k \in use.steps : (IF k = -1 THEN "c" ELSE "si") \in use.commands}
  /\ rerun' = (nemu_state = "BREAK")
  /\ nemu_state' = "RUN"
  /\ at' = "exec"
  /\ UNCHANGED <<poolVars, use, bp, mem, eip, x>>

-----------------------------------------------------------------------------
(* One iteration of exec()'s loop.                                         *)

\* exec_inst at eip: the next eip, x and nemu_state.
Executed ==
  LET op == mem[eip] IN
  [eip   |-> IF op = "jmp" \/ (op = "jx" /\ x = 1) THEN 0 ELSE eip + 1,
   x     |-> IF op = "inc" THEN 1 - x ELSE x,
   state |-> CASE op = INT3 -> "BREAK" [] op = "trap" -> "STOP" [] OTHER -> nemu_state]

\* resume_breakpoints: each breakpoint, in list order, saves the byte it
\* finds and writes INT3 over it.
Saved(p) ==
  LET sharers == {q \in Live("BREAKPOINT") : bp[q].addr = bp[p].addr}
  IN IF p = First(sharers) THEN mem[bp[p].addr] ELSE INT3
ResumedBp ==
  [p \in Numbers |-> IF p \in Live("BREAKPOINT")
                     THEN [bp[p] EXCEPT !.ori_byte = Saved(p)] ELSE bp[p]]
ResumedMemUnarmed == mem   \* (mutant)
ResumedMem == [a \in Addresses |-> IF a \in BpAddrs THEN INT3 ELSE mem[a]]

\* cpu.eip-- on a breakpoint.  (Mutant: left out.)
RewindNot(e)   == e
Rewind(e)      == e - 1

\* find_breakpoint looks for the first of these.
Found(a) == {p \in Live("BREAKPOINT") : bp[p].addr = a}

\* scan_watchpoint looks for the first of those whose value changed.  (Mutant:
\* the value is the one before the instruction.)
HitStale(value) == {p \in Live("WATCHPOINT") : bp[p].old_val # x}
Hit(value) == {p \in Live("WATCHPOINT") : bp[p].old_val # value}

\* wp->old_val = wp->new_val.  (Mutant: left out.)
NotedNot(bps, p, value) == bps
Noted(bps, p, value)    == [bps EXCEPT ![p].old_val = value]

Iterate ==
  LET done == Executed
      bps  == IF rerun THEN ResumedBp ELSE bp
      code == IF rerun THEN ResumedMem ELSE mem
      stop == IF done.state = "BREAK" THEN Found(done.eip - 1) ELSE {}
      hit  == Hit(done.x)
  IN
  /\ at = "exec" /\ n # 0 /\ nemu_state = "RUN"
  /\ n' = IF n = -1 THEN n ELSE n - 1
  /\ rerun' = FALSE
  /\ x' = done.x
  /\ IF stop # {}
     THEN /\ eip' = Rewind(done.eip)
          /\ mem' = [code EXCEPT ![bps[First(stop)].addr] = bps[First(stop)].ori_byte]
     ELSE /\ eip' = done.eip
          /\ mem' = code
  /\ IF hit # {}
     THEN /\ bp' = Noted(bps, First(hit), done.x)
          /\ nemu_state' = "READY"
     ELSE /\ bp' = bps
          /\ nemu_state' = done.state
  /\ UNCHANGED <<poolVars, use, at>>

\* The end of exec() and ui_mainloop's test of NEMU_STOP.
Leave ==
  /\ at = "exec" /\ ~(n # 0 /\ nemu_state = "RUN")
  /\ at' = IF nemu_state = "STOP" THEN "exited" ELSE "ui"
  /\ nemu_state' = IF nemu_state # "STOP" /\ n = 0 THEN "READY" ELSE nemu_state
  /\ UNCHANGED <<poolVars, use, bp, mem, eip, x, n, rerun>>

Terminated == at \in {"exited", "aborted"} /\ UNCHANGED vars

Next ==
  \/ \E a \in use.breakAddresses : CmdB(a)
  \/ \E no \in Numbers : CmdD(no)
  \/ CmdW \/ PoolExhausted \/ CmdDAll \/ CmdExec
  \/ Iterate \/ Leave \/ Terminated

Spec == Init /\ [][Next]_vars
FairSpec == Spec /\ WF_vars(Iterate \/ Leave)

-----------------------------------------------------------------------------
(* Properties.                                                             *)

\* No breakpoint is deleted: a deletion leaves its INT3 in the code.
NoDeletion == use.commands \cap {"d", "d all"} = {}

\* One breakpoint at a time: the code does not keep the bytes of more apart
\* (RestoresOriginalOpcode).
OneBreakpoint == NoDeletion /\ use.maxBreakpoints <= 1

\* The guest stops at a BREAK_POINT of its own.  The breakpoints are still armed
\* then, and the next resume_breakpoints takes their INT3 for the guest's byte.
BreaksItself == \E a \in Addresses : Text[a] = INT3

\* Two watchpoints on the same value: the one that is found second is late, by
\* one instruction, and stops another step than the one that changed the value.
OneWatchpoint == use.maxWatchpoints <= 1

\* The monitor never shows in what the guest computes: every step of it
\* either executes the instruction the guest's text has at eip, or leaves eip
\* and x alone, through breaks, re-executions, steps and watchpoint stops.
Guest == INSTANCE GuestRun WITH text <- Text
GuestUnaware == [][NoDeletion => Guest!Execute]_<<eip, x>>

\* An INT3 the monitor wrote is the only difference between memory and text,
\* and the record that wrote it holds the byte that belongs there.
CodeIntact ==
  OneBreakpoint /\ ~BreaksItself => \A a \in Addresses :
    \/ mem[a] = Text[a]
    \/ mem[a] = INT3 /\ \E p \in Live("BREAKPOINT") : bp[p].addr = a /\ bp[p].ori_byte = Text[a]

\* While `c' runs the guest every breakpoint is armed, except during the one
\* instruction that leaves a breakpoint.
ArmedWhileRunning ==
  OneWatchpoint /\ use.steps = {-1} /\ at = "exec" /\ nemu_state = "RUN" /\ ~rerun =>
    \A a \in BpAddrs : mem[a] = INT3

\* While the guest runs no watched value has changed unnoticed.
NoMissedChange ==
  OneWatchpoint /\ at = "exec" /\ nemu_state = "RUN" =>
    \A p \in Live("WATCHPOINT") : bp[p].old_val = x

\* `c' in a guest that loops for ever over its whole text comes back to the
\* user if there is a breakpoint anywhere, again and again.
BreakpointReached ==
  (OneBreakpoint /\ at = "exec" /\ BpAddrs # {}) ~> (at \in {"ui", "exited"})

\* A NEMU trap ends the run: it is never turned back into a prompt.
TrapStops ==
  [][NoDeletion /\ OneWatchpoint /\ Text[eip] = "trap" /\ eip' = eip + 1
       => nemu_state' = "STOP"]_vars

\* cpu.c:78 on a breakpoint that is hit: "found, then restore the original
\* opcode".  (Only for a breakpoint that is alone at its address.)
RestoresOriginalOpcode ==
  [][nemu_state = "RUN" /\ nemu_state' = "BREAK" /\ eip' = eip /\ Cardinality(Found(eip)) = 1
       => mem'[eip] = Text[eip]]_vars
=============================================================================

