----------------------------- MODULE BpRegistry -----------------------------
(***************************************************************************)
(* What the monitor's pool of breakpoints and watchpoints promises: a      *)
(* number is either live or free, never both and never lost; the newest    *)
(* breakpoint is searched first and the number freed last is reused first. *)
(***************************************************************************)
EXTENDS Sequences, SequencesExt

CONSTANT Initial   \* the numbers of the pool, in the order of the free list

VARIABLES
  live,   \* live numbers, newest first
  spare   \* free numbers, next to be used first

registryVars == <<live, spare>>

Take ==
  /\ spare # <<>>
  /\ live' = <<Head(spare)>> \o live
  /\ spare' = Tail(spare)

Drop(i) ==
  /\ live' = RemoveAt(live, i)
  /\ spare' = <<live[i]>> \o spare

DropAll ==
  /\ live' = <<>>
  /\ spare' = live \o spare

Next == Take \/ DropAll \/ \E i \in DOMAIN live : Drop(i)

Spec == live = <<>> /\ spare = Initial /\ [][Next]_registryVars
=============================================================================
