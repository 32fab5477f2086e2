------------------------------- MODULE BpPool -------------------------------
(***************************************************************************)
(* The pool of breakpoint.c: NR_BP records linked through their next field *)
(* into the list of live breakpoints (head) and the free list (free_).     *)
(* The list walks follow the pointers.                                     *)
(***************************************************************************)
EXTENDS Integers, Sequences, SequencesExt

CONSTANTS NR_BP, NULL   \* NR_BP is 32 in the code

ASSUME PoolAssumption == NR_BP \in Nat \ {0} /\ NULL \notin 0 .. NR_BP - 1

Numbers  == 0 .. NR_BP - 1
Pointers == Numbers \cup {NULL}

VARIABLES next, in_use, head, free_

poolVars == <<next, in_use, head, free_>>

\* init_bp_list
InitPool ==
  /\ next = [i \in Numbers |-> IF i = NR_BP - 1 THEN NULL ELSE i + 1]
  /\ in_use = [i \in Numbers |-> FALSE]
  /\ head = NULL
  /\ free_ = 0

\* for (p = first; p != NULL; p = p->next), at most one step more than there
\* are records, so that a cycle shows as a repeated number.
Along(links, first) ==
  LET from[k \in 0 .. NR_BP + 1] ==
        [p \in Pointers |-> IF k = 0 \/ p = NULL THEN <<>>
                            ELSE <<p>> \o from[k - 1][links[p]]]
  IN from[NR_BP + 1][first]
Walk(first) == Along(next, first)

\* new_BP and the insertion at the head that both of its callers do; the new
\* record is free_.
PushNew ==
  /\ free_ # NULL
  /\ free_' = next[free_]
  /\ in_use' = [in_use EXCEPT ![free_] = TRUE]
  /\ next' = [next EXCEPT ![free_] = head]
  /\ head' = free_

\* free_BP clears in_use.  (Mutant: it does not.)
ReleasedNone(numbers) == in_use
Released(numbers) == [q \in Numbers |-> in_use[q] /\ q \notin numbers]

\* The links after no moves from the live list, where prev holds its
\* predecessor if it has one, to the free list.  (Mutant: the predecessor
\* still points at it.)
UnlinkedOneSide(no, prev) == [next EXCEPT ![no] = free_]
Unlinked(no, prev) ==
  [q \in Numbers |-> IF q = no THEN free_ ELSE IF q \in prev THEN next[no] ELSE next[q]]

\* delete_breakpoint: find no with its predecessor, unlink it, free_BP it.
Delete(no) ==
  LET list == Walk(head)
      prev == {q \in Range(list) : next[q] = no}
  IN
  /\ Contains(list, no)
  /\ head' = IF prev = {} THEN next[no] ELSE head
  /\ next' = Unlinked(no, prev)
  /\ in_use' = Released({no})
  /\ free_' = no

\* delete_all_breakpoint: the recursion frees the last record first.
DeleteAll ==
  LET list == Walk(head) IN
  /\ next' = [q \in Numbers |-> IF list # <<>> /\ q = Last(list) THEN free_ ELSE next[q]]
  /\ in_use' = Released(Range(list))
  /\ free_' = IF list = <<>> THEN free_ ELSE head
  /\ head' = NULL

-----------------------------------------------------------------------------
(* Properties.                                                             *)

\* The asserts on in_use (breakpoint.c:36, 44, 174, 190, 219 and 235): a record
\* is in use exactly when it is on the live list.
InUseAgrees == \A no \in Numbers : in_use[no] <=> Contains(Walk(head), no)

\* The linked lists implement the registry: no record is lost, shared by both
\* lists or cycled, and both lists keep their order, through every deletion.
Registry == INSTANCE BpRegistry
  WITH Initial <- [i \in 1 .. NR_BP |-> i - 1], live <- Walk(head), spare <- Walk(free_)
RegistrySpec == Registry!Spec
=============================================================================
