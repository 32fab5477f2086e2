------------------------------ MODULE GuestRun ------------------------------
(***************************************************************************)
(* The guest of module Monitor on a machine without a monitor: it executes *)
(* the instruction its text has at eip.                                    *)
(***************************************************************************)
EXTENDS Integers

VARIABLES text, eip, x

Execute ==
  LET op == text[eip]
      jumps == op = "jmp" \/ (op = "jx" /\ x = 1)
  IN /\ eip' = IF jumps THEN 0 ELSE eip + 1
     /\ x' = IF op = "inc" THEN 1 - x ELSE x
     /\ UNCHANGED text

Spec == eip = 0 /\ x = 0 /\ [][Execute]_<<text, eip, x>>
=============================================================================
