----------------------------- MODULE IrqMailbox -----------------------------
(***************************************************************************)
(* What NEMU's interrupt path promises the guest, without threads, mutex   *)
(* or CPU loop: devices request interrupt vectors, the CPU delivers them   *)
(* one at a time.                                                          *)
(*                                                                         *)
(*  - a vector is delivered only if it was requested since the previous    *)
(*    delivery (no spurious and no doubled interrupt);                     *)
(*  - the vector Top, if requested, is the one delivered next;             *)
(*  - a delivery discards every other outstanding request: the controller  *)
(*    has one slot and no memory of what lost the arbitration.             *)
(***************************************************************************)
CONSTANTS
  Vectors,  \* the vectors devices may request
  Top,      \* the vector that is never discarded
  None      \* "nothing was delivered yet"

VARIABLES
  req,        \* vectors requested since the previous delivery
  delivered   \* the vector delivered last

mailboxVars == <<req, delivered>>

Init ==
  /\ req = {}
  /\ delivered = None

Request(v) ==
  /\ req' = req \cup {v}
  /\ delivered' = delivered

\* The requests' part of a delivery, for a client that knows what it was given.
Discharge(v) ==
  /\ v \in req
  /\ Top \in req => v = Top
  /\ req' = {}

Deliver(v) == Discharge(v) /\ delivered' = v

Next == \E v \in Vectors : Request(v) \/ Deliver(v)

Spec == Init /\ [][Next]_mailboxVars
=============================================================================
