----------------------------- MODULE BlockStore -----------------------------
(***************************************************************************)
(* What the kernel's IDE driver promises its caller: a store of words      *)
(* addressed by sector and offset.  A call of ide_read returns the word    *)
(* written there last, or the disk image's word if none was; a call of     *)
(* ide_write takes effect at one instant before it returns.  There is no   *)
(* cache, no device and no interrupt here.                                 *)
(***************************************************************************)
CONSTANTS
  Image,     \* the words on the disk at the start, by sector and offset
  Requests,  \* what a caller may ask for: records of op, sector, word, value
  NoRequest

VARIABLES
  store,    \* the words
  request,  \* the call in progress, or NoRequest
  buf       \* the word the last ide_read returned

storeVars == <<store, request, buf>>

Call(r) ==
  /\ request = NoRequest
  /\ request' = r
  /\ UNCHANGED <<store, buf>>

Read ==
  /\ request.op = "read"
  /\ buf' = store[request.sector][request.word]
  /\ request' = NoRequest
  /\ UNCHANGED store

Write ==
  /\ request.op = "write"
  /\ store' = [store EXCEPT ![request.sector][request.word] = request.value]
  /\ request' = [request EXCEPT !.op = "written"]
  /\ UNCHANGED buf

Return ==
  /\ request.op = "written"
  /\ request' = NoRequest
  /\ UNCHANGED <<store, buf>>

Next == Read \/ Write \/ Return \/ \E r \in Requests : Call(r)

Spec == store = Image /\ request = NoRequest /\ [][Next]_storeVars
=============================================================================
