----------------------------- MODULE AudioFeed ------------------------------
(***************************************************************************)
(* What NEMU's two audio chunks promise: the pieces of sound a guest       *)
(* writes are played one after the other, each exactly once.  While a      *)
(* piece is played the next one may be written, never two.  There are no   *)
(* threads, chunks, mutexes or interrupts here.                            *)
(*                                                                         *)
(* Pieces are numbered modulo Pieces; piece 0 is the silence at the start. *)
(***************************************************************************)
EXTENDS Integers

CONSTANT Pieces

VARIABLES
  written,  \* the piece written last
  playing   \* the piece being played

feedVars == <<written, playing>>

Following(p) == (p + 1) % Pieces

Write ==
  /\ written = playing
  /\ written' = Following(written)
  /\ UNCHANGED playing

Switch ==
  /\ written = Following(playing)
  /\ playing' = written
  /\ UNCHANGED written

Next == Write \/ Switch

Spec == written = 0 /\ playing = 0 /\ [][Next]_feedVars
=============================================================================
