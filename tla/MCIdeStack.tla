----------------------------- MODULE MCIdeStack -----------------------------
(* IdeStack on a disk of three sectors of two words, two of which share    *)
(* one of the two cache slots, with a write-back period of two ticks.      *)
EXTENDS IdeStack

\* The kernel's client: it only reads, and the image cannot be written.
ReadOnly == [ops |-> {"read"}, sectors |-> 0 .. 2, nest |-> 2, fileMode |-> "rb"]

\* A client that writes two sectors that share a slot, without ticks.
Evicting == [ops |-> {"read", "write"}, sectors |-> {0, 2}, nest |-> 1, fileMode |-> "r+b"]

\* A client that writes one sector, with ticks inside ticks.
WrittenBack == [ops |-> {"read", "write"}, sectors |-> {0}, nest |-> 3, fileMode |-> "r+b"]

MCUses == {ReadOnly, Evicting, WrittenBack}

ASSUME SerialisedUses == Serialised

\* Four contexts are needed for a tick inside a write-back inside a tick.
NestedTicks == {[ReadOnly EXCEPT !.sectors = {0}, !.nest = 4]}
=============================================================================
