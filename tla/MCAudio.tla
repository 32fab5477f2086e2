------------------------------ MODULE MCAudio ------------------------------
(* Audio with pieces of at most two bytes, one for each worker, an empty   *)
(* piece at the end of the file, and callbacks that play one byte.         *)
EXTENDS Audio
=============================================================================
