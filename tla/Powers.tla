------------------------------- MODULE Powers -------------------------------
(* Powers of two, what C's shifts multiply and divide by.                     *)
EXTENDS Integers

Pow2[n \in Nat] == IF n = 0 THEN 1 ELSE 2 * Pow2[n - 1]
=============================================================================
