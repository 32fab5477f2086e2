------------------------------ MODULE MCTyping ------------------------------
(* Typing with one key, whose presses and releases are enough to overwrite *)
(* each other, a letter every second tick on a screen of three rows, so    *)
(* that two of the same name fall at once, and two handlers on the stack.  *)
EXTENDS Typing
=============================================================================
