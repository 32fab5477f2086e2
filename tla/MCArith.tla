------------------------------ MODULE MCArith -------------------------------
(* The three computing units of NEMU side by side.  They share no state: unit *)
(* chooses, once, the one whose calls are explored.                           *)
EXTENDS Alu, Fpu, Expr

VARIABLE unit

\* Two operand sizes below the word and one as wide, as in the code.
MCHalves == {2, 4, 8}

MCMemoryWord(a) == (3 * a + 1) % 16

\* All expressions with one operator, then all with two (and the unary ones of
\* two), over a number of one digit and one of two.
Leaves == {[op |-> "num", n |-> n] : n \in {2, 13}}
Unary(S) == {[op |-> o, e |-> e] : o \in Prefix, e \in S}
Dyadic(S, T) == {[op |-> o, l |-> l, r |-> r] : o \in Binary, l \in S, r \in T}
OneOperator == Unary(Leaves) \cup Dyadic(Leaves, Leaves)
MCInputs == << Leaves \cup OneOperator,
               OneOperator \cup Unary(OneOperator) \cup Dyadic(OneOperator, Leaves)
                 \cup Dyadic(Leaves, OneOperator) >>

Init == AluInit /\ FpuInit /\ ExprInit /\ unit \in {"alu", "fpu", "expr"}

Next ==
  \/ unit = "alu"  /\ AluNext  /\ UNCHANGED <<unit, fpuVars, exprVars>>
  \/ unit = "fpu"  /\ FpuNext  /\ UNCHANGED <<unit, aluVars, exprVars>>
  \/ unit = "expr" /\ ExprNext /\ UNCHANGED <<unit, aluVars, fpuVars>>
=============================================================================
