-------------------------------- MODULE Fpu ---------------------------------
(***************************************************************************)
(* NEMU's single precision: internal_normalize and the four operations,    *)
(* with F fraction bits and E exponent bits (23 and 8 in the code).        *)
(*                                                                         *)
(* A pattern is [sign, mag]: mag is exponent and fraction as one integer,  *)
(* so that patterns of a sign are ordered as the numbers they stand for.   *)
(***************************************************************************)
EXTENDS Powers

CONSTANTS F, E,
          SigBits   \* width of the significands in internal_float_div, 64 in the code

Bias   == Pow2[E - 1] - 1
MaxExp == Pow2[E] - 1
Hidden == Pow2[F]
InfMag == MaxExp * Hidden
NanMag == InfMag + Hidden \div 2

\* As in the code, a product of normal numbers and a quotient have more bits than
\* normalisation keeps (with SigBits = 2 * F + 5 a quotient can be rounded wrongly).
ASSUME FpuAssumption == F \in Nat /\ F >= 4 /\ E \in Nat \ {0, 1} /\ SigBits \in Nat /\ SigBits > 2 * F + 5

P(sign, mag) == [sign |-> sign, mag |-> mag]
Pattern == [sign : {0, 1}, mag : 0 .. InfMag \cup {NanMag}]
Exp(x)  == x.mag \div Hidden
Frac(x) == x.mag % Hidden
IsZero(x) == x.mag = 0
IsInf(x)  == x.mag = InfMag
IsNan(x)  == x.mag = NanMag
Negate(x) == [x EXCEPT !.sign = 1 - @]
PNan == P(0, NanMag)
NNan == P(1, NanMag)
Signs(a, b) == (a.sign + b.sign) % 2

Sig(x)    == IF Exp(x) # 0 THEN Frac(x) + Hidden ELSE Frac(x)
RealExp(x) == IF Exp(x) = 0 THEN 1 ELSE Exp(x)

VARIABLES st0,   \* the top of fpu.regStack
          call   \* the operation just done: [op, a, b], op "none" between two
fpuVars == <<st0, call>>

-----------------------------------------------------------------------------
(* internal_normalize(sign, exp, sig), sig with three bits to round.       *)

\* (Mutant of ShiftRight: the bits that leave are forgotten.)
ShiftRightDrop(sig) == sig \div 2
ShiftRight(sig) == IF sig % 2 = 1 /\ (sig \div 2) % 2 = 0 THEN sig \div 2 + 1 ELSE sig \div 2

One(sig) == sig \div (8 * Hidden)     \* sig_grs >> (23 + 3)

\* The significand after some shifts; the loop of internal_normalize shifts as
\* long as ShiftsOn.
Aligned(sig, shift) ==
  LET aligned[i \in Nat] == IF i = 0 THEN sig ELSE ShiftRight(aligned[i - 1])
  IN  aligned[shift]

ShiftsOn(exp, sig) == (One(sig) > 1 /\ exp < MaxExp) \/ (sig > 4 /\ exp < 0)
TowardRight(exp, sig) ==
  LET n == CHOOSE n \in 0 .. sig : /\ ~ShiftsOn(exp + n, Aligned(sig, n))
                                   /\ \A k \in 0 .. n - 1 : ShiftsOn(exp + k, Aligned(sig, k))
  IN  <<exp + n, Aligned(sig, n)>>

TowardLeft(exp, sig) ==
  LET n == CHOOSE n \in 0 .. exp : /\ n = exp \/ One(sig * Pow2[n]) # 0
                                   /\ \A k \in 0 .. n - 1 : One(sig * Pow2[k]) = 0
  IN  <<exp - n, sig * Pow2[n]>>

\* A denormal's exponent is written 0 and means 1: one shift more.
Halved(n) == IF n[1] = 0 THEN <<0, ShiftRight(n[2])>> ELSE n

Normalized(exp, sig) ==
  IF One(sig) > 1 \/ exp < 0          THEN Halved(TowardRight(exp, sig))
  ELSE IF One(sig) = 0 /\ exp > 0      THEN Halved(TowardLeft(exp, sig))
  ELSE IF One(sig) = 1 /\ exp = 0      THEN <<1, sig>>
  ELSE <<exp, sig>>

\* The three bits go; a carry out of the fraction increments the exponent, which
\* leaves out the carry of a denormal into the hidden bit.
Rounded(sign, exp, sig) ==
  LET grs  == sig % 8
      up   == grs > 4 \/ (grs = 4 /\ (sig \div 8) % 2 = 1)
      kept == sig \div 8 + (IF up THEN 1 ELSE 0)
  IN  IF kept \div Hidden > 1 THEN P(sign, (exp + 1) * Hidden + ((kept \div 2) % Hidden))
                              ELSE P(sign, exp * Hidden + (kept % Hidden))

internal_normalize(sign, exp, sig) ==
  LET n == Normalized(exp, sig)
  IN  IF n[1] >= MaxExp THEN P(sign, InfMag)
      ELSE IF n[1] < 0  THEN P(sign, 0)
      ELSE Rounded(sign, n[1], n[2])

-----------------------------------------------------------------------------
(* The operations; the arguments come in the code's order.                 *)

SumOf(a, b) ==
  LET lo == IF Exp(a) > Exp(b) THEN b ELSE a
      hi == IF Exp(a) > Exp(b) THEN a ELSE b
      x  == Aligned(Sig(lo) * 8, RealExp(hi) - RealExp(lo))
      y  == Sig(hi) * 8
      s  == (IF lo.sign = 1 THEN -x ELSE x) + (IF hi.sign = 1 THEN -y ELSE y)
  IN  internal_normalize(IF s < 0 THEN 1 ELSE 0, Exp(hi), IF s < 0 THEN -s ELSE s)

internal_float_add(b, a) ==
  IF IsZero(a) /\ IsZero(b)    THEN P(IF a.sign = 1 /\ b.sign = 1 THEN 1 ELSE 0, 0)
  ELSE IF IsInf(a) /\ b = Negate(a) THEN NNan
  ELSE IF IsInf(a) /\ IsNan(b) THEN b
  ELSE IF a = NNan /\ b = PNan THEN PNan
  ELSE IF IsZero(a)            THEN b
  ELSE IF IsZero(b)            THEN a
  ELSE IF Exp(a) = MaxExp      THEN a
  ELSE IF Exp(b) = MaxExp      THEN b
  ELSE SumOf(a, b)

NanOf(a, b) == IF a = PNan \/ b = PNan THEN PNan ELSE NNan

internal_float_sub(b, a) ==
  IF IsZero(a) /\ IsZero(b)    THEN P(IF a.sign = 1 /\ b.sign = 0 THEN 1 ELSE 0, 0)
  ELSE IF IsNan(a) /\ IsNan(b) THEN NanOf(a, b)
  ELSE IF IsNan(a)             THEN a
  ELSE IF IsNan(b)             THEN b
  ELSE internal_float_add(Negate(b), a)

internal_float_mul(b, a) ==
  IF (IsZero(a) /\ IsInf(b)) \/ (IsInf(a) /\ IsZero(b)) THEN NNan
  ELSE IF IsNan(a) \/ IsNan(b)   THEN NanOf(a, b)
  ELSE IF IsZero(a) \/ IsZero(b) THEN P(Signs(a, b), 0)
  ELSE IF IsInf(a) \/ IsInf(b)   THEN P(Signs(a, b), InfMag)
  ELSE internal_normalize(Signs(a, b), RealExp(a) + RealExp(b) - Bias - (F - 3), Sig(a) * Sig(b))

\* The dividend is shifted to the top of its word, the divisor's zeros go.
Up(sig)   == CHOOSE n \in 0 .. SigBits : Pow2[SigBits - 1] <= sig * Pow2[n] /\ sig * Pow2[n] < Pow2[SigBits]
Down(sig) == CHOOSE n \in 0 .. F : sig % Pow2[n] = 0 /\ (sig \div Pow2[n]) % 2 = 1

QuotientOf(a, b) ==
  LET shift == Up(Sig(a)) + Down(Sig(b))
      sig   == (Sig(a) * Pow2[Up(Sig(a))]) \div (Sig(b) \div Pow2[Down(Sig(b))])
  IN  internal_normalize(Signs(a, b), RealExp(a) - RealExp(b) + Bias - (shift - F - 3), sig)

internal_float_div(b, a) ==
  IF (IsZero(a) /\ IsZero(b)) \/ (IsInf(a) /\ IsInf(b)) THEN NNan
  ELSE IF IsNan(a) \/ IsNan(b) THEN NanOf(a, b)
  ELSE IF IsInf(a) \/ IsZero(b) THEN P(Signs(a, b), InfMag)
  ELSE IF IsZero(a) \/ IsInf(b) THEN P(Signs(a, b), 0)
  ELSE QuotientOf(a, b)

-----------------------------------------------------------------------------
FpuIdle == [op |-> "none", a |-> P(0, 0), b |-> P(0, 0)]

FpuCall(op, b, res) == st0' = res /\ call' = [op |-> op, a |-> st0, b |-> b]

FpuAdd(b) == FpuCall("add", b, internal_float_add(b, st0))
FpuSub(b) == FpuCall("sub", b, internal_float_sub(b, st0))
FpuMul(b) == FpuCall("mul", b, internal_float_mul(b, st0))
FpuDiv(b) == FpuCall("div", b, internal_float_div(b, st0))

FpuInit == st0 = P(0, 0) /\ call = FpuIdle

\* Between two calls only the register remains.
FpuNext ==
  IF call = FpuIdle
  THEN \E b \in Pattern : FpuAdd(b) \/ FpuSub(b) \/ FpuMul(b) \/ FpuDiv(b)
  ELSE call' = FpuIdle /\ UNCHANGED st0
FpuSpec == FpuInit /\ [][FpuNext]_fpuVars

-----------------------------------------------------------------------------
(* The numbers themselves, as multiples of the least positive one.         *)

Finite(x) == Exp(x) # MaxExp
Mag(mag)  == IF mag < Hidden THEN mag ELSE ((mag % Hidden) + Hidden) * Pow2[mag \div Hidden - 1]
Number(x) == IF x.sign = 1 THEN -Mag(x.mag) ELSE Mag(x.mag)
Unit      == Pow2[Bias + F - 1]    \* the number 1

\* The magnitude nearest to num / den, the even one of two as near: InfMag
\* stands for the number that would follow the greatest.
Nearest(num, den) ==
  LET below == CHOOSE m \in 0 .. InfMag : Mag(m) * den <= num /\ (m = InfMag \/ num < Mag(m + 1) * den)
      up    == IF below = InfMag THEN -1 ELSE 2 * num - (Mag(below) + Mag(below + 1)) * den
  IN  IF up > 0 \/ (up = 0 /\ below % 2 = 1) THEN below + 1 ELSE below

\* The exact result of the call, as a fraction with a positive denominator.
Exact ==
  LET a == Number(call.a)
      b == Number(call.b)
      n == IF call.b.sign = 1 THEN -1 ELSE 1
  IN  CASE call.op = "add" -> <<a + b, 1>>
        [] call.op = "sub" -> <<a - b, 1>>
        [] call.op = "mul" -> <<a * b, Unit>>
        [] call.op = "div" -> <<a * Unit * n, b * n>>

\* The sign of the result, for a sum also when it is zero.
SignOf ==
  CASE call.op = "add" -> IF Exact[1] # 0 THEN (IF Exact[1] < 0 THEN 1 ELSE 0)
                          ELSE IF call.a.sign = 1 /\ call.b.sign = 1 THEN 1 ELSE 0
    [] call.op = "sub" -> IF Exact[1] # 0 THEN (IF Exact[1] < 0 THEN 1 ELSE 0)
                          ELSE IF call.a.sign = 1 /\ call.b.sign = 0 THEN 1 ELSE 0
    [] OTHER           -> Signs(call.a, call.b)

Rational == /\ call.op # "none" /\ Finite(call.a) /\ Finite(call.b)
            /\ call.op = "div" => ~IsZero(call.b)
Best == P(SignOf, Nearest(IF Exact[1] < 0 THEN -Exact[1] ELSE Exact[1], Exact[2]))

\* The two cases the code gets wrong: a result that rounding carries from the
\* denormals to the least normal number comes out as zero (fpu.c:118-144), and a
\* product whose exponent starts at 0 with no bits to shift is taken for a sum
\* of denormals, and doubled (fpu.c:107).
CarriesIntoNormal == Best.mag = Hidden /\ Exact[1] # Number(Best) * Exact[2]
TakenForSum == /\ call.op = "mul" /\ RealExp(call.a) + RealExp(call.b) - Bias - (F - 3) = 0
               /\ One(Sig(call.a) * Sig(call.b)) <= 1

\* Every operation on finite numbers returns the number nearest to the exact
\* result, denormals, overflow and the sign of zero included (fpu_test.c's
\* assertion; for a quotient it accepts the one below), but for those two cases.
FpuRight ==
  Rational => \/ st0 = Best
              \/ call.op = "div" /\ st0.sign = Best.sign /\ st0.mag = Best.mag - 1
              \/ CarriesIntoNormal /\ call.op \in {"mul", "div"} /\ st0 = P(Best.sign, 0)
              \/ TakenForSum
=============================================================================
