----------------------------- MODULE Fpu_proofs -----------------------------
(***************************************************************************)
(* The four operations of the FPU for every width of fraction and          *)
(* exponent: what they return is the number nearest to the exact result,   *)
(* but for the two cases FpuRight names.  A significand stands for an      *)
(* exact fraction (Stands) when comparing it with an even number gives     *)
(* what comparing the fraction gives: sums, products and quotients do when *)
(* they are computed, sticky shifts keep it, and the rounding compares     *)
(* with nothing else.  (The lemmas on division and on powers of two are    *)
(* those of Alu_proofs.)                                                   *)
(***************************************************************************)
EXTENDS Fpu, Alu_proofs

-----------------------------------------------------------------------------
(* Products and powers.                                                    *)

\* A positive factor can be put on or taken off both sides.
LEMMA TimesLess ==
  ASSUME NEW c \in Int, c > 0, NEW a \in Int, NEW b \in Int
  PROVE  /\ a < b <=> a * c < b * c
         /\ a <= b <=> a * c <= b * c
         /\ a = b <=> a * c = b * c
<1>1. a < b => a * c < b * c
  BY SMT
<1>2. b < a => b * c < a * c
  BY SMT
<1>3. a * c \in Int /\ b * c \in Int
  BY SMT
<1> QED
  BY <1>1, <1>2, <1>3

\* The product of integers is an integer, in either order.
LEMMA TimesInt ==
  ASSUME NEW a \in Int, NEW b \in Int
  PROVE  a * b \in Int /\ a * b = b * a
BY SMT

\* The product of natural numbers is one, and not 0 unless a factor is.
LEMMA TimesNat ==
  ASSUME NEW a \in Nat, NEW b \in Nat
  PROVE  a * b \in Nat /\ (a >= 1 /\ b >= 1 => a * b >= 1)
BY SMT

\* Products associate.
LEMMA TimesAssoc ==
  ASSUME NEW a \in Int, NEW b \in Int, NEW c \in Int
  PROVE  (a * b) * c = a * (b * c)
BY SMT

\* A product distributes over a sum, and a sign leaves it.
LEMMA TimesPlus ==
  ASSUME NEW a \in Int, NEW b \in Int, NEW c \in Int
  PROVE  (a + b) * c = a * c + b * c /\ (-a) * c = -(a * c)
BY SMT

\* Exponents add up.
LEMMA PowersPlus ==
  ASSUME NEW m \in Nat, NEW n \in Nat
  PROVE  Pow2[m + n] = Pow2[m] * Pow2[n]
<1> DEFINE Bad == {k \in Nat : Pow2[m + k] # Pow2[m] * Pow2[k]}
<1> SUFFICES ASSUME Bad # {} PROVE FALSE
  OBVIOUS
<1>1. PICK k \in Bad : \A i \in Bad : k <= i
  <2>1. Bad \in SUBSET Nat
    OBVIOUS
  <2> HIDE DEF Bad
  <2> QED
    BY <2>1, Least
<1>2. Pow2[m] \in Nat
  BY PowersNat
<1>3. k # 0
  BY <1>1, <1>2, PowersBase
<1>4. PICK j \in Nat : k = j + 1 /\ ~(k <= j)
  <2>1. k - 1 \in Nat
    BY <1>1, <1>3
  <2> QED
    BY <2>1
<1>5. Pow2[m + j] = Pow2[m] * Pow2[j]
  BY <1>1, <1>4
<1>6. Pow2[m + k] = 2 * Pow2[m + j] /\ Pow2[k] = 2 * Pow2[j]
  <2>1. m + j \in Nat /\ m + k = (m + j) + 1
    BY <1>4
  <2> QED
    BY <1>4, <2>1, PowersStep
<1>7. Pow2[m] * (2 * Pow2[j]) = 2 * (Pow2[m] * Pow2[j])
  <2>1. Pow2[j] \in Nat
    BY PowersNat
  <2> QED
    BY <1>2, <2>1, SMT
<1> QED
  BY <1>1, <1>5, <1>6, <1>7

\* The powers of two grow with the exponent.
LEMMA PowersGrow ==
  ASSUME NEW m \in Nat, NEW n \in Nat, m <= n
  PROVE  Pow2[m] <= Pow2[n]
<1>1. PICK k \in Nat : n = m + k
  <2>1. n - m \in Nat /\ n = m + (n - m)
    OBVIOUS
  <2> QED
    BY <2>1
<1>2. Pow2[m] \in Nat /\ Pow2[k] \in Nat /\ Pow2[k] >= 1
  BY PowersNat
<1>3. Pow2[n] = Pow2[m] * Pow2[k]
  BY <1>1, PowersPlus
<1>4. PICK a \in Nat, b \in Nat : a = Pow2[m] /\ b = Pow2[k] /\ b >= 1
  BY <1>2
<1>5. a * b >= a
  BY <1>4, SMT
<1> QED
  BY <1>3, <1>4, <1>5

\* The powers of two that the code writes as numbers.
LEMMA SmallPowers ==
  Pow2[0] = 1 /\ Pow2[1] = 2 /\ Pow2[2] = 4 /\ Pow2[3] = 8 /\ Pow2[4] = 16
<1>1. Pow2[0] = 1
  BY PowersBase
<1>2. Pow2[0 + 1] = 2 * Pow2[0] /\ Pow2[1 + 1] = 2 * Pow2[1] /\ Pow2[2 + 1] = 2 * Pow2[2] /\ Pow2[3 + 1] = 2 * Pow2[3]
  BY PowersStep
<1> QED
  BY <1>1, <1>2

-----------------------------------------------------------------------------
(* Patterns and the numbers they stand for.                                *)

\* What is known of a format's own numbers, whatever its widths.
LEMMA Widths ==
  /\ Hidden \in Nat /\ Hidden >= 16 /\ \E h \in Nat : Hidden = 16 * h
  /\ Bias \in Nat /\ Bias >= 1
  /\ MaxExp \in Nat /\ MaxExp = 2 * Bias + 1
  /\ InfMag \in Nat /\ InfMag = MaxExp * Hidden /\ InfMag >= 3 * Hidden
  /\ NanMag \in Nat /\ NanMag > InfMag /\ NanMag < InfMag + Hidden
<1>1. PICK h \in Nat : h >= 1 /\ Hidden = 16 * h
  <2>1. PICK k \in Nat : F = 4 + k
    <3>1. F - 4 \in Nat /\ F = 4 + (F - 4)
      BY FpuAssumption
    <3> QED
      BY <3>1
  <2>2. Hidden = 16 * Pow2[k]
    <3>1. PICK t \in Nat : t = 4 /\ Pow2[t] = 16
      BY SmallPowers
    <3>2. Pow2[t + k] = Pow2[t] * Pow2[k]
      BY PowersPlus, Zenon
    <3>3. Hidden = Pow2[t + k]
      BY <2>1, <3>1, Zenon DEF Hidden
    <3> QED
      BY <3>1, <3>2, <3>3, Zenon
  <2>3. Pow2[k] \in Nat /\ Pow2[k] >= 1
    BY PowersNat
  <2> QED
    BY <2>2, <2>3
<1>2. PICK p \in Nat : p >= 2 /\ Bias = p - 1 /\ MaxExp = 2 * p - 1
  <2>1. PICK k \in Nat : E = k + 2
    <3>1. E - 2 \in Nat /\ E = (E - 2) + 2
      BY FpuAssumption
    <3> QED
      BY <3>1
  <2>2. E - 1 = k + 1 /\ k + 1 \in Nat /\ E = (k + 1) + 1
    BY <2>1
  <2>3. Pow2[k + 1] = 2 * Pow2[k] /\ Pow2[(k + 1) + 1] = 2 * Pow2[k + 1]
    BY <2>2, PowersStep
  <2>4. Pow2[k] \in Nat /\ Pow2[k] >= 1
    BY PowersNat
  <2>5. Bias = Pow2[k + 1] - 1 /\ MaxExp = 2 * Pow2[k + 1] - 1
    BY <2>2, <2>3 DEF Bias, MaxExp
  <2> QED
    BY <2>3, <2>4, <2>5
<1>3. Hidden \div 2 = 8 * h
  BY <1>1, SMT
<1>4. PICK m \in Nat, k \in Nat, i \in Nat : m = MaxExp /\ k = Hidden /\ i = m * k /\ i = InfMag
  <2>1. MaxExp \in Nat /\ Hidden \in Nat
    BY <1>1, <1>2
  <2> QED
    BY <2>1, TimesNat DEF InfMag
<1>5. m * k >= 3 * k
  <2>1. m >= 3 /\ k >= 0
    BY <1>2, <1>4
  <2> QED
    BY <2>1, SMT
<1> QED
  BY <1>1, <1>2, <1>3, <1>4, <1>5 DEF NanMag

\* A magnitude, from its exponent and its fraction.
LEMMA MagOf ==
  ASSUME NEW e \in Nat, NEW f \in 0 .. Hidden - 1
  PROVE  Mag(e * Hidden + f) = IF e = 0 THEN f ELSE (f + Hidden) * Pow2[e - 1]
<1>1. PICK H \in Int : H = Hidden /\ H > 0
  BY Widths
<1>2. PICK m \in Int : m = e * H + f /\ m = H * e + f
  <2>1. e * H = H * e /\ e * H \in Int
    BY <1>1, TimesInt
  <2>2. e * H + f \in Int
    BY <1>1, <2>1
  <2> QED
    BY <2>1, <2>2
<1>3. m \div H = e /\ m % H = f
  <2>1. f \in 0 .. H - 1 /\ m = H * e + f /\ H > 0
    BY <1>1, <1>2
  <2> QED
    BY <2>1, DivModIs
<1>4. m < H <=> e = 0
  <2>1. e >= 1 => e * H >= H
    BY <1>1, SMT
  <2>2. e = 0 => e * H = 0
    BY <1>1, SMT
  <2>3. e * H \in Int
    BY TimesInt
  <2> QED
    BY <1>1, <1>2, <2>1, <2>2, <2>3
<1>5. e = 0 => m = f
  <2>1. e = 0 => e * H = 0
    BY <1>1, SMT
  <2> QED
    BY <1>1, <1>2, <2>1
<1> QED
  BY <1>1, <1>2, <1>3, <1>4, <1>5 DEF Mag

\* Its parts.
LEMMA MagParts ==
  ASSUME NEW m \in Nat
  PROVE  \E e \in Nat, f \in 0 .. Hidden - 1 : /\ m = e * Hidden + f
                                               /\ e = m \div Hidden /\ f = m % Hidden
<1>1. PICK H \in Int : H = Hidden /\ H > 0
  BY Widths
<1>2. PICK e \in Int, f \in 0 .. H - 1 : e = m \div H /\ f = m % H /\ m = H * e + f
  BY <1>1, DivModOf
<1>3. e >= 0
  <2>1. e <= -1 => H * e <= -H
    BY <1>1, SMT
  <2> QED
    BY <1>2, <2>1
<1>4. H * e = e * H
  BY TimesInt
<1> QED
  BY <1>1, <1>2, <1>3, <1>4

\* The distance to the next magnitude.
Step(e) == IF e = 0 THEN 1 ELSE Pow2[e - 1]

\* Two neighbours are a positive distance apart.
LEMMA StepNat ==
  ASSUME NEW e \in Nat
  PROVE  Step(e) \in Nat /\ Step(e) >= 1
BY PowersNat DEF Step

\* The number after the one with exponent e and fraction f is Step(e) greater.
LEMMA MagNext ==
  ASSUME NEW e \in Nat, NEW f \in 0 .. Hidden - 1
  PROVE  /\ Mag(e * Hidden + f) \in Nat
         /\ Mag(e * Hidden + f + 1) = Mag(e * Hidden + f) + Step(e)
<1>1. PICK H \in Nat : H = Hidden /\ H >= 16
  BY Widths
<1>2. PICK g \in Nat : g = f + H
  BY <1>1
<1>3. PICK m \in Nat : m = e * H + f
  BY <1>1, TimesNat
<1>4. CASE e = 0
  <2>1. Mag(m) = f
    BY <1>1, <1>3, <1>4, MagOf
  <2>2. m = f
    <3>1. e * H = 0
      BY <1>1, <1>4, SMT
    <3> QED
      BY <1>3, <3>1
  <2>3. CASE f + 1 < H
    <3>1. PICK i \in 0 .. Hidden - 1 : i = f + 1
      BY <1>1, <2>3
    <3>2. e * Hidden + i = m + 1
      BY <1>1, <1>3, <3>1, TimesInt
    <3>3. Mag(m + 1) = f + 1
      BY <1>1, <1>4, <3>1, <3>2, MagOf
    <3> QED
      BY <1>1, <1>3, <1>4, <2>1, <3>3 DEF Step
  <2>4. CASE f + 1 = H
    <3>1. PICK i \in Nat, z \in 0 .. Hidden - 1 : i = 1 /\ z = 0
      BY <1>1
    <3>2. i * Hidden + z = m + 1
      BY <1>1, <2>2, <2>4, <3>1
    <3>3. Mag(m + 1) = (z + Hidden) * Pow2[i - 1]
      BY <3>1, <3>2, MagOf
    <3>4. Pow2[i - 1] = 1
      BY <3>1, PowersBase
    <3>5. Mag(m + 1) = f + 1
      BY <1>1, <2>4, <3>1, <3>3, <3>4
    <3> QED
      BY <1>1, <1>3, <1>4, <2>1, <3>5 DEF Step
  <2> QED
    BY <1>1, <2>3, <2>4
<1>5. CASE e # 0
  <2>1. PICK k \in Nat : e = k + 1
    <3>1. e - 1 \in Nat /\ e = (e - 1) + 1
      BY <1>5
    <3> QED
      BY <3>1
  <2>2. PICK p \in Nat : p = Pow2[k] /\ Pow2[e - 1] = p /\ Pow2[e] = 2 * p
    <3>1. e - 1 = k
      BY <2>1
    <3>2. Pow2[k] \in Nat /\ Pow2[k + 1] = 2 * Pow2[k]
      BY PowersNat, PowersStep
    <3> QED
      BY <2>1, <3>1, <3>2
  <2>3. Mag(m) = g * p
    BY <1>1, <1>2, <1>3, <1>5, <2>2, MagOf
  <2>4. (g + 1) * p = g * p + p /\ g * p \in Nat
    BY SMT
  <2>5. Step(e) = p
    BY <1>5, <2>2 DEF Step
  <2>6. Mag(m + 1) = (g + 1) * p
    <3>1. CASE f + 1 < H
      <4>1. PICK i \in 0 .. Hidden - 1 : i = f + 1
        BY <1>1, <3>1
      <4>2. e * Hidden + i = m + 1
        BY <1>1, <1>3, <4>1, TimesInt
      <4>3. Mag(m + 1) = (i + Hidden) * p
        BY <1>5, <2>2, <4>2, MagOf
      <4>4. i + Hidden = g + 1
        BY <1>1, <1>2, <4>1
      <4> QED
        BY <4>3, <4>4
    <3>2. CASE f + 1 = H
      <4>1. PICK i \in Nat, z \in 0 .. Hidden - 1 : i = e + 1 /\ z = 0
        BY <1>1
      <4>2. i * Hidden + z = m + 1
        <5>1. (e + 1) * H = e * H + H /\ e * H \in Int
          BY <1>1, SMT
        <5> QED
          BY <1>1, <1>3, <3>2, <4>1, <5>1
      <4>3. Mag(m + 1) = (z + Hidden) * Pow2[i - 1]
        BY <4>1, <4>2, MagOf
      <4>4. i - 1 = e /\ z + Hidden = H
        BY <1>1, <4>1
      <4>5. H * (2 * p) = (g + 1) * p
        <5>1. g + 1 = 2 * H
          BY <1>1, <1>2, <3>2
        <5>2. H * (2 * p) = (2 * H) * p
          BY SMT
        <5> QED
          BY <5>1, <5>2
      <4> QED
        BY <2>2, <4>3, <4>4, <4>5
    <3> QED
      BY <1>1, <3>1, <3>2
  <2> QED
    BY <1>1, <1>3, <2>3, <2>4, <2>5, <2>6
<1> QED
  BY <1>4, <1>5

\* Magnitudes are ordered as the integers that encode them.
LEMMA MagNat ==
  ASSUME NEW m \in Nat
  PROVE  Mag(m) \in Nat /\ Mag(m + 1) \in Nat /\ Mag(m + 1) > Mag(m)
<1>1. PICK e \in Nat, f \in 0 .. Hidden - 1 : m = e * Hidden + f
  BY MagParts
<1>2. Mag(e * Hidden + f) \in Nat /\ Mag(e * Hidden + f + 1) = Mag(e * Hidden + f) + Step(e)
  BY MagNext
<1>3. Step(e) \in Nat /\ Step(e) >= 1
  BY StepNat
<1>4. Mag(m) \in Nat /\ Mag(m + 1) = Mag(m) + Step(e)
  BY <1>1, <1>2
<1> QED
  BY <1>3, <1>4

\* A greater magnitude stands for a greater number.
LEMMA MagGrows ==
  ASSUME NEW m \in Nat, NEW n \in Nat, m < n
  PROVE  Mag(m) < Mag(n)
<1> DEFINE Bad == {k \in Nat : m < k /\ ~(Mag(m) < Mag(k))}
<1> SUFFICES ASSUME Bad # {} PROVE FALSE
  OBVIOUS
<1>1. PICK k \in Bad : \A i \in Bad : k <= i
  <2>1. Bad \in SUBSET Nat
    OBVIOUS
  <2> HIDE DEF Bad
  <2> QED
    BY <2>1, Least
<1>2. PICK j \in Nat : k = j + 1 /\ ~(k <= j)
  <2>1. k - 1 \in Nat
    BY <1>1
  <2> QED
    BY <2>1
<1>3. Mag(j) \in Nat /\ Mag(k) \in Nat /\ Mag(k) > Mag(j) /\ Mag(m) \in Nat
  BY <1>2, MagNat
<1>4. j # m
  BY <1>1, <1>3
<1>5. m < j
  BY <1>1, <1>2, <1>4
<1>6. Mag(m) < Mag(j)
  BY <1>1, <1>2, <1>5
<1> QED
  BY <1>1, <1>3, <1>6

\* Up to twice the least normal number every integer is a number.
LEMMA MagSmall ==
  ASSUME NEW m \in 0 .. 2 * Hidden
  PROVE  Mag(m) = m
<1>1. PICK H \in Nat : H = Hidden /\ H >= 16
  BY Widths
<1> DEFINE Bad == {k \in Nat : k <= 2 * H /\ Mag(k) # k}
<1> SUFFICES ASSUME Bad # {} PROVE FALSE
  BY <1>1
<1>2. PICK k \in Bad : \A i \in Bad : k <= i
  <2>1. Bad \in SUBSET Nat
    OBVIOUS
  <2> HIDE DEF Bad
  <2> QED
    BY <2>1, Least
<1>3. CASE k = 0
  <2>1. PICK z \in Nat, f \in 0 .. Hidden - 1 : z = 0 /\ f = 0
    BY <1>1
  <2>2. Mag(z * Hidden + f) = f
    BY <2>1, MagOf
  <2>3. z * Hidden + f = k
    BY <1>1, <1>3, <2>1
  <2> QED
    BY <1>2, <1>3, <2>1, <2>2, <2>3
<1>4. CASE k # 0
  <2>1. PICK j \in Nat : k = j + 1 /\ ~(k <= j)
    <3>1. k - 1 \in Nat
      BY <1>2, <1>4
    <3> QED
      BY <3>1
  <2>2. Mag(j) = j /\ j < 2 * H
    BY <1>2, <2>1
  <2>3. PICK e \in Nat, f \in 0 .. Hidden - 1 : j = e * Hidden + f
    BY MagParts
  <2>4. e = 0 \/ e = 1
    <3>1. e >= 2 => e * H >= 2 * H
      BY SMT
    <3>2. e * H \in Int
      BY TimesInt
    <3> QED
      BY <1>1, <2>2, <2>3, <3>1, <3>2
  <2>5. Step(e) = 1
    BY <2>4, PowersBase DEF Step
  <2>6. Mag(j + 1) = Mag(j) + Step(e)
    BY <2>3, MagNext
  <2> QED
    BY <1>2, <2>1, <2>2, <2>5, <2>6
<1> QED
  BY <1>3, <1>4

\* The magnitude that infinity stands for.
LEMMA MagInf == Mag(InfMag) = Hidden * Pow2[MaxExp - 1] /\ MaxExp - 1 \in Nat
<1>1. PICK z \in 0 .. Hidden - 1, e \in Nat : z = 0 /\ e = MaxExp /\ e >= 3
  BY Widths
<1>2. Mag(e * Hidden + z) = (z + Hidden) * Pow2[e - 1]
  BY <1>1, MagOf
<1>3. e * Hidden + z = InfMag /\ z + Hidden = Hidden
  BY <1>1, Widths
<1> QED
  BY <1>1, <1>2, <1>3

-----------------------------------------------------------------------------
(* The nearest number.                                                     *)

\* m is the greatest magnitude that is not above num / den.
IsBelow(m, num, den) == Mag(m) * den <= num /\ (m = InfMag \/ num < Mag(m + 1) * den)

\* There is one greatest magnitude that is not above a fraction.
LEMMA BelowUnique ==
  ASSUME NEW num \in Nat, NEW den \in Nat, den >= 1,
         NEW i \in 0 .. InfMag, NEW j \in 0 .. InfMag, IsBelow(i, num, den), IsBelow(j, num, den)
  PROVE  i = j
<1>1. ASSUME NEW a \in 0 .. InfMag, NEW b \in 0 .. InfMag, IsBelow(a, num, den), IsBelow(b, num, den), a < b
      PROVE  FALSE
  <2>1. InfMag \in Nat
    BY Widths
  <2>2. PICK c \in Nat : c = a + 1 /\ c <= b /\ a # InfMag /\ a \in Nat /\ b \in Nat
    BY <1>1, <2>1
  <2>3. PICK x \in Nat, y \in Nat : x = Mag(c) /\ y = Mag(b) /\ x <= y
    <3>1. PICK x \in Nat, y \in Nat : x = Mag(c) /\ y = Mag(b)
      BY <2>2, MagNat
    <3>2. c < b => x < y
      BY <2>2, <3>1, MagGrows
    <3>3. c = b => x = y
      BY <3>1
    <3> QED
      BY <2>2, <3>1, <3>2, <3>3
  <2>4. x * den <= y * den /\ x * den \in Int /\ y * den \in Int
    <3>1. x * den <= y * den
      BY <2>3, TimesLess
    <3> QED
      BY <3>1, TimesInt
  <2>5. num < x * den /\ y * den <= num
    BY <1>1, <2>2, <2>3 DEF IsBelow
  <2> QED
    BY <2>4, <2>5
<1>2. i \in Int /\ j \in Int
  BY Widths
<1> QED
  BY <1>1, <1>2

\* Between two neighbours the nearer one is taken, and the even one halfway.
LEMMA NearestIs ==
  ASSUME NEW num \in Nat, NEW den \in Nat, den >= 1, NEW m \in Nat, m < InfMag,
         Mag(m) * den <= num, num < Mag(m + 1) * den
  PROVE  Nearest(num, den) = IF \/ 2 * num > (Mag(m) + Mag(m + 1)) * den
                                \/ 2 * num = (Mag(m) + Mag(m + 1)) * den /\ m % 2 = 1
                             THEN m + 1 ELSE m
<1> DEFINE below == CHOOSE i \in 0 .. InfMag : IsBelow(i, num, den)
<1>1. m \in 0 .. InfMag /\ IsBelow(m, num, den) /\ m # InfMag
  BY Widths DEF IsBelow
<1>2. below \in 0 .. InfMag /\ IsBelow(below, num, den)
  BY <1>1
<1>3. below = m
  BY <1>1, <1>2, BelowUnique
<1>4. below = CHOOSE i \in 0 .. InfMag : Mag(i) * den <= num /\ (i = InfMag \/ num < Mag(i + 1) * den)
  BY DEF IsBelow
<1> HIDE DEF below
<1>5. PICK s \in Int : s = (Mag(m) + Mag(m + 1)) * den
  <2>1. Mag(m) + Mag(m + 1) \in Int
    BY MagNat
  <2> QED
    BY <2>1, TimesInt
<1>6. Nearest(num, den) = IF 2 * num - s > 0 \/ (2 * num - s = 0 /\ m % 2 = 1) THEN m + 1 ELSE m
  BY <1>1, <1>3, <1>4, <1>5, Zenon DEF Nearest
<1> QED
  BY <1>5, <1>6

\* From the number after the greatest on it is infinity.
LEMMA NearestInf ==
  ASSUME NEW num \in Nat, NEW den \in Nat, den >= 1, Mag(InfMag) * den <= num
  PROVE  Nearest(num, den) = InfMag
<1> DEFINE below == CHOOSE i \in 0 .. InfMag : IsBelow(i, num, den)
<1>1. InfMag \in 0 .. InfMag /\ IsBelow(InfMag, num, den)
  BY Widths DEF IsBelow
<1>2. below \in 0 .. InfMag /\ IsBelow(below, num, den)
  BY <1>1
<1>3. below = InfMag
  BY <1>1, <1>2, BelowUnique
<1>4. below = CHOOSE i \in 0 .. InfMag : Mag(i) * den <= num /\ (i = InfMag \/ num < Mag(i + 1) * den)
  BY DEF IsBelow
<1> DEFINE up == IF below = InfMag THEN -1 ELSE 2 * num - (Mag(below) + Mag(below + 1)) * den
<1>5. Nearest(num, den) = IF up > 0 \/ (up = 0 /\ below % 2 = 1) THEN below + 1 ELSE below
  BY Zenon DEF Nearest, IsBelow
<1> HIDE DEF below
<1>6. up = -1
  BY <1>3
<1> HIDE DEF up
<1>7. ~(up > 0) /\ up # 0
  BY <1>6
<1> QED
  BY <1>3, <1>5, <1>7

\* A number is the nearest to itself.
LEMMA NearestExact ==
  ASSUME NEW m \in Nat, m < InfMag
  PROVE  Nearest(Mag(m), 1) = m
<1>1. PICK x \in Nat, y \in Nat : x = Mag(m) /\ y = Mag(m + 1) /\ y > x
  BY MagNat
<1>2. PICK den \in Nat : den = 1
  OBVIOUS
<1>3. x * den = x /\ y * den = y /\ (x + y) * den = x + y
  BY <1>2, SMT
<1>4. Nearest(x, den) = IF 2 * x > (x + y) * den \/ (2 * x = (x + y) * den /\ m % 2 = 1) THEN m + 1 ELSE m
  BY <1>1, <1>2, <1>3, NearestIs
<1> QED
  BY <1>1, <1>2, <1>3, <1>4

-----------------------------------------------------------------------------
(* What a significand says of the number it came from.                     *)

\* s compares with every multiple u of g as N / D does; a significand that was cut
\* ("cut") may also be equal to u when N / D is above it.
Stands(how, g, s, N, D) ==
  \A u \in Int : u % g = 0 => /\ s < u <=> N < u * D
                              /\ s > u => N > u * D
                              /\ how = "exact" => (N > u * D => s > u)

\* The bit that ShiftRight keeps sticky keeps every comparison with an even number.
LEMMA ShiftRightIs ==
  ASSUME NEW s \in Nat
  PROVE  /\ ShiftRight(s) \in Nat
         /\ \A t \in Int : (ShiftRight(s) < 2 * t <=> s < 4 * t) /\ (ShiftRight(s) > 2 * t <=> s > 4 * t)
         /\ s >= 2 => ShiftRight(s) <= s - 1
         /\ ShiftRight(s) <= s
         /\ s % 2 = 0 => 2 * ShiftRight(s) = s
<1>1. PICK q \in Int, r \in 0 .. 1 : q = s \div 2 /\ r = s % 2 /\ s = 2 * q + r
  BY SMT
<1>2. PICK p \in Int, c \in 0 .. 1 : p = q \div 2 /\ c = q % 2 /\ q = 2 * p + c
  BY SMT
<1>3. ShiftRight(s) = IF r = 1 /\ c = 0 THEN q + 1 ELSE q
  BY <1>1, <1>2 DEF ShiftRight
<1> QED
  BY <1>1, <1>2, <1>3

\* Shifting by k + 1 is shifting by k and once more.
LEMMA AlignedSteps ==
  ASSUME NEW s \in Nat
  PROVE  /\ Aligned(s, 0) = s
         /\ \A k \in Nat : Aligned(s, k) \in Nat /\ Aligned(s, k + 1) = ShiftRight(Aligned(s, k))
<1> DEFINE g == [x \in Nat |-> ShiftRight(x)]
<1>1. PICK f \in [Nat -> Nat] : f[0] = s /\ \A n \in Nat : n # 0 => f[n] = g[f[n - 1]]
  <2>1. g \in [Nat -> Nat]
    BY ShiftRightIs
  <2> HIDE DEF g
  <2> QED
    BY <2>1, Repeated
<1> DEFINE q == [i \in Nat |-> IF i = 0 THEN s ELSE ShiftRight(f[i - 1])]
<1>2. ASSUME NEW n \in Nat PROVE f[n] = q[n]
  <2>1. CASE n = 0
    BY <1>1, <2>1
  <2>2. CASE n # 0
    <3>1. n - 1 \in Nat
      BY <2>2
    <3>2. f[n - 1] \in Nat
      BY <1>1, <3>1
    <3> QED
      BY <1>1, <2>2, <3>1, <3>2
  <2> QED
    BY <2>1, <2>2
<1>3. f = [n \in Nat |-> f[n]] /\ q = [n \in Nat |-> q[n]]
  OBVIOUS
<1>4. f = q
  <2> HIDE DEF q
  <2> QED
    BY <1>2, <1>3
<1>5. \E p : p = [i \in Nat |-> IF i = 0 THEN s ELSE ShiftRight(p[i - 1])]
  BY <1>4
<1> DEFINE aligned == CHOOSE p : p = [i \in Nat |-> IF i = 0 THEN s ELSE ShiftRight(p[i - 1])]
<1>6. aligned = [i \in Nat |-> IF i = 0 THEN s ELSE ShiftRight(aligned[i - 1])]
  BY <1>5
<1>7. \A k \in Nat : Aligned(s, k) = aligned[k]
  BY Zenon DEF Aligned
<1> HIDE DEF aligned
<1>8. Aligned(s, 0) = s
  BY <1>6, <1>7
<1>9. ASSUME NEW k \in Nat PROVE Aligned(s, k + 1) = ShiftRight(Aligned(s, k))
  <2>1. k + 1 \in Nat /\ k + 1 # 0 /\ (k + 1) - 1 = k
    OBVIOUS
  <2>2. aligned[k + 1] = ShiftRight(aligned[(k + 1) - 1])
    BY <1>6, <2>1, Zenon
  <2> QED
    BY <1>7, <2>1, <2>2
<1>10. ASSUME NEW k \in Nat PROVE Aligned(s, k) \in Nat
  <2> DEFINE Bad == {i \in Nat : Aligned(s, i) \notin Nat}
  <2> SUFFICES ASSUME Bad # {} PROVE FALSE
    OBVIOUS
  <2>1. PICK i \in Bad : \A j \in Bad : i <= j
    <3>1. Bad \in SUBSET Nat
      OBVIOUS
    <3> HIDE DEF Bad
    <3> QED
      BY <3>1, Least
  <2>2. i # 0
    BY <1>8, <2>1
  <2>3. PICK j \in Nat : i = j + 1 /\ ~(i <= j)
    <3>1. i - 1 \in Nat /\ i = (i - 1) + 1 /\ ~(i <= i - 1)
      BY <2>1, <2>2
    <3> QED
      BY <3>1
  <2>4. Aligned(s, j) \in Nat
    BY <2>1, <2>3
  <2>5. Aligned(s, j + 1) \in Nat
    BY <1>9, <2>4, ShiftRightIs
  <2> QED
    BY <2>1, <2>3, <2>5
<1> QED
  BY <1>8, <1>9, <1>10

\* A sticky shift loses nothing that a comparison with an even number needs.
LEMMA ShiftStands ==
  ASSUME NEW how, NEW g \in {2, 4}, NEW s \in Nat, NEW N \in Int, NEW D \in Nat, Stands(how, g, s, N, D)
  PROVE  Stands(how, 2, ShiftRight(s), N, 2 * D)
<1>1. SUFFICES ASSUME NEW u \in Int, u % 2 = 0
               PROVE  /\ ShiftRight(s) < u <=> N < u * (2 * D)
                      /\ ShiftRight(s) > u => N > u * (2 * D)
                      /\ how = "exact" => (N > u * (2 * D) => ShiftRight(s) > u)
  BY DEF Stands
<1>2. PICK t \in Int, v \in Int : u = 2 * t /\ v = 4 * t /\ v = 2 * u
  <2>1. u = 2 * (u \div 2) + 0 /\ u \div 2 \in Int
    BY <1>1, DivModOf
  <2> QED
    BY <2>1
<1>3. v % g = 0
  BY <1>2
<1>4. v * D = u * (2 * D)
  BY <1>2, SMT
<1>5. (s < v <=> N < v * D) /\ (s > v => N > v * D) /\ (how = "exact" => (N > v * D => s > v))
  BY <1>3 DEF Stands
<1>6. (ShiftRight(s) < u <=> s < v) /\ (ShiftRight(s) > u <=> s > v)
  BY <1>2, ShiftRightIs
<1> QED
  BY <1>4, <1>5, <1>6

\* Nor do as many shifts as two operands' exponents are apart.
LEMMA AlignedStands ==
  ASSUME NEW how, NEW s \in Nat, NEW N \in Int, NEW D \in Nat, Stands(how, 2, s, N, D), NEW k \in Nat
  PROVE  Stands(how, 2, Aligned(s, k), N, D * Pow2[k])
<1> DEFINE Bad == {i \in Nat : ~Stands(how, 2, Aligned(s, i), N, D * Pow2[i])}
<1> SUFFICES ASSUME Bad # {} PROVE FALSE
  OBVIOUS
<1>1. PICK i \in Bad : \A j \in Bad : i <= j
  <2>1. Bad \in SUBSET Nat
    OBVIOUS
  <2> HIDE DEF Bad
  <2> QED
    BY <2>1, Least
<1>2. i # 0
  <2>1. Aligned(s, 0) = s /\ D * Pow2[0] = D
    BY AlignedSteps, PowersBase
  <2> QED
    BY <1>1, <2>1
<1>3. PICK j \in Nat : i = j + 1 /\ ~(i <= j)
  <2>1. i - 1 \in Nat /\ i = (i - 1) + 1 /\ ~(i <= i - 1)
    BY <1>1, <1>2
  <2> QED
    BY <2>1
<1>4. Stands(how, 2, Aligned(s, j), N, D * Pow2[j])
  BY <1>1, <1>3
<1>5. PICK x \in Nat, p \in Nat, C \in Nat : x = Aligned(s, j) /\ p = Pow2[j] /\ C = D * p
  <2>1. Aligned(s, j) \in Nat /\ Pow2[j] \in Nat
    BY AlignedSteps, PowersNat
  <2> QED
    BY <2>1, TimesNat
<1>6. PICK g \in {2, 4} : g = 2
  OBVIOUS
<1>7. Stands(how, g, x, N, C)
  BY <1>4, <1>5, <1>6
<1>8. Stands(how, 2, ShiftRight(x), N, 2 * C)
  BY <1>7, ShiftStands
<1>9. Aligned(s, i) = ShiftRight(x) /\ D * Pow2[i] = 2 * C
  <2>1. Pow2[i] = 2 * p
    BY <1>3, <1>5, PowersStep
  <2>2. D * (2 * p) = 2 * (D * p)
    BY SMT
  <2> QED
    BY <1>3, <1>5, <2>1, <2>2, AlignedSteps
<1> QED
  BY <1>1, <1>8, <1>9

-----------------------------------------------------------------------------
(* The two loops of internal_normalize.                                    *)

\* The bits above the fraction tell on which side of 1 and of 2 a significand is.
LEMMA OneIs ==
  ASSUME NEW s \in Nat
  PROVE  /\ One(s) \in Nat
         /\ One(s) > 1 <=> s >= 16 * Hidden
         /\ One(s) = 0 <=> s < 8 * Hidden
<1>1. PICK H \in Nat : H = Hidden /\ H >= 16
  BY Widths
<1>2. PICK M \in Nat : M = 8 * H /\ M > 0
  BY <1>1
<1>3. PICK q \in Int, r \in 0 .. M - 1 : q = One(s) /\ s = M * q + r
  BY <1>1, <1>2, DivModOf DEF One
<1>4. (q >= 2 => M * q >= 2 * M) /\ (q <= 1 => M * q <= M) /\ (q <= 0 => M * q <= 0) /\ (q >= 1 => M * q >= M) /\ (q < 0 => M * q <= -M)
  BY <1>2, SMT
<1>5. PICK p \in Int : p = M * q
  BY TimesInt
<1>6. q >= 0
  BY <1>2, <1>3, <1>4, <1>5
<1>7. q > 1 <=> s >= 2 * M
  BY <1>2, <1>3, <1>4, <1>5
<1>8. q = 0 <=> s < M
  BY <1>2, <1>3, <1>4, <1>5, <1>6
<1> QED
  BY <1>1, <1>2, <1>3, <1>6, <1>7, <1>8

\* What the condition of the right-shift loop says when it goes on and when it stops.
LEMMA ShiftsOnIs ==
  ASSUME NEW e \in Int, NEW s \in Nat
  PROVE  /\ ShiftsOn(e, s) => s >= 2
         /\ ShiftsOn(e, s) /\ e >= 0 => s >= 16 * Hidden
         /\ ~ShiftsOn(e, s) /\ e < MaxExp => s < 16 * Hidden
         /\ ~ShiftsOn(e, s) /\ e < 0 => s <= 4
<1>1. One(s) > 1 <=> s >= 16 * Hidden
  BY OneIs
<1> QED
  BY <1>1, Widths DEF ShiftsOn

\* A significand is 0 or 1 after as many shifts as it is large.
LEMMA RightEnds ==
  ASSUME NEW exp \in Int, NEW sig \in Nat
  PROVE  \E n \in 0 .. sig : ~ShiftsOn(exp + n, Aligned(sig, n))
<1> SUFFICES ASSUME \A n \in 0 .. sig : ShiftsOn(exp + n, Aligned(sig, n)) PROVE FALSE
  OBVIOUS
<1> DEFINE Bad == {i \in Nat : i <= sig /\ ~(Aligned(sig, i) <= sig - i)}
<1>1. Bad = {}
  <2> SUFFICES ASSUME Bad # {} PROVE FALSE
    OBVIOUS
  <2>1. PICK i \in Bad : \A j \in Bad : i <= j
    <3>1. Bad \in SUBSET Nat
      OBVIOUS
    <3> HIDE DEF Bad
    <3> QED
      BY <3>1, Least
  <2>2. i # 0
    <3>1. Aligned(sig, 0) = sig
      BY AlignedSteps
    <3> QED
      BY <2>1, <3>1
  <2>3. PICK j \in Nat : i = j + 1 /\ ~(i <= j) /\ j \in 0 .. sig
    <3>1. i - 1 \in Nat /\ i = (i - 1) + 1 /\ ~(i <= i - 1) /\ i - 1 \in 0 .. sig
      BY <2>1, <2>2
    <3> QED
      BY <3>1
  <2>4. PICK x \in Nat : x = Aligned(sig, j) /\ x <= sig - j
    BY <2>1, <2>3, AlignedSteps
  <2>5. ShiftsOn(exp + j, x) /\ exp + j \in Int
    BY <2>3, <2>4
  <2>6. x >= 2
    BY <2>5, ShiftsOnIs
  <2>7. ShiftRight(x) <= x - 1 /\ ShiftRight(x) \in Nat
    BY <2>6, ShiftRightIs
  <2>8. Aligned(sig, i) = ShiftRight(x)
    BY <2>3, <2>4, AlignedSteps
  <2> QED
    BY <2>1, <2>3, <2>4, <2>7, <2>8
<1>2. PICK x \in Nat : x = Aligned(sig, sig) /\ x <= 0
  <2>1. Aligned(sig, sig) \in Nat
    BY AlignedSteps
  <2>2. Aligned(sig, sig) <= sig - sig
    BY <1>1
  <2> QED
    BY <2>1, <2>2
<1>3. ShiftsOn(exp + sig, x) /\ exp + sig \in Int
  <2>1. sig \in 0 .. sig
    OBVIOUS
  <2> QED
    BY <1>2, <2>1
<1>4. x >= 2
  BY <1>3, ShiftsOnIs
<1> QED
  BY <1>2, <1>4

\* The loop to the right shifts k times: it stops there, and not one step before.
LEMMA TowardRightIs ==
  ASSUME NEW exp \in Int, NEW sig \in Nat
  PROVE  \E k \in Nat : /\ TowardRight(exp, sig) = <<exp + k, Aligned(sig, k)>>
                        /\ ~ShiftsOn(exp + k, Aligned(sig, k))
                        /\ k # 0 => \E j \in Nat : k = j + 1 /\ ShiftsOn(exp + j, Aligned(sig, j))
<1> DEFINE Stops(n) == /\ ~ShiftsOn(exp + n, Aligned(sig, n))
                       /\ \A k \in 0 .. n - 1 : ShiftsOn(exp + k, Aligned(sig, k))
           T == {n \in 0 .. sig : ~ShiftsOn(exp + n, Aligned(sig, n))}
           n == CHOOSE n \in 0 .. sig : Stops(n)
<1>1. PICK m \in T : \A k \in T : m <= k
  <2>1. T \in SUBSET Nat /\ T # {}
    <3>1. PICK i \in 0 .. sig : ~ShiftsOn(exp + i, Aligned(sig, i))
      BY RightEnds
    <3>2. i \in T
      BY <3>1
    <3> QED
      BY <3>2
  <2> HIDE DEF T
  <2> QED
    BY <2>1, Least
<1>2. m \in 0 .. sig /\ Stops(m)
  <2>1. ASSUME NEW k \in 0 .. m - 1 PROVE ShiftsOn(exp + k, Aligned(sig, k))
    <3>1. k \in 0 .. sig /\ ~(m <= k)
      BY <1>1
    <3> QED
      BY <1>1, <3>1
  <2> QED
    BY <1>1, <2>1
<1>3. n \in 0 .. sig /\ Stops(n)
  <2> HIDE DEF Stops
  <2> QED
    BY <1>2
<1>4. TowardRight(exp, sig) = <<exp + n, Aligned(sig, n)>>
  BY Zenon DEF TowardRight
<1> HIDE DEF n
<1>5. n # 0 => \E j \in Nat : n = j + 1 /\ ShiftsOn(exp + j, Aligned(sig, j))
  <2>1. ASSUME n # 0 PROVE n - 1 \in Nat /\ n = (n - 1) + 1 /\ n - 1 \in 0 .. n - 1
    BY <1>3, <2>1
  <2> QED
    BY <1>3, <2>1
<1> QED
  BY <1>3, <1>4, <1>5

\* The loop to the left stops at the first bit above the fraction, or at exponent 0.
LEMMA TowardLeftIs ==
  ASSUME NEW exp \in Nat, NEW sig \in Nat
  PROVE  \E n \in 0 .. exp : /\ TowardLeft(exp, sig) = <<exp - n, sig * Pow2[n]>>
                             /\ n = exp \/ One(sig * Pow2[n]) # 0
                             /\ \A k \in 0 .. n - 1 : One(sig * Pow2[k]) = 0
<1> DEFINE Stops(n) == /\ n = exp \/ One(sig * Pow2[n]) # 0
                       /\ \A k \in 0 .. n - 1 : One(sig * Pow2[k]) = 0
           T == {n \in 0 .. exp : n = exp \/ One(sig * Pow2[n]) # 0}
           n == CHOOSE n \in 0 .. exp : Stops(n)
<1>1. PICK m \in T : \A k \in T : m <= k
  <2>1. T \in SUBSET Nat /\ exp \in T
    OBVIOUS
  <2> HIDE DEF T
  <2> QED
    BY <2>1, Least
<1>2. m \in 0 .. exp /\ Stops(m)
  <2>1. ASSUME NEW k \in 0 .. m - 1 PROVE One(sig * Pow2[k]) = 0
    <3>1. k \in 0 .. exp /\ ~(m <= k)
      BY <1>1
    <3> QED
      BY <1>1, <3>1
  <2> QED
    BY <1>1, <2>1
<1>3. n \in 0 .. exp /\ Stops(n)
  <2> HIDE DEF Stops
  <2> QED
    BY <1>2
<1>4. TowardLeft(exp, sig) = <<exp - n, sig * Pow2[n]>>
  BY Zenon DEF TowardLeft
<1> HIDE DEF n
<1> QED
  BY <1>3, <1>4

-----------------------------------------------------------------------------
(* Rounding.                                                               *)

\* Whether the three bits r round the kept bits k up.
RoundsUp(k, r) == r > 4 \/ (r = 4 /\ k % 2 = 1)

\* Rounding looks at three bits and carries into the fraction, or the exponent.
LEMMA RoundedOf ==
  ASSUME NEW sg, NEW e \in Int, NEW s \in Nat, s < 16 * Hidden
  PROVE  \E k \in Nat, r \in 0 .. 7 :
           /\ s = 8 * k + r /\ k < 2 * Hidden
           /\ RoundsUp(k, r) /\ k + 1 = 2 * Hidden => Rounded(sg, e, s) = P(sg, (e + 1) * Hidden)
           /\ RoundsUp(k, r) /\ k + 1 # 2 * Hidden => Rounded(sg, e, s) = P(sg, e * Hidden + ((k + 1) % Hidden))
           /\ ~RoundsUp(k, r) => Rounded(sg, e, s) = P(sg, e * Hidden + (k % Hidden))
<1>1. PICK H \in Nat : H = Hidden /\ H >= 16
  BY Widths
<1>2. PICK k \in Nat, r \in 0 .. 7 : k = s \div 8 /\ r = s % 8 /\ s = 8 * k + r /\ k < 2 * H
  BY <1>1, SMT
<1> DEFINE kept == k + (IF RoundsUp(k, r) THEN 1 ELSE 0)
<1>3. Rounded(sg, e, s) = IF kept \div Hidden > 1 THEN P(sg, (e + 1) * Hidden + ((kept \div 2) % Hidden))
                                                   ELSE P(sg, e * Hidden + (kept % Hidden))
  BY <1>2, Zenon DEF Rounded, RoundsUp
<1>4. kept \in Nat /\ (RoundsUp(k, r) => kept = k + 1) /\ (~RoundsUp(k, r) => kept = k)
  BY <1>2
<1> HIDE DEF kept
<1>5. PICK q \in Int, b \in 0 .. H - 1 : q = kept \div H /\ kept = H * q + b
  BY <1>1, <1>4, DivModOf
<1>6. q > 1 <=> kept = 2 * H
  <2>1. (q >= 2 => H * q >= 2 * H) /\ (q <= 1 => H * q <= H)
    BY <1>1, SMT
  <2>2. PICK p \in Int : p = H * q
    BY TimesInt
  <2>3. kept <= 2 * H
    BY <1>2, <1>4
  <2> QED
    BY <1>1, <1>5, <2>1, <2>2, <2>3
<1>7. CASE kept = 2 * H
  <2>1. kept \div 2 = H
    BY <1>1, <1>7
  <2>2. H % H = 0
    <3>1. PICK z \in 0 .. H - 1, o \in Int : z = 0 /\ o = 1
      BY <1>1
    <3>2. H = H * o + z
      BY <1>1, <3>1
    <3> QED
      BY <1>1, <3>1, <3>2, DivModIs
  <2>3. (e + 1) * H \in Int
    BY <1>1, TimesInt
  <2>4. Rounded(sg, e, s) = P(sg, (e + 1) * Hidden)
    BY <1>1, <1>3, <1>5, <1>6, <1>7, <2>1, <2>2, <2>3
  <2>5. RoundsUp(k, r) /\ k + 1 = 2 * Hidden
    BY <1>1, <1>2, <1>4, <1>7
  <2> QED
    BY <1>1, <1>2, <2>4, <2>5
<1>8. CASE kept # 2 * H
  <2>1. Rounded(sg, e, s) = P(sg, e * Hidden + (kept % Hidden))
    BY <1>1, <1>3, <1>5, <1>6, <1>8
  <2>2. ~(RoundsUp(k, r) /\ k + 1 = 2 * Hidden)
    BY <1>1, <1>4, <1>8
  <2>3. RoundsUp(k, r) => Rounded(sg, e, s) = P(sg, e * Hidden + ((k + 1) % Hidden))
    BY <1>4, <2>1
  <2>4. ~RoundsUp(k, r) => Rounded(sg, e, s) = P(sg, e * Hidden + (k % Hidden))
    BY <1>4, <2>1
  <2> QED
    BY <1>1, <1>2, <2>2, <2>3, <2>4
<1> QED
  BY <1>7, <1>8

\* A sign and a magnitude up to infinity make a pattern.
LEMMA InPattern ==
  ASSUME NEW sg \in {0, 1}, NEW m \in 0 .. InfMag
  PROVE  P(sg, m) \in Pattern
BY DEF P, Pattern

\* Rounding a finite number gives one, or infinity.
LEMMA RoundedPattern ==
  ASSUME NEW sg \in {0, 1}, NEW e \in Nat, e < MaxExp, NEW s \in Nat, s < 16 * Hidden
  PROVE  Rounded(sg, e, s) \in Pattern
<1>1. PICK H \in Nat, X \in Nat : H = Hidden /\ H >= 16 /\ X = MaxExp /\ InfMag = X * H
  BY Widths
<1>2. (e + 1) * H <= X * H /\ (e + 1) * H = e * H + H /\ e * H \in Nat /\ X * H \in Nat
  <2>1. e + 1 \in Nat /\ e + 1 <= X
    BY <1>1
  <2>2. (e + 1) * H <= X * H
    BY <1>1, <2>1, TimesLess
  <2>3. (e + 1) * H = e * H + H
    BY SMT
  <2> QED
    BY <2>2, <2>3, TimesNat
<1>3. (e + 1) * Hidden \in 0 .. InfMag
  BY <1>1, <1>2
<1>4. ASSUME NEW x \in Nat PROVE e * Hidden + (x % Hidden) \in 0 .. InfMag
  <2>1. x % H \in 0 .. H - 1
    BY <1>1, DivModOf
  <2> QED
    BY <1>1, <1>2, <2>1
<1>5. PICK k \in Nat, r \in 0 .. 7 :
           /\ RoundsUp(k, r) /\ k + 1 = 2 * Hidden => Rounded(sg, e, s) = P(sg, (e + 1) * Hidden)
           /\ RoundsUp(k, r) /\ k + 1 # 2 * Hidden => Rounded(sg, e, s) = P(sg, e * Hidden + ((k + 1) % Hidden))
           /\ ~RoundsUp(k, r) => Rounded(sg, e, s) = P(sg, e * Hidden + (k % Hidden))
  BY RoundedOf
<1>6. k + 1 \in Nat
  OBVIOUS
<1>7. PICK m \in 0 .. InfMag : Rounded(sg, e, s) = P(sg, m)
  BY <1>3, <1>4, <1>5, <1>6
<1> QED
  BY <1>7, InPattern

\* After the loops the significand fits the fraction unless the number overflowed.
LEMMA NormalizedIs ==
  ASSUME NEW exp \in Int, NEW sig \in Nat
  PROVE  \E e \in Int, s \in Nat : Normalized(exp, sig) = <<e, s>> /\ (e < MaxExp => s < 16 * Hidden)
<1>1. ASSUME NEW e \in Int, NEW s \in Nat, e < MaxExp => s < 16 * Hidden
      PROVE  \E x \in Int, y \in Nat : Halved(<<e, s>>) = <<x, y>> /\ (x < MaxExp => y < 16 * Hidden)
  <2>1. ShiftRight(s) \in Nat /\ ShiftRight(s) <= s
    BY ShiftRightIs
  <2>2. CASE e = 0
    <3>1. Halved(<<e, s>>) = <<0, ShiftRight(s)>>
      BY <2>2 DEF Halved
    <3>2. ShiftRight(s) < 16 * Hidden
      BY <1>1, <2>1, <2>2, Widths
    <3> QED
      BY <2>1, <3>1, <3>2
  <2>3. CASE e # 0
    <3>1. Halved(<<e, s>>) = <<e, s>>
      BY <2>3 DEF Halved
    <3> QED
      BY <1>1, <3>1
  <2> QED
    BY <2>2, <2>3
<1>2. CASE One(sig) > 1 \/ exp < 0
  <2>1. PICK k \in Nat : TowardRight(exp, sig) = <<exp + k, Aligned(sig, k)>> /\ ~ShiftsOn(exp + k, Aligned(sig, k))
    BY TowardRightIs
  <2>2. PICK e \in Int, s \in Nat : e = exp + k /\ s = Aligned(sig, k)
    BY AlignedSteps
  <2>3. e < MaxExp => s < 16 * Hidden
    BY <2>1, <2>2, ShiftsOnIs
  <2>4. Normalized(exp, sig) = Halved(<<e, s>>)
    BY <1>2, <2>1, <2>2, Zenon DEF Normalized
  <2> QED
    BY <1>1, <2>3, <2>4
<1>3. CASE ~(One(sig) > 1 \/ exp < 0) /\ One(sig) = 0 /\ exp > 0
  <2>1. PICK E0 \in Nat : E0 = exp /\ E0 > 0
    BY <1>3
  <2>2. PICK n \in 0 .. E0 : /\ TowardLeft(E0, sig) = <<E0 - n, sig * Pow2[n]>>
                             /\ \A k \in 0 .. n - 1 : One(sig * Pow2[k]) = 0
    BY TowardLeftIs
  <2>3. PICK e \in Int, s \in Nat : e = E0 - n /\ s = sig * Pow2[n]
    <3>1. Pow2[n] \in Nat
      BY PowersNat
    <3> QED
      BY <3>1, TimesNat
  <2>4. s < 16 * Hidden
    <3>1. CASE n = 0
      <4>1. sig * Pow2[0] = sig
        BY PowersBase
      <4>2. sig < 8 * Hidden
        BY <1>3, OneIs
      <4> QED
        BY <2>3, <3>1, <4>1, <4>2, Widths
    <3>2. CASE n # 0
      <4>1. PICK j \in Nat : n = j + 1 /\ j \in 0 .. n - 1
        <5>1. n - 1 \in Nat /\ n = (n - 1) + 1 /\ n - 1 \in 0 .. n - 1
          BY <3>2
        <5> QED
          BY <5>1
      <4>2. PICK p \in Nat, x \in Nat : p = Pow2[j] /\ x = sig * p
        <5>1. Pow2[j] \in Nat
          BY PowersNat
        <5> QED
          BY <5>1, TimesNat
      <4>3. x < 8 * Hidden
        BY <2>2, <4>1, <4>2, OneIs
      <4>4. sig * (2 * p) = 2 * x
        BY <4>2, SMT
      <4>5. s = 2 * x
        BY <2>3, <4>1, <4>2, <4>4, PowersStep
      <4> QED
        BY <4>3, <4>5, Widths
    <3> QED
      BY <3>1, <3>2
  <2>5. Normalized(exp, sig) = Halved(<<e, s>>)
    BY <1>3, <2>1, <2>2, <2>3, Zenon DEF Normalized
  <2> QED
    BY <1>1, <2>4, <2>5
<1>4. CASE ~(One(sig) > 1 \/ exp < 0) /\ ~(One(sig) = 0 /\ exp > 0)
  <2>1. Normalized(exp, sig) = IF One(sig) = 1 /\ exp = 0 THEN <<1, sig>> ELSE <<exp, sig>>
    BY <1>4, Zenon DEF Normalized
  <2>2. sig < 16 * Hidden
    BY <1>4, OneIs, Widths
  <2> QED
    BY <2>1, <2>2
<1> QED
  BY <1>2, <1>3, <1>4

\* What normalization returns is a pattern, whatever it is given.
LEMMA NormalizePattern ==
  ASSUME NEW sg \in {0, 1}, NEW exp \in Int, NEW sig \in Nat
  PROVE  internal_normalize(sg, exp, sig) \in Pattern
<1>1. PICK e \in Int, s \in Nat : Normalized(exp, sig) = <<e, s>> /\ (e < MaxExp => s < 16 * Hidden)
  BY NormalizedIs
<1>2. internal_normalize(sg, exp, sig) = IF e >= MaxExp THEN P(sg, InfMag)
                                         ELSE IF e < 0 THEN P(sg, 0) ELSE Rounded(sg, e, s)
  BY <1>1 DEF internal_normalize
<1>3. InfMag \in 0 .. InfMag /\ 0 \in 0 .. InfMag
  BY Widths
<1>4. P(sg, InfMag) \in Pattern /\ P(sg, 0) \in Pattern
  BY <1>3, InPattern
<1>5. ~(e >= MaxExp) /\ ~(e < 0) => Rounded(sg, e, s) \in Pattern
  BY <1>1, RoundedPattern, Widths
<1> QED
  BY <1>2, <1>4, <1>5

\* What a normalised significand may become: the nearest number; the one below, when
\* bits of a quotient were cut; zero, for a denormal that is rounded to Hidden.
Result(how, sg, num, den, r) ==
  \/ r = P(sg, Nearest(num, den))
  \/ how = "cut" /\ r = P(sg, Nearest(num, den) - 1)
  \/ r = P(sg, 0) /\ Nearest(num, den) = Hidden /\ num < Hidden * den

\* The fraction without the hidden bit.
LEMMA ModHidden ==
  ASSUME NEW x \in Nat
  PROVE  /\ x < Hidden => x % Hidden = x
         /\ Hidden <= x /\ x < 2 * Hidden => x % Hidden = x - Hidden
<1>1. PICK H \in Nat \ {0} : H = Hidden
  BY Widths
<1> QED
  BY <1>1, ModNear

\* The magnitude that has the kept bits.
LEMMA KeptIs ==
  ASSUME NEW e \in Nat, e < MaxExp, NEW k \in Nat, k < 2 * Hidden, e = 0 => k < Hidden, e # 0 => k >= Hidden
  PROVE  \E m \in Nat : /\ m < InfMag /\ (m % 2 = 1 <=> k % 2 = 1)
                        /\ m = (IF e = 0 THEN k ELSE e * Hidden + (k - Hidden))
                        /\ m = e * Hidden + (k % Hidden)
                        /\ Mag(m) = k * Step(e) /\ Mag(m + 1) = k * Step(e) + Step(e)
<1>1. PICK H \in Nat, X \in Nat, h \in Nat : H = Hidden /\ H >= 16 /\ X = MaxExp /\ InfMag = X * H /\ H = 16 * h
  BY Widths
<1>2. PICK f \in 0 .. Hidden - 1 : f = (IF e = 0 THEN k ELSE k - H) /\ f = k % Hidden /\ f \in Nat /\ f < H
  BY <1>1, ModHidden
<1>3. PICK y \in Nat : y = e * H /\ (e = 0 => y = 0)
  <2>1. e = 0 => e * H = 0
    BY <1>1, SMT
  <2> QED
    BY <1>1, <2>1, TimesNat
<1>4. PICK m \in Nat : m = y + f
  OBVIOUS
<1>5. m < InfMag
  <2>1. (e + 1) * H <= X * H
    <3>1. e + 1 \in Nat /\ e + 1 <= X
      BY <1>1
    <3> QED
      BY <1>1, <3>1, TimesLess
  <2>2. (e + 1) * H = y + H
    BY <1>3, SMT
  <2>3. y + H <= InfMag
    BY <1>1, <2>1, <2>2
  <2>4. H \in Nat /\ InfMag \in Nat /\ f \in Nat /\ f < H
    BY <1>1, <1>2, Widths
  <2> QED
    BY <1>4, <2>3, <2>4
<1>6. m % 2 = 1 <=> k % 2 = 1
  <2>1. PICK z \in Int : y = 16 * z
    <3>1. e * (16 * h) = 16 * (e * h) /\ e * h \in Int
      BY SMT
    <3> QED
      BY <1>1, <1>3, <3>1
  <2>2. CASE e = 0
    BY <1>2, <1>3, <1>4, <2>2
  <2>3. CASE e # 0
    <3>1. m = 16 * z + k - 16 * h
      BY <1>1, <1>2, <1>4, <2>1, <2>3
    <3> QED
      BY <3>1, SMT
  <2> QED
    BY <2>2, <2>3
<1>7. Mag(m) = k * Step(e)
  <2>1. Mag(e * Hidden + f) = IF e = 0 THEN f ELSE (f + Hidden) * Pow2[e - 1]
    BY MagOf
  <2>2. k * 1 = k
    OBVIOUS
  <2>3. e # 0 => f + Hidden = k
    BY <1>1, <1>2
  <2> QED
    BY <1>1, <1>2, <1>3, <1>4, <2>1, <2>2, <2>3 DEF Step
<1>8. Mag(m + 1) = Mag(m) + Step(e)
  BY <1>1, <1>3, <1>4, MagNext
<1>9. m = (IF e = 0 THEN k ELSE e * Hidden + (k - Hidden)) /\ m = e * Hidden + (k % Hidden)
  <2>1. e * Hidden = y
    BY <1>1, <1>3
  <2>2. m = e * Hidden + (k % Hidden)
    BY <1>2, <1>4, <2>1
  <2>3. m = IF e = 0 THEN k ELSE y + (k - H)
    BY <1>2, <1>3, <1>4
  <2> QED
    BY <1>1, <2>1, <2>2, <2>3
<1> QED
  BY <1>5, <1>6, <1>7, <1>8, <1>9

\* A significand that stands for a fraction as far as its halves of a unit tell is rounded
\* to the nearest magnitude, to even in between.
LEMMA RoundedRight ==
  ASSUME NEW how \in {"exact", "cut"}, NEW sg, NEW e \in Nat, e < MaxExp, NEW s \in Nat, NEW num \in Nat, NEW den \in Nat, den >= 1,
         e = 0 => s < 8 * Hidden, e # 0 => 8 * Hidden <= s /\ s < 16 * Hidden,
         Stands(how, 4, s, 8 * num, den * Step(e))
  PROVE  Result(how, sg, num, den, Rounded(sg, e, s))
<1>1. PICK H \in Nat : H = Hidden /\ H >= 16
  BY Widths
<1>2. s < 16 * Hidden
  BY <1>1
<1>3. PICK k \in Nat, r \in 0 .. 7 :
           /\ s = 8 * k + r /\ k < 2 * Hidden
           /\ RoundsUp(k, r) /\ k + 1 = 2 * Hidden => Rounded(sg, e, s) = P(sg, (e + 1) * Hidden)
           /\ RoundsUp(k, r) /\ k + 1 # 2 * Hidden => Rounded(sg, e, s) = P(sg, e * Hidden + ((k + 1) % Hidden))
           /\ ~RoundsUp(k, r) => Rounded(sg, e, s) = P(sg, e * Hidden + (k % Hidden))
  BY <1>2, RoundedOf
<1>4. (e = 0 => k < Hidden) /\ (e # 0 => k >= Hidden)
  BY <1>1, <1>3
<1>5. PICK m \in Nat : /\ m < InfMag /\ (m % 2 = 1 <=> k % 2 = 1)
                       /\ m = (IF e = 0 THEN k ELSE e * Hidden + (k - Hidden))
                       /\ m = e * Hidden + (k % Hidden)
                       /\ Mag(m) = k * Step(e) /\ Mag(m + 1) = k * Step(e) + Step(e)
  BY <1>3, <1>4, KeptIs
<1>6. PICK K \in Nat, C \in Nat, q \in Nat : K = Step(e) /\ K >= 1 /\ C = den * K /\ C >= 1 /\ q = k * C
  <2>1. PICK K \in Nat : K = Step(e) /\ K >= 1
    BY StepNat
  <2>2. PICK C \in Nat : C = den * K /\ C >= 1
    BY <2>1, TimesNat
  <2>3. k * C \in Nat
    BY TimesNat
  <2> QED
    BY <2>1, <2>2, <2>3
<1>7. /\ (8 * k) * C = 8 * q /\ (8 * k + 4) * C = 8 * q + 4 * C /\ (8 * k + 8) * C = 8 * q + 8 * C
      /\ (k * K) * den = q /\ (k * K + K) * den = q + C /\ (k * K + (k * K + K)) * den = 2 * q + C
  <2>1. (8 * k) * C = 8 * (k * C)
    BY SMT
  <2>2. (8 * k + 4) * C = 8 * (k * C) + 4 * C
    BY SMT
  <2>3. (8 * k + 8) * C = 8 * (k * C) + 8 * C
    BY SMT
  <2>4. PICK a \in Int : a = k * K
    BY TimesInt
  <2>5. a * den = q
    <3>1. (k * K) * den = k * (den * K)
      BY SMT
    <3> QED
      BY <1>6, <2>4, <3>1
  <2>6. K * den = C
    BY <1>6, TimesInt
  <2>7. (a + K) * den = a * den + K * den /\ (a + (a + K)) * den = 2 * (a * den) + K * den
    BY SMT
  <2>8. (a + K) * den = q + C /\ (a + (a + K)) * den = 2 * q + C
    BY <2>5, <2>6, <2>7
  <2> QED
    BY <1>6, <2>1, <2>2, <2>3, <2>4, <2>5, <2>8
<1> DEFINE N == 8 * num
<1>8. ASSUME NEW u \in Int, u % 4 = 0
      PROVE  (s < u <=> N < u * C) /\ (s > u => N > u * C) /\ (how = "exact" => (N > u * C => s > u))
  BY <1>6, <1>8 DEF Stands
<1>9. q <= num /\ num < q + C
  <2>1. (8 * k) \in Int /\ (8 * k) % 4 = 0 /\ (8 * k + 8) \in Int /\ (8 * k + 8) % 4 = 0
    OBVIOUS
  <2>2. (s < 8 * k <=> N < (8 * k) * C) /\ (s < 8 * k + 8 <=> N < (8 * k + 8) * C)
    BY <1>8, <2>1
  <2> QED
    BY <1>3, <1>7, <2>2
<1>10. /\ r < 4 <=> 2 * num < 2 * q + C
       /\ r > 4 => 2 * num > 2 * q + C
       /\ how = "exact" => (2 * num > 2 * q + C => r > 4)
  <2>1. (8 * k + 4) \in Int /\ (8 * k + 4) % 4 = 0
    OBVIOUS
  <2>2. /\ s < 8 * k + 4 <=> N < (8 * k + 4) * C
        /\ s > 8 * k + 4 => N > (8 * k + 4) * C
        /\ how = "exact" => (N > (8 * k + 4) * C => s > 8 * k + 4)
    BY <1>8, <2>1
  <2> QED
    BY <1>3, <1>7, <2>2
<1>11. Nearest(num, den) = IF 2 * num > 2 * q + C \/ (2 * num = 2 * q + C /\ k % 2 = 1) THEN m + 1 ELSE m
  <2>1. Mag(m) * den = q /\ Mag(m + 1) * den = q + C /\ (Mag(m) + Mag(m + 1)) * den = 2 * q + C
    BY <1>5, <1>6, <1>7
  <2>2. Mag(m) * den <= num /\ num < Mag(m + 1) * den
    BY <1>9, <2>1
  <2>3. Nearest(num, den) = IF \/ 2 * num > (Mag(m) + Mag(m + 1)) * den
                               \/ 2 * num = (Mag(m) + Mag(m + 1)) * den /\ m % 2 = 1
                            THEN m + 1 ELSE m
    BY <1>5, <2>2, NearestIs
  <2> QED
    BY <1>5, <2>1, <2>3
<1>12. ~RoundsUp(k, r) => Rounded(sg, e, s) = P(sg, m)
  BY <1>3, <1>5
<1>13. RoundsUp(k, r) => Rounded(sg, e, s) = P(sg, m + 1) \/ (Rounded(sg, e, s) = P(sg, 0) /\ e = 0 /\ m + 1 = Hidden)
  <2> SUFFICES ASSUME RoundsUp(k, r)
               PROVE  Rounded(sg, e, s) = P(sg, m + 1) \/ (Rounded(sg, e, s) = P(sg, 0) /\ e = 0 /\ m + 1 = Hidden)
    OBVIOUS
  <2>1. PICK y \in Nat : y = e * H /\ (e = 0 => y = 0) /\ (e + 1) * H = y + H
    <3>1. e = 0 => e * H = 0
      BY <1>1, SMT
    <3>2. (e + 1) * H = e * H + H
      BY SMT
    <3> QED
      BY <3>1, <3>2, TimesNat
  <2>2. CASE k + 1 = 2 * Hidden
    <3>1. e # 0
      BY <1>1, <1>4, <2>2
    <3>2. m + 1 = (e + 1) * Hidden
      BY <1>1, <1>5, <2>1, <2>2, <3>1
    <3> QED
      BY <1>3, <2>2, <3>2
  <2>3. CASE k + 1 # 2 * Hidden
    <3>1. Rounded(sg, e, s) = P(sg, e * Hidden + ((k + 1) % Hidden))
      BY <1>3, <2>3
    <3>2. PICK n \in Nat : n = k + 1
      OBVIOUS
    <3>3. CASE e # 0
      <4>1. n % Hidden = k + 1 - Hidden
        BY <1>1, <1>3, <1>4, <2>3, <3>2, <3>3, ModHidden
      <4>2. e * Hidden + (n % Hidden) = m + 1
        BY <1>1, <1>5, <2>1, <3>3, <4>1
      <4> QED
        BY <3>1, <3>2, <4>2
    <3>4. CASE e = 0 /\ k + 1 < Hidden
      <4>1. n % Hidden = k + 1
        BY <3>2, <3>4, ModHidden
      <4>2. e * Hidden + (n % Hidden) = m + 1
        BY <1>1, <1>5, <2>1, <3>4, <4>1
      <4> QED
        BY <3>1, <3>2, <4>2
    <3>5. CASE e = 0 /\ k + 1 = Hidden
      <4>1. n % Hidden = 0
        BY <1>1, <3>2, <3>5, ModHidden
      <4>2. e * Hidden + (n % Hidden) = 0 /\ m + 1 = Hidden
        BY <1>1, <1>5, <2>1, <3>5, <4>1
      <4> QED
        BY <3>1, <3>2, <3>5, <4>2
    <3> QED
      BY <1>1, <1>4, <3>3, <3>4, <3>5
  <2> QED
    BY <2>2, <2>3
<1>14. e = 0 /\ m + 1 = Hidden => num < Hidden * den
  <2> SUFFICES ASSUME e = 0, m + 1 = Hidden PROVE num < Hidden * den
    OBVIOUS
  <2>1. K = 1 /\ k + 1 = H
    BY <1>1, <1>5, <1>6 DEF Step
  <2>2. C = den /\ q + C = (k + 1) * den
    <3>1. (k + 1) * den = k * den + den /\ den * 1 = den
      BY SMT
    <3>2. C = den
      BY <1>6, <2>1, <3>1
    <3>3. q = k * den
      BY <1>6, <3>2
    <3> QED
      BY <3>1, <3>2, <3>3
  <2> QED
    BY <1>1, <1>9, <2>1, <2>2
<1>15. CASE RoundsUp(k, r)
  <2>1. Nearest(num, den) = m + 1
    BY <1>10, <1>11, <1>15 DEF RoundsUp
  <2> QED
    BY <1>13, <1>14, <1>15, <2>1 DEF Result
<1>16. CASE ~RoundsUp(k, r)
  <2>1. Nearest(num, den) = m \/ (Nearest(num, den) = m + 1 /\ ~(how = "exact"))
    BY <1>10, <1>11, <1>16 DEF RoundsUp
  <2>2. Rounded(sg, e, s) = P(sg, m)
    BY <1>12, <1>16
  <2>3. CASE Nearest(num, den) = m
    BY <2>2, <2>3 DEF Result
  <2>4. CASE Nearest(num, den) = m + 1 /\ how = "cut"
    <3>1. Nearest(num, den) - 1 = m
      BY <2>4
    <3> QED
      BY <2>2, <2>4, <3>1 DEF Result
  <2> QED
    BY <2>1, <2>3, <2>4
<1> QED
  BY <1>15, <1>16

-----------------------------------------------------------------------------
(* Normalisation.                                                          *)

\* What stands for a fraction finely does so coarsely.
LEMMA StandsCoarse ==
  ASSUME NEW how, NEW g \in {1, 2, 4}, NEW s, NEW N, NEW D, Stands(how, g, s, N, D)
  PROVE  /\ g # 4 => Stands(how, 2, s, N, D)
         /\ Stands(how, 4, s, N, D)
<1>1. \A u \in Int : (u % 4 = 0 => u % 2 = 0) /\ u % 1 = 0
  OBVIOUS
<1>2. \A u \in Int : (u % 4 = 0 => u % g = 0) /\ (g # 4 /\ u % 2 = 0 => u % g = 0)
  BY <1>1
<1> QED
  BY <1>2 DEF Stands

\* A common factor can be taken off.
LEMMA StandsScaled ==
  ASSUME NEW how, NEW g \in {2, 4}, NEW s \in Int, NEW N \in Int, NEW D \in Int, NEW c \in Int, c > 0,
         Stands(how, g, s, N * c, D * c)
  PROVE  Stands(how, g, s, N, D)
<1> SUFFICES ASSUME NEW u \in Int, u % g = 0
             PROVE  (s < u <=> N < u * D) /\ (s > u => N > u * D) /\ (how = "exact" => (N > u * D => s > u))
  BY DEF Stands
<1>1. PICK y \in Int : y = u * D
  BY TimesInt
<1>2. u * (D * c) = y * c
  <2>1. u * (D * c) = (u * D) * c
    BY SMT
  <2> QED
    BY <1>1, <2>1
<1>3. (s < u <=> N * c < y * c) /\ (s > u => N * c > y * c) /\ (how = "exact" => (N * c > y * c => s > u))
  BY <1>2 DEF Stands
<1>4. (N < y <=> N * c < y * c) /\ (y < N <=> y * c < N * c)
  BY TimesLess
<1>5. N * c \in Int /\ y * c \in Int
  BY TimesInt
<1> QED
  BY <1>1, <1>3, <1>4, <1>5

\* A number stands for itself.
LEMMA ExactStands ==
  ASSUME NEW how, NEW g, NEW s \in Int, NEW N \in Int, NEW D \in Int, D > 0, s * D = N
  PROVE  Stands(how, g, s, N, D)
<1> SUFFICES ASSUME NEW u \in Int
             PROVE  (s < u <=> N < u * D) /\ (s > u => N > u * D) /\ (how = "exact" => (N > u * D => s > u))
  BY DEF Stands
<1>1. (s < u <=> s * D < u * D) /\ (u < s <=> u * D < s * D)
  BY TimesLess
<1>2. u * D \in Int
  BY TimesInt
<1> QED
  BY <1>1, <1>2

\* The end of internal_normalize.
Ended(sg, n) == IF n[1] >= MaxExp THEN P(sg, InfMag) ELSE IF n[1] < 0 THEN P(sg, 0) ELSE Rounded(sg, n[1], n[2])

\* The number a significand stands for at exponent e is s / 8 at exponent e; B keeps the
\* powers of two integral.
LEMMA EndInf ==
  ASSUME NEW how, NEW sg, NEW e \in Int, e >= MaxExp, NEW s \in Nat, s >= 8 * Hidden, NEW g \in {2, 4},
         NEW num \in Nat, NEW den \in Nat, den >= 1, NEW B \in Nat, NEW y \in Nat, y = e + B,
         Stands(how, g, s, (8 * num) * Pow2[B + 1], den * Pow2[y])
  PROVE  Result(how, sg, num, den, Ended(sg, Halved(<<e, s>>)))
<1>1. PICK H \in Nat, X \in Nat : H = Hidden /\ X = MaxExp /\ X >= 3
  BY Widths
<1>2. PICK j \in Nat, i \in Nat : i = X - 1 /\ e = X + j /\ y = (B + 1) + (i + j) /\ i + j \in Nat /\ B + 1 \in Nat
  <2>1. e - X \in Nat /\ X - 1 \in Nat /\ e = X + (e - X) /\ y = (B + 1) + ((X - 1) + (e - X))
    BY <1>1
  <2> QED
    BY <2>1
<1>3. PICK q \in Nat, a \in Nat, b \in Nat : q = Pow2[B + 1] /\ q >= 1 /\ a = Pow2[i] /\ b = Pow2[j] /\ b >= 1
  BY <1>2, PowersNat
<1>4. Pow2[y] = q * (a * b)
  <2>1. Pow2[i + j] = a * b
    BY <1>3, PowersPlus
  <2> QED
    BY <1>2, <1>3, <2>1, PowersPlus
<1>5. PICK w \in Nat, D \in Nat, c \in Nat : w = (H * a) * den /\ D = den * (q * (a * b)) /\ c = w * b
  <2>1. \A m, n \in Nat : m * n \in Nat
    BY TimesNat
  <2> QED
    BY <2>1
<1>6. (8 * num) * q >= (8 * H) * D
  <2>1. PICK u \in Int : u = 8 * H /\ u % g = 0
    <3>1. (8 * H) % 2 = 0 /\ (8 * H) % 4 = 0
      BY SMT
    <3> QED
      BY <3>1
  <2>2. ~(s < u)
    BY <1>1, <2>1
  <2>3. ~((8 * num) * q < u * D)
    BY <1>3, <1>4, <1>5, <2>1, <2>2 DEF Stands
  <2>4. (8 * num) * q \in Int /\ u * D \in Int
    BY TimesInt
  <2> QED
    BY <2>1, <2>3, <2>4
<1>7. (8 * H) * D = (8 * c) * q
  <2>1. (8 * H) * (den * (q * (a * b))) = (8 * (((H * a) * den) * b)) * q
    BY SMT
  <2> QED
    BY <1>5, <2>1
<1>8. c <= num
  <2>1. 8 * c <= 8 * num <=> (8 * c) * q <= (8 * num) * q
    BY <1>3, TimesLess
  <2> QED
    BY <1>6, <1>7, <2>1
<1>9. w <= c
  <2>1. w * b >= w
    BY <1>3, SMT
  <2> QED
    BY <1>5, <2>1
<1>10. Mag(InfMag) * den <= num
  <2>1. Mag(InfMag) = H * a
    BY <1>1, <1>2, <1>3, MagInf
  <2> QED
    BY <1>5, <1>8, <1>9, <2>1
<1>11. Nearest(num, den) = InfMag
  BY <1>10, NearestInf
<1>12. Ended(sg, Halved(<<e, s>>)) = P(sg, InfMag)
  BY <1>1 DEF Ended, Halved
<1> QED
  BY <1>11, <1>12 DEF Result

\* An exponent below 0 after the loops: the number is nearer to 0 than to anything else.
LEMMA EndZero ==
  ASSUME NEW how, NEW sg, NEW e \in Int, e < 0, NEW s \in Nat, s <= 4, NEW g \in {2, 4},
         NEW num \in Nat, NEW den \in Nat, den >= 1, NEW B \in Nat, NEW y \in Nat, y = e + B,
         Stands(how, g, s, (8 * num) * Pow2[B + 1], den * Pow2[y])
  PROVE  Result(how, sg, num, den, Ended(sg, Halved(<<e, s>>)))
<1>1. PICK j \in Nat : B + 1 = y + (j + 2) /\ j + 2 \in Nat
  <2>1. B - 1 - y \in Nat /\ B + 1 = y + ((B - 1 - y) + 2)
    OBVIOUS
  <2> QED
    BY <2>1
<1>2. PICK p \in Nat, b \in Nat : p = Pow2[y] /\ p >= 1 /\ b = Pow2[j] /\ b >= 1
  BY PowersNat
<1>3. Pow2[B + 1] = p * (4 * b)
  <2>1. Pow2[j + 2] = b * 4
    <3>1. PICK t \in Nat : t = 2 /\ Pow2[t] = 4
      BY SmallPowers
    <3>2. Pow2[j + t] = Pow2[j] * Pow2[t]
      BY PowersPlus
    <3> QED
      BY <1>2, <3>1, <3>2
  <2>2. Pow2[y + (j + 2)] = Pow2[y] * Pow2[j + 2]
    BY <1>1, PowersPlus
  <2> QED
    BY <1>1, <1>2, <2>1, <2>2
<1>4. PICK c \in Nat : c = num * b /\ c >= num
  <2>1. num * b >= num
    BY <1>2, SMT
  <2> QED
    BY <2>1, TimesNat
<1>5. (8 * num) * (p * (4 * b)) = (32 * c) * p /\ 8 * (den * p) = (8 * den) * p
  <2>1. (8 * num) * (p * (4 * b)) = (32 * (num * b)) * p
    BY SMT
  <2>2. 8 * (den * p) = (8 * den) * p
    BY SMT
  <2> QED
    BY <1>4, <2>1, <2>2
<1>6. (32 * c) * p < (8 * den) * p
  <2>1. PICK u \in Int : u = 8 /\ u % g = 0 /\ s < u
    OBVIOUS
  <2>2. (8 * num) * (p * (4 * b)) < u * (den * p)
    BY <1>2, <1>3, <2>1 DEF Stands
  <2> QED
    BY <1>5, <2>1, <2>2
<1>7. 32 * c < 8 * den
  BY <1>2, <1>6, TimesLess
<1>8. 2 * num < den
  BY <1>4, <1>7
<1>9. Nearest(num, den) = 0
  <2>1. PICK z \in Nat, o \in Nat : z = 0 /\ o = 1 /\ z < InfMag /\ o = z + 1 /\ z % 2 = 0 /\ z \in 0 .. 2 * Hidden /\ o \in 0 .. 2 * Hidden
    BY Widths
  <2>2. Mag(z) = z /\ Mag(o) = o
    BY <2>1, MagSmall
  <2>3. z * den = 0 /\ o * den = den /\ (z + o) * den = den
    BY <2>1, SMT
  <2>4. Nearest(num, den) = IF \/ 2 * num > (Mag(z) + Mag(z + 1)) * den
                               \/ 2 * num = (Mag(z) + Mag(z + 1)) * den /\ z % 2 = 1
                            THEN z + 1 ELSE z
    <3>1. Mag(z) * den <= num /\ num < Mag(z + 1) * den
      BY <1>8, <2>1, <2>2, <2>3
    <3> QED
      BY <2>1, <3>1, NearestIs
  <2> QED
    BY <1>8, <2>1, <2>2, <2>3, <2>4
<1>10. Ended(sg, Halved(<<e, s>>)) = P(sg, 0)
  BY Widths DEF Ended, Halved
<1> QED
  BY <1>9, <1>10 DEF Result

\* Any other exponent that is not too great: the shift into the denormals and the rounding
\* give the nearest magnitude.
LEMMA EndFinite ==
  ASSUME NEW how \in {"exact", "cut"}, NEW sg, NEW e \in Nat, e < MaxExp, NEW s \in Nat, NEW g \in {2, 4},
         s < 16 * Hidden, e # 0 => s >= 8 * Hidden,
         NEW num \in Nat, NEW den \in Nat, den >= 1, NEW B \in Nat, NEW y \in Nat, y = e + B,
         Stands(how, g, s, (8 * num) * Pow2[B + 1], den * Pow2[y])
  PROVE  Result(how, sg, num, den, Ended(sg, Halved(<<e, s>>)))
<1>1. PICK q \in Nat, K \in Nat : q = Pow2[B + 1] /\ q >= 1 /\ K = Step(e)
  <2>1. B + 1 \in Nat
    OBVIOUS
  <2> QED
    BY <2>1, PowersNat, StepNat
<1>2. PICK N \in Int, D \in Nat : N = 8 * num /\ D = den * K
  BY TimesNat
<1>5. q \in Int /\ q > 0 /\ N \in Int /\ D \in Int /\ den \in Int /\ s \in Int
  BY <1>1
<1>3. CASE e # 0
  <2>1. PICK i \in Nat : i = e - 1 /\ y = (B + 1) + i /\ B + 1 \in Nat
    <3>1. e - 1 \in Nat /\ y = (B + 1) + (e - 1)
      BY <1>3
    <3> QED
      BY <3>1
  <2>2. Pow2[y] = q * K
    BY <1>1, <1>3, <2>1, PowersPlus DEF Step
  <2>3. den * (q * K) = D * q
    <3>1. den * (q * K) = (den * K) * q
      BY SMT
    <3> QED
      BY <1>2, <3>1
  <2>4. Stands(how, g, s, N * q, D * q)
    BY <1>1, <1>2, <2>2, <2>3
  <2>5. Stands(how, g, s, N, D)
    BY <1>5, <2>4, StandsScaled
  <2>6. Stands(how, 4, s, N, D)
    BY <2>5, StandsCoarse
  <2>7. Result(how, sg, num, den, Rounded(sg, e, s))
    <3>1. Stands(how, 4, s, 8 * num, den * Step(e))
      BY <1>1, <1>2, <2>6
    <3>2. 8 * Hidden <= s
      BY <1>3, Widths
    <3> QED
      BY <1>3, <3>1, <3>2, RoundedRight
  <2>8. Ended(sg, Halved(<<e, s>>)) = Rounded(sg, e, s)
    BY <1>3, Widths DEF Ended, Halved
  <2> QED
    BY <2>7, <2>8
<1>4. CASE e = 0
  <2>1. PICK p \in Nat : p = Pow2[y] /\ q = 2 * p
    <3>1. y = B /\ y + 1 = B + 1
      BY <1>4
    <3> QED
      BY <1>1, <3>1, PowersNat, PowersStep
  <2>2. PICK C \in Nat, t \in Nat : C = den * p /\ t = ShiftRight(s)
    BY TimesNat, ShiftRightIs
  <2>3. Stands(how, g, s, N * q, C)
    BY <1>1, <1>2, <2>1, <2>2
  <2>4. Stands(how, 2, t, N * q, 2 * C)
    <3>1. N * q \in Int
      BY <1>2, TimesInt
    <3> QED
      BY <2>2, <2>3, <3>1, ShiftStands
  <2>5. 2 * C = den * q
    <3>1. 2 * (den * p) = den * (2 * p)
      BY SMT
    <3> QED
      BY <2>1, <2>2, <3>1
  <2>6. PICK f \in {2, 4} : f = 2
    OBVIOUS
  <2>7. Stands(how, f, t, N * q, den * q)
    BY <2>4, <2>5, <2>6
  <2>8. Stands(how, f, t, N, den)
    <3>1. t \in Int
      BY <2>2
    <3> QED
      BY <1>5, <2>7, <3>1, StandsScaled
  <2>9. Stands(how, 4, t, N, den)
    BY <2>8, StandsCoarse
  <2>10. t < 8 * Hidden
    <3>1. PICK h \in Nat, a \in Int : h = Hidden /\ a = 4 * h
      BY Widths
    <3>2. t < 2 * a <=> s < 4 * a
      BY <2>2, ShiftRightIs
    <3> QED
      BY <3>1, <3>2
  <2>11. Result(how, sg, num, den, Rounded(sg, e, t))
    <3>1. den * Step(e) = den
      BY <1>4 DEF Step
    <3>2. Stands(how, 4, t, 8 * num, den * Step(e))
      BY <1>2, <2>9, <3>1
    <3> QED
      BY <1>4, <2>10, <3>2, RoundedRight
  <2>12. Ended(sg, Halved(<<e, s>>)) = Rounded(sg, e, t)
    BY <1>4, <2>2, Widths DEF Ended, Halved
  <2> QED
    BY <2>11, <2>12
<1> QED
  BY <1>3, <1>4

\* The three ends together.
LEMMA EndRight ==
  ASSUME NEW how \in {"exact", "cut"}, NEW sg, NEW e \in Int, NEW s \in Nat, NEW g \in {2, 4},
         e < 0 => s <= 4, e < MaxExp => s < 16 * Hidden, e > 0 => s >= 8 * Hidden,
         NEW num \in Nat, NEW den \in Nat, den >= 1, NEW B \in Nat, NEW y \in Nat, y = e + B,
         Stands(how, g, s, (8 * num) * Pow2[B + 1], den * Pow2[y])
  PROVE  Result(how, sg, num, den, Ended(sg, Halved(<<e, s>>)))
<1>1. MaxExp \in Nat /\ MaxExp >= 3
  BY Widths
<1>2. CASE e >= MaxExp
  <2>1. s >= 8 * Hidden
    BY <1>1, <1>2
  <2> QED
    BY <1>2, <2>1, EndInf
<1>3. CASE e < 0
  BY <1>3, EndZero
<1>4. CASE 0 <= e /\ e < MaxExp
  <2>1. e \in Nat /\ e < MaxExp /\ s < 16 * Hidden /\ (e # 0 => s >= 8 * Hidden)
    BY <1>4
  <2> QED
    BY <2>1, EndFinite
<1> QED
  BY <1>1, <1>2, <1>3, <1>4

\* To the right: the significand keeps standing for the number, and it still has its
\* hidden bit when it was shifted for having more.
LEMMA RightIsRight ==
  ASSUME NEW how \in {"exact", "cut"}, NEW sg, NEW exp \in Int, NEW sig \in Nat, One(sig) > 1 \/ exp < 0,
         NEW num \in Nat, NEW den \in Nat, den >= 1, NEW B \in Nat, NEW x \in Nat, x = exp + B,
         Stands(how, 2, sig, (8 * num) * Pow2[B + 1], den * Pow2[x])
  PROVE  Result(how, sg, num, den, Ended(sg, Halved(TowardRight(exp, sig))))
<1>1. PICK k \in Nat : /\ TowardRight(exp, sig) = <<exp + k, Aligned(sig, k)>>
                       /\ ~ShiftsOn(exp + k, Aligned(sig, k))
                       /\ k # 0 => \E j \in Nat : k = j + 1 /\ ShiftsOn(exp + j, Aligned(sig, j))
  BY TowardRightIs
<1>2. PICK e \in Int, s \in Nat, y \in Nat : e = exp + k /\ s = Aligned(sig, k) /\ y = x + k /\ y = e + B
  <2>1. exp + k \in Int /\ x + k \in Nat /\ x + k = (exp + k) + B
    OBVIOUS
  <2> QED
    BY <2>1, AlignedSteps
<1>3. PICK N \in Int, D \in Nat, p \in Nat : N = (8 * num) * Pow2[B + 1] /\ D = den * p /\ p = Pow2[x]
  <2>1. B + 1 \in Nat
    OBVIOUS
  <2>2. Pow2[B + 1] \in Nat /\ Pow2[x] \in Nat
    BY <2>1, PowersNat
  <2>3. (8 * num) * Pow2[B + 1] \in Int
    BY <2>2, TimesInt
  <2> QED
    BY <2>2, <2>3, TimesNat
<1>4. Stands(how, 2, s, N, den * Pow2[y])
  <2>1. Stands(how, 2, sig, N, D)
    BY <1>3
  <2>2. Stands(how, 2, Aligned(sig, k), N, D * Pow2[k])
    BY <2>1, AlignedStands
  <2>3. D * Pow2[k] = den * Pow2[y]
    <3>1. PICK b \in Nat : b = Pow2[k]
      BY PowersNat
    <3>2. Pow2[y] = p * b
      BY <1>2, <1>3, <3>1, PowersPlus
    <3>3. (den * p) * b = den * (p * b)
      BY SMT
    <3> QED
      BY <1>3, <3>1, <3>2, <3>3
  <2> QED
    BY <1>2, <2>2, <2>3
<1>5. (e < 0 => s <= 4) /\ (e < MaxExp => s < 16 * Hidden)
  BY <1>1, <1>2, ShiftsOnIs
<1>6. e > 0 => s >= 8 * Hidden
  <2>1. CASE k = 0
    <3>1. s = sig /\ e = exp
      BY <1>2, <2>1, AlignedSteps
    <3>2. e > 0 => sig >= 16 * Hidden
      BY <3>1, OneIs
    <3> QED
      BY <3>1, <3>2, Widths
  <2>2. CASE k # 0
    <3>1. PICK j \in Nat : k = j + 1 /\ ShiftsOn(exp + j, Aligned(sig, j))
      BY <1>1, <2>2
    <3>2. PICK w \in Nat, d \in Int : w = Aligned(sig, j) /\ d = exp + j /\ e = d + 1 /\ s = ShiftRight(w)
      <4>1. exp + j \in Int /\ e = (exp + j) + 1
        BY <1>2, <3>1
      <4> QED
        BY <1>2, <3>1, <4>1, AlignedSteps
    <3>3. ShiftsOn(d, w)
      BY <3>1, <3>2
    <3>4. d >= 0 => w >= 16 * Hidden
      BY <3>3, ShiftsOnIs
    <3>5. PICK h \in Nat, a \in Int : h = Hidden /\ a = 4 * h
      BY Widths
    <3>6. s < 2 * a <=> w < 4 * a
      BY <3>2, ShiftRightIs
    <3> QED
      BY <3>2, <3>4, <3>5, <3>6
  <2> QED
    BY <2>1, <2>2
<1>7. PICK g \in {2, 4} : g = 2
  OBVIOUS
<1>8. Stands(how, g, s, (8 * num) * Pow2[B + 1], den * Pow2[y])
  BY <1>3, <1>4, <1>7
<1>9. Result(how, sg, num, den, Ended(sg, Halved(<<e, s>>)))
  BY <1>2, <1>5, <1>6, <1>8, EndRight
<1> QED
  BY <1>1, <1>2, <1>9

\* To the left an exact significand loses nothing; one whose last bit is sticky is
\* shifted once at most.
LEMMA LeftIsRight ==
  ASSUME NEW how \in {"exact", "cut"}, NEW sg, NEW exp \in Nat, NEW sig \in Nat, One(sig) = 0, exp > 0, exp < MaxExp,
         NEW num \in Nat, NEW den \in Nat, den >= 1, NEW B \in Nat, NEW x \in Nat, x = exp + B,
         Stands(how, 2, sig, (8 * num) * Pow2[B + 1], den * Pow2[x]),
         sig * (den * Pow2[x]) = (8 * num) * Pow2[B + 1] \/ sig >= 4 * Hidden
  PROVE  Result(how, sg, num, den, Ended(sg, Halved(TowardLeft(exp, sig))))
<1>0. PICK top \in Nat : top = exp
  OBVIOUS
<1>1. PICK n \in 0 .. top : /\ TowardLeft(top, sig) = <<top - n, sig * Pow2[n]>>
                            /\ n = top \/ One(sig * Pow2[n]) # 0
                            /\ \A k \in 0 .. n - 1 : One(sig * Pow2[k]) = 0
  BY TowardLeftIs
<1>2. PICK b \in Nat, s \in Nat : b = Pow2[n] /\ b >= 1 /\ s = sig * b
  <2>1. PICK b \in Nat : b = Pow2[n] /\ b >= 1
    BY PowersNat
  <2> QED
    BY <2>1, TimesNat
<1>3. PICK e \in Nat, y \in Nat : e = exp - n /\ y = e + B /\ x = y + n
  <2>1. exp - n \in Nat /\ (exp - n) + B \in Nat /\ x = ((exp - n) + B) + n
    BY <1>0
  <2> QED
    BY <2>1
<1>4. n # 0
  <2>1. sig * Pow2[0] = sig
    BY PowersBase
  <2> QED
    BY <1>0, <1>1, <2>1
<1>5. PICK j \in Nat, c \in Nat, r \in Nat : n = j + 1 /\ c = Pow2[j] /\ r = sig * c /\ b = 2 * c /\ s = 2 * r /\ r < 8 * Hidden
  <2>1. PICK j \in Nat : n = j + 1 /\ j \in 0 .. n - 1
    <3>1. n - 1 \in Nat /\ n = (n - 1) + 1 /\ n - 1 \in 0 .. n - 1
      BY <1>4
    <3> QED
      BY <3>1
  <2>2. PICK c \in Nat, r \in Nat : c = Pow2[j] /\ r = sig * c
    <3>1. PICK c \in Nat : c = Pow2[j]
      BY PowersNat
    <3> QED
      BY <3>1, TimesNat
  <2>3. b = 2 * c
    BY <1>2, <2>1, <2>2, PowersStep
  <2>4. sig * (2 * c) = 2 * (sig * c)
    BY SMT
  <2>5. r < 8 * Hidden
    BY <1>1, <2>1, <2>2, OneIs
  <2> QED
    BY <1>2, <2>1, <2>2, <2>3, <2>4, <2>5
<1>6. s < 16 * Hidden /\ (e > 0 => s >= 8 * Hidden)
  <2>1. e > 0 => One(s) # 0
    BY <1>0, <1>1, <1>2, <1>3
  <2> QED
    BY <1>5, <2>1, OneIs, Widths
<1>7. PICK N \in Int, D \in Nat, a \in Nat : N = (8 * num) * Pow2[B + 1] /\ D = den * a /\ D >= 1 /\ a = Pow2[y]
  <2>1. B + 1 \in Nat
    OBVIOUS
  <2>2. Pow2[B + 1] \in Nat
    BY <2>1, PowersNat
  <2>3. (8 * num) * Pow2[B + 1] \in Int
    BY <2>2, TimesInt
  <2>4. PICK a \in Nat : a = Pow2[y] /\ a >= 1
    BY PowersNat
  <2> QED
    BY <2>3, <2>4, TimesNat
<1>8. Pow2[x] = a * b
  BY <1>2, <1>3, <1>7, PowersPlus
<1>9. den * (a * b) = D * b
  <2>1. den * (a * b) = (den * a) * b
    BY SMT
  <2> QED
    BY <1>7, <2>1
<1>10. Stands(how, 4, s, N, D)
  <2>1. CASE sig * (den * Pow2[x]) = (8 * num) * Pow2[B + 1]
    <3>1. sig * (D * b) = N
      BY <1>7, <1>8, <1>9, <2>1
    <3>2. sig * (D * b) = (sig * b) * D
      BY SMT
    <3>3. s * D = N
      BY <1>2, <3>1, <3>2
    <3>4. D > 0 /\ D \in Int /\ s \in Int
      BY <1>7
    <3> QED
      BY <3>3, <3>4, ExactStands
  <2>2. CASE sig >= 4 * Hidden
    <3>1. j = 0
      <4>1. ASSUME j # 0 PROVE FALSE
        <5>1. c >= 2
          <6>1. 1 <= j
            BY <4>1
          <6>2. PICK o \in Nat : o = 1 /\ o <= j /\ Pow2[o] = 2
            BY <6>1, SmallPowers
          <6> QED
            BY <1>5, <6>2, PowersGrow
        <5>2. sig * c >= 2 * sig
          BY <5>1, SMT
        <5> QED
          BY <1>5, <2>2, <5>2, Widths
      <4> QED
        BY <4>1
    <3>2. s = 2 * sig /\ b = 2
      <4>1. c = 1
        BY <1>5, <3>1, PowersBase
      <4> QED
        BY <1>5, <4>1
    <3>3. Stands(how, 2, sig, N, D * 2)
      BY <1>7, <1>8, <1>9, <3>2
    <3> SUFFICES ASSUME NEW u \in Int, u % 4 = 0
                 PROVE  (s < u <=> N < u * D) /\ (s > u => N > u * D) /\ (how = "exact" => (N > u * D => s > u))
      BY DEF Stands
    <3>4. PICK v \in Int : u = 2 * v /\ v % 2 = 0
      <4>1. u = 4 * (u \div 4) + 0 /\ u \div 4 \in Int
        BY DivModOf
      <4>2. PICK t \in Int : u = 4 * t
        BY <4>1
      <4>3. 2 * t \in Int /\ u = 2 * (2 * t) /\ (2 * t) % 2 = 0
        BY <4>2
      <4> QED
        BY <4>3
    <3>5. (sig < v <=> N < v * (D * 2)) /\ (sig > v => N > v * (D * 2)) /\ (how = "exact" => (N > v * (D * 2) => sig > v))
      BY <3>3, <3>4 DEF Stands
    <3>6. v * (D * 2) = u * D
      <4>1. v * (D * 2) = (2 * v) * D
        BY SMT
      <4> QED
        BY <3>4, <4>1
    <3> QED
      BY <3>2, <3>4, <3>5, <3>6
  <2> QED
    BY <2>1, <2>2
<1>11. PICK g \in {2, 4} : g = 4
  OBVIOUS
<1>12. Stands(how, g, s, (8 * num) * Pow2[B + 1], den * Pow2[y])
  BY <1>7, <1>10, <1>11
<1>13. Result(how, sg, num, den, Ended(sg, Halved(<<e, s>>)))
  BY <1>3, <1>6, <1>12, EndRight
<1> QED
  BY <1>0, <1>1, <1>2, <1>3, <1>13

\* A significand that stands for num / den at its exponent is rounded to the number
\* nearest to it, unless it is taken for a sum of denormals.
LEMMA NormalizeIsRight ==
  ASSUME NEW how \in {"exact", "cut"}, NEW sg, NEW exp \in Int, NEW sig \in Nat,
         NEW num \in Nat, NEW den \in Nat, den >= 1, NEW B \in Nat, NEW x \in Nat, x = exp + B,
         Stands(how, 2, sig, (8 * num) * Pow2[B + 1], den * Pow2[x]),
         ~(exp = 0 /\ One(sig) <= 1),
         One(sig) = 0 /\ exp > 0 => /\ exp < MaxExp
                                    /\ sig * (den * Pow2[x]) = (8 * num) * Pow2[B + 1] \/ sig >= 4 * Hidden
  PROVE  Result(how, sg, num, den, internal_normalize(sg, exp, sig))
<1>1. internal_normalize(sg, exp, sig) = Ended(sg, Normalized(exp, sig))
  BY Zenon DEF internal_normalize, Ended
<1>2. One(sig) \in Nat /\ (One(sig) > 1 <=> sig >= 16 * Hidden) /\ (One(sig) = 0 <=> sig < 8 * Hidden)
  BY OneIs
<1>3. CASE One(sig) > 1 \/ exp < 0
  <2>1. Normalized(exp, sig) = Halved(TowardRight(exp, sig))
    BY <1>3, Zenon DEF Normalized
  <2> QED
    BY <1>1, <1>3, <2>1, RightIsRight
<1>4. CASE ~(One(sig) > 1 \/ exp < 0) /\ One(sig) = 0 /\ exp > 0
  <2>1. Normalized(exp, sig) = Halved(TowardLeft(exp, sig))
    BY <1>4, Zenon DEF Normalized
  <2>2. exp \in Nat /\ exp < MaxExp /\ (sig * (den * Pow2[x]) = (8 * num) * Pow2[B + 1] \/ sig >= 4 * Hidden)
    BY <1>4
  <2>3. Result(how, sg, num, den, Ended(sg, Halved(TowardLeft(exp, sig))))
    BY <1>4, <2>2, LeftIsRight
  <2> QED
    BY <1>1, <2>1, <2>3
<1>5. CASE ~(One(sig) > 1 \/ exp < 0) /\ ~(One(sig) = 0 /\ exp > 0)
  <2>1. exp > 0 /\ One(sig) = 1
    BY <1>2, <1>5
  <2>2. Normalized(exp, sig) = <<exp, sig>>
    BY <1>5, <2>1 DEF Normalized
  <2>3. Halved(<<exp, sig>>) = <<exp, sig>>
    BY <2>1 DEF Halved
  <2>4. sig < 16 * Hidden /\ sig >= 8 * Hidden
    BY <1>2, <2>1, Widths
  <2>5. PICK g \in {2, 4} : g = 2
    OBVIOUS
  <2>6. Result(how, sg, num, den, Ended(sg, Halved(<<exp, sig>>)))
    BY <2>1, <2>4, <2>5, EndRight
  <2> QED
    BY <1>1, <2>2, <2>3, <2>6
<1> QED
  BY <1>3, <1>4, <1>5

-----------------------------------------------------------------------------
(* Operands.                                                               *)

\* A pattern is its sign and its magnitude.
LEMMA PatternIs ==
  ASSUME NEW x \in Pattern
  PROVE  /\ x.sign \in {0, 1} /\ x.mag \in Nat /\ (x.mag \in 0 .. InfMag \/ x.mag = NanMag)
         /\ x = P(x.sign, x.mag)
         /\ Finite(x) => x.mag < InfMag
<1>1. PICK H \in Nat, X \in Nat, h \in Nat : H = Hidden /\ H >= 16 /\ X = MaxExp /\ InfMag = X * H /\ H = 16 * h
  BY Widths
<1>2. x.sign \in {0, 1} /\ (x.mag \in 0 .. InfMag \/ x.mag = NanMag) /\ x.mag \in Nat
  BY Widths DEF Pattern
<1>3. x = P(x.sign, x.mag)
  BY Zenon DEF Pattern, P
<1>4. InfMag \div H = X /\ NanMag \div H = X
  <2>1. PICK z \in 0 .. H - 1, r \in 0 .. H - 1 : z = 0 /\ r = H \div 2
    BY <1>1
  <2>2. PICK i \in Nat, n \in Nat : i = InfMag /\ n = NanMag /\ n = i + r
    BY <1>1, <2>1, Widths DEF NanMag
  <2>3. PICK j \in Int : j = H * X /\ X * H = j
    BY TimesInt
  <2>4. j = i
    BY <1>1, <2>2, <2>3
  <2>5. i = H * X + z /\ n = H * X + r
    BY <2>1, <2>2, <2>3, <2>4
  <2> QED
    BY <1>1, <2>2, <2>5, DivModIs
<1>5. Finite(x) => x.mag < InfMag
  <2> SUFFICES ASSUME Finite(x) PROVE x.mag < InfMag
    OBVIOUS
  <2>1. x.mag # InfMag /\ x.mag # NanMag
    BY <1>1, <1>4 DEF Finite, Exp
  <2> QED
    BY <1>2, <2>1, Widths
<1> QED
  BY <1>2, <1>3, <1>5

\* A finite operand is its significand times a power of two.
LEMMA OperandIs ==
  ASSUME NEW x \in Pattern, Finite(x)
  PROVE  /\ Sig(x) \in Nat /\ Sig(x) < 2 * Hidden /\ (Exp(x) # 0 => Sig(x) >= Hidden) /\ (x.mag # 0 => Sig(x) >= 1)
         /\ Exp(x) \in Nat /\ Exp(x) < MaxExp
         /\ RealExp(x) \in Nat /\ RealExp(x) >= 1 /\ RealExp(x) < MaxExp
         /\ Exp(x) # 0 => RealExp(x) = Exp(x)
         /\ Exp(x) = 0 => RealExp(x) = 1
         /\ Mag(x.mag) = Sig(x) * Pow2[RealExp(x) - 1]
<1>1. PICK m \in Nat : m = x.mag /\ m < InfMag
  BY PatternIs
<1>2. PICK H \in Nat, X \in Nat : H = Hidden /\ H >= 16 /\ X = MaxExp /\ X >= 3 /\ InfMag = X * H
  BY Widths
<1>3. PICK e \in Nat, f \in 0 .. Hidden - 1 : m = e * Hidden + f /\ e = m \div Hidden /\ f = m % Hidden
  BY MagParts
<1>4. Exp(x) = e /\ Frac(x) = f
  BY <1>1, <1>3 DEF Exp, Frac
<1>5. e < X
  <2>1. X <= e => X * H <= e * H
    BY <1>2, TimesLess
  <2>2. X * H \in Int /\ e * H \in Int
    BY TimesInt
  <2> QED
    BY <1>1, <1>2, <1>3, <2>1, <2>2
<1>6. Mag(m) = IF e = 0 THEN f ELSE (f + Hidden) * Pow2[e - 1]
  BY <1>3, MagOf
<1>7. Sig(x) = IF e # 0 THEN f + Hidden ELSE f
  BY <1>4 DEF Sig
<1>8. RealExp(x) = IF e = 0 THEN 1 ELSE e
  BY <1>4 DEF RealExp
<1>9. m # 0 => Sig(x) >= 1
  <2>1. CASE e = 0
    <3>1. e * H = 0
      BY <1>2, <2>1, SMT
    <3>2. m = f
      BY <1>2, <1>3, <3>1
    <3> QED
      BY <1>7, <2>1, <3>2
  <2>2. CASE e # 0
    BY <1>2, <1>7, <2>2
  <2> QED
    BY <2>1, <2>2
<1>10. Mag(m) = Sig(x) * Pow2[RealExp(x) - 1]
  <2>1. CASE e = 0
    <3>1. Pow2[RealExp(x) - 1] = 1
      BY <1>8, <2>1, PowersBase
    <3>2. f * 1 = f
      OBVIOUS
    <3> QED
      BY <1>6, <1>7, <2>1, <3>1, <3>2
  <2>2. CASE e # 0
    BY <1>6, <1>7, <1>8, <2>2
  <2> QED
    BY <2>1, <2>2
<1> QED
  BY <1>1, <1>2, <1>4, <1>5, <1>7, <1>8, <1>9, <1>10

Magnitude(n) == IF n < 0 THEN -n ELSE n

\* Small integers are their own nearest number.
LEMMA NearestSmall ==
  ASSUME NEW m \in Nat, m < 2 * Hidden
  PROVE  Nearest(m, 1) = m
<1>1. m \in 0 .. 2 * Hidden /\ m < InfMag
  BY Widths
<1>2. Mag(m) = m
  BY <1>1, MagSmall
<1> QED
  BY <1>1, <1>2, NearestExact

\* A finite operand is the number nearest to itself, and its sign is the number's.
LEMMA NumberIs ==
  ASSUME NEW x \in Pattern, Finite(x)
  PROVE  /\ Number(x) \in Int /\ Magnitude(Number(x)) = Mag(x.mag) /\ Mag(x.mag) \in Nat
         /\ Nearest(Magnitude(Number(x)), 1) = x.mag
         /\ x.mag = 0 => Number(x) = 0
         /\ x.mag # 0 => Mag(x.mag) >= 1 /\ Number(x) # 0 /\ (Number(x) < 0 <=> x.sign = 1)
<1>1. PICK m \in Nat : m = x.mag /\ m < InfMag
  BY PatternIs
<1>2. PICK v \in Nat : v = Mag(m)
  BY MagNat
<1>3. m = 0 => v = 0
  <2>1. PICK z \in 0 .. 2 * Hidden : z = 0
    BY Widths
  <2> QED
    BY <1>2, <2>1, MagSmall
<1>4. m # 0 => v >= 1
  <2>1. PICK z \in Nat : z = 0 /\ Mag(z) \in Nat
    BY MagNat
  <2>2. z < m => Mag(z) < Mag(m)
    BY MagGrows
  <2> QED
    BY <1>2, <2>1, <2>2
<1>5. Nearest(v, 1) = m
  BY <1>1, <1>2, NearestExact
<1>6. Number(x) = IF x.sign = 1 THEN -v ELSE v
  BY <1>1, <1>2 DEF Number
<1>7. Number(x) \in Int /\ Magnitude(Number(x)) = v
  BY <1>6 DEF Magnitude
<1> QED
  BY <1>1, <1>2, <1>3, <1>4, <1>5, <1>6, <1>7

-----------------------------------------------------------------------------
(* The sum.                                                                *)

\* The other sign stands for the other number.
LEMMA StandsNeg ==
  ASSUME NEW s \in Int, NEW N \in Int, NEW D \in Int, Stands("exact", 2, s, N, D)
  PROVE  Stands("exact", 2, -s, -N, D)
<1> SUFFICES ASSUME NEW u \in Int, u % 2 = 0
             PROVE  (-s < u <=> -N < u * D) /\ (-s > u <=> -N > u * D)
  BY DEF Stands
<1>1. PICK v \in Int, y \in Int : v = -u /\ v % 2 = 0 /\ y = u * D /\ v * D = -y
  <2>1. (-u) * D = -(u * D)
    BY SMT
  <2>2. (-u) % 2 = 0 /\ -u \in Int
    BY SMT
  <2> QED
    BY <2>1, <2>2, TimesInt
<1>2. (s < v <=> N < v * D) /\ (s > v <=> N > v * D)
  BY <1>1 DEF Stands
<1> QED
  BY <1>1, <1>2

\* An even number can be added to both sides.
LEMMA StandsPlus ==
  ASSUME NEW s \in Int, NEW N \in Int, NEW D \in Int, NEW c \in Int, c % 2 = 0, Stands("exact", 2, s, N, D)
  PROVE  Stands("exact", 2, s + c, N + c * D, D)
<1> SUFFICES ASSUME NEW u \in Int, u % 2 = 0
             PROVE  (s + c < u <=> N + c * D < u * D) /\ (s + c > u <=> N + c * D > u * D)
  BY DEF Stands
<1>1. PICK v \in Int : v = u - c /\ v % 2 = 0
  BY SMT
<1>2. PICK y \in Int, z \in Int : y = u * D /\ z = c * D /\ v * D = y - z
  <2>1. (u - c) * D = u * D - c * D
    BY SMT
  <2> QED
    BY <1>1, <2>1, TimesInt
<1>3. (s < v <=> N < v * D) /\ (s > v <=> N > v * D)
  BY <1>1 DEF Stands
<1> QED
  BY <1>1, <1>2, <1>3

\* The fraction can be expanded.
LEMMA StandsTimes ==
  ASSUME NEW how, NEW g, NEW s \in Int, NEW N \in Int, NEW D \in Int, NEW c \in Int, c > 0, Stands(how, g, s, N, D)
  PROVE  Stands(how, g, s, N * c, D * c)
<1> SUFFICES ASSUME NEW u \in Int, u % g = 0
             PROVE  /\ s < u <=> N * c < u * (D * c)
                    /\ s > u => N * c > u * (D * c)
                    /\ how = "exact" => (N * c > u * (D * c) => s > u)
  BY DEF Stands
<1>1. PICK y \in Int : y = u * D
  BY TimesInt
<1>2. u * (D * c) = y * c
  <2>1. u * (D * c) = (u * D) * c
    BY SMT
  <2> QED
    BY <1>1, <2>1
<1>3. (s < u <=> N < y) /\ (s > u => N > y) /\ (how = "exact" => (N > y => s > u))
  BY <1>1 DEF Stands
<1>4. (N < y <=> N * c < y * c) /\ (y < N <=> y * c < N * c)
  BY TimesLess
<1>5. N * c \in Int /\ y * c \in Int
  BY TimesInt
<1> QED
  BY <1>2, <1>3, <1>4, <1>5

\* The first three shifts of a significand that has its three bits free lose nothing.
LEMMA AlignedExact ==
  ASSUME NEW n \in Nat, NEW d \in 0 .. 3
  PROVE  Aligned(8 * n, d) * Pow2[d] = 8 * n
<1>1. PICK s \in Nat : s = 8 * n
  OBVIOUS
<1>2. Aligned(s, 0) = s /\ \A k \in Nat : Aligned(s, k) \in Nat /\ Aligned(s, k + 1) = ShiftRight(Aligned(s, k))
  BY AlignedSteps
<1>3. Aligned(s, 1) = 4 * n
  <2>1. s % 2 = 0
    BY <1>1, SMT
  <2>2. 2 * ShiftRight(s) = s /\ ShiftRight(s) \in Nat
    BY <2>1, ShiftRightIs
  <2>3. Aligned(s, 0 + 1) = ShiftRight(s)
    BY <1>2
  <2> QED
    BY <1>1, <2>2, <2>3
<1>4. Aligned(s, 2) = 2 * n
  <2>1. PICK t \in Nat : t = 4 * n /\ t % 2 = 0
    BY SMT
  <2>2. 2 * ShiftRight(t) = t /\ ShiftRight(t) \in Nat
    BY <2>1, ShiftRightIs
  <2>3. Aligned(s, 1 + 1) = ShiftRight(t)
    BY <1>2, <1>3, <2>1
  <2> QED
    BY <2>1, <2>2, <2>3
<1>5. Aligned(s, 3) = n
  <2>1. PICK t \in Nat : t = 2 * n /\ t % 2 = 0
    BY SMT
  <2>2. 2 * ShiftRight(t) = t /\ ShiftRight(t) \in Nat
    BY <2>1, ShiftRightIs
  <2>3. Aligned(s, 2 + 1) = ShiftRight(t)
    BY <1>2, <1>4, <2>1
  <2> QED
    BY <2>1, <2>2, <2>3
<1> QED
  BY <1>1, <1>2, <1>3, <1>4, <1>5, SmallPowers

\* Two denormals: the sum is exact, and the exponent is 0 or 1.
LEMMA DenormalSum ==
  ASSUME NEW sg, NEW m \in Nat, m < 2 * Hidden
  PROVE  internal_normalize(sg, 0, 8 * m) = P(sg, m)
<1>1. PICK H \in Nat, X \in Nat : H = Hidden /\ H >= 16 /\ X = MaxExp /\ X >= 3
  BY Widths
<1>2. PICK s \in Nat : s = 8 * m /\ s < 16 * Hidden
  BY <1>1
<1>3. One(s) \in Nat /\ (One(s) > 1 <=> s >= 16 * Hidden) /\ (One(s) = 0 <=> s < 8 * Hidden)
  BY OneIs
<1>4. ASSUME NEW e \in Int
      PROVE  Rounded(sg, e, s) = P(sg, e * Hidden + (m % Hidden))
  <2>1. PICK k \in Nat, r \in 0 .. 7 :
           /\ s = 8 * k + r /\ k < 2 * Hidden
           /\ ~RoundsUp(k, r) => Rounded(sg, e, s) = P(sg, e * Hidden + (k % Hidden))
    BY <1>2, RoundedOf
  <2>2. k = m /\ r = 0
    BY <1>2, <2>1
  <2> QED
    BY <2>1, <2>2 DEF RoundsUp
<1>5. CASE m < H
  <2>1. One(s) = 0
    BY <1>1, <1>2, <1>3, <1>5
  <2>2. Normalized(0, s) = <<0, s>>
    BY <2>1 DEF Normalized
  <2>3. internal_normalize(sg, 0, s) = Rounded(sg, 0, s)
    BY <1>1, <2>2 DEF internal_normalize
  <2>4. PICK z \in Int : z = 0
    OBVIOUS
  <2>5. z * Hidden + (m % Hidden) = m
    BY <1>1, <1>5, <2>4, ModHidden
  <2>6. Rounded(sg, z, s) = P(sg, m)
    BY <1>4, <2>5
  <2> QED
    BY <1>2, <2>3, <2>4, <2>6
<1>6. CASE m >= H
  <2>1. One(s) = 1
    BY <1>1, <1>2, <1>3, <1>6
  <2>2. Normalized(0, s) = <<1, s>>
    BY <2>1 DEF Normalized
  <2>3. internal_normalize(sg, 0, s) = Rounded(sg, 1, s)
    BY <1>1, <2>2 DEF internal_normalize
  <2>4. PICK o \in Int : o = 1
    OBVIOUS
  <2>5. o * Hidden + (m % Hidden) = m
    BY <1>1, <1>6, <2>4, ModHidden
  <2>6. Rounded(sg, o, s) = P(sg, m)
    BY <1>4, <2>5
  <2> QED
    BY <1>2, <2>3, <2>4, <2>6
<1> QED
  BY <1>1, <1>5, <1>6

Flip(sign, x) == IF sign = 1 THEN -x ELSE x
Negative(n) == IF n < 0 THEN 1 ELSE 0

\* The significand of a sum, as SumOf computes it.
SumSig(lo, hi) == Flip(lo.sign, Aligned(Sig(lo) * 8, RealExp(hi) - RealExp(lo))) + Flip(hi.sign, Sig(hi) * 8)

\* The sign of an operand is put on what stands for it.
LEMMA FlipStands ==
  ASSUME NEW sign, NEW s \in Int, NEW N \in Int, NEW D \in Int, Stands("exact", 2, s, N, D)
  PROVE  Stands("exact", 2, Flip(sign, s), Flip(sign, N), D)
BY StandsNeg DEF Flip

\* A sign goes through a product.
LEMMA FlipInt ==
  ASSUME NEW sign, NEW x \in Int
  PROVE  /\ Flip(sign, x) \in Int
         /\ Flip(sign, 8 * x) = 8 * Flip(sign, x)
         /\ \A q \in Int : Flip(sign, x * q) = Flip(sign, x) * q
<1>1. \A q \in Int : (-x) * q = -(x * q)
  BY SMT
<1> QED
  BY <1>1 DEF Flip

\* The shifted operand still stands for it,
LEMMA OperandStands ==
  ASSUME NEW w \in Nat, NEW d \in Nat
  PROVE  Stands("exact", 2, Aligned(w, d), w, Pow2[d])
<1>1. PICK o \in Nat, v \in Int : o = 1 /\ v = w
  OBVIOUS
<1>2. v * o = v /\ o > 0 /\ o \in Int
  BY <1>1
<1>3. Stands("exact", 2, v, v, o)
  BY <1>2, ExactStands
<1>4. Stands("exact", 2, w, v, o)
  BY <1>1, <1>3
<1>5. Stands("exact", 2, Aligned(w, d), v, o * Pow2[d])
  BY <1>4, AlignedStands
<1>6. o * Pow2[d] = Pow2[d]
  BY <1>1, PowersNat
<1> QED
  BY <1>1, <1>5, <1>6

\* and the significand of the sum for eight times the sum, at the exponent of the larger operand.
LEMMA SumStands ==
  ASSUME NEW lo \in Pattern, NEW hi \in Pattern, Finite(lo), Finite(hi), Exp(lo) <= Exp(hi)
  PROVE  \E d \in Nat, q \in Nat, p \in Nat, N \in Int :
           /\ d = RealExp(hi) - RealExp(lo) /\ q >= 1 /\ p >= 1 /\ p = Pow2[d] /\ q * p = Pow2[RealExp(hi) - 1]
           /\ SumSig(lo, hi) \in Int
           /\ 8 * (Number(lo) + Number(hi)) = N * q
           /\ Stands("exact", 2, SumSig(lo, hi), N, p)
           /\ d <= 3 => SumSig(lo, hi) * p = N
<1>1. PICK a \in Nat, b \in Nat, i \in Nat, d \in Nat :
        /\ a = Sig(lo) /\ b = Sig(hi) /\ i = RealExp(lo) - 1
        /\ d = RealExp(hi) - RealExp(lo) /\ RealExp(hi) - 1 = i + d
  <2>1. /\ Sig(lo) \in Nat /\ Sig(hi) \in Nat /\ RealExp(lo) - 1 \in Nat
        /\ RealExp(hi) - RealExp(lo) \in Nat /\ RealExp(hi) - 1 = (RealExp(lo) - 1) + (RealExp(hi) - RealExp(lo))
    BY OperandIs
  <2> QED
    BY <2>1
<1>2. PICK q \in Nat, p \in Nat : q = Pow2[i] /\ q >= 1 /\ p = Pow2[d] /\ p >= 1
  BY PowersNat
<1>3. q * p = Pow2[RealExp(hi) - 1]
  <2>1. Pow2[i + d] = q * p
    BY <1>2, PowersPlus
  <2> QED
    BY <1>1, <2>1
<1>4. PICK x \in Nat, w \in Nat, y \in Int : w = 8 * a /\ x = Aligned(w, d) /\ y = 8 * b /\ y % 2 = 0
  <2>1. 8 * a \in Nat
    OBVIOUS
  <2>2. Aligned(8 * a, d) \in Nat
    BY <2>1, AlignedSteps
  <2>3. (8 * b) % 2 = 0
    BY SMT
  <2> QED
    BY <2>1, <2>2, <2>3
<1>5. Stands("exact", 2, x, w, p)
  BY <1>2, <1>4, OperandStands
<1>6. d <= 3 => x * p = w
  <2>1. d <= 3 => d \in 0 .. 3
    OBVIOUS
  <2>2. d <= 3 => Aligned(8 * a, d) * Pow2[d] = 8 * a
    BY <2>1, AlignedExact
  <2> QED
    BY <1>2, <1>4, <2>2
<1>7. PICK v \in Int, A \in Int, c \in Int :
        v = Flip(lo.sign, x) /\ A = Flip(lo.sign, w) /\ c = Flip(hi.sign, y) /\ c % 2 = 0
  <2>1. Flip(lo.sign, x) \in Int /\ Flip(lo.sign, w) \in Int /\ Flip(hi.sign, y) \in Int
    BY <1>4, FlipInt
  <2>2. Flip(hi.sign, y) % 2 = 0
    BY <1>4 DEF Flip
  <2> QED
    BY <2>1, <2>2
<1>8. Stands("exact", 2, v, A, p)
  BY <1>5, <1>7, FlipStands
<1>9. Stands("exact", 2, v + c, A + c * p, p)
  <2>1. p \in Int /\ c % 2 = 0
    BY <1>7
  <2> QED
    BY <1>8, <2>1, StandsPlus
<1>10. SumSig(lo, hi) = v + c
  <2>1. Sig(lo) * 8 = w /\ Sig(hi) * 8 = y
    BY <1>1, <1>4
  <2> QED
    BY <1>1, <1>4, <1>7, <2>1 DEF SumSig
<1>11. PICK z \in Int, N \in Int : z = c * p /\ N = A + z
  BY TimesInt
<1>12. d <= 3 => (v + c) * p = N
  <2>1. (v + c) * p = v * p + c * p
    BY TimesPlus
  <2>2. Flip(lo.sign, x * p) = v * p
    BY <1>7, FlipInt
  <2> QED
    BY <1>6, <1>7, <1>11, <2>1, <2>2
<1>13. 8 * Number(lo) = A * q
  <2>1. PICK m \in Int : m = a * q /\ Mag(lo.mag) = m
    BY <1>1, <1>2, OperandIs, TimesInt
  <2>2. Number(lo) = Flip(lo.sign, m)
    BY <2>1 DEF Number, Flip
  <2>3. 8 * Flip(lo.sign, m) = Flip(lo.sign, 8 * m)
    BY FlipInt
  <2>4. 8 * m = w * q
    <3>1. (8 * a) * q = 8 * (a * q)
      BY SMT
    <3> QED
      BY <1>4, <2>1, <3>1
  <2>5. Flip(lo.sign, w * q) = A * q
    BY <1>7, FlipInt
  <2> QED
    BY <2>2, <2>3, <2>4, <2>5
<1>14. 8 * Number(hi) = z * q
  <2>1. PICK m \in Int : m = b * (q * p) /\ Mag(hi.mag) = m
    <3>1. q * p \in Int
      BY TimesInt
    <3>2. b * (q * p) \in Int
      BY <3>1, TimesInt
    <3> QED
      BY <1>1, <1>3, <3>2, OperandIs
  <2>2. Number(hi) = Flip(hi.sign, m)
    BY <2>1 DEF Number, Flip
  <2>3. 8 * Flip(hi.sign, m) = Flip(hi.sign, 8 * m)
    BY FlipInt
  <2>4. 8 * m = y * (p * q) /\ p * q \in Int
    <3>1. (8 * b) * (p * q) = 8 * (b * (q * p))
      BY SMT
    <3> QED
      BY <1>4, <2>1, <3>1, TimesInt
  <2>5. Flip(hi.sign, y * (p * q)) = c * (p * q)
    BY <1>7, <2>4, FlipInt
  <2>6. c * (p * q) = (c * p) * q
    BY SMT
  <2> QED
    BY <1>11, <2>2, <2>3, <2>4, <2>5, <2>6
<1>15. 8 * (Number(lo) + Number(hi)) = N * q
  <2>1. N * q = A * q + z * q
    BY <1>11, TimesPlus
  <2>2. Number(lo) \in Int /\ Number(hi) \in Int
    BY NumberIs
  <2> QED
    BY <1>13, <1>14, <2>1, <2>2
<1>16. v + c \in Int
  OBVIOUS
<1>17. Stands("exact", 2, v + c, N, p)
  BY <1>9, <1>11
<1> QED
  BY <1>1, <1>2, <1>3, <1>10, <1>12, <1>15, <1>16, <1>17

\* Absolute values; the sign of the significand is that of the sum.
LEMMA SumMagnitude ==
  ASSUME NEW s \in Int, NEW N \in Int, NEW n \in Int, NEW q \in Nat, q >= 1, NEW p \in Nat, p >= 1,
         8 * n = N * q, Stands("exact", 2, s, N, p)
  PROVE  /\ s < 0 <=> n < 0
         /\ Magnitude(s) \in Nat /\ Magnitude(N) \in Nat /\ Magnitude(n) \in Nat
         /\ 8 * Magnitude(n) = Magnitude(N) * q
         /\ Stands("exact", 2, Magnitude(s), Magnitude(N), p)
         /\ s * p = N => Magnitude(s) * p = Magnitude(N)
<1>1. s < 0 <=> N < 0
  <2>1. PICK u \in Int : u = 0 /\ u % 2 = 0 /\ u * p = 0
    BY SMT
  <2> QED
    BY <2>1 DEF Stands
<1>2. N < 0 <=> n < 0
  <2>1. PICK z \in Int : z = 0 /\ z * q = 0
    BY SMT
  <2>2. N < z <=> N * q < z * q
    BY TimesLess
  <2> QED
    BY <2>1, <2>2
<1>3. (-N) * q = -(N * q) /\ (-s) * p = -(s * p)
  BY TimesPlus
<1>4. Stands("exact", 2, -s, -N, p)
  BY StandsNeg
<1> QED
  BY <1>1, <1>2, <1>3, <1>4 DEF Magnitude

\* The smaller operand shifted to the greater, their sum normalized: the nearest number,
\* with the sign of the sum.
LEMMA SumIsRight ==
  ASSUME NEW lo \in Pattern, NEW hi \in Pattern, Finite(lo), Finite(hi), hi.mag # 0, Exp(lo) <= Exp(hi),
         NEW n \in Int, n = Number(lo) + Number(hi)
  PROVE  internal_normalize(Negative(SumSig(lo, hi)), Exp(hi), Magnitude(SumSig(lo, hi)))
         = P(Negative(n), Nearest(Magnitude(n), 1))
<1>1. PICK d \in Nat, q \in Nat, p \in Nat, N \in Int :
           /\ d = RealExp(hi) - RealExp(lo) /\ q >= 1 /\ p >= 1 /\ p = Pow2[d] /\ q * p = Pow2[RealExp(hi) - 1]
           /\ SumSig(lo, hi) \in Int
           /\ 8 * (Number(lo) + Number(hi)) = N * q
           /\ Stands("exact", 2, SumSig(lo, hi), N, p)
           /\ d <= 3 => SumSig(lo, hi) * p = N
  BY SumStands
<1>2. PICK s \in Int : s = SumSig(lo, hi)
  BY <1>1
<1>3. PICK t \in Nat, M \in Nat, m \in Nat :
        /\ t = Magnitude(s) /\ M = Magnitude(N) /\ m = Magnitude(n)
        /\ s < 0 <=> n < 0
        /\ 8 * m = M * q /\ Stands("exact", 2, t, M, p)
        /\ d <= 3 => t * p = M
  <2>1. 8 * n = N * q /\ Stands("exact", 2, s, N, p) /\ (d <= 3 => s * p = N)
    BY <1>1, <1>2
  <2>2. /\ s < 0 <=> n < 0
        /\ Magnitude(s) \in Nat /\ Magnitude(N) \in Nat /\ Magnitude(n) \in Nat
        /\ 8 * Magnitude(n) = Magnitude(N) * q
        /\ Stands("exact", 2, Magnitude(s), Magnitude(N), p)
        /\ s * p = N => Magnitude(s) * p = Magnitude(N)
    <3>1. q >= 1 /\ p >= 1
      BY <1>1
    <3> QED
      BY <2>1, <3>1, SumMagnitude
  <2> QED
    BY <2>1, <2>2
<1>4. PICK sg \in {0, 1} : sg = Negative(s) /\ sg = Negative(n)
  BY <1>3 DEF Negative
<1>5. PICK H \in Nat : H = Hidden /\ H >= 16
  BY Widths
<1>6. CASE Exp(hi) = 0
  <2>1. d = 0 /\ RealExp(hi) - 1 = 0 /\ Exp(lo) = 0
    BY <1>1, <1>6, OperandIs
  <2>2. p = 1 /\ q = 1
    BY <1>1, <2>1, PowersBase
  <2>3. t = 8 * m
    BY <1>3, <2>1, <2>2
  <2>4. m < 2 * Hidden
    <3>1. Number(lo) \in Int /\ Magnitude(Number(lo)) < H /\ Number(hi) \in Int /\ Magnitude(Number(hi)) < H
      <4>1. ASSUME NEW x \in Pattern, Finite(x), Exp(x) = 0
            PROVE  Number(x) \in Int /\ Magnitude(Number(x)) < H
        <5>1. PICK j \in Nat : j = x.mag
          BY PatternIs
        <5>2. j < H
          <6>1. PICK e \in Nat, f \in 0 .. Hidden - 1 : j = e * Hidden + f /\ e = j \div Hidden
            BY MagParts
          <6>2. PICK z \in Int : z = 0 /\ z * H = 0
            BY SMT
          <6>3. e = z
            BY <4>1, <5>1, <6>1, <6>2 DEF Exp
          <6> QED
            BY <1>5, <6>1, <6>2, <6>3
        <5>3. j \in 0 .. 2 * Hidden
          BY <1>5, <5>2
        <5>4. Mag(j) = j
          BY <5>3, MagSmall
        <5> QED
          BY <4>1, <5>1, <5>2, <5>4, NumberIs
      <4> QED
        BY <1>6, <2>1, <4>1
    <3> QED
      BY <1>3, <1>5, <3>1 DEF Magnitude
  <2>5. internal_normalize(sg, 0, 8 * m) = P(sg, m)
    BY <2>4, DenormalSum
  <2>6. Nearest(m, 1) = m
    BY <2>4, NearestSmall
  <2> QED
    BY <1>2, <1>3, <1>4, <1>6, <2>3, <2>5, <2>6
<1>7. CASE Exp(hi) # 0
  <2>1. PICK e \in Nat, j \in Nat : e = Exp(hi) /\ e = RealExp(hi) /\ j = e - 1 /\ e = j + 1 /\ e < MaxExp
    BY <1>7, OperandIs
  <2>2. PICK c \in Nat : c = 2 * q /\ c > 0
    BY <1>1
  <2>3. PICK B \in Nat, den \in Nat, x \in Nat : B = 0 /\ den = 1 /\ x = e + B /\ B + 1 = 1 /\ x = e
    OBVIOUS
  <2>4. (8 * m) * Pow2[B + 1] = M * c
    <3>1. Pow2[B + 1] = 2
      BY <2>3, SmallPowers
    <3>2. M * (2 * q) = (M * q) * 2
      BY SMT
    <3> QED
      BY <1>3, <2>2, <3>1, <3>2
  <2>5. den * Pow2[x] = p * c
    <3>1. PICK w \in Nat : w = Pow2[x]
      BY PowersNat
    <3>2. w = 2 * (q * p)
      BY <1>1, <2>1, <2>3, <3>1, PowersStep
    <3>3. p * (2 * q) = 2 * (q * p)
      BY SMT
    <3> QED
      BY <2>2, <2>3, <3>1, <3>2, <3>3
  <2>6. Stands("exact", 2, t, M * c, p * c)
    BY <1>3, <2>2, StandsTimes
  <2>7. Stands("exact", 2, t, (8 * m) * Pow2[B + 1], den * Pow2[x])
    BY <2>4, <2>5, <2>6
  <2>8. d <= 3 => t * (den * Pow2[x]) = (8 * m) * Pow2[B + 1]
    <3>1. t * (p * c) = (t * p) * c
      BY SMT
    <3> QED
      BY <1>3, <2>4, <2>5, <3>1
  <2>9. ~(d <= 3) => t >= 4 * Hidden
    <3> SUFFICES ASSUME d >= 4 PROVE t >= 4 * Hidden
      OBVIOUS
    <3>1. PICK a \in Nat, b \in Nat : a = Sig(lo) /\ a < 2 * H /\ b = Sig(hi) /\ b >= H
      BY <1>5, <1>7, OperandIs
    <3>2. PICK w \in Nat, y \in Nat : w = Sig(lo) * 8 /\ w = 8 * a /\ y = Aligned(w, d)
      <4>1. 8 * a \in Nat /\ Sig(lo) * 8 = 8 * a
        BY <3>1
      <4> QED
        BY <4>1, AlignedSteps
    <3>3. Stands("exact", 2, y, w, p)
      BY <1>1, <3>2, OperandStands
    <3>4. p >= 16
      <4>1. PICK i \in Nat : i = 4 /\ Pow2[i] = 16 /\ i <= d
        BY SmallPowers
      <4> QED
        BY <1>1, <4>1, PowersGrow
    <3>5. y < 2 * H
      <4>1. PICK u \in Int : u = 2 * H /\ u % 2 = 0
        BY SMT
      <4>2. u * p >= u * 16
        BY <1>5, <3>4, <4>1, SMT
      <4>3. w < u * p
        <5>1. u * p \in Int
          BY TimesInt
        <5> QED
          BY <3>1, <3>2, <4>1, <4>2, <5>1
      <4> QED
        BY <3>3, <4>1, <4>3 DEF Stands
    <3>6. s = Flip(lo.sign, y) + Flip(hi.sign, 8 * b)
      BY <1>1, <1>2, <3>1, <3>2 DEF SumSig
    <3> QED
      BY <1>3, <1>5, <3>1, <3>5, <3>6 DEF Flip, Magnitude
  <2>10. Result("exact", sg, m, den, internal_normalize(sg, e, t))
    <3>1. ~(e = 0 /\ One(t) <= 1)
      BY <2>1
    <3>2. One(t) = 0 /\ e > 0 => /\ e < MaxExp
                                 /\ t * (den * Pow2[x]) = (8 * m) * Pow2[B + 1] \/ t >= 4 * Hidden
      BY <2>1, <2>8, <2>9
    <3>3. den >= 1 /\ x = e + B /\ e \in Int
      BY <2>3
    <3> QED
      BY <2>7, <3>1, <3>2, <3>3, NormalizeIsRight
  <2>11. ~(Nearest(m, den) = Hidden /\ m < Hidden * den)
    <3>1. m < Hidden => Nearest(m, 1) = m
      BY <1>5, NearestSmall
    <3> QED
      BY <1>5, <2>3, <3>1
  <2>12. internal_normalize(sg, e, t) = P(sg, Nearest(m, 1))
    BY <2>3, <2>10, <2>11 DEF Result
  <2> QED
    BY <1>2, <1>3, <1>4, <2>1, <2>12
<1> QED
  BY <1>6, <1>7

-----------------------------------------------------------------------------
(* The product and the quotient.                                           *)

\* The number 1 is a power of two.
LEMMA UnitIs ==
  /\ Unit \in Nat /\ Unit >= 1 /\ Bias + F - 1 \in Nat /\ Unit = Pow2[Bias + F - 1]
<1>1. PICK k \in Nat : k = Bias + F - 1
  <2>1. Bias + F - 1 \in Nat
    BY Widths, FpuAssumption
  <2> QED
    BY <2>1
<1> QED
  BY <1>1, PowersNat DEF Unit

\* What an operand is made of.
LEMMA OperandParts ==
  ASSUME NEW x \in Pattern, Finite(x), x.mag # 0
  PROVE  \E s \in Nat, i \in Nat, q \in Nat :
           /\ s = Sig(x) /\ s >= 1 /\ s < 2 * Hidden /\ (Exp(x) # 0 => s >= Hidden)
           /\ RealExp(x) = i + 1 /\ i < MaxExp - 1 /\ (Exp(x) = 0 => i = 0)
           /\ q = Pow2[i] /\ q >= 1 /\ Mag(x.mag) = s * q
<1>1. PICK s \in Nat, i \in Nat :
        /\ s = Sig(x) /\ s >= 1 /\ s < 2 * Hidden /\ (Exp(x) # 0 => s >= Hidden)
        /\ i = RealExp(x) - 1 /\ RealExp(x) = i + 1 /\ i < MaxExp - 1 /\ (Exp(x) = 0 => i = 0)
        /\ Mag(x.mag) = s * Pow2[RealExp(x) - 1]
  <2>1. RealExp(x) - 1 \in Nat /\ RealExp(x) = (RealExp(x) - 1) + 1 /\ RealExp(x) - 1 < MaxExp - 1
    BY OperandIs, Widths
  <2> QED
    BY <2>1, OperandIs
<1> QED
  BY <1>1, PowersNat

\* The exponent a multiplication hands to internal_normalize.
ProductExp(a, b) == RealExp(a) + RealExp(b) - Bias - (F - 3)

\* The product of the significands is exact, so what normalization makes of it is right,
\* but where the code takes it for a sum.
LEMMA ProductIsRight ==
  ASSUME NEW sg, NEW a \in Pattern, NEW b \in Pattern, Finite(a), Finite(b), a.mag # 0, b.mag # 0,
         ~(ProductExp(a, b) = 0 /\ One(Sig(a) * Sig(b)) <= 1)
  PROVE  Result("exact", sg, Mag(a.mag) * Mag(b.mag), Unit,
                internal_normalize(sg, ProductExp(a, b), Sig(a) * Sig(b)))
<1>1. PICK sa \in Nat, i \in Nat, p \in Nat :
           /\ sa = Sig(a) /\ sa >= 1 /\ (Exp(a) # 0 => sa >= Hidden)
           /\ RealExp(a) = i + 1 /\ i < MaxExp - 1 /\ (Exp(a) = 0 => i = 0)
           /\ p = Pow2[i] /\ Mag(a.mag) = sa * p
  BY OperandParts
<1>2. PICK sb \in Nat, j \in Nat, q \in Nat :
           /\ sb = Sig(b) /\ sb >= 1 /\ (Exp(b) # 0 => sb >= Hidden)
           /\ RealExp(b) = j + 1 /\ j < MaxExp - 1 /\ (Exp(b) = 0 => j = 0)
           /\ q = Pow2[j] /\ Mag(b.mag) = sb * q
  BY OperandParts
<1>3. PICK k \in Nat, u \in Nat : k = Bias + F - 1 /\ u = Unit /\ u >= 1 /\ u = Pow2[k]
  BY UnitIs
<1>4. PICK exp \in Int, B \in Nat, x \in Nat :
        exp = ProductExp(a, b) /\ B = Bias + F /\ x = exp + B /\ x = (i + j) + 5 /\ B + 1 = k + 2
  <2>1. PICK n \in Nat, f \in Nat : n = Bias /\ f = F
    BY Widths, FpuAssumption
  <2>2. PICK exp \in Int : exp = ProductExp(a, b) /\ exp = i + j + 5 - n - f
    BY <1>1, <1>2, <2>1 DEF ProductExp
  <2>3. n + f \in Nat /\ (i + j) + 5 \in Nat
    OBVIOUS
  <2> QED
    BY <1>3, <2>1, <2>2, <2>3
<1>5. PICK sig \in Nat, num \in Nat : sig = sa * sb /\ num = (sa * p) * (sb * q)
  <2>1. sa * sb \in Nat /\ sa * p \in Nat /\ sb * q \in Nat
    BY TimesNat
  <2> QED
    BY <2>1, TimesNat
<1>6. Pow2[B + 1] = 4 * u /\ Pow2[x] = 32 * (p * q)
  <2>1. PICK t \in Nat, f \in Nat : t = 2 /\ Pow2[t] = 4 /\ f = 5 /\ Pow2[f] = 32
    <3>1. Pow2[4 + 1] = 2 * Pow2[4]
      BY PowersStep
    <3> QED
      BY <3>1, SmallPowers
  <2>2. Pow2[k + t] = u * 4
    <3>1. Pow2[k + t] = Pow2[k] * Pow2[t]
      BY PowersPlus
    <3> QED
      BY <1>3, <2>1, <3>1
  <2>3. PICK h \in Nat : h = i + j
    OBVIOUS
  <2>4. Pow2[h] = p * q
    BY <1>1, <1>2, <2>3, PowersPlus
  <2>5. Pow2[h + f] = Pow2[h] * Pow2[f]
    BY PowersPlus
  <2>6. p * q \in Int
    BY TimesInt
  <2> QED
    BY <1>4, <2>1, <2>2, <2>3, <2>4, <2>5, <2>6
<1>7. sig * (u * Pow2[x]) = (8 * num) * Pow2[B + 1]
  <2>1. (sa * sb) * (u * (32 * (p * q))) = (8 * ((sa * p) * (sb * q))) * (4 * u)
    BY SMT
  <2> QED
    BY <1>5, <1>6, <2>1
<1>8. Stands("exact", 2, sig, (8 * num) * Pow2[B + 1], u * Pow2[x])
  <2>1. PICK D \in Int, N \in Int : D = u * Pow2[x] /\ D > 0 /\ N = (8 * num) * Pow2[B + 1]
    <3>1. PICK y \in Nat, z \in Nat : y = Pow2[x] /\ y >= 1 /\ z = Pow2[B + 1]
      <4>1. B + 1 \in Nat
        OBVIOUS
      <4> QED
        BY <4>1, PowersNat
    <3>2. u * y \in Nat /\ u * y >= 1
      BY <1>3, <3>1, TimesNat
    <3>3. (8 * num) * z \in Int
      BY TimesInt
    <3> QED
      BY <3>1, <3>2, <3>3
  <2>2. sig * D = N /\ sig \in Int
    BY <1>7, <2>1
  <2>3. Stands("exact", 2, sig, N, D)
    BY <2>1, <2>2, ExactStands
  <2> QED
    BY <2>1, <2>3
<1>9. One(sig) = 0 /\ exp > 0 => exp < MaxExp
  <2> SUFFICES ASSUME One(sig) = 0 PROVE exp < MaxExp
    OBVIOUS
  <2>1. PICK H \in Nat, n \in Nat : H = Hidden /\ H >= 16 /\ n = Bias /\ n >= 1 /\ MaxExp \in Nat
    BY Widths
  <2>2. sig < 8 * H
    BY <2>1, OneIs
  <2>3. ~(sa >= H /\ sb >= H)
    <3>1. sa >= H /\ sb >= H => sa * sb >= 16 * H
      <4> SUFFICES ASSUME sa >= H, sb >= H PROVE sa * sb >= 16 * H
        OBVIOUS
      <4>1. H * sb <= sa * sb
        <5>1. sb > 0 /\ sb \in Int /\ H \in Int /\ sa \in Int
          BY <1>2
        <5> QED
          BY <5>1, TimesLess
      <4>2. 16 * H <= H * sb
        <5>1. 16 <= sb
          BY <2>1
        <5>2. 16 * H <= sb * H
          BY <2>1, <5>1, SMT
        <5> QED
          BY <5>2, TimesInt
      <4>3. H * sb \in Int /\ sa * sb \in Int
        BY TimesInt
      <4> QED
        BY <4>1, <4>2, <4>3
    <3> QED
      BY <1>5, <2>1, <2>2, <3>1
  <2>4. i = 0 \/ j = 0
    BY <1>1, <1>2, <2>1, <2>3
  <2>5. exp = i + j + 5 - n - F
    <3>1. F \in Nat
      BY FpuAssumption
    <3> QED
      BY <1>4, <2>1, <3>1
  <2> QED
    BY <1>1, <1>2, <2>1, <2>4, <2>5, FpuAssumption
<1>10. ~(exp = 0 /\ One(sig) <= 1)
  BY <1>1, <1>2, <1>4, <1>5
<1>11. One(sig) = 0 /\ exp > 0 => /\ exp < MaxExp
                                  /\ sig * (u * Pow2[x]) = (8 * num) * Pow2[B + 1] \/ sig >= 4 * Hidden
  BY <1>7, <1>9
<1>12. Result("exact", sg, num, u, internal_normalize(sg, exp, sig))
  <2>1. x = exp + B /\ u >= 1
    BY <1>3, <1>4
  <2> QED
    BY <1>8, <1>10, <1>11, <2>1, NormalizeIsRight
<1> QED
  BY <1>1, <1>2, <1>3, <1>4, <1>5, <1>12

\* The dividend comes to the top of its word,
LEMMA UpIs ==
  ASSUME NEW s \in Nat, s >= 1, s < 2 * Hidden
  PROVE  Up(s) \in 0 .. SigBits /\ Pow2[SigBits - 1] <= s * Pow2[Up(s)]
<1> DEFINE Fits(n) == Pow2[SigBits - 1] <= s * Pow2[n] /\ s * Pow2[n] < Pow2[SigBits]
           T == {n \in Nat : Pow2[SigBits - 1] <= s * Pow2[n]}
<1>1. PICK L \in Nat : L = SigBits - 1 /\ SigBits = L + 1 /\ L >= F
  <2>1. SigBits - 1 \in Nat /\ SigBits = (SigBits - 1) + 1 /\ SigBits - 1 >= F
    BY FpuAssumption
  <2> QED
    BY <2>1
<1>2. PICK top \in Nat : top = Pow2[L] /\ Pow2[SigBits - 1] = top /\ Pow2[SigBits] = 2 * top
  BY <1>1, PowersNat, PowersStep
<1>3. L \in T
  <2>1. s * top >= top
    BY SMT
  <2> QED
    BY <1>2, <2>1
<1>4. PICK n \in T : \A k \in T : n <= k
  <2>1. T \in SUBSET Nat /\ T # {}
    BY <1>3
  <2> HIDE DEF T
  <2> QED
    BY <2>1, Least
<1>5. n \in Nat /\ top <= s * Pow2[n] /\ n <= L
  BY <1>2, <1>3, <1>4
<1>6. s * Pow2[n] < 2 * top
  <2>1. CASE n = 0
    <3>1. s * Pow2[n] = s
      BY <2>1, PowersBase
    <3>2. Hidden <= top
      <4>1. F \in Nat /\ F <= L
        BY <1>1, FpuAssumption
      <4> QED
        BY <1>2, <4>1, PowersGrow DEF Hidden
    <3> QED
      BY <3>1, <3>2, Widths
  <2>2. CASE n # 0
    <3>1. PICK j \in Nat : n = j + 1 /\ ~(n <= j)
      <4>1. n - 1 \in Nat /\ n = (n - 1) + 1 /\ ~(n <= n - 1)
        BY <1>5, <2>2
      <4> QED
        BY <4>1
    <3>2. PICK c \in Nat : c = Pow2[j] /\ Pow2[n] = 2 * c
      BY <3>1, PowersNat, PowersStep
    <3>3. ~(top <= s * c)
      BY <1>2, <1>4, <3>1, <3>2
    <3>4. s * (2 * c) = 2 * (s * c) /\ s * c \in Int
      BY SMT
    <3> QED
      BY <3>2, <3>3, <3>4
  <2> QED
    BY <2>1, <2>2
<1>7. n \in 0 .. SigBits /\ Fits(n)
  BY <1>1, <1>2, <1>5, <1>6
<1>8. Up(s) = CHOOSE m \in 0 .. SigBits : Fits(m)
  BY Zenon DEF Up
<1> HIDE DEF Fits
<1>9. Up(s) \in 0 .. SigBits /\ Fits(Up(s))
  BY <1>7, <1>8
<1> QED
  BY <1>9 DEF Fits

\* and the zeros of the divisor go.
LEMMA DownIs ==
  ASSUME NEW s \in Nat, s >= 1, s < 2 * Hidden
  PROVE  \E t \in Nat : /\ Down(s) \in 0 .. F
                        /\ t = s \div Pow2[Down(s)] /\ t >= 1 /\ s = t * Pow2[Down(s)]
<1> DEFINE Fits(n) == s % Pow2[n] = 0 /\ (s \div Pow2[n]) % 2 = 1
           T == {t \in Nat : \E n \in Nat : s = t * Pow2[n]}
<1>1. s \in T
  <2>1. PICK z \in Nat : z = 0 /\ Pow2[z] = 1
    BY PowersBase
  <2>2. s = s * Pow2[z]
    BY <2>1
  <2> QED
    BY <2>2
<1>2. PICK t \in T : \A k \in T : t <= k
  <2>1. T \in SUBSET Nat /\ T # {}
    BY <1>1
  <2> HIDE DEF T
  <2> QED
    BY <2>1, Least
<1>3. PICK n \in Nat, p \in Nat : p = Pow2[n] /\ p >= 1 /\ s = t * p /\ t \in Nat
  <2>1. PICK n \in Nat : s = t * Pow2[n] /\ t \in Nat
    BY <1>2
  <2> QED
    BY <2>1, PowersNat
<1>4. t >= 1
  <2>1. t = 0 => t * p = 0
    BY SMT
  <2> QED
    BY <1>3, <2>1
<1>5. t % 2 = 1
  <2> SUFFICES ASSUME t % 2 # 1 PROVE FALSE
    OBVIOUS
  <2>1. PICK h \in Nat : t = 2 * h /\ h < t
    BY <1>3, <1>4, SMT
  <2>2. (2 * h) * p = h * (2 * p)
    BY SMT
  <2>3. n + 1 \in Nat /\ s = h * Pow2[n + 1]
    <3>1. Pow2[n + 1] = 2 * p
      BY <1>3, PowersStep
    <3> QED
      BY <1>3, <2>1, <2>2, <3>1
  <2>4. h \in T
    BY <2>3
  <2> QED
    BY <1>2, <1>3, <2>1, <2>4
<1>6. n <= F
  <2> SUFFICES ASSUME F + 1 <= n PROVE FALSE
    BY FpuAssumption
  <2>1. F \in Nat /\ F + 1 \in Nat
    BY FpuAssumption
  <2>2. Pow2[F + 1] = 2 * Hidden /\ Pow2[F + 1] <= p
    BY <1>3, <2>1, PowersStep, PowersGrow DEF Hidden
  <2>3. t * p >= p
    BY <1>3, <1>4, SMT
  <2> QED
    BY <1>3, <2>2, <2>3, Widths
<1>7. s % p = 0 /\ s \div p = t
  <2>1. PICK z \in 0 .. p - 1 : z = 0
    BY <1>3
  <2>2. p > 0 /\ p \in Int /\ t \in Int /\ s \in Int
    BY <1>3
  <2>3. s = p * t + z
    <3>1. t * p = p * t
      BY <2>2, TimesInt
    <3> QED
      BY <1>3, <2>1, <2>2, <3>1
  <2> QED
    BY <2>1, <2>2, <2>3, DivModIs
<1>8. n \in 0 .. F /\ Fits(n)
  BY <1>3, <1>5, <1>6, <1>7, FpuAssumption
<1>9. Down(s) = CHOOSE m \in 0 .. F : Fits(m)
  BY Zenon DEF Down
<1> HIDE DEF Fits
<1>10. PICK m \in 0 .. F : m = Down(s) /\ Fits(m)
  BY <1>8, <1>9
<1>11. PICK c \in Nat : c = Pow2[m] /\ c >= 1 /\ c \in Int /\ c > 0
  <2>1. m \in Nat
    BY FpuAssumption
  <2> QED
    BY <2>1, PowersNat
<1>12. PICK d \in Int : d = s \div c /\ s = c * d /\ d % 2 = 1
  <2>1. s \in Int
    OBVIOUS
  <2>2. s \div c \in Int /\ s = c * (s \div c) + (s % c)
    BY <1>11, <2>1, DivModOf
  <2>3. s % c = 0 /\ (s \div c) % 2 = 1
    BY <1>10, <1>11 DEF Fits
  <2>4. PICK d \in Int, y \in Int : d = s \div c /\ y = c * d
    BY <2>2, TimesInt
  <2> QED
    BY <2>2, <2>3, <2>4
<1>13. d >= 1
  <2>1. d <= 0 => c * d <= 0
    BY <1>11, SMT
  <2> QED
    BY <1>12, <2>1
<1>14. c * d = d * c
  BY TimesInt
<1>15. d \in Nat /\ d >= 1 /\ d % 2 = 1
  BY <1>12, <1>13
<1>16. d = s \div Pow2[m] /\ s = d * Pow2[m]
  BY <1>11, <1>12, <1>14, Zenon
<1> QED
  BY <1>10, <1>15, <1>16, Zenon

\* The quotient of integers compares as the fraction does, but where a remainder is cut.
LEMMA QuotientStands ==
  ASSUME NEW n \in Nat, NEW t \in Nat, t >= 1
  PROVE  /\ n \div t \in Nat /\ n < (n \div t + 1) * t
         /\ Stands("cut", 2, n \div t, n, t)
<1>1. PICK q \in Int, r \in 0 .. t - 1 : q = n \div t /\ n = t * q + r
  <2>1. t \in Int /\ t > 0 /\ n \in Int
    OBVIOUS
  <2>2. n \div t \in Int /\ n % t \in 0 .. t - 1 /\ n = t * (n \div t) + (n % t)
    BY <2>1, DivModOf
  <2> QED
    BY <2>2
<1>2. PICK y \in Int : y = q * t /\ y = t * q
  BY TimesInt
<1>3. (q + 1) * t = y + t
  <2>1. (q + 1) * t = q * t + t
    BY SMT
  <2> QED
    BY <1>2, <2>1
<1>4. q >= 0
  <2>1. q <= -1 => q * t <= -t
    BY SMT
  <2> QED
    BY <1>1, <1>2, <2>1
<1>5. y <= n /\ n < y + t
  BY <1>1, <1>2
<1>6. ASSUME NEW u \in Int
      PROVE  (q < u <=> n < u * t) /\ (q > u => n > u * t)
  <2>1. PICK z \in Int : z = u * t
    BY TimesInt
  <2>2. q + 1 <= u <=> (q + 1) * t <= u * t
    <3>1. t \in Int /\ t > 0 /\ q + 1 \in Int
      OBVIOUS
    <3> QED
      BY <3>1, TimesLess
  <2>3. u <= q <=> u * t <= q * t
    <3>1. t \in Int /\ t > 0
      OBVIOUS
    <3> QED
      BY <3>1, TimesLess
  <2>4. u < q <=> u * t < q * t
    <3>1. t \in Int /\ t > 0
      OBVIOUS
    <3> QED
      BY <3>1, TimesLess
  <2>5. q + 1 <= u \/ u <= q
    OBVIOUS
  <2> QED
    BY <1>2, <1>3, <1>5, <2>1, <2>2, <2>3, <2>4, <2>5
<1>7. Stands("cut", 2, q, n, t)
  BY <1>6 DEF Stands
<1> QED
  BY <1>1, <1>3, <1>4, <1>5, <1>7

\* What a division hands to internal_normalize: the dividend at the top of its word
\* divided by the divisor without its zeros.
QuotientExp(a, b) == RealExp(a) - RealExp(b) + Bias - ((Up(Sig(a)) + Down(Sig(b))) - F - 3)
QuotientSig(a, b) == (Sig(a) * Pow2[Up(Sig(a))]) \div (Sig(b) \div Pow2[Down(Sig(b))])

\* The exponent of a quotient, its terms collected.
LEMMA ExponentSums ==
  ASSUME NEW i \in Nat, NEW j \in Nat, NEW m \in Nat, NEW u \in Nat, NEW v \in Nat, NEW f \in Nat
  PROVE  /\ (i + 1) - (j + 1) + m - ((u + v) - f - 3) = i - j + m - u - v + f + 3
         /\ i - j + m - u - v + f + 3 \in Int
OBVIOUS

\* The quotient is cut but long enough: what normalization makes of it is the nearest
\* number, or the one below.
LEMMA QuotientIsRight ==
  ASSUME NEW sg, NEW a \in Pattern, NEW b \in Pattern, Finite(a), Finite(b), a.mag # 0, b.mag # 0
  PROVE  /\ QuotientExp(a, b) \in Int /\ QuotientSig(a, b) \in Nat
         /\ Result("cut", sg, Mag(a.mag) * Unit, Mag(b.mag),
                   internal_normalize(sg, QuotientExp(a, b), QuotientSig(a, b)))
<1>1. PICK sa \in Nat, i \in Nat, p \in Nat :
           /\ sa = Sig(a) /\ sa >= 1 /\ sa < 2 * Hidden
           /\ RealExp(a) = i + 1 /\ i < MaxExp - 1
           /\ p = Pow2[i] /\ Mag(a.mag) = sa * p
  BY OperandParts
<1>2. PICK sb \in Nat, j \in Nat, q \in Nat :
           /\ sb = Sig(b) /\ sb >= 1 /\ sb < 2 * Hidden
           /\ RealExp(b) = j + 1 /\ j < MaxExp - 1
           /\ q = Pow2[j] /\ q >= 1 /\ Mag(b.mag) = sb * q
  BY OperandParts
<1>3. PICK k \in Nat, un \in Nat : k = Bias + F - 1 /\ un = Unit /\ un = Pow2[k]
  BY UnitIs
<1>4. PICK H \in Nat, X \in Nat, S \in Nat, f \in Nat :
        H = Hidden /\ H >= 16 /\ X = MaxExp /\ S = SigBits /\ f = F /\ S > 2 * f + 5
  BY Widths, FpuAssumption
<1>5. PICK u \in Nat, w \in Nat, n \in Nat : u = Up(sa) /\ u <= S /\ w = Pow2[u] /\ n = sa * w /\ Pow2[S - 1] <= n
  <2>1. Up(sa) \in 0 .. S /\ Pow2[S - 1] <= sa * Pow2[Up(sa)]
    BY <1>1, <1>4, UpIs
  <2>2. PICK u \in Nat : u = Up(sa) /\ u <= S
    BY <2>1
  <2>3. PICK w \in Nat : w = Pow2[u]
    BY PowersNat
  <2> QED
    BY <2>1, <2>2, <2>3, TimesNat
<1>6. PICK v \in Nat, c \in Nat, t \in Nat : v = Down(sb) /\ v <= f /\ c = Pow2[v] /\ c >= 1 /\ t = sb \div c /\ t >= 1 /\ sb = t * c
  <2>1. PICK t \in Nat : /\ Down(sb) \in 0 .. F
                         /\ t = sb \div Pow2[Down(sb)] /\ t >= 1 /\ sb = t * Pow2[Down(sb)]
    BY <1>2, DownIs
  <2>2. PICK v \in Nat : v = Down(sb) /\ v <= f
    BY <1>4, <2>1
  <2>3. PICK c \in Nat : c = Pow2[v] /\ c >= 1
    BY PowersNat, Zenon
  <2>4. t = sb \div c /\ sb = t * c
    BY <2>1, <2>2, <2>3, Zenon
  <2> QED
    BY <2>1, <2>2, <2>3, <2>4, Zenon
<1>7. PICK exp \in Int, B \in Nat, x \in Nat, W \in Nat :
        /\ exp = QuotientExp(a, b) /\ x = exp + B
        /\ (v + j) + x = W /\ ((k + i) + (B + 1)) + 3 = W + u
  <2>1. PICK m \in Nat : m = Bias
    BY Widths
  <2>2. PICK exp \in Int : exp = QuotientExp(a, b) /\ exp = i - j + m - u - v + f + 3
    <3>1. RealExp(a) = i + 1 /\ RealExp(b) = j + 1 /\ Up(Sig(a)) = u /\ Down(Sig(b)) = v
      BY <1>1, <1>2, <1>5, <1>6, Zenon
    <3>2. QuotientExp(a, b) = (i + 1) - (j + 1) + m - ((u + v) - f - 3)
      BY <1>4, <2>1, <3>1, Zenon DEF QuotientExp
    <3>3. PICK e \in Int : e = i - j + m - u - v + f + 3 /\ (i + 1) - (j + 1) + m - ((u + v) - f - 3) = e
      BY ExponentSums
    <3> QED
      BY <3>2, <3>3, Zenon
  <2>3. PICK B \in Nat : B = X + S + f
    OBVIOUS
  <2>4. exp + B \in Nat /\ (v + j) + (exp + B) \in Nat
    <3>1. j < X /\ u <= S /\ v <= f
      <4>1. j < X - 1
        BY <1>2, <1>4, Zenon
      <4>2. u <= S /\ v <= f
        BY <1>5, <1>6, Zenon
      <4> QED
        BY <4>1, <4>2
    <3>2. PICK y \in Nat : y = exp + B
      <4>1. exp + B >= 0
        BY <2>2, <2>3, <3>1
      <4> QED
        BY <4>1
    <3> QED
      BY <3>2
  <2>5. ((k + i) + (B + 1)) + 3 = ((v + j) + (exp + B)) + u
    BY <1>3, <1>4, <2>1, <2>2, <2>3
  <2> QED
    BY <2>2, <2>4, <2>5
<1>8. PICK sig \in Nat : sig = QuotientSig(a, b) /\ sig = n \div t /\ n < (sig + 1) * t /\ Stands("cut", 2, sig, n, t)
  <2>1. QuotientSig(a, b) = n \div t
    BY <1>1, <1>2, <1>5, <1>6 DEF QuotientSig
  <2>2. n \div t \in Nat /\ n < (n \div t + 1) * t /\ Stands("cut", 2, n \div t, n, t)
    BY <1>6, QuotientStands
  <2> QED
    BY <2>1, <2>2
<1>9. PICK num \in Nat, den \in Nat, z \in Nat, y \in Nat, pw \in Nat :
        /\ num = (sa * p) * un /\ den = sb * q /\ den >= 1 /\ z = Pow2[B + 1] /\ y = Pow2[x] /\ pw = Pow2[W] /\ pw >= 1
  <2>1. sa * p \in Nat
    BY TimesNat
  <2>2. (sa * p) * un \in Nat
    BY <2>1, TimesNat
  <2>3. sb * q \in Nat /\ sb * q >= 1
    BY <1>2, TimesNat
  <2>4. B + 1 \in Nat
    OBVIOUS
  <2> QED
    BY <2>2, <2>3, <2>4, PowersNat
<1>10. (8 * num) * z = n * pw
  <2>1. pw * w = ((un * p) * z) * 8
    <3>1. Pow2[W + u] = pw * w
      BY <1>5, <1>9, PowersPlus
    <3>2. PICK e \in Nat : e = k + i /\ Pow2[e] = un * p
      <4>1. Pow2[k + i] = Pow2[k] * Pow2[i]
        BY PowersPlus
      <4> QED
        BY <1>1, <1>3, <4>1
    <3>3. PICK d \in Nat : d = B + 1
      OBVIOUS
    <3>4. PICK g \in Nat : g = e + d /\ Pow2[g] = (un * p) * z
      <4>1. Pow2[e + d] = Pow2[e] * Pow2[d]
        BY PowersPlus
      <4> QED
        BY <1>9, <3>2, <3>3, <4>1
    <3>5. PICK h \in Nat : h = 3 /\ Pow2[h] = 8
      BY SmallPowers
    <3>6. Pow2[g + h] = Pow2[g] * Pow2[h]
      BY PowersPlus
    <3>7. W + u = g + h
      BY <1>7, <3>2, <3>3, <3>4, <3>5
    <3> QED
      BY <3>1, <3>4, <3>5, <3>6, <3>7
  <2>2. (8 * ((sa * p) * un)) * z = sa * (((un * p) * z) * 8)
    BY SMT
  <2>3. (sa * w) * pw = sa * (pw * w)
    BY SMT
  <2> QED
    BY <1>5, <1>9, <2>1, <2>2, <2>3
<1>11. den * y = t * pw
  <2>1. pw = (c * q) * y
    <3>1. PICK e \in Nat : e = v + j /\ Pow2[e] = c * q
      <4>1. Pow2[v + j] = Pow2[v] * Pow2[j]
        BY PowersPlus, Zenon
      <4>2. Pow2[v + j] = c * q
        BY <1>2, <1>6, <4>1, Zenon
      <4>3. v + j \in Nat
        OBVIOUS
      <4> QED
        BY <4>2, <4>3, Zenon
    <3>2. Pow2[e + x] = Pow2[e] * Pow2[x]
      BY PowersPlus, Zenon
    <3>3. e + x = W
      BY <1>7, <3>1, Zenon
    <3> QED
      BY <1>9, <3>1, <3>2, <3>3, Zenon
  <2>2. ((t * c) * q) * y = t * ((c * q) * y)
    BY SMT
  <2> QED
    BY <1>6, <1>9, <2>1, <2>2
<1>12. Stands("cut", 2, sig, (8 * num) * Pow2[B + 1], den * Pow2[x])
  <2>1. pw \in Int /\ pw > 0 /\ sig \in Int /\ n \in Int /\ t \in Int
    BY <1>9
  <2>2. Stands("cut", 2, sig, n * pw, t * pw)
    BY <1>8, <2>1, StandsTimes
  <2> QED
    BY <1>9, <1>10, <1>11, <2>2
<1>13. sig >= 16 * H
  <2> SUFFICES ASSUME sig + 1 <= 16 * H PROVE FALSE
    BY <1>8
  <2>1. t <= 2 * H
    <3>1. c >= 1
      BY <1>6
    <3>2. t * c >= t
      BY <3>1, SMT
    <3>3. sb = t * c
      BY <1>6, Zenon
    <3>4. sb <= 2 * H
      BY <1>2, <1>4
    <3>5. t * c \in Nat
      BY TimesNat
    <3> QED
      BY <3>2, <3>3, <3>4, <3>5
  <2>2. (sig + 1) * t <= (16 * H) * (2 * H)
    <3>1. (sig + 1) * t <= (16 * H) * t
      BY SMT
    <3>2. (16 * H) * t <= (16 * H) * (2 * H)
      BY <2>1, SMT
    <3>3. (sig + 1) * t \in Int /\ (16 * H) * t \in Int /\ (16 * H) * (2 * H) \in Int
      BY SMT
    <3> QED
      BY <3>1, <3>2, <3>3
  <2>3. (16 * H) * (2 * H) <= Pow2[S - 1]
    <3>1. PICK g \in Nat, h \in Nat : g = f + 5 /\ h = f + g /\ S - 1 \in Nat /\ h <= S - 1
      BY <1>4
    <3>2. PICK o \in Nat : o = 5 /\ Pow2[o] = 32
      <4>1. Pow2[4 + 1] = 2 * Pow2[4]
        BY PowersStep
      <4> QED
        BY <4>1, SmallPowers
    <3>3. Pow2[f] = H
      BY <1>4 DEF Hidden
    <3>4. Pow2[g] = H * 32
      <4>1. Pow2[f + o] = Pow2[f] * Pow2[o]
        BY PowersPlus
      <4> QED
        BY <3>1, <3>2, <3>3, <4>1
    <3>5. Pow2[h] = H * (H * 32)
      <4>1. Pow2[f + g] = Pow2[f] * Pow2[g]
        BY PowersPlus
      <4> QED
        BY <3>1, <3>3, <3>4, <4>1
    <3>6. Pow2[h] <= Pow2[S - 1]
      BY <3>1, PowersGrow
    <3>7. H * (H * 32) = (16 * H) * (2 * H)
      BY SMT
    <3> QED
      BY <3>5, <3>6, <3>7
  <2>4. PICK l \in Int, m \in Int, r \in Nat : l = (sig + 1) * t /\ m = (16 * H) * (2 * H) /\ r = Pow2[S - 1]
    <3>1. S - 1 \in Nat /\ sig + 1 \in Int /\ 16 * H \in Int /\ 2 * H \in Int
      BY <1>4
    <3>2. (sig + 1) * t \in Int /\ (16 * H) * (2 * H) \in Int
      BY <3>1, TimesInt
    <3> QED
      BY <3>1, <3>2, PowersNat
  <2> QED
    BY <1>5, <1>8, <2>2, <2>3, <2>4
<1>14. One(sig) \in Nat /\ One(sig) > 1
  BY <1>4, <1>13, OneIs
<1>15. Result("cut", sg, num, den, internal_normalize(sg, exp, sig))
  <2>1. ~(exp = 0 /\ One(sig) <= 1) /\ ~(One(sig) = 0)
    BY <1>14
  <2>2. x = exp + B /\ den >= 1
    BY <1>7, <1>9
  <2> QED
    BY <1>12, <2>1, <2>2, NormalizeIsRight
<1> QED
  BY <1>1, <1>2, <1>3, <1>7, <1>8, <1>9, <1>15

-----------------------------------------------------------------------------
(* The operations on finite numbers.                                       *)

\* The code's tests for infinity and NaN let a finite operand through.
LEMMA FiniteIs ==
  ASSUME NEW x \in Pattern, Finite(x)
  PROVE  ~IsInf(x) /\ ~IsNan(x) /\ Exp(x) # MaxExp /\ x # PNan /\ x # NNan
<1>1. x.mag < InfMag /\ x.mag \in Nat
  BY PatternIs
<1>2. x.mag # InfMag /\ x.mag # NanMag
  BY <1>1, Widths
<1>3. PNan.mag = NanMag /\ NNan.mag = NanMag
  BY DEF PNan, NNan, P
<1> QED
  BY <1>2, <1>3 DEF IsInf, IsNan, Finite

\* The code adds in the order of the exponents.
LEMMA SumOfIs ==
  ASSUME NEW a \in Pattern, NEW b \in Pattern, Finite(a), Finite(b)
  PROVE  \E lo \in Pattern, hi \in Pattern :
           /\ (lo = a /\ hi = b) \/ (lo = b /\ hi = a)
           /\ Exp(lo) <= Exp(hi)
           /\ SumOf(a, b) = internal_normalize(Negative(SumSig(lo, hi)), Exp(hi), Magnitude(SumSig(lo, hi)))
<1>1. Exp(a) \in Nat /\ Exp(b) \in Nat
  BY OperandIs
<1>2. CASE Exp(a) > Exp(b)
  <2>1. SumOf(a, b) = internal_normalize(Negative(SumSig(b, a)), Exp(a), Magnitude(SumSig(b, a)))
    BY <1>2, Zenon DEF SumOf, SumSig, Negative, Magnitude, Flip
  <2>2. Exp(b) <= Exp(a)
    BY <1>1, <1>2
  <2> QED
    BY <2>1, <2>2
<1>3. CASE ~(Exp(a) > Exp(b))
  <2>1. SumOf(a, b) = internal_normalize(Negative(SumSig(a, b)), Exp(b), Magnitude(SumSig(a, b)))
    BY <1>3, Zenon DEF SumOf, SumSig, Negative, Magnitude, Flip
  <2>2. Exp(a) <= Exp(b)
    BY <1>1, <1>3
  <2> QED
    BY <2>1, <2>2
<1> QED
  BY <1>2, <1>3

\* A sum is a pattern.
LEMMA SumOfPattern ==
  ASSUME NEW a \in Pattern, NEW b \in Pattern, Finite(a), Finite(b)
  PROVE  SumOf(a, b) \in Pattern
<1>1. PICK lo \in Pattern, hi \in Pattern :
           /\ (lo = a /\ hi = b) \/ (lo = b /\ hi = a)
           /\ Exp(lo) <= Exp(hi)
           /\ SumOf(a, b) = internal_normalize(Negative(SumSig(lo, hi)), Exp(hi), Magnitude(SumSig(lo, hi)))
  BY SumOfIs
<1>2. Finite(lo) /\ Finite(hi)
  BY <1>1
<1>3. SumSig(lo, hi) \in Int
  BY <1>1, <1>2, SumStands
<1>4. PICK sg \in {0, 1}, e \in Int, m \in Nat :
        sg = Negative(SumSig(lo, hi)) /\ e = Exp(hi) /\ m = Magnitude(SumSig(lo, hi))
  <2>1. Exp(hi) \in Int
    BY <1>2, OperandIs
  <2>2. Negative(SumSig(lo, hi)) \in {0, 1}
    BY DEF Negative
  <2>3. Magnitude(SumSig(lo, hi)) \in Nat
    BY <1>3 DEF Magnitude
  <2> QED
    BY <2>1, <2>2, <2>3
<1>5. internal_normalize(sg, e, m) \in Pattern
  BY NormalizePattern
<1> QED
  BY <1>1, <1>4, <1>5

\* The sign of a sum, also when it is zero.
SumSign(n, sa, sb) == IF n # 0 THEN Negative(n) ELSE IF sa = 1 /\ sb = 1 THEN 1 ELSE 0

\* internal_float_add on finite operands, zeros included, returns the nearest number.
LEMMA AddIsRight ==
  ASSUME NEW a \in Pattern, NEW b \in Pattern, Finite(a), Finite(b), NEW n \in Int, n = Number(a) + Number(b)
  PROVE  internal_float_add(b, a) = P(SumSign(n, a.sign, b.sign), Nearest(Magnitude(n), 1))
<1>1. /\ ~IsInf(a) /\ ~IsNan(a) /\ Exp(a) # MaxExp /\ a # PNan /\ a # NNan
      /\ ~IsInf(b) /\ ~IsNan(b) /\ Exp(b) # MaxExp /\ b # PNan /\ b # NNan
  BY FiniteIs
<1>2. /\ Number(a) \in Int /\ Nearest(Magnitude(Number(a)), 1) = a.mag
      /\ a.mag = 0 => Number(a) = 0
      /\ a.mag # 0 => Number(a) # 0 /\ (Number(a) < 0 <=> a.sign = 1)
  BY NumberIs
<1>3. /\ Number(b) \in Int /\ Nearest(Magnitude(Number(b)), 1) = b.mag
      /\ b.mag = 0 => Number(b) = 0
      /\ b.mag # 0 => Number(b) # 0 /\ (Number(b) < 0 <=> b.sign = 1)
  BY NumberIs
<1>4. a.sign \in {0, 1} /\ b.sign \in {0, 1} /\ a = P(a.sign, a.mag) /\ b = P(b.sign, b.mag)
  BY PatternIs
<1>5. CASE a.mag = 0 /\ b.mag = 0
  <2>1. internal_float_add(b, a) = P(IF a.sign = 1 /\ b.sign = 1 THEN 1 ELSE 0, 0)
    BY <1>5, Zenon DEF internal_float_add, IsZero
  <2>2. n = 0 /\ n = Number(a)
    BY <1>2, <1>3, <1>5
  <2>3. Nearest(Magnitude(n), 1) = 0
    BY <1>2, <1>5, <2>2
  <2>4. SumSign(n, a.sign, b.sign) = IF a.sign = 1 /\ b.sign = 1 THEN 1 ELSE 0
    BY <2>2 DEF SumSign
  <2> QED
    BY <2>1, <2>3, <2>4
<1>6. CASE a.mag = 0 /\ b.mag # 0
  <2>1. internal_float_add(b, a) = b
    BY <1>1, <1>6, Zenon DEF internal_float_add, IsZero
  <2>2. n = Number(b) /\ n # 0
    BY <1>2, <1>3, <1>6
  <2>3. SumSign(n, a.sign, b.sign) = b.sign
    BY <1>3, <1>4, <1>6, <2>2 DEF SumSign, Negative
  <2> QED
    BY <1>3, <1>4, <2>1, <2>2, <2>3
<1>7. CASE a.mag # 0 /\ b.mag = 0
  <2>1. internal_float_add(b, a) = a
    BY <1>1, <1>7, Zenon DEF internal_float_add, IsZero
  <2>2. n = Number(a) /\ n # 0
    BY <1>2, <1>3, <1>7
  <2>3. SumSign(n, a.sign, b.sign) = a.sign
    BY <1>2, <1>4, <1>7, <2>2 DEF SumSign, Negative
  <2> QED
    BY <1>2, <1>4, <2>1, <2>2, <2>3
<1>8. CASE a.mag # 0 /\ b.mag # 0
  <2>1. internal_float_add(b, a) = SumOf(a, b)
    BY <1>1, <1>8, Zenon DEF internal_float_add, IsZero
  <2>2. PICK lo \in Pattern, hi \in Pattern :
           /\ (lo = a /\ hi = b) \/ (lo = b /\ hi = a)
           /\ Exp(lo) <= Exp(hi)
           /\ SumOf(a, b) = internal_normalize(Negative(SumSig(lo, hi)), Exp(hi), Magnitude(SumSig(lo, hi)))
    BY SumOfIs
  <2>3. Finite(lo) /\ Finite(hi) /\ hi.mag # 0 /\ n = Number(lo) + Number(hi)
    BY <1>2, <1>3, <1>8, <2>2
  <2>4. internal_normalize(Negative(SumSig(lo, hi)), Exp(hi), Magnitude(SumSig(lo, hi)))
        = P(Negative(n), Nearest(Magnitude(n), 1))
    BY <2>2, <2>3, SumIsRight
  <2>5. SumSign(n, a.sign, b.sign) = Negative(n)
    BY <1>2, <1>3, <1>8 DEF SumSign, Negative
  <2> QED
    BY <2>1, <2>2, <2>4, <2>5
<1> QED
  BY <1>5, <1>6, <1>7, <1>8

\* The flipped sign bit is the negated number.
LEMMA NegateIs ==
  ASSUME NEW b \in Pattern
  PROVE  /\ Negate(b) \in Pattern /\ Negate(b).sign = 1 - b.sign /\ Negate(b).mag = b.mag
         /\ Finite(b) => Finite(Negate(b)) /\ Number(Negate(b)) = -Number(b)
<1>1. b.sign \in {0, 1}
  BY PatternIs
<1>2. Negate(b) \in Pattern /\ Negate(b).sign = 1 - b.sign /\ Negate(b).mag = b.mag
  BY DEF Pattern, Negate
<1>3. Finite(b) => Finite(Negate(b))
  BY <1>2 DEF Finite, Exp
<1>4. Finite(b) => Number(Negate(b)) = -Number(b)
  <2> SUFFICES ASSUME Finite(b) PROVE Number(Negate(b)) = -Number(b)
    OBVIOUS
  <2>1. PICK m \in Nat : m = Mag(b.mag)
    BY NumberIs
  <2> QED
    BY <1>1, <1>2, <2>1 DEF Number
<1> QED
  BY <1>2, <1>3, <1>4

\* internal_float_sub on finite operands returns the number nearest to the difference.
LEMMA SubIsRight ==
  ASSUME NEW a \in Pattern, NEW b \in Pattern, Finite(a), Finite(b), NEW n \in Int, n = Number(a) - Number(b)
  PROVE  internal_float_sub(b, a) = P(SumSign(n, a.sign, 1 - b.sign), Nearest(Magnitude(n), 1))
<1>1. ~IsNan(a) /\ ~IsNan(b)
  BY FiniteIs
<1>2. PICK c \in Pattern : c = Negate(b) /\ c.sign = 1 - b.sign /\ c.mag = b.mag /\ Finite(c) /\ Number(c) = -Number(b)
  BY NegateIs
<1>3. n = Number(a) + Number(c)
  <2>1. Number(a) \in Int /\ Number(b) \in Int
    BY NumberIs
  <2> QED
    BY <1>2, <2>1
<1>4. internal_float_add(c, a) = P(SumSign(n, a.sign, 1 - b.sign), Nearest(Magnitude(n), 1))
  BY <1>2, <1>3, AddIsRight
<1>5. CASE a.mag = 0 /\ b.mag = 0
  <2>1. internal_float_sub(b, a) = P(IF a.sign = 1 /\ b.sign = 0 THEN 1 ELSE 0, 0)
    BY <1>5, Zenon DEF internal_float_sub, IsZero
  <2>2. internal_float_add(c, a) = P(IF a.sign = 1 /\ c.sign = 1 THEN 1 ELSE 0, 0)
    BY <1>2, <1>5, Zenon DEF internal_float_add, IsZero
  <2>3. c.sign = 1 <=> b.sign = 0
    BY <1>2, PatternIs
  <2> QED
    BY <1>4, <2>1, <2>2, <2>3
<1>6. CASE ~(a.mag = 0 /\ b.mag = 0)
  <2>1. internal_float_sub(b, a) = internal_float_add(c, a)
    BY <1>1, <1>2, <1>6, Zenon DEF internal_float_sub, IsZero
  <2> QED
    BY <1>4, <2>1
<1> QED
  BY <1>5, <1>6

\* The magnitude nearest to 0 is 0.
LEMMA NearestZero ==
  ASSUME NEW den \in Nat, den >= 1
  PROVE  Nearest(0, den) = 0
<1>1. PICK z \in Nat, o \in Nat : z = 0 /\ o = 1 /\ z < InfMag /\ o = z + 1 /\ z % 2 = 0 /\ z \in 0 .. 2 * Hidden /\ o \in 0 .. 2 * Hidden
  BY Widths
<1>2. Mag(z) = z /\ Mag(o) = o
  BY <1>1, MagSmall
<1>3. z * den = z /\ o * den = den /\ (z + o) * den = den
  BY <1>1, SMT
<1>4. Nearest(z, den) = IF \/ 2 * z > (Mag(z) + Mag(z + 1)) * den
                           \/ 2 * z = (Mag(z) + Mag(z + 1)) * den /\ z % 2 = 1
                        THEN z + 1 ELSE z
  <2>1. Mag(z) * den <= z /\ z < Mag(z + 1) * den
    BY <1>1, <1>2, <1>3
  <2> QED
    BY <1>1, <2>1, NearestIs
<1> QED
  BY <1>1, <1>2, <1>3, <1>4

\* internal_float_mul on finite operands returns the number nearest to the product.
LEMMA MulIsRight ==
  ASSUME NEW a \in Pattern, NEW b \in Pattern, Finite(a), Finite(b),
         ~(ProductExp(a, b) = 0 /\ One(Sig(a) * Sig(b)) <= 1)
  PROVE  Result("exact", Signs(a, b), Mag(a.mag) * Mag(b.mag), Unit, internal_float_mul(b, a))
<1>1. ~IsInf(a) /\ ~IsNan(a) /\ ~IsInf(b) /\ ~IsNan(b)
  BY FiniteIs
<1>2. CASE a.mag = 0 \/ b.mag = 0
  <2>1. internal_float_mul(b, a) = P(Signs(a, b), 0)
    BY <1>1, <1>2, Zenon DEF internal_float_mul, IsZero
  <2>2. Mag(a.mag) * Mag(b.mag) = 0
    <3>1. PICK x \in Nat, y \in Nat : x = Mag(a.mag) /\ y = Mag(b.mag)
      BY NumberIs
    <3>2. x = 0 \/ y = 0
      <4>1. Magnitude(Number(a)) = x /\ Magnitude(Number(b)) = y
        BY <3>1, NumberIs
      <4>2. Number(a) = 0 \/ Number(b) = 0
        BY <1>2, NumberIs
      <4> QED
        BY <4>1, <4>2 DEF Magnitude
    <3>3. x * y = 0
      BY <3>2, SMT
    <3> QED
      BY <3>1, <3>3
  <2>3. Nearest(0, Unit) = 0
    BY UnitIs, NearestZero
  <2> QED
    BY <2>1, <2>2, <2>3 DEF Result
<1>3. CASE a.mag # 0 /\ b.mag # 0
  <2>1. internal_float_mul(b, a) = internal_normalize(Signs(a, b), ProductExp(a, b), Sig(a) * Sig(b))
    BY <1>1, <1>3, Zenon DEF internal_float_mul, IsZero, ProductExp
  <2>2. Result("exact", Signs(a, b), Mag(a.mag) * Mag(b.mag), Unit,
               internal_normalize(Signs(a, b), ProductExp(a, b), Sig(a) * Sig(b)))
    BY <1>3, ProductIsRight
  <2> QED
    BY <2>1, <2>2
<1> QED
  BY <1>2, <1>3

\* internal_float_div by a finite number other than 0 returns the nearest number, or the
\* one below.
LEMMA DivIsRight ==
  ASSUME NEW a \in Pattern, NEW b \in Pattern, Finite(a), Finite(b), b.mag # 0
  PROVE  Result("cut", Signs(a, b), Mag(a.mag) * Unit, Mag(b.mag), internal_float_div(b, a))
<1>1. ~IsInf(a) /\ ~IsNan(a) /\ ~IsInf(b) /\ ~IsNan(b)
  BY FiniteIs
<1>2. CASE a.mag = 0
  <2>1. internal_float_div(b, a) = P(Signs(a, b), 0)
    BY <1>1, <1>2, Zenon DEF internal_float_div, IsZero
  <2>2. Mag(a.mag) * Unit = 0
    <3>1. PICK x \in Nat, y \in Nat : x = Mag(a.mag) /\ y = Unit
      BY NumberIs, UnitIs
    <3>2. x = 0
      <4>1. Magnitude(Number(a)) = x
        BY <3>1, NumberIs
      <4>2. Number(a) = 0
        BY <1>2, NumberIs
      <4> QED
        BY <4>1, <4>2 DEF Magnitude
    <3>3. x * y = 0
      BY <3>2, SMT
    <3> QED
      BY <3>1, <3>3
  <2>3. Mag(b.mag) \in Nat /\ Mag(b.mag) >= 1
    BY NumberIs
  <2>4. Nearest(0, Mag(b.mag)) = 0
    BY <2>3, NearestZero
  <2> QED
    BY <2>1, <2>2, <2>4 DEF Result
<1>3. CASE a.mag # 0
  <2>1. internal_float_div(b, a) = QuotientOf(a, b)
    BY <1>1, <1>3, Zenon DEF internal_float_div, IsZero
  <2>2. QuotientOf(a, b) = internal_normalize(Signs(a, b), QuotientExp(a, b), QuotientSig(a, b))
    BY Zenon DEF QuotientOf, QuotientExp, QuotientSig
  <2>3. Result("cut", Signs(a, b), Mag(a.mag) * Unit, Mag(b.mag),
               internal_normalize(Signs(a, b), QuotientExp(a, b), QuotientSig(a, b)))
    BY <1>3, QuotientIsRight
  <2> QED
    BY <2>1, <2>2, <2>3
<1> QED
  BY <1>2, <1>3

-----------------------------------------------------------------------------
(* What the operations return is a pattern.                                *)

\* Zeros, infinities and NaNs are patterns.
LEMMA SpecialPatterns ==
  /\ PNan \in Pattern /\ NNan \in Pattern
  /\ \A s \in {0, 1} : P(s, 0) \in Pattern /\ P(s, InfMag) \in Pattern
<1>1. 0 \in 0 .. InfMag /\ InfMag \in 0 .. InfMag
  BY Widths
<1>2. \A s \in {0, 1} : P(s, NanMag) \in Pattern
  BY DEF P, Pattern
<1> QED
  BY <1>1, <1>2, InPattern DEF PNan, NNan

\* An addition returns a pattern.
LEMMA AddPattern ==
  ASSUME NEW a \in Pattern, NEW b \in Pattern
  PROVE  internal_float_add(b, a) \in Pattern
<1>1. PICK z \in {0, 1} : z = IF a.sign = 1 /\ b.sign = 1 THEN 1 ELSE 0
  OBVIOUS
<1>2. P(z, 0) \in Pattern /\ PNan \in Pattern /\ NNan \in Pattern
  BY SpecialPatterns
<1>3. Exp(a) # MaxExp /\ Exp(b) # MaxExp => SumOf(a, b) \in Pattern
  BY SumOfPattern DEF Finite
<1> QED
  BY <1>1, <1>2, <1>3 DEF internal_float_add

\* A subtraction returns a pattern.
LEMMA SubPattern ==
  ASSUME NEW a \in Pattern, NEW b \in Pattern
  PROVE  internal_float_sub(b, a) \in Pattern
<1>1. PICK z \in {0, 1} : z = IF a.sign = 1 /\ b.sign = 0 THEN 1 ELSE 0
  OBVIOUS
<1>2. P(z, 0) \in Pattern /\ NanOf(a, b) \in Pattern
  BY SpecialPatterns DEF NanOf
<1>3. internal_float_add(Negate(b), a) \in Pattern
  <2>1. Negate(b) \in Pattern
    BY NegateIs
  <2> QED
    BY <2>1, AddPattern
<1> QED
  BY <1>1, <1>2, <1>3 DEF internal_float_sub

\* The sign of a product or a quotient is a bit.
LEMMA SignsIs ==
  ASSUME NEW a \in Pattern, NEW b \in Pattern
  PROVE  Signs(a, b) \in {0, 1}
<1>1. PICK x \in {0, 1}, y \in {0, 1} : x = a.sign /\ y = b.sign
  BY PatternIs
<1> QED
  BY <1>1 DEF Signs

\* A multiplication returns a pattern.
LEMMA MulPattern ==
  ASSUME NEW a \in Pattern, NEW b \in Pattern
  PROVE  internal_float_mul(b, a) \in Pattern
<1>1. PICK z \in {0, 1} : z = Signs(a, b)
  BY SignsIs
<1>2. P(z, 0) \in Pattern /\ P(z, InfMag) \in Pattern /\ NNan \in Pattern /\ NanOf(a, b) \in Pattern
  BY SpecialPatterns DEF NanOf
<1>3. CASE IsInf(a) \/ IsInf(b) \/ IsNan(a) \/ IsNan(b) \/ IsZero(a) \/ IsZero(b)
  BY <1>1, <1>2, <1>3 DEF internal_float_mul
<1>4. CASE ~(IsInf(a) \/ IsInf(b) \/ IsNan(a) \/ IsNan(b) \/ IsZero(a) \/ IsZero(b))
  <2>1. internal_float_mul(b, a) = internal_normalize(Signs(a, b), ProductExp(a, b), Sig(a) * Sig(b))
    BY <1>4, Zenon DEF internal_float_mul, ProductExp
  <2>2. a.mag \in Nat /\ b.mag \in Nat
    BY PatternIs
  <2>3. ASSUME NEW x \in Pattern
        PROVE  Sig(x) \in Nat /\ RealExp(x) \in Nat
    <3>1. PICK m \in Nat : m = x.mag
      BY PatternIs
    <3>2. PICK e \in Nat, f \in 0 .. Hidden - 1 : e = m \div Hidden /\ f = m % Hidden
      BY MagParts
    <3>3. PICK H \in Nat : H = Hidden
      BY Widths
    <3> QED
      BY <3>1, <3>2, <3>3 DEF Sig, RealExp, Exp, Frac
  <2>4. Sig(a) * Sig(b) \in Nat
    BY <2>3, TimesNat
  <2>5. PICK e \in Int : e = ProductExp(a, b)
    <3>1. PICK x \in Nat, y \in Nat, n \in Nat, f \in Nat : x = RealExp(a) /\ y = RealExp(b) /\ n = Bias /\ f = F
      BY <2>3, Widths, FpuAssumption
    <3> QED
      BY <3>1 DEF ProductExp
  <2>6. internal_normalize(z, e, Sig(a) * Sig(b)) \in Pattern
    BY <2>4, NormalizePattern
  <2> QED
    BY <1>1, <2>1, <2>5, <2>6
<1> QED
  BY <1>3, <1>4

\* A division returns a pattern.
LEMMA DivPattern ==
  ASSUME NEW a \in Pattern, NEW b \in Pattern
  PROVE  internal_float_div(b, a) \in Pattern
<1>1. PICK z \in {0, 1} : z = Signs(a, b)
  BY SignsIs
<1>2. P(z, 0) \in Pattern /\ P(z, InfMag) \in Pattern /\ NNan \in Pattern /\ NanOf(a, b) \in Pattern
  BY SpecialPatterns DEF NanOf
<1>3. CASE IsInf(a) \/ IsInf(b) \/ IsNan(a) \/ IsNan(b) \/ IsZero(a) \/ IsZero(b)
  BY <1>1, <1>2, <1>3 DEF internal_float_div
<1>4. CASE ~(IsInf(a) \/ IsInf(b) \/ IsNan(a) \/ IsNan(b) \/ IsZero(a) \/ IsZero(b))
  <2>1. internal_float_div(b, a) = QuotientOf(a, b)
    BY <1>4, Zenon DEF internal_float_div
  <2>2. QuotientOf(a, b) = internal_normalize(Signs(a, b), QuotientExp(a, b), QuotientSig(a, b))
    BY Zenon DEF QuotientOf, QuotientExp, QuotientSig
  <2>3. a.mag # 0 /\ b.mag # 0 /\ Finite(a) /\ Finite(b)
    <3>1. ASSUME NEW x \in Pattern, ~IsInf(x), ~IsNan(x)
          PROVE  Finite(x)
      <4>1. PICK m \in Nat : m = x.mag /\ m < InfMag
        BY <3>1, PatternIs, Widths DEF IsInf, IsNan
      <4>2. PICK H \in Nat, X \in Nat : H = Hidden /\ H >= 16 /\ X = MaxExp /\ InfMag = X * H
        BY Widths
      <4>3. PICK e \in Nat, f \in 0 .. Hidden - 1 : m = e * Hidden + f /\ e = m \div Hidden
        BY MagParts
      <4>4. e # X
        <5>1. e * H \in Int
          BY TimesInt
        <5> QED
          BY <4>1, <4>2, <4>3, <5>1
      <4> QED
        BY <4>1, <4>2, <4>3, <4>4 DEF Finite, Exp
    <3> QED
      BY <1>4, <3>1 DEF IsZero
  <2>4. PICK e \in Int, s \in Nat : e = QuotientExp(a, b) /\ s = QuotientSig(a, b)
    BY <2>3, QuotientIsRight
  <2>5. internal_normalize(z, e, s) \in Pattern
    BY NormalizePattern
  <2> QED
    BY <1>1, <2>1, <2>2, <2>4, <2>5
<1> QED
  BY <1>3, <1>4

-----------------------------------------------------------------------------
(* The four actions.                                                       *)

\* The number a magnitude up to Hidden stands for, rounded from something smaller.
LEMMA Carries ==
  ASSUME NEW x, NEW sg \in {0, 1}, x = P(sg, Hidden), NEW num \in Int, NEW den \in Nat, den >= 1,
         Magnitude(num) < Hidden * den
  PROVE  num # Number(x) * den
<1>1. PICK H \in Nat : H = Hidden /\ H >= 16
  BY Widths
<1>2. Mag(H) = H
  BY <1>1, MagSmall
<1>3. Number(x) = IF sg = 1 THEN -H ELSE H
  BY <1>1, <1>2 DEF Number, P
<1>4. PICK y \in Int : y = H * den
  BY TimesInt
<1>5. (-H) * den = -y
  BY <1>4, TimesPlus
<1> QED
  BY <1>1, <1>3, <1>4, <1>5 DEF Magnitude

\* FADD keeps the invariant.
LEMMA AddStep ==
  ASSUME st0 \in Pattern, NEW b \in Pattern, FpuAdd(b)
  PROVE  st0' \in Pattern /\ FpuRight'
<1>1. call'.op = "add" /\ call'.a = st0 /\ call'.b = b /\ st0' = internal_float_add(b, st0)
  BY DEF FpuAdd, FpuCall
<1>2. st0' \in Pattern
  BY <1>1, AddPattern
<1>3. ASSUME Rational' PROVE st0' = Best'
  <2>1. Finite(st0) /\ Finite(b)
    BY <1>1, <1>3 DEF Rational
  <2>2. PICK n \in Int : n = Number(st0) + Number(b)
    <3>1. Number(st0) \in Int /\ Number(b) \in Int
      BY <2>1, NumberIs
    <3> QED
      BY <3>1
  <2>3. Exact' = <<n, 1>>
    BY <1>1, <2>2 DEF Exact
  <2>4. SignOf' = SumSign(n, st0.sign, b.sign)
    BY <1>1, <2>3 DEF SignOf, SumSign, Negative
  <2>5. Best' = P(SumSign(n, st0.sign, b.sign), Nearest(Magnitude(n), 1))
    BY <2>3, <2>4 DEF Best, Magnitude
  <2> QED
    BY <1>1, <2>1, <2>2, <2>5, AddIsRight
<1> QED
  BY <1>2, <1>3 DEF FpuRight

\* FSUB keeps the invariant.
LEMMA SubStep ==
  ASSUME st0 \in Pattern, NEW b \in Pattern, FpuSub(b)
  PROVE  st0' \in Pattern /\ FpuRight'
<1>1. call'.op = "sub" /\ call'.a = st0 /\ call'.b = b /\ st0' = internal_float_sub(b, st0)
  BY DEF FpuSub, FpuCall
<1>2. st0' \in Pattern
  BY <1>1, SubPattern
<1>3. ASSUME Rational' PROVE st0' = Best'
  <2>1. Finite(st0) /\ Finite(b)
    BY <1>1, <1>3 DEF Rational
  <2>2. PICK n \in Int : n = Number(st0) - Number(b)
    <3>1. Number(st0) \in Int /\ Number(b) \in Int
      BY <2>1, NumberIs
    <3> QED
      BY <3>1
  <2>3. Exact' = <<n, 1>>
    BY <1>1, <2>2 DEF Exact
  <2>4. 1 - b.sign = 1 <=> b.sign = 0
    BY PatternIs
  <2>5. SignOf' = SumSign(n, st0.sign, 1 - b.sign)
    BY <1>1, <2>3, <2>4 DEF SignOf, SumSign, Negative
  <2>6. Best' = P(SumSign(n, st0.sign, 1 - b.sign), Nearest(Magnitude(n), 1))
    BY <2>3, <2>5 DEF Best, Magnitude
  <2> QED
    BY <1>1, <2>1, <2>2, <2>6, SubIsRight
<1> QED
  BY <1>2, <1>3 DEF FpuRight

\* FMUL keeps the invariant.
LEMMA MulStep ==
  ASSUME st0 \in Pattern, NEW b \in Pattern, FpuMul(b)
  PROVE  st0' \in Pattern /\ FpuRight'
<1>1. call'.op = "mul" /\ call'.a = st0 /\ call'.b = b /\ st0' = internal_float_mul(b, st0)
  BY DEF FpuMul, FpuCall
<1>2. st0' \in Pattern
  BY <1>1, MulPattern
<1>3. ASSUME Rational', ~TakenForSum'
      PROVE  st0' = Best' \/ (CarriesIntoNormal' /\ st0' = P(Best'.sign, 0))
  <2>1. Finite(st0) /\ Finite(b)
    BY <1>1, <1>3 DEF Rational
  <2>2. ~(ProductExp(st0, b) = 0 /\ One(Sig(st0) * Sig(b)) <= 1)
    BY <1>1, <1>3, Zenon DEF TakenForSum, ProductExp
  <2>3. PICK num \in Nat, n \in Int, den \in Nat, sg \in {0, 1} :
          /\ num = Mag(st0.mag) * Mag(b.mag) /\ n = Number(st0) * Number(b) /\ Magnitude(n) = num
          /\ den = Unit /\ den >= 1 /\ sg = Signs(st0, b)
    <3>1. PICK x \in Nat, y \in Nat : x = Mag(st0.mag) /\ y = Mag(b.mag)
      BY <2>1, NumberIs
    <3>2. Number(st0) = (IF st0.sign = 1 THEN -x ELSE x) /\ Number(b) = (IF b.sign = 1 THEN -y ELSE y)
      BY <3>1 DEF Number
    <3>3. PICK z \in Nat : z = x * y
      BY TimesNat
    <3>4. (-x) * y = -z /\ x * (-y) = -z /\ (-x) * (-y) = z
      <4>1. (-x) * y = -(x * y) /\ x * (-y) = -(x * y) /\ (-x) * (-y) = x * y
        BY SMT
      <4> QED
        BY <3>3, <4>1
    <3>5. PICK n \in Int : n = Number(st0) * Number(b) /\ (n = z \/ n = -z)
      BY <3>2, <3>3, <3>4
    <3>6. Magnitude(n) = z
      BY <3>5 DEF Magnitude
    <3> QED
      BY <3>1, <3>3, <3>5, <3>6, UnitIs, SignsIs
  <2>4. Exact' = <<n, den>>
    BY <1>1, <2>3 DEF Exact
  <2>5. SignOf' = sg
    BY <1>1, <2>3 DEF SignOf, Signs
  <2>6. Best' = P(sg, Nearest(num, den))
    BY <2>3, <2>4, <2>5 DEF Best, Magnitude
  <2>7. Result("exact", sg, num, den, st0')
    BY <1>1, <2>1, <2>2, <2>3, MulIsRight
  <2>8. CASE st0' = P(sg, Nearest(num, den))
    BY <2>6, <2>8
  <2>9. CASE st0' = P(sg, 0) /\ Nearest(num, den) = Hidden /\ num < Hidden * den
    <3>1. Best' = P(sg, Hidden) /\ Best'.sign = sg /\ Best'.mag = Hidden
      BY <2>6, <2>9 DEF P
    <3>2. n # Number(Best') * den
      BY <2>3, <2>9, <3>1, Carries
    <3>3. CarriesIntoNormal'
      BY <2>4, <3>1, <3>2 DEF CarriesIntoNormal
    <3> QED
      BY <2>9, <3>1, <3>3
  <2> QED
    BY <2>7, <2>8, <2>9 DEF Result
<1> QED
  BY <1>1, <1>2, <1>3 DEF FpuRight

\* FDIV keeps the invariant.
LEMMA DivStep ==
  ASSUME st0 \in Pattern, NEW b \in Pattern, FpuDiv(b)
  PROVE  st0' \in Pattern /\ FpuRight'
<1>1. call'.op = "div" /\ call'.a = st0 /\ call'.b = b /\ st0' = internal_float_div(b, st0)
  BY DEF FpuDiv, FpuCall
<1>2. st0' \in Pattern
  BY <1>1, DivPattern
<1>3. ASSUME Rational'
      PROVE  \/ st0' = Best'
             \/ st0'.sign = Best'.sign /\ st0'.mag = Best'.mag - 1
             \/ CarriesIntoNormal' /\ st0' = P(Best'.sign, 0)
  <2>1. Finite(st0) /\ Finite(b) /\ b.mag # 0
    BY <1>1, <1>3 DEF Rational, IsZero
  <2>2. PICK num \in Nat, n \in Int, den \in Nat, sg \in {0, 1}, c \in Int :
          /\ num = Mag(st0.mag) * Unit /\ c = (IF b.sign = 1 THEN -1 ELSE 1)
          /\ n = Number(st0) * Unit * c /\ Magnitude(n) = num
          /\ den = Mag(b.mag) /\ den >= 1 /\ den = Number(b) * c /\ sg = Signs(st0, b)
    <3>1. PICK x \in Nat, y \in Nat, u \in Nat : x = Mag(st0.mag) /\ y = Mag(b.mag) /\ y >= 1 /\ u = Unit
      BY <2>1, NumberIs, UnitIs
    <3>2. Number(st0) = (IF st0.sign = 1 THEN -x ELSE x) /\ Number(b) = (IF b.sign = 1 THEN -y ELSE y)
      BY <3>1 DEF Number
    <3>3. PICK z \in Nat : z = x * u
      BY TimesNat
    <3>4. PICK c \in Int : c = (IF b.sign = 1 THEN -1 ELSE 1)
      OBVIOUS
    <3>5. Number(b) * c = y
      BY <3>2, <3>4
    <3>6. PICK m \in Int : m = Number(st0) * u /\ (m = z \/ m = -z)
      <4>1. (-x) * u = -(x * u)
        BY TimesPlus
      <4> QED
        BY <3>2, <3>3, <4>1
    <3>7. PICK n \in Int : n = m * c /\ (n = z \/ n = -z)
      BY <3>4, <3>6
    <3>8. Magnitude(n) = z
      BY <3>7 DEF Magnitude
    <3> QED
      BY <3>1, <3>3, <3>4, <3>5, <3>6, <3>7, <3>8, SignsIs
  <2>3. Exact' = <<n, den>>
    BY <1>1, <2>2 DEF Exact
  <2>4. SignOf' = sg
    BY <1>1, <2>2 DEF SignOf, Signs
  <2>5. Best' = P(sg, Nearest(num, den))
    BY <2>2, <2>3, <2>4 DEF Best, Magnitude
  <2>6. Result("cut", sg, num, den, st0')
    BY <1>1, <2>1, <2>2, DivIsRight
  <2>7. CASE st0' = P(sg, Nearest(num, den))
    BY <2>5, <2>7
  <2>8. CASE st0' = P(sg, Nearest(num, den) - 1)
    BY <2>5, <2>8 DEF P
  <2>9. CASE st0' = P(sg, 0) /\ Nearest(num, den) = Hidden /\ num < Hidden * den
    <3>1. Best' = P(sg, Hidden) /\ Best'.sign = sg /\ Best'.mag = Hidden
      BY <2>5, <2>9 DEF P
    <3>2. n # Number(Best') * den
      BY <2>2, <2>9, <3>1, Carries
    <3>3. CarriesIntoNormal'
      BY <2>3, <3>1, <3>2 DEF CarriesIntoNormal
    <3> QED
      BY <2>9, <3>1, <3>3
  <2> QED
    BY <2>6, <2>7, <2>8, <2>9 DEF Result
<1> QED
  BY <1>1, <1>2, <1>3 DEF FpuRight

-----------------------------------------------------------------------------
(* The theorem.                                                            *)

FpuInv == st0 \in Pattern /\ FpuRight

\* Whatever the widths of fraction and exponent, and of the words the quotient is
\* computed in: what the four operations of fpu.c leave in the register is the number
\* nearest to the exact result (for a quotient, that or the one below), denormals,
\* overflow and the sign of zero included, but for the two cases FpuRight names.
THEOREM FpuIsRight == FpuSpec => []FpuRight
<1>1. FpuInit => FpuInv
  <2> SUFFICES ASSUME FpuInit PROVE FpuInv
    OBVIOUS
  <2>1. st0 \in Pattern
    BY SpecialPatterns DEF FpuInit
  <2>2. call.op = "none"
    BY DEF FpuInit, FpuIdle
  <2> QED
    BY <2>1, <2>2 DEF FpuInv, FpuRight, Rational
<1>2. FpuInv /\ [FpuNext]_fpuVars => FpuInv'
  <2> SUFFICES ASSUME FpuInv, [FpuNext]_fpuVars PROVE FpuInv'
    OBVIOUS
  <2>1. CASE UNCHANGED fpuVars
    <3>1. st0' = st0 /\ call' = call
      BY <2>1, Zenon DEF fpuVars
    <3>2. Exact' = Exact
      BY <3>1 DEF Exact
    <3>3. SignOf' = SignOf
      BY <3>1, <3>2, Zenon DEF SignOf
    <3>4. Best' = Best
      BY <3>2, <3>3, Zenon DEF Best
    <3>5. Rational' <=> Rational
      BY <3>1, Zenon DEF Rational
    <3>6. (CarriesIntoNormal' <=> CarriesIntoNormal) /\ (TakenForSum' <=> TakenForSum)
      BY <3>1, <3>2, <3>4, Zenon DEF CarriesIntoNormal, TakenForSum
    <3>7. FpuRight'
      BY <3>1, <3>4, <3>5, <3>6, Zenon DEF FpuInv, FpuRight
    <3> QED
      BY <3>1, <3>7, Zenon DEF FpuInv
  <2>2. CASE FpuNext /\ call = FpuIdle
    <3>1. PICK b \in Pattern : FpuAdd(b) \/ FpuSub(b) \/ FpuMul(b) \/ FpuDiv(b)
      BY <2>2 DEF FpuNext
    <3>2. st0 \in Pattern
      BY DEF FpuInv
    <3> QED
      BY <3>1, <3>2, AddStep, SubStep, MulStep, DivStep DEF FpuInv
  <2>3. CASE FpuNext /\ call # FpuIdle
    <3>1. call' = FpuIdle /\ UNCHANGED st0
      BY <2>3 DEF FpuNext
    <3>2. call'.op = "none"
      BY <3>1 DEF FpuIdle
    <3> QED
      BY <3>1, <3>2 DEF FpuInv, FpuRight, Rational
  <2> QED
    BY <2>1, <2>2, <2>3
<1>3. FpuInv => FpuRight
  BY DEF FpuInv
<1> QED
  BY <1>1, <1>2, <1>3, PTL DEF FpuSpec
=============================================================================
