----------------------------- MODULE Alu_proofs -----------------------------
(***************************************************************************)
(* ADD, ADC, SUB and SBB for every width of the word and every operand     *)
(* size: the flags, which the code takes from comparisons of sign-extended *)
(* words, are those of the sum and of the difference.  MUL, DIV and IDIV:  *)
(* the flags of the product, the quotient and the remainder.  SHL, SHR and *)
(* SAR: products and quotients by a power of two, and the bit left for CF. *)
(***************************************************************************)
EXTENDS Alu, TLAPS, WellFoundedInduction

-----------------------------------------------------------------------------
(* Repeating a step, and powers of two.                                    *)

\* A set of natural numbers has a least element.
LEMMA Least ==
  ASSUME NEW T \in SUBSET Nat, T # {}
  PROVE  \E m \in T : \A k \in T : m <= k
<1> DEFINE R == {ss \in Nat \X Nat : ss[1] < ss[2]}
<1>1. OpToRel(<, Nat) = R
  BY Zenon DEF OpToRel
<1>2. IsWellFoundedOn(R, Nat)
  BY <1>1, NatLessThanWellFounded
<1>3. \A m, k \in Nat : ~(<<k, m>> \in R) => m <= k
  OBVIOUS
<1> HIDE DEF R
<1>4. PICK m \in T : \A k \in T : ~(<<k, m>> \in R)
  BY <1>2, WFMin
<1>5. \A k \in T : m <= k
  BY <1>3, <1>4, Zenon
<1> QED
  BY <1>5

\* The first N results of repeating g from x.
Repeats(f, x, g, N) == f[0] = x /\ \A n \in 0 .. N : n # 0 => f[n] = g[f[n - 1]]

\* Up to any N some function has them,
LEMMA RepeatsExist ==
  ASSUME NEW x \in Nat, NEW g \in [Nat -> Nat], NEW N \in Nat
  PROVE  \E f \in [Nat -> Nat] : Repeats(f, x, g, N)
<1> DEFINE Bad == {m \in Nat : ~\E f \in [Nat -> Nat] : Repeats(f, x, g, m)}
<1> SUFFICES ASSUME Bad # {} PROVE FALSE
  OBVIOUS
<1>1. PICK m \in Bad : \A k \in Bad : m <= k
  <2>1. Bad \in SUBSET Nat
    OBVIOUS
  <2> HIDE DEF Bad
  <2> QED
    BY <2>1, Least
<1>2. CASE m = 0
  <2> DEFINE f == [k \in Nat |-> x]
  <2>1. f \in [Nat -> Nat] /\ Repeats(f, x, g, 0)
    BY DEF Repeats
  <2> QED
    BY <1>1, <1>2, <2>1
<1>3. CASE m # 0
  <2>1. m - 1 \in Nat /\ ~(m <= m - 1)
    BY <1>1, <1>3
  <2>2. PICK h \in [Nat -> Nat] : Repeats(h, x, g, m - 1)
    BY <1>1, <2>1
  <2> DEFINE f == [k \in Nat |-> IF k = m THEN g[h[m - 1]] ELSE h[k]]
  <2>3. f \in [Nat -> Nat] /\ f[0] = x /\ f[m] = g[f[m - 1]]
    BY <1>3, <2>1, <2>2 DEF Repeats
  <2>4. ASSUME NEW n \in 0 .. m, n # 0
        PROVE  f[n] = g[f[n - 1]]
    <3>1. n = m \/ (n \in 0 .. m - 1 /\ n - 1 \in Nat /\ n - 1 # m /\ n # m)
      BY <2>1, <2>4
    <3>2. CASE n = m
      BY <2>3, <3>2
    <3>3. CASE n \in 0 .. m - 1 /\ n - 1 \in Nat /\ n - 1 # m /\ n # m
      <4>1. f[n] = h[n] /\ f[n - 1] = h[n - 1]
        BY <3>3
      <4> QED
        BY <2>2, <2>4, <3>3, <4>1 DEF Repeats
    <3> QED
      BY <3>1, <3>2, <3>3
  <2> HIDE DEF f
  <2>5. Repeats(f, x, g, m)
    BY <2>3, <2>4 DEF Repeats
  <2> QED
    BY <1>1, <2>3, <2>5
<1> QED
  BY <1>2, <1>3

\* and any two agree.
LEMMA RepeatsAgree ==
  ASSUME NEW M \in Nat, NEW N \in Nat, M <= N, NEW x, NEW g, NEW f, NEW h,
         Repeats(f, x, g, M), Repeats(h, x, g, N)
  PROVE  \A n \in 0 .. M : f[n] = h[n]
<1> DEFINE Bad == {n \in 0 .. M : f[n] # h[n]}
<1> SUFFICES ASSUME Bad # {} PROVE FALSE
  OBVIOUS
<1>1. PICK n \in Bad : \A k \in Bad : n <= k
  <2>1. Bad \in SUBSET Nat
    OBVIOUS
  <2> HIDE DEF Bad
  <2> QED
    BY <2>1, Least
<1>2. n # 0
  BY <1>1 DEF Repeats
<1>3. n - 1 \in 0 .. M /\ n \in 0 .. M /\ n \in 0 .. N /\ f[n - 1] = h[n - 1]
  BY <1>1, <1>2
<1>4. f[n] = g[f[n - 1]] /\ h[n] = g[h[n - 1]]
  BY <1>2, <1>3 DEF Repeats
<1> QED
  BY <1>1, <1>3, <1>4

\* So a recursive function that repeats a step exists on all of Nat.
LEMMA Repeated ==
  ASSUME NEW x \in Nat, NEW g \in [Nat -> Nat]
  PROVE  \E f \in [Nat -> Nat] : f[0] = x /\ \A n \in Nat : n # 0 => f[n] = g[f[n - 1]]
<1> DEFINE Upto(N) == CHOOSE f : f \in [Nat -> Nat] /\ Repeats(f, x, g, N)
           p == [n \in Nat |-> Upto(n)[n]]
<1>1. \A N \in Nat : Upto(N) \in [Nat -> Nat] /\ Repeats(Upto(N), x, g, N)
  BY RepeatsExist
<1> HIDE DEF Upto
<1>2. p[0] = x /\ p \in [Nat -> Nat]
  BY <1>1 DEF Repeats
<1>3. ASSUME NEW n \in Nat, n # 0
      PROVE  p[n] = g[p[n - 1]]
  <2>1. n - 1 \in Nat /\ n - 1 <= n /\ n \in 0 .. n /\ n - 1 \in 0 .. n - 1
    BY <1>3
  <2>2. Repeats(Upto(n), x, g, n) /\ Repeats(Upto(n - 1), x, g, n - 1)
    BY <1>1, <2>1
  <2>3. Upto(n)[n] = g[Upto(n)[n - 1]]
    BY <1>3, <2>1, <2>2 DEF Repeats
  <2>4. Upto(n - 1)[n - 1] = Upto(n)[n - 1]
    BY <2>1, <2>2, RepeatsAgree
  <2> QED
    BY <2>1, <2>3, <2>4
<1> HIDE DEF p
<1> QED
  BY <1>2, <1>3

\* Pow2 satisfies its equation; (its base and its step, which are easier to use).
LEMMA PowersEquation == Pow2 = [n \in Nat |-> IF n = 0 THEN 1 ELSE 2 * Pow2[n - 1]]
<1> DEFINE g == [k \in Nat |-> 2 * k]
<1>1. PICK f \in [Nat -> Nat] : f[0] = 1 /\ \A n \in Nat : n # 0 => f[n] = g[f[n - 1]]
  <2>1. PICK x \in Nat : x = 1
    OBVIOUS
  <2>2. g \in [Nat -> Nat]
    OBVIOUS
  <2> HIDE DEF g
  <2>3. PICK f \in [Nat -> Nat] : f[0] = x /\ \A n \in Nat : n # 0 => f[n] = g[f[n - 1]]
    BY <2>2, Repeated
  <2> QED
    BY <2>1, <2>3
<1> DEFINE q == [n \in Nat |-> IF n = 0 THEN 1 ELSE 2 * f[n - 1]]
<1>2. ASSUME NEW n \in Nat PROVE f[n] = q[n]
  <2>1. CASE n = 0
    BY <1>1, <2>1
  <2>2. CASE n # 0
    <3>1. n - 1 \in Nat
      BY <2>2
    <3> QED
      BY <1>1, <2>2, <3>1
  <2> QED
    BY <2>1, <2>2
<1>3. f = [n \in Nat |-> f[n]] /\ q = [n \in Nat |-> q[n]]
  OBVIOUS
<1>4. f = q
  <2> HIDE DEF q
  <2> QED
    BY <1>2, <1>3
<1>5. \E p : p = [n \in Nat |-> IF n = 0 THEN 1 ELSE 2 * p[n - 1]]
  BY <1>4
<1> QED
  BY <1>5 DEF Pow2

\* The least power of two.
LEMMA PowersBase == Pow2[0] = 1
BY PowersEquation

\* The next power of two.
LEMMA PowersStep ==
  ASSUME NEW n \in Nat
  PROVE  Pow2[n + 1] = 2 * Pow2[n]
<1>1. n + 1 \in Nat /\ n + 1 # 0 /\ (n + 1) - 1 = n
  OBVIOUS
<1>2. Pow2[n + 1] = 2 * Pow2[(n + 1) - 1]
  BY <1>1, PowersEquation, Zenon
<1> QED
  BY <1>1, <1>2

\* Powers of two are positive natural numbers.
LEMMA PowersNat ==
  ASSUME NEW n \in Nat
  PROVE  Pow2[n] \in Nat /\ Pow2[n] >= 1
<1> DEFINE Bad == {k \in Nat : ~(Pow2[k] \in Nat /\ Pow2[k] >= 1)}
<1> SUFFICES ASSUME Bad # {} PROVE FALSE
  OBVIOUS
<1>1. PICK m \in Bad : \A k \in Bad : m <= k
  <2>1. Bad \in SUBSET Nat
    OBVIOUS
  <2> HIDE DEF Bad
  <2> QED
    BY <2>1, Least
<1>2. m # 0
  BY <1>1, PowersBase
<1>3. m - 1 \in Nat /\ ~(m <= m - 1) /\ (m - 1) + 1 = m
  BY <1>1, <1>2
<1>4. Pow2[m - 1] \in Nat /\ Pow2[m - 1] >= 1
  BY <1>1, <1>3
<1>5. Pow2[m] = 2 * Pow2[m - 1]
  <2>1. Pow2[(m - 1) + 1] = 2 * Pow2[m - 1]
    BY <1>3, PowersStep
  <2> QED
    BY <1>3, <2>1
<1> QED
  BY <1>1, <1>4, <1>5

-----------------------------------------------------------------------------
(* Division by M, and by 2 * M in two steps.                               *)

\* Quotient and remainder of an integer.
LEMMA DivModOf ==
  ASSUME NEW M \in Int, M > 0, NEW x \in Int
  PROVE  x \div M \in Int /\ x % M \in 0 .. M - 1 /\ x = M * (x \div M) + (x % M)
<1>1. x \div M \in Int
  BY SMT
<1>2. x % M \in 0 .. M - 1
  BY SMT
<1>3. x = M * (x \div M) + (x % M)
  BY Z3
<1> QED
  BY <1>1, <1>2, <1>3

\* Quotient and remainder are the only ones.
LEMMA DivModIs ==
  ASSUME NEW M \in Int, M > 0, NEW q \in Int, NEW r \in 0 .. M - 1, NEW x \in Int, x = M * q + r
  PROVE  x \div M = q /\ x % M = r
<1>1. PICK d \in Int, s \in 0 .. M - 1 : d = x \div M /\ s = x % M /\ x = M * d + s
  BY DivModOf
<1>2. ASSUME d + 1 <= q PROVE FALSE
  <2>1. M * (d + 1) <= M * q /\ M * (d + 1) = M * d + M
    BY <1>2, SMT
  <2> QED
    BY <1>1, <2>1
<1>3. ASSUME q + 1 <= d PROVE FALSE
  <2>1. M * (q + 1) <= M * d /\ M * (q + 1) = M * q + M
    BY <1>3, SMT
  <2> QED
    BY <1>1, <2>1
<1>4. d = q
  BY <1>2, <1>3
<1> QED
  BY <1>1, <1>4

\* One more bit: the quotient by 2 * A is half the quotient by A, and the bit that
\* is lost tells whether the remainder reaches A.
LEMMA HalfAgain ==
  ASSUME NEW A \in Int, A > 0, NEW x \in Int
  PROVE  /\ x \div (2 * A) = (x \div A) \div 2
         /\ x % (2 * A) >= A <=> (x \div A) % 2 = 1
<1>1. PICK d \in Int, r \in 0 .. A - 1 : d = x \div A /\ x = A * d + r
  BY DivModOf
<1>2. PICK e \in Int, b \in 0 .. 1 : e = d \div 2 /\ b = d % 2 /\ d = 2 * e + b
  <2>1. d \div 2 \in Int /\ d % 2 \in 0 .. 1 /\ d = 2 * (d \div 2) + (d % 2)
    BY DivModOf
  <2> QED
    BY <2>1
<1>3. PICK s \in 0 .. 2 * A - 1 : s = (IF b = 1 THEN A + r ELSE r)
  OBVIOUS
<1>4. x = (2 * A) * e + s
  <2>1. A * d = A * (2 * e) + A * b /\ A * (2 * e) = (2 * A) * e
    BY <1>2, SMT
  <2>2. A * b = IF b = 1 THEN A ELSE 0
    BY SMT
  <2> QED
    BY <1>1, <1>3, <2>1, <2>2
<1>5. x \div (2 * A) = e /\ x % (2 * A) = s
  <2>1. 2 * A \in Int /\ 2 * A > 0
    OBVIOUS
  <2> QED
    BY <1>4, <2>1, DivModIs
<1> QED
  BY <1>1, <1>2, <1>3, <1>5

\* A multiple of M changes no remainder,
LEMMA ModAdd ==
  ASSUME NEW M \in Int, M > 0, NEW q \in Int, NEW x \in Int
  PROVE  (M * q + x) % M = x % M
<1>1. PICK d \in Int, r \in 0 .. M - 1 : r = x % M /\ x = M * d + r
  BY DivModOf
<1>2. PICK y \in Int : y = M * q + x
  BY SMT
<1>3. y = M * (q + d) + r /\ q + d \in Int
  <2>1. M * (q + d) = M * q + M * d
    BY SMT
  <2> QED
    BY <1>1, <1>2, <2>1, SMT
<1>4. y % M = r
  BY <1>3, DivModIs
<1> QED
  BY <1>1, <1>2, <1>4

\* nor does reducing first modulo a multiple of M.
LEMMA ModOfMod ==
  ASSUME NEW M \in Int, M > 0, NEW W \in Int, W > 0, W % M = 0, NEW x \in Int
  PROVE  (x % W) % M = x % M
<1>1. PICK d \in Int, t \in 0 .. W - 1 : t = x % W /\ x = W * d + t
  BY DivModOf
<1>2. PICK k \in Int : W = M * k
  <2>1. W \div M \in Int /\ W = M * (W \div M) + 0
    BY DivModOf
  <2> QED
    BY <2>1
<1>3. x = M * (k * d) + t /\ k * d \in Int /\ t \in Int
  BY <1>1, <1>2, SMT
<1>4. (M * (k * d) + t) % M = t % M
  BY <1>3, ModAdd
<1> QED
  BY <1>1, <1>3, <1>4

-----------------------------------------------------------------------------
(* Numbers and operands.                                                   *)

\* Reduction modulo M of a number within one M of its range.
LEMMA ModNear ==
  ASSUME NEW M \in Nat \ {0}, NEW x \in Int
  PROVE  /\ 0 <= x /\ x < M => x % M = x
         /\ M <= x /\ x < 2 * M => x % M = x - M
         /\ -M <= x /\ x < 0 => x % M = x + M
BY SMT

\* A number with its quotient and remainder written out.
LEMMA ModMultiple ==
  ASSUME NEW M \in Nat \ {0}, NEW q \in Int, NEW r \in Int, 0 <= r, r < M
  PROVE  (q * M + r) % M = r
BY SMT

\* Adding the modulus once changes no remainder.
LEMMA ModPlus ==
  ASSUME NEW W \in Nat \ {0}, NEW d \in Int, -W <= d, d < W
  PROVE  (d + W) % W = d % W
<1>1. d + W \in Int /\ 0 <= d + W /\ d + W < 2 * W
  OBVIOUS
<1>2. CASE d < 0
  <2>1. d % W = d + W
    BY <1>2, ModNear
  <2>2. (d + W) % W = d + W
    <3>1. d + W < W
      BY <1>2
    <3> QED
      BY <1>1, <3>1, ModNear
  <2> QED
    BY <2>1, <2>2
<1>3. CASE 0 <= d
  <2>1. d % W = d
    BY <1>3, ModNear
  <2>2. (d + W) % W = (d + W) - W
    BY <1>1, <1>3, ModNear
  <2> QED
    BY <2>1, <2>2
<1> QED
  BY <1>2, <1>3

\* A multiple of M, as a product.
LEMMA Divides ==
  ASSUME NEW M \in Nat \ {0}, NEW x \in Nat, x % M = 0
  PROVE  \E k \in Int : x = k * M
<1>1. x \div M \in Int /\ x = (x \div M) * M
  BY SMT
<1> QED
  BY <1>1

\* An operand's size divides the word's.
LEMMA SizeOfWord ==
  ASSUME NEW H \in Halves
  PROVE  /\ H \in Nat /\ H >= 1 /\ Word \in Nat /\ Word >= 2 * H
         /\ \E k \in Nat : k >= 1 /\ Word = k * (2 * H)
<1>1. H \in Nat /\ H >= 1 /\ Word \in Nat /\ Word >= 1 /\ Word % (2 * H) = 0
  BY AluAssumption
<1>2. PICK k \in Int : Word = k * (2 * H)
  BY <1>1, Divides
<1>3. k >= 1
  BY <1>1, <1>2, SMT
<1> QED
  BY <1>1, <1>2, <1>3, SMT

\* Reducing first modulo a multiple of M changes nothing.
LEMMA ModTwice ==
  ASSUME NEW M \in Nat \ {0}, NEW k \in Nat, k >= 1, NEW W \in Nat, W = k * M,
         NEW x \in Int, -M <= x, x < 2 * M
  PROVE  (x % W) % M = x % M
<1>1. W >= M /\ W \in Nat \ {0}
  BY SMT
<1>2. CASE 0 <= x /\ x < W
  <2>1. x % W = x
    BY <1>1, <1>2, ModNear
  <2> QED
    BY <2>1
<1>3. CASE x < 0
  <2>1. x % W = x + W
    <3>1. -W <= x
      BY <1>1
    <3> QED
      BY <1>1, <1>3, <3>1, ModNear
  <2>2. x % M = x + M
    BY <1>3, ModNear
  <2>3. x + W = (k - 1) * M + (x + M)
    BY SMT
  <2>4. ((k - 1) * M + (x + M)) % M = x + M
    <3>1. k - 1 \in Int /\ x + M \in Int /\ 0 <= x + M /\ x + M < M
      BY <1>3
    <3> QED
      BY <3>1, ModMultiple
  <2> QED
    BY <2>1, <2>2, <2>3, <2>4
<1>4. CASE W <= x
  <2>1. k = 1
    <3>1. k >= 2 => k * M >= 2 * M
      BY SMT
    <3> QED
      BY <1>4, <3>1
  <2>2. W = M
    BY <2>1
  <2>3. x % M = x - M
    BY <1>4, <2>2, ModNear
  <2>4. x - M \in Int /\ 0 <= x - M /\ x - M < M
    BY <1>4, <2>2
  <2>5. (x - M) % M = x - M
    BY <2>4, ModNear
  <2> QED
    BY <2>2, <2>3, <2>5
<1> QED
  BY <1>1, <1>2, <1>3, <1>4

\* What is left of a word near 0 when it is cut to an operand.
LEMMA LowOfWord ==
  ASSUME NEW H \in Halves, NEW x \in Int, -(2 * H) <= x, x < 4 * H
  PROVE  /\ Low(x % Word, H) = x % (2 * H)
         /\ Low(x % Word, H) \in 0 .. 2 * H - 1
         /\ x % (2 * H) = IF x < 0 THEN x + 2 * H ELSE IF x < 2 * H THEN x ELSE x - 2 * H
<1>1. PICK k \in Nat : k >= 1 /\ Word = k * (2 * H)
  BY SizeOfWord
<1>2. H \in Nat /\ Word \in Nat /\ 2 * H \in Nat \ {0} /\ x < 2 * (2 * H) /\ -(2 * H) <= x
  BY SizeOfWord
<1>3. (x % Word) % (2 * H) = x % (2 * H)
  BY <1>1, <1>2, ModTwice
<1>4. x % (2 * H) = IF x < 0 THEN x + 2 * H ELSE IF x < 2 * H THEN x ELSE x - 2 * H
  <2> DEFINE M == 2 * H
  <2>1. M \in Nat \ {0} /\ x < 2 * M /\ -M <= x
    BY <1>2
  <2> HIDE DEF M
  <2>2. x % M = IF x < 0 THEN x + M ELSE IF x < M THEN x ELSE x - M
    <3>1. CASE x < 0
      BY <2>1, <3>1, ModNear
    <3>2. CASE 0 <= x /\ x < M
      BY <2>1, <3>2, ModNear
    <3>3. CASE M <= x
      <4>1. x % M = x - M
        BY <2>1, <3>3, ModNear
      <4> QED
        BY <2>1, <3>3, <4>1
    <3> QED
      BY <2>1, <3>1, <3>2, <3>3
  <2> QED
    BY <2>2 DEF M
<1>5. x % (2 * H) \in 0 .. 2 * H - 1
  BY <1>2, <1>4
<1> QED
  BY <1>3, <1>4, <1>5 DEF Low

\* Sign extension keeps the order of operands and shows their sign.
LEMMA Extended ==
  ASSUME NEW H \in Halves, NEW x \in Int, NEW y \in Int,
         Low(x, H) \in 0 .. 2 * H - 1, Low(y, H) \in 0 .. 2 * H - 1
  PROVE  /\ SignExt(x, H) < SignExt(y, H) <=> Low(x, H) < Low(y, H)
         /\ SignExt(x, H) <= SignExt(y, H) <=> Low(x, H) <= Low(y, H)
         /\ Sign(SignExt(x, H)) <=> Low(x, H) >= H
<1>1. H \in Nat /\ H >= 1 /\ Word \in Nat /\ Word >= 2 * H
  BY SizeOfWord
<1> DEFINE l == Low(x, H)
<1> DEFINE m == Low(y, H)
<1>2. l \in 0 .. 2 * H - 1 /\ m \in 0 .. 2 * H - 1
  OBVIOUS
<1>3. /\ SignExt(x, H) = (IF l < H THEN l ELSE l + (Word - 2 * H))
      /\ SignExt(y, H) = (IF m < H THEN m ELSE m + (Word - 2 * H))
  BY DEF SignExt
<1> HIDE DEF l, m
<1>4. /\ SignExt(x, H) < SignExt(y, H) <=> l < m
      /\ SignExt(x, H) <= SignExt(y, H) <=> l <= m
  BY <1>1, <1>2, <1>3, SMT
<1>5. 2 * SignExt(x, H) >= Word <=> l >= H
  BY <1>1, <1>2, <1>3, SMT
<1> QED
  BY <1>4, <1>5 DEF Sign, l, m

\* An operand is what remains of it.
LEMMA LowOfOperand ==
  ASSUME NEW H \in Halves, NEW x \in 0 .. 2 * H - 1
  PROVE  Low(x, H) = x
BY SizeOfWord, ModNear, SMT DEF Low

-----------------------------------------------------------------------------
(* The four operations, on operands already cut to their size.             *)

\* The carry is the overflow of the unsigned sum, the overflow flag that of the
\* signed one.
LEMMA Adding ==
  ASSUME NEW H \in Halves, NEW src \in 0 .. 2 * H - 1, NEW dest \in 0 .. 2 * H - 1,
         NEW c \in {0, 1}
  PROVE  LET s   == dest + src + c
             res == s % Word
         IN  /\ Low(res, H) = s % (2 * H)
             /\ Low(res, H) \in 0 .. 2 * H - 1
             /\ c = 0 => (SignExt(res, H) < SignExt(src, H) <=> s >= 2 * H)
             /\ c = 1 => (SignExt(res, H) <= SignExt(src, H) <=> s >= 2 * H)
             /\ Sign(SignExt(res, H)) <=> Low(res, H) >= H
             /\ set_OF_add(res, src, dest, H) <=>
                  Signed(dest, H) + Signed(src, H) + c \notin -H .. H - 1
<1> DEFINE s   == dest + src + c
<1> DEFINE res == s % Word
<1> DEFINE l   == Low(res, H)
<1>1. H \in Nat /\ H >= 1 /\ Word \in Nat /\ Word >= 2 * H
  BY SizeOfWord
<1>2. s \in Int /\ 0 <= s /\ s < 4 * H
  BY <1>1, SMT
<1>3. res \in Int
  BY <1>1, <1>2, SMT
<1>4. /\ l = s % (2 * H) /\ l \in 0 .. 2 * H - 1
      /\ s % (2 * H) = IF s < 0 THEN s + 2 * H ELSE IF s < 2 * H THEN s ELSE s - 2 * H
  <2>1. -(2 * H) <= s
    BY <1>1, <1>2
  <2> HIDE DEF s
  <2> QED
    BY <1>2, <2>1, LowOfWord
<1> HIDE DEF s
<1>5. l = IF s < 2 * H THEN s ELSE s - 2 * H
  BY <1>1, <1>2, <1>4
<1>6. Low(src, H) = src /\ Low(dest, H) = dest
  BY LowOfOperand
<1>7. /\ SignExt(res, H) < SignExt(src, H) <=> l < src
      /\ SignExt(res, H) <= SignExt(src, H) <=> l <= src
      /\ Sign(SignExt(res, H)) <=> l >= H
      /\ Sign(SignExt(src, H)) <=> src >= H
      /\ Sign(SignExt(dest, H)) <=> dest >= H
  <2>1. Low(src, H) \in 0 .. 2 * H - 1 /\ Low(dest, H) \in 0 .. 2 * H - 1 /\ src \in Int /\ dest \in Int
    BY <1>1, <1>6
  <2>2. /\ SignExt(res, H) < SignExt(src, H) <=> l < Low(src, H)
        /\ SignExt(res, H) <= SignExt(src, H) <=> l <= Low(src, H)
        /\ Sign(SignExt(res, H)) <=> l >= H
    BY <1>3, <1>4, <2>1, Extended
  <2>3. /\ Sign(SignExt(src, H)) <=> Low(src, H) >= H
        /\ Sign(SignExt(dest, H)) <=> Low(dest, H) >= H
    BY <2>1, Extended
  <2> QED
    BY <1>6, <2>2, <2>3
<1> HIDE DEF res, l
<1>8. /\ c = 0 => (l < src <=> s >= 2 * H)
      /\ c = 1 => (l <= src <=> s >= 2 * H)
  BY <1>1, <1>5, SMT DEF s
<1>9. ((src >= H) <=> (dest >= H)) /\ ~((src >= H) <=> (l >= H))
        <=> Signed(dest, H) + Signed(src, H) + c \notin -H .. H - 1
  BY <1>1, <1>5, SMT DEF Signed, s
<1>10. set_OF_add(res, src, dest, H) <=>
         ((src >= H) <=> (dest >= H)) /\ ~((src >= H) <=> (l >= H))
  BY <1>7, SMT DEF set_OF_add, Sign
<1> QED
  BY <1>4, <1>7, <1>8, <1>9, <1>10, Zenon DEF s, res, l

\* The carry is the borrow of the unsigned difference, the overflow flag the
\* overflow of the signed one.  The code adds the two's complement of src, which
\* is 0 and not the word's width when src is 0.
LEMMA Subtracting ==
  ASSUME NEW H \in Halves, NEW src \in 0 .. 2 * H - 1, NEW dest \in 0 .. 2 * H - 1,
         NEW c \in {0, 1}
  PROVE  LET d   == dest - src - c
             res == (dest + Minus(src) - c) % Word
         IN  /\ Low(res, H) = d % (2 * H)
             /\ Low(res, H) \in 0 .. 2 * H - 1
             /\ c = 0 => (SignExt(dest, H) < SignExt(src, H) <=> d < 0)
             /\ c = 1 => (SignExt(dest, H) <= SignExt(src, H) <=> d < 0)
             /\ Sign(SignExt(res, H)) <=> Low(res, H) >= H
             /\ set_OF_sub(res, src, dest, H) <=>
                  Signed(dest, H) - Signed(src, H) - c \notin -H .. H - 1
<1> DEFINE d   == dest - src - c
<1> DEFINE res == (dest + Minus(src) - c) % Word
<1> DEFINE l   == Low(res, H)
<1>1. H \in Nat /\ H >= 1 /\ Word \in Nat /\ Word >= 2 * H
  BY SizeOfWord
<1>2. d \in Int /\ -(2 * H) <= d /\ d < 2 * H
  BY <1>1, SMT
<1>3. res = d % Word
  <2>1. CASE src = 0
    <3>1. Word - src = Word /\ Word % Word = 0
      BY <1>1, <2>1, ModNear
    <3> QED
      BY <1>1, <2>1, <3>1, SMT DEF Minus
  <2>2. CASE src # 0
    <3>1. Word - src \in Int /\ 0 <= Word - src /\ Word - src < Word /\ Word \in Nat \ {0}
      BY <1>1, <2>2
    <3>2. (Word - src) % Word = Word - src
      BY <3>1, ModNear
    <3>3. dest + Minus(src) - c = d + Word
      BY <1>1, <3>2 DEF Minus
    <3> HIDE DEF d
    <3> QED
      <4>1. -Word <= d /\ d < Word
        BY <1>1, <1>2
      <4> QED
        BY <1>2, <3>1, <3>3, <4>1, ModPlus
  <2> QED
    BY <2>1, <2>2
<1>4. /\ l = d % (2 * H) /\ l \in 0 .. 2 * H - 1
      /\ d % (2 * H) = IF d < 0 THEN d + 2 * H ELSE IF d < 2 * H THEN d ELSE d - 2 * H
  <2>1. d < 4 * H
    BY <1>1, <1>2
  <2> HIDE DEF d, res
  <2> QED
    BY <1>2, <1>3, <2>1, LowOfWord
<1>5. l = IF d < 0 THEN d + 2 * H ELSE d
  BY <1>1, <1>2, <1>4
<1>6. Low(src, H) = src /\ Low(dest, H) = dest
  BY LowOfOperand
<1>7. /\ SignExt(dest, H) < SignExt(src, H) <=> dest < src
      /\ SignExt(dest, H) <= SignExt(src, H) <=> dest <= src
      /\ Sign(SignExt(res, H)) <=> l >= H
      /\ Sign(SignExt(src, H)) <=> src >= H
      /\ Sign(SignExt(dest, H)) <=> dest >= H
  <2>1. Low(src, H) \in 0 .. 2 * H - 1 /\ Low(dest, H) \in 0 .. 2 * H - 1 /\ src \in Int /\ dest \in Int
    BY <1>1, <1>6
  <2>2. res \in Int
    <3> HIDE DEF d
    <3> QED
      BY <1>1, <1>2, <1>3, SMT
  <2> HIDE DEF res
  <2>3. Sign(SignExt(res, H)) <=> l >= H
    BY <1>4, <2>1, <2>2, Extended
  <2>4. /\ SignExt(dest, H) < SignExt(src, H) <=> Low(dest, H) < Low(src, H)
        /\ SignExt(dest, H) <= SignExt(src, H) <=> Low(dest, H) <= Low(src, H)
        /\ Sign(SignExt(src, H)) <=> Low(src, H) >= H
        /\ Sign(SignExt(dest, H)) <=> Low(dest, H) >= H
    BY <2>1, Extended
  <2> QED
    BY <1>6, <2>3, <2>4
<1> HIDE DEF res, l
<1>8. /\ c = 0 => (dest < src <=> d < 0)
      /\ c = 1 => (dest <= src <=> d < 0)
  BY <1>1, SMT
<1>9. ~((src >= H) <=> (dest >= H)) /\ ((src >= H) <=> (l >= H))
        <=> Signed(dest, H) - Signed(src, H) - c \notin -H .. H - 1
  BY <1>1, <1>5, SMT DEF Signed
<1>10. set_OF_sub(res, src, dest, H) <=>
         ~((src >= H) <=> (dest >= H)) /\ ((src >= H) <=> (l >= H))
  BY <1>7, SMT DEF set_OF_sub, Sign
<1> QED
  BY <1>4, <1>7, <1>8, <1>9, <1>10, Zenon DEF d, res, l

\* Each of the four leaves the sum or the difference and its flags.
LEMMA AluAddIsRight ==
  ASSUME NEW H \in Halves, NEW src \in 0 .. 2 * H - 1, NEW dest \in 0 .. 2 * H - 1,
         AluAdd(src, dest, H)
  PROVE  SumsRight'
<1> DEFINE c   == 0
<1> DEFINE s   == dest + src + c
<1> DEFINE res == (dest + src) % Word
<1>1. /\ last' = [op |-> "add", H |-> H, src |-> src, dest |-> dest, cf |-> eflags.CF, res |-> Low(res, H)]
      /\ eflags' = Flags(res, H, set_CF_add(res, src, H), set_OF_add(res, src, dest, H))
  BY Zenon DEF AluAdd, Return
<1>2. /\ Low(res, H) = s % (2 * H)
      /\ Low(res, H) \in 0 .. 2 * H - 1
      /\ set_CF_add(res, src, H) <=> s >= 2 * H
      /\ Sign(SignExt(res, H)) <=> Low(res, H) >= H
      /\ set_OF_add(res, src, dest, H) <=> Signed(dest, H) + Signed(src, H) + c \notin -H .. H - 1
  <2>1. c \in {0, 1} /\ src \in Int /\ dest \in Int /\ H \in Int
    BY SizeOfWord
  <2>2. res = s % Word
    BY <2>1, SMT
  <2> HIDE DEF res
  <2> QED
    BY <2>1, <2>2, Adding, Zenon DEF set_CF_add
<1> HIDE DEF res
<1>3. /\ last'.op = "add" /\ last'.H = H /\ last'.src = src /\ last'.dest = dest
      /\ last'.cf = eflags.CF /\ last'.res = Low(res, H)
  BY <1>1
<1>4. /\ eflags'.CF <=> s >= 2 * H
      /\ eflags'.OF <=> Signed(dest, H) + Signed(src, H) + c \notin -H .. H - 1
      /\ eflags'.ZF <=> Low(res, H) = 0
      /\ eflags'.SF <=> Low(res, H) >= H
  BY <1>1, <1>2, Zenon DEF Flags, set_ZF, set_SF
<1>5. /\ Sum' = s
      /\ SignedSum' = Signed(dest, H) + Signed(src, H) + c
  BY <1>3, SizeOfWord, SMT DEF Sum, SignedSum, Carry, CarryIn, Signed
<1> HIDE DEF s, c
<1> QED
  BY <1>2, <1>3, <1>4, <1>5, SMT DEF SumsRight

\* The same of an addition with carry: the carry in counts once.
LEMMA AluAdcIsRight ==
  ASSUME NEW H \in Halves, NEW src \in 0 .. 2 * H - 1, NEW dest \in 0 .. 2 * H - 1,
         AluAdc(src, dest, H)
  PROVE  SumsRight'
<1> DEFINE c   == CarryIn
<1> DEFINE s   == dest + src + c
<1> DEFINE res == (dest + src + CarryIn) % Word
<1>1. /\ last' = [op |-> "adc", H |-> H, src |-> src, dest |-> dest, cf |-> eflags.CF, res |-> Low(res, H)]
      /\ eflags' = Flags(res, H, set_CF_adc(eflags.CF, res, src, H), set_OF_add(res, src, dest, H))
  BY Zenon DEF AluAdc, Return
<1>2. /\ Low(res, H) = s % (2 * H)
      /\ Low(res, H) \in 0 .. 2 * H - 1
      /\ set_CF_adc(eflags.CF, res, src, H) <=> s >= 2 * H
      /\ Sign(SignExt(res, H)) <=> Low(res, H) >= H
      /\ set_OF_add(res, src, dest, H) <=> Signed(dest, H) + Signed(src, H) + c \notin -H .. H - 1
  <2>1. c \in {0, 1} /\ (eflags.CF => c = 1) /\ (~eflags.CF => c = 0)
    BY SMT DEF CarryIn
  <2>2. res = s % Word
    OBVIOUS
  <2> HIDE DEF c, res
  <2> QED
    BY <2>1, <2>2, Adding, Zenon DEF set_CF_adc
<1> HIDE DEF res
<1>3. /\ last'.op = "adc" /\ last'.H = H /\ last'.src = src /\ last'.dest = dest
      /\ last'.cf = eflags.CF /\ last'.res = Low(res, H)
  BY <1>1
<1>4. /\ eflags'.CF <=> s >= 2 * H
      /\ eflags'.OF <=> Signed(dest, H) + Signed(src, H) + c \notin -H .. H - 1
      /\ eflags'.ZF <=> Low(res, H) = 0
      /\ eflags'.SF <=> Low(res, H) >= H
  BY <1>1, <1>2, Zenon DEF Flags, set_ZF, set_SF
<1>5. /\ Sum' = s
      /\ SignedSum' = Signed(dest, H) + Signed(src, H) + c
  BY <1>3, SizeOfWord, SMT DEF Sum, SignedSum, Carry, CarryIn, Signed
<1> HIDE DEF s, c
<1> QED
  BY <1>2, <1>3, <1>4, <1>5, SMT DEF SumsRight

\* A subtraction: CF is the borrow of the unsigned difference, OF the overflow
\* of the signed one.
LEMMA AluSubIsRight ==
  ASSUME NEW H \in Halves, NEW src \in 0 .. 2 * H - 1, NEW dest \in 0 .. 2 * H - 1,
         AluSub(src, dest, H)
  PROVE  SumsRight'
<1> DEFINE c   == 0
<1> DEFINE d   == dest - src - c
<1> DEFINE res == (dest + Minus(src)) % Word
<1>1. /\ last' = [op |-> "sub", H |-> H, src |-> src, dest |-> dest, cf |-> eflags.CF, res |-> Low(res, H)]
      /\ eflags' = Flags(res, H, set_CF_sub(dest, src, H), set_OF_sub(res, src, dest, H))
  BY Zenon DEF AluSub, Return
<1>2. /\ Low(res, H) = d % (2 * H)
      /\ Low(res, H) \in 0 .. 2 * H - 1
      /\ set_CF_sub(dest, src, H) <=> d < 0
      /\ Sign(SignExt(res, H)) <=> Low(res, H) >= H
      /\ set_OF_sub(res, src, dest, H) <=> Signed(dest, H) - Signed(src, H) - c \notin -H .. H - 1
  <2>1. c \in {0, 1} /\ src \in Int /\ dest \in Int /\ H \in Int
    BY SizeOfWord
  <2>2. res = (dest + Minus(src) - c) % Word
    BY <2>1, SizeOfWord, SMT DEF Minus
  <2> HIDE DEF res
  <2> QED
    BY <2>1, <2>2, Subtracting, Zenon DEF set_CF_sub
<1> HIDE DEF res
<1>3. /\ last'.op = "sub" /\ last'.H = H /\ last'.src = src /\ last'.dest = dest
      /\ last'.cf = eflags.CF /\ last'.res = Low(res, H)
  BY <1>1
<1>4. /\ eflags'.CF <=> d < 0
      /\ eflags'.OF <=> Signed(dest, H) - Signed(src, H) - c \notin -H .. H - 1
      /\ eflags'.ZF <=> Low(res, H) = 0
      /\ eflags'.SF <=> Low(res, H) >= H
  BY <1>1, <1>2, Zenon DEF Flags, set_ZF, set_SF
<1>5. /\ Difference' = d
      /\ SignedDifference' = Signed(dest, H) - Signed(src, H) - c
  BY <1>3, SizeOfWord, SMT DEF Difference, SignedDifference, Carry, CarryIn, Signed
<1> HIDE DEF d, c
<1> QED
  BY <1>2, <1>3, <1>4, <1>5, SMT DEF SumsRight

\* The same of a subtraction with borrow.
LEMMA AluSbbIsRight ==
  ASSUME NEW H \in Halves, NEW src \in 0 .. 2 * H - 1, NEW dest \in 0 .. 2 * H - 1,
         AluSbb(src, dest, H)
  PROVE  SumsRight'
<1> DEFINE c   == CarryIn
<1> DEFINE d   == dest - src - c
<1> DEFINE res == (dest + Minus(src) - CarryIn) % Word
<1>1. /\ last' = [op |-> "sbb", H |-> H, src |-> src, dest |-> dest, cf |-> eflags.CF, res |-> Low(res, H)]
      /\ eflags' = Flags(res, H, set_CF_sbb(eflags.CF, dest, src, H), set_OF_sub(res, src, dest, H))
  BY Zenon DEF AluSbb, Return
<1>2. /\ Low(res, H) = d % (2 * H)
      /\ Low(res, H) \in 0 .. 2 * H - 1
      /\ set_CF_sbb(eflags.CF, dest, src, H) <=> d < 0
      /\ Sign(SignExt(res, H)) <=> Low(res, H) >= H
      /\ set_OF_sub(res, src, dest, H) <=> Signed(dest, H) - Signed(src, H) - c \notin -H .. H - 1
  <2>1. c \in {0, 1} /\ (eflags.CF => c = 1) /\ (~eflags.CF => c = 0)
    BY SMT DEF CarryIn
  <2>2. res = (dest + Minus(src) - c) % Word
    OBVIOUS
  <2> HIDE DEF c, res
  <2> QED
    BY <2>1, <2>2, Subtracting, Zenon DEF set_CF_sbb
<1> HIDE DEF res
<1>3. /\ last'.op = "sbb" /\ last'.H = H /\ last'.src = src /\ last'.dest = dest
      /\ last'.cf = eflags.CF /\ last'.res = Low(res, H)
  BY <1>1
<1>4. /\ eflags'.CF <=> d < 0
      /\ eflags'.OF <=> Signed(dest, H) - Signed(src, H) - c \notin -H .. H - 1
      /\ eflags'.ZF <=> Low(res, H) = 0
      /\ eflags'.SF <=> Low(res, H) >= H
  BY <1>1, <1>2, Zenon DEF Flags, set_ZF, set_SF
<1>5. /\ Difference' = d
      /\ SignedDifference' = Signed(dest, H) - Signed(src, H) - c
  BY <1>3, SizeOfWord, SMT DEF Difference, SignedDifference, Carry, CarryIn, Signed
<1> HIDE DEF d, c
<1> QED
  BY <1>2, <1>3, <1>4, <1>5, SMT DEF SumsRight

\* The name each operation leaves.
LEMMA Operation ==
  ASSUME NEW H, NEW src, NEW dest
  PROVE  /\ AluAdd(src, dest, H) => last'.op = "add"
         /\ AluAdc(src, dest, H) => last'.op = "adc"
         /\ AluSub(src, dest, H) => last'.op = "sub"
         /\ AluSbb(src, dest, H) => last'.op = "sbb"
         /\ AluMul(src, dest, H) => last'.op = "mul"
         /\ AluShl(src, dest, H) => last'.op = "shl"
         /\ AluShr(src, dest, H) => last'.op = "shr"
         /\ AluSar(src, dest, H) => last'.op = "sar"
         /\ AluDiv(src, dest, H) => last'.op = "div"
         /\ AluIdiv(src, dest, H) => last'.op = "idiv"
         /\ ShiftByNothing(dest, H) => last'.op = "shl0"
<1>1. ASSUME AluAdd(src, dest, H) PROVE last'.op = "add"
  BY <1>1, Zenon DEF AluAdd, Return
<1>2. ASSUME AluAdc(src, dest, H) PROVE last'.op = "adc"
  BY <1>2, Zenon DEF AluAdc, Return
<1>3. ASSUME AluSub(src, dest, H) PROVE last'.op = "sub"
  BY <1>3, Zenon DEF AluSub, Return
<1>4. ASSUME AluSbb(src, dest, H) PROVE last'.op = "sbb"
  BY <1>4, Zenon DEF AluSbb, Return
<1>5. ASSUME AluMul(src, dest, H) PROVE last'.op = "mul"
  BY <1>5, Zenon DEF AluMul
<1>6. ASSUME AluShl(src, dest, H) PROVE last'.op = "shl"
  BY <1>6, Zenon DEF AluShl, Return
<1>7. ASSUME AluShr(src, dest, H) PROVE last'.op = "shr"
  BY <1>7, Zenon DEF AluShr, Return
<1>8. ASSUME AluSar(src, dest, H) PROVE last'.op = "sar"
  BY <1>8, Zenon DEF AluSar, Return
<1>9. ASSUME AluDiv(src, dest, H) PROVE last'.op = "div"
  BY <1>9, Zenon DEF AluDiv, Divided
<1>10. ASSUME AluIdiv(src, dest, H) PROVE last'.op = "idiv"
  BY <1>10, Zenon DEF AluIdiv, Divided
<1>11. ASSUME ShiftByNothing(dest, H) PROVE last'.op = "shl0"
  BY <1>11, Zenon DEF ShiftByNothing
<1> QED
  BY <1>1, <1>2, <1>3, <1>4, <1>5, <1>6, <1>7, <1>8, <1>9, <1>10, <1>11

\* The other operations are not SumsRight's.
LEMMA OtherOperation ==
  ASSUME NEW H, NEW src, NEW dest,
         \/ AluMul(src, dest, H) \/ AluShl(src, dest, H) \/ AluShr(src, dest, H)
         \/ AluSar(src, dest, H) \/ ShiftByNothing(dest, H)
         \/ AluDiv(src, dest, H) \/ AluIdiv(src, dest, H)
  PROVE  SumsRight'
<1>1. last'.op \in {"mul", "shl", "shr", "sar", "shl0", "div", "idiv"}
  BY Operation
<1> QED
  BY <1>1, SMT DEF SumsRight

-----------------------------------------------------------------------------
\* Sums and differences are right for every word and every operand size.
THEOREM FlagsAreRight == AluSpec => []SumsRight
<1>1. AluInit => SumsRight
  BY SMT DEF AluInit, AluIdle, SumsRight
<1>2. SumsRight /\ [AluNext]_aluVars => SumsRight'
  <2> SUFFICES ASSUME SumsRight, [AluNext]_aluVars PROVE SumsRight'
    OBVIOUS
  <2>1. CASE UNCHANGED aluVars
    BY <2>1, Zenon DEF SumsRight, aluVars, Sum, Difference, SignedSum, SignedDifference
  <2>2. CASE last' = AluIdle
    BY <2>2, SMT DEF AluIdle, SumsRight
  <2>3. CASE AluCall
    <3>1. PICK H \in Halves : AluCall!(H)
      BY <2>3, Zenon DEF AluCall
    <3>2. ASSUME NEW src \in 0 .. 2 * H - 1, NEW dest \in 0 .. 2 * H - 1,
                 \/ AluAdd(src, dest, H) \/ AluAdc(src, dest, H)
                 \/ AluSub(src, dest, H) \/ AluSbb(src, dest, H)
          PROVE  SumsRight'
      BY <3>2, AluAddIsRight, AluAdcIsRight, AluSubIsRight, AluSbbIsRight
    <3>3. ASSUME NEW src, NEW dest,
                 \/ AluMul(src, dest, H) \/ AluShl(src, dest, H) \/ AluShr(src, dest, H)
                 \/ AluSar(src, dest, H) \/ ShiftByNothing(dest, H)
                 \/ AluDiv(src, dest, H) \/ AluIdiv(src, dest, H)
          PROVE  SumsRight'
      BY <3>3, OtherOperation
    <3> QED
      BY <3>1, <3>2, <3>3, Zenon
  <2> QED
    BY <2>1, <2>2, <2>3 DEF AluNext
<1> QED
  BY <1>1, <1>2, PTL DEF AluSpec

-----------------------------------------------------------------------------
(* Multiplication and division.                                            *)

\* Quotient and remainder of natural numbers.
LEMMA NatDivision ==
  ASSUME NEW n \in Nat, NEW k \in Nat \ {0}
  PROVE  /\ n \div k \in Nat /\ n % k \in 0 .. k - 1
         /\ n = (n \div k) * k + (n % k)
BY SMT

\* A quotient is not above the dividend, and below it if the divisor is not 1.
LEMMA QuotientBound ==
  ASSUME NEW n \in Nat, NEW k \in Nat \ {0}
  PROVE  n \div k <= n /\ (k >= 2 /\ n >= 1 => n \div k < n)
<1> DEFINE q == n \div k
<1>1. q \in Nat /\ n % k \in Nat /\ n = q * k + (n % k)
  BY NatDivision
<1> HIDE DEF q
<1>2. q * k >= q
  BY <1>1, SMT
<1>3. k >= 2 => q * k >= 2 * q
  BY <1>1, SMT
<1> QED
  BY <1>1, <1>2, <1>3 DEF q

\* C's division: the quotient is rounded toward zero, and the remainder is on
\* the dividend's side of it.
LEMMA Truncated ==
  ASSUME NEW d \in Int, NEW s \in Int, s # 0
  PROVE  /\ Quotient(d, s) \in Int /\ Remainder(d, s) \in Int
         /\ d = Quotient(d, s) * s + Remainder(d, s)
         /\ \/ -s < Remainder(d, s) /\ Remainder(d, s) < s
            \/ s < Remainder(d, s) /\ Remainder(d, s) < -s
         /\ Remainder(d, s) = 0 \/ (Remainder(d, s) < 0) = (d < 0)
<1> DEFINE a == IF d < 0 THEN -d ELSE d
<1> DEFINE b == IF s < 0 THEN -s ELSE s
<1> DEFINE n == a \div b
<1> DEFINE e == a % b
<1>1. a \in Nat /\ b \in Nat \ {0}
  OBVIOUS
<1>2. n \in Nat /\ e \in Nat /\ e < b /\ a = n * b + e
  <2> HIDE DEF a, b
  <2> QED
    BY <1>1, NatDivision
<1>3. Quotient(d, s) = IF (d < 0) <=> (s < 0) THEN n ELSE -n
  BY DEF Quotient
<1> HIDE DEF n, e
<1>4. CASE d >= 0 /\ s > 0
  <2>1. Quotient(d, s) = n /\ b = s /\ a = d
    BY <1>3, <1>4
  <2>2. Remainder(d, s) = e
    BY <1>2, <2>1, SMT DEF Remainder
  <2> QED
    BY <1>2, <1>4, <2>1, <2>2
<1>5. CASE d >= 0 /\ s < 0
  <2>1. Quotient(d, s) = -n /\ b = -s /\ a = d
    BY <1>3, <1>5
  <2>2. (-n) * s = n * b
    BY <1>2, <2>1, SMT
  <2>3. Remainder(d, s) = e
    BY <1>2, <2>1, <2>2 DEF Remainder
  <2> QED
    BY <1>2, <1>5, <2>1, <2>2, <2>3
<1>6. CASE d < 0 /\ s > 0
  <2>1. Quotient(d, s) = -n /\ b = s /\ a = -d
    BY <1>3, <1>6
  <2>2. (-n) * s = -(n * b) /\ n * b \in Int
    BY <1>2, <2>1, SMT
  <2>3. Remainder(d, s) = -e
    BY <1>2, <2>1, <2>2 DEF Remainder
  <2> QED
    BY <1>2, <1>6, <2>1, <2>2, <2>3
<1>7. CASE d < 0 /\ s < 0
  <2>1. Quotient(d, s) = n /\ b = -s /\ a = -d
    BY <1>3, <1>7
  <2>2. n * s = -(n * b) /\ n * b \in Int
    BY <1>2, <2>1, SMT
  <2>3. Remainder(d, s) = -e
    BY <1>2, <2>1, <2>2 DEF Remainder
  <2> QED
    BY <1>2, <1>7, <2>1, <2>2, <2>3
<1> QED
  BY <1>4, <1>5, <1>6, <1>7

\* Of an operand divided by an operand the quotient is an operand, but for the
\* least one divided by -1.
LEMMA QuotientFits ==
  ASSUME NEW H \in Nat \ {0}, NEW d \in -H .. H - 1, NEW s \in Int, s # 0,
         ~(d = -H /\ s = -1)
  PROVE  Quotient(d, s) \in -H .. H - 1
<1> DEFINE a == IF d < 0 THEN -d ELSE d
<1> DEFINE b == IF s < 0 THEN -s ELSE s
<1> DEFINE n == a \div b
<1>1. a \in Nat /\ b \in Nat \ {0} /\ a <= H
  OBVIOUS
<1>2. n \in Nat /\ n <= a /\ (b >= 2 /\ a >= 1 => n < a)
  <2> HIDE DEF a, b
  <2> QED
    BY <1>1, NatDivision, QuotientBound
<1>3. Quotient(d, s) = IF (d < 0) <=> (s < 0) THEN n ELSE -n
  BY DEF Quotient
<1> HIDE DEF n
<1>4. n < H \/ (d = -H /\ s = 1)
  BY <1>1, <1>2
<1> QED
  BY <1>1, <1>2, <1>3, <1>4

\* A signed number of an operand's size is what its low part stands for.
LEMMA SignedLow ==
  ASSUME NEW H \in Nat \ {0}, NEW q \in -H .. H - 1
  PROVE  Signed(Low(q, H), H) = q
<1> DEFINE M == 2 * H
<1>1. M \in Nat \ {0} /\ q \in Int /\ -M <= q /\ q < M
  OBVIOUS
<1> HIDE DEF M
<1>2. q % M = IF q < 0 THEN q + M ELSE q
  <2>1. CASE q < 0
    BY <1>1, <2>1, ModNear
  <2>2. CASE 0 <= q
    BY <1>1, <2>2, ModNear
  <2> QED
    BY <1>1, <2>1, <2>2
<1>3. Low(q, H) = IF q < 0 THEN q + 2 * H ELSE q
  BY <1>2 DEF Low, M
<1> QED
  BY <1>3 DEF Signed

\* A dividend of two operands that stands for a number of one is cut to it.
LEMMA SignedDividend ==
  ASSUME NEW H \in Nat \ {0}, NEW dest \in 0 .. 4 * H * H - 1,
         Signed(dest, 2 * H * H) \in -H .. H - 1
  PROVE  Signed(DividendOf(dest, H), H) = Signed(dest, 2 * H * H)
<1> DEFINE d == Signed(dest, 2 * H * H)
<1> DEFINE M == 2 * H
<1>1. d \in Int /\ -H <= d /\ d < H /\ M \in Nat \ {0}
  OBVIOUS
<1>2. 4 * H * H = M * M /\ 2 * (2 * H * H) = M * M /\ 2 * H * H \in Nat /\ M * M \in Nat
  BY SMT
<1>3. dest = d \/ (d < 0 /\ dest = d + M * M)
  <2>1. d = IF dest < 2 * H * H THEN dest ELSE dest - M * M
    BY <1>2 DEF Signed
  <2> HIDE DEF d
  <2> QED
    BY <1>1, <1>2, <2>1
<1> HIDE DEF d
<1>4. CASE dest = d
  BY <1>1, <1>4, SignedLow DEF DividendOf, d
<1>5. CASE d < 0 /\ dest = d + M * M
  <2>1. dest = (M - 1) * M + (d + M) /\ M - 1 \in Int
    BY <1>1, <1>2, <1>5, SMT
  <2>2. dest % M = d + M
    <3>1. d + M \in Int /\ 0 <= d + M /\ d + M < M
      BY <1>1, <1>5
    <3> HIDE DEF M
    <3> QED
      BY <1>1, <2>1, <3>1, ModMultiple
  <2> QED
    BY <1>1, <1>5, <2>2 DEF DividendOf, Low, Signed, d
<1> QED
  BY <1>3, <1>4, <1>5

\* DIV, IDIV and MUL, for every operand size.
LEMMA AluDivIsRight ==
  ASSUME NEW H \in Halves, NEW src \in 0 .. 2 * H - 1, NEW dest \in 0 .. 4 * H * H - 1,
         AluDiv(src, dest, H)
  PROVE  QuotientsRight'
<1>1. H \in Nat \ {0} /\ src \in Int /\ src # 0 /\ dest \in Nat
  BY SizeOfWord, SMT DEF AluDiv
<1>2. /\ last'.op = "div" /\ last'.H = H /\ last'.src = src /\ last'.dest = dest
      /\ last'.res = <<Quotient(DividendOf(dest, H), src), Remainder(dest, src)>>
  BY Zenon DEF AluDiv, Divided
<1>3. CASE dest < 2 * H
  <2>1. DividendOf(dest, H) = dest
    BY <1>1, <1>3, LowOfOperand DEF DividendOf
  <2>2. last'.res[1] = Quotient(dest, src) /\ last'.res[2] = Remainder(dest, src)
    BY <1>2, <2>1
  <2>3. /\ dest = Quotient(dest, src) * src + Remainder(dest, src)
        /\ \/ -src < Remainder(dest, src) /\ Remainder(dest, src) < src
           \/ src < Remainder(dest, src) /\ Remainder(dest, src) < -src
        /\ Remainder(dest, src) = 0 \/ (Remainder(dest, src) < 0) = (dest < 0)
    <3>1. dest \in Int
      BY <1>1
    <3> QED
      BY <1>1, <3>1, Truncated, Zenon
  <2> QED
    BY <1>2, <2>2, <2>3, Zenon DEF QuotientsRight
<1>4. CASE ~(dest < 2 * H)
  BY <1>2, <1>4 DEF QuotientsRight
<1> QED
  BY <1>3, <1>4

\* (The signed dividend is cut to one operand as well.)
LEMMA AluIdivIsRight ==
  ASSUME NEW H \in Halves, NEW src \in 0 .. 2 * H - 1, NEW dest \in 0 .. 4 * H * H - 1,
         AluIdiv(src, dest, H)
  PROVE  QuotientsRight'
<1> DEFINE s == Signed(src, H)
<1> DEFINE d == Signed(dest, 2 * H * H)
<1> DEFINE q == Signed(Low(Quotient(Signed(DividendOf(dest, H), H), s), H), H)
<1>1. H \in Nat \ {0} /\ src # 0 /\ 2 * H * H \in Nat /\ dest \in Nat
  BY SizeOfWord, SMT DEF AluIdiv
<1>2. s \in Int /\ s # 0 /\ d \in Int
  BY <1>1 DEF Signed
<1>3. /\ last'.op = "idiv" /\ last'.H = H /\ last'.src = s /\ last'.dest = d
      /\ last'.res = <<q, Remainder(d, s)>>
  BY Zenon DEF AluIdiv, Divided
<1>4. ASSUME d \in -H .. H - 1, ~(d = -H /\ s = -1)
      PROVE  q = Quotient(d, s)
  <2>1. Signed(DividendOf(dest, H), H) = d
    BY <1>1, <1>4, SignedDividend
  <2>2. Quotient(d, s) \in -H .. H - 1
    <3> HIDE DEF d, s
    <3> QED
      BY <1>1, <1>2, <1>4, QuotientFits
  <2> QED
    BY <1>1, <2>1, <2>2, SignedLow
<1> HIDE DEF q, d, s
<1>5. CASE d \in -H .. H - 1 /\ ~(d = -H /\ s = -1)
  <2>1. last'.res[1] = Quotient(d, s) /\ last'.res[2] = Remainder(d, s)
    BY <1>3, <1>4, <1>5
  <2>2. /\ d = Quotient(d, s) * s + Remainder(d, s)
        /\ \/ -s < Remainder(d, s) /\ Remainder(d, s) < s
           \/ s < Remainder(d, s) /\ Remainder(d, s) < -s
        /\ Remainder(d, s) = 0 \/ (Remainder(d, s) < 0) = (d < 0)
    BY <1>2, Truncated, Zenon
  <2> QED
    BY <1>3, <2>1, <2>2, Zenon DEF QuotientsRight
<1>6. CASE ~(d \in -H .. H - 1 /\ ~(d = -H /\ s = -1))
  BY <1>3, <1>6 DEF QuotientsRight
<1> QED
  BY <1>5, <1>6

\* (CF and OF are kept in the record of flags.)
LEMMA AluMulIsRight ==
  ASSUME NEW H \in Halves, NEW src \in 0 .. 2 * H - 1, NEW dest \in 0 .. 2 * H - 1,
         {"CF", "OF"} \subseteq DOMAIN eflags, AluMul(src, dest, H)
  PROVE  QuotientsRight'
<1> DEFINE res == dest * src
<1>1. H \in Nat \ {0} /\ res \in Nat /\ 2 * H \in Nat \ {0}
  BY SizeOfWord, SMT
<1>2. /\ last'.op = "mul" /\ last'.H = H /\ last'.res = res
      /\ eflags' = [eflags EXCEPT !.CF = res \div (2 * H) > 0, !.OF = res \div (2 * H) > 0]
  BY Zenon DEF AluMul
<1> HIDE DEF res
<1>3. res \div (2 * H) > 0 <=> res >= 2 * H
  <2> DEFINE M == 2 * H
  <2> DEFINE q == res \div M
  <2>1. q \in Nat /\ res % M \in Nat /\ res % M < M /\ res = q * M + (res % M)
    <3>1. M \in Nat \ {0}
      BY <1>1
    <3>2. res \in Nat
      BY <1>1
    <3> HIDE DEF M
    <3>3. res \div M \in Nat /\ res % M \in 0 .. M - 1 /\ res = (res \div M) * M + (res % M)
      BY <3>1, <3>2, NatDivision, Zenon
    <3>4. q \in Nat /\ res = q * M + (res % M)
      BY <3>3, Zenon
    <3> HIDE DEF q
    <3> QED
      BY <3>1, <3>3, <3>4
  <2>2. M \in Nat \ {0}
    BY <1>1
  <2> HIDE DEF M, q
  <2>3. q = 0 => q * M = 0
    BY <2>2, SMT
  <2>4. q >= 1 => q * M >= M
    BY <2>1, <2>2, SMT
  <2>5. q > 0 <=> res >= M
    BY <2>1, <2>2, <2>3, <2>4, <1>1
  <2> QED
    BY <2>5 DEF q, M
<1>4. eflags'.CF = (res \div (2 * H) > 0) /\ eflags'.OF = (res \div (2 * H) > 0)
  BY <1>2, Zenon
<1> QED
  BY <1>2, <1>3, <1>4, Zenon DEF QuotientsRight

\* The flags stay a record of flags.
FlagsShape == {"CF", "OF"} \subseteq DOMAIN eflags

\* (No operation leaves one of them out.)
LEMMA FlagsShapeStep == FlagsShape /\ [AluNext]_aluVars => FlagsShape'
<1> SUFFICES ASSUME FlagsShape, [AluNext]_aluVars PROVE FlagsShape'
  OBVIOUS
<1>1. ASSUME NEW res, NEW H, NEW cf, NEW of, eflags' = Flags(res, H, cf, of) PROVE FlagsShape'
  BY <1>1 DEF Flags, FlagsShape
<1>2. ASSUME NEW b, eflags' = [eflags EXCEPT !.CF = b, !.OF = b] PROVE FlagsShape'
  BY <1>2 DEF FlagsShape
<1>3. CASE UNCHANGED eflags
  BY <1>3 DEF FlagsShape
<1>4. CASE AluCall
  <2>1. PICK H \in Halves : AluCall!(H)
    BY <1>4, Zenon DEF AluCall
  <2>2. ASSUME NEW src, NEW dest,
               \/ AluAdd(src, dest, H) \/ AluAdc(src, dest, H)
               \/ AluSub(src, dest, H) \/ AluSbb(src, dest, H)
               \/ AluShl(src, dest, H) \/ AluShr(src, dest, H) \/ AluSar(src, dest, H)
        PROVE  FlagsShape'
    BY <2>2, <1>1, Zenon DEF AluAdd, AluAdc, AluSub, AluSbb, AluShl, AluShr, AluSar, Return
  <2>3. ASSUME NEW src, NEW dest,
               \/ AluMul(src, dest, H) \/ ShiftByNothing(dest, H)
               \/ AluDiv(src, dest, H) \/ AluIdiv(src, dest, H)
        PROVE  FlagsShape'
    BY <2>3, <1>2, <1>3, Zenon DEF AluMul, ShiftByNothing, AluDiv, AluIdiv, Divided
  <2> QED
    BY <2>1, <2>2, <2>3, Zenon
<1> QED
  BY <1>3, <1>4, Zenon DEF AluNext, aluVars

\* MUL says whether its product needs the high half, and DIV and IDIV divide
\* what fits, for every operand size.
THEOREM QuotientsAreRight == AluSpec => []QuotientsRight
<1>1. AluInit => QuotientsRight /\ FlagsShape
  BY SMT DEF AluInit, AluIdle, QuotientsRight, FlagsShape
<1>2. QuotientsRight /\ FlagsShape /\ [AluNext]_aluVars => QuotientsRight' /\ FlagsShape'
  <2> SUFFICES ASSUME QuotientsRight, FlagsShape, [AluNext]_aluVars PROVE QuotientsRight'
    BY FlagsShapeStep
  <2>1. CASE UNCHANGED aluVars
    BY <2>1, Zenon DEF QuotientsRight, aluVars
  <2>2. CASE last' = AluIdle
    BY <2>2, SMT DEF AluIdle, QuotientsRight
  <2>3. CASE AluCall
    <3>1. PICK H \in Halves : AluCall!(H)
      BY <2>3, Zenon DEF AluCall
    <3>2. ASSUME last'.op \notin {"mul", "div", "idiv"} PROVE QuotientsRight'
      BY <3>2, Zenon DEF QuotientsRight
    <3>3. ASSUME NEW src, NEW dest,
                 \/ AluAdd(src, dest, H) \/ AluAdc(src, dest, H)
                 \/ AluSub(src, dest, H) \/ AluSbb(src, dest, H)
                 \/ AluShl(src, dest, H) \/ AluShr(src, dest, H)
                 \/ AluSar(src, dest, H) \/ ShiftByNothing(dest, H)
          PROVE  QuotientsRight'
      <4>1. last'.op \in {"add", "adc", "sub", "sbb", "shl", "shr", "sar", "shl0"}
        BY <3>3, Operation
      <4> QED
        BY <3>2, <4>1
    <3>4. ASSUME NEW src \in 0 .. 2 * H - 1, NEW dest \in 0 .. 2 * H - 1, AluMul(src, dest, H)
          PROVE  QuotientsRight'
      BY <3>4, AluMulIsRight DEF FlagsShape
    <3>5. ASSUME NEW src \in 0 .. 2 * H - 1, NEW dest \in 0 .. 4 * H * H - 1,
                 AluDiv(src, dest, H) \/ AluIdiv(src, dest, H)
          PROVE  QuotientsRight'
      BY <3>5, AluDivIsRight, AluIdivIsRight
    <3> QED
      BY <3>1, <3>3, <3>4, <3>5, Zenon
  <2> QED
    BY <2>1, <2>2, <2>3 DEF AluNext
<1> QED
  BY <1>1, <1>2, PTL DEF AluSpec

-----------------------------------------------------------------------------
(* The shifts.                                                             *)

\* A count and the one before it.
LEMMA ShiftPowers ==
  ASSUME NEW n \in 1 .. WordBits
  PROVE  /\ Pow2[n - 1] \in Int /\ Pow2[n - 1] > 0
         /\ Pow2[n] = 2 * Pow2[n - 1] /\ Pow2[0] = 1
<1>1. n - 1 \in Nat /\ (n - 1) + 1 = n
  OBVIOUS
<1>2. Pow2[(n - 1) + 1] = 2 * Pow2[n - 1]
  BY <1>1, PowersStep
<1> QED
  BY <1>1, <1>2, PowersNat, PowersBase

\* The least bit of a number.
LEMMA LastBit ==
  ASSUME NEW x
  PROVE  Bit(x, 0) = (x \div 1) % 2
BY PowersBase DEF Bit

\* SHL: neither cutting the product to a word in between nor doubling it last
\* changes what an operand keeps of it.
LEMMA ShiftedLeft ==
  ASSUME NEW H \in Halves, NEW Q \in Int, Q > 0, NEW dest \in 0 .. 2 * H - 1
  PROVE  LET temp == (dest * Q) % Word
             res  == (temp * 2) % Word
         IN  /\ Low(res, H) = (dest * (2 * Q)) % (2 * H)
             /\ Sign(SignExt(temp, H)) <=> (dest * (2 * Q)) % (4 * H) >= 2 * H
<1>1. H \in Int /\ H >= 1 /\ Word \in Int /\ Word >= 2 * H /\ dest \in Int
  BY SizeOfWord
<1>3. PICK y \in Int : y = dest * Q
  BY <1>1, SMT
<1>4. dest * (2 * Q) = 2 * y
  BY <1>1, <1>3, SMT
<1>5. PICK M \in Int : M = 2 * H /\ M > 0
  BY <1>1
<1>2. PICK W \in Int : W = Word /\ W > 0 /\ W % M = 0
  BY <1>1, <1>5, AluAssumption
<1>6. PICK k \in Int : W = M * k
  <2>1. W \div M \in Int /\ W = M * (W \div M) + 0
    BY <1>2, <1>5, DivModOf
  <2>2. PICK j \in Int : W = M * j + 0
    BY <2>1, Zenon
  <2> QED
    BY <2>2
<1>7. PICK d \in Int, temp \in 0 .. W - 1 : temp = y % W /\ y = W * d + temp
  <2>1. y \div W \in Int /\ y % W \in 0 .. W - 1 /\ y = W * (y \div W) + (y % W)
    BY <1>2, DivModOf, Zenon
  <2> QED
    BY <2>1, Zenon
<1>8. PICK t \in Int : t = temp * 2
  BY <1>2, <1>7
<1>9. ASSUME NEW x \in Int PROVE (x % W) % M = x % M
  <2>1. M > 0 /\ W > 0 /\ W % M = 0
    BY <1>2, <1>5
  <2> QED
    BY <2>1, ModOfMod
<1>10. (2 * y) % M = t % M
  <2>1. PICK q \in Int : 2 * y = M * q + t
    <3>1. W * d = M * (k * d) /\ k * d \in Int
      BY <1>6, SMT
    <3>2. PICK q \in Int : q = 2 * (k * d)
      BY <3>1
    <3>3. 2 * (M * (k * d)) = M * q
      BY <3>1, <3>2, SMT
    <3>4. 2 * y = 2 * (W * d) + t
      <4>1. PICK z \in Int : z = W * d
        BY <1>2, <1>7, SMT
      <4>2. y = z + temp /\ temp \in Int
        BY <1>2, <1>7, <4>1
      <4> QED
        BY <1>8, <4>1, <4>2
    <3> QED
      BY <3>1, <3>2, <3>3, <3>4
  <2>2. (M * q + t) % M = t % M
    <3>1. M \in Int /\ M > 0
      BY <1>5
    <3>2. t \in Int
      BY <1>8
    <3> QED
      BY <3>1, <3>2, ModAdd, Zenon
  <2> QED
    BY <2>1, <2>2
<1>11. temp % M = y % M
  BY <1>7, <1>9
<1>12. (2 * y) % (2 * M) >= M <=> y % M >= H
  <2>1. PICK e \in Int, s \in 0 .. M - 1 : s = y % M /\ y = M * e + s
    <3>1. y \div M \in Int /\ y % M \in 0 .. M - 1 /\ y = M * (y \div M) + (y % M)
      BY <1>5, DivModOf, Zenon
    <3> QED
      BY <3>1, Zenon
  <2>2. 2 * y = (2 * M) * e + 2 * s /\ 2 * s \in 0 .. 2 * M - 1
    BY <2>1, SMT
  <2>3. (2 * y) % (2 * M) = 2 * s
    <3>1. PICK N \in Int : N = 2 * M /\ N > 0
      BY <1>5
    <3>2. PICK z \in Int : z = 2 * y
      OBVIOUS
    <3>3. PICK r \in 0 .. N - 1 : r = 2 * s
      BY <2>2, <3>1
    <3>4. z = N * e + r
      BY <2>2, <3>1, <3>2, <3>3
    <3>5. z % N = r
      BY <3>1, <3>4, DivModIs
    <3> QED
      BY <3>1, <3>2, <3>3, <3>5
  <2> QED
    BY <1>1, <1>5, <2>1, <2>3
<1>13. Sign(SignExt(temp, H)) <=> temp % M >= H
  <2>1. temp \in Int
    BY <1>2, <1>7
  <2>2. Low(temp, H) = temp % M /\ temp % M \in 0 .. M - 1
    <3>1. temp % M \in 0 .. M - 1
      BY <1>5, <2>1, DivModOf
    <3> QED
      BY <1>5, <3>1 DEF Low
  <2> QED
    BY <1>5, <2>1, <2>2, Extended
<1>14. /\ temp = (dest * Q) % Word
       /\ t % W = (temp * 2) % Word
       /\ Low(t % W, H) = (t % W) % M
       /\ 4 * H = 2 * M
  BY <1>1, <1>2, <1>3, <1>5, <1>7, <1>8 DEF Low
<1> QED
  <2>1. Low(t % W, H) = (2 * y) % M
    BY <1>8, <1>9, <1>10, <1>14
  <2>2. Sign(SignExt(temp, H)) <=> (2 * y) % (2 * M) >= M
    BY <1>11, <1>12, <1>13
  <2> QED
    BY <1>4, <1>5, <1>14, <2>1, <2>2, Zenon


\* SAR: an arithmetic shift of the signed operand, one bit at a time.
LEMMA SignedOperand ==
  ASSUME NEW H \in Halves, NEW dest \in 0 .. 2 * H - 1
  PROVE  Low(dest, H) = dest /\ Signed(dest, H) \in Int
<1>1. H \in Int
  BY SizeOfWord
<1> QED
  BY <1>1, LowOfOperand DEF Signed

\* (The step of each of the three.)
LEMMA AluShlIsRight ==
  ASSUME NEW H \in Halves, NEW n \in 1 .. WordBits, NEW dest \in 0 .. 2 * H - 1,
         AluShl(n, dest, H)
  PROVE  ShiftsRight'
<1> DEFINE temp == (dest * Pow2[n - 1]) % Word
<1> DEFINE res  == (temp * 2) % Word
<1>1. /\ last' = [op |-> "shl", H |-> H, src |-> n, dest |-> dest, cf |-> eflags.CF, res |-> Low(res, H)]
      /\ eflags' = Flags(res, H, Sign(SignExt(temp, H)), FALSE)
  BY Zenon DEF AluShl, Return
<1>2. /\ Low(res, H) = (dest * Pow2[n]) % (2 * H)
      /\ Sign(SignExt(temp, H)) <=> (dest * Pow2[n]) % (4 * H) >= 2 * H
  <2>1. /\ Pow2[n - 1] \in Int /\ Pow2[n - 1] > 0
        /\ Pow2[n] = 2 * Pow2[n - 1]
    BY ShiftPowers
  <2> QED
    BY <2>1, ShiftedLeft, Zenon
<1> HIDE DEF temp, res
<1>3. last'.op = "shl" /\ last'.H = H /\ last'.src = n /\ last'.dest = dest /\ last'.res = Low(res, H)
  BY <1>1
<1>4. eflags'.CF <=> Sign(SignExt(temp, H))
  BY <1>1, Zenon DEF Flags
<1> QED
  BY <1>2, <1>3, <1>4, Zenon DEF ShiftsRight

\* SHR: the bit lost last is the highest of the remainder.
LEMMA AluShrIsRight ==
  ASSUME NEW H \in Halves, NEW n \in 1 .. WordBits, NEW dest \in 0 .. 2 * H - 1,
         AluShr(n, dest, H)
  PROVE  ShiftsRight'
<1> DEFINE temp == Low(dest, H) \div Pow2[n - 1]
<1>1. /\ last' = [op |-> "shr", H |-> H, src |-> n, dest |-> dest, cf |-> eflags.CF, res |-> Low(temp \div 2, H)]
      /\ eflags' = Flags(temp \div 2, H, ShiftedOut(temp), FALSE)
  BY Zenon DEF AluShr, Return
<1>2. PICK Q \in Int : Q = Pow2[n - 1] /\ Q > 0 /\ Pow2[n] = 2 * Q
  BY ShiftPowers
<1>3. dest \in Nat /\ Low(dest, H) = dest /\ H \in Int /\ H >= 1
  BY SizeOfWord, SignedOperand
<1>4. temp = dest \div Q
  BY <1>2, <1>3
<1> HIDE DEF temp
<1>5. temp \div 2 = dest \div (2 * Q) /\ (temp % 2 = 1 <=> dest % (2 * Q) >= Q)
  <2>1. dest \in Int
    BY <1>3
  <2> QED
    BY <1>2, <1>4, <2>1, HalfAgain, Zenon
<1>6. temp \in Int
  BY <1>2, <1>3, <1>4, DivModOf
<1>7. ShiftedOut(temp) <=> temp % 2 = 1
  <2>1. temp \div 1 = temp
    BY <1>6, SMT
  <2> QED
    BY <2>1, LastBit DEF ShiftedOut
<1>8. Low(temp \div 2, H) = temp \div 2
  <2>1. PICK P \in Nat \ {0} : P = 2 * Q
    BY <1>2
  <2>2. dest \div P \in Nat /\ dest \div P <= dest
    BY <1>3, <2>1, NatDivision, QuotientBound
  <2>3. dest \div P \in 0 .. 2 * H - 1
    BY <1>3, <2>2
  <2> QED
    BY <1>5, <2>1, <2>3, LowOfOperand
<1>9. last'.op = "shr" /\ last'.H = H /\ last'.src = n /\ last'.dest = dest /\ last'.res = temp \div 2
  BY <1>1, <1>8
<1>10. eflags'.CF <=> dest % (2 * Q) >= Q
  <2>1. eflags'.CF <=> ShiftedOut(temp)
    BY <1>1, Zenon DEF Flags
  <2> QED
    BY <1>5, <1>7, <2>1
<1> QED
  BY <1>2, <1>5, <1>9, <1>10, Zenon DEF ShiftsRight

\* (The quotient of the signed operand, cut to a word and then to the operand.)
LEMMA AluSarIsRight ==
  ASSUME NEW H \in Halves, NEW n \in 1 .. WordBits, NEW dest \in 0 .. 2 * H - 1,
         AluSar(n, dest, H)
  PROVE  ShiftsRight'
<1> DEFINE v    == Signed(Low(dest, H), H)
<1> DEFINE temp == v \div Pow2[n - 1]
<1> DEFINE res  == (temp \div 2) % Word
<1>1. /\ last' = [op |-> "sar", H |-> H, src |-> n, dest |-> dest, cf |-> eflags.CF, res |-> Low(res, H)]
      /\ eflags' = Flags(res, H, ShiftedOut(temp), FALSE)
  BY Zenon DEF AluSar, Return
<1>2. PICK Q \in Int : Q = Pow2[n - 1] /\ Q > 0 /\ Pow2[n] = 2 * Q
  BY ShiftPowers
<1>3. v = Signed(dest, H) /\ v \in Int
  BY SignedOperand
<1>4. temp = v \div Q
  BY <1>2
<1> HIDE DEF v, temp
<1>5. temp \div 2 = v \div (2 * Q) /\ (temp % 2 = 1 <=> v % (2 * Q) >= Q)
  BY <1>2, <1>3, <1>4, HalfAgain, Zenon
<1>6. temp \in Int /\ temp \div 2 \in Int
  BY <1>2, <1>3, <1>4, DivModOf
<1>7. ShiftedOut(temp) <=> temp % 2 = 1
  <2>1. temp \div 1 = temp
    BY <1>6, SMT
  <2> QED
    BY <2>1, LastBit DEF ShiftedOut
<1>8. Low(res, H) = (temp \div 2) % (2 * H)
  <2>1. PICK M \in Int : M = 2 * H /\ M > 0
    BY SizeOfWord
  <2>2. Word \in Int /\ Word > 0 /\ Word % M = 0
    BY <2>1, AluAssumption
  <2>3. PICK x \in Int : x = temp \div 2
    BY <1>6
  <2>4. (x % Word) % M = x % M
    <3>1. M > 0
      BY <2>1
    <3> QED
      BY <2>2, <3>1, ModOfMod
  <2> QED
    BY <2>1, <2>3, <2>4 DEF Low
<1> HIDE DEF res
<1>9. last'.op = "sar" /\ last'.H = H /\ last'.src = n /\ last'.dest = dest /\ last'.res = Low(res, H)
  BY <1>1
<1>10. eflags'.CF <=> v % (2 * Q) >= Q
  <2>1. eflags'.CF <=> ShiftedOut(temp)
    BY <1>1, Zenon DEF Flags
  <2> QED
    BY <1>5, <1>7, <2>1
<1> QED
  BY <1>2, <1>3, <1>5, <1>8, <1>9, <1>10, Zenon DEF ShiftsRight

\* SHL, SHR and SAR multiply and divide by a power of two and CF is the last bit
\* that left, for every width of the word, operand size and count.
THEOREM ShiftsAreRight == AluSpec => []ShiftsRight
<1>1. AluInit => ShiftsRight
  BY SMT DEF AluInit, AluIdle, ShiftsRight
<1>2. ShiftsRight /\ [AluNext]_aluVars => ShiftsRight'
  <2> SUFFICES ASSUME ShiftsRight, [AluNext]_aluVars PROVE ShiftsRight'
    OBVIOUS
  <2>1. CASE UNCHANGED aluVars
    BY <2>1, Zenon DEF ShiftsRight, aluVars
  <2>2. CASE last' = AluIdle
    BY <2>2, SMT DEF AluIdle, ShiftsRight
  <2>3. CASE AluCall
    <3>1. PICK H \in Halves : AluCall!(H)
      BY <2>3, Zenon DEF AluCall
    <3>2. ASSUME last'.op \notin {"shl", "shr", "sar"} PROVE ShiftsRight'
      BY <3>2, Zenon DEF ShiftsRight
    <3>3. ASSUME NEW n \in 1 .. WordBits, NEW dest \in 0 .. 2 * H - 1,
                 AluShl(n, dest, H) \/ AluShr(n, dest, H) \/ AluSar(n, dest, H)
          PROVE  ShiftsRight'
      BY <3>3, AluShlIsRight, AluShrIsRight, AluSarIsRight
    <3>4. ASSUME NEW src, NEW dest,
                 \/ AluAdd(src, dest, H) \/ AluAdc(src, dest, H)
                 \/ AluSub(src, dest, H) \/ AluSbb(src, dest, H)
                 \/ AluMul(src, dest, H) \/ ShiftByNothing(dest, H)
                 \/ AluDiv(src, dest, H) \/ AluIdiv(src, dest, H)
          PROVE  ShiftsRight'
      <4>1. last'.op \in {"add", "adc", "sub", "sbb", "mul", "shl0", "div", "idiv"}
        BY <3>4, Operation
      <4> QED
        BY <3>2, <4>1
    <3> QED
      BY <3>1, <3>3, <3>4, Zenon
  <2> QED
    BY <2>1, <2>2, <2>3 DEF AluNext
<1> QED
  BY <1>1, <1>2, PTL DEF AluSpec
=============================================================================
