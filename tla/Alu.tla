-------------------------------- MODULE Alu ---------------------------------
(***************************************************************************)
(* NEMU's ALU: what each alu_ function returns and does to EFLAGS, at any  *)
(* operand size.  A size is given by H, the value of its sign bit: 2^7,    *)
(* 2^15 and 2^31 in the code, where Word is 2^32.                          *)
(***************************************************************************)
EXTENDS Powers, FiniteSets

CONSTANTS Word, Halves,
          ByteBits,   \* 8 in the code: what PF looks at
          WordBits    \* 32 in the code

ASSUME AluAssumption ==
  /\ Word \in Nat \ {0} /\ Halves \subseteq Nat \ {0}
  /\ \A H \in Halves : Word % (2 * H) = 0

VARIABLES
  eflags,   \* [CF, PF, ZF, SF, OF]
  last      \* the call just made: [op, H, src, dest, cf (before it), res]

aluVars == <<eflags, last>>

Low(x, H)     == x % (2 * H)                                \* the mask of data_size
SignExt(x, H) == IF Low(x, H) < H THEN Low(x, H) ELSE Low(x, H) + (Word - 2 * H)
Signed(x, H)  == IF x < H THEN x ELSE x - 2 * H
Sign(x)       == 2 * x >= Word
Bit(x, i)     == (x \div Pow2[i]) % 2

-----------------------------------------------------------------------------
(* set_CF_add ... set_OF_sub.                                              *)

set_CF_add(res, src, H)   == SignExt(res, H) < SignExt(src, H)
\* (Mutant of set_CF_adc: the carry that came in is not looked at.)
set_CF_adcPlain(cf, res, src, H) == SignExt(res, H) < SignExt(src, H)
set_CF_adc(cf, res, src, H) == IF cf THEN SignExt(res, H) <= SignExt(src, H)
                                 ELSE SignExt(res, H) < SignExt(src, H)
set_CF_sub(dest, src, H)  == SignExt(dest, H) < SignExt(src, H)
set_CF_sbb(cf, dest, src, H) == IF cf THEN SignExt(dest, H) <= SignExt(src, H)
                                  ELSE SignExt(dest, H) < SignExt(src, H)
set_PF(res) == Cardinality({i \in 0 .. ByteBits - 1 : Bit(res, i) = 1}) % 2 = 0
set_ZF(res, H) == Low(res, H) = 0
set_SF(res, H) == Sign(SignExt(res, H))
set_OF_add(res, src, dest, H) ==
  /\ Sign(SignExt(src, H)) = Sign(SignExt(dest, H))
  /\ Sign(SignExt(src, H)) # Sign(SignExt(res, H))
set_OF_sub(res, src, dest, H) ==
  /\ Sign(SignExt(src, H)) # Sign(SignExt(dest, H))
  /\ Sign(SignExt(src, H)) = Sign(SignExt(res, H))

\* What an operation ends with: the flags, and res cut to its size.
Flags(res, H, cf, of) ==
  [CF |-> cf, PF |-> set_PF(res), ZF |-> set_ZF(res, H), SF |-> set_SF(res, H), OF |-> of]
Return(op, src, dest, res, H, cf, of) ==
  /\ eflags' = Flags(res, H, cf, of)
  /\ last' = [op |-> op, H |-> H, src |-> src, dest |-> dest, cf |-> eflags.CF, res |-> Low(res, H)]

-----------------------------------------------------------------------------
CarryIn == IF eflags.CF THEN 1 ELSE 0
Minus(src) == (Word - src) % Word       \* (src ^ 0xFFFFFFFF) + 1

AluAdd(src, dest, H) ==
  LET res == (dest + src) % Word
  IN  Return("add", src, dest, res, H, set_CF_add(res, src, H), set_OF_add(res, src, dest, H))

AluAdc(src, dest, H) ==
  LET res == (dest + src + CarryIn) % Word
  IN  Return("adc", src, dest, res, H, set_CF_adc(eflags.CF, res, src, H), set_OF_add(res, src, dest, H))

AluSub(src, dest, H) ==
  LET res == (dest + Minus(src)) % Word
  IN  Return("sub", src, dest, res, H, set_CF_sub(dest, src, H), set_OF_sub(res, src, dest, H))

AluSbb(src, dest, H) ==
  LET res == (dest + Minus(src) - CarryIn) % Word
  IN  Return("sbb", src, dest, res, H, set_CF_sbb(eflags.CF, dest, src, H), set_OF_sub(res, src, dest, H))

\* alu_shl and alu_sal are the same text.  C leaves a shift by the word's width
\* undefined, so src - 1 stays below it.
AluShl(src, dest, H) ==
  LET temp == (dest * Pow2[src - 1]) % Word
      res  == (temp * 2) % Word
  IN  Return("shl", src, dest, res, H, Sign(SignExt(temp, H)), FALSE)

\* (Mutant of ShiftedOut: the lowest bit of the result.)
ShiftedOutLate(temp) == Bit(temp, 1) = 1
ShiftedOut(temp)     == Bit(temp, 0) = 1
AluShr(src, dest, H) ==
  LET temp == Low(dest, H) \div Pow2[src - 1]
  IN  Return("shr", src, dest, temp \div 2, H, ShiftedOut(temp), FALSE)

\* temp is a signed integer of the operand's size; res is a word again.
AluSar(src, dest, H) ==
  LET value == Signed(Low(dest, H), H)
      temp  == value \div Pow2[src - 1]
      res   == (temp \div 2) % Word
  IN  Return("sar", src, dest, res, H, ShiftedOut(temp), FALSE)

\* A count of 0 returns dest and leaves the flags.
ShiftByNothing(dest, H) ==
  /\ last' = [op |-> "shl0", H |-> H, src |-> 0, dest |-> dest, cf |-> eflags.CF, res |-> Low(dest, H)]
  /\ UNCHANGED eflags

AluMul(src, dest, H) ==
  LET res == dest * src
      big == res \div (2 * H) > 0
  IN  /\ eflags' = [eflags EXCEPT !.CF = big, !.OF = big]
      /\ last' = [op |-> "mul", H |-> H, src |-> src, dest |-> dest, cf |-> eflags.CF, res |-> res]

\* alu_div and alu_idiv cut the dividend, which has twice the operand's size,
\* to one size; alu_mod and alu_imod do not.
DividendOf(dest, H) == Low(dest, H)

\* C's division rounds toward zero.
\* (Mutant of Quotient: rounded down.)
QuotientFloor(d, s) == IF s > 0 THEN d \div s ELSE (-d) \div (-s)
Quotient(d, s) == LET q == (IF d < 0 THEN -d ELSE d) \div (IF s < 0 THEN -s ELSE s)
                  IN  IF (d < 0) = (s < 0) THEN q ELSE -q
Remainder(d, s) == d - Quotient(d, s) * s

Divided(op, src, dest, H, res) ==
  /\ last' = [op |-> op, H |-> H, src |-> src, dest |-> dest, cf |-> eflags.CF, res |-> res]
  /\ UNCHANGED eflags

\* DIV and IDIV: a quotient and a remainder.  NEMU stops when src is 0.
AluDiv(src, dest, H) ==
  /\ src # 0
  /\ Divided("div", src, dest, H, <<Quotient(DividendOf(dest, H), src), Remainder(dest, src)>>)

AluIdiv(src, dest, H) ==
  LET s == Signed(src, H)
      d == Signed(dest, 2 * H * H)
  IN  /\ src # 0
      /\ Divided("idiv", s, d, H,
                 <<Signed(Low(Quotient(Signed(DividendOf(dest, H), H), s), H), H), Remainder(d, s)>>)

-----------------------------------------------------------------------------
AluIdle == [op |-> "none", H |-> 0, src |-> 0, dest |-> 0, cf |-> FALSE, res |-> 0]

AluInit ==
  /\ eflags = [CF |-> FALSE, PF |-> FALSE, ZF |-> FALSE, SF |-> FALSE, OF |-> FALSE]
  /\ last = AluIdle

\* operand_read cuts its operand to the size; the dividend is two operands.
AluCall == \E H \in Halves :
  \/ \E src, dest \in 0 .. 2 * H - 1 :
       \/ AluAdd(src, dest, H) \/ AluAdc(src, dest, H)
       \/ AluSub(src, dest, H) \/ AluSbb(src, dest, H)
       \/ AluMul(src, dest, H)
  \/ \E count \in 1 .. WordBits, dest \in 0 .. 2 * H - 1 :
       AluShl(count, dest, H) \/ AluShr(count, dest, H) \/ AluSar(count, dest, H)
  \/ \E dest \in 0 .. 2 * H - 1 : ShiftByNothing(dest, H)
  \/ \E src \in 0 .. 2 * H - 1, dest \in 0 .. 4 * H * H - 1 :
       AluDiv(src, dest, H) \/ AluIdiv(src, dest, H)

\* Between two calls only the flags remain.
AluNext == IF last = AluIdle THEN AluCall ELSE last' = AluIdle /\ UNCHANGED eflags
AluSpec == AluInit /\ [][AluNext]_aluVars

-----------------------------------------------------------------------------
Carry(c)     == IF c THEN 1 ELSE 0

Sum        == last.dest + last.src + (IF last.op = "adc" THEN Carry(last.cf) ELSE 0)
Difference == last.dest - last.src - (IF last.op = "sbb" THEN Carry(last.cf) ELSE 0)
SignedSum  == Signed(last.dest, last.H) + Signed(last.src, last.H)
                + (IF last.op = "adc" THEN Carry(last.cf) ELSE 0)
SignedDifference == Signed(last.dest, last.H) - Signed(last.src, last.H)
                      - (IF last.op = "sbb" THEN Carry(last.cf) ELSE 0)

\* What ADD, ADC, SUB and SBB leave in the destination and the flags is what
\* arithmetic says: the carry is the overflow of the unsigned sum, the overflow
\* flag that of the signed one, although the code computes both from the
\* truncated result with comparisons of sign-extended words.
SumsRight ==
  /\ last.op \in {"add", "adc"} =>
       /\ last.res = Sum % (2 * last.H)
       /\ eflags.CF <=> Sum >= 2 * last.H
       /\ eflags.OF <=> SignedSum \notin -last.H .. last.H - 1
  /\ last.op \in {"sub", "sbb"} =>
       /\ last.res = Difference % (2 * last.H)
       /\ eflags.CF <=> Difference < 0
       /\ eflags.OF <=> SignedDifference \notin -last.H .. last.H - 1
  /\ last.op \in {"add", "adc", "sub", "sbb"} =>
       /\ eflags.ZF <=> last.res = 0
       /\ eflags.SF <=> last.res >= last.H

\* Shifts by a count below the word's width give the quotient or the product by
\* a power of two, and CF the last bit that left the operand, for every count and
\* not only where the 80386 defines it.  The code does not mask the count to five
\* bits as the 80386 does: at the width itself a shift that should change nothing
\* clears the operand.
ShiftsRight ==
  LET n  == last.src
      v  == Signed(last.dest, last.H)
  IN  n < WordBits =>
      /\ last.op = "shl" => /\ last.res = (last.dest * Pow2[n]) % (2 * last.H)
                            /\ eflags.CF <=> (last.dest * Pow2[n]) % (4 * last.H) >= 2 * last.H
      /\ last.op = "shr" => /\ last.res = last.dest \div Pow2[n]
                            /\ eflags.CF <=> last.dest % Pow2[n] >= Pow2[n - 1]
      /\ last.op = "sar" => /\ last.res = (v \div Pow2[n]) % (2 * last.H)
                            /\ eflags.CF <=> v % Pow2[n] >= Pow2[n - 1]

\* MUL's flags tell whether the product needs its high half.  DIV and IDIV
\* divide, with the remainder on the dividend's side of zero, as long as the
\* dividend fits one operand and the quotient too: otherwise the quotient is not
\* the one that belongs to the remainder (alu.c:202, 218), and nothing traps.
QuotientsRight ==
  /\ last.op = "mul" => (eflags.CF <=> last.res >= 2 * last.H) /\ eflags.OF = eflags.CF
  /\ \/ last.op = "div" /\ last.dest < 2 * last.H
     \/ /\ last.op = "idiv" /\ last.dest \in -last.H .. last.H - 1
        /\ ~(last.dest = -last.H /\ last.src = -1)
     => LET s == last.src
            q == last.res[1]
            r == last.res[2]
        IN  /\ last.dest = q * s + r
            /\ (-s < r /\ r < s) \/ (s < r /\ r < -s)
            /\ r = 0 \/ (r < 0) = (last.dest < 0)
=============================================================================
