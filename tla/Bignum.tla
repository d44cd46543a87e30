------------------------------- MODULE Bignum -------------------------------
(***************************************************************************)
(* Natural numbers as arrays of machine words, lowest word first: the      *)
(* operations of the HACL library that the native group calls (the widths  *)
(* of Q in Hacl_Bignum256, those of P in Hacl_Bignum64), with their carry  *)
(* chains, conditional subtractions and Montgomery reductions.             *)
(*                                                                         *)
(* A byte of the code's big-endian arrays stands for the 8 bytes of one    *)
(* word: their order inside a word is that of a processor instruction.     *)
(***************************************************************************)
EXTENDS Integers, SequencesExt

\* b ^ n, and the number of n digits in some base, lowest first.
Power(b, n) ==
  LET power[i \in 0 .. n] == IF i = 0 THEN 1 ELSE b * power[i - 1] IN power[n]
Number(base, digits, n) ==
  LET number[i \in 0 .. n] ==
        IF i = 0 THEN 0 ELSE number[i - 1] + digits[i] * Power(base, i - 1)
  IN  number[n]

CONSTANTS
  WordBits,      \* bits of a word (64)
  WindowBits,    \* bits of the exponent taken at once (4)
  KaratsubaMin   \* least length that is multiplied by halves (32)

W == Power(2, WordBits)
Word == 0 .. W - 1

ASSUME BignumAssumption ==
  /\ WordBits \in Nat \ {0, 1} /\ WindowBits \in Nat \ {0} /\ KaratsubaMin \in Nat \ {0, 1}
  /\ WordBits % WindowBits = 0

Zeros(n) == [i \in 1 .. n |-> 0]
FirstHalf(a) == SubSeq(a, 1, Len(a) \div 2)
SecondHalf(a) == SubSeq(a, Len(a) \div 2 + 1, Len(a))

\* a with b written over it from position k on.
Over(a, k, b) ==
  [i \in DOMAIN a |-> IF i - k + 1 \in DOMAIN b THEN b[i - k + 1] ELSE a[i]]

\* What an array stands for, and the n words of a number (not in the code).
Value(a) == Number(W, a, Len(a))
Words(v, n) == [i \in 1 .. n |-> (v \div Power(W, i - 1)) % W]

-----------------------------------------------------------------------------
(***************************************************************************)
(* Addition, subtraction and rows of a multiplication: the words, and what *)
(* is carried out of the last.                                             *)
(***************************************************************************)
Add(a, b) ==
  LET carry[i \in 0 .. Len(a)] ==
        IF i = 0 THEN 0 ELSE (a[i] + b[i] + carry[i - 1]) \div W
  IN  [words |-> [i \in DOMAIN a |-> (a[i] + b[i] + carry[i - 1]) % W],
       carry |-> carry[Len(a)]]

Sub(a, b) ==
  LET borrow[i \in 0 .. Len(a)] ==
        IF i > 0 /\ a[i] < b[i] + borrow[i - 1] THEN 1 ELSE 0
  IN  [words |-> [i \in DOMAIN a |-> (a[i] - b[i] - borrow[i - 1]) % W],
       carry |-> borrow[Len(a)]]

\* acc + a * w
MulAdd(a, w, acc) ==
  LET carry[i \in 0 .. Len(a)] ==
        IF i = 0 THEN 0 ELSE (acc[i] + a[i] * w + carry[i - 1]) \div W
  IN  [words |-> [i \in DOMAIN a |-> (acc[i] + a[i] * w + carry[i - 1]) % W],
       carry |-> carry[Len(a)]]

\* The words of r from k on, with a * w added and the carry put behind them.
AddRow(r, k, a, w) ==
  LET row == MulAdd(a, w, SubSeq(r, k, k + Len(a) - 1))
  IN  Over(r, k, Append(row.words, row.carry))

\* A mutant: the lowest word decides.
LtMaskFromTop(a, b) == a[1] < b[1]

\* Words compare from the lowest up: the highest that differ decide.
LtMask(a, b) ==
  LET lt[i \in 0 .. Len(a)] ==
        IF i = 0 THEN FALSE ELSE IF a[i] = b[i] THEN lt[i - 1] ELSE a[i] < b[i]
  IN  lt[Len(a)]

Schoolbook(a, b) ==
  LET rows[j \in 0 .. Len(b)] ==
        IF j = 0 THEN Zeros(Len(a) + Len(b)) ELSE AddRow(rows[j - 1], j, a, b[j])
  IN  rows[Len(b)]

\* The products of different words once, doubled, and the squares.
SchoolbookSqr(a) ==
  LET rows[j \in 0 .. Len(a)] ==
        IF j <= 1 THEN Zeros(2 * Len(a)) ELSE AddRow(rows[j - 1], j, SubSeq(a, 1, j - 1), a[j])
      squares == [i \in 1 .. 2 * Len(a) |->
                    LET square == a[(i + 1) \div 2] * a[(i + 1) \div 2]
                    IN  IF i % 2 = 1 THEN square % W ELSE square \div W]
      crossed == rows[Len(a)]
  IN  Add(Add(crossed, crossed).words, squares).words

-----------------------------------------------------------------------------
(***************************************************************************)
(* Karatsuba: three products of halves.  low + high - (a0 - a1) * (b0 - b1)*)
(* is the middle; the sign of the difference is known from the borrows.    *)
(***************************************************************************)
Distance(a, b) == IF Sub(a, b).carry = 1 THEN Sub(b, a).words ELSE Sub(a, b).words

\* Puts the halves together; the last carry runs through the upper words.
Together(low, high, product, negative) ==
  LET n == Len(low)
      sum == Add(low, high)
      middle == IF negative THEN Add(sum.words, product) ELSE Sub(sum.words, product)
      over == IF negative THEN sum.carry + middle.carry ELSE sum.carry - middle.carry
      halves == low \o high
      added == Add(SubSeq(halves, n \div 2 + 1, n \div 2 + n), middle.words)
      top == Add(SubSeq(halves, n + n \div 2 + 1, 2 * n),
                 Over(Zeros(n \div 2), 1, <<over + added.carry>>))
  IN  SubSeq(halves, 1, n \div 2) \o added.words \o top.words

BySchoolbook(n) == n < KaratsubaMin \/ n % 2 = 1

\* Of two arrays of the same length.
Factors == {x \in Seq(Word) \X Seq(Word) : Len(x[1]) = Len(x[2])}
Mul[x \in Factors] ==
  IF BySchoolbook(Len(x[1])) THEN Schoolbook(x[1], x[2])
  ELSE LET a0 == FirstHalf(x[1]) a1 == SecondHalf(x[1])
           b0 == FirstHalf(x[2]) b1 == SecondHalf(x[2])
       IN  Together(Mul[<<a0, b0>>], Mul[<<a1, b1>>],
                    Mul[<<Distance(a0, a1), Distance(b0, b1)>>],
                    Sub(a0, a1).carry # Sub(b0, b1).carry)

Sqr[a \in Seq(Word)] ==
  IF BySchoolbook(Len(a)) THEN SchoolbookSqr(a)
  ELSE LET a0 == FirstHalf(a) a1 == SecondHalf(a)
       IN  Together(Sqr[a0], Sqr[a1], Sqr[Distance(a0, a1)], FALSE)

-----------------------------------------------------------------------------
(***************************************************************************)
(* The Montgomery context of a modulus n: n itself, -1/n modulo a word,    *)
(* and the square of W^Len(n) modulo n.                                    *)
(***************************************************************************)
\* One halving per bit; u and v keep the equation of Bezout.
ModInvLimb(n0) ==
  LET step[i \in 0 .. WordBits] ==
        IF i = 0 THEN [u |-> 1, v |-> 0]
        ELSE LET s == step[i - 1]
                 odd == s.u % 2
             IN  [u |-> (s.u + odd * n0) \div 2, v |-> s.v \div 2 + odd * (W \div 2)]
  IN  step[WordBits].v

\* Words with a carry, less than twice n, reduced modulo n.
Below(n, res) ==
  LET reduced == Sub(res.words, n)
  IN  IF res.carry = 0 /\ reduced.carry = 1 THEN res.words ELSE reduced.words

\* a + b modulo n.
AddMod(n, a, b) == Below(n, Add(a, b))

\* The position, from 0, of the highest word that is not zero.
TopIndex(n) == Max({0} \cup {i \in 1 .. Len(n) - 1 : n[i + 1] # 0})

PrecompR2(n) ==
  LET nBits == WordBits * TopIndex(n)
      double[i \in 0 .. 2 * WordBits * Len(n) - nBits] ==
        IF i = 0 THEN Over(Zeros(Len(n)), TopIndex(n) + 1, <<1>>)
        ELSE LET d == double[i - 1] IN AddMod(n, d, d)
  IN  double[2 * WordBits * Len(n) - nBits]

MontCtx(n) == [n |-> n, mu |-> ModInvLimb(n[1]), r2 |-> PrecompR2(n)]

(***************************************************************************)
(* One row per word makes that word zero; the upper half is left, and a    *)
(* carry out of it.                                                        *)
(***************************************************************************)
Cleared(ctx, c) ==
  LET len == Len(ctx.n)
      pass[i \in 0 .. len] ==
        IF i = 0 THEN [words |-> c, carry |-> 0]
        ELSE LET p == pass[i - 1]
                 row == MulAdd(ctx.n, (ctx.mu * p.words[i]) % W, SubSeq(p.words, i, i + len - 1))
                 top == p.words[i + len] + row.carry + p.carry
             IN  [words |-> Over(p.words, i, Append(row.words, top % W)),
                  carry |-> top \div W]
  IN  [words |-> SubSeq(pass[len].words, len + 1, 2 * len), carry |-> pass[len].carry]

\* A mutant: the last subtraction is only made after a carry.
ReductionIfCarry(ctx, c) ==
  LET res == Cleared(ctx, c)
  IN  IF res.carry = 0 THEN res.words ELSE Sub(res.words, ctx.n).words

\* Below n.
Reduction(ctx, c) == Below(ctx.n, Cleared(ctx, c))

\* Below W^Len(n), perhaps not below n.
Fitting(n, res) == IF res.carry = 0 THEN res.words ELSE Sub(res.words, n).words

AlmostReduction(ctx, c) == Fitting(ctx.n, Cleared(ctx, c))

Padded(a) == a \o Zeros(Len(a))

ToMont(ctx, a) == Reduction(ctx, Mul[<<a, ctx.r2>>])
FromMont(ctx, a) == Reduction(ctx, Padded(a))
MontMul(ctx, a, b) == Reduction(ctx, Mul[<<a, b>>])
AlmostMontMul(ctx, a, b) == AlmostReduction(ctx, Mul[<<a, b>>])
AlmostMontSqr(ctx, a) == AlmostReduction(ctx, Sqr[a])

-----------------------------------------------------------------------------
\* a, of twice the length of n, modulo n.
ModPrecomp(ctx, a) == Reduction(ctx, Mul[<<AlmostReduction(ctx, a), ctx.r2>>])

\* The k-th window of b from the lowest bits.
Window(b, k) ==
  LET bit == WindowBits * k
  IN  (b[bit \div WordBits + 1] \div Power(2, bit % WordBits)) % Power(2, WindowBits)

(***************************************************************************)
(* a^b modulo n for an exponent of at least 200 bits, which the callers'   *)
(* always are: a table of the first powers, and per window, from the top,  *)
(* that many squarings and one product.                                    *)
(***************************************************************************)
ModExpVartime(ctx, a, b) ==
  LET aM == ToMont(ctx, a)
      one == FromMont(ctx, ctx.r2)
      power[i \in 0 .. Power(2, WindowBits) - 1] ==
        IF i = 0 THEN one ELSE AlmostMontMul(ctx, aM, power[i - 1])
      squared(r) == LET s[i \in 0 .. WindowBits] ==
                          IF i = 0 THEN r ELSE AlmostMontSqr(ctx, s[i - 1])
                    IN  s[WindowBits]
      windows == (WordBits * Len(b)) \div WindowBits
      res[i \in 0 .. windows] ==
        IF i = 0 THEN one
        ELSE AlmostMontMul(ctx, squared(res[i - 1]), power[Window(b, windows - i)])
  IN  FromMont(ctx, res[windows])

\* For a prime n: a^(n - 2).
ModInvPrime(ctx, a) ==
  ModExpVartime(ctx, a, Sub(ctx.n, Over(Zeros(Len(a)), 1, <<2>>)).words)
=============================================================================
