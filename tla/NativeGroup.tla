---------------------------- MODULE NativeGroup ----------------------------
(***************************************************************************)
(* The native ProductionGroupContext and its elements, over Bignum.  An    *)
(* element is the array of its words; addition modulo Q relies on Q lying  *)
(* in the upper half of its words.                                         *)
(***************************************************************************)
EXTENDS Bignum

CONSTANTS P, Q,        \* the primes; Q divides P - 1
          PLen, QLen   \* their words (64 and 4)

ASSUME NativeGroupAssumption ==
  /\ {P, Q, PLen, QLen} \subseteq Nat /\ PLen > QLen /\ QLen > 0
  /\ P < Power(W, PLen) /\ 2 * P > Power(W, PLen)
  /\ Q < Power(W, QLen) /\ 2 * Q > Power(W, QLen)
  /\ (P - 1) % Q = 0 /\ P % 2 = 1 /\ Q % 2 = 1

p == Words(P, PLen)
q == Words(Q, QLen)
p256minusQ == Words(Power(W, QLen) - Q, QLen)
montCtxP == MontCtx(p)
montCtxQ == MontCtx(q)

\* ZERO_MOD_Q is built with the width of P; the functions for Q read the
\* first words of an element only.
zeroModQ == Zeros(PLen)
Low(e) == SubSeq(e, 1, QLen)

-----------------------------------------------------------------------------
(***************************************************************************)
(* Big-endian arrays to n words and back.  A leading zero more than fits   *)
(* is dropped, a shorter array is padded, a longer one throws.             *)
(***************************************************************************)
TooBig(b, n) == Len(b) > n /\ ~(Len(b) = n + 1 /\ b[1] = 0)

ToHaclBignum(b, n) ==
  IF Len(b) = n + 1 THEN Reverse(Tail(b)) ELSE Reverse(b) \o Zeros(n - Len(b))

ByteArrayQ(e) == Reverse(Low(e))
ByteArrayP(e) == Reverse(e)

-----------------------------------------------------------------------------
InBoundsQ(e) == LtMask(Low(e), q)
IsZeroQ(e) == e = zeroModQ
EqualQ(a, b) == ByteArrayQ(a) = ByteArrayQ(b)
CompareQ(a, b) == IF LtMask(Low(a), Low(b)) THEN -1 ELSE IF a = b THEN 0 ELSE 1

\* Null, or the element.
BinaryToQ(b) ==
  IF TooBig(b, QLen) \/ ~InBoundsQ(ToHaclBignum(b, QLen)) THEN << >>
  ELSE ToHaclBignum(b, QLen)

\* Adds the minimum to what is less.
AtLeast(r, minimum) ==
  LET m == Words(minimum, Len(r)) IN IF LtMask(r, m) THEN Add(r, m).words ELSE r

\* Arrays of at most QLen bytes; a longer one is hashed.
SafeBinaryToQ(b, minimum) ==
  LET r == ToHaclBignum(b, QLen)
  IN  AtLeast(IF LtMask(r, q) THEN r ELSE Add(r, p256minusQ).words, minimum)

\* A mutant: only the comparison with q is looked at.
PlusQNoCarry(a, b) ==
  LET sum == Add(Low(a), Low(b))
  IN  IF LtMask(sum.words, q) THEN sum.words ELSE Add(sum.words, p256minusQ).words

PlusQ(a, b) ==
  LET sum == Add(Low(a), Low(b))
  IN  IF LtMask(sum.words, q) /\ sum.carry = 0 THEN sum.words
      ELSE Add(sum.words, p256minusQ).words

\* A zero is returned as it is.
UnaryMinusQ(a) == IF EqualQ(a, zeroModQ) THEN a ELSE Sub(q, Low(a)).words
MinusQ(a, b) == PlusQ(a, UnaryMinusQ(b))
TimesQ(a, b) == ModPrecomp(montCtxQ, Mul[<<Low(a), Low(b)>>])
MultInvQ(a) == ModInvPrime(montCtxQ, Low(a))
DivQ(a, b) == TimesQ(a, MultInvQ(b))
PowQ(a, e) == ModExpVartime(montCtxQ, Low(a), Low(e))

qMinus1ModQ == MinusQ(zeroModQ, Words(1, QLen))

-----------------------------------------------------------------------------
InBoundsP(e) == LtMask(e, p)
IsZeroP(e) == e = Zeros(PLen)
EqualP(a, b) == ByteArrayP(a) = ByteArrayP(b)
CompareP(a, b) == IF LtMask(a, b) THEN -1 ELSE IF a = b THEN 0 ELSE 1

BinaryToP(b) ==
  IF TooBig(b, PLen) \/ ~InBoundsP(ToHaclBignum(b, PLen)) THEN << >>
  ELSE ToHaclBignum(b, PLen)

\* Of a longer array the lower bytes are taken.
SafeBinaryToP(b, minimum) ==
  LET low == IF Len(b) > PLen THEN SubSeq(b, Len(b) - PLen + 1, Len(b)) ELSE b
  IN  AtLeast(ModPrecomp(montCtxP, Padded(ToHaclBignum(low, PLen))), minimum)

PowP(a, e) == ModExpVartime(montCtxP, a, Low(e))
TimesP(a, b) == ModPrecomp(montCtxP, Mul[<<a, b>>])
MultInvP(a) == PowP(a, qMinus1ModQ)
DivP(a, b) == TimesP(a, MultInvP(b))
IsValidResidue(a) == InBoundsP(a) /\ PowP(a, q) = Words(1, PLen)

(***************************************************************************)
(* Montgomery elements, which PowRadix multiplies.                         *)
(***************************************************************************)
ToMontgomery(a) == ToMont(montCtxP, a)
TimesM(a, b) == MontMul(montCtxP, a, b)
ToElementModP(a) == FromMont(montCtxP, a)
=============================================================================
