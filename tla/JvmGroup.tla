------------------------------ MODULE JvmGroup ------------------------------
(***************************************************************************)
(* The same operations on the JVM: an element is a BigInteger.  (BigInteger*)
(* itself is arithmetic.)                                                  *)
(***************************************************************************)
EXTENDS Integers, Sequences

CONSTANTS P, Q,   \* the primes
          Byte,   \* number of values of a byte
          I       \* 2 to the number of bits of P: the radix of Montgomery forms

ToBigInteger(b) ==
  LET high[i \in 0 .. Len(b)] == IF i = 0 THEN 0 ELSE Byte * high[i - 1] + b[i]
  IN  high[Len(b)]
ModPow(a, e, n) ==
  LET power[i \in 0 .. e] == IF i = 0 THEN 1 % n ELSE (a * power[i - 1]) % n
  IN  power[e]
Compare(a, b) == IF a < b THEN -1 ELSE IF a = b THEN 0 ELSE 1

\* modInverse; it throws where there is none.
ModInverse(a, n) == CHOOSE x \in 0 .. n - 1 : (a * x) % n = 1

Null == -1
AtLeast(r, minimum) == IF r < minimum THEN r + minimum ELSE r

BinaryToQ(b) == IF ToBigInteger(b) >= Q THEN Null ELSE ToBigInteger(b)
SafeBinaryToQ(b, minimum) == AtLeast(ToBigInteger(b) % Q, minimum)
PlusQ(a, b) == (a + b) % Q
UnaryMinusQ(a) == IF a = 0 THEN a ELSE Q - a
MinusQ(a, b) == PlusQ(a, UnaryMinusQ(b))
TimesQ(a, b) == (a * b) % Q
DivQ(a, b) == TimesQ(a, ModInverse(b, Q))
PowQ(a, e) == ModPow(a, e, Q)

BinaryToP(b) == IF ToBigInteger(b) >= P THEN Null ELSE ToBigInteger(b)
SafeBinaryToP(b, minimum) == AtLeast(ToBigInteger(b) % P, minimum)
PowP(a, e) == ModPow(a, e, P)
TimesP(a, b) == (a * b) % P
MultInvP(a) == ModInverse(a, P)
DivP(a, b) == (a * ModInverse(b, P)) % P
IsValidResidue(a) == a < P /\ ModPow(a, Q, P) = 1

(***************************************************************************)
(* Montgomery elements: montgomeryIPrime is 1/I modulo P, montgomeryPPrime *)
(* is -1/P modulo I.                                                       *)
(***************************************************************************)
montgomeryIPrime == ModInverse(I % P, P)
montgomeryPPrime == I - ModInverse(P, I)

ToMontgomery(a) == (a * I) % P
TimesM(a, b) ==
  LET w == a * b
      z == ((((w % I) * montgomeryPPrime) % I) * P + w) \div I
  IN  IF z >= P THEN z - P ELSE z
ToElementModP(a) == (a * montgomeryIPrime) % P
=============================================================================
