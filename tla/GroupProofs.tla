----------------------------- MODULE GroupProofs -----------------------------
(***************************************************************************)
(* Proofs about Group for primes, generators and words of any size that    *)
(* satisfy its assumptions: both platforms compute the same elements.      *)
(*                                                                         *)
(* IsQ and IsP relate the native words to the BigInteger.  One lemma per   *)
(* operation of NativeGroup shows that it and its counterpart of JvmGroup  *)
(* preserve the relation; the invariant says that it always holds.         *)
(***************************************************************************)
EXTENDS Group, BignumProofs

-----------------------------------------------------------------------------
(***************************************************************************)
(* The native group's primes, their words and their contexts.              *)
(***************************************************************************)
LEMMA SmallWords ==
  ASSUME NEW n \in Nat, NEW v \in Nat, v < Power(W, n)
  PROVE  Words(v, n) \in Array(n) /\ Value(Words(v, n)) = v
<1> DEFINE pw == Power(W, n)
<1>1. Words(v, n) \in Array(n) /\ Value(Words(v, n)) = v % pw
  BY WordsValue
<1>2. pw \in Nat \ {0}
  BY WType, PowerPositive
<1>3. v < pw
  OBVIOUS
<1> HIDE DEF pw
<1>4. v \in 0 .. pw - 1
  BY <1>2, <1>3
<1>5. v % pw = v
  BY <1>2, <1>4, ModSmall
<1> QED BY <1>1, <1>5

\* The primes are odd and fill the upper half of their words.
LEMMA GroupNumbers ==
  /\ PLen \in Nat /\ QLen \in Nat /\ PLen > QLen /\ QLen > 0
  /\ P \in Nat /\ Q \in Nat /\ P % 2 = 1 /\ Q % 2 = 1 /\ P > 2 /\ Q > 2 /\ Q < P
  /\ P < Power(W, PLen) /\ Q < Power(W, QLen) /\ 2 * P > Power(W, PLen) /\ 2 * Q > Power(W, QLen)
  /\ Power(W, PLen) \in Nat \ {0} /\ Power(W, QLen) \in Nat \ {0}
<1> DEFINE wp == Power(W, PLen)
           wq == Power(W, QLen)
<1>1. /\ PLen \in Nat /\ QLen \in Nat /\ PLen > QLen /\ QLen > 0
      /\ P \in Nat /\ Q \in Nat /\ P % 2 = 1 /\ Q % 2 = 1
      /\ P < wp /\ Q < wq /\ 2 * P > wp /\ 2 * Q > wq /\ (P - 1) % Q = 0
  BY NativeGroupAssumption
<1>2. wp \in Nat \ {0} /\ wq \in Nat \ {0}
  BY <1>1, WType, PowerPositive
<1>3. ASSUME NEW n \in Nat \ {0}
      PROVE  Power(W, n) >= 2
  <2> DEFINE m == n - 1
             V == W
             x == Power(V, m)
  <2>1. m \in Nat /\ m + 1 = n /\ V \in Int /\ V \in Nat \ {0} /\ V >= 2
    BY WType
  <2> HIDE DEF m, V
  <2>2. Power(V, m + 1) = V * Power(V, m)
    BY <2>1, PowerNext
  <2>3. x \in Nat \ {0}
    BY <2>1, PowerPositive
  <2> HIDE DEF x
  <2>4. V * x >= V * 1
    BY <2>1, <2>3
  <2> DEFINE y == V * x
  <2>5. y \in Int /\ y >= V
    BY <2>1, <2>3, <2>4
  <2> HIDE DEF y
  <2>6. y >= 2
    BY <2>1, <2>5
  <2> QED BY <2>1, <2>2, <2>6 DEF x, y, V
<1>4. wp >= 2 /\ wq >= 2
  <2>1. PLen \in Nat \ {0} /\ QLen \in Nat \ {0}
    BY <1>1
  <2>2. Power(W, PLen) >= 2
    BY <1>3, <2>1
  <2>3. Power(W, QLen) >= 2
    BY <1>3, <2>1
  <2> QED BY <2>2, <2>3
<1> HIDE DEF wp, wq
<1>5. P > 2 /\ Q > 2
  BY <1>1, <1>2, <1>4
<1>6. Q < P
  <2> SUFFICES ASSUME P <= Q PROVE FALSE
    BY <1>1
  <2> DEFINE v == P - 1
             n == Q
  <2>1. v \in 0 .. n - 1 /\ n \in Nat \ {0} /\ v # 0
    BY <1>1, <1>5
  <2>2. v % n = 0
    BY <1>1
  <2> HIDE DEF v, n
  <2>3. v % n = v
    BY <2>1, ModSmall
  <2> QED BY <2>1, <2>2, <2>3
<1> QED BY <1>1, <1>2, <1>5, <1>6 DEF wp, wq

\* The words of P and their context.
LEMMA PWords == p \in Array(PLen) /\ Value(p) = P /\ Modulus(p, PLen) /\ Context(montCtxP, p, PLen)
<1>1. p \in Array(PLen) /\ Value(p) = P
  BY GroupNumbers, SmallWords DEF p
<1>2. Modulus(p, PLen)
  BY <1>1, GroupNumbers DEF Modulus
<1>3. Context(montCtxP, p, PLen)
  BY <1>2, MontCtxContext DEF montCtxP
<1> QED BY <1>1, <1>2, <1>3

\* The words of Q and their context.
LEMMA QWords == q \in Array(QLen) /\ Value(q) = Q /\ Modulus(q, QLen) /\ Context(montCtxQ, q, QLen)
<1>1. q \in Array(QLen) /\ Value(q) = Q
  BY GroupNumbers, SmallWords DEF q
<1>2. Modulus(q, QLen)
  BY <1>1, GroupNumbers DEF Modulus
<1>3. Context(montCtxQ, q, QLen)
  BY <1>2, MontCtxContext DEF montCtxQ
<1> QED BY <1>1, <1>2, <1>3

\* The words with which Q is subtracted: they make up W^QLen with it.
LEMMA MinusQWords == p256minusQ \in Array(QLen) /\ Value(p256minusQ) = Power(W, QLen) - Q
<1> DEFINE v == Power(W, QLen) - Q
<1>1. v \in Nat /\ v < Power(W, QLen)
  BY GroupNumbers
<1> HIDE DEF v
<1>2. Words(v, QLen) \in Array(QLen) /\ Value(Words(v, QLen)) = v
  BY <1>1, GroupNumbers, SmallWords
<1> QED BY <1>2 DEF p256minusQ, v

(***************************************************************************)
(* The elements and the numbers they stand for.                            *)
(***************************************************************************)
IsQ(e, x) == e \in Array(QLen) \cup {zeroModQ} /\ Value(e) = x /\ x \in 0 .. Q - 1
IsP(e, x) == e \in Array(PLen) /\ Value(e) = x /\ x \in 0 .. P - 1

\* A slice of the whole array.
LEMMA WholeSlice ==
  ASSUME NEW n \in Nat, NEW a \in Array(n)
  PROVE  SubSeq(a, 1, n) = a
<1> DEFINE s == SubSeq(a, 1, n)
<1>1. s \in Array(n) /\ \A i \in 1 .. n : s[i] = a[i]
  <2>1. 1 + n - 1 = n /\ 1 + n - 1 <= n
    OBVIOUS
  <2> DEFINE one == 1
  <2>2. one \in Nat \ {0} /\ one + n - 1 = n /\ one + n - 1 <= n /\ \A i \in 1 .. n : one - 1 + i = i
    OBVIOUS
  <2> HIDE DEF one
  <2>3. /\ SubSeq(a, one, one + n - 1) \in Array(n)
        /\ \A i \in 1 .. n : SubSeq(a, one, one + n - 1)[i] = a[one - 1 + i]
    BY ONLY <2>2, n \in Nat, a \in Array(n), SliceArray
  <2> QED BY <2>2, <2>3 DEF one
<1> HIDE DEF s
<1>2. s = a
  BY <1>1, SameArray
<1> QED BY <1>2 DEF s

\* Functions for Q read the first words only, which hold the value.
LEMMA LowValue ==
  ASSUME NEW e, NEW x, IsQ(e, x)
  PROVE  Low(e) \in Array(QLen) /\ Value(Low(e)) = x /\ x \in Nat /\ x < Q
<1>1. QLen \in Nat /\ PLen \in Nat /\ QLen <= PLen /\ Q \in Nat
  BY GroupNumbers
<1>2. CASE e \in Array(QLen)
  <2>1. Low(e) = e
    BY <1>1, <1>2, WholeSlice DEF Low
  <2> QED BY <1>1, <1>2, <2>1 DEF IsQ
<1>3. CASE e = zeroModQ
  <2> DEFINE z == Zeros(PLen)
             s == SubSeq(z, 1, QLen)
  <2>1. z \in Array(PLen) /\ Value(z) = 0
    BY <1>1, ZerosValue
  <2>2. s \in Array(QLen) /\ \A i \in 1 .. QLen : s[i] = z[i]
    <3> DEFINE one == 1
    <3>1. one \in Nat \ {0} /\ one + QLen - 1 = QLen /\ one + QLen - 1 <= PLen /\ \A i \in 1 .. QLen : one - 1 + i = i
      BY <1>1
    <3> HIDE DEF one, z
    <3>2. /\ SubSeq(z, one, one + QLen - 1) \in Array(QLen)
          /\ \A i \in 1 .. QLen : SubSeq(z, one, one + QLen - 1)[i] = z[one - 1 + i]
      BY ONLY <1>1, <2>1, <3>1, SliceArray
    <3> QED BY <3>1, <3>2 DEF one
  <2>3. \A i \in 1 .. QLen : z[i] = Zeros(QLen)[i]
    BY <1>1 DEF Zeros
  <2> HIDE DEF z, s
  <2>4. s = Zeros(QLen)
    BY <1>1, <2>2, <2>3, ZerosValue, SameArray
  <2>5. Value(s) = 0 /\ s \in Array(QLen)
    BY <1>1, <2>4, ZerosValue
  <2>6. x = 0
    BY <1>3, <2>1 DEF IsQ, zeroModQ, z
  <2>7. Low(e) = s
    BY <1>3 DEF Low, zeroModQ, s, z
  <2> QED BY <2>5, <2>6, <2>7, GroupNumbers
<1> QED BY <1>2, <1>3 DEF IsQ

\* The words of what lies below Q are an element.
LEMMA WordsQ ==
  ASSUME NEW v \in 0 .. Q - 1
  PROVE  IsQ(Words(v, QLen), v)
<1>1. v \in Nat /\ v < Power(W, QLen)
  BY GroupNumbers
<1>2. Words(v, QLen) \in Array(QLen) /\ Value(Words(v, QLen)) = v
  BY <1>1, GroupNumbers, SmallWords
<1> QED BY <1>2 DEF IsQ

\* The words of what lies below P are an element.
LEMMA WordsP ==
  ASSUME NEW v \in 0 .. P - 1
  PROVE  IsP(Words(v, PLen), v)
<1>1. v \in Nat /\ v < Power(W, PLen)
  BY GroupNumbers
<1>2. Words(v, PLen) \in Array(PLen) /\ Value(Words(v, PLen)) = v
  BY <1>1, GroupNumbers, SmallWords
<1> QED BY <1>2 DEF IsP

\* The constant zero is an element, although it has the words of P.
LEMMA ZeroQ == IsQ(zeroModQ, 0)
BY GroupNumbers, ZerosValue DEF IsQ, zeroModQ

\* An array of the width of Q below Q.
LEMMA BelowQ ==
  ASSUME NEW e \in Array(QLen), NEW x \in Nat, Value(e) = x, x < Q
  PROVE  IsQ(e, x)
BY GroupNumbers DEF IsQ

\* An array worth less than P is an element.
LEMMA BelowP ==
  ASSUME NEW e \in Array(PLen), NEW x \in Nat, Value(e) = x, x < P
  PROVE  IsP(e, x)
BY GroupNumbers DEF IsP

-----------------------------------------------------------------------------
(***************************************************************************)
(* The JVM's powers and inverses.                                          *)
(***************************************************************************)
ModPowFcn(a, e, n) ==
  CHOOSE power : power = [i \in 0 .. e |-> IF i = 0 THEN 1 % n ELSE (a * power[i - 1]) % n]

\* The recursive function of modPow obeys its recursion.
LEMMA ModPowRec ==
  ASSUME NEW a \in Int, NEW e \in Nat, NEW n \in Nat \ {0}
  PROVE  /\ ModPowFcn(a, e, n)[0] = 1 % n
         /\ \A i \in 1 .. e : ModPowFcn(a, e, n)[i] = (a * ModPowFcn(a, e, n)[i - 1]) % n
         /\ Jvm!ModPow(a, e, n) = ModPowFcn(a, e, n)[e]
<1> DEFINE f == ModPowFcn(a, e, n)
           S == Int
           base == 1 % n
           step == [i \in 1 .. e |-> [x \in S |-> (a * x) % n]]
           Body(g) == [i \in 0 .. e |-> IF i = 0 THEN base ELSE (a * g[i - 1]) % n]
<1>1. base \in S
  OBVIOUS
<1> HIDE DEF base
<1>2. step \in Steps(e, S)
  <2>1. ASSUME NEW x \in S
        PROVE  (a * x) % n \in S
    <3> DEFINE y == a * x
    <3>1. y \in Int
      OBVIOUS
    <3> HIDE DEF y
    <3>2. y % n \in Int
      BY <3>1
    <3> QED BY <3>2 DEF y
  <2> HIDE DEF S
  <2> QED BY <2>1 DEF Steps
<1>3. PICK g \in [0 .. e -> S] : Recurs(g, e, base, step)
  <2> HIDE DEF step, S
  <2> QED BY ONLY <1>1, <1>2, e \in Nat, RecursionExists
<1>4. g = Body(g)
  <2>1. ASSUME NEW i \in 1 .. e
        PROVE  g[i] = (a * g[i - 1]) % n
    <3> HIDE DEF S
    <3>1. g[i - 1] \in S
      BY <1>3
    <3>2. g[i] = step[i][g[i - 1]]
      <4> HIDE DEF step
      <4> QED BY <1>3 DEF Recurs
    <3> QED BY <3>1, <3>2
  <2>2. g[0] = base
    BY <1>3 DEF Recurs
  <2> HIDE DEF step, S
  <2> QED BY <1>3, <2>1, <2>2
<1>5. f = CHOOSE power : power = Body(power)
  BY DEF ModPowFcn, base
<1>6. f = Body(f)
  <2> HIDE DEF f, Body
  <2> QED BY <1>4, <1>5
<1>7. Jvm!ModPow(a, e, n) = f[e]
  BY DEF Jvm!ModPow, ModPowFcn
<1> HIDE DEF f
<1>8. f[0] = base /\ \A i \in 1 .. e : f[i] = (a * f[i - 1]) % n
  BY <1>6
<1> QED BY <1>7, <1>8 DEF f, base

\* modPow is the remainder of the power.
LEMMA ModPowIs ==
  ASSUME NEW a \in Int, NEW e \in Nat, NEW n \in Nat \ {0}
  PROVE  /\ Jvm!ModPow(a, e, n) = Power(a, e) % n /\ Jvm!ModPow(a, e, n) \in 0 .. n - 1
         /\ Power(a, e) \in Int
<1> DEFINE f == ModPowFcn(a, e, n)
           Holds(i) == f[i] = Power(a, i) % n
           C == {i \in 0 .. e : Holds(i)}
<1>1. /\ f[0] = 1 % n /\ \A i \in 1 .. e : f[i] = (a * f[i - 1]) % n
      /\ Jvm!ModPow(a, e, n) = f[e]
  BY ModPowRec
<1> HIDE DEF f
<1>2. 0 \in C
  BY <1>1, PowerZero
<1>3. ASSUME NEW i \in 1 .. e, i - 1 \in C
      PROVE  i \in C
  <2> DEFINE j == i - 1
             x == Power(a, j)
  <2>1. f[i] = (a * (x % n)) % n
    BY <1>1, <1>3
  <2>2. j \in Nat /\ j + 1 = i
    OBVIOUS
  <2> HIDE DEF j
  <2>3. Power(a, j + 1) = a * x /\ x \in Int
    BY <2>2, PowerNext
  <2> HIDE DEF x
  <2>4. (a * (x % n)) % n = (a * x) % n
    BY ONLY <2>3, a \in Int, n \in Nat \ {0}, ModTimesMod
  <2> QED BY <2>1, <2>2, <2>3, <2>4
<1>4. e \in C
  <2>1. \A i \in 0 .. e : i \in C
    <3> HIDE DEF C
    <3> QED BY <1>2, <1>3, UpTo
  <2> HIDE DEF C
  <2> QED BY <2>1
<1> DEFINE x == Power(a, e)
<1>5. x \in Int
  BY PowerNext
<1> HIDE DEF x
<1>6. x % n \in 0 .. n - 1
  BY <1>5
<1> QED BY <1>1, <1>4, <1>5, <1>6 DEF x

\* There is one inverse below n, if there is any.
Inverts(x, a, n) == x \in 0 .. n - 1 /\ (a * x) % n = 1

\* Inverses are unique.
LEMMA InverseUnique ==
  ASSUME NEW n \in Nat \ {0}, NEW a \in Int, NEW x, NEW y, Inverts(x, a, n), Inverts(y, a, n)
  PROVE  x = y
<1>1. x \in 0 .. n - 1 /\ y \in 0 .. n - 1 /\ x \in Int /\ y \in Int /\ (a * x) % n = 1 /\ (a * y) % n = 1
  BY DEF Inverts
<1> DEFINE ax == a * x
           ay == a * y
           one == 1
<1>2. ax \in Int /\ ay \in Int /\ one \in Int
  BY <1>1
<1>3. one % n = one
  <2> DEFINE m == ax % n
  <2>1. m \in 0 .. n - 1 /\ m = one
    <3> HIDE DEF ax
    <3>1. ax % n \in 0 .. n - 1
      BY <1>2
    <3> QED BY <1>1, <3>1 DEF ax
  <2>2. one \in 0 .. n - 1
    BY <2>1
  <2> HIDE DEF one
  <2> QED BY <2>2, ModSmall
<1>4. Congruent(ax, one, n) /\ Congruent(ay, one, n) /\ Congruent(x, x, n) /\ Congruent(y, y, n)
  BY <1>1, <1>3 DEF Congruent
<1> HIDE DEF ax, ay, one
<1>5. Congruent(ax * y, one * y, n)
  BY <1>1, <1>2, <1>4, CongruentTimes
<1>6. Congruent(ay * x, one * x, n)
  BY <1>1, <1>2, <1>4, CongruentTimes
<1>7. ax * y = ay * x /\ one * y = y /\ one * x = x
  BY <1>1 DEF ax, ay, one
<1>8. x % n = y % n
  BY <1>5, <1>6, <1>7 DEF Congruent
<1>9. x % n = x
  BY <1>1, ModSmall
<1>10. y % n = y
  BY <1>1, ModSmall
<1> QED BY <1>8, <1>9, <1>10

\* modInverse returns the inverse.
LEMMA ModInverseIs ==
  ASSUME NEW n \in Nat \ {0}, NEW a \in Int, NEW x, Inverts(x, a, n)
  PROVE  Jvm!ModInverse(a, n) = x /\ Inverts(Jvm!ModInverse(a, n), a, n)
<1> DEFINE y == Jvm!ModInverse(a, n)
<1>1. y = CHOOSE z \in 0 .. n - 1 : (a * z) % n = 1
  BY DEF Jvm!ModInverse
<1>2. x \in 0 .. n - 1 /\ (a * x) % n = 1
  BY DEF Inverts
<1> HIDE DEF y
<1>3. y \in 0 .. n - 1 /\ (a * y) % n = 1
  BY <1>1, <1>2
<1>4. Inverts(y, a, n)
  BY <1>3 DEF Inverts
<1>5. x = y
  BY <1>4, InverseUnique
<1> QED BY <1>4, <1>5 DEF y

\* A sum of two numbers below n.
LEMMA ModSum ==
  ASSUME NEW n \in Nat \ {0}, NEW x \in 0 .. n - 1, NEW y \in 0 .. n - 1
  PROVE  (x + y) % n = IF x + y < n THEN x + y ELSE x + y - n
<1> DEFINE t == x + y
<1>1. t \in Nat /\ t < 2 * n
  OBVIOUS
<1> HIDE DEF t
<1>2. t % n = IF t < n THEN t ELSE t - n
  <2>1. CASE t < n
    BY <1>1, <2>1, ModSmall
  <2>2. CASE ~(t < n)
    <3> DEFINE r == t - n
               one == 1
    <3>1. r \in 0 .. n - 1 /\ t = n * one + r /\ one \in Int /\ t \in Int
      BY <1>1, <2>2
    <3> HIDE DEF r, one
    <3>2. t % n = r
      BY <3>1, EuclidUnique
    <3> QED BY <2>2, <3>2 DEF r
  <2> QED BY <2>1, <2>2
<1> QED BY <1>2 DEF t

-----------------------------------------------------------------------------
(***************************************************************************)
(* Q: sums and differences.                                                *)
(***************************************************************************)
LEMMA SubtractQ ==
  ASSUME NEW s \in Array(QLen), NEW c \in {0, 1}, NEW t \in Nat, t = Value(s) + Power(W, QLen) * c,
         t < 2 * Q, Q <= t
  PROVE  Add(s, p256minusQ).words \in Array(QLen) /\ Value(Add(s, p256minusQ).words) = t - Q
<1> DEFINE R == Power(W, QLen)
           m == p256minusQ
           r == Add(s, m).words
           d == Add(s, m).carry
           v == Value(s)
           x == Value(r)
           rc == R * c
           rd == R * d
<1>1. m \in Array(QLen) /\ Value(m) = R - Q /\ QLen \in Nat /\ R \in Nat \ {0} /\ Q \in Nat /\ Q < R
  BY MinusQWords, GroupNumbers
<1> HIDE DEF m
<1>2. r \in Array(QLen) /\ d \in {0, 1} /\ x + R * d = v + Value(m)
  BY <1>1, AddCarryBit
<1>3. x \in 0 .. R - 1 /\ v \in 0 .. R - 1
  BY <1>1, <1>2, ValueBounds
<1> HIDE DEF R, r, d, v, x
<1>4. rc = (IF c = 0 THEN 0 ELSE R) /\ rd = (IF d = 0 THEN 0 ELSE R)
  BY <1>1, <1>2
<1>5. t = v + rc /\ x + rd = v + (R - Q)
  BY <1>1, <1>2 DEF v, R
<1> HIDE DEF rc, rd
<1>6. x = t - Q
  BY <1>1, <1>2, <1>3, <1>4, <1>5
<1> QED BY <1>2, <1>6 DEF r, m, x

\* Sums agree: a carry out of the words is made up for by 2^256 - Q.
THEOREM PlusQValue ==
  ASSUME NEW a, NEW b, NEW x, NEW y, IsQ(a, x), IsQ(b, y)
  PROVE  IsQ(PlusQ(a, b), Jvm!PlusQ(x, y))
<1> DEFINE la == Low(a)
           lb == Low(b)
           s == Add(la, lb).words
           c == Add(la, lb).carry
           R == Power(W, QLen)
           t == x + y
<1>1. la \in Array(QLen) /\ Value(la) = x /\ x \in Nat /\ x < Q
  BY LowValue
<1>2. lb \in Array(QLen) /\ Value(lb) = y /\ y \in Nat /\ y < Q
  BY LowValue
<1>3. QLen \in Nat /\ R \in Nat \ {0} /\ Q \in Nat /\ Q \in Nat \ {0} /\ Q < R /\ q \in Array(QLen) /\ Value(q) = Q
  BY GroupNumbers, QWords
<1> HIDE DEF la, lb
<1>4. s \in Array(QLen) /\ c \in {0, 1} /\ Value(s) + R * c = x + y
  BY <1>1, <1>2, <1>3, AddCarryBit
<1>5. PlusQ(a, b) = IF LtMask(s, q) /\ c = 0 THEN s ELSE Add(s, p256minusQ).words
  BY DEF PlusQ, la, lb
<1>6. LtMask(s, q) <=> Value(s) < Q
  <2> HIDE DEF s
  <2> QED BY <1>3, <1>4, LtMaskLess
<1>7. Value(s) \in Nat
  BY <1>3, <1>4, ValueBounds
<1> HIDE DEF s, c, R
<1>8. t \in Nat /\ t = Value(s) + R * c /\ t < 2 * Q
  BY <1>1, <1>2, <1>3, <1>4
<1>9. Jvm!PlusQ(x, y) = IF t < Q THEN t ELSE t - Q
  <2>1. Jvm!PlusQ(x, y) = (x + y) % Q
    BY DEF Jvm!PlusQ
  <2>2. x \in 0 .. Q - 1 /\ y \in 0 .. Q - 1
    BY <1>1, <1>2, <1>3
  <2> QED BY <1>3, <2>1, <2>2, ModSum
<1> HIDE DEF t
<1>10. CASE t < Q
  <2>1. c = 0
    <3> SUFFICES ASSUME c = 1 PROVE FALSE
      BY <1>4
    <3>1. R * c = R
      BY <1>3
    <3> QED BY <1>3, <1>7, <1>8, <1>10, <3>1
  <2>2. R * c = 0
    BY <1>3, <2>1
  <2>3. Value(s) = t
    BY <1>7, <1>8, <2>2
  <2>4. PlusQ(a, b) = s
    BY <1>5, <1>6, <1>10, <2>1, <2>3
  <2> QED BY <1>4, <1>8, <1>9, <1>10, <2>3, <2>4, BelowQ
<1>11. CASE ~(t < Q)
  <2> DEFINE r == Add(s, p256minusQ).words
             v == t - Q
  <2>1. r \in Array(QLen) /\ Value(r) = t - Q
    <3>1. t < 2 * Q /\ Q <= t /\ t = Value(s) + Power(W, QLen) * c
      BY <1>3, <1>8, <1>11 DEF R
    <3> QED BY <1>4, <1>8, <3>1, SubtractQ
  <2>2. PlusQ(a, b) = r
    <3>1. ~(LtMask(s, q) /\ c = 0)
      <4> SUFFICES ASSUME LtMask(s, q), c = 0 PROVE FALSE
        OBVIOUS
      <4>1. R * c = 0 /\ Value(s) < Q
        BY <1>3, <1>6
      <4> QED BY <1>3, <1>7, <1>8, <1>11, <4>1
    <3> QED BY <1>5, <3>1
  <2>3. v \in Nat /\ v < Q /\ Jvm!PlusQ(x, y) = v
    BY <1>3, <1>8, <1>9, <1>11
  <2> HIDE DEF r, v
  <2>4. Value(r) = v
    BY <2>1 DEF v
  <2>5. IsQ(r, v)
    BY <2>1, <2>3, <2>4, BelowQ
  <2> QED BY <2>2, <2>3, <2>5
<1> QED BY <1>10, <1>11

\* Arrays are equal when their reverses are.
LEMMA ReverseSame ==
  ASSUME NEW n \in Nat, NEW a \in Array(n), NEW b \in Array(n)
  PROVE  /\ Reverse(a) = [i \in 1 .. n |-> a[n - i + 1]]
         /\ Reverse(a) \in Array(n)
         /\ Reverse(a) = Reverse(b) <=> a = b
<1> DEFINE ra == [i \in 1 .. n |-> a[n - i + 1]]
           rb == [i \in 1 .. n |-> b[n - i + 1]]
<1>1. Len(a) = n /\ Len(b) = n
  BY ArraySeq
<1>2. Reverse(a) = ra
  BY <1>1 DEF Reverse
<1>3. Reverse(b) = rb
  BY <1>1 DEF Reverse
<1>4. ra \in Array(n)
  <2>1. \A i \in 1 .. n : a[n - i + 1] \in Word
    <3> TAKE i \in 1 .. n
    <3>1. n - i + 1 \in 1 .. n
      OBVIOUS
    <3> QED BY <3>1, ArraySeq
  <2> QED BY <2>1 DEF Array
<1>5. ASSUME ra = rb
      PROVE  a = b
  <2>1. \A i \in 1 .. n : a[i] = b[i]
    <3> TAKE i \in 1 .. n
    <3> DEFINE j == n - i + 1
    <3>1. j \in 1 .. n /\ n - j + 1 = i
      OBVIOUS
    <3>2. ra[j] = a[n - j + 1] /\ rb[j] = b[n - j + 1]
      BY <3>1
    <3> QED BY <1>5, <3>1, <3>2
  <2> QED BY <2>1, SameArray
<1> QED BY <1>2, <1>3, <1>4, <1>5

\* Elements of Q are equal if and only if they are worth the same.
LEMMA EqualQValue ==
  ASSUME NEW a, NEW b, NEW x, NEW y, IsQ(a, x), IsQ(b, y)
  PROVE  EqualQ(a, b) <=> x = y
<1> DEFINE la == Low(a)
           lb == Low(b)
<1>1. la \in Array(QLen) /\ Value(la) = x
  BY LowValue
<1>2. lb \in Array(QLen) /\ Value(lb) = y
  BY LowValue
<1>3. QLen \in Nat
  BY GroupNumbers
<1>4. EqualQ(a, b) <=> Reverse(la) = Reverse(lb)
  BY DEF EqualQ, ByteArrayQ
<1> HIDE DEF la, lb
<1>5. EqualQ(a, b) <=> la = lb
  BY <1>1, <1>2, <1>3, <1>4, ReverseSame
<1>6. x = y => la = lb
  BY <1>1, <1>2, <1>3, ValueUnique
<1> QED BY <1>1, <1>2, <1>5, <1>6

\* Negations agree.
LEMMA UnaryMinusQValue ==
  ASSUME NEW a, NEW x, IsQ(a, x)
  PROVE  IsQ(UnaryMinusQ(a), Jvm!UnaryMinusQ(x))
<1>1. EqualQ(a, zeroModQ) <=> x = 0
  BY ZeroQ, EqualQValue
<1>2. CASE x = 0
  BY <1>1, <1>2 DEF UnaryMinusQ, Jvm!UnaryMinusQ
<1>3. CASE x # 0
  <2> DEFINE la == Low(a)
             r == Sub(q, la).words
             v == Q - x
  <2>1. la \in Array(QLen) /\ Value(la) = x /\ x \in Nat /\ x < Q
    BY LowValue
  <2>2. QLen \in Nat /\ Q \in Nat /\ q \in Array(QLen) /\ Value(q) = Q
    BY GroupNumbers, QWords
  <2>3. UnaryMinusQ(a) = r /\ Jvm!UnaryMinusQ(x) = v
    BY <1>1, <1>3 DEF UnaryMinusQ, Jvm!UnaryMinusQ
  <2> HIDE DEF la
  <2>4. Value(q) >= Value(la)
    BY <2>1, <2>2
  <2>5. r \in Array(QLen) /\ Value(r) = Value(q) - Value(la)
    BY <2>1, <2>2, <2>4, SubValue, SubLess
  <2>6. v \in Nat /\ v < Q /\ Value(r) = v
    BY <1>3, <2>1, <2>2, <2>5
  <2> HIDE DEF r, v
  <2> QED BY <2>3, <2>5, <2>6, BelowQ
<1> QED BY <1>2, <1>3

\* Differences agree.
LEMMA MinusQValue ==
  ASSUME NEW a, NEW b, NEW x, NEW y, IsQ(a, x), IsQ(b, y)
  PROVE  IsQ(MinusQ(a, b), Jvm!MinusQ(x, y))
<1> DEFINE c == UnaryMinusQ(b)
           z == Jvm!UnaryMinusQ(y)
<1>1. IsQ(c, z)
  BY UnaryMinusQValue
<1>2. MinusQ(a, b) = PlusQ(a, c) /\ Jvm!MinusQ(x, y) = Jvm!PlusQ(x, z)
  BY DEF MinusQ, Jvm!MinusQ
<1> HIDE DEF c, z
<1> QED BY <1>1, <1>2, PlusQValue

\* The constant that inverts in P is Q - 1 on both platforms.
LEMMA QMinus1Value == IsQ(qMinus1ModQ, Q - 1) /\ Jvm!MinusQ(0, 1) = Q - 1
<1> DEFINE one == 1
           zero == 0
           e == Words(one, QLen)
<1>1. one \in 0 .. Q - 1 /\ Q \in Nat /\ Q > 2
  BY GroupNumbers
<1>2. IsQ(e, one) /\ IsQ(zeroModQ, zero)
  BY <1>1, WordsQ, ZeroQ
<1> HIDE DEF one, zero, e
<1>3. IsQ(MinusQ(zeroModQ, e), Jvm!MinusQ(zero, one))
  BY <1>2, MinusQValue
<1>4. Jvm!MinusQ(zero, one) = Q - 1
  <2>1. Jvm!UnaryMinusQ(one) = Q - 1
    BY DEF Jvm!UnaryMinusQ, one
  <2> DEFINE y == Q - 1
  <2>2. Jvm!MinusQ(zero, one) = (zero + y) % Q
    BY <2>1 DEF Jvm!MinusQ, Jvm!PlusQ
  <2>3. zero + y = y /\ y \in 0 .. Q - 1 /\ Q \in Nat \ {0}
    BY <1>1 DEF zero
  <2> HIDE DEF y
  <2>4. y % Q = y
    BY <2>3, ModSmall
  <2> QED BY <2>2, <2>3, <2>4 DEF y
<1> QED BY <1>3, <1>4 DEF qMinus1ModQ, one, zero, e

-----------------------------------------------------------------------------
(***************************************************************************)
(* Q: products, powers and quotients.                                      *)
(***************************************************************************)
\* What is below the modulus is an element.
LEMMA ModQ ==
  ASSUME NEW e, NEW v, e \in Array(QLen), v \in Int, Value(e) = v % Q
  PROVE  IsQ(e, v % Q)
<1> DEFINE x == v % Q
<1>1. Q \in Nat \ {0}
  BY GroupNumbers
<1>2. x \in 0 .. Q - 1
  BY <1>1
<1> HIDE DEF x
<1>3. Value(e) = x
  BY DEF x
<1> QED BY <1>2, <1>3 DEF IsQ, x

\* A remainder modulo P is an element.
LEMMA ModP ==
  ASSUME NEW e, NEW v, e \in Array(PLen), v \in Int, Value(e) = v % P
  PROVE  IsP(e, v % P)
<1> DEFINE x == v % P
<1>1. P \in Nat \ {0}
  BY GroupNumbers
<1>2. x \in 0 .. P - 1
  BY <1>1
<1> HIDE DEF x
<1>3. Value(e) = x
  BY DEF x
<1> QED BY <1>2, <1>3 DEF IsP, x

\* Products modulo Q agree.
LEMMA TimesQValue ==
  ASSUME NEW a, NEW b, NEW x, NEW y, IsQ(a, x), IsQ(b, y)
  PROVE  IsQ(TimesQ(a, b), Jvm!TimesQ(x, y))
<1> DEFINE la == Low(a)
           lb == Low(b)
           c == Mul[<<la, lb>>]
           r == ModPrecomp(montCtxQ, c)
           xy == x * y
<1>1. la \in Array(QLen) /\ Value(la) = x /\ x \in Nat
  BY LowValue
<1>2. lb \in Array(QLen) /\ Value(lb) = y /\ y \in Nat
  BY LowValue
<1>3. QLen \in Nat /\ Value(q) = Q /\ Context(montCtxQ, q, QLen)
  BY GroupNumbers, QWords
<1>4. TimesQ(a, b) = r /\ Jvm!TimesQ(x, y) = xy % Q
  BY DEF TimesQ, Jvm!TimesQ
<1> HIDE DEF la, lb
<1>5. c \in Array(2 * QLen) /\ Value(c) = xy
  <2>1. c \in Array(2 * QLen) /\ Value(c) = Value(la) * Value(lb)
    BY <1>1, <1>2, <1>3, MulProduct
  <2> QED BY <1>1, <1>2, <2>1
<1>6. xy \in Int
  BY <1>1, <1>2
<1> HIDE DEF c, xy
<1>7. r \in Array(QLen) /\ Value(r) = xy % Q
  BY <1>3, <1>5, ModPrecompValue
<1> HIDE DEF r
<1>8. IsQ(r, xy % Q)
  BY <1>6, <1>7, ModQ
<1> QED BY <1>4, <1>8

\* Powers modulo Q agree.
LEMMA PowQValue ==
  ASSUME NEW a, NEW e, NEW x, NEW y, IsQ(a, x), IsQ(e, y)
  PROVE  IsQ(PowQ(a, e), Jvm!PowQ(x, y))
<1> DEFINE la == Low(a)
           le == Low(e)
           r == ModExpVartime(montCtxQ, la, le)
           v == Power(x, y)
<1>1. la \in Array(QLen) /\ Value(la) = x /\ x \in Nat
  BY LowValue
<1>2. le \in Array(QLen) /\ Value(le) = y /\ y \in Nat
  BY LowValue
<1>3. QLen \in Nat /\ Value(q) = Q /\ Context(montCtxQ, q, QLen) /\ Q \in Nat \ {0}
  BY GroupNumbers, QWords
<1>4. PowQ(a, e) = r
  BY DEF PowQ
<1> HIDE DEF la, le
<1>5. r \in Array(QLen) /\ Value(r) = v % Q
  BY <1>1, <1>2, <1>3, ModExpVartimeValue
<1>6. Jvm!PowQ(x, y) = v % Q /\ v \in Int
  BY <1>1, <1>2, <1>3, ModPowIs DEF Jvm!PowQ
<1> HIDE DEF r, v
<1>7. IsQ(r, v % Q)
  BY <1>5, <1>6, ModQ
<1> QED BY <1>4, <1>6, <1>7

\* The exponent of the inverse: Q - 2.
LEMMA MinusTwo ==
  ASSUME NEW n \in Nat \ {0}, NEW a \in Array(n), Value(a) >= 2
  PROVE  /\ Sub(a, Over(Zeros(n), 1, <<2>>)).words \in Array(n)
         /\ Value(Sub(a, Over(Zeros(n), 1, <<2>>)).words) = Value(a) - 2
<1> DEFINE two == 2
           t == Over(Zeros(n), 1, <<two>>)
<1>1. two \in Word /\ two \in Nat
  <2> DEFINE m == WordBits - 2
             y == Power(2, m)
  <2>1. WordBits \in Nat /\ WordBits >= 2
    BY BignumAssumption
  <2>2. m \in Nat
    BY <2>1
  <2> HIDE DEF m
  <2> DEFINE b == 2
  <2>3. b \in Int /\ b \in Nat \ {0}
    OBVIOUS
  <2> HIDE DEF b
  <2>4. Power(b, m + 2) = Power(b, m) * Power(b, 2)
    <3> DEFINE k == 2
    <3>1. k \in Nat
      OBVIOUS
    <3> HIDE DEF k
    <3>2. Power(b, m + k) = Power(b, m) * Power(b, k)
      BY <2>2, <2>3, <3>1, PowerPlus
    <3> QED BY <3>2 DEF k
  <2>5. Power(b, m) \in Nat \ {0}
    BY <2>2, <2>3, PowerPositive
  <2>6. Power(b, 2) = b * b
    <3> DEFINE k == 1
    <3>1. k \in Nat /\ k + 1 = 2
      OBVIOUS
    <3> HIDE DEF k
    <3>2. Power(b, k + 1) = b * Power(b, k)
      BY <2>3, <3>1, PowerNext
    <3>3. Power(b, k) = b
      BY <2>3, PowerOne DEF k
    <3> QED BY <3>1, <3>2, <3>3
  <2>7. m + 2 = WordBits
    BY <2>1 DEF m
  <2>8. W = Power(b, m) * (b * b)
    BY <2>4, <2>6, <2>7 DEF W, b
  <2> DEFINE z == Power(b, m)
  <2> HIDE DEF z
  <2>9. W = z * 4 /\ z \in Nat \ {0}
    BY <2>5, <2>8 DEF b, z
  <2>10. W > 2 /\ W \in Nat
    BY <2>9
  <2> QED BY <2>10 DEF Word
<1>2. Value(a) >= two
  OBVIOUS
<1> HIDE DEF two
<1>3. Naturals0(t, n) /\ Number(W, t, n) = two /\ t \in Array(n)
  BY <1>1, SingleDigit
<1>4. Value(t) = two
  BY <1>3, ArrayDigits
<1> HIDE DEF t
<1>5. Value(a) >= Value(t)
  BY <1>2, <1>4
<1>6. Sub(a, t).words \in Array(n) /\ Value(Sub(a, t).words) = Value(a) - Value(t)
  BY <1>3, <1>5, SubValue, SubLess
<1> QED BY <1>4, <1>6 DEF t, two

\* Fermat, as the native group needs it.
LEMMA FermatQ ==
  ASSUME NEW x \in 1 .. Q - 1, NEW e \in Nat, e = Q - 2
  PROVE  Inverts(Power(x, e) % Q, x, Q) /\ Power(x, e) \in Int
<1> DEFINE n == Q
           v == Power(x, e)
<1>1. n \in Nat \ {0} /\ e + 1 = Q - 1 /\ x \in Int /\ e + 1 \in Nat
  BY GroupNumbers
<1>2. Jvm!ModPow(x, Q - 1, Q) = 1
  BY GroupAssumption
<1> DEFINE m == e + 1
<1>3. Jvm!ModPow(x, m, n) = Power(x, m) % n
  <2> HIDE DEF m, n
  <2>1. m \in Nat
    BY <1>1 DEF m
  <2> QED BY <1>1, <2>1, ModPowIs
<1>4. Power(x, e + 1) = x * v /\ v \in Int
  BY <1>1, PowerNext
<1>5. (x * v) % n = 1
  BY <1>1, <1>2, <1>3, <1>4
<1> HIDE DEF n, v
<1>6. (x * (v % n)) % n = (x * v) % n
  BY <1>1, <1>4, ModTimesMod
<1>7. v % n \in 0 .. n - 1
  BY <1>1, <1>4
<1>8. Inverts(v % n, x, n)
  BY <1>5, <1>6, <1>7 DEF Inverts
<1> QED BY <1>4, <1>8 DEF n, v

\* The power Q - 2 is the inverse modulo Q.
THEOREM MultInvQValue ==
  ASSUME NEW a, NEW x, IsQ(a, x), x # 0
  PROVE  IsQ(MultInvQ(a), Jvm!ModInverse(x, Q))
<1> DEFINE la == Low(a)
           e == Sub(q, Over(Zeros(QLen), 1, <<2>>)).words
           k == Q - 2
           r == ModExpVartime(montCtxQ, la, e)
           v == Power(x, k)
<1>1. la \in Array(QLen) /\ Value(la) = x /\ x \in Nat /\ x < Q
  BY LowValue
<1>2. /\ QLen \in Nat \ {0} /\ QLen \in Nat /\ Value(q) = Q /\ q \in Array(QLen) /\ Context(montCtxQ, q, QLen)
      /\ Q \in Nat \ {0} /\ Q \in Nat /\ Q > 2
  BY GroupNumbers, QWords
<1>3. montCtxQ.n = q
  BY <1>2, ContextFacts
<1>4. Len(la) = QLen
  <2> HIDE DEF la
  <2> QED BY <1>1, <1>2, ArraySeq
<1>5. MultInvQ(a) = r
  BY <1>3, <1>4 DEF MultInvQ, ModInvPrime
<1>6. e \in Array(QLen) /\ Value(e) = k
  <2>1. Value(q) >= 2
    BY <1>2
  <2>2. /\ Sub(q, Over(Zeros(QLen), 1, <<2>>)).words \in Array(QLen)
        /\ Value(Sub(q, Over(Zeros(QLen), 1, <<2>>)).words) = Value(q) - 2
    BY <1>2, <2>1, MinusTwo
  <2> QED BY <1>2, <2>2
<1>7. k \in Nat /\ k = Q - 2 /\ x \in 1 .. Q - 1
  BY <1>1, <1>2
<1> HIDE DEF la, e, k
<1>8. r \in Array(QLen) /\ Value(r) = v % Q
  BY <1>1, <1>2, <1>6, ModExpVartimeValue
<1>9. Inverts(v % Q, x, Q) /\ v \in Int
  BY <1>7, FermatQ
<1> HIDE DEF r, v
<1>10. Jvm!ModInverse(x, Q) = v % Q
  <2> DEFINE y == v % Q
  <2>1. x \in Int /\ Inverts(y, x, Q)
    BY <1>7, <1>9
  <2> HIDE DEF y
  <2>2. Jvm!ModInverse(x, Q) = y
    BY <1>2, <2>1, ModInverseIs
  <2> QED BY <2>2 DEF y
<1>11. IsQ(r, v % Q)
  BY <1>8, <1>9, ModQ
<1> QED BY <1>5, <1>10, <1>11

\* Quotients modulo Q agree.
LEMMA DivQValue ==
  ASSUME NEW a, NEW b, NEW x, NEW y, IsQ(a, x), IsQ(b, y), y # 0
  PROVE  IsQ(DivQ(a, b), Jvm!DivQ(x, y))
<1> DEFINE c == MultInvQ(b)
           z == Jvm!ModInverse(y, Q)
<1>1. IsQ(c, z)
  BY MultInvQValue
<1>2. DivQ(a, b) = TimesQ(a, c) /\ Jvm!DivQ(x, y) = Jvm!TimesQ(x, z)
  BY DEF DivQ, Jvm!DivQ
<1> HIDE DEF c, z
<1> QED BY <1>1, <1>2, TimesQValue

-----------------------------------------------------------------------------
(***************************************************************************)
(* P: products, powers, residues and quotients.                            *)
(***************************************************************************)
LEMMA TimesPValue ==
  ASSUME NEW a, NEW b, NEW x, NEW y, IsP(a, x), IsP(b, y)
  PROVE  IsP(TimesP(a, b), Jvm!TimesP(x, y))
<1> DEFINE c == Mul[<<a, b>>]
           r == ModPrecomp(montCtxP, c)
           xy == x * y
<1>1. PLen \in Nat /\ Value(p) = P /\ Context(montCtxP, p, PLen) /\ P \in Nat
  BY GroupNumbers, PWords
<1>2. a \in Array(PLen) /\ Value(a) = x /\ b \in Array(PLen) /\ Value(b) = y /\ x \in Nat /\ y \in Nat
  BY <1>1 DEF IsP
<1>3. TimesP(a, b) = r /\ Jvm!TimesP(x, y) = xy % P
  BY DEF TimesP, Jvm!TimesP
<1>4. c \in Array(2 * PLen) /\ Value(c) = xy
  BY <1>1, <1>2, MulProduct
<1>5. xy \in Int
  BY <1>2
<1> HIDE DEF c, xy
<1>6. r \in Array(PLen) /\ Value(r) = xy % P
  BY <1>1, <1>4, ModPrecompValue
<1> HIDE DEF r
<1>7. IsP(r, xy % P)
  BY <1>5, <1>6, ModP
<1> QED BY <1>3, <1>7

\* An exponent is what the low words of an array stand for.
LEMMA PowPWords ==
  ASSUME NEW a, NEW e, NEW x, NEW y \in Nat, IsP(a, x), Low(e) \in Array(QLen), Value(Low(e)) = y
  PROVE  IsP(PowP(a, e), Jvm!PowP(x, y))
<1> DEFINE le == Low(e)
           r == ModExpVartime(montCtxP, a, le)
           v == Power(x, y)
<1>1. PLen \in Nat /\ QLen \in Nat /\ Value(p) = P /\ Context(montCtxP, p, PLen) /\ P \in Nat \ {0}
  BY GroupNumbers, PWords
<1>2. a \in Array(PLen) /\ Value(a) = x /\ x \in Nat /\ le \in Array(QLen) /\ Value(le) = y
  BY <1>1 DEF IsP
<1>3. PowP(a, e) = r
  BY DEF PowP
<1> HIDE DEF le
<1>4. r \in Array(PLen) /\ Value(r) = v % P
  BY <1>1, <1>2, ModExpVartimeValue
<1>5. Jvm!PowP(x, y) = v % P /\ v \in Int
  BY <1>1, <1>2, ModPowIs DEF Jvm!PowP
<1> HIDE DEF r, v
<1>6. IsP(r, v % P)
  BY <1>4, <1>5, ModP
<1> QED BY <1>3, <1>5, <1>6

\* Powers modulo P agree.
LEMMA PowPValue ==
  ASSUME NEW a, NEW e, NEW x, NEW y, IsP(a, x), IsQ(e, y)
  PROVE  IsP(PowP(a, e), Jvm!PowP(x, y))
<1>1. Low(e) \in Array(QLen) /\ Value(Low(e)) = y /\ y \in Nat
  BY LowValue
<1> QED BY <1>1, PowPWords

\* InBoundsP compares with P.
LEMMA InBoundsPValue ==
  ASSUME NEW a \in Array(PLen)
  PROVE  InBoundsP(a) <=> Value(a) < P
BY GroupNumbers, PWords, LtMaskLess DEF InBoundsP

\* An element of Q is in bounds.
LEMMA InBoundsQValue ==
  ASSUME NEW e, NEW x, IsQ(e, x)
  PROVE  InBoundsQ(e)
<1>1. Low(e) \in Array(QLen) /\ Value(Low(e)) = x /\ x < Q
  BY LowValue
<1> QED BY <1>1, GroupNumbers, QWords, LtMaskLess DEF InBoundsQ

\* Elements of P that stand for the same are the same.
LEMMA SameP ==
  ASSUME NEW a, NEW b, NEW x, NEW y, IsP(a, x), IsP(b, y)
  PROVE  a = b <=> x = y
BY GroupNumbers, ValueUnique DEF IsP

\* The tests of residues agree.
LEMMA IsValidResidueValue ==
  ASSUME NEW a, NEW x, IsP(a, x)
  PROVE  IsValidResidue(a) <=> Jvm!IsValidResidue(x)
<1> DEFINE one == 1
           z == Jvm!PowP(x, Q)
<1>1. one \in 0 .. P - 1 /\ P \in Nat /\ Q \in Nat /\ QLen \in Nat
  BY GroupNumbers
<1>2. InBoundsP(a) /\ x < P
  BY <1>1, InBoundsPValue DEF IsP
<1>3. Low(q) = q /\ q \in Array(QLen) /\ Value(q) = Q
  BY <1>1, QWords, WholeSlice DEF Low
<1>4. IsP(PowP(a, q), z)
  BY <1>1, <1>3, PowPWords
<1> HIDE DEF one, z
<1>5. IsP(Words(one, PLen), one)
  BY <1>1, WordsP
<1>6. PowP(a, q) = Words(one, PLen) <=> z = one
  BY <1>4, <1>5, SameP
<1> QED BY <1>2, <1>6 DEF IsValidResidue, Jvm!IsValidResidue, Jvm!PowP, one, z

\* The tests for zero of P agree.
LEMMA IsZeroPValue ==
  ASSUME NEW a, NEW x, IsP(a, x)
  PROVE  IsZeroP(a) <=> x = 0
<1> DEFINE zero == 0
<1>1. Zeros(PLen) \in Array(PLen) /\ Value(Zeros(PLen)) = zero /\ zero \in 0 .. P - 1
  BY GroupNumbers, ZerosValue
<1> HIDE DEF zero
<1>2. IsP(Zeros(PLen), zero)
  BY <1>1 DEF IsP
<1> QED BY <1>2, SameP DEF IsZeroP, zero

\* Comparisons of elements of P agree.
LEMMA ComparePValue ==
  ASSUME NEW a, NEW b, NEW x, NEW y, IsP(a, x), IsP(b, y)
  PROVE  CompareP(a, b) = Jvm!Compare(x, y)
<1>1. a \in Array(PLen) /\ Value(a) = x /\ b \in Array(PLen) /\ Value(b) = y /\ PLen \in Nat
  BY GroupNumbers DEF IsP
<1>2. LtMask(a, b) <=> x < y
  BY <1>1, LtMaskLess
<1>3. a = b <=> x = y
  BY SameP
<1> QED BY <1>2, <1>3 DEF CompareP, Jvm!Compare

\* Comparisons of elements of Q agree, unless one is the constant zero.
LEMMA CompareQValue ==
  ASSUME NEW a, NEW b, NEW x, NEW y, IsQ(a, x), IsQ(b, y), zeroModQ \notin {a, b}
  PROVE  CompareQ(a, b) = Jvm!Compare(x, y)
<1>1. a \in Array(QLen) /\ Value(a) = x /\ b \in Array(QLen) /\ Value(b) = y /\ QLen \in Nat
  BY GroupNumbers DEF IsQ
<1>2. Low(a) = a /\ Low(b) = b
  BY <1>1, WholeSlice DEF Low
<1>3. LtMask(a, b) <=> x < y
  BY <1>1, LtMaskLess
<1>4. a = b <=> x = y
  BY <1>1, ValueUnique
<1> QED BY <1>2, <1>3, <1>4 DEF CompareQ, Jvm!Compare

(***************************************************************************)
(* In the subgroup of order Q, the power Q - 1 is the inverse.             *)
(***************************************************************************)
Residue(x) == x \in 0 .. P - 1 /\ Jvm!ModPow(x, Q, P) = 1

\* In the subgroup the power Q - 1 is the inverse.
LEMMA ResidueInverts ==
  ASSUME NEW x, Residue(x)
  PROVE  /\ Inverts(Jvm!PowP(x, Q - 1), x, P) /\ Jvm!ModInverse(x, P) = Jvm!PowP(x, Q - 1)
         /\ Jvm!PowP(x, Q - 1) \in Int
<1> DEFINE e == Q - 1
           n == P
           v == Power(x, e)
           y == Jvm!ModPow(x, e, n)
<1>1. n \in Nat \ {0} /\ e \in Nat /\ e + 1 = Q /\ x \in Int /\ Q \in Nat /\ Jvm!ModPow(x, Q, n) = 1
  BY GroupNumbers DEF Residue
<1> HIDE DEF e, n
<1>2. Power(x, e + 1) = x * v /\ v \in Int
  BY <1>1, PowerNext
<1>3. Jvm!ModPow(x, Q, n) = Power(x, Q) % n
  BY <1>1, ModPowIs
<1>4. (x * v) % n = 1
  BY <1>1, <1>2, <1>3
<1>5. y = v % n
  BY <1>1, ModPowIs
<1> HIDE DEF v, y
<1>6. (x * (v % n)) % n = (x * v) % n
  BY <1>1, <1>2, ModTimesMod
<1>7. v % n \in 0 .. n - 1
  BY <1>1, <1>2
<1>8. Inverts(y, x, n) /\ y \in Int
  BY <1>1, <1>4, <1>5, <1>6, <1>7 DEF Inverts
<1>9. Jvm!ModInverse(x, n) = y
  BY <1>1, <1>8, ModInverseIs
<1> QED BY <1>8, <1>9 DEF Jvm!PowP, y, n, e

\* Inverses modulo P agree in the subgroup.
THEOREM MultInvPValue ==
  ASSUME NEW a, NEW x, IsP(a, x), Residue(x)
  PROVE  IsP(MultInvP(a), Jvm!ModInverse(x, P))
<1> DEFINE k == Q - 1
           e == qMinus1ModQ
<1>1. IsQ(e, k)
  BY QMinus1Value
<1> HIDE DEF e
<1>2. IsP(PowP(a, e), Jvm!PowP(x, k))
  <2> HIDE DEF k
  <2> QED BY <1>1, PowPValue
<1>3. Jvm!ModInverse(x, P) = Jvm!PowP(x, k)
  BY ResidueInverts
<1> HIDE DEF k
<1> QED BY <1>2, <1>3 DEF MultInvP, e

\* Quotients modulo P agree if the divisor is in the subgroup.
LEMMA DivPValue ==
  ASSUME NEW a, NEW b, NEW x, NEW y, IsP(a, x), IsP(b, y), Residue(y)
  PROVE  IsP(DivP(a, b), Jvm!DivP(x, y))
<1> DEFINE c == MultInvP(b)
           z == Jvm!ModInverse(y, P)
<1>1. IsP(c, z)
  BY MultInvPValue
<1>2. DivP(a, b) = TimesP(a, c) /\ Jvm!DivP(x, y) = Jvm!TimesP(x, z)
  BY DEF DivP, Jvm!DivP, Jvm!TimesP
<1> HIDE DEF c, z
<1> QED BY <1>1, <1>2, TimesPValue

\* A power of the generator is a residue.
LEMMA GeneratorResidue ==
  ASSUME NEW e \in Nat
  PROVE  Residue(Jvm!PowP(Gen, e))
<1> DEFINE n == P
           g == Gen
           v == Power(g, e)
           x == Jvm!ModPow(g, e, n)
           gq == Power(g, Q)
           one == 1
<1>1. n \in Nat \ {0} /\ g \in Int /\ Q \in Nat /\ Jvm!ModPow(g, Q, n) = 1 /\ n > 1
  BY GroupNumbers, GroupAssumption
<1> HIDE DEF n, g
<1>2. x = v % n /\ x \in 0 .. n - 1 /\ v \in Int
  BY <1>1, ModPowIs
<1>3. Jvm!ModPow(g, Q, n) = gq % n /\ gq \in Int
  BY <1>1, ModPowIs
<1> HIDE DEF v, x, gq
<1>4. x \in Int /\ x % n = v % n
  BY <1>1, <1>2, ModOfMod
<1>5. Power(x, Q) % n = Power(v, Q) % n
  BY <1>1, <1>2, <1>4, PowerCongruent
<1>6. Power(v, Q) = Power(gq, e)
  <2> DEFINE eq == e * Q
             qe == Q * e
  <2>1. Power(Power(g, e), Q) = Power(g, eq)
    BY <1>1, PowerPower
  <2>2. Power(Power(g, Q), e) = Power(g, qe)
    BY <1>1, PowerPower
  <2>3. eq = qe
    BY <1>1
  <2> HIDE DEF eq, qe
  <2> QED BY <2>1, <2>2, <2>3 DEF v, gq
<1>7. one % n = one /\ one \in Int
  <2>1. one \in 0 .. n - 1
    BY <1>1
  <2> HIDE DEF one
  <2> QED BY <1>1, <2>1, ModSmall
<1>8. gq % n = one % n
  <2>1. gq % n = one
    BY <1>1, <1>3
  <2> HIDE DEF one
  <2> QED BY <1>7, <2>1
<1> HIDE DEF one
<1>9. Power(gq, e) % n = Power(one, e) % n
  BY <1>1, <1>3, <1>7, <1>8, PowerCongruent
<1>10. Power(one, e) = one
  BY OnePower DEF one
<1>11. Jvm!ModPow(x, Q, n) = Power(x, Q) % n
  BY <1>1, <1>4, ModPowIs
<1>12. Jvm!ModPow(x, Q, n) = one
  BY <1>5, <1>6, <1>7, <1>9, <1>10, <1>11
<1> QED BY <1>2, <1>12 DEF Residue, Jvm!PowP, x, n, g, one

-----------------------------------------------------------------------------
(***************************************************************************)
(* Big-endian arrays.                                                      *)
(***************************************************************************)
HighFcn(b) ==
  CHOOSE high : high = [i \in 0 .. Len(b) |-> IF i = 0 THEN 0 ELSE W * high[i - 1] + b[i]]

\* The recursive function of ToBigInteger obeys its recursion.
LEMMA HighRec ==
  ASSUME NEW n \in Nat, NEW b \in Array(n)
  PROVE  /\ HighFcn(b)[0] = 0
         /\ \A i \in 1 .. n : HighFcn(b)[i] = W * HighFcn(b)[i - 1] + b[i]
         /\ \A i \in 0 .. n : HighFcn(b)[i] \in Nat
         /\ Jvm!ToBigInteger(b) = HighFcn(b)[n]
<1> DEFINE f == HighFcn(b)
           S == Nat
           base == 0
           V == W
           step == [i \in 1 .. n |-> [x \in S |-> V * x + b[i]]]
           Body(g) == [i \in 0 .. n |-> IF i = 0 THEN base ELSE V * g[i - 1] + b[i]]
<1>0. V \in Nat /\ Len(b) = n /\ \A i \in 1 .. n : b[i] \in Nat
  <2>1. \A i \in 1 .. n : b[i] \in Word
    BY ArraySeq
  <2>2. Word \subseteq Nat
    BY WType DEF Word
  <2> QED BY <2>1, <2>2, WType, ArraySeq
<1> HIDE DEF V
<1>1. base \in S
  OBVIOUS
<1> HIDE DEF base
<1>2. step \in Steps(n, S)
  <2>1. ASSUME NEW i \in 1 .. n, NEW x \in S
        PROVE  V * x + b[i] \in S
    <3>1. V * x \in Nat /\ b[i] \in Nat
      BY <1>0
    <3> DEFINE y == V * x
               z == b[i]
    <3> HIDE DEF y, z
    <3>2. y + z \in Nat
      BY <3>1 DEF y, z
    <3> QED BY <3>2 DEF y, z
  <2> HIDE DEF S
  <2> QED BY <2>1 DEF Steps
<1>3. PICK g \in [0 .. n -> S] : Recurs(g, n, base, step)
  <2> HIDE DEF step, S
  <2> QED BY ONLY <1>1, <1>2, n \in Nat, RecursionExists
<1>4. g = Body(g)
  <2>1. ASSUME NEW i \in 1 .. n
        PROVE  g[i] = V * g[i - 1] + b[i]
    <3> HIDE DEF S
    <3>1. g[i - 1] \in S
      BY <1>3
    <3>2. g[i] = step[i][g[i - 1]]
      <4> HIDE DEF step
      <4> QED BY <1>3 DEF Recurs
    <3> QED BY <3>1, <3>2
  <2>2. g[0] = base
    BY <1>3 DEF Recurs
  <2> HIDE DEF step, S
  <2> QED BY <1>3, <2>1, <2>2
<1>5. f = CHOOSE high : high = Body(high)
  BY <1>0 DEF HighFcn, base, V
<1>6. f = Body(f) /\ f = CHOOSE high : high = Body(high)
  <2> HIDE DEF f, Body
  <2> QED BY <1>4, <1>5
<1>7. Jvm!ToBigInteger(b) = f[n]
  BY <1>0 DEF Jvm!ToBigInteger, HighFcn
<1> HIDE DEF f
<1>8. f[0] = base /\ \A i \in 1 .. n : f[i] = V * f[i - 1] + b[i]
  BY <1>6
<1>9. \A i \in 0 .. n : f[i] \in Nat
  <2> DEFINE T == Nat
  <2>1. f[0] \in T
    BY <1>8 DEF base
  <2>2. \A i \in 1 .. n : f[i - 1] \in T => f[i] \in T
    <3> SUFFICES ASSUME NEW i \in 1 .. n, f[i - 1] \in Nat PROVE f[i] \in Nat
      OBVIOUS
    <3> DEFINE y == V * f[i - 1]
               z == b[i]
    <3>1. y \in Nat /\ z \in Nat
      BY <1>0
    <3>2. f[i] = y + z
      BY <1>8
    <3> HIDE DEF y, z
    <3> QED BY <3>1, <3>2
  <2> HIDE DEF T
  <2>3. \A i \in 0 .. n : f[i] \in T
    BY <2>1, <2>2, StaysIn
  <2> QED BY <2>3 DEF T
<1> QED BY <1>7, <1>8, <1>9 DEF f, base, V

\* The number of the array is the value of its reverse.
LEMMA BigValue ==
  ASSUME NEW n \in Nat, NEW b \in Array(n)
  PROVE  Jvm!ToBigInteger(b) = Value(Reverse(b)) /\ Jvm!ToBigInteger(b) \in Nat
<1> DEFINE f == HighFcn(b)
           r == Reverse(b)
           V == W
           Holds(i) == Number(V, r, n) = Number(V, r, n - i) + Power(V, n - i) * f[i]
           C == {i \in 0 .. n : Holds(i)}
<1>1. /\ f[0] = 0 /\ \A i \in 1 .. n : f[i] = V * f[i - 1] + b[i]
      /\ \A i \in 0 .. n : f[i] \in Nat
      /\ Jvm!ToBigInteger(b) = f[n]
  BY HighRec
<1>2. r \in Array(n) /\ \A i \in 1 .. n : r[i] = b[n - i + 1]
  BY ReverseSame
<1> HIDE DEF f, r
<1>3. V \in Int /\ Integers0(r, n) /\ Value(r) = Number(V, r, n)
  BY <1>2, WType, ArrayDigits
<1> HIDE DEF V
<1>4. 0 \in C
  <2>1. Power(V, n) * 0 = 0 /\ Number(V, r, n) \in Int
    BY <1>3, PowerNext, NumberInt
  <2>2. n - 0 = n
    OBVIOUS
  <2> QED BY <1>1, <2>1, <2>2
<1>5. ASSUME NEW i \in 1 .. n, i - 1 \in C
      PROVE  i \in C
  <2> DEFINE k == n - i
             j == k + 1
             x == f[i - 1]
             pw == Power(V, k)
             lo == Number(V, r, k)
             w == b[i]
  <2>1. k \in Nat /\ k + 1 = j /\ n - (i - 1) = j /\ n - j + 1 = i /\ j \in 1 .. n /\ j \in Nat \ {0} /\ j - 1 = k /\ j \in 0 .. n
    OBVIOUS
  <2>2. Number(V, r, n) = Number(V, r, j) + Power(V, j) * x
    BY <1>5, <2>1
  <2>3. f[i] = V * x + w /\ x \in Nat
    BY <1>1
  <2>4. r[j] = w
    BY <1>2, <2>1
  <2> HIDE DEF x, w, k, j
  <2>5. Integers0(r, j)
    BY <1>3, <2>1, FewerDigits
  <2>6. Number(V, r, j) = lo + r[j] * pw /\ lo \in Int /\ r[j] \in Int /\ pw \in Int
    <3>1. /\ Number(V, r, j) = Number(V, r, j - 1) + r[j] * Power(V, j - 1)
          /\ Number(V, r, j - 1) \in Int /\ r[j] \in Int /\ Power(V, j - 1) \in Int
      BY <1>3, <2>1, <2>5, NumberLast
    <3> QED BY <2>1, <3>1
  <2>7. Power(V, j) = V * pw
    BY <1>3, <2>1, PowerNext
  <2> HIDE DEF lo, pw
  <2>8. Number(V, r, n) = (lo + w * pw) + (V * pw) * x
    BY <2>2, <2>4, <2>6, <2>7
  <2>9. w \in Int /\ x \in Int
    BY <2>3, <2>4, <2>6
  <2>10. (lo + w * pw) + (V * pw) * x = lo + pw * (V * x + w)
    BY <1>3, <2>6, <2>9
  <2> QED BY <2>3, <2>8, <2>10 DEF lo, pw, k
<1>6. n \in C
  <2>1. \A i \in 0 .. n : i \in C
    <3> HIDE DEF C
    <3> QED BY <1>4, <1>5, UpTo
  <2> HIDE DEF C
  <2> QED BY <2>1
<1>7. Number(V, r, n) = Number(V, r, 0) + Power(V, 0) * f[n]
  <2>1. n - n = 0
    OBVIOUS
  <2> QED BY <1>6, <2>1
<1>8. Number(V, r, 0) = 0 /\ Power(V, 0) = 1
  BY <1>3, NumberZero, PowerZero
<1>9. f[n] \in Nat
  BY <1>1
<1> QED BY <1>1, <1>3, <1>7, <1>8, <1>9 DEF r

\* A short array is padded: the words are worth its number.
LEMMA HaclShort ==
  ASSUME NEW n \in Nat, NEW m \in 0 .. n, NEW b \in Array(m)
  PROVE  ToHaclBignum(b, n) \in Array(n) /\ Value(ToHaclBignum(b, n)) = Jvm!ToBigInteger(b)
<1> DEFINE k == n - m
           r == Reverse(b)
           z == Zeros(k)
<1>1. m \in Nat /\ k \in Nat /\ m + k = n /\ m # n + 1
  OBVIOUS
<1>2. r \in Array(m) /\ Len(b) = m /\ Value(r) = Jvm!ToBigInteger(b)
  BY <1>1, ReverseSame, ArraySeq, BigValue
<1>3. ToHaclBignum(b, n) = r \o z
  BY <1>1, <1>2 DEF ToHaclBignum
<1> HIDE DEF k, r
<1>4. z \in Array(k) /\ Value(z) = 0
  BY <1>1, ZerosValue
<1> HIDE DEF z
<1>5. r \o z \in Array(m + k) /\ Value(r \o z) = Value(r) + Power(W, m) * Value(z)
  BY <1>1, <1>2, <1>4, ConcatValue
<1>6. Power(W, m) * Value(z) = 0
  BY <1>1, <1>4, WType, PowerNext
<1>7. Value(r) \in Nat
  BY <1>1, <1>2, ValueBounds
<1>8. Value(r \o z) = Value(r)
  <2> DEFINE x == Value(r)
             y == Power(W, m) * Value(z)
  <2> HIDE DEF x, y
  <2>1. Value(r \o z) = x + y /\ x \in Nat /\ y = 0
    BY <1>5, <1>6, <1>7 DEF x, y
  <2> QED BY <2>1 DEF x
<1>9. r \o z \in Array(n)
  BY <1>1, <1>5
<1> QED BY <1>2, <1>3, <1>8, <1>9

\* Without its first byte a longer array is worth its number less that byte.
LEMMA HaclLong ==
  ASSUME NEW n \in Nat, NEW b \in Array(n + 1)
  PROVE  /\ Reverse(Tail(b)) \in Array(n) /\ Value(Reverse(Tail(b))) \in Nat /\ b[1] \in Nat
         /\ Jvm!ToBigInteger(b) = Value(Reverse(Tail(b))) + Power(W, n) * b[1]
<1> DEFINE m == n + 1
           T == Word
           t == Tail(b)
           r == Reverse(t)
           w == b[1]
           a == Append(r, w)
<1>1. m \in Nat /\ n \in Nat /\ b \in Seq(T) /\ Len(b) = m /\ m # 0
  BY ArraySeq
<1>2. t \in Array(n) /\ \A i \in 1 .. n : t[i] = b[i + 1]
  <2> HIDE DEF T
  <2>1. t \in Seq(T) /\ Len(t) = n /\ \A i \in 1 .. n : t[i] = b[i + 1]
    BY <1>1
  <2>2. t \in Array(Len(t))
    <3> HIDE DEF t
    <3> QED BY <2>1, SeqArray DEF T
  <2> QED BY <2>1, <2>2
<1> HIDE DEF t
<1>3. r \in Array(n) /\ r = [i \in 1 .. n |-> t[n - i + 1]]
  BY <1>2, ReverseSame
<1>4. w \in Word /\ w \in Nat
  <2>1. 1 \in 1 .. n + 1
    OBVIOUS
  <2>2. w \in Word
    BY <2>1 DEF Array
  <2> QED BY <2>2, WType DEF Word
<1> HIDE DEF w
<1>5. a \in Array(n + 1) /\ Value(a) = Value(r) + Power(W, n) * w
  <2> HIDE DEF r
  <2> QED BY <1>3, <1>4, AppendValue
<1>6. a = Reverse(b)
  <2> DEFINE s == Reverse(b)
  <2>1. s \in Array(m) /\ \A i \in 1 .. m : s[i] = b[m - i + 1]
    <3> HIDE DEF m
    <3>1. b \in Array(m)
      BY DEF m
    <3>2. Reverse(b) = [i \in 1 .. m |-> b[m - i + 1]] /\ Reverse(b) \in Array(m)
      BY <1>1, <3>1, ReverseSame
    <3> QED BY <3>2
  <2>2. \A i \in 1 .. m : a[i] = s[i]
    <3> TAKE i \in 1 .. m
    <3>1. CASE i \in 1 .. n
      <4>1. r \in Seq(T) /\ Len(r) = n
        <5> HIDE DEF r
        <5> QED BY <1>3, ArraySeq DEF T
      <4>2. a[i] = r[i]
        <5> HIDE DEF r, T
        <5> QED BY <3>1, <4>1
      <4>3. r[i] = t[n - i + 1]
        <5> HIDE DEF r
        <5> QED BY <1>3, <3>1
      <4>4. t[n - i + 1] = b[n - i + 1 + 1] /\ n - i + 1 + 1 = m - i + 1
        <5>1. n - i + 1 \in 1 .. n
          BY <3>1
        <5> QED BY <1>2, <5>1
      <4> QED BY <2>1, <4>2, <4>3, <4>4
    <3>2. CASE i = m
      <4>1. r \in Seq(T) /\ Len(r) = n
        <5> HIDE DEF r
        <5> QED BY <1>3, ArraySeq DEF T
      <4>2. a[i] = w
        <5>1. w \in T
          BY <1>4
        <5> HIDE DEF r, T
        <5> QED BY <3>2, <4>1, <5>1
      <4>3. m - i + 1 = 1
        BY <3>2
      <4>4. s[i] = w
        BY <2>1, <4>3 DEF w
      <4> QED BY <4>2, <4>4
    <3>3. i \in 1 .. n \/ i = m
      OBVIOUS
    <3> HIDE DEF a, s
    <3> QED BY <3>1, <3>2, <3>3
  <2> HIDE DEF s, a, m
  <2>3. a \in Array(m)
    BY <1>5 DEF m
  <2>4. a = s
    BY <1>1, <2>1, <2>2, <2>3, SameArray
  <2> QED BY <2>4 DEF s
<1> HIDE DEF a
<1>7. Jvm!ToBigInteger(b) = Value(Reverse(b))
  <2> HIDE DEF m
  <2>1. b \in Array(m)
    BY DEF m
  <2> QED BY <1>1, <2>1, BigValue
<1>8. Value(r) \in Nat
  BY <1>3, ValueBounds
<1> QED BY <1>3, <1>4, <1>5, <1>6, <1>7, <1>8 DEF r, t, w

\* A conversion is too big when the number is.
LEMMA HaclValue ==
  ASSUME NEW n \in Nat, NEW m \in 0 .. n + 1, NEW b \in Array(m)
  PROVE  /\ Jvm!ToBigInteger(b) \in Nat
         /\ TooBig(b, n) => Jvm!ToBigInteger(b) >= Power(W, n)
         /\ ~TooBig(b, n) => /\ ToHaclBignum(b, n) \in Array(n)
                             /\ Value(ToHaclBignum(b, n)) = Jvm!ToBigInteger(b)
<1> DEFINE v == Jvm!ToBigInteger(b)
           R == Power(W, n)
<1>1. m \in Nat /\ Len(b) = m
  BY ArraySeq
<1>2. v \in Nat /\ R \in Nat \ {0}
  BY <1>1, BigValue, WType, PowerPositive
<1>3. CASE m \in 0 .. n
  <2>1. ~TooBig(b, n)
    BY <1>1, <1>3 DEF TooBig
  <2> QED BY <1>2, <1>3, <2>1, HaclShort
<1>4. CASE m = n + 1
  <2> DEFINE r == Reverse(Tail(b))
             w == b[1]
  <2>1. b \in Array(n + 1)
    BY <1>4
  <2>2. r \in Array(n) /\ Value(r) \in Nat /\ w \in Nat /\ v = Value(r) + R * w
    BY <2>1, HaclLong
  <2>3. TooBig(b, n) <=> w # 0
    BY <1>1, <1>4 DEF TooBig
  <2>4. ToHaclBignum(b, n) = r
    BY <1>1, <1>4 DEF ToHaclBignum
  <2> HIDE DEF r, w, v, R
  <2>5. CASE w = 0
    <3>1. R * w = 0
      BY <1>2, <2>5
    <3>2. v = Value(r)
      BY <2>2, <3>1
    <3> QED BY <1>2, <2>2, <2>3, <2>4, <2>5, <3>2 DEF v, R
  <2>6. CASE w # 0
    <3> DEFINE rw == R * w
    <3>1. rw >= R /\ rw \in Int
      <4>1. w >= 1
        BY <2>2, <2>6
      <4> QED BY <1>2, <2>2, <4>1
    <3>2. v = Value(r) + rw
      BY <2>2
    <3> HIDE DEF rw
    <3>3. v >= R
      BY <1>2, <2>2, <3>1, <3>2
    <3> QED BY <1>2, <2>3, <2>6, <3>3 DEF v, R
  <2> QED BY <2>5, <2>6
<1>5. m \in 0 .. n \/ m = n + 1
  OBVIOUS
<1> QED BY <1>3, <1>4, <1>5

-----------------------------------------------------------------------------
(***************************************************************************)
(* Elements from arrays.                                                   *)
(***************************************************************************)
\* Both are null, or both are the same element.
NullOrQ(e, x) == (e = << >> /\ x = Jvm!Null) \/ IsQ(e, x)
NullOrP(e, x) == (e = << >> /\ x = Jvm!Null) \/ IsP(e, x)

\* Both platforms read the same element of Q or none.
LEMMA BinaryToQValue ==
  ASSUME NEW m \in 0 .. QLen + 1, NEW b \in Array(m)
  PROVE  NullOrQ(BinaryToQ(b), Jvm!BinaryToQ(b))
<1> DEFINE r == ToHaclBignum(b, QLen)
           v == Jvm!ToBigInteger(b)
           R == Power(W, QLen)
<1>1. QLen \in Nat /\ Q \in Nat /\ Q < R /\ R \in Nat /\ q \in Array(QLen) /\ Value(q) = Q
  BY GroupNumbers, QWords
<1>2. v \in Nat /\ (TooBig(b, QLen) => v >= R) /\ (~TooBig(b, QLen) => r \in Array(QLen) /\ Value(r) = v)
  BY <1>1, HaclValue
<1>3. BinaryToQ(b) = IF TooBig(b, QLen) \/ ~InBoundsQ(r) THEN << >> ELSE r
  BY DEF BinaryToQ
<1>4. Jvm!BinaryToQ(b) = IF v >= Q THEN Jvm!Null ELSE v
  BY DEF Jvm!BinaryToQ
<1> HIDE DEF r, v, R
<1>5. CASE TooBig(b, QLen)
  <2>1. v >= Q
    BY <1>1, <1>2, <1>5
  <2> QED BY <1>3, <1>4, <1>5, <2>1 DEF NullOrQ
<1>6. CASE ~TooBig(b, QLen)
  <2>1. r \in Array(QLen) /\ Value(r) = v
    BY <1>2, <1>6
  <2>2. Low(r) = r
    BY <1>1, <2>1, WholeSlice DEF Low
  <2>3. InBoundsQ(r) <=> v < Q
    BY <1>1, <2>1, <2>2, LtMaskLess DEF InBoundsQ
  <2>4. CASE v < Q
    <3>1. IsQ(r, v)
      BY <1>2, <2>1, <2>4, BelowQ
    <3>2. ~(v >= Q)
      BY <1>1, <1>2, <2>4
    <3> QED BY <1>3, <1>4, <1>6, <2>3, <2>4, <3>1, <3>2 DEF NullOrQ
  <2>5. CASE ~(v < Q)
    <3>1. v >= Q
      BY <1>1, <1>2, <2>5
    <3> QED BY <1>3, <1>4, <2>3, <2>5, <3>1 DEF NullOrQ
  <2> QED BY <2>4, <2>5
<1> QED BY <1>5, <1>6

\* Both platforms read the same element of P or none.
LEMMA BinaryToPValue ==
  ASSUME NEW m \in 0 .. PLen + 1, NEW b \in Array(m)
  PROVE  NullOrP(BinaryToP(b), Jvm!BinaryToP(b))
<1> DEFINE r == ToHaclBignum(b, PLen)
           v == Jvm!ToBigInteger(b)
           R == Power(W, PLen)
<1>1. PLen \in Nat /\ P \in Nat /\ P < R /\ R \in Nat
  BY GroupNumbers
<1>2. v \in Nat /\ (TooBig(b, PLen) => v >= R) /\ (~TooBig(b, PLen) => r \in Array(PLen) /\ Value(r) = v)
  BY <1>1, HaclValue
<1>3. BinaryToP(b) = IF TooBig(b, PLen) \/ ~InBoundsP(r) THEN << >> ELSE r
  BY DEF BinaryToP
<1>4. Jvm!BinaryToP(b) = IF v >= P THEN Jvm!Null ELSE v
  BY DEF Jvm!BinaryToP
<1> HIDE DEF r, v, R
<1>5. CASE TooBig(b, PLen)
  <2>1. v >= P
    BY <1>1, <1>2, <1>5
  <2> QED BY <1>3, <1>4, <1>5, <2>1 DEF NullOrP
<1>6. CASE ~TooBig(b, PLen)
  <2>1. r \in Array(PLen) /\ Value(r) = v
    BY <1>2, <1>6
  <2>2. InBoundsP(r) <=> v < P
    BY <2>1, InBoundsPValue
  <2>3. CASE v < P
    <3>1. IsP(r, v)
      BY <1>2, <2>1, <2>3, BelowP
    <3>2. ~(v >= P)
      BY <1>1, <1>2, <2>3
    <3> QED BY <1>3, <1>4, <1>6, <2>2, <2>3, <3>1, <3>2 DEF NullOrP
  <2>4. CASE ~(v < P)
    <3>1. v >= P
      BY <1>1, <1>2, <2>4
    <3> QED BY <1>3, <1>4, <2>2, <2>4, <3>1 DEF NullOrP
  <2> QED BY <2>3, <2>4
<1> QED BY <1>5, <1>6

\* The minimum is added without a carry.
LEMMA AtLeastValue ==
  ASSUME NEW n \in Nat, NEW r \in Array(n), NEW x \in Nat, Value(r) = x,
         NEW mi \in Nat, 2 * mi <= Power(W, n), NEW N \in Nat, x < N, 2 * mi <= N
  PROVE  /\ AtLeast(r, mi) \in Array(n) /\ Value(AtLeast(r, mi)) = Jvm!AtLeast(x, mi)
         /\ Jvm!AtLeast(x, mi) \in Nat /\ Jvm!AtLeast(x, mi) < N
<1> DEFINE m == Words(mi, n)
           s == Add(r, m).words
           c == Add(r, m).carry
           R == Power(W, n)
           t == x + mi
<1>1. R \in Nat \ {0}
  BY WType, PowerPositive
<1>2. mi < R
  BY <1>1
<1>3. m \in Array(n) /\ Value(m) = mi
  BY <1>2, SmallWords
<1>4. Len(r) = n
  BY ArraySeq
<1>5. AtLeast(r, mi) = IF LtMask(r, m) THEN s ELSE r
  BY <1>4 DEF AtLeast
<1> HIDE DEF m
<1>6. LtMask(r, m) <=> x < mi
  BY <1>3, LtMaskLess
<1>7. Jvm!AtLeast(x, mi) = IF x < mi THEN t ELSE x
  BY DEF Jvm!AtLeast
<1>8. CASE ~(x < mi)
  BY <1>5, <1>6, <1>7, <1>8
<1>9. CASE x < mi
  <2>1. s \in Array(n) /\ c \in {0, 1} /\ Value(s) + R * c = x + mi
    BY <1>3, AddCarryBit
  <2>2. Value(s) \in Nat
    BY <2>1, ValueBounds
  <2>3. t \in Nat /\ t < R /\ t < N
    <3> HIDE DEF R
    <3>1. 2 * mi <= R
      BY DEF R
    <3> QED BY <1>1, <1>9, <3>1
  <2> DEFINE y == Value(s)
  <2> HIDE DEF s, c, R
  <2>4. y + R * c = t /\ y \in Nat
    BY <2>1, <2>2
  <2> HIDE DEF y, t
  <2>5. y = t
    <3>1. c = 0
      <4> SUFFICES ASSUME c = 1 PROVE FALSE
        BY <2>1
      <4>1. R * c = R
        BY <1>1
      <4> QED BY <1>1, <2>3, <2>4, <4>1
    <3>2. R * c = 0
      BY <1>1, <3>1
    <3> QED BY <2>3, <2>4, <3>2
  <2> QED BY <1>5, <1>6, <1>7, <1>9, <2>1, <2>3, <2>5 DEF y, s
<1> QED BY <1>8, <1>9

\* Minimums are small.
LEMMA Minimum ==
  ASSUME NEW mi \in 0 .. MaxMinimum
  PROVE  mi \in Nat /\ 2 * mi <= Q /\ 2 * mi <= P /\ 2 * mi <= Power(W, QLen) /\ 2 * mi <= Power(W, PLen)
BY GroupAssumption, GroupNumbers

\* Both platforms reduce bytes to the same element of Q.
LEMMA SafeBinaryToQValue ==
  ASSUME NEW m \in 0 .. QLen, NEW b \in Array(m), NEW mi \in 0 .. MaxMinimum
  PROVE  IsQ(SafeBinaryToQ(b, mi), Jvm!SafeBinaryToQ(b, mi))
<1> DEFINE r == ToHaclBignum(b, QLen)
           v == Jvm!ToBigInteger(b)
           R == Power(W, QLen)
           s == IF LtMask(r, q) THEN r ELSE Add(r, p256minusQ).words
           x == v % Q
           zero == 0
<1>1. /\ QLen \in Nat /\ Q \in Nat /\ Q \in Nat \ {0} /\ Q < R /\ R < 2 * Q /\ R \in Nat
      /\ q \in Array(QLen) /\ Value(q) = Q
  BY GroupNumbers, QWords
<1>2. r \in Array(QLen) /\ Value(r) = v /\ v \in 0 .. R - 1 /\ v \in Nat
  <2>1. r \in Array(QLen) /\ Value(r) = v
    BY <1>1, HaclShort
  <2> HIDE DEF r, v
  <2>2. Value(r) \in 0 .. R - 1 /\ Value(r) \in Nat
    BY <1>1, <2>1, ValueBounds
  <2> QED BY <2>1, <2>2
<1>3. SafeBinaryToQ(b, mi) = AtLeast(s, mi)
  BY DEF SafeBinaryToQ
<1>4. Jvm!SafeBinaryToQ(b, mi) = Jvm!AtLeast(x, mi)
  BY DEF Jvm!SafeBinaryToQ
<1> HIDE DEF r, v
<1>5. LtMask(r, q) <=> v < Q
  BY <1>1, <1>2, LtMaskLess
<1>6. s \in Array(QLen) /\ Value(s) = x /\ x \in Nat /\ x < Q
  <2>1. CASE v < Q
    <3>1. v \in 0 .. Q - 1
      BY <1>1, <1>2, <2>1
    <3>2. v % Q = v
      BY <1>1, <3>1, ModSmall
    <3> QED BY <1>2, <1>5, <2>1, <3>2
  <2>2. CASE ~(v < Q)
    <3> DEFINE y == v - Q
               one == 1
    <3>1. y \in 0 .. Q - 1 /\ v = Q * one + y /\ one \in Int /\ v \in Int
      BY <1>1, <1>2, <2>2
    <3>2. v % Q = y
      <4> HIDE DEF y, one
      <4> QED BY <1>1, <3>1, EuclidUnique
    <3>3. zero \in {0, 1} /\ v = Value(r) + Power(W, QLen) * zero /\ v < 2 * Q /\ Q <= v
      <4>1. R * zero = 0
        BY <1>1
      <4> QED BY <1>1, <1>2, <2>2, <4>1
    <3> HIDE DEF zero
    <3>4. Add(r, p256minusQ).words \in Array(QLen) /\ Value(Add(r, p256minusQ).words) = v - Q
      BY <1>2, <3>3, SubtractQ
    <3>5. s = Add(r, p256minusQ).words
      BY <1>5, <2>2
    <3>6. x = v - Q /\ x \in Nat /\ x < Q
      BY <1>1, <3>1, <3>2
    <3> HIDE DEF s, x
    <3> QED BY <3>4, <3>5, <3>6
  <2> QED BY <2>1, <2>2
<1> HIDE DEF s, x
<1>7. mi \in Nat /\ 2 * mi <= Q /\ 2 * mi <= Power(W, QLen)
  BY Minimum
<1>8. /\ AtLeast(s, mi) \in Array(QLen) /\ Value(AtLeast(s, mi)) = Jvm!AtLeast(x, mi)
      /\ Jvm!AtLeast(x, mi) \in Nat /\ Jvm!AtLeast(x, mi) < Q
  BY <1>1, <1>6, <1>7, AtLeastValue
<1> QED BY <1>3, <1>4, <1>8, BelowQ

\* Both platforms reduce bytes to the same element of P.
LEMMA SafeBinaryToPValue ==
  ASSUME NEW m \in 0 .. PLen, NEW b \in Array(m), NEW mi \in 0 .. MaxMinimum
  PROVE  IsP(SafeBinaryToP(b, mi), Jvm!SafeBinaryToP(b, mi))
<1> DEFINE r == ToHaclBignum(b, PLen)
           v == Jvm!ToBigInteger(b)
           pr == Padded(r)
           s == ModPrecomp(montCtxP, pr)
           x == v % P
<1>1. PLen \in Nat /\ P \in Nat /\ P \in Nat \ {0} /\ Value(p) = P /\ Context(montCtxP, p, PLen)
  BY GroupNumbers, PWords
<1>2. Len(b) = m /\ m \in Nat /\ m <= PLen
  <2>1. m \in Nat
    BY <1>1
  <2>2. Len(b) = m
    BY <2>1, ArraySeq
  <2> QED BY <1>1, <2>1, <2>2
<1>3. SafeBinaryToP(b, mi) = AtLeast(s, mi)
  <2>1. ~(Len(b) > PLen)
    BY <1>1, <1>2
  <2> QED BY <2>1 DEF SafeBinaryToP
<1>4. Jvm!SafeBinaryToP(b, mi) = Jvm!AtLeast(x, mi)
  BY DEF Jvm!SafeBinaryToP
<1>5. r \in Array(PLen) /\ Value(r) = v /\ v \in Int
  <2>1. r \in Array(PLen) /\ Value(r) = v
    BY <1>1, HaclShort
  <2>2. v \in Nat
    BY <1>2, BigValue
  <2> QED BY <2>1, <2>2
<1> HIDE DEF r, v
<1>6. pr \in Array(2 * PLen) /\ Value(pr) = v
  BY <1>1, <1>5, PaddedValue
<1> HIDE DEF pr
<1>7. s \in Array(PLen) /\ Value(s) = x
  BY <1>1, <1>6, ModPrecompValue
<1>8. x \in Nat /\ x < P
  BY <1>1, <1>5
<1> HIDE DEF s, x
<1>9. mi \in Nat /\ 2 * mi <= P /\ 2 * mi <= Power(W, PLen)
  BY Minimum
<1>10. /\ AtLeast(s, mi) \in Array(PLen) /\ Value(AtLeast(s, mi)) = Jvm!AtLeast(x, mi)
       /\ Jvm!AtLeast(x, mi) \in Nat /\ Jvm!AtLeast(x, mi) < P
  BY <1>1, <1>7, <1>8, <1>9, AtLeastValue
<1> QED BY <1>3, <1>4, <1>10, BelowP

-----------------------------------------------------------------------------
(***************************************************************************)
(* Montgomery elements on both platforms.                                  *)
(***************************************************************************)
LEMMA ToMontgomeryValue ==
  ASSUME NEW a, NEW x, IsP(a, x)
  PROVE  IsP(ToMontgomery(a), Jvm!ToMontgomery(x))
<1> DEFINE r == ToMont(montCtxP, a)
           v == x * Power(W, PLen)
<1>1. PLen \in Nat /\ Value(p) = P /\ Context(montCtxP, p, PLen) /\ Power(W, PLen) \in Nat \ {0}
  BY GroupNumbers, PWords
<1>2. a \in Array(PLen) /\ Value(a) = x /\ x \in Int
  BY GroupNumbers DEF IsP
<1>3. r \in Array(PLen) /\ Value(r) = v % P
  BY <1>1, <1>2, ToMontValue
<1>4. v \in Int
  BY <1>1, <1>2
<1>5. ToMontgomery(a) = r /\ Jvm!ToMontgomery(x) = v % P
  BY DEF ToMontgomery, Jvm!ToMontgomery
<1> HIDE DEF r, v
<1> QED BY <1>3, <1>4, <1>5, ModP

\* The inverse of the radix modulo P, and of P modulo the radix.
LEMMA RadixInverts ==
  /\ \E y : Inverts(y, Power(W, PLen) % P, P)
  /\ \E y : Inverts(y, P, Power(W, PLen))
<1> DEFINE R == Power(W, PLen)
           n == P
<1>1. PLen \in Nat /\ n \in Nat \ {0, 1} /\ n \in Nat \ {0} /\ n % 2 = 1 /\ R \in Nat \ {0} /\ R > 1
  BY GroupNumbers
<1>2. PICK ri \in Int : (R * ri) % n = 1
  <2> HIDE DEF n
  <2> QED BY <1>1, RadixInverse
<1> HIDE DEF R, n
<1>3. Inverts(ri % n, R % n, n)
  <2>1. R \in Int /\ R % n \in Int /\ ri % n \in 0 .. n - 1
    BY <1>1
  <2> DEFINE s == R % n
  <2>2. (s * (ri % n)) % n = (s * ri) % n
    BY <1>1, <2>1, ModTimesMod
  <2>3. (s * ri) % n = (R * ri) % n
    BY <1>1, <2>1, ModTimesMod
  <2> QED BY <1>2, <2>1, <2>2, <2>3 DEF Inverts
<1>4. \E y : Inverts(y, n, R)
  <2> DEFINE ax == R * ri
             one == 1
             k == ax \div n
             j == -k
             nj == n * j
             ni == -ri
  <2>1. ax \in Int /\ k \in Int /\ ax = n * k + 1
    <3>1. ax \in Int
      BY <1>1
    <3> HIDE DEF ax
    <3>2. k \in Int /\ ax = n * k + (ax % n)
      BY <1>1, <3>1, Euclid
    <3>3. ax % n = 1
      BY <1>2 DEF ax
    <3> QED BY <3>1, <3>2, <3>3
  <2> HIDE DEF k
  <2>2. j \in Int /\ nj \in Int /\ nj = -(n * k)
    BY <1>1, <2>1
  <2>3. ni \in Int /\ R * ni = -ax
    BY <1>1
  <2>4. nj = one + R * ni
    <3> DEFINE nk == n * k
               rn == R * ni
    <3>1. nk \in Int /\ rn \in Int
      BY <1>1, <2>1, <2>3
    <3> HIDE DEF ax, nj, nk, rn
    <3> QED BY <2>1, <2>2, <2>3, <3>1 DEF nk, rn
  <2> HIDE DEF ax, ni, j
  <2>5. one \in 0 .. R - 1 /\ one \in Int
    BY <1>1
  <2> HIDE DEF one
  <2>6. nj % R = one % R
    <3>1. R \in Nat \ {0} /\ nj \in Int /\ one \in Int /\ ni \in Int /\ nj = one + R * ni
      BY <1>1, <2>2, <2>3, <2>4, <2>5
    <3> HIDE DEF nj
    <3> QED BY ONLY <3>1, ModCongruent
  <2>7. one % R = one
    BY <1>1, <2>5, ModSmall
  <2>8. (n * (j % R)) % R = nj % R /\ j % R \in 0 .. R - 1
    <3>1. R \in Nat \ {0} /\ n \in Int /\ j \in Int
      BY <1>1, <2>2
    <3>2. (n * (j % R)) % R = (n * j) % R
      BY ONLY <3>1, ModTimesMod
    <3> QED BY <3>1, <3>2
  <2>9. Inverts(j % R, n, R)
    BY <2>6, <2>7, <2>8 DEF Inverts, one
  <2> QED BY <2>9
<1> QED BY <1>3, <1>4 DEF n, R

\* Leaving the Montgomery form agrees.
LEMMA ToElementModPValue ==
  ASSUME NEW a, NEW x, IsP(a, x)
  PROVE  IsP(ToElementModP(a), Jvm!ToElementModP(x))
<1> DEFINE R == Power(W, PLen)
           n == P
           s == R % n
           ip == Jvm!montgomeryIPrime
           r == FromMont(montCtxP, a)
           y == x * ip
           one == 1
<1>1. /\ PLen \in Nat /\ Value(p) = n /\ Context(montCtxP, p, PLen) /\ R \in Nat \ {0} /\ n \in Nat \ {0}
      /\ R \in Int
  BY GroupNumbers, PWords
<1>2. a \in Array(PLen) /\ Value(a) = x /\ x \in Int
  BY GroupNumbers DEF IsP
<1>3. ip = Jvm!ModInverse(s, n)
  BY DEF Jvm!montgomeryIPrime
<1>4. Jvm!ToElementModP(x) = y % n
  BY DEF Jvm!ToElementModP
<1>5. \E z : Inverts(z, s, n)
  BY RadixInverts
<1> HIDE DEF R, n
<1>6. s \in Int
  BY <1>1
<1> HIDE DEF ip, s
<1>7. Inverts(ip, s, n)
  BY <1>1, <1>3, <1>5, <1>6, ModInverseIs
<1>8. ip \in Int /\ (s * ip) % n = 1 /\ s = R % n
  BY <1>1, <1>7 DEF Inverts, s, n
<1>9. Congruent(x, R * y, n)
  <2> DEFINE ri == R * ip
  <2>1. (s * ip) % n = (R * ip) % n
    BY <1>1, <1>8, ModTimesMod
  <2>2. ri % n = 1 /\ ri \in Int
    BY <1>1, <1>8, <2>1
  <2>3. one \in Int /\ one % n = one
    <3>1. one \in 0 .. n - 1
      BY GroupNumbers DEF n
    <3> HIDE DEF one
    <3> QED BY <1>1, <3>1, ModSmall
  <2>4. Congruent(ri, one, n) /\ Congruent(x, x, n)
    BY <2>2, <2>3 DEF Congruent
  <2> HIDE DEF ri, one
  <2>5. Congruent(x * ri, x * one, n)
    BY <1>1, <1>2, <2>2, <2>3, <2>4, CongruentTimes
  <2>6. x * ri = R * y /\ x * one = x
    BY <1>1, <1>2, <1>8 DEF ri, one
  <2> QED BY <2>5, <2>6 DEF Congruent
<1>10. y \in Int
  BY <1>2, <1>8
<1> HIDE DEF y
<1>11. r \in Array(PLen) /\ Value(r) = y % n
  <2>1. Congruent(Value(a), Power(W, PLen) * y, Value(p))
    BY <1>1, <1>2, <1>9 DEF R
  <2> QED BY <1>1, <1>2, <1>10, <2>1, FromMontValue
<1> HIDE DEF r
<1>12. IsP(r, y % P)
  BY <1>10, <1>11, ModP DEF n
<1> QED BY <1>4, <1>12 DEF ToElementModP, r, n

\* The JVM's reduction: a multiple of P makes the product a multiple of the radix.
RedcZero(k, n, w, R) == (k * n + w) % R = 0

\* The JVM's Montgomery product divides without a remainder.
LEMMA RedcExact ==
  ASSUME NEW R \in Nat \ {0}, NEW n \in Nat, NEW pp \in Int, NEW w \in Nat, NEW k \in 0 .. R - 1,
         NEW inv \in Int, (n * inv) % R = 1, pp = R - inv, k = ((w % R) * pp) % R
  PROVE  RedcZero(k, n, w, R)
<1> DEFINE wp == w * pp
           npp == n * pp
           ni == n * inv
           a == ni \div R
           t == k * n + w
           zero == 0
<1>1. wp \in Int /\ npp \in Int /\ ni \in Int /\ w \in Int /\ n \in Int /\ k \in Int
  BY DEF wp, npp, ni
<1>2. k = wp % R
  <2>1. w \in Int /\ pp \in Int /\ R \in Nat \ {0}
    BY <1>1
  <2>2. ((w % R) * pp) % R = (w * pp) % R
    BY ONLY <2>1, ModTimesMod
  <2> QED BY <2>2
<1>3. ni = R * a + 1 /\ a \in Int
  <2>1. ni % R = 1
    OBVIOUS
  <2> HIDE DEF ni
  <2> QED BY <1>1, <2>1, Euclid
<1> HIDE DEF wp, a
<1>4. PICK c \in Int : wp = k + R * c
  <2> DEFINE c0 == wp \div R
  <2>1. c0 \in Int /\ wp = R * c0 + (wp % R)
    BY <1>1, Euclid
  <2>2. wp = k + R * c0
    <3> DEFINE rc == R * c0
    <3>1. rc \in Int
      BY <2>1
    <3> HIDE DEF rc
    <3>2. wp = rc + k
      BY <1>2, <2>1 DEF rc
    <3>3. wp = k + rc
      BY <3>1, <3>2
    <3> QED BY <3>3 DEF rc
  <2> HIDE DEF c0
  <2> QED BY <2>1, <2>2
<1>5. npp = n * R - ni
  BY DEF npp, ni
<1>6. npp = R * (n - a) - 1
  <2>1. R * (n - a) = n * R - R * a
    BY <1>3
  <2> DEFINE u == R * (n - a)
             v == n * R
             z == R * a
  <2>2. v \in Int /\ z \in Int
    BY <1>3
  <2> HIDE DEF u, v, z, npp, ni
  <2> QED BY <1>3, <1>5, <2>1, <2>2 DEF u, v, z
<1>7. wp * n = w * npp
  BY DEF wp, npp
<1> DEFINE m == w * (n - a) - c * n
<1>8. t = R * m
  <2>1. wp * n = (k + R * c) * n
    BY <1>4
  <2>2. (k + R * c) * n = k * n + R * (c * n)
    BY <1>1
  <2>3. w * npp = R * (w * (n - a)) - w
    <3>1. w * npp = w * (R * (n - a) - 1)
      BY <1>6
    <3>2. w * (R * (n - a) - 1) = R * (w * (n - a)) - w
      BY <1>3
    <3> QED BY <3>1, <3>2
  <2>4. R * m = R * (w * (n - a)) - R * (c * n)
    BY <1>3
  <2> DEFINE kn == k * n
             rcn == R * (c * n)
             rw == R * (w * (n - a))
             rm == R * m
  <2>5. kn \in Int /\ rcn \in Int /\ rw \in Int
    BY <1>3
  <2>6. kn + rcn = rw - w /\ rm = rw - rcn
    BY <1>7, <2>1, <2>2, <2>3, <2>4
  <2> HIDE DEF kn, rcn, rw, rm
  <2>7. kn + w = rm
    BY <2>5, <2>6
  <2> QED BY <2>7 DEF kn, rm
<1>9. m \in Int /\ t \in Int
  BY <1>3
<1> HIDE DEF m, t
<1>10. R \in Nat \ {0} /\ m \in Int /\ t \in Int /\ zero \in 0 .. R - 1 /\ t = R * m + zero
  BY <1>8, <1>9
<1> HIDE DEF zero
<1>11. t % R = zero
  BY ONLY <1>10, EuclidUnique
<1> QED BY <1>11 DEF RedcZero, t, zero

\* Montgomery products agree.
THEOREM TimesMValue ==
  ASSUME NEW a, NEW b, NEW x, NEW y, IsP(a, x), IsP(b, y)
  PROVE  IsP(TimesM(a, b), Jvm!TimesM(x, y))
<1> DEFINE R == Power(W, PLen)
           n == P
           inv == Jvm!ModInverse(n, R)
           pp == Jvm!montgomeryPPrime
           w == x * y
           k == ((w % R) * pp) % R
           t == k * n + w
           z == t \div R
           res == IF z >= n THEN z - n ELSE z
           r == MontMul(montCtxP, a, b)
           v == Value(r)
<1>1. /\ PLen \in Nat /\ Value(p) = n /\ Context(montCtxP, p, PLen) /\ R \in Nat \ {0} /\ n \in Nat \ {0}
      /\ n < R /\ n \in Nat
  BY GroupNumbers, PWords
<1>2. a \in Array(PLen) /\ Value(a) = x /\ b \in Array(PLen) /\ Value(b) = y /\ x \in Nat /\ y \in Nat
      /\ x < n /\ y < n
  BY GroupNumbers DEF IsP
<1>3. MontReduced(r, p, PLen, w) /\ v < n
  <2>1. Value(b) < Value(p)
    BY <1>1, <1>2
  <2>2. MontReduced(r, p, PLen, Value(a) * Value(b)) /\ v < Value(p)
    BY <1>1, <1>2, <2>1, MontMulValue
  <2> QED BY <1>1, <1>2, <2>2
<1>4. r \in Array(PLen) /\ (R * v) % n = w % n
  BY <1>1, <1>3 DEF MontReduced
<1>5. TimesM(a, b) = r /\ Jvm!TimesM(x, y) = res /\ pp = R - inv
  BY DEF TimesM, Jvm!TimesM, Jvm!montgomeryPPrime
<1> HIDE DEF r
<1>6. v \in Nat
  BY <1>1, <1>4, ValueBounds
<1>7. \E u : Inverts(u, n, R)
  BY RadixInverts
<1> HIDE DEF R, n, inv, pp, v
<1>8. Inverts(inv, n, R)
  BY <1>1, <1>7, ModInverseIs DEF inv
<1>9. inv \in Int /\ (n * inv) % R = 1 /\ pp \in Int
  BY <1>1, <1>5, <1>8 DEF Inverts
<1>10. w \in Nat /\ w < R * n
  <2>1. y < n /\ x < R /\ x \in Nat /\ y \in Nat
    BY <1>1, <1>2
  <2> QED BY <1>1, <2>1, LessTimes
<1> HIDE DEF w
<1>11. k \in 0 .. R - 1
  <2> DEFINE u == (w % R) * pp
  <2>1. u \in Int
    BY <1>1, <1>9, <1>10
  <2> HIDE DEF u
  <2>2. u % R \in 0 .. R - 1
    BY <1>1, <2>1
  <2> QED BY <2>2 DEF u
<1>12. k = ((w % R) * pp) % R
  OBVIOUS
<1> HIDE DEF k
<1>13. t % R = 0
  <2>1. /\ R \in Nat \ {0} /\ n \in Nat /\ pp \in Int /\ w \in Nat /\ k \in 0 .. R - 1
        /\ inv \in Int /\ (n * inv) % R = 1 /\ pp = R - inv /\ k = ((w % R) * pp) % R
    BY <1>1, <1>5, <1>9, <1>10, <1>11, <1>12
  <2>2. RedcZero(k, n, w, R)
    BY ONLY <2>1, RedcExact
  <2> QED BY <2>2 DEF RedcZero
<1> DEFINE kn == k * n
<1>14. kn \in Nat /\ kn < R * n
  <2>1. (R - 1) * n = R * n - n /\ (R - 1 - k) * n = (R - 1) * n - kn /\ (R - 1 - k) * n >= 0
    <3> DEFINE d == R - 1 - k
    <3>1. d \in Nat
      BY <1>1, <1>11
    <3>2. d * n \in Nat
      <4> HIDE DEF d
      <4> QED BY <1>1, <3>1
    <3> QED BY <1>1, <1>11, <3>2
  <2>2. kn \in Nat
    BY <1>1, <1>11
  <2> DEFINE rn == R * n
             u == (R - 1) * n
             c == (R - 1 - k) * n
  <2>3. rn \in Int /\ u \in Int /\ c \in Int
    BY <1>1, <1>11
  <2> HIDE DEF rn, u, c, kn
  <2> QED BY <1>1, <2>1, <2>2, <2>3 DEF rn, u, c
<1>15. t \in Nat /\ t < 2 * (R * n)
  <2> DEFINE rn == R * n
  <2>1. rn \in Nat
    BY <1>1
  <2> HIDE DEF rn, kn
  <2>2. t = kn + w
    BY DEF kn
  <2> HIDE DEF t
  <2> QED BY <1>10, <1>14, <2>1, <2>2 DEF rn
<1>16. z \in Nat /\ t = R * z
  <2>1. t % R = 0 /\ t \in Int
    BY <1>13, <1>15
  <2> HIDE DEF t
  <2>2. z \in Int /\ t = R * z + (t % R)
    BY <1>1, <2>1, Euclid
  <2>3. z \in Nat
    BY <1>1, <1>15, DivNat
  <2>4. R * z \in Int
    BY <1>1, <2>2
  <2> HIDE DEF z
  <2> QED BY <2>1, <2>2, <2>3, <2>4
<1>17. t = n * k + w
  <2>1. k * n = n * k
    BY <1>1, <1>11
  <2> QED BY <2>1
<1> HIDE DEF t, z, kn
<1>18. z < 2 * n
  <2> SUFFICES ASSUME ~(z < 2 * n) PROVE FALSE
    OBVIOUS
  <2> DEFINE d == z - 2 * n
  <2>1. d \in Nat /\ z = 2 * n + d
    BY <1>1, <1>16
  <2> HIDE DEF d
  <2>2. R * z = 2 * (R * n) + R * d
    BY <1>1, <2>1
  <2>3. R * d \in Nat
    BY <1>1, <2>1
  <2> DEFINE rd == R * d
             rn == R * n
  <2>4. rn \in Nat
    BY <1>1
  <2> HIDE DEF rd, rn
  <2>5. t = 2 * rn + rd /\ rd \in Nat /\ t < 2 * rn
    BY <1>15, <1>16, <2>2, <2>3 DEF rd, rn
  <2> QED BY <1>15, <2>4, <2>5
<1>19. res \in 0 .. n - 1
  BY <1>1, <1>16, <1>18
<1>20. (R * res) % n = w % n
  <2>1. PICK c \in {0, 1} : res = z - n * c
    <3>1. CASE z >= n
      <4> DEFINE c == 1
      <4>1. c \in {0, 1} /\ res = z - n * c
        BY <1>1, <1>16, <3>1
      <4> QED BY <4>1
    <3>2. CASE ~(z >= n)
      <4> DEFINE c == 0
      <4>1. c \in {0, 1} /\ res = z - n * c
        BY <1>1, <1>16, <3>2
      <4> QED BY <4>1
    <3> QED BY <3>1, <3>2
  <2> HIDE DEF res
  <2> DEFINE rr == R * res
             d == k - R * c
  <2>2. rr = R * z - n * (R * c)
    BY <1>1, <1>16, <2>1
  <2>3. d \in Int
    BY <1>1, <1>11, <2>1
  <2>4. n * d = n * k - n * (R * c)
    BY <1>1, <1>11, <2>1
  <2>5. rr = w + n * d
    <3> DEFINE u == n * k
               s == n * (R * c)
               nd == n * d
               rz == R * z
    <3>1. u \in Int /\ s \in Int /\ nd = u - s /\ rz = u + w /\ rr = rz - s
      BY <1>1, <1>11, <1>16, <1>17, <2>1, <2>2, <2>4
    <3>2. w \in Int
      BY <1>10
    <3> HIDE DEF u, s, nd, rz, rr
    <3>3. rr = w + nd
      BY <3>1, <3>2
    <3> QED BY <3>3 DEF nd
  <2>6. rr \in Int /\ w \in Int
    BY <1>1, <1>10, <1>19
  <2> HIDE DEF rr, d
  <2>7. rr % n = w % n
    BY <1>1, <2>3, <2>5, <2>6, ModCongruent
  <2> QED BY <2>7 DEF rr
<1> HIDE DEF res
<1>21. v = res % n
  <2>1. Congruent(R * v, R * res, n)
    BY <1>4, <1>20 DEF Congruent
  <2>2. res \in Int /\ v < Value(p)
    BY <1>1, <1>3, <1>19
  <2> QED BY <1>1, <1>6, <2>1, <2>2, RadixDecides DEF R
<1>22. res % n = res
  BY <1>1, <1>19, ModSmall
<1>23. IsP(r, res)
  BY <1>4, <1>19, <1>21, <1>22 DEF IsP, v, n
<1> QED BY <1>5, <1>23

-----------------------------------------------------------------------------
(***************************************************************************)
(* PowRadix: slices.  Digits are taken two or three at a time.             *)
(***************************************************************************)
LEMMA PairsNumber ==
  ASSUME NEW b \in Int, NEW m \in Nat, NEW d, Integers0(d, 2 * m), NEW s,
         \A i \in 1 .. m : s[i] = d[2 * i - 1] + b * d[2 * i]
  PROVE  Number(b * b, s, m) = Number(b, d, 2 * m) /\ Integers0(s, m)
<1> DEFINE bb == b * b
           Holds(i) == Number(bb, s, i) = Number(b, d, 2 * i)
           C == {i \in 0 .. m : Holds(i)}
<1>1. bb \in Int /\ bb = b * b
  OBVIOUS
<1>2. Integers0(s, m)
  <2>1. \A i \in 1 .. m : s[i] \in Int
    <3> TAKE i \in 1 .. m
    <3> DEFINE x == d[2 * i - 1]
               y == d[2 * i]
    <3>1. 2 * i - 1 \in 1 .. 2 * m /\ 2 * i \in 1 .. 2 * m
      OBVIOUS
    <3>2. x \in Int /\ y \in Int /\ s[i] = x + b * y
      BY <3>1 DEF Integers0
    <3> HIDE DEF x, y
    <3> QED BY <3>2
  <2> QED BY <2>1 DEF Integers0
<1> HIDE DEF bb
<1>3. 0 \in C
  <2>1. 2 * 0 = 0
    OBVIOUS
  <2>2. Number(bb, s, 0) = 0 /\ Number(b, d, 0) = 0
    BY <1>1, NumberZero
  <2> QED BY <2>1, <2>2
<1>4. ASSUME NEW i \in 1 .. m, i - 1 \in C
      PROVE  i \in C
  <2> DEFINE k == i - 1
             e0 == 2 * k
             e1 == e0 + 1
             e2 == e1 + 1
             x == d[e1]
             y == d[e2]
             pw == Power(b, e0)
             lo == Number(b, d, e0)
  <2>1. /\ k \in Nat /\ e0 \in Nat /\ e1 \in Nat /\ e2 \in 0 .. 2 * m /\ e1 \in 0 .. 2 * m /\ e2 = 2 * i
        /\ 2 * i - 1 = e1 /\ k + 1 = i /\ i \in 0 .. m /\ e1 \in 1 .. 2 * m /\ e2 \in 1 .. 2 * m
    OBVIOUS
  <2>2. Number(bb, s, k) = lo
    BY <1>4
  <2>3. Integers0(s, i)
    BY <1>2, <2>1, FewerDigits
  <2> HIDE DEF k
  <2>4. Number(bb, s, k + 1) = Number(bb, s, k) + s[k + 1] * Power(bb, k)
    BY <1>1, <2>1, <2>3, NumberNext
  <2>5. s[i] = x + b * y /\ x \in Int /\ y \in Int
    <3>1. s[i] = d[2 * i - 1] + b * d[2 * i]
      OBVIOUS
    <3> QED BY <2>1, <3>1 DEF Integers0
  <2>6. Integers0(d, e1) /\ Integers0(d, e2)
    <3>1. 2 * m \in Nat
      OBVIOUS
    <3> DEFINE mm == 2 * m
    <3> HIDE DEF e1, e2, e0
    <3>2. e1 \in 0 .. mm /\ e2 \in 0 .. mm /\ mm \in Nat /\ Integers0(d, mm)
      BY <2>1, <3>1
    <3> HIDE DEF mm
    <3> QED BY <3>2, FewerDigits
  <2>7. Power(bb, k) = pw
    <3> DEFINE one == 1
               two == one + 1
    <3>1. one \in Nat /\ two = 2 /\ two \in Nat
      OBVIOUS
    <3>2. Power(b, two) = b * Power(b, one)
      <4> HIDE DEF one
      <4> QED BY <3>1, PowerNext
    <3>3. Power(b, one) = b
      BY PowerOne
    <3> HIDE DEF one, two
    <3>4. Power(Power(b, two), k) = Power(b, two * k)
      BY <2>1, <3>1, PowerPower
    <3> QED BY <1>1, <3>1, <3>2, <3>3, <3>4
  <2> HIDE DEF e0
  <2>8. Number(b, d, e0 + 1) = lo + d[e0 + 1] * pw /\ Power(b, e0 + 1) = b * pw /\ pw \in Int
    BY <2>1, <2>6, NumberNext, PowerNext
  <2> DEFINE lo1 == Number(b, d, e1)
             pw1 == Power(b, e1)
  <2>9. lo1 = lo + x * pw /\ pw1 = b * pw
    BY <2>8
  <2> HIDE DEF e1
  <2>10. Number(b, d, e1 + 1) = lo1 + d[e1 + 1] * pw1
    BY <2>1, <2>6, NumberNext
  <2>11. Number(b, d, e2) = lo1 + y * pw1
    BY <2>10
  <2> HIDE DEF e2, x, y
  <2>12. lo \in Int
    <3>1. Integers0(d, e0)
      BY <2>1, <2>6 DEF Integers0, e1
    <3> QED BY <2>1, <3>1, NumberInt
  <2> HIDE DEF lo, pw, lo1, pw1
  <2>13. (x + b * y) * pw = x * pw + y * (b * pw)
    BY <2>5, <2>8
  <2> DEFINE u == x * pw
             w == y * (b * pw)
  <2>14. u \in Int /\ w \in Int
    BY <2>5, <2>8
  <2> HIDE DEF u, w
  <2>15. Number(bb, s, i) = lo + (u + w)
    BY <2>1, <2>2, <2>4, <2>5, <2>7, <2>13 DEF u, w
  <2>16. Number(b, d, e2) = (lo + u) + w
    BY <2>9, <2>11 DEF u, w
  <2>17. Number(bb, s, i) = Number(b, d, 2 * i)
    BY <2>1, <2>12, <2>14, <2>15, <2>16
  <2> QED BY <2>1, <2>17
<1>5. m \in C
  <2>1. \A i \in 0 .. m : i \in C
    <3> HIDE DEF C
    <3> QED BY <1>3, <1>4, UpTo
  <2> HIDE DEF C
  <2> QED BY <2>1
<1> QED BY <1>1, <1>2, <1>5

\* Powers of a cube.
LEMMA PowerThree ==
  ASSUME NEW b \in Int, NEW k \in Nat
  PROVE  /\ Power((b * b) * b, k) = Power(b, 3 * k)
         /\ Power(b, 3 * k) \in Int
<1> DEFINE one == 1
           two == one + 1
           three == two + 1
<1>1. one \in Nat /\ two \in Nat /\ three \in Nat /\ three = 3
  OBVIOUS
<1>2. Power(b, one) = b
  BY PowerOne
<1> HIDE DEF one
<1>3. Power(b, two) = b * b
  BY <1>1, <1>2, PowerNext
<1> HIDE DEF two
<1>4. Power(b, three) = b * (b * b)
  BY <1>1, <1>3, PowerNext
<1> HIDE DEF three
<1>5. Power(Power(b, three), k) = Power(b, three * k)
  BY <1>1, PowerPower
<1>6. b * (b * b) = (b * b) * b
  OBVIOUS
<1> DEFINE t == three * k
<1>7. t \in Nat /\ t = 3 * k
  BY <1>1
<1> HIDE DEF t
<1>8. Power(b, t) \in Int
  BY <1>7, PowerNext
<1>9. Power(Power(b, three), k) = Power(b, t)
  BY <1>5 DEF t
<1> QED BY <1>4, <1>6, <1>7, <1>8, <1>9

\* Three digits at a time are the digits to the cube of the base.
LEMMA TriplesNumber ==
  ASSUME NEW b \in Int, NEW m \in Nat, NEW d, Integers0(d, 3 * m), NEW s,
         \A i \in 1 .. m : s[i] = (d[3 * i - 2] + b * d[3 * i - 1]) + (b * b) * d[3 * i]
  PROVE  Number((b * b) * b, s, m) = Number(b, d, 3 * m) /\ Integers0(s, m)
<1> DEFINE bb == (b * b) * b
           Holds(i) == Number(bb, s, i) = Number(b, d, 3 * i)
           C == {i \in 0 .. m : Holds(i)}
<1>1. bb \in Int /\ bb = (b * b) * b
  OBVIOUS
<1>2. Integers0(s, m)
  <2>1. \A i \in 1 .. m : s[i] \in Int
    <3> TAKE i \in 1 .. m
    <3> DEFINE x == d[3 * i - 2]
               y == d[3 * i - 1]
               z == d[3 * i]
    <3>1. 3 * i - 2 \in 1 .. 3 * m /\ 3 * i - 1 \in 1 .. 3 * m /\ 3 * i \in 1 .. 3 * m
      OBVIOUS
    <3>2. x \in Int /\ y \in Int /\ z \in Int /\ s[i] = (x + b * y) + (b * b) * z
      BY <3>1 DEF Integers0
    <3> HIDE DEF x, y, z
    <3> QED BY <3>2
  <2> QED BY <2>1 DEF Integers0
<1> HIDE DEF bb
<1>3. 0 \in C
  <2>1. 3 * 0 = 0
    OBVIOUS
  <2>2. Number(bb, s, 0) = 0 /\ Number(b, d, 0) = 0
    BY <1>1, NumberZero
  <2> QED BY <2>1, <2>2
<1>4. ASSUME NEW i \in 1 .. m, i - 1 \in C
      PROVE  i \in C
  <2> DEFINE k == i - 1
             e0 == 3 * k
             e1 == e0 + 1
             e2 == e1 + 1
             e3 == e2 + 1
             x == d[e1]
             y == d[e2]
             z == d[e3]
             pw == Power(b, e0)
             lo == Number(b, d, e0)
  <2>1. /\ k \in Nat /\ e0 \in Nat /\ e1 \in Nat /\ e2 \in Nat /\ e3 = 3 * i
        /\ e1 \in 0 .. 3 * m /\ e2 \in 0 .. 3 * m /\ e3 \in 0 .. 3 * m
        /\ 3 * i - 2 = e1 /\ 3 * i - 1 = e2 /\ k + 1 = i /\ i \in 0 .. m
        /\ e1 \in 1 .. 3 * m /\ e2 \in 1 .. 3 * m /\ e3 \in 1 .. 3 * m
    OBVIOUS
  <2>2. Number(bb, s, k) = lo
    BY <1>4
  <2>3. Integers0(s, i)
    BY <1>2, <2>1, FewerDigits
  <2>7. Power(bb, k) = pw /\ pw \in Int
    <3> HIDE DEF k
    <3> QED BY <1>1, <2>1, PowerThree
  <2> HIDE DEF k
  <2>4. Number(bb, s, k + 1) = Number(bb, s, k) + s[k + 1] * Power(bb, k)
    BY <1>1, <2>1, <2>3, NumberNext
  <2>5. s[i] = (x + b * y) + (b * b) * z /\ x \in Int /\ y \in Int /\ z \in Int
    <3>1. s[i] = (d[3 * i - 2] + b * d[3 * i - 1]) + (b * b) * d[3 * i]
      OBVIOUS
    <3> QED BY <2>1, <3>1 DEF Integers0
  <2>6. Integers0(d, e1) /\ Integers0(d, e2) /\ Integers0(d, e3)
    <3>1. 3 * m \in Nat
      OBVIOUS
    <3> DEFINE mm == 3 * m
    <3> HIDE DEF e1, e2, e0, e3
    <3>2. e1 \in 0 .. mm /\ e2 \in 0 .. mm /\ e3 \in 0 .. mm /\ mm \in Nat /\ Integers0(d, mm)
      BY <2>1, <3>1
    <3> HIDE DEF mm
    <3> QED BY <3>2, FewerDigits
  <2>12. lo \in Int
    <3>1. Integers0(d, e0)
      BY <2>1, <2>6 DEF Integers0, e1
    <3> HIDE DEF e0
    <3> QED BY <2>1, <3>1, NumberInt
  <2> HIDE DEF e0
  <2> DEFINE lo1 == Number(b, d, e1)
             pw1 == Power(b, e1)
             lo2 == Number(b, d, e2)
             pw2 == Power(b, e2)
  <2>8. lo1 = lo + x * pw /\ pw1 = b * pw
    <3>0. e0 \in Nat /\ Integers0(d, e0 + 1)
      BY <2>1, <2>6
    <3>1. Number(b, d, e0 + 1) = lo + d[e0 + 1] * pw
      BY <3>0, NumberNext
    <3>2. Power(b, e0 + 1) = b * pw
      BY <3>0, PowerNext
    <3> QED BY <3>1, <3>2
  <2> HIDE DEF e1
  <2>9. lo2 = lo1 + y * pw1 /\ pw2 = b * pw1
    <3>0. e1 \in Nat /\ Integers0(d, e1 + 1)
      BY <2>1, <2>6
    <3>1. Number(b, d, e1 + 1) = lo1 + d[e1 + 1] * pw1
      BY <3>0, NumberNext
    <3>2. Power(b, e1 + 1) = b * pw1
      BY <3>0, PowerNext
    <3> QED BY <3>1, <3>2
  <2> HIDE DEF e2
  <2>10. Number(b, d, e3) = lo2 + z * pw2
    <3>1. Number(b, d, e2 + 1) = lo2 + d[e2 + 1] * pw2
      BY <2>1, <2>6, NumberNext
    <3> QED BY <3>1
  <2> HIDE DEF e3, x, y, z, lo, pw, lo1, pw1, lo2, pw2
  <2> DEFINE u == x * pw
             v == y * (b * pw)
             w == z * (b * (b * pw))
  <2>13. ((x + b * y) + (b * b) * z) * pw = u + v + w
    BY <2>5, <2>7
  <2>14. u \in Int /\ v \in Int /\ w \in Int
    BY <2>5, <2>7
  <2> HIDE DEF u, v, w
  <2>15. Number(bb, s, i) = lo + (u + v + w)
    BY <2>1, <2>2, <2>4, <2>5, <2>7, <2>13
  <2>16. Number(b, d, e3) = ((lo + u) + v) + w
    BY <2>8, <2>9, <2>10 DEF u, v, w
  <2>17. Number(bb, s, i) = Number(b, d, 3 * i)
    BY <2>1, <2>12, <2>14, <2>15, <2>16
  <2> QED BY <2>1, <2>17
<1>5. m \in C
  <2>1. \A i \in 0 .. m : i \in C
    <3> HIDE DEF C
    <3> QED BY <1>3, <1>4, UpTo
  <2> HIDE DEF C
  <2> QED BY <2>1
<1> QED BY <1>1, <1>2, <1>5

(***************************************************************************)
(* What the slices are worth: below their bound, and together the number.  *)
(***************************************************************************)
SlicesAre(b, option, n) ==
  LET s == Radix!KBitsPerSlice(b, option)
      m == Radix!TableLength(option, n)
      columns == Radix!NumColumns(option)
  IN  /\ m \in Nat \ {0} /\ columns \in Nat \ {0, 1} /\ Len(s) = m
      /\ Digits(columns, s, m) /\ Number(columns, s, m) = Jvm!ToBigInteger(b)

\* Two nibbles make a word.
LEMMA NibbleType ==
  Nibble \in Nat \ {0, 1} /\ W = Nibble * Nibble /\ W \in Nat \ {0, 1} /\ Radix!Byte = W
<1>1. Nibble \in Nat /\ W = Nibble * Nibble /\ W \in Nat \ {0, 1}
  BY GroupAssumption, WType
<1>2. Nibble # 0 /\ Nibble # 1
  <2>1. 0 * 0 = 0 /\ 1 * 1 = 1
    OBVIOUS
  <2> QED BY <1>1, <2>1
<1> QED BY <1>1, <1>2 DEF Radix!Byte

\* Bytes are the slices of the low option.
LEMMA LowSlices ==
  ASSUME NEW n \in Nat \ {0}, NEW b \in Array(n)
  PROVE  SlicesAre(b, "low", n)
<1> DEFINE s == Radix!KBitsPerSlice(b, "low")
           m == Radix!TableLength("low", n)
           columns == Radix!NumColumns("low")
           r == Reverse(b)
<1>1. n \in Nat /\ Len(b) = n
  BY ArraySeq
<1>2. m = n /\ columns = W
  BY NibbleType DEF Radix!TableLength, Radix!NumColumns
<1>3. s = [i \in 1 .. n |-> b[n - i + 1]]
  BY <1>1 DEF Radix!KBitsPerSlice, Radix!TableLength
<1>4. r = [i \in 1 .. n |-> b[n - i + 1]] /\ r \in Array(n)
  BY <1>1, ReverseSame
<1>5. Value(r) = Jvm!ToBigInteger(b)
  BY <1>1, BigValue
<1> HIDE DEF s, m, columns, r
<1>6. s = r
  BY <1>3, <1>4
<1>7. Digits(W, r, n) /\ Value(r) = Number(W, r, n) /\ Len(r) = n
  BY <1>1, <1>4, ArrayDigits, ArraySeq
<1> QED BY <1>2, <1>5, <1>6, <1>7, NibbleType DEF SlicesAre, s, m, columns

\* Two digits make a digit.
LEMMA PairDigit ==
  ASSUME NEW b \in Nat \ {0}, NEW x \in 0 .. b - 1, NEW y \in 0 .. b - 1
  PROVE  x + b * y \in 0 .. b * b - 1
<1> DEFINE by == b * y
           bb == b * b
           d == b - 1 - y
           bd == b * d
<1>1. by \in Nat /\ bb \in Nat /\ bd \in Nat
  <2>1. d \in Nat
    OBVIOUS
  <2> HIDE DEF d
  <2> QED BY <2>1
<1>2. bd = bb - b - by
  OBVIOUS
<1> HIDE DEF by, bb, bd
<1>3. x + by \in Nat /\ x + by <= bb - 1
  BY <1>1, <1>2
<1> QED BY <1>1, <1>3 DEF by, bb

\* Pairs of bytes are the slices of the extreme option.
LEMMA ExtremeSlices ==
  ASSUME NEW m \in Nat \ {0}, NEW n \in Nat, n = 2 * m, NEW b \in Array(n)
  PROVE  SlicesAre(b, "extreme", n)
<1> DEFINE s == Radix!KBitsPerSlice(b, "extreme")
           l == Radix!TableLength("extreme", n)
           columns == Radix!NumColumns("extreme")
           r == Reverse(b)
           V == W
<1>1. n \in Nat /\ m \in Nat /\ Len(b) = n /\ n \div 2 = m
  BY ArraySeq
<1>2. l = m /\ columns = V * V
  BY <1>1, NibbleType DEF Radix!TableLength, Radix!NumColumns
<1>3. s = [i \in 1 .. m |-> b[n - 2 * i + 2] + V * b[n - 2 * i + 1]]
  BY <1>1, NibbleType DEF Radix!KBitsPerSlice, Radix!TableLength
<1>4. r = [i \in 1 .. n |-> b[n - i + 1]] /\ r \in Array(n)
  <2> HIDE DEF r
  <2>1. Reverse(b) = [i \in 1 .. n |-> b[n - i + 1]] /\ Reverse(b) \in Array(n)
    BY ONLY n \in Nat, b \in Array(n), ReverseSame
  <2> QED BY <2>1 DEF r
<1>5. Value(r) = Jvm!ToBigInteger(b)
  BY <1>1, BigValue
<1> HIDE DEF s, l, columns, r
<1>6. Integers0(r, n) /\ Digits(V, r, n) /\ Value(r) = Number(V, r, n)
  BY <1>1, <1>4, ArrayDigits
<1>7. V \in Nat \ {0, 1} /\ V \in Int
  BY NibbleType
<1> HIDE DEF V
<1>8. ASSUME NEW i \in 1 .. m
      PROVE  /\ 2 * i - 1 \in 1 .. n /\ 2 * i \in 1 .. n
             /\ s[i] = r[2 * i - 1] + V * r[2 * i]
  <2>1. 2 * i - 1 \in 1 .. n /\ 2 * i \in 1 .. n
    OBVIOUS
  <2>2. n - (2 * i - 1) + 1 = n - 2 * i + 2 /\ n - (2 * i) + 1 = n - 2 * i + 1
    OBVIOUS
  <2>3. r[2 * i - 1] = b[n - (2 * i - 1) + 1] /\ r[2 * i] = b[n - (2 * i) + 1]
    BY <1>4, <2>1
  <2>4. s[i] = b[n - 2 * i + 2] + V * b[n - 2 * i + 1]
    BY <1>3
  <2> QED BY <2>1, <2>2, <2>3, <2>4
<1>9. Number(V * V, s, m) = Number(V, r, n)
  <2>1. Integers0(r, 2 * m) /\ \A i \in 1 .. m : s[i] = r[2 * i - 1] + V * r[2 * i]
    BY <1>6, <1>8
  <2>2. Number(V * V, s, m) = Number(V, r, 2 * m)
    BY ONLY <1>1, <1>7, <2>1, PairsNumber
  <2> QED BY <2>2
<1>10. Digits(V * V, s, m)
  <2>1. \A i \in 1 .. m : s[i] \in 0 .. V * V - 1
    <3> TAKE i \in 1 .. m
    <3> DEFINE x == r[2 * i - 1]
               y == r[2 * i]
    <3>1. x \in 0 .. V - 1 /\ y \in 0 .. V - 1
      BY <1>6, <1>8 DEF Digits
    <3>2. s[i] = x + V * y
      BY <1>8
    <3> HIDE DEF x, y
    <3>3. x + V * y \in 0 .. V * V - 1
      BY <1>7, <3>1, PairDigit
    <3> QED BY <3>2, <3>3
  <2> QED BY <2>1 DEF Digits
<1>11. V * V \in Nat \ {0, 1}
  <2>1. V >= 2 /\ V \in Nat
    BY <1>7
  <2>2. V * V >= 2 * V
    BY <2>1
  <2> DEFINE vv == V * V
  <2>3. vv \in Nat
    BY <2>1
  <2> HIDE DEF vv
  <2>4. vv >= 2 * V
    BY <2>2 DEF vv
  <2>5. vv \in Nat \ {0, 1}
    BY <2>1, <2>3, <2>4
  <2> QED BY <2>5 DEF vv
<1>12. Len(s) = m
  BY <1>1, <1>3
<1> QED BY <1>1, <1>2, <1>5, <1>6, <1>9, <1>10, <1>11, <1>12 DEF SlicesAre, s, l, columns

\* The nibbles of r, lowest first, and two zeros.
Nibbles(r, n) ==
  [k \in 1 .. 2 * n + 2 |->
     IF k > 2 * n THEN 0 ELSE IF k % 2 = 1 THEN r[(k + 1) \div 2] % Nibble ELSE r[k \div 2] \div Nibble]

\* The nibbles of an array, the lower one first, and two zeros.
LEMMA NibblesAre ==
  ASSUME NEW n \in Nat, NEW r \in Array(n)
  PROVE  /\ \A i \in 1 .. n : /\ Nibbles(r, n)[2 * i - 1] = r[i] % Nibble
                              /\ Nibbles(r, n)[2 * i] = r[i] \div Nibble
                              /\ r[i] = Nibbles(r, n)[2 * i - 1] + Nibble * Nibbles(r, n)[2 * i]
         /\ Nibbles(r, n)[2 * n + 1] = 0 /\ Nibbles(r, n)[2 * n + 2] = 0
         /\ Digits(Nibble, Nibbles(r, n), 2 * n + 2)
<1> DEFINE d == Nibbles(r, n)
           B == Nibble
<1>1. B \in Nat \ {0, 1} /\ W = B * B
  BY NibbleType
<1>2. ASSUME NEW i \in 1 .. n
      PROVE  d[2 * i - 1] = r[i] % B /\ d[2 * i] = r[i] \div B
  <2>1. /\ 2 * i - 1 \in 1 .. 2 * n + 2 /\ ~(2 * i - 1 > 2 * n) /\ (2 * i - 1) % 2 = 1 /\ (2 * i - 1 + 1) \div 2 = i
        /\ 2 * i \in 1 .. 2 * n + 2 /\ ~(2 * i > 2 * n) /\ (2 * i) % 2 = 0 /\ (2 * i) \div 2 = i
    OBVIOUS
  <2> QED BY <2>1 DEF Nibbles
<1>3. d[2 * n + 1] = 0 /\ d[2 * n + 2] = 0
  <2>1. 2 * n + 1 \in 1 .. 2 * n + 2 /\ 2 * n + 2 \in 1 .. 2 * n + 2 /\ 2 * n + 1 > 2 * n /\ 2 * n + 2 > 2 * n
    OBVIOUS
  <2> QED BY <2>1 DEF Nibbles
<1> HIDE DEF d
<1>4. ASSUME NEW i \in 1 .. n
      PROVE  /\ r[i] = d[2 * i - 1] + B * d[2 * i]
             /\ d[2 * i - 1] \in 0 .. B - 1 /\ d[2 * i] \in 0 .. B - 1
  <2> DEFINE v == r[i]
             h == v \div B
             l == v % B
             bb == B * B
  <2>1. v \in 0 .. bb - 1 /\ v \in Int /\ v \in Nat /\ bb \in Int
    <3>1. v \in Word
      BY ArraySeq
    <3> QED BY <1>1, <3>1 DEF Word
  <2> HIDE DEF v, B
  <2>2. h \in Nat /\ l \in 0 .. B - 1 /\ v = B * h + l
    <3>1. B \in Nat \ {0}
      BY <1>1
    <3> QED BY <2>1, <3>1, Euclid, DivNat
  <2> HIDE DEF h, l
  <2>3. h < B
    <3> SUFFICES ASSUME h >= B PROVE FALSE
      BY <1>1, <2>2
    <3> DEFINE bh == B * h
    <3>1. bh >= bb /\ bh \in Int
      BY <1>1, <2>2
    <3> HIDE DEF bh, bb
    <3> QED BY <2>1, <2>2, <3>1 DEF bh
  <2>4. h \in 0 .. B - 1
    BY <1>1, <2>2, <2>3
  <2> DEFINE bh == B * h
  <2>5. bh \in Int
    BY <1>1, <2>2
  <2>6. v = l + bh
    <3> HIDE DEF bh
    <3> QED BY <2>2, <2>5 DEF bh
  <2> QED BY <1>2, <2>2, <2>4, <2>6 DEF v, h, l, B
<1>5. Digits(B, d, 2 * n + 2)
  <2>1. \A k \in 1 .. 2 * n + 2 : d[k] \in 0 .. B - 1
    <3> TAKE k \in 1 .. 2 * n + 2
    <3>1. CASE k = 2 * n + 1 \/ k = 2 * n + 2
      BY <1>1, <1>3, <3>1
    <3>2. CASE k <= 2 * n
      <4>1. \E i \in 1 .. n : k = 2 * i - 1 \/ k = 2 * i
        <5>1. CASE k % 2 = 1
          <6> DEFINE i == (k + 1) \div 2
          <6>1. i \in 1 .. n /\ k = 2 * i - 1
            BY <3>2, <5>1
          <6> QED BY <6>1
        <5>2. CASE k % 2 # 1
          <6> DEFINE i == k \div 2
          <6>1. i \in 1 .. n /\ k = 2 * i
            BY <3>2, <5>2
          <6> QED BY <6>1
        <5> QED BY <5>1, <5>2
      <4>2. PICK i \in 1 .. n : k = 2 * i - 1 \/ k = 2 * i
        BY <4>1
      <4> QED BY <1>4, <4>2
    <3> QED BY <3>1, <3>2
  <2> QED BY <2>1 DEF Digits
<1> QED BY <1>2, <1>3, <1>4, <1>5 DEF d, B

\* Each slice is three nibbles.
LEMMA HighSliceNibbles ==
  ASSUME NEW t \in Nat, NEW n \in Nat, n = 6 * t + 2, NEW b \in Array(n), NEW j \in 1 .. 4 * t + 2
  PROVE  LET d == Nibbles(Reverse(b), n)
         IN  /\ 3 * j - 2 \in 1 .. 2 * n + 2 /\ 3 * j - 1 \in 1 .. 2 * n + 2 /\ 3 * j \in 1 .. 2 * n + 2
             /\ Radix!HighSlice(b, j - 1)
                  = (d[3 * j - 2] + Nibble * d[3 * j - 1]) + (Nibble * Nibble) * d[3 * j]
<1> DEFINE r == Reverse(b)
           d == Nibbles(r, n)
           B == Nibble
           it == j - 1
           s == Radix!HighSlice(b, it)
           h == it \div 2
           off == n - 3 * h - 1
           l == (2 * n + 2) \div 3
           r1 == b[off + 1]
           r2 == b[off - 1 + 1]
           r3 == b[off - 2 + 1]
<1>1. Len(b) = n /\ l = 4 * t + 2
  BY ArraySeq
<1>2. s = IF it = l - 1 THEN b[0 + 1] \div B
          ELSE IF it % 2 = 0 THEN r1 + (r2 % B) * W ELSE r2 \div B + r3 * B
  <2>1. Radix!Byte = W
    BY NibbleType
  <2>2. Radix!TableLength("high", n) = l
    BY DEF Radix!TableLength
  <2> QED BY <1>1, <2>1, <2>2 DEF Radix!HighSlice
<1>3. r = [i \in 1 .. n |-> b[n - i + 1]] /\ r \in Array(n)
  BY ReverseSame
<1> HIDE DEF r, s
<1>4. /\ \A i \in 1 .. n : /\ d[2 * i - 1] = r[i] % B /\ d[2 * i] = r[i] \div B
                           /\ r[i] = d[2 * i - 1] + B * d[2 * i]
      /\ d[2 * n + 1] = 0 /\ d[2 * n + 2] = 0 /\ Digits(B, d, 2 * n + 2)
  BY <1>3, NibblesAre
<1>5. B \in Nat \ {0, 1} /\ W = B * B
  BY NibbleType
<1>6. /\ 3 * j - 2 \in 1 .. 2 * n + 2 /\ 3 * j - 1 \in 1 .. 2 * n + 2 /\ 3 * j \in 1 .. 2 * n + 2
  OBVIOUS
<1> DEFINE x == d[3 * j - 2]
           y == d[3 * j - 1]
           z == d[3 * j]
<1>7. x \in Int /\ y \in Int /\ z \in Int
  <2> HIDE DEF d
  <2> QED BY <1>4, <1>5, <1>6 DEF Digits
<1> HIDE DEF d, B
<1>8. CASE it % 2 = 0
  <2>1. /\ it = 2 * h /\ h \in Nat /\ 3 * h + 1 \in 1 .. n /\ 3 * h + 2 \in 1 .. n /\ it # l - 1
        /\ 3 * j - 2 = 2 * (3 * h + 1) - 1 /\ 3 * j - 1 = 2 * (3 * h + 1) /\ 3 * j = 2 * (3 * h + 2) - 1
    BY <1>1, <1>8
  <2> DEFINE i1 == 3 * h + 1
             i2 == 3 * h + 2
  <2>2. n - i1 + 1 = off + 1 /\ n - i2 + 1 = off - 1 + 1
    BY <2>1
  <2>3. r[i1] = r1 /\ r[i2] = r2
    BY <1>3, <2>1, <2>2
  <2> HIDE DEF r1, r2, r3, l, it
  <2>4. s = r1 + (r2 % B) * W
    BY <1>2, <1>8, <2>1
  <2> HIDE DEF h
  <2>5. r1 = x + B * y /\ r2 % B = z
    <3>1. i1 \in 1 .. n /\ i2 \in 1 .. n /\ 3 * j - 2 = 2 * i1 - 1 /\ 3 * j - 1 = 2 * i1 /\ 3 * j = 2 * i2 - 1
      BY <2>1
    <3> HIDE DEF i1, i2
    <3>2. r[i1] = d[2 * i1 - 1] + B * d[2 * i1] /\ d[2 * i2 - 1] = r[i2] % B
      BY <1>4, <3>1
    <3> QED BY <2>3, <3>1, <3>2
  <2> HIDE DEF x, y, z
  <2>6. s = (x + B * y) + (B * B) * z
    <3>1. z * W = (B * B) * z
      BY <1>5, <1>7
    <3> QED BY <2>4, <2>5, <3>1
  <2> QED BY <1>6, <2>6 DEF x, y, z, d, B, s, r, it
<1>9. CASE it % 2 # 0 /\ it # l - 1
  <2>1. /\ it = 2 * h + 1 /\ h \in Nat /\ 3 * h + 2 \in 1 .. n /\ 3 * h + 3 \in 1 .. n
        /\ 3 * j - 2 = 2 * (3 * h + 2) /\ 3 * j - 1 = 2 * (3 * h + 3) - 1 /\ 3 * j = 2 * (3 * h + 3)
    BY <1>1, <1>9
  <2> DEFINE i2 == 3 * h + 2
             i3 == 3 * h + 3
  <2>2. n - i2 + 1 = off - 1 + 1 /\ n - i3 + 1 = off - 2 + 1
    BY <2>1
  <2>3. r[i2] = r2 /\ r[i3] = r3
    BY <1>3, <2>1, <2>2
  <2> HIDE DEF r1, r2, r3, l, it
  <2>4. s = r2 \div B + r3 * B
    BY <1>2, <1>9
  <2> HIDE DEF h
  <2>5. r2 \div B = x /\ r3 = y + B * z
    <3>1. i2 \in 1 .. n /\ i3 \in 1 .. n /\ 3 * j - 2 = 2 * i2 /\ 3 * j - 1 = 2 * i3 - 1 /\ 3 * j = 2 * i3
      BY <2>1
    <3> HIDE DEF i2, i3
    <3>2. d[2 * i2] = r[i2] \div B /\ r[i3] = d[2 * i3 - 1] + B * d[2 * i3]
      BY <1>4, <3>1
    <3> QED BY <2>3, <3>1, <3>2
  <2> HIDE DEF x, y, z
  <2>6. s = (x + B * y) + (B * B) * z
    <3>1. x + (y + B * z) * B = (x + B * y) + (B * B) * z
      BY <1>5, <1>7
    <3> QED BY <2>4, <2>5, <3>1
  <2> QED BY <1>6, <2>6 DEF x, y, z, d, B, s, r, it
<1>10. CASE it = l - 1
  <2>1. 3 * j - 2 = 2 * n /\ 3 * j - 1 = 2 * n + 1 /\ 3 * j = 2 * n + 2 /\ n \in 1 .. n
    BY <1>1, <1>10
  <2>2. r[n] = b[0 + 1]
    <3>1. n - n + 1 = 0 + 1
      OBVIOUS
    <3> QED BY <1>3, <2>1, <3>1
  <2> HIDE DEF r1, r2, r3, l, it
  <2>3. s = r[n] \div B
    BY <1>2, <1>10, <2>2
  <2>4. x = r[n] \div B /\ y = 0 /\ z = 0
    BY <1>4, <2>1
  <2> HIDE DEF x, y, z
  <2>5. s = (x + B * y) + (B * B) * z
    <3>1. B * y = 0 /\ (B * B) * z = 0
      BY <1>5, <2>4
    <3> QED BY <1>7, <2>3, <2>4, <3>1
  <2> QED BY <1>6, <2>5 DEF x, y, z, d, B, s, r, it
<1> QED BY <1>8, <1>9, <1>10

\* Two zeros more do not count.
LEMMA TwoZeros ==
  ASSUME NEW b \in Int, NEW k \in Nat, NEW d, Integers0(d, k + 2), d[k + 1] = 0, d[k + 2] = 0
  PROVE  Number(b, d, k + 2) = Number(b, d, k)
<1> DEFINE k1 == k + 1
           k2 == k1 + 1
           x == Number(b, d, k)
           pw == Power(b, k)
           pw1 == Power(b, k1)
<1>1. k1 \in Nat /\ k2 = k + 2 /\ k1 \in 0 .. k2 /\ k \in 0 .. k2 /\ k2 \in Nat
  OBVIOUS
<1> HIDE DEF k2
<1>2. Integers0(d, k2) /\ d[k1] = 0 /\ d[k2] = 0
  BY <1>1
<1>3. Integers0(d, k1)
  <2> HIDE DEF k1
  <2> QED BY <1>1, <1>2, FewerDigits
<1>4. Integers0(d, k)
  BY <1>1, <1>2, FewerDigits
<1>5. Number(b, d, k + 1) = x + d[k + 1] * pw /\ x \in Int
  BY <1>3, <1>4, NumberNext, NumberInt
<1>6. pw \in Int
  BY PowerNext
<1>7. Number(b, d, k1) = x + d[k1] * pw
  BY <1>5
<1> HIDE DEF k1
<1>8. Integers0(d, k1 + 1) /\ k1 + 1 = k2
  BY <1>2 DEF k2
<1>9. Number(b, d, k1 + 1) = Number(b, d, k1) + d[k1 + 1] * pw1
  BY <1>1, <1>8, NumberNext
<1>10. pw1 \in Int
  BY <1>1, PowerNext
<1> HIDE DEF x, pw, pw1
<1>11. Number(b, d, k1) = x
  BY <1>2, <1>5, <1>6, <1>7
<1>12. Number(b, d, k2) = x
  BY <1>2, <1>5, <1>8, <1>9, <1>10, <1>11
<1> QED BY <1>1, <1>12 DEF x

\* Triples of nibbles are the slices of the high option, also across bytes.
LEMMA HighSlices ==
  ASSUME NEW t \in Nat, NEW n \in Nat, n = 6 * t + 2, NEW b \in Array(n)
  PROVE  SlicesAre(b, "high", n)
<1> DEFINE s == Radix!KBitsPerSlice(b, "high")
           l == Radix!TableLength("high", n)
           columns == Radix!NumColumns("high")
           r == Reverse(b)
           d == Nibbles(r, n)
           B == Nibble
           bb == B * B
           k == 2 * n
           m == 4 * t + 2
           k2 == k + 2
<1>1. n \in Nat /\ Len(b) = n /\ (2 * n + 2) \div 3 = m /\ k \in Nat /\ 3 * m = k + 2 /\ m \in Nat \ {0} /\ m \in Nat
  BY ArraySeq
<1>2. l = m /\ columns = bb * B
  <2>1. Radix!Byte = B * B
    BY NibbleType
  <2> QED BY <1>1, <2>1 DEF Radix!TableLength, Radix!NumColumns
<1>3. s = [i \in 1 .. m |-> Radix!HighSlice(b, i - 1)]
  BY <1>1 DEF Radix!KBitsPerSlice, Radix!TableLength
<1>4. r = [i \in 1 .. n |-> b[n - i + 1]] /\ r \in Array(n) /\ Value(r) = Jvm!ToBigInteger(b)
  <2> HIDE DEF r
  <2>1. Reverse(b) = [i \in 1 .. n |-> b[n - i + 1]] /\ Reverse(b) \in Array(n)
    BY ONLY n \in Nat, b \in Array(n), ReverseSame
  <2>2. Jvm!ToBigInteger(b) = Value(Reverse(b))
    BY ONLY n \in Nat, b \in Array(n), BigValue
  <2> QED BY <2>1, <2>2 DEF r
<1>5. ASSUME NEW i \in 1 .. m
      PROVE  /\ 3 * i - 2 \in 1 .. k + 2 /\ 3 * i - 1 \in 1 .. k + 2 /\ 3 * i \in 1 .. k + 2
             /\ s[i] = (d[3 * i - 2] + B * d[3 * i - 1]) + (B * B) * d[3 * i]
  <2>1. s[i] = Radix!HighSlice(b, i - 1)
    <3> HIDE DEF s, m
    <3> QED BY <1>3
  <2> HIDE DEF s
  <2> QED BY <2>1, HighSliceNibbles
<1> HIDE DEF s, l, columns, r
<1>6. /\ \A i \in 1 .. n : r[i] = d[2 * i - 1] + B * d[2 * i]
      /\ d[k + 1] = 0 /\ d[k + 2] = 0 /\ Digits(B, d, k + 2)
  BY <1>4, NibblesAre
<1>7. Integers0(r, n) /\ Value(r) = Number(W, r, n)
  BY <1>1, <1>4, ArrayDigits
<1>8. B \in Nat \ {0, 1} /\ B \in Nat \ {0} /\ B \in Int /\ W = B * B
  BY NibbleType
<1> HIDE DEF d, B
<1>9. Integers0(d, k + 2)
  <2> HIDE DEF k
  <2> QED BY <1>6, <1>8 DEF Digits, Integers0
<1>10. Number(B, d, k + 2) = Number(B, d, k)
  <2> HIDE DEF k
  <2> QED BY <1>1, <1>6, <1>8, <1>9, TwoZeros
<1>11. Number(B * B, r, n) = Number(B, d, 2 * n)
  <2>1. Integers0(d, 2 * n)
    BY <1>9 DEF Integers0
  <2> QED BY <1>1, <1>6, <1>8, <2>1, PairsNumber
<1>12. Number((B * B) * B, s, m) = Number(B, d, 3 * m)
  <2>1. Integers0(d, 3 * m) /\ \A i \in 1 .. m : s[i] = (d[3 * i - 2] + B * d[3 * i - 1]) + (B * B) * d[3 * i]
    BY <1>1, <1>5, <1>9
  <2> HIDE DEF m
  <2> QED BY ONLY <1>1, <1>8, <2>1, TriplesNumber
<1>13. Number(bb * B, s, m) = Jvm!ToBigInteger(b)
  <2>1. Number(B, d, 3 * m) = Number(B, d, k + 2)
    BY <1>1
  <2> HIDE DEF m
  <2> QED BY <1>4, <1>7, <1>8, <1>10, <1>11, <1>12, <2>1
<1>14. Digits(bb * B, s, m)
  <2>1. \A i \in 1 .. m : s[i] \in 0 .. bb * B - 1
    <3> TAKE i \in 1 .. m
    <3> DEFINE x == d[3 * i - 2]
               y == d[3 * i - 1]
               z == d[3 * i]
               xy == x + B * y
    <3>1. x \in 0 .. B - 1 /\ y \in 0 .. B - 1 /\ z \in 0 .. B - 1
      BY <1>5, <1>6 DEF Digits
    <3>2. s[i] = xy + bb * z
      BY <1>5
    <3> HIDE DEF x, y, z, bb
    <3>3. xy \in 0 .. bb - 1
      BY <1>8, <3>1, PairDigit DEF bb
    <3> HIDE DEF xy
    <3> DEFINE bz == bb * z
               b3 == bb * B
               e == B - 1 - z
               be == bb * e
    <3>4. bb \in Nat
      BY <1>8 DEF bb
    <3>5. e \in Nat
      BY <1>8, <3>1
    <3>6. be \in Nat
      <4> HIDE DEF e
      <4> QED BY <3>4, <3>5
    <3>7. be = b3 - bb - bz /\ bz \in Nat /\ b3 \in Nat
      BY <1>8, <3>1, <3>4
    <3> HIDE DEF be, bz, b3
    <3>8. xy + bz \in 0 .. b3 - 1
      BY <3>3, <3>4, <3>6, <3>7
    <3> QED BY <3>2, <3>8 DEF bz, b3
  <2> QED BY <2>1 DEF Digits
<1>15. bb * B \in Nat \ {0, 1}
  <2>1. bb >= B /\ bb \in Nat
    BY <1>8
  <2> DEFINE b3 == bb * B
  <2>2. b3 \in Nat /\ b3 >= bb
    <3> HIDE DEF bb
    <3> QED BY <1>8, <2>1
  <2> HIDE DEF b3, bb
  <2>3. b3 \in Nat \ {0, 1}
    BY <1>8, <2>1, <2>2
  <2> QED BY <2>3 DEF b3
<1>16. Len(s) = m
  <2> HIDE DEF m
  <2> QED BY <1>1, <1>3
<1> HIDE DEF m, bb
<1> QED BY <1>1, <1>2, <1>13, <1>14, <1>15, <1>16 DEF SlicesAre, s, l, columns

(***************************************************************************)
(* Whatever the option, the slices of an exponent add up to it.            *)
(***************************************************************************)
LEMMA AllSlices ==
  ASSUME NEW n \in Nat, n % 6 = 2, NEW b \in Array(n), NEW option \in Radix!Options
  PROVE  SlicesAre(b, option, n)
<1> DEFINE t == n \div 6
           m == n \div 2
<1>1. t \in Nat /\ n = 6 * t + 2 /\ m \in Nat \ {0} /\ n = 2 * m /\ n \in Nat \ {0}
  OBVIOUS
<1> HIDE DEF t, m
<1>2. SlicesAre(b, "low", n)
  BY <1>1, LowSlices
<1>3. SlicesAre(b, "high", n)
  BY <1>1, HighSlices
<1>4. SlicesAre(b, "extreme", n)
  BY <1>1, ExtremeSlices
<1> QED BY <1>2, <1>3, <1>4 DEF Radix!Options

-----------------------------------------------------------------------------
(***************************************************************************)
(* PowRadix: the table and its products.                                   *)
(***************************************************************************)
LEMMA RecursionFromOne ==
  ASSUME NEW n \in Nat \ {0}, NEW S, NEW base \in S, NEW step \in Steps(n, S)
  PROVE  \E h \in [1 .. n -> S] : h[1] = base /\ \A i \in 2 .. n : h[i] = step[i][h[i - 1]]
<1> DEFINE m == n - 1
           shifted == [i \in 1 .. m |-> step[i + 1]]
<1>1. m \in Nat /\ n = m + 1
  OBVIOUS
<1>2. shifted \in Steps(m, S)
  <2>1. \A i \in 1 .. m : step[i + 1] \in [S -> S]
    BY DEF Steps
  <2> QED BY <2>1 DEF Steps
<1>3. \A i \in 1 .. m : shifted[i] = step[i + 1]
  OBVIOUS
<1> HIDE DEF m, shifted
<1>4. PICK g \in [0 .. m -> S] : Recurs(g, m, base, shifted)
  BY ONLY <1>1, <1>2, base \in S, RecursionExists
<1> DEFINE h == [i \in 1 .. n |-> g[i - 1]]
<1>5. h \in [1 .. n -> S] /\ h[1] = g[0]
  <2>1. \A i \in 1 .. n : i - 1 \in 0 .. m
    BY <1>1
  <2>2. 1 \in 1 .. n /\ 1 - 1 = 0
    OBVIOUS
  <2> QED BY <2>1, <2>2
<1>6. \A i \in 2 .. n : h[i] = step[i][h[i - 1]]
  <2> TAKE i \in 2 .. n
  <2> DEFINE j == i - 1
  <2>1. j \in 1 .. m /\ j + 1 = i /\ i \in 1 .. n /\ j \in 1 .. n
    BY <1>1
  <2>2. h[i] = g[j] /\ h[j] = g[j - 1]
    BY <2>1
  <2>3. g[j] = shifted[j][g[j - 1]] /\ shifted[j] = step[i]
    BY <1>3, <1>4, <2>1 DEF Recurs
  <2> QED BY <2>2, <2>3
<1>7. h[1] = base
  BY <1>4, <1>5 DEF Recurs
<1> HIDE DEF h
<1> QED BY <1>5, <1>6, <1>7

\* Induction from 1.
LEMMA FromOne ==
  ASSUME NEW n \in Nat \ {0}, NEW C, 1 \in C, \A i \in 2 .. n : i - 1 \in C => i \in C
  PROVE  \A i \in 1 .. n : i \in C
<1> DEFINE D == {0} \cup C
<1>1. 0 \in D
  OBVIOUS
<1>2. \A i \in 1 .. n : i - 1 \in D => i \in D
  <2> SUFFICES ASSUME NEW i \in 1 .. n, i - 1 \in D PROVE i \in D
    OBVIOUS
  <2>1. CASE i = 1
    BY <2>1
  <2>2. CASE i # 1
    <3>1. i \in 2 .. n /\ i - 1 # 0
      BY <2>2
    <3> QED BY <3>1
  <2> QED BY <2>1, <2>2
<1> HIDE DEF D
<1>3. \A i \in 0 .. n : i \in D
  BY <1>1, <1>2, UpTo
<1>4. \A i \in 1 .. n : i \in 0 .. n /\ i # 0
  OBVIOUS
<1> QED BY <1>3, <1>4 DEF D

Elements == {e \in Array(PLen) : Value(e) < P}
MForm(e, u) == Form(e, u, p, PLen) /\ e \in Elements

\* Montgomery products are forms of products.
LEMMA TimesMForm ==
  /\ \A a \in Elements, b \in Elements : TimesM(a, b) \in Elements
  /\ \A a, b, u, v : MForm(a, u) /\ MForm(b, v) => MForm(TimesM(a, b), u * v)
<1>1. Context(montCtxP, p, PLen) /\ Value(p) = P
  BY PWords
<1>2. ASSUME NEW a \in Elements, NEW b \in Elements
      PROVE  /\ MontReduced(TimesM(a, b), p, PLen, Value(a) * Value(b)) /\ TimesM(a, b) \in Elements
  <2>1. a \in Array(PLen) /\ b \in Array(PLen) /\ Value(b) < Value(p)
    BY <1>1 DEF Elements
  <2>2. /\ MontReduced(MontMul(montCtxP, a, b), p, PLen, Value(a) * Value(b))
        /\ Value(MontMul(montCtxP, a, b)) < Value(p)
    BY <1>1, <2>1, MontMulValue
  <2> QED BY <1>1, <2>2 DEF TimesM, MontReduced, Elements
<1>3. ASSUME NEW a, NEW b, NEW u, NEW v, MForm(a, u), MForm(b, v)
      PROVE  MForm(TimesM(a, b), u * v)
  <2> DEFINE r == TimesM(a, b)
  <2>1. Form(a, u, p, PLen) /\ Form(b, v, p, PLen) /\ a \in Elements /\ b \in Elements
    BY <1>3 DEF MForm
  <2>2. MontReduced(r, p, PLen, Value(a) * Value(b)) /\ r \in Elements
    BY <1>2, <2>1
  <2> HIDE DEF r
  <2>3. Form(r, u * v, p, PLen)
    BY <1>1, <2>1, <2>2, ReducedForm
  <2> QED BY <2>2, <2>3 DEF MForm, r
<1> QED BY <1>2, <1>3

\* ToMontgomery enters the form.
LEMMA EnterForm ==
  ASSUME NEW a, NEW x, IsP(a, x)
  PROVE  MForm(ToMontgomery(a), x)
<1>1. Context(montCtxP, p, PLen) /\ Value(p) = P /\ a \in Array(PLen) /\ Value(a) = x
  BY PWords DEF IsP
<1>2. Form(ToMont(montCtxP, a), x, p, PLen)
  BY <1>1, ToMontForm
<1>3. ToMont(montCtxP, a) \in Elements
  BY <1>1, ToMontValue DEF Elements
<1> QED BY <1>2, <1>3 DEF MForm, ToMontgomery

\* The form of one.
LEMMA OneMForm == MForm(montgomeryOne, 1)
<1> DEFINE one == 1
<1>1. one \in 0 .. P - 1
  BY GroupNumbers
<1> HIDE DEF one
<1>2. IsP(Words(one, PLen), one)
  BY <1>1, WordsP
<1>3. MForm(ToMontgomery(Words(one, PLen)), one)
  BY <1>2, EnterForm
<1> QED BY <1>3 DEF montgomeryOne, one

\* ToElementModP leaves the form.
LEMMA LeaveForm ==
  ASSUME NEW e, NEW u, MForm(e, u)
  PROVE  IsP(ToElementModP(e), u % P)
<1> DEFINE r == FromMont(montCtxP, e)
<1>1. Context(montCtxP, p, PLen) /\ Value(p) = P
  BY PWords
<1>2. Form(e, u, p, PLen) /\ u \in Int
  BY DEF MForm, Form
<1>3. r \in Array(PLen) /\ Value(r) = u % P
  BY <1>1, <1>2, FromMontForm
<1> HIDE DEF r
<1>4. IsP(r, u % P)
  BY <1>2, <1>3, ModP
<1> QED BY <1>4 DEF ToElementModP, r

(***************************************************************************)
(* The powers of a row.                                                    *)
(***************************************************************************)
PowersFcn(x, n) ==
  CHOOSE power : power = [i \in 1 .. n |-> IF i = 1 THEN x ELSE TimesM(power[i - 1], x)]

\* The powers of a row obey its loop.
LEMMA PowersRec ==
  ASSUME NEW n \in Nat \ {0}, NEW x \in Elements
  PROVE  /\ Radix!Powers(x, n)[1] = x
         /\ \A i \in 2 .. n : Radix!Powers(x, n)[i] = TimesM(Radix!Powers(x, n)[i - 1], x)
         /\ \A i \in 1 .. n : Radix!Powers(x, n)[i] \in Elements
<1> DEFINE f == PowersFcn(x, n)
           S == Elements
           step == [i \in 1 .. n |-> [e \in S |-> TimesM(e, x)]]
           Body(g) == [i \in 1 .. n |-> IF i = 1 THEN x ELSE TimesM(g[i - 1], x)]
<1>1. x \in S
  OBVIOUS
<1>2. step \in Steps(n, S)
  <2>1. \A e \in S : TimesM(e, x) \in S
    BY TimesMForm
  <2> HIDE DEF S
  <2> QED BY <2>1 DEF Steps
<1>3. PICK g \in [1 .. n -> S] : g[1] = x /\ \A i \in 2 .. n : g[i] = step[i][g[i - 1]]
  <2> HIDE DEF step, S
  <2> QED BY ONLY <1>1, <1>2, n \in Nat \ {0}, RecursionFromOne
<1>4. g = Body(g)
  <2>1. ASSUME NEW i \in 2 .. n
        PROVE  g[i] = TimesM(g[i - 1], x)
    <3> HIDE DEF S
    <3>1. g[i - 1] \in S /\ i \in 1 .. n
      <4>1. i - 1 \in 1 .. n /\ i \in 1 .. n
        OBVIOUS
      <4> QED BY <1>3, <4>1
    <3>2. g[i] = step[i][g[i - 1]]
      <4> HIDE DEF step
      <4> QED BY <1>3
    <3> QED BY <3>1, <3>2
  <2>2. g[1] = x
    BY <1>3
  <2>3. \A i \in 1 .. n : i = 1 \/ i \in 2 .. n
    OBVIOUS
  <2> HIDE DEF step, S
  <2>4. \A i \in 1 .. n : g[i] = IF i = 1 THEN x ELSE TimesM(g[i - 1], x)
    BY <2>1, <2>2, <2>3
  <2> QED BY <1>3, <2>4
<1>5. f = CHOOSE power : power = Body(power)
  BY DEF PowersFcn
<1>6. f = Body(f)
  <2> HIDE DEF f, Body
  <2> QED BY <1>4, <1>5
<1>7. Radix!Powers(x, n) = f
  BY DEF Radix!Powers, PowersFcn
<1> HIDE DEF f
<1>8. f[1] = x /\ \A i \in 2 .. n : f[i] = TimesM(f[i - 1], x)
  <2>1. 1 \in 1 .. n
    OBVIOUS
  <2>2. \A i \in 2 .. n : i \in 1 .. n /\ i # 1
    OBVIOUS
  <2> QED BY <1>6, <2>1, <2>2
<1>9. \A i \in 1 .. n : f[i] \in Elements
  <2> DEFINE C == {i \in 1 .. n : f[i] \in Elements}
  <2>1. 1 \in C
    BY <1>8
  <2>2. \A i \in 2 .. n : i - 1 \in C => i \in C
    <3> SUFFICES ASSUME NEW i \in 2 .. n, f[i - 1] \in Elements PROVE i \in 1 .. n /\ f[i] \in Elements
      OBVIOUS
    <3> QED BY <1>8, TimesMForm
  <2>3. \A i \in 1 .. n : i \in C
    <3> HIDE DEF C
    <3> QED BY <2>1, <2>2, FromOne
  <2> QED BY <2>3
<1> QED BY <1>7, <1>8, <1>9

\* The powers of a row are forms of powers.
LEMMA PowersForm ==
  ASSUME NEW n \in Nat \ {0}, NEW x, NEW u, MForm(x, u)
  PROVE  \A i \in 1 .. n : MForm(Radix!Powers(x, n)[i], Power(u, i))
<1> DEFINE f == Radix!Powers(x, n)
           Holds(i) == MForm(f[i], Power(u, i))
           C == {i \in 1 .. n : Holds(i)}
<1>1. x \in Elements /\ u \in Int
  BY DEF MForm, Form
<1>2. f[1] = x /\ \A i \in 2 .. n : f[i] = TimesM(f[i - 1], x)
  BY <1>1, PowersRec
<1> HIDE DEF f
<1>3. 1 \in C
  BY <1>1, <1>2, PowerOne
<1>4. ASSUME NEW i \in 2 .. n, i - 1 \in C
      PROVE  i \in C
  <2> DEFINE j == i - 1
             v == Power(u, j)
  <2>1. j \in Nat /\ j + 1 = i /\ i \in 1 .. n
    OBVIOUS
  <2>2. MForm(f[j], v) /\ f[i] = TimesM(f[j], x)
    BY <1>2, <1>4
  <2> HIDE DEF j
  <2>3. Power(u, j + 1) = u * v /\ v \in Int
    BY <1>1, <2>1, PowerNext
  <2> HIDE DEF v
  <2>4. MForm(TimesM(f[j], x), v * u)
    BY <2>2, TimesMForm
  <2>5. v * u = u * v
    BY <1>1, <2>3
  <2> QED BY <2>1, <2>2, <2>3, <2>4, <2>5
<1> QED
  <2>1. \A i \in 1 .. n : i \in C
    <3> HIDE DEF C
    <3> QED BY <1>3, <1>4, FromOne
  <2> QED BY <2>1 DEF f

Rows(c) == [entries : [0 .. c - 1 -> Elements], next : Elements]

\* A row holds the powers of its base; the next row starts with the next power.
LEMMA RowForm ==
  ASSUME NEW c \in Nat \ {0}, NEW x
  PROVE  /\ x \in Elements => Radix!Row(x, c) \in Rows(c)
         /\ \A u : MForm(x, u) =>
              /\ \A k \in 0 .. c - 1 : MForm(Radix!Row(x, c).entries[k], Power(u, k))
              /\ MForm(Radix!Row(x, c).next, Power(u, c))
<1> DEFINE f == Radix!Powers(x, c)
           row == Radix!Row(x, c)
           E == [k \in 0 .. c - 1 |-> IF k = 0 THEN montgomeryOne ELSE f[k]]
<1>1. row = [entries |-> E, next |-> f[c]]
  BY DEF Radix!Row, Radix!RowOf
<1>2. row.entries = E /\ row.next = f[c]
  BY <1>1
<1>3. MForm(montgomeryOne, 1) /\ montgomeryOne \in Elements
  BY OneMForm DEF MForm
<1>4. \A k \in 0 .. c - 1 : k = 0 \/ k \in 1 .. c
  OBVIOUS
<1>5. c \in 1 .. c
  OBVIOUS
<1>6. ASSUME x \in Elements
      PROVE  row \in Rows(c)
  <2>1. \A i \in 1 .. c : f[i] \in Elements
    BY <1>6, PowersRec
  <2> HIDE DEF f
  <2>2. E \in [0 .. c - 1 -> Elements]
    BY <1>3, <1>4, <2>1
  <2>3. f[c] \in Elements
    BY <1>5, <2>1
  <2> HIDE DEF E, row
  <2> QED BY <1>1, <2>2, <2>3 DEF Rows
<1>7. ASSUME NEW u, MForm(x, u)
      PROVE  /\ \A k \in 0 .. c - 1 : MForm(E[k], Power(u, k))
             /\ MForm(f[c], Power(u, c))
  <2>1. \A i \in 1 .. c : MForm(f[i], Power(u, i))
    BY <1>7, PowersForm
  <2>2. u \in Int
    BY <1>7 DEF MForm, Form
  <2>3. Power(u, 0) = 1
    BY <2>2, PowerZero
  <2> HIDE DEF f
  <2>4. ASSUME NEW k \in 0 .. c - 1
        PROVE  MForm(E[k], Power(u, k))
    <3>1. CASE k = 0
      BY <1>3, <2>3, <3>1
    <3>2. CASE k # 0
      <4>1. E[k] = f[k] /\ k \in 1 .. c
        BY <1>4, <3>2
      <4> QED BY <2>1, <4>1
    <3> QED BY <3>1, <3>2
  <2> QED BY <1>5, <2>1, <2>4
<1> HIDE DEF E, f, row
<1> QED BY <1>2, <1>6, <1>7 DEF row

RowsFcn(basis, option, n) ==
  CHOOSE row : row = [i \in 1 .. Radix!TableLength(option, n) |->
                        Radix!Row(IF i = 1 THEN ToMontgomery(basis) ELSE row[i - 1].next, Radix!NumColumns(option))]

\* The rows of a table obey its loop.
LEMMA RowsRec ==
  ASSUME NEW basis, ToMontgomery(basis) \in Elements, NEW option, NEW n,
         NEW m \in Nat \ {0}, m = Radix!TableLength(option, n),
         NEW c \in Nat \ {0}, c = Radix!NumColumns(option)
  PROVE  /\ RowsFcn(basis, option, n)[1] = Radix!Row(ToMontgomery(basis), c)
         /\ \A i \in 2 .. m : RowsFcn(basis, option, n)[i] = Radix!Row(RowsFcn(basis, option, n)[i - 1].next, c)
         /\ \A i \in 1 .. m : RowsFcn(basis, option, n)[i] \in Rows(c)
         /\ Radix!Table(basis, option, n) = [i \in 1 .. m |-> RowsFcn(basis, option, n)[i].entries]
<1> DEFINE f == RowsFcn(basis, option, n)
           x == ToMontgomery(basis)
           S == Rows(c)
           Next1(r) == Radix!Row(r.next, c)
           base == Radix!Row(x, c)
           step == [i \in 1 .. m |-> [r \in S |-> Next1(r)]]
           Body(g) == [i \in 1 .. m |-> Radix!Row(IF i = 1 THEN x ELSE g[i - 1].next, c)]
<1>1. base \in S
  BY RowForm
<1>2. step \in Steps(m, S)
  <2>1. \A r \in S : Next1(r) \in S
    <3> SUFFICES ASSUME NEW r \in S PROVE Radix!Row(r.next, c) \in S
      OBVIOUS
    <3>1. r.next \in Elements
      BY DEF Rows
    <3> QED BY <3>1, RowForm
  <2> HIDE DEF S, Next1
  <2> QED BY <2>1 DEF Steps
<1> HIDE DEF base
<1>3. PICK g \in [1 .. m -> S] : g[1] = base /\ \A i \in 2 .. m : g[i] = step[i][g[i - 1]]
  <2> HIDE DEF step, S
  <2> QED BY ONLY <1>1, <1>2, m \in Nat \ {0}, RecursionFromOne
<1>4. g = Body(g)
  <2>1. ASSUME NEW i \in 2 .. m
        PROVE  g[i] = Next1(g[i - 1])
    <3> HIDE DEF S, Next1
    <3>1. g[i - 1] \in S /\ i \in 1 .. m
      <4>1. i - 1 \in 1 .. m /\ i \in 1 .. m
        OBVIOUS
      <4> QED BY <1>3, <4>1
    <3>2. g[i] = step[i][g[i - 1]]
      <4> HIDE DEF step
      <4> QED BY <1>3
    <3> QED BY <3>1, <3>2
  <2>2. g[1] = base
    BY <1>3
  <2>3. \A i \in 1 .. m : i = 1 \/ (i \in 2 .. m /\ i # 1)
    OBVIOUS
  <2> HIDE DEF step, S
  <2>4. \A i \in 1 .. m : g[i] = Radix!Row(IF i = 1 THEN x ELSE g[i - 1].next, c)
    BY <2>1, <2>2, <2>3 DEF base
  <2> QED BY <1>3, <2>4
<1>5. f = CHOOSE row : row = Body(row)
  BY DEF RowsFcn
<1>6. f = Body(f)
  <2> HIDE DEF f, Body
  <2> QED BY <1>4, <1>5
<1>7. Radix!Table(basis, option, n) = [i \in DOMAIN f |-> f[i].entries]
  BY DEF Radix!Table, RowsFcn
<1> HIDE DEF f
<1>8. DOMAIN f = 1 .. m
  BY <1>6
<1>9. f[1] = base /\ \A i \in 2 .. m : f[i] = Next1(f[i - 1])
  <2>1. 1 \in 1 .. m
    OBVIOUS
  <2>2. \A i \in 2 .. m : i \in 1 .. m /\ i # 1
    OBVIOUS
  <2> QED BY <1>6, <2>1, <2>2 DEF base
<1>10. \A i \in 1 .. m : f[i] \in S
  <2> DEFINE C == {i \in 1 .. m : f[i] \in S}
  <2>1. 1 \in C
    BY <1>1, <1>9
  <2>2. \A i \in 2 .. m : i - 1 \in C => i \in C
    <3> SUFFICES ASSUME NEW i \in 2 .. m, f[i - 1] \in S PROVE i \in 1 .. m /\ f[i] \in S
      OBVIOUS
    <3>1. f[i - 1].next \in Elements
      BY DEF Rows
    <3> QED BY <1>9, <3>1, RowForm
  <2>3. \A i \in 1 .. m : i \in C
    <3> HIDE DEF C
    <3> QED BY <2>1, <2>2, FromOne
  <2> QED BY <2>3
<1> QED BY <1>7, <1>8, <1>9, <1>10 DEF f, base

\* Entry k of row i is the power k * c^(i - 1).
LEMMA RowsForm ==
  ASSUME NEW basis, NEW g, IsP(basis, g), NEW option, NEW n,
         NEW m \in Nat \ {0}, m = Radix!TableLength(option, n),
         NEW c \in Nat \ {0}, c = Radix!NumColumns(option)
  PROVE  \A i \in 1 .. m : \A k \in 0 .. c - 1 :
           MForm(Radix!Table(basis, option, n)[i][k], Power(g, k * Power(c, i - 1)))
<1> DEFINE f == RowsFcn(basis, option, n)
           x == ToMontgomery(basis)
           Based(i, z) == f[i] = Radix!Row(z, c) /\ MForm(z, Power(g, Power(c, i - 1)))
           C == {i \in 1 .. m : \E z : Based(i, z)}
<1>1. MForm(x, g) /\ x \in Elements /\ g \in Int
  BY EnterForm DEF MForm, Form
<1> HIDE DEF x
<1>2. /\ f[1] = Radix!Row(x, c)
      /\ \A i \in 2 .. m : f[i] = Radix!Row(f[i - 1].next, c)
      /\ Radix!Table(basis, option, n) = [i \in 1 .. m |-> f[i].entries]
  BY <1>1, RowsRec DEF x
<1> HIDE DEF f
<1>3. 1 \in C
  <2> DEFINE zero == 0
  <2>1. Power(c, zero) = 1 /\ Power(g, 1) = g /\ 1 - 1 = zero
    BY <1>1, PowerZero, PowerOne
  <2>2. Based(1, x)
    BY <1>1, <1>2, <2>1
  <2> QED BY <2>2
<1>4. ASSUME NEW i \in 2 .. m, i - 1 \in C
      PROVE  i \in C
  <2> DEFINE j == i - 1
             k == j - 1
             e == Power(c, k)
             u == Power(g, e)
  <2>1. PICK z : Based(j, z)
    BY <1>4
  <2>2. k \in Nat /\ k + 1 = j /\ j \in 1 .. m /\ i \in 1 .. m
    OBVIOUS
  <2> HIDE DEF k
  <2>3. f[j] = Radix!Row(z, c) /\ MForm(z, u) /\ f[i] = Radix!Row(f[j].next, c)
    BY <1>2, <2>1, <2>2 DEF k
  <2>4. MForm(f[j].next, Power(u, c))
    BY <2>3, RowForm
  <2>5. e \in Nat \ {0} /\ Power(c, k + 1) = c * e
    <3>1. c \in Int /\ k \in Nat
      BY <2>2
    <3>2. Power(c, k + 1) = c * e
      BY <3>1, PowerNext
    <3>3. e \in Nat \ {0}
      BY <3>1, PowerPositive
    <3> QED BY <3>2, <3>3
  <2> HIDE DEF e
  <2>6. Power(u, c) = Power(g, e * c)
    BY <1>1, <2>5, PowerPower
  <2>7. e * c = c * e
    BY <2>5
  <2>8. Power(u, c) = Power(g, Power(c, j))
    BY <2>2, <2>5, <2>6, <2>7
  <2> HIDE DEF u
  <2>9. Based(i, f[j].next)
    BY <2>3, <2>4, <2>8
  <2> QED BY <2>2, <2>9
<1>5. \A i \in 1 .. m : i \in C
  <2> HIDE DEF C
  <2> QED BY <1>3, <1>4, FromOne
<1> SUFFICES ASSUME NEW i \in 1 .. m, NEW k \in 0 .. c - 1
             PROVE  MForm(Radix!Table(basis, option, n)[i][k], Power(g, k * Power(c, i - 1)))
  OBVIOUS
<1>6. PICK z : Based(i, z)
  BY <1>5
<1> DEFINE j == i - 1
           e == Power(c, j)
           u == Power(g, e)
<1>7. f[i] = Radix!Row(z, c) /\ MForm(z, u)
  BY <1>6
<1>8. MForm(f[i].entries[k], Power(u, k))
  BY <1>7, RowForm
<1>9. j \in Nat /\ k \in Nat
  OBVIOUS
<1> HIDE DEF j
<1>10. e \in Nat \ {0}
  BY <1>9, PowerPositive
<1> HIDE DEF e
<1>11. Power(u, k) = Power(g, e * k)
  BY <1>1, <1>9, <1>10, PowerPower
<1>12. e * k = k * e
  BY <1>9, <1>10
<1>13. Radix!Table(basis, option, n)[i] = f[i].entries
  BY <1>2
<1> QED BY <1>8, <1>11, <1>12, <1>13 DEF e, j

ProductsFcn(table, s) ==
  CHOOSE y : y = [i \in 0 .. Len(s) |-> IF i = 0 THEN montgomeryOne ELSE TimesM(y[i - 1], table[i][s[i]])]

\* The products over the rows obey the loop.
LEMMA ProductsRec ==
  ASSUME NEW m \in Nat, NEW s, Len(s) = m, NEW table, \A i \in 1 .. m : table[i][s[i]] \in Elements
  PROVE  /\ ProductsFcn(table, s)[0] = montgomeryOne
         /\ \A i \in 1 .. m : ProductsFcn(table, s)[i] = TimesM(ProductsFcn(table, s)[i - 1], table[i][s[i]])
<1> DEFINE f == ProductsFcn(table, s)
           S == Elements
           base == montgomeryOne
           step == [i \in 1 .. m |-> [e \in S |-> TimesM(e, table[i][s[i]])]]
           Body(g) == [i \in 0 .. m |-> IF i = 0 THEN base ELSE TimesM(g[i - 1], table[i][s[i]])]
<1>1. base \in S
  BY OneMForm DEF MForm
<1> HIDE DEF base
<1>2. step \in Steps(m, S)
  <2>1. \A i \in 1 .. m, e \in S : TimesM(e, table[i][s[i]]) \in S
    BY TimesMForm
  <2> HIDE DEF S
  <2> QED BY <2>1 DEF Steps
<1>3. PICK g \in [0 .. m -> S] : Recurs(g, m, base, step)
  <2> HIDE DEF step, S
  <2> QED BY ONLY <1>1, <1>2, m \in Nat, RecursionExists
<1>4. g = Body(g)
  <2>1. ASSUME NEW i \in 1 .. m
        PROVE  g[i] = TimesM(g[i - 1], table[i][s[i]])
    <3> HIDE DEF S
    <3>1. g[i - 1] \in S
      BY <1>3
    <3>2. g[i] = step[i][g[i - 1]]
      <4> HIDE DEF step
      <4> QED BY <1>3 DEF Recurs
    <3> QED BY <3>1, <3>2
  <2>2. g[0] = base
    BY <1>3 DEF Recurs
  <2> HIDE DEF step, S
  <2> QED BY <1>3, <2>1, <2>2
<1>5. f = CHOOSE y : y = Body(y)
  BY DEF ProductsFcn, base
<1>6. f = Body(f)
  <2> HIDE DEF f, Body
  <2> QED BY <1>4, <1>5
<1> HIDE DEF f
<1>7. f[0] = base /\ \A i \in 1 .. m : f[i] = TimesM(f[i - 1], table[i][s[i]])
  BY <1>6
<1> QED BY <1>7 DEF f, base

(***************************************************************************)
(* The power of the basis, whatever the option.                            *)
(***************************************************************************)
LEMMA RadixPow ==
  ASSUME NEW basis, NEW g, IsP(basis, g), NEW n \in Nat, n % 6 = 2, NEW b \in Array(n),
         NEW option \in Radix!Options
  PROVE  IsP(Radix!Pow(Radix!Table(basis, option, n), b, option), Jvm!PowP(g, Jvm!ToBigInteger(b)))
<1> DEFINE table == Radix!Table(basis, option, n)
           s == Radix!KBitsPerSlice(b, option)
           m == Radix!TableLength(option, n)
           c == Radix!NumColumns(option)
           v == Jvm!ToBigInteger(b)
           f == ProductsFcn(table, s)
           N(i) == Number(c, s, i)
           Holds(i) == MForm(f[i], Power(g, N(i)))
           C == {i \in 0 .. m : Holds(i)}
<1>1. /\ m \in Nat \ {0} /\ c \in Nat \ {0, 1} /\ Len(s) = m
      /\ Digits(c, s, m) /\ Number(c, s, m) = v
  BY AllSlices DEF SlicesAre
<1>2. m \in Nat /\ c \in Nat \ {0} /\ c \in Int
  BY <1>1
<1>3. \A i \in 1 .. m : \A k \in 0 .. c - 1 : MForm(table[i][k], Power(g, k * Power(c, i - 1)))
  BY <1>1, <1>2, RowsForm
<1>4. v \in Nat
  BY BigValue
<1>5. Radix!Pow(table, b, option) = ToElementModP(f[Len(s)])
  BY DEF Radix!Pow, ProductsFcn
<1>6. g \in Int
  BY GroupNumbers DEF IsP
<1> HIDE DEF table, s, m, c, v
<1>7. \A i \in 1 .. m : s[i] \in 0 .. c - 1 /\ s[i] \in Nat
  <2>1. \A i \in 1 .. m : s[i] \in 0 .. c - 1
    BY <1>1 DEF Digits
  <2> QED BY <1>2, <2>1
<1>8. \A i \in 1 .. m : table[i][s[i]] \in Elements
  BY <1>3, <1>7 DEF MForm
<1>9. /\ f[0] = montgomeryOne
      /\ \A i \in 1 .. m : f[i] = TimesM(f[i - 1], table[i][s[i]])
  <2>1. m \in Nat /\ Len(s) = m /\ \A i \in 1 .. m : table[i][s[i]] \in Elements
    BY <1>1, <1>2, <1>8
  <2>2. /\ ProductsFcn(table, s)[0] = montgomeryOne
        /\ \A i \in 1 .. m : ProductsFcn(table, s)[i]
                               = TimesM(ProductsFcn(table, s)[i - 1], table[i][s[i]])
    BY ONLY <2>1, ProductsRec
  <2> QED BY <2>2 DEF f
<1>10. Integers0(s, m)
  BY <1>7 DEF Integers0
<1> HIDE DEF f
<1>11. 0 \in C
  <2>1. N(0) = 0
    BY <1>2, NumberZero
  <2> HIDE DEF N
  <2>2. Power(g, 0) = 1
    BY <1>6, PowerZero
  <2> QED BY <1>2, <1>9, <2>1, <2>2, OneMForm
<1>12. ASSUME NEW i \in 1 .. m, i - 1 \in C
       PROVE  i \in C
  <2> DEFINE k == i - 1
             pw == Power(c, k)
             d == s[i]
             dp == d * pw
             x == N(k)
             e == table[i][d]
  <2>1. k \in Nat /\ k + 1 = i /\ i \in 0 .. m /\ k \in 0 .. m
    BY <1>2
  <2>2. MForm(f[k], Power(g, x)) /\ f[i] = TimesM(f[k], e)
    BY <1>9, <1>12
  <2>3. MForm(e, Power(g, dp))
    BY <1>3, <1>7
  <2>4. d \in Nat
    BY <1>7
  <2> HIDE DEF e
  <2>5. Integers0(s, k + 1) /\ Digits(c, s, k)
    <3>1. Integers0(s, i)
      BY <1>2, <1>10, <2>1, FewerDigits
    <3>2. Digits(c, s, k)
      BY <1>1, <1>2, <2>1, FewerDigits
    <3> QED BY <2>1, <3>1, <3>2
  <2> HIDE DEF k
  <2>6. pw \in Nat \ {0}
    BY <1>2, <2>1, PowerPositive
  <2>7. Number(c, s, k + 1) = Number(c, s, k) + s[k + 1] * pw
    BY <1>2, <2>1, <2>5, NumberNext
  <2>8. Number(c, s, k) \in 0 .. Power(c, k) - 1
    BY <1>2, <2>1, <2>5, NumberBounds
  <2>9. N(i) = x + dp /\ x \in Nat
    BY <2>1, <2>6, <2>7, <2>8
  <2>10. dp \in Nat
    BY <2>4, <2>6
  <2> HIDE DEF x, dp
  <2>11. Power(g, x + dp) = Power(g, x) * Power(g, dp)
    BY <1>6, <2>9, <2>10, PowerPlus
  <2>12. MForm(TimesM(f[k], e), Power(g, x) * Power(g, dp))
    BY <2>2, <2>3, TimesMForm
  <2>13. MForm(f[i], Power(g, N(i)))
    BY <2>2, <2>9, <2>11, <2>12
  <2> QED BY <2>1, <2>13
<1>13. m \in C
  <2>1. \A i \in 0 .. m : i \in C
    <3> HIDE DEF C
    <3> QED BY <1>2, <1>11, <1>12, UpTo
  <2> HIDE DEF C
  <2> QED BY <1>2, <2>1
<1> DEFINE u == Power(g, v)
<1>14. MForm(f[m], u)
  BY <1>1, <1>13
<1>15. Jvm!PowP(g, v) = u % P
  <2>1. P \in Nat \ {0}
    BY GroupNumbers
  <2>2. Jvm!ModPow(g, v, P) = u % P
    BY <1>4, <1>6, <2>1, ModPowIs
  <2> QED BY <2>2 DEF Jvm!PowP
<1> HIDE DEF u
<1>16. IsP(ToElementModP(f[m]), u % P)
  BY <1>14, LeaveForm
<1> QED BY <1>1, <1>5, <1>15, <1>16 DEF table, v

\* With an exponent that is an element.
LEMMA AcceleratedPowValue ==
  ASSUME NEW basis, NEW g, IsP(basis, g), NEW e, NEW x, IsQ(e, x), NEW option \in Radix!Options
  PROVE  IsP(Radix!Pow(Radix!Table(basis, option, QLen), ByteArrayQ(e), option), Jvm!PowP(g, x))
<1> DEFINE a == Low(e)
           b == Reverse(a)
           r == Reverse(b)
<1>1. a \in Array(QLen) /\ Value(a) = x
  BY LowValue
<1>2. QLen \in Nat /\ QLen % 6 = 2
  BY GroupNumbers, GroupAssumption
<1>3. ByteArrayQ(e) = b
  BY DEF ByteArrayQ
<1> HIDE DEF a
<1>4. b \in Array(QLen) /\ b = [i \in 1 .. QLen |-> a[QLen - i + 1]]
  BY <1>1, <1>2, ReverseSame
<1> HIDE DEF b
<1>5. r \in Array(QLen) /\ r = [i \in 1 .. QLen |-> b[QLen - i + 1]]
  BY <1>2, <1>4, ReverseSame
<1>6. r = a
  <2>1. \A i \in 1 .. QLen : r[i] = a[i]
    <3> TAKE i \in 1 .. QLen
    <3> DEFINE j == QLen - i + 1
    <3>1. j \in 1 .. QLen /\ QLen - j + 1 = i
      BY <1>2
    <3> HIDE DEF r
    <3>2. r[i] = b[j] /\ b[j] = a[QLen - j + 1]
      BY <1>4, <1>5, <3>1
    <3> QED BY <3>1, <3>2
  <2> HIDE DEF r
  <2> QED BY <1>1, <1>2, <1>5, <2>1, SameArray
<1>7. Jvm!ToBigInteger(b) = Value(r)
  BY <1>2, <1>4, BigValue
<1> HIDE DEF r
<1>8. Jvm!ToBigInteger(b) = x
  BY <1>1, <1>6, <1>7
<1>9. IsP(Radix!Pow(Radix!Table(basis, option, QLen), b, option), Jvm!PowP(g, Jvm!ToBigInteger(b)))
  BY <1>2, <1>4, RadixPow
<1> QED BY <1>3, <1>8, <1>9

-----------------------------------------------------------------------------
(***************************************************************************)
(* The steps of the group.                                                 *)
(***************************************************************************)
Valid(k, n, j) ==
  /\ k = "Q" => IsQ(n, j)
  /\ k \in {"P", "M"} => IsP(n, j)
  /\ k = "null" => n = << >> /\ j = Jvm!Null
  /\ k = "slices" => n \in Bytes(SliceBytes) /\ j = Jvm!ToBigInteger(n)

IInv == Valid(kind, native, jvm)

\* Bytes are words.
LEMMA BytesArray == ASSUME NEW n PROVE Bytes(n) = Array(n)
BY DEF Bytes, Array, Word

\* The second operands.
LEMMA OperandsQ ==
  ASSUME NEW y \in ElementsQ
  PROVE  IsQ(y[1], y[2])
<1>1. CASE y = <<zeroModQ, 0>>
  BY <1>1, ZeroQ
<1>2. CASE \E v \in 0 .. Q - 1 : y = <<Words(v, QLen), v>>
  <2>1. PICK v \in 0 .. Q - 1 : y = <<Words(v, QLen), v>>
    BY <1>2
  <2>2. y[1] = Words(v, QLen) /\ y[2] = v
    BY <2>1
  <2> QED BY <2>2, WordsQ
<1> QED BY <1>1, <1>2 DEF ElementsQ

\* Residues are elements of P.
LEMMA OperandsP ==
  ASSUME NEW y \in Residues
  PROVE  IsP(y[1], y[2]) /\ Residue(y[2])
<1>1. PICK e \in 0 .. Q - 1 : y = <<Words(Jvm!PowP(Gen, e), PLen), Jvm!PowP(Gen, e)>>
  BY DEF Residues
<1> DEFINE v == Jvm!PowP(Gen, e)
<1>2. y[1] = Words(v, PLen) /\ y[2] = v
  BY <1>1
<1>3. e \in Nat
  BY GroupNumbers
<1>4. Residue(v)
  BY <1>3, GeneratorResidue
<1> HIDE DEF v
<1>5. v \in 0 .. P - 1
  BY <1>4 DEF Residue
<1> QED BY <1>2, <1>4, <1>5, WordsP

\* Their Montgomery forms, too.
LEMMA OperandsM ==
  ASSUME NEW y \in MontgomeryResidues
  PROVE  IsP(y[1], y[2])
<1>1. PICK r \in Residues : y = <<ToMontgomery(r[1]), Jvm!ToMontgomery(r[2])>>
  BY DEF MontgomeryResidues
<1> DEFINE a == r[1]
           x == r[2]
<1>2. IsP(a, x)
  BY OperandsP
<1>3. y[1] = ToMontgomery(a) /\ y[2] = Jvm!ToMontgomery(x)
  BY <1>1
<1> HIDE DEF a, x
<1> QED BY <1>2, <1>3, ToMontgomeryValue

\* The generator is an element of P.
LEMMA GeneratorP == IsP(Words(Gen, PLen), Gen)
<1>1. Gen \in 0 .. P - 1
  BY GroupAssumption, GroupNumbers
<1> QED BY <1>1, WordsP

\* What a step leaves is valid.
LEMMA BecomesQ ==
  ASSUME NEW n, NEW j, IsQ(n, j)
  PROVE  Valid("Q", n, j)
BY DEF Valid

\* An element of P may be taken as a Montgomery form.
LEMMA BecomesP ==
  ASSUME NEW n, NEW j, IsP(n, j)
  PROVE  Valid("P", n, j) /\ Valid("M", n, j)
BY DEF Valid

\* Null is valid.
LEMMA BecomesNull ==
  ASSUME NEW n, NEW j, n = << >>, j = Jvm!Null
  PROVE  Valid("null", n, j)
BY DEF Valid

\* The invariant holds initially.
LEMMA InitIInv == Init => IInv
BY DEF Init, IInv, Valid

\* Small numbers and constants are valid.
LEMMA StartIInv == ASSUME Start PROVE IInv'
<1>1. CASE \E v \in 0 .. 2 : Become("Q", Q0(v), v)
  <2>1. PICK v \in 0 .. 2 : Become("Q", Q0(v), v)
    BY <1>1
  <2>2. v \in 0 .. Q - 1
    BY GroupNumbers
  <2>3. IsQ(Q0(v), v)
    <3>1. CASE v = 0
      BY <3>1, ZeroQ DEF Q0
    <3>2. CASE v # 0
      BY <2>2, <3>2, WordsQ DEF Q0
    <3> QED BY <3>1, <3>2
  <2>4. Valid("Q", Q0(v), v)
    BY <2>3, BecomesQ
  <2> QED BY <2>1, <2>4 DEF Become, IInv
<1>2. CASE \E v \in 0 .. 2 : Become("P", Words(v, PLen), v)
  <2>1. PICK v \in 0 .. 2 : Become("P", Words(v, PLen), v)
    BY <1>2
  <2>2. v \in 0 .. P - 1
    BY GroupNumbers
  <2>3. IsP(Words(v, PLen), v)
    BY <2>2, WordsP
  <2>4. Valid("P", Words(v, PLen), v)
    BY <2>3, BecomesP
  <2> QED BY <2>1, <2>4 DEF Become, IInv
<1>3. CASE Become("P", Words(Gen, PLen), Gen)
  <2>1. Valid("P", Words(Gen, PLen), Gen)
    BY GeneratorP, BecomesP
  <2> QED BY <1>3, <2>1 DEF Become, IInv
<1>4. CASE Become("Q", qMinus1ModQ, Jvm!MinusQ(0, 1))
  <2> DEFINE v == Jvm!MinusQ(0, 1)
  <2>1. IsQ(qMinus1ModQ, v)
    BY QMinus1Value
  <2>2. Valid("Q", qMinus1ModQ, v)
    BY <2>1, BecomesQ
  <2> QED BY <1>4, <2>2 DEF Become, IInv
<1> QED BY <1>1, <1>2, <1>3, <1>4 DEF Start

\* What binaryToElementModQ reads is valid.
LEMMA BinaryQIInv == ASSUME BinaryToElementModQ PROVE IInv'
<1>1. PICK n \in 0 .. QLen + 1 : \E b \in Bytes(n) : BecomeOrNull("Q", BinaryToQ(b), Jvm!BinaryToQ(b))
  BY DEF BinaryToElementModQ
<1>2. PICK b \in Bytes(n) : BecomeOrNull("Q", BinaryToQ(b), Jvm!BinaryToQ(b))
  BY <1>1
<1> DEFINE e == BinaryToQ(b)
           x == Jvm!BinaryToQ(b)
<1>3. NullOrQ(e, x)
  BY BytesArray, BinaryToQValue
<1> HIDE DEF e, x
<1>4. CASE e = << >> /\ x = Jvm!Null
  <2>1. Valid("null", e, x)
    BY <1>4, BecomesNull
  <2>2. Become("null", e, x)
    BY <1>2, <1>4 DEF BecomeOrNull, e, x
  <2> QED BY <2>1, <2>2 DEF Become, IInv
<1>5. CASE ~(e = << >> /\ x = Jvm!Null)
  <2>1. Valid("Q", e, x)
    BY <1>3, <1>5, BecomesQ DEF NullOrQ
  <2>2. Become("Q", e, x)
    BY <1>2, <1>5 DEF BecomeOrNull, e, x
  <2> QED BY <2>1, <2>2 DEF Become, IInv
<1> QED BY <1>4, <1>5

\* What binaryToElementModP reads is valid.
LEMMA BinaryPIInv == ASSUME BinaryToElementModP PROVE IInv'
<1>1. PICK n \in 0 .. PLen + 1 : \E b \in Bytes(n) : BecomeOrNull("P", BinaryToP(b), Jvm!BinaryToP(b))
  BY DEF BinaryToElementModP
<1>2. PICK b \in Bytes(n) : BecomeOrNull("P", BinaryToP(b), Jvm!BinaryToP(b))
  BY <1>1
<1> DEFINE e == BinaryToP(b)
           x == Jvm!BinaryToP(b)
<1>3. NullOrP(e, x)
  BY BytesArray, BinaryToPValue
<1> HIDE DEF e, x
<1>4. CASE e = << >> /\ x = Jvm!Null
  <2>1. Valid("null", e, x)
    BY <1>4, BecomesNull
  <2>2. Become("null", e, x)
    BY <1>2, <1>4 DEF BecomeOrNull, e, x
  <2> QED BY <2>1, <2>2 DEF Become, IInv
<1>5. CASE ~(e = << >> /\ x = Jvm!Null)
  <2>1. Valid("P", e, x)
    BY <1>3, <1>5, BecomesP DEF NullOrP
  <2>2. Become("P", e, x)
    BY <1>2, <1>5 DEF BecomeOrNull, e, x
  <2> QED BY <2>1, <2>2 DEF Become, IInv
<1> QED BY <1>4, <1>5

\* What safeBinaryToElementModQ reads is valid.
LEMMA SafeQIInv == ASSUME SafeBinaryToElementModQ PROVE IInv'
<1>1. PICK n \in 0 .. QLen : \E b \in Bytes(n), m \in 0 .. MaxMinimum :
        Become("Q", SafeBinaryToQ(b, m), Jvm!SafeBinaryToQ(b, m))
  BY DEF SafeBinaryToElementModQ
<1>2. PICK b \in Bytes(n), m \in 0 .. MaxMinimum :
        Become("Q", SafeBinaryToQ(b, m), Jvm!SafeBinaryToQ(b, m))
  BY <1>1
<1> DEFINE e == SafeBinaryToQ(b, m)
           x == Jvm!SafeBinaryToQ(b, m)
<1>3. IsQ(e, x)
  BY BytesArray, SafeBinaryToQValue
<1>4. Valid("Q", e, x)
  BY <1>3, BecomesQ
<1> HIDE DEF e, x
<1> QED BY <1>2, <1>4 DEF Become, IInv, e, x

\* What safeBinaryToElementModP reads is valid.
LEMMA SafePIInv == ASSUME SafeBinaryToElementModP PROVE IInv'
<1>1. PICK n \in 0 .. PLen : \E b \in Bytes(n), m \in 0 .. MaxMinimum :
        Become("P", SafeBinaryToP(b, m), Jvm!SafeBinaryToP(b, m))
  BY DEF SafeBinaryToElementModP
<1>2. PICK b \in Bytes(n), m \in 0 .. MaxMinimum :
        Become("P", SafeBinaryToP(b, m), Jvm!SafeBinaryToP(b, m))
  BY <1>1
<1> DEFINE e == SafeBinaryToP(b, m)
           x == Jvm!SafeBinaryToP(b, m)
<1>3. IsP(e, x)
  BY BytesArray, SafeBinaryToPValue
<1>4. Valid("P", e, x)
  BY <1>3, BecomesP
<1> HIDE DEF e, x
<1> QED BY <1>2, <1>4 DEF Become, IInv, e, x

\* Every operation takes valid values to valid values.
LEMMA NextIInv == ASSUME IInv, [Next]_vars PROVE IInv'
<1>1. CASE Start
  BY <1>1, StartIInv
<1>2. CASE BinaryToElementModQ
  BY <1>2, BinaryQIInv
<1>3. CASE BinaryToElementModP
  BY <1>3, BinaryPIInv
<1>4. CASE SafeBinaryToElementModQ
  BY <1>4, SafeQIInv
<1>5. CASE SafeBinaryToElementModP
  BY <1>5, SafePIInv
<1>6. CASE ThenPlus
  <2>1. PICK y \in ElementsQ : Become("Q", PlusQ(native, y[1]), Jvm!PlusQ(jvm, y[2]))
    BY <1>6 DEF ThenPlus
  <2> DEFINE b == y[1]
             z == y[2]
             e == PlusQ(native, b)
             x == Jvm!PlusQ(jvm, z)
  <2>2. IsQ(native, jvm)
    BY <1>6 DEF ThenPlus, IInv, Valid
  <2>3. IsQ(b, z)
    BY OperandsQ
  <2> HIDE DEF b, z
  <2>4. IsQ(e, x)
    BY <2>1, <2>2, <2>3, PlusQValue
  <2>5. Valid("Q", e, x)
    BY <2>4, BecomesQ
  <2> QED BY <2>1, <2>5 DEF Become, IInv, b, z
<1>7. CASE ThenMinus
  <2>1. PICK y \in ElementsQ : Become("Q", MinusQ(native, y[1]), Jvm!MinusQ(jvm, y[2]))
    BY <1>7 DEF ThenMinus
  <2> DEFINE b == y[1]
             z == y[2]
             e == MinusQ(native, b)
             x == Jvm!MinusQ(jvm, z)
  <2>2. IsQ(native, jvm)
    BY <1>7 DEF ThenMinus, IInv, Valid
  <2>3. IsQ(b, z)
    BY OperandsQ
  <2> HIDE DEF b, z
  <2>4. IsQ(e, x)
    BY <2>1, <2>2, <2>3, MinusQValue
  <2>5. Valid("Q", e, x)
    BY <2>4, BecomesQ
  <2> QED BY <2>1, <2>5 DEF Become, IInv, b, z
<1>8. CASE ThenTimes
  <2>1. PICK y \in ElementsQ : Become("Q", TimesQ(native, y[1]), Jvm!TimesQ(jvm, y[2]))
    BY <1>8 DEF ThenTimes
  <2> DEFINE b == y[1]
             z == y[2]
             e == TimesQ(native, b)
             x == Jvm!TimesQ(jvm, z)
  <2>2. IsQ(native, jvm)
    BY <1>8 DEF ThenTimes, IInv, Valid
  <2>3. IsQ(b, z)
    BY OperandsQ
  <2> HIDE DEF b, z
  <2>4. IsQ(e, x)
    BY <2>1, <2>2, <2>3, TimesQValue
  <2>5. Valid("Q", e, x)
    BY <2>4, BecomesQ
  <2> QED BY <2>1, <2>5 DEF Become, IInv, b, z
<1>9. CASE ThenDiv
  <2>1. PICK y \in ElementsQ : y[2] # 0 /\ Become("Q", DivQ(native, y[1]), Jvm!DivQ(jvm, y[2]))
    BY <1>9 DEF ThenDiv
  <2> DEFINE b == y[1]
             z == y[2]
             e == DivQ(native, b)
             x == Jvm!DivQ(jvm, z)
  <2>2. IsQ(native, jvm)
    BY <1>9 DEF ThenDiv, IInv, Valid
  <2>3. IsQ(b, z)
    BY OperandsQ
  <2> HIDE DEF b, z
  <2>4. IsQ(e, x)
    BY <2>1, <2>2, <2>3, DivQValue DEF z
  <2>5. Valid("Q", e, x)
    BY <2>4, BecomesQ
  <2> QED BY <2>1, <2>5 DEF Become, IInv, b, z
<1>10. CASE ThenPowQ
  <2>1. PICK y \in ElementsQ : Become("Q", PowQ(native, y[1]), Jvm!PowQ(jvm, y[2]))
    BY <1>10 DEF ThenPowQ
  <2> DEFINE b == y[1]
             z == y[2]
             e == PowQ(native, b)
             x == Jvm!PowQ(jvm, z)
  <2>2. IsQ(native, jvm)
    BY <1>10 DEF ThenPowQ, IInv, Valid
  <2>3. IsQ(b, z)
    BY OperandsQ
  <2> HIDE DEF b, z
  <2>4. IsQ(e, x)
    BY <2>1, <2>2, <2>3, PowQValue
  <2>5. Valid("Q", e, x)
    BY <2>4, BecomesQ
  <2> QED BY <2>1, <2>5 DEF Become, IInv, b, z
<1>11. CASE ThenUnaryMinus
  <2> DEFINE e == UnaryMinusQ(native)
             x == Jvm!UnaryMinusQ(jvm)
  <2>1. IsQ(native, jvm) /\ Become("Q", e, x)
    BY <1>11 DEF ThenUnaryMinus, IInv, Valid
  <2>2. IsQ(e, x)
    BY <2>1, UnaryMinusQValue
  <2>3. Valid("Q", e, x)
    BY <2>2, BecomesQ
  <2> HIDE DEF e, x
  <2> QED BY <2>1, <2>3 DEF Become, IInv
<1>12. CASE ThenGPowP
  <2>1. PICK option \in Radix!Options :
          Become("P", Radix!Pow(gTables[option], ByteArrayQ(native), option), Jvm!PowP(Gen, jvm))
    BY <1>12 DEF ThenGPowP
  <2> DEFINE basis == Words(Gen, PLen)
             e == Radix!Pow(Radix!Table(basis, option, QLen), ByteArrayQ(native), option)
             x == Jvm!PowP(Gen, jvm)
  <2>2. gTables[option] = Radix!Table(basis, option, QLen)
    BY DEF gTables
  <2>3. IsQ(native, jvm) /\ IsP(basis, Gen)
    BY <1>12, GeneratorP DEF ThenGPowP, IInv, Valid
  <2> HIDE DEF basis
  <2>4. IsP(e, x)
    BY <2>3, AcceleratedPowValue
  <2>5. Valid("P", e, x)
    BY <2>4, BecomesP
  <2> HIDE DEF x
  <2>6. Become("P", e, x)
    BY <2>1, <2>2 DEF x
  <2> HIDE DEF e
  <2> QED BY <2>5, <2>6 DEF Become, IInv
<1>13. CASE ThenPowP
  <2>1. PICK y \in ElementsQ : Become("P", PowP(native, y[1]), Jvm!PowP(jvm, y[2]))
    BY <1>13 DEF ThenPowP, SomeElementsQ
  <2> DEFINE b == y[1]
             z == y[2]
             e == PowP(native, b)
             x == Jvm!PowP(jvm, z)
  <2>2. IsP(native, jvm)
    BY <1>13 DEF ThenPowP, IInv, Valid
  <2>3. IsQ(b, z)
    BY OperandsQ
  <2> HIDE DEF b, z
  <2>4. IsP(e, x)
    BY <2>2, <2>3, PowPValue
  <2>5. Valid("P", e, x)
    BY <2>4, BecomesP
  <2> QED BY <2>1, <2>5 DEF Become, IInv, b, z
<1>14. CASE ThenAcceleratedPowP
  <2>1. PICK option \in Radix!Options, y \in ElementsQ :
          Become("P", Radix!Pow(Radix!Table(native, option, QLen), ByteArrayQ(y[1]), option), Jvm!PowP(jvm, y[2]))
    BY <1>14 DEF ThenAcceleratedPowP
  <2> DEFINE b == y[1]
             z == y[2]
             e == Radix!Pow(Radix!Table(native, option, QLen), ByteArrayQ(b), option)
             x == Jvm!PowP(jvm, z)
  <2>2. IsP(native, jvm)
    BY <1>14 DEF ThenAcceleratedPowP, IInv, Valid
  <2>3. IsQ(b, z)
    BY OperandsQ
  <2> HIDE DEF b, z
  <2>4. IsP(e, x)
    BY <2>2, <2>3, AcceleratedPowValue
  <2>5. Valid("P", e, x)
    BY <2>4, BecomesP
  <2> HIDE DEF x
  <2>6. Become("P", e, x)
    BY <2>1 DEF b, z, x
  <2> HIDE DEF e
  <2> QED BY <2>5, <2>6 DEF Become, IInv
<1>15. CASE ThenTimesP
  <2>1. PICK y \in Residues : Become("P", TimesP(native, y[1]), Jvm!TimesP(jvm, y[2]))
    BY <1>15 DEF ThenTimesP
  <2> DEFINE b == y[1]
             z == y[2]
             e == TimesP(native, b)
             x == Jvm!TimesP(jvm, z)
  <2>2. IsP(native, jvm)
    BY <1>15 DEF ThenTimesP, IInv, Valid
  <2>3. IsP(b, z) /\ Residue(z)
    BY OperandsP
  <2> HIDE DEF b, z
  <2>4. IsP(e, x)
    BY <2>1, <2>2, <2>3, TimesPValue
  <2>5. Valid("P", e, x)
    BY <2>4, BecomesP
  <2> QED BY <2>1, <2>5 DEF Become, IInv, b, z
<1>16. CASE ThenDivP
  <2>1. PICK y \in Residues : Become("P", DivP(native, y[1]), Jvm!DivP(jvm, y[2]))
    BY <1>16 DEF ThenDivP, SomeResidues
  <2> DEFINE b == y[1]
             z == y[2]
             e == DivP(native, b)
             x == Jvm!DivP(jvm, z)
  <2>2. IsP(native, jvm)
    BY <1>16 DEF ThenDivP, IInv, Valid
  <2>3. IsP(b, z) /\ Residue(z)
    BY OperandsP
  <2> HIDE DEF b, z
  <2>4. IsP(e, x)
    BY <2>2, <2>3, DivPValue
  <2>5. Valid("P", e, x)
    BY <2>4, BecomesP
  <2> QED BY <2>1, <2>5 DEF Become, IInv, b, z
<1>17. CASE ThenMultInvP
  <2> DEFINE e == MultInvP(native)
             x == Jvm!MultInvP(jvm)
  <2>1. IsP(native, jvm) /\ Residue(jvm) /\ Become("P", e, x)
    BY <1>17 DEF ThenMultInvP, IInv, Valid, IsP, Residue, Jvm!IsValidResidue
  <2>2. IsP(e, x)
    BY <2>1, MultInvPValue DEF Jvm!MultInvP
  <2>3. Valid("P", e, x)
    BY <2>2, BecomesP
  <2> HIDE DEF e, x
  <2> QED BY <2>1, <2>3 DEF Become, IInv
<1>18. CASE ThenToMontgomery
  <2> DEFINE e == ToMontgomery(native)
             x == Jvm!ToMontgomery(jvm)
  <2>1. IsP(native, jvm) /\ Become("M", e, x)
    BY <1>18 DEF ThenToMontgomery, IInv, Valid
  <2>2. IsP(e, x)
    BY <2>1, ToMontgomeryValue
  <2>3. Valid("M", e, x)
    BY <2>2, BecomesP
  <2> HIDE DEF e, x
  <2> QED BY <2>1, <2>3 DEF Become, IInv
<1>19. CASE ThenTimesM
  <2>1. PICK y \in MontgomeryResidues : Become("M", TimesM(native, y[1]), Jvm!TimesM(jvm, y[2]))
    BY <1>19 DEF ThenTimesM
  <2> DEFINE b == y[1]
             z == y[2]
             e == TimesM(native, b)
             x == Jvm!TimesM(jvm, z)
  <2>2. IsP(native, jvm)
    BY <1>19 DEF ThenTimesM, IInv, Valid
  <2>3. IsP(b, z)
    BY OperandsM
  <2> HIDE DEF b, z
  <2>4. IsP(e, x)
    BY <2>1, <2>2, <2>3, TimesMValue
  <2>5. Valid("M", e, x)
    BY <2>4, BecomesP
  <2> QED BY <2>1, <2>5 DEF Become, IInv, b, z
<1>20. CASE ThenToElementModP
  <2> DEFINE e == ToElementModP(native)
             x == Jvm!ToElementModP(jvm)
  <2>1. IsP(native, jvm) /\ Become("P", e, x)
    BY <1>20 DEF ThenToElementModP, IInv, Valid
  <2>2. IsP(e, x)
    BY <2>1, ToElementModPValue
  <2>3. Valid("P", e, x)
    BY <2>2, BecomesP
  <2> HIDE DEF e, x
  <2> QED BY <2>1, <2>3 DEF Become, IInv
<1>21. CASE Slice
  <2>1. PICK b \in [1 .. SliceBytes -> SliceValues] : Become("slices", b, Jvm!ToBigInteger(b))
    BY <1>21 DEF Slice
  <2>2. b \in Bytes(SliceBytes)
    BY GroupAssumption DEF Bytes, Word
  <2> DEFINE x == Jvm!ToBigInteger(b)
  <2>3. Valid("slices", b, x)
    BY <2>2 DEF Valid
  <2> HIDE DEF x
  <2> QED BY <2>1, <2>3 DEF Become, IInv, x
<1>22. CASE UNCHANGED vars
  BY <1>22 DEF IInv, vars
<1> QED
  BY <1>1, <1>2, <1>3, <1>4, <1>5, <1>6, <1>7, <1>8, <1>9, <1>10, <1>11, <1>12, <1>13, <1>14, <1>15, <1>16, <1>17, <1>18, <1>19, <1>20, <1>21, <1>22 DEF Next

-----------------------------------------------------------------------------
\* What valid values are worth.
LEMMA IInvTypeOK == IInv => TypeOK
<1> SUFFICES ASSUME IInv PROVE TypeOK
  OBVIOUS
<1>1. ASSUME kind = "Q" PROVE native \in Bytes(QLen) \cup {zeroModQ} /\ InBoundsQ(native)
  <2>1. IsQ(native, jvm)
    BY <1>1 DEF IInv, Valid
  <2> QED BY <2>1, InBoundsQValue, BytesArray DEF IsQ
<1>2. ASSUME kind \in {"P", "M"} PROVE native \in Bytes(PLen) /\ InBoundsP(native)
  <2>1. IsP(native, jvm)
    BY <1>2 DEF IInv, Valid
  <2>2. native \in Array(PLen) /\ Value(native) < P
    BY <2>1, GroupNumbers DEF IsP
  <2> QED BY <2>2, InBoundsPValue, BytesArray
<1> QED BY <1>1, <1>2 DEF TypeOK

\* Valid values are the same on both platforms.
LEMMA IInvPlatforms == IInv => PlatformsAgree
<1> SUFFICES ASSUME IInv PROVE PlatformsAgree
  OBVIOUS
<1>1. ASSUME kind = "Q" PROVE Value(native) = jvm
  BY <1>1 DEF IInv, Valid, IsQ
<1>2. ASSUME kind \in {"P", "M"} PROVE Value(native) = jvm
  BY <1>2 DEF IInv, Valid, IsP
<1>3. ASSUME kind = "null" PROVE native = << >> /\ jvm = Jvm!Null
  BY <1>3 DEF IInv, Valid
<1> QED BY <1>1, <1>2, <1>3 DEF PlatformsAgree

\* Queries of valid values have the same answers.
LEMMA IInvQueries == IInv => QueriesAgree
<1> SUFFICES ASSUME IInv PROVE QueriesAgree
  OBVIOUS
<1>1. ASSUME kind = "Q", NEW y \in ElementsQ
      PROVE  /\ EqualQ(native, y[1]) <=> jvm = y[2]
             /\ zeroModQ \notin {native, y[1]} =>
                  CompareQ(native, y[1]) = Jvm!Compare(jvm, y[2])
  <2>1. IsQ(native, jvm)
    BY <1>1 DEF IInv, Valid
  <2>2. IsQ(y[1], y[2])
    BY OperandsQ
  <2>3. EqualQ(native, y[1]) <=> jvm = y[2]
    BY <2>1, <2>2, EqualQValue
  <2>4. zeroModQ \notin {native, y[1]} => CompareQ(native, y[1]) = Jvm!Compare(jvm, y[2])
    BY <2>1, <2>2, CompareQValue
  <2> QED BY <2>3, <2>4
<1>2. ASSUME kind = "P"
      PROVE  /\ IsValidResidue(native) <=> Jvm!IsValidResidue(jvm)
             /\ IsZeroP(native) <=> jvm = 0
             /\ \A y \in Residues : CompareP(native, y[1]) = Jvm!Compare(jvm, y[2])
  <2>1. IsP(native, jvm)
    BY <1>2 DEF IInv, Valid
  <2>2. IsValidResidue(native) <=> Jvm!IsValidResidue(jvm)
    BY <2>1, IsValidResidueValue
  <2>3. IsZeroP(native) <=> jvm = 0
    BY <2>1, IsZeroPValue
  <2>4. ASSUME NEW y \in Residues PROVE CompareP(native, y[1]) = Jvm!Compare(jvm, y[2])
    <3>1. IsP(y[1], y[2])
      BY OperandsP
    <3> QED BY <2>1, <3>1, ComparePValue
  <2> QED BY <2>2, <2>3, <2>4
<1> QED BY <1>1, <1>2 DEF QueriesAgree

\* The slices of a valid exponent add up to it.
LEMMA IInvSlices == IInv => SlicesAddUp
<1> SUFFICES ASSUME IInv, kind = "slices", NEW option \in Radix!Options
             PROVE  LET slices == Radix!KBitsPerSlice(native, option)
                    IN  Number(Radix!NumColumns(option), slices, Len(slices)) = jvm
  BY DEF SlicesAddUp
<1>1. native \in Array(SliceBytes) /\ jvm = Jvm!ToBigInteger(native)
  BY BytesArray DEF IInv, Valid
<1>2. SlicesAre(native, option, SliceBytes)
  BY <1>1, GroupAssumption, AllSlices
<1> QED BY <1>1, <1>2 DEF SlicesAre

(***************************************************************************)
(* The invariant holds in every reachable state: native words and the      *)
(* BigInteger stand for the same element of their group.                   *)
(***************************************************************************)
THEOREM GroupInvariance == Spec => []IInv
<1>1. IInv /\ [Next]_vars => IInv'
  BY NextIInv
<1> QED BY InitIInv, <1>1, PTL DEF Spec

(***************************************************************************)
(* Every element of Q or P that the native group computes has the words of *)
(* its kind and lies below its prime, whatever operations led to it.       *)
(***************************************************************************)
THEOREM GroupTypeCorrect == Spec => []TypeOK
BY GroupInvariance, IInvTypeOK, PTL

(***************************************************************************)
(* Whatever operations are composed, the native group and the group of the *)
(* JVM compute the same numbers, and return null for the same arrays: sums *)
(* with a carry out of the words, products by Karatsuba, powers by windows *)
(* or by the tables of PowRadix, inverses by powers, and Montgomery forms  *)
(* included.                                                               *)
(***************************************************************************)
THEOREM BothPlatformsAgree == Spec => []PlatformsAgree
BY GroupInvariance, IInvPlatforms, PTL

(***************************************************************************)
(* Both platforms answer the same to equality, comparison, the test of     *)
(* residues and the test for zero in P; comparisons of the constant zero   *)
(* of Q, which has the words of P, are left out.                           *)
(***************************************************************************)
THEOREM BothAnswerAlike == Spec => []QueriesAgree
BY GroupInvariance, IInvQueries, PTL

(***************************************************************************)
(* The slices that PowRadix cuts an exponent into, for each of its three   *)
(* options, are the digits of the exponent.                                *)
(***************************************************************************)
THEOREM ExponentsAreSliced == Spec => []SlicesAddUp
BY GroupInvariance, IInvSlices, PTL
=============================================================================
