---------------------------- MODULE BignumProofs ----------------------------
(***************************************************************************)
(* Proofs about the arithmetic of Bignum, for words of any width, arrays   *)
(* of any length, any window and any threshold of Karatsuba: every         *)
(* algorithm computes the number it is named for.  A value is what the     *)
(* words, lowest first, are worth to the base W.  Loops are recursive      *)
(* functions, which are shown to obey their recursion once each.           *)
(***************************************************************************)
EXTENDS Bignum, FiniteSetTheorems, WellFoundedInduction, TLAPS

-----------------------------------------------------------------------------
(***************************************************************************)
(* Induction over the naturals, for a set C of those it holds of.          *)
(***************************************************************************)
LEMMA NatSetInduction ==
  ASSUME NEW C, 0 \in C, \A n \in Nat : n \in C => n + 1 \in C
  PROVE  \A n \in Nat : n \in C
<1> SUFFICES ASSUME NEW k \in Nat, k \notin C PROVE FALSE
  OBVIOUS
<1> DEFINE S == 0 .. k
           D == {0 .. m : m \in {n \in S : n \notin C}}
<1>1. IsFiniteSet(S)
  BY FS_Interval
<1>2. D \in SUBSET SUBSET S /\ D # {}
  OBVIOUS
<1>3. IsWellFoundedOn(StrictSubsetOrdering(S), SUBSET S)
  BY <1>1, FS_StrictSubsetOrderingWellFounded, FS_FiniteSubsetsOfFinite
<1>4. PICK A \in D : \A B \in D : ~(<<B, A>> \in StrictSubsetOrdering(S))
  <2> HIDE DEF D, S
  <2> QED BY <1>2, <1>3, WFMin
<1>5. \A B \in D : ~(B \subseteq A /\ B # A)
  <2> HIDE DEF D
  <2> QED BY <1>2, <1>4 DEF StrictSubsetOrdering
<1>6. PICK m \in S : m \notin C /\ A = 0 .. m
  OBVIOUS
<1>7. m # 0 /\ m - 1 \in S /\ m - 1 \notin C
  BY <1>6
<1>8. 0 .. m - 1 \in D /\ 0 .. m - 1 \subseteq 0 .. m /\ m \notin 0 .. m - 1 /\ m \in 0 .. m
  BY <1>6, <1>7
<1> QED BY <1>5, <1>6, <1>8

\* The same up to a bound.
LEMMA UpTo ==
  ASSUME NEW n \in Nat, NEW C, 0 \in C, \A i \in 1 .. n : i - 1 \in C => i \in C
  PROVE  \A i \in 0 .. n : i \in C
<1> DEFINE D == {i \in Nat : i <= n => i \in C}
<1>1. 0 \in D
  OBVIOUS
<1>2. \A i \in Nat : i \in D => i + 1 \in D
  <2> TAKE i \in Nat
  <2> HAVE i \in D
  <2> SUFFICES ASSUME i + 1 <= n PROVE i + 1 \in C
    OBVIOUS
  <2>1. i + 1 \in 1 .. n /\ (i + 1) - 1 = i /\ i \in C
    OBVIOUS
  <2> QED BY <2>1
<1>3. \A i \in Nat : i \in D
  <2> HIDE DEF D
  <2> QED BY <1>1, <1>2, NatSetInduction
<1> QED BY <1>3

(***************************************************************************)
(* A recursive function on 0 .. n exists, whatever its base and its step.  *)
(***************************************************************************)
Steps(n, S) == [1 .. n -> [S -> S]]
Recurs(h, n, base, step) == h[0] = base /\ \A i \in 1 .. n : h[i] = step[i][h[i - 1]]

\* Primitive recursion has a solution.
LEMMA RecursionExists ==
  ASSUME NEW n \in Nat, NEW S, NEW base \in S, NEW step \in Steps(n, S)
  PROVE  \E h \in [0 .. n -> S] : Recurs(h, n, base, step)
<1> USE DEF Steps
<1> DEFINE Rec(h, k) == Recurs(h, k, base, step)
           C == {k \in 0 .. n : \E h \in [0 .. k -> S] : Rec(h, k)}
<1>1. 0 \in C
  <2> DEFINE g == [i \in 0 .. 0 |-> base]
  <2>1. g \in [0 .. 0 -> S] /\ g[0] = base
    OBVIOUS
  <2>2. Rec(g, 0)
    BY <2>1 DEF Recurs
  <2> HIDE DEF g, Rec
  <2> QED BY <2>1, <2>2
<1>2. ASSUME NEW k \in 1 .. n, k - 1 \in C
      PROVE  k \in C
  <2>1. PICK h \in [0 .. k - 1 -> S] : Rec(h, k - 1)
    BY <1>2
  <2> DEFINE g == [i \in 0 .. k |-> IF i = k THEN step[k][h[k - 1]] ELSE h[i]]
  <2>2. step[k] \in [S -> S] /\ h[k - 1] \in S
    OBVIOUS
  <2>3. g \in [0 .. k -> S]
    BY <2>2
  <2>4. g[k] = step[k][h[k - 1]] /\ \A i \in 0 .. k - 1 : g[i] = h[i]
    OBVIOUS
  <2> HIDE DEF g
  <2>5. ASSUME NEW i \in 1 .. k
        PROVE  g[i] = step[i][g[i - 1]]
    <3>1. g[i - 1] = h[i - 1]
      BY <2>4
    <3>2. CASE i = k
      BY <2>4, <3>1, <3>2
    <3>3. CASE i # k
      <4>1. i \in 1 .. k - 1
        BY <3>3
      <4>2. h[i] = step[i][h[i - 1]] /\ g[i] = h[i]
        BY <2>1, <2>4, <4>1 DEF Recurs
      <4> QED BY <3>1, <4>2
    <3> QED BY <3>2, <3>3
  <2>6. g[0] = base
    BY <2>1, <2>4 DEF Recurs
  <2>7. Rec(g, k)
    BY <2>5, <2>6 DEF Recurs
  <2> HIDE DEF Rec
  <2> QED BY <2>3, <2>7
<1>3. n \in C
  <2>1. \A k \in 0 .. n : k \in C
    <3> HIDE DEF C
    <3> QED BY <1>1, <1>2, UpTo
  <2> QED BY <2>1
<1> QED BY <1>3

\* What its base and its steps are in, it is in.
LEMMA StaysIn ==
  ASSUME NEW n \in Nat, NEW f, NEW S, f[0] \in S,
         \A i \in 1 .. n : f[i - 1] \in S => f[i] \in S
  PROVE  \A i \in 0 .. n : f[i] \in S
<1> DEFINE C == {i \in 0 .. n : f[i] \in S}
<1>1. 0 \in C
  OBVIOUS
<1>2. \A i \in 1 .. n : i - 1 \in C => i \in C
  OBVIOUS
<1>3. \A i \in 0 .. n : i \in C
  <2> HIDE DEF C
  <2> QED BY <1>1, <1>2, UpTo
<1> QED BY <1>3

\* Two such functions with the same base and steps agree.
LEMMA RecursionAgrees ==
  ASSUME NEW n \in Nat, NEW f, NEW g, f[0] = g[0],
         \A i \in 1 .. n : f[i - 1] = g[i - 1] => f[i] = g[i]
  PROVE  \A i \in 0 .. n : f[i] = g[i]
<1> DEFINE C == {i \in 0 .. n : f[i] = g[i]}
<1>1. 0 \in C
  OBVIOUS
<1>2. \A i \in 1 .. n : i - 1 \in C => i \in C
  OBVIOUS
<1>3. \A i \in 0 .. n : i \in C
  <2> HIDE DEF C
  <2> QED BY <1>1, <1>2, UpTo
<1> QED BY <1>3

-----------------------------------------------------------------------------
(***************************************************************************)
(* Powers.  The function inside Power first, then its laws.                *)
(***************************************************************************)
PowerFcn(b, n) == CHOOSE power : power = [i \in 0 .. n |-> IF i = 0 THEN 1 ELSE b * power[i - 1]]

\* The recursive function of Power obeys its recursion.
LEMMA PowerFcnRec ==
  ASSUME NEW b \in Int, NEW n \in Nat
  PROVE  /\ PowerFcn(b, n) \in [0 .. n -> Int]
         /\ PowerFcn(b, n)[0] = 1
         /\ \A i \in 1 .. n : PowerFcn(b, n)[i] = b * PowerFcn(b, n)[i - 1]
<1> DEFINE step == [i \in 1 .. n |-> [s \in Int |-> b * s]]
           f == PowerFcn(b, n)
<1>1. step \in Steps(n, Int) /\ 1 \in Int
  BY DEF Steps
<1>2. PICK h \in [0 .. n -> Int] : Recurs(h, n, 1, step)
  <2> HIDE DEF step
  <2> QED BY ONLY <1>1, n \in Nat, RecursionExists
<1>3. h = [i \in 0 .. n |-> IF i = 0 THEN 1 ELSE b * h[i - 1]]
  <2>1. ASSUME NEW i \in 1 .. n
        PROVE  h[i] = b * h[i - 1]
    <3>1. h[i - 1] \in Int
      OBVIOUS
    <3>2. h[i] = step[i][h[i - 1]]
      <4> HIDE DEF step
      <4> QED BY <1>2 DEF Recurs
    <3> QED BY <3>1, <3>2
  <2>2. h[0] = 1
    BY <1>2 DEF Recurs
  <2> QED BY <2>1, <2>2
<1>4. f = [i \in 0 .. n |-> IF i = 0 THEN 1 ELSE b * f[i - 1]]
  BY <1>3 DEF PowerFcn
<1> HIDE DEF f
<1>5. f[0] = 1 /\ \A i \in 1 .. n : f[i] = b * f[i - 1]
  BY <1>4
<1>6. \A i \in 0 .. n : f[i] \in Int
  <2>1. f[0] \in Int
    BY <1>5
  <2>2. \A i \in 1 .. n : f[i - 1] \in Int => f[i] \in Int
    BY <1>5
  <2> QED BY ONLY <2>1, <2>2, n \in Nat, StaysIn
<1>7. f \in [0 .. n -> Int]
  BY <1>4, <1>6
<1> QED BY <1>5, <1>7 DEF f

\* Power is the last value of its function.
LEMMA PowerIsFcn ==
  ASSUME NEW b, NEW n
  PROVE  Power(b, n) = PowerFcn(b, n)[n]
BY DEF Power, PowerFcn

\* The power of zero.
LEMMA PowerZero == ASSUME NEW b \in Int PROVE Power(b, 0) = 1
BY PowerFcnRec, PowerIsFcn

\* Each power is the base times the one before.
LEMMA PowerNext ==
  ASSUME NEW b \in Int, NEW n \in Nat
  PROVE  Power(b, n) \in Int /\ Power(b, n + 1) = b * Power(b, n)
<1> DEFINE f == PowerFcn(b, n)
           g == PowerFcn(b, n + 1)
<1>1. /\ f \in [0 .. n -> Int] /\ f[0] = 1
      /\ \A i \in 1 .. n : f[i] = b * f[i - 1]
  BY PowerFcnRec
<1>2. /\ g[0] = 1 /\ \A i \in 1 .. n + 1 : g[i] = b * g[i - 1]
  BY PowerFcnRec
<1> HIDE DEF f, g
<1>3. \A i \in 0 .. n : f[i] = g[i]
  <2>1. \A i \in 1 .. n : f[i - 1] = g[i - 1] => f[i] = g[i]
    BY <1>1, <1>2
  <2>2. f[0] = g[0]
    BY <1>1, <1>2
  <2> QED BY ONLY <2>1, <2>2, n \in Nat, RecursionAgrees
<1>4. g[n + 1] = b * f[n] /\ f[n] \in Int
  <2>1. n + 1 \in 1 .. n + 1 /\ (n + 1) - 1 = n /\ n \in 0 .. n
    OBVIOUS
  <2>2. g[n + 1] = b * g[(n + 1) - 1]
    BY <1>2, <2>1
  <2> QED BY <1>1, <1>3, <2>1, <2>2
<1> QED BY <1>4, PowerIsFcn DEF f, g

\* Powers of a positive base are positive.
LEMMA PowerPositive ==
  ASSUME NEW b \in Nat \ {0}, NEW n \in Nat
  PROVE  Power(b, n) \in Nat \ {0}
<1> DEFINE C == {m \in Nat : Power(b, m) \in Nat \ {0}}
<1>1. 0 \in C
  BY PowerZero
<1>2. \A m \in Nat : m \in C => m + 1 \in C
  <2> TAKE m \in Nat
  <2> HAVE m \in C
  <2> DEFINE p1 == Power(b, m)
  <2>1. Power(b, m + 1) = b * p1 /\ p1 \in Nat \ {0}
    BY PowerNext
  <2> HIDE DEF p1
  <2>2. b * p1 \in Nat \ {0}
    BY <2>1
  <2> QED BY <2>1, <2>2
<1>3. \A m \in Nat : m \in C
  <2> HIDE DEF C
  <2> QED BY <1>1, <1>2, NatSetInduction
<1> QED BY <1>3

\* The first power.
LEMMA PowerOne == ASSUME NEW b \in Int PROVE Power(b, 1) = b
<1>1. Power(b, 0 + 1) = b * Power(b, 0)
  BY PowerNext
<1>2. Power(b, 0) = 1 /\ 0 + 1 = 1 /\ b * 1 = b
  BY PowerZero
<1> QED BY <1>1, <1>2

\* Associativity, for the solver's sake.
LEMMA TimesTimes ==
  ASSUME NEW a \in Int, NEW b \in Int, NEW c \in Int
  PROVE  a * (b * c) = (a * b) * c /\ a * (b * c) = b * (a * c) /\ a * b \in Int /\ b * c \in Int
OBVIOUS

\* A power of a sum is a product of powers.
LEMMA PowerPlus ==
  ASSUME NEW b \in Int, NEW m \in Nat, NEW n \in Nat
  PROVE  Power(b, m + n) = Power(b, m) * Power(b, n)
<1> DEFINE C == {k \in Nat : Power(b, m + k) = Power(b, m) * Power(b, k)}
           x == Power(b, m)
<1>0. x \in Int
  BY PowerNext
<1>1. 0 \in C
  <2>1. m + 0 = m /\ Power(b, 0) = 1 /\ x * 1 = x
    BY <1>0, PowerZero
  <2> QED BY <2>1
<1>2. \A k \in Nat : k \in C => k + 1 \in C
  <2> TAKE k \in Nat
  <2> HAVE k \in C
  <2> DEFINE y == Power(b, k)
  <2>1. Power(b, m + k) = x * y /\ y \in Int
    BY PowerNext
  <2>2. Power(b, k + 1) = b * y /\ Power(b, (m + k) + 1) = b * Power(b, m + k)
    <3>1. m + k \in Nat
      OBVIOUS
    <3> QED BY <3>1, PowerNext
  <2>3. m + (k + 1) = (m + k) + 1
    OBVIOUS
  <2> HIDE DEF x, y
  <2>4. b * (x * y) = x * (b * y)
    BY <1>0, <2>1, TimesTimes
  <2>5. Power(b, m + (k + 1)) = x * (b * y)
    BY <2>1, <2>2, <2>3, <2>4
  <2> QED BY <2>5, <2>2 DEF x
<1>3. \A k \in Nat : k \in C
  <2> HIDE DEF C
  <2> QED BY <1>1, <1>2, NatSetInduction
<1> QED BY <1>3

\* A power of a power.
LEMMA PowerPower ==
  ASSUME NEW b \in Int, NEW m \in Nat, NEW n \in Nat
  PROVE  Power(Power(b, m), n) = Power(b, m * n)
<1> DEFINE x == Power(b, m)
           C == {k \in Nat : Power(x, k) = Power(b, m * k)}
<1>0. x \in Int
  BY PowerNext
<1>1. 0 \in C
  <2>1. m * 0 = 0
    OBVIOUS
  <2> HIDE DEF x
  <2> QED BY <2>1, <1>0, PowerZero
<1>2. \A k \in Nat : k \in C => k + 1 \in C
  <2> TAKE k \in Nat
  <2> HAVE k \in C
  <2>1. m * (k + 1) = m + m * k /\ m * k \in Nat
    OBVIOUS
  <2>2. Power(b, m + m * k) = x * Power(b, m * k)
    BY <2>1, PowerPlus
  <2>3. Power(x, k + 1) = x * Power(x, k)
    <3> HIDE DEF x
    <3> QED BY <1>0, PowerNext
  <2> QED BY <2>1, <2>2, <2>3
<1>3. \A k \in Nat : k \in C
  <2> HIDE DEF C
  <2> QED BY <1>1, <1>2, NatSetInduction
<1> QED BY <1>3

\* A power of a product.
LEMMA PowerTimes ==
  ASSUME NEW a \in Int, NEW b \in Int, NEW n \in Nat
  PROVE  Power(a * b, n) = Power(a, n) * Power(b, n)
<1> DEFINE ab == a * b
           C == {k \in Nat : Power(ab, k) = Power(a, k) * Power(b, k)}
<1>0. ab \in Int
  OBVIOUS
<1>1. 0 \in C
  <2> HIDE DEF ab
  <2> QED BY <1>0, PowerZero
<1>2. \A k \in Nat : k \in C => k + 1 \in C
  <2> TAKE k \in Nat
  <2> HAVE k \in C
  <2> DEFINE x == Power(a, k)
             y == Power(b, k)
  <2>1. Power(ab, k) = x * y /\ x \in Int /\ y \in Int
    BY PowerNext
  <2>2. Power(a, k + 1) = a * x /\ Power(b, k + 1) = b * y
    BY PowerNext
  <2>3. Power(ab, k + 1) = ab * Power(ab, k)
    <3> HIDE DEF ab
    <3> QED BY <1>0, PowerNext
  <2> HIDE DEF x, y
  <2>4. (a * b) * (x * y) = (a * x) * (b * y)
    BY <2>1
  <2> QED BY <2>1, <2>2, <2>3, <2>4
<1>3. \A k \in Nat : k \in C
  <2> HIDE DEF C
  <2> QED BY <1>1, <1>2, NatSetInduction
<1> QED BY <1>3

-----------------------------------------------------------------------------
(***************************************************************************)
(* Division.                                                               *)
(***************************************************************************)
LEMMA Euclid ==
  ASSUME NEW v \in Int, NEW n \in Nat \ {0}
  PROVE  /\ v \div n \in Int /\ v % n \in 0 .. n - 1
         /\ v = n * (v \div n) + (v % n)
<1>1. v \div n \in Int /\ v % n \in 0 .. n - 1
  OBVIOUS
<1>2. v = n * (v \div n) + (v % n)
  OBVIOUS
<1> QED BY <1>1, <1>2

\* Quotient and remainder are unique.
LEMMA EuclidUnique ==
  ASSUME NEW n \in Nat \ {0}, NEW k \in Int, NEW r \in 0 .. n - 1, NEW v \in Int,
         v = n * k + r
  PROVE  v \div n = k /\ v % n = r
<1> DEFINE d == v \div n
           s == v % n
<1>1. d \in Int /\ s \in 0 .. n - 1 /\ v = n * d + s
  BY Euclid
<1> HIDE DEF d, s
<1>2. n * (k - d) = s - r
  <2>1. n * (k - d) = n * k - n * d /\ n * k \in Int /\ n * d \in Int
    BY <1>1
  <2> QED BY <1>1, <2>1
<1>3. k - d = 0
  <2>1. CASE k - d >= 1
    <3>1. n * (k - d) >= n
      BY <2>1, <1>1
    <3> QED BY <3>1, <1>1, <1>2
  <2>2. CASE k - d <= -1
    <3>1. n * (k - d) <= -n
      BY <2>2, <1>1
    <3> QED BY <3>1, <1>1, <1>2
  <2> QED BY <2>1, <2>2, <1>1
<1>4. s = r
  BY <1>1, <1>2, <1>3
<1> QED BY <1>1, <1>3, <1>4 DEF d, s

\* Integers that differ by a multiple of n have one remainder, and conversely.
LEMMA ModCongruent ==
  ASSUME NEW n \in Nat \ {0}, NEW a \in Int, NEW b \in Int, NEW k \in Int, a = b + n * k
  PROVE  a % n = b % n
<1> DEFINE j == b \div n
           s == b % n
<1>1. j \in Int /\ s \in 0 .. n - 1 /\ b = n * j + s
  BY Euclid
<1> HIDE DEF j, s
<1>2. a = n * (j + k) + s
  <2>1. n * (j + k) = n * j + n * k /\ n * j \in Int /\ n * k \in Int
    BY <1>1
  <2> QED BY <1>1, <2>1
<1>3. a % n = s
  <2>1. j + k \in Int
    BY <1>1
  <2> QED BY <1>1, <1>2, <2>1, EuclidUnique
<1> QED BY <1>3 DEF s

\* Integers with one remainder differ by a multiple of n.
LEMMA ModDifference ==
  ASSUME NEW n \in Nat \ {0}, NEW a \in Int, NEW b \in Int, a % n = b % n
  PROVE  \E k \in Int : a = b + n * k
<1> DEFINE i == a \div n
           j == b \div n
           s == b % n
<1>1. i \in Int /\ j \in Int /\ s \in 0 .. n - 1 /\ b = n * j + s /\ a = n * i + s
  BY Euclid
<1> HIDE DEF i, j, s
<1>2. a = b + n * (i - j) /\ i - j \in Int
  <2>1. n * (i - j) = n * i - n * j /\ n * i \in Int /\ n * j \in Int
    BY <1>1
  <2> QED BY <1>1, <2>1
<1> QED BY <1>1, <1>2

\* What lies below n is its own remainder.
LEMMA ModSmall ==
  ASSUME NEW n \in Nat \ {0}, NEW a \in 0 .. n - 1
  PROVE  a % n = a
OBVIOUS

\* Products of congruent factors are congruent.
LEMMA ModTimes ==
  ASSUME NEW n \in Nat \ {0}, NEW a \in Int, NEW b \in Int, NEW c \in Int, NEW d \in Int,
         a % n = c % n, b % n = d % n
  PROVE  (a * b) % n = (c * d) % n
<1>1. PICK i \in Int : a = c + n * i
  BY ModDifference
<1>2. PICK j \in Int : b = d + n * j
  BY ModDifference
<1>3. a * b = c * d + n * (i * b + c * j)
  <2>1. a * b = c * b + (n * i) * b
    BY <1>1
  <2>2. c * b = c * d + c * (n * j)
    BY <1>2
  <2>3. (n * i) * b = n * (i * b) /\ c * (n * j) = n * (c * j)
    OBVIOUS
  <2>4. n * (i * b + c * j) = n * (i * b) + n * (c * j)
    <3> DEFINE e == i * b
               f == c * j
    <3>1. e \in Int /\ f \in Int
      OBVIOUS
    <3> HIDE DEF e, f
    <3>2. n * (e + f) = n * e + n * f
      BY <3>1
    <3> QED BY <3>2 DEF e, f
  <2> QED BY <2>1, <2>2, <2>3, <2>4
<1> DEFINE ab == a * b
           cd == c * d
           k == i * b + c * j
<1>4. k \in Int /\ ab \in Int /\ cd \in Int /\ n \in Nat \ {0} /\ ab = cd + n * k
  BY <1>3
<1> HIDE DEF ab, cd, k
<1>5. ab % n = cd % n
  BY ONLY <1>4, ModCongruent
<1> QED BY <1>5 DEF ab, cd

\* A remainder lies below n and is its own remainder.
LEMMA ModOfMod ==
  ASSUME NEW n \in Nat \ {0}, NEW a \in Int
  PROVE  (a % n) % n = a % n /\ a % n \in 0 .. n - 1 /\ a % n \in Int
OBVIOUS

\* Factors may be reduced before they are multiplied.
LEMMA ModTimesMod ==
  ASSUME NEW n \in Nat \ {0}, NEW a \in Int, NEW b \in Int
  PROVE  (a * (b % n)) % n = (a * b) % n /\ ((a % n) * b) % n = (a * b) % n
<1> DEFINE r == a % n
           s == b % n
<1>1. r % n = a % n /\ s % n = b % n /\ r \in Int /\ s \in Int
  BY ModOfMod
<1> HIDE DEF r, s
<1>2. (a * s) % n = (a * b) % n
  <2>1. PICK k \in Int : s = b + n * k
    BY <1>1, ModDifference
  <2>2. a * s = a * b + n * (a * k)
    BY <2>1
  <2>3. a * s \in Int /\ a * b \in Int /\ a * k \in Int
    BY <1>1
  <2> QED BY ONLY <2>2, <2>3, n \in Nat \ {0}, ModCongruent
<1>3. (r * b) % n = (a * b) % n
  <2>1. PICK k \in Int : r = a + n * k
    BY <1>1, ModDifference
  <2>2. r * b = a * b + n * (k * b)
    BY <2>1
  <2>3. r * b \in Int /\ a * b \in Int /\ k * b \in Int
    BY <1>1
  <2> QED BY ONLY <2>2, <2>3, n \in Nat \ {0}, ModCongruent
<1> QED BY <1>2, <1>3 DEF r, s

\* Dividing twice.
LEMMA DivDiv ==
  ASSUME NEW v \in Nat, NEW a \in Nat \ {0}, NEW b \in Nat \ {0}
  PROVE  /\ (v \div a) \div b = v \div (a * b)
         /\ v % (a * b) = (v % a) + a * ((v \div a) % b)
<1> DEFINE x == v \div a
           r == v % a
           y == x \div b
           s == x % b
<1>1. x \in Int /\ r \in 0 .. a - 1 /\ v = a * x + r
  BY Euclid
<1>2. y \in Int /\ s \in 0 .. b - 1 /\ x = b * y + s
  <2> HIDE DEF x
  <2> QED BY <1>1, Euclid
<1> HIDE DEF x, r, y, s
<1>3. a * x = (a * b) * y + a * s
  BY <1>1, <1>2
<1>4. a * s + r \in 0 .. a * b - 1 /\ a * b \in Nat \ {0}
  <2>1. a * s <= a * (b - 1) /\ a * s >= 0
    BY <1>2
  <2>2. a * (b - 1) = a * b - a
    OBVIOUS
  <2> DEFINE ab == a * b
             as == a * s
  <2>3. ab \in Nat \ {0} /\ as \in Int
    BY <1>2
  <2> HIDE DEF ab, as
  <2>4. as + r \in 0 .. ab - 1
    BY <1>1, <2>1, <2>2, <2>3 DEF ab, as
  <2> QED BY <2>3, <2>4 DEF ab, as
<1>5. v = (a * b) * y + (a * s + r)
  <2>1. (a * b) * y \in Int /\ a * s \in Int
    BY <1>2
  <2> QED BY <1>1, <1>3, <2>1
<1>6. v \div (a * b) = y /\ v % (a * b) = a * s + r
  <2> DEFINE ab == a * b
             t == a * s + r
  <2>1. v = ab * y + t /\ t \in 0 .. ab - 1 /\ ab \in Nat \ {0}
    BY <1>4, <1>5
  <2> HIDE DEF ab, t
  <2>2. v \div ab = y /\ v % ab = t
    BY <2>1, <1>2, EuclidUnique
  <2> QED BY <2>2 DEF ab, t
<1>7. a * s + r = r + a * s
  BY <1>1, <1>2
<1> QED BY <1>6, <1>7 DEF x, r, y, s

-----------------------------------------------------------------------------
(***************************************************************************)
(* Numbers given by digits, lowest first; the digits may be any integers.  *)
(***************************************************************************)
Integers0(d, n) == \A i \in 1 .. n : d[i] \in Int
Digits(b, d, n) == \A i \in 1 .. n : d[i] \in 0 .. b - 1

NumberFcn(b, d, n) ==
  CHOOSE number : number = [i \in 0 .. n |->
    IF i = 0 THEN 0 ELSE number[i - 1] + d[i] * Power(b, i - 1)]

\* The recursive function of Number obeys its recursion.
LEMMA NumberFcnRec ==
  ASSUME NEW b \in Int, NEW n \in Nat, NEW d, Integers0(d, n)
  PROVE  /\ NumberFcn(b, d, n)[0] = 0
         /\ \A i \in 1 .. n :
              NumberFcn(b, d, n)[i] = NumberFcn(b, d, n)[i - 1] + d[i] * Power(b, i - 1)
         /\ \A i \in 0 .. n : NumberFcn(b, d, n)[i] \in Int
<1> DEFINE step == [i \in 1 .. n |-> [s \in Int |-> s + d[i] * Power(b, i - 1)]]
           f == NumberFcn(b, d, n)
<1>0. \A i \in 1 .. n : d[i] * Power(b, i - 1) \in Int
  <2> TAKE i \in 1 .. n
  <2> DEFINE x == Power(b, i - 1)
             y == d[i]
  <2>1. x \in Int /\ y \in Int
    BY PowerNext DEF Integers0
  <2> HIDE DEF x, y
  <2>2. y * x \in Int
    BY <2>1
  <2> QED BY <2>2 DEF x, y
<1>1. step \in Steps(n, Int) /\ 0 \in Int
  BY <1>0 DEF Steps
<1>2. PICK h \in [0 .. n -> Int] : Recurs(h, n, 0, step)
  <2> HIDE DEF step
  <2> QED BY ONLY <1>1, n \in Nat, RecursionExists
<1>3. h = [i \in 0 .. n |-> IF i = 0 THEN 0 ELSE h[i - 1] + d[i] * Power(b, i - 1)]
  <2>1. ASSUME NEW i \in 1 .. n
        PROVE  h[i] = h[i - 1] + d[i] * Power(b, i - 1)
    <3>1. h[i - 1] \in Int
      OBVIOUS
    <3>2. h[i] = step[i][h[i - 1]]
      <4> HIDE DEF step
      <4> QED BY <1>2 DEF Recurs
    <3> QED BY <3>1, <3>2
  <2>2. h[0] = 0
    BY <1>2 DEF Recurs
  <2> QED BY <2>1, <2>2
<1>4. f = [i \in 0 .. n |-> IF i = 0 THEN 0 ELSE f[i - 1] + d[i] * Power(b, i - 1)]
  BY <1>3 DEF NumberFcn
<1> HIDE DEF f
<1>5. f[0] = 0 /\ \A i \in 1 .. n : f[i] = f[i - 1] + d[i] * Power(b, i - 1)
  BY <1>4
<1>6. \A i \in 0 .. n : f[i] \in Int
  <2>1. f[0] \in Int
    BY <1>5
  <2>2. \A i \in 1 .. n : f[i - 1] \in Int => f[i] \in Int
    BY <1>0, <1>5
  <2> QED BY ONLY <2>1, <2>2, n \in Nat, StaysIn
<1> QED BY <1>5, <1>6 DEF f

\* Number is the last value of its function.
LEMMA NumberIsFcn ==
  ASSUME NEW b, NEW d, NEW n
  PROVE  Number(b, d, n) = NumberFcn(b, d, n)[n]
BY DEF Number, NumberFcn

\* The empty number, one digit more, and its type.
LEMMA NumberZero ==
  ASSUME NEW b \in Int, NEW d
  PROVE  Number(b, d, 0) = 0
BY NumberFcnRec, NumberIsFcn DEF Integers0

\* One more digit adds the digit times its power of the base.
LEMMA NumberNext ==
  ASSUME NEW b \in Int, NEW n \in Nat, NEW d, Integers0(d, n + 1)
  PROVE  Number(b, d, n + 1) = Number(b, d, n) + d[n + 1] * Power(b, n)
<1> DEFINE f == NumberFcn(b, d, n)
           g == NumberFcn(b, d, n + 1)
<1>0. Integers0(d, n) /\ n + 1 \in Nat
  BY DEF Integers0
<1>1. /\ f[0] = 0
      /\ \A i \in 1 .. n : f[i] = f[i - 1] + d[i] * Power(b, i - 1)
  BY <1>0, NumberFcnRec
<1>2. /\ g[0] = 0
      /\ \A i \in 1 .. n + 1 : g[i] = g[i - 1] + d[i] * Power(b, i - 1)
  BY <1>0, NumberFcnRec
<1> HIDE DEF f, g
<1>3. \A i \in 0 .. n : f[i] = g[i]
  <2>1. \A i \in 1 .. n : f[i - 1] = g[i - 1] => f[i] = g[i]
    BY <1>1, <1>2
  <2>2. f[0] = g[0]
    BY <1>1, <1>2
  <2> QED BY ONLY <2>1, <2>2, n \in Nat, RecursionAgrees
<1>4. g[n + 1] = f[n] + d[n + 1] * Power(b, n)
  <2>1. n + 1 \in 1 .. n + 1 /\ (n + 1) - 1 = n /\ n \in 0 .. n
    OBVIOUS
  <2>2. g[n + 1] = g[(n + 1) - 1] + d[n + 1] * Power(b, (n + 1) - 1)
    BY ONLY <1>2, <2>1
  <2> QED BY <1>3, <2>1, <2>2
<1> QED BY <1>4, NumberIsFcn DEF f, g

\* Number is an integer.
LEMMA NumberInt ==
  ASSUME NEW b \in Int, NEW n \in Nat, NEW d, Integers0(d, n)
  PROVE  Number(b, d, n) \in Int
<1>1. n \in 0 .. n
  OBVIOUS
<1> QED BY <1>1, NumberFcnRec, NumberIsFcn

\* The first digits are digits.
LEMMA FewerDigits ==
  ASSUME NEW n \in Nat, NEW m \in 0 .. n, NEW d
  PROVE  /\ Integers0(d, n) => Integers0(d, m)
         /\ \A b : Digits(b, d, n) => Digits(b, d, m)
BY DEF Integers0, Digits

\* Only the first n digits matter.
LEMMA NumberSame ==
  ASSUME NEW b \in Int, NEW n \in Nat, NEW d, NEW e, Integers0(d, n), \A i \in 1 .. n : d[i] = e[i]
  PROVE  Number(b, d, n) = Number(b, e, n)
<1> DEFINE C == {i \in 0 .. n : Number(b, d, i) = Number(b, e, i)}
<1>1. 0 \in C
  BY NumberZero
<1>2. ASSUME NEW i \in 1 .. n, i - 1 \in C
      PROVE  i \in C
  <2>1. Integers0(d, (i - 1) + 1) /\ Integers0(e, (i - 1) + 1) /\ i - 1 \in Nat
    BY DEF Integers0
  <2>2. /\ Number(b, d, (i - 1) + 1) = Number(b, d, i - 1) + d[(i - 1) + 1] * Power(b, i - 1)
        /\ Number(b, e, (i - 1) + 1) = Number(b, e, i - 1) + e[(i - 1) + 1] * Power(b, i - 1)
    BY <2>1, NumberNext
  <2>3. (i - 1) + 1 = i
    OBVIOUS
  <2> QED BY <1>2, <2>2, <2>3
<1>3. \A i \in 0 .. n : i \in C
  <2> HIDE DEF C
  <2> QED BY <1>1, <1>2, UpTo
<1> QED BY <1>3

\* The recursion as seen from the last digit.
LEMMA NumberLast ==
  ASSUME NEW b \in Int, NEW i \in Nat \ {0}, NEW d, Integers0(d, i)
  PROVE  /\ Number(b, d, i) = Number(b, d, i - 1) + d[i] * Power(b, i - 1)
         /\ Number(b, d, i - 1) \in Int /\ d[i] \in Int /\ Power(b, i - 1) \in Int
<1> DEFINE m == i - 1
<1>1. m \in Nat /\ m + 1 = i
  OBVIOUS
<1>2. Integers0(d, m)
  BY DEF Integers0
<1>3. d[i] \in Int
  BY DEF Integers0
<1> HIDE DEF m
<1>4. Number(b, d, m + 1) = Number(b, d, m) + d[m + 1] * Power(b, m)
  BY <1>1, NumberNext
<1>5. Number(b, d, m) \in Int /\ Power(b, m) \in Int
  BY <1>1, <1>2, NumberInt, PowerNext
<1> QED BY <1>1, <1>3, <1>4, <1>5 DEF m

\* The digits above position m, as a number of their own.
LEMMA NumberSplit ==
  ASSUME NEW b \in Int, NEW m \in Nat, NEW n \in Nat, NEW d, NEW e,
         Integers0(d, m + n), \A i \in 1 .. n : e[i] = d[m + i]
  PROVE  Number(b, d, m + n) = Number(b, d, m) + Power(b, m) * Number(b, e, n)
<1> DEFINE p1 == Power(b, m)
           C == {i \in 0 .. n : Number(b, d, m + i) = Number(b, d, m) + p1 * Number(b, e, i)}
<1>0. p1 \in Int /\ Number(b, d, m) \in Int /\ Integers0(e, n)
  <2>1. Integers0(d, m)
    BY DEF Integers0
  <2>2. ASSUME NEW i \in 1 .. n PROVE e[i] \in Int
    BY DEF Integers0
  <2> QED BY <2>1, <2>2, PowerNext, NumberInt DEF Integers0
<1>1. 0 \in C
  <2>1. m + 0 = m /\ Number(b, e, 0) = 0
    BY NumberZero
  <2> HIDE DEF p1
  <2> QED BY <1>0, <2>1
<1>2. ASSUME NEW i \in 1 .. n, i - 1 \in C
      PROVE  i \in C
  <2> DEFINE x == Number(b, e, i - 1)
             y == Power(b, i - 1)
             z == e[i]
             w == Number(b, d, m)
  <2>1. Integers0(d, m + i) /\ Integers0(e, i) /\ m + i \in Nat \ {0} /\ i \in Nat \ {0}
    BY <1>0 DEF Integers0
  <2>2. Number(b, d, m + i) = Number(b, d, (m + i) - 1) + d[m + i] * Power(b, (m + i) - 1)
    BY <2>1, NumberLast
  <2>3. Number(b, e, i) = x + z * y /\ x \in Int /\ y \in Int /\ z \in Int
    BY <2>1, NumberLast
  <2>4. (m + i) - 1 = m + (i - 1) /\ d[m + i] = z /\ i - 1 \in Nat
    OBVIOUS
  <2>5. Power(b, m + (i - 1)) = p1 * y
    BY <2>4, PowerPlus
  <2>6. Number(b, d, m + (i - 1)) = w + p1 * x
    BY <1>2
  <2> HIDE DEF x, y, z, w, p1
  <2>7. w \in Int
    BY <1>0 DEF w
  <2>8. (w + p1 * x) + z * (p1 * y) = w + p1 * (x + z * y)
    <3>1. z * (p1 * y) = p1 * (z * y) /\ z * y \in Int
      BY <1>0, <2>3, TimesTimes
    <3>2. p1 * (x + z * y) = p1 * x + p1 * (z * y)
      BY <1>0, <2>3, <3>1
    <3>3. p1 * x \in Int /\ p1 * (z * y) \in Int
      BY <1>0, <2>3, <3>1
    <3> QED BY <2>7, <3>1, <3>2, <3>3
  <2>9. Number(b, d, m + i) = w + p1 * Number(b, e, i)
    BY <2>2, <2>3, <2>4, <2>5, <2>6, <2>8
  <2> QED BY <2>9 DEF w
<1>3. \A i \in 0 .. n : i \in C
  <2> HIDE DEF C
  <2> QED BY <1>1, <1>2, UpTo
<1> QED BY <1>3

\* n digits make a number below b^n.
LEMMA NumberBounds ==
  ASSUME NEW b \in Nat \ {0}, NEW n \in Nat, NEW d, Digits(b, d, n)
  PROVE  Number(b, d, n) \in 0 .. Power(b, n) - 1
<1> DEFINE C == {i \in 0 .. n : Number(b, d, i) \in 0 .. Power(b, i) - 1}
<1>0. Integers0(d, n)
  BY DEF Digits, Integers0
<1>1. 0 \in C
  BY NumberZero, PowerZero
<1>2. ASSUME NEW i \in 1 .. n, i - 1 \in C
      PROVE  i \in C
  <2> DEFINE x == Number(b, d, i - 1)
             y == Power(b, i - 1)
             z == d[i]
  <2>1. Integers0(d, i) /\ i \in Nat \ {0} /\ i - 1 \in Nat
    BY <1>0 DEF Integers0
  <2>2. Number(b, d, i) = x + z * y
    BY <2>1, NumberLast
  <2>3. Power(b, i) = b * y /\ y \in Nat \ {0}
    <3>1. Power(b, (i - 1) + 1) = b * y /\ (i - 1) + 1 = i
      BY <2>1, PowerNext
    <3>2. y \in Nat \ {0}
      BY <2>1, PowerPositive
    <3> QED BY <3>1, <3>2
  <2>4. z \in 0 .. b - 1 /\ x \in 0 .. y - 1
    BY <1>2 DEF Digits
  <2> HIDE DEF x, y, z
  <2>5. z * y <= (b - 1) * y /\ z * y >= 0 /\ (b - 1) * y = b * y - y
    BY <2>3, <2>4
  <2> DEFINE zy == z * y
             by == b * y
  <2>6. zy \in Int /\ by \in Int
    BY <2>3, <2>4
  <2> HIDE DEF zy, by
  <2>7. x + zy \in 0 .. by - 1
    BY <2>3, <2>4, <2>5, <2>6 DEF zy, by
  <2> QED BY <2>2, <2>3, <2>7 DEF zy, by
<1>3. \A i \in 0 .. n : i \in C
  <2> HIDE DEF C
  <2> QED BY <1>1, <1>2, UpTo
<1> QED BY <1>3

\* A number of n digits determines them.
LEMMA NumberUnique ==
  ASSUME NEW b \in Nat \ {0}, NEW n \in Nat, NEW d, NEW e, Digits(b, d, n), Digits(b, e, n),
         Number(b, d, n) = Number(b, e, n)
  PROVE  \A i \in 1 .. n : d[i] = e[i]
<1> DEFINE Same(i) == Number(b, d, i) = Number(b, e, i)
           C == {j \in 0 .. n : Same(n - j) /\ \A i \in n - j + 1 .. n : d[i] = e[i]}
<1>1. 0 \in C
  <2>1. n - 0 = n /\ n - 0 + 1 .. n = {}
    OBVIOUS
  <2> QED BY <2>1
<1>2. ASSUME NEW j \in 1 .. n, j - 1 \in C
      PROVE  j \in C
  <2> DEFINE i == n - j + 1
             y == Power(b, i - 1)
             x1 == Number(b, d, i - 1)
             x2 == Number(b, e, i - 1)
  <2>1. i \in 1 .. n /\ n - (j - 1) = i /\ n - j = i - 1 /\ i \in Nat \ {0} /\ i - 1 \in Nat
    OBVIOUS
  <2>2. Same(i) /\ \A k \in i + 1 .. n : d[k] = e[k]
    BY <1>2, <2>1
  <2> HIDE DEF i
  <2>3. Integers0(d, i) /\ Integers0(e, i) /\ Digits(b, d, i - 1) /\ Digits(b, e, i - 1)
    BY <2>1 DEF Integers0, Digits
  <2>4. Number(b, d, i) = x1 + d[i] * y /\ Number(b, e, i) = x2 + e[i] * y
    BY <2>1, <2>3, NumberLast
  <2>5. y \in Nat \ {0} /\ x1 \in 0 .. y - 1 /\ x2 \in 0 .. y - 1
    BY <2>1, <2>3, PowerPositive, NumberBounds
  <2>6. d[i] \in Int /\ e[i] \in Int
    BY <2>1 DEF Digits
  <2> HIDE DEF x1, x2, y
  <2>7. d[i] = e[i] /\ x1 = x2
    <3> DEFINE u == d[i]
               v == e[i]
    <3>1. u \in Int /\ v \in Int /\ x1 + u * y = x2 + v * y
      BY <2>2, <2>4, <2>6
    <3> HIDE DEF u, v
    <3>2. y * u + x1 = y * v + x2
      BY <3>1, <2>5
    <3>3. y * u \in Int /\ y * v \in Int
      BY <3>1, <2>5
    <3> DEFINE t == y * u + x1
    <3>4. t \in Int /\ t = y * u + x1 /\ t = y * v + x2
      BY <3>2, <3>3, <2>5
    <3> HIDE DEF t
    <3>5. t \div y = u /\ t % y = x1
      BY <3>1, <3>4, <2>5, EuclidUnique
    <3>6. t \div y = v /\ t % y = x2
      BY <3>1, <3>4, <2>5, EuclidUnique
    <3> QED BY <3>5, <3>6 DEF u, v
  <2>8. Same(i - 1)
    BY <2>7 DEF x1, x2
  <2>9. \A k \in i .. n : d[k] = e[k]
    BY <2>1, <2>2, <2>7
  <2>10. n - j + 1 = i /\ Same(n - j)
    BY <2>1, <2>8
  <2> QED BY <2>9, <2>10
<1>3. \A j \in 0 .. n : j \in C
  <2> HIDE DEF C
  <2> QED BY <1>1, <1>2, UpTo
<1>4. n \in C /\ n - n + 1 = 1
  BY <1>3
<1> QED BY <1>4

\* The digits of v.
LEMMA NumberDigits ==
  ASSUME NEW b \in Nat \ {0}, NEW n \in Nat, NEW v \in Nat, NEW d,
         \A i \in 1 .. n : d[i] = (v \div Power(b, i - 1)) % b
  PROVE  Number(b, d, n) = v % Power(b, n) /\ Digits(b, d, n)
<1> DEFINE C == {i \in 0 .. n : Number(b, d, i) = v % Power(b, i)}
<1>0. Integers0(d, n) /\ Digits(b, d, n)
  <2>1. ASSUME NEW i \in 1 .. n
        PROVE  d[i] \in 0 .. b - 1
    <3> DEFINE y == Power(b, i - 1)
    <3>1. y \in Nat \ {0}
      BY PowerPositive
    <3> HIDE DEF y
    <3>2. v \div y \in Int
      BY <3>1
    <3> DEFINE z == v \div y
    <3>3. z % b \in 0 .. b - 1
      BY <3>2
    <3> QED BY <3>3 DEF y
  <2> QED BY <2>1 DEF Integers0, Digits
<1>1. 0 \in C
  <2>1. v % 1 = 0
    OBVIOUS
  <2> QED BY <2>1, NumberZero, PowerZero
<1>2. ASSUME NEW i \in 1 .. n, i - 1 \in C
      PROVE  i \in C
  <2> DEFINE y == Power(b, i - 1)
  <2>1. Integers0(d, i) /\ i \in Nat \ {0} /\ i - 1 \in Nat
    BY <1>0 DEF Integers0
  <2>2. Number(b, d, i) = (v % y) + d[i] * y /\ d[i] \in Int
    BY <1>2, <2>1, NumberLast
  <2>3. y \in Nat \ {0}
    BY <2>1, PowerPositive
  <2>4. Power(b, i) = b * y
    <3>1. Power(b, (i - 1) + 1) = b * y /\ (i - 1) + 1 = i
      BY <2>1, PowerNext
    <3> QED BY <3>1
  <2>5. d[i] = (v \div y) % b
    OBVIOUS
  <2> HIDE DEF y
  <2>6. v % (y * b) = (v % y) + y * ((v \div y) % b)
    BY <2>3, DivDiv
  <2>7. b * y = y * b /\ d[i] * y = y * d[i]
    BY <2>2, <2>3
  <2> QED BY <2>2, <2>4, <2>5, <2>6, <2>7
<1>3. \A i \in 0 .. n : i \in C
  <2> HIDE DEF C
  <2> QED BY <1>1, <1>2, UpTo
<1> QED BY <1>0, <1>3

\* The recursion from the lowest digit.
LEMMA NumberFirst ==
  ASSUME NEW b \in Int, NEW n \in Nat, NEW d, NEW e,
         Integers0(d, n + 1), \A i \in 1 .. n : e[i] = d[i + 1]
  PROVE  Number(b, d, n + 1) = d[1] + b * Number(b, e, n)
<1>1. Integers0(d, 1 + n) /\ 1 + n = n + 1 /\ \A i \in 1 .. n : e[i] = d[1 + i]
  <2>1. \A i \in 1 .. n : i + 1 = 1 + i
    OBVIOUS
  <2> QED BY <2>1
<1>2. Number(b, d, 1 + n) = Number(b, d, 1) + Power(b, 1) * Number(b, e, n)
  BY <1>1, NumberSplit
<1>3. Number(b, d, 1) = d[1]
  <2>1. Integers0(d, 1)
    BY DEF Integers0
  <2>2. Number(b, d, 1) = Number(b, d, 1 - 1) + d[1] * Power(b, 1 - 1) /\ d[1] \in Int
    BY <2>1, NumberLast
  <2>3. Number(b, d, 1 - 1) = 0 /\ Power(b, 1 - 1) = 1
    BY NumberZero, PowerZero
  <2> QED BY <2>2, <2>3
<1> QED BY <1>1, <1>2, <1>3, PowerOne

-----------------------------------------------------------------------------
(***************************************************************************)
(* Arrays of n words.                                                      *)
(***************************************************************************)
Array(n) == [1 .. n -> Word]

\* A word has at least two values.
LEMMA WType == W \in Nat /\ W >= 2 /\ W \in Int /\ W \in Nat \ {0}
<1>1. WordBits \in Nat \ {0} /\ WordBits - 1 \in Nat /\ (WordBits - 1) + 1 = WordBits
  BY BignumAssumption
<1>2. Power(2, (WordBits - 1) + 1) = 2 * Power(2, WordBits - 1)
  BY <1>1, PowerNext
<1>3. Power(2, WordBits - 1) \in Nat \ {0}
  BY <1>1, PowerPositive
<1> DEFINE x == Power(2, WordBits - 1)
<1>4. W = 2 * x
  BY <1>1, <1>2 DEF W
<1> HIDE DEF x
<1> QED BY <1>3, <1>4 DEF x

\* An array is a sequence.
LEMMA ArraySeq ==
  ASSUME NEW n \in Nat, NEW a \in Array(n)
  PROVE  /\ a \in Seq(Word) /\ Len(a) = n /\ DOMAIN a = 1 .. n
         /\ \A i \in 1 .. n : a[i] \in Word /\ a[i] \in Int
<1> DEFINE T == Word
<1>1. a \in [1 .. n -> T]
  BY DEF Array
<1>2. \A w \in T : w \in Int
  BY WType DEF Word
<1> HIDE DEF T
<1>3. a \in Seq(T) /\ Len(a) = n /\ DOMAIN a = 1 .. n
  BY <1>1
<1> QED BY <1>1, <1>2, <1>3 DEF T

\* A sequence of words is an array of its length.
LEMMA SeqArray ==
  ASSUME NEW a \in Seq(Word)
  PROVE  a \in Array(Len(a)) /\ Len(a) \in Nat
<1> DEFINE T == Word
<1> HIDE DEF T
<1>1. a \in Seq(T) => a \in [1 .. Len(a) -> T] /\ Len(a) \in Nat
  OBVIOUS
<1> QED BY <1>1 DEF T, Array

\* The words of an array are digits to the base W.
LEMMA ArrayDigits ==
  ASSUME NEW n \in Nat, NEW a \in Array(n)
  PROVE  Integers0(a, n) /\ Digits(W, a, n) /\ Value(a) = Number(W, a, n)
<1>1. Len(a) = n /\ \A i \in 1 .. n : a[i] \in Word /\ a[i] \in Int
  BY ArraySeq
<1> QED BY <1>1 DEF Integers0, Digits, Word, Value

\* An array of n words is worth less than W to the n.
LEMMA ValueBounds ==
  ASSUME NEW n \in Nat, NEW a \in Array(n)
  PROVE  Value(a) \in 0 .. Power(W, n) - 1 /\ Value(a) \in Nat
<1>1. Power(W, n) \in Nat \ {0}
  BY WType, PowerPositive
<1>2. Value(a) \in 0 .. Power(W, n) - 1
  BY WType, ArrayDigits, NumberBounds
<1> QED BY <1>1, <1>2

\* Arrays of one length that are worth the same are the same.
LEMMA ValueUnique ==
  ASSUME NEW n \in Nat, NEW a \in Array(n), NEW c \in Array(n), Value(a) = Value(c)
  PROVE  a = c
<1>1. Digits(W, a, n) /\ Digits(W, c, n) /\ Number(W, a, n) = Number(W, c, n)
  BY ArrayDigits
<1>2. \A i \in 1 .. n : a[i] = c[i]
  BY <1>1, WType, NumberUnique
<1> QED BY <1>2 DEF Array

\* The n words of v are worth v modulo W to the n.
LEMMA WordsValue ==
  ASSUME NEW n \in Nat, NEW v \in Nat
  PROVE  Words(v, n) \in Array(n) /\ Value(Words(v, n)) = v % Power(W, n)
<1> DEFINE d == Words(v, n)
<1>1. \A i \in 1 .. n : d[i] = (v \div Power(W, i - 1)) % W
  BY DEF Words
<1>2. d = [i \in 1 .. n |-> d[i]]
  BY DEF Words
<1> HIDE DEF d
<1>3. Number(W, d, n) = v % Power(W, n) /\ Digits(W, d, n)
  BY <1>1, WType, NumberDigits
<1>4. d \in Array(n)
  BY <1>2, <1>3 DEF Digits, Array, Word
<1> QED BY <1>3, <1>4, ArrayDigits DEF d

\* Zeros are worth zero.
LEMMA ZerosValue ==
  ASSUME NEW n \in Nat
  PROVE  Zeros(n) \in Array(n) /\ Value(Zeros(n)) = 0
<1>1. Zeros(n) \in Array(n)
  BY WType DEF Zeros, Array, Word
<1>2. Power(W, n) \in Nat \ {0} /\ \A i \in 1 .. n : Power(W, i - 1) \in Nat \ {0}
  BY WType, PowerPositive
<1>3. 0 % W = 0 /\ \A x \in Nat \ {0} : 0 % x = 0 /\ 0 \div x = 0
  BY WType
<1>4. Words(0, n) = Zeros(n)
  BY <1>2, <1>3 DEF Words, Zeros
<1> QED BY <1>1, <1>2, <1>3, <1>4, WordsValue

\* The same, of n digits in all.
LEMMA NumberParts ==
  ASSUME NEW b \in Int, NEW j \in Nat, NEW m \in Nat, NEW n \in Nat, n = j + m, NEW d, NEW e,
         Integers0(d, n), \A i \in 1 .. m : e[i] = d[j + i]
  PROVE  Number(b, d, n) = Number(b, d, j) + Power(b, j) * Number(b, e, m)
<1>1. Integers0(d, j + m)
  OBVIOUS
<1>2. Number(b, d, j + m) = Number(b, d, j) + Power(b, j) * Number(b, e, m)
  BY ONLY <1>1, b \in Int, j \in Nat, m \in Nat, \A i \in 1 .. m : e[i] = d[j + i], NumberSplit
<1> QED BY <1>2

\* The m digits of d behind the first j.
Part(e, d, j, m) == \A i \in 1 .. m : e[i] = d[j + i]

Parts(b, d, n, j, e, m, t, r) ==
  Number(b, d, n) = Number(b, d, j) + Power(b, j) * (Number(b, e, m) + Power(b, m) * Number(b, t, r))

\* The digits below j, from there to l = j + m, and above.
LEMMA NumberThree ==
  ASSUME NEW b \in Int, NEW j \in Nat, NEW m \in Nat, NEW l \in Nat, NEW r \in Nat, NEW n \in Nat,
         l = j + m, n = l + r, NEW d, NEW e, NEW t, Integers0(d, n),
         Part(e, d, j, m), Part(t, d, l, r)
  PROVE  Parts(b, d, n, j, e, m, t, r)
<1>0. (\A i \in 1 .. m : e[i] = d[j + i]) /\ \A i \in 1 .. r : t[i] = d[j + m + i]
  BY DEF Part
<1> DEFINE k == m + r
           f == [i \in 1 .. k |-> d[j + i]]
<1>1. k \in Nat /\ n = j + k /\ k = m + r
  OBVIOUS
<1>2. \A i \in 1 .. k : f[i] = d[j + i] /\ f[i] \in Int
  BY DEF Integers0
<1>3. \A i \in 1 .. r : t[i] = f[m + i]
  <2> TAKE i \in 1 .. r
  <2>1. m + i \in 1 .. k /\ j + (m + i) = j + m + i
    OBVIOUS
  <2> HIDE DEF f
  <2> QED BY <1>0, <1>2, <2>1
<1>4. \A i \in 1 .. m : f[i] = e[i]
  <2> TAKE i \in 1 .. m
  <2>1. i \in 1 .. k
    OBVIOUS
  <2> HIDE DEF f
  <2> QED BY <1>0, <1>2, <2>1
<1> HIDE DEF f, k
<1>5. Integers0(f, k) /\ Integers0(f, m)
  BY <1>1, <1>2 DEF Integers0
<1>6. Number(b, d, n) = Number(b, d, j) + Power(b, j) * Number(b, f, k)
  <2>1. \A i \in 1 .. k : f[i] = d[j + i]
    BY <1>2
  <2> QED BY ONLY <1>1, <2>1, Integers0(d, n), b \in Int, j \in Nat, n \in Nat, NumberParts
<1>7. Number(b, f, k) = Number(b, f, m) + Power(b, m) * Number(b, t, r)
  BY ONLY <1>1, <1>3, <1>5, b \in Int, m \in Nat, r \in Nat, NumberParts
<1>8. Number(b, f, m) = Number(b, e, m)
  BY <1>4, <1>5, NumberSame
<1> QED BY <1>6, <1>7, <1>8 DEF Parts

-----------------------------------------------------------------------------
(***************************************************************************)
(* Parts of arrays.                                                        *)
(***************************************************************************)
\* m words from position k on.
LEMMA SliceArray ==
  ASSUME NEW n \in Nat, NEW a \in Array(n), NEW k \in Nat \ {0}, NEW m \in Nat, k + m - 1 <= n
  PROVE  /\ SubSeq(a, k, k + m - 1) \in Array(m)
         /\ \A i \in 1 .. m : SubSeq(a, k, k + m - 1)[i] = a[k - 1 + i]
<1> DEFINE T == Word
<1>1. a \in Seq(T) /\ Len(a) = n /\ \A i \in 1 .. n : a[i] \in T
  BY ArraySeq
<1> HIDE DEF T
<1> DEFINE c == SubSeq(a, k, k + m - 1)
<1>2. c \in Seq(T) /\ Len(c) = m
  BY <1>1
<1>3. ASSUME NEW i \in 1 .. m
      PROVE  c[i] = a[k - 1 + i]
  <2>1. c[i] = a[k + i - 1] /\ k + i - 1 = k - 1 + i
    BY <1>1
  <2> QED BY <2>1
<1> HIDE DEF c
<1>4. c \in Array(m)
  BY <1>2, SeqArray DEF T
<1> QED BY <1>3, <1>4 DEF c

\* The value of an array is that of its first words and of the others.
LEMMA SplitValue ==
  ASSUME NEW m \in Nat, NEW n \in Nat, NEW a \in Array(m + n)
  PROVE  /\ SubSeq(a, 1, m) \in Array(m) /\ SubSeq(a, m + 1, m + n) \in Array(n)
         /\ Value(a) = Value(SubSeq(a, 1, m)) + Power(W, m) * Value(SubSeq(a, m + 1, m + n))
<1> DEFINE lo == SubSeq(a, 1, m)
           hi == SubSeq(a, m + 1, m + n)
<1>1. lo \in Array(m) /\ \A i \in 1 .. m : lo[i] = a[i]
  <2>1. 1 + m - 1 = m /\ 1 + m - 1 <= m + n /\ m + n \in Nat /\ \A i \in 1 .. m : 1 - 1 + i = i
    OBVIOUS
  <2>2. SubSeq(a, 1, 1 + m - 1) \in Array(m) /\ \A i \in 1 .. m : SubSeq(a, 1, 1 + m - 1)[i] = a[1 - 1 + i]
    BY ONLY <2>1, a \in Array(m + n), m \in Nat, 1 \in Nat \ {0}, SliceArray
  <2> QED BY <2>1, <2>2
<1>2. hi \in Array(n) /\ \A i \in 1 .. n : hi[i] = a[m + i]
  <2>1. /\ m + 1 + n - 1 = m + n /\ m + 1 + n - 1 <= m + n /\ m + n \in Nat
        /\ m + 1 \in Nat \ {0} /\ \A i \in 1 .. n : m + 1 - 1 + i = m + i
    OBVIOUS
  <2>2. /\ SubSeq(a, m + 1, m + 1 + n - 1) \in Array(n)
        /\ \A i \in 1 .. n : SubSeq(a, m + 1, m + 1 + n - 1)[i] = a[m + 1 - 1 + i]
    BY ONLY <2>1, a \in Array(m + n), n \in Nat, SliceArray
  <2> QED BY <2>1, <2>2
<1> HIDE DEF lo, hi
<1>3. Integers0(a, m + n) /\ Value(a) = Number(W, a, m + n)
  BY ArrayDigits
<1>4. Number(W, a, m + n) = Number(W, a, m) + Power(W, m) * Number(W, hi, n)
  <2>1. W \in Int
    BY WType
  <2> QED BY ONLY <1>2, <1>3, <2>1, m \in Nat, n \in Nat, NumberSplit
<1>5. Number(W, lo, m) = Number(W, a, m)
  BY <1>1, WType, ArrayDigits, NumberSame
<1>6. Value(lo) = Number(W, lo, m) /\ Value(hi) = Number(W, hi, n)
  BY <1>1, <1>2, ArrayDigits
<1> QED BY <1>1, <1>2, <1>3, <1>4, <1>5, <1>6 DEF lo, hi

\* Arrays one after the other.
LEMMA ConcatValue ==
  ASSUME NEW m \in Nat, NEW n \in Nat, NEW a \in Array(m), NEW c \in Array(n)
  PROVE  /\ a \o c \in Array(m + n)
         /\ SubSeq(a \o c, 1, m) = a /\ SubSeq(a \o c, m + 1, m + n) = c
         /\ Value(a \o c) = Value(a) + Power(W, m) * Value(c)
<1> DEFINE T == Word
           ac == a \o c
<1>1. a \in Seq(T) /\ Len(a) = m /\ c \in Seq(T) /\ Len(c) = n
  BY ArraySeq
<1> HIDE DEF T
<1>2. ac \in Seq(T) /\ Len(ac) = m + n
      /\ (\A i \in 1 .. m : ac[i] = a[i]) /\ \A i \in 1 .. n : ac[m + i] = c[i]
  BY <1>1
<1>3. ac \in Array(m + n)
  <2> HIDE DEF ac
  <2> QED BY <1>2, SeqArray DEF T
<1> HIDE DEF ac
<1> DEFINE lo == SubSeq(ac, 1, m)
           hi == SubSeq(ac, m + 1, m + n)
<1>4. lo \in Array(m) /\ hi \in Array(n) /\ Value(ac) = Value(lo) + Power(W, m) * Value(hi)
  BY <1>3, SplitValue
<1>5. \A i \in 1 .. m : lo[i] = ac[i]
  BY <1>1, <1>2
<1>6. \A i \in 1 .. n : hi[i] = ac[m + i]
  <2> TAKE i \in 1 .. n
  <2>1. hi[i] = ac[m + 1 + i - 1] /\ m + 1 + i - 1 = m + i
    BY <1>1, <1>2
  <2> QED BY <2>1
<1> HIDE DEF lo, hi
<1>7. lo = a
  BY <1>2, <1>4, <1>5 DEF Array
<1>8. hi = c
  BY <1>2, <1>4, <1>6 DEF Array
<1> QED BY <1>3, <1>4, <1>7, <1>8 DEF ac, lo, hi

\* One more word.
LEMMA AppendValue ==
  ASSUME NEW n \in Nat, NEW a \in Array(n), NEW w \in Word
  PROVE  Append(a, w) \in Array(n + 1) /\ Value(Append(a, w)) = Value(a) + Power(W, n) * w
<1> DEFINE T == Word
           aw == Append(a, w)
<1>1. a \in Seq(T) /\ Len(a) = n /\ w \in T
  BY ArraySeq
<1> HIDE DEF T
<1>2. aw \in Seq(T) /\ Len(aw) = n + 1 /\ (\A i \in 1 .. n : aw[i] = a[i]) /\ aw[n + 1] = w
  BY <1>1
<1> HIDE DEF aw
<1>3. aw \in Array(n + 1)
  BY <1>2, SeqArray DEF T
<1>4. Integers0(aw, n + 1) /\ Value(aw) = Number(W, aw, n + 1) /\ Integers0(a, n) /\ Value(a) = Number(W, a, n)
  <2>1. n + 1 \in Nat
    OBVIOUS
  <2> QED BY <1>3, <2>1, ArrayDigits
<1>5. Number(W, aw, n + 1) = Number(W, aw, n) + aw[n + 1] * Power(W, n)
  BY <1>4, WType, NumberNext
<1>6. Number(W, a, n) = Number(W, aw, n)
  BY <1>2, <1>4, WType, NumberSame
<1>7. w * Power(W, n) = Power(W, n) * w
  <2>1. w \in Int /\ Power(W, n) \in Int
    BY WType, PowerNext DEF Word
  <2> QED BY <2>1
<1> QED BY <1>2, <1>3, <1>4, <1>5, <1>6, <1>7 DEF aw

\* What lies at k .. k + m - 1 is replaced: o is a with c there.
Overwrites(o, n, a, k, m, c) ==
  /\ o \in Array(n)
  /\ \A i \in 1 .. m : o[k - 1 + i] = c[i]
  /\ \A i \in 1 .. n : i < k \/ i >= k + m => o[i] = a[i]
  /\ Value(o) = Value(a) + Power(W, k - 1) * (Value(c) - Value(SubSeq(a, k, k + m - 1)))

\* Over replaces the words from k on and leaves the others.
LEMMA OverValue ==
  ASSUME NEW n \in Nat, NEW a \in Array(n), NEW k \in Nat \ {0}, NEW m \in Nat, NEW c \in Array(m),
         k + m - 1 <= n
  PROVE  Overwrites(Over(a, k, c), n, a, k, m, c)
<1> DEFINE o == Over(a, k, c)
           j == k - 1
           r == n - (j + m)
           D == 1 .. m
<1>0. j \in Nat /\ r \in Nat /\ m + r \in Nat /\ j + (m + r) = n
  OBVIOUS
<1>1. DOMAIN a = 1 .. n /\ DOMAIN c = D /\ (\A i \in 1 .. n : a[i] \in Word) /\ \A i \in D : c[i] \in Word
  BY ArraySeq
<1> HIDE DEF D
<1>2. o = [i \in 1 .. n |-> IF i - k + 1 \in D THEN c[i - k + 1] ELSE a[i]]
  BY <1>1 DEF Over
<1>3. o \in Array(n)
  BY <1>1, <1>2 DEF Array
<1>4. \A i \in 1 .. m : o[j + i] = c[i]
  <2> TAKE i \in 1 .. m
  <2>1. j + i \in 1 .. n /\ (j + i) - k + 1 = i /\ i \in D
    BY DEF D
  <2> QED BY <1>2, <2>1
<1>5. \A i \in 1 .. n : i < k \/ i >= k + m => o[i] = a[i]
  <2> TAKE i \in 1 .. n
  <2>1. i < k \/ i >= k + m => i - k + 1 \notin D
    BY DEF D
  <2> QED BY <1>2, <2>1
<1> HIDE DEF o
<1> DEFINE am == SubSeq(a, k, k + m - 1)
           t == [i \in 1 .. r |-> a[j + m + i]]
           p1 == Power(W, j)
           p2 == Power(W, m)
<1>6. am \in Array(m) /\ \A i \in 1 .. m : am[i] = a[j + i]
  BY SliceArray
<1>7. Integers0(a, n) /\ Integers0(o, n) /\ n = j + m + r
  BY <1>0, <1>3, ArrayDigits
<1>8. \A i \in 1 .. r : t[i] = a[j + m + i] /\ t[i] = o[j + m + i]
  <2> TAKE i \in 1 .. r
  <2>1. j + m + i \in 1 .. n /\ j + m + i >= k + m
    BY <1>0
  <2>2. o[j + m + i] = a[j + m + i]
    BY <1>5, <2>1
  <2> QED BY <2>2
<1>9. \A i \in 1 .. j : a[i] = o[i]
  BY <1>5
<1> HIDE DEF am, t, j, r
<1>10. /\ Number(W, a, n) = Number(W, a, j) + p1 * (Number(W, am, m) + p2 * Number(W, t, r))
       /\ Number(W, o, n) = Number(W, o, j) + p1 * (Number(W, c, m) + p2 * Number(W, t, r))
  <2> DEFINE l == j + m
  <2>1. Part(c, o, j, m) /\ Part(am, a, j, m)
    BY <1>4, <1>6 DEF Part
  <2>2. Part(t, a, l, r) /\ Part(t, o, l, r)
    BY <1>8 DEF Part
  <2>3. l \in Nat /\ l = j + m /\ n = l + r /\ j \in Nat /\ r \in Nat /\ W \in Int
    BY <1>0, WType DEF r
  <2> HIDE DEF l, p1, p2
  <2>4. Parts(W, a, n, j, am, m, t, r)
    BY ONLY <1>7, <2>1, <2>2, <2>3, m \in Nat, n \in Nat, NumberThree
  <2>5. Parts(W, o, n, j, c, m, t, r)
    BY ONLY <1>7, <2>1, <2>2, <2>3, m \in Nat, n \in Nat, NumberThree
  <2> QED BY <2>4, <2>5 DEF p1, p2, Parts
<1>11. Number(W, a, j) = Number(W, o, j) /\ Number(W, a, j) \in Int
  <2>1. Integers0(a, j)
    BY <1>0, <1>7 DEF Integers0
  <2> QED BY <1>0, <1>9, <2>1, WType, NumberSame, NumberInt
<1>12. /\ Value(a) = Number(W, a, n) /\ Value(o) = Number(W, o, n)
       /\ Value(c) = Number(W, c, m) /\ Value(am) = Number(W, am, m)
       /\ Value(c) \in Int /\ Value(am) \in Int
  BY <1>3, <1>6, <1>7, ArrayDigits, ValueBounds
<1>13. p1 \in Int /\ p2 * Number(W, t, r) \in Int
  <2>1. Integers0(t, r)
    BY <1>0, <1>7, <1>8 DEF Integers0
  <2>2. p1 \in Int /\ p2 \in Int /\ Number(W, t, r) \in Int
    BY <1>0, <2>1, WType, PowerNext, NumberInt
  <2> QED BY <2>2
<1>14. Value(o) = Value(a) + p1 * (Value(c) - Value(am))
  <2> DEFINE x == Number(W, a, j)
             y == p2 * Number(W, t, r)
             u == Value(c)
             v == Value(am)
  <2>1. Value(a) = x + p1 * (v + y) /\ Value(o) = x + p1 * (u + y)
    BY <1>10, <1>11, <1>12
  <2>2. x \in Int /\ y \in Int /\ u \in Int /\ v \in Int
    BY <1>11, <1>12, <1>13
  <2> HIDE DEF x, y, u, v, p1
  <2>3. /\ p1 * (u + y) = p1 * (v + y) + p1 * (u - v)
        /\ p1 * (v + y) \in Int /\ p1 * (u - v) \in Int
    BY <1>13, <2>2
  <2> QED BY <2>1, <2>2, <2>3 DEF u, v
<1> QED BY <1>3, <1>4, <1>5, <1>14 DEF o, j, am, Overwrites

-----------------------------------------------------------------------------
(***************************************************************************)
(* Chains of carries.  t are the sums of the columns, c what is carried    *)
(* out of them.                                                            *)
(***************************************************************************)
Chain(n, t, c) == c[0] = 0 /\ \A i \in 1 .. n : c[i] = (t[i] + c[i - 1]) \div W
Naturals0(t, n) == \A i \in 1 .. n : t[i] \in Nat

\* A quotient of naturals is one.
LEMMA DivNat ==
  ASSUME NEW v \in Nat, NEW n \in Nat \ {0}
  PROVE  v \div n \in Nat
<1>1. v \div n \in Int /\ v % n \in 0 .. n - 1 /\ v = n * (v \div n) + (v % n)
  BY Euclid
<1> DEFINE k == v \div n
           r == v % n
<1>2. k \in Int /\ r \in 0 .. n - 1 /\ v = n * k + r
  BY <1>1
<1> HIDE DEF k, r
<1>3. k >= 0
  <2> SUFFICES ASSUME k <= -1 PROVE FALSE
    BY <1>2
  <2>1. n * k <= n * (-1)
    BY <1>2
  <2> QED BY <1>2, <2>1
<1> QED BY <1>2, <1>3 DEF k

\* The carries of a sum of columns exist.
LEMMA ChainExists ==
  ASSUME NEW n \in Nat, NEW t, Naturals0(t, n)
  PROVE  \E c \in [0 .. n -> Nat] : Chain(n, t, c)
<1> DEFINE step == [i \in 1 .. n |-> [s \in Nat |-> (t[i] + s) \div W]]
<1>1. step \in Steps(n, Nat) /\ 0 \in Nat
  <2>1. \A i \in 1 .. n, s \in Nat : (t[i] + s) \div W \in Nat
    <3> TAKE i \in 1 .. n, s \in Nat
    <3>1. t[i] + s \in Nat
      BY DEF Naturals0
    <3> QED BY <3>1, WType, DivNat
  <2> QED BY <2>1 DEF Steps
<1>2. PICK h \in [0 .. n -> Nat] : Recurs(h, n, 0, step)
  <2> HIDE DEF step
  <2> QED BY ONLY <1>1, n \in Nat, RecursionExists
<1>3. Chain(n, t, h)
  <2>1. ASSUME NEW i \in 1 .. n
        PROVE  h[i] = (t[i] + h[i - 1]) \div W
    <3>1. h[i - 1] \in Nat
      OBVIOUS
    <3>2. h[i] = step[i][h[i - 1]]
      <4> HIDE DEF step
      <4> QED BY <1>2 DEF Recurs
    <3> QED BY <3>1, <3>2
  <2> QED BY <1>2, <2>1 DEF Recurs, Chain
<1> QED BY <1>3

\* Carries are naturals.
LEMMA ChainNat ==
  ASSUME NEW n \in Nat, NEW t, Naturals0(t, n), NEW c, Chain(n, t, c)
  PROVE  \A i \in 0 .. n : c[i] \in Nat
<1>1. c[0] \in Nat
  BY DEF Chain
<1>2. \A i \in 1 .. n : c[i - 1] \in Nat => c[i] \in Nat
  <2> TAKE i \in 1 .. n
  <2> HAVE c[i - 1] \in Nat
  <2>1. t[i] + c[i - 1] \in Nat
    BY DEF Naturals0
  <2> QED BY <2>1, WType, DivNat DEF Chain
<1> QED BY ONLY <1>1, <1>2, n \in Nat, StaysIn

(***************************************************************************)
(* The words that are left, and the last carry, are the sum of all columns.*)
(***************************************************************************)
Telescopes(n, t, w, c) == \A i \in 1 .. n : t[i] + c[i - 1] = w[i] + W * c[i]

\* The columns are worth the words that are left and the last carry.
LEMMA ChainSum ==
  ASSUME NEW n \in Nat, NEW t, Integers0(t, n), NEW w, Integers0(w, n),
         NEW c, c[0] = 0, \A i \in 0 .. n : c[i] \in Int, Telescopes(n, t, w, c)
  PROVE  Number(W, w, n) + Power(W, n) * c[n] = Number(W, t, n)
<1> DEFINE Holds(i) == Number(W, w, i) + Power(W, i) * c[i] = Number(W, t, i)
           C == {i \in 0 .. n : Holds(i)}
<1>1. 0 \in C
  BY WType, NumberZero, PowerZero
<1>2. ASSUME NEW i \in 1 .. n, i - 1 \in C
      PROVE  i \in C
  <2>1. i \in Nat \ {0} /\ i - 1 \in Nat /\ Integers0(w, i) /\ Integers0(t, i)
    BY DEF Integers0
  <2> DEFINE pw == Power(W, i - 1)
             x == Number(W, w, i - 1)
             y == Number(W, t, i - 1)
             wi == w[i]
             ti == t[i]
             cj == c[i - 1]
             ci == c[i]
             N == W
  <2>2. /\ Number(W, w, i) = x + wi * pw /\ Number(W, t, i) = y + ti * pw
        /\ x \in Int /\ y \in Int /\ pw \in Int /\ wi \in Int /\ ti \in Int
    BY <2>1, WType, NumberLast
  <2>3. Power(W, i) = N * pw /\ N \in Int
    BY <2>1, WType, PowerNext
  <2>4. x + pw * cj = y /\ cj \in Int /\ ci \in Int /\ ti + cj = wi + N * ci
    BY <1>2 DEF Telescopes
  <2> HIDE DEF pw, x, y, wi, ti, cj, ci, N
  <2>5. (x + wi * pw) + (N * pw) * ci = y + ti * pw
    <3>1. (ti + cj) * pw = (wi + N * ci) * pw
      BY <2>4
    <3>2. (ti + cj) * pw = ti * pw + pw * cj /\ ti * pw \in Int /\ pw * cj \in Int /\ wi * pw \in Int
      BY <2>2, <2>4
    <3>3. N * ci \in Int
      BY <2>3, <2>4
    <3>4. (wi + N * ci) * pw = wi * pw + (N * ci) * pw
      <4> DEFINE z == N * ci
      <4>1. z \in Int
        BY <3>3
      <4> HIDE DEF z
      <4>2. (wi + z) * pw = wi * pw + z * pw
        BY <2>2, <4>1
      <4> QED BY <4>2 DEF z
    <3>5. (N * ci) * pw = (N * pw) * ci /\ (N * pw) * ci \in Int
      BY <2>2, <2>3, <2>4, TimesTimes
    <3> DEFINE u == (N * pw) * ci
               v == ti * pw
               q1 == pw * cj
               q2 == wi * pw
    <3>6. v + q1 = q2 + u /\ x + q1 = y /\ u \in Int /\ v \in Int /\ q1 \in Int /\ q2 \in Int
      BY <3>1, <3>2, <3>4, <3>5, <2>4
    <3> HIDE DEF u, v, q1, q2
    <3>7. (x + q2) + u = y + v
      BY <2>2, <3>6
    <3> QED BY <3>7 DEF u, v, q1, q2
  <2>6. Holds(i)
    BY <2>2, <2>3, <2>5 DEF ci
  <2> HIDE DEF Holds
  <2> QED BY <2>6
<1>3. \A i \in 0 .. n : i \in C
  <2> HIDE DEF C
  <2> QED BY <1>1, <1>2, UpTo
<1> QED BY <1>3

\* The number of a combination of digits.
Combines(t, x, d, y, e, n) == \A i \in 1 .. n : t[i] = x * d[i] + y * e[i]

\* Number is linear in its digits.
LEMMA NumberLinear ==
  ASSUME NEW b \in Int, NEW n \in Nat, NEW d, NEW e, NEW t, NEW x \in Int, NEW y \in Int,
         Integers0(d, n), Integers0(e, n), Combines(t, x, d, y, e, n)
  PROVE  Number(b, t, n) = x * Number(b, d, n) + y * Number(b, e, n)
<1>0. Integers0(t, n)
  <2>1. \A i \in 1 .. n : x * d[i] \in Int /\ y * e[i] \in Int
    BY DEF Integers0
  <2> QED BY <2>1 DEF Integers0, Combines
<1> DEFINE Holds(i) == Number(b, t, i) = x * Number(b, d, i) + y * Number(b, e, i)
           C == {i \in 0 .. n : Holds(i)}
<1>1. 0 \in C
  BY NumberZero
<1>2. ASSUME NEW i \in 1 .. n, i - 1 \in C
      PROVE  i \in C
  <2>1. i \in Nat \ {0} /\ i - 1 \in Nat /\ Integers0(d, i) /\ Integers0(e, i) /\ Integers0(t, i)
    BY <1>0 DEF Integers0
  <2> DEFINE pw == Power(b, i - 1)
             nd == Number(b, d, i - 1)
             ne == Number(b, e, i - 1)
             nt == Number(b, t, i - 1)
             di == d[i]
             ei == e[i]
             ti == t[i]
  <2>2. /\ Number(b, d, i) = nd + di * pw /\ nd \in Int /\ di \in Int /\ pw \in Int
        /\ Number(b, e, i) = ne + ei * pw /\ ne \in Int /\ ei \in Int
        /\ Number(b, t, i) = nt + ti * pw /\ nt \in Int /\ ti \in Int
    BY <2>1, NumberLast
  <2>3. nt = x * nd + y * ne /\ ti = x * di + y * ei
    BY <1>2 DEF Combines
  <2> HIDE DEF pw, nd, ne, nt, di, ei, ti
  <2>4. nt + ti * pw = x * (nd + di * pw) + y * (ne + ei * pw)
    <3> DEFINE dp == di * pw
               ep == ei * pw
               xd == x * di
               ye == y * ei
    <3>1. dp \in Int /\ ep \in Int /\ xd \in Int /\ ye \in Int
      BY <2>2
    <3>2. xd * pw = x * dp /\ ye * pw = y * ep
      BY <2>2, TimesTimes
    <3>3. ti = xd + ye
      BY <2>3
    <3> HIDE DEF dp, ep, xd, ye
    <3>4. ti * pw = xd * pw + ye * pw
      BY <2>2, <3>1, <3>3
    <3>5. x * (nd + dp) = x * nd + x * dp /\ y * (ne + ep) = y * ne + y * ep
      BY <2>2, <3>1
    <3>6. x * nd \in Int /\ x * dp \in Int /\ y * ne \in Int /\ y * ep \in Int
      BY <2>2, <3>1
    <3>7. nt + ti * pw = x * (nd + dp) + y * (ne + ep)
      <4> DEFINE q1 == x * nd
                 q2 == x * dp
                 q3 == y * ne
                 q4 == y * ep
      <4>1. nt = q1 + q3 /\ ti * pw = q2 + q4 /\ x * (nd + dp) = q1 + q2 /\ y * (ne + ep) = q3 + q4
        BY <2>3, <3>2, <3>4, <3>5
      <4>2. q1 \in Int /\ q2 \in Int /\ q3 \in Int /\ q4 \in Int
        BY <3>6
      <4> HIDE DEF q1, q2, q3, q4
      <4> QED BY <4>1, <4>2
    <3> QED BY <3>7 DEF dp, ep
  <2>5. Holds(i)
    BY <2>2, <2>4
  <2> HIDE DEF Holds
  <2> QED BY <2>5
<1>3. \A i \in 0 .. n : i \in C
  <2> HIDE DEF C
  <2> QED BY <1>1, <1>2, UpTo
<1> QED BY <1>3

\* Words and carries that follow from the sums of the columns.
LEMMA ChainWords ==
  ASSUME NEW n \in Nat, NEW t, Naturals0(t, n), NEW w, NEW c, Chain(n, t, c),
         w = [i \in 1 .. n |-> (t[i] + c[i - 1]) % W]
  PROVE  /\ w \in Array(n) /\ c[n] \in Nat
         /\ Value(w) + Power(W, n) * c[n] = Number(W, t, n)
<1>1. \A i \in 0 .. n : c[i] \in Nat
  BY ChainNat
<1>2. ASSUME NEW i \in 1 .. n
      PROVE  /\ (t[i] + c[i - 1]) % W \in Word
             /\ t[i] + c[i - 1] = ((t[i] + c[i - 1]) % W) + W * c[i]
  <2> DEFINE v == t[i] + c[i - 1]
             k == v \div W
             r == v % W
             N == W
  <2>1. v \in Int
    BY <1>1 DEF Naturals0
  <2>2. k \in Int /\ r \in 0 .. N - 1 /\ v = N * k + r /\ N \in Nat
    <3> HIDE DEF v
    <3> QED BY <2>1, WType, Euclid
  <2>3. k = c[i]
    BY DEF Chain
  <2> HIDE DEF v, k, r, N
  <2>4. N * k \in Int
    BY <2>2
  <2>5. v = r + N * k
    BY <2>2, <2>4
  <2> QED BY <2>2, <2>3, <2>5 DEF v, r, N, Word
<1>3. w \in Array(n)
  BY <1>2 DEF Array
<1>4. Telescopes(n, t, w, c)
  BY <1>2 DEF Telescopes
<1>5. Integers0(t, n) /\ c[0] = 0 /\ \A i \in 0 .. n : c[i] \in Int
  BY <1>1 DEF Integers0, Naturals0, Chain
<1>6. Integers0(w, n) /\ Value(w) = Number(W, w, n)
  BY <1>3, ArrayDigits
<1>7. Number(W, w, n) + Power(W, n) * c[n] = Number(W, t, n)
  BY ONLY <1>4, <1>5, <1>6, n \in Nat, ChainSum
<1>8. c[n] \in Nat
  BY <1>1
<1> QED BY <1>3, <1>6, <1>7, <1>8

-----------------------------------------------------------------------------
AddCarry(a, b) ==
  CHOOSE carry : carry = [i \in 0 .. Len(a) |->
                            IF i = 0 THEN 0 ELSE (a[i] + b[i] + carry[i - 1]) \div W]

\* What is added need not be words.
LEMMA AddValue ==
  ASSUME NEW n \in Nat, NEW a \in Array(n), NEW b, Naturals0(b, n)
  PROVE  /\ Add(a, b).words \in Array(n) /\ Add(a, b).carry \in Nat
         /\ Value(Add(a, b).words) + Power(W, n) * Add(a, b).carry = Value(a) + Number(W, b, n)
<1> DEFINE t == [i \in 1 .. n |-> a[i] + b[i]]
           f == AddCarry(a, b)
           w == [i \in 1 .. n |-> (t[i] + f[i - 1]) % W]
<1>1. Len(a) = n /\ DOMAIN a = 1 .. n /\ \A i \in 1 .. n : a[i] \in Nat
  BY ArraySeq, WType DEF Word
<1>2. Naturals0(t, n)
  BY <1>1 DEF Naturals0
<1>3. PICK h \in [0 .. n -> Nat] : Chain(n, t, h)
  <2> HIDE DEF t
  <2> QED BY <1>2, ChainExists
<1>4. h = [i \in 0 .. Len(a) |-> IF i = 0 THEN 0 ELSE (a[i] + b[i] + h[i - 1]) \div W]
  BY <1>1, <1>3 DEF Chain
<1>5. f = [i \in 0 .. Len(a) |-> IF i = 0 THEN 0 ELSE (a[i] + b[i] + f[i - 1]) \div W]
  BY <1>4 DEF AddCarry
<1>6. Chain(n, t, f)
  <2> HIDE DEF f
  <2> QED BY <1>1, <1>5 DEF Chain
<1>7. Add(a, b) = [words |-> w, carry |-> f[n]]
  <2>1. Add(a, b) = [words |-> [i \in DOMAIN a |-> (a[i] + b[i] + f[i - 1]) % W], carry |-> f[Len(a)]]
    BY DEF Add, AddCarry
  <2> HIDE DEF f
  <2>2. w = [i \in DOMAIN a |-> (a[i] + b[i] + f[i - 1]) % W]
    BY <1>1
  <2> HIDE DEF w
  <2> QED BY <1>1, <2>1, <2>2
<1>8. w = [i \in 1 .. n |-> (t[i] + f[i - 1]) % W]
  OBVIOUS
<1> HIDE DEF f, w
<1>9. Number(W, t, n) = Value(a) + Number(W, b, n)
  <2>1. Combines(t, 1, a, 1, b, n)
    BY <1>1 DEF Naturals0, Combines
  <2>2. Integers0(a, n) /\ Value(a) = Number(W, a, n) /\ Integers0(b, n)
    BY ArrayDigits DEF Naturals0, Integers0
  <2>3. W \in Int /\ 1 \in Int
    BY WType
  <2> HIDE DEF t
  <2>4. Number(W, t, n) = 1 * Number(W, a, n) + 1 * Number(W, b, n)
    BY ONLY <2>1, <2>2, <2>3, n \in Nat, NumberLinear
  <2>5. Number(W, a, n) \in Int /\ Number(W, b, n) \in Int
    BY <2>2, <2>3, NumberInt
  <2> QED BY <2>2, <2>4, <2>5
<1> HIDE DEF t
<1>10. w \in Array(n) /\ f[n] \in Nat /\ Value(w) + Power(W, n) * f[n] = Number(W, t, n)
  BY ONLY <1>2, <1>6, <1>8, n \in Nat, ChainWords
<1>11. Add(a, b).words = w /\ Add(a, b).carry = f[n]
  BY <1>7
<1> QED BY <1>9, <1>10, <1>11

MulAddCarry(a, w, acc) ==
  CHOOSE carry : carry = [i \in 0 .. Len(a) |->
                            IF i = 0 THEN 0 ELSE (acc[i] + a[i] * w + carry[i - 1]) \div W]

\* MulAdd adds a word times an array, up to its carry.
LEMMA MulAddValue ==
  ASSUME NEW n \in Nat, NEW a \in Array(n), NEW w \in Word, NEW acc \in Array(n)
  PROVE  /\ MulAdd(a, w, acc).words \in Array(n) /\ MulAdd(a, w, acc).carry \in Nat
         /\ Value(MulAdd(a, w, acc).words) + Power(W, n) * MulAdd(a, w, acc).carry
              = Value(acc) + Value(a) * w
<1> DEFINE t == [i \in 1 .. n |-> acc[i] + a[i] * w]
           f == MulAddCarry(a, w, acc)
           ws == [i \in 1 .. n |-> (t[i] + f[i - 1]) % W]
<1>1. /\ Len(a) = n /\ DOMAIN a = 1 .. n /\ w \in Nat
      /\ \A i \in 1 .. n : a[i] \in Nat /\ acc[i] \in Nat
  BY ArraySeq, WType DEF Word
<1>2. Naturals0(t, n)
  <2>1. \A i \in 1 .. n : a[i] * w \in Nat
    BY <1>1
  <2>2. ASSUME NEW i \in 1 .. n
        PROVE  t[i] \in Nat
    <3> DEFINE x == a[i] * w
    <3>1. x \in Nat /\ acc[i] \in Nat
      BY <1>1, <2>1
    <3>2. t[i] = acc[i] + x
      OBVIOUS
    <3> HIDE DEF x, t
    <3> QED BY ONLY <3>1, <3>2
  <2> HIDE DEF t
  <2> QED BY <2>2 DEF Naturals0
<1>3. PICK h \in [0 .. n -> Nat] : Chain(n, t, h)
  <2> HIDE DEF t
  <2> QED BY <1>2, ChainExists
<1>4. h = [i \in 0 .. Len(a) |-> IF i = 0 THEN 0 ELSE (acc[i] + a[i] * w + h[i - 1]) \div W]
  BY <1>1, <1>3 DEF Chain
<1>5. f = [i \in 0 .. Len(a) |-> IF i = 0 THEN 0 ELSE (acc[i] + a[i] * w + f[i - 1]) \div W]
  BY <1>4 DEF MulAddCarry
<1>6. Chain(n, t, f)
  <2> HIDE DEF f
  <2>1. f = [i \in 0 .. n |-> IF i = 0 THEN 0 ELSE (acc[i] + a[i] * w + f[i - 1]) \div W]
    BY ONLY <1>1, <1>5
  <2>2. f[0] = 0
    BY ONLY <2>1, n \in Nat
  <2>3. ASSUME NEW i \in 1 .. n
        PROVE  f[i] = (t[i] + f[i - 1]) \div W
    <3>1. i \in 0 .. n /\ i # 0
      BY ONLY n \in Nat, i \in 1 .. n
    <3>2. f[i] = (acc[i] + a[i] * w + f[i - 1]) \div W
      BY ONLY <2>1, <3>1
    <3>3. t[i] = acc[i] + a[i] * w
      OBVIOUS
    <3> HIDE DEF t
    <3> QED BY <3>2, <3>3
  <2> HIDE DEF t
  <2> QED BY <2>2, <2>3 DEF Chain
<1>7. MulAdd(a, w, acc) = [words |-> ws, carry |-> f[n]]
  <2>1. MulAdd(a, w, acc)
          = [words |-> [i \in DOMAIN a |-> (acc[i] + a[i] * w + f[i - 1]) % W], carry |-> f[Len(a)]]
    BY DEF MulAdd, MulAddCarry
  <2> HIDE DEF f
  <2>2. ws = [i \in DOMAIN a |-> (acc[i] + a[i] * w + f[i - 1]) % W]
    BY <1>1
  <2> HIDE DEF ws
  <2> QED BY <1>1, <2>1, <2>2
<1>8. ws = [i \in 1 .. n |-> (t[i] + f[i - 1]) % W]
  OBVIOUS
<1> HIDE DEF f, ws
<1>9. Number(W, t, n) = Value(acc) + Value(a) * w
  <2>1. Combines(t, 1, acc, w, a, n)
    BY <1>1 DEF Combines
  <2>2. Integers0(a, n) /\ Value(a) = Number(W, a, n) /\ Integers0(acc, n) /\ Value(acc) = Number(W, acc, n)
    BY ArrayDigits
  <2>3. W \in Int /\ 1 \in Int /\ w \in Int
    BY <1>1, WType
  <2> HIDE DEF t
  <2>4. Number(W, t, n) = 1 * Number(W, acc, n) + w * Number(W, a, n)
    BY ONLY <2>1, <2>2, <2>3, n \in Nat, NumberLinear
  <2>5. Number(W, a, n) \in Int /\ Number(W, acc, n) \in Int
    BY <2>2, <2>3, NumberInt
  <2>6. w * Number(W, a, n) = Number(W, a, n) * w
    BY <2>3, <2>5
  <2> QED BY <2>2, <2>4, <2>5, <2>6
<1> HIDE DEF t
<1>10. ws \in Array(n) /\ f[n] \in Nat /\ Value(ws) + Power(W, n) * f[n] = Number(W, t, n)
  BY ONLY <1>2, <1>6, <1>8, n \in Nat, ChainWords
<1>11. MulAdd(a, w, acc).words = ws /\ MulAdd(a, w, acc).carry = f[n]
  BY <1>7
<1> QED BY <1>9, <1>10, <1>11

(***************************************************************************)
(* What is carried is as large as the sum does not fit.                    *)
(***************************************************************************)
\* x + pw * c = s with x below pw: c is the quotient.
LEMMA CarryBound ==
  ASSUME NEW pw \in Nat \ {0}, NEW x \in 0 .. pw - 1, NEW c \in Int, NEW s \in Int, NEW k \in Nat,
         x + pw * c = s, s < pw * k
  PROVE  c < k
<1> SUFFICES ASSUME c >= k PROVE FALSE
  OBVIOUS
<1>1. pw * c >= pw * k
  OBVIOUS
<1> QED BY <1>1

\* The carry of MulAdd fits into a word.
LEMMA MulAddCarryWord ==
  ASSUME NEW n \in Nat, NEW a \in Array(n), NEW w \in Word, NEW acc \in Array(n)
  PROVE  MulAdd(a, w, acc).carry \in Word
<1> DEFINE pw == Power(W, n)
           x == Value(MulAdd(a, w, acc).words)
           c == MulAdd(a, w, acc).carry
           va == Value(a)
           vc == Value(acc)
           N == W
<1>1. c \in Nat /\ x + pw * c = vc + va * w /\ x \in 0 .. pw - 1
  BY MulAddValue, ValueBounds
<1>2. pw \in Nat \ {0} /\ N \in Nat \ {0} /\ va \in 0 .. pw - 1 /\ vc \in 0 .. pw - 1 /\ w \in 0 .. N - 1
  BY WType, PowerPositive, ValueBounds DEF Word
<1> HIDE DEF pw, x, c, va, vc, N
<1>3. va * w <= (pw - 1) * (N - 1) /\ va * w \in Int
  <2>1. va * w <= (pw - 1) * w
    BY <1>2
  <2>2. (pw - 1) * w <= (pw - 1) * (N - 1)
    BY <1>2
  <2> QED BY <1>2, <2>1, <2>2
<1>4. (pw - 1) * (N - 1) = pw * N - pw - N + 1 /\ pw * N \in Int
  BY <1>2
<1>5. vc + va * w < pw * N
  BY <1>2, <1>3, <1>4
<1>6. c < N
  <2> DEFINE s == vc + va * w
  <2>1. s \in Int /\ x + pw * c = s /\ s < pw * N
    BY <1>1, <1>2, <1>3, <1>5
  <2> HIDE DEF s
  <2> QED BY <1>1, <1>2, <2>1, CarryBound
<1> QED BY <1>1, <1>2, <1>6 DEF c, N, Word

\* Add adds, up to a carry of one bit.
LEMMA AddCarryBit ==
  ASSUME NEW n \in Nat, NEW a \in Array(n), NEW b \in Array(n)
  PROVE  /\ Naturals0(b, n) /\ Add(a, b).words \in Array(n) /\ Add(a, b).carry \in {0, 1}
         /\ Value(Add(a, b).words) + Power(W, n) * Add(a, b).carry = Value(a) + Value(b)
<1> DEFINE pw == Power(W, n)
           x == Value(Add(a, b).words)
           c == Add(a, b).carry
           va == Value(a)
           vb == Value(b)
<1>0. Naturals0(b, n)
  BY ArraySeq, WType DEF Naturals0, Word
<1>1. c \in Nat /\ x + pw * c = va + vb /\ x \in 0 .. pw - 1 /\ Add(a, b).words \in Array(n)
  BY <1>0, AddValue, ValueBounds, ArrayDigits
<1>2. pw \in Nat \ {0} /\ va \in 0 .. pw - 1 /\ vb \in 0 .. pw - 1
  BY WType, PowerPositive, ValueBounds
<1> HIDE DEF pw, x, c, va, vb
<1>3. c < 2
  <2> DEFINE s == va + vb
  <2>1. s \in Int /\ x + pw * c = s /\ s < pw * 2
    BY <1>1, <1>2
  <2> HIDE DEF s
  <2> QED BY <1>1, <1>2, <2>1, CarryBound
<1>4. c \in {0, 1}
  BY <1>1, <1>3
<1> QED BY <1>0, <1>1, <1>4 DEF pw, x, c, va, vb

-----------------------------------------------------------------------------
SubBorrow(a, b) ==
  CHOOSE borrow : borrow = [i \in 0 .. Len(a) |->
                              IF i > 0 /\ a[i] < b[i] + borrow[i - 1] THEN 1 ELSE 0]

\* Sub subtracts, up to a borrow of one bit.
LEMMA SubValue ==
  ASSUME NEW n \in Nat, NEW a \in Array(n), NEW b \in Array(n)
  PROVE  /\ Sub(a, b).words \in Array(n) /\ Sub(a, b).carry \in {0, 1}
         /\ Value(Sub(a, b).words) = Value(a) - Value(b) + Power(W, n) * Sub(a, b).carry
<1> DEFINE step == [i \in 1 .. n |-> [s \in {0, 1} |-> IF a[i] < b[i] + s THEN 1 ELSE 0]]
           f == SubBorrow(a, b)
           t == [i \in 1 .. n |-> a[i] - b[i]]
           c == [i \in 0 .. n |-> -f[i]]
           w == [i \in 1 .. n |-> (a[i] - b[i] - f[i - 1]) % W]
<1>1. Len(a) = n /\ DOMAIN a = 1 .. n /\ \A i \in 1 .. n : a[i] \in 0 .. W - 1 /\ b[i] \in 0 .. W - 1
  BY ArraySeq DEF Word
<1>2. step \in Steps(n, {0, 1}) /\ 0 \in {0, 1}
  BY DEF Steps
<1>3. PICK h \in [0 .. n -> {0, 1}] : Recurs(h, n, 0, step)
  <2> HIDE DEF step
  <2> QED BY ONLY <1>2, n \in Nat, RecursionExists
<1>4. h = [i \in 0 .. Len(a) |-> IF i > 0 /\ a[i] < b[i] + h[i - 1] THEN 1 ELSE 0]
  <2>1. ASSUME NEW i \in 1 .. n
        PROVE  h[i] = IF a[i] < b[i] + h[i - 1] THEN 1 ELSE 0
    <3>1. h[i - 1] \in {0, 1}
      OBVIOUS
    <3>2. h[i] = step[i][h[i - 1]]
      <4> HIDE DEF step
      <4> QED BY <1>3 DEF Recurs
    <3> QED BY <3>1, <3>2
  <2>2. h[0] = 0
    BY <1>3 DEF Recurs
  <2> QED BY <1>1, <2>1, <2>2
<1>5. f = [i \in 0 .. Len(a) |-> IF i > 0 /\ a[i] < b[i] + f[i - 1] THEN 1 ELSE 0]
  BY <1>4 DEF SubBorrow
<1> HIDE DEF f
<1>6. /\ f[0] = 0 /\ \A i \in 0 .. n : f[i] \in {0, 1}
      /\ \A i \in 1 .. n : f[i] = IF a[i] < b[i] + f[i - 1] THEN 1 ELSE 0
  BY <1>1, <1>5
<1>7. ASSUME NEW i \in 1 .. n
      PROVE  /\ (a[i] - b[i] - f[i - 1]) % W \in Word
             /\ (a[i] - b[i]) - f[i - 1] = ((a[i] - b[i] - f[i - 1]) % W) + W * (-f[i])
  <2> DEFINE N == W
             ai == a[i]
             bi == b[i]
             s == f[i - 1]
             k == -f[i]
             r == ai - bi - s - k * N
             v == ai - bi - s
  <2>1. /\ N \in Nat \ {0} /\ ai \in 0 .. N - 1 /\ bi \in 0 .. N - 1 /\ s \in {0, 1}
        /\ k = (IF ai < bi + s THEN -1 ELSE 0)
    BY <1>1, <1>6, WType
  <2>2. v = ai - bi - s
    OBVIOUS
  <2> HIDE DEF N, ai, bi, s, k
  <2>3. r \in 0 .. N - 1 /\ k \in Int /\ v \in Int /\ v = N * k + r
    BY <2>1
  <2> HIDE DEF r, v
  <2>4. v % N = r
    BY <2>1, <2>3, EuclidUnique
  <2>5. v % N \in 0 .. N - 1 /\ v = (v % N) + N * k
    <3>1. N * k \in Int
      BY <2>1, <2>3
    <3> QED BY <2>3, <2>4, <3>1
  <2> QED BY <2>5 DEF v, N, ai, bi, s, k, Word
<1>8. w \in Array(n)
  BY <1>7 DEF Array
<1>9. Telescopes(n, t, w, c)
  <2> SUFFICES ASSUME NEW i \in 1 .. n PROVE t[i] + c[i - 1] = w[i] + W * c[i]
    BY DEF Telescopes
  <2>1. t[i] = a[i] - b[i] /\ c[i - 1] = -f[i - 1] /\ c[i] = -f[i] /\ w[i] = (a[i] - b[i] - f[i - 1]) % W
    OBVIOUS
  <2> HIDE DEF t, c, w
  <2>2. a[i] \in Int /\ b[i] \in Int /\ f[i - 1] \in Int
    BY <1>1, <1>6, WType
  <2>3. t[i] + c[i - 1] = (a[i] - b[i]) - f[i - 1]
    BY <2>1, <2>2
  <2> QED BY <1>7, <2>1, <2>3
<1>10. Sub(a, b) = [words |-> w, carry |-> f[n]]
  <2>1. Sub(a, b) = [words |-> [i \in DOMAIN a |-> (a[i] - b[i] - f[i - 1]) % W], carry |-> f[Len(a)]]
    BY DEF Sub, SubBorrow, f
  <2>2. w = [i \in DOMAIN a |-> (a[i] - b[i] - f[i - 1]) % W]
    BY <1>1
  <2> HIDE DEF w
  <2> QED BY <1>1, <2>1, <2>2
<1>11. Integers0(t, n) /\ c[0] = 0 /\ (\A i \in 0 .. n : c[i] \in Int) /\ c[n] = -f[n]
  <2>1. \A i \in 1 .. n : t[i] \in Int
    <3> TAKE i \in 1 .. n
    <3>1. a[i] \in Int /\ b[i] \in Int
      BY <1>1, WType
    <3> QED BY <3>1
  <2>2. c[0] = 0 /\ c[n] = -f[n]
    BY <1>6
  <2>3. \A i \in 0 .. n : c[i] \in Int
    BY <1>6
  <2> QED BY <2>1, <2>2, <2>3 DEF Integers0
<1>12. Combines(t, 1, a, -1, b, n)
  BY <1>1, WType DEF Combines
<1> HIDE DEF t, c, w
<1>13. /\ Integers0(w, n) /\ Value(w) = Number(W, w, n) /\ Integers0(a, n) /\ Value(a) = Number(W, a, n)
       /\ Integers0(b, n) /\ Value(b) = Number(W, b, n)
  BY <1>8, ArrayDigits
<1>14. Number(W, w, n) + Power(W, n) * c[n] = Number(W, t, n)
  BY ONLY <1>9, <1>11, <1>13, n \in Nat, ChainSum
<1>15. Number(W, t, n) = 1 * Number(W, a, n) + (-1) * Number(W, b, n)
  <2>1. 1 \in Int /\ -1 \in Int /\ W \in Int
    BY WType
  <2> QED BY ONLY <1>12, <1>13, <2>1, n \in Nat, NumberLinear
<1>16. Value(w) = Value(a) - Value(b) + Power(W, n) * f[n]
  <2> DEFINE pw == Power(W, n)
             x == Value(w)
             y == Value(a)
             z == Value(b)
             g == f[n]
  <2>1. pw \in Int /\ x \in Int /\ y \in Int /\ z \in Int /\ g \in {0, 1} /\ c[n] = -g
    BY <1>6, <1>8, <1>11, WType, PowerNext, ValueBounds
  <2>2. x + pw * (-g) = 1 * y + (-1) * z
    BY <1>11, <1>13, <1>14, <1>15
  <2> HIDE DEF pw, x, y, z, g
  <2>3. x = y - z + pw * g
    <3>1. CASE g = 0
      BY <2>1, <2>2, <3>1
    <3>2. CASE g = 1
      BY <2>1, <2>2, <3>2
    <3> QED BY <2>1, <3>1, <3>2
  <2> QED BY <2>3 DEF pw, x, y, z, g
<1>17. f[n] \in {0, 1}
  BY <1>6
<1>18. Sub(a, b).words = w /\ Sub(a, b).carry = f[n]
  BY <1>10
<1> QED BY <1>8, <1>16, <1>17, <1>18

\* It borrows exactly when the first is less.
LEMMA SubLess ==
  ASSUME NEW n \in Nat, NEW a \in Array(n), NEW b \in Array(n)
  PROVE  /\ Sub(a, b).carry = 1 <=> Value(a) < Value(b)
         /\ Value(a) >= Value(b) => Sub(a, b).carry = 0 /\ Value(Sub(a, b).words) = Value(a) - Value(b)
<1> DEFINE pw == Power(W, n)
           x == Value(Sub(a, b).words)
           y == Value(a)
           z == Value(b)
           g == Sub(a, b).carry
<1>1. pw \in Int /\ x \in 0 .. pw - 1 /\ y \in 0 .. pw - 1 /\ z \in 0 .. pw - 1 /\ g \in {0, 1} /\ x = y - z + pw * g
  BY SubValue, ValueBounds, WType, PowerNext
<1> HIDE DEF pw, x, y, z, g
<1>2. g = 0 => x = y - z
  BY <1>1
<1>3. g = 1 => x = y - z + pw
  BY <1>1
<1>4. (g = 1 <=> y < z) /\ (y >= z => g = 0 /\ x = y - z)
  BY <1>1, <1>2, <1>3
<1> QED BY <1>4 DEF x, y, z, g

LtFcn(a, b) ==
  CHOOSE lt : lt = [i \in 0 .. Len(a) |->
                      IF i = 0 THEN FALSE ELSE IF a[i] = b[i] THEN lt[i - 1] ELSE a[i] < b[i]]

\* LtMask compares the values, although it starts at the lowest word.
THEOREM LtMaskLess ==
  ASSUME NEW n \in Nat, NEW a \in Array(n), NEW b \in Array(n)
  PROVE  LtMask(a, b) <=> Value(a) < Value(b)
<1> DEFINE g == [i \in 0 .. n |-> Number(W, a, i) < Number(W, b, i)]
           f == LtFcn(a, b)
<1>1. Len(a) = n /\ \A i \in 1 .. n : a[i] \in Word /\ b[i] \in Word
  BY ArraySeq
<1>2. g[0] = FALSE
  <2>1. Number(W, a, 0) = 0 /\ Number(W, b, 0) = 0
    BY WType, NumberZero
  <2>2. g[0] = (Number(W, a, 0) < Number(W, b, 0))
    OBVIOUS
  <2>3. ~(Number(W, a, 0) < Number(W, b, 0))
    BY <2>1
  <2> HIDE DEF g
  <2>4. (Number(W, a, 0) < Number(W, b, 0)) = FALSE
    BY <2>3
  <2> QED BY <2>2, <2>4
<1>3. ASSUME NEW i \in 1 .. n
      PROVE  g[i] = IF a[i] = b[i] THEN g[i - 1] ELSE a[i] < b[i]
  <2> DEFINE pw == Power(W, i - 1)
             x == Number(W, a, i - 1)
             y == Number(W, b, i - 1)
             ai == a[i]
             bi == b[i]
             u == Number(W, a, i)
             v == Number(W, b, i)
  <2>1. i \in Nat \ {0} /\ i - 1 \in Nat /\ i - 1 \in 0 .. n /\ i \in 0 .. n
    OBVIOUS
  <2>2. Integers0(a, i) /\ Integers0(b, i) /\ Digits(W, a, i - 1) /\ Digits(W, b, i - 1)
    BY <1>1, ArrayDigits DEF Integers0, Digits
  <2>3. u = x + ai * pw /\ v = y + bi * pw /\ ai \in Int /\ bi \in Int
    BY <2>1, <2>2, WType, NumberLast
  <2>4. x \in 0 .. pw - 1 /\ y \in 0 .. pw - 1 /\ pw \in Nat \ {0}
    BY <2>1, <2>2, WType, NumberBounds, PowerPositive
  <2>5. g[i] = (u < v) /\ g[i - 1] = (x < y)
    BY <2>1
  <2> HIDE DEF pw, x, y, ai, bi, u, v, g
  <2>6. ai = bi => ((u < v) <=> (x < y))
    BY <2>3, <2>4
  <2>7. ai < bi => u < v
    <3> HAVE ai < bi
    <3>1. (ai + 1) * pw <= bi * pw /\ (ai + 1) * pw = ai * pw + pw
      BY <2>3, <2>4
    <3>2. ai * pw \in Int /\ bi * pw \in Int
      BY <2>3, <2>4
    <3> QED BY <2>3, <2>4, <3>1, <3>2
  <2>8. bi < ai => ~(u < v)
    <3> HAVE bi < ai
    <3>1. (bi + 1) * pw <= ai * pw /\ (bi + 1) * pw = bi * pw + pw
      BY <2>3, <2>4
    <3>2. ai * pw \in Int /\ bi * pw \in Int
      BY <2>3, <2>4
    <3> QED BY <2>3, <2>4, <3>1, <3>2
  <2>9. g[i] = IF ai = bi THEN g[i - 1] ELSE ai < bi
    BY <2>3, <2>5, <2>6, <2>7, <2>8
  <2> QED BY <2>9 DEF ai, bi
<1>4. g = [i \in 0 .. Len(a) |-> IF i = 0 THEN FALSE ELSE IF a[i] = b[i] THEN g[i - 1] ELSE a[i] < b[i]]
  <2> DEFINE T(i) == IF i = 0 THEN FALSE ELSE IF a[i] = b[i] THEN g[i - 1] ELSE a[i] < b[i]
  <2>1. g = [i \in 0 .. n |-> g[i]]
    OBVIOUS
  <2>2. \A i \in 0 .. n : g[i] = T(i)
    <3> TAKE i \in 0 .. n
    <3>1. CASE i = 0
      BY <1>2, <3>1
    <3>2. CASE i # 0
      <4>1. i \in 1 .. n
        BY <3>2
      <4> HIDE DEF g
      <4> QED BY <1>3, <3>2, <4>1
    <3> QED BY <3>1, <3>2
  <2> HIDE DEF g
  <2>3. [i \in 0 .. n |-> g[i]] = [i \in 0 .. n |-> T(i)]
    <3> HIDE DEF T
    <3> QED BY <2>2, Zenon
  <2> QED BY <1>1, <2>1, <2>3
<1> HIDE DEF g
<1>5. f = [i \in 0 .. Len(a) |-> IF i = 0 THEN FALSE ELSE IF a[i] = b[i] THEN f[i - 1] ELSE a[i] < b[i]]
  BY <1>4 DEF LtFcn
<1> HIDE DEF f
<1>6. f[0] = FALSE /\ \A i \in 1 .. n : f[i] = IF a[i] = b[i] THEN f[i - 1] ELSE a[i] < b[i]
  <2> DEFINE T(i) == IF i = 0 THEN FALSE ELSE IF a[i] = b[i] THEN f[i - 1] ELSE a[i] < b[i]
  <2>1. f = [i \in 0 .. n |-> T(i)]
    BY <1>1, <1>5
  <2>2. \A i \in 0 .. n : f[i] = T(i)
    <3> HIDE DEF T
    <3> QED BY <2>1, Zenon
  <2>3. 0 \in 0 .. n /\ \A i \in 1 .. n : i \in 0 .. n /\ i # 0
    OBVIOUS
  <2>4. f[0] = FALSE
    BY <2>2, <2>3
  <2>5. \A i \in 1 .. n : f[i] = IF a[i] = b[i] THEN f[i - 1] ELSE a[i] < b[i]
    BY <2>2, <2>3
  <2> QED BY <2>4, <2>5
<1>7. \A i \in 0 .. n : f[i] = g[i]
  <2>1. f[0] = g[0]
    BY <1>2, <1>6
  <2>2. \A i \in 1 .. n : f[i - 1] = g[i - 1] => f[i] = g[i]
    BY <1>3, <1>6
  <2> QED BY ONLY <2>1, <2>2, n \in Nat, RecursionAgrees
<1>8. LtMask(a, b) = f[n]
  BY <1>1 DEF LtMask, LtFcn, f
<1>9. g[n] = (Value(a) < Value(b))
  BY ArrayDigits DEF g
<1>10. f[n] = g[n]
  BY <1>7
<1> QED BY <1>8, <1>9, <1>10

-----------------------------------------------------------------------------
\* Arrays with the same words are the same.
LEMMA SameArray ==
  ASSUME NEW n \in Nat, NEW a \in Array(n), NEW c \in Array(n), \A i \in 1 .. n : a[i] = c[i]
  PROVE  a = c
BY DEF Array

\* One word more of an array.
LEMMA SliceLast ==
  ASSUME NEW n \in Nat, NEW r \in Array(n), NEW k \in Nat \ {0}, NEW m \in Nat, k + m <= n
  PROVE  /\ SubSeq(r, k, k + m) \in Array(m + 1) /\ SubSeq(r, k, k + m - 1) \in Array(m)
         /\ Value(SubSeq(r, k, k + m)) = Value(SubSeq(r, k, k + m - 1)) + Power(W, m) * r[k + m]
<1> DEFINE l == m + 1
           hi == SubSeq(r, k, k + m)
           lo == SubSeq(r, k, k + m - 1)
<1>1. l \in Nat /\ k + l - 1 = k + m /\ k + l - 1 <= n /\ k + m - 1 <= n /\ l = m + 1
  OBVIOUS
<1> HIDE DEF l
<1>2. hi \in Array(l) /\ \A i \in 1 .. l : hi[i] = r[k - 1 + i]
  <2>1. SubSeq(r, k, k + l - 1) \in Array(l) /\ \A i \in 1 .. l : SubSeq(r, k, k + l - 1)[i] = r[k - 1 + i]
    BY <1>1, SliceArray
  <2> QED BY <1>1, <2>1
<1>3. lo \in Array(m) /\ \A i \in 1 .. m : lo[i] = r[k - 1 + i]
  BY <1>1, SliceArray
<1> HIDE DEF hi, lo
<1>4. r[k + m] \in Word /\ hi[l] = r[k + m]
  <2>1. k + m \in 1 .. n /\ l \in 1 .. l /\ k - 1 + l = k + m
    BY <1>1
  <2>2. \A i \in 1 .. n : r[i] \in Word
    BY ArraySeq
  <2> QED BY <1>2, <2>1, <2>2
<1>5. hi = Append(lo, r[k + m])
  <2> DEFINE ap == Append(lo, r[k + m])
             T == Word
             z == r[k + m]
  <2>1. lo \in Seq(T) /\ Len(lo) = m /\ z \in T
    BY <1>3, <1>4, ArraySeq
  <2> HIDE DEF T, z
  <2>2. \A i \in 1 .. l : Append(lo, z)[i] = IF i = l THEN z ELSE lo[i]
    BY <1>1, <2>1
  <2>3. Append(lo, z) \in Seq(T) /\ Len(Append(lo, z)) = l
    BY <1>1, <2>1
  <2>4. Append(lo, z) \in Array(l)
    <3> DEFINE qs == Append(lo, z)
    <3>1. qs \in Seq(T) /\ Len(qs) = l
      BY <2>3
    <3> HIDE DEF qs
    <3>2. qs \in Array(l)
      BY <3>1, SeqArray DEF T
    <3> QED BY <3>2 DEF qs
  <2>5. ASSUME NEW i \in 1 .. l
        PROVE  hi[i] = Append(lo, z)[i]
    <3>1. CASE i = l
      BY <1>4, <2>2, <3>1 DEF z
    <3>2. CASE i # l
      <4>1. i \in 1 .. m
        BY <1>1, <3>2
      <4>2. lo[i] = r[k - 1 + i] /\ hi[i] = r[k - 1 + i]
        BY <1>2, <1>3, <4>1
      <4> QED BY <2>2, <3>2, <4>2
    <3> QED BY <3>1, <3>2
  <2> DEFINE qs == Append(lo, z)
  <2>6. qs \in Array(l) /\ \A i \in 1 .. l : hi[i] = qs[i]
    BY <2>4, <2>5
  <2>7. hi \in Array(l) /\ l \in Nat
    BY <1>1, <1>2
  <2> HIDE DEF qs
  <2>8. hi = qs
    BY ONLY <2>6, <2>7, SameArray
  <2> QED BY <2>8 DEF qs, z
<1>6. Value(Append(lo, r[k + m])) = Value(lo) + Power(W, m) * r[k + m]
  BY <1>3, <1>4, AppendValue
<1> QED BY <1>1, <1>2, <1>3, <1>5, <1>6 DEF hi, lo

\* A row: its words, and the place of the carry, which was zero.
LEMMA AddRowType ==
  ASSUME NEW n \in Nat, NEW r \in Array(n), NEW k \in Nat \ {0}, NEW m \in Nat, NEW a \in Array(m),
         k + m <= n, NEW w \in Word
  PROVE  /\ AddRow(r, k, a, w) \in Array(n)
         /\ \A i \in 1 .. n : i > k + m => AddRow(r, k, a, w)[i] = r[i]
         /\ r[k + m] = 0 => Value(AddRow(r, k, a, w)) = Value(r) + Power(W, k - 1) * (Value(a) * w)
<1> DEFINE lo == SubSeq(r, k, k + m - 1)
           hi == SubSeq(r, k, k + m)
           row == MulAdd(a, w, lo)
           l == m + 1
           x == row.words
           y == row.carry
           c == Append(x, y)
           o == Over(r, k, c)
<1>1. Len(a) = m
  BY ArraySeq
<1>2. AddRow(r, k, a, w) = o
  BY <1>1 DEF AddRow
<1>3. /\ lo \in Array(m) /\ hi \in Array(l)
      /\ Value(hi) = Value(lo) + Power(W, m) * r[k + m]
  BY SliceLast
<1>4. x \in Array(m) /\ y \in Word /\ Value(x) + Power(W, m) * y = Value(lo) + Value(a) * w
  <2> HIDE DEF lo
  <2> QED BY <1>3, MulAddValue, MulAddCarryWord
<1> HIDE DEF lo, hi, row, x, y
<1>5. c \in Array(l) /\ Value(c) = Value(x) + Power(W, m) * y
  BY <1>4, AppendValue
<1>6. l \in Nat /\ l = m + 1 /\ k + l - 1 <= n /\ k + l - 1 = k + m
  OBVIOUS
<1> HIDE DEF c, l, o
<1>7. /\ o \in Array(n) /\ \A i \in 1 .. n : i < k \/ i >= k + l => o[i] = r[i]
      /\ Value(o) = Value(r) + Power(W, k - 1) * (Value(c) - Value(SubSeq(r, k, k + l - 1)))
  <2>1. Overwrites(Over(r, k, c), n, r, k, l, c)
    BY ONLY <1>5, <1>6, n \in Nat, r \in Array(n), k \in Nat \ {0}, OverValue
  <2> QED BY <2>1 DEF o, Overwrites
<1>8. \A i \in 1 .. n : i > k + m => o[i] = r[i]
  <2> TAKE i \in 1 .. n
  <2>1. i > k + m => i >= k + l
    BY <1>6
  <2> QED BY <1>7, <2>1
<1>9. ASSUME r[k + m] = 0
      PROVE  Value(c) - Value(SubSeq(r, k, k + l - 1)) = Value(a) * w
  <2> DEFINE s == Power(W, m) * r[k + m]
             t == Power(W, m) * y
             u == Value(a) * w
             vl == Value(lo)
             vx == Value(x)
  <2>1. s = 0
    <3>1. Power(W, m) \in Int
      BY WType, PowerNext
    <3> QED BY <1>9, <3>1
  <2>2. t \in Int /\ u \in Int /\ vl \in Int /\ vx \in Int
    <3>1. Power(W, m) \in Int /\ y \in Int /\ Value(a) \in Int /\ w \in Int
      BY <1>4, WType, PowerNext, ValueBounds DEF Word
    <3> QED BY <1>3, <1>4, <3>1, ValueBounds
  <2>3. SubSeq(r, k, k + l - 1) = hi
    BY <1>6 DEF hi
  <2>4. Value(hi) = vl + s /\ Value(c) = vx + t /\ vx + t = vl + u
    BY <1>3, <1>4, <1>5
  <2> HIDE DEF s, t, u, vl, vx
  <2>5. Value(c) - Value(hi) = u
    BY <2>1, <2>2, <2>4
  <2> QED BY <2>3, <2>5 DEF u
<1> QED BY <1>2, <1>7, <1>8, <1>9

-----------------------------------------------------------------------------
(***************************************************************************)
(* The schoolbook's product.                                               *)
(***************************************************************************)
SchoolRows(a, b) ==
  CHOOSE rows : rows = [j \in 0 .. Len(b) |->
                          IF j = 0 THEN Zeros(Len(a) + Len(b)) ELSE AddRow(rows[j - 1], j, a, b[j])]

\* The rows of Schoolbook obey its loop.
LEMMA SchoolRowsRec ==
  ASSUME NEW m \in Nat, NEW n \in Nat, NEW a \in Array(m), NEW b \in Array(n)
  PROVE  /\ SchoolRows(a, b)[0] = Zeros(m + n)
         /\ \A j \in 1 .. n : SchoolRows(a, b)[j] = AddRow(SchoolRows(a, b)[j - 1], j, a, b[j])
         /\ Schoolbook(a, b) = SchoolRows(a, b)[n]
<1> DEFINE l == m + n
           S == Array(l)
           step == [j \in 1 .. n |-> [s \in S |-> AddRow(s, j, a, b[j])]]
           base == Zeros(l)
           f == SchoolRows(a, b)
<1>1. Len(a) = m /\ Len(b) = n /\ (\A j \in 1 .. n : b[j] \in Word) /\ l \in Nat
  BY ArraySeq
<1>2. base \in S
  BY <1>1, ZerosValue
<1>3. step \in Steps(n, S)
  <2>1. \A j \in 1 .. n, s \in Array(l) : AddRow(s, j, a, b[j]) \in Array(l)
    <3> TAKE j \in 1 .. n, s \in Array(l)
    <3>1. j \in Nat \ {0} /\ j + m <= l
      OBVIOUS
    <3> HIDE DEF l
    <3> QED BY <1>1, <3>1, AddRowType
  <2> HIDE DEF l
  <2> QED BY <2>1 DEF Steps
<1>4. PICK h \in [0 .. n -> S] : Recurs(h, n, base, step)
  <2> HIDE DEF step, S, base
  <2> QED BY ONLY <1>2, <1>3, n \in Nat, RecursionExists
<1>5. h = [j \in 0 .. Len(b) |-> IF j = 0 THEN Zeros(Len(a) + Len(b)) ELSE AddRow(h[j - 1], j, a, b[j])]
  <2>1. ASSUME NEW j \in 1 .. n
        PROVE  h[j] = AddRow(h[j - 1], j, a, b[j])
    <3>1. h[j - 1] \in S
      OBVIOUS
    <3>2. h[j] = step[j][h[j - 1]]
      <4> HIDE DEF step, S, base
      <4> QED BY <1>4 DEF Recurs
    <3> HIDE DEF S
    <3> QED BY <3>1, <3>2
  <2>2. h[0] = base
    BY <1>4 DEF Recurs
  <2>3. Zeros(Len(a) + Len(b)) = base
    BY <1>1
  <2> HIDE DEF base, step, S
  <2> QED BY <1>1, <2>1, <2>2, <2>3
<1>6. f = [j \in 0 .. Len(b) |-> IF j = 0 THEN Zeros(Len(a) + Len(b)) ELSE AddRow(f[j - 1], j, a, b[j])]
  BY <1>5 DEF SchoolRows
<1>7. Schoolbook(a, b) = f[n]
  BY <1>1 DEF Schoolbook, SchoolRows
<1> HIDE DEF f
<1> QED BY <1>1, <1>6, <1>7 DEF f

\* Schoolbook multiplies.
LEMMA SchoolbookValue ==
  ASSUME NEW m \in Nat, NEW n \in Nat, NEW a \in Array(m), NEW b \in Array(n)
  PROVE  Schoolbook(a, b) \in Array(m + n) /\ Value(Schoolbook(a, b)) = Value(a) * Value(b)
<1> DEFINE l == m + n
           f == SchoolRows(a, b)
           Holds(j) == /\ f[j] \in Array(l) /\ Value(f[j]) = Value(a) * Number(W, b, j)
                       /\ \A i \in 1 .. l : i > m + j => f[j][i] = 0
           C == {j \in 0 .. n : Holds(j)}
<1>1. /\ f[0] = Zeros(l) /\ Schoolbook(a, b) = f[n]
      /\ \A j \in 1 .. n : f[j] = AddRow(f[j - 1], j, a, b[j])
  BY SchoolRowsRec
<1>2. (\A j \in 1 .. n : b[j] \in Word) /\ l \in Nat /\ l = m + n /\ Integers0(b, n) /\ Value(a) \in Int
  BY ArraySeq, ArrayDigits, ValueBounds
<1> HIDE DEF f, l
<1>3. 0 \in C
  <2>1. f[0] \in Array(l) /\ Value(f[0]) = 0 /\ Number(W, b, 0) = 0
    BY <1>1, <1>2, ZerosValue, WType, NumberZero
  <2>2. \A i \in 1 .. l : f[0][i] = 0
    BY <1>1 DEF Zeros
  <2>3. Value(a) * 0 = 0
    BY <1>2
  <2> QED BY <2>1, <2>2, <2>3
<1>4. ASSUME NEW j \in 1 .. n, j - 1 \in C
      PROVE  j \in C
  <2> DEFINE r == f[j - 1]
             o == f[j]
             w == b[j]
             k == j
  <2>1. r \in Array(l) /\ Value(r) = Value(a) * Number(W, b, j - 1) /\ \A i \in 1 .. l : i > m + j - 1 => r[i] = 0
    <3>1. \A i : i > m + j - 1 <=> i > m + (j - 1)
      OBVIOUS
    <3> QED BY <1>4, <3>1
  <2>2. k \in Nat \ {0} /\ k + m <= l /\ k + m \in 1 .. l /\ k + m > m + j - 1 /\ w \in Word /\ o = AddRow(r, k, a, w)
    BY <1>1, <1>2
  <2>3. r[k + m] = 0
    BY <2>1, <2>2
  <2> HIDE DEF r, w, k, o
  <2>4. /\ o \in Array(l) /\ \A i \in 1 .. l : i > k + m => o[i] = r[i]
        /\ Value(o) = Value(r) + Power(W, k - 1) * (Value(a) * w)
    BY <1>2, <2>1, <2>2, <2>3, AddRowType
  <2>5. \A i \in 1 .. l : i > m + j => o[i] = 0
    <3> TAKE i \in 1 .. l
    <3>1. i > m + j => i > m + j - 1 /\ i > k + m
      BY DEF k
    <3> QED BY <2>1, <2>4, <3>1
  <2>6. Value(o) = Value(a) * Number(W, b, j)
    <3> DEFINE pw == Power(W, j - 1)
               x == Number(W, b, j - 1)
               va == Value(a)
    <3>1. j \in Nat \ {0} /\ Integers0(b, j)
      BY <1>2 DEF Integers0
    <3>2. Number(W, b, j) = x + w * pw /\ x \in Int /\ w \in Int /\ pw \in Int
      BY <3>1, WType, NumberLast DEF w
    <3>3. Value(o) = va * x + pw * (va * w) /\ va \in Int
      BY <1>2, <2>1, <2>4 DEF k
    <3> HIDE DEF pw, x, va
    <3>4. va * (x + w * pw) = va * x + pw * (va * w)
      <4> DEFINE y == w * pw
      <4>1. y \in Int /\ va * y = pw * (va * w)
        <5>1. va * (w * pw) = (va * w) * pw /\ va * w \in Int /\ w * pw \in Int
          BY <3>2, <3>3, TimesTimes
        <5>2. (va * w) * pw = pw * (va * w)
          BY <3>2, <5>1
        <5> QED BY <5>1, <5>2
      <4> HIDE DEF y
      <4>2. va * (x + y) = va * x + va * y
        BY <3>2, <3>3, <4>1
      <4> QED BY <4>1, <4>2 DEF y
    <3> QED BY <3>2, <3>3, <3>4 DEF va
  <2>7. Holds(j)
    BY <2>4, <2>5, <2>6 DEF o
  <2> HIDE DEF Holds
  <2> QED BY <2>7
<1>5. \A j \in 0 .. n : j \in C
  <2> HIDE DEF C
  <2> QED BY <1>3, <1>4, UpTo
<1>6. n \in C
  <2> HIDE DEF C
  <2> QED BY <1>5
<1>7. Value(b) = Number(W, b, n)
  BY ArrayDigits
<1> QED BY <1>1, <1>6, <1>7 DEF l

-----------------------------------------------------------------------------
(***************************************************************************)
(* The schoolbook's square: twice the products of different words, and the *)
(* squares.                                                                *)
(***************************************************************************)
SqrRows(a) ==
  CHOOSE rows : rows = [j \in 0 .. Len(a) |->
                          IF j <= 1 THEN Zeros(2 * Len(a))
                          ELSE AddRow(rows[j - 1], j, SubSeq(a, 1, j - 1), a[j])]
Squares(a) == [i \in 1 .. 2 * Len(a) |->
                 LET square == a[(i + 1) \div 2] * a[(i + 1) \div 2]
                 IN  IF i % 2 = 1 THEN square % W ELSE square \div W]

\* SchoolbookSqr doubles the mixed products and adds the squares.
LEMMA SchoolbookSqrIs ==
  ASSUME NEW a
  PROVE  SchoolbookSqr(a)
           = Add(Add(SqrRows(a)[Len(a)], SqrRows(a)[Len(a)]).words, Squares(a)).words
BY DEF SchoolbookSqr, SqrRows, Squares

\* The row of the first j - 1 words times the j-th.
LEMMA SqrRow ==
  ASSUME NEW n \in Nat, NEW a \in Array(n), NEW j \in 1 .. n, NEW r \in Array(2 * n)
  PROVE  /\ AddRow(r, j, SubSeq(a, 1, j - 1), a[j]) \in Array(2 * n)
         /\ \A i \in 1 .. 2 * n : i > 2 * j - 1 => AddRow(r, j, SubSeq(a, 1, j - 1), a[j])[i] = r[i]
         /\ r[2 * j - 1] = 0 =>
              Value(AddRow(r, j, SubSeq(a, 1, j - 1), a[j]))
                = Value(r) + Power(W, j - 1) * (Number(W, a, j - 1) * a[j])
<1> DEFINE l == 2 * n
           m == j - 1
           s == SubSeq(a, 1, m)
           w == a[j]
<1>1. m \in Nat /\ l \in Nat /\ j + m <= l /\ j + m = 2 * j - 1 /\ j \in Nat \ {0} /\ n = m + (n - m)
      /\ n - m \in Nat
  OBVIOUS
<1>2. w \in Word /\ Integers0(a, n)
  BY ArraySeq, ArrayDigits
<1>3. s \in Array(m) /\ Value(s) = Number(W, a, m)
  <2>1. 1 + m - 1 <= n /\ 1 + m - 1 = m /\ \A i \in 1 .. m : 1 - 1 + i = i
    BY <1>1
  <2> HIDE DEF m
  <2>2. /\ SubSeq(a, 1, 1 + m - 1) \in Array(m)
        /\ \A i \in 1 .. m : SubSeq(a, 1, 1 + m - 1)[i] = a[1 - 1 + i]
    BY ONLY <1>1, <2>1, a \in Array(n), n \in Nat, 1 \in Nat \ {0}, SliceArray
  <2>3. s \in Array(m) /\ \A i \in 1 .. m : s[i] = a[i]
    BY <2>1, <2>2
  <2> HIDE DEF s
  <2>4. Value(s) = Number(W, s, m) /\ Integers0(s, m)
    BY <1>1, <2>3, ArrayDigits
  <2>5. Number(W, s, m) = Number(W, a, m)
    BY <1>1, <2>3, <2>4, WType, NumberSame
  <2> QED BY <2>3, <2>4, <2>5
<1> HIDE DEF l, m, s, w
<1>4. /\ AddRow(r, j, s, w) \in Array(l)
      /\ \A i \in 1 .. l : i > j + m => AddRow(r, j, s, w)[i] = r[i]
      /\ r[j + m] = 0 => Value(AddRow(r, j, s, w)) = Value(r) + Power(W, j - 1) * (Value(s) * w)
  <2>1. r \in Array(l)
    BY DEF l
  <2> QED BY <1>1, <1>2, <1>3, <2>1, AddRowType
<1>5. (\A i : i > j + m <=> i > 2 * j - 1) /\ r[j + m] = r[2 * j - 1]
  BY <1>1
<1> QED BY <1>3, <1>4, <1>5 DEF l, m, s, w

\* The rows of the mixed products obey the loop.
LEMMA SqrRowsRec ==
  ASSUME NEW n \in Nat, NEW a \in Array(n)
  PROVE  \A j \in 0 .. n :
           SqrRows(a)[j] = IF j <= 1 THEN Zeros(2 * n)
                           ELSE AddRow(SqrRows(a)[j - 1], j, SubSeq(a, 1, j - 1), a[j])
<1> DEFINE l == 2 * n
           S == Array(l)
           base == Zeros(l)
           step == [j \in 1 .. n |-> [s \in S |->
                      IF j <= 1 THEN base ELSE AddRow(s, j, SubSeq(a, 1, j - 1), a[j])]]
           f == SqrRows(a)
<1>1. Len(a) = n /\ l \in Nat
  BY ArraySeq
<1>2. base \in S
  BY <1>1, ZerosValue
<1>3. step \in Steps(n, S)
  <2>1. \A j \in 1 .. n, s \in Array(l) : AddRow(s, j, SubSeq(a, 1, j - 1), a[j]) \in Array(l)
    BY SqrRow
  <2> HIDE DEF l, base
  <2> QED BY <1>2, <2>1 DEF Steps
<1>4. PICK h \in [0 .. n -> S] : Recurs(h, n, base, step)
  <2> HIDE DEF step, S, base
  <2> QED BY ONLY <1>2, <1>3, n \in Nat, RecursionExists
<1>5. h = [j \in 0 .. Len(a) |-> IF j <= 1 THEN Zeros(2 * Len(a))
                                 ELSE AddRow(h[j - 1], j, SubSeq(a, 1, j - 1), a[j])]
  <2>1. ASSUME NEW j \in 1 .. n
        PROVE  h[j] = IF j <= 1 THEN base ELSE AddRow(h[j - 1], j, SubSeq(a, 1, j - 1), a[j])
    <3>1. h[j - 1] \in S
      OBVIOUS
    <3>2. h[j] = step[j][h[j - 1]]
      <4> HIDE DEF step, S, base
      <4> QED BY <1>4 DEF Recurs
    <3> HIDE DEF S, base
    <3> QED BY <3>1, <3>2
  <2>2. h[0] = base
    BY <1>4 DEF Recurs
  <2>3. Zeros(2 * Len(a)) = base
    BY <1>1
  <2> HIDE DEF base, step, S
  <2>4. \A j \in 0 .. n : h[j] = IF j <= 1 THEN base ELSE AddRow(h[j - 1], j, SubSeq(a, 1, j - 1), a[j])
    <3> TAKE j \in 0 .. n
    <3>1. CASE j = 0
      BY <2>2, <3>1
    <3>2. CASE j # 0
      BY <2>1, <3>2
    <3> QED BY <3>1, <3>2
  <2> QED BY <1>1, <2>3, <2>4
<1>6. f = [j \in 0 .. Len(a) |-> IF j <= 1 THEN Zeros(2 * Len(a))
                                 ELSE AddRow(f[j - 1], j, SubSeq(a, 1, j - 1), a[j])]
  BY <1>5 DEF SqrRows
<1> HIDE DEF f
<1> QED BY <1>1, <1>6 DEF f

\* Two words of a square.
LEMMA SquaresArray ==
  ASSUME NEW n \in Nat, NEW a \in Array(n)
  PROVE  /\ Squares(a) \in Array(2 * n)
         /\ \A j \in 1 .. n : /\ Squares(a)[2 * j - 1] = (a[j] * a[j]) % W
                              /\ Squares(a)[2 * j] = (a[j] * a[j]) \div W
<1>1. Len(a) = n /\ \A j \in 1 .. n : a[j] \in Word
  BY ArraySeq
<1>2. ASSUME NEW w \in Word
      PROVE  (w * w) % W \in Word /\ (w * w) \div W \in Word
  <2> DEFINE N == W
             v == w * w
             k == v \div N
             r == v % N
  <2>1. N \in Nat \ {0} /\ w \in 0 .. N - 1
    BY WType DEF Word
  <2> HIDE DEF N
  <2>2. v \in Nat /\ v <= (N - 1) * (N - 1)
    <3>1. w * w <= (N - 1) * w /\ (N - 1) * w <= (N - 1) * (N - 1)
      BY <2>1
    <3> QED BY <2>1, <3>1
  <2>3. (N - 1) * (N - 1) = N * N - N - N + 1 /\ N * N \in Int
    BY <2>1
  <2> HIDE DEF v
  <2>4. r \in 0 .. N - 1 /\ v = N * k + r /\ k \in Nat
    BY <2>1, <2>2, Euclid, DivNat
  <2> HIDE DEF k, r
  <2>5. k < N
    <3>1. N * k \in Int
      BY <2>1, <2>4
    <3>2. v < N * N
      BY <2>1, <2>2, <2>3
    <3>3. r + N * k = v
      BY <2>1, <2>4, <3>1
    <3> QED BY <2>1, <2>2, <2>4, <3>2, <3>3, CarryBound
  <2> QED BY <2>1, <2>4, <2>5 DEF k, r, v, N, Word
<1>3. \A i \in 1 .. 2 * n : (i + 1) \div 2 \in 1 .. n
  OBVIOUS
<1>4. Squares(a) \in Array(2 * n)
  <2> DEFINE sq(i) == LET square == a[(i + 1) \div 2] * a[(i + 1) \div 2]
                      IN  IF i % 2 = 1 THEN square % W ELSE square \div W
  <2>1. \A i \in 1 .. 2 * n : sq(i) \in Word
    <3> TAKE i \in 1 .. 2 * n
    <3> DEFINE w == a[(i + 1) \div 2]
    <3>1. w \in Word
      BY <1>1, <1>3
    <3> HIDE DEF w
    <3>2. (w * w) % W \in Word /\ (w * w) \div W \in Word
      BY <1>2, <3>1
    <3> QED BY <3>2 DEF w
  <2>2. Squares(a) = [i \in 1 .. 2 * n |-> sq(i)]
    BY <1>1 DEF Squares
  <2> HIDE DEF sq
  <2> QED BY <2>1, <2>2 DEF Array
<1>5. ASSUME NEW j \in 1 .. n
      PROVE  /\ Squares(a)[2 * j - 1] = (a[j] * a[j]) % W
             /\ Squares(a)[2 * j] = (a[j] * a[j]) \div W
  <2>1. /\ 2 * j - 1 \in 1 .. 2 * n /\ 2 * j \in 1 .. 2 * n
        /\ ((2 * j - 1) + 1) \div 2 = j /\ (2 * j + 1) \div 2 = j
        /\ (2 * j - 1) % 2 = 1 /\ (2 * j) % 2 = 0
    OBVIOUS
  <2> QED BY <1>1, <2>1 DEF Squares
<1> QED BY <1>4, <1>5

\* (x + u) squared, from what the rows and the squares have so far.
LEMMA SquareOfSum ==
  ASSUME NEW x \in Int, NEW w \in Int, NEW pw \in Int, NEW r \in Int, NEW s \in Int,
         2 * r + s = x * x
  PROVE  2 * (r + pw * (x * w)) + (s + (w * w) * (pw * pw)) = (x + w * pw) * (x + w * pw)
<1> DEFINE u == w * pw
           c == x * u
           d == u * u
<1>1. u \in Int
  OBVIOUS
<1>2. pw * (x * w) = c
  BY TimesTimes
<1>3. (w * w) * (pw * pw) = d
  <2>1. pw * u = w * (pw * pw) /\ w * (pw * pw) \in Int /\ pw * pw \in Int
    BY TimesTimes
  <2>2. (w * w) * (pw * pw) = w * (w * (pw * pw))
    <3> DEFINE z == pw * pw
    <3>1. z \in Int
      OBVIOUS
    <3> HIDE DEF z
    <3>2. (w * w) * z = w * (w * z)
      BY <3>1, TimesTimes
    <3> QED BY <3>2 DEF z
  <2>3. w * (pw * u) = d
    <3> HIDE DEF u
    <3>1. w * (pw * u) = (w * pw) * u
      BY <1>1, TimesTimes
    <3> QED BY <3>1 DEF u
  <2> QED BY <2>1, <2>2, <2>3
<1>4. (x + u) * (x + u) = x * x + 2 * c + d /\ c \in Int /\ d \in Int /\ x * x \in Int
  <2> HIDE DEF u
  <2> QED BY <1>1
<1> DEFINE xx == x * x
<1>5. xx \in Int /\ 2 * r + s = xx
  OBVIOUS
<1>6. (x + u) * (x + u) = xx + 2 * c + d /\ c \in Int /\ d \in Int
  BY <1>4
<1> HIDE DEF c, d, xx, u
<1>7. 2 * (r + c) + (s + d) = xx + 2 * c + d
  BY <1>5, <1>6
<1> QED BY <1>2, <1>3, <1>6, <1>7 DEF u

\* Two more digits of the squares.
LEMMA SquaresNext ==
  ASSUME NEW n \in Nat, NEW a \in Array(n), NEW j \in 1 .. n
  PROVE  /\ Number(W, Squares(a), 2 * j)
              = Number(W, Squares(a), 2 * (j - 1)) + (a[j] * a[j]) * (Power(W, j - 1) * Power(W, j - 1))
         /\ Number(W, Squares(a), 2 * (j - 1)) \in Int
<1> DEFINE sq == Squares(a)
           k == 2 * j
           w == a[j]
           v == w * w
           lo == v % W
           hi == v \div W
           N == W
           pk == Power(W, k - 2)
           x == Number(W, sq, k - 2)
<1>1. sq \in Array(2 * n) /\ sq[k - 1] = lo /\ sq[k] = hi
  BY SquaresArray
<1>2. k \in Nat /\ k >= 2 /\ k <= 2 * n /\ k - 2 = 2 * (j - 1) /\ 2 * n \in Nat
  OBVIOUS
<1>3. lo \in Int /\ hi \in Int /\ v = lo + N * hi /\ N \in Int /\ v \in Int
  <2>1. w \in Nat
    BY ArraySeq, WType DEF Word
  <2>2. v \in Int
    <3> HIDE DEF w
    <3> QED BY <2>1
  <2> HIDE DEF v
  <2>3. lo \in Int /\ hi \in Int /\ v = W * hi + lo
    BY <2>2, WType, Euclid
  <2>4. W * hi \in Int /\ N \in Int
    BY <2>3, WType
  <2> QED BY <2>2, <2>3, <2>4
<1> HIDE DEF sq, lo, hi, v, k, w
<1>4. Integers0(sq, 2 * n)
  BY <1>1, <1>2, ArrayDigits
<1>5. Integers0(sq, k) /\ Integers0(sq, k - 1) /\ k - 1 \in Nat /\ k - 2 \in Nat
  BY <1>2, <1>4 DEF Integers0
<1>6. Number(W, sq, k) = Number(W, sq, k - 1) + hi * Power(W, k - 1)
  <2>1. k \in Nat \ {0}
    BY <1>2
  <2> QED BY <1>1, <1>5, <2>1, WType, NumberLast
<1>7. Number(W, sq, k - 1) = x + lo * pk
  <2> DEFINE l == k - 1
  <2>1. l \in Nat \ {0} /\ l - 1 = k - 2 /\ l = k - 1
    BY <1>2
  <2> HIDE DEF l
  <2>2. Number(W, sq, l) = Number(W, sq, l - 1) + sq[l] * Power(W, l - 1)
    BY <1>5, <2>1, WType, NumberLast
  <2> QED BY <1>1, <2>1, <2>2
<1>8. Power(W, k - 1) = N * pk /\ pk \in Int
  <2>1. (k - 2) + 1 = k - 1 /\ k - 2 \in Nat
    BY <1>2
  <2>2. Power(W, (k - 2) + 1) = W * Power(W, k - 2) /\ Power(W, k - 2) \in Int
    BY <2>1, WType, PowerNext
  <2> QED BY <2>1, <2>2
<1>9. pk = Power(W, j - 1) * Power(W, j - 1)
  <2> DEFINE i == j - 1
  <2>1. i \in Nat /\ k - 2 = i + i
    BY <1>2
  <2> HIDE DEF i
  <2>2. Power(W, i + i) = Power(W, i) * Power(W, i)
    BY <2>1, WType, PowerPlus
  <2> QED BY <2>1, <2>2 DEF i
<1>10. x \in Int
  <2>1. Integers0(sq, k - 2) /\ k - 2 \in Nat
    BY <1>2, <1>4, <1>5 DEF Integers0
  <2> QED BY <2>1, WType, NumberInt
<1>11. Number(W, sq, k) = x + v * pk
  <2>1. Number(W, sq, k) = (x + lo * pk) + hi * (N * pk)
    BY <1>6, <1>7, <1>8
  <2> HIDE DEF x, pk, N
  <2>2. hi * (N * pk) = (N * hi) * pk /\ N * hi \in Int
    BY <1>3, <1>8, TimesTimes
  <2> DEFINE z == N * hi
  <2>3. (lo + z) * pk = lo * pk + z * pk /\ lo * pk \in Int /\ z * pk \in Int
    <3>1. z \in Int
      BY <2>2
    <3> HIDE DEF z
    <3> QED BY <1>3, <1>8, <3>1
  <2>4. v = lo + z /\ Number(W, sq, k) = (x + lo * pk) + z * pk
    BY <1>3, <2>1, <2>2
  <2> HIDE DEF z
  <2> DEFINE g == lo * pk
             h == z * pk
  <2>5. Number(W, sq, k) = (x + g) + h /\ v * pk = g + h /\ g \in Int /\ h \in Int
    BY <2>3, <2>4
  <2> HIDE DEF g, h
  <2> QED BY <1>10, <2>5
<1> QED BY <1>2, <1>9, <1>10, <1>11 DEF sq, k, v, w, x

\* SchoolbookSqr squares.
LEMMA SchoolbookSqrValue ==
  ASSUME NEW n \in Nat, NEW a \in Array(n)
  PROVE  SchoolbookSqr(a) \in Array(2 * n) /\ Value(SchoolbookSqr(a)) = Value(a) * Value(a)
<1> DEFINE l == 2 * n
           f == SqrRows(a)
           sq == Squares(a)
           V(j) == Number(W, a, j)
           Holds(j) == /\ f[j] \in Array(l)
                       /\ \A i \in 1 .. l : i > 2 * j - 1 => f[j][i] = 0
                       /\ 2 * Value(f[j]) + Number(W, sq, 2 * j) = V(j) * V(j)
           C == {j \in 0 .. n : Holds(j)}
<1>1. \A j \in 0 .. n : f[j] = IF j <= 1 THEN Zeros(l) ELSE AddRow(f[j - 1], j, SubSeq(a, 1, j - 1), a[j])
  BY SqrRowsRec
<1>2. sq \in Array(l) /\ l \in Nat /\ l = 2 * n
  BY SquaresArray
<1>3. Zeros(l) \in Array(l) /\ Value(Zeros(l)) = 0 /\ \A i \in 1 .. l : Zeros(l)[i] = 0
  <2>1. \A i \in 1 .. l : Zeros(l)[i] = 0
    BY DEF Zeros
  <2> HIDE DEF l
  <2> QED BY <1>2, <2>1, ZerosValue
<1> HIDE DEF f, l
<1>4. 0 \in C
  <2>1. f[0] = Zeros(l)
    BY <1>1
  <2>2. Number(W, sq, 2 * 0) = 0 /\ V(0) = 0
    BY WType, NumberZero
  <2> HIDE DEF sq, V
  <2> QED BY <1>3, <2>1, <2>2
<1>5. ASSUME NEW j \in 1 .. n, j - 1 \in C
      PROVE  j \in C
  <2> DEFINE r == f[j - 1]
             w == a[j]
             o == AddRow(r, j, SubSeq(a, 1, j - 1), w)
             x == V(j - 1)
             pw == Power(W, j - 1)
             s == Number(W, sq, 2 * (j - 1))
  <2>1. /\ r \in Array(l) /\ 2 * Value(r) + s = x * x
        /\ \A i \in 1 .. l : i > 2 * j - 3 => r[i] = 0
    <3>1. \A i : i > 2 * j - 3 <=> i > 2 * (j - 1) - 1
      OBVIOUS
    <3> QED BY <1>5, <3>1
  <2>2. 2 * j - 1 \in 1 .. l /\ 2 * j - 1 > 2 * j - 3
    BY <1>2
  <2>3. /\ o \in Array(l) /\ \A i \in 1 .. l : i > 2 * j - 1 => o[i] = r[i]
        /\ Value(o) = Value(r) + pw * (x * w)
    <3>1. r \in Array(2 * n) /\ r[2 * j - 1] = 0
      BY <1>2, <2>1, <2>2
    <3> HIDE DEF r
    <3> QED BY <1>2, <3>1, SqrRow
  <2>4. f[j] \in Array(l) /\ (\A i \in 1 .. l : i > 2 * j - 1 => f[j][i] = 0) /\ Value(f[j]) = Value(o)
    <3>1. \A i \in 1 .. l : i > 2 * j - 1 => o[i] = 0
      <4> HIDE DEF o
      <4> QED BY <2>1, <2>3
    <3>2. CASE j # 1
      <4>1. f[j] = o
        BY <1>1, <3>2
      <4> HIDE DEF o
      <4> QED BY <2>3, <3>1, <4>1
    <3>3. CASE j = 1
      <4>1. f[j] = Zeros(l) /\ r = Zeros(l)
        BY <1>1, <3>3
      <4>2. x = 0
        BY <3>3, WType, NumberZero
      <4>3. w \in Int /\ pw \in Int
        <5>1. w \in Int
          BY ArraySeq
        <5>2. j - 1 \in Nat
          OBVIOUS
        <5>3. pw \in Int
          BY <5>2, WType, PowerNext
        <5> QED BY <5>1, <5>3
      <4>4. pw * (x * w) = 0
        <5> HIDE DEF x, w, pw
        <5> QED BY <4>2, <4>3
      <4>5. Value(o) = 0
        <5> HIDE DEF o, x, w, pw, r
        <5> QED BY <1>3, <2>3, <4>1, <4>4
      <4> HIDE DEF o, r
      <4> QED BY <1>3, <4>1, <4>5
    <3> QED BY <3>2, <3>3
  <2>5. /\ V(j) = x + w * pw /\ x \in Int /\ w \in Int /\ pw \in Int
        /\ Number(W, sq, 2 * j) = s + (w * w) * (pw * pw) /\ s \in Int
    <3>1. j \in Nat \ {0} /\ Integers0(a, j)
      <4>1. Integers0(a, n)
        BY ArrayDigits
      <4> QED BY <4>1 DEF Integers0
    <3> QED BY <3>1, WType, NumberLast, SquaresNext
  <2>6. Value(r) \in Int
    BY <1>2, <2>1, ValueBounds
  <2>7. 2 * Value(f[j]) + Number(W, sq, 2 * j) = V(j) * V(j)
    <3> DEFINE vr == Value(r)
    <3> HIDE DEF x, w, pw, s, V, sq, vr, o
    <3>1. 2 * vr + s = x * x /\ vr \in Int
      BY <2>1, <2>6 DEF vr
    <3>2. 2 * (vr + pw * (x * w)) + (s + (w * w) * (pw * pw)) = (x + w * pw) * (x + w * pw)
      BY ONLY <2>5, <3>1, SquareOfSum
    <3> QED BY <2>3, <2>4, <2>5, <3>2 DEF vr
  <2>8. Holds(j)
    BY <2>4, <2>7
  <2> HIDE DEF Holds
  <2> QED BY <2>8
<1>6. n \in C
  <2>1. \A j \in 0 .. n : j \in C
    <3> HIDE DEF C
    <3> QED BY <1>4, <1>5, UpTo
  <2> HIDE DEF C
  <2> QED BY <2>1
<1> DEFINE c == f[n]
           va == Value(a)
           vc == Value(c)
           vs == Value(sq)
           pl == Power(W, l)
           d == Add(c, c).words
           e == Add(d, sq).words
<1>7. c \in Array(l) /\ 2 * vc + vs = va * va
  BY <1>2, <1>6, ArrayDigits DEF l
<1>8. SchoolbookSqr(a) = e
  <2>1. Len(a) = n
    BY ArraySeq
  <2> QED BY <2>1, SchoolbookSqrIs DEF f
<1>9. va * va < pl /\ va * va \in Nat
  <2> DEFINE pn == Power(W, n)
  <2>1. va \in 0 .. pn - 1 /\ pn \in Nat
    BY ValueBounds, WType, PowerPositive
  <2>2. pl = pn * pn
    <3>1. n + n = l
      BY <1>2
    <3>2. Power(W, n + n) = Power(W, n) * Power(W, n)
      BY WType, PowerPlus
    <3> QED BY <3>1, <3>2
  <2> HIDE DEF va, pn, pl
  <2>3. va * va <= (pn - 1) * va /\ (pn - 1) * va <= (pn - 1) * (pn - 1)
    BY <2>1
  <2>4. (pn - 1) * (pn - 1) = pn * pn - pn - pn + 1 /\ pn >= 1 /\ va * va \in Nat
    BY <2>1
  <2> QED BY <2>1, <2>2, <2>3, <2>4
<1> HIDE DEF c, sq, va, vc, vs, pl, d, e
<1>10. vc \in Nat /\ vs \in Nat /\ pl \in Nat \ {0}
  BY <1>2, <1>7, ValueBounds, WType, PowerPositive DEF vc, vs, pl
<1>11. d \in Array(l) /\ Value(d) = 2 * vc
  <2> DEFINE g == Add(c, c).carry
             vd == Value(d)
  <2>1. d \in Array(l) /\ g \in {0, 1} /\ vd + pl * g = vc + vc
    BY <1>2, <1>7, AddCarryBit DEF d, vc, pl
  <2>2. vd \in Nat
    BY <1>2, <2>1, ValueBounds
  <2> DEFINE vv == va * va
  <2>3. vv \in Nat /\ 2 * vc + vs = vv /\ vv < pl
    BY <1>7, <1>9
  <2> HIDE DEF g, vd, vv
  <2>4. g = 1 => vd + pl = vc + vc
    BY <1>10, <2>1
  <2>5. g = 0
    BY <1>10, <2>1, <2>2, <2>3, <2>4
  <2>6. pl * g = 0
    BY <1>10, <2>5
  <2>7. vd = 2 * vc
    BY <1>10, <2>1, <2>2, <2>6
  <2> QED BY <2>1, <2>7 DEF vd
<1>12. e \in Array(l) /\ Value(e) = va * va
  <2> DEFINE g == Add(d, sq).carry
             ve == Value(e)
  <2>1. e \in Array(l) /\ g \in {0, 1} /\ ve + pl * g = 2 * vc + vs
    BY <1>2, <1>11, AddCarryBit DEF e, vs, pl
  <2>2. ve \in Nat
    BY <1>2, <2>1, ValueBounds
  <2> DEFINE vv == va * va
  <2>3. vv \in Nat /\ 2 * vc + vs = vv /\ vv < pl
    BY <1>7, <1>9
  <2> HIDE DEF g, ve, vv
  <2>4. g = 1 => ve + pl = 2 * vc + vs
    BY <1>10, <2>1
  <2>5. g = 0
    BY <1>10, <2>1, <2>2, <2>3, <2>4
  <2>6. pl * g = 0
    BY <1>10, <2>5
  <2>7. ve = vv
    BY <1>10, <2>1, <2>2, <2>3, <2>6
  <2> QED BY <2>1, <2>7 DEF ve, vv
<1> QED BY <1>8, <1>12 DEF l, va

-----------------------------------------------------------------------------
(***************************************************************************)
(* Karatsuba's product.                                                    *)
(***************************************************************************)
LEMMA DistanceValue ==
  ASSUME NEW n \in Nat, NEW a \in Array(n), NEW b \in Array(n)
  PROVE  /\ Distance(a, b) \in Array(n)
         /\ Value(Distance(a, b)) = IF Value(a) < Value(b) THEN Value(b) - Value(a) ELSE Value(a) - Value(b)
<1>1. CASE Sub(a, b).carry = 1
  <2>1. Value(a) < Value(b) /\ Value(a) \in Nat /\ Value(b) \in Nat
    BY <1>1, SubLess, ValueBounds
  <2>2. Sub(b, a).words \in Array(n) /\ (Value(b) >= Value(a) => Value(Sub(b, a).words) = Value(b) - Value(a))
    BY SubLess, SubValue
  <2> QED BY <1>1, <2>1, <2>2 DEF Distance
<1>2. CASE Sub(a, b).carry # 1
  <2>1. ~(Value(a) < Value(b)) /\ Value(a) \in Nat /\ Value(b) \in Nat
    BY <1>2, SubLess, ValueBounds
  <2>2. Sub(a, b).words \in Array(n) /\ (Value(a) >= Value(b) => Value(Sub(a, b).words) = Value(a) - Value(b))
    BY SubLess, SubValue
  <2> QED BY <1>2, <2>1, <2>2 DEF Distance
<1> QED BY <1>1, <1>2

\* One digit, and zeros above it.
LEMMA SingleDigit ==
  ASSUME NEW n \in Nat \ {0}, NEW x \in Nat
  PROVE  /\ Naturals0(Over(Zeros(n), 1, <<x>>), n)
         /\ Number(W, Over(Zeros(n), 1, <<x>>), n) = x
         /\ x \in Word => Over(Zeros(n), 1, <<x>>) \in Array(n)
<1> DEFINE o == Over(Zeros(n), 1, <<x>>)
           m == n - 1
           z == Zeros(m)
<1>1. o = [i \in 1 .. n |-> IF i = 1 THEN x ELSE 0]
  BY DEF Over, Zeros
<1>2. m \in Nat /\ n = m + 1
  OBVIOUS
<1>3. o[1] = x /\ \A i \in 1 .. m : z[i] = o[i + 1]
  BY <1>1 DEF Zeros
<1>4. Integers0(o, n) /\ Naturals0(o, n)
  BY <1>1 DEF Integers0, Naturals0
<1>5. x \in Word => o \in Array(n)
  BY <1>1, WType DEF Array, Word
<1> HIDE DEF o, m, z
<1>6. Number(W, o, m + 1) = o[1] + W * Number(W, z, m)
  <2>1. W \in Int /\ Integers0(o, m + 1) /\ \A i \in 1 .. m : z[i] = o[i + 1]
    BY <1>2, <1>3, <1>4, WType
  <2> QED BY ONLY <1>2, <2>1, NumberFirst
<1>7. Number(W, z, m) = 0
  <2>1. z \in Array(m) /\ Value(z) = 0
    BY <1>2, ZerosValue DEF z
  <2> QED BY <1>2, <2>1, ArrayDigits
<1>8. Number(W, o, n) = x
  <2>1. W * 0 = 0
    BY WType
  <2> QED BY <1>2, <1>3, <1>6, <1>7, <2>1
<1> QED BY <1>4, <1>5, <1>8 DEF o

\* The middle as it comes out: the words, and what is over.
Middle(low, high, product, negative) ==
  LET sum == Add(low, high)
      middle == IF negative THEN Add(sum.words, product) ELSE Sub(sum.words, product)
  IN  [words |-> middle.words,
       over |-> IF negative THEN sum.carry + middle.carry ELSE sum.carry - middle.carry]

\* The middle of Karatsuba, with its carry, is the middle of the product.
LEMMA MiddleValue ==
  ASSUME NEW n \in Nat, NEW low \in Array(n), NEW high \in Array(n), NEW product \in Array(n),
         NEW negative \in BOOLEAN, NEW m \in Nat,
         m = IF negative THEN Value(low) + Value(high) + Value(product)
                         ELSE Value(low) + Value(high) - Value(product)
  PROVE  /\ Middle(low, high, product, negative).words \in Array(n)
         /\ Middle(low, high, product, negative).over \in Nat
         /\ Value(Middle(low, high, product, negative).words)
              + Power(W, n) * Middle(low, high, product, negative).over = m
<1> DEFINE s == Add(low, high).words
           cs == Add(low, high).carry
           pn == Power(W, n)
           vs == Value(s)
           vl == Value(low)
           vh == Value(high)
           vd == Value(product)
<1>1. s \in Array(n) /\ cs \in {0, 1} /\ vs + pn * cs = vl + vh
  BY AddCarryBit
<1>2. pn \in Nat \ {0} /\ vs \in Nat /\ vl \in Nat /\ vh \in Nat /\ vd \in Nat
  BY <1>1, WType, PowerPositive, ValueBounds
<1> HIDE DEF s, cs, pn, vs, vl, vh, vd
<1>3. CASE negative
  <2> DEFINE w == Add(s, product).words
             c == Add(s, product).carry
             x == Value(w)
  <2>1. w \in Array(n) /\ c \in {0, 1} /\ x + pn * c = vs + vd
    BY <1>1, AddCarryBit DEF pn, vs, vd
  <2>2. Middle(low, high, product, negative) = [words |-> w, over |-> cs + c]
    BY <1>3 DEF Middle, s, cs
  <2>3. x \in Nat
    BY <2>1, ValueBounds
  <2>4. m = vl + vh + vd
    BY <1>3 DEF vl, vh, vd
  <2> HIDE DEF w, c, x
  <2>5. x + pn * (cs + c) = m /\ cs + c \in Nat
    <3>1. pn * (cs + c) = pn * cs + pn * c /\ pn * cs \in Int /\ pn * c \in Int
      BY <1>1, <1>2, <2>1
    <3> QED BY <1>1, <1>2, <2>1, <2>3, <2>4, <3>1
  <2> QED BY <2>1, <2>2, <2>5 DEF x, pn
<1>4. CASE ~negative
  <2> DEFINE w == Sub(s, product).words
             c == Sub(s, product).carry
             x == Value(w)
  <2>1. w \in Array(n) /\ c \in {0, 1} /\ x = vs - vd + pn * c
    BY <1>1, SubValue DEF pn, vs, vd
  <2>2. Middle(low, high, product, negative) = [words |-> w, over |-> cs - c]
    BY <1>4 DEF Middle, s, cs
  <2>3. x \in 0 .. pn - 1
    BY <2>1, ValueBounds DEF pn
  <2>4. m = vl + vh - vd
    BY <1>4 DEF vl, vh, vd
  <2> HIDE DEF w, c, x
  <2>5. x + pn * (cs - c) = m /\ cs - c \in Int
    <3>1. pn * (cs - c) = pn * cs - pn * c /\ pn * cs \in Int /\ pn * c \in Int
      BY <1>1, <1>2, <2>1
    <3> QED BY <1>1, <1>2, <2>1, <2>3, <2>4, <3>1
  <2>6. cs - c # -1
    <3> SUFFICES ASSUME cs - c = -1 PROVE FALSE
      OBVIOUS
    <3>1. pn * (cs - c) = -pn
      BY <1>2
    <3> QED BY <1>2, <2>3, <2>5, <3>1
  <2>7. cs - c \in Nat
    BY <1>1, <2>1, <2>6
  <2> QED BY <2>1, <2>2, <2>5, <2>7 DEF x, pn
<1> QED BY <1>3, <1>4

\* Together puts the middle over the two halves, carries included.
LEMMA TogetherIs ==
  ASSUME NEW low, NEW high, NEW product, NEW negative
  PROVE  Together(low, high, product, negative) =
           LET n == Len(low)
               middle == Middle(low, high, product, negative)
               halves == low \o high
               added == Add(SubSeq(halves, n \div 2 + 1, n \div 2 + n), middle.words)
               top == Add(SubSeq(halves, n + n \div 2 + 1, 2 * n),
                          Over(Zeros(n \div 2), 1, <<middle.over + added.carry>>))
           IN  SubSeq(halves, 1, n \div 2) \o added.words \o top.words
BY DEF Together, Middle

\* Three parts of an array.
LEMMA SplitThree ==
  ASSUME NEW j \in Nat, NEW m \in Nat, NEW l \in Nat, NEW r \in Nat, NEW n \in Nat,
         l = j + m, n = l + r, NEW a \in Array(n)
  PROVE  /\ SubSeq(a, 1, j) \in Array(j) /\ SubSeq(a, j + 1, l) \in Array(m) /\ SubSeq(a, l + 1, n) \in Array(r)
         /\ Value(a) = Value(SubSeq(a, 1, j))
                       + Power(W, j) * (Value(SubSeq(a, j + 1, l)) + Power(W, m) * Value(SubSeq(a, l + 1, n)))
<1> DEFINE x == SubSeq(a, 1, j)
           y == SubSeq(a, j + 1, l)
           z == SubSeq(a, l + 1, n)
<1>1. x \in Array(j) /\ \A i \in 1 .. j : x[i] = a[i]
  <2>1. 1 + j - 1 <= n /\ 1 + j - 1 = j /\ \A i \in 1 .. j : 1 - 1 + i = i
    OBVIOUS
  <2>2. SubSeq(a, 1, 1 + j - 1) \in Array(j) /\ \A i \in 1 .. j : SubSeq(a, 1, 1 + j - 1)[i] = a[1 - 1 + i]
    BY ONLY <2>1, a \in Array(n), n \in Nat, j \in Nat, 1 \in Nat \ {0}, SliceArray
  <2> QED BY <2>1, <2>2
<1>2. y \in Array(m) /\ \A i \in 1 .. m : y[i] = a[j + i]
  <2> DEFINE k == j + 1
  <2>1. k \in Nat \ {0} /\ k + m - 1 <= n /\ k + m - 1 = l /\ \A i \in 1 .. m : k - 1 + i = j + i
    OBVIOUS
  <2>2. k = j + 1
    OBVIOUS
  <2> HIDE DEF k
  <2>3. SubSeq(a, k, k + m - 1) \in Array(m) /\ \A i \in 1 .. m : SubSeq(a, k, k + m - 1)[i] = a[k - 1 + i]
    BY ONLY <2>1, a \in Array(n), n \in Nat, m \in Nat, SliceArray
  <2> QED BY <2>1, <2>2, <2>3
<1>3. z \in Array(r) /\ \A i \in 1 .. r : z[i] = a[l + i]
  <2> DEFINE k == l + 1
  <2>1. k \in Nat \ {0} /\ k + r - 1 <= n /\ k + r - 1 = n /\ \A i \in 1 .. r : k - 1 + i = l + i
    OBVIOUS
  <2>2. k = l + 1
    OBVIOUS
  <2> HIDE DEF k
  <2>3. SubSeq(a, k, k + r - 1) \in Array(r) /\ \A i \in 1 .. r : SubSeq(a, k, k + r - 1)[i] = a[k - 1 + i]
    BY ONLY <2>1, a \in Array(n), n \in Nat, r \in Nat, SliceArray
  <2> QED BY <2>1, <2>2, <2>3
<1> HIDE DEF x, y, z
<1>4. Part(y, a, j, m) /\ Part(z, a, l, r)
  BY <1>2, <1>3 DEF Part
<1>5. /\ Integers0(a, n) /\ Value(a) = Number(W, a, n) /\ Integers0(x, j) /\ Value(x) = Number(W, x, j)
      /\ Value(y) = Number(W, y, m) /\ Value(z) = Number(W, z, r) /\ W \in Int
  BY <1>1, <1>2, <1>3, ArrayDigits, WType
<1>6. Parts(W, a, n, j, y, m, z, r)
  BY ONLY <1>4, <1>5, n \in Nat, j \in Nat, l \in Nat, m \in Nat, r \in Nat, l = j + m, n = l + r, NumberThree
<1>7. Number(W, x, j) = Number(W, a, j)
  BY ONLY <1>1, <1>5, j \in Nat, NumberSame
<1> QED BY <1>1, <1>2, <1>3, <1>5, <1>6, <1>7 DEF x, y, z, Parts

\* The sum of what is put together.
LEMMA TogetherSum ==
  ASSUME NEW B \in Int, NEW N \in Int, NEW x0 \in Int, NEW x \in Int, NEW x1 \in Int,
         NEW l \in Int, NEW h \in Int, NEW m \in Int, NEW vm \in Int, NEW over \in Int,
         NEW va \in Int, NEW ca \in Int, NEW vt \in Int, NEW ct \in Int,
         l + N * h = x0 + B * (x + N * x1), vm + N * over = m, va + N * ca = x + vm,
         vt + B * ct = x1 + (over + ca)
  PROVE  (x0 + B * va) + (B * N) * vt + (B * N * B) * ct = l + B * m + N * h
<1>1. va = x + vm - N * ca /\ vt = x1 + over + ca - B * ct
  OBVIOUS
<1>2. (x0 + B * (x + vm - N * ca)) + (B * N) * (x1 + over + ca - B * ct) + (B * N * B) * ct
        = (x0 + B * (x + N * x1)) + B * (vm + N * over)
  OBVIOUS
<1>3. (x0 + B * (x + N * x1)) + B * (vm + N * over) = (l + N * h) + B * m
  OBVIOUS
<1>4. (l + N * h) + B * m = l + B * m + N * h
  OBVIOUS
<1> QED BY <1>1, <1>2, <1>3, <1>4

\* A sum that fits leaves no carry.
LEMMA NoCarry ==
  ASSUME NEW N \in Nat \ {0}, NEW x \in Nat, NEW c \in Nat, x + N * c < N
  PROVE  c = 0 /\ N * c = 0
<1>1. c < 1
  <2> SUFFICES ASSUME c >= 1 PROVE FALSE
    OBVIOUS
  <2>1. N * c >= N * 1
    OBVIOUS
  <2> QED BY <2>1
<1> QED BY <1>1

\* t = m + n words, one array after the other.
Joins(ac, a, m, c, n, t) == ac \in Array(t) /\ Value(ac) = Value(a) + Power(W, m) * Value(c)

\* A concatenation is worth its two parts.
LEMMA ConcatJoins ==
  ASSUME NEW m \in Nat, NEW n \in Nat, NEW t \in Nat, t = m + n, NEW a \in Array(m), NEW c \in Array(n)
  PROVE  Joins(a \o c, a, m, c, n, t)
BY ConcatValue DEF Joins

\* The middle product, from the others and that of the distances; and the whole.
IsMiddle(m, low, high, product, negative) ==
  m = IF negative THEN Value(low) + Value(high) + Value(product)
                  ELSE Value(low) + Value(high) - Value(product)
WholeValue(low, m, high, h, n) == Value(low) + Power(W, h) * m + Power(W, n) * Value(high)

\* What Together returns is worth the three parts at their places.
LEMMA TogetherValue ==
  ASSUME NEW h \in Nat \ {0}, NEW n \in Nat, n = 2 * h,
         NEW low \in Array(n), NEW high \in Array(n), NEW product \in Array(n),
         NEW negative \in BOOLEAN, NEW m \in Nat, IsMiddle(m, low, high, product, negative),
         WholeValue(low, m, high, h, n) < Power(W, 2 * n)
  PROVE  /\ Together(low, high, product, negative) \in Array(2 * n)
         /\ Value(Together(low, high, product, negative)) = WholeValue(low, m, high, h, n)
<1> DEFINE B == Power(W, h)
           N == Power(W, n)
           halves == low \o high
           x0 == SubSeq(halves, 1, h)
           x == SubSeq(halves, h + 1, h + n)
           x1 == SubSeq(halves, h + n + 1, 2 * n)
           middle == Middle(low, high, product, negative)
           added == Add(x, middle.words)
           extra == middle.over + added.carry
           up == Over(Zeros(h), 1, <<extra>>)
           top == Add(x1, up)
           result == x0 \o added.words \o top.words
<1>1. Together(low, high, product, negative) = result
  <2>1. Len(low) = n /\ n \div 2 = h
    BY ArraySeq
  <2>2. h + 1 = n \div 2 + 1 /\ h + n = n \div 2 + n /\ h + n + 1 = n + n \div 2 + 1
    BY <2>1
  <2>3. Together(low, high, product, negative)
          = SubSeq(halves, 1, n \div 2)
            \o Add(SubSeq(halves, n \div 2 + 1, n \div 2 + n), middle.words).words
            \o Add(SubSeq(halves, n + n \div 2 + 1, 2 * n),
                   Over(Zeros(n \div 2), 1,
                        <<middle.over + Add(SubSeq(halves, n \div 2 + 1, n \div 2 + n), middle.words).carry>>)).words
    BY <2>1, TogetherIs
  <2> HIDE DEF middle
  <2> QED BY <2>1, <2>2, <2>3
<1>2. B \in Nat \ {0} /\ N \in Nat \ {0} /\ N = B * B /\ Power(W, h + n) = B * N /\ Power(W, 2 * n) = B * N * B
  <2>1. n \in Nat /\ h \in Nat /\ h + h = n /\ h + n \in Nat /\ (h + n) + h = 2 * n
    OBVIOUS
  <2>2. B \in Nat \ {0} /\ N \in Nat \ {0}
    BY <2>1, WType, PowerPositive
  <2>3. Power(W, h + h) = Power(W, h) * Power(W, h) /\ Power(W, h + n) = Power(W, h) * Power(W, n)
    BY <2>1, WType, PowerPlus
  <2>4. Power(W, (h + n) + h) = Power(W, h + n) * Power(W, h)
    <3> DEFINE k == h + n
    <3>1. k \in Nat
      OBVIOUS
    <3> HIDE DEF k
    <3>2. Power(W, k + h) = Power(W, k) * Power(W, h)
      BY <3>1, <2>1, WType, PowerPlus
    <3> QED BY <3>2 DEF k
  <2> QED BY <2>1, <2>2, <2>3, <2>4
<1>3. halves \in Array(2 * n) /\ Value(halves) = Value(low) + N * Value(high)
  <2>1. halves \in Array(n + n) /\ n + n = 2 * n /\ Value(halves) = Value(low) + N * Value(high)
    BY ConcatValue
  <2> QED BY <2>1
<1> HIDE DEF halves
<1>4. /\ x0 \in Array(h) /\ x \in Array(n) /\ x1 \in Array(h)
      /\ Value(halves) = Value(x0) + B * (Value(x) + N * Value(x1))
  <2> DEFINE l == h + n
             t == 2 * n
  <2>1. l \in Nat /\ t \in Nat /\ t = l + h /\ l = h + n /\ h \in Nat /\ halves \in Array(t)
    BY <1>3
  <2> HIDE DEF l, t
  <2>2. /\ SubSeq(halves, 1, h) \in Array(h) /\ SubSeq(halves, h + 1, l) \in Array(n)
        /\ SubSeq(halves, l + 1, t) \in Array(h)
        /\ Value(halves) = Value(SubSeq(halves, 1, h))
             + Power(W, h) * (Value(SubSeq(halves, h + 1, l)) + Power(W, n) * Value(SubSeq(halves, l + 1, t)))
    BY ONLY <2>1, n \in Nat, SplitThree
  <2> QED BY <2>1, <2>2 DEF l, t
<1>5. middle.words \in Array(n) /\ middle.over \in Nat /\ Value(middle.words) + N * middle.over = m
  BY MiddleValue DEF IsMiddle
<1> HIDE DEF x0, x, x1, middle
<1>6. added.words \in Array(n) /\ added.carry \in {0, 1} /\ Value(added.words) + N * added.carry = Value(x) + Value(middle.words)
  BY <1>4, <1>5, AddCarryBit
<1> HIDE DEF added
<1>7. extra \in Nat /\ extra = middle.over + added.carry
  BY <1>5, <1>6
<1> HIDE DEF extra
<1>8. Naturals0(up, h) /\ Number(W, up, h) = extra
  BY <1>7, SingleDigit
<1> HIDE DEF up
<1>9. top.words \in Array(h) /\ top.carry \in Nat /\ Value(top.words) + B * top.carry = Value(x1) + extra
  BY <1>4, <1>8, AddValue
<1> HIDE DEF top
<1>10. result \in Array(2 * n) /\ Value(result) = (Value(x0) + B * Value(added.words)) + (B * N) * Value(top.words)
  <2> DEFINE aw == added.words
             tw == top.words
             xa == x0 \o aw
             l == h + n
             t == 2 * n
  <2>1. aw \in Array(n) /\ tw \in Array(h) /\ l \in Nat /\ l = h + n /\ t \in Nat /\ t = l + h
        /\ Power(W, l) = B * N /\ x0 \in Array(h)
    BY <1>2, <1>4, <1>6, <1>9
  <2> HIDE DEF aw, tw, l, t
  <2>2. Joins(xa, x0, h, aw, n, l)
    BY ONLY <2>1, h \in Nat \ {0}, n \in Nat, ConcatJoins
  <2>3. xa \in Array(l) /\ Value(xa) = Value(x0) + B * Value(aw)
    BY <2>2 DEF Joins
  <2> HIDE DEF xa
  <2>4. Joins(xa \o tw, xa, l, tw, h, t)
    BY ONLY <2>1, <2>3, h \in Nat \ {0}, ConcatJoins
  <2>5. xa \o tw \in Array(t) /\ Value(xa \o tw) = Value(xa) + Power(W, l) * Value(tw)
    BY <2>4 DEF Joins
  <2>6. result = xa \o tw
    BY DEF xa, aw, tw
  <2> QED BY <2>1, <2>3, <2>5, <2>6 DEF t, aw, tw
<1> HIDE DEF result
<1> DEFINE v0 == Value(x0)
           vx == Value(x)
           v1 == Value(x1)
           l == Value(low)
           g == Value(high)
           vm == Value(middle.words)
           over == middle.over
           va == Value(added.words)
           ca == added.carry
           vt == Value(top.words)
           ct == top.carry
           R == Value(result)
           T == l + B * m + N * g
           N2 == B * N * B
<1>11. /\ v0 \in Int /\ vx \in Int /\ v1 \in Int /\ l \in Int /\ g \in Int /\ vm \in Int /\ over \in Int
       /\ va \in Int /\ ca \in Int /\ vt \in Int /\ ct \in Nat /\ ct \in Int /\ B \in Int /\ N \in Int /\ m \in Int
  <2>1. v0 \in Int /\ vx \in Int /\ v1 \in Int
    BY <1>4, ValueBounds
  <2>2. l \in Int /\ g \in Int
    BY ValueBounds
  <2>3. vm \in Int /\ over \in Int
    BY <1>5, ValueBounds
  <2>4. va \in Int /\ ca \in Int
    BY <1>6, ValueBounds
  <2>5. vt \in Int /\ ct \in Nat
    BY <1>9, ValueBounds
  <2> QED BY <1>2, <2>1, <2>2, <2>3, <2>4, <2>5
<1>12. R \in Nat /\ N2 = Power(W, 2 * n) /\ N2 \in Nat \ {0} /\ T < N2
  <2>1. 2 * n \in Nat
    OBVIOUS
  <2> QED BY <1>2, <1>10, <2>1, WType, PowerPositive, ValueBounds DEF WholeValue
<1>13. /\ l + N * g = v0 + B * (vx + N * v1) /\ vm + N * over = m /\ va + N * ca = vx + vm
       /\ vt + B * ct = v1 + (over + ca) /\ R = (v0 + B * va) + (B * N) * vt
  BY <1>3, <1>4, <1>5, <1>6, <1>7, <1>9, <1>10
<1> HIDE DEF v0, vx, v1, l, g, vm, over, va, ca, vt, ct, R, B, N
<1>14. (v0 + B * va) + (B * N) * vt + (B * N * B) * ct = l + B * m + N * g
  BY ONLY <1>11, <1>13, TogetherSum
<1>15. R + N2 * ct = T
  BY <1>13, <1>14
<1> HIDE DEF N2, T
<1>16. N2 * ct = 0
  BY <1>11, <1>12, <1>15, NoCarry
<1>17. R = T
  BY <1>12, <1>15, <1>16
<1> QED BY <1>1, <1>10, <1>17 DEF R, T, B, N, l, g, WholeValue

\* What the product of two arrays is to be.
Product(x) == Words(Value(x[1]) * Value(x[2]), 2 * Len(x[1]))

\* Products fit into twice the words.
LEMMA ProductBound ==
  ASSUME NEW n \in Nat, NEW a \in Array(n), NEW b \in Array(n)
  PROVE  Value(a) * Value(b) \in Nat /\ Value(a) * Value(b) < Power(W, 2 * n)
<1> DEFINE pn == Power(W, n)
           va == Value(a)
           vb == Value(b)
<1>1. va \in 0 .. pn - 1 /\ vb \in 0 .. pn - 1 /\ pn \in Nat \ {0}
  BY ValueBounds, WType, PowerPositive
<1>2. Power(W, 2 * n) = pn * pn
  <2>1. n + n = 2 * n
    OBVIOUS
  <2>2. Power(W, n + n) = Power(W, n) * Power(W, n)
    BY WType, PowerPlus
  <2> QED BY <2>1, <2>2
<1> HIDE DEF pn, va, vb
<1>3. va * vb <= (pn - 1) * vb /\ (pn - 1) * vb <= (pn - 1) * (pn - 1) /\ va * vb \in Nat
  BY <1>1
<1>4. (pn - 1) * (pn - 1) = pn * pn - pn - pn + 1 /\ pn * pn \in Int /\ (pn - 1) * vb \in Int
  BY <1>1
<1>5. va * vb < pn * pn
  BY <1>1, <1>3, <1>4
<1> QED BY <1>2, <1>3, <1>5 DEF va, vb

\* The product is the only array of its length worth the product.
LEMMA ProductUnique ==
  ASSUME NEW n \in Nat, NEW a \in Array(n), NEW b \in Array(n)
  PROVE  /\ Product(<<a, b>>) \in Array(2 * n) /\ Value(Product(<<a, b>>)) = Value(a) * Value(b)
         /\ \A c \in Array(2 * n) : Value(c) = Value(a) * Value(b) => c = Product(<<a, b>>)
<1> DEFINE v == Value(a) * Value(b)
           c0 == Words(v, 2 * n)
           pn == Power(W, 2 * n)
<1>1. v \in Nat /\ v < pn /\ 2 * n \in Nat /\ pn \in Nat \ {0}
  BY ProductBound, WType, PowerPositive
<1>2. Product(<<a, b>>) = c0
  <2>1. Len(a) = n
    BY ArraySeq
  <2> QED BY <2>1 DEF Product
<1> HIDE DEF v, pn
<1>3. c0 \in Array(2 * n) /\ Value(c0) = v
  <2>1. c0 \in Array(2 * n) /\ Value(c0) = v % pn
    BY <1>1, WordsValue DEF pn
  <2>2. v % pn = v
    BY <1>1, ModSmall
  <2> QED BY <2>1, <2>2
<1> HIDE DEF c0
<1>4. \A c \in Array(2 * n) : Value(c) = v => c = c0
  BY <1>1, <1>3, ValueUnique
<1> QED BY <1>2, <1>3, <1>4 DEF v

\* Both halves of an array of even length.
LEMMA Halves ==
  ASSUME NEW h \in Nat \ {0}, NEW n \in Nat, n = 2 * h, NEW a \in Array(n)
  PROVE  /\ FirstHalf(a) \in Array(h) /\ SecondHalf(a) \in Array(h)
         /\ Value(a) = Value(FirstHalf(a)) + Power(W, h) * Value(SecondHalf(a))
<1>1. Len(a) = n /\ n \div 2 = h /\ h + h = n
  BY ArraySeq
<1>2. FirstHalf(a) = SubSeq(a, 1, h) /\ SecondHalf(a) = SubSeq(a, h + 1, h + h)
  BY <1>1 DEF FirstHalf, SecondHalf
<1>3. a \in Array(h + h)
  BY <1>1
<1> QED BY <1>2, <1>3, SplitValue

\* The three products of halves make the product.
LEMMA KaratsubaSum ==
  ASSUME NEW a0 \in Nat, NEW a1 \in Nat, NEW b0 \in Nat, NEW b1 \in Nat, NEW B \in Int, NEW d \in Int,
         d = (IF a0 < a1 THEN a1 - a0 ELSE a0 - a1) * (IF b0 < b1 THEN b1 - b0 ELSE b0 - b1)
  PROVE  /\ a0 * b1 + a1 * b0 \in Nat
         /\ a0 * b1 + a1 * b0 = IF (a0 < a1) # (b0 < b1) THEN a0 * b0 + a1 * b1 + d ELSE a0 * b0 + a1 * b1 - d
         /\ a0 * b0 + B * (a0 * b1 + a1 * b0) + (B * B) * (a1 * b1) = (a0 + B * a1) * (b0 + B * b1)
<1>1. a0 * b1 + a1 * b0 \in Nat
  OBVIOUS
<1>2. (a1 - a0) * (b1 - b0) = a0 * b0 + a1 * b1 - (a0 * b1 + a1 * b0)
  OBVIOUS
<1>3. (a0 - a1) * (b0 - b1) = a0 * b0 + a1 * b1 - (a0 * b1 + a1 * b0)
  OBVIOUS
<1>4. (a1 - a0) * (b0 - b1) = (a0 * b1 + a1 * b0) - (a0 * b0 + a1 * b1)
  OBVIOUS
<1>5. (a0 - a1) * (b1 - b0) = (a0 * b1 + a1 * b0) - (a0 * b0 + a1 * b1)
  OBVIOUS
<1> DEFINE x == a0 * b0 + a1 * b1
           y == a0 * b1 + a1 * b0
<1>6. x \in Int /\ y \in Int
  OBVIOUS
<1>7. y = IF (a0 < a1) # (b0 < b1) THEN x + d ELSE x - d
  <2>1. CASE a0 < a1 /\ b0 < b1
    <3>1. d = x - y
      BY <1>2, <2>1
    <3> HIDE DEF x, y
    <3> QED BY <1>6, <2>1, <3>1
  <2>2. CASE a0 < a1 /\ ~(b0 < b1)
    <3>1. d = y - x
      BY <1>4, <2>2
    <3> HIDE DEF x, y
    <3> QED BY <1>6, <2>2, <3>1
  <2>3. CASE ~(a0 < a1) /\ b0 < b1
    <3>1. d = y - x
      BY <1>5, <2>3
    <3> HIDE DEF x, y
    <3> QED BY <1>6, <2>3, <3>1
  <2>4. CASE ~(a0 < a1) /\ ~(b0 < b1)
    <3>1. d = x - y
      BY <1>3, <2>4
    <3> HIDE DEF x, y
    <3> QED BY <1>6, <2>4, <3>1
  <2> QED BY <2>1, <2>2, <2>3, <2>4
<1>8. a0 * b0 + B * (a0 * b1 + a1 * b0) + (B * B) * (a1 * b1) = (a0 + B * a1) * (b0 + B * b1)
  OBVIOUS
<1> QED BY <1>1, <1>7, <1>8

\* f, g and e are the products of the halves and of their distances.
PartProducts(f, g, e, negative, a, b) ==
  /\ f = Product(<<FirstHalf(a), FirstHalf(b)>>)
  /\ g = Product(<<SecondHalf(a), SecondHalf(b)>>)
  /\ e = Product(<<Distance(FirstHalf(a), SecondHalf(a)), Distance(FirstHalf(b), SecondHalf(b))>>)
  /\ negative = (Sub(FirstHalf(a), SecondHalf(a)).carry # Sub(FirstHalf(b), SecondHalf(b)).carry)

\* Three products of halves, put together, are the product.
LEMMA KaratsubaStep ==
  ASSUME NEW h \in Nat \ {0}, NEW n \in Nat, n = 2 * h, NEW a \in Array(n), NEW b \in Array(n),
         NEW f, NEW g, NEW e, NEW negative \in BOOLEAN, PartProducts(f, g, e, negative, a, b)
  PROVE  Together(f, g, e, negative) = Product(<<a, b>>)
<1> DEFINE a0 == FirstHalf(a)
           a1 == SecondHalf(a)
           b0 == FirstHalf(b)
           b1 == SecondHalf(b)
           da == Distance(a0, a1)
           db == Distance(b0, b1)
           B == Power(W, h)
<1>1. /\ a0 \in Array(h) /\ a1 \in Array(h) /\ Value(a) = Value(a0) + B * Value(a1)
      /\ b0 \in Array(h) /\ b1 \in Array(h) /\ Value(b) = Value(b0) + B * Value(b1)
  BY Halves
<1> HIDE DEF a0, a1, b0, b1
<1> DEFINE u0 == Value(a0)
           u1 == Value(a1)
           v0 == Value(b0)
           v1 == Value(b1)
<1>2. /\ da \in Array(h) /\ Value(da) = IF u0 < u1 THEN u1 - u0 ELSE u0 - u1
      /\ db \in Array(h) /\ Value(db) = IF v0 < v1 THEN v1 - v0 ELSE v0 - v1
  BY <1>1, DistanceValue
<1> HIDE DEF da, db
<1>3. /\ f \in Array(n) /\ Value(f) = u0 * v0 /\ g \in Array(n) /\ Value(g) = u1 * v1
      /\ e \in Array(n) /\ Value(e) = Value(da) * Value(db)
  <2>1. f = Product(<<a0, b0>>) /\ g = Product(<<a1, b1>>) /\ e = Product(<<da, db>>)
    BY DEF a0, a1, b0, b1, da, db, PartProducts
  <2> QED BY <1>1, <1>2, <2>1, ProductUnique
<1>4. negative = ((u0 < u1) # (v0 < v1))
  <2>1. (Sub(a0, a1).carry = 1 <=> u0 < u1) /\ (Sub(b0, b1).carry = 1 <=> v0 < v1)
    BY <1>1, SubLess
  <2>2. Sub(a0, a1).carry \in {0, 1} /\ Sub(b0, b1).carry \in {0, 1}
    BY <1>1, SubValue
  <2>3. negative = (Sub(a0, a1).carry # Sub(b0, b1).carry)
    BY DEF a0, a1, b0, b1, PartProducts
  <2> HIDE DEF u0, u1, v0, v1
  <2> QED BY <2>1, <2>2, <2>3
<1>5. u0 \in Nat /\ u1 \in Nat /\ v0 \in Nat /\ v1 \in Nat /\ B \in Int /\ Value(da) \in Int /\ Value(db) \in Int
  <2>1. u0 \in Nat /\ u1 \in Nat /\ v0 \in Nat /\ v1 \in Nat
    BY <1>1, ValueBounds
  <2>2. Value(da) \in Int /\ Value(db) \in Int
    BY <1>2, ValueBounds
  <2>3. B \in Int
    BY WType, PowerNext
  <2> QED BY <2>1, <2>2, <2>3
<1>6. Power(W, n) = B * B
  <2>1. h + h = n
    OBVIOUS
  <2>2. Power(W, h + h) = Power(W, h) * Power(W, h)
    BY WType, PowerPlus
  <2> QED BY <2>1, <2>2
<1> HIDE DEF u0, u1, v0, v1, B
<1> DEFINE d == Value(e)
           m == u0 * v1 + u1 * v0
<1>7. d \in Int /\ d = (IF u0 < u1 THEN u1 - u0 ELSE u0 - u1) * (IF v0 < v1 THEN v1 - v0 ELSE v0 - v1)
  BY <1>2, <1>3, <1>5, ValueBounds
<1> HIDE DEF d
<1>8. /\ m \in Nat
      /\ m = IF (u0 < u1) # (v0 < v1) THEN u0 * v0 + u1 * v1 + d ELSE u0 * v0 + u1 * v1 - d
      /\ u0 * v0 + B * m + (B * B) * (u1 * v1) = (u0 + B * u1) * (v0 + B * v1)
  BY <1>5, <1>7, KaratsubaSum
<1>9. Value(a) = u0 + B * u1 /\ Value(b) = v0 + B * v1
  BY <1>1 DEF u0, u1, v0, v1, B
<1> HIDE DEF m
<1>10. IsMiddle(m, f, g, e, negative)
  BY <1>3, <1>4, <1>8 DEF d, IsMiddle
<1>11. WholeValue(f, m, g, h, n) = Value(a) * Value(b)
  BY <1>3, <1>6, <1>8, <1>9 DEF B, WholeValue
<1>12. WholeValue(f, m, g, h, n) < Power(W, 2 * n)
  BY <1>11, ProductBound
<1>13. /\ Together(f, g, e, negative) \in Array(2 * n)
       /\ Value(Together(f, g, e, negative)) = WholeValue(f, m, g, h, n)
  <2>1. f \in Array(n) /\ g \in Array(n) /\ e \in Array(n) /\ m \in Nat
    BY <1>3, <1>8
  <2> QED BY ONLY <2>1, <1>10, <1>12, h \in Nat \ {0}, n \in Nat, n = 2 * h, negative \in BOOLEAN, TogetherValue
<1> QED BY <1>11, <1>13, ProductUnique

-----------------------------------------------------------------------------
(***************************************************************************)
(* Mul: one step of its recursion, from shorter products, and then all.    *)
(***************************************************************************)
MulBody(F, x) ==
  IF BySchoolbook(Len(x[1])) THEN Schoolbook(x[1], x[2])
  ELSE LET a0 == FirstHalf(x[1]) a1 == SecondHalf(x[1])
           b0 == FirstHalf(x[2]) b1 == SecondHalf(x[2])
       IN  Together(F[<<a0, b0>>], F[<<a1, b1>>],
                    F[<<Distance(a0, a1), Distance(b0, b1)>>],
                    Sub(a0, a1).carry # Sub(b0, b1).carry)

\* A length that is halved.
LEMMA Halved ==
  ASSUME NEW n \in Nat, ~BySchoolbook(n)
  PROVE  \E h \in Nat \ {0} : n = 2 * h /\ h < n
<1>1. n >= KaratsubaMin /\ n % 2 # 1 /\ KaratsubaMin \in Nat \ {0, 1}
  BY BignumAssumption DEF BySchoolbook
<1>2. n \div 2 \in Nat \ {0} /\ n = 2 * (n \div 2) /\ n \div 2 < n
  BY <1>1
<1> QED BY <1>2

\* A recursion step of Mul multiplies, if it does for shorter arrays.
LEMMA MulStep ==
  ASSUME NEW n \in Nat, NEW a \in Array(n), NEW b \in Array(n), NEW F,
         \A k \in Nat : k < n => \A c \in Array(k), d \in Array(k) : F[<<c, d>>] = Product(<<c, d>>)
  PROVE  MulBody(F, <<a, b>>) = Product(<<a, b>>)
<1>1. Len(a) = n
  BY ArraySeq
<1>2. CASE BySchoolbook(n)
  <2>1. MulBody(F, <<a, b>>) = Schoolbook(a, b)
    BY <1>1, <1>2 DEF MulBody
  <2>2. Schoolbook(a, b) \in Array(n + n) /\ Value(Schoolbook(a, b)) = Value(a) * Value(b) /\ n + n = 2 * n
    BY SchoolbookValue
  <2> QED BY <2>1, <2>2, ProductUnique
<1>3. CASE ~BySchoolbook(n)
  <2>1. PICK h \in Nat \ {0} : n = 2 * h /\ h < n
    BY <1>3, Halved
  <2> DEFINE a0 == FirstHalf(a)
             a1 == SecondHalf(a)
             b0 == FirstHalf(b)
             b1 == SecondHalf(b)
             da == Distance(a0, a1)
             db == Distance(b0, b1)
             negative == Sub(a0, a1).carry # Sub(b0, b1).carry
  <2>2. a0 \in Array(h) /\ a1 \in Array(h) /\ b0 \in Array(h) /\ b1 \in Array(h)
    BY <2>1, Halves
  <2>3. da \in Array(h) /\ db \in Array(h)
    <3> HIDE DEF a0, a1, b0, b1
    <3> QED BY <2>2, DistanceValue
  <2>4. MulBody(F, <<a, b>>) = Together(F[<<a0, b0>>], F[<<a1, b1>>], F[<<da, db>>], negative)
    BY <1>1, <1>3 DEF MulBody
  <2>5. F[<<a0, b0>>] = Product(<<a0, b0>>) /\ F[<<a1, b1>>] = Product(<<a1, b1>>) /\ F[<<da, db>>] = Product(<<da, db>>)
    <3> HIDE DEF a0, a1, b0, b1, da, db
    <3>1. \A c \in Array(h), d \in Array(h) : F[<<c, d>>] = Product(<<c, d>>)
      BY <2>1
    <3> QED BY <2>2, <2>3, <3>1
  <2>6. negative \in BOOLEAN
    OBVIOUS
  <2> DEFINE f == Product(<<a0, b0>>)
             g == Product(<<a1, b1>>)
             e == Product(<<da, db>>)
  <2>7. Together(f, g, e, negative) = Product(<<a, b>>)
    <3>1. PartProducts(f, g, e, negative, a, b)
      BY DEF PartProducts
    <3> HIDE DEF f, g, e, negative, a0, a1, b0, b1, da, db
    <3> QED BY ONLY <2>1, <2>6, <3>1, n \in Nat, a \in Array(n), b \in Array(n), KaratsubaStep
  <2> HIDE DEF negative
  <2> QED BY <2>4, <2>5, <2>7
<1> QED BY <1>2, <1>3

\* Factors are pairs of arrays of some length.
LEMMA FactorsArrays ==
  /\ \A x \in Factors : \E n \in Nat : \E a \in Array(n), b \in Array(n) : x = <<a, b>>
  /\ \A n \in Nat : \A a \in Array(n), b \in Array(n) : <<a, b>> \in Factors
<1>1. ASSUME NEW x \in Factors
      PROVE  \E n \in Nat : \E a \in Array(n), b \in Array(n) : x = <<a, b>>
  <2> DEFINE T == Word
  <2>1. x \in Seq(T) \X Seq(T) /\ Len(x[1]) = Len(x[2])
    BY DEF Factors
  <2> HIDE DEF T
  <2>2. x = <<x[1], x[2]>> /\ x[1] \in Seq(T) /\ x[2] \in Seq(T)
    BY <2>1
  <2>3. x[1] \in Array(Len(x[1])) /\ x[2] \in Array(Len(x[1])) /\ Len(x[1]) \in Nat
    BY <2>1, <2>2, SeqArray DEF T
  <2> QED BY <2>2, <2>3
<1>2. ASSUME NEW n \in Nat, NEW a \in Array(n), NEW b \in Array(n)
      PROVE  <<a, b>> \in Factors
  <2> DEFINE T == Word
  <2>1. a \in Seq(T) /\ b \in Seq(T) /\ Len(a) = n /\ Len(b) = n
    BY ArraySeq
  <2> HIDE DEF T
  <2>2. <<a, b>> \in Seq(T) \X Seq(T) /\ Len(<<a, b>>[1]) = Len(<<a, b>>[2])
    BY <2>1
  <2> QED BY <2>2 DEF Factors, T
<1> QED BY <1>1, <1>2

\* Mul obeys its recursion.
LEMMA MulRec == Mul = [x \in Factors |-> MulBody(Mul, x)]
<1> DEFINE M == [x \in Factors |-> Product(x)]
<1>1. ASSUME NEW x \in Factors
      PROVE  M[x] = MulBody(M, x)
  <2>1. PICK n \in Nat : \E a \in Array(n), b \in Array(n) : x = <<a, b>>
    BY FactorsArrays
  <2>2. PICK a \in Array(n), b \in Array(n) : x = <<a, b>>
    BY <2>1
  <2>3. \A k \in Nat : k < n => \A c \in Array(k), d \in Array(k) : M[<<c, d>>] = Product(<<c, d>>)
    BY FactorsArrays
  <2>4. M[x] = Product(x)
    OBVIOUS
  <2> HIDE DEF M
  <2>5. MulBody(M, <<a, b>>) = Product(<<a, b>>)
    BY <2>3, MulStep
  <2> QED BY <2>2, <2>4, <2>5
<1>2. M = [x \in Factors |-> MulBody(M, x)]
  <2>1. M = [x \in Factors |-> M[x]]
    OBVIOUS
  <2> HIDE DEF M
  <2>2. [x \in Factors |-> M[x]] = [x \in Factors |-> MulBody(M, x)]
    BY <1>1
  <2> QED BY <2>1, <2>2
<1> HIDE DEF M
<1> QED BY <1>2 DEF Mul, MulBody

\* Mul multiplies, whether by rows or by Karatsuba.
THEOREM MulProduct ==
  ASSUME NEW n \in Nat, NEW a \in Array(n), NEW b \in Array(n)
  PROVE  Mul[<<a, b>>] \in Array(2 * n) /\ Value(Mul[<<a, b>>]) = Value(a) * Value(b)
<1> DEFINE Right(k) == \A c \in Array(k), d \in Array(k) : Mul[<<c, d>>] = Product(<<c, d>>)
           C == {m \in Nat : \A k \in Nat : k < m => Right(k)}
<1>1. 0 \in C
  OBVIOUS
<1>2. ASSUME NEW m \in Nat, m \in C
      PROVE  m + 1 \in C
  <2>1. Right(m)
    <3> SUFFICES ASSUME NEW c \in Array(m), NEW d \in Array(m)
                 PROVE  Mul[<<c, d>>] = Product(<<c, d>>)
      OBVIOUS
    <3>1. \A k \in Nat : k < m => \A cc \in Array(k), dd \in Array(k) : Mul[<<cc, dd>>] = Product(<<cc, dd>>)
      BY <1>2
    <3>2. MulBody(Mul, <<c, d>>) = Product(<<c, d>>)
      BY <3>1, MulStep
    <3>3. Mul[<<c, d>>] = MulBody(Mul, <<c, d>>)
      BY MulRec, FactorsArrays
    <3> QED BY <3>2, <3>3
  <2> HIDE DEF Right
  <2>2. \A k \in Nat : k < m + 1 => Right(k)
    <3> TAKE k \in Nat
    <3>1. k < m + 1 => k < m \/ k = m
      OBVIOUS
    <3> QED BY <1>2, <2>1, <3>1
  <2> QED BY <2>2
<1>3. n + 1 \in C
  <2>1. \A m \in Nat : m \in C
    <3> HIDE DEF C
    <3> QED BY <1>1, <1>2, NatSetInduction
  <2> HIDE DEF C
  <2> QED BY <2>1
<1>4. Right(n)
  <2> HIDE DEF Right
  <2> QED BY <1>3
<1> QED BY <1>4, ProductUnique

-----------------------------------------------------------------------------
(***************************************************************************)
(* The same for squares.                                                   *)
(***************************************************************************)
SqrBody(F, a) ==
  IF BySchoolbook(Len(a)) THEN SchoolbookSqr(a)
  ELSE LET a0 == FirstHalf(a) a1 == SecondHalf(a)
       IN  Together(F[a0], F[a1], F[Distance(a0, a1)], FALSE)

\* A recursion step of Sqr squares, if it does for shorter arrays.
LEMMA SqrStep ==
  ASSUME NEW n \in Nat, NEW a \in Array(n), NEW F,
         \A k \in Nat : k < n => \A c \in Array(k) : F[c] = Product(<<c, c>>)
  PROVE  SqrBody(F, a) = Product(<<a, a>>)
<1>1. Len(a) = n
  BY ArraySeq
<1>2. CASE BySchoolbook(n)
  <2>1. SqrBody(F, a) = SchoolbookSqr(a)
    BY <1>1, <1>2 DEF SqrBody
  <2> QED BY <2>1, SchoolbookSqrValue, ProductUnique
<1>3. CASE ~BySchoolbook(n)
  <2>1. PICK h \in Nat \ {0} : n = 2 * h /\ h < n
    BY <1>3, Halved
  <2> DEFINE a0 == FirstHalf(a)
             a1 == SecondHalf(a)
             da == Distance(a0, a1)
  <2>2. a0 \in Array(h) /\ a1 \in Array(h)
    BY <2>1, Halves
  <2>3. da \in Array(h)
    <3> HIDE DEF a0, a1
    <3> QED BY <2>2, DistanceValue
  <2>4. SqrBody(F, a) = Together(F[a0], F[a1], F[da], FALSE)
    BY <1>1, <1>3 DEF SqrBody
  <2>5. F[a0] = Product(<<a0, a0>>) /\ F[a1] = Product(<<a1, a1>>) /\ F[da] = Product(<<da, da>>)
    <3> HIDE DEF a0, a1, da
    <3>1. \A c \in Array(h) : F[c] = Product(<<c, c>>)
      BY <2>1
    <3> QED BY <2>2, <2>3, <3>1
  <2> DEFINE f == Product(<<a0, a0>>)
             g == Product(<<a1, a1>>)
             e == Product(<<da, da>>)
  <2>6. FALSE = (Sub(a0, a1).carry # Sub(a0, a1).carry)
    OBVIOUS
  <2>7. Together(f, g, e, FALSE) = Product(<<a, a>>)
    <3> DEFINE negative == FALSE
    <3>1. PartProducts(f, g, e, negative, a, a) /\ negative \in BOOLEAN
      BY DEF PartProducts
    <3> HIDE DEF f, g, e, a0, a1, da, negative
    <3>2. Together(f, g, e, negative) = Product(<<a, a>>)
      BY ONLY <2>1, <3>1, n \in Nat, a \in Array(n), KaratsubaStep
    <3> QED BY <3>2 DEF negative
  <2> QED BY <2>4, <2>5, <2>7
<1> QED BY <1>2, <1>3

\* Sequences of words and arrays are the same.
LEMMA SeqArrays ==
  /\ \A x \in Seq(Word) : \E n \in Nat : x \in Array(n)
  /\ \A n \in Nat : \A a \in Array(n) : a \in Seq(Word)
BY ArraySeq, SeqArray

\* Sqr obeys its recursion.
LEMMA SqrRec == Sqr = [a \in Seq(Word) |-> SqrBody(Sqr, a)]
<1> DEFINE S == Seq(Word)
           M == [a \in S |-> Product(<<a, a>>)]
<1>0. (\A x \in S : \E n \in Nat : x \in Array(n)) /\ \A n \in Nat : \A a \in Array(n) : a \in S
  BY SeqArrays
<1> HIDE DEF S
<1>1. ASSUME NEW a \in S
      PROVE  M[a] = SqrBody(M, a)
  <2>1. PICK n \in Nat : a \in Array(n)
    BY <1>0
  <2>2. \A k \in Nat : k < n => \A c \in Array(k) : M[c] = Product(<<c, c>>)
    BY <1>0
  <2>3. M[a] = Product(<<a, a>>)
    OBVIOUS
  <2> HIDE DEF M
  <2>4. SqrBody(M, a) = Product(<<a, a>>)
    BY <2>1, <2>2, SqrStep
  <2> QED BY <2>3, <2>4
<1>2. M = [a \in S |-> SqrBody(M, a)]
  <2>1. M = [a \in S |-> M[a]]
    OBVIOUS
  <2> HIDE DEF M
  <2>2. [a \in S |-> M[a]] = [a \in S |-> SqrBody(M, a)]
    BY <1>1
  <2> QED BY <2>1, <2>2
<1> HIDE DEF M
<1>3. Sqr = CHOOSE F : F = [a \in S |-> SqrBody(F, a)]
  BY DEF Sqr, SqrBody, S
<1>4. Sqr = [a \in S |-> SqrBody(Sqr, a)]
  BY <1>2, <1>3
<1> QED BY <1>4 DEF S

\* Sqr squares.
THEOREM SqrProduct ==
  ASSUME NEW n \in Nat, NEW a \in Array(n)
  PROVE  Sqr[a] \in Array(2 * n) /\ Value(Sqr[a]) = Value(a) * Value(a)
<1> DEFINE Right(k) == \A c \in Array(k) : Sqr[c] = Product(<<c, c>>)
           C == {m \in Nat : \A k \in Nat : k < m => Right(k)}
<1>1. 0 \in C
  OBVIOUS
<1>2. ASSUME NEW m \in Nat, m \in C
      PROVE  m + 1 \in C
  <2>1. Right(m)
    <3> SUFFICES ASSUME NEW c \in Array(m)
                 PROVE  Sqr[c] = Product(<<c, c>>)
      OBVIOUS
    <3>1. \A k \in Nat : k < m => \A cc \in Array(k) : Sqr[cc] = Product(<<cc, cc>>)
      BY <1>2
    <3>2. SqrBody(Sqr, c) = Product(<<c, c>>)
      BY <3>1, SqrStep
    <3>3. c \in Seq(Word)
      BY SeqArrays
    <3> DEFINE S == Seq(Word)
    <3>4. Sqr = [x \in S |-> SqrBody(Sqr, x)] /\ c \in S
      BY <3>3, SqrRec
    <3> HIDE DEF S
    <3>5. Sqr[c] = SqrBody(Sqr, c)
      BY <3>4
    <3> QED BY <3>2, <3>5
  <2> HIDE DEF Right
  <2>2. \A k \in Nat : k < m + 1 => Right(k)
    <3> TAKE k \in Nat
    <3>1. k < m + 1 => k < m \/ k = m
      OBVIOUS
    <3> QED BY <1>2, <2>1, <3>1
  <2> QED BY <2>2
<1>3. n + 1 \in C
  <2>1. \A m \in Nat : m \in C
    <3> HIDE DEF C
    <3> QED BY <1>1, <1>2, NatSetInduction
  <2> HIDE DEF C
  <2> QED BY <2>1
<1>4. Right(n)
  <2> HIDE DEF Right
  <2> QED BY <1>3
<1>5. Sqr[a] = Product(<<a, a>>)
  BY <1>4
<1>6. Product(<<a, a>>) \in Array(2 * n) /\ Value(Product(<<a, a>>)) = Value(a) * Value(a)
  BY ProductUnique
<1> QED BY <1>5, <1>6

-----------------------------------------------------------------------------
(***************************************************************************)
(* The inverse of a word: u and v keep 2^(WordBits - i) = u * W - v * n0.  *)
(***************************************************************************)
LimbFcn(n0) ==
  CHOOSE step : step = [i \in 0 .. WordBits |->
    IF i = 0 THEN [u |-> 1, v |-> 0]
    ELSE LET s == step[i - 1]
             odd == s.u % 2
         IN  [u |-> (s.u + odd * n0) \div 2, v |-> s.v \div 2 + odd * (W \div 2)]]
LimbStep(n0, s) == [u |-> (s.u + (s.u % 2) * n0) \div 2, v |-> s.v \div 2 + (s.u % 2) * (W \div 2)]

\* A word has bits.
LEMMA WordBitsNat == WordBits \in Nat /\ WordBits >= 1
BY BignumAssumption

\* The loop of ModInvLimb obeys its recursion.
LEMMA LimbFcnRec ==
  ASSUME NEW n0 \in Word
  PROVE  /\ LimbFcn(n0)[0] = [u |-> 1, v |-> 0]
         /\ \A i \in 1 .. WordBits : LimbFcn(n0)[i] = LimbStep(n0, LimbFcn(n0)[i - 1])
         /\ ModInvLimb(n0) = LimbFcn(n0)[WordBits].v
<1> DEFINE S == [u : Nat, v : Nat]
           n == WordBits
           step == [i \in 1 .. n |-> [s \in S |-> LimbStep(n0, s)]]
           base == [u |-> 1, v |-> 0]
           f == LimbFcn(n0)
<1>1. base \in S /\ n \in Nat
  BY WordBitsNat
<1>2. step \in Steps(n, S)
  <2>1. \A s \in S : LimbStep(n0, s) \in S
    <3> SUFFICES ASSUME NEW s \in S PROVE LimbStep(n0, s) \in S
      OBVIOUS
    <3> DEFINE x == s.u
               y == s.v
               N == W
    <3>1. x \in Nat /\ y \in Nat /\ n0 \in Nat /\ N \in Nat
      BY WType DEF Word
    <3> HIDE DEF x, y, N
    <3>2. x % 2 \in Nat /\ N \div 2 \in Nat /\ y \div 2 \in Nat
      BY <3>1
    <3> DEFINE r == x % 2
    <3>3. r * n0 \in Nat /\ r * (N \div 2) \in Nat
      <4> DEFINE z == N \div 2
      <4>1. r \in Nat /\ z \in Nat
        BY <3>2
      <4> HIDE DEF r, z
      <4> QED BY <3>1, <4>1
    <3> DEFINE t == r * n0
    <3>4. (x + t) \div 2 \in Nat
      <4>1. t \in Nat
        BY <3>3
      <4> HIDE DEF t
      <4> QED BY <3>1, <4>1
    <3>5. y \div 2 + r * (N \div 2) \in Nat
      BY <3>2, <3>3
    <3> HIDE DEF r
    <3>6. [u |-> (x + r * n0) \div 2, v |-> y \div 2 + r * (N \div 2)] \in S
      BY <3>4, <3>5
    <3> QED BY <3>6 DEF LimbStep, x, y, N, r
  <2> QED BY <2>1 DEF Steps
<1>3. PICK h \in [0 .. n -> S] : Recurs(h, n, base, step)
  <2> HIDE DEF step, S, base, n
  <2> QED BY ONLY <1>1, <1>2, RecursionExists
<1>4. h = [i \in 0 .. WordBits |-> IF i = 0 THEN [u |-> 1, v |-> 0] ELSE LimbStep(n0, h[i - 1])]
  <2>1. ASSUME NEW i \in 1 .. n
        PROVE  h[i] = LimbStep(n0, h[i - 1])
    <3>1. h[i - 1] \in S
      BY <1>1
    <3>2. h[i] = step[i][h[i - 1]]
      <4> HIDE DEF step, S, base
      <4> QED BY <1>3 DEF Recurs
    <3> HIDE DEF S
    <3> QED BY <3>1, <3>2
  <2>2. h[0] = base
    BY <1>3 DEF Recurs
  <2> HIDE DEF step, S
  <2> QED BY <1>1, <2>1, <2>2
<1>5. f = CHOOSE s : s = [i \in 0 .. WordBits |-> IF i = 0 THEN [u |-> 1, v |-> 0] ELSE LimbStep(n0, s[i - 1])]
  BY DEF LimbFcn, LimbStep
<1>6. f = [i \in 0 .. WordBits |-> IF i = 0 THEN [u |-> 1, v |-> 0] ELSE LimbStep(n0, f[i - 1])]
  <2> HIDE DEF f
  <2> QED BY <1>4, <1>5
<1>7. ModInvLimb(n0) = f[WordBits].v
  BY DEF ModInvLimb, LimbFcn
<1> HIDE DEF f
<1> QED BY <1>1, <1>6, <1>7 DEF f

\* A word has an even number of values.
LEMMA HalfWord ==
  /\ Power(2, WordBits - 1) \in Nat \ {0} /\ W = 2 * Power(2, WordBits - 1)
  /\ W \div 2 = Power(2, WordBits - 1)
<1> DEFINE h == Power(2, WordBits - 1)
<1>1. WordBits - 1 \in Nat /\ (WordBits - 1) + 1 = WordBits
  BY WordBitsNat
<1>2. h \in Nat \ {0}
  BY <1>1, PowerPositive
<1>3. Power(2, (WordBits - 1) + 1) = 2 * h
  BY <1>1, PowerNext
<1> HIDE DEF h
<1>4. W = 2 * h
  BY <1>1, <1>3 DEF W
<1>5. (2 * h) \div 2 = h
  BY <1>2
<1> QED BY <1>2, <1>4, <1>5 DEF h

\* The product of two odd numbers is odd.
LEMMA OddTimes ==
  ASSUME NEW a \in Int, NEW b \in Int, a % 2 = 1, (a * b) % 2 = 0
  PROVE  b % 2 = 0
<1> SUFFICES ASSUME b % 2 = 1 PROVE FALSE
  OBVIOUS
<1> DEFINE k == a \div 2
           l == b \div 2
<1>1. k \in Int /\ l \in Int /\ a = 2 * k + 1 /\ b = 2 * l + 1
  OBVIOUS
<1> HIDE DEF k, l
<1>2. a * b = 2 * (2 * (k * l) + k + l) + 1
  BY <1>1
<1> DEFINE z == 2 * (k * l) + k + l
<1>3. z \in Int /\ a * b = 2 * z + 1
  BY <1>1, <1>2
<1> HIDE DEF z
<1> QED BY <1>3

\* ModInvLimb inverts an odd word: it is minus one over n0 modulo W.
THEOREM ModInvLimbInverse ==
  ASSUME NEW n0 \in Word, n0 % 2 = 1
  PROVE  ModInvLimb(n0) \in Word /\ \E u \in Int : 1 = u * W - ModInvLimb(n0) * n0
<1> DEFINE f == LimbFcn(n0)
           n == WordBits
           N == W
           H == Power(2, WordBits - 1)
           Holds(i) == /\ f[i].u \in Nat /\ f[i].v \in 0 .. N - 1
                       /\ Power(2, n - i) = f[i].u * N - f[i].v * n0
           C == {i \in 0 .. n : Holds(i)}
<1>1. /\ f[0] = [u |-> 1, v |-> 0] /\ \A i \in 1 .. n : f[i] = LimbStep(n0, f[i - 1])
      /\ ModInvLimb(n0) = f[n].v
  BY LimbFcnRec
<1>2. n \in Nat /\ N \in Nat \ {0} /\ n0 \in Nat /\ N = Power(2, n) /\ H \in Nat \ {0} /\ N = 2 * H /\ N \div 2 = H
  BY WordBitsNat, WType, HalfWord DEF Word, W
<1> HIDE DEF f, H
<1>3. 0 \in C
  <2>1. f[0].u = 1 /\ f[0].v = 0 /\ n - 0 = n
    BY <1>1, <1>2
  <2> HIDE DEF n, N
  <2>2. 1 * N - 0 * n0 = N
    BY <1>2
  <2> QED BY <1>2, <2>1, <2>2
<1>4. ASSUME NEW i \in 1 .. n, i - 1 \in C
      PROVE  i \in C
  <2> DEFINE u == f[i - 1].u
             v == f[i - 1].v
             pw == Power(2, n - i)
  <2>1. u \in Nat /\ v \in 0 .. N - 1 /\ Power(2, n - (i - 1)) = u * N - v * n0
    BY <1>4
  <2>2. Power(2, n - (i - 1)) = 2 * pw /\ pw \in Int
    <3>1. n - i \in Nat /\ (n - i) + 1 = n - (i - 1)
      BY <1>2
    <3>2. Power(2, (n - i) + 1) = 2 * pw /\ pw \in Int
      BY <3>1, PowerNext
    <3> QED BY <3>1, <3>2
  <2>3. f[i].u = (u + (u % 2) * n0) \div 2 /\ f[i].v = v \div 2 + (u % 2) * (N \div 2)
    <3>1. f[i] = LimbStep(n0, f[i - 1])
      BY <1>1
    <3> DEFINE s == f[i - 1]
    <3>2. LimbStep(n0, s).u = (s.u + (s.u % 2) * n0) \div 2
      BY DEF LimbStep
    <3>3. LimbStep(n0, s).v = s.v \div 2 + (s.u % 2) * (W \div 2)
      BY DEF LimbStep
    <3> QED BY <3>1, <3>2, <3>3
  <2> HIDE DEF u, v, pw, N
  <2>4. v * n0 = 2 * (u * H - pw)
    <3>1. u * (2 * H) = 2 * (u * H) /\ u * H \in Int /\ v * n0 \in Int
      BY <1>2, <2>1
    <3>2. u * N = u * (2 * H)
      BY <1>2
    <3> DEFINE uh == u * H
               vn == v * n0
    <3>3. 2 * pw = 2 * uh - vn /\ uh \in Int /\ vn \in Int
      BY <2>1, <2>2, <3>1, <3>2
    <3> HIDE DEF uh, vn
    <3>4. vn = 2 * (uh - pw)
      BY <2>2, <3>3
    <3> QED BY <3>4 DEF uh, vn
  <2>5. v % 2 = 0
    <3> DEFINE z == u * H - pw
    <3>1. z \in Int /\ v * n0 = 2 * z
      BY <1>2, <2>1, <2>2, <2>4
    <3> HIDE DEF z
    <3>2. (n0 * v) % 2 = 0
      <4>1. (2 * z) % 2 = 0
        BY <3>1
      <4>2. n0 * v = v * n0
        BY <1>2, <2>1
      <4> QED BY <3>1, <4>1, <4>2
    <3> QED BY <1>2, <2>1, <3>2, OddTimes
  <2> DEFINE w == v \div 2
  <2>6. w \in Nat /\ v = 2 * w
    BY <2>1, <2>5
  <2> HIDE DEF w
  <2>7. CASE u % 2 = 0
    <3> DEFINE k == u \div 2
    <3>1. k \in Nat /\ u = 2 * k
      BY <2>1, <2>7
    <3>2. f[i].u = k /\ f[i].v = w
      <4>1. (u % 2) * n0 = 0 /\ (u % 2) * (N \div 2) = 0
        BY <1>2, <2>7
      <4> QED BY <2>1, <2>3, <2>6, <4>1 DEF w
    <3> HIDE DEF k
    <3>3. w \in 0 .. N - 1
      BY <1>2, <2>1, <2>6
    <3>4. pw = k * N - w * n0
      <4>1. (2 * k) * N = 2 * (k * N) /\ (2 * w) * n0 = 2 * (w * n0) /\ k * N \in Int /\ w * n0 \in Int
        BY <1>2, <2>6, <3>1
      <4> DEFINE x == k * N
                 y == w * n0
      <4>2. 2 * pw = 2 * x - 2 * y /\ x \in Int /\ y \in Int
        BY <2>1, <2>2, <2>6, <3>1, <4>1
      <4> HIDE DEF x, y
      <4>3. pw = x - y
        BY <2>2, <4>2
      <4> QED BY <4>3 DEF x, y
    <3> QED BY <3>1, <3>2, <3>3, <3>4 DEF pw
  <2>8. CASE u % 2 = 1
    <3> DEFINE k == (u + n0) \div 2
    <3>1. k \in Nat /\ u + n0 = 2 * k
      BY <1>2, <2>1, <2>8
    <3>2. f[i].u = k /\ f[i].v = w + H
      <4>1. (u % 2) * n0 = n0 /\ (u % 2) * (N \div 2) = H
        BY <1>2, <2>8
      <4> QED BY <2>3, <4>1 DEF w
    <3> HIDE DEF k
    <3>3. w + H \in 0 .. N - 1
      BY <1>2, <2>1, <2>6
    <3>4. pw = k * N - (w + H) * n0
      <4>1. (2 * k - n0) * N = 2 * (k * N) - n0 * N /\ n0 * N = 2 * (H * n0) /\ (2 * w) * n0 = 2 * (w * n0)
        BY <1>2, <2>6, <3>1
      <4>2. (w + H) * n0 = w * n0 + H * n0 /\ k * N \in Int /\ w * n0 \in Int /\ H * n0 \in Int
        BY <1>2, <2>6, <3>1
      <4>3. u = 2 * k - n0
        BY <1>2, <2>1, <3>1
      <4> DEFINE x == k * N
                 y == w * n0
                 z == H * n0
      <4>4. 2 * pw = (2 * x - 2 * z) - 2 * y /\ x \in Int /\ y \in Int /\ z \in Int /\ (w + H) * n0 = y + z
        BY <2>1, <2>2, <2>6, <4>1, <4>2, <4>3
      <4> HIDE DEF x, y, z
      <4>5. pw = x - (y + z)
        BY <2>2, <4>4
      <4> QED BY <4>4, <4>5 DEF x
    <3> QED BY <3>1, <3>2, <3>3, <3>4 DEF pw
  <2> QED BY <2>1, <2>7, <2>8
<1>5. n \in C
  <2>1. \A i \in 0 .. n : i \in C
    <3> HIDE DEF C, n
    <3> QED BY <1>2, <1>3, <1>4, UpTo
  <2> HIDE DEF C
  <2> QED BY <1>2, <2>1
<1>6. Power(2, n - n) = 1
  <2>1. n - n = 0
    BY <1>2
  <2> QED BY <2>1, PowerZero
<1> QED BY <1>1, <1>5, <1>6 DEF Word

-----------------------------------------------------------------------------
(***************************************************************************)
(* Moduli: odd, and in the upper half of what len words hold.              *)
(***************************************************************************)
Modulus(n, len) ==
  /\ len \in Nat \ {0} /\ n \in Array(len)
  /\ Value(n) % 2 = 1 /\ 2 * Value(n) > Power(W, len)

\* The lowest word of a value.
LEMMA FirstWord ==
  ASSUME NEW len \in Nat \ {0}, NEW a \in Array(len)
  PROVE  a[1] \in Word /\ \E r \in Nat : Value(a) = a[1] + W * r
<1> DEFINE m == len - 1
           e == [i \in 1 .. m |-> a[i + 1]]
<1>1. m \in Nat /\ len = m + 1 /\ a \in Array(len)
  OBVIOUS
<1>2. (\A i \in 1 .. m : e[i] = a[i + 1]) /\ e \in Array(m) /\ a[1] \in Word
  BY ArraySeq DEF Array
<1> HIDE DEF m, e
<1>3. Integers0(a, m + 1) /\ Value(a) = Number(W, a, m + 1) /\ W \in Int
  BY <1>1, WType, ArrayDigits
<1>4. Number(W, a, m + 1) = a[1] + W * Number(W, e, m)
  <2>1. \A i \in 1 .. m : e[i] = a[i + 1]
    BY <1>2
  <2> QED BY ONLY <1>1, <1>3, <2>1, NumberFirst
<1>5. Number(W, e, m) \in Nat
  BY <1>1, <1>2, ArrayDigits, ValueBounds
<1> QED BY <1>2, <1>3, <1>4, <1>5

\* What is known of a modulus: odd, with no zero word at the top.
LEMMA ModulusFacts ==
  ASSUME NEW len, NEW n, Modulus(n, len)
  PROVE  /\ len \in Nat \ {0} /\ n \in Array(len) /\ Len(n) = len
         /\ Value(n) \in Nat \ {0, 1} /\ Power(W, len - 1) < Value(n) /\ Value(n) < Power(W, len)
         /\ n[1] \in Word /\ n[1] % 2 = 1 /\ TopIndex(n) = len - 1
<1> DEFINE N == Value(n)
           m == len - 1
           pm == Power(W, m)
           pl == Power(W, len)
<1>1. /\ len \in Nat \ {0} /\ n \in Array(len) /\ Len(n) = len /\ N \in Nat /\ N < pl /\ N % 2 = 1 /\ 2 * N > pl
      /\ m \in Nat /\ len = m + 1
  <2>1. len \in Nat \ {0} /\ n \in Array(len) /\ N % 2 = 1 /\ 2 * N > pl
    BY DEF Modulus
  <2>2. m \in Nat /\ len = m + 1 /\ len \in Nat
    BY <2>1
  <2>3. N \in 0 .. pl - 1 /\ N \in Nat
    BY <2>1, <2>2, ValueBounds
  <2>4. Len(n) = len
    BY <2>1, <2>2, ArraySeq
  <2>5. pl \in Int
    BY <2>2, WType, PowerNext
  <2> QED BY <2>1, <2>2, <2>3, <2>4, <2>5
<1>2. pm \in Nat \ {0} /\ pl = W * pm /\ W \in Nat /\ W >= 2
  <2>1. Power(W, m + 1) = W * Power(W, m)
    BY <1>1, WType, PowerNext
  <2> QED BY <1>1, <2>1, WType, PowerPositive
<1> HIDE DEF N, pm, pl
<1>3. W * pm >= 2 * pm
  <2> DEFINE V == W
  <2>1. V \in Nat /\ V >= 2
    BY <1>2
  <2> HIDE DEF V
  <2>2. V * pm >= 2 * pm
    BY <1>2, <2>1
  <2> QED BY <2>2 DEF V
<1>4. pm < N /\ N \in Nat \ {0, 1}
  <2> DEFINE z == W * pm
  <2>1. z \in Int /\ z >= 2 * pm /\ pl = z
    BY <1>2, <1>3
  <2> HIDE DEF z
  <2> QED BY <1>1, <1>2, <2>1
<1>5. n[1] \in Word /\ n[1] % 2 = 1
  <2>1. PICK r \in Nat : N = n[1] + W * r
    BY <1>1, FirstWord DEF N
  <2>2. n[1] \in Word
    BY <1>1, FirstWord
  <2> DEFINE x == n[1]
             h == Power(2, WordBits - 1)
  <2>3. x \in Int /\ h \in Nat /\ W = 2 * h
    BY <2>2, HalfWord, WType DEF Word
  <2> HIDE DEF x, h
  <2>4. N = x + 2 * (h * r)
    BY <2>1, <2>3 DEF x
  <2> DEFINE z == h * r
  <2>5. z \in Int /\ N = x + 2 * z
    BY <2>3, <2>4
  <2> HIDE DEF z
  <2>6. x % 2 = 1
    BY <1>1, <2>3, <2>5
  <2> QED BY <2>2, <2>6 DEF x
<1>6. TopIndex(n) = m
  <2> DEFINE S == {0} \cup {i \in 1 .. len - 1 : n[i + 1] # 0}
  <2>1. m \in S
    <3>1. CASE m = 0
      BY <3>1
    <3>2. CASE m # 0
      <4>1. n[m + 1] # 0
        <5> SUFFICES ASSUME n[m + 1] = 0 PROVE FALSE
          OBVIOUS
        <5>1. Integers0(n, m + 1) /\ Digits(W, n, m) /\ N = Number(W, n, m + 1)
          <6>1. Integers0(n, len) /\ Digits(W, n, len) /\ Value(n) = Number(W, n, len)
            BY <1>1, ArrayDigits
          <6> QED BY <1>1, <6>1 DEF Digits, N
        <5>2. Number(W, n, m + 1) = Number(W, n, m) + n[m + 1] * Power(W, m)
          BY <1>1, <5>1, WType, NumberNext
        <5>3. Number(W, n, m) \in 0 .. pm - 1 /\ n[m + 1] * Power(W, m) = 0
          BY <1>1, <1>2, <5>1, WType, NumberBounds DEF pm
        <5> QED BY <1>1, <1>2, <1>4, <5>1, <5>2, <5>3
      <4> QED BY <1>1, <3>2, <4>1
    <3> QED BY <3>1, <3>2
  <2>2. \A i \in S : i \in Int /\ m >= i
    BY <1>1
  <2>3. TopIndex(n) = CHOOSE x \in S : \A y \in S : x >= y
    BY <1>1 DEF TopIndex, Max
  <2>4. \E x \in S : \A y \in S : x >= y
    BY <2>1, <2>2
  <2> HIDE DEF S
  <2>5. TopIndex(n) \in S /\ \A y \in S : TopIndex(n) >= y
    BY <2>3, <2>4
  <2> QED BY <1>1, <2>1, <2>2, <2>5
<1> QED BY <1>1, <1>4, <1>5, <1>6 DEF N, m, pm, pl

(***************************************************************************)
(* What is below twice the modulus is below it after one subtraction.      *)
(***************************************************************************)
Once(n, s, c) == IF c = 0 /\ Sub(s, n).carry = 1 THEN s ELSE Sub(s, n).words

\* One conditional subtraction reduces what is below twice the modulus.
LEMMA OnceValue ==
  ASSUME NEW len, NEW n, Modulus(n, len), NEW s \in Array(len), NEW c \in {0, 1},
         NEW t \in Nat, t = Value(s) + Power(W, len) * c, t < 2 * Value(n)
  PROVE  /\ Once(n, s, c) \in Array(len) /\ Value(Once(n, s, c)) < Value(n)
         /\ Value(Once(n, s, c)) = IF t < Value(n) THEN t ELSE t - Value(n)
<1> DEFINE N == Value(n)
           pl == Power(W, len)
           v == Value(s)
           w == Sub(s, n).words
           g == Sub(s, n).carry
           x == Value(w)
<1>1. len \in Nat /\ n \in Array(len) /\ N \in Nat /\ N < pl /\ pl \in Nat
  BY ModulusFacts, WType, PowerPositive
<1>2. w \in Array(len) /\ g \in {0, 1} /\ x = v - N + pl * g /\ (g = 1 <=> v < N)
  BY <1>1, SubValue, SubLess
<1>3. x \in 0 .. pl - 1 /\ v \in 0 .. pl - 1
  BY <1>1, <1>2, ValueBounds
<1> HIDE DEF N, pl, v, w, g, x
<1>4. t = v + pl * c /\ t < 2 * N
  BY DEF pl, v, N
<1>5. CASE c = 0 /\ g = 1
  <2>1. Once(n, s, c) = s /\ t = v
    BY <1>1, <1>3, <1>4, <1>5 DEF Once, g
  <2>2. v < N
    BY <1>2, <1>5
  <2>3. Value(s) < N /\ Value(s) = IF t < N THEN t ELSE t - N
    BY <2>1, <2>2 DEF v
  <2> QED BY <2>1, <2>3 DEF N
<1>6. CASE ~(c = 0 /\ g = 1)
  <2>1. Once(n, s, c) = w
    BY <1>6 DEF Once, g, w
  <2>2. x = t - N /\ t >= N
    <3>1. CASE c = 0
      <4>1. g = 0 /\ pl * c = 0 /\ pl * g = 0
        BY <1>1, <1>2, <1>6, <3>1
      <4> QED BY <1>1, <1>2, <1>3, <1>4, <4>1
    <3>2. CASE c = 1
      <4>1. pl * c = pl
        BY <1>1, <3>2
      <4>2. g = 1
        <5> SUFFICES ASSUME g = 0 PROVE FALSE
          BY <1>2
        <5>1. pl * g = 0
          BY <1>1
        <5> QED BY <1>1, <1>2, <1>3, <1>4, <4>1, <5>1
      <4>3. pl * g = pl
        BY <1>1, <4>2
      <4> QED BY <1>1, <1>2, <1>3, <1>4, <4>1, <4>3
    <3> QED BY <3>1, <3>2
  <2>3. x < N /\ x = IF t < N THEN t ELSE t - N
    BY <1>1, <1>3, <1>4, <2>2
  <2> QED BY <1>2, <2>1, <2>3 DEF x, N
<1> QED BY <1>5, <1>6

\* AddMod adds modulo n.
LEMMA AddModValue ==
  ASSUME NEW len, NEW n, Modulus(n, len), NEW a \in Array(len), NEW b \in Array(len),
         Value(a) < Value(n), Value(b) < Value(n)
  PROVE  /\ AddMod(n, a, b) \in Array(len) /\ Value(AddMod(n, a, b)) < Value(n)
         /\ Value(AddMod(n, a, b)) = (Value(a) + Value(b)) % Value(n)
<1> DEFINE N == Value(n)
           s == Add(a, b).words
           c == Add(a, b).carry
           va == Value(a)
           vb == Value(b)
           t == va + vb
<1>1. len \in Nat /\ N \in Nat \ {0} /\ va \in Nat /\ vb \in Nat /\ va < N /\ vb < N
  BY ModulusFacts, ValueBounds
<1>2. s \in Array(len) /\ c \in {0, 1} /\ t = Value(s) + Power(W, len) * c
  BY <1>1, AddCarryBit
<1>3. AddMod(n, a, b) = Once(n, s, c)
  BY DEF AddMod, Below, Once
<1>4. t \in Nat /\ t < 2 * N
  BY <1>1
<1> HIDE DEF s, c, t
<1>5. /\ Once(n, s, c) \in Array(len) /\ Value(Once(n, s, c)) < Value(n)
      /\ Value(Once(n, s, c)) = IF t < Value(n) THEN t ELSE t - Value(n)
  BY <1>2, <1>4, OnceValue
<1>6. t % N = IF t < N THEN t ELSE t - N
  <2> HIDE DEF N
  <2>1. CASE t < N
    BY <1>1, <1>4, <2>1, ModSmall
  <2>2. CASE ~(t < N)
    <3> DEFINE r == t - N
    <3>1. r \in 0 .. N - 1 /\ t = N * 1 + r
      BY <1>1, <1>4, <2>2
    <3> HIDE DEF r
    <3>2. t % N = r
      <4> DEFINE one == 1
      <4>1. /\ N \in Nat \ {0} /\ one \in Int /\ t \in Int
            /\ r \in 0 .. N - 1 /\ t = N * one + r
        BY <1>1, <1>4, <3>1
      <4> HIDE DEF one
      <4> QED BY ONLY <4>1, EuclidUnique
    <3> QED BY <2>2, <3>2 DEF r
  <2> QED BY <2>1, <2>2
<1> QED BY <1>3, <1>5, <1>6 DEF t

-----------------------------------------------------------------------------
DoubleFcn(n) ==
  LET nBits == WordBits * TopIndex(n)
  IN  CHOOSE double : double = [i \in 0 .. 2 * WordBits * Len(n) - nBits |->
        IF i = 0 THEN Over(Zeros(Len(n)), TopIndex(n) + 1, <<1>>)
        ELSE LET d == double[i - 1] IN AddMod(n, d, d)]

\* The power that the doublings start from.
LEMMA DoubleBase ==
  ASSUME NEW len, NEW n, Modulus(n, len)
  PROVE  /\ Over(Zeros(len), len, <<1>>) \in Array(len)
         /\ Value(Over(Zeros(len), len, <<1>>)) = Power(W, len - 1)
<1> DEFINE z == Zeros(len)
           c == <<1>>
           m == 1
           o == Over(z, len, c)
           s == SubSeq(z, len, len + m - 1)
<1>1. len \in Nat \ {0} /\ len \in Nat /\ m \in Nat /\ len + m - 1 <= len /\ len + m - 1 = len
  BY ModulusFacts
<1>2. z \in Array(len) /\ Value(z) = 0
  BY <1>1, ZerosValue
<1>3. c \in Array(m) /\ Value(c) = 1
  <2>1. c \in Array(1)
    BY WType DEF Array, Word
  <2>2. Value(c) = Number(W, c, 1) /\ Integers0(c, 0 + 1)
    BY <2>1, ArrayDigits
  <2>3. Number(W, c, 0 + 1) = Number(W, c, 0) + c[0 + 1] * Power(W, 0)
    <3>1. 0 \in Nat
      OBVIOUS
    <3> HIDE DEF c
    <3> QED BY <2>2, <3>1, WType, NumberNext
  <2>4. Number(W, c, 0) = 0 /\ Power(W, 0) = 1 /\ c[0 + 1] = 1 /\ Number(W, c, 1) = Number(W, c, 0 + 1)
    BY WType, NumberZero, PowerZero
  <2> HIDE DEF c
  <2>5. Value(c) = 1
    BY <2>2, <2>3, <2>4
  <2> QED BY <2>1, <2>5
<1> HIDE DEF z, c, m
<1>4. Overwrites(o, len, z, len, m, c)
  BY <1>1, <1>2, <1>3, OverValue
<1>5. Value(s) = 0
  <2>1. s \in Array(m) /\ \A i \in 1 .. m : s[i] = z[len - 1 + i]
    BY <1>1, <1>2, SliceArray
  <2> HIDE DEF s
  <2>2. \A i \in 1 .. m : s[i] = 0
    <3> TAKE i \in 1 .. m
    <3>1. len - 1 + i \in 1 .. len
      BY <1>1 DEF m
    <3>2. z[len - 1 + i] = 0
      BY <3>1 DEF z, Zeros
    <3> QED BY <2>1, <3>2
  <2>3. Zeros(m) \in Array(m) /\ Value(Zeros(m)) = 0 /\ \A i \in 1 .. m : Zeros(m)[i] = 0
    BY <1>1, ZerosValue DEF Zeros
  <2>4. s = Zeros(m)
    BY <1>1, <2>1, <2>2, <2>3, SameArray
  <2> QED BY <2>3, <2>4
<1>6. Value(o) = 0 + Power(W, len - 1) * (1 - 0) /\ o \in Array(len)
  BY <1>2, <1>3, <1>4, <1>5 DEF Overwrites
<1>7. Power(W, len - 1) \in Int
  BY <1>1, WType, PowerNext
<1> QED BY <1>6, <1>7 DEF z, c

\* The doublings of PrecompR2 obey its loop.
LEMMA DoubleFcnRec ==
  ASSUME NEW len, NEW n, Modulus(n, len), NEW k \in Nat, k = 2 * WordBits * len - WordBits * (len - 1)
  PROVE  /\ DoubleFcn(n)[0] = Over(Zeros(len), len, <<1>>)
         /\ \A i \in 1 .. k : DoubleFcn(n)[i] = AddMod(n, DoubleFcn(n)[i - 1], DoubleFcn(n)[i - 1])
         /\ PrecompR2(n) = DoubleFcn(n)[k]
<1> DEFINE S == {d \in Array(len) : Value(d) < Value(n)}
           step == [i \in 1 .. k |-> [d \in S |-> AddMod(n, d, d)]]
           base == Over(Zeros(len), len, <<1>>)
           f == DoubleFcn(n)
<1>1. len \in Nat \ {0} /\ Len(n) = len /\ TopIndex(n) = len - 1 /\ TopIndex(n) + 1 = len
      /\ 2 * WordBits * Len(n) - WordBits * TopIndex(n) = k
  <2>1. len \in Nat \ {0} /\ Len(n) = len /\ TopIndex(n) = len - 1
    BY ModulusFacts
  <2>2. TopIndex(n) + 1 = len
    BY <2>1
  <2> QED BY <2>1, <2>2
<1>2. base \in S
  BY DoubleBase, ModulusFacts
<1>3. step \in Steps(k, S)
  <2>1. \A d \in S : AddMod(n, d, d) \in S
    BY AddModValue
  <2> HIDE DEF S
  <2> QED BY <2>1 DEF Steps
<1>4. PICK h \in [0 .. k -> S] : Recurs(h, k, base, step)
  <2> HIDE DEF step, S, base
  <2> QED BY ONLY <1>2, <1>3, k \in Nat, RecursionExists
<1>5. h = [i \in 0 .. k |-> IF i = 0 THEN base ELSE AddMod(n, h[i - 1], h[i - 1])]
  <2>1. ASSUME NEW i \in 1 .. k
        PROVE  h[i] = AddMod(n, h[i - 1], h[i - 1])
    <3>1. h[i - 1] \in S
      <4> HIDE DEF S
      <4> QED BY <1>4
    <3>2. h[i] = step[i][h[i - 1]]
      <4> HIDE DEF step, S, base
      <4> QED BY <1>4 DEF Recurs
    <3> HIDE DEF S
    <3> QED BY <3>1, <3>2
  <2>2. h[0] = base
    BY <1>4 DEF Recurs
  <2> HIDE DEF step, S, base
  <2> QED BY <2>1, <2>2
<1>6. f = CHOOSE d : d = [i \in 0 .. k |-> IF i = 0 THEN base ELSE AddMod(n, d[i - 1], d[i - 1])]
  BY <1>1 DEF DoubleFcn
<1> HIDE DEF base
<1>7. f = [i \in 0 .. k |-> IF i = 0 THEN base ELSE AddMod(n, f[i - 1], f[i - 1])]
  <2> HIDE DEF f
  <2> QED BY <1>5, <1>6
<1>8. PrecompR2(n) = f[k]
  BY <1>1 DEF PrecompR2, DoubleFcn
<1> HIDE DEF f
<1> QED BY <1>7, <1>8 DEF f, base

\* PrecompR2 is the square of the radix modulo n.
THEOREM PrecompR2Value ==
  ASSUME NEW len, NEW n, Modulus(n, len)
  PROVE  PrecompR2(n) \in Array(len) /\ Value(PrecompR2(n)) = Power(W, 2 * len) % Value(n)
<1> DEFINE b == WordBits
           m == b * (len - 1)
           k == 2 * b * len - m
           f == DoubleFcn(n)
           N == Value(n)
           Holds(i) == f[i] \in Array(len) /\ Value(f[i]) = Power(2, m + i) % N
           C == {i \in 0 .. k : Holds(i)}
<1>1. len \in Nat \ {0} /\ N \in Nat \ {0} /\ Power(W, len - 1) < N
  BY ModulusFacts
<1>2. m \in Nat /\ k \in Nat /\ m + k = b * (2 * len) /\ b \in Nat
  <2>1. b \in Nat
    BY WordBitsNat
  <2> HIDE DEF b
  <2>2. b * (len - 1) \in Nat
    <3>1. len - 1 \in Nat
      BY <1>1
    <3> DEFINE l == len - 1
    <3>2. l \in Nat
      BY <3>1
    <3> HIDE DEF l
    <3>3. b * l \in Nat
      BY <2>1, <3>2
    <3> QED BY <3>3 DEF l
  <2>3. 2 * b * len = b * (2 * len) /\ b * (2 * len) = b * (len - 1) + b * (len + 1)
    BY <1>1, <2>1
  <2>4. b * (len + 1) \in Nat
    BY <1>1, <2>1
  <2> QED BY <2>1, <2>2, <2>3, <2>4
<1>3. /\ f[0] = Over(Zeros(len), len, <<1>>) /\ \A i \in 1 .. k : f[i] = AddMod(n, f[i - 1], f[i - 1])
      /\ PrecompR2(n) = f[k]
  <2>1. k = 2 * WordBits * len - WordBits * (len - 1)
    OBVIOUS
  <2> HIDE DEF k
  <2> QED BY <1>2, <2>1, DoubleFcnRec
<1> HIDE DEF f, N, k, b
<1>4. 0 \in C
  <2>1. f[0] \in Array(len) /\ Value(f[0]) = Power(W, len - 1)
    BY <1>3, DoubleBase
  <2>2. Power(W, len - 1) = Power(2, m)
    <3> DEFINE l == len - 1
    <3>1. l \in Nat
      BY <1>1
    <3> HIDE DEF l
    <3>2. Power(Power(2, b), l) = Power(2, b * l)
      BY <1>2, <3>1, PowerPower
    <3> QED BY <3>2 DEF l, b, W
  <2> HIDE DEF m
  <2>3. Power(2, m) \in 0 .. N - 1 /\ m + 0 = m
    <3>1. Power(2, m) \in Nat \ {0}
      BY <1>2, PowerPositive
    <3> QED BY <1>1, <1>2, <2>2, <3>1
  <2>4. Power(2, m) % N = Power(2, m)
    BY <1>1, <2>3, ModSmall
  <2> QED BY <1>2, <2>1, <2>2, <2>3, <2>4
<1> HIDE DEF m
<1>5. ASSUME NEW i \in 1 .. k, i - 1 \in C
      PROVE  i \in C
  <2> DEFINE d == f[i - 1]
             j == m + (i - 1)
             x == Power(2, j)
             v == Value(d)
  <2>1. d \in Array(len) /\ v = x % N
    BY <1>5
  <2>2. j \in Nat /\ j + 1 = m + i
    BY <1>2
  <2> HIDE DEF d, j
  <2>3. x \in Int /\ Power(2, m + i) = 2 * x
    <3> DEFINE two == 2
    <3>1. two \in Int
      OBVIOUS
    <3> HIDE DEF two
    <3>2. Power(two, j + 1) = two * Power(two, j) /\ Power(two, j) \in Int
      BY ONLY <2>2, <3>1, PowerNext
    <3> QED BY <2>2, <3>2 DEF two
  <2> HIDE DEF x
  <2>4. v \in 0 .. N - 1 /\ v \in Int
    BY <1>1, <2>1, <2>3, ModOfMod
  <2>5. AddMod(n, d, d) \in Array(len) /\ Value(AddMod(n, d, d)) = (v + v) % N
    <3>1. Value(d) < Value(n)
      BY <1>1, <2>4 DEF N
    <3> QED BY <2>1, <3>1, AddModValue DEF N
  <2> HIDE DEF v
  <2>6. (v + v) % N = (2 * x) % N
    <3>1. (2 * (x % N)) % N = (2 * x) % N
      <4> DEFINE two == 2
      <4>1. two \in Int
        OBVIOUS
      <4>2. x \in Int /\ N \in Nat \ {0}
        BY <1>1, <2>3
      <4> HIDE DEF two
      <4>3. (two * (x % N)) % N = (two * x) % N
        BY ONLY <4>1, <4>2, ModTimesMod
      <4> QED BY <4>3 DEF two
    <3>2. v + v = 2 * v
      BY <2>4
    <3> QED BY <2>1, <3>1, <3>2
  <2>7. f[i] = AddMod(n, d, d)
    BY <1>3 DEF d
  <2> QED BY <2>3, <2>5, <2>6, <2>7
<1>6. k \in C
  <2>1. \A i \in 0 .. k : i \in C
    <3> HIDE DEF C
    <3> QED BY <1>2, <1>4, <1>5, UpTo
  <2> HIDE DEF C
  <2> QED BY <1>2, <2>1
<1>7. Power(W, 2 * len) = Power(2, b * (2 * len))
  <2> DEFINE l == 2 * len
  <2>1. l \in Nat
    BY <1>1
  <2> HIDE DEF l
  <2>2. Power(Power(2, b), l) = Power(2, b * l)
    BY <1>2, <2>1, PowerPower
  <2> QED BY <2>2 DEF l, b, W
<1> QED BY <1>2, <1>3, <1>6, <1>7 DEF N

-----------------------------------------------------------------------------
(***************************************************************************)
(* Montgomery's reduction clears the lower words, lowest first.            *)
(***************************************************************************)
\* mu is the inverse of -n modulo a word.
NegInverse(mu, n0) == mu \in Word /\ \E u \in Int : 1 = u * W - mu * n0

\* The multiple of n that mu finds makes the lowest word zero.
LEMMA LowestVanishes ==
  ASSUME NEW mu, NEW n0 \in Word, NegInverse(mu, n0), NEW x \in Word,
         NEW w \in Word, NEW r \in Int, w = x + n0 * ((mu * x) % W) + W * r
  PROVE  w = 0
<1> DEFINE V == W
           mx == mu * x
           q0 == mx % V
           h == mx \div V
<1>1. mu \in Int /\ n0 \in Int /\ x \in Int /\ w \in 0 .. V - 1 /\ V \in Nat \ {0}
  BY WType DEF Word, NegInverse
<1>2. PICK u \in Int : 1 = u * V - mu * n0
  BY DEF NegInverse
<1>3. mx \in Int
  BY <1>1
<1>4. w = x + n0 * q0 + V * r
  OBVIOUS
<1> HIDE DEF V
<1>5. h \in Int /\ q0 \in Int /\ mx = V * h + q0
  <2> HIDE DEF mx
  <2> QED BY <1>1, <1>3, Euclid
<1> HIDE DEF q0, h
<1>6. n0 * q0 = n0 * (mu * x) - n0 * (V * h)
  <2>1. q0 = mu * x - V * h
    <3>1. V * h \in Int
      BY <1>1, <1>5
    <3> DEFINE vh == V * h
    <3> HIDE DEF vh, mx
    <3>2. q0 = mx - vh
      BY <1>3, <1>5, <3>1 DEF vh
    <3> QED BY <3>2 DEF mx, vh
  <2> QED BY <1>1, <1>5, <2>1
<1>7. n0 * (mu * x) = u * V * x - x
  <2>1. mu * n0 = u * V - 1
    <3> DEFINE y == mu * n0
               z == u * V
    <3>1. y \in Int /\ z \in Int /\ 1 = z - y
      BY <1>1, <1>2
    <3> HIDE DEF y, z
    <3>2. y = z - 1
      BY <3>1
    <3> QED BY <3>2 DEF y, z
  <2>2. n0 * (mu * x) = (mu * n0) * x
    BY <1>1
  <2>3. (u * V - 1) * x = u * V * x - x
    BY <1>1, <1>2
  <2> QED BY <2>1, <2>2, <2>3
<1> DEFINE e == u * x - n0 * h + r
<1>8. e \in Int /\ w = V * e
  <2>1. V * e = u * V * x - n0 * (V * h) + V * r
    BY <1>1, <1>2, <1>5
  <2> DEFINE a1 == u * V * x
             a2 == n0 * (V * h)
             a3 == V * r
             a4 == n0 * q0
             a5 == n0 * (mu * x)
  <2>2. a1 \in Int /\ a2 \in Int /\ a3 \in Int /\ a4 \in Int /\ a5 \in Int
    BY <1>1, <1>2, <1>5
  <2>3. w = x + a4 + a3 /\ a4 = a5 - a2 /\ a5 = a1 - x /\ V * e = a1 - a2 + a3
    BY <1>4, <1>6, <1>7, <2>1
  <2> HIDE DEF a1, a2, a3, a4, a5
  <2>4. w = a1 - a2 + a3
    BY <1>1, <2>2, <2>3
  <2>5. e \in Int
    BY <1>1, <1>2, <1>5
  <2> QED BY <2>3, <2>4, <2>5
<1> HIDE DEF e
<1>9. w = V * e + 0 /\ w = V * 0 + w
  BY <1>1, <1>8
<1> DEFINE zero == 0
<1>10. zero \in Int /\ zero \in 0 .. V - 1 /\ w \in Int /\ w = V * zero + w /\ w = V * e + zero
  BY <1>1, <1>8, <1>9
<1> HIDE DEF zero
<1>11. w % V = zero
  BY ONLY <1>1, <1>8, <1>10, EuclidUnique
<1>12. w % V = w
  BY ONLY <1>1, <1>10, ModSmall
<1> QED BY <1>11, <1>12 DEF zero

(***************************************************************************)
(* One row of it: state s to r, where word i becomes zero.                 *)
(***************************************************************************)
ClearStep(ctx, i, s) ==
  LET len == Len(ctx.n)
      row == MulAdd(ctx.n, (ctx.mu * s.words[i]) % W, SubSeq(s.words, i, i + len - 1))
      top == s.words[i + len] + row.carry + s.carry
  IN  [words |-> Over(s.words, i, Append(row.words, top % W)), carry |-> top \div W]

Passes(s, len) == s.words \in Array(2 * len) /\ s.carry \in {0, 1}

ClearsWord(n, len, i, s, r, qs) ==
  /\ Passes(r, len) /\ qs \in Word
  /\ r.words[i] = 0 /\ \A j \in 1 .. i - 1 : r.words[j] = s.words[j]
  /\ Value(r.words) + (Power(W, i - 1) * Power(W, len)) * (W * r.carry)
       = Value(s.words) + Power(W, i - 1) * (Value(n) * qs) + (Power(W, i - 1) * Power(W, len)) * s.carry

\* A step of the reduction clears one word by adding a multiple of n.
LEMMA ClearStepValue ==
  ASSUME NEW len \in Nat \ {0}, NEW ctx, ctx.n \in Array(len), NegInverse(ctx.mu, ctx.n[1]),
         NEW i \in 1 .. len, NEW s, Passes(s, len)
  PROVE  \E qs \in Word : ClearsWord(ctx.n, len, i, s, ClearStep(ctx, i, s), qs)
<1> DEFINE n == ctx.n
           ws == s.words
           n2 == 2 * len
           x1 == ws[i]
           qs == (ctx.mu * x1) % W
           lo == SubSeq(ws, i, i + len - 1)
           hi == SubSeq(ws, i, i + len)
           row == MulAdd(n, qs, lo)
           rw == row.words
           rc == row.carry
           x == ws[i + len]
           c == s.carry
           top == x + rc + c
           y == top % W
           d == top \div W
           l == len + 1
           cs == Append(rw, y)
           o == Over(ws, i, cs)
           pj == Power(W, i - 1)
           pl == Power(W, len)
<1>1. /\ len \in Nat /\ n2 \in Nat /\ Len(n) = len /\ n \in Array(len) /\ ws \in Array(n2) /\ c \in {0, 1}
      /\ i \in Nat \ {0} /\ i + len <= n2 /\ i + len - 1 <= n2
  BY ArraySeq DEF Passes
<1>2. ClearStep(ctx, i, s) = [words |-> o, carry |-> d]
  BY <1>1 DEF ClearStep
<1>3. x1 \in Word /\ x \in Word
  <2>1. i \in 1 .. n2 /\ i + len \in 1 .. n2
    BY <1>1
  <2> QED BY <1>1, <2>1 DEF Array
<1>4. qs \in Word
  <2>1. ctx.mu * x1 \in Int
    BY <1>3, WType DEF NegInverse, Word
  <2> DEFINE mx == ctx.mu * x1
  <2> HIDE DEF mx
  <2>2. mx % W \in 0 .. W - 1
    BY <2>1, WType DEF mx
  <2> QED BY <2>2 DEF Word, mx
<1>5. /\ lo \in Array(len) /\ hi \in Array(len + 1) /\ Value(hi) = Value(lo) + pl * x
  <2>1. n2 \in Nat /\ ws \in Array(n2) /\ i \in Nat \ {0} /\ len \in Nat /\ i + len <= n2
    BY <1>1
  <2> HIDE DEF n2, ws
  <2>2. SubSeq(ws, i, i + len) \in Array(len + 1)
    BY ONLY <2>1, SliceLast
  <2>3. SubSeq(ws, i, i + len - 1) \in Array(len)
    BY ONLY <2>1, SliceLast
  <2>4. Value(SubSeq(ws, i, i + len)) = Value(SubSeq(ws, i, i + len - 1)) + Power(W, len) * ws[i + len]
    BY ONLY <2>1, SliceLast
  <2> QED BY ONLY <2>2, <2>3, <2>4
<1>6. lo[1] = x1
  <2>1. \A k \in 1 .. len : lo[k] = ws[i - 1 + k]
    <3> HIDE DEF n2, ws
    <3> QED BY <1>1, SliceArray
  <2>2. 1 \in 1 .. len /\ i - 1 + 1 = i
    BY <1>1
  <2> QED BY <2>1, <2>2
<1> HIDE DEF lo, hi, x, qs
<1>7. rw \in Array(len) /\ rc \in Word /\ Value(rw) + pl * rc = Value(lo) + Value(n) * qs
  <2> HIDE DEF n
  <2> QED BY <1>1, <1>4, <1>5, MulAddValue, MulAddCarryWord
<1> HIDE DEF row, rw, rc
<1>8. top \in Nat /\ y \in Word /\ d \in {0, 1} /\ top = W * d + y
  <2> DEFINE V == W
  <2>1. V \in Nat /\ V >= 2 /\ x \in 0 .. V - 1 /\ rc \in 0 .. V - 1 /\ c \in {0, 1}
    BY <1>1, <1>3, <1>7, WType DEF Word, x
  <2> HIDE DEF V, c
  <2>2. top \in Nat /\ top < V * 2 /\ V \in Nat \ {0} /\ top \in Int
    BY <2>1
  <2> HIDE DEF top
  <2>3. top \div V \in Int /\ top % V \in 0 .. V - 1 /\ top = V * (top \div V) + (top % V)
    BY <2>2, Euclid
  <2>4. top \div V \in {0, 1}
    <3> DEFINE e == top \div V
               z == top % V
    <3>1. e \in Int /\ z \in 0 .. V - 1 /\ top = V * e + z /\ 0 <= V * e + z
      BY <2>2, <2>3
    <3> HIDE DEF e, z
    <3>2. e < 2
      <4> SUFFICES ASSUME e >= 2 PROVE FALSE
        BY <3>1
      <4>1. V * e >= V * 2
        BY <2>1, <3>1
      <4>2. V * e \in Int
        BY <2>1, <3>1
      <4> DEFINE ve == V * e
      <4> HIDE DEF ve
      <4>3. ve \in Int /\ ve >= 2 * V /\ top = ve + z
        BY <2>1, <3>1, <4>1, <4>2 DEF ve
      <4> QED BY <2>1, <2>2, <3>1, <4>3
    <3>3. e >= 0
      <4> SUFFICES ASSUME e <= -1 PROVE FALSE
        BY <3>1
      <4>1. V * e <= V * (-1)
        BY <2>1, <3>1
      <4> DEFINE ve == V * e
      <4>2. ve \in Int /\ ve <= 0 - V /\ top = ve + z
        BY <2>1, <3>1, <4>1
      <4> HIDE DEF ve
      <4> QED BY <2>1, <2>2, <3>1, <4>2
    <3>4. e = 0 \/ e = 1
      BY <3>1, <3>2, <3>3
    <3> QED BY <3>4 DEF e
  <2> QED BY <2>2, <2>3, <2>4 DEF V, Word
<1> HIDE DEF y, d
<1>9. cs \in Array(l) /\ Value(cs) = Value(rw) + pl * y
  BY <1>1, <1>7, <1>8, AppendValue
<1>10. cs[1] = rw[1]
  <2> DEFINE T == Word
  <2>1. rw \in Seq(T) /\ Len(rw) = len
    BY <1>1, <1>7, ArraySeq
  <2> HIDE DEF T
  <2>2. 1 \in 1 .. len
    BY <1>1
  <2> QED BY <1>1, <2>1, <2>2
<1> HIDE DEF cs
<1>11. Overwrites(o, n2, ws, i, l, cs)
  <2>1. l \in Nat /\ i + l - 1 <= n2
    BY <1>1
  <2> HIDE DEF l, n2, ws
  <2> QED BY <1>1, <1>9, <2>1, OverValue
<1>12. o \in Array(n2) /\ o[i] = rw[1] /\ \A j \in 1 .. i - 1 : o[j] = ws[j]
  <2>1. /\ o \in Array(n2) /\ \A k \in 1 .. l : o[i - 1 + k] = cs[k]
        /\ \A k \in 1 .. n2 : k < i \/ k >= i + l => o[k] = ws[k]
    BY <1>11 DEF Overwrites
  <2> HIDE DEF o, n2, ws
  <2>2. 1 \in 1 .. l /\ i - 1 + 1 = i /\ \A j \in 1 .. i - 1 : j \in 1 .. n2 /\ j < i
    BY <1>1 DEF n2
  <2> QED BY <1>10, <2>1, <2>2
<1>13. rw[1] = 0
  <2>1. rw[1] \in Word /\ \E r \in Nat : Value(rw) = rw[1] + W * r
    BY <1>1, <1>7, FirstWord
  <2>2. \E r \in Nat : Value(lo) = x1 + W * r
    BY <1>1, <1>5, <1>6, FirstWord
  <2>3. n[1] \in Word /\ \E r \in Nat : Value(n) = n[1] + W * r
    <3> HIDE DEF n
    <3> QED BY <1>1, FirstWord
  <2>4. PICK r1 \in Nat : Value(rw) = rw[1] + W * r1
    BY <2>1
  <2>5. PICK r2 \in Nat : Value(lo) = x1 + W * r2
    BY <2>2
  <2>6. PICK r3 \in Nat : Value(n) = n[1] + W * r3
    BY <2>3
  <2> DEFINE m == len - 1
             pm == Power(W, m)
             V == W
             w1 == rw[1]
             n1 == n[1]
  <2>7. pl = V * pm /\ pm \in Int
    <3>1. m \in Nat /\ m + 1 = len
      BY <1>1
    <3> HIDE DEF m
    <3>2. Power(W, m + 1) = W * Power(W, m) /\ Power(W, m) \in Int
      BY <3>1, WType, PowerNext
    <3> QED BY <3>1, <3>2
  <2>8. w1 \in Int /\ n1 \in Int /\ x1 \in Int /\ qs \in Int /\ rc \in Int /\ V \in Int
    BY <1>3, <1>4, <1>7, <2>1, <2>3, WType DEF Word
  <2>9. (w1 + V * r1) + (V * pm) * rc = (x1 + V * r2) + (n1 + V * r3) * qs
    BY <1>7, <2>4, <2>5, <2>6, <2>7
  <2> HIDE DEF m, pm, V, w1, n1, x1
  <2> DEFINE r == r2 + r3 * qs - r1 - pm * rc
  <2>10. w1 = x1 + n1 * qs + V * r /\ r \in Int
    <3>1. /\ V * r = V * r2 + V * r3 * qs - V * r1 - (V * pm) * rc
          /\ (n1 + V * r3) * qs = n1 * qs + V * r3 * qs
      BY <2>7, <2>8
    <3> DEFINE a1 == V * r2
               a2 == V * r3 * qs
               a3 == V * r1
               a4 == (V * pm) * rc
               a5 == n1 * qs
               a6 == (n1 + V * r3) * qs
               a7 == V * r
    <3>2. /\ a1 \in Int /\ a2 \in Int /\ a3 \in Int /\ a4 \in Int /\ a5 \in Int /\ a6 \in Int
      BY <2>7, <2>8
    <3>3. a7 = a1 + a2 - a3 - a4 /\ a6 = a5 + a2 /\ (w1 + a3) + a4 = (x1 + a1) + a6
      BY <2>9, <3>1
    <3> HIDE DEF a1, a2, a3, a4, a5, a6, a7
    <3>4. w1 = x1 + a5 + a7
      BY <2>8, <3>2, <3>3
    <3>5. r \in Int
      BY <2>7, <2>8
    <3> QED BY <3>4, <3>5 DEF a5, a7
  <2> HIDE DEF r
  <2>11. w1 = x1 + n1 * ((ctx.mu * x1) % W) + W * r
    BY <2>10 DEF qs, V, x1
  <2>12. NegInverse(ctx.mu, n1) /\ n1 \in Word /\ x1 \in Word /\ w1 \in Word
    BY <1>3, <2>1, <2>3 DEF n1, w1, x1
  <2> HIDE DEF n, w1, n1
  <2>13. w1 = 0
    BY <2>10, <2>11, <2>12, LowestVanishes
  <2> QED BY <2>13 DEF w1
<1>14. Value(o) + (pj * pl) * (W * d) = Value(ws) + pj * (Value(n) * qs) + (pj * pl) * c
  <2> DEFINE V == W
             vo == Value(o)
             vs == Value(ws)
             vc == Value(cs)
             vh == Value(hi)
             vl == Value(lo)
             vr == Value(rw)
             vn == Value(n)
  <2>1. vo = vs + pj * (vc - vh)
    <3>1. i + l - 1 = i + len
      BY <1>1
    <3>2. SubSeq(ws, i, i + l - 1) = hi
      BY <3>1 DEF hi
    <3> QED BY <1>11, <3>2 DEF Overwrites
  <2>2. /\ vc = vr + pl * y /\ vh = vl + pl * x /\ vr + pl * rc = vl + vn * qs
        /\ x + rc + c = V * d + y
    BY <1>5, <1>7, <1>8, <1>9
  <2>3. /\ pj \in Int /\ pl \in Int /\ V \in Int /\ d \in Int /\ y \in Int /\ x \in Int /\ rc \in Int /\ c \in Int
        /\ qs \in Int
    <3>1. i - 1 \in Nat
      BY <1>1
    <3>2. pj \in Int
      BY <3>1, WType, PowerNext
    <3>3. pl \in Int
      BY <1>1, WType, PowerNext
    <3>4. d \in Int /\ y \in Int /\ c \in Int
      BY <1>1, <1>8, WType DEF Word
    <3>5. x \in Int /\ rc \in Int /\ qs \in Int
      BY <1>3, <1>4, <1>7, WType DEF Word, x
    <3> QED BY <3>2, <3>3, <3>4, <3>5, WType
  <2>4. vs \in Int /\ vl \in Int /\ vr \in Int /\ vn \in Int
    <3>1. vs \in Int
      <4> HIDE DEF ws, n2
      <4> QED BY <1>1, ValueBounds
    <3>2. vl \in Int /\ vr \in Int /\ vn \in Int
      BY <1>1, <1>5, <1>7, ValueBounds
    <3> QED BY <3>1, <3>2
  <2> HIDE DEF V, vo, vs, vc, vh, vl, vr, vn, pj, pl, c
  <2>5. vc - vh = vn * qs + pl * (c - V * d)
    <3> DEFINE a1 == pl * y
               a2 == pl * x
               a3 == pl * rc
               a4 == vn * qs
               a5 == pl * (c - V * d)
    <3>1. a1 \in Int /\ a2 \in Int /\ a3 \in Int /\ a4 \in Int
      BY <2>3, <2>4
    <3>2. a5 = a1 - a2 - a3
      <4>1. c - V * d = y - x - rc
        <5> DEFINE vd == V * d
        <5>1. vd \in Int /\ x + rc + c = vd + y
          BY <2>2, <2>3
        <5> HIDE DEF vd
        <5>2. c - vd = y - x - rc
          BY <2>3, <5>1
        <5> QED BY <5>2 DEF vd
      <4>2. pl * (y - x - rc) = a1 - a2 - a3
        BY <2>3
      <4> QED BY <4>1, <4>2
    <3>3. vc = vr + a1 /\ vh = vl + a2 /\ vr + a3 = vl + a4
      BY <2>2
    <3> HIDE DEF a1, a2, a3, a4, a5
    <3>4. vc - vh = a4 + a5
      BY <2>4, <3>1, <3>2, <3>3
    <3> QED BY <3>4 DEF a4, a5
  <2>6. pj * (vn * qs + pl * (c - V * d)) = pj * (vn * qs) + (pj * pl) * c - (pj * pl) * (V * d)
    BY <2>3, <2>4
  <2> DEFINE b1 == pj * (vn * qs)
             b2 == (pj * pl) * c
             b3 == (pj * pl) * (V * d)
  <2>7. b1 \in Int /\ b2 \in Int /\ b3 \in Int /\ vo = vs + (b1 + b2 - b3)
    BY <2>1, <2>3, <2>4, <2>5, <2>6
  <2> HIDE DEF b1, b2, b3
  <2>8. vo + b3 = vs + b1 + b2
    BY <2>4, <2>7
  <2> QED BY <2>8 DEF b1, b2, b3, vo, vs, vn, V
<1> DEFINE r == [words |-> o, carry |-> d]
<1>15. r.words = o /\ r.carry = d
  OBVIOUS
<1>16. ClearsWord(n, len, i, s, r, qs)
  <2> HIDE DEF r, o
  <2> QED BY <1>4, <1>8, <1>12, <1>13, <1>14, <1>15 DEF ClearsWord, Passes
<1> HIDE DEF r
<1>17. ClearStep(ctx, i, s) = r
  BY <1>2 DEF r
<1> QED BY <1>4, <1>16, <1>17 DEF n

ClearFcn(ctx, c) ==
  CHOOSE pass : pass =
    [i \in 0 .. Len(ctx.n) |->
       IF i = 0 THEN [words |-> c, carry |-> 0] ELSE ClearStep(ctx, i, pass[i - 1])]

\* The steps of the reduction obey its loop.
LEMMA ClearFcnRec ==
  ASSUME NEW len \in Nat \ {0}, NEW ctx, ctx.n \in Array(len), NegInverse(ctx.mu, ctx.n[1]),
         NEW c \in Array(2 * len)
  PROVE  /\ ClearFcn(ctx, c)[0] = [words |-> c, carry |-> 0]
         /\ \A i \in 1 .. len : ClearFcn(ctx, c)[i] = ClearStep(ctx, i, ClearFcn(ctx, c)[i - 1])
         /\ Cleared(ctx, c) = [words |-> SubSeq(ClearFcn(ctx, c)[len].words, len + 1, 2 * len),
                               carry |-> ClearFcn(ctx, c)[len].carry]
<1> DEFINE f == ClearFcn(ctx, c)
           S == [words : Array(2 * len), carry : {0, 1}]
           base == [words |-> c, carry |-> 0]
           step == [i \in 1 .. len |-> [s \in S |-> ClearStep(ctx, i, s)]]
<1>1. len \in Nat /\ Len(ctx.n) = len
  BY ArraySeq
<1>2. base \in S
  OBVIOUS
<1>3. step \in Steps(len, S)
  <2>1. ASSUME NEW i \in 1 .. len, NEW s \in S
        PROVE  ClearStep(ctx, i, s) \in S
    <3>1. Passes(s, len)
      BY DEF Passes
    <3>2. Passes(ClearStep(ctx, i, s), len)
      <4> HIDE DEF S
      <4> QED BY <3>1, ClearStepValue DEF ClearsWord
    <3>3. ClearStep(ctx, i, s)
            = [words |-> ClearStep(ctx, i, s).words, carry |-> ClearStep(ctx, i, s).carry]
      BY DEF ClearStep
    <3> DEFINE ws == ClearStep(ctx, i, s).words
               d == ClearStep(ctx, i, s).carry
    <3>4. ws \in Array(2 * len) /\ d \in {0, 1} /\ ClearStep(ctx, i, s) = [words |-> ws, carry |-> d]
      BY <3>2, <3>3 DEF Passes
    <3> HIDE DEF ws, d
    <3> QED BY <3>4
  <2> HIDE DEF S
  <2> QED BY <2>1 DEF Steps
<1>4. PICK h \in [0 .. len -> S] : Recurs(h, len, base, step)
  <2> HIDE DEF step, S, base
  <2> QED BY ONLY <1>1, <1>2, <1>3, RecursionExists
<1>5. h = [i \in 0 .. Len(ctx.n) |-> IF i = 0 THEN base ELSE ClearStep(ctx, i, h[i - 1])]
  <2>1. ASSUME NEW i \in 1 .. len
        PROVE  h[i] = ClearStep(ctx, i, h[i - 1])
    <3>1. h[i - 1] \in S
      <4> HIDE DEF S
      <4> QED BY <1>1, <1>4
    <3>2. h[i] = step[i][h[i - 1]]
      <4> HIDE DEF step, S, base
      <4> QED BY <1>4 DEF Recurs
    <3> HIDE DEF S
    <3> QED BY <3>1, <3>2
  <2>2. h[0] = base
    BY <1>4 DEF Recurs
  <2> HIDE DEF step, S, base
  <2> QED BY <1>1, <1>4, <2>1, <2>2
<1>6. f = CHOOSE pass : pass = [i \in 0 .. Len(ctx.n) |-> IF i = 0 THEN base ELSE ClearStep(ctx, i, pass[i - 1])]
  BY DEF ClearFcn
<1>7. f = [i \in 0 .. Len(ctx.n) |-> IF i = 0 THEN base ELSE ClearStep(ctx, i, f[i - 1])]
  <2> HIDE DEF f, base
  <2> QED BY <1>5, <1>6
<1>8. Cleared(ctx, c)
        = [words |-> SubSeq(f[Len(ctx.n)].words, Len(ctx.n) + 1, 2 * Len(ctx.n)), carry |-> f[Len(ctx.n)].carry]
  BY DEF Cleared, ClearFcn, ClearStep
<1> HIDE DEF f, base
<1>9. f[0] = base /\ \A i \in 1 .. len : f[i] = ClearStep(ctx, i, f[i - 1])
  BY <1>1, <1>7
<1> QED BY <1>1, <1>8, <1>9 DEF f, base

(***************************************************************************)
(* The words that are left are c, plus a multiple of n, over W^len.        *)
(***************************************************************************)
Reduces(n, len, c, s) ==
  /\ s.words \in Array(len) /\ s.carry \in {0, 1}
  /\ \E k \in 0 .. Power(W, len) - 1 :
       Power(W, len) * (Value(s.words) + Power(W, len) * s.carry) = Value(c) + Value(n) * k

\* All steps together divide by the radix, up to a multiple of n.
LEMMA ClearedValue ==
  ASSUME NEW len \in Nat \ {0}, NEW ctx, ctx.n \in Array(len), NegInverse(ctx.mu, ctx.n[1]),
         NEW c \in Array(2 * len)
  PROVE  Reduces(ctx.n, len, c, Cleared(ctx, c))
<1> DEFINE n == ctx.n
           n2 == 2 * len
           f == ClearFcn(ctx, c)
           N == Value(n)
           vc == Value(c)
           pl == Power(W, len)
           Sum(i) == Value(f[i].words) + (Power(W, i) * pl) * f[i].carry
           Holds(i) == /\ Passes(f[i], len) /\ \A j \in 1 .. i : f[i].words[j] = 0
                       /\ \E k \in 0 .. Power(W, i) - 1 : Sum(i) = vc + N * k
           C == {i \in 0 .. len : Holds(i)}
<1>1. /\ f[0] = [words |-> c, carry |-> 0]
      /\ \A i \in 1 .. len : f[i] = ClearStep(ctx, i, f[i - 1])
      /\ Cleared(ctx, c) = [words |-> SubSeq(f[len].words, len + 1, n2), carry |-> f[len].carry]
  BY ClearFcnRec
<1>2. len \in Nat /\ n2 \in Nat /\ pl \in Nat \ {0} /\ N \in Nat /\ vc \in Nat
  <2>1. len \in Nat /\ n2 \in Nat
    OBVIOUS
  <2>2. pl \in Nat \ {0}
    BY <2>1, WType, PowerPositive
  <2>3. N \in Nat
    BY <2>1, ValueBounds
  <2>4. vc \in Nat
    <3> HIDE DEF n2
    <3> QED BY <2>1, ValueBounds DEF n2
  <2> QED BY <2>1, <2>2, <2>3, <2>4
<1> HIDE DEF f, pl, N
<1>3. 0 \in C
  <2>1. f[0].words = c /\ f[0].carry = 0
    BY <1>1
  <2>2. Power(W, 0) = 1
    BY WType, PowerZero
  <2>3. Passes(f[0], len)
    BY <2>1 DEF Passes
  <2>4. Sum(0) = vc + N * 0
    <3>1. (Power(W, 0) * pl) * 0 = 0 /\ N * 0 = 0
      BY <1>2, <2>2
    <3> QED BY <1>2, <2>1, <3>1
  <2>5. 0 \in 0 .. Power(W, 0) - 1
    BY <2>2
  <2>6. 0 \in 0 .. len /\ \A j \in 1 .. 0 : f[0].words[j] = 0
    BY <1>2
  <2> HIDE DEF Sum
  <2> QED BY <2>3, <2>4, <2>5, <2>6
<1>4. ASSUME NEW i \in 1 .. len, i - 1 \in C
      PROVE  i \in C
  <2> DEFINE s == f[i - 1]
             r == ClearStep(ctx, i, s)
             pj == Power(W, i - 1)
             V == W
  <2>1. Passes(s, len) /\ (\A j \in 1 .. i - 1 : s.words[j] = 0) /\ \E k \in 0 .. pj - 1 : Sum(i - 1) = vc + N * k
    BY <1>4
  <2>2. PICK k \in 0 .. pj - 1 : Value(s.words) + (pj * pl) * s.carry = vc + N * k
    BY <2>1
  <2>3. PICK qs \in Word : ClearsWord(n, len, i, s, r, qs)
    <3> HIDE DEF s
    <3> QED BY <2>1, ClearStepValue
  <2>4. f[i] = r
    BY <1>1
  <2>5. /\ Passes(r, len) /\ r.words[i] = 0 /\ \A j \in 1 .. i - 1 : r.words[j] = s.words[j]
    BY <2>3 DEF ClearsWord
  <2>6. Value(r.words) + (pj * pl) * (V * r.carry) = Value(s.words) + pj * (N * qs) + (pj * pl) * s.carry
    BY <2>3 DEF ClearsWord, N, pl
  <2>7. pj \in Nat \ {0} /\ V \in Nat \ {0} /\ Power(W, i) = V * pj /\ qs \in 0 .. V - 1
    <3>1. i - 1 \in Nat /\ (i - 1) + 1 = i
      OBVIOUS
    <3>2. Power(W, (i - 1) + 1) = W * Power(W, i - 1)
      BY <3>1, WType, PowerNext
    <3>3. pj \in Nat \ {0}
      BY <3>1, WType, PowerPositive
    <3> QED BY <3>1, <3>2, <3>3, WType DEF Word
  <2> HIDE DEF r, s, pj, V
  <2>8. \A j \in 1 .. i : r.words[j] = 0
    <3> TAKE j \in 1 .. i
    <3>1. CASE j = i
      BY <2>5, <3>1
    <3>2. CASE j # i
      <4>1. j \in 1 .. i - 1
        BY <3>2
      <4> QED BY <2>1, <2>5, <4>1
    <3> QED BY <3>1, <3>2
  <2> DEFINE k2 == k + pj * qs
             vr == Value(r.words)
             vs == Value(s.words)
             c1 == s.carry
             c2 == r.carry
  <2>9. k2 \in 0 .. V * pj - 1
    <3>1. pj * qs <= pj * (V - 1) /\ pj * qs >= 0 /\ pj * qs \in Int
      <4>1. pj * (V - 1 - qs) >= 0
        BY <2>7
      <4>2. pj * (V - 1 - qs) = pj * (V - 1) - pj * qs
        BY <2>7
      <4>3. pj * qs \in Nat /\ pj * (V - 1) \in Int
        BY <2>7
      <4> QED BY <4>1, <4>2, <4>3
    <3>2. pj * (V - 1) = V * pj - pj /\ V * pj \in Int
      BY <2>7
    <3> DEFINE x == pj * qs
               y == V * pj
    <3>3. x \in Int /\ x >= 0 /\ x <= y - pj /\ y \in Int
      BY <3>1, <3>2
    <3> HIDE DEF x, y
    <3>4. k + x \in 0 .. y - 1
      BY <2>7, <3>3
    <3> QED BY <3>4 DEF x, y
  <2>10. vr + ((V * pj) * pl) * c2 = vc + N * k2
    <3>1. vr \in Int /\ vs \in Int /\ c1 \in Int /\ c2 \in Int
      <4>1. r.words \in Array(n2) /\ s.words \in Array(n2) /\ c1 \in {0, 1} /\ c2 \in {0, 1}
        BY <2>1, <2>5 DEF Passes
      <4> HIDE DEF n2
      <4> QED BY <1>2, <4>1, ValueBounds
    <3>2. vr + (pj * pl) * (V * c2) = vs + pj * (N * qs) + (pj * pl) * c1 /\ vs + (pj * pl) * c1 = vc + N * k
      BY <2>2, <2>6
    <3> HIDE DEF vr, vs, c1, c2
    <3>3. (pj * pl) * (V * c2) = ((V * pj) * pl) * c2 /\ N * (k + pj * qs) = N * k + pj * (N * qs)
      BY <1>2, <2>7, <3>1
    <3> DEFINE a1 == (pj * pl) * (V * c2)
               a2 == pj * (N * qs)
               a3 == (pj * pl) * c1
               a4 == N * k
    <3>4. a1 \in Int /\ a2 \in Int /\ a3 \in Int /\ a4 \in Int
      BY <1>2, <2>7, <3>1
    <3>5. vr + a1 = vs + a2 + a3 /\ vs + a3 = vc + a4 /\ N * k2 = a4 + a2
      BY <3>2, <3>3
    <3> HIDE DEF a1, a2, a3, a4, k2
    <3>6. vr + a1 = vc + N * k2
      BY <1>2, <3>1, <3>4, <3>5
    <3> QED BY <3>3, <3>6 DEF a1
  <2>11. Sum(i) = vc + N * k2 /\ k2 \in 0 .. Power(W, i) - 1
    BY <2>4, <2>7, <2>9, <2>10
  <2> HIDE DEF Sum, k2
  <2> QED BY <2>4, <2>5, <2>8, <2>11
<1>5. len \in C
  <2>1. \A i \in 0 .. len : i \in C
    <3> HIDE DEF C
    <3> QED BY <1>2, <1>3, <1>4, UpTo
  <2> HIDE DEF C
  <2> QED BY <1>2, <2>1
<1>6. Passes(f[len], len) /\ (\A j \in 1 .. len : f[len].words[j] = 0) /\ \E k \in 0 .. pl - 1 : Sum(len) = vc + N * k
  BY <1>5 DEF pl
<1> DEFINE ws == f[len].words
           d == f[len].carry
           lo == SubSeq(ws, 1, len)
           hi == SubSeq(ws, len + 1, n2)
           vh == Value(hi)
<1>7. PICK k \in 0 .. pl - 1 : Value(ws) + (pl * pl) * d = vc + N * k
  BY <1>6 DEF pl
<1>8. ws \in Array(len + len) /\ n2 = len + len /\ d \in {0, 1}
  <2>1. 2 * len = len + len
    BY <1>2
  <2> QED BY <1>6, <2>1 DEF Passes
<1>9. lo \in Array(len) /\ hi \in Array(len) /\ Value(ws) = Value(lo) + pl * vh
  <2> HIDE DEF ws, n2
  <2>1. SubSeq(ws, len + 1, len + len) = hi
    BY <1>8
  <2> QED BY <1>2, <1>8, <2>1, SplitValue DEF pl
<1>10. Value(lo) = 0
  <2>1. \A j \in 1 .. len : lo[j] = ws[j]
    <3>1. 1 + len - 1 = len /\ 1 + len - 1 <= n2 /\ n2 \in Nat /\ ws \in Array(n2)
      BY <1>2, <1>8
    <3> DEFINE one == 1
    <3>2. one \in Nat \ {0} /\ one + len - 1 = len /\ one + len - 1 <= n2
      BY <3>1
    <3> HIDE DEF one, ws, n2
    <3>3. \A j \in 1 .. len : SubSeq(ws, one, one + len - 1)[j] = ws[one - 1 + j]
      BY ONLY <1>2, <3>1, <3>2, SliceArray
    <3>4. \A j \in 1 .. len : one - 1 + j = j
      BY DEF one
    <3>5. SubSeq(ws, one, one + len - 1) = lo
      BY <3>2 DEF one
    <3> QED BY <3>3, <3>4, <3>5
  <2>2. \A j \in 1 .. len : lo[j] = Zeros(len)[j]
    BY <1>6, <2>1 DEF Zeros
  <2> HIDE DEF lo
  <2>3. lo = Zeros(len)
    BY <1>2, <1>9, <2>2, ZerosValue, SameArray
  <2> QED BY <1>2, <2>3, ZerosValue
<1>11. pl * (vh + pl * d) = vc + N * k
  <2> HIDE DEF ws, hi, lo, d
  <2>1. vh \in Int
    BY <1>2, <1>9, ValueBounds
  <2>2. Value(ws) = pl * vh
    <3> DEFINE x == pl * vh
    <3>1. x \in Int /\ Value(ws) = 0 + x
      BY <1>2, <1>9, <1>10, <2>1
    <3> HIDE DEF x
    <3> QED BY <3>1 DEF x
  <2> HIDE DEF vh
  <2>3. pl * (vh + pl * d) = pl * vh + (pl * pl) * d
    BY <1>2, <1>8, <2>1
  <2> QED BY <1>7, <2>2, <2>3
<1> DEFINE res == Cleared(ctx, c)
<1>12. res.words = hi /\ res.carry = d
  BY <1>1
<1>13. Reduces(n, len, c, res)
  <2> HIDE DEF res, hi, d, n
  <2>1. Power(W, len) * (Value(res.words) + Power(W, len) * res.carry) = Value(c) + Value(n) * k
    BY <1>11, <1>12 DEF pl, N
  <2> QED BY <1>7, <1>8, <1>9, <1>12, <2>1 DEF Reduces, pl
<1> QED BY <1>13 DEF n

-----------------------------------------------------------------------------
(***************************************************************************)
(* The Montgomery context of a modulus, and the two reductions: the number *)
(* that they leave is the given one over W^len, modulo n.                  *)
(***************************************************************************)
Context(ctx, n, len) ==
  /\ Modulus(n, len) /\ ctx.n = n /\ NegInverse(ctx.mu, n[1])
  /\ ctx.r2 \in Array(len) /\ Value(ctx.r2) = Power(W, 2 * len) % Value(n)

\* MontCtx is a context for its modulus.
LEMMA MontCtxContext ==
  ASSUME NEW len, NEW n, Modulus(n, len)
  PROVE  Context(MontCtx(n), n, len)
<1>1. n[1] \in Word /\ n[1] % 2 = 1
  BY ModulusFacts
<1> DEFINE n0 == n[1]
<1>2. ModInvLimb(n0) \in Word /\ \E u \in Int : 1 = u * W - ModInvLimb(n0) * n0
  <2> HIDE DEF n0
  <2> QED BY <1>1, ModInvLimbInverse DEF n0
<1>3. NegInverse(ModInvLimb(n[1]), n[1])
  BY <1>2 DEF NegInverse
<1>4. PrecompR2(n) \in Array(len) /\ Value(PrecompR2(n)) = Power(W, 2 * len) % Value(n)
  BY PrecompR2Value
<1>5. MontCtx(n).n = n /\ MontCtx(n).mu = ModInvLimb(n[1]) /\ MontCtx(n).r2 = PrecompR2(n)
  BY DEF MontCtx
<1> QED BY <1>3, <1>4, <1>5 DEF Context

\* What is cleared, as one number t.
LEMMA ClearedNumber ==
  ASSUME NEW len, NEW n, NEW ctx, Context(ctx, n, len), NEW c \in Array(2 * len)
  PROVE  /\ Cleared(ctx, c).words \in Array(len) /\ Cleared(ctx, c).carry \in {0, 1}
         /\ \E t \in Nat, k \in 0 .. Power(W, len) - 1 :
              /\ t = Value(Cleared(ctx, c).words) + Power(W, len) * Cleared(ctx, c).carry
              /\ Power(W, len) * t = Value(c) + Value(n) * k
<1> DEFINE s == Cleared(ctx, c)
           t == Value(s.words) + Power(W, len) * s.carry
<1>1. len \in Nat \ {0} /\ n \in Array(len) /\ ctx.n = n /\ NegInverse(ctx.mu, n[1])
  BY ModulusFacts DEF Context
<1>2. Reduces(n, len, c, s)
  <2> HIDE DEF s
  <2> QED BY <1>1, ClearedValue DEF s
<1> HIDE DEF s
<1>3. s.words \in Array(len) /\ s.carry \in {0, 1} /\ \E k \in 0 .. Power(W, len) - 1 :
        Power(W, len) * t = Value(c) + Value(n) * k
  BY <1>2 DEF Reduces
<1>4. t \in Nat
  <2>1. Value(s.words) \in Nat /\ Power(W, len) \in Nat
    BY <1>1, <1>3, ValueBounds, WType, PowerPositive
  <2>2. s.carry = 0 \/ s.carry = 1
    BY <1>3
  <2> QED BY <2>1, <2>2
<1> DEFINE T(x, k) == x = Value(s.words) + Power(W, len) * s.carry /\ Power(W, len) * x = Value(c) + Value(n) * k
<1>5. \E k \in 0 .. Power(W, len) - 1 : T(t, k)
  BY <1>3
<1>6. \E x \in Nat, k \in 0 .. Power(W, len) - 1 : T(x, k)
  <2> HIDE DEF T, t
  <2> QED BY <1>4, <1>5
<1> QED BY <1>3, <1>6 DEF s

MontReduced(res, n, len, v) ==
  res \in Array(len) /\ (Power(W, len) * Value(res)) % Value(n) = v % Value(n)

\* Reduction divides by the radix modulo n and ends below n.
LEMMA ReductionValue ==
  ASSUME NEW len, NEW n, NEW ctx, Context(ctx, n, len), NEW c \in Array(2 * len),
         Value(c) < Power(W, len) * Value(n)
  PROVE  MontReduced(Reduction(ctx, c), n, len, Value(c)) /\ Value(Reduction(ctx, c)) < Value(n)
<1> DEFINE R == Power(W, len)
           N == Value(n)
           V == Value(c)
           s == Cleared(ctx, c)
           res == Reduction(ctx, c)
           v == Value(res)
<1>1. len \in Nat \ {0} /\ N \in Nat \ {0} /\ R \in Nat \ {0} /\ ctx.n = n /\ Modulus(n, len)
  BY ModulusFacts, WType, PowerPositive DEF Context
<1>2. V \in Nat /\ V < R * N
  <2> DEFINE n2 == 2 * len
  <2>1. n2 \in Nat /\ c \in Array(n2)
    BY <1>1
  <2> HIDE DEF n2
  <2> QED BY <2>1, ValueBounds
<1>3. /\ s.words \in Array(len) /\ s.carry \in {0, 1}
      /\ \E t \in Nat, k \in 0 .. R - 1 : t = Value(s.words) + R * s.carry /\ R * t = V + N * k
  BY ClearedNumber
<1>4. res = Once(n, s.words, s.carry)
  BY <1>1 DEF Reduction, Below, Once
<1> HIDE DEF N, V, s, res, R
<1>5. PICK t \in Nat : \E k \in 0 .. R - 1 : t = Value(s.words) + R * s.carry /\ R * t = V + N * k
  BY <1>3
<1>6. PICK k \in 0 .. R - 1 : t = Value(s.words) + R * s.carry /\ R * t = V + N * k
  BY <1>5
<1>7. t < 2 * N
  <2> SUFFICES ASSUME t >= 2 * N PROVE FALSE
    BY <1>1
  <2>1. R * t >= R * (2 * N)
    BY <1>1
  <2>2. N * k <= N * R
    BY <1>1
  <2>3. R * (2 * N) = 2 * (R * N) /\ N * R = R * N
    BY <1>1
  <2> DEFINE x == R * t
             y == N * k
             z == R * N
  <2>4. x \in Int /\ y \in Int /\ z \in Int /\ x = V + y /\ V < z /\ y <= z /\ x >= 2 * z
    BY <1>1, <1>2, <1>6, <2>1, <2>2, <2>3
  <2> HIDE DEF x, y, z
  <2> QED BY <1>2, <2>4
<1>8. res \in Array(len) /\ v < N /\ v = IF t < N THEN t ELSE t - N
  <2> DEFINE ws == s.words
             d == s.carry
  <2>1. ws \in Array(len) /\ d \in {0, 1} /\ t = Value(ws) + Power(W, len) * d /\ t < 2 * Value(n)
    BY <1>3, <1>6, <1>7 DEF N, R
  <2> HIDE DEF ws, d
  <2>2. /\ Once(n, ws, d) \in Array(len) /\ Value(Once(n, ws, d)) < Value(n)
        /\ Value(Once(n, ws, d)) = IF t < Value(n) THEN t ELSE t - Value(n)
    BY ONLY <1>1, <2>1, OnceValue
  <2>3. res = Once(n, ws, d)
    BY <1>4 DEF ws, d
  <2> QED BY <2>2, <2>3 DEF N
<1>9. (R * v) % N = V % N
  <2>1. \E j \in Int : R * v = V + N * j
    <3>1. CASE t < N
      BY <1>6, <1>8, <3>1
    <3>2. CASE ~(t < N)
      <4>1. v = t - N
        BY <1>8, <3>2
      <4>2. R * (t - N) = R * t - R * N /\ N * (k - R) = N * k - R * N
        BY <1>1
      <4> DEFINE x == R * t
                 y == R * N
                 z == N * k
      <4>3. x \in Int /\ y \in Int /\ z \in Int /\ x = V + z
        BY <1>1, <1>6
      <4>4. R * v = x - y /\ N * (k - R) = z - y
        BY <4>1, <4>2
      <4> HIDE DEF x, y, z, v
      <4>5. R * v = V + N * (k - R) /\ k - R \in Int
        BY <1>1, <1>2, <4>3, <4>4
      <4> QED BY <4>5
    <3> QED BY <3>1, <3>2
  <2>2. PICK j \in Int : R * v = V + N * j
    <3> HIDE DEF v
    <3> QED BY <2>1
  <2> DEFINE x == R * v
  <2>3. x \in Int /\ x = V + N * j
    <3>1. v \in Int
      <4> HIDE DEF v
      <4> QED BY <1>1, <1>8
    <3> HIDE DEF v
    <3> QED BY <1>1, <2>2, <3>1
  <2> HIDE DEF x
  <2>4. x % N = V % N
    <3>1. N \in Nat \ {0} /\ V \in Int /\ j \in Int
      BY <1>1, <1>2
    <3> QED BY ONLY <2>3, <3>1, ModCongruent
  <2> QED BY <2>4 DEF x
<1> QED BY <1>8, <1>9 DEF MontReduced, R, N, V, res

\* AlmostReduction divides by the radix modulo n and fits into the words.
LEMMA AlmostReductionValue ==
  ASSUME NEW len, NEW n, NEW ctx, Context(ctx, n, len), NEW c \in Array(2 * len)
  PROVE  MontReduced(AlmostReduction(ctx, c), n, len, Value(c))
<1> DEFINE R == Power(W, len)
           N == Value(n)
           V == Value(c)
           s == Cleared(ctx, c)
           ws == s.words
           d == s.carry
           res == AlmostReduction(ctx, c)
           v == Value(res)
<1>1. len \in Nat /\ N \in Nat \ {0} /\ R \in Nat \ {0} /\ N < R /\ n \in Array(len) /\ ctx.n = n
  BY ModulusFacts, WType, PowerPositive DEF Context
<1>2. V \in Nat /\ V < R * R
  <2> DEFINE n2 == 2 * len
  <2>1. n2 \in Nat /\ c \in Array(n2) /\ n2 = len + len
    BY <1>1
  <2> HIDE DEF n2
  <2>2. V \in Nat /\ V < Power(W, n2)
    <3>1. Value(c) \in 0 .. Power(W, n2) - 1 /\ Power(W, n2) \in Int
      BY <2>1, ValueBounds, WType, PowerNext
    <3> QED BY <3>1
  <2>3. Power(W, n2) = R * R
    BY <1>1, <2>1, WType, PowerPlus
  <2> QED BY <2>2, <2>3
<1>3. /\ ws \in Array(len) /\ d \in {0, 1}
      /\ \E t \in Nat, k \in 0 .. R - 1 : t = Value(ws) + R * d /\ R * t = V + N * k
  BY ClearedNumber
<1>4. res = IF d = 0 THEN ws ELSE Sub(ws, n).words
  BY <1>1 DEF AlmostReduction, Fitting
<1> HIDE DEF N, V, ws, d, s, res, R
<1>5. PICK t \in Nat : \E k \in 0 .. R - 1 : t = Value(ws) + R * d /\ R * t = V + N * k
  BY <1>3
<1>6. PICK k \in 0 .. R - 1 : t = Value(ws) + R * d /\ R * t = V + N * k
  BY <1>5
<1>7. t < R + N
  <2> SUFFICES ASSUME t >= R + N PROVE FALSE
    BY <1>1
  <2>1. R * t >= R * (R + N)
    BY <1>1
  <2>2. N * k <= N * R
    BY <1>1
  <2>3. R * (R + N) = R * R + R * N /\ N * R = R * N
    BY <1>1
  <2> DEFINE x == R * t
             y == N * k
             z == R * N
             w == R * R
  <2>4. x \in Int /\ y \in Int /\ z \in Int /\ w \in Int /\ x = V + y /\ V < w /\ y <= z /\ x >= w + z
    BY <1>1, <1>2, <1>6, <2>1, <2>2, <2>3
  <2> HIDE DEF x, y, z, w
  <2> QED BY <1>2, <2>4
<1>8. res \in Array(len) /\ \E j \in {0, 1} : v = t - N * j
  <2>1. CASE d = 0
    <3>1. res = ws /\ v = Value(ws)
      BY <1>4, <2>1
    <3>2. R * d = 0 /\ N * 0 = 0
      BY <1>1, <2>1
    <3>3. Value(ws) \in Int
      BY <1>1, <1>3, ValueBounds
    <3>4. v = t - N * 0
      BY <1>6, <3>1, <3>2, <3>3
    <3> QED BY <1>3, <3>1, <3>4
  <2>2. CASE d = 1
    <3> DEFINE x == Value(ws)
               y == Sub(ws, n).words
               g == Sub(ws, n).carry
    <3>1. y \in Array(len) /\ g \in {0, 1} /\ Value(y) = x - N + R * g /\ x \in 0 .. R - 1
      BY <1>1, <1>3, SubValue, ValueBounds DEF N, R
    <3>2. Value(y) \in 0 .. R - 1
      BY <1>1, <3>1, ValueBounds DEF R
    <3>3. res = y
      BY <1>4, <2>2
    <3>4. t = x + R
      <4>1. R * d = R
        BY <1>1, <2>2
      <4> QED BY <1>6, <4>1
    <3> HIDE DEF x, y, g
    <3>5. g = 1
      <4> SUFFICES ASSUME g = 0 PROVE FALSE
        BY <3>1
      <4>1. R * g = 0
        BY <1>1
      <4> QED BY <1>1, <1>7, <3>1, <3>2, <3>4, <4>1
    <3>6. R * g = R /\ N * 1 = N
      BY <1>1, <3>5
    <3>7. v = t - N * 1
      BY <1>1, <3>1, <3>3, <3>4, <3>6
    <3> QED BY <3>1, <3>3, <3>7
  <2> QED BY <1>3, <2>1, <2>2
<1>9. (R * v) % N = V % N
  <2>1. PICK j \in {0, 1} : v = t - N * j
    BY <1>8
  <2>2. R * (t - N * j) = R * t - N * (R * j)
    BY <1>1
  <2>3. N * (k - R * j) = N * k - N * (R * j) /\ k - R * j \in Int
    BY <1>1
  <2> DEFINE x == R * v
             y == R * t
             z == N * (R * j)
             w == N * k
             e == k - R * j
  <2>4. y \in Int /\ z \in Int /\ w \in Int /\ y = V + w /\ x = y - z /\ N * e = w - z /\ e \in Int
    BY <1>1, <1>6, <2>1, <2>2, <2>3
  <2> HIDE DEF x, y, z, w, e
  <2>5. x \in Int /\ x = V + N * e
    BY <1>2, <2>4
  <2>6. x % N = V % N
    <3>1. N \in Nat \ {0} /\ V \in Int
      BY <1>1, <1>2
    <3> QED BY ONLY <2>4, <2>5, <3>1, ModCongruent
  <2> QED BY <2>6 DEF x
<1> QED BY <1>8, <1>9 DEF MontReduced, R, N, V, res

Congruent(a, b, n) == a % n = b % n

\* Congruences multiply.
LEMMA CongruentTimes ==
  ASSUME NEW n \in Nat \ {0}, NEW a \in Int, NEW b \in Int, NEW c \in Int, NEW d \in Int,
         Congruent(a, c, n), Congruent(b, d, n)
  PROVE  Congruent(a * b, c * d, n)
<1>1. a % n = c % n /\ b % n = d % n
  BY DEF Congruent
<1>2. (a * b) % n = (c * d) % n
  BY <1>1, ModTimes
<1> QED BY <1>2 DEF Congruent

-----------------------------------------------------------------------------
(***************************************************************************)
(* Powers of congruent numbers are congruent; powers of 1.                 *)
(***************************************************************************)
LEMMA PowerCongruent ==
  ASSUME NEW n \in Nat \ {0}, NEW a \in Int, NEW b \in Int, a % n = b % n, NEW e \in Nat
  PROVE  Power(a, e) % n = Power(b, e) % n
<1> DEFINE C == {i \in Nat : Power(a, i) % n = Power(b, i) % n}
<1>1. 0 \in C
  BY PowerZero
<1>2. ASSUME NEW i \in Nat, i \in C
      PROVE  i + 1 \in C
  <2> DEFINE x == Power(a, i)
             y == Power(b, i)
  <2>1. x % n = y % n
    BY <1>2
  <2>2. x \in Int /\ Power(a, i + 1) = a * x
    BY PowerNext
  <2>3. y \in Int /\ Power(b, i + 1) = b * y
    BY PowerNext
  <2> HIDE DEF x, y
  <2>4. (a * x) % n = (b * y) % n
    <3>1. Congruent(a, b, n) /\ Congruent(x, y, n)
      BY <2>1 DEF Congruent
    <3>2. Congruent(a * x, b * y, n)
      BY <2>2, <2>3, <3>1, CongruentTimes
    <3> QED BY <3>2 DEF Congruent
  <2> QED BY <2>2, <2>3, <2>4
<1>3. \A i \in Nat : i \in C
  <2> HIDE DEF C
  <2> QED BY <1>1, <1>2, NatSetInduction
<1> QED BY <1>3

\* Powers of one.
LEMMA OnePower ==
  ASSUME NEW e \in Nat
  PROVE  Power(1, e) = 1
<1> DEFINE C == {i \in Nat : Power(1, i) = 1}
<1>1. 0 \in C
  BY PowerZero
<1>2. ASSUME NEW i \in Nat, i \in C
      PROVE  i + 1 \in C
  <2>1. Power(1, i) = 1
    BY <1>2
  <2>2. Power(1, i + 1) = 1 * Power(1, i)
    BY PowerNext
  <2> QED BY <2>1, <2>2
<1>3. \A i \in Nat : i \in C
  <2> HIDE DEF C
  <2> QED BY <1>1, <1>2, NatSetInduction
<1> QED BY <1>3

\* 2 is invertible modulo an odd number, and so is its power W^len.
LEMMA RadixInverse ==
  ASSUME NEW len \in Nat, NEW n \in Nat \ {0, 1}, n % 2 = 1
  PROVE  \E ri \in Int : (Power(W, len) * ri) % n = 1
<1> DEFINE h == (n + 1) \div 2
           two == 2
           m == WordBits * len
           pt == Power(two, m)
           ph == Power(h, m)
<1>1. h \in Int /\ two * h = n + 1 /\ two \in Int
  BY DEF two
<1>2. m \in Nat
  <2> DEFINE b == WordBits
  <2>1. b \in Nat
    BY WordBitsNat
  <2> HIDE DEF b
  <2>2. b * len \in Nat
    BY <2>1
  <2> QED BY <2>2 DEF b
<1>3. Power(W, len) = pt
  <2>1. WordBits \in Nat
    BY WordBitsNat
  <2>2. Power(Power(two, WordBits), len) = Power(two, WordBits * len)
    <3> HIDE DEF two
    <3> QED BY ONLY <1>1, <2>1, len \in Nat, PowerPower
  <2> QED BY <2>2 DEF W
<1> HIDE DEF h, two, m
<1>4. Power(two * h, m) = pt * ph
  BY ONLY <1>1, <1>2, PowerTimes
<1>5. Power(n + 1, m) % n = 1
  <2> DEFINE x == n + 1
             one == 1
  <2>1. x \in Int /\ one \in Int /\ x = one + n * one /\ n \in Nat \ {0}
    OBVIOUS
  <2>2. Power(one, m) = one /\ one % n = one
    BY <1>2, OnePower
  <2> HIDE DEF x, one
  <2>3. x % n = one % n
    BY ONLY <2>1, ModCongruent
  <2>4. Power(x, m) % n = Power(one, m) % n
    BY ONLY <1>2, <2>1, <2>3, PowerCongruent
  <2> QED BY <2>2, <2>4 DEF x, one
<1>6. ph \in Int
  BY <1>1, <1>2, PowerNext
<1>7. (pt * ph) % n = 1
  BY <1>1, <1>4, <1>5
<1> HIDE DEF pt, ph
<1> QED BY <1>3, <1>6, <1>7

\* The radix can be cancelled modulo an odd number.
LEMMA RadixCancels ==
  ASSUME NEW len \in Nat, NEW n \in Nat \ {0, 1}, n % 2 = 1, NEW x \in Int, NEW y \in Int,
         (Power(W, len) * x) % n = (Power(W, len) * y) % n
  PROVE  x % n = y % n
<1> DEFINE R == Power(W, len)
           rx == R * x
           ry == R * y
           one == 1
<1>1. PICK ri \in Int : (R * ri) % n = 1
  BY RadixInverse
<1>2. R \in Int /\ n \in Nat \ {0} /\ one \in Int /\ one % n = 1
  <2>1. R \in Int
    BY WType, PowerNext
  <2> HIDE DEF R
  <2> QED BY <2>1
<1> HIDE DEF R, one
<1>3. rx \in Int /\ ry \in Int /\ rx % n = ry % n
  BY <1>2 DEF R
<1> DEFINE u == R * ri
<1>4. u \in Int /\ u % n = one % n
  BY <1>1, <1>2
<1> HIDE DEF u
<1>5. (u * x) % n = (one * x) % n /\ (u * y) % n = (one * y) % n
  <2>1. Congruent(x, x, n) /\ Congruent(y, y, n) /\ Congruent(u, one, n)
    BY <1>4 DEF Congruent
  <2>2. Congruent(u * x, one * x, n)
    BY <1>2, <1>4, <2>1, CongruentTimes
  <2>3. Congruent(u * y, one * y, n)
    BY <1>2, <1>4, <2>1, CongruentTimes
  <2> QED BY <2>2, <2>3 DEF Congruent
<1>6. one * x = x /\ one * y = y
  BY DEF one
<1>7. (ri * rx) % n = (ri * ry) % n
  <2> HIDE DEF rx, ry
  <2>1. Congruent(ri, ri, n) /\ Congruent(rx, ry, n)
    BY <1>3 DEF Congruent
  <2>2. Congruent(ri * rx, ri * ry, n)
    BY <1>2, <1>3, <2>1, CongruentTimes
  <2> QED BY <2>2 DEF Congruent
<1>8. ri * rx = u * x /\ ri * ry = u * y
  BY <1>2 DEF u
<1> QED BY <1>5, <1>6, <1>7, <1>8

-----------------------------------------------------------------------------
(***************************************************************************)
(* To Montgomery form and back, and products there.                        *)
(***************************************************************************)
\* Values of words, and of a context's square of W^len.
LEMMA ContextFacts ==
  ASSUME NEW len, NEW n, NEW ctx, Context(ctx, n, len)
  PROVE  /\ len \in Nat /\ len \in Nat \ {0} /\ Value(n) \in Nat \ {0, 1} /\ Value(n) \in Nat \ {0} /\ Value(n) % 2 = 1
         /\ Power(W, len) \in Nat \ {0} /\ Value(n) < Power(W, len) /\ n \in Array(len) /\ ctx.n = n
         /\ ctx.r2 \in Array(len) /\ Value(ctx.r2) \in Nat /\ Value(ctx.r2) < Value(n)
         /\ Value(ctx.r2) % Value(n) = (Power(W, len) * Power(W, len)) % Value(n)
<1> DEFINE R == Power(W, len)
           N == Value(n)
           v == Value(ctx.r2)
<1>1. len \in Nat \ {0} /\ len \in Nat /\ N \in Nat \ {0, 1} /\ N < R /\ n \in Array(len)
  BY ModulusFacts DEF Context
<1>2. N % 2 = 1
  BY DEF Context, Modulus
<1>3. R \in Nat \ {0}
  BY <1>1, WType, PowerPositive
<1>4. Power(W, 2 * len) = R * R
  <2>1. 2 * len = len + len
    BY <1>1
  <2>2. Power(W, len + len) = R * R
    BY <1>1, WType, PowerPlus
  <2> QED BY <2>1, <2>2
<1>5. v = (R * R) % N /\ ctx.n = n /\ ctx.r2 \in Array(len)
  BY <1>4 DEF Context
<1> HIDE DEF R, N, v
<1> DEFINE z == R * R
<1>6. z \in Int /\ N \in Nat \ {0}
  BY <1>1, <1>3
<1> HIDE DEF z
<1>7. (z % N) % N = z % N /\ z % N \in 0 .. N - 1
  BY <1>6, ModOfMod
<1>8. v \in Nat /\ v < N /\ v % N = z % N
  BY <1>5, <1>6, <1>7 DEF z
<1> QED BY <1>1, <1>2, <1>3, <1>5, <1>6, <1>8 DEF R, N, v, z

\* A product of smaller factors is smaller.
LEMMA LessTimes ==
  ASSUME NEW r \in Nat \ {0}, NEW n \in Nat \ {0}, NEW a \in Nat, a < r, NEW b \in Nat, b < n
  PROVE  a * b < r * n /\ a * b \in Nat
<1>1. a * b <= r * b
  OBVIOUS
<1>2. r * b < r * n
  OBVIOUS
<1>3. a * b \in Nat /\ r * b \in Int /\ r * n \in Int
  OBVIOUS
<1> DEFINE x == a * b
           y == r * b
           z == r * n
<1>4. x <= y /\ y < z /\ x \in Nat /\ y \in Int /\ z \in Int
  BY <1>1, <1>2, <1>3
<1> HIDE DEF x, y, z
<1>5. x < z
  BY <1>4
<1> QED BY <1>4, <1>5 DEF x, z

\* Half-reduced, as Reduction needs it: a product with one factor below n.
LEMMA MontMulValue ==
  ASSUME NEW len, NEW n, NEW ctx, Context(ctx, n, len), NEW a \in Array(len), NEW b \in Array(len),
         Value(b) < Value(n)
  PROVE  /\ MontReduced(MontMul(ctx, a, b), n, len, Value(a) * Value(b))
         /\ Value(MontMul(ctx, a, b)) < Value(n)
<1> DEFINE c == Mul[<<a, b>>]
<1>1. len \in Nat /\ Value(n) \in Nat \ {0} /\ Power(W, len) \in Nat \ {0}
  BY ContextFacts
<1>2. c \in Array(2 * len) /\ Value(c) = Value(a) * Value(b)
  BY <1>1, MulProduct
<1>3. Value(a) \in Nat /\ Value(a) < Power(W, len) /\ Value(b) \in Nat
  <2>1. Value(a) \in 0 .. Power(W, len) - 1 /\ Value(b) \in Nat
    BY <1>1, ValueBounds
  <2> QED BY <1>1, <2>1
<1>4. Value(a) * Value(b) < Power(W, len) * Value(n)
  <2> DEFINE va == Value(a)
             vb == Value(b)
             N == Value(n)
             R == Power(W, len)
  <2>1. va \in Nat /\ va < R /\ vb \in Nat /\ vb < N /\ R \in Nat \ {0} /\ N \in Nat \ {0}
    BY <1>1, <1>3
  <2> HIDE DEF va, vb, N, R
  <2>2. va * vb < R * N
    BY ONLY <2>1, LessTimes
  <2> QED BY <2>2 DEF va, vb, N, R
<1> HIDE DEF c
<1>5. MontReduced(Reduction(ctx, c), n, len, Value(c)) /\ Value(Reduction(ctx, c)) < Value(n)
  <2>1. Value(c) < Power(W, len) * Value(n)
    BY <1>2, <1>4
  <2> QED BY <1>2, <2>1, ReductionValue
<1> QED BY <1>2, <1>5 DEF c, MontMul

\* AlmostMontMul multiplies Montgomery forms.
LEMMA AlmostMontMulValue ==
  ASSUME NEW len, NEW n, NEW ctx, Context(ctx, n, len), NEW a \in Array(len), NEW b \in Array(len)
  PROVE  MontReduced(AlmostMontMul(ctx, a, b), n, len, Value(a) * Value(b))
<1> DEFINE c == Mul[<<a, b>>]
<1>1. len \in Nat
  BY ContextFacts
<1>2. c \in Array(2 * len) /\ Value(c) = Value(a) * Value(b)
  BY <1>1, MulProduct
<1> HIDE DEF c
<1>3. MontReduced(AlmostReduction(ctx, c), n, len, Value(c))
  BY <1>2, AlmostReductionValue
<1> QED BY <1>2, <1>3 DEF c, AlmostMontMul

\* AlmostMontSqr squares a Montgomery form.
LEMMA AlmostMontSqrValue ==
  ASSUME NEW len, NEW n, NEW ctx, Context(ctx, n, len), NEW a \in Array(len)
  PROVE  MontReduced(AlmostMontSqr(ctx, a), n, len, Value(a) * Value(a))
<1> DEFINE c == Sqr[a]
<1>1. len \in Nat
  BY ContextFacts
<1>2. c \in Array(2 * len) /\ Value(c) = Value(a) * Value(a)
  BY <1>1, SqrProduct
<1> HIDE DEF c
<1>3. MontReduced(AlmostReduction(ctx, c), n, len, Value(c))
  BY <1>2, AlmostReductionValue
<1> QED BY <1>2, <1>3 DEF c, AlmostMontSqr

\* A number below n is known from its product with W^len modulo n.
LEMMA RadixDecides ==
  ASSUME NEW len, NEW n, NEW ctx, Context(ctx, n, len), NEW v \in Nat, v < Value(n), NEW y \in Int,
         Congruent(Power(W, len) * v, Power(W, len) * y, Value(n))
  PROVE  v = y % Value(n)
<1> DEFINE N == Value(n)
           R == Power(W, len)
<1>1. len \in Nat /\ N \in Nat \ {0, 1} /\ N \in Nat \ {0} /\ N % 2 = 1 /\ v \in Int
  BY ContextFacts
<1>2. (R * v) % N = (R * y) % N /\ v < N
  BY DEF Congruent
<1> HIDE DEF N
<1>3. v % N = y % N
  BY ONLY <1>1, <1>2, y \in Int, RadixCancels
<1>4. v % N = v
  <2>1. v \in 0 .. N - 1
    BY <1>1, <1>2
  <2> QED BY <1>1, <2>1, ModSmall
<1> QED BY <1>3, <1>4 DEF N

\* ToMont multiplies by the radix modulo n.
LEMMA ToMontValue ==
  ASSUME NEW len, NEW n, NEW ctx, Context(ctx, n, len), NEW a \in Array(len)
  PROVE  /\ ToMont(ctx, a) \in Array(len) /\ Value(ToMont(ctx, a)) < Value(n)
         /\ Value(ToMont(ctx, a)) = (Value(a) * Power(W, len)) % Value(n)
<1> DEFINE N == Value(n)
           R == Power(W, len)
           va == Value(a)
           vr == Value(ctx.r2)
           m == ToMont(ctx, a)
           v == Value(m)
<1>1. /\ len \in Nat /\ N \in Nat \ {0} /\ R \in Nat \ {0} /\ ctx.r2 \in Array(len) /\ vr \in Nat /\ vr < N
      /\ vr % N = (R * R) % N
  BY ContextFacts
<1>2. va \in Nat
  BY <1>1, ValueBounds
<1>3. m = MontMul(ctx, a, ctx.r2)
  BY DEF ToMont, MontMul
<1>4. MontReduced(m, n, len, va * vr) /\ v < N
  <2> DEFINE r == ctx.r2
  <2>1. r \in Array(len) /\ Value(r) < Value(n)
    BY <1>1
  <2> HIDE DEF r
  <2>2. MontReduced(MontMul(ctx, a, r), n, len, va * Value(r)) /\ Value(MontMul(ctx, a, r)) < N
    BY <2>1, MontMulValue
  <2> QED BY <1>3, <2>2 DEF r
<1> HIDE DEF N, R, va, vr, m, v
<1>5. m \in Array(len) /\ (R * v) % N = (va * vr) % N
  BY <1>4 DEF MontReduced, N, R, v
<1>6. v \in Nat
  BY <1>1, <1>5, ValueBounds DEF v
<1> DEFINE rr == R * R
           y == va * R
<1>7. Congruent(va * vr, va * rr, N)
  <2>1. Congruent(va, va, N) /\ Congruent(vr, rr, N) /\ rr \in Int
    BY <1>1 DEF Congruent
  <2> HIDE DEF rr
  <2> QED BY <1>1, <1>2, <2>1, CongruentTimes
<1>8. va * rr = R * y /\ y \in Int
  BY <1>1, <1>2
<1>9. Congruent(R * v, R * y, N)
  <2> HIDE DEF y, rr
  <2> QED BY <1>5, <1>7, <1>8 DEF Congruent
<1> HIDE DEF y
<1>10. v = y % N
  BY <1>4, <1>6, <1>8, <1>9, RadixDecides DEF N, R
<1> QED BY <1>4, <1>5, <1>10 DEF N, R, va, m, v, y

\* Padding does not change the value.
LEMMA PaddedValue ==
  ASSUME NEW n \in Nat, NEW a \in Array(n)
  PROVE  Padded(a) \in Array(2 * n) /\ Value(Padded(a)) = Value(a)
<1> DEFINE z == Zeros(n)
           c == a \o z
<1>1. Len(a) = n
  BY ArraySeq
<1>2. z \in Array(n) /\ Value(z) = 0
  BY ZerosValue
<1> HIDE DEF z
<1>3. c \in Array(n + n) /\ Value(c) = Value(a) + Power(W, n) * Value(z)
  BY <1>2, ConcatValue
<1>4. Padded(a) = c
  BY <1>1 DEF Padded, z
<1> HIDE DEF c
<1>5. Power(W, n) \in Int /\ Value(a) \in Int
  BY WType, PowerNext, ValueBounds
<1>6. Value(c) = Value(a)
  BY <1>2, <1>3, <1>5
<1>7. n + n = 2 * n
  OBVIOUS
<1> QED BY <1>3, <1>4, <1>6, <1>7

\* FromMont takes the radix out.
LEMMA FromMontValue ==
  ASSUME NEW len, NEW n, NEW ctx, Context(ctx, n, len), NEW a \in Array(len), NEW y \in Int,
         Congruent(Value(a), Power(W, len) * y, Value(n))
  PROVE  /\ FromMont(ctx, a) \in Array(len) /\ Value(FromMont(ctx, a)) < Value(n)
         /\ Value(FromMont(ctx, a)) = y % Value(n)
<1> DEFINE N == Value(n)
           R == Power(W, len)
           va == Value(a)
           c == Padded(a)
           m == FromMont(ctx, a)
           v == Value(m)
<1>1. len \in Nat /\ N \in Nat \ {0} /\ R \in Nat \ {0}
  BY ContextFacts
<1>2. c \in Array(2 * len) /\ Value(c) = va
  BY <1>1, PaddedValue
<1>3. va \in Nat /\ va < R
  <2>1. va \in 0 .. R - 1
    BY <1>1, ValueBounds
  <2> HIDE DEF R
  <2> QED BY <1>1, <2>1
<1>4. va < R * N
  <2> HIDE DEF R, N, va
  <2>1. R * 1 <= R * N
    BY <1>1
  <2>2. R * N \in Int
    BY <1>1
  <2> DEFINE z == R * N
  <2>3. z \in Int /\ R <= z
    BY <1>1, <2>1, <2>2
  <2> HIDE DEF z
  <2>4. va < z
    BY <1>1, <1>3, <2>3
  <2> QED BY <2>4 DEF z
<1> HIDE DEF c
<1>5. m = Reduction(ctx, c)
  BY DEF FromMont, c
<1>6. MontReduced(Reduction(ctx, c), n, len, Value(c)) /\ Value(Reduction(ctx, c)) < Value(n)
  BY <1>2, <1>4, ReductionValue
<1> HIDE DEF N, R, va, m, v
<1>7. m \in Array(len) /\ (R * v) % N = va % N /\ v < N
  BY <1>2, <1>5, <1>6 DEF MontReduced, N, R, v
<1>8. v \in Nat
  BY <1>1, <1>7, ValueBounds DEF v
<1>9. Congruent(R * v, R * y, N)
  BY <1>7 DEF Congruent, va, R, N
<1>10. v = y % N
  BY <1>7, <1>8, <1>9, RadixDecides DEF N, R
<1> QED BY <1>7, <1>10 DEF N, m, v

\* ModPrecomp is the remainder modulo n.
THEOREM ModPrecompValue ==
  ASSUME NEW len, NEW n, NEW ctx, Context(ctx, n, len), NEW a \in Array(2 * len)
  PROVE  /\ ModPrecomp(ctx, a) \in Array(len) /\ Value(ModPrecomp(ctx, a)) < Value(n)
         /\ Value(ModPrecomp(ctx, a)) = Value(a) % Value(n)
<1> DEFINE N == Value(n)
           R == Power(W, len)
           va == Value(a)
           u == AlmostReduction(ctx, a)
           vu == Value(u)
           m == ModPrecomp(ctx, a)
<1>1. len \in Nat /\ N \in Nat \ {0} /\ R \in Nat \ {0}
  BY ContextFacts
<1>2. MontReduced(u, n, len, va)
  BY AlmostReductionValue
<1>3. m = ToMont(ctx, u)
  BY DEF ModPrecomp, ToMont
<1> HIDE DEF u, m, N, R, va
<1>4. u \in Array(len) /\ (R * vu) % N = va % N
  BY <1>2 DEF MontReduced, N, R
<1>5. vu \in Nat
  BY <1>1, <1>4, ValueBounds
<1>6. m \in Array(len) /\ Value(m) < N /\ Value(m) = (vu * R) % N
  BY <1>3, <1>4, ToMontValue DEF N, R
<1>7. vu * R = R * vu
  BY <1>1, <1>5
<1> QED BY <1>4, <1>6, <1>7 DEF m, N, va

-----------------------------------------------------------------------------
(***************************************************************************)
(* Windows of an exponent.                                                 *)
(***************************************************************************)
DivTwice(v, a, b) == (v \div a) \div b = v \div (a * b)

\* Dividing twice is dividing by the product.
LEMMA DivDivIs ==
  ASSUME NEW v \in Nat, NEW a \in Nat \ {0}, NEW b \in Nat \ {0}
  PROVE  DivTwice(v, a, b)
BY DivDiv DEF DivTwice

BelowOnly(x, t, a, m) == ((x % t) \div a) % m = (x \div a) % m

\* Of the quotient by a, only what is below a * m matters modulo m.
LEMMA ModDivMod ==
  ASSUME NEW x \in Nat, NEW a \in Nat \ {0}, NEW m \in Nat \ {0}, NEW c \in Nat \ {0}, NEW t \in Nat \ {0},
         t = a * (m * c)
  PROVE  BelowOnly(x, t, a, m)
<1> DEFINE b == m * c
           y == x \div a
           z == x % t
           r == x % a
           s == y % b
<1>1. b \in Nat \ {0}
  <2>1. m * c # 0 /\ m * c \in Nat
    BY DEF b
  <2> QED BY <2>1
<1>2. y \in Nat
  BY DivNat
<1> HIDE DEF b
<1>3. x % (a * b) = (x % a) + a * ((x \div a) % b)
  BY <1>1, DivDiv
<1> HIDE DEF y
<1>4. r \in 0 .. a - 1 /\ s \in 0 .. b - 1 /\ s \in Nat
  BY <1>1, <1>2
<1>5. z = a * s + r /\ z \in Int
  <2>1. z = r + a * s
    BY <1>3 DEF b, y
  <2> HIDE DEF z, r, s
  <2>2. a * s \in Int /\ r \in Int
    BY <1>4
  <2> DEFINE w == a * s
  <2> HIDE DEF w
  <2>3. w \in Int /\ z = r + w
    BY <2>1, <2>2 DEF w
  <2>4. z = w + r /\ z \in Int
    BY <2>2, <2>3
  <2> QED BY <2>4 DEF w
<1> HIDE DEF z, r
<1>6. z \div a = s
  <2>1. s \in Int
    BY <1>4
  <2> HIDE DEF s
  <2> QED BY <1>4, <1>5, <2>1, EuclidUnique
<1>7. s % m = y % m
  <2>1. y % (m * c) = (y % m) + m * ((y \div m) % c)
    BY <1>2, DivDiv
  <2> DEFINE u == y % m
             v == (y \div m) % c
  <2>2. u \in 0 .. m - 1
    BY <1>2
  <2>3. v \in Int
    <3>1. y \div m \in Nat
      BY <1>2, DivNat
    <3> QED BY <3>1
  <2>4. s = u + m * v
    BY <2>1 DEF b
  <2> HIDE DEF u, v, s
  <2>5. s = m * v + u /\ s \in Int
    <3>1. m * v \in Int /\ u \in Int
      BY <2>2, <2>3
    <3> DEFINE w == m * v
    <3> HIDE DEF w
    <3>2. w \in Int /\ s = u + w
      BY <2>4, <3>1 DEF w
    <3>3. s = w + u /\ s \in Int
      BY <3>1, <3>2
    <3> QED BY <3>3 DEF w
  <2>6. s % m = u
    BY <2>2, <2>3, <2>5, EuclidUnique
  <2> QED BY <2>6 DEF u
<1> QED BY <1>6, <1>7 DEF z, y, BelowOnly

\* Words are whole numbers of windows.
LEMMA WindowBitsNat ==
  /\ WindowBits \in Nat \ {0} /\ WindowBits \in Nat
  /\ \E h \in Nat \ {0} : WordBits = WindowBits * h
<1> DEFINE w == WindowBits
           b == WordBits
           h == b \div w
<1>1. w \in Nat \ {0} /\ b \in Nat \ {0} /\ b % w = 0
  BY BignumAssumption
<1> HIDE DEF w, b
<1>2. h \in Nat /\ b = w * h + 0
  <2>1. h \in Nat /\ b = w * (b \div w) + (b % w)
    BY <1>1, DivNat, Euclid
  <2> QED BY <1>1, <2>1
<1> HIDE DEF h
<1>3. b = w * h
  <2>1. w * h \in Int
    BY <1>1, <1>2
  <2> DEFINE x == w * h
  <2> HIDE DEF x
  <2>2. x \in Int /\ b = x + 0
    BY <1>2, <2>1 DEF x
  <2> QED BY <2>2 DEF x
<1>4. h # 0
  <2> SUFFICES ASSUME h = 0 PROVE FALSE
    OBVIOUS
  <2>1. w * h = 0
    BY <1>1
  <2> QED BY <1>1, <1>3, <2>1
<1> QED BY <1>1, <1>2, <1>3, <1>4 DEF w, b

\* A word of a number.
LEMMA WordAt ==
  ASSUME NEW n \in Nat, NEW b \in Array(n), NEW j \in 0 .. n - 1
  PROVE  b[j + 1] = (Value(b) \div Power(W, j)) % W
<1> DEFINE V == Value(b)
           c == Words(V, n)
<1>1. V \in 0 .. Power(W, n) - 1 /\ V \in Nat
  BY ValueBounds
<1>2. Power(W, n) \in Nat \ {0}
  BY WType, PowerPositive
<1> HIDE DEF V
<1>3. c \in Array(n) /\ Value(c) = V % Power(W, n)
  BY <1>1, WordsValue
<1>4. V % Power(W, n) = V
  BY <1>1, <1>2, ModSmall
<1>5. c = b
  <2>1. Value(b) = Value(c)
    BY <1>3, <1>4 DEF V
  <2> HIDE DEF c
  <2> QED BY <1>3, <2>1, ValueUnique
<1>6. j + 1 \in 1 .. n /\ j + 1 - 1 = j
  OBVIOUS
<1>7. c[j + 1] = (V \div Power(W, j + 1 - 1)) % W
  BY <1>6 DEF Words
<1> QED BY <1>5, <1>6, <1>7 DEF V

\* A window is as many bits of the exponent, also next to the edge of a word.
LEMMA WindowValue ==
  ASSUME NEW n \in Nat, NEW b \in Array(n), NEW h \in Nat \ {0}, WordBits = WindowBits * h,
         NEW k \in Nat, k < h * n
  PROVE  Window(b, k) = (Value(b) \div Power(2, WindowBits * k)) % Power(2, WindowBits)
<1> DEFINE w == WindowBits
           V == Value(b)
           j == k \div h
           i == k % h
           r == w * i
           s == w * (h - 1 - i)
           pw == Power(2, w)
           pr == Power(2, r)
           ps == Power(2, s)
           pj == Power(W, j)
           bit == w * k
           x == V \div pj
<1>1. w \in Nat \ {0} /\ w \in Nat /\ V \in Nat /\ WordBits \in Nat
  BY WindowBitsNat, WordBitsNat, ValueBounds
<1> HIDE DEF w, V
<1>2. j \in Nat /\ i \in 0 .. h - 1 /\ k = h * j + i
  <2>1. j \in Nat
    BY DivNat
  <2>2. k \in Int
    OBVIOUS
  <2>3. k % h \in 0 .. h - 1 /\ k = h * (k \div h) + (k % h)
    BY <2>2, Euclid
  <2> QED BY <2>1, <2>3
<1> HIDE DEF j, i
<1>3. r \in Nat /\ s \in Nat /\ WordBits = r + (w + s)
  <2>1. h - 1 - i \in Nat
    BY <1>2
  <2>2. w * i \in Nat /\ w * (h - 1 - i) \in Nat
    BY <1>1, <1>2, <2>1
  <2>3. w * h = w * i + (w + w * (h - 1 - i))
    BY <1>1, <1>2
  <2> QED BY <2>2, <2>3 DEF w
<1>4. bit = WordBits * j + r /\ bit \in Nat
  <2>1. w * (h * j + i) = (w * h) * j + w * i
    BY <1>1, <1>2
  <2>2. w * k \in Nat
    BY <1>1
  <2> QED BY <1>2, <2>1, <2>2 DEF w
<1>5. j < n
  <2> SUFFICES ASSUME j >= n PROVE FALSE
    BY <1>2
  <2>1. h * j >= h * n
    BY <1>2
  <2>2. h * j \in Int /\ h * n \in Int
    BY <1>2
  <2> DEFINE y == h * j
             z == h * n
  <2>3. y \in Int /\ z \in Int /\ y >= z /\ k = y + i /\ k < z
    BY <1>2, <2>1, <2>2
  <2> HIDE DEF y, z
  <2> QED BY <1>2, <2>3
<1>6. r < WordBits
  BY <1>1, <1>3
<1>7. bit \div WordBits = j /\ bit % WordBits = r
  <2> DEFINE B == WordBits
  <2>0. B \in Nat \ {0} /\ j \in Int /\ bit \in Int /\ bit = B * j + r
    <3> HIDE DEF r, bit
    <3> QED BY <1>1, <1>2, <1>3, <1>4, <1>6
  <2> HIDE DEF B, r, bit
  <2>1. B \in Nat \ {0} /\ r \in 0 .. B - 1 /\ j \in Int /\ bit \in Int /\ bit = B * j + r
    <3>1. r \in Nat /\ r < B
      BY <1>3, <1>6 DEF B
    <3> QED BY <2>0, <3>1
  <2>2. bit \div B = j /\ bit % B = r
    BY ONLY <2>1, EuclidUnique
  <2> QED BY <2>2 DEF B
<1>8. Window(b, k) = (b[j + 1] \div pr) % pw
  <2>1. Window(b, k) = (b[bit \div WordBits + 1] \div Power(2, bit % WordBits)) % Power(2, w)
    BY DEF Window, w
  <2> HIDE DEF bit, r
  <2> QED BY <1>7, <2>1
<1>9. b[j + 1] = x % W
  <2>1. j \in 0 .. n - 1
    BY <1>2, <1>5
  <2> QED BY <2>1, WordAt DEF V
<1> HIDE DEF r, s, bit
<1>10. pr \in Nat \ {0} /\ pw \in Nat \ {0} /\ ps \in Nat \ {0} /\ pj \in Nat \ {0} /\ pr \in Nat /\ W \in Nat \ {0}
  <2> DEFINE two == 2
  <2>1. two \in Nat \ {0}
    OBVIOUS
  <2> HIDE DEF two
  <2>2. Power(two, r) \in Nat \ {0}
    BY <1>3, <2>1, PowerPositive
  <2>3. Power(two, s) \in Nat \ {0}
    BY <1>3, <2>1, PowerPositive
  <2>4. Power(two, w) \in Nat \ {0}
    BY <1>1, <2>1, PowerPositive
  <2>5. pj \in Nat \ {0}
    BY <1>2, WType, PowerPositive
  <2> QED BY <2>2, <2>3, <2>4, <2>5, WType DEF two
<1>11. W = pr * (pw * ps)
  <2> DEFINE two == 2
             t == w + s
  <2>1. two \in Int /\ t \in Nat /\ t = w + s /\ WordBits = r + t
    BY <1>1, <1>3
  <2> HIDE DEF two, t
  <2>2. Power(two, r + t) = Power(two, r) * Power(two, t)
    BY ONLY <1>3, <2>1, PowerPlus
  <2>3. Power(two, w + s) = Power(two, w) * Power(two, s)
    BY ONLY <1>1, <1>3, <2>1, PowerPlus
  <2>4. W = Power(two, WordBits)
    BY DEF W, two
  <2> QED BY <2>1, <2>2, <2>3, <2>4 DEF two
<1>12. x \in Nat
  BY <1>1, <1>10, DivNat
<1>13. Power(2, bit) = pj * pr
  <2> DEFINE two == 2
             m == WordBits * j
  <2>1. two \in Int /\ m \in Nat /\ bit = m + r
    BY <1>1, <1>2, <1>4
  <2>2. Power(Power(two, WordBits), j) = Power(two, WordBits * j)
    <3> HIDE DEF two
    <3> QED BY ONLY <1>1, <1>2, <2>1, PowerPower
  <2>3. W = Power(two, WordBits)
    BY DEF W
  <2> HIDE DEF two, m
  <2>4. Power(two, m + r) = Power(two, m) * Power(two, r)
    BY ONLY <1>3, <2>1, PowerPlus
  <2> QED BY <2>1, <2>2, <2>3, <2>4 DEF two, m
<1> HIDE DEF pr, pw, ps, pj
<1>14. x \div pr = V \div (pj * pr)
  <2>1. DivTwice(V, pj, pr)
    BY <1>1, <1>10, DivDivIs
  <2> QED BY <2>1 DEF DivTwice
<1> HIDE DEF x
<1>15. ((x % W) \div pr) % pw = (x \div pr) % pw
  <2> DEFINE t == W
  <2>1. t \in Nat \ {0} /\ t = pr * (pw * ps)
    BY <1>10, <1>11
  <2> HIDE DEF t
  <2>2. ((x % t) \div pr) % pw = (x \div pr) % pw
    <3>1. \A c \in Nat \ {0} : t = pr * (pw * c) => BelowOnly(x, t, pr, pw)
      BY ONLY <1>10, <1>12, <2>1, ModDivMod
    <3> QED BY <1>10, <2>1, <3>1 DEF BelowOnly
  <2> QED BY <2>2 DEF t
<1> QED BY <1>8, <1>9, <1>13, <1>14, <1>15 DEF V, bit, pw, w

-----------------------------------------------------------------------------
(***************************************************************************)
(* Montgomery forms: x stands for u when it is u * W^len modulo n.         *)
(***************************************************************************)
Form(x, u, n, len) ==
  x \in Array(len) /\ u \in Int /\ Congruent(Value(x), Power(W, len) * u, Value(n))

\* What is left of a product of forms is the form of the product.
LEMMA ReducedForm ==
  ASSUME NEW len, NEW n, NEW ctx, Context(ctx, n, len), NEW x, NEW y, NEW u, NEW v,
         Form(x, u, n, len), Form(y, v, n, len), NEW r, MontReduced(r, n, len, Value(x) * Value(y))
  PROVE  Form(r, u * v, n, len)
<1> DEFINE N == Value(n)
           R == Power(W, len)
           ru == R * u
           rv == R * v
           vx == Value(x)
           vy == Value(y)
           vr == Value(r)
           w == R * (u * v)
<1>1. len \in Nat /\ N \in Nat \ {0, 1} /\ N \in Nat \ {0} /\ N % 2 = 1 /\ R \in Nat \ {0}
  BY ContextFacts
<1>2. u \in Int /\ v \in Int /\ x \in Array(len) /\ y \in Array(len) /\ r \in Array(len)
  BY DEF Form, MontReduced
<1>3. vx \in Int /\ vy \in Int /\ vr \in Int
  BY <1>1, <1>2, ValueBounds
<1>4. Congruent(vx, ru, N) /\ Congruent(vy, rv, N)
  BY DEF Form
<1>5. (R * vr) % N = (vx * vy) % N
  BY DEF MontReduced
<1> HIDE DEF N, R, vx, vy, vr
<1>6. ru \in Int /\ rv \in Int /\ w \in Int
  BY <1>1, <1>2
<1>7. ru * rv = R * w
  BY <1>1, <1>2
<1>8. Congruent(vx * vy, ru * rv, N)
  <2> HIDE DEF ru, rv
  <2> QED BY <1>1, <1>3, <1>4, <1>6, CongruentTimes
<1>9. (R * vr) % N = (R * w) % N
  BY <1>5, <1>7, <1>8 DEF Congruent
<1> HIDE DEF w
<1>10. vr % N = w % N
  <2>1. (Power(W, len) * vr) % N = (Power(W, len) * w) % N
    BY <1>9 DEF R
  <2> QED BY ONLY <1>1, <1>3, <1>6, <2>1, RadixCancels
<1>11. u * v \in Int
  BY <1>2
<1> QED BY <1>2, <1>10, <1>11 DEF Form, Congruent, N, R, vr, w

\* Products of forms are forms of products.
LEMMA AlmostMontMulForm ==
  ASSUME NEW len, NEW n, NEW ctx, Context(ctx, n, len), NEW x, NEW y, NEW u, NEW v,
         Form(x, u, n, len), Form(y, v, n, len)
  PROVE  Form(AlmostMontMul(ctx, x, y), u * v, n, len)
<1>1. x \in Array(len) /\ y \in Array(len)
  BY DEF Form
<1>2. MontReduced(AlmostMontMul(ctx, x, y), n, len, Value(x) * Value(y))
  BY <1>1, AlmostMontMulValue
<1> DEFINE r == AlmostMontMul(ctx, x, y)
<1> HIDE DEF r
<1>3. Form(r, u * v, n, len)
  BY <1>2, ReducedForm DEF r
<1> QED BY <1>3 DEF r

\* Squares of forms are forms of squares.
LEMMA AlmostMontSqrForm ==
  ASSUME NEW len, NEW n, NEW ctx, Context(ctx, n, len), NEW x, NEW u, Form(x, u, n, len)
  PROVE  Form(AlmostMontSqr(ctx, x), u * u, n, len)
<1>1. x \in Array(len)
  BY DEF Form
<1>2. MontReduced(AlmostMontSqr(ctx, x), n, len, Value(x) * Value(x))
  BY <1>1, AlmostMontSqrValue
<1> DEFINE r == AlmostMontSqr(ctx, x)
<1> HIDE DEF r
<1>3. Form(r, u * u, n, len)
  BY <1>2, ReducedForm DEF r
<1> QED BY <1>3 DEF r

\* ToMont returns a form of its argument.
LEMMA ToMontForm ==
  ASSUME NEW len, NEW n, NEW ctx, Context(ctx, n, len), NEW a \in Array(len)
  PROVE  Form(ToMont(ctx, a), Value(a), n, len)
<1> DEFINE R == Power(W, len)
           N == Value(n)
           va == Value(a)
           m == ToMont(ctx, a)
           vm == Value(m)
<1>1. len \in Nat /\ N \in Nat \ {0} /\ R \in Nat \ {0}
  BY ContextFacts
<1>2. va \in Nat
  BY <1>1, ValueBounds
<1>3. m \in Array(len) /\ vm = (va * R) % N
  BY ToMontValue
<1> HIDE DEF N, R, va, m
<1> DEFINE z == va * R
<1>4. z \in Int /\ z = R * va
  BY <1>1, <1>2
<1>5. vm = z % N
  BY <1>3
<1> HIDE DEF z, vm
<1>6. vm % N = z % N
  BY <1>1, <1>4, <1>5, ModOfMod
<1>7. va \in Int
  BY <1>2
<1> QED BY <1>3, <1>4, <1>6, <1>7 DEF Form, Congruent, N, R, va, m, vm

\* The form of one.
LEMMA OneForm ==
  ASSUME NEW len, NEW n, NEW ctx, Context(ctx, n, len)
  PROVE  Form(FromMont(ctx, ctx.r2), 1, n, len)
<1> DEFINE R == Power(W, len)
           N == Value(n)
           r2 == ctx.r2
           m == FromMont(ctx, r2)
           vm == Value(m)
           one == 1
<1>1. len \in Nat /\ N \in Nat \ {0} /\ R \in Nat \ {0} /\ r2 \in Array(len) /\ Value(r2) % N = (R * R) % N
  BY ContextFacts
<1> HIDE DEF N, R, r2, m
<1>2. R \in Int /\ Congruent(Value(r2), R * R, N)
  BY <1>1 DEF Congruent
<1>3. m \in Array(len) /\ vm = R % N
  BY <1>1, <1>2, FromMontValue DEF N, R, m
<1>4. vm % N = R % N
  BY <1>1, <1>2, <1>3, ModOfMod
<1>5. R * one = R /\ one \in Int
  BY <1>2
<1> HIDE DEF one
<1>6. Form(m, one, n, len)
  <2>1. Congruent(Value(m), Power(W, len) * one, Value(n))
    BY <1>4, <1>5 DEF Congruent, N, R
  <2> QED BY <1>3, <1>5, <2>1 DEF Form
<1> QED BY <1>6 DEF m, r2, one

\* FromMont returns what the form stands for, reduced.
LEMMA FromMontForm ==
  ASSUME NEW len, NEW n, NEW ctx, Context(ctx, n, len), NEW x, NEW u, Form(x, u, n, len)
  PROVE  /\ FromMont(ctx, x) \in Array(len) /\ Value(FromMont(ctx, x)) < Value(n)
         /\ Value(FromMont(ctx, x)) = u % Value(n)
<1>1. x \in Array(len) /\ u \in Int /\ Congruent(Value(x), Power(W, len) * u, Value(n))
  BY DEF Form
<1> QED BY <1>1, FromMontValue

-----------------------------------------------------------------------------
(***************************************************************************)
(* Repeated squarings.                                                     *)
(***************************************************************************)
SquaredFcn(ctx, r) ==
  CHOOSE s : s = [i \in 0 .. WindowBits |-> IF i = 0 THEN r ELSE AlmostMontSqr(ctx, s[i - 1])]

\* The squarings of one window obey the loop.
LEMMA SquaredFcnRec ==
  ASSUME NEW len, NEW n, NEW ctx, Context(ctx, n, len), NEW r \in Array(len)
  PROVE  /\ SquaredFcn(ctx, r)[0] = r
         /\ \A i \in 1 .. WindowBits : SquaredFcn(ctx, r)[i] = AlmostMontSqr(ctx, SquaredFcn(ctx, r)[i - 1])
<1> DEFINE f == SquaredFcn(ctx, r)
           S == Array(len)
           w == WindowBits
           step == [i \in 1 .. w |-> [x \in S |-> AlmostMontSqr(ctx, x)]]
<1>1. w \in Nat
  BY WindowBitsNat
<1>2. step \in Steps(w, S)
  <2>1. ASSUME NEW x \in S
        PROVE  AlmostMontSqr(ctx, x) \in S
    BY AlmostMontSqrValue DEF MontReduced
  <2> HIDE DEF S
  <2> QED BY <2>1 DEF Steps
<1>3. PICK g \in [0 .. w -> S] : Recurs(g, w, r, step)
  <2> HIDE DEF step, w
  <2>1. r \in S
    OBVIOUS
  <2> HIDE DEF S
  <2> QED BY ONLY <1>1, <1>2, <2>1, RecursionExists
<1>4. g = [i \in 0 .. w |-> IF i = 0 THEN r ELSE AlmostMontSqr(ctx, g[i - 1])]
  <2>1. ASSUME NEW i \in 1 .. w
        PROVE  g[i] = AlmostMontSqr(ctx, g[i - 1])
    <3> HIDE DEF S
    <3>1. g[i - 1] \in S
      BY <1>1, <1>3
    <3>2. g[i] = step[i][g[i - 1]]
      <4> HIDE DEF step
      <4> QED BY <1>3 DEF Recurs
    <3> QED BY <3>1, <3>2
  <2>2. g[0] = r
    BY <1>3 DEF Recurs
  <2> HIDE DEF step, S, w
  <2> QED BY <1>1, <1>3, <2>1, <2>2
<1>5. f = CHOOSE s : s = [i \in 0 .. w |-> IF i = 0 THEN r ELSE AlmostMontSqr(ctx, s[i - 1])]
  BY DEF SquaredFcn
<1>6. f = [i \in 0 .. w |-> IF i = 0 THEN r ELSE AlmostMontSqr(ctx, f[i - 1])]
  <2> HIDE DEF f, w
  <2> QED BY <1>4, <1>5
<1> HIDE DEF f, w
<1>7. f[0] = r /\ \A i \in 1 .. w : f[i] = AlmostMontSqr(ctx, f[i - 1])
  BY <1>1, <1>6
<1> QED BY <1>7 DEF f, w

\* The squarings of one window raise to 2 to the WindowBits.
LEMMA SquaredForm ==
  ASSUME NEW len, NEW n, NEW ctx, Context(ctx, n, len), NEW r, NEW u, Form(r, u, n, len)
  PROVE  Form(SquaredFcn(ctx, r)[WindowBits], Power(u, Power(2, WindowBits)), n, len)
<1> DEFINE f == SquaredFcn(ctx, r)
           w == WindowBits
           Holds(i) == Form(f[i], Power(u, Power(2, i)), n, len)
           C == {i \in 0 .. w : Holds(i)}
<1>1. w \in Nat /\ u \in Int /\ r \in Array(len)
  BY WindowBitsNat DEF Form
<1>2. f[0] = r /\ \A i \in 1 .. w : f[i] = AlmostMontSqr(ctx, f[i - 1])
  BY <1>1, SquaredFcnRec
<1> HIDE DEF f, w
<1>3. 0 \in C
  <2>1. Power(2, 0) = 1
    BY PowerZero
  <2>2. Power(u, 1) = u
    BY <1>1, PowerOne
  <2> QED BY <1>1, <1>2, <2>1, <2>2
<1>4. ASSUME NEW i \in 1 .. w, i - 1 \in C
      PROVE  i \in C
  <2> DEFINE two == 2
             j == i - 1
             e == Power(two, j)
             y == Power(u, e)
  <2>1. Form(f[j], y, n, len)
    BY <1>4
  <2>2. j \in Nat /\ j + 1 = i /\ two \in Nat \ {0} /\ two \in Int
    BY <1>1
  <2>3. f[i] = AlmostMontSqr(ctx, f[j])
    BY <1>2
  <2> HIDE DEF j, two
  <2>4. Power(two, j + 1) = two * e /\ e \in Nat
    <3>1. e \in Nat \ {0}
      BY <2>2, PowerPositive
    <3> QED BY <2>2, <3>1, PowerNext
  <2> HIDE DEF e
  <2>5. Power(u, e + e) = y * y
    BY <1>1, <2>4, PowerPlus
  <2>6. two * e = e + e
    BY <2>4 DEF two
  <2> HIDE DEF y
  <2>7. Form(AlmostMontSqr(ctx, f[j]), y * y, n, len)
    BY <2>1, AlmostMontSqrForm
  <2>8. y * y = Power(u, Power(2, i))
    <3>1. Power(2, i) = e + e
      BY <2>2, <2>4, <2>6 DEF two
    <3> QED BY <2>5, <3>1
  <2> QED BY <2>3, <2>7, <2>8
<1>5. w \in C
  <2>1. \A i \in 0 .. w : i \in C
    <3> HIDE DEF C
    <3> QED BY <1>1, <1>3, <1>4, UpTo
  <2> HIDE DEF C
  <2> QED BY <1>1, <2>1
<1> QED BY <1>5 DEF f, w

-----------------------------------------------------------------------------
(***************************************************************************)
(* The table of the first powers.                                          *)
(***************************************************************************)
TableFcn(ctx, a) ==
  CHOOSE power : power =
    [i \in 0 .. Power(2, WindowBits) - 1 |->
       IF i = 0 THEN FromMont(ctx, ctx.r2)
       ELSE AlmostMontMul(ctx, ToMont(ctx, a), power[i - 1])]

\* The table of powers obeys its loop.
LEMMA TableFcnRec ==
  ASSUME NEW len, NEW n, NEW ctx, Context(ctx, n, len), NEW a \in Array(len),
         NEW m \in Nat, m = Power(2, WindowBits) - 1
  PROVE  /\ TableFcn(ctx, a)[0] = FromMont(ctx, ctx.r2)
         /\ \A i \in 1 .. m : TableFcn(ctx, a)[i] =
              AlmostMontMul(ctx, ToMont(ctx, a), TableFcn(ctx, a)[i - 1])
<1> DEFINE f == TableFcn(ctx, a)
           S == Array(len)
           base == FromMont(ctx, ctx.r2)
           x1 == ToMont(ctx, a)
           step == [i \in 1 .. m |-> [x \in S |-> AlmostMontMul(ctx, x1, x)]]
<1>1. base \in S /\ x1 \in S
  BY OneForm, ToMontForm DEF Form
<1> HIDE DEF base, x1
<1>2. step \in Steps(m, S)
  <2>1. ASSUME NEW x \in S
        PROVE  AlmostMontMul(ctx, x1, x) \in S
    BY <1>1, AlmostMontMulValue DEF MontReduced
  <2> HIDE DEF S
  <2> QED BY <1>1, <2>1 DEF Steps
<1>3. PICK g \in [0 .. m -> S] : Recurs(g, m, base, step)
  <2> HIDE DEF step, S
  <2> QED BY ONLY <1>1, <1>2, m \in Nat, RecursionExists
<1> DEFINE Body(h) == [i \in 0 .. m |->
                         IF i = 0 THEN base ELSE AlmostMontMul(ctx, x1, h[i - 1])]
<1>4. g = Body(g)
  <2>1. ASSUME NEW i \in 1 .. m
        PROVE  g[i] = AlmostMontMul(ctx, x1, g[i - 1])
    <3> HIDE DEF S
    <3>1. g[i - 1] \in S
      BY <1>3
    <3>2. g[i] = step[i][g[i - 1]]
      <4> HIDE DEF step
      <4> QED BY <1>3 DEF Recurs
    <3> QED BY <3>1, <3>2
  <2>2. g[0] = base
    BY <1>3 DEF Recurs
  <2> HIDE DEF step, S
  <2> QED BY <1>3, <2>1, <2>2
<1>5. f = CHOOSE power : power = Body(power)
  <2>1. 0 .. Power(2, WindowBits) - 1 = 0 .. m
    OBVIOUS
  <2> QED BY <2>1 DEF TableFcn, base, x1
<1>6. f = Body(f)
  <2> HIDE DEF f, Body
  <2> QED BY <1>4, <1>5
<1> HIDE DEF f
<1>7. f[0] = base /\ \A i \in 1 .. m : f[i] = AlmostMontMul(ctx, x1, f[i - 1])
  BY <1>6
<1> QED BY <1>7 DEF f, base, x1

\* The table holds the powers of the base.
LEMMA TableForm ==
  ASSUME NEW len, NEW n, NEW ctx, Context(ctx, n, len), NEW a \in Array(len),
         NEW i \in Nat, i < Power(2, WindowBits)
  PROVE  Form(TableFcn(ctx, a)[i], Power(Value(a), i), n, len)
<1> DEFINE f == TableFcn(ctx, a)
           m == Power(2, WindowBits) - 1
           va == Value(a)
           Holds(k) == Form(f[k], Power(va, k), n, len)
           C == {k \in 0 .. m : Holds(k)}
<1>1. m \in Nat /\ i \in 0 .. m
  <2>1. Power(2, WindowBits) \in Nat \ {0}
    BY WindowBitsNat, PowerPositive
  <2> QED BY <2>1
<1>2. va \in Int
  BY ContextFacts, ValueBounds
<1>3. /\ f[0] = FromMont(ctx, ctx.r2)
      /\ \A k \in 1 .. m : f[k] = AlmostMontMul(ctx, ToMont(ctx, a), f[k - 1])
  <2>1. m = Power(2, WindowBits) - 1
    OBVIOUS
  <2> HIDE DEF m
  <2> QED BY <1>1, <2>1, TableFcnRec
<1>4. Form(ToMont(ctx, a), va, n, len)
  BY ToMontForm
<1> HIDE DEF f, m, va
<1>5. 0 \in C
  <2>1. Power(va, 0) = 1
    BY <1>2, PowerZero
  <2> QED BY <1>1, <1>3, <2>1, OneForm
<1>6. ASSUME NEW k \in 1 .. m, k - 1 \in C
      PROVE  k \in C
  <2> DEFINE j == k - 1
             y == Power(va, j)
  <2>1. Form(f[j], y, n, len)
    BY <1>6
  <2>2. f[k] = AlmostMontMul(ctx, ToMont(ctx, a), f[j])
    BY <1>3
  <2>3. j \in Nat /\ j + 1 = k
    BY <1>1
  <2> HIDE DEF j
  <2>4. Power(va, j + 1) = va * y
    BY <1>2, <2>3, PowerNext
  <2> HIDE DEF y
  <2> DEFINE x1 == ToMont(ctx, a)
  <2>5. Form(x1, va, n, len)
    BY <1>4
  <2> HIDE DEF x1
  <2>6. Form(AlmostMontMul(ctx, x1, f[j]), va * y, n, len)
    BY <2>1, <2>5, AlmostMontMulForm
  <2> QED BY <2>2, <2>3, <2>4, <2>6 DEF x1
<1>7. i \in C
  <2>1. \A k \in 0 .. m : k \in C
    <3> HIDE DEF C
    <3> QED BY <1>1, <1>5, <1>6, UpTo
  <2> HIDE DEF C
  <2> QED BY <1>1, <2>1
<1> QED BY <1>7 DEF f, va

-----------------------------------------------------------------------------
(***************************************************************************)
(* The windows from the top: one more after WindowBits squarings.          *)
(***************************************************************************)
WindowStep(ctx, a, b, i, r) ==
  AlmostMontMul(ctx, SquaredFcn(ctx, r)[WindowBits],
                TableFcn(ctx, a)[Window(b, (WordBits * Len(b)) \div WindowBits - i)])

WindowsFcn(ctx, a, b) ==
  CHOOSE res : res =
    [i \in 0 .. (WordBits * Len(b)) \div WindowBits |->
       IF i = 0 THEN FromMont(ctx, ctx.r2) ELSE WindowStep(ctx, a, b, i, res[i - 1])]

\* ModExpVartime takes the radix out of the last window's result.
LEMMA ModExpVartimeIs ==
  ASSUME NEW ctx, NEW a, NEW b
  PROVE  ModExpVartime(ctx, a, b) = FromMont(ctx, WindowsFcn(ctx, a, b)[(WordBits * Len(b)) \div WindowBits])
BY DEF ModExpVartime, WindowsFcn, WindowStep, SquaredFcn, TableFcn

\* The windows cover the exponent.
LEMMA WindowCount ==
  ASSUME NEW l \in Nat, NEW b \in Array(l), NEW h \in Nat \ {0}, WordBits = WindowBits * h
  PROVE  (WordBits * Len(b)) \div WindowBits = h * l /\ h * l \in Nat
<1> DEFINE w == WindowBits
           hl == h * l
           v == WordBits * Len(b)
           zero == 0
<1>1. Len(b) = l /\ w \in Nat \ {0}
  BY ArraySeq, WindowBitsNat
<1> HIDE DEF w
<1>2. hl \in Nat /\ hl \in Int
  OBVIOUS
<1>3. v = w * hl /\ v \in Int
  <2>1. (w * h) * l = w * (h * l) /\ w * (h * l) \in Int
    BY <1>1
  <2> QED BY <1>1, <2>1 DEF w
<1>4. zero \in 0 .. w - 1 /\ v = w * hl + zero
  <2> HIDE DEF v, hl
  <2>1. w * hl \in Int
    BY <1>1, <1>2
  <2> DEFINE z == w * hl
  <2> HIDE DEF z
  <2>2. z \in Int /\ v = z
    BY <1>3, <2>1 DEF z
  <2>3. v = z + 0
    BY <2>2
  <2> QED BY <1>1, <2>3 DEF z
<1> HIDE DEF v, hl, zero
<1>5. v \div w = hl
  BY <1>1, <1>2, <1>3, <1>4, EuclidUnique
<1> QED BY <1>2, <1>5 DEF v, w, hl

\* A window indexes the table.
LEMMA WindowRange ==
  ASSUME NEW l \in Nat, NEW b \in Array(l), NEW h \in Nat \ {0}, WordBits = WindowBits * h,
         NEW k \in Nat, k < h * l
  PROVE  Window(b, k) \in Nat /\ Window(b, k) < Power(2, WindowBits)
<1> DEFINE d == Power(2, WindowBits * k)
           y == Power(2, WindowBits)
           v == Value(b)
           x == v \div d
<1>1. Window(b, k) = x % y
  BY WindowValue
<1>2. v \in Nat /\ y \in Nat \ {0}
  BY ValueBounds, WindowBitsNat, PowerPositive
<1>3. d \in Nat \ {0}
  <2> DEFINE e == WindowBits * k
  <2>1. e \in Nat
    BY WindowBitsNat
  <2> HIDE DEF e
  <2>2. Power(2, e) \in Nat \ {0}
    BY <2>1, PowerPositive
  <2> QED BY <2>2 DEF e
<1> HIDE DEF v, d, y
<1>4. x \in Nat
  BY <1>2, <1>3, DivNat
<1> HIDE DEF x
<1>5. x % y \in 0 .. y - 1
  BY <1>2, <1>4
<1>6. Window(b, k) \in Nat /\ Window(b, k) < y
  BY <1>1, <1>2, <1>5
<1> QED BY <1>6 DEF y

\* A step raises what was found and multiplies by the window's power.
LEMMA WindowStepForm ==
  ASSUME NEW len, NEW n, NEW ctx, Context(ctx, n, len), NEW a \in Array(len),
         NEW l \in Nat, NEW b \in Array(l), NEW h \in Nat \ {0}, WordBits = WindowBits * h,
         NEW i \in 1 .. h * l, NEW r, NEW u, Form(r, u, n, len)
  PROVE  Form(WindowStep(ctx, a, b, i, r),
              Power(u, Power(2, WindowBits)) * Power(Value(a), Window(b, h * l - i)), n, len)
<1> DEFINE hl == h * l
           k == hl - i
           x == SquaredFcn(ctx, r)[WindowBits]
           d == Window(b, k)
           y == TableFcn(ctx, a)[d]
           ux == Power(u, Power(2, WindowBits))
           uy == Power(Value(a), d)
<1>1. (WordBits * Len(b)) \div WindowBits = hl /\ hl \in Nat
  BY WindowCount
<1>2. k \in Nat /\ k < hl
  <2> HIDE DEF hl
  <2> QED BY <1>1 DEF hl
<1>3. d \in Nat /\ d < Power(2, WindowBits)
  <2> HIDE DEF k
  <2> QED BY <1>2, WindowRange
<1>4. WindowStep(ctx, a, b, i, r) = AlmostMontMul(ctx, x, y)
  <2> HIDE DEF hl
  <2> QED BY <1>1 DEF WindowStep
<1>5. Form(x, ux, n, len)
  BY SquaredForm
<1> HIDE DEF d
<1>6. Form(y, uy, n, len)
  BY <1>3, TableForm
<1> HIDE DEF x, y, ux, uy
<1>7. Form(AlmostMontMul(ctx, x, y), ux * uy, n, len)
  BY <1>5, <1>6, AlmostMontMulForm
<1> QED BY <1>4, <1>7 DEF ux, uy, d, k, hl

\* The windows obey the loop.
LEMMA WindowsFcnRec ==
  ASSUME NEW len, NEW n, NEW ctx, Context(ctx, n, len), NEW a \in Array(len),
         NEW l \in Nat, NEW b \in Array(l), NEW h \in Nat \ {0}, WordBits = WindowBits * h,
         NEW m \in Nat, m = h * l
  PROVE  /\ WindowsFcn(ctx, a, b)[0] = FromMont(ctx, ctx.r2)
         /\ \A i \in 1 .. m : WindowsFcn(ctx, a, b)[i] = WindowStep(ctx, a, b, i, WindowsFcn(ctx, a, b)[i - 1])
<1> DEFINE f == WindowsFcn(ctx, a, b)
           S == {r \in Array(len) : \E u \in Int : Form(r, u, n, len)}
           base == FromMont(ctx, ctx.r2)
           step == [i \in 1 .. m |-> [r \in S |-> WindowStep(ctx, a, b, i, r)]]
<1>1. base \in S
  <2>1. Form(base, 1, n, len)
    BY OneForm
  <2> HIDE DEF base
  <2> QED BY <2>1 DEF Form
<1> HIDE DEF base
<1>2. step \in Steps(m, S)
  <2>1. ASSUME NEW i \in 1 .. m, NEW r \in S
        PROVE  WindowStep(ctx, a, b, i, r) \in S
    <3>1. PICK u \in Int : Form(r, u, n, len)
      OBVIOUS
    <3> DEFINE y == WindowStep(ctx, a, b, i, r)
               v == Power(u, Power(2, WindowBits)) * Power(Value(a), Window(b, h * l - i))
    <3>2. Form(y, v, n, len)
      BY <3>1, WindowStepForm
    <3> HIDE DEF y, v
    <3>3. y \in Array(len) /\ v \in Int
      BY <3>2 DEF Form
    <3> QED BY <3>2, <3>3 DEF y
  <2> HIDE DEF S
  <2> QED BY <2>1 DEF Steps
<1>3. PICK g \in [0 .. m -> S] : Recurs(g, m, base, step)
  <2> HIDE DEF step, S
  <2> QED BY ONLY <1>1, <1>2, m \in Nat, RecursionExists
<1> DEFINE Body(r) == [i \in 0 .. m |-> IF i = 0 THEN base ELSE WindowStep(ctx, a, b, i, r[i - 1])]
<1>4. g = Body(g)
  <2>1. ASSUME NEW i \in 1 .. m
        PROVE  g[i] = WindowStep(ctx, a, b, i, g[i - 1])
    <3> HIDE DEF S
    <3>1. g[i - 1] \in S
      BY <1>3
    <3>2. g[i] = step[i][g[i - 1]]
      <4> HIDE DEF step
      <4> QED BY <1>3 DEF Recurs
    <3> QED BY <3>1, <3>2
  <2>2. g[0] = base
    BY <1>3 DEF Recurs
  <2> HIDE DEF step, S
  <2> QED BY <1>3, <2>1, <2>2
<1>5. f = CHOOSE res : res = Body(res)
  <2>1. 0 .. (WordBits * Len(b)) \div WindowBits = 0 .. m
    BY WindowCount
  <2> QED BY <2>1 DEF WindowsFcn, base
<1>6. f = Body(f)
  <2> HIDE DEF f, Body
  <2> QED BY <1>4, <1>5
<1> HIDE DEF f
<1>7. f[0] = base /\ \A i \in 1 .. m : f[i] = WindowStep(ctx, a, b, i, f[i - 1])
  <2>1. f[0] = base
    BY ONLY <1>6, m \in Nat
  <2>2. ASSUME NEW i \in 1 .. m
        PROVE  f[i] = WindowStep(ctx, a, b, i, f[i - 1])
    <3>1. i \in 0 .. m /\ i # 0
      BY ONLY m \in Nat, i \in 1 .. m
    <3> QED BY ONLY <1>6, <3>1
  <2> QED BY ONLY <2>1, <2>2
<1> QED BY <1>7 DEF f, base

\* The bits of an exponent from the k-th window on, and one window more.
Above(v, k) == v \div Power(2, WindowBits * k)

\* The bits above a window and the window.
LEMMA OneMoreWindow ==
  ASSUME NEW l \in Nat, NEW b \in Array(l), NEW h \in Nat \ {0}, WordBits = WindowBits * h,
         NEW k \in Nat, k < h * l
  PROVE  /\ Above(Value(b), k) \in Nat /\ Above(Value(b), k + 1) \in Nat
         /\ Above(Value(b), k) = Above(Value(b), k + 1) * Power(2, WindowBits) + Window(b, k)
<1> DEFINE w == WindowBits
           v == Value(b)
           two == 2
           e == w * k
           d == Power(two, e)
           y == Power(two, w)
           x == v \div d
           z == x \div y
<1>1. w \in Nat /\ v \in Nat /\ two \in Int /\ two \in Nat \ {0}
  BY WindowBitsNat, ValueBounds
<1>2. e \in Nat /\ w * (k + 1) = e + w
  <2> HIDE DEF w
  <2> QED BY <1>1
<1> HIDE DEF w, v, two, e
<1>3. d \in Nat \ {0}
  BY <1>1, <1>2, PowerPositive
<1>4. y \in Nat \ {0}
  BY <1>1, PowerPositive
<1>5. Power(two, e + w) = d * y
  BY <1>1, <1>2, PowerPlus
<1>6. Window(b, k) = x % y
  BY WindowValue DEF v, w, two, e
<1> HIDE DEF d, y
<1>7. x \in Nat
  BY <1>1, <1>3, DivNat
<1>8. z = v \div (d * y)
  <2>1. DivTwice(v, d, y)
    BY <1>1, <1>3, <1>4, DivDivIs
  <2> QED BY <2>1 DEF DivTwice
<1>9. Above(v, k + 1) = z
  BY <1>2, <1>5, <1>8 DEF Above, w, two
<1>10. Above(v, k) = x
  BY DEF Above, w, two, d, e
<1> HIDE DEF x
<1>11. x = y * z + (x % y) /\ z \in Nat
  <2>1. x \in Int
    BY <1>7
  <2> QED BY <1>4, <1>7, <2>1, Euclid, DivNat
<1> HIDE DEF z
<1>12. y * z = z * y
  BY <1>4, <1>11
<1>13. x = z * y + Window(b, k)
  BY <1>6, <1>11, <1>12
<1> QED BY <1>7, <1>9, <1>10, <1>11, <1>13 DEF v, y, two, w

\* No bits are above the first window; all are above none.
LEMMA AboveEnds ==
  ASSUME NEW l \in Nat, NEW b \in Array(l), NEW h \in Nat \ {0}, WordBits = WindowBits * h
  PROVE  Above(Value(b), h * l) = 0 /\ Above(Value(b), 0) = Value(b)
<1> DEFINE w == WindowBits
           v == Value(b)
           two == 2
           e == w * (h * l)
           pl == Power(two, e)
<1>1. w \in Nat /\ v \in 0 .. Power(W, l) - 1 /\ v \in Nat /\ two \in Int /\ two \in Nat \ {0} /\ WordBits \in Nat
  BY WindowBitsNat, ValueBounds, WordBitsNat
<1>2. e \in Nat /\ e = WordBits * l
  <2>1. WordBits = w * h
    OBVIOUS
  <2> HIDE DEF w
  <2>2. (w * h) * l = w * (h * l)
    BY <1>1
  <2>3. h * l \in Nat
    OBVIOUS
  <2> DEFINE x == h * l
  <2> HIDE DEF x
  <2>4. w * x \in Nat
    BY <1>1, <2>3 DEF x
  <2> QED BY <2>1, <2>2, <2>4 DEF x
<1>3. Power(W, l) = pl
  <2>1. Power(Power(two, WordBits), l) = Power(two, WordBits * l)
    <3> HIDE DEF two
    <3> QED BY <1>1, PowerPower
  <2> HIDE DEF e
  <2> QED BY <1>2, <2>1 DEF W
<1> HIDE DEF e, two
<1>4. pl \in Nat \ {0}
  BY <1>1, <1>2, PowerPositive
<1> HIDE DEF pl, v
<1>5. v \div pl = 0
  <2>1. v \in 0 .. pl - 1
    BY <1>1, <1>3
  <2> DEFINE zero == 0
  <2>2. zero \in Int /\ v \in Int /\ v = pl * zero + v
    BY <1>1, <1>4
  <2> HIDE DEF zero
  <2>3. v \div pl = zero
    BY <1>4, <2>1, <2>2, EuclidUnique
  <2> QED BY <2>3 DEF zero
<1>6. Power(2, w * 0) = 1 /\ v \div 1 = v
  <2>1. w * 0 = 0
    BY <1>1
  <2> HIDE DEF w
  <2> QED BY <1>1, <2>1, PowerZero
<1> QED BY <1>5, <1>6 DEF Above, v, pl, two, e, w

(***************************************************************************)
(* The power.                                                              *)
(***************************************************************************)
THEOREM ModExpVartimeValue ==
  ASSUME NEW len, NEW n, NEW ctx, Context(ctx, n, len), NEW a \in Array(len),
         NEW l \in Nat, NEW b \in Array(l)
  PROVE  /\ ModExpVartime(ctx, a, b) \in Array(len) /\ Value(ModExpVartime(ctx, a, b)) < Value(n)
         /\ Value(ModExpVartime(ctx, a, b)) = Power(Value(a), Value(b)) % Value(n)
<1>1. PICK h \in Nat \ {0} : WordBits = WindowBits * h
  BY WindowBitsNat
<1> DEFINE f == WindowsFcn(ctx, a, b)
           m == h * l
           va == Value(a)
           v == Value(b)
           y == Power(2, WindowBits)
           Holds(i) == Form(f[i], Power(va, Above(v, m - i)), n, len)
           C == {i \in 0 .. m : Holds(i)}
<1>2. (WordBits * Len(b)) \div WindowBits = m /\ m \in Nat
  BY <1>1, WindowCount
<1>3. va \in Int /\ y \in Nat
  <2>1. va \in Int
    BY ContextFacts, ValueBounds
  <2>2. y \in Nat \ {0}
    BY WindowBitsNat, PowerPositive
  <2> QED BY <2>1, <2>2
<1>4. /\ f[0] = FromMont(ctx, ctx.r2)
      /\ \A i \in 1 .. m : f[i] = WindowStep(ctx, a, b, i, f[i - 1])
  <2>1. m = h * l
    OBVIOUS
  <2> HIDE DEF m
  <2> QED BY <1>1, <1>2, <2>1, WindowsFcnRec
<1>5. ModExpVartime(ctx, a, b) = FromMont(ctx, f[m])
  <2> HIDE DEF m
  <2> QED BY <1>2, ModExpVartimeIs
<1>6. Above(v, m) = 0 /\ Above(v, 0) = v
  BY <1>1, AboveEnds
<1>7. \A k \in Nat : k < m => /\ Above(v, k) \in Nat /\ Above(v, k + 1) \in Nat
                              /\ Above(v, k) = Above(v, k + 1) * y + Window(b, k)
  BY <1>1, OneMoreWindow
<1>8. \A k \in Nat : k < m => Window(b, k) \in Nat
  BY <1>1, WindowRange
<1>9. ASSUME NEW i \in 1 .. m, NEW r, NEW u, Form(r, u, n, len)
      PROVE  Form(WindowStep(ctx, a, b, i, r), Power(u, y) * Power(va, Window(b, m - i)), n, len)
  BY <1>1, <1>9, WindowStepForm
<1> HIDE DEF f, m, va, v, y
<1>10. 0 \in C
  <2>1. Power(va, 0) = 1
    BY <1>3, PowerZero
  <2>2. m - 0 = m
    BY <1>2
  <2> QED BY <1>2, <1>4, <1>6, <2>1, <2>2, OneForm
<1>11. ASSUME NEW i \in 1 .. m, i - 1 \in C
       PROVE  i \in C
  <2> DEFINE k == m - i
             e == Above(v, k + 1)
             d == Window(b, k)
             u == Power(va, e)
             r == f[i - 1]
  <2>1. k \in Nat /\ k < m /\ m - (i - 1) = k + 1
    BY <1>2
  <2>2. Form(r, u, n, len)
    BY <1>11, <2>1
  <2>3. e \in Nat /\ Above(v, k) = e * y + d /\ d \in Nat
    <3> HIDE DEF k
    <3> QED BY <1>7, <1>8, <2>1
  <2>4. f[i] = WindowStep(ctx, a, b, i, r)
    BY <1>4
  <2> HIDE DEF r
  <2>5. Form(WindowStep(ctx, a, b, i, r), Power(u, y) * Power(va, d), n, len)
    <3> HIDE DEF u
    <3> QED BY <1>9, <2>2
  <2> HIDE DEF k, e, d
  <2> DEFINE ey == e * y
  <2>6. Power(u, y) = Power(va, ey)
    BY <1>3, <2>3, PowerPower
  <2>7. ey \in Nat
    BY <1>3, <2>3
  <2> HIDE DEF ey
  <2>8. Power(va, ey + d) = Power(va, ey) * Power(va, d)
    BY <1>3, <2>3, <2>7, PowerPlus
  <2>9. Above(v, k) = ey + d
    BY <2>3 DEF ey
  <2>10. Form(f[i], Power(va, Above(v, k)), n, len)
    BY <2>4, <2>5, <2>6, <2>8, <2>9
  <2> QED BY <2>10 DEF k
<1>12. m \in C
  <2>1. \A i \in 0 .. m : i \in C
    <3> HIDE DEF C
    <3> QED BY <1>2, <1>10, <1>11, UpTo
  <2> HIDE DEF C
  <2> QED BY <1>2, <2>1
<1>13. Form(f[m], Power(va, v), n, len)
  <2>1. m - m = 0
    BY <1>2
  <2> QED BY <1>6, <1>12, <2>1
<1>14. /\ FromMont(ctx, f[m]) \in Array(len) /\ Value(FromMont(ctx, f[m])) < Value(n)
       /\ Value(FromMont(ctx, f[m])) = Power(va, v) % Value(n)
  BY <1>13, FromMontForm
<1> QED BY <1>5, <1>14 DEF va, v

=============================================================================
