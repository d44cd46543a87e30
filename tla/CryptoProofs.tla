---------------------------- MODULE CryptoProofs ----------------------------
(***************************************************************************)
(* Proofs about two pieces of the cryptographic core: the proof of a       *)
(* contest's limit (ElGamal, ChaumPedersen and ContestProof), for a group  *)
(* of any order; and the streaming hash (Sha256), which implements         *)
(* MessageDigest for blocks of any size and any sequence of updates.       *)
(* Neither uses what is assumed of the other.                              *)
(***************************************************************************)
EXTENDS ContestProof, Sha256, FiniteSetTheorems, SequenceTheorems, TLAPS

\* The facts about finite sets are stated there.
Sets == INSTANCE EncryptionProofs

-----------------------------------------------------------------------------
(***************************************************************************)
(* Arithmetic modulo Q.                                                    *)
(***************************************************************************)
LEMMA ModRange ==
  ASSUME NEW a \in Int
  PROVE  a % Q \in ElementsModQ /\ a % Q \in Int
BY QAssumption DEF ElementsModQ

\* A residue is its own remainder.
LEMMA ModSmall ==
  ASSUME NEW a \in ElementsModQ
  PROVE  a \in Int /\ a % Q = a
BY QAssumption DEF ElementsModQ

\* Every integer is a multiple of Q and a remainder.
LEMMA ModQuotient ==
  ASSUME NEW a \in Int
  PROVE  \E k \in Int : a = k * Q + (a % Q)
<1>1. a \div Q \in Int /\ a = Q * (a \div Q) + (a % Q)
  BY QAssumption
<1>2. Q * (a \div Q) = (a \div Q) * Q
  BY <1>1, QAssumption
<1> QED BY <1>1, <1>2

(***************************************************************************)
(* Two residues that differ by a multiple of Q are equal.                  *)
(***************************************************************************)
LEMMA ModUnique ==
  ASSUME NEW a \in ElementsModQ, NEW b \in ElementsModQ, NEW k \in Int,
         a = b + k * Q
  PROVE  a = b
<1>1. CASE k = 0
  BY <1>1, QAssumption DEF ElementsModQ
<1>2. CASE k >= 1
  <2>1. k * Q >= Q
    BY <1>2, QAssumption
  <2> QED BY <2>1, QAssumption DEF ElementsModQ
<1>3. CASE k <= -1
  <2>1. k * Q <= -Q
    BY <1>3, QAssumption
  <2> QED BY <2>1, QAssumption DEF ElementsModQ
<1> QED BY <1>1, <1>2, <1>3

\* Integers that differ by a multiple of Q have one remainder.
LEMMA ModCongruent ==
  ASSUME NEW a \in Int, NEW b \in Int, NEW k \in Int, a = b + k * Q
  PROVE  a % Q = b % Q
<1>1. PICK i \in Int : a = i * Q + (a % Q)
  BY ModQuotient
<1>2. PICK j \in Int : b = j * Q + (b % Q)
  BY ModQuotient
<1>3. (j + k - i) * Q = j * Q + k * Q - i * Q
  BY QAssumption
<1>4. a % Q \in Int /\ b % Q \in Int
  BY ModRange
<1>5. i * Q \in Int /\ j * Q \in Int /\ k * Q \in Int
  BY QAssumption
<1>6. a % Q = (b % Q) + (j + k - i) * Q
  BY <1>1, <1>2, <1>3, <1>4, <1>5
<1> QED BY <1>6, ModRange, ModUnique

(***************************************************************************)
(* A sum, a difference or a product may be reduced at any point.           *)
(***************************************************************************)
LEMMA ModPlus ==
  ASSUME NEW a \in Int, NEW b \in Int
  PROVE  /\ ((a % Q) + b) % Q = (a + b) % Q
         /\ (a + (b % Q)) % Q = (a + b) % Q
         /\ ((a % Q) - b) % Q = (a - b) % Q
         /\ (a - (b % Q)) % Q = (a - b) % Q
<1>1. PICK i \in Int : a = i * Q + (a % Q)
  BY ModQuotient
<1>2. PICK j \in Int : b = j * Q + (b % Q)
  BY ModQuotient
<1>3. a % Q \in Int /\ b % Q \in Int
  BY ModRange
<1>4. i * Q \in Int /\ j * Q \in Int
  BY QAssumption
<1>5. a + b = ((a % Q) + b) + i * Q
  BY <1>1, <1>3, <1>4
<1>6. a + b = (a + (b % Q)) + j * Q
  BY <1>2, <1>3, <1>4
<1>7. a - b = ((a % Q) - b) + i * Q
  BY <1>1, <1>3, <1>4
<1>8. a - b = (a - (b % Q)) + (0 - j) * Q
  <2>1. (0 - j) * Q = 0 - j * Q
    BY QAssumption
  <2> QED BY <1>2, <1>3, <1>4, <2>1
<1> QED BY <1>3, <1>5, <1>6, <1>7, <1>8, ModCongruent

\* The sum of two remainders.
LEMMA ModSum ==
  ASSUME NEW a \in Int, NEW b \in Int
  PROVE  ((a % Q) + (b % Q)) % Q = (a + b) % Q
<1>1. b % Q \in Int
  BY ModRange
<1>2. ((a % Q) + (b % Q)) % Q = (a + (b % Q)) % Q
  BY <1>1, ModPlus
<1> QED BY <1>2, ModPlus

\* A factor may be reduced as well.
LEMMA ModTimes ==
  ASSUME NEW a \in Int, NEW b \in Int
  PROVE  ((a % Q) * b) % Q = (a * b) % Q /\ (a * (b % Q)) % Q = (a * b) % Q
<1> DEFINE r == a % Q
           s == b % Q
<1>1. PICK i \in Int : a = i * Q + r
  BY ModQuotient
<1>2. PICK j \in Int : b = j * Q + s
  BY ModQuotient
<1>3. r \in Int /\ s \in Int
  BY ModRange
<1> HIDE DEF r, s
<1>4. (i * Q + r) * b = r * b + (i * b) * Q
  BY <1>3, QAssumption
<1>5. a * (j * Q + s) = a * s + (a * j) * Q
  BY <1>3, QAssumption
<1>6. (r * b) % Q = (a * b) % Q
  BY <1>1, <1>3, <1>4, ModCongruent
<1>7. (a * s) % Q = (a * b) % Q
  BY <1>2, <1>3, <1>5, ModCongruent
<1> QED BY <1>6, <1>7 DEF r, s

\* unaryMinus is negation modulo Q.
LEMMA MinusQIsNegation ==
  ASSUME NEW a \in ElementsModQ
  PROVE  MinusQ(a) = (0 - a) % Q /\ MinusQ(a) \in ElementsModQ
<1>1. CASE a = 0
  BY <1>1, QAssumption DEF MinusQ, ElementsModQ
<1>2. CASE a # 0
  <2>1. Q - a \in ElementsModQ /\ Q - a = (0 - a) + 1 * Q
    BY <1>2, QAssumption DEF ElementsModQ
  <2>2. (0 - a) % Q = (Q - a) % Q
    BY <2>1, ModSmall, ModCongruent
  <2> QED BY <1>2, <2>1, <2>2, ModSmall DEF MinusQ
<1> QED BY <1>1, <1>2

-----------------------------------------------------------------------------
(***************************************************************************)
(* What a verifier computes back.  If hx is h to the n + d, and r answers  *)
(* the challenge c with the secret n and the random v, then the commitment *)
(* recovered is h to the v - dc.  With d = 0 it is what a prover committed *)
(* to; with d = 1 or -1 it is what the faked half of a proof committed to. *)
(***************************************************************************)
LEMMA Recovered ==
  ASSUME NEW h \in ElementsModP, NEW n \in ElementsModQ, NEW d \in Int,
         NEW v \in ElementsModQ, NEW c \in ElementsModQ
  PROVE  Times(PowP(h, PlusQ(v, TimesQ(c, n))),
               PowP((h * (n + d)) % Q, MinusQ(c)))
           = (h * (v - d * c)) % Q
<1>1. /\ h \in Int /\ n \in Int /\ v \in Int /\ c \in Int
      /\ MinusQ(c) = (0 - c) % Q
  BY ModSmall, MinusQIsNegation DEF ElementsModP, ElementsModQ
<1>2. v + c * n \in Int /\ h * (n + d) \in Int /\ 0 - c \in Int /\ c * n \in Int
  BY <1>1
<1>3. PlusQ(v, TimesQ(c, n)) = (v + c * n) % Q
  BY <1>1, <1>2, ModPlus DEF PlusQ, TimesQ
<1>4. PowP(h, PlusQ(v, TimesQ(c, n))) = (h * (v + c * n)) % Q
  BY <1>1, <1>2, <1>3, ModTimes DEF PowP
<1>5. PowP((h * (n + d)) % Q, MinusQ(c)) = ((h * (n + d)) * (0 - c)) % Q
  <2>1. (h * (n + d)) % Q \in Int
    BY <1>2, ModRange
  <2>2. PowP((h * (n + d)) % Q, MinusQ(c)) = (((h * (n + d)) % Q) * (0 - c)) % Q
    BY <1>1, <1>2, <2>1, ModTimes DEF PowP
  <2> QED BY <1>2, <2>2, ModTimes
<1> DEFINE x == h * (v + c * n)
           y == (h * (n + d)) * (0 - c)
<1>6. x \in Int /\ y \in Int
  BY <1>1, <1>2
<1>7. x + y = h * (v - d * c)
  BY <1>1
<1> HIDE DEF x, y
<1>8. ((x % Q) + (y % Q)) % Q = (x + y) % Q
  BY <1>6, ModPlus, ModRange
<1> QED BY <1>4, <1>5, <1>7, <1>8 DEF Times, x, y

(***************************************************************************)
(* A ciphertext and its parts.                                             *)
(***************************************************************************)
LEMMA CiphertextParts ==
  ASSUME NEW m \in {0, 1}, NEW n \in ElementsModQ, NEW key \in ElementsModP
  PROVE  /\ Encrypt(m, key, n).pad = n
         /\ Encrypt(m, key, n).data = (key * (n + m)) % Q
         /\ Times(Encrypt(m, key, n).data, MultInv(key)) = (key * (n + (m - 1))) % Q
         /\ Encrypt(m, key, n) \in [pad : ElementsModP, data : ElementsModP]
<1>1. n \in Int /\ n % Q = n /\ key \in Int /\ m \in Int
  BY ModSmall DEF ElementsModP, ElementsModQ
<1>2. m % Q = m
  BY QAssumption, ModSmall DEF ElementsModQ
<1>3. Encrypt(m, key, n).pad = n
  BY <1>1 DEF Encrypt, PowP, G
<1>4. Encrypt(m, key, n).data = (key * (n + m)) % Q
  <2>1. PowP(key, PlusQ(n, m % Q)) = (key * (n + m)) % Q
    BY <1>1, <1>2, ModTimes DEF PowP, PlusQ
  <2> QED BY <2>1 DEF Encrypt
<1>5. Times((key * (n + m)) % Q, MultInv(key)) = (key * (n + (m - 1))) % Q
  <2> DEFINE x == key * (n + m)
  <2>1. x \in Int /\ 0 - key \in Int
    BY <1>1
  <2>2. x + (0 - key) = key * (n + (m - 1))
    BY <1>1
  <2> HIDE DEF x
  <2>3. ((x % Q) + ((0 - key) % Q)) % Q = (x + (0 - key)) % Q
    BY <2>1, ModPlus, ModRange
  <2> QED BY <2>2, <2>3 DEF Times, MultInv, Div, x
<1>6. Encrypt(m, key, n) \in [pad : ElementsModP, data : ElementsModP]
  BY <1>1, <1>3, <1>4, ModRange DEF Encrypt, ElementsModP, ElementsModQ
<1> QED BY <1>3, <1>4, <1>5, <1>6

-----------------------------------------------------------------------------
\* The commitment to the generator, computed back.
LEMMA ExpandedBase ==
  ASSUME NEW n \in ElementsModQ, NEW v \in ElementsModQ, NEW c \in ElementsModQ,
         NEW p, p.c = c, p.r = PlusQ(v, TimesQ(c, n))
  PROVE  Times(PowP(G, p.r), PowP(n, MinusQ(c))) = PowP(G, v)
<1>1. n = (1 * (n + 0)) % Q /\ v \in Int /\ n \in Int /\ c \in Int /\ 1 \in ElementsModP
  BY QAssumption, ModSmall DEF ElementsModP, ElementsModQ
<1>2. Times(PowP(1, p.r), PowP((1 * (n + 0)) % Q, MinusQ(c))) = (1 * (v - 0 * c)) % Q
  BY <1>1, Recovered
<1>3. (1 * (v - 0 * c)) % Q = PowP(1, v)
  BY <1>1 DEF PowP
<1>4. Times(PowP(1, p.r), PowP(n, MinusQ(c))) = PowP(1, v)
  BY <1>1, <1>2, <1>3
<1> QED BY <1>4 DEF G

(***************************************************************************)
(* The two commitments recovered from one half of a disjunctive proof, or  *)
(* from a proof made with the nonce.                                       *)
(***************************************************************************)
LEMMA ExpandedHalf ==
  ASSUME NEW key \in ElementsModP, NEW n \in ElementsModQ, NEW d \in Int,
         NEW v \in ElementsModQ, NEW c \in ElementsModQ,
         NEW p, p.c = c, p.r = PlusQ(v, TimesQ(c, n))
  PROVE  Expand(p, G, n, key, (key * (n + d)) % Q)
           = <<PowP(G, v), (key * (v - d * c)) % Q>>
<1>1. Times(PowP(G, p.r), PowP(n, MinusQ(c))) = PowP(G, v)
  BY ExpandedBase
<1>2. Times(PowP(key, p.r), PowP((key * (n + d)) % Q, MinusQ(c))) = (key * (v - d * c)) % Q
  BY Recovered
<1> QED BY <1>1, <1>2 DEF Expand

\* Sums of exponents are exponents.
LEMMA PlusQType ==
  ASSUME NEW a \in ElementsModQ, NEW b \in ElementsModQ
  PROVE  PlusQ(a, b) \in ElementsModQ
<1>1. a + b \in Int
  BY ModSmall
<1> QED BY <1>1, ModRange DEF PlusQ

\* The two challenges of a disjunctive proof add up to the hash.
LEMMA ChallengesAddUp ==
  ASSUME NEW c \in ElementsModQ, NEW w \in ElementsModQ
  PROVE  /\ PlusQ(PlusQ(c, MinusQ(w)), w) = c
         /\ PlusQ(MinusQ(w), PlusQ(c, w)) = c
<1>1. c \in Int /\ w \in Int /\ c % Q = c /\ MinusQ(w) = (0 - w) % Q
  BY ModSmall, MinusQIsNegation
<1>2. PlusQ(c, MinusQ(w)) = (c - w) % Q
  <2>1. (c + ((0 - w) % Q)) % Q = (c + (0 - w)) % Q
    BY <1>1, ModPlus
  <2>2. c + (0 - w) = c - w
    BY <1>1
  <2> QED BY <1>1, <2>1, <2>2 DEF PlusQ
<1>3. PlusQ(PlusQ(c, MinusQ(w)), w) = c
  <2>1. (((c - w) % Q) + w) % Q = ((c - w) + w) % Q
    BY <1>1, ModPlus
  <2>2. (c - w) + w = c
    BY <1>1
  <2> QED BY <1>1, <1>2, <2>1, <2>2 DEF PlusQ
<1>4. PlusQ(MinusQ(w), PlusQ(c, w)) = c
  <2>1. (((0 - w) % Q) + ((c + w) % Q)) % Q = ((0 - w) + ((c + w) % Q)) % Q
    BY <1>1, ModPlus, ModRange
  <2>2. ((0 - w) + ((c + w) % Q)) % Q = ((0 - w) + (c + w)) % Q
    BY <1>1, ModPlus
  <2>3. (0 - w) + (c + w) = c
    BY <1>1
  <2> QED BY <1>1, <2>1, <2>2, <2>3 DEF PlusQ
<1> QED BY <1>3, <1>4

(***************************************************************************)
(* Completeness of the disjunctive proof: for a vote of 0 and for a vote   *)
(* of 1, with any key, nonce, randomness and challenge, in a group of any  *)
(* order, the proof that disjunctiveChaumPedersenProofKnownNonce makes is  *)
(* accepted by isValid.                                                    *)
(***************************************************************************)
THEOREM DisjunctiveProofComplete ==
  ASSUME NEW m \in {0, 1}, NEW key \in ElementsModP, NEW n \in ElementsModQ,
         NEW u \in ElementsModQ, NEW v \in ElementsModQ, NEW w \in ElementsModQ,
         NEW c \in ElementsModQ
  PROVE  DisjunctiveValid(
           DisjunctiveProof(m, Encrypt(m, key, n), n, key, u, v, w, c),
           Encrypt(m, key, n), key)
<1> DEFINE ct == Encrypt(m, key, n)
           p == DisjunctiveProof(m, ct, n, key, u, v, w, c)
           half0 == [c |-> p.c0, r |-> p.r0]
           half1 == [c |-> p.c1, r |-> p.r1]
           dataOf1 == Times(ct.data, MultInv(key))
<1>1. /\ ct.pad = n
      /\ ct.data = (key * (n + m)) % Q
      /\ dataOf1 = (key * (n + (m - 1))) % Q
  BY CiphertextParts
<1>2. /\ key \in Int /\ u \in Int /\ v \in Int /\ w \in Int
      /\ w % Q = w
  BY ModSmall DEF ElementsModP, ElementsModQ
<1>3. MinusQ(w) \in ElementsModQ /\ MinusQ(w) = (0 - w) % Q
  BY MinusQIsNegation
<1>4. (key * (v + w)) % Q = PowP(key, PlusQ(w, v))
  <2>1. v + w = w + v /\ w + v \in Int
    BY <1>2
  <2> QED BY <1>2, <2>1, ModTimes DEF PowP, PlusQ
<1>5. CASE m = 0
  <2>1. /\ p.c0 = PlusQ(c, MinusQ(w)) /\ p.r0 = PlusQ(u, TimesQ(p.c0, n))
        /\ p.c1 = w /\ p.r1 = PlusQ(v, TimesQ(p.c1, n))
        /\ p.c = c
        /\ p.hashed = <<ct, <<PowP(G, u), PowP(key, u)>>,
                            <<PowP(G, v), PowP(key, PlusQ(w, v))>>>>
    BY <1>5 DEF DisjunctiveProof
  <2> HIDE DEF p, ct
  <2>2. /\ p.c0 \in ElementsModQ /\ p.c1 \in ElementsModQ
        /\ p.c0 \in Int /\ p.c1 \in Int
    BY <1>3, <2>1, PlusQType DEF ElementsModQ
  <2>3. /\ half0.c = p.c0 /\ half0.r = PlusQ(u, TimesQ(p.c0, n))
        /\ half1.c = p.c1 /\ half1.r = PlusQ(v, TimesQ(p.c1, n))
    BY <2>1
  <2> HIDE DEF half0, half1
  <2>4. Expand(half0, G, n, key, (key * (n + 0)) % Q)
          = <<PowP(G, u), (key * (u - 0 * p.c0)) % Q>>
    BY <2>2, <2>3, ExpandedHalf
  <2>5. (key * (u - 0 * p.c0)) % Q = PowP(key, u)
    <3>1. u - 0 * p.c0 = u
      BY <1>2, <2>2
    <3> QED BY <3>1 DEF PowP
  <2>6. Expand(half1, G, n, key, (key * (n + (m - 1))) % Q)
          = <<PowP(G, v), (key * (v - (m - 1) * p.c1)) % Q>>
    <3>1. PICK d \in Int : d = m - 1
      BY <1>5
    <3>2. Expand(half1, G, n, key, (key * (n + d)) % Q)
            = <<PowP(G, v), (key * (v - d * p.c1)) % Q>>
      BY <2>2, <2>3, ExpandedHalf
    <3> QED BY <3>1, <3>2
  <2>7. (key * (v - (m - 1) * p.c1)) % Q = PowP(key, PlusQ(w, v))
    <3>1. v - (m - 1) * w = v + w
      BY <1>2, <1>5
    <3> QED BY <1>4, <2>1, <3>1
  <2>8. PlusQ(p.c0, p.c1) = p.c
    BY <2>1, ChallengesAddUp
  <2>9. DisjunctiveValid(p, ct, key)
    BY <1>1, <1>5, <2>1, <2>4, <2>5, <2>6, <2>7, <2>8 DEF DisjunctiveValid, half0, half1, dataOf1
  <2> QED BY <2>9 DEF p, ct
<1>6. CASE m = 1
  <2>1. /\ p.c0 = MinusQ(w) /\ p.r0 = PlusQ(v, TimesQ(p.c0, n))
        /\ p.c1 = PlusQ(c, w) /\ p.r1 = PlusQ(u, TimesQ(p.c1, n))
        /\ p.c = c
        /\ p.hashed = <<ct, <<PowP(G, v), PowP(key, PlusQ(w, v))>>,
                            <<PowP(G, u), PowP(key, u)>>>>
    BY <1>6 DEF DisjunctiveProof
  <2> HIDE DEF p, ct
  <2>2. /\ p.c0 \in ElementsModQ /\ p.c1 \in ElementsModQ
        /\ p.c0 \in Int /\ p.c1 \in Int
    BY <1>3, <2>1, PlusQType DEF ElementsModQ
  <2>3. /\ half0.c = p.c0 /\ half0.r = PlusQ(v, TimesQ(p.c0, n))
        /\ half1.c = p.c1 /\ half1.r = PlusQ(u, TimesQ(p.c1, n))
    BY <2>1
  <2> HIDE DEF half0, half1
  <2>4. Expand(half0, G, n, key, (key * (n + 1)) % Q)
          = <<PowP(G, v), (key * (v - 1 * p.c0)) % Q>>
    BY <2>2, <2>3, ExpandedHalf
  <2>5. (key * (v - 1 * p.c0)) % Q = PowP(key, PlusQ(w, v))
    <3>1. p.c0 \in Int /\ v - p.c0 \in Int /\ 1 * p.c0 = p.c0 /\ 0 - w \in Int
      BY <1>2, <2>2
    <3>2. (v - p.c0) % Q = (v - (0 - w)) % Q
      BY <1>2, <1>3, <2>1, <3>1, ModPlus
    <3>3. v - (0 - w) = v + w /\ v + w \in Int
      BY <1>2
    <3>4. (key * (v - p.c0)) % Q = (key * (v + w)) % Q
      <4>1. (key * ((v - p.c0) % Q)) % Q = (key * (v - p.c0)) % Q
        BY <1>2, <3>1, ModTimes
      <4>2. (key * ((v + w) % Q)) % Q = (key * (v + w)) % Q
        BY <1>2, <3>3, ModTimes
      <4> QED BY <3>2, <3>3, <4>1, <4>2
    <3> QED BY <1>4, <3>1, <3>4
  <2>6. Expand(half1, G, n, key, (key * (n + 0)) % Q)
          = <<PowP(G, u), (key * (u - 0 * p.c1)) % Q>>
    BY <2>2, <2>3, ExpandedHalf
  <2>7. (key * (u - 0 * p.c1)) % Q = PowP(key, u)
    <3>1. u - 0 * p.c1 = u
      BY <1>2, <2>2
    <3> QED BY <3>1 DEF PowP
  <2>8. PlusQ(p.c0, p.c1) = p.c
    BY <2>1, ChallengesAddUp
  <2>9. DisjunctiveValid(p, ct, key)
    BY <1>1, <1>6, <2>1, <2>4, <2>5, <2>6, <2>7, <2>8 DEF DisjunctiveValid, half0, half1, dataOf1
  <2> QED BY <2>9 DEF p, ct
<1> QED BY <1>5, <1>6

-----------------------------------------------------------------------------
(***************************************************************************)
(* A ciphertext of m with the nonce n, whether it was encrypted or is a    *)
(* sum of such ciphertexts.  Unlike the message of an encryption, m may be *)
(* any integer and n may be zero.                                          *)
(***************************************************************************)
Encrypts(ct, m, key, n) ==
  ct = [pad |-> n, data |-> (key * (n + m)) % Q]

\* A vote of 0 or 1 becomes a ciphertext of it.
LEMMA EncryptEncrypts ==
  ASSUME NEW m \in {0, 1}, NEW n \in ElementsModQ, NEW key \in ElementsModP
  PROVE  Encrypts(Encrypt(m, key, n), m, key, n)
BY CiphertextParts DEF Encrypts, Encrypt

(***************************************************************************)
(* The homomorphic sum of two ciphertexts is a ciphertext of the sum of    *)
(* their messages with the sum of their nonces: why encryptContest proves  *)
(* its accumulation with addQ of the selections' nonces.                   *)
(***************************************************************************)
THEOREM SumEncryptsSum ==
  ASSUME NEW key \in ElementsModP,
         NEW m1 \in Int, NEW n1 \in ElementsModQ, NEW x, Encrypts(x, m1, key, n1),
         NEW m2 \in Int, NEW n2 \in ElementsModQ, NEW y, Encrypts(y, m2, key, n2)
  PROVE  Encrypts(CiphertextPlus(x, y), m1 + m2, key, PlusQ(n1, n2))
<1>1. n1 \in Int /\ n2 \in Int /\ key \in Int
  BY ModSmall DEF ElementsModP, ElementsModQ
<1>2. CiphertextPlus(x, y).pad = PlusQ(n1, n2)
  BY DEF CiphertextPlus, Encrypts, Times, PlusQ
<1> DEFINE a == key * (n1 + m1)
           b == key * (n2 + m2)
           n == n1 + n2
<1>3. a \in Int /\ b \in Int /\ n \in Int
  BY <1>1
<1>4. ((a % Q) + (b % Q)) % Q = (a + b) % Q
  BY <1>3, ModSum
<1>5. (key * ((n % Q) + (m1 + m2))) % Q = (key * (n + (m1 + m2))) % Q
  <2>1. PICK i \in Int : n = i * Q + (n % Q)
    BY <1>3, ModQuotient
  <2>2. n % Q \in Int
    BY <1>3, ModRange
  <2> DEFINE r == n % Q
  <2> HIDE DEF n, r
  <2>3. key * ((i * Q + r) + (m1 + m2)) = key * (r + (m1 + m2)) + (key * i) * Q
    BY <1>1, <2>2, QAssumption DEF r
  <2>4. key * (n + (m1 + m2)) = key * (r + (m1 + m2)) + (key * i) * Q
    BY <2>1, <2>3 DEF r
  <2>5. /\ key * (n + (m1 + m2)) \in Int /\ key * (r + (m1 + m2)) \in Int
        /\ key * i \in Int
    BY <1>1, <1>3, <2>2 DEF r
  <2> QED BY <2>4, <2>5, ModCongruent DEF r
<1>6. a + b = key * (n + (m1 + m2))
  BY <1>1
<1>7. CiphertextPlus(x, y).data = ((a % Q) + (b % Q)) % Q
  BY DEF CiphertextPlus, Encrypts, Times
<1>8. CiphertextPlus(x, y).data = (key * (PlusQ(n1, n2) + (m1 + m2))) % Q
  BY <1>4, <1>5, <1>6, <1>7 DEF PlusQ
<1>9. CiphertextPlus(x, y)
        = [pad |-> CiphertextPlus(x, y).pad, data |-> CiphertextPlus(x, y).data]
  BY DEF CiphertextPlus
<1> QED BY <1>2, <1>8, <1>9 DEF Encrypts

(***************************************************************************)
(* decrypt with the secret key and decryptWithNonce both take a ciphertext *)
(* to the publicKey^m whose discrete logarithm is the message.             *)
(***************************************************************************)
THEOREM DecryptionInverts ==
  ASSUME NEW s \in ElementsModQ, NEW key, key = PowP(G, s), NEW m \in Int, NEW n \in ElementsModQ,
         NEW ct, Encrypts(ct, m, key, n)
  PROVE  Decrypted(ct, s) = PowP(key, m) /\ DecryptedWithNonce(ct, key, n) = PowP(key, m)
<1>1. /\ n \in Int /\ s \in Int /\ key = s
      /\ MinusQ(n) = (0 - n) % Q /\ MinusQ(s) = (0 - s) % Q
  <2>1. (1 * s) % Q = s
    BY ModSmall
  <2> QED BY <2>1, ModSmall, MinusQIsNegation DEF PowP, G
<1> DEFINE a == key * (n + m)
           b == key * (0 - n)
<1>2. a \in Int /\ b \in Int /\ 0 - n \in Int /\ 0 - key \in Int
  BY <1>1
<1>3. ((a % Q) + (b % Q)) % Q = (a + b) % Q
  BY <1>2, ModSum
<1>4. a + b = key * m
  BY <1>1
<1>5. PowP(key, MinusQ(n)) = b % Q
  BY <1>1, <1>2, ModTimes DEF PowP
<1>6. PowP(n, MinusQ(s)) = b % Q
  <2>1. (n * ((0 - key) % Q)) % Q = (n * (0 - key)) % Q
    BY <1>1, <1>2, ModTimes
  <2>2. n * (0 - key) = b
    BY <1>1
  <2> QED BY <1>1, <2>1, <2>2 DEF PowP
<1>7. ct.pad = n /\ ct.data = a % Q
  BY DEF Encrypts
<1> HIDE DEF a, b
<1> QED BY <1>3, <1>4, <1>5, <1>6, <1>7 DEF Decrypted, DecryptedWithNonce, Times, PowP

-----------------------------------------------------------------------------
(***************************************************************************)
(* In a group of prime order no product of two nonzero exponents is zero.  *)
(***************************************************************************)
NoZeroDivisors == \A a, b \in 1 .. Q - 1 : (a * b) % Q # 0

\* The same for integers and their remainders.
LEMMA ProductIsZero ==
  ASSUME NoZeroDivisors, NEW a \in Int, NEW b \in Int, (a * b) % Q = 0
  PROVE  a % Q = 0 \/ b % Q = 0
<1> DEFINE r == a % Q
           s == b % Q
<1>1. r \in ElementsModQ /\ s \in ElementsModQ /\ r \in Int /\ s \in Int
  BY ModRange
<1>2. (r * s) % Q = 0
  <2>1. (r * b) % Q = 0
    BY ModTimes
  <2> QED BY <1>1, <2>1, ModTimes
<1> HIDE DEF r, s
<1>3. r = 0 \/ s = 0
  <2> SUFFICES ASSUME r # 0, s # 0 PROVE FALSE
    OBVIOUS
  <2>1. r \in 1 .. Q - 1 /\ s \in 1 .. Q - 1
    BY <1>1, QAssumption DEF ElementsModQ
  <2> QED BY <1>2, <2>1 DEF NoZeroDivisors
<1> QED BY <1>3 DEF r, s

\* What is left of the data when the claimed constant is taken out.
LEMMA WithoutConstantData ==
  ASSUME NEW key \in ElementsModP, NEW m \in Int, NEW n \in ElementsModQ, NEW L \in Int,
         NEW ct, Encrypts(ct, m, key, n)
  PROVE  WithoutConstant(ct, L, key) = (key * (n + (m - L))) % Q
<1>1. n \in Int /\ key \in Int /\ MinusQ(L % Q) = (0 - (L % Q)) % Q /\ L % Q \in Int
  BY ModSmall, ModRange, MinusQIsNegation DEF ElementsModP, ElementsModQ
<1>2. (0 - (L % Q)) % Q = (0 - L) % Q
  BY ModPlus
<1> DEFINE a == key * (n + m)
           b == key * (0 - L)
<1>3. a \in Int /\ b \in Int /\ 0 - L \in Int
  BY <1>1
<1>4. PowP(key, MinusQ(L % Q)) = b % Q
  BY <1>1, <1>2, <1>3, ModTimes DEF PowP
<1>5. ((a % Q) + (b % Q)) % Q = (a + b) % Q
  BY <1>3, ModSum
<1>6. a + b = key * (n + (m - L))
  BY <1>1
<1>7. ct.data = a % Q
  BY DEF Encrypts
<1> HIDE DEF a, b
<1> QED BY <1>4, <1>5, <1>6, <1>7 DEF WithoutConstant, Times

(***************************************************************************)
(* A commitment that is off by the product of the key, of the difference   *)
(* of two messages and of the challenge is right only if one of the two    *)
(* last is zero.                                                           *)
(***************************************************************************)
DifferenceShown(key, a, m, L, c) ==
  (a - (key * (m - L)) * c) % Q = a % Q <=> m % Q = L % Q \/ c = 0

\* It is so in a group of prime order.
LEMMA DifferenceShows ==
  ASSUME NoZeroDivisors, NEW key \in ElementsModP \ {0}, NEW a \in Int,
         NEW m \in Int, NEW L \in Int, NEW c \in ElementsModQ
  PROVE  DifferenceShown(key, a, m, L, c)
<1> DEFINE d == m - L
           b == (key * d) * c
<1>1. key \in Int /\ c \in Int /\ c % Q = c /\ key % Q = key /\ d \in Int
  BY ModSmall DEF ElementsModP, ElementsModQ
<1>2. a \in Int /\ b \in Int /\ key * d \in Int /\ d * c \in Int
  BY <1>1
<1> HIDE DEF b, d
<1>3. (a - b) % Q = a % Q <=> b % Q = 0
  <2>1. ASSUME b % Q = 0 PROVE (a - b) % Q = a % Q
    <3>1. PICK i \in Int : b = i * Q + (b % Q)
      BY <1>2, ModQuotient
    <3>2. (0 - i) * Q = 0 - i * Q /\ i * Q \in Int
      BY QAssumption
    <3>3. a - b = a + (0 - i) * Q /\ a - b \in Int
      <4>1. b = i * Q /\ a \in Int
        BY <1>2, <2>1, <3>1, <3>2
      <4> QED BY <3>2, <4>1
    <3> QED BY <1>2, <3>3, ModCongruent
  <2>2. ASSUME (a - b) % Q = a % Q PROVE b % Q = 0
    <3>1. PICK i \in Int : a = i * Q + (a % Q)
      BY <1>2, ModQuotient
    <3>2. PICK j \in Int : a - b = j * Q + ((a - b) % Q)
      BY <1>2, ModQuotient
    <3>3. a % Q \in Int /\ i * Q \in Int /\ j * Q \in Int /\ (i - j) * Q = i * Q - j * Q
      BY <1>2, ModRange, QAssumption
    <3>4. b = 0 + (i - j) * Q
      <4>1. b = a - (a - b) /\ i * Q - j * Q = 0 + (i * Q - j * Q)
        BY <1>2, <3>3
      <4>2. a - (a - b) = (i * Q + (a % Q)) - (j * Q + (a % Q))
        BY <2>2, <3>1, <3>2
      <4>3. (i * Q + (a % Q)) - (j * Q + (a % Q)) = i * Q - j * Q
        BY <3>3
      <4> QED BY <3>3, <4>1, <4>2, <4>3
    <3>5. b % Q = 0 % Q
      BY <1>2, <3>4, ModCongruent
    <3> QED BY <3>5, QAssumption
  <2> QED BY <2>1, <2>2
<1>4. b % Q = 0 <=> d % Q = 0 \/ c = 0
  <2>1. ASSUME b % Q = 0 PROVE d % Q = 0 \/ c = 0
    <3>1. (key * d) % Q = 0 \/ c % Q = 0
      BY <1>1, <1>2, <2>1, ProductIsZero DEF b
    <3>2. ASSUME (key * d) % Q = 0 PROVE d % Q = 0
      BY <1>1, <3>2, ProductIsZero
    <3> QED BY <1>1, <3>1, <3>2
  <2>2. ASSUME d % Q = 0 PROVE b % Q = 0
    <3>1. (key * d) % Q = (key * (d % Q)) % Q
      BY <1>1, ModTimes
    <3>2. (key * d) % Q = 0
      BY <1>1, <2>2, <3>1, QAssumption
    <3>3. b % Q = (((key * d) % Q) * c) % Q
      BY <1>1, <1>2, ModTimes DEF b
    <3> QED BY <1>1, <3>2, <3>3, QAssumption
  <2>3. ASSUME c = 0 PROVE b % Q = 0
    BY <1>1, <1>2, <2>3, QAssumption DEF b
  <2> QED BY <2>1, <2>2, <2>3
<1>5. d % Q = 0 <=> m % Q = L % Q
  <2>1. PICK i \in Int : m = i * Q + (m % Q)
    BY ModQuotient
  <2>2. PICK j \in Int : L = j * Q + (L % Q)
    BY ModQuotient
  <2>3. /\ m % Q \in Int /\ L % Q \in Int
        /\ i * Q \in Int /\ j * Q \in Int /\ (i - j) * Q = i * Q - j * Q
    BY ModRange, QAssumption
  <2>4. ASSUME m % Q = L % Q PROVE d % Q = 0
    <3>1. d = 0 + (i - j) * Q
      BY <2>1, <2>2, <2>3, <2>4 DEF d
    <3>2. d % Q = 0 % Q
      BY <1>1, <3>1, ModCongruent
    <3> QED BY <3>2, QAssumption
  <2>5. ASSUME d % Q = 0 PROVE m % Q = L % Q
    <3>1. PICK k \in Int : d = k * Q + (d % Q)
      BY <1>1, ModQuotient
    <3>2. m = L + k * Q
      <4>1. k * Q \in Int
        BY QAssumption
      <4> QED BY <2>5, <3>1, <4>1 DEF d
    <3> QED BY <3>2, ModCongruent
  <2> QED BY <2>4, <2>5
<1> QED BY <1>3, <1>4, <1>5 DEF b, d, DifferenceShown

(***************************************************************************)
(* The proof that encryptContest makes with the nonce is accepted by       *)
(* isValid exactly if the constant is the encrypted total, as an exponent, *)
(* or the challenge is zero: no other way to pass, for a group of any      *)
(* prime order and a key that is not the neutral element.                  *)
(***************************************************************************)
THEOREM ConstantProofExact ==
  ASSUME NoZeroDivisors,
         NEW key \in ElementsModP \ {0}, NEW m \in Int, NEW n \in ElementsModQ,
         NEW L \in Int, NEW w \in ElementsModQ, NEW c \in ElementsModQ,
         NEW ct, Encrypts(ct, m, key, n)
  PROVE  ConstantValidWithNonce(ConstantProofWithNonce(ct, L, n, key, w, c), ct, key)
           <=> m % Q = L % Q \/ c = 0
<1> DEFINE header == Header(key, ct)
           p == GenericProof(G, key, n, w, c, header)
           d == m - L
<1>1. /\ n \in Int /\ key \in Int /\ w \in Int /\ c \in Int /\ c % Q = c /\ key % Q = key
      /\ d \in Int
  BY ModSmall DEF ElementsModP, ElementsModQ
<1>2. /\ p.c = c
      /\ p.r = PlusQ(w, TimesQ(c, n))
      /\ p.hashed = <<header, <<PowP(G, w), PowP(key, w)>>>>
  <2>1. n * c = c * n
    BY <1>1
  <2> QED BY <2>1 DEF GenericProof, TimesQ
<1>3. WithoutConstant(ct, L, key) = (key * (n + d)) % Q /\ ct.pad = n
  BY WithoutConstantData DEF Encrypts
<1>4. ConstantValidWithNonce(ConstantProofWithNonce(ct, L, n, key, w, c), ct, key)
        <=> p.hashed = <<header, Expand(p, G, n, key, WithoutConstant(ct, L, key))>>
  BY <1>3 DEF ConstantValidWithNonce, ConstantProofWithNonce, GenericValid
<1> HIDE DEF p, header, d
<1>5. Expand(p, G, n, key, (key * (n + d)) % Q)
        = <<PowP(G, w), (key * (w - d * c)) % Q>>
  <2>1. key \in ElementsModP /\ d \in Int
    BY <1>1
  <2>2. p.c = c /\ p.r = PlusQ(w, TimesQ(c, n))
    BY <1>2
  <2> QED BY <2>1, <2>2, ExpandedHalf
<1>6. ConstantValidWithNonce(ConstantProofWithNonce(ct, L, n, key, w, c), ct, key)
        <=> (key * (w - d * c)) % Q = (key * w) % Q
  BY <1>2, <1>3, <1>4, <1>5 DEF PowP
<1> DEFINE a == key * w
<1>7. a \in Int /\ key * (w - d * c) = a - (key * d) * c
  BY <1>1
<1> HIDE DEF a
<1>8. DifferenceShown(key, a, m, L, c)
  BY <1>7, DifferenceShows
<1> QED BY <1>6, <1>7, <1>8 DEF a, d, DifferenceShown

(***************************************************************************)
(* So is the proof that the holder of the secret key makes of a result.    *)
(***************************************************************************)
THEOREM KeyProofExact ==
  ASSUME NoZeroDivisors,
         NEW key \in ElementsModP \ {0}, NEW m \in Int, NEW n \in ElementsModQ,
         NEW L \in Int, NEW w \in ElementsModQ, NEW c \in ElementsModQ,
         NEW ct, Encrypts(ct, m, key, n)
  PROVE  ConstantValidWithKey(ConstantProofWithKey(ct, L, key, key, w, c), ct, key)
           <=> m % Q = L % Q \/ c = 0
<1> DEFINE header == Header(key, ct)
           p == GenericProof(G, n, key, w, c, header)
           d == m - L
           hx == WithoutConstant(ct, L, key)
           a == n * w
<1>1. /\ n \in Int /\ key \in Int /\ w \in Int /\ c \in Int
      /\ d \in Int /\ a \in Int /\ key \in ElementsModQ
  BY ModSmall DEF ElementsModP, ElementsModQ
<1>2. /\ p.c = c
      /\ p.r = PlusQ(w, TimesQ(c, key))
      /\ p.hashed = <<header, <<PowP(G, w), PowP(n, w)>>>>
  <2>1. key * c = c * key
    BY <1>1
  <2> QED BY <2>1 DEF GenericProof, TimesQ
<1>3. hx = (key * (n + d)) % Q /\ ct.pad = n
  BY WithoutConstantData DEF Encrypts
<1>4. ConstantValidWithKey(ConstantProofWithKey(ct, L, key, key, w, c), ct, key)
        <=> p.hashed = <<header, Expand(p, G, key, n, hx)>>
  BY <1>3 DEF ConstantValidWithKey, ConstantProofWithKey, GenericValid
<1> HIDE DEF p, header, d, hx
<1>5. Times(PowP(G, p.r), PowP(key, MinusQ(c))) = PowP(G, w)
  BY <1>1, <1>2, ExpandedBase
<1>6. Times(PowP(n, p.r), PowP(hx, MinusQ(c))) = (a - (key * d) * c) % Q
  <2> DEFINE x == n * (w + c * key)
             y == (key * (n + d)) * (0 - c)
  <2>1. /\ w + c * key \in Int /\ x \in Int /\ y \in Int /\ c * key \in Int
        /\ key * (n + d) \in Int /\ 0 - c \in Int
        /\ MinusQ(c) = (0 - c) % Q
    BY <1>1, MinusQIsNegation
  <2>2. p.r = (w + c * key) % Q
    BY <1>1, <1>2, <2>1, ModPlus DEF PlusQ, TimesQ
  <2>3. PowP(n, p.r) = x % Q
    BY <1>1, <2>1, <2>2, ModTimes DEF PowP
  <2>4. PowP(hx, MinusQ(c)) = y % Q
    <3>1. PowP(hx, MinusQ(c)) = (((key * (n + d)) % Q) * (0 - c)) % Q
      BY <1>3, <2>1, ModTimes, ModRange DEF PowP
    <3> QED BY <2>1, <3>1, ModTimes
  <2>5. x + y = a - (key * d) * c
    BY <1>1
  <2> HIDE DEF x, y
  <2>6. ((x % Q) + (y % Q)) % Q = (x + y) % Q
    BY <2>1, ModSum
  <2> QED BY <2>3, <2>4, <2>5, <2>6 DEF Times
<1>7. Expand(p, G, key, n, hx) = <<PowP(G, w), (a - (key * d) * c) % Q>>
  BY <1>2, <1>5, <1>6 DEF Expand
<1>8. PowP(n, w) = a % Q
  BY DEF PowP
<1> HIDE DEF a
<1>9. ConstantValidWithKey(ConstantProofWithKey(ct, L, key, key, w, c), ct, key)
        <=> (a - (key * d) * c) % Q = a % Q
  BY <1>2, <1>4, <1>7, <1>8
<1>10. DifferenceShown(key, a, m, L, c)
  BY <1>1, DifferenceShows
<1> QED BY <1>9, <1>10 DEF d, DifferenceShown

-----------------------------------------------------------------------------
(***************************************************************************)
(* Folds over lists.  FoldLeft is a recursive function on the subsets of   *)
(* the list's positions that takes away the greatest position; FoldBody is *)
(* its right-hand side, for the four operators that lists are folded with. *)
(***************************************************************************)
Folded(by, x, y) ==
  CASE by = "votes"  -> x + y.vote
    [] by = "nonces" -> PlusQ(x, y.selectionNonce)
    [] by = "texts"  -> CiphertextPlus(x, y)
    [] by = "shares" -> Times(x, y)

FoldBody(by, base, list, g, s) ==
  IF s = {} THEN base ELSE Folded(by, g[s \ {Max(s)}], list[Max(s)])

IsFold(by, base, list, g) ==
  g = [s \in SUBSET DOMAIN list |-> FoldBody(by, base, list, g, s)]

\* The greatest position is taken away.
LEMMA GreatestPosition ==
  ASSUME NEW s, IsFiniteSet(s), s \subseteq Int, s # {}
  PROVE  Max(s) \in s /\ \A y \in s : Max(s) >= y
<1>1. Sets!IsFiniteSet(s)
  BY DEF IsFiniteSet, Sets!IsFiniteSet
<1>2. Sets!Max(s) \in s /\ \A y \in s : Sets!Max(s) >= y
  BY <1>1, Sets!MaxIsGreatest
<1> QED BY <1>2 DEF Max, Sets!Max

(***************************************************************************)
(* The recursive function exists.                                          *)
(***************************************************************************)
LEMMA FoldExists ==
  ASSUME NEW by, NEW base, NEW list, NEW n \in Nat, DOMAIN list = 1 .. n
  PROVE  \E g : IsFold(by, base, list, g)
<1> DEFINE S == DOMAIN list
           Up(k) == \E g : /\ g = [s \in SUBSET S |-> g[s]]
                           /\ \A s \in SUBSET S : Cardinality(s) <= k =>
                                g[s] = FoldBody(by, base, list, g, s)
           C == {k \in Nat : Up(k)}
<1>0. IsFiniteSet(S) /\ \A s \in SUBSET S : IsFiniteSet(s) /\ Cardinality(s) \in Nat /\ s \subseteq Int
  <2>1. IsFiniteSet(1 .. n)
    BY FS_Interval
  <2> QED BY <2>1, FS_Subset, FS_CardinalityType
<1> HIDE DEF S
<1>1. 0 \in C
  <2> DEFINE g == [s \in SUBSET S |-> base]
  <2>1. \A s \in SUBSET S : Cardinality(s) <= 0 => s = {}
    BY <1>0, FS_EmptySet
  <2>2. \A s \in SUBSET S : Cardinality(s) <= 0 => g[s] = FoldBody(by, base, list, g, s)
    BY <2>1 DEF FoldBody
  <2> QED BY <2>2
<1>2. \A k \in Nat : k \in C => k + 1 \in C
  <2> SUFFICES ASSUME NEW k \in Nat, Up(k) PROVE Up(k + 1)
    <3> HIDE DEF Up
    <3> QED OBVIOUS
  <2> PICK g : /\ g = [s \in SUBSET S |-> g[s]]
               /\ \A s \in SUBSET S : Cardinality(s) <= k => g[s] = FoldBody(by, base, list, g, s)
    OBVIOUS
  <2> DEFINE h == [s \in SUBSET S |-> IF Cardinality(s) <= k THEN g[s]
                                      ELSE FoldBody(by, base, list, g, s)]
  <2>1. ASSUME NEW s \in SUBSET S, Cardinality(s) <= k + 1
        PROVE  h[s] = FoldBody(by, base, list, h, s)
    <3>1. CASE s = {}
      BY <3>1 DEF FoldBody
    <3>2. CASE s # {}
      <4> DEFINE r == s \ {Max(s)}
      <4>1. Max(s) \in s
        BY <1>0, <3>2, GreatestPosition
      <4>2. r \in SUBSET S /\ Cardinality(r) <= k
        <5>1. IsFiniteSet(s) /\ Cardinality(s) \in Nat
          BY <1>0
        <5>2. Cardinality(s \ {Max(s)}) = Cardinality(s) - 1
          BY <4>1, <5>1, FS_RemoveElement
        <5> QED BY <2>1, <5>1, <5>2
      <4>3. h[r] = g[r]
        BY <4>2
      <4>4. FoldBody(by, base, list, h, s) = FoldBody(by, base, list, g, s)
        BY <3>2, <4>3 DEF FoldBody
      <4> QED BY <4>4
    <3> QED BY <3>1, <3>2
  <2>2. h = [s \in SUBSET S |-> h[s]]
    OBVIOUS
  <2> HIDE DEF h
  <2>3. \A s \in SUBSET S : Cardinality(s) <= k + 1 => h[s] = FoldBody(by, base, list, h, s)
    BY <2>1
  <2> QED BY <2>2, <2>3, Zenon
<1>3. Up(Cardinality(S))
  <2> HIDE DEF Up
  <2>1. \A k \in Nat : k \in C
    BY <1>1, <1>2, Sets!NatSetInduction
  <2> QED BY <1>0, <2>1
<1>4. PICK g : /\ g = [s \in SUBSET S |-> g[s]]
               /\ \A s \in SUBSET S : Cardinality(s) <= Cardinality(S) =>
                    g[s] = FoldBody(by, base, list, g, s)
  BY <1>3
<1>5. \A s \in SUBSET S : Cardinality(s) <= Cardinality(S)
  BY <1>0, FS_Subset
<1>6. [s \in SUBSET S |-> g[s]] = [s \in SUBSET S |-> FoldBody(by, base, list, g, s)]
  BY <1>4, <1>5
<1> QED BY <1>4, <1>6 DEF IsFold, S

(***************************************************************************)
(* A fold goes through the list from its first element to its last.        *)
(***************************************************************************)
Passes(by, base, list, n, result) ==
  \E h : /\ h[0] = base
         /\ \A k \in 1 .. n : h[k] = Folded(by, h[k - 1], list[k])
         /\ result = h[n]

\* So does the fold that the recursive function computes.
LEMMA FoldPasses ==
  ASSUME NEW by, NEW base, NEW list, NEW n \in Nat, DOMAIN list = 1 .. n,
         NEW g, IsFold(by, base, list, g)
  PROVE  Passes(by, base, list, n, g[DOMAIN list])
<1> DEFINE h == [k \in 0 .. n |-> g[1 .. k]]
<1>1. \A s \in SUBSET (1 .. n) : g[s] = FoldBody(by, base, list, g, s)
  BY DEF IsFold
<1>2. h[0] = base
  <2>1. g[{}] = base
    BY <1>1 DEF FoldBody
  <2>2. 1 .. 0 = {}
    OBVIOUS
  <2> QED BY <2>1, <2>2
<1>3. ASSUME NEW k \in 1 .. n
      PROVE  h[k] = Folded(by, h[k - 1], list[k])
  <2>1. k \in 1 .. k /\ IsFiniteSet(1 .. k) /\ 1 .. k \in SUBSET (1 .. n) /\ 1 .. k # {}
    <3>1. k \in Int /\ 1 \in Int
      OBVIOUS
    <3>2. IsFiniteSet(1 .. k)
      BY <3>1, FS_Interval
    <3> QED BY <3>2
  <2>2. Max(1 .. k) \in 1 .. k /\ Max(1 .. k) >= k
    <3> DEFINE S == 1 .. k
    <3>1. IsFiniteSet(S) /\ S \subseteq Int /\ S # {} /\ k \in S
      BY <2>1
    <3> HIDE DEF S
    <3>2. Max(S) \in S /\ Max(S) >= k
      BY ONLY <3>1, GreatestPosition
    <3> QED BY <3>2 DEF S
  <2>3. Max(1 .. k) = k
    BY <2>2
  <2>4. (1 .. k) \ {k} = 1 .. (k - 1) /\ k - 1 \in 0 .. n
    OBVIOUS
  <2>5. g[1 .. k] = Folded(by, g[1 .. (k - 1)], list[k])
    BY <1>1, <2>1, <2>3, <2>4 DEF FoldBody
  <2> QED BY <2>4, <2>5
<1>4. g[DOMAIN list] = h[n]
  OBVIOUS
<1> HIDE DEF h
<1> QED BY <1>2, <1>3, <1>4 DEF Passes

-----------------------------------------------------------------------------
\* The sum of the votes passes through the list.
LEMMA VotesPass ==
  ASSUME NEW list, NEW n \in Nat, DOMAIN list = 1 .. n
  PROVE  Passes("votes", 0, list, n, FoldLeft(LAMBDA sum, s : sum + s.vote, 0, list))
<1> DEFINE D == DOMAIN list
           f == CHOOSE g : g = [s \in SUBSET D |->
                  IF s = {} THEN 0 ELSE g[s \ {Max(s)}] + list[Max(s)].vote]
<1>1. FoldLeft(LAMBDA sum, s : sum + s.vote, 0, list) = f[D]
  BY DEF FoldLeft, MapThenFoldSet
<1>2. ASSUME NEW g
      PROVE  IsFold("votes", 0, list, g)
               <=> g = [s \in SUBSET D |-> IF s = {} THEN 0 ELSE g[s \ {Max(s)}] + list[Max(s)].vote]
  <2>1. \A s \in SUBSET D : FoldBody("votes", 0, list, g, s)
                              = IF s = {} THEN 0 ELSE g[s \ {Max(s)}] + list[Max(s)].vote
    BY DEF FoldBody, Folded
  <2> QED BY <2>1 DEF IsFold
<1>3. \E g : g = [s \in SUBSET D |-> IF s = {} THEN 0 ELSE g[s \ {Max(s)}] + list[Max(s)].vote]
  BY <1>2, FoldExists
<1>4. f = [s \in SUBSET D |-> IF s = {} THEN 0 ELSE f[s \ {Max(s)}] + list[Max(s)].vote]
  BY <1>3
<1> HIDE DEF f
<1>5. IsFold("votes", 0, list, f)
  BY <1>2, <1>4
<1> QED BY <1>1, <1>5, FoldPasses

\* So does the sum of the nonces.
LEMMA NoncesPass ==
  ASSUME NEW list, NEW n \in Nat, DOMAIN list = 1 .. n
  PROVE  Passes("nonces", 0, list, n, FoldLeft(LAMBDA sum, s : PlusQ(sum, s.selectionNonce), 0, list))
<1> DEFINE D == DOMAIN list
           f == CHOOSE g : g = [s \in SUBSET D |->
                  IF s = {} THEN 0 ELSE PlusQ(g[s \ {Max(s)}], list[Max(s)].selectionNonce)]
<1>1. FoldLeft(LAMBDA sum, s : PlusQ(sum, s.selectionNonce), 0, list) = f[D]
  BY DEF FoldLeft, MapThenFoldSet
<1>2. ASSUME NEW g
      PROVE  IsFold("nonces", 0, list, g)
               <=> g = [s \in SUBSET D |->
                         IF s = {} THEN 0 ELSE PlusQ(g[s \ {Max(s)}], list[Max(s)].selectionNonce)]
  <2>1. \A s \in SUBSET D : FoldBody("nonces", 0, list, g, s)
          = IF s = {} THEN 0 ELSE PlusQ(g[s \ {Max(s)}], list[Max(s)].selectionNonce)
    BY DEF FoldBody, Folded
  <2> QED BY <2>1 DEF IsFold
<1>3. \E g : g = [s \in SUBSET D |->
                   IF s = {} THEN 0 ELSE PlusQ(g[s \ {Max(s)}], list[Max(s)].selectionNonce)]
  BY <1>2, FoldExists
<1>4. f = [s \in SUBSET D |->
            IF s = {} THEN 0 ELSE PlusQ(f[s \ {Max(s)}], list[Max(s)].selectionNonce)]
  BY <1>3
<1> HIDE DEF f
<1>5. IsFold("nonces", 0, list, f)
  BY <1>2, <1>4
<1> QED BY <1>1, <1>5, FoldPasses

\* So does the accumulation of ciphertexts.
LEMMA TextsPass ==
  ASSUME NEW first, NEW list, NEW n \in Nat, DOMAIN list = 1 .. n
  PROVE  Passes("texts", first, list, n, FoldLeft(CiphertextPlus, first, list))
<1> DEFINE D == DOMAIN list
           f == CHOOSE g : g = [s \in SUBSET D |->
                  IF s = {} THEN first ELSE CiphertextPlus(g[s \ {Max(s)}], list[Max(s)])]
<1>1. FoldLeft(CiphertextPlus, first, list) = f[D]
  BY DEF FoldLeft, MapThenFoldSet
<1>2. ASSUME NEW g
      PROVE  IsFold("texts", first, list, g)
               <=> g = [s \in SUBSET D |->
                         IF s = {} THEN first ELSE CiphertextPlus(g[s \ {Max(s)}], list[Max(s)])]
  <2>1. \A s \in SUBSET D : FoldBody("texts", first, list, g, s)
          = IF s = {} THEN first ELSE CiphertextPlus(g[s \ {Max(s)}], list[Max(s)])
    BY DEF FoldBody, Folded
  <2> QED BY <2>1 DEF IsFold
<1>3. \E g : g = [s \in SUBSET D |->
                   IF s = {} THEN first ELSE CiphertextPlus(g[s \ {Max(s)}], list[Max(s)])]
  BY <1>2, FoldExists
<1>4. f = [s \in SUBSET D |->
            IF s = {} THEN first ELSE CiphertextPlus(f[s \ {Max(s)}], list[Max(s)])]
  BY <1>3
<1> HIDE DEF f
<1>5. IsFold("texts", first, list, f)
  BY <1>2, <1>4
<1> QED BY <1>1, <1>5, FoldPasses

\* So does the product of the shares.
LEMMA SharesPass ==
  ASSUME NEW first, NEW list, NEW n \in Nat, DOMAIN list = 1 .. n
  PROVE  Passes("shares", first, list, n, FoldLeft(Times, first, list))
<1> DEFINE D == DOMAIN list
           f == CHOOSE g : g = [s \in SUBSET D |->
                  IF s = {} THEN first ELSE Times(g[s \ {Max(s)}], list[Max(s)])]
<1>1. FoldLeft(Times, first, list) = f[D]
  BY DEF FoldLeft, MapThenFoldSet
<1>2. ASSUME NEW g
      PROVE  IsFold("shares", first, list, g)
               <=> g = [s \in SUBSET D |->
                         IF s = {} THEN first ELSE Times(g[s \ {Max(s)}], list[Max(s)])]
  <2>1. \A s \in SUBSET D : FoldBody("shares", first, list, g, s)
          = IF s = {} THEN first ELSE Times(g[s \ {Max(s)}], list[Max(s)])
    BY DEF FoldBody, Folded
  <2> QED BY <2>1 DEF IsFold
<1>3. \E g : g = [s \in SUBSET D |->
                   IF s = {} THEN first ELSE Times(g[s \ {Max(s)}], list[Max(s)])]
  BY <1>2, FoldExists
<1>4. f = [s \in SUBSET D |->
            IF s = {} THEN first ELSE Times(f[s \ {Max(s)}], list[Max(s)])]
  BY <1>3
<1> HIDE DEF f
<1>5. IsFold("shares", first, list, f)
  BY <1>2, <1>4
<1> QED BY <1>1, <1>5, FoldPasses

-----------------------------------------------------------------------------
(***************************************************************************)
(* Every selection of the list is encrypted with its own nonce.            *)
(***************************************************************************)
EncryptedWith(list, key) ==
  \A i \in DOMAIN list :
    /\ list[i].vote \in {0, 1}
    /\ list[i].selectionNonce \in ElementsModQ
    /\ Encrypts(list[i].ciphertext, list[i].vote, key, list[i].selectionNonce)

\* One more ciphertext is accumulated.
LEMMA OneMore ==
  ASSUME NEW key \in ElementsModP, NEW k \in Nat,
         NEW m1 \in 0 .. k, NEW n1 \in ElementsModQ, NEW x, Encrypts(x, m1, key, n1),
         NEW m2 \in {0, 1}, NEW n2 \in ElementsModQ, NEW y, Encrypts(y, m2, key, n2)
  PROVE  /\ m1 + m2 \in 0 .. k + 1
         /\ PlusQ(n1, n2) \in ElementsModQ
         /\ Encrypts(CiphertextPlus(x, y), m1 + m2, key, PlusQ(n1, n2))
<1>1. m1 \in Int /\ m2 \in Int
  OBVIOUS
<1> QED BY <1>1, PlusQType, SumEncryptsSum

(***************************************************************************)
(* The accumulation of a contest is a ciphertext of its number of votes    *)
(* with the sum of its nonces.                                             *)
(***************************************************************************)
LEMMA ListAccumulates ==
  ASSUME NEW key \in ElementsModP, NEW n \in Nat \ {0}, NEW list, DOMAIN list = 1 .. n,
         EncryptedWith(list, key),
         NEW rest, DOMAIN rest = 1 .. (n - 1),
         \A i \in 1 .. (n - 1) : rest[i] = list[i + 1].ciphertext,
         NEW votes, Passes("votes", 0, list, n, votes),
         NEW nonce, Passes("nonces", 0, list, n, nonce),
         NEW text, Passes("texts", list[1].ciphertext, rest, n - 1, text)
  PROVE  /\ votes \in 0 .. n
         /\ nonce \in ElementsModQ
         /\ Encrypts(text, votes, key, nonce)
<1>1. PICK h : /\ h[0] = 0
               /\ \A k \in 1 .. n : h[k] = Folded("votes", h[k - 1], list[k])
               /\ votes = h[n]
  BY DEF Passes
<1>2. PICK a : /\ a[0] = 0
               /\ \A k \in 1 .. n : a[k] = Folded("nonces", a[k - 1], list[k])
               /\ nonce = a[n]
  BY DEF Passes
<1>3. PICK t : /\ t[0] = list[1].ciphertext
               /\ \A k \in 1 .. (n - 1) : t[k] = Folded("texts", t[k - 1], rest[k])
               /\ text = t[n - 1]
  BY DEF Passes
<1> DEFINE Agrees(k) == /\ h[k + 1] \in 0 .. (k + 1)
                        /\ a[k + 1] \in ElementsModQ
                        /\ Encrypts(t[k], h[k + 1], key, a[k + 1])
           C == {k \in Nat : k <= n - 1 => Agrees(k)}
<1>4. 0 \in C
  <2>1. 1 \in 1 .. n /\ 1 - 1 = 0
    OBVIOUS
  <2>2. /\ list[1].vote \in {0, 1} /\ list[1].selectionNonce \in ElementsModQ
        /\ Encrypts(list[1].ciphertext, list[1].vote, key, list[1].selectionNonce)
    BY <2>1 DEF EncryptedWith
  <2>3. h[1] = list[1].vote
    <3>1. h[1] = h[0] + list[1].vote
      BY <1>1, <2>1 DEF Folded
    <3> QED BY <1>1, <2>2, <3>1
  <2>4. a[1] = list[1].selectionNonce
    <3>1. a[1] = PlusQ(a[0], list[1].selectionNonce)
      BY <1>2, <2>1 DEF Folded
    <3>2. PlusQ(0, list[1].selectionNonce) = list[1].selectionNonce
      BY <2>2, ModSmall DEF PlusQ
    <3> QED BY <1>2, <3>1, <3>2
  <2>5. Agrees(0)
    BY <1>3, <2>2, <2>3, <2>4
  <2> QED BY <2>5
<1>5. \A k \in Nat : k \in C => k + 1 \in C
  <2> SUFFICES ASSUME NEW k \in Nat, k \in C, k + 1 <= n - 1
               PROVE  Agrees(k + 1)
    <3> HIDE DEF Agrees
    <3>1. \A i \in Nat : i \in C <=> (i <= n - 1 => Agrees(i))
      OBVIOUS
    <3> HIDE DEF C
    <3> QED BY <3>1
  <2>1. k + 2 \in 1 .. n /\ k + 1 \in 1 .. (n - 1) /\ (k + 2) - 1 = k + 1 /\ (k + 1) - 1 = k
        /\ (k + 1) + 1 = k + 2 /\ k + 1 \in Nat
    OBVIOUS
  <2>2. Agrees(k)
    OBVIOUS
  <2> DEFINE s == list[k + 2]
  <2>3. /\ s.vote \in {0, 1} /\ s.selectionNonce \in ElementsModQ
        /\ Encrypts(s.ciphertext, s.vote, key, s.selectionNonce)
    BY <2>1 DEF EncryptedWith
  <2>4. h[k + 2] = h[k + 1] + s.vote
    BY <1>1, <2>1 DEF Folded
  <2>5. a[k + 2] = PlusQ(a[k + 1], s.selectionNonce)
    BY <1>2, <2>1 DEF Folded
  <2>6. t[k + 1] = CiphertextPlus(t[k], s.ciphertext)
    <3>1. t[k + 1] = CiphertextPlus(t[k], rest[k + 1])
      BY <1>3, <2>1 DEF Folded
    <3>2. rest[k + 1] = s.ciphertext
      BY <2>1
    <3> QED BY <3>1, <3>2
  <2> HIDE DEF s
  <2>7. /\ h[k + 1] + s.vote \in 0 .. (k + 1) + 1
        /\ PlusQ(a[k + 1], s.selectionNonce) \in ElementsModQ
        /\ Encrypts(CiphertextPlus(t[k], s.ciphertext), h[k + 1] + s.vote, key,
                    PlusQ(a[k + 1], s.selectionNonce))
    <3> DEFINE l == k + 1
               m1 == h[l]
               n1 == a[l]
               x == t[k]
               m2 == s.vote
               n2 == s.selectionNonce
               y == s.ciphertext
    <3>1. /\ l \in Nat /\ m1 \in 0 .. l /\ n1 \in ElementsModQ /\ Encrypts(x, m1, key, n1)
          /\ m2 \in {0, 1} /\ n2 \in ElementsModQ /\ Encrypts(y, m2, key, n2)
      BY <2>1, <2>2, <2>3
    <3> HIDE DEF l, m1, n1, x, m2, n2, y
    <3>2. /\ m1 + m2 \in 0 .. l + 1 /\ PlusQ(n1, n2) \in ElementsModQ
          /\ Encrypts(CiphertextPlus(x, y), m1 + m2, key, PlusQ(n1, n2))
      BY <3>1, OneMore
    <3> QED BY <3>2 DEF l, m1, n1, x, m2, n2, y
  <2>8. /\ h[k + 2] \in 0 .. (k + 1) + 1
        /\ a[k + 2] \in ElementsModQ
        /\ Encrypts(t[k + 1], h[k + 2], key, a[k + 2])
    BY <2>4, <2>5, <2>6, <2>7
  <2> QED BY <2>1, <2>8
<1>6. n - 1 \in C
  <2> HIDE DEF C
  <2>1. \A k \in Nat : k \in C
    BY <1>4, <1>5, Sets!NatSetInduction
  <2> QED BY <2>1
<1>7. Agrees(n - 1) /\ (n - 1) + 1 = n
  BY <1>6
<1> QED BY <1>1, <1>2, <1>3, <1>7

-----------------------------------------------------------------------------
(***************************************************************************)
(* The invariants of ContestProof.                                         *)
(***************************************************************************)
LEMMA PublicKeyType ==
  ASSUME TypeOK
  PROVE  publicKey \in ElementsModP /\ publicKey = secretKey
<1>1. secretKey \in ElementsModQ
  BY QAssumption DEF TypeOK, ElementsModQ
<1>2. publicKey = secretKey % Q
  BY <1>1, ModSmall DEF publicKey, PowP, G
<1> QED BY <1>1, <1>2, ModSmall DEF ElementsModP, ElementsModQ

\* encryptSelection preserves both invariants.
LEMMA SelectionAppended ==
  ASSUME TypeOK,
         NEW vote \in Votes, NEW nonce \in ElementsModQ,
         NEW u \in ProofNonces, NEW v \in ProofNonces, NEW w \in ProofNonces,
         NEW c \in ElementsModQ,
         EncryptSelection(vote, nonce, u, v, w, c)
  PROVE  TypeOK' /\ SelectionProofVerifies'
<1> DEFINE ct == Encrypt(vote, publicKey, nonce)
           s  == [ciphertext |-> ct, selectionNonce |-> nonce, vote |-> vote]
<1>1. vote \in {0, 1} /\ nonce # 0
  BY ContestProofAssumption DEF EncryptSelection, SelectionThrows, EncryptThrows, Provable
<1>2. publicKey \in ElementsModP /\ publicKey' = publicKey
  BY PublicKeyType DEF EncryptSelection, publicKey
<1>3. ct \in [pad : ElementsModP, data : ElementsModP]
  BY <1>1, <1>2, CiphertextParts
<1> HIDE DEF ct
<1>4. /\ selections' = Append(selections, s)
      /\ proof' = DisjunctiveProof(vote, ct, nonce, publicKey, u, v, w, c)
      /\ UNCHANGED <<secretKey, share, phase>>
  BY DEF EncryptSelection, ct
<1>5. TypeOK'
  BY <1>1, <1>3, <1>4 DEF TypeOK
<1>6. Last(selections').ciphertext = ct
  <2>1. Len(selections') = Len(selections) + 1 /\ selections'[Len(selections) + 1] = s
    BY <1>4 DEF TypeOK
  <2>2. Last(selections') = s
    BY <2>1 DEF Last
  <2> QED BY <2>2
<1>7. DisjunctiveValid(proof', ct, publicKey)
  BY <1>1, <1>2, <1>4, ContestProofAssumption, DisjunctiveProofComplete DEF ct
<1> QED BY <1>2, <1>5, <1>6, <1>7 DEF SelectionProofVerifies

\* So does every step.
LEMMA InvariantsPreserved ==
  ASSUME TypeOK, SelectionProofVerifies, [Next]_vars
  PROVE  TypeOK' /\ SelectionProofVerifies'
<1>1. ASSUME NEW vote \in Votes, NEW nonce \in ElementsModQ,
             NEW u \in ProofNonces, NEW v \in ProofNonces, NEW w \in ProofNonces,
             NEW c \in ElementsModQ,
             EncryptSelection(vote, nonce, u, v, w, c)
      PROVE  TypeOK' /\ SelectionProofVerifies'
  BY <1>1, SelectionAppended
<1>2. ASSUME NEW vote \in Votes, NEW nonce \in ElementsModQ, ThrowSelection(vote, nonce)
      PROVE  TypeOK' /\ SelectionProofVerifies'
  BY <1>2 DEF ThrowSelection, TypeOK, SelectionProofVerifies
<1>3. ASSUME NEW limit \in Limits, NEW w \in ProofNonces, NEW c \in ElementsModQ,
             EncryptContest(limit, w, c)
      PROVE  TypeOK' /\ SelectionProofVerifies'
  BY <1>3 DEF EncryptContest, TypeOK, SelectionProofVerifies
<1>4. ASSUME NEW limit \in Limits, NEW w \in ProofNonces, NEW c \in ElementsModQ,
             ProveResult(limit, w, c)
      PROVE  TypeOK' /\ SelectionProofVerifies'
  BY <1>4 DEF ProveResult, TypeOK, SelectionProofVerifies
<1>5. CASE UNCHANGED vars
  BY <1>5 DEF vars, TypeOK, SelectionProofVerifies, publicKey
<1> QED BY <1>1, <1>2, <1>3, <1>4, <1>5 DEF Next

\* Both hold initially.
LEMMA InvariantsInitially ==
  ASSUME Init
  PROVE  TypeOK /\ SelectionProofVerifies
BY DEF Init, TypeOK, SelectionProofVerifies

(***************************************************************************)
(* Only votes of 0 and 1 with a nonce that is not zero are ever encrypted, *)
(* by Int.encrypt and disjunctiveChaumPedersenProofKnownNonce together,    *)
(* and their ciphertexts are pairs of elements of the subgroup.            *)
(***************************************************************************)
THEOREM TypeCorrect == Spec => []TypeOK
<1>1. TypeOK /\ SelectionProofVerifies /\ [Next]_vars
        => (TypeOK /\ SelectionProofVerifies)'
  BY InvariantsPreserved
<1> QED BY <1>1, InvariantsInitially, PTL DEF Spec

(***************************************************************************)
(* In every run of encryptSelection the proof it puts into the selection   *)
(* is accepted by isValid.                                                 *)
(***************************************************************************)
THEOREM SelectionProofsVerify == Spec => []SelectionProofVerifies
<1>1. TypeOK /\ SelectionProofVerifies /\ [Next]_vars
        => (TypeOK /\ SelectionProofVerifies)'
  BY InvariantsPreserved
<1> QED BY <1>1, InvariantsInitially, PTL DEF Spec

-----------------------------------------------------------------------------
\* The selections of the contest accumulate like that.
LEMMA SelectionsAccumulate ==
  ASSUME TypeOK, selections # << >>, EncryptedWith(selections, publicKey)
  PROVE  /\ TotalVotes \in 0 .. Len(selections)
         /\ aggNonce \in ElementsModQ
         /\ Encrypts(accumulation, TotalVotes, publicKey, aggNonce)
<1> DEFINE n == Len(selections)
           rest == Tail(texts)
<1>1. /\ n \in Nat \ {0} /\ n - 1 \in Nat
      /\ DOMAIN selections = 1 .. n
      /\ 1 \in 1 .. n
  BY DEF TypeOK
<1>2. /\ texts \in Seq([pad : ElementsModP, data : ElementsModP])
      /\ Len(texts) = n /\ texts # << >>
      /\ \A i \in 1 .. n : texts[i] = selections[i].ciphertext
  <2> DEFINE S == [pad : ElementsModP, data : ElementsModP]
  <2>1. \A i \in 1 .. n : selections[i].ciphertext \in S
    <3> DEFINE T == [ciphertext : S, selectionNonce : ElementsModQ \ {0}, vote : {0, 1}]
    <3>1. selections \in Seq(T)
      BY DEF TypeOK
    <3> HIDE DEF T
    <3>2. \A i \in 1 .. n : selections[i] \in T
      BY <3>1
    <3> HIDE DEF S
    <3> QED BY <3>2 DEF T
  <2>2. texts = [i \in 1 .. n |-> selections[i].ciphertext]
    BY <1>1 DEF texts
  <2> HIDE DEF S, n
  <2>3. texts \in [1 .. n -> S]
    BY <2>1, <2>2
  <2>4. texts \in Seq(S) /\ Len(texts) = n
    BY <1>1, <2>3
  <2>5. texts # << >>
    BY <1>1, <2>4
  <2> QED BY <2>2, <2>4, <2>5 DEF S
<1>3. /\ Head(texts) = selections[1].ciphertext
      /\ DOMAIN rest = 1 .. (n - 1)
      /\ \A i \in 1 .. (n - 1) : rest[i] = selections[i + 1].ciphertext
  <2> DEFINE S == [pad : ElementsModP, data : ElementsModP]
             list == texts
  <2>1. list \in Seq(S) /\ Len(list) = n /\ list # << >>
    BY <1>2
  <2> HIDE DEF S, n, list
  <2>2. Head(list) = list[1]
    BY <2>1
  <2>3. rest \in Seq(S) /\ Len(rest) = n - 1
    BY <1>1, <2>1 DEF list
  <2>4. \A i \in 1 .. (n - 1) : rest[i] = list[i + 1]
    BY <1>1, <2>1 DEF list
  <2>5. DOMAIN rest = 1 .. (n - 1)
    BY <2>3
  <2>6. \A i \in 1 .. (n - 1) : i + 1 \in 1 .. n
    BY <1>1
  <2> QED BY <1>1, <1>2, <2>2, <2>4, <2>5, <2>6 DEF list
<1> HIDE DEF n, rest
<1>4. Passes("votes", 0, selections, n, TotalVotes)
  BY <1>1, VotesPass DEF TotalVotes
<1>5. Passes("nonces", 0, selections, n, aggNonce)
  BY <1>1, NoncesPass DEF aggNonce
<1>6. Passes("texts", selections[1].ciphertext, rest, n - 1, accumulation)
  BY <1>1, <1>3, TextsPass DEF accumulation, EncryptedSum, rest
<1>7. publicKey \in ElementsModP
  BY PublicKeyType
<1> QED BY <1>1, <1>3, <1>4, <1>5, <1>6, <1>7, ListAccumulates DEF n

(***************************************************************************)
(* What the proofs of the contest and of the result were made from.        *)
(***************************************************************************)
MadeWithNonce ==
  \E L \in Limits, w \in ElementsModQ, c \in ElementsModQ :
    proof = ConstantProofWithNonce(accumulation, L, aggNonce, publicKey, w, c)

MadeWithKey ==
  \E L \in Limits, w \in ElementsModQ, c \in ElementsModQ :
    proof = ConstantProofWithKey(accumulation, L, secretKey, publicKey, w, c)

(***************************************************************************)
(* The inductive invariant: every selection is a ciphertext of its vote    *)
(* with its own nonce, and the proof of the contest, or of the result, was *)
(* made for the accumulation of just these selections.                     *)
(***************************************************************************)
IInv ==
  /\ TypeOK
  /\ Len(selections) <= MaxSelections
  /\ EncryptedWith(selections, publicKey)
  /\ phase \in {"encrypted", "announced"} => selections # << >>
  /\ phase = "encrypted" => MadeWithNonce
  /\ phase = "announced" => MadeWithKey

\* The total is an exponent by itself: it does not wrap around.
LEMMA TotalsAreSmall ==
  ASSUME IInv, selections # << >>
  PROVE  /\ TotalVotes \in Int /\ TotalVotes % Q = TotalVotes
         /\ aggNonce \in ElementsModQ
         /\ Encrypts(accumulation, TotalVotes, publicKey, aggNonce)
         /\ \A L \in Limits : L \in Int /\ L % Q = L
         /\ publicKey \in ElementsModP \ {0} /\ publicKey = secretKey
         /\ secretKey \in ElementsModQ
<1>1. /\ TotalVotes \in 0 .. Len(selections)
      /\ aggNonce \in ElementsModQ
      /\ Encrypts(accumulation, TotalVotes, publicKey, aggNonce)
  BY SelectionsAccumulate DEF IInv
<1>2. Len(selections) \in Nat /\ Len(selections) < Q
  BY OrderAssumption, QAssumption DEF IInv, TypeOK
<1>3. TotalVotes \in ElementsModQ
  BY <1>1, <1>2, QAssumption DEF ElementsModQ
<1>4. \A L \in Limits : L \in ElementsModQ
  BY OrderAssumption DEF ElementsModQ
<1>5. publicKey \in ElementsModP /\ publicKey = secretKey
  BY PublicKeyType DEF IInv
<1>6. publicKey # 0 /\ secretKey \in ElementsModQ
  BY <1>5, QAssumption DEF IInv, TypeOK, ElementsModQ
<1> QED BY <1>1, <1>3, <1>4, <1>5, <1>6, ModSmall

\* So the constant proof is exact.
LEMMA ContestProofIsExact ==
  ASSUME IInv
  PROVE  ContestProofExact
<1> SUFFICES ASSUME phase = "encrypted"
             PROVE  ConstantValidWithNonce(proof, accumulation, publicKey)
                      <=> proof.constant = TotalVotes \/ proof.proof.c = 0
  BY DEF ContestProofExact
<1>1. selections # << >>
  BY DEF IInv
<1>2. PICK L \in Limits, w \in ElementsModQ, c \in ElementsModQ :
        proof = ConstantProofWithNonce(accumulation, L, aggNonce, publicKey, w, c)
  BY DEF IInv, MadeWithNonce
<1>3. NoZeroDivisors
  BY OrderAssumption DEF NoZeroDivisors
<1>4. proof.constant = L /\ proof.proof.c = c
  BY <1>2 DEF ConstantProofWithNonce, GenericProof
<1>5. L \in Int /\ L % Q = L /\ TotalVotes \in Int /\ TotalVotes % Q = TotalVotes
  BY <1>1, TotalsAreSmall
<1>6. ConstantValidWithNonce(ConstantProofWithNonce(accumulation, L, aggNonce, publicKey, w, c),
                             accumulation, publicKey)
        <=> TotalVotes % Q = L % Q \/ c = 0
  BY <1>1, <1>3, <1>5, TotalsAreSmall, ConstantProofExact
<1> QED BY <1>2, <1>4, <1>5, <1>6

\* And so is the proof of the result.
LEMMA ResultProofIsExact ==
  ASSUME IInv
  PROVE  ResultProofExact
<1> SUFFICES ASSUME phase = "announced"
             PROVE  ConstantValidWithKey(proof, accumulation, publicKey)
                      <=> proof.constant = TotalVotes \/ proof.proof.c = 0
  BY DEF ResultProofExact
<1>1. selections # << >>
  BY DEF IInv
<1>2. PICK L \in Limits, w \in ElementsModQ, c \in ElementsModQ :
        proof = ConstantProofWithKey(accumulation, L, secretKey, publicKey, w, c)
  BY DEF IInv, MadeWithKey
<1>3. NoZeroDivisors
  BY OrderAssumption DEF NoZeroDivisors
<1>4. proof.constant = L /\ proof.proof.c = c
  BY <1>2 DEF ConstantProofWithKey, GenericProof
<1>5. L \in Int /\ L % Q = L /\ TotalVotes \in Int /\ TotalVotes % Q = TotalVotes
      /\ publicKey = secretKey
  BY <1>1, TotalsAreSmall
<1>6. ConstantValidWithKey(ConstantProofWithKey(accumulation, L, publicKey, publicKey, w, c),
                           accumulation, publicKey)
        <=> TotalVotes % Q = L % Q \/ c = 0
  BY <1>1, <1>3, <1>5, TotalsAreSmall, KeyProofExact
<1> QED BY <1>2, <1>4, <1>5, <1>6

-----------------------------------------------------------------------------
(***************************************************************************)
(* The shares of a secret key decrypt to what the key decrypts to.         *)
(***************************************************************************)
LEMMA SharesDecrypt ==
  ASSUME NEW s \in ElementsModQ, NEW a \in ElementsModQ, NEW ct,
         ct.pad \in ElementsModP, ct.data \in ElementsModP
  PROVE  DecryptedWithShares(ct, <<ComputeShare(ct, a), ComputeShare(ct, PlusQ(s, MinusQ(a)))>>)
           = Decrypted(ct, s)
<1> DEFINE pad == ct.pad
           data == ct.data
           one == ComputeShare(ct, a)
           two == ComputeShare(ct, PlusQ(s, MinusQ(a)))
           rest == Tail(<<one, two>>)
<1>1. /\ s \in Int /\ a \in Int /\ pad \in Int /\ data \in Int /\ data % Q = data
      /\ MinusQ(a) = (0 - a) % Q /\ MinusQ(s) = (0 - s) % Q
  BY ModSmall, MinusQIsNegation DEF ElementsModP, ElementsModQ
<1> DEFINE x == pad * a
           y == pad * (s - a)
           z == pad * s
<1>2. /\ x \in Int /\ y \in Int /\ z \in Int /\ s - a \in Int /\ 0 - a \in Int /\ 0 - s \in Int
      /\ x + y = z /\ s + (0 - a) = s - a
  BY <1>1
<1>3. one = x % Q
  BY DEF ComputeShare, PowP
<1>4. two = y % Q
  <2>1. PlusQ(s, MinusQ(a)) = (s - a) % Q
    BY <1>1, <1>2, ModPlus DEF PlusQ
  <2>2. two = (pad * ((s - a) % Q)) % Q
    BY <2>1 DEF ComputeShare, PowP
  <2>3. pad \in Int /\ s - a \in Int
    BY <1>1, <1>2
  <2>4. (pad * ((s - a) % Q)) % Q = (pad * (s - a)) % Q
    BY ONLY <2>3, QAssumption, ModTimes
  <2> QED BY <2>2, <2>4
<1>5. FoldLeft(Times, Head(<<one, two>>), rest) = Times(one, two)
  <2>1. /\ Head(<<one, two>>) = one
        /\ DOMAIN rest = 1 .. 1 /\ rest[1] = two
    OBVIOUS
  <2> HIDE DEF one, two, rest
  <2>2. Passes("shares", one, rest, 1, FoldLeft(Times, one, rest))
    BY <2>1, SharesPass
  <2>3. PICK h : /\ h[0] = one
                 /\ \A k \in 1 .. 1 : h[k] = Folded("shares", h[k - 1], rest[k])
                 /\ FoldLeft(Times, one, rest) = h[1]
    BY <2>2 DEF Passes
  <2>4. 1 \in 1 .. 1 /\ 1 - 1 = 0
    OBVIOUS
  <2>5. h[1] = Folded("shares", h[0], rest[1])
    BY <2>3, <2>4
  <2> QED BY <2>1, <2>3, <2>5 DEF Folded
<1> HIDE DEF x, y, z, one, two, rest, pad, data
<1>6. Times(one, two) = z % Q
  BY <1>2, <1>3, <1>4, ModSum DEF Times
<1>7. (data - (z % Q)) % Q = (data - z) % Q
  <2>1. PICK k \in Int : z = k * Q + (z % Q)
    BY <1>2, ModQuotient
  <2>2. z % Q \in Int /\ k * Q \in Int
    BY <1>2, ModRange, QAssumption
  <2>3. data - (z % Q) = (data - z) + k * Q /\ data - z \in Int /\ data - (z % Q) \in Int
    <3> DEFINE kq == k * Q
               zq == z % Q
    <3>1. /\ kq \in Int /\ zq \in Int /\ z = kq + zq
          /\ data \in Int /\ z \in Int
      BY <1>1, <1>2, <2>1, <2>2
    <3> HIDE DEF kq, zq
    <3>2. data - zq = (data - z) + kq /\ data - z \in Int /\ data - zq \in Int
      BY <3>1
    <3> QED BY <3>2 DEF kq, zq
  <2> QED BY <2>3, ModCongruent
<1>8. Decrypted(ct, s) = (data - z) % Q
  <2> DEFINE v == pad * (0 - s)
  <2>1. v \in Int /\ data + v = data - z
    <3>1. v \in Int /\ v = 0 - pad * s
      BY <1>1
    <3> HIDE DEF v
    <3> QED BY <1>1, <1>2, <3>1 DEF z
  <2>2. PowP(pad, MinusQ(s)) = v % Q
    BY <1>1, <1>2, ModTimes DEF PowP
  <2> HIDE DEF v
  <2>3. (data + (v % Q)) % Q = (data + v) % Q
    BY <1>1, <2>1, ModPlus
  <2> QED BY <2>1, <2>2, <2>3 DEF Decrypted, Times, pad, data
<1> QED BY <1>5, <1>6, <1>7, <1>8 DEF DecryptedWithShares, Div, one, two, rest, data

\* And the nonce decrypts to the same.
LEMMA AllDecryptAlike ==
  ASSUME IInv
  PROVE  DecryptionsAgree
<1> SUFFICES ASSUME selections # << >>
             PROVE  DecryptionsAgree
  BY DEF DecryptionsAgree
<1> DEFINE total == PowP(publicKey, TotalVotes)
<1>1. /\ TotalVotes \in Int /\ aggNonce \in ElementsModQ
      /\ Encrypts(accumulation, TotalVotes, publicKey, aggNonce)
      /\ publicKey \in ElementsModP /\ secretKey \in ElementsModQ
  BY TotalsAreSmall
<1>2. /\ Decrypted(accumulation, secretKey) = total
      /\ DecryptedWithNonce(accumulation, publicKey, aggNonce) = total
  <2>1. publicKey = PowP(G, secretKey)
    BY DEF publicKey
  <2> QED BY <1>1, <2>1, DecryptionInverts
<1>3. accumulation.pad \in ElementsModP /\ accumulation.data \in ElementsModP
  <2>1. publicKey * (aggNonce + TotalVotes) \in Int
    BY <1>1, ModSmall DEF ElementsModP, ElementsModQ
  <2>2. /\ accumulation.pad = aggNonce
        /\ accumulation.data = (publicKey * (aggNonce + TotalVotes)) % Q
    BY <1>1 DEF Encrypts
  <2> QED BY <1>1, <2>1, <2>2, ModRange DEF ElementsModP, ElementsModQ
<1>4. share \in ElementsModQ
  BY DEF IInv, TypeOK
<1>5. DecryptedWithShares(accumulation,
        <<ComputeShare(accumulation, share),
          ComputeShare(accumulation, PlusQ(secretKey, MinusQ(share)))>>)
        = Decrypted(accumulation, secretKey)
  BY <1>1, <1>3, <1>4, SharesDecrypt
<1> QED BY <1>2, <1>5 DEF DecryptionsAgree

-----------------------------------------------------------------------------
\* encryptSelection appends a ciphertext of its vote.
LEMMA EncryptSelectionKeeps ==
  ASSUME IInv,
         NEW vote \in Votes, NEW nonce \in ElementsModQ,
         NEW u \in ProofNonces, NEW v \in ProofNonces, NEW w \in ProofNonces,
         NEW c \in ElementsModQ,
         EncryptSelection(vote, nonce, u, v, w, c)
  PROVE  IInv'
<1> DEFINE ct == Encrypt(vote, publicKey, nonce)
           s  == [ciphertext |-> ct, selectionNonce |-> nonce, vote |-> vote]
           n  == Len(selections)
<1>1. TypeOK'
  BY SelectionAppended DEF IInv
<1>2. /\ selections' = Append(selections, s) /\ phase' = "selections"
      /\ publicKey' = publicKey /\ n < MaxSelections
  BY DEF EncryptSelection, publicKey
<1>3. vote \in {0, 1} /\ publicKey \in ElementsModP
  BY PublicKeyType, ContestProofAssumption
     DEF IInv, EncryptSelection, SelectionThrows, EncryptThrows, Provable
<1>4. /\ s.vote \in {0, 1} /\ s.selectionNonce \in ElementsModQ
      /\ Encrypts(s.ciphertext, s.vote, publicKey, s.selectionNonce)
  BY <1>3, EncryptEncrypts
<1>5. /\ n \in Nat /\ DOMAIN selections = 1 .. n
      /\ DOMAIN selections' = 1 .. (n + 1) /\ Len(selections') = n + 1
      /\ selections'[n + 1] = s
      /\ \A i \in 1 .. n : selections'[i] = selections[i]
  <2> HIDE DEF s
  <2> QED BY <1>2 DEF IInv, TypeOK
<1> HIDE DEF s, n
<1>6. EncryptedWith(selections', publicKey)
  <2> SUFFICES ASSUME NEW i \in 1 .. (n + 1)
               PROVE  /\ selections'[i].vote \in {0, 1}
                      /\ selections'[i].selectionNonce \in ElementsModQ
                      /\ Encrypts(selections'[i].ciphertext, selections'[i].vote, publicKey,
                                  selections'[i].selectionNonce)
    BY <1>5 DEF EncryptedWith
  <2>1. CASE i = n + 1
    BY <1>4, <1>5, <2>1
  <2>2. CASE i \in 1 .. n
    BY <1>5, <2>2 DEF IInv, EncryptedWith
  <2> QED BY <1>5, <2>1, <2>2
<1>7. Len(selections') <= MaxSelections
  BY <1>2, <1>5, OrderAssumption DEF n
<1> QED BY <1>1, <1>2, <1>6, <1>7 DEF IInv

NoncesOf(list) == FoldLeft(LAMBDA sum, s : PlusQ(sum, s.selectionNonce), 0, list)

\* Key, accumulation and aggregate nonce depend on key and selections alone.
LEMMA SameContest ==
  ASSUME UNCHANGED <<secretKey, selections>>
  PROVE  publicKey' = publicKey /\ accumulation' = accumulation /\ aggNonce' = aggNonce
<1>1. publicKey' = publicKey /\ accumulation' = accumulation
  BY DEF publicKey, accumulation, texts
<1>2. aggNonce = NoncesOf(selections)
  BY DEF aggNonce, NoncesOf
<1>3. aggNonce' = NoncesOf(selections')
  BY DEF aggNonce, NoncesOf, FoldLeft, MapThenFoldSet
<1> QED BY <1>1, <1>2, <1>3

\* encryptContest makes its proof for the selections there are.
LEMMA EncryptContestKeeps ==
  ASSUME IInv, NEW limit \in Limits, NEW w \in ProofNonces, NEW c \in ElementsModQ,
         EncryptContest(limit, w, c)
  PROVE  IInv'
<1>1. /\ UNCHANGED <<secretKey, share, selections>> /\ phase' = "encrypted"
      /\ selections # << >>
      /\ proof' = ConstantProofWithNonce(accumulation, limit, aggNonce, publicKey, w, c)
  BY DEF EncryptContest
<1>2. publicKey' = publicKey /\ accumulation' = accumulation /\ aggNonce' = aggNonce
  BY <1>1, SameContest
<1>3. MadeWithNonce'
  BY <1>1, <1>2, ContestProofAssumption DEF MadeWithNonce
<1>4. TypeOK'
  BY <1>1 DEF IInv, TypeOK
<1>5. EncryptedWith(selections', publicKey')
  BY <1>1, <1>2 DEF IInv
<1> QED BY <1>1, <1>3, <1>4, <1>5 DEF IInv

\* The result is proved for the same selections.
LEMMA ProveResultKeeps ==
  ASSUME IInv, NEW result \in Limits, NEW w \in ProofNonces, NEW c \in ElementsModQ,
         ProveResult(result, w, c)
  PROVE  IInv'
<1>1. /\ UNCHANGED <<secretKey, share, selections>> /\ phase' = "announced"
      /\ selections # << >>
      /\ proof' = ConstantProofWithKey(accumulation, result, secretKey, publicKey, w, c)
  BY DEF ProveResult, IInv
<1>2. publicKey' = publicKey /\ accumulation' = accumulation
  BY <1>1 DEF publicKey, accumulation, texts
<1>3. MadeWithKey'
  BY <1>1, <1>2, ContestProofAssumption DEF MadeWithKey
<1>4. TypeOK'
  BY <1>1 DEF IInv, TypeOK
<1>5. EncryptedWith(selections', publicKey')
  BY <1>1, <1>2 DEF IInv
<1> QED BY <1>1, <1>3, <1>4, <1>5 DEF IInv

(***************************************************************************)
(* Every selection that encryptSelection puts into the contest stays a     *)
(* ciphertext of its vote, and encryptContest and the proof of the result  *)
(* are made for the accumulation of exactly these selections.              *)
(***************************************************************************)
THEOREM Invariance == Spec => []IInv
<1>1. ASSUME Init PROVE IInv
  BY <1>1, OrderAssumption DEF Init, IInv, TypeOK, EncryptedWith
<1>2. ASSUME IInv, [Next]_vars PROVE IInv'
  <2>1. ASSUME NEW vote \in Votes, NEW nonce \in ElementsModQ,
               NEW u \in ProofNonces, NEW v \in ProofNonces, NEW w \in ProofNonces,
               NEW c \in ElementsModQ,
               EncryptSelection(vote, nonce, u, v, w, c)
        PROVE  IInv'
    BY <1>2, <2>1, EncryptSelectionKeeps
  <2>2. ASSUME NEW vote \in Votes, NEW nonce \in ElementsModQ, ThrowSelection(vote, nonce)
        PROVE  IInv'
    <3>1. UNCHANGED <<secretKey, share, selections>> /\ phase' = "threw"
      BY <2>2 DEF ThrowSelection
    <3>2. publicKey' = publicKey
      BY <3>1 DEF publicKey
    <3>3. TypeOK' /\ EncryptedWith(selections', publicKey')
      BY <1>2, <3>1, <3>2 DEF IInv, TypeOK
    <3> QED BY <1>2, <3>1, <3>3 DEF IInv
  <2>3. ASSUME NEW limit \in Limits, NEW w \in ProofNonces, NEW c \in ElementsModQ,
               EncryptContest(limit, w, c)
        PROVE  IInv'
    BY <1>2, <2>3, EncryptContestKeeps
  <2>4. ASSUME NEW limit \in Limits, NEW w \in ProofNonces, NEW c \in ElementsModQ,
               ProveResult(limit, w, c)
        PROVE  IInv'
    BY <1>2, <2>4, ProveResultKeeps
  <2>5. CASE UNCHANGED vars
    <3>1. UNCHANGED <<secretKey, share, selections, phase, proof>>
      BY <2>5 DEF vars
    <3>2. publicKey' = publicKey /\ accumulation' = accumulation /\ aggNonce' = aggNonce
      BY <3>1, SameContest
    <3>3. TypeOK'
      BY <1>2, <3>1 DEF IInv, TypeOK
    <3>4. EncryptedWith(selections', publicKey')
      BY <1>2, <3>1, <3>2 DEF IInv
    <3>5. (MadeWithNonce => MadeWithNonce') /\ (MadeWithKey => MadeWithKey')
      BY <3>1, <3>2 DEF MadeWithNonce, MadeWithKey
    <3> QED BY <1>2, <3>1, <3>3, <3>4, <3>5 DEF IInv
  <2> QED BY <1>2, <2>1, <2>2, <2>3, <2>4, <2>5 DEF Next
<1> QED BY <1>1, <1>2, PTL DEF Spec

(***************************************************************************)
(* For every prime order, key, votes, nonces, randomness and challenge the *)
(* proof that encryptContest puts into the contest is accepted by isValid  *)
(* exactly if the selections have votesAllowed votes in all.               *)
(***************************************************************************)
THEOREM ContestProofsAreExact == Spec => []ContestProofExact
BY Invariance, ContestProofIsExact, PTL

(***************************************************************************)
(* So is the proof that constantChaumPedersenProofKnownSecretKey makes of  *)
(* an announced result: no other result passes isValid.                    *)
(***************************************************************************)
THEOREM ResultProofsAreExact == Spec => []ResultProofExact
BY Invariance, ResultProofIsExact, PTL

(***************************************************************************)
(* decrypt, decryptWithShares and decryptWithNonce agree on the number of  *)
(* votes for any number of selections, any key and any two shares of it.   *)
(***************************************************************************)
THEOREM DecryptionsAlwaysAgree == Spec => []DecryptionsAgree
BY Invariance, AllDecryptAlike, PTL


-----------------------------------------------------------------------------
(***************************************************************************)
(* Multiples of Block.                                                     *)
(***************************************************************************)
Whole(n) == n % Block = 0

\* Multiples of the block size are integers, and none lies between 0 and a block.
LEMMA Multiples ==
  ASSUME NEW k \in Int
  PROVE  /\ k * Block \in Int /\ Block * k = k * Block
         /\ k >= 1 => k * Block >= Block
         /\ k <= -1 => k * Block <= -Block
         /\ k = 0 => k * Block = 0
         /\ (k - 1) * Block = k * Block - Block
BY BlockAssumption

\* Division by the block size.
LEMMA Remainder ==
  ASSUME NEW n \in Nat
  PROVE  /\ n % Block \in 0 .. Block - 1
         /\ n \div Block \in Nat
         /\ n = (n \div Block) * Block + (n % Block)
         /\ (n \div Block) * Block \in Nat
<1> DEFINE d == n \div Block
           r == n % Block
<1>1. r \in 0 .. Block - 1 /\ d \in Int /\ n = Block * d + r
  BY BlockAssumption
<1> HIDE DEF d, r
<1>2. n = d * Block + r
  BY <1>1, Multiples
<1>3. d >= 0 /\ d * Block >= 0
  BY <1>1, <1>2, Multiples, BlockAssumption
<1>4. d \in Nat /\ d * Block \in Nat
  BY <1>1, <1>3, Multiples
<1> QED BY <1>1, <1>2, <1>4 DEF d, r

\* Quotient and remainder are unique.
LEMMA RemainderUnique ==
  ASSUME NEW n \in Nat, NEW t \in Int, NEW r \in 0 .. Block - 1, n = t * Block + r
  PROVE  n % Block = r /\ t = n \div Block
<1> DEFINE d == n \div Block
           s == n % Block
<1>1. d \in Nat /\ s \in 0 .. Block - 1 /\ n = d * Block + s
  BY Remainder
<1> HIDE DEF d, s
<1> DEFINE k == t - d
<1>2. k \in Int /\ k * Block = t * Block - d * Block
  BY <1>1, BlockAssumption
<1>3. k * Block = s - r
  <2>1. t * Block \in Int /\ d * Block \in Int
    BY <1>1, Multiples
  <2> QED BY <1>1, <1>2, <2>1
<1>4. k = t - d
  OBVIOUS
<1> HIDE DEF k
<1>5. k = 0
  BY <1>1, <1>2, <1>3, Multiples, BlockAssumption
<1>6. s = r /\ t = d
  BY <1>1, <1>2, <1>3, <1>4, <1>5, Multiples, BlockAssumption
<1> QED BY <1>6 DEF d, s

\* What follows whole blocks decides the remainder.
LEMMA AfterWhole ==
  ASSUME NEW m \in Nat, NEW k \in Nat, Whole(m)
  PROVE  (m + k) % Block = k % Block
<1> DEFINE a == m \div Block
           b == k \div Block
           r == k % Block
<1>1. a \in Nat /\ b \in Nat /\ r \in 0 .. Block - 1 /\ k = b * Block + r
  BY Remainder
<1>2. m = a * Block
  BY Remainder, BlockAssumption DEF Whole
<1> HIDE DEF a, b, r
<1>3. (a + b) * Block = a * Block + b * Block
  BY <1>1, BlockAssumption
<1>4. m + k = (a + b) * Block + r
  BY <1>1, <1>2, <1>3, BlockAssumption
<1>5. (m + k) % Block = r
  BY <1>1, <1>4, RemainderUnique
<1> QED BY <1>5 DEF r

\* Whole blocks and whole blocks are whole blocks.
LEMMA WholeSum ==
  ASSUME NEW m \in Nat, NEW k \in Nat, Whole(m), Whole(k)
  PROVE  Whole(m + k)
BY AfterWhole DEF Whole

\* Nothing, and one block, are whole blocks.
LEMMA WholeBlock == Whole(0) /\ Whole(Block)
<1>1. 0 = 0 * Block + 0 /\ Block = 1 * Block + 0
  BY BlockAssumption
<1> QED BY <1>1, RemainderUnique, BlockAssumption DEF Whole

\* What is kept fits the buffer and leaves whole blocks.
LEMMA KeptBounds ==
  ASSUME NEW n \in Nat
  PROVE  /\ Kept(n) \in 0 .. Block /\ Kept(n) <= n
         /\ Kept(n) = 0 <=> n = 0
         /\ Whole(n - Kept(n))
<1> DEFINE t == n \div Block
           r == n % Block
<1>1. t \in Nat /\ r \in 0 .. Block - 1 /\ n = t * Block + r
  BY Remainder
<1>2. CASE r = 0 /\ n > 0
  <2>1. Kept(n) = Block
    BY <1>2 DEF Kept
  <2> HIDE DEF t, r
  <2>2. t >= 1
    BY <1>1, <1>2, Multiples, BlockAssumption
  <2>3. (t - 1) * Block = t * Block - Block /\ t * Block >= Block /\ t * Block \in Int
    BY <1>1, <2>2, Multiples
  <2>5. n - Block = (t - 1) * Block + 0 /\ n - Block \in Nat
    BY <1>1, <1>2, <2>3, BlockAssumption
  <2>6. Whole(n - Block)
    BY <1>1, <2>5, RemainderUnique, BlockAssumption DEF Whole
  <2> QED BY <1>2, <2>1, <2>5, <2>6, BlockAssumption
<1>3. CASE ~(r = 0 /\ n > 0)
  <2>1. Kept(n) = r
    BY <1>3 DEF Kept
  <2>2. t * Block \in Nat
    BY Remainder
  <2> HIDE DEF t, r
  <2>3. n - r = t * Block + 0 /\ n - r \in Nat
    BY <1>1, <2>2, BlockAssumption
  <2>4. Whole(n - r)
    BY <1>1, <2>3, RemainderUnique, BlockAssumption DEF Whole
  <2>5. n = 0 => r = 0
    BY <1>1, <2>2, BlockAssumption
  <2> QED BY <1>1, <1>3, <2>1, <2>2, <2>3, <2>4, <2>5, BlockAssumption
<1> QED BY <1>2, <1>3

\* After whole blocks all of a last part is kept.
LEMMA KeptAfterWhole ==
  ASSUME NEW m \in Nat, NEW k \in 1 .. Block, Whole(m)
  PROVE  Kept(m + k) = k
<1>0. k \in Nat /\ m + k \in Nat /\ m + k > 0
  BY BlockAssumption
<1>1. (m + k) % Block = k % Block
  BY <1>0, AfterWhole
<1>2. CASE k = Block
  BY <1>0, <1>1, <1>2, WholeBlock DEF Kept, Whole
<1>3. CASE k # Block
  <2>1. k % Block = k
    BY <1>3, BlockAssumption
  <2> QED BY <1>0, <1>1, <2>1 DEF Kept
<1> QED BY <1>2, <1>3

-----------------------------------------------------------------------------
(***************************************************************************)
(* Sequences and the buffer.                                               *)
(***************************************************************************)
LEMMA FrontAndRest ==
  ASSUME NEW s \in Seq(Byte), NEW n \in 0 .. Len(s)
  PROVE  /\ First(s, n) \in Seq(Byte) /\ Len(First(s, n)) = n
         /\ Rest(s, n) \in Seq(Byte) /\ Len(Rest(s, n)) = Len(s) - n
         /\ First(s, n) \o Rest(s, n) = s
<1>0. Len(s) \in Nat /\ \A i \in 1 .. Len(s) : s[i] \in Byte
  BY LenProperties, ElementOfSeq
<1>1. First(s, n) \in Seq(Byte) /\ Len(First(s, n)) = n
  BY <1>0, SubSeqProperties DEF First
<1>2. Rest(s, n) \in Seq(Byte) /\ Len(Rest(s, n)) = Len(s) - n
  BY <1>0, SubSeqProperties DEF Rest
<1>3. SubSeq(s, 1, n) \o SubSeq(s, n + 1, Len(s)) = SubSeq(s, 1, Len(s))
  <2>1. 1 \in 1 .. Len(s) + 1 /\ n \in 1 - 1 .. Len(s) /\ Len(s) \in n .. Len(s)
    BY <1>0
  <2> QED BY <2>1, ConcatAdjacentSubSeq
<1> QED BY <1>1, <1>2, <1>3, SubSeqFull DEF First, Rest

\* A buffer is a sequence of bytes.
LEMMA BufferIsSeq ==
  ASSUME NEW buf \in [1 .. Block -> Byte]
  PROVE  buf \in Seq(Byte) /\ Len(buf) = Block
BY BlockAssumption

\* What is copied behind the first bytes of a buffer follows them.
LEMMA MemcpyAppends ==
  ASSUME NEW buf \in [1 .. Block -> Byte], NEW data \in Seq(Byte),
         NEW offset \in 0 .. Block, offset + Len(data) <= Block
  PROVE  /\ Memcpy(buf, offset, data) \in [1 .. Block -> Byte]
         /\ First(Memcpy(buf, offset, data), offset + Len(data)) = First(buf, offset) \o data
<1> DEFINE copy == Memcpy(buf, offset, data)
           n == offset + Len(data)
<1>0. Len(data) \in Nat /\ \A i \in 1 .. Len(data) : data[i] \in Byte
  BY LenProperties, ElementOfSeq
<1>1. copy \in [1 .. Block -> Byte]
  BY <1>0, BlockAssumption DEF Memcpy
<1>2. n \in 0 .. Block
  BY <1>0, BlockAssumption
<1>3. /\ First(copy, n) \in Seq(Byte) /\ Len(First(copy, n)) = n
      /\ \A i \in 1 .. n : First(copy, n)[i] = copy[i]
  BY <1>1, <1>2, SubSeqProperties, BlockAssumption DEF First
<1>4. /\ First(buf, offset) \in Seq(Byte) /\ Len(First(buf, offset)) = offset
      /\ \A i \in 1 .. offset : First(buf, offset)[i] = buf[i]
  BY SubSeqProperties, BlockAssumption DEF First
<1>5. /\ First(buf, offset) \o data \in Seq(Byte)
      /\ Len(First(buf, offset) \o data) = n
      /\ \A i \in 1 .. n : (First(buf, offset) \o data)[i] =
           IF i <= offset THEN First(buf, offset)[i] ELSE data[i - offset]
  <2> DEFINE f == First(buf, offset)
  <2>1. f \in Seq(Byte) /\ Len(f) = offset /\ data \in Seq(Byte)
    BY <1>4
  <2> HIDE DEF f
  <2>2. /\ f \o data \in Seq(Byte) /\ Len(f \o data) = n
        /\ \A i \in 1 .. n : (f \o data)[i] = IF i <= offset THEN f[i] ELSE data[i - offset]
    BY <2>1, ConcatProperties
  <2> QED BY <2>2 DEF f
<1>6. ASSUME NEW i \in 1 .. n
      PROVE  First(copy, n)[i] = (First(buf, offset) \o data)[i]
  <2>1. copy[i] = IF offset < i THEN data[i - offset] ELSE buf[i]
    BY <1>0, <1>2, BlockAssumption DEF Memcpy
  <2>2. CASE i <= offset
    BY <1>2, <1>3, <1>4, <1>5, <2>1, <2>2
  <2>3. CASE ~(i <= offset)
    BY <1>2, <1>3, <1>5, <2>1, <2>3
  <2> QED BY <2>2, <2>3
<1>7. First(copy, n) = First(buf, offset) \o data
  BY <1>3, <1>5, <1>6, SeqEqual
<1> QED BY <1>1, <1>7

-----------------------------------------------------------------------------
(***************************************************************************)
(* The streaming state s holds the message m.                              *)
(***************************************************************************)
Holds(s, m) ==
  /\ s \in [block_state : Seq(Byte), buf : [1 .. Block -> Byte], total_len : Nat]
  /\ m \in Seq(Byte)
  /\ s.total_len = Len(m)
  /\ Whole(Len(s.block_state))
  /\ m = s.block_state \o First(s.buf, Kept(Len(m)))

\* The lengths of a message and of what is held of it agree.
LEMMA HeldLengths ==
  ASSUME NEW s, NEW m, Holds(s, m)
  PROVE  /\ Len(m) \in Nat /\ Len(s.block_state) \in Nat /\ Kept(Len(m)) \in 0 .. Block
         /\ Len(m) = Len(s.block_state) + Kept(Len(m))
         /\ First(s.buf, Kept(Len(m))) \in Seq(Byte)
<1>1. Len(m) \in Nat /\ Len(s.block_state) \in Nat
  BY LenProperties DEF Holds
<1>2. Kept(Len(m)) \in 0 .. Block
  BY <1>1, KeptBounds
<1>3. /\ First(s.buf, Kept(Len(m))) \in Seq(Byte)
      /\ Len(First(s.buf, Kept(Len(m)))) = Kept(Len(m))
  BY <1>2, BufferIsSeq, FrontAndRest DEF Holds
<1> QED BY <1>1, <1>2, <1>3, ConcatProperties DEF Holds

\* The bytes kept grow with the data while these fit the buffer.
LEMMA KeptGrows ==
  ASSUME NEW b \in Nat, NEW k \in Nat, NEW d \in Nat, Whole(b), Kept(b + k) = k, k + d <= Block
  PROVE  Kept(b + k + d) = k + d
<1>1. b + k + d = b + (k + d)
  OBVIOUS
<1>2. CASE k + d # 0
  <2>1. k + d \in 1 .. Block
    BY <1>2, BlockAssumption
  <2> QED BY <1>1, <2>1, KeptAfterWhole
<1>3. CASE k + d = 0
  <2>1. b + k + d = b + k /\ k + d = k
    BY <1>3
  <2> QED BY <2>1
<1> QED BY <1>2, <1>3

Associates(a, b, c) == (a \o b) \o c = a \o (b \o c)

\* Byte strings are put together in any grouping.
LEMMA BytesAssociate ==
  ASSUME NEW a \in Seq(Byte), NEW b \in Seq(Byte), NEW c \in Seq(Byte)
  PROVE  Associates(a, b, c)
<1> DEFINE S == Byte
<1>1. a \in Seq(S) /\ b \in Seq(S) /\ c \in Seq(S)
  OBVIOUS
<1> HIDE DEF S
<1>2. (a \o b) \o c = a \o (b \o c)
  BY ONLY <1>1, ConcatAssociative
<1> QED BY <1>2 DEF Associates

\* Copying behind what is buffered appends to it.
LEMMA BufferGrows ==
  ASSUME NEW bs \in Seq(Byte), NEW buf \in [1 .. Block -> Byte], NEW data \in Seq(Byte),
         NEW k \in 0 .. Block, k + Len(data) <= Block
  PROVE  (bs \o First(buf, k)) \o data = bs \o First(Memcpy(buf, k, data), k + Len(data))
<1>1. First(buf, k) \in Seq(Byte)
  BY BufferIsSeq, FrontAndRest
<1>2. Associates(bs, First(buf, k), data)
  BY <1>1, BytesAssociate
<1> QED BY <1>2, MemcpyAppends DEF Associates

\* Data that fits the buffer is held after it has been filled in.
LEMMA FillKeeps ==
  ASSUME NEW s, NEW m, NEW data \in Seq(Byte), Holds(s, m),
         Len(data) <= Block - Kept(Len(m))
  PROVE  Holds(Fill(s, data), m \o data)
<1>1. /\ Len(m) \in Nat /\ Len(s.block_state) \in Nat /\ Kept(Len(m)) \in 0 .. Block
      /\ Len(m) = Len(s.block_state) + Kept(Len(m))
      /\ Len(data) \in Nat
  BY HeldLengths, LenProperties
<1>2. /\ s.buf \in [1 .. Block -> Byte] /\ s.block_state \in Seq(Byte) /\ s.total_len = Len(m)
      /\ m \in Seq(Byte) /\ Whole(Len(s.block_state))
      /\ m = s.block_state \o First(s.buf, Kept(Len(m)))
  BY DEF Holds
<1>3. m \o data \in Seq(Byte) /\ Len(m \o data) = Len(m) + Len(data)
  BY <1>2, ConcatProperties
<1>4. Kept(Len(m)) + Len(data) <= Block
  <2>1. ASSUME NEW k \in 0 .. Block, NEW d \in Nat, d <= Block - k
        PROVE  k + d <= Block
    BY <2>1, BlockAssumption
  <2> QED BY <1>1, <2>1
<1>5. Kept(Len(m) + Len(data)) = Kept(Len(m)) + Len(data)
  <2>1. /\ Kept(Len(m)) \in Nat
        /\ Kept(Len(s.block_state) + Kept(Len(m))) = Kept(Len(m))
    BY <1>1, BlockAssumption
  <2>2. Kept((Len(s.block_state) + Kept(Len(m))) + Len(data)) = Kept(Len(m)) + Len(data)
    BY <1>1, <1>2, <1>4, <2>1, KeptGrows
  <2> QED BY <1>1, <2>2
<1>6. m \o data = s.block_state \o First(Memcpy(s.buf, Kept(Len(m)), data), Kept(Len(m)) + Len(data))
  <2>1. (s.block_state \o First(s.buf, Kept(Len(m)))) \o data
          = s.block_state \o First(Memcpy(s.buf, Kept(Len(m)), data), Kept(Len(m)) + Len(data))
    BY <1>1, <1>2, <1>4, BufferGrows
  <2> QED BY <1>2, <2>1
<1>7. Memcpy(s.buf, Kept(Len(m)), data) \in [1 .. Block -> Byte]
  BY <1>1, <1>2, <1>4, MemcpyAppends
<1>8. Fill(s, data) = [block_state |-> s.block_state, buf |-> Memcpy(s.buf, Kept(Len(m)), data),
                       total_len |-> Len(m) + Len(data)]
  BY <1>2 DEF Fill
<1>9. Len(m) + Len(data) \in Nat
  BY <1>1
<1> QED BY <1>2, <1>3, <1>5, <1>6, <1>7, <1>8, <1>9 DEF Holds

\* Four sequences can be grouped by the two in the middle.
Regroups(a, b, c, d) ==
  /\ a \o (b \o c) \in Seq(Byte) /\ Len(a \o (b \o c)) = Len(a) + (Len(b) + Len(c))
  /\ (a \o b) \o (c \o d) = (a \o (b \o c)) \o d

\* Concatenation of four parts, grouped in two ways.
LEMMA FourParts == \A a, b, c, d \in Seq(Byte) : Regroups(a, b, c, d)
<1> TAKE a, b, c, d \in Seq(Byte)
<1> DEFINE bc == b \o c
           cd == c \o d
           abc == a \o bc
<1>1. bc \in Seq(Byte) /\ Len(bc) = Len(b) + Len(c) /\ cd \in Seq(Byte)
  BY ConcatProperties
<1>2. Associates(b, c, d)
  BY BytesAssociate
<1>3. bc \o d = b \o cd
  BY <1>2 DEF Associates
<1> HIDE DEF bc, cd
<1>4. abc \in Seq(Byte) /\ Len(abc) = Len(a) + Len(bc)
  BY <1>1, ConcatProperties
<1>5. Associates(a, b, cd) /\ Associates(a, bc, d)
  BY <1>1, BytesAssociate
<1>6. (a \o b) \o cd = abc \o d
  BY <1>3, <1>5 DEF Associates
<1> HIDE DEF abc
<1>7. abc \in Seq(Byte) /\ Len(abc) = Len(a) + (Len(b) + Len(c))
  BY <1>1, <1>4
<1> QED BY <1>6, <1>7 DEF Regroups, bc, cd, abc

\* After whole blocks, at most a block is kept back.
KeepsLast(bs, held, front, rest) ==
  /\ Whole(Len(bs \o (held \o front)))
  /\ Kept(Len((bs \o held) \o (front \o rest))) = Len(rest)

\* What is left over after whole blocks is what is kept.
LEMMA WholeParts ==
  \A bs, held, front, rest \in Seq(Byte) :
    (Whole(Len(bs)) /\ Whole(Len(held)) /\ Whole(Len(front)) /\ Len(rest) \in 1 .. Block)
    => KeepsLast(bs, held, front, rest)
<1> TAKE bs, held, front, rest \in Seq(Byte)
<1> HAVE Whole(Len(bs)) /\ Whole(Len(held)) /\ Whole(Len(front)) /\ Len(rest) \in 1 .. Block
<1> DEFINE new == bs \o (held \o front)
<1>1. /\ new \in Seq(Byte) /\ Len(new) = Len(bs) + (Len(held) + Len(front))
      /\ (bs \o held) \o (front \o rest) = new \o rest
  <2>1. Regroups(bs, held, front, rest)
    BY FourParts
  <2> QED BY <2>1 DEF Regroups
<1>2. Len(bs) \in Nat /\ Len(held) \in Nat /\ Len(front) \in Nat
  BY LenProperties
<1>3. Whole(Len(held) + Len(front)) /\ Len(held) + Len(front) \in Nat
  BY <1>2, WholeSum
<1>4. Whole(Len(new)) /\ Len(new) \in Nat
  BY <1>1, <1>2, <1>3, WholeSum
<1> HIDE DEF new
<1>5. Len(new \o rest) = Len(new) + Len(rest)
  BY <1>1, ConcatProperties
<1>6. Kept(Len(new) + Len(rest)) = Len(rest)
  BY <1>4, KeptAfterWhole
<1> QED BY <1>1, <1>4, <1>5, <1>6 DEF new, KeepsLast

\* A full buffer is compressed, an empty one is not.
Buffered(s) == IF Kept(s.total_len) = 0 THEN << >> ELSE s.buf

\* A message held with a full or an empty buffer is whole blocks.
LEMMA BufferedIsHeld ==
  ASSUME NEW s, NEW m, Holds(s, m), Kept(Len(m)) \in {0, Block}
  PROVE  /\ Buffered(s) \in Seq(Byte) /\ Whole(Len(Buffered(s)))
         /\ m = s.block_state \o Buffered(s)
<1>1. s.buf \in Seq(Byte) /\ Len(s.buf) = Block
  BY BufferIsSeq DEF Holds
<1>2. s.total_len = Len(m) /\ m = s.block_state \o First(s.buf, Kept(Len(m)))
  BY DEF Holds
<1>3. CASE Kept(Len(m)) = 0
  <2>1. First(s.buf, 0) = << >>
    BY SubSeqEmpty DEF First
  <2>2. << >> \in Seq(Byte) /\ Len(<< >>) = 0
    BY EmptySeq
  <2>3. Buffered(s) = << >>
    BY <1>2, <1>3 DEF Buffered
  <2> QED BY <1>2, <1>3, <2>1, <2>2, <2>3, WholeBlock
<1>4. CASE Kept(Len(m)) = Block
  <2>1. First(s.buf, Block) = s.buf
    BY <1>1, SubSeqFull DEF First
  <2>2. Kept(Len(m)) # 0
    BY <1>4, BlockAssumption
  <2>3. Buffered(s) = s.buf
    BY <1>2, <2>2 DEF Buffered
  <2> QED BY <1>1, <1>2, <1>4, <2>1, <2>3, WholeBlock
<1> QED BY <1>3, <1>4

\* The whole blocks of data and the rest.
Blocks(data) == First(data, Len(data) - Kept(Len(data)))
LastPart(data) == Rest(data, Len(data) - Kept(Len(data)))

\* Data is its whole blocks and the last part, which is not empty.
LEMMA BlocksAndLast ==
  ASSUME NEW data \in Seq(Byte)
  PROVE  /\ Blocks(data) \in Seq(Byte) /\ LastPart(data) \in Seq(Byte)
         /\ Blocks(data) \o LastPart(data) = data
         /\ Len(Blocks(data)) = Len(data) - Kept(Len(data)) /\ Whole(Len(Blocks(data)))
         /\ Len(LastPart(data)) = Kept(Len(data)) /\ Len(LastPart(data)) \in 0 .. Block
         /\ Len(data) > 0 => Len(LastPart(data)) \in 1 .. Block
<1> DEFINE n == Len(data)
           k == Kept(n)
<1>1. n \in Nat
  BY LenProperties
<1>2. k \in 0 .. Block /\ k <= n /\ (k = 0 <=> n = 0) /\ Whole(n - k)
  BY <1>1, KeptBounds
<1> HIDE DEF k
<1>3. n - k \in 0 .. n /\ n - (n - k) = k
  BY <1>1, <1>2, BlockAssumption
<1>4. /\ First(data, n - k) \in Seq(Byte) /\ Len(First(data, n - k)) = n - k
      /\ Rest(data, n - k) \in Seq(Byte) /\ Len(Rest(data, n - k)) = n - (n - k)
      /\ First(data, n - k) \o Rest(data, n - k) = data
  BY <1>3, FrontAndRest
<1>5. n > 0 => k \in 1 .. Block
  BY <1>1, <1>2, BlockAssumption
<1> QED BY <1>2, <1>3, <1>4, <1>5 DEF k, Blocks, LastPart

\* Compressing the buffer and the whole blocks of the data keeps the rest.
LEMMA AbsorbKeeps ==
  ASSUME NEW s, NEW m, NEW data \in Seq(Byte), Holds(s, m),
         Kept(Len(m)) \in {0, Block}, Len(data) > 0
  PROVE  Holds(Absorb(s, data), m \o data)
<1> DEFINE bs == s.block_state \o (Buffered(s) \o Blocks(data))
           copy == Memcpy(s.buf, 0, LastPart(data))
<1>1. /\ s.buf \in [1 .. Block -> Byte] /\ s.block_state \in Seq(Byte) /\ s.total_len = Len(m)
      /\ m \in Seq(Byte) /\ Whole(Len(s.block_state))
  BY DEF Holds
<1>2. /\ Blocks(data) \in Seq(Byte) /\ LastPart(data) \in Seq(Byte) /\ Whole(Len(Blocks(data)))
      /\ Blocks(data) \o LastPart(data) = data /\ Len(LastPart(data)) \in 1 .. Block
  BY BlocksAndLast
<1>3. /\ Buffered(s) \in Seq(Byte) /\ Whole(Len(Buffered(s)))
      /\ m = s.block_state \o Buffered(s)
  BY BufferedIsHeld
<1>4. /\ bs \in Seq(Byte) /\ Whole(Len(bs))
      /\ Kept(Len(m \o data)) = Len(LastPart(data)) /\ m \o data = bs \o LastPart(data)
  <2>1. Regroups(s.block_state, Buffered(s), Blocks(data), LastPart(data))
    BY <1>1, <1>2, <1>3, FourParts
  <2>2. KeepsLast(s.block_state, Buffered(s), Blocks(data), LastPart(data))
    BY <1>1, <1>2, <1>3, WholeParts
  <2> QED BY <1>2, <1>3, <2>1, <2>2 DEF Regroups, KeepsLast
<1>5. copy \in [1 .. Block -> Byte] /\ First(copy, Len(LastPart(data))) = LastPart(data)
  <2>1. 0 \in 0 .. Block /\ 0 + Len(LastPart(data)) <= Block /\ 0 + Len(LastPart(data)) = Len(LastPart(data))
    BY <1>2, BlockAssumption
  <2>2. /\ copy \in [1 .. Block -> Byte]
        /\ First(copy, 0 + Len(LastPart(data))) = First(s.buf, 0) \o LastPart(data)
    BY <1>1, <1>2, <2>1, MemcpyAppends
  <2>3. First(s.buf, 0) = << >>
    BY SubSeqEmpty DEF First
  <2>4. << >> \o LastPart(data) = LastPart(data)
    BY <1>2, ConcatEmptySeq
  <2> QED BY <2>1, <2>2, <2>3, <2>4
<1>6. m \o data \in Seq(Byte) /\ Len(m \o data) = Len(m) + Len(data) /\ Len(m \o data) \in Nat
  BY <1>1, ConcatProperties, LenProperties
<1>7. Absorb(s, data) = [block_state |-> bs, buf |-> copy, total_len |-> Len(m \o data)]
  BY <1>1, <1>6 DEF Absorb, Buffered, Blocks, LastPart
<1> HIDE DEF bs, copy
<1>8. m \o data = bs \o First(copy, Kept(Len(m \o data)))
  BY <1>4, <1>5
<1> QED BY <1>4, <1>5, <1>6, <1>7, <1>8 DEF Holds

\* An update that does not fit fills the buffer up and compresses it.
LEMMA UpdatedKeeps ==
  ASSUME NEW s, NEW m, NEW data \in Seq(Byte), Holds(s, m)
  PROVE  Holds(Updated(s, data), m \o data)
<1> DEFINE diff == Block - Kept(Len(m))
<1>1. /\ Len(m) \in Nat /\ Len(s.block_state) \in Nat /\ Kept(Len(m)) \in 0 .. Block
      /\ Len(m) = Len(s.block_state) + Kept(Len(m))
      /\ Len(data) \in Nat /\ s.total_len = Len(m) /\ m \in Seq(Byte)
  BY HeldLengths, LenProperties DEF Holds
<1>2. diff \in 0 .. Block
  BY <1>1, BlockAssumption
<1>3. CASE Len(data) <= diff
  <2>1. Updated(s, data) = Fill(s, data)
    BY <1>1, <1>3 DEF Updated
  <2> QED BY <1>3, <2>1, FillKeeps
<1>4. CASE ~(Len(data) <= diff) /\ diff = Block
  <2>1. Updated(s, data) = Absorb(s, data)
    BY <1>1, <1>4 DEF Updated
  <2>2. Kept(Len(m)) = 0 /\ Len(data) > 0
    BY <1>1, <1>4, BlockAssumption
  <2> QED BY <2>1, <2>2, AbsorbKeeps
<1>5. CASE ~(Len(data) <= diff) /\ diff # Block
  <2> DEFINE first == First(data, diff)
             rest == Rest(data, diff)
  <2>1. Updated(s, data) = Absorb(Fill(s, first), rest)
    BY <1>1, <1>5 DEF Updated
  <2>2. diff \in 0 .. Len(data) /\ diff < Len(data)
    BY <1>1, <1>2, <1>5, BlockAssumption
  <2>3. /\ first \in Seq(Byte) /\ Len(first) = diff /\ first \o rest = data
        /\ rest \in Seq(Byte) /\ Len(rest) = Len(data) - diff
    <3> HIDE DEF diff
    <3> QED BY <2>2, FrontAndRest
  <2>4. Holds(Fill(s, first), m \o first)
    <3>1. Len(first) <= Block - Kept(Len(m))
      BY <1>2, <2>3
    <3> HIDE DEF first
    <3> QED BY <2>3, <3>1, FillKeeps
  <2>5. Kept(Len(m \o first)) = Block
    <3>1. Len(m \o first) = Len(m) + Len(first)
      BY <1>1, <2>3, ConcatProperties
    <3>2. Len(m) + Len(first) = Len(s.block_state) + Block
      <4>1. \A b \in Nat, k \in 0 .. Block : (b + k) + (Block - k) = b + Block
        BY BlockAssumption
      <4> QED BY <1>1, <2>3, <4>1
    <3>3. Whole(Len(s.block_state))
      BY DEF Holds
    <3>4. Block \in 1 .. Block
      BY BlockAssumption
    <3>5. Kept(Len(s.block_state) + Block) = Block
      BY <1>1, <3>3, <3>4, KeptAfterWhole
    <3> QED BY <3>1, <3>2, <3>5
  <2>6. Len(rest) > 0
    BY <1>1, <1>2, <2>2, <2>3
  <2> HIDE DEF first, rest
  <2>7. Holds(Absorb(Fill(s, first), rest), (m \o first) \o rest)
    BY <2>3, <2>4, <2>5, <2>6, AbsorbKeeps
  <2>8. (m \o first) \o rest = m \o (first \o rest)
    <3>1. m \in Seq(Byte) /\ first \in Seq(Byte) /\ rest \in Seq(Byte)
      BY <1>1, <2>3
    <3>2. Associates(m, first, rest)
      BY <3>1, BytesAssociate
    <3> QED BY <3>2 DEF Associates
  <2> QED BY <2>1, <2>3, <2>7, <2>8
<1> QED BY <1>3, <1>4, <1>5

-----------------------------------------------------------------------------
(***************************************************************************)
(* The padding is the one that the digest promises.                        *)
(***************************************************************************)
Completes(n, k) == Whole(n + 1 + k + LengthBytes)

\* The padding of the code completes the last block.
LEMMA PadZerosCompletes ==
  ASSUME NEW n \in Nat
  PROVE  PadZeros(n) \in 0 .. Block - 1 /\ Completes(n, PadZeros(n))
<1> DEFINE d == n \div Block
           r == n % Block
           v == 2 * Block - (LengthBytes + 1 + r)
           q == v \div Block
           k == v % Block
<1>1. d \in Nat /\ r \in 0 .. Block - 1 /\ n = d * Block + r
  BY Remainder
<1>2. v \in Nat
  <2> HIDE DEF r
  <2> QED BY <1>1, BlockAssumption
<1>3. q \in Nat /\ k \in 0 .. Block - 1 /\ v = q * Block + k
  <2> HIDE DEF v
  <2> QED BY <1>2, Remainder
<1>4. v = 2 * Block - (LengthBytes + 1 + r)
  OBVIOUS
<1>5. PadZeros(n) = k
  BY DEF PadZeros
<1> HIDE DEF d, r, v, q, k
<1>6. (d + 2 - q) * Block = d * Block + 2 * Block - q * Block
  BY <1>1, <1>3, BlockAssumption
<1>7. d * Block \in Int /\ q * Block \in Int /\ (d + 2 - q) * Block \in Int
  BY <1>1, <1>3, Multiples
<1>8. n + 1 + k + LengthBytes = (d + 2 - q) * Block + 0
  BY <1>1, <1>3, <1>4, <1>6, <1>7, BlockAssumption
<1>9. n + 1 + k + LengthBytes \in Nat /\ d + 2 - q \in Int /\ 0 \in 0 .. Block - 1
  BY <1>1, <1>3, BlockAssumption
<1>10. Whole(n + 1 + k + LengthBytes)
  BY <1>8, <1>9, RemainderUnique DEF Whole
<1> QED BY <1>3, <1>5, <1>10 DEF Completes

\* Only one number of zeros below a block does.
LEMMA CompletesOnce ==
  ASSUME NEW n \in Nat, NEW j \in 0 .. Block - 1, NEW k \in 0 .. Block - 1,
         Completes(n, j), Completes(n, k), j <= k
  PROVE  j = k
<1> DEFINE a == n + 1 + j + LengthBytes
<1>1. a \in Nat /\ k - j \in 0 .. Block - 1 /\ k - j \in Nat /\ a + (k - j) = n + 1 + k + LengthBytes
  BY BlockAssumption
<1>2. Whole(a) /\ Whole(a + (k - j))
  BY <1>1 DEF Completes
<1> HIDE DEF a
<1>3. (a + (k - j)) % Block = (k - j) % Block
  BY <1>1, <1>2, AfterWhole
<1>4. (k - j) % Block = 0
  BY <1>2, <1>3 DEF Whole
<1>5. (k - j) % Block = k - j
  <2>1. k - j = 0 * Block + (k - j)
    BY <1>1, BlockAssumption
  <2> QED BY <1>1, <2>1, RemainderUnique
<1>6. k - j = 0
  BY <1>4, <1>5
<1> QED BY <1>6, BlockAssumption

\* So it is the number that the standard asks for.
LEMMA FillingIsPadZeros ==
  ASSUME NEW n \in Nat
  PROVE  Abstract!Filling(n) = PadZeros(n)
<1> DEFINE f == Abstract!Filling(n)
           p == PadZeros(n)
<1>1. p \in 0 .. Block - 1 /\ Completes(n, p)
  BY PadZerosCompletes
<1> HIDE DEF p
<1>2. f = CHOOSE k \in 0 .. Block - 1 : Completes(n, k)
  BY DEF Abstract!Filling, Completes, Whole
<1>3. f \in 0 .. Block - 1 /\ Completes(n, f)
  BY <1>1, <1>2
<1> HIDE DEF f
<1>4. f <= p \/ p <= f
  BY <1>1, <1>3, BlockAssumption
<1>5. f = p
  BY <1>1, <1>3, <1>4, CompletesOnce
<1> QED BY <1>5 DEF f, p

\* The padding of the code is the padding of the standard.
LEMMA PadIsPadding ==
  ASSUME NEW n \in 0 .. MaxTotal + Block
  PROVE  /\ Pad(n) = <<128>> \o Zeros(Abstract!Filling(n)) \o Encoded(8 * n)
         /\ Pad(n) \in Seq(Byte)
         /\ Len(Pad(n)) = 1 + PadZeros(n) + LengthBytes
<1>1. n \in Nat /\ 8 * n \in 0 .. 8 * (MaxTotal + Block)
  BY BlockAssumption, ByteAssumption
<1>2. PadZeros(n) \in Nat
  BY <1>1, PadZerosCompletes
<1>3. Zeros(PadZeros(n)) \in Seq(Byte) /\ Len(Zeros(PadZeros(n))) = PadZeros(n)
  <2>1. 0 \in Byte
    BY ByteAssumption
  <2> QED BY <1>2, <2>1 DEF Zeros
<1>4. Encoded(8 * n) \in Seq(Byte) /\ Len(Encoded(8 * n)) = LengthBytes
  <2>1. Encoded(8 * n) \in [1 .. LengthBytes -> Byte]
    BY <1>1, ByteAssumption
  <2> QED BY <2>1, BlockAssumption
<1>5. <<128>> \in Seq(Byte) /\ Len(<<128>>) = 1
  BY ByteAssumption
<1>6. /\ <<128>> \o Zeros(PadZeros(n)) \in Seq(Byte)
      /\ Len(<<128>> \o Zeros(PadZeros(n))) = 1 + PadZeros(n)
  BY <1>3, <1>5, ConcatProperties
<1>7. Pad(n) \in Seq(Byte) /\ Len(Pad(n)) = 1 + PadZeros(n) + LengthBytes
  <2> DEFINE a == <<128>> \o Zeros(PadZeros(n))
             b == Encoded(8 * n)
  <2>1. a \o b \in Seq(Byte) /\ Len(a \o b) = Len(a) + Len(b)
    <3> HIDE DEF a, b
    <3> QED BY <1>4, <1>6, ConcatProperties DEF a, b
  <2> QED BY <1>4, <1>6, <2>1 DEF Pad
<1> QED BY <1>1, <1>7, FillingIsPadZeros DEF Pad

\* Padding the rest of the input pads all of it.
LEMMA UpdateLastPads ==
  ASSUME NEW s \in Seq(Byte), NEW input \in Seq(Byte), Whole(Len(s)),
         Len(s) + Len(input) <= MaxTotal + Block
  PROVE  UpdateLast(s, Len(s), input) = Abstract!Padded(s \o input)
<1> DEFINE blocks == (Len(input) \div Block) * Block
           n == Len(s) + Len(input)
           front == First(input, blocks)
           rest == Rest(input, blocks)
           tmp == rest \o Pad(n)
<1>1. Len(s) \in Nat /\ Len(input) \in Nat
  BY LenProperties
<1>2. n \in 0 .. MaxTotal + Block /\ n \in Nat
  BY <1>1, BlockAssumption, ByteAssumption
<1>3. blocks \in 0 .. Len(input) /\ Whole(blocks)
  <2> DEFINE q == Len(input) \div Block
             r == Len(input) % Block
  <2>1. q \in Nat /\ r \in 0 .. Block - 1 /\ Len(input) = q * Block + r /\ q * Block \in Nat
    BY <1>1, Remainder
  <2> HIDE DEF q, r
  <2>2. q * Block = q * Block + 0 /\ q * Block <= Len(input)
    BY <2>1, BlockAssumption
  <2>3. Whole(q * Block)
    <3>1. 0 \in 0 .. Block - 1 /\ q \in Int
      BY <2>1, BlockAssumption
    <3> QED BY <2>1, <2>2, <3>1, RemainderUnique DEF Whole
  <2> QED BY <1>1, <2>1, <2>2, <2>3 DEF q
<1>4. /\ front \in Seq(Byte) /\ Len(front) = blocks /\ rest \in Seq(Byte)
      /\ Len(rest) = Len(input) - blocks /\ front \o rest = input
  <2> HIDE DEF blocks
  <2> QED BY <1>3, FrontAndRest
<1>5. /\ Pad(n) = <<128>> \o Zeros(Abstract!Filling(n)) \o Encoded(8 * n)
      /\ Pad(n) \in Seq(Byte) /\ Len(Pad(n)) = 1 + PadZeros(n) + LengthBytes
  BY <1>2, PadIsPadding
<1>6. PadZeros(n) \in Nat /\ Whole(n + 1 + PadZeros(n) + LengthBytes)
  BY <1>2, PadZerosCompletes DEF Completes
<1>7. tmp \in Seq(Byte) /\ Len(tmp) = (Len(input) - blocks) + (1 + PadZeros(n) + LengthBytes)
  <2> HIDE DEF n, rest
  <2> DEFINE pad == Pad(n)
             S == Byte
  <2>1. rest \in Seq(S) /\ pad \in Seq(S)
    BY <1>4, <1>5
  <2> HIDE DEF pad, S
  <2>2. rest \o pad \in Seq(S) /\ Len(rest \o pad) = Len(rest) + Len(pad)
    BY ONLY <2>1, ConcatProperties
  <2> QED BY <1>4, <1>5, <2>2 DEF pad, S
<1>8. Len(tmp) \in Nat
  BY <1>7, LenProperties
<1>9. Whole(Len(tmp))
  <2>1. Whole(Len(s) + blocks) /\ Len(s) + blocks \in Nat
    <3> HIDE DEF blocks
    <3>1. blocks \in Nat
      BY <1>1, <1>3
    <3> QED BY <1>1, <1>3, <3>1, WholeSum
  <2>2. n + 1 + PadZeros(n) + LengthBytes = (Len(s) + blocks) + Len(tmp)
    <3>1. n = Len(s) + Len(input)
      OBVIOUS
    <3> DEFINE ls == Len(s)
               li == Len(input)
               lt == Len(tmp)
               z == PadZeros(n)
    <3>2. /\ ls \in Int /\ li \in Int /\ z \in Int /\ LengthBytes \in Int /\ blocks \in Int
          /\ n = ls + li /\ lt = (li - blocks) + (1 + z + LengthBytes)
      BY <1>1, <1>3, <1>6, <1>7, <3>1, BlockAssumption
    <3> HIDE DEF n, blocks, tmp, ls, li, lt, z
    <3>3. n + 1 + z + LengthBytes = (ls + blocks) + lt
      BY ONLY <3>2
    <3> QED BY <3>3 DEF ls, lt, z
  <2>3. (Len(s) + blocks + Len(tmp)) % Block = Len(tmp) % Block
    <3> HIDE DEF blocks, tmp
    <3> QED BY <1>8, <2>1, AfterWhole
  <2> HIDE DEF n, blocks, tmp
  <2> QED BY <1>6, <2>2, <2>3 DEF Whole
<1>10. First(tmp, (Len(tmp) \div Block) * Block) = tmp
  <2> HIDE DEF tmp
  <2>1. (Len(tmp) \div Block) * Block = Len(tmp)
    <3>1. Len(tmp) = (Len(tmp) \div Block) * Block + (Len(tmp) % Block) /\ Len(tmp) % Block = 0
          /\ (Len(tmp) \div Block) * Block \in Nat
      BY <1>8, <1>9, Remainder DEF Whole
    <3> QED BY <3>1
  <2> QED BY <1>7, <2>1, SubSeqFull DEF First
<1>11. UpdateLast(s, Len(s), input) = (s \o front) \o tmp
  BY <1>10 DEF UpdateLast
<1>12. (s \o front) \o (rest \o Pad(n)) = (s \o (front \o rest)) \o Pad(n)
  <2>1. Regroups(s, front, rest, Pad(n))
    <3> HIDE DEF front, rest, n
    <3> QED BY <1>4, <1>5, FourParts
  <2> QED BY <2>1 DEF Regroups
<1>13. Len(s \o input) = n
  BY ConcatProperties
<1>14. Abstract!Padded(s \o input) = (s \o input) \o Pad(n)
  <2> HIDE DEF n
  <2> QED BY <1>5, <1>13 DEF Abstract!Padded, Abstract!Zeros, Zeros
<1> QED BY <1>4, <1>11, <1>12, <1>14

\* The blocks that finish compresses are the padded message.
LEMMA FinishedIsPadded ==
  ASSUME NEW s, NEW m, Holds(s, m), Len(m) <= MaxTotal
  PROVE  Finished(s) = Abstract!Padded(m)
<1> DEFINE kept == First(s.buf, Kept(Len(m)))
<1>1. /\ Len(m) \in Nat /\ Len(s.block_state) \in Nat /\ Kept(Len(m)) \in 0 .. Block
      /\ Len(m) = Len(s.block_state) + Kept(Len(m)) /\ kept \in Seq(Byte)
  BY HeldLengths
<1>2. /\ s.buf \in [1 .. Block -> Byte] /\ s.block_state \in Seq(Byte) /\ s.total_len = Len(m)
      /\ Whole(Len(s.block_state)) /\ m = s.block_state \o kept
  BY DEF Holds
<1>3. Len(kept) = Kept(Len(m))
  BY <1>1, <1>2, BufferIsSeq, FrontAndRest
<1>4. /\ Len(m) - Kept(Len(m)) = Len(s.block_state)
      /\ Len(s.block_state) + Len(kept) <= MaxTotal + Block
  BY <1>1, <1>3, BlockAssumption, ByteAssumption
<1>5. Finished(s) = UpdateLast(s.block_state, Len(s.block_state), kept)
  BY <1>2, <1>4 DEF Finished
<1> HIDE DEF kept
<1>6. UpdateLast(s.block_state, Len(s.block_state), kept) = Abstract!Padded(s.block_state \o kept)
  BY <1>1, <1>2, <1>4, UpdateLastPads
<1> QED BY <1>2, <1>5, <1>6

-----------------------------------------------------------------------------
(***************************************************************************)
(* The invariant: the state holds the message.                             *)
(***************************************************************************)
HashIInv ==
  /\ allocated \in BOOLEAN
  /\ Holds(state, message)
  /\ Len(message) <= MaxTotal

\* A new state holds the empty message.
LEMMA NewStateHolds == Holds(NewState, << >>) /\ Len(<< >>) <= MaxTotal
<1>1. << >> \in Seq(Byte) /\ Len(<< >>) = 0
  BY EmptySeq
<1>2. Zeros(Block) \in [1 .. Block -> Byte]
  BY ByteAssumption DEF Zeros
<1>3. Kept(0) = 0
  <2>1. 0 \in Nat
    OBVIOUS
  <2> QED BY <2>1, KeptBounds
<1>4. First(Zeros(Block), 0) = << >>
  BY SubSeqEmpty DEF First
<1>5. << >> \o << >> = << >>
  BY <1>1, ConcatEmptySeq
<1>6. << >> = << >> \o First(Zeros(Block), Kept(0))
  BY <1>3, <1>4, <1>5
<1>7. /\ NewState.block_state = << >> /\ NewState.buf = Zeros(Block) /\ NewState.total_len = 0
      /\ NewState \in [block_state : Seq(Byte), buf : [1 .. Block -> Byte], total_len : Nat]
  BY <1>1, <1>2 DEF NewState
<1>8. 0 <= MaxTotal
  BY ByteAssumption
<1> QED BY <1>1, <1>6, <1>7, <1>8, WholeBlock DEF Holds

\* What update leaves of the state.
LEMMA UpdateKeeps ==
  ASSUME HashIInv, NEW data \in Inputs, Update(data)
  PROVE  HashIInv'
<1>1. data \in Seq(Byte)
  BY ByteAssumption
<1>2. Holds(state, message) /\ message \in Seq(Byte) /\ allocated \in BOOLEAN
  BY DEF HashIInv, Holds
<1>3. state' = Updated(state, data) /\ message' = message \o data /\ allocated' = allocated
  BY DEF Update
<1>4. Holds(Updated(state, data), message \o data)
  BY <1>1, <1>2, UpdatedKeeps
<1>5. Len(message \o data) <= MaxTotal
  <2>1. Len(message \o data) = Len(message) + Len(data)
    BY <1>1, <1>2, ConcatProperties
  <2>2. Len(message) + Len(data) <= MaxTotal
    BY DEF Update
  <2> QED BY <2>1, <2>2
<1> QED BY <1>2, <1>3, <1>4, <1>5 DEF HashIInv, Holds

\* Every call keeps the state a state of the message so far.
LEMMA Inductive == HashIInv /\ [HashNext]_hashVars => HashIInv'
<1> SUFFICES ASSUME HashIInv, [HashNext]_hashVars
             PROVE  HashIInv'
  OBVIOUS
<1>1. CASE Create
  BY <1>1, NewStateHolds DEF HashIInv, Create, Holds
<1>2. ASSUME NEW data \in Inputs, Update(data)
      PROVE  HashIInv'
  BY <1>2, UpdateKeeps
<1>3. CASE Finish
  BY <1>3 DEF HashIInv, Finish, Holds
<1>4. CASE Free
  BY <1>4 DEF HashIInv, Free, Holds
<1>5. CASE UNCHANGED hashVars
  BY <1>5 DEF HashIInv, hashVars, Holds
<1> QED BY <1>1, <1>2, <1>3, <1>4, <1>5 DEF HashNext

\* Every reachable state holds the bytes of its message.
THEOREM HashInvariance == HashSpec => []HashIInv
<1>1. HashInit => HashIInv
  BY NewStateHolds DEF HashInit, HashIInv, Holds
<1>2. HashIInv /\ [HashNext]_hashVars => HashIInv'
  BY Inductive
<1> QED BY <1>1, <1>2, PTL DEF HashSpec

\* The buffer has a block of bytes, and the length is that of the message.
THEOREM HashTypeCorrect == HashSpec => []HashTypeOK
<1>1. HashIInv => HashTypeOK
  BY DEF HashIInv, HashTypeOK, Holds
<1> QED BY <1>1, HashInvariance, PTL

\* However a message is cut into updates, no byte is lost, doubled or
\* misplaced at the edge of a block.
THEOREM NoByteLost == HashSpec => []NothingLost
<1>1. HashIInv => NothingLost
  BY DEF HashIInv, NothingLost, Holds, Whole
<1> QED BY <1>1, HashInvariance, PTL

-----------------------------------------------------------------------------
(***************************************************************************)
(* The refinement.                                                         *)
(***************************************************************************)
\* An update extends the abstract message.
LEMMA UpdateExtends ==
  ASSUME HashIInv, NEW data \in Inputs, Update(data)
  PROVE  Abstract!Extend
<1>1. data \in Seq(Byte) /\ message \in Seq(Byte)
  BY ByteAssumption DEF HashIInv, Holds
<1>2. message' = message \o data /\ digest' = digest
  BY DEF Update
<1>3. /\ message \o data \in Seq(Byte)
      /\ Len(message \o data) = Len(message) + Len(data)
      /\ \A i \in 1 .. Len(message) + Len(data) : (message \o data)[i] =
           IF i <= Len(message) THEN message[i] ELSE data[i - Len(message)]
  BY <1>1, ConcatProperties
<1>4. Len(message) \in Nat /\ Len(data) \in Nat
  BY <1>1, LenProperties
<1>5. SubSeq(message \o data, 1, Len(message)) = message
  <2> DEFINE all == message \o data
             front == SubSeq(all, 1, Len(message))
  <2>1. all \in Seq(Byte) /\ Len(message) \in 0 .. Len(all)
    BY <1>3, <1>4
  <2>2. \A i \in 1 .. Len(message) : all[i] = message[i]
    BY <1>3, <1>4
  <2>3. \A i \in 1 .. Len(message) : all[i] \in Byte
    BY <1>1, <2>2, ElementOfSeq
  <2> HIDE DEF all
  <2>4. /\ front \in Seq(Byte) /\ Len(front) = Len(message)
        /\ \A i \in 1 .. Len(message) : front[i] = all[i]
    BY <1>4, <2>3, SubSeqProperties
  <2> HIDE DEF front
  <2>5. front = message
    BY <1>1, <2>2, <2>4, SeqEqual
  <2> QED BY <2>5 DEF front, all
<1> QED BY <1>2, <1>3, <1>4, <1>5 DEF Abstract!Extend

\* Streaming implements the digest: finish always writes the digest of all
\* the bytes since create.
THEOREM Implementation == HashSpec => ImplementsDigest
<1>1. HashInit => Abstract!Init
  BY DEF HashInit, Abstract!Init
<1>2. HashIInv /\ [HashNext]_hashVars => [Abstract!Next]_(Abstract!hvars)
  <2> SUFFICES ASSUME HashIInv, [HashNext]_hashVars
               PROVE  [Abstract!Next]_(Abstract!hvars)
    OBVIOUS
  <2>1. CASE Create
    BY <2>1 DEF Create, Abstract!Next, Abstract!Start
  <2>2. ASSUME NEW data \in Inputs, Update(data)
        PROVE  Abstract!Next
    BY <2>2, UpdateExtends DEF Abstract!Next
  <2>3. CASE Finish
    <3>1. Finished(state) = Abstract!Padded(message)
      BY FinishedIsPadded DEF HashIInv
    <3> QED BY <2>3, <3>1 DEF Finish, Abstract!Next, Abstract!Digest
  <2>4. CASE Free
    BY <2>4 DEF Free, Abstract!hvars
  <2>5. CASE UNCHANGED hashVars
    BY <2>5 DEF hashVars, Abstract!hvars
  <2> QED BY <2>1, <2>2, <2>3, <2>4, <2>5 DEF HashNext
<1> QED BY <1>1, <1>2, HashInvariance, PTL DEF HashSpec, ImplementsDigest, Abstract!Spec

\* The hashes that are not streamed pad like the digest.
THEOREM OneShots == HashSpec => []OneShotsExact
<1>1. HashIInv => OneShotsExact
  <2> SUFFICES ASSUME HashIInv
               PROVE  OneShotsExact
    OBVIOUS
  <2>1. /\ message \in Seq(Byte) /\ Len(message) \in Nat /\ Len(message) <= MaxTotal
        /\ state.buf \in Seq(Byte) /\ Len(state.buf) = Block
    BY BufferIsSeq, LenProperties DEF HashIInv, Holds
  <2>2. Hashed(message) = Abstract!Padded(message)
    <3>1. /\ Blocks(message) \in Seq(Byte) /\ LastPart(message) \in Seq(Byte)
          /\ Blocks(message) \o LastPart(message) = message
          /\ Len(Blocks(message)) = Len(message) - Kept(Len(message))
          /\ Whole(Len(Blocks(message)))
          /\ Len(LastPart(message)) = Kept(Len(message)) /\ Len(LastPart(message)) \in 0 .. Block
      BY <2>1, BlocksAndLast
    <3>2. Len(Blocks(message)) + Len(LastPart(message)) <= MaxTotal + Block
      BY <2>1, <3>1, BlockAssumption, ByteAssumption
    <3>3. UpdateLast(Blocks(message), Len(Blocks(message)), LastPart(message))
            = Abstract!Padded(Blocks(message) \o LastPart(message))
      BY <3>1, <3>2, UpdateLastPads
    <3> QED BY <3>1, <3>3 DEF Hashed, Blocks, LastPart
  <2>3. HashAfter(state.buf, message) = Abstract!Padded(state.buf \o message)
    <3>1. CASE Len(message) = 0
      <4>1. message = << >>
        BY <2>1, <3>1, EmptySeq
      <4>2. state.buf \o << >> = state.buf /\ << >> \o state.buf = state.buf
        BY <2>1, ConcatEmptySeq
      <4>3. << >> \in Seq(Byte) /\ Len(<< >>) = 0 /\ Whole(0)
        BY EmptySeq, WholeBlock
      <4>4. Len(<< >>) + Len(state.buf) <= MaxTotal + Block
        BY <2>1, <4>3, BlockAssumption, ByteAssumption
      <4>5. UpdateLast(<< >>, Len(<< >>), state.buf) = Abstract!Padded(<< >> \o state.buf)
        BY <2>1, <4>3, <4>4, UpdateLastPads
      <4> QED BY <3>1, <4>1, <4>2, <4>3, <4>5 DEF HashAfter
    <3>2. CASE Len(message) # 0
      <4>1. Len(state.buf) + Len(message) <= MaxTotal + Block
        BY <2>1, BlockAssumption, ByteAssumption
      <4>2. UpdateLast(state.buf, Len(state.buf), message) = Abstract!Padded(state.buf \o message)
        BY <2>1, <4>1, WholeBlock, UpdateLastPads
      <4> QED BY <2>1, <3>2, <4>2 DEF HashAfter
    <3> QED BY <3>1, <3>2
  <2> QED BY <2>2, <2>3 DEF OneShotsExact
<1> QED BY <1>1, HashInvariance, PTL
=============================================================================
