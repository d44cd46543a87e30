------------------------------ MODULE ElGamal -------------------------------
(***************************************************************************)
(* Exponential ElGamal in the subgroup of order Q: an element g^e of it is *)
(* represented by e, so that multiplication of elements is addition of     *)
(* exponents modulo Q.  The public key of secret key s is then s itself;   *)
(* what cannot be computed from it in the real group stays with the        *)
(* parameters of the operators.                                            *)
(***************************************************************************)
EXTENDS Integers, SequencesExt

CONSTANT Q   \* the order of the subgroup

ASSUME QAssumption == Q \in Nat \ {0, 1}

ElementsModQ == 0 .. Q - 1
ElementsModP == 0 .. Q - 1    \* of the subgroup

-----------------------------------------------------------------------------
(***************************************************************************)
(* Arithmetic of exponents (ModQ) and of elements (ModP).                  *)
(***************************************************************************)
PlusQ(a, b) == (a + b) % Q
MinusQ(a) == IF a = 0 THEN a ELSE Q - a
TimesQ(a, b) == (a * b) % Q

G == 1
PowP(h, e) == (h * e) % Q
Times(a, b) == (a + b) % Q
Div(a, b) == (a - b) % Q
MultInv(a) == Div(0, a)

-----------------------------------------------------------------------------
(***************************************************************************)
(* Int.encrypt throws for a zero nonce and for a negative message.         *)
(***************************************************************************)
EncryptThrows(message, nonce) == nonce = 0 \/ message < 0

Encrypt(message, publicKey, nonce) ==
  [pad  |-> PowP(G, nonce),
   data |-> PowP(publicKey, PlusQ(nonce, message % Q))]

(***************************************************************************)
(* Homomorphic addition.                                                   *)
(***************************************************************************)
\* A mutant: the pads are not multiplied.
CiphertextPlusData(x, y) == [pad |-> x.pad, data |-> Times(x.data, y.data)]

CiphertextPlus(x, y) == [pad |-> Times(x.pad, y.pad), data |-> Times(x.data, y.data)]

EncryptedSum(ciphertexts) == FoldLeft(CiphertextPlus, Head(ciphertexts), Tail(ciphertexts))

(***************************************************************************)
(* The blinded plaintext publicKey^m, with the secret key, with the        *)
(* guardians' shares, and with the nonce.                                  *)
(***************************************************************************)
Decrypted(c, secretKey) == Times(c.data, PowP(c.pad, MinusQ(secretKey)))

ComputeShare(c, secretKey) == PowP(c.pad, secretKey)

DecryptedWithShares(c, shares) == Div(c.data, FoldLeft(Times, Head(shares), Tail(shares)))

DecryptedWithNonce(c, publicKey, nonce) == Times(c.data, PowP(publicKey, MinusQ(nonce)))
=============================================================================
