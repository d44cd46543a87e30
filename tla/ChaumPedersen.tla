--------------------------- MODULE ChaumPedersen ----------------------------
(***************************************************************************)
(* The zero-knowledge proofs that go with a ciphertext.  A proof is made   *)
(* by committing to some elements, hashing them to a challenge c, and      *)
(* answering it; it is checked by computing the commitments back from the  *)
(* answer and hashing them again.                                          *)
(*                                                                         *)
(* The hash is an oracle: c is any exponent, and it comes back from        *)
(* hashing again if and only if the same elements are hashed.  So every    *)
(* proof carries what its challenge was hashed from, `hashed`, and a       *)
(* challenge is right if the recomputed elements are the same.             *)
(* The base hash, which is the same for all proofs, is left out of it, and *)
(* so are the checks of isValidResidue, which hold in the subgroup.        *)
(***************************************************************************)
EXTENDS ElGamal

-----------------------------------------------------------------------------
(***************************************************************************)
(* The generic proof that g^x and h^x have the same exponent x, made with  *)
(* the random w.                                                           *)
(***************************************************************************)
\* A mutant: the response is w - xc.
GenericProofMinus(g, h, x, w, c, header) ==
  [c |-> c, r |-> PlusQ(w, MinusQ(TimesQ(x, c))),
   hashed |-> <<header, <<PowP(g, w), PowP(h, w)>>>>]

GenericProof(g, h, x, w, c, header) ==
  [c |-> c, r |-> PlusQ(w, TimesQ(x, c)),
   hashed |-> <<header, <<PowP(g, w), PowP(h, w)>>>>]

(***************************************************************************)
(* The commitments a and b, computed back.                                 *)
(***************************************************************************)
Expand(proof, g, gx, h, hx) ==
  <<Times(PowP(g, proof.r), PowP(gx, MinusQ(proof.c))),
    Times(PowP(h, proof.r), PowP(hx, MinusQ(proof.c)))>>

GenericValid(proof, g, gx, h, hx, header) ==
  proof.hashed = <<header, Expand(proof, g, gx, h, hx)>>

Header(publicKey, ciphertext) == <<publicKey, ciphertext>>

-----------------------------------------------------------------------------
(***************************************************************************)
(* The proof that a ciphertext encrypts a constant, made with the nonce:   *)
(* (G, publicKey) have the exponent nonce in (pad, data / key^constant).   *)
(***************************************************************************)
ConstantProofWithNonce(ciphertext, constant, nonce, publicKey, w, c) ==
  [proof |-> GenericProof(G, publicKey, nonce, w, c, Header(publicKey, ciphertext)),
   constant |-> constant]

WithoutConstant(ciphertext, constant, publicKey) ==
  Times(ciphertext.data, PowP(publicKey, MinusQ(constant % Q)))

ConstantValidWithNonce(p, ciphertext, publicKey) ==
  GenericValid(p.proof, G, ciphertext.pad, publicKey,
               WithoutConstant(ciphertext, p.constant, publicKey),
               Header(publicKey, ciphertext))

(***************************************************************************)
(* The same made with the secret key: (G, pad) have the exponent secretKey *)
(* in (publicKey, data / key^constant).                                    *)
(***************************************************************************)
\* A mutant: made for the public key instead of the pad.
ConstantProofWithKeySwapped(ciphertext, constant, secretKey, publicKey, w, c) ==
  [proof |-> GenericProof(G, publicKey, secretKey, w, c, Header(publicKey, ciphertext)),
   constant |-> constant]

ConstantProofWithKey(ciphertext, constant, secretKey, publicKey, w, c) ==
  [proof |-> GenericProof(G, ciphertext.pad, secretKey, w, c, Header(publicKey, ciphertext)),
   constant |-> constant]

ConstantValidWithKey(p, ciphertext, publicKey) ==
  GenericValid(p.proof, G, publicKey, ciphertext.pad,
               WithoutConstant(ciphertext, p.constant, publicKey),
               Header(publicKey, ciphertext))

-----------------------------------------------------------------------------
(***************************************************************************)
(* The disjunctive proof that a ciphertext encrypts 0 or 1: one half is    *)
(* made like a generic proof with the random u, the other is faked with    *)
(* the randoms v and w.  For any other message there is no proof.          *)
(***************************************************************************)
Provable(message) == message \in {0, 1}

\* A mutant: in the proof for 1, the challenge is shared out with the wrong sign.
DisjunctiveProofSign(message, ciphertext, nonce, publicKey, u, v, w, c) ==
  LET real == <<PowP(G, u), PowP(publicKey, u)>>
      fake == <<PowP(G, v), PowP(publicKey, PlusQ(w, v))>>
      c0 == IF message = 0 THEN PlusQ(c, MinusQ(w)) ELSE w
      c1 == IF message = 0 THEN w ELSE PlusQ(c, MinusQ(w))
  IN  [c0 |-> c0,
       r0 |-> PlusQ(IF message = 0 THEN u ELSE v, TimesQ(c0, nonce)),
       c1 |-> c1,
       r1 |-> PlusQ(IF message = 0 THEN v ELSE u, TimesQ(c1, nonce)),
       c  |-> c,
       hashed |-> IF message = 0 THEN <<ciphertext, real, fake>>
                               ELSE <<ciphertext, fake, real>>]

DisjunctiveProof(message, ciphertext, nonce, publicKey, u, v, w, c) ==
  LET real == <<PowP(G, u), PowP(publicKey, u)>>
      fake == <<PowP(G, v), PowP(publicKey, PlusQ(w, v))>>
      c0 == IF message = 0 THEN PlusQ(c, MinusQ(w)) ELSE MinusQ(w)
      c1 == IF message = 0 THEN w ELSE PlusQ(c, w)
  IN  [c0 |-> c0,
       r0 |-> PlusQ(IF message = 0 THEN u ELSE v, TimesQ(c0, nonce)),
       c1 |-> c1,
       r1 |-> PlusQ(IF message = 0 THEN v ELSE u, TimesQ(c1, nonce)),
       c  |-> c,
       hashed |-> IF message = 0 THEN <<ciphertext, real, fake>>
                               ELSE <<ciphertext, fake, real>>]

DisjunctiveValid(p, ciphertext, publicKey) ==
  /\ PlusQ(p.c0, p.c1) = p.c
  /\ p.hashed =
       <<ciphertext,
         Expand([c |-> p.c0, r |-> p.r0], G, ciphertext.pad, publicKey, ciphertext.data),
         Expand([c |-> p.c1, r |-> p.r1], G, ciphertext.pad, publicKey,
                Times(ciphertext.data, MultInv(publicKey)))>>
=============================================================================
