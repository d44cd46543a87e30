---------------------------- MODULE ContestProof ----------------------------
(***************************************************************************)
(* The cryptographic life of one contest: its selections are encrypted     *)
(* with a proof each, the contest is proved to have votesAllowed votes,    *)
(* and later the accumulation of its selections is decrypted and the       *)
(* result is proved with the secret key.  The secret key is also held in   *)
(* two shares.                                                             *)
(*                                                                         *)
(* The random numbers of the proofs and the challenges are inputs of the   *)
(* steps; the caller is trusted with nothing: votes that cannot be proved, *)
(* zero nonces and wrong totals are tried as well.                         *)
(***************************************************************************)
EXTENDS ChaumPedersen

CONSTANTS
  Votes,          \* the plaintexts of selections
  Limits,         \* the values of votesAllowed, and of the announced result
  ProofNonces,    \* the random numbers that proofs are made with
  MaxSelections,  \* bound of the model: selections of the contest
  NoProof         \* no proof was made yet

ASSUME ContestProofAssumption ==
  /\ Votes \subseteq Int
  /\ Limits \subseteq Nat
  /\ ProofNonces \subseteq ElementsModQ

(***************************************************************************)
(* Q is prime, so no product of nonzero exponents is zero, and it is above *)
(* every number of selections and of votes allowed, which are Ints.        *)
(***************************************************************************)
ASSUME OrderAssumption ==
  /\ \A a, b \in 1 .. Q - 1 : (a * b) % Q # 0
  /\ MaxSelections \in Nat
  /\ MaxSelections < Q
  /\ Limits \subseteq 0 .. Q - 1

VARIABLES
  secretKey,      \* the secret key; the public key is PowP(G, secretKey)
  share,          \* the first guardian's share of it
  selections,     \* [ciphertext, selectionNonce, vote] of each selection
  phase,
  proof           \* the proof that was made last

vars == <<secretKey, share, selections, phase, proof>>

publicKey == PowP(G, secretKey)
texts == [i \in DOMAIN selections |-> selections[i].ciphertext]
accumulation == EncryptedSum(texts)
aggNonce == FoldLeft(LAMBDA sum, s : PlusQ(sum, s.selectionNonce), 0, selections)

-----------------------------------------------------------------------------
(***************************************************************************)
(* elGamalKeyPairFromRandom: the secret key is in [2, Q).                  *)
(***************************************************************************)
Init ==
  /\ secretKey \in 2 .. Q - 1
  /\ share \in ElementsModQ
  /\ selections = << >>
  /\ phase = "selections"
  /\ proof = NoProof

\* A mutant: a vote that cannot be proved is encrypted all the same.
SelectionThrowsForNonce(vote, nonce) == EncryptThrows(vote, nonce)

SelectionThrows(vote, nonce) == EncryptThrows(vote, nonce) \/ ~Provable(vote)

EncryptSelection(vote, nonce, u, v, w, c) ==
  /\ phase = "selections"
  /\ Len(selections) < MaxSelections
  /\ ~SelectionThrows(vote, nonce)
  /\ LET ciphertext == Encrypt(vote, publicKey, nonce)
     IN  /\ selections' = Append(selections,
              [ciphertext |-> ciphertext, selectionNonce |-> nonce, vote |-> vote])
         /\ proof' = DisjunctiveProof(vote, ciphertext, nonce, publicKey, u, v, w, c)
  /\ UNCHANGED <<secretKey, share, phase>>

ThrowSelection(vote, nonce) ==
  /\ phase = "selections"
  /\ Len(selections) < MaxSelections
  /\ SelectionThrows(vote, nonce)
  /\ phase' = "threw"
  /\ UNCHANGED <<secretKey, share, selections, proof>>

(***************************************************************************)
(* encryptContest, with the contest's limit.                               *)
(***************************************************************************)
EncryptContest(votesAllowed, w, c) ==
  /\ phase = "selections"
  /\ selections # << >>
  /\ phase' = "encrypted"
  /\ proof' = ConstantProofWithNonce(accumulation, votesAllowed, aggNonce, publicKey, w, c)
  /\ UNCHANGED <<secretKey, share, selections>>

(***************************************************************************)
(* The result is announced, with a proof by the holder of the secret key.  *)
(***************************************************************************)
ProveResult(result, w, c) ==
  /\ phase = "encrypted"
  /\ phase' = "announced"
  /\ proof' = ConstantProofWithKey(accumulation, result, secretKey, publicKey, w, c)
  /\ UNCHANGED <<secretKey, share, selections>>

Next ==
  \/ \E vote \in Votes, nonce \in ElementsModQ :
       \/ \E u, v, w \in ProofNonces, c \in ElementsModQ :
            EncryptSelection(vote, nonce, u, v, w, c)
       \/ ThrowSelection(vote, nonce)
  \/ \E limit \in Limits, w \in ProofNonces, c \in ElementsModQ :
       EncryptContest(limit, w, c) \/ ProveResult(limit, w, c)

Spec == Init /\ [][Next]_vars

-----------------------------------------------------------------------------
(***************************************************************************)
(* History: the votes of the contest, and their sum as an exponent.        *)
(***************************************************************************)
TotalVotes == FoldLeft(LAMBDA sum, s : sum + s.vote, 0, selections)

TypeOK ==
  /\ secretKey \in 2 .. Q - 1
  /\ share \in ElementsModQ
  /\ phase \in {"selections", "threw", "encrypted", "announced"}
  /\ selections \in Seq([ciphertext : [pad : ElementsModP, data : ElementsModP],
                         selectionNonce : ElementsModQ \ {0}, vote : {0, 1}])

(***************************************************************************)
(* Whatever the randomness and the challenge, the disjunctive proof made   *)
(* with a selection verifies, the fake half included.                      *)
(***************************************************************************)
SelectionProofVerifies ==
  phase = "selections" /\ selections # << >> =>
    DisjunctiveValid(proof, Last(selections).ciphertext, publicKey)

(***************************************************************************)
(* The proof of a contest verifies exactly if its selections have          *)
(* votesAllowed votes in all, but for the one challenge in Q that is zero. *)
(* This is what the module Encryption assumes of its symbolic ciphertexts. *)
(***************************************************************************)
ContestProofExact ==
  phase = "encrypted" =>
    (ConstantValidWithNonce(proof, accumulation, publicKey)
       <=> proof.constant = TotalVotes \/ proof.proof.c = 0)

(***************************************************************************)
(* The proof of a result verifies exactly if the result is the total.      *)
(***************************************************************************)
ResultProofExact ==
  phase = "announced" =>
    (ConstantValidWithKey(proof, accumulation, publicKey)
       <=> proof.constant = TotalVotes \/ proof.proof.c = 0)

(***************************************************************************)
(* The accumulation decrypts to the number of votes, and all ways to       *)
(* decrypt agree: with the secret key, with the shares of the guardians    *)
(* and with the aggregate nonce, which may be zero.                        *)
(***************************************************************************)
DecryptionsAgree ==
  selections # << >> =>
    LET shares == <<ComputeShare(accumulation, share),
                    ComputeShare(accumulation, PlusQ(secretKey, MinusQ(share)))>>
        total == PowP(publicKey, TotalVotes)
    IN  /\ Decrypted(accumulation, secretKey) = total
        /\ DecryptedWithShares(accumulation, shares) = total
        /\ DecryptedWithNonce(accumulation, publicKey, aggNonce) = total

=============================================================================
