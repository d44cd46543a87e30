----------------------------- MODULE Encryption -----------------------------
(***************************************************************************)
(* Encryption of selections and contests, shared by Encryptor,             *)
(* ContestPrecompute and SelectionPrecompute, and what a verifier checks.  *)
(*                                                                         *)
(* ElGamal is symbolic: a ciphertext is its plaintext vote together with   *)
(* the nonce it was made with.  The product of ciphertexts then encrypts   *)
(* the sum of their votes, and the constant proof made for votesAllowed    *)
(* verifies exactly if that sum is votesAllowed.                           *)
(***************************************************************************)
EXTENDS Manifest

(***************************************************************************)
(* Nonces(seed, header)[i].  Only a nonce made from a random master nonce  *)
(* is unpredictable; all the others are hashes.                            *)
(***************************************************************************)
Nonce(seed, header, i) == <<seed, header, i>>

(***************************************************************************)
(* hashedElGamalEncrypt of the write-in, if there is one, with a nonce of  *)
(* its own.  Its number of bytes stays to be seen.                         *)
(***************************************************************************)
HashedElGamal(extendedData, selectionNonce) ==
  {[text |-> t, nonce |-> Nonce(selectionNonce, "extended-data", 0)] : t \in extendedData}

VisibleBytes(extendedData) == {d.text.numBytes : d \in extendedData}

\* A mutant: the master nonce is forgotten.
BallotNonceNoMaster(manifestHash, ballotId, masterNonce) == <<manifestHash, ballotId>>

BallotNonce(manifestHash, ballotId, masterNonce) ==
  <<manifestHash, ballotId, masterNonce>>

ContestNonce(mc, ballotNonce) ==
  Nonce(ContestHash(mc), ballotNonce, mc.sequenceOrder)

(***************************************************************************)
(* SelectionDescription.encryptSelection.  The disjunctive proof can only  *)
(* be made for a vote of 0 or 1: any other vote throws.                    *)
(***************************************************************************)
Encryptable(vote) == vote \in {0, 1}

\* A mutant: only the placeholders that are needed are marked as such.
EncryptSelectionNeeded(vote, extendedData, ms, contestNonce, isPlaceholder) ==
  LET selectionNonce == Nonce(SelectionHash(ms), contestNonce, ms.sequenceOrder)
  IN  [selectionId            |-> ms.selectionId,
       sequenceOrder          |-> ms.sequenceOrder,
       vote                   |-> vote,
       selectionNonce         |-> selectionNonce,
       isPlaceholderSelection |-> isPlaceholder /\ vote = 1,
       extendedData           |-> HashedElGamal(extendedData, selectionNonce)]

EncryptSelection(vote, extendedData, ms, contestNonce, isPlaceholder) ==
  LET selectionNonce == Nonce(SelectionHash(ms), contestNonce, ms.sequenceOrder)
  IN  [selectionId            |-> ms.selectionId,
       sequenceOrder          |-> ms.sequenceOrder,
       vote                   |-> vote,
       selectionNonce         |-> selectionNonce,
       isPlaceholderSelection |-> isPlaceholder,
       extendedData           |-> HashedElGamal(extendedData, selectionNonce)]

(***************************************************************************)
(* The description of the k-th placeholder: it follows the last selection. *)
(***************************************************************************)
\* A mutant: all placeholders get the same sequence number.
PlaceholderOfOneNumber(mc, k) ==
  LET sequenceNo == Max({s.sequenceOrder : s \in ToSet(mc.selections)}) + 1
  IN  [selectionId   |-> <<mc.contestId, sequenceNo>>,
       sequenceOrder |-> sequenceNo,
       candidateId   |-> "placeholder"]

PlaceholderOf(mc, k) ==
  LET sequenceNo == Max({s.sequenceOrder : s \in ToSet(mc.selections)}) + k
  IN  [selectionId   |-> <<mc.contestId, sequenceNo>>,
       sequenceOrder |-> sequenceNo,
       candidateId   |-> "placeholder"]

(***************************************************************************)
(* ContestDescription.encryptContest: the selections, in order, and the    *)
(* proof that they encrypt votesAllowed votes in all.                      *)
(***************************************************************************)
EncryptContest(mc, contestNonce, encryptedSelections) ==
  [contestId     |-> mc.contestId,
   sequenceOrder |-> mc.sequenceOrder,
   selections    |-> SortedByOrder(encryptedSelections),
   constant      |-> mc.votesAllowed,
   contestNonce  |-> contestNonce]

-----------------------------------------------------------------------------
(***************************************************************************)
(* PlaintextBallot.Contest.encryptContest.  A selection of the manifest    *)
(* that the ballot leaves out counts as a vote of 0; a selection that the  *)
(* manifest lacks is ignored.  A contest that the ballot leaves out has no *)
(* votes at all.                                                           *)
(***************************************************************************)
VoteFor(selections, ms) ==
  IF HasKey(selections, "selectionId", ms.selectionId)
  THEN ByKey(selections, "selectionId", ms.selectionId).vote
  ELSE 0

DataFor(selections, ms) ==
  IF HasKey(selections, "selectionId", ms.selectionId)
  THEN ByKey(selections, "selectionId", ms.selectionId).extendedData
  ELSE {}

\* A mutant: the ballot's contests are found by their position.
SelectionsByPosition(ballot, mc) ==
  IF mc.sequenceOrder <= Len(ballot.contests)
  THEN ballot.contests[mc.sequenceOrder].selections
  ELSE << >>

SelectionsFor(ballot, mc) ==
  IF HasKey(ballot.contests, "contestId", mc.contestId)
  THEN ByKey(ballot.contests, "contestId", mc.contestId).selections
  ELSE << >>

(***************************************************************************)
(* The k-th placeholder gets a vote as long as the votes so far, and the   *)
(* placeholders before it, leave room below the limit.                     *)
(***************************************************************************)
\* Mutants: one vote too many; all undervotes in the first placeholder.
PlaceholderVoteOneMore(votes, k, limit) == IF votes + (k - 1) <= limit THEN 1 ELSE 0
PlaceholderVoteFirst(votes, k, limit) == IF k = 1 THEN limit - votes ELSE 0

PlaceholderVote(votes, k, limit) == IF votes + (k - 1) < limit THEN 1 ELSE 0

ContestEncryption(mc, selections, ballotNonce) ==
  LET contestNonce == ContestNonce(mc, ballotNonce)
      votes == SumOver(mc.selections, LAMBDA ms : VoteFor(selections, ms))
      real == [i \in DOMAIN mc.selections |->
        EncryptSelection(VoteFor(selections, mc.selections[i]),
                         DataFor(selections, mc.selections[i]),
                         mc.selections[i], contestNonce, FALSE)]
      placeholders == [k \in 1 .. mc.votesAllowed |->
        EncryptSelection(PlaceholderVote(votes, k, mc.votesAllowed), {},
                         PlaceholderOf(mc, k), contestNonce, TRUE)]
  IN  EncryptContest(mc, contestNonce, real \o placeholders)

(***************************************************************************)
(* The crypto hash of an encrypted contest: of its votes' ciphertexts, not *)
(* of its write-ins.  The selections are hashed in their order, which a    *)
(* valid manifest determines: their set stands for their list.             *)
(***************************************************************************)
CryptoHash(contest) ==
  <<contest.contestId,
    {<<s.selectionId, s.vote, s.selectionNonce>> : s \in ToSet(contest.selections)}>>

-----------------------------------------------------------------------------
(***************************************************************************)
(* The sum of the votes that a contest encrypts, and the verifier's check. *)
(***************************************************************************)
Accumulated(contest) == SumOver(contest.selections, LAMBDA s : s.vote)

ProofVerifies(contest) == Accumulated(contest) = contest.constant

(***************************************************************************)
(* The selections that are not placeholders.                               *)
(***************************************************************************)
RealSelections(contest) ==
  {s \in ToSet(contest.selections) : ~s.isPlaceholderSelection}

(***************************************************************************)
(* What anyone can see of an encrypted contest without decrypting it.      *)
(***************************************************************************)
VisibleShape(contest) ==
  <<contest.contestId, contest.sequenceOrder,
    [i \in DOMAIN contest.selections |->
       <<contest.selections[i].selectionId, contest.selections[i].sequenceOrder,
         contest.selections[i].isPlaceholderSelection,
         VisibleBytes(contest.selections[i].extendedData)>>]>>
=============================================================================
