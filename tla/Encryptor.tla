------------------------------ MODULE Encryptor ------------------------------
(***************************************************************************)
(* Encryptor: plaintext ballots become ciphertext ballots, one by one, in  *)
(* a chain where each ballot's code seed is the code of the ballot before  *)
(* it (encrypt) or with one code seed and one master nonce for all         *)
(* (encryptWithFixedNonces).                                               *)
(*                                                                         *)
(* The caller is the one that Encryptor's documentation asks for: it       *)
(* validates the manifest and every ballot, and passes the valid ballots   *)
(* on in one call.  The others are not modelled any further.               *)
(***************************************************************************)
EXTENDS InputValidation, Encryption

CONSTANTS
  Manifests,     \* the manifests that elections are held with
  Ballots,       \* the plaintext ballots that voters hand in
  BatchBallots,  \* bound of the model: those of them that do not come alone
  MaxBallots     \* bound of the model: ballots in one call

(***************************************************************************)
(* ManifestInputValidation does not refuse a negative number of votes      *)
(* allowed; no election has one.                                           *)
(***************************************************************************)
ASSUME ManifestsAssumption ==
  \A m \in Manifests :
    IsManifest(m) /\ \A mc \in ToSet(m.contests) : mc.votesAllowed \in Nat

ASSUME BallotsAssumption ==
  (\A b \in Ballots : IsPlaintextBallot(b)) /\ MaxBallots \in Nat

VARIABLES
  manifest,           \* the manifest of this election
  accepted,           \* ballots that passed validation, in order of arrival
  phase,              \* where the caller and the call are
  draws,              \* random master nonces drawn so far
  codeSeed,           \* code seed of the next ballot
  encryptedBallots    \* the list the call is building

vars == <<manifest, accepted, phase, draws, codeSeed, encryptedBallots>>

-----------------------------------------------------------------------------
(***************************************************************************)
(* Encrypting the ballot throws: maxOf on a contest without selections, or *)
(* a vote for which no disjunctive proof exists.                           *)
(***************************************************************************)
Throws(m, ballot) ==
  \E mc \in ToSet(m.contests) :
    \/ mc.selections = << >>
    \/ \E ms \in ToSet(mc.selections) :
         ~Encryptable(VoteFor(SelectionsFor(ballot, mc), ms))

(***************************************************************************)
(* PlaintextBallot.encryptBallot: every contest of the manifest is there,  *)
(* whatever the ballot's style.                                            *)
(***************************************************************************)
EncryptBallot(m, ballot, seed, masterNonce) ==
  LET ballotNonce == BallotNonce(ManifestHash(m), ballot.ballotId, masterNonce)
      contests == [i \in DOMAIN m.contests |->
        ContestEncryption(m.contests[i], SelectionsFor(ballot, m.contests[i]),
                          ballotNonce)]
      cryptoHash == <<ballot.ballotId, ManifestHash(m),
                      {CryptoHash(contest) : contest \in ToSet(contests)}>>
  IN  [ballotId      |-> ballot.ballotId,
       ballotStyleId |-> ballot.ballotStyleId,
       manifestHash  |-> ManifestHash(m),
       codeSeed      |-> seed,
       code          |-> <<seed, cryptoHash>>,
       contests      |-> SortedByOrder(contests),
       masterNonce   |-> masterNonce]

-----------------------------------------------------------------------------
Init ==
  /\ manifest \in Manifests
  /\ accepted = << >>
  /\ phase = IF ValidManifest(manifest) THEN "accepting" ELSE "refused"
  /\ draws = 0
  /\ codeSeed = <<"seed">>
  /\ encryptedBallots = << >>

(***************************************************************************)
(* The caller reads one more ballot and validates it.                      *)
(***************************************************************************)
Accept(b) ==
  /\ phase = "accepting"
  /\ Len(accepted) < MaxBallots
  /\ accepted # << >> => ToSet(accepted) \cup {b} \subseteq BatchBallots
  /\ ValidBallot(manifest, b)
  /\ accepted' = Append(accepted, b)
  /\ UNCHANGED <<manifest, phase, draws, codeSeed, encryptedBallots>>

(***************************************************************************)
(* The caller calls encrypt or encryptWithFixedNonces.                     *)
(***************************************************************************)
StartBatch(mode) ==
  /\ phase = "accepting"
  /\ accepted # << >>
  /\ phase' = mode
  /\ UNCHANGED <<manifest, accepted, draws, codeSeed, encryptedBallots>>

NextBallot == accepted[Len(encryptedBallots) + 1]

(***************************************************************************)
(* A mutant: the code seed stays what it was.                              *)
(***************************************************************************)
EncryptUnchained ==
  /\ phase = "chain"
  /\ Len(encryptedBallots) < Len(accepted)
  /\ ~Throws(manifest, NextBallot)
  /\ encryptedBallots' = Append(encryptedBallots,
       EncryptBallot(manifest, NextBallot, codeSeed, <<"random", draws>>))
  /\ draws' = draws + 1
  /\ UNCHANGED <<manifest, accepted, phase, codeSeed>>

(***************************************************************************)
(* One round of the loop of encrypt: a fresh random master nonce, and the  *)
(* code of this ballot becomes the code seed of the next.                  *)
(***************************************************************************)
EncryptInChain ==
  /\ phase = "chain"
  /\ Len(encryptedBallots) < Len(accepted)
  /\ ~Throws(manifest, NextBallot)
  /\ LET encrypted == EncryptBallot(manifest, NextBallot, codeSeed, <<"random", draws>>)
     IN  /\ encryptedBallots' = Append(encryptedBallots, encrypted)
         /\ codeSeed' = encrypted.code
  /\ draws' = draws + 1
  /\ UNCHANGED <<manifest, accepted, phase>>

(***************************************************************************)
(* One round of the loop of encryptWithFixedNonces.                        *)
(***************************************************************************)
EncryptFixed ==
  /\ phase = "fixed"
  /\ Len(encryptedBallots) < Len(accepted)
  /\ ~Throws(manifest, NextBallot)
  /\ encryptedBallots' = Append(encryptedBallots,
       EncryptBallot(manifest, NextBallot, codeSeed, <<"master">>))
  /\ UNCHANGED <<manifest, accepted, phase, draws, codeSeed>>

(***************************************************************************)
(* A ballot that throws takes the whole call with it: nothing is returned. *)
(***************************************************************************)
\* A mutant: the call starts over instead.
ThrowRetries ==
  /\ phase \in {"chain", "fixed"}
  /\ Len(encryptedBallots) < Len(accepted)
  /\ Throws(manifest, NextBallot)
  /\ encryptedBallots' = << >>
  /\ UNCHANGED <<manifest, accepted, phase, draws, codeSeed>>

Throw ==
  /\ phase \in {"chain", "fixed"}
  /\ Len(encryptedBallots) < Len(accepted)
  /\ Throws(manifest, NextBallot)
  /\ phase' = "threw"
  /\ encryptedBallots' = << >>
  /\ UNCHANGED <<manifest, accepted, draws, codeSeed>>

ReturnBatch ==
  /\ phase \in {"chain", "fixed"}
  /\ Len(encryptedBallots) = Len(accepted)
  /\ phase' = IF phase = "chain" THEN "returnedChain" ELSE "returnedFixed"
  /\ UNCHANGED <<manifest, accepted, draws, codeSeed, encryptedBallots>>

Next ==
  \/ \E b \in Ballots : Accept(b)
  \/ \E mode \in {"chain", "fixed"} : StartBatch(mode)
  \/ EncryptInChain \/ EncryptFixed \/ Throw \/ ReturnBatch

Spec == Init /\ [][Next]_vars

(***************************************************************************)
(* The encryption loop is sequential code: once called it runs to its end. *)
(***************************************************************************)
FairSpec ==
  Spec /\ WF_vars(EncryptInChain \/ EncryptFixed \/ Throw \/ ReturnBatch)

-----------------------------------------------------------------------------
TypeOK ==
  /\ manifest \in Manifests
  /\ ToSet(accepted) \subseteq Ballots /\ Len(accepted) <= MaxBallots
  /\ phase \in {"refused", "accepting", "chain", "fixed", "threw",
                "returnedChain", "returnedFixed"}
  /\ draws \in 0 .. MaxBallots
  /\ Len(encryptedBallots) <= Len(accepted)
  /\ \A i \in DOMAIN encryptedBallots :
       \A c \in ToSet(encryptedBallots[i].contests) :
         \A s \in ToSet(c.selections) : s.vote \in {0, 1}

(***************************************************************************)
(* Validation is enough for encryption: if every contest has a selection,  *)
(* a batch of valid ballots of a valid manifest never throws.              *)
(***************************************************************************)
ValidBatchEncrypts ==
  phase = "threw" => \E mc \in ToSet(manifest.contests) : mc.selections = << >>

(***************************************************************************)
(* Whatever the voter left out, every contest of every encrypted ballot    *)
(* encrypts exactly votesAllowed votes, placeholders included, so that its *)
(* constant Chaum-Pedersen proof verifies.                                 *)
(***************************************************************************)
ContestsVerify ==
  \A i \in DOMAIN encryptedBallots :
    \A contest \in ToSet(encryptedBallots[i].contests) : ProofVerifies(contest)

(***************************************************************************)
(* Decrypting a ballot gives back the votes and the write-ins the voter    *)
(* handed in: none is lost to a duplicate or an unknown name, none appears *)
(* from nowhere, and every write-in stays with its own selection.          *)
(***************************************************************************)
PlainVotes(ballot) ==
  UNION {{<<bc.contestId, s.selectionId>> : s \in {t \in ToSet(bc.selections) : t.vote > 0}} :
           bc \in ToSet(ballot.contests)}

DecryptedVotes(ballot) ==
  UNION {{<<c.contestId, s.selectionId>> : s \in {t \in RealSelections(c) : t.vote > 0}} :
           c \in ToSet(ballot.contests)}

PlainWriteIns(ballot) ==
  UNION {UNION {{<<bc.contestId, s.selectionId, t>> : t \in s.extendedData} :
                  s \in ToSet(bc.selections)} : bc \in ToSet(ballot.contests)}

DecryptedWriteIns(ballot) ==
  UNION {UNION {{<<c.contestId, s.selectionId, d.text>> : d \in s.extendedData} :
                  s \in RealSelections(c)} : c \in ToSet(ballot.contests)}

VotesPreserved ==
  \A i \in DOMAIN encryptedBallots :
    /\ DecryptedVotes(encryptedBallots[i]) = PlainVotes(accepted[i])
    /\ DecryptedWriteIns(encryptedBallots[i]) = PlainWriteIns(accepted[i])

(***************************************************************************)
(* All contests and selections are present in an encrypted ballot, so that *)
(* an inspection shows which selections have a write-in and how long it    *)
(* is, and nothing else: the contests look the same on two ballots with    *)
(* write-ins of the same lengths in the same places, whatever the votes,   *)
(* the contests and selections left out, the texts, the order of the       *)
(* entries and the ballots' styles.                                        *)
(***************************************************************************)
Shapes(ballot) ==
  [n \in DOMAIN ballot.contests |-> VisibleShape(ballot.contests[n])]

WriteInBytes(ballot) == {<<w[1], w[2], w[3].numBytes>> : w \in PlainWriteIns(ballot)}

InspectionShowsWriteInsOnly ==
  \A i, j \in DOMAIN encryptedBallots :
    WriteInBytes(accepted[i]) = WriteInBytes(accepted[j]) =>
      Shapes(encryptedBallots[i]) = Shapes(encryptedBallots[j])

(***************************************************************************)
(* No two encrypted votes of a batch share a nonce: neither two selections *)
(* of one ballot, nor two ballots of a chain, even with equal ballot ids   *)
(* and votes.  (With one fixed master nonce the ballot ids must differ.)   *)
(***************************************************************************)
NoncesDistinct ==
  LET contests(i) == encryptedBallots[i].contests
      selections(i, n) == contests(i)[n].selections
  IN  phase \in {"chain", "returnedChain"} =>
        \A i, j \in DOMAIN encryptedBallots :
          \A n \in DOMAIN contests(i), m \in DOMAIN contests(j) :
            \A k \in DOMAIN selections(i, n), l \in DOMAIN selections(j, m) :
              <<i, n, k>> # <<j, m, l>> =>
                selections(i, n)[k].selectionNonce # selections(j, m)[l].selectionNonce

(***************************************************************************)
(* The ballots returned by encrypt form a chain from the caller's seed.    *)
(***************************************************************************)
ChainLinked ==
  phase \in {"chain", "returnedChain"} =>
    \A i \in DOMAIN encryptedBallots :
      encryptedBallots[i].codeSeed =
        IF i = 1 THEN <<"seed">> ELSE encryptedBallots[i - 1].code

(***************************************************************************)
(* Every batch ends.                                                       *)
(***************************************************************************)
BatchEnds ==
  phase \in {"chain", "fixed"} ~> phase \in {"threw", "returnedChain", "returnedFixed"}
=============================================================================
