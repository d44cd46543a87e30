-------------------------- MODULE ContestPrecompute --------------------------
(***************************************************************************)
(* ContestPrecompute: one ballot that is voted on selection by selection.  *)
(* Every vote encrypts its contest anew and keeps the result, so that      *)
(* encrypt only has to encrypt the contests without a vote.                *)
(*                                                                         *)
(* The caller calls vote and encrypt in any order and as often as it       *)
(* likes, and goes on after a call that threw.                             *)
(***************************************************************************)
EXTENDS Encryption

CONSTANTS
  Manifests,      \* the manifests of elections
  Styles,         \* the ballot styles callers ask for
  ContestIds,     \* the contest ids callers vote on
  SelectionIds,   \* the selection ids callers vote on
  VoteValues,     \* the votes callers give
  MasterNonces,   \* the master nonces callers give, NoNonce for none
  NoNonce,        \* the null master nonce
  NotEncrypted    \* the null encryptedContest

(***************************************************************************)
(* The manifests are those of elections: nowhere is a negative number of   *)
(* votes allowed, and no contest has two selections with the same id.      *)
(***************************************************************************)
ASSUME ManifestsAssumption ==
  \A m \in Manifests :
    /\ IsManifest(m)
    /\ \A mc \in ToSet(m.contests) :
         /\ mc.votesAllowed \in Nat
         /\ \A i, j \in DOMAIN mc.selections :
              mc.selections[i].selectionId = mc.selections[j].selectionId => i = j

ASSUME VotesAssumption == VoteValues \subseteq Int

VARIABLES
  manifest,         \* the manifest,
  ballotStyleId,    \* the ballot style
  givenNonce,       \* and the master nonce that the constructor was given
  contests,         \* the descriptions of the style's contests
  votes,            \* votes[c][s]: Selection.vote of contest c
  marked,           \* marked[c]: placeholders of c whose vote is 1, from the first
  encryptedContest, \* encryptedContest[c]: the encryption of c that is kept
  result,           \* how the last call ended
  failed            \* history: contests whose last vote threw

given == <<manifest, ballotStyleId, givenNonce, contests>>
vars == <<given, votes, marked, encryptedContest, result, failed>>

\* In the constructor masterNonce is the parameter, null or not: it hides the
\* property of the same name, which encrypt uses.
ballotNonce == BallotNonce(ManifestHash(manifest), "ballot", givenNonce)
masterNonce == IF givenNonce = NoNonce THEN <<"random">> ELSE givenNonce

Votes(contestVotes) == SumOver(contestVotes, LAMBDA v : v)

-----------------------------------------------------------------------------
(***************************************************************************)
(* The constructor throws for an unknown ballot style, and for a contest   *)
(* without selections.                                                     *)
(***************************************************************************)
Constructible ==
  /\ ballotStyleId \in DOMAIN manifest.styles
  /\ contests = StyleContests(manifest, ballotStyleId)
  /\ \A mc \in ToSet(contests) : mc.selections # << >>

Init ==
  /\ manifest \in Manifests
  /\ ballotStyleId \in Styles
  /\ givenNonce \in MasterNonces
  /\ Constructible
  /\ votes = [c \in DOMAIN contests |-> [s \in DOMAIN contests[c].selections |-> 0]]
  /\ marked = [c \in DOMAIN contests |-> 0]
  /\ encryptedContest = [c \in DOMAIN contests |-> NotEncrypted]
  /\ result = "constructed"
  /\ failed = {}

(***************************************************************************)
(* Contest.encryptContest, of contest c with the votes cv.  It throws for  *)
(* an overvote, or after it has marked the placeholders for a vote that    *)
(* cannot be encrypted.  A placeholder once marked stays marked.           *)
(***************************************************************************)
\* A mutant: one vote too many passes.
OvervotedByTwo(c, cv) == Votes(cv) > contests[c].votesAllowed + 1

Overvoted(c, cv) == Votes(cv) > contests[c].votesAllowed

EncryptFails(c, cv) ==
  Overvoted(c, cv) \/ \E s \in DOMAIN cv : ~Encryptable(cv[s])

\* Mutants: placeholders are marked anew every time; one too few is marked.
MarkedMore(c, cv) ==
  IF Overvoted(c, cv) THEN marked[c]
  ELSE marked[c] + contests[c].votesAllowed - Votes(cv)

MarkedOneLess(c, cv) ==
  IF Overvoted(c, cv) THEN marked[c]
  ELSE Max({marked[c], contests[c].votesAllowed - Votes(cv) - 1})

MarkedAfter(c, cv) ==
  LET allowed == contests[c].votesAllowed
  IN  IF Overvoted(c, cv) THEN marked[c]
      ELSE Max({marked[c], Min({allowed, allowed - Votes(cv)})})

NonceOf(c) == ContestNonce(contests[c], ballotNonce)

\* A mutant: the selections are encrypted before the vote is set.
SelectionsBefore(c, cv) ==
  [s \in DOMAIN cv |->
     EncryptSelection(votes[c][s], {}, contests[c].selections[s], NonceOf(c), FALSE)]

EncryptedSelections(c, cv) ==
  [s \in DOMAIN cv |->
     EncryptSelection(cv[s], {}, contests[c].selections[s], NonceOf(c), FALSE)]

\* A mutant: the placeholders are filled from the last one.
PlaceholdersFromLast(c, mk) ==
  LET allowed == contests[c].votesAllowed
  IN  [k \in 1 .. allowed |->
         EncryptSelection(IF k > allowed - mk THEN 1 ELSE 0, {},
                          PlaceholderOf(contests[c], k), NonceOf(c), TRUE)]

EncryptedPlaceholders(c, mk) ==
  [k \in 1 .. contests[c].votesAllowed |->
     EncryptSelection(IF k <= mk THEN 1 ELSE 0, {},
                      PlaceholderOf(contests[c], k), NonceOf(c), TRUE)]

EncryptedWith(c, cv, mk) ==
  EncryptContest(contests[c], NonceOf(c),
                 EncryptedSelections(c, cv) \o EncryptedPlaceholders(c, mk))

(***************************************************************************)
(* vote: the first contest and the first selection with the given ids.  In *)
(* a one_of_m contest all selections are cleared first.                    *)
(***************************************************************************)
ContestWith(contestId) ==
  SelectInSeq(contests, LAMBDA mc : mc.contestId = contestId)

SelectionWith(c, selectionId) ==
  SelectInSeq(contests[c].selections, LAMBDA ms : ms.selectionId = selectionId)

Known(contestId, selectionId) ==
  ContestWith(contestId) # 0 /\ SelectionWith(ContestWith(contestId), selectionId) # 0

VotesAfter(c, s, vote) ==
  LET others == IF contests[c].voteVariation = "one_of_m"
                THEN [t \in DOMAIN votes[c] |-> 0] ELSE votes[c]
  IN  [others EXCEPT ![s] = vote]

RefuseVote(contestId, selectionId) ==
  /\ ~Known(contestId, selectionId)
  /\ result' = "refused"
  /\ UNCHANGED <<given, votes, marked, encryptedContest, failed>>

Vote(contestId, selectionId, vote) ==
  /\ Known(contestId, selectionId)
  /\ LET c == ContestWith(contestId)
         cv == VotesAfter(c, SelectionWith(c, selectionId), vote)
     IN  /\ votes' = [votes EXCEPT ![c] = cv]
         /\ marked' = [marked EXCEPT ![c] = MarkedAfter(c, cv)]
         /\ \/ /\ ~EncryptFails(c, cv)
               /\ encryptedContest' = [encryptedContest EXCEPT
                                         ![c] = EncryptedWith(c, cv, MarkedAfter(c, cv))]
               /\ result' = "voted"
               /\ failed' = failed \ {c}
            \/ /\ EncryptFails(c, cv)
               /\ result' = "threw"
               /\ failed' = failed \cup {c}
               /\ UNCHANGED encryptedContest
  /\ UNCHANGED given

(***************************************************************************)
(* encrypt: the contests that are not encrypted yet, in their order, up to *)
(* the first one that throws.                                              *)
(***************************************************************************)
Pending == {c \in DOMAIN contests : encryptedContest[c] = NotEncrypted}
Failing == {c \in Pending : EncryptFails(c, votes[c])}
Reached == {c \in Pending : \A f \in Failing : c <= f}

Encrypt ==
  /\ marked' = [c \in DOMAIN contests |->
       IF c \in Reached THEN MarkedAfter(c, votes[c]) ELSE marked[c]]
  /\ encryptedContest' = [c \in DOMAIN contests |->
       IF c \in Reached \ Failing
       THEN EncryptedWith(c, votes[c], MarkedAfter(c, votes[c]))
       ELSE encryptedContest[c]]
  /\ result' = IF Failing = {} THEN "returned" ELSE "threw"
  /\ UNCHANGED <<given, votes, failed>>

Next ==
  \/ \E contestId \in ContestIds, selectionId \in SelectionIds :
       \/ RefuseVote(contestId, selectionId)
       \/ \E vote \in VoteValues : Vote(contestId, selectionId, vote)
  \/ Encrypt

Spec == Init /\ [][Next]_vars

\* The ballot that encrypt returned.
EncryptedBallot ==
  [manifestHash |-> ManifestHash(manifest), ballotId |-> "ballot",
   masterNonce |-> masterNonce, contests |-> encryptedContest]

-----------------------------------------------------------------------------
TypeOK ==
  /\ contests = StyleContests(manifest, ballotStyleId)
  /\ manifest \in Manifests /\ ballotStyleId \in Styles /\ givenNonce \in MasterNonces
  /\ \A c \in DOMAIN contests :
       /\ votes[c] \in [DOMAIN contests[c].selections -> {0} \cup VoteValues]
       /\ marked[c] \in 0 .. contests[c].votesAllowed
  /\ result \in {"constructed", "refused", "voted", "threw", "returned"}
  /\ failed \subseteq DOMAIN contests

(***************************************************************************)
(* The encryption that is kept of a contest is the one of its present      *)
(* votes, unless the last vote on that contest threw: no order of votes    *)
(* and encrypts, failing or not, leaves an outdated one behind.            *)
(***************************************************************************)
KeptIsCurrent ==
  \A c \in DOMAIN contests \ Pending :
    c \notin failed =>
      \A i \in DOMAIN votes[c] :
        \E s \in RealSelections(encryptedContest[c]) :
          /\ s.selectionId = contests[c].selections[i].selectionId
          /\ s.vote = votes[c][i]

(***************************************************************************)
(* Where the proof of a kept contest verifies, the contest is the one that *)
(* Encryptor makes of the same votes with the same nonces: precomputing    *)
(* cannot be told from encrypting at once.                                 *)
(***************************************************************************)
PlaintextOf(c) ==
  [s \in DOMAIN votes[c] |->
     [selectionId  |-> contests[c].selections[s].selectionId,
      vote         |-> votes[c][s],
      extendedData |-> {}]]

MatchesEncryptor ==
  \A c \in DOMAIN contests \ (Pending \cup failed) :
    ProofVerifies(encryptedContest[c]) =>
      encryptedContest[c] = ContestEncryption(contests[c], PlaintextOf(c), ballotNonce)

(***************************************************************************)
(* A contest never encrypts fewer votes than are allowed, the undervotes   *)
(* are always filled up, and never more of the voter's, even after         *)
(* overvotes that threw.                                                   *)
(***************************************************************************)
CountsInBounds ==
  \A c \in DOMAIN contests \ Pending :
    /\ Accumulated(encryptedContest[c]) >= contests[c].votesAllowed
    /\ Cardinality({s \in RealSelections(encryptedContest[c]) : s.vote > 0})
         <= contests[c].votesAllowed

-----------------------------------------------------------------------------
(***************************************************************************)
(* "modify the placeholders for undervotes": the placeholders make up for  *)
(* the undervotes, so that the proof of every contest verifies.            *)
(***************************************************************************)
PlaceholdersFillUndervotes ==
  \A c \in DOMAIN contests \ Pending : ProofVerifies(encryptedContest[c])

(***************************************************************************)
(* The nonces of a returned ballot can be computed from its master nonce,  *)
(* the way CiphertextBallot.ballotNonce does.                              *)
(***************************************************************************)
NoncesRecoverable ==
  result = "returned" =>
    LET b == EncryptedBallot
    IN  \A c \in DOMAIN contests :
          b.contests[c].contestNonce =
            ContestNonce(contests[c], BallotNonce(b.manifestHash, b.ballotId, b.masterNonce))
=============================================================================
