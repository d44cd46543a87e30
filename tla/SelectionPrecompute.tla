------------------------- MODULE SelectionPrecompute -------------------------
(***************************************************************************)
(* SelectionPrecompute: one ballot that is voted on selection by           *)
(* selection.  The encryption of 0 is made in the constructor and the one  *)
(* of 1 by the first vote, so a vote cannot throw; encrypt sees to the     *)
(* limits and the placeholders.                                            *)
(***************************************************************************)
EXTENDS Encryption

CONSTANTS
  Manifests,      \* the manifests of elections
  Styles,         \* the ballot styles callers ask for
  ContestIds,     \* the contest ids callers vote on
  SelectionIds,   \* the selection ids callers vote on
  VoteValues,     \* the votes callers give
  NotReturned     \* no ballot was returned yet

(***************************************************************************)
(* The manifests are those of elections: nowhere is a negative number of   *)
(* votes allowed, and no contest has two selections with the same id.      *)
(***************************************************************************)
ASSUME ManifestsAssumption ==
  \A m \in Manifests :
    /\ IsManifest(m)
    /\ \A mc \in ToSet(m.contests) :
         /\ mc.votesAllowed \in Nat
         /\ \A i, j \in DOMAIN mc.selections :
              mc.selections[i].selectionId = mc.selections[j].selectionId => i = j

ASSUME VotesAssumption == VoteValues \subseteq Int

VARIABLES
  manifest, ballotStyleId,
  contests,   \* the descriptions of the style's contests
  votes,      \* votes[c][s]: Selection.vote of contest c
  marked,     \* marked[c]: placeholders of c whose vote is 1, from the first
  ballot,     \* the contests of the ballot that encrypt returned last
  result,     \* how the last call ended
  calls       \* history: encrypt was not called yet, or once, or more often

given == <<manifest, ballotStyleId, contests>>
vars == <<given, votes, marked, ballot, result, calls>>

ballotNonce == BallotNonce(ManifestHash(manifest), "ballot", <<"master">>)

\* A mutant: the selections with a vote are counted, whatever it is.
VotesCounted(contestVotes) == SumOver(contestVotes, LAMBDA v : IF v = 0 THEN 0 ELSE 1)

Votes(contestVotes) == SumOver(contestVotes, LAMBDA v : v)

-----------------------------------------------------------------------------
Constructible ==
  /\ ballotStyleId \in DOMAIN manifest.styles
  /\ contests = StyleContests(manifest, ballotStyleId)
  /\ \A mc \in ToSet(contests) : mc.selections # << >>

Init ==
  /\ manifest \in Manifests
  /\ ballotStyleId \in Styles
  /\ Constructible
  /\ votes = [c \in DOMAIN contests |-> [s \in DOMAIN contests[c].selections |-> 0]]
  /\ marked = [c \in DOMAIN contests |-> 0]
  /\ ballot = NotReturned
  /\ result = "constructed"
  /\ calls = 0

(***************************************************************************)
(* vote: a selection that is not there is refused.  In a one_of_m contest  *)
(* all selections are cleared first.                                       *)
(***************************************************************************)
ContestWith(contestId) ==
  SelectInSeq(contests, LAMBDA mc : mc.contestId = contestId)

SelectionWith(c, selectionId) ==
  SelectInSeq(contests[c].selections, LAMBDA ms : ms.selectionId = selectionId)

Known(contestId, selectionId) ==
  ContestWith(contestId) # 0 /\ SelectionWith(ContestWith(contestId), selectionId) # 0

VotesAfter(c, s, vote) ==
  LET others == IF contests[c].voteVariation = "one_of_m"
                THEN [t \in DOMAIN votes[c] |-> 0] ELSE votes[c]
  IN  [others EXCEPT ![s] = vote]

RefuseVote(contestId, selectionId) ==
  /\ ~Known(contestId, selectionId)
  /\ result' = "refused"
  /\ UNCHANGED <<given, votes, marked, ballot, calls>>

Vote(contestId, selectionId, vote) ==
  /\ Known(contestId, selectionId)
  /\ LET c == ContestWith(contestId)
     IN  votes' = [votes EXCEPT ![c] = VotesAfter(c, SelectionWith(c, selectionId), vote)]
  /\ result' = "voted"
  /\ UNCHANGED <<given, marked, ballot, calls>>

(***************************************************************************)
(* Contest.encryptedContest throws for an overvote, and for a negative sum *)
(* of votes when it has run out of placeholders.                           *)
(***************************************************************************)
Overvoted(c) == Votes(votes[c]) > contests[c].votesAllowed
EncryptFails(c) == Overvoted(c) \/ Votes(votes[c]) < 0

\* Mutants: placeholders are marked anew every time; one too few is marked.
MarkedMore(c) ==
  IF Overvoted(c) THEN marked[c]
  ELSE marked[c] + contests[c].votesAllowed - Votes(votes[c])

MarkedOneLess(c) ==
  IF Overvoted(c) THEN marked[c]
  ELSE Max({marked[c], contests[c].votesAllowed - Votes(votes[c]) - 1})

MarkedAfter(c) ==
  LET allowed == contests[c].votesAllowed
  IN  IF Overvoted(c) THEN marked[c]
      ELSE Max({marked[c], Min({allowed, allowed - Votes(votes[c])})})

\* Selection.encryptedSelection: zero, or else one.
EncryptedVote(vote) == IF vote = 0 THEN 0 ELSE 1

\* A mutant: the placeholders are marked from the last one.
VoteFromLast(c, k) == IF k > contests[c].votesAllowed - MarkedAfter(c) THEN 1 ELSE 0

VoteOfPlaceholder(c, k) == IF k <= MarkedAfter(c) THEN 1 ELSE 0

EncryptedContest(c) ==
  LET mc == contests[c]
      nonce == ContestNonce(mc, ballotNonce)
      real == [s \in DOMAIN votes[c] |->
        EncryptSelection(EncryptedVote(votes[c][s]), {}, mc.selections[s], nonce, FALSE)]
      placeholders == [k \in 1 .. mc.votesAllowed |->
        EncryptSelection(EncryptedVote(VoteOfPlaceholder(c, k)), {},
                         PlaceholderOf(mc, k), nonce, TRUE)]
  IN  EncryptContest(mc, nonce, real \o placeholders)

(***************************************************************************)
(* encrypt: the contests in their order, up to the first one that throws.  *)
(* The placeholders it has marked stay marked.                             *)
(***************************************************************************)
Failing == {c \in DOMAIN contests : EncryptFails(c)}
Reached == {c \in DOMAIN contests : \A f \in Failing : c <= f}

Encrypt ==
  /\ marked' = [c \in DOMAIN contests |->
                  IF c \in Reached THEN MarkedAfter(c) ELSE marked[c]]
  /\ \/ /\ Failing = {}
        /\ ballot' = [c \in DOMAIN contests |-> EncryptedContest(c)]
        /\ result' = "returned"
     \/ /\ Failing # {}
        /\ result' = "threw"
        /\ UNCHANGED ballot
  /\ calls' = Min({2, calls + 1})
  /\ UNCHANGED <<given, votes>>

Next ==
  \/ \E contestId \in ContestIds, selectionId \in SelectionIds :
       \/ RefuseVote(contestId, selectionId)
       \/ \E vote \in VoteValues : Vote(contestId, selectionId, vote)
  \/ Encrypt

Spec == Init /\ [][Next]_vars

-----------------------------------------------------------------------------
TypeOK ==
  /\ contests = StyleContests(manifest, ballotStyleId)
  /\ manifest \in Manifests /\ ballotStyleId \in Styles
  /\ \A c \in DOMAIN contests :
       /\ votes[c] \in [DOMAIN contests[c].selections -> {0} \cup VoteValues]
       /\ marked[c] \in 0 .. contests[c].votesAllowed
  /\ result \in {"constructed", "refused", "voted", "threw", "returned"}
  /\ calls \in 0 .. 2

\* The votes that a caller is expected to give.
ProperVotes == \A c \in DOMAIN votes : \A s \in DOMAIN votes[c] : votes[c][s] \in {0, 1}

(***************************************************************************)
(* The first time encrypt is called, the ballot it returns is the one that *)
(* Encryptor makes of the same votes with the same nonces, whatever the    *)
(* order of the votes, the cleared and the repeated ones included.         *)
(***************************************************************************)
EncryptorMakes(c, contestVotes) ==
  ContestEncryption(contests[c],
    [s \in DOMAIN contestVotes |->
       [selectionId  |-> contests[c].selections[s].selectionId,
        vote         |-> contestVotes[s],
        extendedData |-> {}]],
    ballotNonce)

FirstMatchesEncryptor ==
  result = "returned" /\ calls = 1 /\ ProperVotes =>
    ballot = [c \in DOMAIN contests |-> EncryptorMakes(c, votes[c])]

(***************************************************************************)
(* Whatever was voted and encrypted before, a returned contest whose proof *)
(* verifies is the one that Encryptor makes of the votes, each vote other  *)
(* than 0 counted as 1: a verifier catches every placeholder that an       *)
(* earlier encrypt has left marked.                                        *)
(***************************************************************************)
AsOnes(contestVotes) == [s \in DOMAIN contestVotes |-> IF contestVotes[s] = 0 THEN 0 ELSE 1]

VerifiedMatchesEncryptor ==
  result = "returned" =>
    \A c \in DOMAIN contests :
      ProofVerifies(ballot[c]) => ballot[c] = EncryptorMakes(c, AsOnes(votes[c]))

(***************************************************************************)
(* The sum of votes is checked and filled up although each vote other than *)
(* 0 is encrypted as 1.  In the first ballot returned the proof of a       *)
(* contest tells: it verifies exactly if no selection has a vote above 1.  *)
(***************************************************************************)
FirstProofsTellVotes ==
  result = "returned" /\ calls = 1 =>
    \A c \in DOMAIN contests :
      (\A s \in DOMAIN votes[c] : votes[c][s] >= 0) =>
        (ProofVerifies(ballot[c]) <=> \A s \in DOMAIN votes[c] : votes[c][s] \in {0, 1})

(***************************************************************************)
(* Encrypting again, without a vote in between, returns the same ballot.   *)
(***************************************************************************)
EncryptIsStable ==
  [][result = "returned" /\ result' = "returned" => ballot' = ballot]_vars
=============================================================================
