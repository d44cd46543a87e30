--------------------- MODULE SelectionPrecomputeProofs ----------------------
(***************************************************************************)
(* What SelectionPrecompute returns is, where the proofs verify, the       *)
(* ballot that Encryptor would make.  At first they verify unless a vote   *)
(* is above 1.  For any manifest, any votes and any order of calls.        *)
(***************************************************************************)
EXTENDS SelectionPrecompute, EncryptionProofs

(***************************************************************************)
(* The inductive invariant.  Before the first encrypt no placeholder is    *)
(* marked.  When encrypt has just returned a ballot, no contest has too    *)
(* many votes, and each has marked at least as many placeholders as it has *)
(* undervotes: encrypting it again marks no other, and makes the same      *)
(* contest.  After the first time it is exactly as many.                   *)
(***************************************************************************)
Sum(c) == Votes(votes[c])

Returned ==
  /\ \A c \in DOMAIN contests : Sum(c) >= 0 /\ Sum(c) + marked[c] >= contests[c].votesAllowed
  /\ \A c \in DOMAIN contests : Sum(c) <= contests[c].votesAllowed
  /\ ballot = [c \in DOMAIN contests |-> EncryptedContest(c)]
  /\ calls # 0
  /\ calls = 1 => \A c \in DOMAIN contests : Sum(c) + marked[c] = contests[c].votesAllowed

Inv ==
  /\ TypeOK
  /\ \A c \in DOMAIN contests : contests[c].selections # << >>
  /\ votes = [c \in DOMAIN contests |-> votes[c]]
  /\ marked = [c \in DOMAIN contests |-> marked[c]]
  /\ calls = 0 => \A c \in DOMAIN contests : marked[c] = 0
  /\ result = "returned" => Returned

-----------------------------------------------------------------------------
\* The contests of a style are contests as the manifest describes them.
LEMMA StyleHasContests ==
  ASSUME manifest \in Manifests, contests = StyleContests(manifest, ballotStyleId)
  PROVE  /\ contests \in Seq(ToSet(contests)) /\ DOMAIN contests \subseteq Nat
         /\ \A c \in DOMAIN contests :
              /\ IsContest(contests[c]) /\ contests[c].votesAllowed \in Nat
              /\ contests[c] \in ToSet(manifest.contests)
<1>1. IsManifest(manifest)
  BY ManifestsAssumption
<1>2. /\ contests \in Seq(ToSet(contests)) /\ DOMAIN contests \subseteq Nat
      /\ \A c \in DOMAIN contests :
           contests[c] \in ToSet(manifest.contests) /\ IsContest(contests[c])
  BY <1>1, StyleContestsAre
<1> QED BY <1>2, ManifestsAssumption

\* A position that was found is a position of the list.
LEMMA FoundIsKnown ==
  ASSUME NEW contestId, NEW selectionId, Known(contestId, selectionId), TypeOK
  PROVE  /\ ContestWith(contestId) \in DOMAIN contests
         /\ SelectionWith(ContestWith(contestId), selectionId)
              \in DOMAIN contests[ContestWith(contestId)].selections
<1> DEFINE c == ContestWith(contestId)
           I == {i \in 1 .. Len(contests) : contests[i].contestId = contestId}
           J(d) == {i \in 1 .. Len(contests[d].selections) :
                      contests[d].selections[i].selectionId = selectionId}
<1>1. c = IF I # {} THEN Min(I) ELSE 0
  BY DEF ContestWith, SelectInSeq
<1>2. SelectionWith(c, selectionId) = IF J(c) # {} THEN Min(J(c)) ELSE 0
  BY DEF SelectionWith, SelectInSeq
<1>3. c # 0 /\ SelectionWith(c, selectionId) # 0
  BY DEF Known
<1>4. /\ contests \in Seq(ToSet(contests))
      /\ \A d \in DOMAIN contests : IsContest(contests[d])
  BY StyleHasContests DEF TypeOK
<1>5. I \in SUBSET (1 .. Len(contests)) /\ J(c) \in SUBSET (1 .. Len(contests[c].selections))
  OBVIOUS
<1> HIDE DEF c, I, J
<1>6. c \in DOMAIN contests
  BY <1>1, <1>3, <1>4, <1>5, FoundIsPlace
<1>7. contests[c].selections \in Seq(ToSet(contests[c].selections))
  BY <1>4, <1>6 DEF IsContest
<1>8. SelectionWith(c, selectionId) \in DOMAIN contests[c].selections
  BY <1>2, <1>3, <1>5, <1>7, FoundIsPlace
<1> QED BY <1>6, <1>8 DEF c

\* Under the invariant: a contest, its votes, and what they add up to.
LEMMA ContestIs ==
  ASSUME Inv, NEW c \in DOMAIN contests
  PROVE  /\ IsContest(contests[c]) /\ contests[c].selections # << >>
         /\ contests[c].votesAllowed \in Nat /\ c \in Nat
         /\ votes[c] \in [DOMAIN contests[c].selections -> {0} \cup VoteValues]
         /\ marked[c] \in 0 .. contests[c].votesAllowed
         /\ IntOn(votes[c], DOMAIN contests[c].selections)
         /\ Sum(c) = SumFunctionOnSet(votes[c], DOMAIN contests[c].selections)
         /\ Sum(c) \in Int
<1> DEFINE S == DOMAIN contests[c].selections
           cv == votes[c]
<1>1. /\ IsContest(contests[c]) /\ contests[c].votesAllowed \in Nat /\ c \in Nat
  BY StyleHasContests DEF Inv, TypeOK
<1>2. IsFiniteSet(S)
  BY <1>1, ListIsFinite DEF IsContest
<1>3. /\ cv \in [S -> {0} \cup VoteValues] /\ marked[c] \in 0 .. contests[c].votesAllowed
      /\ contests[c].selections # << >>
  BY DEF Inv, TypeOK
<1> HIDE DEF S, cv
<1>4. \A s \in S : cv[s] \in Int
  <2>1. {0} \cup VoteValues \subseteq Int
    BY VotesAssumption
  <2> QED BY <1>3, <2>1
<1>5. IntOn(cv, S)
  BY <1>4 DEF IntOn
<1>6. Sum(c) = SumFunctionOnSet(cv, S)
  <2>1. DOMAIN cv = S
    BY <1>3
  <2>2. cv = [s \in S |-> cv[s]]
    BY <1>3
  <2>3. Votes(cv) = SumFunctionOnSet(cv, S)
    BY <2>1, <2>2 DEF Votes, SumOver, SumFunction
  <2> QED BY <2>3 DEF Sum, cv
<1>7. Sum(c) \in Int
  BY <1>2, <1>5, <1>6, SumInt
<1> QED BY <1>1, <1>3, <1>5, <1>6, <1>7 DEF S, cv

\* How many placeholders encrypting a contest marks.
LEMMA MarkedIs ==
  ASSUME Inv, NEW c \in DOMAIN contests
  PROVE  /\ MarkedAfter(c) \in 0 .. contests[c].votesAllowed
         /\ ~EncryptFails(c) =>
              /\ Sum(c) >= 0 /\ Sum(c) <= contests[c].votesAllowed
              /\ MarkedAfter(c) = IF Sum(c) + marked[c] >= contests[c].votesAllowed
                                  THEN marked[c] ELSE contests[c].votesAllowed - Sum(c)
<1> DEFINE allowed == contests[c].votesAllowed
           new == Max({marked[c], Min({allowed, allowed - Sum(c)})})
<1>1. allowed \in Nat /\ marked[c] \in 0 .. allowed /\ Sum(c) \in Int
  BY ContestIs
<1>2. /\ MarkedAfter(c) = IF Sum(c) > allowed THEN marked[c] ELSE new
      /\ ~EncryptFails(c) <=> ~(Sum(c) > allowed) /\ ~(Sum(c) < 0)
  BY DEF MarkedAfter, EncryptFails, Overvoted, Sum
<1> HIDE DEF new, allowed
<1>3. ASSUME Sum(c) <= allowed
      PROVE  /\ new \in 0 .. allowed
             /\ Sum(c) >= 0 => new = IF marked[c] >= allowed - Sum(c) THEN marked[c] ELSE allowed - Sum(c)
  BY <1>1, <1>3, Marking DEF new
<1> QED BY <1>1, <1>2, <1>3 DEF allowed

\* Encrypting a contest again marks no other placeholder.
LEMMA MarkedStays ==
  ASSUME Inv, NEW c \in DOMAIN contests, ~EncryptFails(c),
         votes' = votes, contests' = contests, marked'[c] = MarkedAfter(c)
  PROVE  MarkedAfter(c)' = MarkedAfter(c)
<1> DEFINE allowed == contests[c].votesAllowed
           mk == MarkedAfter(c)
           new == Max({mk, Min({allowed, allowed - Sum(c)})})
<1>1. allowed \in Nat /\ marked[c] \in 0 .. allowed /\ Sum(c) \in Int
  BY ContestIs
<1>2. MarkedAfter(c)' = IF Sum(c) > allowed THEN mk ELSE new
  BY DEF MarkedAfter, Overvoted, Sum
<1>3. /\ mk \in 0 .. allowed /\ Sum(c) >= 0 /\ Sum(c) <= allowed
      /\ mk = IF Sum(c) + marked[c] >= allowed THEN marked[c] ELSE allowed - Sum(c)
  BY MarkedIs
<1> HIDE DEF mk, new, allowed
<1>4. new = IF mk >= allowed - Sum(c) THEN mk ELSE allowed - Sum(c)
  BY <1>1, <1>3, Marking DEF new
<1> QED BY <1>1, <1>2, <1>3, <1>4 DEF mk

-----------------------------------------------------------------------------
(***************************************************************************)
(* The invariant holds at the start and is preserved by every action.      *)
(***************************************************************************)
LEMMA InitInv == Init => Inv
<1> SUFFICES ASSUME Init PROVE Inv
  OBVIOUS
<1>1. contests = StyleContests(manifest, ballotStyleId) /\ manifest \in Manifests
  BY DEF Init, Constructible
<1>2. \A c \in DOMAIN contests : /\ contests[c].votesAllowed \in Nat
                                 /\ contests[c].selections # << >>
  BY <1>1, StyleHasContests DEF Init, Constructible, ToSet
<1>3. /\ votes = [c \in DOMAIN contests |-> [s \in DOMAIN contests[c].selections |-> 0]]
      /\ marked = [c \in DOMAIN contests |-> 0]
  BY DEF Init
<1>4. TypeOK
  BY <1>1, <1>2, <1>3 DEF TypeOK, Init
<1>5. /\ votes = [c \in DOMAIN contests |-> votes[c]]
      /\ marked = [c \in DOMAIN contests |-> marked[c]]
      /\ \A c \in DOMAIN contests : marked[c] = 0
  BY <1>3
<1>6. result # "returned"
  BY DEF Init
<1> QED BY <1>2, <1>4, <1>5, <1>6 DEF Inv

\* A step that changes nothing.
LEMMA StutterInv == Inv /\ UNCHANGED vars => Inv'
<1> SUFFICES ASSUME Inv, UNCHANGED vars PROVE Inv'
  OBVIOUS
<1>1. /\ manifest' = manifest /\ ballotStyleId' = ballotStyleId /\ contests' = contests
      /\ votes' = votes /\ marked' = marked /\ ballot' = ballot /\ result' = result
      /\ calls' = calls
  BY DEF vars, given
<1> QED BY <1>1 DEF Inv, TypeOK, Returned, Sum, EncryptedContest, VoteOfPlaceholder, MarkedAfter,
                    Overvoted, ballotNonce

\* A vote that is refused keeps the invariant.
LEMMA RefuseVoteInv ==
  ASSUME Inv, NEW contestId, NEW selectionId, RefuseVote(contestId, selectionId)
  PROVE  Inv'
BY DEF Inv, TypeOK, RefuseVote, given

\* A vote keeps it: the selection is encrypted again, the placeholders stay.
LEMMA VoteInv ==
  ASSUME Inv, NEW contestId, NEW selectionId, NEW vote \in VoteValues,
         Vote(contestId, selectionId, vote)
  PROVE  Inv'
<1> DEFINE c == ContestWith(contestId)
           s == SelectionWith(c, selectionId)
           cv == VotesAfter(c, s, vote)
<1>1. c \in DOMAIN contests /\ s \in DOMAIN contests[c].selections
  BY FoundIsKnown DEF Vote, Inv
<1>2. /\ votes' = [votes EXCEPT ![c] = cv] /\ result' = "voted"
      /\ contests' = contests /\ manifest' = manifest /\ ballotStyleId' = ballotStyleId
      /\ marked' = marked /\ calls' = calls
  BY DEF Vote, given
<1>3. cv \in [DOMAIN contests[c].selections -> {0} \cup VoteValues]
  <2>1. votes[c] \in [DOMAIN contests[c].selections -> {0} \cup VoteValues]
    BY <1>1, ContestIs
  <2> HIDE DEF c, s
  <2> QED BY <1>1, <2>1 DEF VotesAfter
<1> HIDE DEF c, s, cv
<1>4. \A d \in DOMAIN contests :
        votes'[d] \in [DOMAIN contests[d].selections -> {0} \cup VoteValues]
  <2> SUFFICES ASSUME NEW d \in DOMAIN contests
               PROVE  votes'[d] \in [DOMAIN contests[d].selections -> {0} \cup VoteValues]
    OBVIOUS
  <2>1. votes'[d] = IF d = c THEN cv ELSE votes[d]
    BY <1>2 DEF Inv
  <2>2. votes[d] \in [DOMAIN contests[d].selections -> {0} \cup VoteValues]
    BY ContestIs
  <2> QED BY <1>3, <2>1, <2>2
<1>5. TypeOK'
  BY <1>2, <1>4 DEF Inv, TypeOK
<1>6. votes' = [d \in DOMAIN contests |-> votes'[d]]
  BY <1>2 DEF Inv
<1> QED BY <1>2, <1>5, <1>6 DEF Inv

\* encrypt keeps it: it marks placeholders and never takes a mark away.
LEMMA EncryptInv ==
  ASSUME Inv, Encrypt
  PROVE  Inv'
<1>1. /\ marked' = [c \in DOMAIN contests |->
                      IF c \in Reached THEN MarkedAfter(c) ELSE marked[c]]
      /\ \/ /\ Failing = {} /\ result' = "returned"
            /\ ballot' = [c \in DOMAIN contests |-> EncryptedContest(c)]
         \/ Failing # {} /\ result' = "threw"
      /\ calls' = Min({2, calls + 1})
      /\ votes' = votes
      /\ contests' = contests /\ manifest' = manifest /\ ballotStyleId' = ballotStyleId
  BY DEF Encrypt, given
<1>2. calls \in 0 .. 2 /\ calls' = IF calls = 0 THEN 1 ELSE 2
  <2>1. calls \in 0 .. 2
    BY DEF Inv, TypeOK
  <2> DEFINE next == calls + 1
  <2>2. next \in Int /\ 2 \in Int /\ calls' = Min({2, next})
    BY <1>1, <2>1
  <2> HIDE DEF next
  <2>3. Min({2, next}) = IF 2 <= next THEN 2 ELSE next
    BY <2>2, OfTwo
  <2> QED BY <2>1, <2>2, <2>3 DEF next
<1>3. \A c \in DOMAIN contests :
        /\ marked'[c] \in 0 .. contests[c].votesAllowed
        /\ votes[c] \in [DOMAIN contests[c].selections -> {0} \cup VoteValues]
  <2> SUFFICES ASSUME NEW c \in DOMAIN contests
               PROVE  /\ marked'[c] \in 0 .. contests[c].votesAllowed
                      /\ votes[c] \in [DOMAIN contests[c].selections -> {0} \cup VoteValues]
    OBVIOUS
  <2> QED BY <1>1, ContestIs, MarkedIs
<1>4. TypeOK'
  <2>1. result' \in {"constructed", "refused", "voted", "threw", "returned"} /\ calls' \in 0 .. 2
    BY <1>1, <1>2
  <2> QED BY <1>1, <1>3, <2>1 DEF Inv, TypeOK
<1>5. ASSUME result' = "returned"
      PROVE  Returned'
  <2>1. \A c \in DOMAIN contests : marked'[c] = MarkedAfter(c) /\ ~EncryptFails(c)
    BY <1>1, <1>5 DEF Reached, Failing
  <2>2. ASSUME NEW c \in DOMAIN contests
        PROVE  /\ Sum(c) \in Int /\ Sum(c) >= 0 /\ Sum(c) <= contests[c].votesAllowed
               /\ Sum(c) + marked'[c] >= contests[c].votesAllowed
               /\ calls = 0 => Sum(c) + marked'[c] = contests[c].votesAllowed
               /\ EncryptedContest(c)' = EncryptedContest(c)
    <3>1. /\ contests[c].votesAllowed \in Nat /\ marked[c] \in 0 .. contests[c].votesAllowed
          /\ Sum(c) \in Int
          /\ calls = 0 => marked[c] = 0
      BY ContestIs DEF Inv
    <3>2. /\ Sum(c) >= 0 /\ Sum(c) <= contests[c].votesAllowed
          /\ marked'[c] = IF Sum(c) + marked[c] >= contests[c].votesAllowed
                          THEN marked[c] ELSE contests[c].votesAllowed - Sum(c)
      BY <2>1, MarkedIs
    <3>3. MarkedAfter(c)' = MarkedAfter(c)
      BY <1>1, <2>1, MarkedStays
    <3>4. EncryptedContest(c)' = EncryptedContest(c)
      BY <1>1, <3>3 DEF EncryptedContest, VoteOfPlaceholder, ballotNonce
    <3> QED BY <3>1, <3>2, <3>4
  <2>3. \A c \in DOMAIN contests : Sum(c)' = Sum(c)
    BY <1>1 DEF Sum
  <2>4. ballot' = [c \in DOMAIN contests' |-> EncryptedContest(c)']
    BY <1>1, <1>5, <2>2
  <2> QED BY <1>1, <1>2, <2>2, <2>3, <2>4 DEF Returned
<1>6. marked' = [c \in DOMAIN contests |-> marked'[c]]
  BY <1>1
<1>7. \A c \in DOMAIN contests : contests[c].selections # << >>
  BY DEF Inv
<1>8. calls' # 0
  BY <1>2
<1> QED BY <1>1, <1>4, <1>5, <1>6, <1>7, <1>8 DEF Inv

(***************************************************************************)
(* The invariant holds of every run of vote and encrypt.                   *)
(***************************************************************************)
THEOREM Invariance == Spec => []Inv
<1>1. Inv /\ [Next]_vars => Inv'
  <2> SUFFICES ASSUME Inv, [Next]_vars PROVE Inv'
    OBVIOUS
  <2>1. ASSUME NEW contestId \in ContestIds, NEW selectionId \in SelectionIds,
               RefuseVote(contestId, selectionId)
        PROVE  Inv'
    BY <2>1, RefuseVoteInv
  <2>2. ASSUME NEW contestId \in ContestIds, NEW selectionId \in SelectionIds,
               NEW vote \in VoteValues, Vote(contestId, selectionId, vote)
        PROVE  Inv'
    BY <2>2, VoteInv
  <2>3. CASE Encrypt
    BY <2>3, EncryptInv
  <2>4. CASE UNCHANGED vars
    BY <2>4, StutterInv
  <2> QED BY <2>1, <2>2, <2>3, <2>4 DEF Next
<1> QED BY <1>1, InitInv, PTL DEF Spec

-----------------------------------------------------------------------------
(***************************************************************************)
(* The contest that encrypt makes: every vote other than 0 is encrypted as *)
(* 1, and the first placeholders are marked.                               *)
(***************************************************************************)
Total(c) == SumFunctionOnSet(AsOnes(votes[c]), DOMAIN contests[c].selections)

LEMMA EncryptedContestIs ==
  ASSUME Inv, NEW c \in DOMAIN contests
  PROVE  EncryptedContest(c)
           = ContestOf(contests[c], AsOnes(votes[c]), NoData(contests[c]),
                       Marks(contests[c].votesAllowed, MarkedAfter(c)),
                       ContestNonce(contests[c], ballotNonce))
<1> DEFINE mc == contests[c]
           cv == votes[c]
           mk == MarkedAfter(c)
           ones == AsOnes(cv)
           x == NoData(mc)
           w == Marks(mc.votesAllowed, mk)
           nonce == ContestNonce(mc, ballotNonce)
<1>1. /\ DOMAIN cv = DOMAIN mc.selections
      /\ \A s \in DOMAIN mc.selections : EncryptedVote(cv[s]) = ones[s] /\ x[s] = {}
  BY ContestIs DEF EncryptedVote, AsOnes, NoData
<1>2. \A k \in 1 .. mc.votesAllowed : EncryptedVote(VoteOfPlaceholder(c, k)) = w[k]
  BY DEF Marks, EncryptedVote, VoteOfPlaceholder
<1>3. EncryptedContest(c)
        = EncryptContest(mc, nonce,
            [s \in DOMAIN cv |->
               EncryptSelection(EncryptedVote(cv[s]), {}, mc.selections[s], nonce, FALSE)]
            \o [k \in 1 .. mc.votesAllowed |->
                  EncryptSelection(EncryptedVote(VoteOfPlaceholder(c, k)), {},
                                   PlaceholderOf(mc, k), nonce, TRUE)])
  BY DEF EncryptedContest
<1> HIDE DEF mc, cv, ones, x, mk, w, nonce
<1>4. [s \in DOMAIN cv |->
         EncryptSelection(EncryptedVote(cv[s]), {}, mc.selections[s], nonce, FALSE)]
        = RealOf(mc, ones, x, nonce)
  BY <1>1, Zenon DEF RealOf
<1>5. [k \in 1 .. mc.votesAllowed |->
         EncryptSelection(EncryptedVote(VoteOfPlaceholder(c, k)), {},
                          PlaceholderOf(mc, k), nonce, TRUE)]
        = FillerOf(mc, w, nonce)
  BY <1>2, Zenon DEF FillerOf
<1>6. EncryptedContest(c)
        = EncryptContest(mc, nonce, RealOf(mc, ones, x, nonce) \o FillerOf(mc, w, nonce))
  BY <1>3, <1>4, <1>5, Zenon
<1> QED BY <1>6 DEF ContestOf, mc, cv, ones, x, mk, w, nonce

\* A contest of a ballot just returned: what it encrypts in all, and that it
\* is Encryptor's as soon as that is votesAllowed.
LEMMA ReturnedContestIs ==
  ASSUME Inv, result = "returned", NEW c \in DOMAIN contests
  PROVE  /\ Accumulated(ballot[c]) = Total(c) + marked[c]
         /\ ballot[c].constant = contests[c].votesAllowed
         /\ Total(c) \in Int /\ IntOn(AsOnes(votes[c]), DOMAIN contests[c].selections)
         /\ Total(c) + marked[c] = contests[c].votesAllowed =>
              ballot[c] = EncryptorMakes(c, AsOnes(votes[c]))
<1> DEFINE mc == contests[c]
           S == DOMAIN mc.selections
           ones == AsOnes(votes[c])
           x == NoData(mc)
           limit == mc.votesAllowed
           w == Marks(limit, marked[c])
           nonce == ContestNonce(mc, ballotNonce)
           selections == [s \in DOMAIN ones |->
                            [selectionId  |-> mc.selections[s].selectionId,
                             vote         |-> ones[s],
                             extendedData |-> {}]]
<1>1. /\ IsContest(mc) /\ mc.selections # << >> /\ limit \in Nat
      /\ marked[c] \in 0 .. limit /\ Sum(c) \in Int
      /\ votes[c] \in [S -> {0} \cup VoteValues]
  BY ContestIs
<1>2. /\ ones = [s \in S |-> ones[s]] /\ DOMAIN ones = S
      /\ \A s \in S : ones[s] \in {0, 1}
  BY <1>1 DEF AsOnes
<1>3. IntOn(ones, S)
  <2> HIDE DEF S, ones
  <2> QED BY <1>2 DEF IntOn
<1>4. MarkedAfter(c) = marked[c]
  <2>1. Sum(c) >= 0 /\ Sum(c) <= limit /\ Sum(c) + marked[c] >= limit
    BY DEF Inv, Returned
  <2>2. ~EncryptFails(c)
    BY <1>1, <2>1 DEF EncryptFails, Overvoted, Sum
  <2> QED BY <2>1, <2>2, MarkedIs
<1>5. ballot[c] = ContestOf(mc, ones, x, w, nonce)
  <2>1. ballot[c] = EncryptedContest(c)
    BY DEF Inv, Returned
  <2> QED BY <1>4, <2>1, EncryptedContestIs
<1>6. IntOn(w, 1 .. limit) /\ SumFunctionOnSet(w, 1 .. limit) = marked[c]
  <2>1. \A k \in 1 .. limit : w[k] \in Int
    BY DEF Marks
  <2> QED BY <1>1, <2>1, MarksSum DEF IntOn
<1>7. \A i, j \in S : mc.selections[i].selectionId = mc.selections[j].selectionId => i = j
  BY StyleHasContests, ManifestsAssumption DEF Inv, TypeOK
<1>8. Total(c) = SumFunctionOnSet(ones, S)
  BY DEF Total
<1>9. EncryptorMakes(c, ones) = ContestEncryption(mc, selections, ballotNonce)
  BY DEF EncryptorMakes
<1>10. x = NoData(mc) /\ nonce = ContestNonce(mc, ballotNonce) /\ limit = mc.votesAllowed
       /\ S = DOMAIN mc.selections
  OBVIOUS
<1> HIDE DEF mc, w, ones, x, nonce, limit
<1>11. /\ Accumulated(ballot[c]) = Total(c) + marked[c]
       /\ ballot[c].constant = limit
  BY <1>1, <1>3, <1>5, <1>6, <1>8, <1>10, ContestOfHas
<1>12. VotesFor(mc, selections) = ones /\ DataOf(mc, selections) = x
  BY <1>1, <1>2, <1>7, <1>10, VotesForAll
<1> HIDE DEF selections, S
<1>13. /\ Total(c) \in Int
       /\ EncryptorMakes(c, ones)
            = ContestOf(mc, ones, x, Marks(limit, limit - Total(c)), nonce)
  BY <1>1, <1>3, <1>8, <1>9, <1>10, <1>12, ContestEncryptionIs
<1>14. ASSUME Total(c) + marked[c] = limit
       PROVE  ballot[c] = EncryptorMakes(c, ones)
  <2>1. marked[c] = limit - Total(c)
    BY <1>1, <1>13, <1>14
  <2> QED BY <1>5, <1>13, <2>1 DEF w
<1> QED BY <1>3, <1>10, <1>11, <1>13, <1>14 DEF ones, limit, S, mc

(***************************************************************************)
(* The invariant implies the properties.                                   *)
(***************************************************************************)
LEMMA InvVerifiedMatchesEncryptor == Inv => VerifiedMatchesEncryptor
<1> SUFFICES ASSUME Inv, result = "returned", NEW c \in DOMAIN contests,
                    ProofVerifies(ballot[c])
             PROVE  ballot[c] = EncryptorMakes(c, AsOnes(votes[c]))
  BY DEF VerifiedMatchesEncryptor
<1> QED BY ReturnedContestIs DEF ProofVerifies

\* Of votes of 0 and 1 each is encrypted as it is, and the first time as many
\* placeholders are marked as there are undervotes.
LEMMA InvFirstMatchesEncryptor == Inv => FirstMatchesEncryptor
<1> SUFFICES ASSUME Inv, result = "returned", calls = 1, ProperVotes
             PROVE  ballot = [c \in DOMAIN contests |-> EncryptorMakes(c, votes[c])]
  BY DEF FirstMatchesEncryptor
<1>1. ASSUME NEW c \in DOMAIN contests
      PROVE  ballot[c] = EncryptorMakes(c, votes[c])
  <2>1. AsOnes(votes[c]) = votes[c]
    <3>1. votes[c] \in [DOMAIN contests[c].selections -> {0} \cup VoteValues]
      BY ContestIs
    <3>2. c \in DOMAIN votes
      BY DEF Inv
    <3>3. \A s \in DOMAIN votes[c] : votes[c][s] \in {0, 1}
      BY <3>2 DEF ProperVotes
    <3> QED BY <3>1, <3>3 DEF AsOnes
  <2>2. Total(c) = Sum(c)
    BY <2>1, ContestIs DEF Total
  <2>3. Sum(c) + marked[c] = contests[c].votesAllowed
    BY DEF Inv, Returned
  <2> QED BY <2>1, <2>2, <2>3, ReturnedContestIs
<1>2. ballot = [c \in DOMAIN contests |-> ballot[c]]
  <2>1. ballot = [c \in DOMAIN contests |-> EncryptedContest(c)]
    BY DEF Inv, Returned
  <2> QED BY <2>1
<1> QED BY <1>1, <1>2

\* The first time the votes and the marks add up to votesAllowed, so that the
\* proof tells whether the votes encrypted add up to the votes given.
LEMMA InvFirstProofsTellVotes == Inv => FirstProofsTellVotes
<1> SUFFICES ASSUME Inv, result = "returned", calls = 1, NEW c \in DOMAIN contests,
                    \A s \in DOMAIN votes[c] : votes[c][s] >= 0
             PROVE  ProofVerifies(ballot[c]) <=> \A s \in DOMAIN votes[c] : votes[c][s] \in {0, 1}
  BY DEF FirstProofsTellVotes
<1> DEFINE S == DOMAIN contests[c].selections
           cv == votes[c]
           ones == AsOnes(cv)
<1>1. /\ IntOn(cv, S) /\ Sum(c) = SumFunctionOnSet(cv, S) /\ Sum(c) \in Int
      /\ IsContest(contests[c]) /\ contests[c].votesAllowed \in Nat /\ marked[c] \in Int
      /\ DOMAIN cv = S
  BY ContestIs
<1>2. /\ Total(c) \in Int /\ IntOn(ones, S) /\ Total(c) = SumFunctionOnSet(ones, S)
      /\ ProofVerifies(ballot[c]) <=> Total(c) + marked[c] = contests[c].votesAllowed
  BY ReturnedContestIs DEF ProofVerifies, Total
<1>3. Sum(c) + marked[c] = contests[c].votesAllowed
  BY DEF Inv, Returned
<1>4. ProofVerifies(ballot[c]) <=> SumFunctionOnSet(ones, S) = SumFunctionOnSet(cv, S)
  <2>1. Total(c) + marked[c] = contests[c].votesAllowed <=> Total(c) = Sum(c)
    <3>1. Total(c) \in Int /\ Sum(c) \in Int /\ marked[c] \in Int
          /\ contests[c].votesAllowed \in Int
      BY <1>1, <1>2
    <3> HIDE DEF Sum
    <3> QED BY ONLY <3>1, <1>3
  <2> HIDE DEF S, cv, ones
  <2> QED BY <1>1, <1>2, <2>1
<1>5. IsFiniteSet(S)
  BY <1>1, ListIsFinite DEF IsContest
<1>6. \A s \in S : /\ cv[s] \in Int /\ cv[s] >= 0
                   /\ ones[s] = IF cv[s] = 0 THEN 0 ELSE 1
  BY <1>1 DEF AsOnes, IntOn
<1> HIDE DEF S, cv, ones
<1>7. \A s \in S : ones[s] <= cv[s] /\ (ones[s] = cv[s] <=> cv[s] \in {0, 1})
  BY <1>6
<1>8. ASSUME SumFunctionOnSet(ones, S) = SumFunctionOnSet(cv, S), NEW s \in S
      PROVE  cv[s] \in {0, 1}
  <2>1. ones[s] = cv[s]
    BY <1>1, <1>2, <1>5, <1>7, <1>8, SumTells
  <2> QED BY <1>7, <2>1
<1>9. ASSUME \A s \in S : cv[s] \in {0, 1}
      PROVE  SumFunctionOnSet(ones, S) = SumFunctionOnSet(cv, S)
  BY <1>5, <1>6, <1>7, <1>9, SumSame
<1> QED BY <1>1, <1>4, <1>8, <1>9 DEF cv

-----------------------------------------------------------------------------
(***************************************************************************)
(* Votes stay what callers gave, and never are more placeholders marked    *)
(* than the contest has, whatever is called and whatever throws.           *)
(***************************************************************************)
THEOREM TypeCorrect == Spec => []TypeOK
BY Invariance, PTL DEF Inv

(***************************************************************************)
(* The ballot that the first encrypt returns is the one that Encryptor     *)
(* makes of the same votes.                                                *)
(***************************************************************************)
THEOREM FirstBallotMatchesEncryptor == Spec => []FirstMatchesEncryptor
BY Invariance, InvFirstMatchesEncryptor, PTL

(***************************************************************************)
(* Whatever was voted and encrypted before: a returned contest whose proof *)
(* verifies is the one that Encryptor makes of the votes, each vote other  *)
(* than 0 counted as 1.                                                    *)
(***************************************************************************)
THEOREM VerifiedContestsMatchEncryptor == Spec => []VerifiedMatchesEncryptor
BY Invariance, InvVerifiedMatchesEncryptor, PTL

(***************************************************************************)
(* In the ballot that the first encrypt returns, the proof of a contest    *)
(* without negative votes verifies exactly if none of its votes is above   *)
(* 1.                                                                      *)
(***************************************************************************)
THEOREM FirstProofTells == Spec => []FirstProofsTellVotes
BY Invariance, InvFirstProofsTellVotes, PTL

(***************************************************************************)
(* Calling encrypt again, with no vote in between, returns the same        *)
(* ballot: the placeholders of the first call suffice.                     *)
(***************************************************************************)
THEOREM EncryptingAgainIsStable == Spec => EncryptIsStable
<1>1. Inv /\ [Next]_vars => [result = "returned" /\ result' = "returned" => ballot' = ballot]_vars
  <2> SUFFICES ASSUME Inv, Next, result = "returned", result' = "returned"
               PROVE  ballot' = ballot
    BY DEF vars
  <2>1. Encrypt
    BY DEF Next, RefuseVote, Vote
  <2>2. ballot' = [c \in DOMAIN contests |-> EncryptedContest(c)]
    BY <2>1 DEF Encrypt
  <2> QED BY <2>2 DEF Inv, Returned
<1> QED BY <1>1, Invariance, PTL DEF Spec, EncryptIsStable
=============================================================================
