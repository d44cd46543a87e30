---------------------- MODULE ContestPrecomputeProofs -----------------------
(***************************************************************************)
(* What ContestPrecompute keeps is, where the proof verifies and the last  *)
(* vote did not throw, what Encryptor would make, for any manifest, any    *)
(* votes and any order of calls.                                           *)
(***************************************************************************)
EXTENDS ContestPrecompute, EncryptionProofs

(***************************************************************************)
(* The inductive invariant.  A contest that is encrypted is the encryption *)
(* of some votes cv that do not exceed the limit, with mk placeholders     *)
(* marked, enough for the undervotes of cv; and these are its present      *)
(* votes and placeholders, unless the last vote on it threw.               *)
(***************************************************************************)
Kept(c, cv, mk) ==
  /\ Votes(cv) <= contests[c].votesAllowed
  /\ contests[c].votesAllowed - Votes(cv) <= mk
  /\ encryptedContest[c] = ContestOf(contests[c], cv, NoData(contests[c]),
                                      Marks(contests[c].votesAllowed, mk), NonceOf(c))
  /\ c \notin failed => cv = votes[c] /\ mk = marked[c]

KeptInv ==
  \A c \in DOMAIN contests \ Pending :
    \E cv \in [DOMAIN contests[c].selections -> {0, 1}], mk \in 0 .. contests[c].votesAllowed :
      Kept(c, cv, mk)

Inv ==
  /\ TypeOK
  /\ \A c \in DOMAIN contests : contests[c].selections # << >>
  /\ votes = [c \in DOMAIN contests |-> votes[c]]
  /\ marked = [c \in DOMAIN contests |-> marked[c]]
  /\ encryptedContest = [c \in DOMAIN contests |-> encryptedContest[c]]
  /\ KeptInv

-----------------------------------------------------------------------------
\* The contests of a style are contests as the manifest describes them.
LEMMA StyleHasContests ==
  ASSUME manifest \in Manifests, contests = StyleContests(manifest, ballotStyleId)
  PROVE  /\ contests \in Seq(ToSet(contests)) /\ DOMAIN contests \subseteq Nat
         /\ \A c \in DOMAIN contests :
              /\ IsContest(contests[c]) /\ contests[c].votesAllowed \in Nat
              /\ contests[c] \in ToSet(manifest.contests)
<1>1. IsManifest(manifest)
  BY ManifestsAssumption
<1>2. /\ contests \in Seq(ToSet(contests)) /\ DOMAIN contests \subseteq Nat
      /\ \A c \in DOMAIN contests :
           contests[c] \in ToSet(manifest.contests) /\ IsContest(contests[c])
  BY <1>1, StyleContestsAre
<1> QED BY <1>2, ManifestsAssumption

\* The votes of a contest, and what a vote of 0 or 1 for each selection adds.
LEMMA VotesAre ==
  ASSUME NEW S, IsFiniteSet(S), NEW cv, cv = [s \in S |-> cv[s]], IntOn(cv, S)
  PROVE  Votes(cv) = SumFunctionOnSet(cv, S) /\ Votes(cv) \in Int
<1>1. DOMAIN cv = S
  OBVIOUS
<1>2. Votes(cv) = SumFunctionOnSet(cv, S)
  BY <1>1 DEF Votes, SumOver, SumFunction
<1> QED BY <1>2, SumInt

\* The votes of a contest are as many as its selections with a vote of 1.
LEMMA VotesCount ==
  ASSUME NEW S, IsFiniteSet(S), NEW cv \in [S -> {0, 1}], NEW Ones, Ones = {s \in S : cv[s] = 1}
  PROVE  /\ Votes(cv) = SumFunctionOnSet(cv, S)
         /\ Votes(cv) = Cardinality(Ones) /\ Votes(cv) \in Nat
<1>1. cv = [s \in S |-> cv[s]] /\ \A s \in S : cv[s] \in {0, 1}
  OBVIOUS
<1>2. IntOn(cv, S)
  BY <1>1 DEF IntOn
<1>3. Votes(cv) = SumFunctionOnSet(cv, S)
  BY <1>1, <1>2, VotesAre
<1>4. SumFunctionOnSet(cv, S) = Cardinality(Ones)
  BY <1>1, SumOfBits
<1>5. IsFiniteSet(Ones)
  BY FS_Subset
<1>6. Cardinality(Ones) \in Nat
  BY <1>5, FS_CardinalityType
<1> QED BY <1>3, <1>4, <1>6

\* A position that was found is a position of the list.
LEMMA FoundIsKnown ==
  ASSUME NEW contestId, NEW selectionId, Known(contestId, selectionId), TypeOK
  PROVE  /\ ContestWith(contestId) \in DOMAIN contests
         /\ SelectionWith(ContestWith(contestId), selectionId)
              \in DOMAIN contests[ContestWith(contestId)].selections
<1> DEFINE c == ContestWith(contestId)
           I == {i \in 1 .. Len(contests) : contests[i].contestId = contestId}
           J(d) == {i \in 1 .. Len(contests[d].selections) :
                      contests[d].selections[i].selectionId = selectionId}
<1>1. c = IF I # {} THEN Min(I) ELSE 0
  BY DEF ContestWith, SelectInSeq
<1>2. SelectionWith(c, selectionId) = IF J(c) # {} THEN Min(J(c)) ELSE 0
  BY DEF SelectionWith, SelectInSeq
<1>3. c # 0 /\ SelectionWith(c, selectionId) # 0
  BY DEF Known
<1>4. /\ contests \in Seq(ToSet(contests))
      /\ \A d \in DOMAIN contests : IsContest(contests[d])
  BY StyleHasContests DEF TypeOK
<1>5. I \in SUBSET (1 .. Len(contests)) /\ J(c) \in SUBSET (1 .. Len(contests[c].selections))
  OBVIOUS
<1> HIDE DEF c, I, J
<1>6. c \in DOMAIN contests
  BY <1>1, <1>3, <1>4, <1>5, FoundIsPlace
<1>7. contests[c].selections \in Seq(ToSet(contests[c].selections))
  BY <1>4, <1>6 DEF IsContest
<1>8. SelectionWith(c, selectionId) \in DOMAIN contests[c].selections
  BY <1>2, <1>3, <1>5, <1>7, FoundIsPlace
<1> QED BY <1>6, <1>8 DEF c

\* The encryption of a contest has the form of ContestOf.
LEMMA EncryptedWithIs ==
  ASSUME NEW c, NEW cv, NEW mk, DOMAIN cv = DOMAIN contests[c].selections
  PROVE  EncryptedWith(c, cv, mk)
           = ContestOf(contests[c], cv, NoData(contests[c]),
                       Marks(contests[c].votesAllowed, mk), NonceOf(c))
<1> DEFINE w == Marks(contests[c].votesAllowed, mk)
<1>1. EncryptedSelections(c, cv) = RealOf(contests[c], cv, NoData(contests[c]), NonceOf(c))
  BY DEF EncryptedSelections, RealOf, NoData
<1>2. EncryptedPlaceholders(c, mk) = FillerOf(contests[c], w, NonceOf(c))
  <2>1. \A k \in 1 .. contests[c].votesAllowed : w[k] = IF k <= mk THEN 1 ELSE 0
    BY DEF Marks
  <2> HIDE DEF w
  <2> QED BY <2>1, Zenon DEF EncryptedPlaceholders, FillerOf
<1> QED BY <1>1, <1>2 DEF EncryptedWith, ContestOf

(***************************************************************************)
(* Under the invariant: what the votes of a contest add up to, and how     *)
(* many placeholders are marked when they are encrypted.                   *)
(***************************************************************************)
LEMMA ContestIs ==
  ASSUME Inv, NEW c \in DOMAIN contests
  PROVE  /\ IsContest(contests[c]) /\ contests[c].selections # << >>
         /\ contests[c].votesAllowed \in Nat /\ c \in Nat
         /\ IsFiniteSet(DOMAIN contests[c].selections)
         /\ votes[c] \in [DOMAIN contests[c].selections -> {0} \cup VoteValues]
         /\ marked[c] \in 0 .. contests[c].votesAllowed
<1>1. /\ IsContest(contests[c]) /\ contests[c].votesAllowed \in Nat /\ c \in Nat
  BY StyleHasContests DEF Inv, TypeOK
<1>2. IsFiniteSet(DOMAIN contests[c].selections)
  BY <1>1, ListIsFinite DEF IsContest
<1> QED BY <1>1, <1>2 DEF Inv, TypeOK

\* The marked placeholders fill a contest that can be encrypted up to its votes allowed.
LEMMA MarkedIs ==
  ASSUME Inv, NEW c \in DOMAIN contests,
         NEW cv \in [DOMAIN contests[c].selections -> {0} \cup VoteValues]
  PROVE  /\ MarkedAfter(c, cv) \in 0 .. contests[c].votesAllowed
         /\ ~EncryptFails(c, cv) =>
              /\ cv \in [DOMAIN contests[c].selections -> {0, 1}]
              /\ Votes(cv) <= contests[c].votesAllowed
              /\ contests[c].votesAllowed - Votes(cv) <= MarkedAfter(c, cv)
<1> DEFINE S == DOMAIN contests[c].selections
           allowed == contests[c].votesAllowed
           room == allowed - Votes(cv)
           new == Max({marked[c], Min({allowed, allowed - Votes(cv)})})
<1>1. /\ allowed \in Nat /\ IsFiniteSet(S) /\ marked[c] \in 0 .. allowed
  BY ContestIs
<1>2. /\ \A s \in S : cv[s] \in {0} \cup VoteValues
      /\ cv = [s \in S |-> cv[s]] /\ DOMAIN cv = S
  OBVIOUS
<1> HIDE DEF S
<1>3. IntOn(cv, S)
  <2>1. {0} \cup VoteValues \subseteq Int
    BY VotesAssumption
  <2> QED BY <1>2, <2>1 DEF IntOn
<1>4. Votes(cv) \in Int
  BY <1>1, <1>2, <1>3, VotesAre
<1>5. MarkedAfter(c, cv) = IF Votes(cv) > allowed THEN marked[c] ELSE new
  BY DEF MarkedAfter, Overvoted
<1> HIDE DEF new
<1>6. ASSUME Votes(cv) <= allowed
      PROVE  /\ new \in 0 .. allowed
             /\ Votes(cv) >= 0 => new = IF marked[c] >= room THEN marked[c] ELSE room
  BY <1>1, <1>4, <1>6, Marking DEF new
<1>7. MarkedAfter(c, cv) \in 0 .. allowed
  BY <1>1, <1>4, <1>5, <1>6
<1>8. ASSUME ~EncryptFails(c, cv)
      PROVE  /\ cv \in [S -> {0, 1}] /\ Votes(cv) <= allowed /\ room <= MarkedAfter(c, cv)
  <2>1. Votes(cv) <= allowed /\ \A s \in S : cv[s] \in {0, 1}
    BY <1>1, <1>2, <1>4, <1>8 DEF EncryptFails, Overvoted, Encryptable
  <2>2. cv \in [S -> {0, 1}]
    BY <2>1, <1>2
  <2>3. Votes(cv) \in Nat
    BY <1>1, <2>2, VotesCount
  <2>4. room <= MarkedAfter(c, cv)
    BY <2>1, <2>3, <1>1, <1>4, <1>5, <1>6
  <2> QED BY <2>1, <2>2, <2>4
<1> QED BY <1>7, <1>8 DEF S

-----------------------------------------------------------------------------
(***************************************************************************)
(* The invariant holds at the start and is preserved by every action.      *)
(***************************************************************************)
LEMMA InitInv == Init => Inv
<1> SUFFICES ASSUME Init PROVE Inv
  OBVIOUS
<1>1. contests = StyleContests(manifest, ballotStyleId) /\ manifest \in Manifests
  BY DEF Init, Constructible
<1>2. \A c \in DOMAIN contests : /\ contests[c].votesAllowed \in Nat
                                 /\ contests[c].selections # << >>
  BY <1>1, StyleHasContests DEF Init, Constructible, ToSet
<1>3. /\ votes = [c \in DOMAIN contests |-> [s \in DOMAIN contests[c].selections |-> 0]]
      /\ marked = [c \in DOMAIN contests |-> 0]
      /\ encryptedContest = [c \in DOMAIN contests |-> NotEncrypted]
  BY DEF Init
<1>4. TypeOK
  BY <1>1, <1>2, <1>3 DEF TypeOK, Init
<1>5. DOMAIN contests \ Pending = {}
  BY <1>3 DEF Pending
<1>6. KeptInv
  BY <1>5 DEF KeptInv
<1>7. /\ votes = [c \in DOMAIN contests |-> votes[c]]
      /\ marked = [c \in DOMAIN contests |-> marked[c]]
      /\ encryptedContest = [c \in DOMAIN contests |-> encryptedContest[c]]
  BY <1>3
<1> QED BY <1>2, <1>4, <1>6, <1>7 DEF Inv

\* A step that changes nothing keeps the invariant.
LEMMA StutterInv == Inv /\ UNCHANGED vars => Inv'
BY DEF Inv, TypeOK, KeptInv, Kept, Pending, NonceOf, ballotNonce, vars, given

\* So does a vote that is refused.
LEMMA RefuseVoteInv ==
  ASSUME Inv, NEW contestId, NEW selectionId, RefuseVote(contestId, selectionId)
  PROVE  Inv'
BY DEF Inv, TypeOK, KeptInv, Kept, Pending, NonceOf, ballotNonce, RefuseVote, given

\* A vote keeps it: the contest is encrypted again, or waits for it.
LEMMA VoteInv ==
  ASSUME Inv, NEW contestId, NEW selectionId, NEW vote \in VoteValues,
         Vote(contestId, selectionId, vote)
  PROVE  Inv'
<1> DEFINE c == ContestWith(contestId)
           s == SelectionWith(c, selectionId)
           cv == VotesAfter(c, s, vote)
           mk == MarkedAfter(c, cv)
<1>1. c \in DOMAIN contests /\ s \in DOMAIN contests[c].selections
  BY FoundIsKnown DEF Vote, Inv
<1>2. /\ votes' = [votes EXCEPT ![c] = cv] /\ marked' = [marked EXCEPT ![c] = mk]
      /\ \/ /\ ~EncryptFails(c, cv)
            /\ encryptedContest' = [encryptedContest EXCEPT ![c] = EncryptedWith(c, cv, mk)]
            /\ result' = "voted" /\ failed' = failed \ {c}
         \/ /\ EncryptFails(c, cv)
            /\ result' = "threw" /\ failed' = failed \cup {c}
            /\ encryptedContest' = encryptedContest
      /\ UNCHANGED given
  BY DEF Vote
<1>3. cv \in [DOMAIN contests[c].selections -> {0} \cup VoteValues]
  <2>1. votes[c] \in [DOMAIN contests[c].selections -> {0} \cup VoteValues]
    BY <1>1, ContestIs
  <2> HIDE DEF c, s
  <2> QED BY <1>1, <2>1 DEF VotesAfter
<1> HIDE DEF c, s, cv, mk
<1>4. /\ mk \in 0 .. contests[c].votesAllowed
      /\ ~EncryptFails(c, cv) => /\ cv \in [DOMAIN contests[c].selections -> {0, 1}]
                                 /\ Votes(cv) <= contests[c].votesAllowed
                                 /\ contests[c].votesAllowed - Votes(cv) <= mk
  BY <1>1, <1>3, MarkedIs DEF mk
<1>5. DOMAIN votes = DOMAIN contests /\ DOMAIN marked = DOMAIN contests
      /\ DOMAIN encryptedContest = DOMAIN contests
  BY DEF Inv
<1>6. /\ votes'[c] = cv /\ marked'[c] = mk
      /\ \A d \in DOMAIN contests \ {c} : votes'[d] = votes[d] /\ marked'[d] = marked[d]
                                         /\ encryptedContest'[d] = encryptedContest[d]
      /\ \A d \in DOMAIN contests \ {c} : d \in failed' <=> d \in failed
  BY <1>1, <1>2, <1>5
<1>7. /\ contests' = contests /\ manifest' = manifest /\ ballotStyleId' = ballotStyleId
      /\ givenNonce' = givenNonce
      /\ \A d \in DOMAIN contests : NonceOf(d)' = NonceOf(d)
  BY <1>2 DEF given, NonceOf, ballotNonce
<1>8. TypeOK'
  <2>1. \A d \in DOMAIN contests :
          /\ votes'[d] \in [DOMAIN contests[d].selections -> {0} \cup VoteValues]
          /\ marked'[d] \in 0 .. contests[d].votesAllowed
    BY <1>3, <1>4, <1>6 DEF Inv, TypeOK
  <2>2. result' \in {"constructed", "refused", "voted", "threw", "returned"}
        /\ failed' \subseteq DOMAIN contests
    BY <1>1, <1>2 DEF Inv, TypeOK
  <2>3. /\ contests' = StyleContests(manifest', ballotStyleId')
        /\ manifest' \in Manifests /\ ballotStyleId' \in Styles /\ givenNonce' \in MasterNonces
    BY <1>7 DEF Inv, TypeOK
  <2> QED BY <1>7, <2>1, <2>2, <2>3 DEF TypeOK
<1>9. ASSUME NEW d \in DOMAIN contests, encryptedContest'[d] # NotEncrypted
      PROVE  \E v \in [DOMAIN contests[d].selections -> {0, 1}],
                m \in 0 .. contests[d].votesAllowed : Kept(d, v, m)'
  <2>1. CASE d = c /\ ~EncryptFails(c, cv)
    <3>1. encryptedContest'[c]
            = ContestOf(contests[c], cv, NoData(contests[c]),
                        Marks(contests[c].votesAllowed, mk), NonceOf(c))
      <4>1. DOMAIN cv = DOMAIN contests[c].selections
        BY <1>3
      <4>2. EncryptedWith(c, cv, mk)
              = ContestOf(contests[c], cv, NoData(contests[c]),
                          Marks(contests[c].votesAllowed, mk), NonceOf(c))
        BY <4>1, EncryptedWithIs
      <4> QED BY <1>1, <1>2, <1>5, <2>1, <4>2
    <3>2. PICK v \in [DOMAIN contests[d].selections -> {0, 1}],
               m \in 0 .. contests[d].votesAllowed : v = cv /\ m = mk
      BY <1>4, <2>1
    <3>3. Kept(d, v, m)'
      BY <1>1, <1>4, <1>6, <1>7, <2>1, <3>1, <3>2 DEF Kept
    <3> QED BY <2>1, <3>3
  <2>2. CASE d # c \/ EncryptFails(c, cv)
    <3>1. encryptedContest'[d] = encryptedContest[d]
      BY <1>1, <1>2, <1>6, <2>2
    <3>2. d \in DOMAIN contests \ Pending
      BY <1>9, <3>1 DEF Pending
    <3>3. PICK v \in [DOMAIN contests[d].selections -> {0, 1}],
               m \in 0 .. contests[d].votesAllowed : Kept(d, v, m)
      BY <3>2 DEF Inv, KeptInv
    <3>4. d \notin failed' => d \notin failed /\ d # c
      BY <1>2, <1>6, <2>2
    <3>5. Kept(d, v, m)'
      BY <1>6, <1>7, <3>1, <3>3, <3>4 DEF Kept
    <3> QED BY <3>5
  <2> QED BY <2>1, <2>2
<1>10. KeptInv'
  BY <1>7, <1>9 DEF KeptInv, Pending
<1>11. /\ votes' = [d \in DOMAIN contests |-> votes'[d]]
       /\ marked' = [d \in DOMAIN contests |-> marked'[d]]
       /\ encryptedContest' = [d \in DOMAIN contests |-> encryptedContest'[d]]
  BY <1>2 DEF Inv
<1> QED BY <1>7, <1>8, <1>10, <1>11 DEF Inv

\* encrypt keeps it: every contest that it reaches is up to date afterwards.
LEMMA EncryptInv ==
  ASSUME Inv, Encrypt
  PROVE  Inv'
<1>1. /\ marked' = [c \in DOMAIN contests |->
           IF c \in Reached THEN MarkedAfter(c, votes[c]) ELSE marked[c]]
      /\ encryptedContest' = [c \in DOMAIN contests |->
           IF c \in Reached \ Failing
           THEN EncryptedWith(c, votes[c], MarkedAfter(c, votes[c]))
           ELSE encryptedContest[c]]
      /\ result' \in {"returned", "threw"}
      /\ votes' = votes /\ failed' = failed /\ UNCHANGED given
  BY DEF Encrypt
<1>2. /\ contests' = contests /\ manifest' = manifest /\ ballotStyleId' = ballotStyleId
      /\ givenNonce' = givenNonce
      /\ \A d \in DOMAIN contests : NonceOf(d)' = NonceOf(d)
  BY <1>1 DEF given, NonceOf, ballotNonce
<1>3. \A c \in DOMAIN contests : marked'[c] \in 0 .. contests[c].votesAllowed
  <2> SUFFICES ASSUME NEW c \in DOMAIN contests
               PROVE  marked'[c] \in 0 .. contests[c].votesAllowed
    OBVIOUS
  <2>1. /\ votes[c] \in [DOMAIN contests[c].selections -> {0} \cup VoteValues]
        /\ marked[c] \in 0 .. contests[c].votesAllowed
    BY ContestIs
  <2>2. MarkedAfter(c, votes[c]) \in 0 .. contests[c].votesAllowed
    BY <2>1, MarkedIs
  <2> QED BY <1>1, <2>1, <2>2
<1>4. TypeOK'
  BY <1>1, <1>2, <1>3 DEF Inv, TypeOK
<1>5. ASSUME NEW d \in DOMAIN contests, encryptedContest'[d] # NotEncrypted
      PROVE  \E v \in [DOMAIN contests[d].selections -> {0, 1}],
                m \in 0 .. contests[d].votesAllowed : Kept(d, v, m)'
  <2>1. CASE d \in Reached \ Failing
    <3> DEFINE cv == votes[d]
               mk == MarkedAfter(d, cv)
    <3>1. cv \in [DOMAIN contests[d].selections -> {0} \cup VoteValues] /\ ~EncryptFails(d, cv)
      BY <2>1, ContestIs DEF Reached, Failing
    <3> HIDE DEF cv
    <3>2. /\ mk \in 0 .. contests[d].votesAllowed
          /\ cv \in [DOMAIN contests[d].selections -> {0, 1}]
          /\ Votes(cv) <= contests[d].votesAllowed
          /\ contests[d].votesAllowed - Votes(cv) <= mk
      BY <3>1, MarkedIs
    <3> HIDE DEF mk
    <3>3. EncryptedWith(d, cv, mk)
            = ContestOf(contests[d], cv, NoData(contests[d]),
                        Marks(contests[d].votesAllowed, mk), NonceOf(d))
      BY <3>1, EncryptedWithIs
    <3>4. encryptedContest'[d] = EncryptedWith(d, cv, mk) /\ marked'[d] = mk
      BY <1>1, <2>1 DEF cv, mk
    <3>5. PICK v \in [DOMAIN contests[d].selections -> {0, 1}],
               m \in 0 .. contests[d].votesAllowed : v = cv /\ m = mk
      BY <3>2
    <3>6. Kept(d, v, m)'
      BY <1>1, <1>2, <3>2, <3>3, <3>4, <3>5 DEF Kept, cv
    <3> QED BY <3>6
  <2>2. CASE d \notin Reached \ Failing
    <3>1. encryptedContest'[d] = encryptedContest[d]
      BY <1>1, <2>2
    <3>2. d \in DOMAIN contests \ Pending
      BY <1>5, <3>1 DEF Pending
    <3>3. PICK v \in [DOMAIN contests[d].selections -> {0, 1}],
               m \in 0 .. contests[d].votesAllowed : Kept(d, v, m)
      BY <3>2 DEF Inv, KeptInv
    <3>4. marked'[d] = marked[d]
      BY <1>1, <3>2 DEF Reached
    <3>5. Kept(d, v, m)'
      BY <1>1, <1>2, <3>1, <3>3, <3>4 DEF Kept
    <3> QED BY <3>5
  <2> QED BY <2>1, <2>2
<1>6. KeptInv'
  BY <1>2, <1>5 DEF KeptInv, Pending
<1>7. /\ votes' = [d \in DOMAIN contests |-> votes'[d]]
      /\ marked' = [d \in DOMAIN contests |-> marked'[d]]
      /\ encryptedContest' = [d \in DOMAIN contests |-> encryptedContest'[d]]
  BY <1>1 DEF Inv
<1>8. \A c \in DOMAIN contests : contests[c].selections # << >>
  BY DEF Inv
<1> QED BY <1>2, <1>4, <1>6, <1>7, <1>8 DEF Inv

(***************************************************************************)
(* The invariant holds of every run of vote and encrypt.                   *)
(***************************************************************************)
THEOREM Invariance == Spec => []Inv
<1>1. Inv /\ [Next]_vars => Inv'
  <2> SUFFICES ASSUME Inv, [Next]_vars PROVE Inv'
    OBVIOUS
  <2>1. ASSUME NEW contestId \in ContestIds, NEW selectionId \in SelectionIds,
               RefuseVote(contestId, selectionId)
        PROVE  Inv'
    BY <2>1, RefuseVoteInv
  <2>2. ASSUME NEW contestId \in ContestIds, NEW selectionId \in SelectionIds,
               NEW vote \in VoteValues, Vote(contestId, selectionId, vote)
        PROVE  Inv'
    BY <2>2, VoteInv
  <2>3. CASE Encrypt
    BY <2>3, EncryptInv
  <2>4. CASE UNCHANGED vars
    BY <2>4, StutterInv
  <2> QED BY <2>1, <2>2, <2>3, <2>4 DEF Next
<1> QED BY <1>1, InitInv, PTL DEF Spec

-----------------------------------------------------------------------------
(***************************************************************************)
(* A kept contest: its selections, and the votes that it encrypts.         *)
(***************************************************************************)
LEMMA KeptIs ==
  ASSUME Inv, NEW c \in DOMAIN contests,
         NEW cv \in [DOMAIN contests[c].selections -> {0, 1}],
         NEW mk \in 0 .. contests[c].votesAllowed, Kept(c, cv, mk)
  PROVE  /\ RealSelections(encryptedContest[c])
              = ToSet(RealOf(contests[c], cv, NoData(contests[c]), NonceOf(c)))
         /\ Votes(cv) = Cardinality({s \in DOMAIN cv : cv[s] = 1}) /\ Votes(cv) \in Nat
         /\ Votes(cv) = SumFunctionOnSet(cv, DOMAIN contests[c].selections)
         /\ Accumulated(encryptedContest[c]) = Votes(cv) + mk
         /\ encryptedContest[c].constant = contests[c].votesAllowed
<1> DEFINE mc == contests[c]
           S == DOMAIN mc.selections
           limit == mc.votesAllowed
           w == Marks(limit, mk)
<1>1. IsContest(mc) /\ mc.selections # << >> /\ limit \in Nat /\ IsFiniteSet(S)
  BY ContestIs
<1>2. /\ \A s \in S : cv[s] \in {0, 1}
      /\ cv = [s \in S |-> cv[s]] /\ DOMAIN cv = S
  OBVIOUS
<1>3. IntOn(cv, S)
  <2>1. \A s \in S : cv[s] \in Int
    BY <1>2
  <2> HIDE DEF S
  <2> QED BY <2>1 DEF IntOn
<1>4. \A k \in 1 .. limit : w[k] \in Int
  BY DEF Marks
<1>5. IntOn(w, 1 .. limit)
  BY <1>4 DEF IntOn
<1>6. encryptedContest[c] = ContestOf(mc, cv, NoData(mc), w, NonceOf(c))
  BY DEF Kept
<1>7. SumFunctionOnSet(w, 1 .. limit) = mk
  BY <1>1, MarksSum
<1> HIDE DEF w, mc, limit
<1>8. /\ RealSelections(encryptedContest[c]) = ToSet(RealOf(mc, cv, NoData(mc), NonceOf(c)))
      /\ Accumulated(encryptedContest[c])
           = SumFunctionOnSet(cv, S) + SumFunctionOnSet(w, 1 .. limit)
      /\ encryptedContest[c].constant = limit
  BY <1>1, <1>3, <1>5, <1>6, ContestOfHas DEF limit
<1>9. /\ Votes(cv) = SumFunctionOnSet(cv, S)
      /\ Votes(cv) = Cardinality({s \in S : cv[s] = 1}) /\ Votes(cv) \in Nat
  <2>1. cv \in [S -> {0, 1}]
    BY <1>2
  <2> DEFINE Ones == {s \in S : cv[s] = 1}
  <2> HIDE DEF S, Ones
  <2>2. Votes(cv) = SumFunctionOnSet(cv, S) /\ Votes(cv) = Cardinality(Ones) /\ Votes(cv) \in Nat
    <3>1. Ones = {s \in S : cv[s] = 1}
      BY DEF Ones
    <3> QED BY ONLY <1>1, <2>1, <3>1, VotesCount
  <2> QED BY <2>2 DEF Ones
<1> QED BY <1>2, <1>7, <1>8, <1>9 DEF mc, limit

(***************************************************************************)
(* The invariant implies the properties.                                   *)
(***************************************************************************)
LEMMA InvKeptIsCurrent == Inv => KeptIsCurrent
<1> SUFFICES ASSUME Inv, NEW c \in DOMAIN contests \ Pending, c \notin failed,
                    NEW i \in DOMAIN votes[c]
             PROVE  \E s \in RealSelections(encryptedContest[c]) :
                      /\ s.selectionId = contests[c].selections[i].selectionId
                      /\ s.vote = votes[c][i]
  BY DEF KeptIsCurrent
<1>1. PICK cv \in [DOMAIN contests[c].selections -> {0, 1}],
           mk \in 0 .. contests[c].votesAllowed : Kept(c, cv, mk)
  BY DEF Inv, KeptInv
<1>2. cv = votes[c]
  BY <1>1 DEF Kept
<1> DEFINE real == RealOf(contests[c], cv, NoData(contests[c]), NonceOf(c))
<1>3. RealSelections(encryptedContest[c]) = ToSet(real)
  BY <1>1, KeptIs
<1>4. IsContest(contests[c]) /\ i \in DOMAIN contests[c].selections
  BY <1>2, ContestIs
<1> HIDE DEF real
<1>5. /\ DOMAIN real = DOMAIN contests[c].selections
      /\ real[i].selectionId = contests[c].selections[i].selectionId /\ real[i].vote = cv[i]
  BY <1>4 DEF real, RealOf, EncryptSelection
<1>6. real[i] \in ToSet(real)
  BY <1>4, <1>5 DEF ToSet
<1> QED BY <1>2, <1>3, <1>5, <1>6

\* A kept contest has enough votes for its proof and no overvote.
LEMMA InvCountsInBounds == Inv => CountsInBounds
<1> SUFFICES ASSUME Inv, NEW c \in DOMAIN contests \ Pending
             PROVE  /\ Accumulated(encryptedContest[c]) >= contests[c].votesAllowed
                    /\ Cardinality({s \in RealSelections(encryptedContest[c]) : s.vote > 0})
                         <= contests[c].votesAllowed
  BY DEF CountsInBounds
<1>1. PICK cv \in [DOMAIN contests[c].selections -> {0, 1}],
           mk \in 0 .. contests[c].votesAllowed : Kept(c, cv, mk)
  BY DEF Inv, KeptInv
<1> DEFINE real == RealOf(contests[c], cv, NoData(contests[c]), NonceOf(c))
           Ones == {s \in DOMAIN cv : cv[s] = 1}
           Voted == {s \in ToSet(real) : s.vote > 0}
<1>2. /\ RealSelections(encryptedContest[c]) = ToSet(real)
      /\ Votes(cv) = Cardinality(Ones) /\ Votes(cv) \in Nat
      /\ Accumulated(encryptedContest[c]) = Votes(cv) + mk
  BY <1>1, KeptIs
<1>3. /\ IsContest(contests[c]) /\ contests[c].votesAllowed \in Nat
      /\ IsFiniteSet(DOMAIN contests[c].selections)
  BY ContestIs
<1>4. /\ Votes(cv) <= contests[c].votesAllowed
      /\ contests[c].votesAllowed - Votes(cv) <= mk
  BY <1>1 DEF Kept
<1>5. Accumulated(encryptedContest[c]) >= contests[c].votesAllowed
  BY <1>2, <1>3, <1>4
<1> HIDE DEF real
<1>6. /\ DOMAIN real = DOMAIN contests[c].selections
      /\ \A i \in DOMAIN contests[c].selections : real[i].vote = cv[i]
  BY DEF real, RealOf, EncryptSelection
<1>7. Cardinality(Voted) <= Cardinality(Ones)
  <2> DEFINE f == [i \in Ones |-> real[i]]
  <2>1. IsFiniteSet(Ones)
    BY <1>3, FS_Subset
  <2>2. ASSUME NEW s \in Voted PROVE \E i \in Ones : real[i] = s
    <3>1. PICK i \in DOMAIN cv : s = real[i]
      BY <1>6 DEF ToSet
    <3>2. cv[i] > 0 /\ cv[i] \in {0, 1}
      BY <1>6, <3>1
    <3> QED BY <3>1, <3>2
  <2>3. ASSUME NEW i \in Ones PROVE real[i] \in Voted
    <3>1. real[i] \in ToSet(real) /\ real[i].vote = 1
      BY <1>6 DEF ToSet
    <3> QED BY <3>1
  <2> HIDE DEF Ones, Voted
  <2>4. f \in Surjection(Ones, Voted)
    BY <2>2, <2>3 DEF Surjection
  <2> HIDE DEF f
  <2> QED BY <2>1, <2>4, FS_Surjection
<1>8. IsFiniteSet(Voted)
  <2>1. Voted \in SUBSET ToSet(real)
    OBVIOUS
  <2>2. IsFiniteSet(ToSet(real))
    <3>1. real \in Seq(ToSet(real))
      BY <1>3, RealList DEF real
    <3> QED BY <3>1, ListIsFinite
  <2> HIDE DEF Voted
  <2> QED BY <2>1, <2>2, FS_Subset
<1>9. Cardinality(Voted) \in Nat
  <2> HIDE DEF Voted
  <2> QED BY <1>8, FS_CardinalityType
<1> HIDE DEF Voted, Ones
<1>10. Cardinality(Voted) <= contests[c].votesAllowed
  BY <1>2, <1>3, <1>4, <1>7, <1>9
<1> QED BY <1>2, <1>5, <1>10 DEF Voted

\* A kept contest whose proof verifies is the one that Encryptor would make.
LEMMA InvMatchesEncryptor == Inv => MatchesEncryptor
<1> SUFFICES ASSUME Inv, NEW c \in DOMAIN contests \ (Pending \cup failed),
                    ProofVerifies(encryptedContest[c])
             PROVE  encryptedContest[c] =
                      ContestEncryption(contests[c], PlaintextOf(c), ballotNonce)
  BY DEF MatchesEncryptor
<1>1. PICK cv \in [DOMAIN contests[c].selections -> {0, 1}],
           mk \in 0 .. contests[c].votesAllowed : Kept(c, cv, mk)
  BY DEF Inv, KeptInv
<1> DEFINE mc == contests[c]
           selections == [s \in DOMAIN cv |->
                            [selectionId  |-> mc.selections[s].selectionId,
                             vote         |-> cv[s],
                             extendedData |-> {}]]
<1>2. /\ cv = votes[c]
      /\ encryptedContest[c]
           = ContestOf(mc, cv, NoData(mc), Marks(mc.votesAllowed, mk), NonceOf(c))
  BY <1>1 DEF Kept
<1>3. Votes(cv) + mk = mc.votesAllowed /\ Votes(cv) \in Nat
      /\ Votes(cv) = SumFunctionOnSet(cv, DOMAIN mc.selections)
  BY <1>1, KeptIs DEF ProofVerifies
<1>4. IsContest(mc) /\ mc.votesAllowed \in Nat /\ mc \in ToSet(manifest.contests)
      /\ manifest \in Manifests
  BY ContestIs, StyleHasContests DEF Inv, TypeOK
<1>5. \A i, j \in DOMAIN mc.selections :
        mc.selections[i].selectionId = mc.selections[j].selectionId => i = j
  BY <1>4, ManifestsAssumption
<1>6. cv = [i \in DOMAIN mc.selections |-> cv[i]] /\ IntOn(cv, DOMAIN mc.selections)
  BY DEF IntOn
<1> HIDE DEF mc
<1>7. VotesFor(mc, selections) = cv /\ DataOf(mc, selections) = NoData(mc)
  BY <1>4, <1>5, <1>6, VotesForAll
<1>8. mk = mc.votesAllowed - Votes(cv)
  BY <1>3, <1>4
<1> HIDE DEF selections
<1>9. ContestEncryption(mc, selections, ballotNonce)
        = ContestOf(mc, cv, NoData(mc), Marks(mc.votesAllowed, mk), ContestNonce(mc, ballotNonce))
  BY <1>3, <1>4, <1>6, <1>7, <1>8, ContestEncryptionIs
<1> QED BY <1>2, <1>9 DEF mc, selections, PlaintextOf, NonceOf

-----------------------------------------------------------------------------
(***************************************************************************)
(* Votes stay what callers gave, and never are more placeholders marked    *)
(* than the contest has, whatever is called and whatever throws.           *)
(***************************************************************************)
THEOREM TypeCorrect == Spec => []TypeOK
BY Invariance, PTL DEF Inv

(***************************************************************************)
(* The encryptedContest that vote keeps encrypts the contest's present     *)
(* votes, unless the last vote on it threw.                                *)
(***************************************************************************)
THEOREM KeptStaysCurrent == Spec => []KeptIsCurrent
BY Invariance, InvKeptIsCurrent, PTL

(***************************************************************************)
(* A kept contest encrypts at least votesAllowed votes, and at most that   *)
(* many of the voter's.                                                    *)
(***************************************************************************)
THEOREM CountsStayInBounds == Spec => []CountsInBounds
BY Invariance, InvCountsInBounds, PTL

(***************************************************************************)
(* Whatever was voted before: a kept contest whose proof verifies, and on  *)
(* which the last vote did not throw, is the one that Encryptor makes of   *)
(* the present votes.  The others may differ from it.                      *)
(***************************************************************************)
THEOREM PrecomputeMatchesEncryptor == Spec => []MatchesEncryptor
BY Invariance, InvMatchesEncryptor, PTL
=============================================================================
