--------------------------- MODULE EncryptorProofs ---------------------------
(***************************************************************************)
(* Theorems about Encryptor, for every set of manifests and ballots and    *)
(* every number of ballots in one call.                                    *)
(***************************************************************************)
EXTENDS Encryptor, EncryptionProofs

(***************************************************************************)
(* The inductive invariant.  What was accepted is valid.  The i-th         *)
(* encrypted ballot is the encryption of the i-th accepted one, which does *)
(* not throw; in a chain with the i-th master nonce drawn and the code of  *)
(* the ballot before it, and the next ballot continues there.              *)
(***************************************************************************)
Chained == phase \in {"chain", "returnedChain"}
AtWork == {"chain", "fixed", "returnedChain", "returnedFixed"}

Encrypted(i) ==
  /\ ~Throws(manifest, accepted[i])
  /\ encryptedBallots[i] = EncryptBallot(manifest, accepted[i], encryptedBallots[i].codeSeed,
                                         encryptedBallots[i].masterNonce)
  /\ Chained => /\ encryptedBallots[i].masterNonce = <<"random", i - 1>>
                /\ encryptedBallots[i].codeSeed =
                     IF i = 1 THEN <<"seed">> ELSE encryptedBallots[i - 1].code

Inv ==
  /\ manifest \in Manifests
  /\ phase \in {"refused", "accepting", "threw"} \cup AtWork
  /\ phase # "refused" => ValidManifest(manifest)
  /\ accepted \in Seq(Ballots) /\ Len(accepted) <= MaxBallots
  /\ \A i \in 1 .. Len(accepted) : ValidBallot(manifest, accepted[i])
  /\ encryptedBallots \in Seq(ToSet(encryptedBallots))
  /\ phase \notin AtWork => encryptedBallots = << >>
  /\ Len(encryptedBallots) <= Len(accepted)
  /\ draws \in 0 .. MaxBallots
  /\ phase = "accepting" => draws = 0 /\ codeSeed = <<"seed">>
  /\ Chained => /\ draws = Len(encryptedBallots)
                /\ codeSeed = IF draws = 0 THEN <<"seed">> ELSE encryptedBallots[draws].code
  /\ \A i \in 1 .. Len(encryptedBallots) : Encrypted(i)
  /\ phase = "threw" => \E i \in 1 .. Len(accepted) : Throws(manifest, accepted[i])
  /\ phase = "refused" => accepted = << >>

\* No ballot has been accepted or encrypted at first.
LEMMA InitInv == Init => Inv
<1> SUFFICES ASSUME Init PROVE Inv
  OBVIOUS
<1>1. /\ manifest \in Manifests /\ accepted = << >> /\ draws = 0 /\ codeSeed = <<"seed">>
      /\ encryptedBallots = << >>
      /\ phase = IF ValidManifest(manifest) THEN "accepting" ELSE "refused"
  BY DEF Init
<1>2. phase \in {"accepting", "refused"} /\ (phase # "refused" => ValidManifest(manifest))
  BY <1>1, Zenon
<1>3. Len(accepted) = 0 /\ accepted \in Seq(Ballots) /\ Len(accepted) <= MaxBallots
      /\ draws \in 0 .. MaxBallots
  BY <1>1, BallotsAssumption
<1>4. Len(encryptedBallots) = 0 /\ encryptedBallots \in Seq(ToSet(encryptedBallots))
  BY <1>1
<1> QED BY <1>1, <1>2, <1>3, <1>4 DEF Inv, AtWork, Chained

\* A ballot is accepted only when it is valid.
LEMMA AcceptInv ==
  ASSUME Inv, NEW b \in Ballots, Accept(b)
  PROVE  Inv'
<1>1. /\ phase = "accepting" /\ Len(accepted) < MaxBallots /\ ValidBallot(manifest, b)
      /\ accepted' = Append(accepted, b)
      /\ manifest' = manifest /\ phase' = phase /\ draws' = draws /\ codeSeed' = codeSeed
      /\ encryptedBallots' = encryptedBallots
  BY DEF Accept
<1>2. accepted \in Seq(Ballots) /\ Len(accepted) \in Nat /\ MaxBallots \in Nat
  BY BallotsAssumption DEF Inv
<1>3. /\ accepted' \in Seq(Ballots) /\ Len(accepted') = Len(accepted) + 1
      /\ \A i \in 1 .. Len(accepted) : accepted'[i] = accepted[i]
      /\ accepted'[Len(accepted) + 1] = b
  BY <1>1, <1>2
<1>4. encryptedBallots = << >> /\ Len(encryptedBallots) = 0
  BY <1>1 DEF Inv, AtWork
<1>5. \A i \in 1 .. Len(accepted') : ValidBallot(manifest, accepted'[i])
  <2> SUFFICES ASSUME NEW i \in 1 .. Len(accepted') PROVE ValidBallot(manifest, accepted'[i])
    OBVIOUS
  <2>1. i \in 1 .. Len(accepted) \/ i = Len(accepted) + 1
    BY <1>2, <1>3
  <2> QED BY <1>1, <1>3, <2>1 DEF Inv
<1>6. /\ Len(accepted') <= MaxBallots
      /\ Len(encryptedBallots) <= Len(accepted')
  BY <1>1, <1>2, <1>3, <1>4
<1> QED BY <1>1, <1>3, <1>4, <1>5, <1>6 DEF Inv, Chained, AtWork

\* The call starts with the seed of the caller and nothing drawn.
LEMMA StartBatchInv ==
  ASSUME Inv, NEW mode \in {"chain", "fixed"}, StartBatch(mode)
  PROVE  Inv'
<1>1. /\ phase = "accepting" /\ phase' = mode
      /\ manifest' = manifest /\ accepted' = accepted /\ draws' = draws /\ codeSeed' = codeSeed
      /\ encryptedBallots' = encryptedBallots
  BY DEF StartBatch
<1>2. encryptedBallots = << >> /\ Len(encryptedBallots) = 0 /\ draws = 0 /\ codeSeed = <<"seed">>
  BY <1>1 DEF Inv, AtWork
<1> QED BY <1>1, <1>2 DEF Inv, Chained, AtWork

\* One round of either loop appends the encryption of the next ballot.
LEMMA AppendInv ==
  ASSUME Inv, NEW mode \in {"chain", "fixed"}, phase = mode, phase' = mode,
         Len(encryptedBallots) < Len(accepted), ~Throws(manifest, NextBallot),
         NEW nonce, mode = "chain" => nonce = <<"random", draws>>,
         encryptedBallots' = Append(encryptedBallots, EncryptBallot(manifest, NextBallot, codeSeed, nonce)),
         mode = "chain" => /\ codeSeed' = EncryptBallot(manifest, NextBallot, codeSeed, nonce).code
                           /\ draws' = draws + 1,
         mode = "fixed" => draws' = draws,
         manifest' = manifest, accepted' = accepted
  PROVE  Inv'
<1> DEFINE e == EncryptBallot(manifest, NextBallot, codeSeed, nonce)
           n == Len(encryptedBallots)
<1>1. /\ encryptedBallots \in Seq(ToSet(encryptedBallots)) /\ n \in Nat
      /\ Len(accepted) \in Nat /\ accepted \in Seq(Ballots) /\ n < Len(accepted)
      /\ Len(accepted) <= MaxBallots /\ MaxBallots \in Nat /\ draws \in Nat
  BY BallotsAssumption DEF Inv
<1>2. /\ e.codeSeed = codeSeed /\ e.masterNonce = nonce
      /\ e = EncryptBallot(manifest, accepted[n + 1], e.codeSeed, e.masterNonce)
  BY DEF EncryptBallot, NextBallot
<1> HIDE DEF e
<1>3. /\ encryptedBallots' = Append(encryptedBallots, e)
      /\ Len(encryptedBallots') = n + 1
      /\ \A i \in 1 .. n : encryptedBallots'[i] = encryptedBallots[i]
      /\ encryptedBallots'[n + 1] = e
      /\ encryptedBallots' \in Seq(ToSet(encryptedBallots) \cup {e})
  BY <1>1 DEF e
<1>4. encryptedBallots' \in Seq(ToSet(encryptedBallots'))
  <2> DEFINE s == encryptedBallots'
             m == Len(s)
  <2>1. s \in Seq(ToSet(encryptedBallots) \cup {e}) /\ m \in Int
    BY <1>3
  <2> HIDE DEF s
  <2>2. s = [i \in 1 .. m |-> s[i]]
    BY <2>1
  <2> HIDE DEF m
  <2>3. s \in Seq(ToSet(s))
    BY <2>1, <2>2, FunctionIsList
  <2> QED BY <2>3 DEF s
<1>5. Chained => draws = n /\ codeSeed = IF n = 0 THEN <<"seed">> ELSE encryptedBallots[n].code
  BY DEF Inv
<1>6. Chained' = Chained /\ (Chained => mode = "chain") /\ mode \in AtWork
  BY DEF Chained, AtWork
<1> HIDE DEF n
<1>7. ASSUME NEW i \in 1 .. Len(encryptedBallots')
      PROVE  Encrypted(i)'
  <2>1. CASE i \in 1 .. n
    <3>1. Encrypted(i)
      BY <2>1 DEF Inv, n
    <3>2. encryptedBallots'[i] = encryptedBallots[i]
      BY <1>3, <2>1
    <3>3. i # 1 => encryptedBallots'[i - 1] = encryptedBallots[i - 1]
      BY <1>1, <1>3, <2>1
    <3> QED BY <1>6, <3>1, <3>2, <3>3 DEF Encrypted
  <2>2. CASE i = n + 1
    <3>1. encryptedBallots'[i] = e
      BY <1>3, <2>2
    <3>2. ~Throws(manifest, accepted[i])
      BY <2>2 DEF NextBallot, n
    <3>3. Chained => e.masterNonce = <<"random", i - 1>>
      BY <1>1, <1>2, <1>5, <1>6, <2>2
    <3>4. Chained => e.codeSeed = IF i = 1 THEN <<"seed">> ELSE encryptedBallots'[i - 1].code
      <4>1. i = 1 <=> n = 0
        BY <1>1, <2>2
      <4>2. i - 1 = n /\ (n # 0 => n \in 1 .. n)
        BY <1>1, <2>2
      <4> QED BY <1>2, <1>3, <1>5, <4>1, <4>2
    <3> QED BY <1>2, <1>6, <2>2, <3>1, <3>2, <3>3, <3>4 DEF Encrypted
  <2> QED BY <1>1, <1>3, <2>1, <2>2
<1>8. Chained => /\ draws' = n + 1
                 /\ codeSeed' = IF draws' = 0 THEN <<"seed">> ELSE encryptedBallots'[draws'].code
  BY <1>1, <1>3, <1>5, <1>6 DEF e
<1>9. draws' \in 0 .. MaxBallots
  <2>1. CASE mode = "chain"
    <3>1. draws = n
      BY <2>1, <1>5 DEF Chained
    <3> QED BY <1>1, <2>1, <3>1
  <2>2. CASE mode = "fixed"
    BY <2>2 DEF Inv
  <2> QED BY <2>1, <2>2
<1>10. Len(encryptedBallots') <= Len(accepted)
  BY <1>1, <1>3
<1>11. phase' \notin {"refused", "accepting", "threw"} /\ phase \notin {"refused", "accepting", "threw"}
  OBVIOUS
<1> QED BY <1>3, <1>4, <1>6, <1>7, <1>8, <1>9, <1>10, <1>11 DEF Inv

\* A ballot that throws takes the batch with it.
LEMMA ThrowInv ==
  ASSUME Inv, Throw
  PROVE  Inv'
<1>1. /\ phase \in {"chain", "fixed"} /\ phase' = "threw"
      /\ Len(encryptedBallots) < Len(accepted) /\ Throws(manifest, NextBallot)
      /\ encryptedBallots' = << >>
      /\ manifest' = manifest /\ accepted' = accepted /\ draws' = draws /\ codeSeed' = codeSeed
  BY DEF Throw
<1> DEFINE n == Len(encryptedBallots)
<1>2. n \in Nat /\ Len(accepted) \in Nat
  BY DEF Inv
<1>3. n + 1 \in 1 .. Len(accepted) /\ Throws(manifest, accepted[n + 1])
  BY <1>1, <1>2 DEF NextBallot
<1>4. Len(encryptedBallots') = 0 /\ encryptedBallots' \in Seq(ToSet(encryptedBallots'))
  BY <1>1
<1>5. phase' \notin {"refused", "accepting"} /\ phase' \notin AtWork /\ phase # "refused"
  BY <1>1 DEF AtWork
<1> HIDE DEF n
<1> QED BY <1>1, <1>2, <1>3, <1>4, <1>5 DEF Inv, Chained, AtWork

\* Returning the list changes nothing in it.
LEMMA ReturnInv ==
  ASSUME Inv, ReturnBatch
  PROVE  Inv'
<1>1. /\ phase \in {"chain", "fixed"}
      /\ phase' = IF phase = "chain" THEN "returnedChain" ELSE "returnedFixed"
      /\ manifest' = manifest /\ accepted' = accepted /\ draws' = draws /\ codeSeed' = codeSeed
      /\ encryptedBallots' = encryptedBallots
  BY DEF ReturnBatch
<1>2. /\ Chained' = Chained /\ phase' \in AtWork /\ phase \in AtWork
      /\ phase \notin {"refused", "accepting", "threw"}
      /\ phase' \notin {"refused", "accepting", "threw"}
  BY <1>1 DEF Chained, AtWork
<1>3. \A i \in 1 .. Len(encryptedBallots) : Encrypted(i)'
  BY <1>1, <1>2 DEF Inv, Encrypted
<1> QED BY <1>1, <1>2, <1>3 DEF Inv

\* A step that changes nothing keeps the invariant.
LEMMA StutterInv == Inv /\ UNCHANGED vars => Inv'
<1> SUFFICES ASSUME Inv, UNCHANGED vars PROVE Inv'
  OBVIOUS
<1>1. /\ manifest' = manifest /\ accepted' = accepted /\ draws' = draws /\ codeSeed' = codeSeed
      /\ encryptedBallots' = encryptedBallots /\ phase' = phase
  BY DEF vars
<1> QED BY <1>1 DEF Inv, Encrypted, Chained

(***************************************************************************)
(* The invariant holds of every run of the caller and the encryptor.       *)
(***************************************************************************)
THEOREM Invariance == Spec => []Inv
<1>1. Inv /\ [Next]_vars => Inv'
  <2> SUFFICES ASSUME Inv, [Next]_vars PROVE Inv'
    OBVIOUS
  <2>1. ASSUME NEW b \in Ballots, Accept(b) PROVE Inv'
    BY <2>1, AcceptInv
  <2>2. ASSUME NEW mode \in {"chain", "fixed"}, StartBatch(mode) PROVE Inv'
    BY <2>2, StartBatchInv
  <2>3. CASE EncryptInChain
    <3>1. PICK mode, nonce : mode = "chain" /\ nonce = <<"random", draws>>
      OBVIOUS
    <3> QED BY <2>3, <3>1, AppendInv DEF EncryptInChain
  <2>4. CASE EncryptFixed
    <3>1. PICK mode, nonce : mode = "fixed" /\ nonce = <<"master">>
      OBVIOUS
    <3> QED BY <2>4, <3>1, AppendInv DEF EncryptFixed
  <2>5. CASE Throw
    BY <2>5, ThrowInv
  <2>6. CASE ReturnBatch
    BY <2>6, ReturnInv
  <2>7. CASE UNCHANGED vars
    BY <2>7, StutterInv
  <2> QED BY <2>1, <2>2, <2>3, <2>4, <2>5, <2>6, <2>7 DEF Next
<1> QED BY <1>1, InitInv, PTL DEF Spec

(***************************************************************************)
(* The ballots that encrypt returns form a chain from the caller's seed.   *)
(***************************************************************************)
THEOREM ChainStaysLinked == Spec => []ChainLinked
<1>1. Inv => ChainLinked
  <2> SUFFICES ASSUME Inv, Chained, NEW i \in DOMAIN encryptedBallots
               PROVE  encryptedBallots[i].codeSeed =
                        IF i = 1 THEN <<"seed">> ELSE encryptedBallots[i - 1].code
    BY DEF ChainLinked, Chained
  <2>1. i \in 1 .. Len(encryptedBallots)
    BY DEF Inv
  <2> QED BY <2>1 DEF Inv, Encrypted
<1> QED BY <1>1, Invariance, PTL

-----------------------------------------------------------------------------
(***************************************************************************)
(* What validation says.                                                   *)
(***************************************************************************)
LEMMA NotBroken ==
  ASSUME NEW rule, NEW condition \in BOOLEAN, Broken(rule, condition) = {}
  PROVE  ~condition
BY DEF Broken

\* Where no value repeats, an element is the only one with its value.
LEMMA Unrepeated ==
  ASSUME NEW list, list \in Seq(ToSet(list)), NEW field, ~Repeats(list, field)
  PROVE  /\ \A i, j \in DOMAIN list : list[i][field] = list[j][field] => i = j
         /\ \A i \in DOMAIN list : ByKey(list, field, list[i][field]) = list[i]
<1>1. DOMAIN list \subseteq Int
  OBVIOUS
<1>2. \A i, j \in DOMAIN list : i < j => list[i][field] # list[j][field]
  BY DEF Repeats
<1>3. \A i, j \in DOMAIN list : i = j \/ i < j \/ j < i
  BY <1>1
<1>4. \A i, j \in DOMAIN list : list[i][field] = list[j][field] => i = j
  BY <1>2, <1>3
<1>5. ASSUME NEW i \in DOMAIN list
      PROVE  ByKey(list, field, list[i][field]) = list[i]
  <2> DEFINE k == list[i][field]
  <2>1. HasKey(list, field, k)
    BY DEF HasKey
  <2>2. PICK j \in DOMAIN list : list[j][field] = k /\ ByKey(list, field, k) = list[j]
    <3> HIDE DEF k
    <3> QED BY ONLY <2>1, ByKeyIs, list \in Seq(ToSet(list))
  <2> QED BY <1>4, <2>2
<1> QED BY <1>4, <1>5

\* In a valid manifest all ids and orders are distinct.
LEMMA ManifestIsValid ==
  ASSUME NEW m, IsManifest(m), ValidManifest(m)
  PROVE  /\ \A i, j \in DOMAIN m.contests : m.contests[i].contestId = m.contests[j].contestId => i = j
         /\ \A i, j \in DOMAIN m.contests : m.contests[i].sequenceOrder = m.contests[j].sequenceOrder => i = j
         /\ \A i \in DOMAIN m.contests : ByKey(m.contests, "contestId", m.contests[i].contestId) = m.contests[i]
         /\ \A mc \in ToSet(m.contests) :
              /\ \A i, j \in DOMAIN mc.selections :
                   mc.selections[i].selectionId = mc.selections[j].selectionId => i = j
              /\ \A i, j \in DOMAIN mc.selections :
                   mc.selections[i].sequenceOrder = mc.selections[j].sequenceOrder => i = j
<1>1. /\ Broken("B.1", Repeats(m.contests, "contestId")) = {}
      /\ Broken("B.2", Repeats(m.contests, "sequenceOrder")) = {}
      /\ \A mc \in ToSet(m.contests) : ManifestContestErrors(m, mc) = {}
  BY DEF ValidManifest, ManifestErrors
<1>2. ~Repeats(m.contests, "contestId") /\ ~Repeats(m.contests, "sequenceOrder")
  BY <1>1 DEF Broken, Repeats
<1>3. ASSUME NEW mc \in ToSet(m.contests)
      PROVE  ~Repeats(mc.selections, "selectionId") /\ ~Repeats(mc.selections, "sequenceOrder")
  <2>1. SelectionsErrors(m, mc) = {}
    BY <1>1 DEF ManifestContestErrors
  <2>2. /\ Broken("B.3", Repeats(mc.selections, "selectionId")) = {}
        /\ Broken("B.4", Repeats(mc.selections, "sequenceOrder")) = {}
    BY <2>1 DEF SelectionsErrors
  <2> QED BY <2>2 DEF Broken, Repeats
<1>4. /\ m.contests \in Seq(ToSet(m.contests))
      /\ \A mc \in ToSet(m.contests) : mc.selections \in Seq(ToSet(mc.selections))
  BY DEF IsManifest, IsContest
<1>5. /\ \A i, j \in DOMAIN m.contests : m.contests[i]["contestId"] = m.contests[j]["contestId"] => i = j
      /\ \A i, j \in DOMAIN m.contests : m.contests[i]["sequenceOrder"] = m.contests[j]["sequenceOrder"] => i = j
      /\ \A i \in DOMAIN m.contests : ByKey(m.contests, "contestId", m.contests[i]["contestId"]) = m.contests[i]
  BY ONLY <1>2, <1>4, Unrepeated
<1>6. ASSUME NEW mc \in ToSet(m.contests)
      PROVE  /\ \A i, j \in DOMAIN mc.selections :
                  mc.selections[i]["selectionId"] = mc.selections[j]["selectionId"] => i = j
             /\ \A i, j \in DOMAIN mc.selections :
                  mc.selections[i]["sequenceOrder"] = mc.selections[j]["sequenceOrder"] => i = j
  BY <1>3, <1>4, Unrepeated
<1> QED BY <1>5, <1>6

\* In a valid ballot the contests and selections are distinct and known, and
\* there are not too many votes.
LEMMA BallotIsValid ==
  ASSUME NEW m, IsManifest(m), NEW b, IsPlaintextBallot(b), ValidBallot(m, b)
  PROVE  /\ \A i, j \in DOMAIN b.contests : b.contests[i].contestId = b.contests[j].contestId => i = j
         /\ \A i \in DOMAIN b.contests : ByKey(b.contests, "contestId", b.contests[i].contestId) = b.contests[i]
         /\ \A bc \in ToSet(b.contests) :
              LET mc == ByKey(m.contests, "contestId", bc.contestId)
              IN  /\ HasKey(m.contests, "contestId", bc.contestId)
                  /\ bc.selections \in Seq(ToSet(bc.selections))
                  /\ \A i, j \in DOMAIN bc.selections :
                       bc.selections[i].selectionId = bc.selections[j].selectionId => i = j
                  /\ \A i \in DOMAIN bc.selections :
                       /\ ByKey(bc.selections, "selectionId", bc.selections[i].selectionId) = bc.selections[i]
                       /\ HasKey(mc.selections, "selectionId", bc.selections[i].selectionId)
                       /\ bc.selections[i].vote \in {0, 1}
                  /\ Cardinality({i \in DOMAIN bc.selections : bc.selections[i].vote = 1}) <= mc.votesAllowed
<1> DEFINE known(bc) == HasKey(m.contests, "contestId", bc.contestId)
           Errors(bc) == BallotContestErrors(bc, m.styles[b.ballotStyleId],
                                             ByKey(m.contests, "contestId", bc.contestId))
<1>1. /\ Broken("A.1", ~(b.ballotStyleId \in DOMAIN m.styles)) = {}
      /\ Broken("B.1", Repeats(b.contests, "contestId")) = {}
      /\ Broken("A.2", \E bc \in ToSet(b.contests) : ~known(bc)) = {}
      /\ UNION {Errors(bc) : bc \in {d \in ToSet(b.contests) :
                                       b.ballotStyleId \in DOMAIN m.styles /\ known(d)}} = {}
  BY DEF ValidBallot, BallotErrors
<1>2. /\ b.ballotStyleId \in DOMAIN m.styles
      /\ ~Repeats(b.contests, "contestId")
      /\ \A bc \in ToSet(b.contests) : known(bc)
  BY <1>1 DEF Broken
<1>3. \A bc \in ToSet(b.contests) : Errors(bc) = {}
  <2> HIDE DEF Errors, known
  <2> QED BY <1>1, <1>2
<1>4. /\ b.contests \in Seq(ToSet(b.contests))
      /\ \A bc \in ToSet(b.contests) : bc.selections \in Seq(ToSet(bc.selections))
  BY DEF IsPlaintextBallot
<1>5. /\ \A i, j \in DOMAIN b.contests : b.contests[i]["contestId"] = b.contests[j]["contestId"] => i = j
      /\ \A i \in DOMAIN b.contests : ByKey(b.contests, "contestId", b.contests[i]["contestId"]) = b.contests[i]
  BY ONLY <1>2, <1>4, Unrepeated
<1>6. ASSUME NEW bc \in ToSet(b.contests), NEW mc, mc = ByKey(m.contests, "contestId", bc.contestId)
      PROVE  /\ \A i, j \in DOMAIN bc.selections :
                  bc.selections[i].selectionId = bc.selections[j].selectionId => i = j
             /\ \A i \in DOMAIN bc.selections :
                  /\ ByKey(bc.selections, "selectionId", bc.selections[i].selectionId) = bc.selections[i]
                  /\ HasKey(mc.selections, "selectionId", bc.selections[i].selectionId)
                  /\ bc.selections[i].vote \in {0, 1}
             /\ Cardinality({i \in DOMAIN bc.selections : bc.selections[i].vote = 1}) <= mc.votesAllowed
  <2> DEFINE ss == bc.selections
             J == DOMAIN ss
             is(s) == HasKey(mc.selections, "selectionId", s.selectionId)
             counted(s) == IF is(s) /\ s.vote \in {0, 1} THEN s.vote ELSE 0
             f == [i \in J |-> counted(ss[i])]
  <2>1. BallotContestErrors(bc, m.styles[b.ballotStyleId], mc) = {}
    BY <1>3, <1>6
  <2>2. /\ Broken("B.2", Repeats(ss, "selectionId")) = {}
        /\ Broken("A.4", \E s \in ToSet(ss) : ~is(s)) = {}
        /\ VotesErrors(bc, mc) = {}
    BY <2>1 DEF BallotContestErrors
  <2>3. /\ ~Repeats(ss, "selectionId")
        /\ \A s \in ToSet(ss) : is(s)
    BY <2>2 DEF Broken
  <2>4. /\ Broken("C.1", \E s \in ToSet(ss) : is(s) /\ s.vote \notin {0, 1}) = {}
        /\ Broken("C.2", SumOver(ss, counted) > mc.votesAllowed) = {}
    BY <2>2 DEF VotesErrors
  <2>5. /\ \A s \in ToSet(ss) : s.vote \in {0, 1}
        /\ ~(SumOver(ss, counted) > mc.votesAllowed)
    BY <2>3, <2>4 DEF Broken
  <2>6. \A i \in J : ss[i] \in ToSet(ss)
    BY DEF ToSet
  <2>7. ~(SumFunctionOnSet(f, J) > mc.votesAllowed)
    BY <2>5 DEF SumOver, SumFunction
  <2>8. \A i \in J : f[i] = ss[i].vote /\ f[i] \in {0, 1}
    BY <2>3, <2>5, <2>6
  <2> DEFINE Ones == {i \in J : ss[i].vote = 1}
  <2>9. Ones = {i \in J : f[i] = 1}
    BY <2>8
  <2>10. ss \in Seq(ToSet(ss)) /\ IsFiniteSet(J)
    <3>1. ss \in Seq(ToSet(ss))
      BY <1>4
    <3> HIDE DEF ss
    <3> QED BY <3>1, ListIsFinite
  <2> HIDE DEF f, J
  <2>11. SumFunctionOnSet(f, J) = Cardinality(Ones) /\ IsFiniteSet(Ones)
    <3> HIDE DEF ss
    <3>1. SumFunctionOnSet(f, J) = Cardinality({i \in J : f[i] = 1})
      BY <2>8, <2>10, SumOfBits
    <3>2. IsFiniteSet(Ones)
      BY <2>10, FS_Subset
    <3> QED BY <2>9, <3>1, <3>2
  <2>12. Cardinality(Ones) \in Nat
    BY <2>11, FS_CardinalityType
  <2>13. mc.votesAllowed \in Int
    <3>1. HasKey(m.contests, "contestId", bc.contestId) /\ m.contests \in Seq(ToSet(m.contests))
      BY <1>2 DEF IsManifest
    <3>2. PICK i \in DOMAIN m.contests : ByKey(m.contests, "contestId", bc.contestId) = m.contests[i]
      BY ONLY <3>1, ByKeyIs
    <3>3. mc = m.contests[i] /\ m.contests[i] \in ToSet(m.contests)
      BY <1>6, <3>2 DEF ToSet
    <3> QED BY <3>3 DEF IsManifest, IsContest
  <2>14. Cardinality(Ones) <= mc.votesAllowed
    <3> HIDE DEF Ones
    <3> QED BY <2>7, <2>11, <2>12, <2>13
  <2>15. /\ \A i, j \in J : ss[i]["selectionId"] = ss[j]["selectionId"] => i = j
         /\ \A i \in J : ByKey(ss, "selectionId", ss[i]["selectionId"]) = ss[i]
    <3> HIDE DEF ss
    <3> QED BY <2>3, <2>10, Unrepeated DEF J
  <2> QED BY <2>3, <2>5, <2>6, <2>14, <2>15 DEF J
<1> QED BY <1>2, <1>4, <1>5, <1>6

\* The votes v are those of the list ss: 1 at the positions Ones of the contest
\* mc, which are the ones of the selections at the positions Marked of ss.
VotesMatch(mc, ss, v, Ones, Marked) ==
  /\ \A i \in DOMAIN mc.selections : v[i] \in {0, 1}
  /\ \A i \in Ones : \E j \in Marked : ss[j].selectionId = mc.selections[i].selectionId
  /\ \A i \in DOMAIN mc.selections :
       (\E j \in Marked : ss[j].selectionId = mc.selections[i].selectionId) => i \in Ones
  /\ Cardinality(Ones) <= Cardinality(Marked) /\ IsFiniteSet(Marked) /\ IsFiniteSet(Ones)

\* The votes that a list of distinct selections gives to those of a contest.
LEMMA VotesOfList ==
  ASSUME NEW mc, IsContest(mc),
         \A i, j \in DOMAIN mc.selections :
           mc.selections[i].selectionId = mc.selections[j].selectionId => i = j,
         NEW ss, ss \in Seq(ToSet(ss)),
         \A j \in DOMAIN ss :
           /\ ByKey(ss, "selectionId", ss[j].selectionId) = ss[j]
           /\ ss[j].vote \in {0, 1},
         NEW v, v = VotesFor(mc, ss),
         NEW Ones \in SUBSET DOMAIN mc.selections,
         \A i \in DOMAIN mc.selections : i \in Ones <=> v[i] = 1,
         NEW Marked \in SUBSET DOMAIN ss, \A j \in DOMAIN ss : j \in Marked <=> ss[j].vote = 1
  PROVE  VotesMatch(mc, ss, v, Ones, Marked)
<1>1. ASSUME NEW i \in DOMAIN mc.selections
      PROVE  v[i] = IF \E j \in DOMAIN ss : ss[j].selectionId = mc.selections[i].selectionId
                    THEN ByKey(ss, "selectionId", mc.selections[i].selectionId).vote ELSE 0
  BY DEF VotesFor, VoteFor, HasKey
<1>2. ASSUME NEW i \in DOMAIN mc.selections, NEW j \in DOMAIN ss,
             ss[j].selectionId = mc.selections[i].selectionId
      PROVE  v[i] = ss[j].vote
  <2>1. ByKey(ss, "selectionId", mc.selections[i].selectionId) = ss[j]
    BY <1>2
  <2> QED BY <1>1, <1>2, <2>1
<1>3. ASSUME NEW i \in DOMAIN mc.selections,
             \A j \in DOMAIN ss : ss[j].selectionId # mc.selections[i].selectionId
      PROVE  v[i] = 0
  BY <1>1, <1>3
<1>4. ASSUME NEW i \in DOMAIN mc.selections
      PROVE  v[i] \in {0, 1}
  BY <1>2, <1>3
<1>5. ASSUME NEW i \in Ones
      PROVE  \E j \in Marked : ss[j].selectionId = mc.selections[i].selectionId
  <2>1. i \in DOMAIN mc.selections /\ v[i] = 1
    OBVIOUS
  <2>2. PICK j \in DOMAIN ss : ss[j].selectionId = mc.selections[i].selectionId
    BY <1>3, <2>1
  <2>3. ss[j].vote = 1
    BY <1>2, <2>1, <2>2
  <2> QED BY <2>2, <2>3
<1>6. ASSUME NEW i \in DOMAIN mc.selections, NEW j \in Marked,
             ss[j].selectionId = mc.selections[i].selectionId
      PROVE  i \in Ones
  BY <1>2, <1>6
<1> DEFINE g == [i \in Ones |-> CHOOSE j \in Marked : ss[j].selectionId = mc.selections[i].selectionId]
<1>7. \A i \in Ones : g[i] \in Marked /\ ss[g[i]].selectionId = mc.selections[i].selectionId
  BY <1>5
<1>8. Ones \subseteq DOMAIN mc.selections
  OBVIOUS
<1>9. g \in [Ones -> Marked] /\ \A i, k \in Ones : g[i] = g[k] => i = k
  <2>1. ASSUME NEW i \in Ones, NEW k \in Ones, g[i] = g[k] PROVE i = k
    <3> HIDE DEF g
    <3>1. mc.selections[i].selectionId = mc.selections[k].selectionId
      BY <1>7, <2>1
    <3> QED BY <1>8, <3>1
  <2> QED BY <1>7, <2>1
<1>10. g \in Injection(Ones, Marked)
  BY <1>9 DEF Injection, IsInjective
<1>11. IsFiniteSet(Marked)
  <2>1. IsFiniteSet(DOMAIN ss)
    BY ListIsFinite
  <2>2. Marked \in SUBSET DOMAIN ss
    OBVIOUS
  <2> QED BY ONLY <2>1, <2>2, FS_Subset
<1> HIDE DEF g
<1>12. IsFiniteSet(Ones) /\ Cardinality(Ones) <= Cardinality(Marked)
  BY ONLY <1>10, <1>11, FS_Injection
<1> QED BY <1>4, <1>5, <1>6, <1>11, <1>12 DEF VotesMatch

(***************************************************************************)
(* What a valid ballot votes in a contest of a valid manifest: 0 or 1 for  *)
(* every selection, no more than are allowed, and what the voter wrote.    *)
(***************************************************************************)
LEMMA BallotVotes ==
  ASSUME NEW m, IsManifest(m), ValidManifest(m), NEW b, IsPlaintextBallot(b), ValidBallot(m, b),
         NEW mc \in ToSet(m.contests), NEW v, v = VotesFor(mc, SelectionsFor(b, mc)),
         NEW Ones, Ones = {i \in DOMAIN mc.selections : v[i] = 1}
  PROVE  /\ \A i \in DOMAIN mc.selections : v[i] \in {0, 1}
         /\ mc.votesAllowed >= 0 => Cardinality(Ones) <= mc.votesAllowed
         /\ \A i \in Ones : \E bc \in ToSet(b.contests) : \E s \in ToSet(bc.selections) :
              /\ bc.contestId = mc.contestId
              /\ s.selectionId = mc.selections[i].selectionId /\ s.vote > 0
         /\ \A bc \in ToSet(b.contests) : bc.contestId = mc.contestId =>
              \A s \in ToSet(bc.selections) : s.vote > 0 =>
                \E i \in Ones : mc.selections[i].selectionId = s.selectionId
<1>1. /\ IsContest(mc)
      /\ \A i, j \in DOMAIN mc.selections :
           mc.selections[i].selectionId = mc.selections[j].selectionId => i = j
      /\ ByKey(m.contests, "contestId", mc.contestId) = mc
  BY ManifestIsValid DEF IsManifest, ToSet
<1>2. CASE ~HasKey(b.contests, "contestId", mc.contestId)
  <2>1. \A bc \in ToSet(b.contests) : bc.contestId # mc.contestId
    BY <1>2 DEF HasKey, ToSet
  <2>2. SelectionsFor(b, mc) = << >>
    BY <1>2 DEF SelectionsFor
  <2>3. \A i \in DOMAIN mc.selections : v[i] = 0
    BY <2>2 DEF VotesFor, VoteFor, HasKey
  <2>4. Ones = {}
    BY <2>3
  <2>5. Cardinality(Ones) = 0
    BY <2>4, FS_EmptySet
  <2> QED BY <2>1, <2>3, <2>4, <2>5
<1>3. CASE HasKey(b.contests, "contestId", mc.contestId)
  <2> DEFINE bc == ByKey(b.contests, "contestId", mc.contestId)
             ss == bc.selections
             Marked == {j \in DOMAIN ss : ss[j].vote = 1}
  <2>1. PICK n \in DOMAIN b.contests : b.contests[n]["contestId"] = mc.contestId /\ bc = b.contests[n]
    <3>1. b.contests \in Seq(ToSet(b.contests))
      BY DEF IsPlaintextBallot
    <3> QED BY ONLY <1>3, <3>1, ByKeyIs
  <2>2. bc \in ToSet(b.contests) /\ bc.contestId = mc.contestId
    BY <2>1 DEF ToSet
  <2>3. \A d \in ToSet(b.contests) : d.contestId = mc.contestId => d = bc
    <3> SUFFICES ASSUME NEW k \in DOMAIN b.contests, b.contests[k].contestId = mc.contestId
                 PROVE  b.contests[k] = bc
      BY DEF ToSet
    <3>1. k = n
      BY <2>1, BallotIsValid
    <3> QED BY <2>1, <3>1
  <2>4. v = VotesFor(mc, ss)
    BY <1>3 DEF SelectionsFor
  <2> HIDE DEF bc
  <2>5. /\ ss \in Seq(ToSet(ss))
        /\ \A j \in DOMAIN ss :
             /\ ByKey(ss, "selectionId", ss[j].selectionId) = ss[j]
             /\ HasKey(mc.selections, "selectionId", ss[j].selectionId)
             /\ ss[j].vote \in {0, 1}
        /\ Cardinality(Marked) <= mc.votesAllowed
    <3>1. ByKey(m.contests, "contestId", bc.contestId) = mc
      BY <1>1, <2>2
    <3> QED BY <2>2, <3>1, BallotIsValid
  <2> HIDE DEF ss
  <2>6. /\ \A i \in DOMAIN mc.selections : v[i] \in {0, 1}
        /\ \A i \in Ones : \E j \in Marked : ss[j].selectionId = mc.selections[i].selectionId
        /\ \A i \in DOMAIN mc.selections :
             (\E j \in Marked : ss[j].selectionId = mc.selections[i].selectionId) => i \in Ones
        /\ Cardinality(Ones) <= Cardinality(Marked) /\ IsFiniteSet(Marked) /\ IsFiniteSet(Ones)
    <3>1. Marked \in SUBSET DOMAIN ss /\ \A j \in DOMAIN ss : j \in Marked <=> ss[j].vote = 1
      OBVIOUS
    <3> HIDE DEF Marked
    <3>2. \A j \in DOMAIN ss :
            ByKey(ss, "selectionId", ss[j].selectionId) = ss[j] /\ ss[j].vote \in {0, 1}
      BY <2>5
    <3>3. /\ ss \in Seq(ToSet(ss)) /\ Ones \in SUBSET DOMAIN mc.selections
          /\ \A i \in DOMAIN mc.selections : i \in Ones <=> v[i] = 1
      BY <2>5
    <3>4. VotesMatch(mc, ss, v, Ones, Marked)
      BY ONLY <1>1, <2>4, <3>1, <3>2, <3>3, VotesOfList
    <3> QED BY <3>4 DEF VotesMatch
  <2>7. Cardinality(Ones) <= mc.votesAllowed
    <3> HIDE DEF Marked
    <3>1. Cardinality(Ones) \in Nat /\ Cardinality(Marked) \in Nat /\ mc.votesAllowed \in Int
      BY <1>1, <2>6, FS_CardinalityType DEF IsContest
    <3> QED BY <2>5, <2>6, <3>1
  <2>8. ASSUME NEW i \in Ones
        PROVE  \E s \in ToSet(ss) : s.selectionId = mc.selections[i].selectionId /\ s.vote > 0
    <3>1. PICK j \in Marked : ss[j].selectionId = mc.selections[i].selectionId
      BY <2>6
    <3>2. ss[j] \in ToSet(ss) /\ ss[j].vote = 1
      BY <3>1 DEF ToSet
    <3> QED BY <3>1, <3>2
  <2>9. ASSUME NEW s \in ToSet(ss), s.vote > 0
        PROVE  \E i \in Ones : mc.selections[i].selectionId = s.selectionId
    <3>1. PICK j \in DOMAIN ss : s = ss[j]
      BY DEF ToSet
    <3>2. j \in Marked
      BY <2>5, <2>9, <3>1
    <3>3. PICK i \in DOMAIN mc.selections : mc.selections[i]["selectionId"] = ss[j].selectionId
      BY <2>5, <3>1 DEF HasKey
    <3>4. \E l \in Marked : ss[l].selectionId = mc.selections[i].selectionId
      BY <3>2, <3>3
    <3> HIDE DEF Marked
    <3>5. i \in Ones
      BY <2>6, <3>4
    <3> QED BY <3>1, <3>3, <3>5
  <2> QED BY <2>2, <2>3, <2>6, <2>7, <2>8, <2>9 DEF ss
<1> QED BY <1>2, <1>3

-----------------------------------------------------------------------------
(***************************************************************************)
(* An encrypted contest: its visible shape depends on the description of   *)
(* the contest and on the lengths of the write-ins alone, and it uses a    *)
(* nonce for each selection.                                               *)
(***************************************************************************)
LEMMA ContestOfIs ==
  ASSUME NEW mc, NEW v, NEW x, NEW w, NEW nonce
  PROVE  /\ ContestOf(mc, v, x, w, nonce).contestId = mc.contestId
         /\ ContestOf(mc, v, x, w, nonce).sequenceOrder = mc.sequenceOrder
         /\ ContestOf(mc, v, x, w, nonce).selections
              = SortedByOrder(RealOf(mc, v, x, nonce) \o FillerOf(mc, w, nonce))
BY DEF ContestOf, EncryptContest

\* The lengths of some extended data, before it is encrypted.
Lengths(data) == {t.numBytes : t \in data}

\* They are what is visible of it.
LEMMA VisibleLengths ==
  ASSUME NEW data, NEW nonce
  PROVE  VisibleBytes(HashedElGamal(data, nonce)) = Lengths(data)
<1> DEFINE cipher(t) == [text |-> t, nonce |-> Nonce(nonce, "extended-data", 0)]
           R == HashedElGamal(data, nonce)
<1>1. \A t : cipher(t).text = t
  OBVIOUS
<1>2. R = {cipher(t) : t \in data}
  BY DEF HashedElGamal
<1> HIDE DEF cipher, R
<1>3. {d.text.numBytes : d \in R} = {t.numBytes : t \in data}
  BY <1>1, <1>2
<1> QED BY <1>3 DEF VisibleBytes, Lengths, R

\* Two encryptions of one contest with write-ins of the same lengths look
\* alike, whatever their votes and nonces.
LEMMA SameShape ==
  ASSUME NEW mc, IsContest(mc), mc.selections # << >>, mc.votesAllowed \in Nat,
         NEW v, NEW x, NEW w, NEW nonce, NEW v2, NEW x2, NEW w2, NEW nonce2,
         \A i \in DOMAIN mc.selections : Lengths(x[i]) = Lengths(x2[i]),
         NEW c, c = ContestOf(mc, v, x, w, nonce), NEW c2, c2 = ContestOf(mc, v2, x2, w2, nonce2)
  PROVE  VisibleShape(c) = VisibleShape(c2)
<1> DEFINE list == RealOf(mc, v, x, nonce) \o FillerOf(mc, w, nonce)
           list2 == RealOf(mc, v2, x2, nonce2) \o FillerOf(mc, w2, nonce2)
<1>1. IsContestList(list, mc, x, nonce) /\ IsContestList(list2, mc, x2, nonce2)
  BY ContestListIs
<1>2. /\ c.contestId = mc.contestId /\ c.sequenceOrder = mc.sequenceOrder
      /\ c.selections = SortedByOrder(list)
      /\ c2.contestId = mc.contestId /\ c2.sequenceOrder = mc.sequenceOrder
      /\ c2.selections = SortedByOrder(list2)
  BY ContestOfIs
<1> HIDE DEF list, list2
<1>3. PICK p : Arranges(p, list) /\ Arranges(p, list2)
  <2>1. /\ list \in Seq(ToSet(list)) /\ list2 \in Seq(ToSet(list2)) /\ DOMAIN list2 = DOMAIN list
        /\ \A i \in DOMAIN list : list[i].sequenceOrder \in Int
                                  /\ list2[i].sequenceOrder = list[i].sequenceOrder
    BY <1>1 DEF IsContestList
  <2> QED BY ONLY <2>1, SortedAlike
<1> DEFINE D == DOMAIN list
<1>4. /\ c.selections = [k \in D |-> list[p[k]]] /\ c2.selections = [k \in D |-> list2[p[k]]]
      /\ \A k \in D : p[k] \in D
  BY <1>1, <1>2, <1>3 DEF Arranges, Permutes, IsContestList
<1>5. ASSUME NEW i \in D
      PROVE  /\ list[i].selectionId = list2[i].selectionId
             /\ list[i].sequenceOrder = list2[i].sequenceOrder
             /\ list[i].isPlaceholderSelection = list2[i].isPlaceholderSelection
             /\ VisibleBytes(list[i].extendedData) = VisibleBytes(list2[i].extendedData)
  <2>1. Lengths(DataAt(mc, x, i)) = Lengths(DataAt(mc, x2, i))
    <3>1. mc.selections \in Seq(ToSet(mc.selections)) /\ i \in 1 .. Len(mc.selections) + mc.votesAllowed
      BY <1>1 DEF IsContest, IsContestList
    <3>2. i <= Len(mc.selections) => i \in DOMAIN mc.selections
      BY <3>1
    <3> QED BY <3>2 DEF DataAt
  <2>2. /\ list[i].extendedData = HashedElGamal(DataAt(mc, x, i), list[i].selectionNonce)
        /\ list2[i].extendedData = HashedElGamal(DataAt(mc, x2, i), list2[i].selectionNonce)
    BY <1>1 DEF IsContestList
  <2>3. VisibleBytes(list[i].extendedData) = VisibleBytes(list2[i].extendedData)
    BY <2>1, <2>2, VisibleLengths
  <2> QED BY <1>1, <2>3 DEF IsContestList
<1> HIDE DEF D
<1>6. [i \in DOMAIN c.selections |->
         <<c.selections[i].selectionId, c.selections[i].sequenceOrder,
           c.selections[i].isPlaceholderSelection,
           VisibleBytes(c.selections[i].extendedData)>>]
        = [i \in DOMAIN c2.selections |->
             <<c2.selections[i].selectionId, c2.selections[i].sequenceOrder,
               c2.selections[i].isPlaceholderSelection,
               VisibleBytes(c2.selections[i].extendedData)>>]
  <2>1. DOMAIN c.selections = D /\ DOMAIN c2.selections = D
    BY <1>4
  <2>2. \A k \in D : /\ c.selections[k].selectionId = c2.selections[k].selectionId
                     /\ c.selections[k].sequenceOrder = c2.selections[k].sequenceOrder
                     /\ c.selections[k].isPlaceholderSelection = c2.selections[k].isPlaceholderSelection
                     /\ VisibleBytes(c.selections[k].extendedData)
                          = VisibleBytes(c2.selections[k].extendedData)
    BY <1>4, <1>5
  <2> QED BY <2>1, <2>2
<1> QED BY <1>2, <1>6 DEF VisibleShape

HasNonces(contest, nonce) ==
  /\ \A k \in DOMAIN contest.selections :
       \E z : contest.selections[k].selectionNonce
                = <<z, nonce, contest.selections[k].sequenceOrder>>
  /\ \A k, l \in DOMAIN contest.selections :
       contest.selections[k].sequenceOrder = contest.selections[l].sequenceOrder => k = l

\* The nonces of a contest differ in the sequence order of its selections.
LEMMA ContestHasNonces ==
  ASSUME NEW mc, IsContest(mc), mc.selections # << >>, mc.votesAllowed \in Nat,
         \A i, j \in DOMAIN mc.selections :
           mc.selections[i].sequenceOrder = mc.selections[j].sequenceOrder => i = j,
         NEW v, NEW x, NEW w, NEW nonce, NEW c, c = ContestOf(mc, v, x, w, nonce)
  PROVE  HasNonces(c, nonce)
<1> DEFINE list == RealOf(mc, v, x, nonce) \o FillerOf(mc, w, nonce)
<1>1. IsContestList(list, mc, x, nonce)
  BY ContestListIs
<1>2. c.selections = SortedByOrder(list)
  BY ContestOfIs
<1> HIDE DEF list
<1>3. \A i, j \in DOMAIN list : list[i].sequenceOrder = list[j].sequenceOrder => i = j
  <2> SUFFICES ASSUME NEW i \in DOMAIN list, NEW j \in DOMAIN list,
                      list[i].sequenceOrder = list[j].sequenceOrder
               PROVE  i = j
    OBVIOUS
  <2>1. /\ i \in 1 .. Len(mc.selections) + mc.votesAllowed
        /\ j \in 1 .. Len(mc.selections) + mc.votesAllowed
        /\ Description(mc, i).sequenceOrder = Description(mc, j).sequenceOrder
    BY <1>1 DEF IsContestList
  <2> QED BY <2>1, OrdersAreDistinct
<1>4. PICK p : Arranges(p, list)
  <2>1. /\ list \in Seq(ToSet(list))
        /\ \A i \in DOMAIN list : list[i].sequenceOrder \in Int
    BY <1>1 DEF IsContestList
  <2> QED BY ONLY <2>1, SortedAlike
<1>5. /\ DOMAIN c.selections = DOMAIN list
      /\ \A k \in DOMAIN list : p[k] \in DOMAIN list /\ c.selections[k] = list[p[k]]
      /\ \A k, l \in DOMAIN list : c.selections[k].sequenceOrder = c.selections[l].sequenceOrder => k = l
  BY <1>2, <1>3, <1>4, ArrangedAreDistinct
<1>6. \A k \in DOMAIN list : \E z : list[k].selectionNonce = <<z, nonce, list[k].sequenceOrder>>
  BY <1>1 DEF IsContestList
<1> QED BY <1>5, <1>6 DEF HasNonces

-----------------------------------------------------------------------------
(***************************************************************************)
(* An encrypted ballot, contest by contest.                                *)
(***************************************************************************)
Ones(mc, b) == {i \in DOMAIN mc.selections : VotesFor(mc, SelectionsFor(b, mc))[i] = 1}

IsEncryptionOf(contest, mc, b, nonce) ==
  contest = ContestOf(mc, VotesFor(mc, SelectionsFor(b, mc)), DataOf(mc, SelectionsFor(b, mc)),
                      Marks(mc.votesAllowed, mc.votesAllowed - Cardinality(Ones(mc, b))),
                      ContestNonce(mc, nonce))

\* A ballot that does not throw has votes of 0 and 1 for every contest.
LEMMA UnthrownVotes ==
  ASSUME NEW m, IsManifest(m), NEW b, ~Throws(m, b), NEW mc \in ToSet(m.contests),
         NEW v, v = VotesFor(mc, SelectionsFor(b, mc))
  PROVE  /\ IsContest(mc) /\ mc.selections # << >>
         /\ \A i \in DOMAIN mc.selections : v[i] \in {0, 1}
<1>1. IsContest(mc) /\ mc.selections # << >>
      /\ \A ms \in ToSet(mc.selections) : VoteFor(SelectionsFor(b, mc), ms) \in {0, 1}
  BY DEF IsManifest, Throws, Encryptable
<1>2. \A i \in DOMAIN mc.selections : mc.selections[i] \in ToSet(mc.selections)
  BY DEF ToSet
<1> QED BY <1>1, <1>2 DEF VotesFor

\* Its placeholders take what its votes of 1 leave.
LEMMA ContestIsEncrypted ==
  ASSUME NEW m, IsManifest(m), NEW b, ~Throws(m, b), NEW mc \in ToSet(m.contests), NEW nonce,
         NEW contest, contest = ContestEncryption(mc, SelectionsFor(b, mc), nonce)
  PROVE  IsEncryptionOf(contest, mc, b, nonce)
<1> DEFINE ss == SelectionsFor(b, mc)
           v == VotesFor(mc, ss)
           x == DataOf(mc, ss)
           S == DOMAIN mc.selections
           total == SumFunctionOnSet(v, S)
<1>1. IsContest(mc) /\ \A i \in S : v[i] \in {0, 1}
  BY UnthrownVotes
<1>2. IsFiniteSet(S)
  BY <1>1, ListIsFinite DEF IsContest
<1> HIDE DEF v, x, S, ss
<1>3. total = Cardinality({i \in S : v[i] = 1})
  BY <1>1, <1>2, SumOfBits
<1>4. total = Cardinality(Ones(mc, b))
  BY <1>3 DEF Ones, v, S, ss
<1>5. /\ IntOn(v, S) /\ v = VotesFor(mc, ss) /\ x = DataOf(mc, ss)
      /\ total = SumFunctionOnSet(v, DOMAIN mc.selections)
  BY <1>1 DEF IntOn, v, x, S
<1> HIDE DEF total
<1>6. ContestEncryption(mc, ss, nonce)
        = ContestOf(mc, v, x, Marks(mc.votesAllowed, mc.votesAllowed - total),
                    ContestNonce(mc, nonce))
  BY <1>1, <1>5, ContestEncryptionIs DEF S
<1> QED BY <1>4, <1>6 DEF IsEncryptionOf, v, x, ss

IsBody(body, m, b, nonce) ==
  /\ body \in Seq(ToSet(body)) /\ DOMAIN body = DOMAIN m.contests
  /\ \A i \in DOMAIN m.contests : /\ IsEncryptionOf(body[i], m.contests[i], b, nonce)
                                  /\ body[i].sequenceOrder = m.contests[i].sequenceOrder
                                  /\ body[i].sequenceOrder \in Int

HasBody(e, m, b) ==
  \E body, id : /\ IsBody(body, m, b, <<ManifestHash(m), id, e.masterNonce>>)
                /\ e.contests = SortedByOrder(body)

\* An encrypted ballot has an encryption of each contest, in order.
LEMMA BallotIsEncrypted ==
  ASSUME NEW m, IsManifest(m), NEW b, ~Throws(m, b), NEW seed, NEW masterNonce,
         NEW e, e = EncryptBallot(m, b, seed, masterNonce)
  PROVE  HasBody(e, m, b)
<1> DEFINE nonce == BallotNonce(ManifestHash(m), b.ballotId, masterNonce)
           body == [i \in DOMAIN m.contests |->
                      ContestEncryption(m.contests[i], SelectionsFor(b, m.contests[i]), nonce)]
<1>1. e.contests = SortedByOrder(body) /\ e.masterNonce = masterNonce
  BY DEF EncryptBallot
<1>2. nonce = <<ManifestHash(m), b.ballotId, masterNonce>>
  BY DEF BallotNonce
<1> HIDE DEF nonce
<1>3. ASSUME NEW i \in DOMAIN m.contests
      PROVE  /\ IsEncryptionOf(body[i], m.contests[i], b, nonce)
             /\ body[i].sequenceOrder = m.contests[i].sequenceOrder
             /\ body[i].sequenceOrder \in Int
  <2>1. m.contests[i] \in ToSet(m.contests)
    BY DEF ToSet
  <2>2. body[i] = ContestEncryption(m.contests[i], SelectionsFor(b, m.contests[i]), nonce)
    OBVIOUS
  <2> HIDE DEF body
  <2>3. IsEncryptionOf(body[i], m.contests[i], b, nonce)
    BY <2>1, <2>2, ContestIsEncrypted
  <2>4. body[i].sequenceOrder = m.contests[i].sequenceOrder
    BY <2>3, ContestOfIs DEF IsEncryptionOf
  <2> QED BY <2>1, <2>3, <2>4 DEF IsManifest, IsContest
<1>4. body \in Seq(ToSet(body))
  <2> DEFINE n == Len(m.contests)
  <2>1. n \in Int /\ DOMAIN m.contests = 1 .. n
    BY DEF IsManifest
  <2>2. body = [i \in 1 .. n |-> body[i]]
    BY <2>1
  <2> HIDE DEF body, n
  <2> QED BY ONLY <2>1, <2>2, FunctionIsList
<1>5. IsBody(body, m, b, nonce)
  <2>1. DOMAIN body = DOMAIN m.contests
    OBVIOUS
  <2> HIDE DEF body
  <2> QED BY <1>3, <1>4, <2>1 DEF IsBody
<1> HIDE DEF body
<1> QED BY <1>1, <1>2, <1>5 DEF HasBody

-----------------------------------------------------------------------------
(***************************************************************************)
(* The ballots of a batch under the invariant.                             *)
(***************************************************************************)
LEMMA BatchIs ==
  ASSUME Inv, NEW i \in DOMAIN encryptedBallots
  PROVE  /\ IsManifest(manifest) /\ ValidManifest(manifest)
         /\ \A mc \in ToSet(manifest.contests) : mc.votesAllowed \in Nat
         /\ i \in 1 .. Len(accepted) /\ i \in 1 .. Len(encryptedBallots)
         /\ IsPlaintextBallot(accepted[i]) /\ ValidBallot(manifest, accepted[i])
         /\ ~Throws(manifest, accepted[i])
         /\ \E body, id :
              /\ IsBody(body, manifest, accepted[i],
                        <<ManifestHash(manifest), id, encryptedBallots[i].masterNonce>>)
              /\ encryptedBallots[i].contests = SortedByOrder(body)
<1>1. i \in 1 .. Len(encryptedBallots)
  BY DEF Inv
<1>2. Len(encryptedBallots) \in Nat /\ Len(accepted) \in Nat /\ Len(encryptedBallots) <= Len(accepted)
  BY DEF Inv
<1>3. i \in 1 .. Len(accepted) /\ encryptedBallots # << >>
  BY <1>1, <1>2
<1>4. phase \in AtWork
  BY <1>3 DEF Inv
<1>5. phase # "refused"
  BY <1>4 DEF AtWork
<1>6. /\ IsManifest(manifest) /\ ValidManifest(manifest)
      /\ \A mc \in ToSet(manifest.contests) : mc.votesAllowed \in Nat
  BY <1>5, ManifestsAssumption DEF Inv
<1>7. accepted[i] \in Ballots
  BY <1>3 DEF Inv
<1>8. IsPlaintextBallot(accepted[i]) /\ ValidBallot(manifest, accepted[i])
  BY <1>3, <1>7, BallotsAssumption DEF Inv
<1>9. Encrypted(i)
  BY <1>1 DEF Inv
<1> DEFINE e == encryptedBallots[i]
<1>10. ~Throws(manifest, accepted[i])
       /\ e = EncryptBallot(manifest, accepted[i], e.codeSeed, e.masterNonce)
  BY <1>9 DEF Encrypted
<1>11. HasBody(e, manifest, accepted[i])
  <2> DEFINE seed == e.codeSeed
             masterNonce == e.masterNonce
  <2>1. e = EncryptBallot(manifest, accepted[i], seed, masterNonce)
    BY <1>10
  <2> HIDE DEF e, seed, masterNonce
  <2> QED BY ONLY <1>6, <1>10, <2>1, BallotIsEncrypted
<1> QED BY <1>1, <1>3, <1>6, <1>8, <1>10, <1>11 DEF HasBody

\* The contests of a ballot in order are its contests.
LEMMA BodySorted ==
  ASSUME NEW body, NEW m, NEW b, NEW nonce, IsBody(body, m, b, nonce)
  PROVE  ToSet(SortedByOrder(body)) = {body[k] : k \in DOMAIN m.contests}
<1>1. /\ body \in Seq(ToSet(body)) /\ DOMAIN body = DOMAIN m.contests
      /\ \A k \in DOMAIN body : body[k].sequenceOrder \in Int
  BY DEF IsBody
<1>2. \A e \in ToSet(body) : e.sequenceOrder \in Int
  BY <1>1 DEF ToSet
<1>3. ToSet(SortedByOrder(body)) = ToSet(body)
  BY <1>1, <1>2, SortedPermutes
<1> QED BY <1>1, <1>3 DEF ToSet

(***************************************************************************)
(* An encrypted contest of a valid ballot encrypts votes of 0 and 1, those *)
(* of the voter among them, votesAllowed in all.                           *)
(***************************************************************************)
LEMMA ContestIsProper ==
  ASSUME NEW m, IsManifest(m), ValidManifest(m), NEW b, IsPlaintextBallot(b), ValidBallot(m, b),
         ~Throws(m, b), NEW mc \in ToSet(m.contests), mc.votesAllowed \in Nat, NEW nonce,
         NEW contest, IsEncryptionOf(contest, mc, b, nonce)
  PROVE  /\ contest.contestId = mc.contestId
         /\ ProofVerifies(contest)
         /\ \A s \in ToSet(contest.selections) : s.vote \in {0, 1}
         /\ RealSelections(contest)
              = ToSet(RealOf(mc, VotesFor(mc, SelectionsFor(b, mc)), DataOf(mc, SelectionsFor(b, mc)),
                             ContestNonce(mc, nonce)))
<1> DEFINE v == VotesFor(mc, SelectionsFor(b, mc))
           x == DataOf(mc, SelectionsFor(b, mc))
           S == DOMAIN mc.selections
           limit == mc.votesAllowed
           count == Cardinality(Ones(mc, b))
           w == Marks(limit, limit - count)
           cn == ContestNonce(mc, nonce)
<1>1. /\ IsContest(mc) /\ mc.selections # << >> /\ \A i \in S : v[i] \in {0, 1}
  BY UnthrownVotes
<1>2. IsFiniteSet(S) /\ Ones(mc, b) \in SUBSET S /\ Ones(mc, b) = {i \in S : v[i] = 1}
  BY <1>1, ListIsFinite DEF IsContest, Ones
<1>3. contest = ContestOf(mc, v, x, w, cn)
  BY DEF IsEncryptionOf
<1>4. v = VotesFor(mc, SelectionsFor(b, mc)) /\ limit >= 0 /\ limit \in Nat
  OBVIOUS
<1> HIDE DEF v, x, S, cn
<1>5. count \in Nat /\ count <= limit
  <2>1. Cardinality(Ones(mc, b)) \in Nat
    BY <1>2, FS_Subset, FS_CardinalityType
  <2>2. Ones(mc, b) = {i \in DOMAIN mc.selections : v[i] = 1}
    BY DEF Ones, v
  <2>3. Cardinality(Ones(mc, b)) <= mc.votesAllowed
    BY <1>4, <2>2, BallotVotes
  <2> QED BY <2>1, <2>3
<1>6. SumFunctionOnSet(v, S) = count
  <2>1. SumFunctionOnSet(v, S) = Cardinality({i \in S : v[i] = 1})
    BY <1>1, <1>2, SumOfBits
  <2> QED BY <1>2, <2>1
<1> HIDE DEF count, limit
<1>7. SumFunctionOnSet(w, 1 .. limit) = limit - count
  <2>1. limit - count \in 0 .. limit
    BY <1>4, <1>5
  <2> QED BY <1>4, <2>1, MarksSum
<1>8. \A k \in 1 .. limit : w[k] \in {0, 1}
  BY DEF Marks
<1> HIDE DEF w
<1>9. IntOn(v, S) /\ IntOn(w, 1 .. limit)
  BY <1>1, <1>8 DEF IntOn
<1>10. /\ ToSet(contest.selections) = ToSet(RealOf(mc, v, x, cn)) \cup ToSet(FillerOf(mc, w, cn))
       /\ RealSelections(contest) = ToSet(RealOf(mc, v, x, cn))
       /\ Accumulated(contest) = SumFunctionOnSet(v, S) + SumFunctionOnSet(w, 1 .. limit)
       /\ contest.constant = limit
  BY <1>1, <1>3, <1>9, ContestOfHas DEF S, limit
<1>11. ProofVerifies(contest)
  <2>1. Accumulated(contest) = count + (limit - count) /\ count \in Int /\ limit \in Int
    BY <1>4, <1>5, <1>6, <1>7, <1>10
  <2> QED BY <1>10, <2>1 DEF ProofVerifies
<1>12. \A s \in ToSet(RealOf(mc, v, x, cn)) : s.vote \in {0, 1}
  <2> SUFFICES ASSUME NEW i \in DOMAIN RealOf(mc, v, x, cn) PROVE RealOf(mc, v, x, cn)[i].vote \in {0, 1}
    BY DEF ToSet
  <2>1. i \in S /\ RealOf(mc, v, x, cn)[i] = EncryptSelection(v[i], x[i], mc.selections[i], cn, FALSE)
    BY DEF RealOf, S
  <2>2. RealOf(mc, v, x, cn)[i].vote = v[i]
    BY <2>1 DEF EncryptSelection
  <2> QED BY <1>1, <2>1, <2>2
<1>13. \A s \in ToSet(FillerOf(mc, w, cn)) : s.vote \in {0, 1}
  <2> SUFFICES ASSUME NEW k \in DOMAIN FillerOf(mc, w, cn) PROVE FillerOf(mc, w, cn)[k].vote \in {0, 1}
    BY DEF ToSet
  <2>1. k \in 1 .. limit /\ FillerOf(mc, w, cn)[k] = EncryptSelection(w[k], {}, PlaceholderOf(mc, k), cn, TRUE)
    BY DEF FillerOf, limit
  <2>2. FillerOf(mc, w, cn)[k].vote = w[k]
    BY <2>1 DEF EncryptSelection
  <2> QED BY <1>8, <2>1, <2>2
<1>14. contest.contestId = mc.contestId
  BY <1>3, ContestOfIs
<1> QED BY <1>10, <1>11, <1>12, <1>13, <1>14 DEF v, x, cn

\* Every contest of a batch verifies, and its ciphertexts encrypt 0 or 1.
LEMMA BallotIsProper ==
  ASSUME Inv, NEW i \in DOMAIN encryptedBallots, NEW contest \in ToSet(encryptedBallots[i].contests)
  PROVE  ProofVerifies(contest) /\ \A s \in ToSet(contest.selections) : s.vote \in {0, 1}
<1>1. PICK body, id :
        /\ IsBody(body, manifest, accepted[i],
                  <<ManifestHash(manifest), id, encryptedBallots[i].masterNonce>>)
        /\ encryptedBallots[i].contests = SortedByOrder(body)
  BY BatchIs
<1>2. PICK k \in DOMAIN manifest.contests : contest = body[k]
  BY <1>1, BodySorted
<1>3. /\ IsEncryptionOf(contest, manifest.contests[k], accepted[i],
                        <<ManifestHash(manifest), id, encryptedBallots[i].masterNonce>>)
      /\ manifest.contests[k] \in ToSet(manifest.contests)
  BY <1>1, <1>2 DEF IsBody, ToSet
<1> QED BY <1>3, BatchIs, ContestIsProper

-----------------------------------------------------------------------------
(***************************************************************************)
(* Each real ciphertext with a vote or with a write-in is one that the     *)
(* voter asked for, and the other way round.                               *)
(***************************************************************************)
LEMMA RealVotes ==
  ASSUME NEW m, IsManifest(m), ValidManifest(m), NEW b, IsPlaintextBallot(b), ValidBallot(m, b),
         ~Throws(m, b), NEW mc \in ToSet(m.contests), mc.votesAllowed \in Nat, NEW nonce,
         NEW contest, IsEncryptionOf(contest, mc, b, nonce),
         NEW x, x = DataOf(mc, SelectionsFor(b, mc))
  PROVE  /\ \A s \in RealSelections(contest) : s.vote > 0 =>
              \E i \in Ones(mc, b) : s.selectionId = mc.selections[i].selectionId
         /\ \A i \in Ones(mc, b) : \E s \in RealSelections(contest) :
              s.selectionId = mc.selections[i].selectionId /\ s.vote > 0
         /\ \A s \in RealSelections(contest) : \A d \in s.extendedData :
              \E i \in DOMAIN mc.selections :
                s.selectionId = mc.selections[i].selectionId /\ d.text \in x[i]
         /\ \A i \in DOMAIN mc.selections : \A t \in x[i] : \E s \in RealSelections(contest) :
              s.selectionId = mc.selections[i].selectionId /\ \E d \in s.extendedData : d.text = t
<1> DEFINE v == VotesFor(mc, SelectionsFor(b, mc))
           cn == ContestNonce(mc, nonce)
           real == RealOf(mc, v, x, cn)
<1>1. RealSelections(contest) = ToSet(real)
  BY ContestIsProper
<1>2. \A i \in DOMAIN mc.selections : v[i] \in {0, 1}
  BY UnthrownVotes
<1>3. Ones(mc, b) = {i \in DOMAIN mc.selections : v[i] = 1}
  BY DEF Ones
<1> HIDE DEF v, cn
<1>4. /\ DOMAIN real = DOMAIN mc.selections
      /\ \A i \in DOMAIN mc.selections : real[i] = EncryptSelection(v[i], x[i], mc.selections[i], cn, FALSE)
  BY DEF RealOf
<1> HIDE DEF real
<1>5. ASSUME NEW i \in DOMAIN mc.selections
      PROVE  /\ real[i].vote = v[i] /\ real[i].selectionId = mc.selections[i].selectionId
             /\ real[i].extendedData = HashedElGamal(x[i], real[i].selectionNonce)
  <2>1. real[i] = EncryptSelection(v[i], x[i], mc.selections[i], cn, FALSE)
    BY <1>4
  <2> QED BY <2>1 DEF EncryptSelection
<1>6. \A s \in ToSet(real) : \E i \in DOMAIN mc.selections : s = real[i]
  BY <1>4 DEF ToSet
<1>7. \A i \in DOMAIN mc.selections : real[i] \in ToSet(real)
  BY <1>4 DEF ToSet
<1>8. ASSUME NEW s \in RealSelections(contest), s.vote > 0
      PROVE  \E i \in Ones(mc, b) : s.selectionId = mc.selections[i].selectionId
  <2>1. PICK i \in DOMAIN mc.selections : s = real[i]
    BY <1>1, <1>6
  <2>2. v[i] = 1
    BY <1>2, <1>5, <1>8, <2>1
  <2> QED BY <1>3, <1>5, <2>1, <2>2
<1>9. ASSUME NEW i \in Ones(mc, b)
      PROVE  \E s \in RealSelections(contest) :
               s.selectionId = mc.selections[i].selectionId /\ s.vote > 0
  <2>1. i \in DOMAIN mc.selections /\ v[i] = 1
    BY <1>3
  <2>2. real[i] \in RealSelections(contest) /\ real[i].vote = 1
        /\ real[i].selectionId = mc.selections[i].selectionId
    BY <1>1, <1>5, <1>7, <2>1
  <2> QED BY <2>2
<1>10. ASSUME NEW s \in RealSelections(contest), NEW d \in s.extendedData
       PROVE  \E i \in DOMAIN mc.selections :
                s.selectionId = mc.selections[i].selectionId /\ d.text \in x[i]
  <2>1. PICK i \in DOMAIN mc.selections : s = real[i]
    BY <1>1, <1>6
  <2>2. d \in HashedElGamal(x[i], real[i].selectionNonce)
    BY <1>5, <2>1
  <2>3. d.text \in x[i]
    BY <2>2 DEF HashedElGamal
  <2> QED BY <1>5, <2>1, <2>3
<1>11. ASSUME NEW i \in DOMAIN mc.selections, NEW t \in x[i]
       PROVE  \E s \in RealSelections(contest) :
                s.selectionId = mc.selections[i].selectionId /\ \E d \in s.extendedData : d.text = t
  <2> DEFINE e == [text |-> t, nonce |-> Nonce(real[i].selectionNonce, "extended-data", 0)]
  <2>1. e \in real[i].extendedData /\ e.text = t
    BY <1>5 DEF HashedElGamal
  <2> HIDE DEF e
  <2>2. real[i] \in RealSelections(contest) /\ real[i].selectionId = mc.selections[i].selectionId
    BY <1>1, <1>5, <1>7
  <2> QED BY <2>1, <2>2
<1> QED BY <1>8, <1>9, <1>10, <1>11

\* The votes of 1 for a contest are the ones that the ballot asks for.
AskedFor(mc, b) ==
  /\ \A i \in Ones(mc, b) : \E bc \in ToSet(b.contests) : \E s \in ToSet(bc.selections) :
       bc.contestId = mc.contestId /\ s.selectionId = mc.selections[i].selectionId /\ s.vote > 0
  /\ \A bc \in ToSet(b.contests) : bc.contestId = mc.contestId =>
       \A s \in ToSet(bc.selections) : s.vote > 0 =>
         \E i \in Ones(mc, b) : mc.selections[i].selectionId = s.selectionId

\* It does so for every contest of a valid manifest.
LEMMA VotesAskedFor ==
  ASSUME NEW m, IsManifest(m), ValidManifest(m), NEW b, IsPlaintextBallot(b), ValidBallot(m, b),
         NEW mc \in ToSet(m.contests)
  PROVE  AskedFor(mc, b)
<1> DEFINE v == VotesFor(mc, SelectionsFor(b, mc))
           O == Ones(mc, b)
<1>1. v = VotesFor(mc, SelectionsFor(b, mc)) /\ O = {i \in DOMAIN mc.selections : v[i] = 1}
  BY DEF Ones
<1> HIDE DEF v, O
<1>2. /\ \A i \in O : \E bc \in ToSet(b.contests) : \E s \in ToSet(bc.selections) :
           bc.contestId = mc.contestId /\ s.selectionId = mc.selections[i].selectionId /\ s.vote > 0
      /\ \A bc \in ToSet(b.contests) : bc.contestId = mc.contestId =>
           \A s \in ToSet(bc.selections) : s.vote > 0 =>
             \E i \in O : mc.selections[i].selectionId = s.selectionId
  BY <1>1, BallotVotes
<1> QED BY <1>2 DEF AskedFor, O

\* The extended data of a selection is what the ballot has as its write-in.
LEMMA WriteInsAskedFor ==
  ASSUME NEW m, IsManifest(m), NEW b, IsPlaintextBallot(b), ValidBallot(m, b),
         NEW mc, NEW i \in DOMAIN mc.selections, NEW t
  PROVE  t \in DataOf(mc, SelectionsFor(b, mc))[i]
           <=> <<mc.contestId, mc.selections[i].selectionId, t>> \in PlainWriteIns(b)
<1> DEFINE ss == SelectionsFor(b, mc)
           id == mc.selections[i].selectionId
           bc == ByKey(b.contests, "contestId", mc.contestId)
           entry == ByKey(ss, "selectionId", id)
<1>1. DataOf(mc, ss)[i] = IF HasKey(ss, "selectionId", id) THEN entry.extendedData ELSE {}
  BY DEF DataOf, DataFor
<1>2. ASSUME t \in DataOf(mc, ss)[i]
      PROVE  <<mc.contestId, id, t>> \in PlainWriteIns(b)
  <2>1. HasKey(ss, "selectionId", id) /\ t \in entry.extendedData
    BY <1>1, <1>2
  <2>2. HasKey(b.contests, "contestId", mc.contestId) /\ ss = bc.selections
    <3>1. CASE ~HasKey(b.contests, "contestId", mc.contestId)
      <4>1. ss = << >>
        BY <3>1 DEF SelectionsFor
      <4> HIDE DEF ss
      <4> QED BY <2>1, <4>1 DEF HasKey
    <3>2. CASE HasKey(b.contests, "contestId", mc.contestId)
      BY <3>2 DEF SelectionsFor
    <3> QED BY <3>1, <3>2
  <2>3. bc \in ToSet(b.contests) /\ bc.contestId = mc.contestId
    <3>1. b.contests \in Seq(ToSet(b.contests))
      BY DEF IsPlaintextBallot
    <3>2. \E n \in DOMAIN b.contests : b.contests[n]["contestId"] = mc.contestId /\ bc = b.contests[n]
      BY ONLY <2>2, <3>1, ByKeyIs
    <3> QED BY <3>2 DEF ToSet
  <2> HIDE DEF bc, ss
  <2>4. entry \in ToSet(ss) /\ entry.selectionId = id
    <3>1. ss \in Seq(ToSet(ss))
      BY <2>2, <2>3 DEF IsPlaintextBallot
    <3>2. \E n \in DOMAIN ss : ss[n]["selectionId"] = id /\ entry = ss[n]
      BY ONLY <2>1, <3>1, ByKeyIs
    <3> QED BY <3>2 DEF ToSet
  <2> HIDE DEF entry, id
  <2>5. /\ bc \in ToSet(b.contests) /\ entry \in ToSet(bc.selections) /\ t \in entry.extendedData
        /\ <<mc.contestId, id, t>> = <<bc.contestId, entry.selectionId, t>>
    BY <2>1, <2>2, <2>3, <2>4
  <2> QED BY <2>5 DEF PlainWriteIns
<1>3. ASSUME <<mc.contestId, id, t>> \in PlainWriteIns(b)
      PROVE  t \in DataOf(mc, ss)[i]
  <2> HIDE DEF id
  <2>1. PICK c \in ToSet(b.contests) : \E s \in ToSet(c.selections) : \E u \in s.extendedData :
          <<mc.contestId, id, t>> = <<c.contestId, s.selectionId, u>>
    BY <1>3 DEF PlainWriteIns
  <2>10. PICK s \in ToSet(c.selections) : \E u \in s.extendedData :
          <<mc.contestId, id, t>> = <<c.contestId, s.selectionId, u>>
    BY <2>1
  <2>11. PICK u \in s.extendedData : <<mc.contestId, id, t>> = <<c.contestId, s.selectionId, u>>
    BY <2>10
  <2>2. mc.contestId = c.contestId /\ id = s.selectionId /\ t = u
    BY <2>11
  <2>3. HasKey(b.contests, "contestId", mc.contestId) /\ bc = c
    <3>1. PICK n \in DOMAIN b.contests : c = b.contests[n]
      BY DEF ToSet
    <3>2. ByKey(b.contests, "contestId", b.contests[n].contestId) = b.contests[n]
      BY <3>1, BallotIsValid
    <3>3. b.contests[n].contestId = mc.contestId
      BY <2>2, <3>1
    <3> QED BY <3>1, <3>2, <3>3 DEF HasKey
  <2>4. ss = c.selections
    BY <2>3 DEF SelectionsFor
  <2>5. HasKey(ss, "selectionId", id) /\ entry = s
    <3>1. PICK n \in DOMAIN c.selections : s = c.selections[n]
      BY DEF ToSet
    <3>2. ByKey(c.selections, "selectionId", c.selections[n].selectionId) = c.selections[n]
      BY <3>1, BallotIsValid
    <3>3. c.selections[n].selectionId = id
      BY <2>2, <3>1
    <3> QED BY <2>4, <3>1, <3>2, <3>3 DEF HasKey
  <2> HIDE DEF ss, entry
  <2>6. DataOf(mc, ss)[i] = s.extendedData
    BY <1>1, <2>5
  <2> QED BY <2>2, <2>6
<1> QED BY <1>2, <1>3

\* Ballots with write-ins of the same lengths in the same places have extended
\* data of the same lengths.
LEMMA SameLengths ==
  ASSUME NEW m, IsManifest(m), NEW mc, NEW i \in DOMAIN mc.selections,
         NEW b, IsPlaintextBallot(b), ValidBallot(m, b),
         NEW b2, IsPlaintextBallot(b2), ValidBallot(m, b2), WriteInBytes(b) = WriteInBytes(b2)
  PROVE  Lengths(DataOf(mc, SelectionsFor(b, mc))[i]) = Lengths(DataOf(mc, SelectionsFor(b2, mc))[i])
<1> DEFINE id == mc.selections[i].selectionId
           D(ballot) == DataOf(mc, SelectionsFor(ballot, mc))[i]
<1>1. ASSUME NEW ballot, IsPlaintextBallot(ballot), ValidBallot(m, ballot), NEW n
      PROVE  n \in Lengths(D(ballot)) <=> <<mc.contestId, id, n>> \in WriteInBytes(ballot)
  <2>1. ASSUME NEW t
        PROVE  t \in D(ballot) <=> <<mc.contestId, id, t>> \in PlainWriteIns(ballot)
    BY <1>1, WriteInsAskedFor
  <2>2. ASSUME n \in Lengths(D(ballot))
        PROVE  <<mc.contestId, id, n>> \in WriteInBytes(ballot)
    <3>1. PICK t \in D(ballot) : n = t.numBytes
      BY <2>2 DEF Lengths
    <3> DEFINE w == <<mc.contestId, id, t>>
    <3>2. w \in PlainWriteIns(ballot) /\ w[1] = mc.contestId /\ w[2] = id /\ w[3] = t
      BY <2>1, <3>1
    <3> HIDE DEF w, id
    <3>3. <<mc.contestId, id, n>> = <<w[1], w[2], w[3].numBytes>>
      BY <3>1, <3>2
    <3> QED BY <3>2, <3>3 DEF WriteInBytes
  <2>3. ASSUME <<mc.contestId, id, n>> \in WriteInBytes(ballot)
        PROVE  n \in Lengths(D(ballot))
    <3> HIDE DEF id, D
    <3>1. PICK w \in PlainWriteIns(ballot) : <<mc.contestId, id, n>> = <<w[1], w[2], w[3].numBytes>>
      BY <2>3 DEF WriteInBytes
    <3>2. PICK c, s, t : w = <<c.contestId, s.selectionId, t>>
      BY <3>1 DEF PlainWriteIns
    <3>3. w[1] = mc.contestId /\ w[2] = id /\ n = w[3].numBytes
      BY <3>1
    <3>4. w = <<mc.contestId, id, t>> /\ n = t.numBytes
      BY <3>2, <3>3
    <3>5. t \in D(ballot)
      BY <2>1, <3>1, <3>4
    <3> QED BY <3>4, <3>5 DEF Lengths
  <2> QED BY <2>2, <2>3
<1> HIDE DEF D, id
<1>2. \A n : n \in Lengths(D(b)) <=> n \in Lengths(D(b2))
  BY <1>1
<1>3. Lengths(D(b)) = Lengths(D(b2))
  BY <1>2
<1> QED BY <1>3 DEF D

(***************************************************************************)
(* Every ballot of a batch decrypts to the votes that were handed in.      *)
(***************************************************************************)
LEMMA DecryptsToVotes ==
  ASSUME Inv, NEW i \in DOMAIN encryptedBallots
  PROVE  DecryptedVotes(encryptedBallots[i]) = PlainVotes(accepted[i])
<1> DEFINE m == manifest
           b == accepted[i]
           e == encryptedBallots[i]
           nonce(id) == <<ManifestHash(m), id, e.masterNonce>>
<1>1. /\ IsManifest(m) /\ ValidManifest(m) /\ IsPlaintextBallot(b) /\ ValidBallot(m, b)
      /\ ~Throws(m, b) /\ \A mc \in ToSet(m.contests) : mc.votesAllowed \in Nat
  BY BatchIs
<1>2. PICK body, id : IsBody(body, m, b, nonce(id)) /\ e.contests = SortedByOrder(body)
  BY BatchIs
<1>3. ToSet(e.contests) = {body[k] : k \in DOMAIN m.contests}
  BY <1>2, BodySorted
<1> HIDE DEF m, b, e, nonce
<1>4. ASSUME NEW k \in DOMAIN m.contests
      PROVE  /\ m.contests[k] \in ToSet(m.contests) /\ m.contests[k].votesAllowed \in Nat
             /\ IsEncryptionOf(body[k], m.contests[k], b, nonce(id))
             /\ body[k].contestId = m.contests[k].contestId
  <2>1. m.contests[k] \in ToSet(m.contests)
    BY DEF ToSet
  <2>2. IsEncryptionOf(body[k], m.contests[k], b, nonce(id))
    BY <1>2 DEF IsBody
  <2> QED BY <1>1, <2>1, <2>2, ContestOfIs DEF IsEncryptionOf
<1>5. ASSUME NEW k \in DOMAIN m.contests, NEW s \in RealSelections(body[k]), s.vote > 0
      PROVE  <<body[k].contestId, s.selectionId>> \in PlainVotes(b)
  <2> DEFINE mc == m.contests[k]
             contest == body[k]
             N == nonce(id)
  <2>1. mc \in ToSet(m.contests) /\ mc.votesAllowed \in Nat /\ IsEncryptionOf(contest, mc, b, N)
        /\ contest.contestId = mc.contestId
    BY <1>4
  <2> HIDE DEF mc, contest, N
  <2>2. PICK n \in Ones(mc, b) : s.selectionId = mc.selections[n].selectionId
    BY <1>1, <1>5, <2>1, RealVotes DEF contest
  <2>3. \E bc \in ToSet(b.contests) : \E t \in ToSet(bc.selections) :
          bc.contestId = mc.contestId /\ t.selectionId = mc.selections[n].selectionId /\ t.vote > 0
    BY <1>1, <2>1, VotesAskedFor DEF AskedFor
  <2>4. \E bc \in ToSet(b.contests) : \E t \in ToSet(bc.selections) :
          t.vote > 0 /\ <<contest.contestId, s.selectionId>> = <<bc.contestId, t.selectionId>>
    BY <2>1, <2>2, <2>3
  <2> QED BY <2>4 DEF PlainVotes, contest
<1>6. ASSUME NEW bc \in ToSet(b.contests), NEW s \in ToSet(bc.selections), s.vote > 0
      PROVE  <<bc.contestId, s.selectionId>> \in DecryptedVotes(e)
  <2>1. HasKey(m.contests, "contestId", bc.contestId)
    BY <1>1, BallotIsValid
  <2>2. PICK k \in DOMAIN m.contests : m.contests[k].contestId = bc.contestId
    BY <2>1 DEF HasKey
  <2> DEFINE mc == m.contests[k]
             contest == body[k]
             N == nonce(id)
  <2>3. mc \in ToSet(m.contests) /\ mc.votesAllowed \in Nat /\ IsEncryptionOf(contest, mc, b, N)
        /\ contest.contestId = bc.contestId /\ mc.contestId = bc.contestId
        /\ contest \in ToSet(e.contests)
    BY <1>3, <1>4, <2>2
  <2> HIDE DEF mc, contest, N
  <2>4. PICK n \in Ones(mc, b) : mc.selections[n].selectionId = s.selectionId
    BY <1>1, <1>6, <2>3, VotesAskedFor DEF AskedFor
  <2>5. \E t \in RealSelections(contest) :
          t.selectionId = mc.selections[n].selectionId /\ t.vote > 0
    BY <1>1, <2>3, RealVotes
  <2>6. \E t \in RealSelections(contest) :
          t.vote > 0 /\ <<bc.contestId, s.selectionId>> = <<contest.contestId, t.selectionId>>
    BY <2>3, <2>4, <2>5
  <2> QED BY <2>3, <2>6 DEF DecryptedVotes
<1>7. DecryptedVotes(e) \subseteq PlainVotes(b)
  <2> SUFFICES ASSUME NEW contest \in ToSet(e.contests), NEW s \in RealSelections(contest), s.vote > 0
               PROVE  <<contest.contestId, s.selectionId>> \in PlainVotes(b)
    BY DEF DecryptedVotes
  <2> QED BY <1>3, <1>5
<1>8. PlainVotes(b) \subseteq DecryptedVotes(e)
  <2> SUFFICES ASSUME NEW bc \in ToSet(b.contests), NEW s \in ToSet(bc.selections), s.vote > 0
               PROVE  <<bc.contestId, s.selectionId>> \in DecryptedVotes(e)
    BY DEF PlainVotes
  <2> QED BY <1>6
<1> QED BY <1>7, <1>8 DEF e, b

\* And to the write-ins.
LEMMA DecryptsToWriteIns ==
  ASSUME Inv, NEW i \in DOMAIN encryptedBallots
  PROVE  DecryptedWriteIns(encryptedBallots[i]) = PlainWriteIns(accepted[i])
<1> DEFINE m == manifest
           b == accepted[i]
           e == encryptedBallots[i]
           nonce(id) == <<ManifestHash(m), id, e.masterNonce>>
<1>1. /\ IsManifest(m) /\ ValidManifest(m) /\ IsPlaintextBallot(b) /\ ValidBallot(m, b)
      /\ ~Throws(m, b) /\ \A mc \in ToSet(m.contests) : mc.votesAllowed \in Nat
  BY BatchIs
<1>2. PICK body, id : IsBody(body, m, b, nonce(id)) /\ e.contests = SortedByOrder(body)
  BY BatchIs
<1>3. ToSet(e.contests) = {body[k] : k \in DOMAIN m.contests}
  BY <1>2, BodySorted
<1> HIDE DEF m, b, e, nonce
<1>4. ASSUME NEW k \in DOMAIN m.contests, NEW mc, mc = m.contests[k], NEW contest, contest = body[k]
      PROVE  /\ mc \in ToSet(m.contests) /\ mc.votesAllowed \in Nat
             /\ IsEncryptionOf(contest, mc, b, nonce(id)) /\ contest.contestId = mc.contestId
             /\ contest \in ToSet(e.contests)
  <2>1. mc \in ToSet(m.contests) /\ contest \in ToSet(e.contests)
    BY <1>3, <1>4 DEF ToSet
  <2>2. IsEncryptionOf(contest, mc, b, nonce(id))
    BY <1>2, <1>4 DEF IsBody
  <2> QED BY <1>1, <2>1, <2>2, ContestOfIs DEF IsEncryptionOf
<1>5. ASSUME NEW contest \in ToSet(e.contests), NEW s \in RealSelections(contest),
             NEW d \in s.extendedData
      PROVE  <<contest.contestId, s.selectionId, d.text>> \in PlainWriteIns(b)
  <2>1. PICK k \in DOMAIN m.contests : contest = body[k]
    BY <1>3
  <2> DEFINE mc == m.contests[k]
             x == DataOf(mc, SelectionsFor(b, mc))
             N == nonce(id)
  <2>2. mc \in ToSet(m.contests) /\ mc.votesAllowed \in Nat /\ IsEncryptionOf(contest, mc, b, N)
        /\ contest.contestId = mc.contestId
    BY <1>4, <2>1
  <2>3. x = DataOf(mc, SelectionsFor(b, mc))
    OBVIOUS
  <2> HIDE DEF mc, N, x
  <2>4. PICK n \in DOMAIN mc.selections :
          s.selectionId = mc.selections[n].selectionId /\ d.text \in x[n]
    BY <1>1, <2>2, <2>3, RealVotes
  <2>5. <<mc.contestId, mc.selections[n].selectionId, d.text>> \in PlainWriteIns(b)
    BY <1>1, <2>3, <2>4, WriteInsAskedFor
  <2> QED BY <2>2, <2>4, <2>5
<1>6. ASSUME NEW bc \in ToSet(b.contests), NEW s \in ToSet(bc.selections), NEW t \in s.extendedData
      PROVE  <<bc.contestId, s.selectionId, t>> \in DecryptedWriteIns(e)
  <2>1. HasKey(m.contests, "contestId", bc.contestId)
    BY <1>1, BallotIsValid
  <2> DEFINE mc == ByKey(m.contests, "contestId", bc.contestId)
             x == DataOf(mc, SelectionsFor(b, mc))
             N == nonce(id)
  <2>2. PICK k \in DOMAIN m.contests : mc = m.contests[k] /\ m.contests[k]["contestId"] = bc.contestId
    <3>1. m.contests \in Seq(ToSet(m.contests))
      BY <1>1 DEF IsManifest
    <3> QED BY ONLY <2>1, <3>1, ByKeyIs
  <2>3. PICK j \in DOMAIN bc.selections : s = bc.selections[j]
    BY DEF ToSet
  <2>4. HasKey(mc.selections, "selectionId", s.selectionId)
    BY <1>1, <2>3, BallotIsValid
  <2>5. PICK n \in DOMAIN mc.selections : mc.selections[n].selectionId = s.selectionId
    BY <2>4 DEF HasKey
  <2> DEFINE contest == body[k]
  <2>6. /\ mc \in ToSet(m.contests) /\ mc.votesAllowed \in Nat /\ IsEncryptionOf(contest, mc, b, N)
        /\ contest.contestId = mc.contestId /\ mc.contestId = bc.contestId
        /\ contest \in ToSet(e.contests)
    BY <1>4, <2>2
  <2>7. x = DataOf(mc, SelectionsFor(b, mc))
    OBVIOUS
  <2> HIDE DEF mc, contest, N, x
  <2>8. <<bc.contestId, s.selectionId, t>> \in PlainWriteIns(b)
    BY DEF PlainWriteIns
  <2>9. t \in x[n]
    BY <1>1, <2>5, <2>6, <2>7, <2>8, WriteInsAskedFor
  <2>10. PICK r \in RealSelections(contest) :
           r.selectionId = mc.selections[n].selectionId /\ \E d \in r.extendedData : d.text = t
    BY <1>1, <2>6, <2>7, <2>9, RealVotes
  <2>11. PICK d \in r.extendedData : d.text = t
    BY <2>10
  <2>12. <<bc.contestId, s.selectionId, t>> = <<contest.contestId, r.selectionId, d.text>>
    BY <2>5, <2>6, <2>10, <2>11
  <2> QED BY <2>6, <2>12 DEF DecryptedWriteIns
<1>7. DecryptedWriteIns(e) \subseteq PlainWriteIns(b)
  <2> SUFFICES ASSUME NEW contest \in ToSet(e.contests), NEW s \in RealSelections(contest),
                      NEW d \in s.extendedData
               PROVE  <<contest.contestId, s.selectionId, d.text>> \in PlainWriteIns(b)
    BY DEF DecryptedWriteIns
  <2> QED BY <1>5
<1>8. PlainWriteIns(b) \subseteq DecryptedWriteIns(e)
  <2> SUFFICES ASSUME NEW bc \in ToSet(b.contests), NEW s \in ToSet(bc.selections),
                      NEW t \in s.extendedData
               PROVE  <<bc.contestId, s.selectionId, t>> \in DecryptedWriteIns(e)
    BY DEF PlainWriteIns
  <2> QED BY <1>6
<1> QED BY <1>7, <1>8 DEF e, b

-----------------------------------------------------------------------------
(***************************************************************************)
(* The contests of an encrypted ballot stand in one order, whichever       *)
(* ballot it is.                                                           *)
(***************************************************************************)
LEMMA ShapesAgree ==
  ASSUME Inv, NEW i \in DOMAIN encryptedBallots, NEW j \in DOMAIN encryptedBallots,
         WriteInBytes(accepted[i]) = WriteInBytes(accepted[j])
  PROVE  Shapes(encryptedBallots[i]) = Shapes(encryptedBallots[j])
<1> DEFINE m == manifest
           D == DOMAIN m.contests
           e == encryptedBallots[i]
           f == encryptedBallots[j]
<1>1. PICK body, id : /\ IsBody(body, m, accepted[i], <<ManifestHash(m), id, e.masterNonce>>)
                      /\ e.contests = SortedByOrder(body)
  BY BatchIs
<1>2. PICK other, id2 : /\ IsBody(other, m, accepted[j], <<ManifestHash(m), id2, f.masterNonce>>)
                        /\ f.contests = SortedByOrder(other)
  BY BatchIs
<1>3. PICK p : Arranges(p, body) /\ Arranges(p, other)
  <2>1. /\ body \in Seq(ToSet(body)) /\ other \in Seq(ToSet(other)) /\ DOMAIN other = DOMAIN body
        /\ \A k \in DOMAIN body : /\ body[k].sequenceOrder \in Int
                                  /\ other[k].sequenceOrder = body[k].sequenceOrder
    BY <1>1, <1>2 DEF IsBody
  <2> QED BY ONLY <2>1, SortedAlike
<1>4. /\ DOMAIN e.contests = D /\ DOMAIN f.contests = D
      /\ \A k \in D : p[k] \in D /\ e.contests[k] = body[p[k]] /\ f.contests[k] = other[p[k]]
  BY <1>1, <1>2, <1>3 DEF IsBody, Arranges, Permutes
<1>5. ASSUME NEW k \in D PROVE VisibleShape(body[k]) = VisibleShape(other[k])
  <2> DEFINE mc == m.contests[k]
             nonce == <<ManifestHash(m), id, e.masterNonce>>
             nonce2 == <<ManifestHash(m), id2, f.masterNonce>>
  <2>1. mc \in ToSet(m.contests)
    BY DEF ToSet
  <2>2. IsContest(mc) /\ mc.selections # << >> /\ mc.votesAllowed \in Nat
    BY <2>1, BatchIs, UnthrownVotes
  <2>3. /\ IsEncryptionOf(body[k], mc, accepted[i], nonce)
        /\ IsEncryptionOf(other[k], mc, accepted[j], nonce2)
    BY <1>1, <1>2 DEF IsBody
  <2> DEFINE v == VotesFor(mc, SelectionsFor(accepted[i], mc))
             w == Marks(mc.votesAllowed, mc.votesAllowed - Cardinality(Ones(mc, accepted[i])))
             x == DataOf(mc, SelectionsFor(accepted[i], mc))
             x2 == DataOf(mc, SelectionsFor(accepted[j], mc))
             v2 == VotesFor(mc, SelectionsFor(accepted[j], mc))
             w2 == Marks(mc.votesAllowed, mc.votesAllowed - Cardinality(Ones(mc, accepted[j])))
             cn == ContestNonce(mc, nonce)
             cn2 == ContestNonce(mc, nonce2)
             c == body[k]
             c2 == other[k]
  <2>4. c = ContestOf(mc, v, x, w, cn) /\ c2 = ContestOf(mc, v2, x2, w2, cn2)
    BY <2>3 DEF IsEncryptionOf
  <2>5. \A n \in DOMAIN mc.selections : Lengths(x[n]) = Lengths(x2[n])
    <3> HIDE DEF mc
    <3> QED BY BatchIs, SameLengths
  <2> HIDE DEF mc, v, w, x, v2, w2, x2, cn, cn2, c, c2
  <2>6. VisibleShape(c) = VisibleShape(c2)
    BY ONLY <2>2, <2>4, <2>5, SameShape
  <2> QED BY <2>6 DEF c, c2
<1>6. \A k \in D : VisibleShape(e.contests[k]) = VisibleShape(f.contests[k])
  BY <1>4, <1>5
<1> HIDE DEF D, e, f
<1>7. [n \in DOMAIN e.contests |-> VisibleShape(e.contests[n])]
        = [n \in DOMAIN f.contests |-> VisibleShape(f.contests[n])]
  BY <1>4, <1>6
<1> QED BY <1>7 DEF Shapes, e, f

(***************************************************************************)
(* Every ciphertext of a contest has a nonce made from the contest, the    *)
(* ballot's master nonce and the selection.                                *)
(***************************************************************************)
MadeFor(contest, masterNonce) ==
  \E x, y, id : HasNonces(contest, <<x, <<y, id, masterNonce>>, contest.sequenceOrder>>)

\* The contests of a ballot differ in their sequence order.
LEMMA BallotHasNonces ==
  ASSUME Inv, NEW i \in DOMAIN encryptedBallots, NEW contests, contests = encryptedBallots[i].contests
  PROVE  /\ \A n \in DOMAIN contests : MadeFor(contests[n], encryptedBallots[i].masterNonce)
         /\ \A n, k \in DOMAIN contests : contests[n].sequenceOrder = contests[k].sequenceOrder => n = k
<1> DEFINE m == manifest
           b == accepted[i]
           master == encryptedBallots[i].masterNonce
<1>1. PICK body, id : /\ IsBody(body, m, b, <<ManifestHash(m), id, master>>)
                      /\ contests = SortedByOrder(body)
  BY BatchIs
<1>2. IsManifest(m) /\ ValidManifest(m) /\ ~Throws(m, b)
      /\ \A mc \in ToSet(m.contests) : mc.votesAllowed \in Nat
  BY BatchIs
<1> HIDE DEF m, b, master
<1>3. PICK p : Arranges(p, body)
  <2>1. body \in Seq(ToSet(body)) /\ \A k \in DOMAIN body : body[k].sequenceOrder \in Int
    BY <1>1 DEF IsBody
  <2> QED BY ONLY <2>1, SortedAlike
<1>4. \A n, k \in DOMAIN body : body[n].sequenceOrder = body[k].sequenceOrder => n = k
  <2>1. \A n, k \in DOMAIN m.contests : m.contests[n].sequenceOrder = m.contests[k].sequenceOrder => n = k
    BY <1>2, ManifestIsValid
  <2> QED BY <1>1, <2>1 DEF IsBody
<1>5. /\ DOMAIN contests = DOMAIN body
      /\ \A n \in DOMAIN body : p[n] \in DOMAIN body /\ contests[n] = body[p[n]]
      /\ \A n, k \in DOMAIN body : contests[n].sequenceOrder = contests[k].sequenceOrder => n = k
  BY <1>1, <1>3, <1>4, ArrangedAreDistinct
<1>6. ASSUME NEW k \in DOMAIN body PROVE MadeFor(body[k], master)
  <2> DEFINE mc == m.contests[k]
             nonce == <<ManifestHash(m), id, master>>
             v == VotesFor(mc, SelectionsFor(b, mc))
             x == DataOf(mc, SelectionsFor(b, mc))
             w == Marks(mc.votesAllowed, mc.votesAllowed - Cardinality(Ones(mc, b)))
             cn == ContestNonce(mc, nonce)
             c == body[k]
  <2>1. /\ k \in DOMAIN m.contests /\ IsEncryptionOf(c, mc, b, nonce)
        /\ c.sequenceOrder = mc.sequenceOrder
    BY <1>1 DEF IsBody
  <2>2. mc \in ToSet(m.contests)
    BY <2>1 DEF ToSet
  <2>3. IsContest(mc) /\ mc.selections # << >> /\ mc.votesAllowed \in Nat
    BY <1>2, <2>2, UnthrownVotes
  <2>4. \A n, l \in DOMAIN mc.selections :
          mc.selections[n].sequenceOrder = mc.selections[l].sequenceOrder => n = l
    BY <1>2, <2>2, ManifestIsValid
  <2>5. c = ContestOf(mc, v, x, w, cn)
    BY <2>1 DEF IsEncryptionOf
  <2>6. cn = <<ContestHash(mc), nonce, c.sequenceOrder>>
    BY <2>1 DEF ContestNonce, Nonce
  <2> HIDE DEF mc, v, x, w, cn, c
  <2>7. HasNonces(c, cn)
    BY ONLY <2>3, <2>4, <2>5, ContestHasNonces
  <2>8. MadeFor(c, master)
    BY <2>6, <2>7 DEF MadeFor
  <2> QED BY <2>8 DEF c
<1> QED BY <1>5, <1>6 DEF master

(***************************************************************************)
(* Two ciphertexts of a chain with one nonce are one ciphertext.           *)
(***************************************************************************)
LEMMA NoncesDiffer ==
  ASSUME Inv, Chained, NEW i \in DOMAIN encryptedBallots, NEW j \in DOMAIN encryptedBallots,
         NEW n \in DOMAIN encryptedBallots[i].contests, NEW m \in DOMAIN encryptedBallots[j].contests,
         NEW k \in DOMAIN encryptedBallots[i].contests[n].selections,
         NEW l \in DOMAIN encryptedBallots[j].contests[m].selections,
         encryptedBallots[i].contests[n].selections[k].selectionNonce
           = encryptedBallots[j].contests[m].selections[l].selectionNonce
  PROVE  <<i, n, k>> = <<j, m, l>>
<1> DEFINE e == encryptedBallots[i]
           f == encryptedBallots[j]
           c == e.contests[n]
           d == f.contests[m]
<1>1. /\ i \in 1 .. Len(encryptedBallots) /\ j \in 1 .. Len(encryptedBallots)
      /\ Encrypted(i) /\ Encrypted(j)
  BY DEF Inv
<1>2. i \in Int /\ j \in Int /\ e.masterNonce = <<"random", i - 1>> /\ f.masterNonce = <<"random", j - 1>>
  BY <1>1 DEF Encrypted
<1>3. MadeFor(c, e.masterNonce) /\ MadeFor(d, f.masterNonce)
  BY BallotHasNonces
<1>4. \A h \in DOMAIN e.contests : e.contests[n].sequenceOrder = e.contests[h].sequenceOrder => n = h
  BY BallotHasNonces
<1>5. c.selections[k].selectionNonce = d.selections[l].selectionNonce
  OBVIOUS
<1> HIDE DEF c, d
<1>6. PICK x, y, id : HasNonces(c, <<x, <<y, id, e.masterNonce>>, c.sequenceOrder>>)
  BY <1>3 DEF MadeFor
<1>7. PICK x2, y2, id2 : HasNonces(d, <<x2, <<y2, id2, f.masterNonce>>, d.sequenceOrder>>)
  BY <1>3 DEF MadeFor
<1>8. k \in DOMAIN c.selections /\ l \in DOMAIN d.selections
  BY DEF c, d
<1>9. PICK z : c.selections[k].selectionNonce
                 = <<z, <<x, <<y, id, e.masterNonce>>, c.sequenceOrder>>, c.selections[k].sequenceOrder>>
  BY <1>6, <1>8 DEF HasNonces
<1>10. PICK z2 : d.selections[l].selectionNonce
                 = <<z2, <<x2, <<y2, id2, f.masterNonce>>, d.sequenceOrder>>, d.selections[l].sequenceOrder>>
  BY <1>7, <1>8 DEF HasNonces
<1> HIDE DEF e, f
<1>11. /\ e.masterNonce = f.masterNonce /\ c.sequenceOrder = d.sequenceOrder
       /\ c.selections[k].sequenceOrder = d.selections[l].sequenceOrder
  <2> DEFINE B == <<y, id, e.masterNonce>>
             B2 == <<y2, id2, f.masterNonce>>
             C == <<x, B, c.sequenceOrder>>
             C2 == <<x2, B2, d.sequenceOrder>>
             o == c.selections[k].sequenceOrder
             o2 == d.selections[l].sequenceOrder
  <2>1. <<z, C, o>> = <<z2, C2, o2>>
    BY <1>5, <1>9, <1>10
  <2> HIDE DEF C, C2
  <2>2. C = C2 /\ o = o2
    BY <2>1
  <2> HIDE DEF B, B2
  <2>3. B = B2 /\ c.sequenceOrder = d.sequenceOrder
    BY <2>2 DEF C, C2
  <2>4. e.masterNonce = f.masterNonce
    BY <2>3 DEF B, B2
  <2> QED BY <2>2, <2>3, <2>4
<1>12. i = j
  BY <1>2, <1>11
<1>13. e = f
  BY <1>12 DEF e, f
<1>14. n = m
  <2>1. m \in DOMAIN e.contests
    BY <1>13 DEF f
  <2> QED BY <1>4, <1>11, <1>13, <2>1 DEF c, d
<1>15. c = d
  BY <1>13, <1>14 DEF c, d
<1>16. k = l
  BY <1>6, <1>8, <1>11, <1>15 DEF HasNonces
<1> QED BY <1>12, <1>14, <1>16

(***************************************************************************)
(* A valid ballot of a valid manifest throws only for a contest without    *)
(* selections.                                                             *)
(***************************************************************************)
LEMMA ThrowsForEmptyContest ==
  ASSUME NEW m, IsManifest(m), ValidManifest(m), NEW b, IsPlaintextBallot(b), ValidBallot(m, b),
         Throws(m, b)
  PROVE  \E mc \in ToSet(m.contests) : mc.selections = << >>
<1>1. PICK mc \in ToSet(m.contests) :
        \/ mc.selections = << >>
        \/ \E ms \in ToSet(mc.selections) : ~Encryptable(VoteFor(SelectionsFor(b, mc), ms))
  BY DEF Throws
<1> DEFINE v == VotesFor(mc, SelectionsFor(b, mc))
           ones == {i \in DOMAIN mc.selections : v[i] = 1}
<1>2. v = VotesFor(mc, SelectionsFor(b, mc)) /\ ones = {i \in DOMAIN mc.selections : v[i] = 1}
  OBVIOUS
<1>3. \A i \in DOMAIN mc.selections : v[i] = VoteFor(SelectionsFor(b, mc), mc.selections[i])
  BY DEF VotesFor
<1> HIDE DEF v, ones
<1>4. \A i \in DOMAIN mc.selections : v[i] \in {0, 1}
  BY <1>2, BallotVotes
<1>5. \A ms \in ToSet(mc.selections) : Encryptable(VoteFor(SelectionsFor(b, mc), ms))
  BY <1>3, <1>4 DEF ToSet, Encryptable
<1> QED BY <1>1, <1>5

-----------------------------------------------------------------------------
(***************************************************************************)
(* The state has its types, and each ciphertext encrypts 0 or 1.           *)
(***************************************************************************)
THEOREM TypeCorrect == Spec => []TypeOK
<1>1. Inv => TypeOK
  <2> SUFFICES ASSUME Inv PROVE TypeOK
    OBVIOUS
  <2>1. ToSet(accepted) \subseteq Ballots
    BY DEF Inv, ToSet
  <2>2. \A i \in DOMAIN encryptedBallots : \A c \in ToSet(encryptedBallots[i].contests) :
          \A s \in ToSet(c.selections) : s.vote \in {0, 1}
    BY BallotIsProper
  <2> QED BY <2>1, <2>2 DEF Inv, AtWork, TypeOK
<1> QED BY <1>1, Invariance, PTL

(***************************************************************************)
(* Validation is enough: a batch of valid ballots of a valid manifest      *)
(* throws only if some contest of the manifest has no selections.          *)
(***************************************************************************)
THEOREM ValidatedBatchEncrypts == Spec => []ValidBatchEncrypts
<1>1. Inv => ValidBatchEncrypts
  <2> SUFFICES ASSUME Inv, phase = "threw"
               PROVE  \E mc \in ToSet(manifest.contests) : mc.selections = << >>
    BY DEF ValidBatchEncrypts
  <2>1. PICK i \in 1 .. Len(accepted) : Throws(manifest, accepted[i])
    BY DEF Inv
  <2>2. IsManifest(manifest) /\ ValidManifest(manifest)
    BY ManifestsAssumption DEF Inv
  <2>3. accepted[i] \in Ballots /\ ValidBallot(manifest, accepted[i])
    BY DEF Inv
  <2>4. IsPlaintextBallot(accepted[i])
    BY <2>3, BallotsAssumption
  <2> QED BY <2>1, <2>2, <2>3, <2>4, ThrowsForEmptyContest
<1> QED BY <1>1, Invariance, PTL

(***************************************************************************)
(* Every contest of every encrypted ballot encrypts votesAllowed votes,    *)
(* whatever the voter left out: its proof verifies.                        *)
(***************************************************************************)
THEOREM EveryContestVerifies == Spec => []ContestsVerify
<1>1. Inv => ContestsVerify
  BY BallotIsProper DEF ContestsVerify
<1> QED BY <1>1, Invariance, PTL

(***************************************************************************)
(* An encrypted ballot decrypts to the votes and the write-ins that its    *)
(* voter handed in.                                                        *)
(***************************************************************************)
THEOREM NoVoteIsLost == Spec => []VotesPreserved
<1>1. Inv => VotesPreserved
  BY DecryptsToVotes, DecryptsToWriteIns DEF VotesPreserved
<1> QED BY <1>1, Invariance, PTL

(***************************************************************************)
(* Encrypted ballots with write-ins of the same lengths in the same places *)
(* look alike; without write-ins, all of them do.                          *)
(***************************************************************************)
THEOREM BallotsLookAlike == Spec => []InspectionShowsWriteInsOnly
<1>1. Inv => InspectionShowsWriteInsOnly
  BY ShapesAgree DEF InspectionShowsWriteInsOnly
<1> QED BY <1>1, Invariance, PTL

(***************************************************************************)
(* No nonce is used for two ciphertexts of a chain.                        *)
(***************************************************************************)
THEOREM NonceIsUsedOnce == Spec => []NoncesDistinct
<1>1. Inv => NoncesDistinct
  <2> SUFFICES ASSUME Inv, Chained, NEW i \in DOMAIN encryptedBallots, NEW j \in DOMAIN encryptedBallots,
                      NEW n \in DOMAIN encryptedBallots[i].contests,
                      NEW m \in DOMAIN encryptedBallots[j].contests,
                      NEW k \in DOMAIN encryptedBallots[i].contests[n].selections,
                      NEW l \in DOMAIN encryptedBallots[j].contests[m].selections,
                      encryptedBallots[i].contests[n].selections[k].selectionNonce
                        = encryptedBallots[j].contests[m].selections[l].selectionNonce
               PROVE  <<i, n, k>> = <<j, m, l>>
    BY DEF NoncesDistinct, Chained
  <2> QED BY NoncesDiffer
<1> QED BY <1>1, Invariance, PTL
=============================================================================
