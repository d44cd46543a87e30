---------------------------- MODULE ThreadProofs ----------------------------
(***************************************************************************)
(* Proofs about the two components that several threads call: DLog, for    *)
(* any number of callers, any limits, any number of misses, and for both   *)
(* the JVM and the native class; and EncryptorApi, for any number of       *)
(* threads and elections.  Neither uses what is assumed of the other.      *)
(***************************************************************************)
EXTENDS DLog, EncryptorApi, TLAPS

-----------------------------------------------------------------------------
(***************************************************************************)
(* The inductive invariant.  The properties of DLog need four facts that   *)
(* they do not state: who holds the mutex, how far the counter can be from *)
(* the power it counts, and what a caller knows of the memo at the points  *)
(* where it relies on an earlier look at it.                               *)
(***************************************************************************)
SingleWriter ==
  \A c \in Callers : mutex = c <=> pc[c] \in {"locked", "search"}

CounterBounded ==
  /\ dLogMapping[dLogMaxElement] <= dLogMaxExponent
  /\ dLogMaxExponent <= dLogMaxElement + misses

SearchesUnknown ==
  \A c \in Callers : pc[c] = "search" =>
    \/ ~Known(input[c])
    \/ /\ input[c] = dLogMaxElement
       /\ dLogMaxExponent = dLogMapping[dLogMaxElement]

FetchesKnown == \A c \in Callers : pc[c] = "fetch" => Known(input[c])

AnswersFromMemo ==
  \A c \in Callers : pc[c] = "done" /\ answer[c] # Null =>
    Known(input[c]) /\ answer[c] = dLogMapping[input[c]]

IInv ==
  /\ TypeOK
  /\ SingleWriter
  /\ CounterBounded
  /\ DriftBounded
  /\ OrderPreserved
  /\ SearchesUnknown
  /\ FetchesKnown
  /\ AnswersFromMemo
  /\ NullOnlyOutOfReach

-----------------------------------------------------------------------------
(***************************************************************************)
(* A limit is an integer, and the power after it is still one of Powers.   *)
(***************************************************************************)
LEMMA LimitType ==
  ASSUME NEW m \in MaxResults
  PROVE  DlogMax(m) \in Nat /\ DlogMax(m) + 1 < Order
BY DLogAssumption DEF DlogMax

\* The empty table satisfies the inductive invariant.
LEMMA InitIInv == Init => IInv
<1> SUFFICES ASSUME Init PROVE IInv
  OBVIOUS
<1> USE DLogAssumption DEF Init
<1>1. TypeOK
  BY DEF TypeOK, Powers, Inputs
<1>2. SingleWriter
  BY DEF SingleWriter
<1>3. CounterBounded /\ DriftBounded /\ OrderPreserved
  BY DEF CounterBounded, DriftBounded, OrderPreserved
<1>4. SearchesUnknown /\ FetchesKnown /\ AnswersFromMemo /\ NullOnlyOutOfReach
  BY DEF SearchesUnknown, FetchesKnown, AnswersFromMemo, NullOnlyOutOfReach
<1> QED BY <1>1, <1>2, <1>3, <1>4 DEF IInv

(***************************************************************************)
(* A step that leaves the memo, its counter and the history alone keeps    *)
(* what is said of them.                                                   *)
(***************************************************************************)
LEMMA TableUnchanged ==
  ASSUME CounterBounded, DriftBounded, OrderPreserved, UNCHANGED table,
         misses' = misses
  PROVE  CounterBounded' /\ DriftBounded' /\ OrderPreserved'
BY DEF CounterBounded, DriftBounded, OrderPreserved, table

(***************************************************************************)
(* One round of the search: the memo grows by one power, and the counter   *)
(* recorded for it is above every exponent recorded before.                *)
(***************************************************************************)
LEMMA AdvanceGrowsMemo ==
  ASSUME IInv, NEW c \in Callers, Advance(c)
  PROVE  /\ dLogMaxElement' \in Powers
         /\ dLogMaxExponent' \in Nat
         /\ dLogMapping' \in [0 .. dLogMaxElement' -> Nat]
         /\ dLogMapping'[dLogMaxElement'] = dLogMaxExponent'
         /\ \A e \in DOMAIN dLogMapping :
              e \in DOMAIN dLogMapping' /\ dLogMapping'[e] = dLogMapping[e]
<1>1. maxResult[c] \in MaxResults
  BY DEF IInv, TypeOK
<1>2. dLogMaxElement <= dLogMapping[dLogMaxElement]
  BY DEF IInv, TypeOK, DriftBounded, Powers
<1>3. dLogMaxElement + 1 \in Powers
  <2>1. /\ DlogMax(maxResult[c]) \in Nat
        /\ DlogMax(maxResult[c]) + 1 < Order
    BY <1>1, LimitType
  <2>2. /\ dLogMaxExponent <= DlogMax(maxResult[c])
        /\ dLogMapping[dLogMaxElement] <= dLogMaxExponent
    BY DEF IInv, CounterBounded, Advance
  <2>3. /\ dLogMaxElement \in Nat /\ dLogMaxExponent \in Nat
        /\ dLogMapping[dLogMaxElement] \in Nat
    BY DEF IInv, TypeOK, Powers
  <2>4. Order \in Nat
    BY DLogAssumption
  <2> QED BY <1>2, <2>1, <2>2, <2>3, <2>4 DEF Powers
<1>4. dLogMaxElement \in Nat /\ DOMAIN dLogMapping = 0 .. dLogMaxElement
  BY DEF IInv, TypeOK, Powers
<1>5. dLogMaxElement' = dLogMaxElement + 1
  BY DEF Advance
<1>6. DOMAIN dLogMapping \cup {dLogMaxElement'} = 0 .. dLogMaxElement'
  BY <1>4, <1>5
<1>7. dLogMapping' = [e \in 0 .. dLogMaxElement' |->
                       IF e = dLogMaxElement' THEN dLogMaxExponent'
                                              ELSE dLogMapping[e]]
  BY <1>6 DEF Advance
<1>8. dLogMaxExponent' \in Nat
  BY DEF IInv, TypeOK, Advance
<1> QED BY <1>3, <1>4, <1>5, <1>7, <1>8 DEF IInv, TypeOK

-----------------------------------------------------------------------------
(***************************************************************************)
(* Every step preserves the invariant.                                     *)
(***************************************************************************)
LEMMA StepIInv == IInv /\ [Next]_vars => IInv'
<1> SUFFICES ASSUME IInv, [Next]_vars PROVE IInv'
  OBVIOUS
<1> USE DLogAssumption
<1>0. \A c \in Callers : maxResult[c] \in MaxResults /\ DlogMax(maxResult[c]) \in Nat
  BY LimitType DEF IInv, TypeOK
<1>1. ASSUME NEW c \in Callers, NEW x \in Inputs, NEW m \in MaxResults,
             Call(c, x, m)
      PROVE  IInv'
  <2>1. TypeOK'
    BY <1>1 DEF Call, Goto, IInv, TypeOK, table
  <2>2. SingleWriter'
    BY <1>1 DEF Call, Goto, IInv, TypeOK, SingleWriter
  <2>3. CounterBounded' /\ DriftBounded' /\ OrderPreserved'
    BY <1>1, TableUnchanged DEF Call, IInv
  <2>4. SearchesUnknown' /\ FetchesKnown'
    BY <1>1 DEF Call, Goto, IInv, TypeOK, table, SearchesUnknown,
                FetchesKnown, Known
  <2>5. AnswersFromMemo' /\ NullOnlyOutOfReach'
    BY <1>1 DEF Call, Goto, IInv, TypeOK, table, AnswersFromMemo, Known,
                NullOnlyOutOfReach
  <2> QED BY <2>1, <2>2, <2>3, <2>4, <2>5 DEF IInv
<1>2. ASSUME NEW c \in Callers, CheckHit(c) \/ CheckMiss(c) \/ LockedMiss(c)
      PROVE  IInv'
  <2>1. TypeOK'
    BY <1>2 DEF CheckHit, CheckMiss, LockedMiss, Goto, IInv, TypeOK, table, args
  <2>2. SingleWriter'
    BY <1>2 DEF CheckHit, CheckMiss, LockedMiss, Goto, IInv, TypeOK, SingleWriter
  <2>3. CounterBounded' /\ DriftBounded' /\ OrderPreserved'
    BY <1>2, TableUnchanged DEF CheckHit, CheckMiss, LockedMiss, IInv
  <2>4. SearchesUnknown' /\ FetchesKnown'
    BY <1>2 DEF CheckHit, CheckMiss, LockedMiss, Goto, IInv, TypeOK, table,
                args, SearchesUnknown, FetchesKnown, Known
  <2>5. AnswersFromMemo' /\ NullOnlyOutOfReach'
    BY <1>2 DEF CheckHit, CheckMiss, LockedMiss, Goto, IInv, TypeOK, table,
                args, AnswersFromMemo, Known, NullOnlyOutOfReach
  <2> QED BY <2>1, <2>2, <2>3, <2>4, <2>5 DEF IInv
<1>3. ASSUME NEW c \in Callers, Lock(c) \/ Return(c)
      PROVE  IInv'
  <2>1. TypeOK'
    BY <1>3 DEF Lock, Return, Goto, IInv, TypeOK, table, args
  <2>2. SingleWriter'
    BY <1>3 DEF Lock, Return, Goto, IInv, TypeOK, SingleWriter
  <2>3. CounterBounded' /\ DriftBounded' /\ OrderPreserved'
    BY <1>3, TableUnchanged DEF Lock, Return, IInv
  <2>4. SearchesUnknown' /\ FetchesKnown'
    BY <1>3 DEF Lock, Return, Goto, IInv, TypeOK, table, args,
                SearchesUnknown, FetchesKnown, Known
  <2>5. AnswersFromMemo' /\ NullOnlyOutOfReach'
    BY <1>3 DEF Lock, Return, Goto, IInv, TypeOK, table, args,
                AnswersFromMemo, Known, NullOnlyOutOfReach
  <2> QED BY <2>1, <2>2, <2>3, <2>4, <2>5 DEF IInv
<1>4. ASSUME NEW c \in Callers, Fetch(c) \/ LockedHit(c)
      PROVE  IInv'
  <2>0. Known(input[c]) /\ dLogMapping[input[c]] \in Nat
    BY <1>4 DEF Fetch, LockedHit, Goto, IInv, TypeOK, FetchesKnown, Known
  <2>1. TypeOK'
    BY <1>4, <2>0 DEF Fetch, LockedHit, Goto, Reply, IInv, TypeOK, table, args
  <2>2. SingleWriter'
    BY <1>4 DEF Fetch, LockedHit, Goto, IInv, TypeOK, SingleWriter
  <2>3. CounterBounded' /\ DriftBounded' /\ OrderPreserved'
    BY <1>4, TableUnchanged DEF Fetch, LockedHit, IInv
  <2>4. SearchesUnknown' /\ FetchesKnown'
    BY <1>4 DEF Fetch, LockedHit, Goto, IInv, TypeOK, table, args,
                SearchesUnknown, FetchesKnown, Known
  <2>5. AnswersFromMemo'
    <3>1. /\ UNCHANGED <<dLogMapping, input>>
          /\ pc' = [pc EXCEPT ![c] = "done"]
          /\ answer' = [answer EXCEPT ![c] = dLogMapping[input[c]]]
      BY <1>4 DEF Fetch, LockedHit, Goto, Reply, table, args
    <3> QED BY <2>0, <3>1 DEF IInv, TypeOK, AnswersFromMemo, Known
  <2>6. NullOnlyOutOfReach'
    BY <1>4, <2>0 DEF Fetch, LockedHit, Goto, Reply, IInv, TypeOK, args,
                NullOnlyOutOfReach
  <2> QED BY <2>1, <2>2, <2>3, <2>4, <2>5, <2>6 DEF IInv
<1>5. ASSUME NEW c \in Callers, Advance(c)
      PROVE  IInv'
  <2>0. /\ dLogMaxElement' = dLogMaxElement + 1
        /\ dLogMaxExponent' = dLogMaxExponent + 1
        /\ dLogMaxElement' \in Powers
        /\ dLogMaxExponent' \in Nat
        /\ dLogMapping' \in [0 .. dLogMaxElement' -> Nat]
        /\ dLogMapping'[dLogMaxElement'] = dLogMaxExponent'
        /\ \A e \in DOMAIN dLogMapping :
             e \in DOMAIN dLogMapping' /\ dLogMapping'[e] = dLogMapping[e]
        /\ UNCHANGED <<mutex, pc, input, maxResult, answer, misses>>
    BY <1>5, AdvanceGrowsMemo DEF Advance, args
  <2>1. TypeOK'
    BY <2>0 DEF IInv, TypeOK
  <2>2. SingleWriter'
    BY <2>0 DEF IInv, SingleWriter
  <2>3. CounterBounded'
    BY <2>0 DEF IInv, TypeOK, CounterBounded, Powers
  <2>4. DriftBounded'
    <3>1. dLogMaxElement <= dLogMapping[dLogMaxElement]
      BY DEF IInv, TypeOK, DriftBounded, Powers
    <3>2. ASSUME NEW e \in DOMAIN dLogMapping'
          PROVE  e <= dLogMapping'[e] /\ dLogMapping'[e] <= e + misses'
      <4>1. CASE e = dLogMaxElement'
        BY <2>0, <3>1, <4>1 DEF IInv, TypeOK, CounterBounded, Powers
      <4>2. CASE e # dLogMaxElement'
        BY <2>0, <4>2 DEF IInv, TypeOK, DriftBounded, Powers
      <4> QED BY <4>1, <4>2
    <3> QED BY <3>2 DEF DriftBounded
  <2>5. OrderPreserved'
    <3>1. ASSUME NEW e \in DOMAIN dLogMapping
          PROVE  dLogMapping[e] <= dLogMaxExponent
      <4>1. e = dLogMaxElement \/ e < dLogMaxElement
        BY DEF IInv, TypeOK, Powers
      <4> QED BY <4>1 DEF IInv, TypeOK, OrderPreserved, CounterBounded, Powers
    <3>2. ASSUME NEW e \in DOMAIN dLogMapping', NEW f \in DOMAIN dLogMapping',
                 e < f
          PROVE  dLogMapping'[e] < dLogMapping'[f]
      <4>1. e \in DOMAIN dLogMapping
        BY <2>0, <3>2 DEF IInv, TypeOK, Powers
      <4>2. CASE f = dLogMaxElement'
        BY <2>0, <3>1, <4>1, <4>2 DEF IInv, TypeOK, Powers
      <4>3. CASE f # dLogMaxElement'
        BY <2>0, <3>2, <4>1, <4>3 DEF IInv, TypeOK, OrderPreserved, Powers
      <4> QED BY <4>2, <4>3
    <3> QED BY <3>2 DEF OrderPreserved
  <2>6. SearchesUnknown'
    <3>1. ASSUME NEW d \in Callers, pc'[d] = "search"
          PROVE  \/ ~Known(input[d])'
                 \/ /\ input'[d] = dLogMaxElement'
                    /\ dLogMaxExponent' = dLogMapping'[dLogMaxElement']
      <4>1. d = c
        BY <1>5, <2>0, <3>1 DEF Advance, IInv, SingleWriter
      <4>2. ~Known(input[c])
        BY <1>5 DEF Advance, IInv, SearchesUnknown
      <4> QED BY <2>0, <4>1, <4>2 DEF IInv, TypeOK, Known, Powers, Inputs
    <3> QED BY <3>1 DEF SearchesUnknown
  <2>7. FetchesKnown' /\ AnswersFromMemo'
    BY <2>0 DEF IInv, FetchesKnown, AnswersFromMemo, Known
  <2>8. NullOnlyOutOfReach'
    BY <2>0 DEF IInv, NullOnlyOutOfReach
  <2> QED BY <2>1, <2>2, <2>3, <2>4, <2>5, <2>6, <2>7, <2>8 DEF IInv
<1>6. ASSUME NEW c \in Callers, GiveUp(c)
      PROVE  IInv'
  <2>0. /\ UNCHANGED <<dLogMapping, dLogMaxElement, input, maxResult>>
        /\ dLogMaxExponent' = dLogMaxExponent + 1
        /\ misses' = misses + 1
    BY <1>6 DEF GiveUp, args
  <2>1. TypeOK'
    BY <1>6, <2>0 DEF GiveUp, Goto, Reply, IInv, TypeOK
  <2>2. SingleWriter'
    BY <1>6 DEF GiveUp, Goto, IInv, TypeOK, SingleWriter
  <2>3. CounterBounded' /\ DriftBounded' /\ OrderPreserved'
    BY <2>0 DEF IInv, TypeOK, CounterBounded, DriftBounded, OrderPreserved, Powers
  <2>4. SearchesUnknown' /\ FetchesKnown'
    BY <1>6, <2>0 DEF GiveUp, Goto, IInv, TypeOK, SingleWriter,
                SearchesUnknown, FetchesKnown, Known
  <2>5. AnswersFromMemo'
    BY <1>6, <2>0 DEF GiveUp, Goto, Reply, IInv, TypeOK, AnswersFromMemo, Known
  <2>6. NullOnlyOutOfReach'
    <3>1. ASSUME input[c] # Outside
          PROVE  input[c] + misses' > DlogMax(maxResult[c]) + 2
      <4>1. input[c] > dLogMaxElement
        BY <1>6, <3>1 DEF GiveUp, Goto, IInv, TypeOK, SearchesUnknown, Known,
                    Inputs, Powers
      <4>2. input[c] \in Nat
        BY <3>1 DEF IInv, TypeOK, Inputs, Powers
      <4>3. dLogMaxExponent > DlogMax(maxResult[c])
        BY <1>6 DEF GiveUp
      <4> QED BY <1>0, <2>0, <4>1, <4>2, <4>3
              DEF IInv, TypeOK, CounterBounded, Powers
    <3>2. ASSUME NEW d \in Callers, d # c, pc'[d] = "done" /\ answer'[d] = Null,
                 input[d] # Outside
          PROVE  input[d] + misses' > DlogMax(maxResult[d]) + 2
      <4>1. input[d] + misses > DlogMax(maxResult[d]) + 2
        BY <1>6, <3>2 DEF GiveUp, Goto, Reply, IInv, TypeOK, NullOnlyOutOfReach
      <4>2. input[d] \in Nat
        BY <3>2 DEF IInv, TypeOK, Inputs, Powers
      <4> QED BY <1>0, <2>0, <4>1, <4>2 DEF IInv, TypeOK
    <3> QED BY <2>0, <3>1, <3>2 DEF NullOnlyOutOfReach, DlogMax
  <2> QED BY <2>1, <2>2, <2>3, <2>4, <2>5, <2>6 DEF IInv
<1>7. ASSUME NEW c \in Callers, Found(c)
      PROVE  IInv'
  <2>0. /\ Known(input[c]) /\ dLogMaxExponent = dLogMapping[input[c]]
        /\ dLogMaxExponent \in Nat
    BY <1>7 DEF Found, Goto, IInv, TypeOK, SearchesUnknown, Known, Powers
  <2>1. TypeOK'
    BY <1>7, <2>0 DEF Found, Goto, Reply, IInv, TypeOK, table, args
  <2>2. SingleWriter'
    BY <1>7 DEF Found, Goto, IInv, TypeOK, SingleWriter
  <2>3. CounterBounded' /\ DriftBounded' /\ OrderPreserved'
    BY <1>7, TableUnchanged DEF Found, IInv
  <2>4. SearchesUnknown' /\ FetchesKnown'
    BY <1>7 DEF Found, Goto, IInv, TypeOK, table, args,
                SearchesUnknown, FetchesKnown, Known
  <2>5. AnswersFromMemo'
    BY <1>7, <2>0 DEF Found, Goto, Reply, IInv, TypeOK, table, args,
                AnswersFromMemo, Known
  <2>6. NullOnlyOutOfReach'
    BY <1>7, <2>0 DEF Found, Goto, Reply, IInv, TypeOK, args, NullOnlyOutOfReach
  <2> QED BY <2>1, <2>2, <2>3, <2>4, <2>5, <2>6 DEF IInv
<1>8. CASE UNCHANGED vars
  BY <1>8 DEF vars, IInv, TypeOK, SingleWriter, CounterBounded, DriftBounded,
              OrderPreserved, SearchesUnknown, FetchesKnown, AnswersFromMemo,
              NullOnlyOutOfReach, Known
<1> QED BY <1>1, <1>2, <1>3, <1>4, <1>5, <1>6, <1>7, <1>8 DEF Next, Run

-----------------------------------------------------------------------------
(***************************************************************************)
(* The invariant holds in every reachable state.                           *)
(***************************************************************************)
THEOREM Invariance == Spec => []IInv
BY InitIInv, StepIInv, PTL DEF Spec

(***************************************************************************)
(* Type correctness: the memo is a prefix of the powers, and the search    *)
(* never runs past the last one.                                           *)
(***************************************************************************)
THEOREM TypeCorrect == Spec => []TypeOK
<1>1. IInv => TypeOK
  BY DEF IInv
<1> QED BY <1>1, Invariance, PTL

(***************************************************************************)
(* A recorded exponent is off by at most the number of calls that gave up. *)
(***************************************************************************)
THEOREM DriftIsBounded == Spec => []DriftBounded
<1>1. IInv => DriftBounded
  BY DEF IInv
<1> QED BY <1>1, Invariance, PTL

(***************************************************************************)
(* Larger powers have larger recorded exponents.                           *)
(***************************************************************************)
THEOREM OrderIsPreserved == Spec => []OrderPreserved
<1>1. IInv => OrderPreserved
  BY DEF IInv
<1> QED BY <1>1, Invariance, PTL

(***************************************************************************)
(* Concurrent calls on one element agree.                                  *)
(***************************************************************************)
THEOREM Agreement == Spec => []AnswersAgree
<1>1. IInv => AnswersAgree
  BY DEF IInv, AnswersFromMemo, AnswersAgree
<1> QED BY <1>1, Invariance, PTL

(***************************************************************************)
(* null is answered only for elements out of reach.                        *)
(***************************************************************************)
THEOREM NullIsOutOfReach == Spec => []NullOnlyOutOfReach
<1>1. IInv => NullOnlyOutOfReach
  BY DEF IInv
<1> QED BY <1>1, Invariance, PTL

(***************************************************************************)
(* The memo is append-only.                                                *)
(***************************************************************************)
LEMMA StepMemoStable ==
  ASSUME IInv, [Next]_vars, NEW e \in DOMAIN dLogMapping
  PROVE  e \in DOMAIN dLogMapping' /\ dLogMapping'[e] = dLogMapping[e]
<1>1. CASE \E c \in Callers : Advance(c)
  BY <1>1, AdvanceGrowsMemo
<1>2. CASE UNCHANGED dLogMapping
  BY <1>2
<1> QED BY <1>1, <1>2 DEF Next, Run, Call, CheckHit, CheckMiss, Fetch, Lock,
           LockedHit, LockedMiss, GiveUp, Found, Return, table, vars

\* What a caller has read from the memo is never removed or changed.
THEOREM MemoIsStable == Spec => MemoStable
<1>1. IInv /\ [Next]_vars =>
        [\A e \in DOMAIN dLogMapping :
           e \in DOMAIN dLogMapping' /\ dLogMapping'[e] = dLogMapping[e]]_vars
  BY StepMemoStable
<1> QED BY <1>1, Invariance, PTL DEF Spec, MemoStable

-----------------------------------------------------------------------------
(***************************************************************************)
(* The engine implements the table.                                        *)
(***************************************************************************)
LEMMA InitTable == Init => Table!Init
BY DEF Init, Table!Init, Waiting

\* Every step of the callers is a step of the table, or changes none of it.
LEMMA StepTable == IInv /\ [Next]_vars => [Table!Next]_(Table!tvars)
<1> SUFFICES ASSUME IInv, [Next]_vars PROVE [Table!Next]_(Table!tvars)
  OBVIOUS
<1> USE DLogAssumption
<1>1. ASSUME NEW c \in Callers, NEW x \in Inputs, NEW m \in MaxResults,
             Call(c, x, m)
      PROVE  Table!Ask(c, x)
  BY <1>1 DEF Call, Goto, Table!Ask, Waiting, IInv, TypeOK, table
<1>2. ASSUME NEW c \in Callers, CheckHit(c) \/ CheckMiss(c) \/ LockedMiss(c)
                                \/ Lock(c) \/ Return(c)
      PROVE  UNCHANGED Table!tvars
  BY <1>2 DEF CheckHit, CheckMiss, LockedMiss, Lock, Return, Goto, Waiting,
              Table!tvars, IInv, TypeOK, table, args
<1>3. ASSUME NEW c \in Callers, Fetch(c) \/ LockedHit(c) \/ GiveUp(c) \/ Found(c)
      PROVE  Table!Answer(c)
  <2>1. /\ UNCHANGED <<dLogMapping, input>>
        /\ pc[c] \in {"fetch", "locked", "search"}
        /\ pc' = [pc EXCEPT ![c] = "done"]
    BY <1>3 DEF Fetch, LockedHit, GiveUp, Found, Goto, table, args
  <2>2. c \in Waiting /\ Waiting' = Waiting \ {c}
    BY <2>1 DEF Waiting, IInv, TypeOK
  <2>3. answer' = [answer EXCEPT ![c] =
          IF input[c] \in DOMAIN dLogMapping THEN dLogMapping[input[c]] ELSE Null]
    <3>1. CASE Fetch(c)
      BY <3>1 DEF Fetch, Goto, Reply, IInv, FetchesKnown, Known
    <3>2. CASE LockedHit(c)
      BY <3>2 DEF LockedHit, Reply, Known
    <3>3. CASE GiveUp(c)
      BY <3>3 DEF GiveUp, Goto, Reply, IInv, SearchesUnknown, Known
    <3>4. CASE Found(c)
      <4>1. input[c] = dLogMaxElement /\ input[c] \in DOMAIN dLogMapping
        BY <3>4 DEF Found, IInv, TypeOK, Powers
      <4>2. dLogMaxExponent = dLogMapping[input[c]]
        BY <3>4, <4>1 DEF Found, Goto, IInv, SearchesUnknown, Known
      <4> QED BY <3>4, <4>1, <4>2 DEF Found, Reply
    <3> QED BY <1>3, <3>1, <3>2, <3>3, <3>4
  <2> QED BY <2>1, <2>2, <2>3 DEF Table!Answer
<1>4. ASSUME NEW c \in Callers, Advance(c)
      PROVE  Table!Extend
  <2>1. /\ DOMAIN dLogMapping' = DOMAIN dLogMapping \cup {dLogMaxElement'}
        /\ dLogMaxElement' \notin DOMAIN dLogMapping
        /\ UNCHANGED <<pc, input, answer>>
    BY <1>4 DEF Advance, args, IInv, TypeOK, Powers
  <2>2. \A f \in DOMAIN dLogMapping : dLogMapping'[f] = dLogMapping[f]
    BY <1>4, AdvanceGrowsMemo
  <2>3. OrderPreserved'
    BY StepIInv DEF IInv
  <2>4. \A f \in DOMAIN dLogMapping : f < dLogMaxElement'
    BY <1>4 DEF Advance, IInv, TypeOK, Powers
  <2>5. \A f \in DOMAIN dLogMapping :
          dLogMapping[f] < dLogMapping'[dLogMaxElement']
    BY <2>1, <2>2, <2>3, <2>4 DEF OrderPreserved
  <2> QED BY <2>1, <2>2, <2>5 DEF Table!Extend, Waiting
<1>5. CASE UNCHANGED vars
  BY <1>5 DEF vars, Table!tvars, Waiting
<1> QED BY <1>1, <1>2, <1>3, <1>4, <1>5 DEF Next, Run, Table!Next

(***************************************************************************)
(* For the callers the engine is an append-only table with atomic calls.   *)
(***************************************************************************)
THEOREM Implementation == Spec => ImplementsTable
BY InitTable, StepTable, Invariance, PTL DEF Spec, ImplementsTable, Table!Spec

-----------------------------------------------------------------------------
(***************************************************************************)
(* The two reads of encryptApi.                                            *)
(***************************************************************************)
NeverDereferenced == \A t \in Threads : outcome[t] # "null dereferenced"

(***************************************************************************)
(* The first value is null and the only one; who has passed the check has  *)
(* left it behind.                                                         *)
(***************************************************************************)
ApiIInv ==
  /\ ApiTypeOK
  /\ written[1] = NoEncryptor
  /\ \A t \in Threads : known[t] <= seen[t]
  /\ \A t \in Threads : call[t] = "encrypting" => seen[t] >= 2
  /\ \A t \in Threads : outcome[t] = "null" => known[t] = 1
  /\ NeverDereferenced

\* What a read returns, and that it is null only at the first place.
LEMMA ReadPlaces ==
  ASSUME ApiIInv, NEW t \in Threads, NEW i \in Readable(t)
  PROVE  /\ i \in 1 .. Len(written) /\ i >= seen[t] /\ seen[t] \in 1 .. Len(written)
         /\ i >= known[t] /\ known[t] \in 1 .. Len(written)
         /\ written[i] = NoEncryptor => i = 1
<1>1. /\ seen[t] \in 1 .. Len(written) /\ known[t] \in 1 .. Len(written) /\ known[t] <= seen[t]
      /\ Len(written) \in Nat
  BY DEF ApiIInv, ApiTypeOK
<1>2. i \in 1 .. Len(written) /\ i >= seen[t] /\ i >= known[t]
  BY <1>1 DEF Readable
<1>3. written[i] = NoEncryptor => i = 1
  <2>1. i \in 2 .. Len(written) => written[i] # NoEncryptor
    BY ApiAssumption DEF ApiIInv, ApiTypeOK
  <2> QED BY <1>1, <1>2, <2>1
<1> QED BY <1>1, <1>2, <1>3

\* The assignment of the global variable writes an election.
LEMMA AssignKeeps ==
  ASSUME ApiIInv, NEW t \in Threads, call[t] = "setting" => election[t] \in Elections, Assign(t)
  PROVE  ApiIInv'
<1> DEFINE n == Len(written)
<1>1. /\ written \in Seq(Elections \cup {NoEncryptor}) /\ n \in 1 .. MaxWrites /\ n \in Nat
      /\ \A i \in 2 .. n : written[i] \in Elections
      /\ written[1] = NoEncryptor
  BY ApiAssumption DEF ApiIInv, ApiTypeOK
<1>2. /\ written' = Append(written, election[t]) /\ election[t] \in Elections /\ n < MaxWrites
  BY DEF Assign
<1>3. /\ written' \in Seq(Elections \cup {NoEncryptor}) /\ Len(written') = n + 1
      /\ \A i \in 1 .. n : written'[i] = written[i]
      /\ written'[n + 1] = election[t]
  BY <1>1, <1>2
<1>4. \A i \in 2 .. n + 1 : written'[i] \in Elections
  BY <1>1, <1>2, <1>3
<1>5. written'[1] = NoEncryptor /\ n + 1 \in 1 .. MaxWrites
  BY <1>1, <1>2, <1>3, ApiAssumption
<1>6. /\ seen' = [seen EXCEPT ![t] = n + 1] /\ known' = [known EXCEPT ![t] = n + 1]
      /\ call' = [call EXCEPT ![t] = "idle"] /\ outcome' = [outcome EXCEPT ![t] = "true"]
      /\ election' = election
  BY DEF Assign, Finish
<1> HIDE DEF n
<1>7. /\ seen' \in [Threads -> 1 .. n + 1] /\ known' \in [Threads -> 1 .. n + 1]
  BY <1>1, <1>6 DEF ApiIInv, ApiTypeOK, n
<1>8. ApiTypeOK'
  BY <1>3, <1>4, <1>5, <1>6, <1>7 DEF ApiIInv, ApiTypeOK, Outcomes
<1>9. ASSUME NEW u \in Threads
      PROVE  /\ known'[u] <= seen'[u]
             /\ call'[u] = "encrypting" => seen'[u] >= 2
             /\ outcome'[u] = "null" => known'[u] = 1
             /\ outcome'[u] # "null dereferenced"
  <2>1. /\ known[u] <= seen[u]
        /\ call[u] = "encrypting" => seen[u] >= 2
        /\ outcome[u] = "null" => known[u] = 1
        /\ outcome[u] # "null dereferenced"
    BY DEF ApiIInv, NeverDereferenced
  <2>2. CASE u = t
    <3>1. seen'[u] = n + 1 /\ known'[u] = n + 1 /\ call'[u] = "idle" /\ outcome'[u] = "true"
      BY <1>6, <2>2 DEF ApiIInv, ApiTypeOK
    <3> QED BY <1>1, <3>1
  <2>3. CASE u # t
    <3>1. /\ seen'[u] = seen[u] /\ known'[u] = known[u]
          /\ call'[u] = call[u] /\ outcome'[u] = outcome[u]
      BY <1>6, <2>3 DEF ApiIInv, ApiTypeOK
    <3> QED BY <2>1, <3>1 DEF ApiIInv
  <2> QED BY <2>2, <2>3
<1> QED BY <1>5, <1>8, <1>9 DEF ApiIInv, NeverDereferenced

\* The null check lets a thread pass only when it has read an election.
LEMMA CheckKeeps ==
  ASSUME ApiIInv, NEW t \in Threads, Check(t)
  PROVE  ApiIInv'
<1>1. PICK i \in Readable(t) :
        /\ seen' = [seen EXCEPT ![t] = i]
        /\ IF written[i] = NoEncryptor THEN Finish(t, "null")
           ELSE call' = [call EXCEPT ![t] = "encrypting"] /\ UNCHANGED outcome
  BY DEF Check
<1>2. /\ i \in 1 .. Len(written) /\ i >= seen[t] /\ i >= known[t]
      /\ known[t] \in 1 .. Len(written) /\ (written[i] = NoEncryptor => i = 1)
  BY ReadPlaces
<1>3. UNCHANGED <<written, election, known>>
  BY DEF Check
<1>4. CASE written[i] = NoEncryptor
  <2>1. i = 1 /\ known[t] = 1
    BY <1>2, <1>4
  <2> QED BY <1>1, <1>2, <1>3, <1>4, <2>1
          DEF ApiIInv, ApiTypeOK, Finish, Outcomes, NeverDereferenced
<1>5. CASE written[i] # NoEncryptor
  <2>1. i >= 2
    <3>1. i # 1
      BY <1>5 DEF ApiIInv
    <3> QED BY <1>2, <3>1
  <2> QED BY <1>1, <1>2, <1>3, <1>5, <2>1 DEF ApiIInv, ApiTypeOK, Outcomes, NeverDereferenced
<1> QED BY <1>4, <1>5

\* The second read is not older than the first, so it is not null either.
LEMMA EncryptKeeps ==
  ASSUME ApiIInv, NEW t \in Threads, Encrypt(t)
  PROVE  ApiIInv' /\ known'[t] >= known[t]
<1>1. PICK i \in Readable(t) :
        /\ seen' = [seen EXCEPT ![t] = i]
        /\ IF written[i] = NoEncryptor THEN Finish(t, "null dereferenced") /\ UNCHANGED known
           ELSE Finish(t, "ballot") /\ known' = [known EXCEPT ![t] = i]
  BY DEF Encrypt
<1>2. /\ i \in 1 .. Len(written) /\ i >= seen[t] /\ i >= known[t]
      /\ seen[t] \in 1 .. Len(written) /\ (written[i] = NoEncryptor => i = 1)
  BY ReadPlaces
<1>3. call[t] = "encrypting" /\ UNCHANGED <<written, election>>
  BY DEF Encrypt
<1>4. written[i] # NoEncryptor
  <2>1. seen[t] >= 2
    BY <1>3 DEF ApiIInv
  <2> QED BY <1>2, <2>1
<1>5. Finish(t, "ballot") /\ known' = [known EXCEPT ![t] = i]
  BY <1>1, <1>4
<1>6. /\ seen' = [seen EXCEPT ![t] = i] /\ known' = [known EXCEPT ![t] = i]
      /\ call' = [call EXCEPT ![t] = "idle"] /\ outcome' = [outcome EXCEPT ![t] = "ballot"]
  BY <1>1, <1>5 DEF Finish
<1>7. ApiTypeOK'
  BY <1>2, <1>3, <1>6 DEF ApiIInv, ApiTypeOK, Outcomes
<1>8. ASSUME NEW u \in Threads
      PROVE  /\ known'[u] <= seen'[u]
             /\ call'[u] = "encrypting" => seen'[u] >= 2
             /\ outcome'[u] = "null" => known'[u] = 1
             /\ outcome'[u] # "null dereferenced"
  <2>1. /\ known[u] <= seen[u]
        /\ call[u] = "encrypting" => seen[u] >= 2
        /\ outcome[u] = "null" => known[u] = 1
        /\ outcome[u] # "null dereferenced"
    BY DEF ApiIInv, NeverDereferenced
  <2>2. CASE u = t
    <3>1. seen'[u] = i /\ known'[u] = i /\ call'[u] = "idle" /\ outcome'[u] = "ballot"
      BY <1>6, <2>2 DEF ApiIInv, ApiTypeOK
    <3> QED BY <1>2, <3>1
  <2>3. CASE u # t
    <3>1. /\ seen'[u] = seen[u] /\ known'[u] = known[u]
          /\ call'[u] = call[u] /\ outcome'[u] = outcome[u]
      BY <1>6, <2>3 DEF ApiIInv, ApiTypeOK
    <3> QED BY <2>1, <3>1
  <2> QED BY <2>2, <2>3
<1>9. written'[1] = NoEncryptor
  BY <1>3 DEF ApiIInv
<1>10. known'[t] = i
  BY <1>6 DEF ApiIInv, ApiTypeOK
<1> QED BY <1>2, <1>7, <1>8, <1>9, <1>10 DEF ApiIInv, NeverDereferenced

\* A thread in setElectionApi holds an election.
SettingInv == \A t \in Threads : call[t] = "setting" => election[t] \in Elections

\* Every step keeps the invariant, and no thread forgets what it has seen.
LEMMA ApiInductive ==
  ASSUME ApiIInv, SettingInv, [ApiNext]_apiVars
  PROVE  /\ ApiIInv' /\ SettingInv'
         /\ \A t \in Threads : known'[t] >= known[t]
<1>1. ASSUME NEW t \in Threads, NEW e \in Elections, BeginSet(t, e)
      PROVE  ApiIInv' /\ SettingInv' /\ known' = known
  BY <1>1 DEF BeginSet, ApiIInv, SettingInv, ApiTypeOK, NeverDereferenced
<1>2. ASSUME NEW t \in Threads, SetThrows(t)
      PROVE  ApiIInv' /\ SettingInv' /\ known' = known
  BY <1>2 DEF SetThrows, Finish, ApiIInv, SettingInv, ApiTypeOK, Outcomes, NeverDereferenced
<1>3. ASSUME NEW t \in Threads, Assign(t)
      PROVE  ApiIInv' /\ SettingInv' /\ \A u \in Threads : known'[u] >= known[u]
  <2>1. ApiIInv'
    BY <1>3, AssignKeeps DEF SettingInv
  <2>2. SettingInv'
    BY <1>3 DEF Assign, Finish, SettingInv, ApiIInv, ApiTypeOK
  <2>3. \A u \in Threads : known'[u] >= known[u]
    BY <1>3 DEF Assign, ApiIInv, ApiTypeOK
  <2> QED BY <2>1, <2>2, <2>3
<1>4. ASSUME NEW t \in Threads, Check(t)
      PROVE  ApiIInv' /\ SettingInv' /\ known' = known
  <2>1. SettingInv'
    BY <1>4 DEF Check, Finish, SettingInv, ApiIInv, ApiTypeOK
  <2> QED BY <1>4, <2>1, CheckKeeps DEF Check
<1>5. ASSUME NEW t \in Threads, EncryptThrows(t)
      PROVE  ApiIInv' /\ SettingInv' /\ known' = known
  <2>1. PICK i \in Readable(t) : seen' = [seen EXCEPT ![t] = i]
    BY <1>5 DEF EncryptThrows
  <2>2. i \in 1 .. Len(written) /\ i >= seen[t] /\ i >= known[t]
    BY ReadPlaces
  <2> QED BY <1>5, <2>1, <2>2
          DEF EncryptThrows, Finish, ApiIInv, SettingInv, ApiTypeOK, Outcomes, NeverDereferenced
<1>6. ASSUME NEW t \in Threads, Encrypt(t)
      PROVE  ApiIInv' /\ SettingInv' /\ \A u \in Threads : known'[u] >= known[u]
  <2>1. ApiIInv' /\ known'[t] >= known[t]
    BY <1>6, EncryptKeeps
  <2>2. SettingInv'
    BY <1>6 DEF Encrypt, Finish, SettingInv, ApiIInv, ApiTypeOK
  <2>3. ASSUME NEW u \in Threads
        PROVE  known'[u] >= known[u]
    <3>1. u # t => known'[u] = known[u]
      BY <1>6 DEF Encrypt, ApiIInv, ApiTypeOK
    <3>2. known[u] \in Int
      BY DEF ApiIInv, ApiTypeOK
    <3> QED BY <2>1, <3>1, <3>2
  <2> QED BY <2>1, <2>2, <2>3
<1>7. known' = known => \A t \in Threads : known'[t] >= known[t]
  BY DEF ApiIInv, ApiTypeOK
<1>8. CASE UNCHANGED apiVars
  <2>1. ApiIInv' /\ SettingInv'
    BY <1>8 DEF apiVars, ApiIInv, SettingInv, ApiTypeOK, NeverDereferenced
  <2> QED BY <1>7, <1>8, <2>1 DEF apiVars
<1>9. CASE ApiNext
  BY <1>1, <1>2, <1>3, <1>4, <1>5, <1>6, <1>7, <1>9 DEF ApiNext
<1> QED BY <1>8, <1>9

\* The invariant holds of all threads at all times.
THEOREM ApiInvariance == ApiSpec => [](ApiIInv /\ SettingInv)
<1>1. ApiInit => ApiIInv /\ SettingInv
  BY ApiAssumption DEF ApiInit, ApiIInv, SettingInv, ApiTypeOK, Outcomes, NeverDereferenced
<1>2. ApiIInv /\ SettingInv /\ [ApiNext]_apiVars => (ApiIInv /\ SettingInv)'
  BY ApiInductive
<1> QED BY <1>1, <1>2, PTL DEF ApiSpec

\* The variables keep their types, and only elections are ever written.
THEOREM ApiTypeCorrect == ApiSpec => []ApiTypeOK
<1>1. ApiIInv => ApiTypeOK
  BY DEF ApiIInv
<1> QED BY <1>1, ApiInvariance, PTL

\* The second read of encryptApi never finds null, and null is only answered
\* to a thread that knows of no election, for any number of threads and
\* whatever old values they read.
THEOREM NullIsUnset == ApiSpec => []NullOnlyWhileUnset
<1>1. ApiIInv => NullOnlyWhileUnset
  BY DEF ApiIInv, NullOnlyWhileUnset, NeverDereferenced
<1> QED BY <1>1, ApiInvariance, PTL
=============================================================================
