-------------------------------- MODULE DLog --------------------------------
(***************************************************************************)
(* The discrete-log engine shared by every decryption of one public key:   *)
(* class DLog, JVM and native.  One instance keeps a memo of the powers of *)
(* its base that it has enumerated so far; callers on any thread look a    *)
(* power up in the memo and, when it is not there, take the mutex and      *)
(* enumerate further.  The JVM class reads the memo without the mutex      *)
(* first (ConcurrentHashMap); the native class does everything under it.   *)
(*                                                                         *)
(* A power b^e of the base is represented by its exponent e; Outside is an *)
(* element that is no small power of the base.                             *)
(***************************************************************************)
EXTENDS Integers

CONSTANTS
  Callers,        \* threads that call dLog
  Order,          \* the powers b^0 .. b^(Order-1) are distinct
  MaxDLog,        \* MAX_DLOG, the limit used when maxResult is negative
  MaxResults,     \* the values callers pass for maxResult
  LockFreeReads,  \* TRUE: the JVM class; FALSE: the native class
  MaxMisses,      \* bound of the model: no call starts after that many misses
  Outside,        \* an input that is not one of the powers above
  Null,           \* Kotlin's null
  NoCaller        \* the mutex is free

(***************************************************************************)
(* The limit that a call works with.                                       *)
(***************************************************************************)
DlogMax(maxResult) == IF maxResult < 0 THEN MaxDLog ELSE maxResult

ASSUME DLogAssumption ==
  /\ MaxDLog \in Nat
  /\ MaxResults \subseteq Int
  /\ Order \in Nat \ {0}
  /\ MaxMisses \in Nat
  /\ LockFreeReads \in BOOLEAN
  /\ Outside \notin Int
  /\ Null \notin Int
  /\ NoCaller \notin Callers
  \* The base generates a group of order q (256 bits): the enumeration stops
  \* at a limit, an Int, long before the powers repeat.
  /\ \A m \in MaxResults : DlogMax(m) + 1 < Order

VARIABLES
  dLogMapping,      \* the memo: powers enumerated so far -> exponent recorded
  dLogMaxElement,   \* the last power enumerated
  dLogMaxExponent,  \* the counter that is recorded for it
  mutex,            \* the caller that holds the mutex, or NoCaller
  pc,               \* where each caller is in dLog
  input,            \* its argument input
  maxResult,        \* its argument maxResult
  answer,           \* what its call returns
  misses            \* history: calls that gave up so far

vars == <<dLogMapping, dLogMaxElement, dLogMaxExponent, mutex, pc, input,
          maxResult, answer, misses>>
table == <<dLogMapping, dLogMaxElement, dLogMaxExponent>>
args == <<input, maxResult>>

Powers == 0 .. Order - 1
Inputs == Powers \cup {Outside}
Known(x) == x \in DOMAIN dLogMapping

-----------------------------------------------------------------------------
Init ==
  /\ dLogMapping = [e \in {0} |-> 0]
  /\ dLogMaxElement = 0
  /\ dLogMaxExponent = 0
  /\ mutex = NoCaller
  /\ pc = [c \in Callers |-> "idle"]
  /\ input = [c \in Callers |-> 0]
  /\ maxResult \in [Callers -> MaxResults]
  /\ answer = [c \in Callers |-> Null]
  /\ misses = 0

Goto(c, from, to) ==
  /\ pc[c] = from
  /\ pc' = [pc EXCEPT ![c] = to]

Reply(c, r) == answer' = [answer EXCEPT ![c] = r]

(***************************************************************************)
(* A caller enters dLog(x, m).                                             *)
(***************************************************************************)
Call(c, x, m) ==
  /\ misses < MaxMisses
  /\ Goto(c, "idle", IF LockFreeReads THEN "check" ELSE "lock")
  /\ input' = [input EXCEPT ![c] = x]
  /\ maxResult' = [maxResult EXCEPT ![c] = m]
  /\ UNCHANGED <<table, mutex, answer, misses>>

(***************************************************************************)
(* The lock-free path: `input in dLogMapping`, then, as a second read of   *)
(* the shared map, dLogMapping[input].                                     *)
(***************************************************************************)
CheckHit(c) ==
  /\ Known(input[c])
  /\ Goto(c, "check", "fetch")
  /\ UNCHANGED <<table, mutex, args, answer, misses>>

CheckMiss(c) ==
  /\ ~Known(input[c])
  /\ Goto(c, "check", "lock")
  /\ UNCHANGED <<table, mutex, args, answer, misses>>

Fetch(c) ==
  /\ Goto(c, "fetch", "done")
  /\ Reply(c, dLogMapping[input[c]])
  /\ UNCHANGED <<table, mutex, args, misses>>

(***************************************************************************)
(* A mutant: the memo is not looked at again under the mutex.              *)
(***************************************************************************)
LockedMissUnchecked(c) ==
  /\ Goto(c, "locked", "search")
  /\ UNCHANGED <<table, mutex, args, answer, misses>>

(***************************************************************************)
(* mutex.withLock, and the second look at the memo under it.               *)
(***************************************************************************)
Lock(c) ==
  /\ mutex = NoCaller
  /\ mutex' = c
  /\ Goto(c, "lock", "locked")
  /\ UNCHANGED <<table, args, answer, misses>>

LockedHit(c) ==
  /\ Known(input[c])
  /\ Goto(c, "locked", "done")
  /\ Reply(c, dLogMapping[input[c]])
  /\ mutex' = NoCaller
  /\ UNCHANGED <<table, args, misses>>

LockedMiss(c) ==
  /\ ~Known(input[c])
  /\ Goto(c, "locked", "search")
  /\ UNCHANGED <<table, mutex, args, answer, misses>>

(***************************************************************************)
(* Mutants of the round: the entry is made before the multiplication, the  *)
(* counter is recorded before it is incremented.                           *)
(***************************************************************************)
AdvancePutFirst(c) ==
  /\ pc[c] = "search"
  /\ input[c] # dLogMaxElement
  /\ dLogMaxExponent <= DlogMax(maxResult[c])
  /\ dLogMaxExponent' = dLogMaxExponent + 1
  /\ dLogMapping' = [e \in DOMAIN dLogMapping \cup {dLogMaxElement} |->
                       IF e = dLogMaxElement THEN dLogMaxExponent'
                                             ELSE dLogMapping[e]]
  /\ dLogMaxElement' = dLogMaxElement + 1
  /\ UNCHANGED <<mutex, pc, args, answer, misses>>

AdvanceRecordsOld(c) ==
  /\ pc[c] = "search"
  /\ input[c] # dLogMaxElement
  /\ dLogMaxExponent <= DlogMax(maxResult[c])
  /\ dLogMaxExponent' = dLogMaxExponent + 1
  /\ dLogMaxElement' = dLogMaxElement + 1
  /\ dLogMapping' = [e \in DOMAIN dLogMapping \cup {dLogMaxElement'} |->
                       IF e = dLogMaxElement' THEN dLogMaxExponent
                                              ELSE dLogMapping[e]]
  /\ UNCHANGED <<mutex, pc, args, answer, misses>>

(***************************************************************************)
(* One round of `while (input != dLogMaxElement)`.  The condition          *)
(* `dLogMaxExponent++ > dlogMax` increments the counter whether or not it  *)
(* holds.  Its one effect that others see is the new entry of the memo.    *)
(***************************************************************************)
Advance(c) ==
  /\ pc[c] = "search"
  /\ input[c] # dLogMaxElement
  /\ dLogMaxExponent <= DlogMax(maxResult[c])
  /\ dLogMaxExponent' = dLogMaxExponent + 1
  /\ dLogMaxElement' = dLogMaxElement + 1
  /\ dLogMapping' = [e \in DOMAIN dLogMapping \cup {dLogMaxElement'} |->
                       IF e = dLogMaxElement' THEN dLogMaxExponent'
                                              ELSE dLogMapping[e]]
  /\ UNCHANGED <<mutex, pc, args, answer, misses>>

(***************************************************************************)
(* Mutants of the way out: the counter is incremented once more, the error *)
(* is forgotten, the mutex is kept.                                        *)
(***************************************************************************)
GiveUpWith(c, step, r, freed) ==
  /\ Goto(c, "search", "done")
  /\ input[c] # dLogMaxElement
  /\ dLogMaxExponent > DlogMax(maxResult[c])
  /\ dLogMaxExponent' = dLogMaxExponent + step
  /\ Reply(c, r)
  /\ mutex' = freed
  /\ misses' = misses + 1
  /\ UNCHANGED <<dLogMapping, dLogMaxElement, args>>

GiveUpByTwo(c) == GiveUpWith(c, 2, Null, NoCaller)
GiveUpNoError(c) == GiveUpWith(c, 1, dLogMaxExponent + 1, NoCaller)
GiveUpLocked(c) == GiveUpWith(c, 1, Null, mutex)

GiveUp(c) ==
  /\ Goto(c, "search", "done")
  /\ input[c] # dLogMaxElement
  /\ dLogMaxExponent > DlogMax(maxResult[c])
  /\ dLogMaxExponent' = dLogMaxExponent + 1
  /\ Reply(c, Null)
  /\ mutex' = NoCaller
  /\ misses' = misses + 1
  /\ UNCHANGED <<dLogMapping, dLogMaxElement, args>>

Found(c) ==
  /\ Goto(c, "search", "done")
  /\ input[c] = dLogMaxElement
  /\ Reply(c, dLogMaxExponent)
  /\ mutex' = NoCaller
  /\ UNCHANGED <<table, args, misses>>

(***************************************************************************)
(* The caller has taken the result.                                        *)
(***************************************************************************)
Return(c) ==
  /\ Goto(c, "done", "idle")
  /\ UNCHANGED <<table, mutex, args, answer, misses>>

(***************************************************************************)
(* The steps dLog takes by itself once it is called.                       *)
(***************************************************************************)
Run(c) ==
  \/ CheckHit(c) \/ CheckMiss(c) \/ Fetch(c)
  \/ LockedHit(c) \/ LockedMiss(c)
  \/ Advance(c) \/ GiveUp(c) \/ Found(c)

Next ==
  \E c \in Callers :
    \/ \E x \in Inputs, m \in MaxResults : Call(c, x, m)
    \/ Run(c)
    \/ Lock(c)
    \/ Return(c)

Spec == Init /\ [][Next]_vars

(***************************************************************************)
(* A running thread keeps running, and the coroutine Mutex is fair: the    *)
(* callers suspended on it are resumed in the order in which they came.    *)
(***************************************************************************)
Fairness == \A c \in Callers : WF_vars(Run(c)) /\ SF_vars(Lock(c))

FairSpec == Spec /\ Fairness

-----------------------------------------------------------------------------
(***************************************************************************)
(* Types.  The memo always holds a prefix of the powers.                   *)
(***************************************************************************)
TypeOK ==
  /\ dLogMaxElement \in Powers
  /\ dLogMaxExponent \in Nat
  /\ dLogMapping \in [0 .. dLogMaxElement -> Nat]
  /\ mutex \in Callers \cup {NoCaller}
  /\ pc \in [Callers ->
       {"idle", "check", "fetch", "lock", "locked", "search", "done"}]
  /\ input \in [Callers -> Inputs]
  /\ maxResult \in [Callers -> MaxResults]
  /\ answer \in [Callers -> Nat \cup {Null}]
  /\ misses \in Nat

(***************************************************************************)
(* The error of the engine is bounded by its misses: an exponent recorded  *)
(* for b^e is between e and e plus the number of calls that gave up so     *)
(* far.  In particular, before the first miss the memo is exact.  (A miss  *)
(* increments the counter without multiplying, so exactness is not kept.)  *)
(***************************************************************************)
DriftBounded ==
  \A e \in DOMAIN dLogMapping :
    e <= dLogMapping[e] /\ dLogMapping[e] <= e + misses

(***************************************************************************)
(* Different powers never share a recorded exponent, and larger powers     *)
(* have larger ones, whatever misses came in between.                      *)
(***************************************************************************)
OrderPreserved ==
  \A e, f \in DOMAIN dLogMapping : e < f => dLogMapping[e] < dLogMapping[f]

(***************************************************************************)
(* Callers agree: two calls on the same element that are both answered     *)
(* with a number, through the lock-free path, under the mutex or by        *)
(* enumeration, in whatever order they raced, have the same answer.        *)
(***************************************************************************)
AnswersAgree ==
  \A c, d \in Callers :
    /\ pc[c] = "done" /\ pc[d] = "done"
    /\ input[c] = input[d]
    /\ answer[c] # Null /\ answer[d] # Null
    => answer[c] = answer[d]

(***************************************************************************)
(* null is answered only for an element out of reach: no power b^e with    *)
(* e + misses <= dlogMax + 2 is reported as not found, even when another   *)
(* caller moves the shared counter while this one waits for the mutex.     *)
(***************************************************************************)
NullOnlyOutOfReach ==
  \A c \in Callers :
    pc[c] = "done" /\ answer[c] = Null =>
      \/ input[c] = Outside
      \/ input[c] + misses > DlogMax(maxResult[c]) + 2

(***************************************************************************)
(* A recorded exponent is never replaced: a later call on the same element *)
(* is answered as the earlier one was.                                     *)
(***************************************************************************)
MemoStable ==
  [][\A e \in DOMAIN dLogMapping :
       e \in DOMAIN dLogMapping' /\ dLogMapping'[e] = dLogMapping[e]]_vars

(***************************************************************************)
(* Every call returns, also when all callers compete for the mutex and     *)
(* when the element is no power of the base.                               *)
(***************************************************************************)
CallsReturn ==
  \A c \in Callers : pc[c] \in {"check", "lock"} ~> pc[c] = "done"

(***************************************************************************)
(* The engine implements the lock-free, limit-free table of DLogTable:     *)
(* every call takes effect at one instant between its start and its return *)
(* and is then answered from the table, or with null if the power is not   *)
(* in the table at that instant.                                           *)
(***************************************************************************)
Waiting == {c \in Callers : pc[c] \notin {"idle", "done"}}

Table == INSTANCE DLogTable WITH
  exponentOf <- dLogMapping, waiting <- Waiting,
  question <- input, reply <- answer

ImplementsTable == Table!Spec

(***************************************************************************)
(* What the documentation of dLog promises of every number it returns:     *)
(* "Given an element x for which there exists an e, such that (base)^e =   *)
(* x, this will find e".                                                   *)
(***************************************************************************)
AnswerIsTheExponent ==
  \A c \in Callers :
    pc[c] = "done" /\ answer[c] # Null => answer[c] = input[c]
=============================================================================
