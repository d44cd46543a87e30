---------------------------- MODULE EncryptorApi ----------------------------
(***************************************************************************)
(* setElectionApi and encryptApi, called by several threads.  They share   *)
(* one variable, encryptor, that is neither volatile nor locked: a thread  *)
(* may read an older write of another thread, but none older than what it  *)
(* read or wrote before, for a call to println, which is synchronized,     *)
(* lies between any two accesses.  encryptApi reads it twice.              *)
(***************************************************************************)
EXTENDS Integers, Sequences

CONSTANTS
  Threads, Elections,
  NoEncryptor,
  MaxWrites   \* bound of the model: values of encryptor

ASSUME ApiAssumption == NoEncryptor \notin Elections /\ MaxWrites \in Nat \ {0}

VARIABLES
  written,   \* the values of encryptor, oldest first
  seen,      \* for each thread, the place of the last that it read or wrote
  call,      \* for each thread, the call it is in
  election,  \* for each thread, the arguments of its setElectionApi
  outcome,   \* for each thread, what its last call did
  known      \* history: the last that it set, or that encrypted a ballot for it

apiVars == <<written, seen, call, election, outcome, known>>

Outcomes == {"none", "true", "null", "ballot", "threw", "null dereferenced"}

\* Places of the values that a read of encryptor can return.
Readable(t) == seen[t] .. Len(written)

Finish(t, result) ==
  /\ call' = [call EXCEPT ![t] = "idle"]
  /\ outcome' = [outcome EXCEPT ![t] = result]

ApiInit ==
  /\ written = <<NoEncryptor>>
  /\ seen = [t \in Threads |-> 1]
  /\ call = [t \in Threads |-> "idle"]
  /\ election = [t \in Threads |-> NoEncryptor]
  /\ outcome = [t \in Threads |-> "none"]
  /\ known = [t \in Threads |-> 1]

-----------------------------------------------------------------------------
\* A mutant: the old election is given up before the new one is read.
BeginSetClearing(t, e) ==
  /\ call[t] = "idle"
  /\ call' = [call EXCEPT ![t] = "setting"]
  /\ election' = [election EXCEPT ![t] = e]
  /\ written' = Append(written, NoEncryptor)
  /\ Len(written) < MaxWrites
  /\ UNCHANGED <<seen, outcome, known>>

BeginSet(t, e) ==
  /\ call[t] = "idle"
  /\ call' = [call EXCEPT ![t] = "setting"]
  /\ election' = [election EXCEPT ![t] = e]
  /\ UNCHANGED <<written, seen, outcome, known>>

\* The manifest or qbar cannot be read; a key that cannot is taken to be 0.
SetThrows(t) ==
  /\ call[t] = "setting"
  /\ Finish(t, "threw")
  /\ UNCHANGED <<written, seen, election, known>>

Assign(t) ==
  /\ call[t] = "setting"
  /\ Len(written) < MaxWrites
  /\ written' = Append(written, election[t])
  /\ seen' = [seen EXCEPT ![t] = Len(written) + 1]
  /\ known' = [known EXCEPT ![t] = Len(written) + 1]
  /\ Finish(t, "true")
  /\ UNCHANGED election

-----------------------------------------------------------------------------
\* The first read of encryptApi: null if there is no encryptor.
Check(t) ==
  /\ call[t] = "idle"
  /\ \E i \in Readable(t) :
       /\ seen' = [seen EXCEPT ![t] = i]
       /\ IF written[i] = NoEncryptor THEN Finish(t, "null")
          ELSE call' = [call EXCEPT ![t] = "encrypting"] /\ UNCHANGED outcome
  /\ UNCHANGED <<written, election, known>>

\* The ballot cannot be read, or encrypt throws.
EncryptThrows(t) ==
  /\ call[t] = "encrypting"
  /\ \E i \in Readable(t) : seen' = [seen EXCEPT ![t] = i]
  /\ Finish(t, "threw")
  /\ UNCHANGED <<written, election, known>>

\* The second read, asserted not to be null.
Encrypt(t) ==
  /\ call[t] = "encrypting"
  /\ \E i \in Readable(t) :
       /\ seen' = [seen EXCEPT ![t] = i]
       /\ IF written[i] = NoEncryptor THEN Finish(t, "null dereferenced") /\ UNCHANGED known
          ELSE Finish(t, "ballot") /\ known' = [known EXCEPT ![t] = i]
  /\ UNCHANGED <<written, election>>

ApiNext ==
  \E t \in Threads :
    \/ \E e \in Elections : BeginSet(t, e)
    \/ SetThrows(t)
    \/ Assign(t)
    \/ Check(t)
    \/ EncryptThrows(t)
    \/ Encrypt(t)

ApiSpec == ApiInit /\ [][ApiNext]_apiVars

-----------------------------------------------------------------------------
ApiTypeOK ==
  /\ written \in Seq(Elections \cup {NoEncryptor}) /\ Len(written) \in 1 .. MaxWrites
  /\ \A i \in 2 .. Len(written) : written[i] \in Elections
  /\ seen \in [Threads -> 1 .. Len(written)]
  /\ known \in [Threads -> 1 .. Len(written)]
  /\ call \in [Threads -> {"idle", "setting", "encrypting"}]
  /\ election \in [Threads -> Elections \cup {NoEncryptor}]
  /\ outcome \in [Threads -> Outcomes]

(***************************************************************************)
(* The assertion on the second read of encryptor holds, whatever another   *)
(* thread does between the reads, and a thread is told that there is no    *)
(* election only while it has set none and none has encrypted for it.      *)
(***************************************************************************)
NullOnlyWhileUnset ==
  \A t \in Threads :
    /\ outcome[t] # "null dereferenced"
    /\ outcome[t] = "null" => written[known[t]] = NoEncryptor
=============================================================================
