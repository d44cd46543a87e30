------------------------------ MODULE DLogTable ------------------------------
(***************************************************************************)
(* What the callers of one discrete-log engine may rely on, without locks, *)
(* counters or limits: an append-only table of exponents, one per power of *)
(* the base and strictly increasing, and calls that are answered in one    *)
(* step.  A call on a power that the table holds is answered from the      *)
(* table; null is answered only while the table does not hold the power.   *)
(***************************************************************************)
EXTENDS Integers

CONSTANTS Callers, Inputs, Null

VARIABLES
  exponentOf,  \* power -> the exponent everybody is told
  waiting,     \* callers whose call is not answered yet
  question,    \* what each caller asked last
  reply        \* what it was answered last

tvars == <<exponentOf, waiting, question, reply>>

Init ==
  /\ exponentOf = [e \in {0} |-> 0]
  /\ waiting = {}
  /\ question = [c \in Callers |-> 0]
  /\ reply = [c \in Callers |-> Null]

Ask(c, x) ==
  /\ c \notin waiting
  /\ waiting' = waiting \cup {c}
  /\ question' = [question EXCEPT ![c] = x]
  /\ UNCHANGED <<exponentOf, reply>>

(***************************************************************************)
(* One more power gets an exponent, above all those given out.             *)
(***************************************************************************)
Extend ==
  /\ \E e \in (DOMAIN exponentOf') \ DOMAIN exponentOf :
       /\ DOMAIN exponentOf' = DOMAIN exponentOf \cup {e}
       /\ \A f \in DOMAIN exponentOf :
            exponentOf'[f] = exponentOf[f] /\ exponentOf[f] < exponentOf'[e]
  /\ UNCHANGED <<waiting, question, reply>>

Answer(c) ==
  /\ c \in waiting
  /\ waiting' = waiting \ {c}
  /\ reply' = [reply EXCEPT ![c] =
       IF question[c] \in DOMAIN exponentOf THEN exponentOf[question[c]]
                                            ELSE Null]
  /\ UNCHANGED <<exponentOf, question>>

Next ==
  \/ \E c \in Callers, x \in Inputs : Ask(c, x)
  \/ \E c \in Callers : Answer(c)
  \/ Extend

Spec == Init /\ [][Next]_tvars
=============================================================================
