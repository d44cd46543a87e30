\* The documented promise that dLog finds e, against the code (native class).
SPECIFICATION Spec
CONSTANTS
  Callers = {c1}
  Order = 5
  MaxDLog = 3
  MaxResults <- MCMaxResults
  LockFreeReads = FALSE
  MaxMisses = 2
  Outside = Outside
  Null = Null
  NoCaller = NoCaller
INVARIANTS AnswerIsTheExponent
CHECK_DEADLOCK FALSE
