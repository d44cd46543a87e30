\* Two fair threads on the JVM class: the memo is read without the mutex.
SPECIFICATION FairSpec
CONSTANTS
  Callers = {c1, c2}
  Order = 5
  MaxDLog = 3
  MaxResults <- MCMaxResults
  LockFreeReads = TRUE
  MaxMisses = 2
  Outside = Outside
  Null = Null
  NoCaller = NoCaller
INVARIANTS TypeOK DriftBounded OrderPreserved AnswersAgree NullOnlyOutOfReach
PROPERTIES MemoStable ImplementsTable CallsReturn
CHECK_DEADLOCK FALSE
