\* Thousands of ballots alone, well-formed and malformed, and batches of up to
\* three ballots, some with equal ids.
SPECIFICATION FairSpec
CONSTANTS
  Manifests <- MCManifests
  Ballots <- MCBallots
  BatchBallots <- MCBatchBallots
  MaxBallots = 3
INVARIANTS TypeOK ValidBatchEncrypts ContestsVerify VotesPreserved NoncesDistinct
INVARIANTS InspectionShowsWriteInsOnly ChainLinked
PROPERTIES BatchEnds
CHECK_DEADLOCK FALSE
