\* Votes of 0, 1 and 2 in any order, and encrypts in between.
SPECIFICATION Spec
CONSTANTS
  Manifests <- MCManifests
  Styles <- MCStyles
  ContestIds <- MCContestIds
  SelectionIds <- MCSelectionIds
  VoteValues <- MCVoteValues
  MasterNonces <- MCGiven
  NoNonce = NoNonce
  NotEncrypted = NotEncrypted
INVARIANTS TypeOK KeptIsCurrent MatchesEncryptor CountsInBounds
