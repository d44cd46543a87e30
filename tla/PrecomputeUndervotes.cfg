\* The comment that placeholders are modified for undervotes, against the code.
SPECIFICATION Spec
CONSTANTS
  Manifests <- MCManifests
  Styles <- MCStyles
  ContestIds <- MCContestIds
  SelectionIds <- MCSelectionIds
  VoteValues <- MCVoteValues
  MasterNonces <- MCGiven
  NoNonce = NoNonce
  NotEncrypted = NotEncrypted
INVARIANTS PlaceholdersFillUndervotes
