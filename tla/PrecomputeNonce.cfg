\* A null master nonce, against the nonces of the ballot.
SPECIFICATION Spec
CONSTANTS
  Manifests <- MCManifests
  Styles <- MCStyles
  ContestIds <- MCContestIds
  SelectionIds <- MCSelectionIds
  VoteValues <- MCVoteValues
  MasterNonces <- MCNull
  NoNonce = NoNonce
  NotEncrypted = NotEncrypted
INVARIANTS NoncesRecoverable
