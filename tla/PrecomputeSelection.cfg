\* Votes of 0, 1 and 2 in any order, and encrypts in between.
SPECIFICATION Spec
CONSTANTS
  Manifests <- MCManifests
  Styles <- MCStyles
  ContestIds <- MCContestIds
  SelectionIds <- MCSelectionIds
  VoteValues <- MCVoteValues
  NotReturned = NotReturned
INVARIANTS TypeOK FirstMatchesEncryptor VerifiedMatchesEncryptor FirstProofsTellVotes
PROPERTIES EncryptIsStable
