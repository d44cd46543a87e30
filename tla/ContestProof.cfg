\* Two selections over a group of order 5.
SPECIFICATION Spec
CONSTANTS
  Q = 5
  Votes <- MCVotes
  Limits <- MCLimits
  ProofNonces <- MCProofNonces
  MaxSelections = 2
  NoProof = NoProof
INVARIANTS TypeOK SelectionProofVerifies ContestProofExact ResultProofExact DecryptionsAgree
CHECK_DEADLOCK FALSE
