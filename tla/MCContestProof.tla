--------------------------- MODULE MCContestProof ---------------------------
(***************************************************************************)
(* A group of order 5 and values for the constants of ContestProof.        *)
(***************************************************************************)
EXTENDS ContestProof

\* -1 and 2 cannot be encrypted, or not be proved.
MCVotes == -1 .. 2
MCLimits == 0 .. 2
MCProofNonces == {0, 3}
=============================================================================
