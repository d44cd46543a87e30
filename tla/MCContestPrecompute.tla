------------------------- MODULE MCContestPrecompute -------------------------
(***************************************************************************)
(* Values for the constants of ContestPrecompute.                          *)
(***************************************************************************)
EXTENDS ContestPrecompute, MCElections

MCVoteValues == 0 .. 2
MCGiven == {<<"given">>}
MCNull == {NoNonce}
=============================================================================
