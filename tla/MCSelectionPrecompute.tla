------------------------ MODULE MCSelectionPrecompute ------------------------
(***************************************************************************)
(* Values for the constants of SelectionPrecompute.                        *)
(***************************************************************************)
EXTENDS SelectionPrecompute, MCElections

MCVoteValues == 0 .. 2
=============================================================================
