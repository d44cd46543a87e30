----------------------------- MODULE MCElections -----------------------------
(***************************************************************************)
(* A small election for the precomputing classes: a style with an n_of_m   *)
(* and a one_of_m contest, a style with a contest that has no selections,  *)
(* and a contest of another style.  Selection ids are tuples, so that they *)
(* compare with the <<contest, number>> ids of placeholders.               *)
(***************************************************************************)
EXTENDS TLC, Naturals

Selection(id, order) ==
  [selectionId |-> <<id>>, sequenceOrder |-> order, candidateId |-> id]

Contest(id, order, unit, variation, allowed, selections) ==
  [contestId |-> id, sequenceOrder |-> order, geopoliticalUnitId |-> unit,
   voteVariation |-> variation, numberElected |-> allowed,
   votesAllowed |-> allowed, selections |-> selections]

mayor == Contest("mayor", 2, "city", "one_of_m", 1, <<Selection("ann", 1), Selection("bob", 2)>>)
board == Contest("board", 1, "city", "n_of_m", 2,
                 <<Selection("cyd", 1), Selection("dan", 2), Selection("eve", 3)>>)
state == Contest("state", 3, "land", "one_of_m", 1, <<Selection("fay", 1)>>)
nobody == Contest("nobody", 4, "moon", "approval", 0, << >>)

MCManifests ==
  {[contests |-> <<mayor, board, state, nobody>>, units |-> {"city", "land", "moon"},
    candidates |-> {"ann", "bob", "cyd", "dan", "eve", "fay"},
    styles |-> ("town" :> {"city"} @@ "far" :> {"moon"})]}
MCStyles == {"town", "far", "gone"}
MCContestIds == {"mayor", "board", "state"}
MCSelectionIds == {<<"ann">>, <<"bob">>, <<"cyd">>, <<"dan">>, <<"eve">>}
=============================================================================
