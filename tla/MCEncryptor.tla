----------------------------- MODULE MCEncryptor -----------------------------
(***************************************************************************)
(* Small elections for Encryptor.  Selection ids are tuples, so that they  *)
(* compare with the <<contest, number>> ids of placeholders.               *)
(***************************************************************************)
EXTENDS Encryptor

Selection(id, order, candidate) ==
  [selectionId |-> <<id>>, sequenceOrder |-> order, candidateId |-> candidate]

Contest(id, order, unit, variation, allowed, selections) ==
  [contestId |-> id, sequenceOrder |-> order, geopoliticalUnitId |-> unit,
   voteVariation |-> variation, numberElected |-> allowed,
   votesAllowed |-> allowed, selections |-> selections]

mayor == Contest("mayor", 1, "city", "one_of_m", 1,
                 <<Selection("ann", 1, "cAnn"), Selection("bob", 2, "cBob")>>)
board == Contest("board", 2, "school", "n_of_m", 2,
                 <<Selection("cyd", 1, "cCyd"), Selection("dan", 2, "cDan"),
                   Selection("eve", 3, "cEve")>>)
nobody == Contest("nobody", 3, "city", "approval", 0, << >>)
idle == Contest("idle", 5, "school", "n_of_m", 0, <<Selection("fay", 1, "cEve")>>)
sameIds == Contest("same", 4, "city", "n_of_m", 2,
                   <<Selection("ann", 1, "cAnn"), Selection("ann", 1, "cAnn")>>)

Election(contests) ==
  [contests |-> contests,
   units |-> {"city", "school"},
   candidates |-> {"cAnn", "cBob", "cCyd", "cDan", "cEve"},
   styles |-> ("town" :> {"city"} @@ "all" :> {"city", "school"})]

MCManifests ==
  {Election(<<mayor, board>>), Election(<<board, mayor>>),
   Election(<<mayor, nobody>>), Election(<<mayor, mayor>>),
   Election(<<mayor, idle>>),
   Election(<<sameIds>>)}

Vote(id, order, vote) ==
  [selectionId |-> <<id>>, sequenceOrder |-> order, vote |-> vote, extendedData |-> {}]
WriteIn(id, order, vote, name, numBytes) ==
  [selectionId |-> <<id>>, sequenceOrder |-> order, vote |-> vote,
   extendedData |-> {[name |-> name, numBytes |-> numBytes]}]
Entry(id, order, selections) ==
  [contestId |-> id, sequenceOrder |-> order, selections |-> selections]
Ballot(id, style, contests) ==
  [ballotId |-> id, ballotStyleId |-> style, contests |-> contests]

\* Votes for mayor: also a vote of 2, a wrong order, an unknown name, the
\* same selection twice, and a write-in.
MayorVotes ==
  {Vote("ann", 1, v) : v \in 0 .. 2} \cup {Vote("bob", 2, v) : v \in 0 .. 2}
  \cup {Vote("ann", 2, 1), Vote("zoe", 3, 1), WriteIn("bob", 2, 1, "max", 3)}
MayorEntries == {Entry("mayor", 1, s) : s \in BoundedSeq(MayorVotes, 2)}

\* All ways to vote for the board, overvotes included.
BoardEntries ==
  {Entry("board", 2, <<Vote("cyd", 1, v[1]), Vote("dan", 2, v[2]), Vote("eve", 3, v[3])>>) :
     v \in [1 .. 3 -> 0 .. 1]}
OddEntries ==
  {Entry("mayor", 2, <<Vote("ann", 1, 1)>>), Entry("sheriff", 3, << >>),
   Entry("mayor", 1, <<Vote("bob", 2, 1)>>),
   Entry("board", 2, <<Vote("cyd", 1, 1), Vote("cyd", 1, 1)>>)}

\* A few ballots for batches; two of them have the same id, and two have
\* equally long write-ins, one of them with the vote for it.
MCBatchBallots ==
  {Ballot("b1", "all", << >>),
   Ballot("b1", "all", <<Entry("mayor", 1, <<Vote("ann", 1, 1)>>)>>),
   Ballot("b2", "town", <<Entry("mayor", 1, <<WriteIn("bob", 2, 1, "max", 3)>>)>>),
   Ballot("b3", "all", <<Entry("mayor", 1, <<WriteIn("bob", 2, 0, "kim", 3), Vote("ann", 1, 1)>>),
                         Entry("board", 2, <<Vote("cyd", 1, 1), Vote("eve", 3, 1)>>)>>)}

MCBallots ==
  LET one == MayorEntries \cup BoardEntries \cup OddEntries
      contests == {<< >>} \cup {<<e>> : e \in one}
                  \cup {<<e, f>> : e \in MayorEntries, f \in BoardEntries}
                  \cup {<<e, f>> : e \in OddEntries, f \in OddEntries}
  IN  MCBatchBallots \cup {Ballot("b", style, c) : style \in {"town", "all", "gone"}, c \in contests}
=============================================================================
