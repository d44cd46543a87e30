--------------------------- MODULE InputValidation ---------------------------
(***************************************************************************)
(* The checks that a manifest and a plaintext ballot are expected to pass  *)
(* before the ballot is encrypted.  Each operator gives the set of rules   *)
(* that are broken, under the names the messages of the code have.         *)
(***************************************************************************)
EXTENDS Manifest

Broken(rule, condition) == IF condition THEN {rule} ELSE {}

(***************************************************************************)
(* Two elements of the list have the same value in the field.              *)
(***************************************************************************)
Repeats(list, field) ==
  \E i, j \in DOMAIN list : i < j /\ list[i][field] = list[j][field]

-----------------------------------------------------------------------------
(***************************************************************************)
(* ManifestInputValidation.                                                *)
(***************************************************************************)
SelectionsErrors(m, c) ==
  Broken("B.3", Repeats(c.selections, "selectionId"))
  \cup Broken("B.4", Repeats(c.selections, "sequenceOrder"))
  \cup Broken("B.5", Repeats(c.selections, "candidateId"))
  \cup Broken("A.4", \E s \in ToSet(c.selections) : s.candidateId \notin m.candidates)

ManifestContestErrors(m, c) ==
  Broken("A.3", c.geopoliticalUnitId \notin m.units)
  \cup Broken("A.5", c.geopoliticalUnitId \notin UNION Range(m.styles))
  \cup Broken("C.1", c.voteVariation \notin {"one_of_m", "n_of_m", "approval"})
  \cup Broken("C.2", c.numberElected # c.votesAllowed)
  \cup Broken("C.3", c.voteVariation = "one_of_m" /\ c.votesAllowed # 1)
  \cup Broken("C.4", c.voteVariation = "n_of_m"
                     /\ c.votesAllowed > Len(c.selections))
  \cup Broken("C.5", c.voteVariation = "approval"
                     /\ c.votesAllowed # Len(c.selections))
  \cup SelectionsErrors(m, c)

ManifestErrors(m) ==
  LET allSelections == FlattenSeq([i \in DOMAIN m.contests |-> m.contests[i].selections])
  IN  Broken("A.1", ~(UNION Range(m.styles) \subseteq m.units))
      \cup Broken("B.1", Repeats(m.contests, "contestId"))
      \cup Broken("B.2", Repeats(m.contests, "sequenceOrder"))
      \cup Broken("B.6", Repeats(allSelections, "selectionId"))
      \cup UNION {ManifestContestErrors(m, c) : c \in ToSet(m.contests)}

-----------------------------------------------------------------------------
(***************************************************************************)
(* A mutant of the check of votes: a vote of 2 is not reported.            *)
(***************************************************************************)
VotesErrorsAnyVote(bc, mc) ==
  LET known(s) == HasKey(mc.selections, "selectionId", s.selectionId)
      counted(s) == IF known(s) /\ s.vote \in {0, 1} THEN s.vote ELSE 0
  IN  Broken("C.2", SumOver(bc.selections, counted) > mc.votesAllowed)

(***************************************************************************)
(* BallotInputValidation.  A vote other than 0 and 1 is reported and not   *)
(* counted; a selection that the manifest lacks is not counted either.     *)
(***************************************************************************)
VotesErrors(bc, mc) ==
  LET known(s) == HasKey(mc.selections, "selectionId", s.selectionId)
      counted(s) == IF known(s) /\ s.vote \in {0, 1} THEN s.vote ELSE 0
  IN  Broken("C.1", \E s \in ToSet(bc.selections) : known(s) /\ s.vote \notin {0, 1})
      \cup Broken("C.2", SumOver(bc.selections, counted) > mc.votesAllowed)

BallotContestErrors(bc, unitsOfStyle, mc) ==
  LET known(s) == HasKey(mc.selections, "selectionId", s.selectionId)
      selections == ToSet(bc.selections)
  IN  Broken("A.2.1", bc.sequenceOrder # mc.sequenceOrder)
      \cup Broken("A.3", mc.geopoliticalUnitId \notin unitsOfStyle)
      \cup Broken("B.2", Repeats(bc.selections, "selectionId"))
      \cup Broken("B.3", Repeats(bc.selections, "sequenceOrder"))
      \cup Broken("A.4", \E s \in selections : ~known(s))
      \cup Broken("A.4.1", \E s \in selections : known(s) /\ s.sequenceOrder #
             ByKey(mc.selections, "selectionId", s.selectionId).sequenceOrder)
      \cup VotesErrors(bc, mc)

(***************************************************************************)
(* A contest is looked into only if both it and the ballot style exist.    *)
(***************************************************************************)
BallotErrors(m, b) ==
  LET styleKnown == b.ballotStyleId \in DOMAIN m.styles
      known(bc) == HasKey(m.contests, "contestId", bc.contestId)
  IN  Broken("A.1", ~styleKnown)
      \cup Broken("B.1", Repeats(b.contests, "contestId"))
      \cup Broken("A.2", \E bc \in ToSet(b.contests) : ~known(bc))
      \cup UNION {BallotContestErrors(bc, m.styles[b.ballotStyleId],
                                      ByKey(m.contests, "contestId", bc.contestId)) :
                    bc \in {d \in ToSet(b.contests) : styleKnown /\ known(d)}}

ValidManifest(m) == ManifestErrors(m) = {}
ValidBallot(m, b) == BallotErrors(m, b) = {}
=============================================================================
