------------------------------ MODULE Manifest ------------------------------
(***************************************************************************)
(* The data every encryptor works on: the election manifest with its       *)
(* contests and selections, and the plaintext ballots.                     *)
(*                                                                         *)
(*   manifest  [contests: Seq(contest), styles: style id -> set of units,  *)
(*              units, candidates: set]                                    *)
(*   contest   [contestId, sequenceOrder, geopoliticalUnitId,              *)
(*              voteVariation, numberElected, votesAllowed,                *)
(*              selections: Seq([selectionId, sequenceOrder,               *)
(*                               candidateId])]                            *)
(*   ballot    [ballotId, ballotStyleId, contests: Seq([contestId,         *)
(*              sequenceOrder, selections: Seq([selectionId,               *)
(*              sequenceOrder, vote, extendedData])])]                     *)
(*                                                                         *)
(* extendedData is the text of a write-in or null: a set of one text or of *)
(* none.  Of a text [name, numBytes] only the number of its bytes counts.  *)
(*                                                                         *)
(* A hash is modelled as the tuple of what is hashed, so different inputs  *)
(* have different hashes.  Names, texts, parties and dates are left out.   *)
(***************************************************************************)
EXTENDS Integers, Sequences, SequencesExt, FiniteSetsExt, Functions, TLC

(***************************************************************************)
(* list.associateBy(key)[k]: the last element with that key wins.          *)
(***************************************************************************)
HasKey(list, field, k) == \E i \in DOMAIN list : list[i][field] = k

ByKey(list, field, k) ==
  list[SelectLastInSeq(list, LAMBDA e : e[field] = k)]

(***************************************************************************)
(* list.sortedBy { it.sequenceOrder }, of the elements at the positions I. *)
(* The order is stable: of equal sequence orders the first comes first.    *)
(***************************************************************************)
Precedes(list, i, j) ==
  \/ list[i].sequenceOrder < list[j].sequenceOrder
  \/ list[i].sequenceOrder = list[j].sequenceOrder /\ i < j

Place(list, I, i) == Cardinality({j \in I : Precedes(list, j, i)}) + 1

InOrder(list, I) ==
  [n \in 1 .. Cardinality(I) |-> list[CHOOSE i \in I : Place(list, I, i) = n]]

\* The list is bound to l, so that TLC evaluates it once.
SortedByOrder(list) == CHOOSE sorted \in {InOrder(l, DOMAIN l) : l \in {list}} : TRUE

SumOver(list, value(_)) == SumFunction([i \in DOMAIN list |-> value(list[i])])

(***************************************************************************)
(* What the types of the classes say of a manifest and of a ballot.        *)
(***************************************************************************)
IsContest(c) ==
  /\ c.sequenceOrder \in Int /\ c.votesAllowed \in Int
  /\ c.selections \in Seq(ToSet(c.selections))
  /\ \A s \in ToSet(c.selections) : s.sequenceOrder \in Int

IsManifest(m) ==
  /\ m.contests \in Seq(ToSet(m.contests))
  /\ \A c \in ToSet(m.contests) : IsContest(c)

IsPlaintextBallot(b) ==
  /\ b.contests \in Seq(ToSet(b.contests))
  /\ \A c \in ToSet(b.contests) :
       /\ c.selections \in Seq(ToSet(c.selections))
       /\ \A s \in ToSet(c.selections) :
            s.vote \in Int /\ \A t, u \in s.extendedData : t = u

-----------------------------------------------------------------------------
(***************************************************************************)
(* Crypto hashes of the manifest and its parts.  The candidates are not    *)
(* part of the manifest's hash.                                            *)
(***************************************************************************)
SelectionHash(s) == <<s.selectionId, s.sequenceOrder, s.candidateId>>

ContestHash(c) ==
  <<c.contestId, c.sequenceOrder, c.geopoliticalUnitId, c.voteVariation,
    c.numberElected, c.votesAllowed,
    [i \in DOMAIN c.selections |-> SelectionHash(c.selections[i])]>>

ManifestHash(m) ==
  <<m.units, [i \in DOMAIN m.contests |-> ContestHash(m.contests[i])], m.styles>>

(***************************************************************************)
(* styleToContestsMap: the contests of the style's geopolitical units.     *)
(***************************************************************************)
StyleContests(m, style) ==
  InOrder(m.contests,
          {i \in DOMAIN m.contests : m.contests[i].geopoliticalUnitId \in m.styles[style]})
=============================================================================
