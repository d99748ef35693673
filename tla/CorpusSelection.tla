--------------------------- MODULE CorpusSelection ---------------------------
(***************************************************************************)
(* Which sources a training corpus is made of (training/selection.py) and  *)
(* the order in which it keeps them (training/evidence_corpus.py).         *)
(*                                                                         *)
(* A prepared corpus is the sequence of its rows [group, family,           *)
(* partition, kind] in the order of their example ids, which are the       *)
(* indices here; group ids are numbers, in their order.  A policy is       *)
(* [fill, order, quota, floor, total]: families in order, examples and     *)
(* groups for each, and how a family's quota is filled, "prefix" or        *)
(* "groups".                                                               *)
(***************************************************************************)
EXTENDS Integers, Sequences, FiniteSets, SequencesExt

CONSTANT CandidateFamilies   \* TRAINING_CANDIDATE_FAMILIES

\* The validators of the two policies.  A quota of none is valid.
SelectionPolicyIsValid(p) ==
  /\ IsInjective(p.order)
  /\ Range(p.order) \subseteq CandidateFamilies
  /\ p.total >= 1
  /\ p.total = FoldSeq(LAMBDA f, sum : sum + p.quota[f], 0, p.order)
  /\ p.fill = "groups" => \A f \in Range(p.order) : p.floor[f] <= p.quota[f]

TrainSources(prepared) ==
  { i \in DOMAIN prepared : prepared[i].partition = "train"
                            /\ prepared[i].kind = "accepted_fault" }

OfFamily(prepared, f) == { i \in TrainSources(prepared) : prepared[i].family = f }

GroupsOf(prepared, ids) == { prepared[i].group : i \in ids }

\* Tuples compare as their first difference does.
Before(a, b) == a[1] < b[1] \/ (a[1] = b[1] /\ a[2] < b[2])

\* sorted(), with a key for each element: the n-th element is the one with n - 1
\* elements before it.  (SetToSortSeq has no definition that proofs can use.)
SortedBy(key) ==
  LET before(x) == { y \in DOMAIN key : Before(key[y], key[x]) }
  IN [n \in 1 .. Cardinality(DOMAIN key) |->
        CHOOSE x \in DOMAIN key : Cardinality(before(x)) = n - 1]

\* The sources of a family in the order in which its quota is filled: group after
\* group ...
FamilyPrefix(prepared, f) ==
  SortedBy([i \in OfFamily(prepared, f) |-> <<prepared[i].group, i>>])

\* Mutant: the groups are taken one after the other.
GroupPrefix(prepared, f) == FamilyPrefix(prepared, f)

\* ... or one of each group in turn, groups that have no more left out.
GroupRoundRobin(prepared, f) ==
  LET turn(i) == Cardinality({ j \in OfFamily(prepared, f) :
                                 prepared[j].group = prepared[i].group /\ j < i })
  IN SortedBy([i \in OfFamily(prepared, f) |-> <<turn(i), prepared[i].group>>])

Picked(prepared, p, f) ==
  SubSeq(IF p.fill = "prefix" THEN FamilyPrefix(prepared, f) ELSE GroupRoundRobin(prepared, f),
         1, p.quota[f])

\* The lists of the families, one of each in turn.
RoundRobin(order, lists) ==
  LET places == UNION { (DOMAIN lists[order[k]]) \X {k} : k \in DOMAIN order }
      inTurn == SortedBy([place \in places |-> place])
  IN [n \in DOMAIN inTurn |-> lists[order[inTurn[n][2]]][inTurn[n][1]]]

SelectedSources(prepared, p) ==
  RoundRobin(p.order, [f \in Range(p.order) |-> Picked(prepared, p, f)])

\* BalancedSelectionResult's validator: every declared family is there, as often as
\* declared, and the order is the interleave of its own families.
ResultIsValid(prepared, p, selected) ==
  LET of(f) == SelectSeq(selected, LAMBDA i : prepared[i].family = f)
  IN /\ selected # << >> /\ IsInjective(selected)
     /\ \A f \in Range(p.order) : Len(of(f)) = p.quota[f] /\ p.quota[f] > 0
     /\ selected = RoundRobin(p.order, [f \in Range(p.order) |-> of(f)])

\* select_family_balanced and select_group_balanced raise otherwise.
CanSelect(prepared, p) ==
  /\ \A i \in TrainSources(prepared) : prepared[i].family \in Range(p.order)
  /\ \A f \in Range(p.order) :
       /\ p.fill = "prefix" => OfFamily(prepared, f) # {}
       /\ Cardinality(OfFamily(prepared, f)) >= p.quota[f]
       /\ p.fill = "groups" =>
            Cardinality(GroupsOf(prepared, Range(Picked(prepared, p, f)))) >= p.floor[f]
  /\ ResultIsValid(prepared, p, SelectedSources(prepared, p))

\* build_evidence_observation_corpus takes accepted training sources only, each once.
CanBuildCorpus(prepared, selected) ==
  Range(selected) \subseteq TrainSources(prepared) /\ IsInjective(selected)

\* Mutant: the selection is not looked at, as when none is given.
CorpusOfAll(prepared, selected) ==
  SortedBy([i \in TrainSources(prepared) |-> <<i, 0>>])

\* The selected sources in the order of their ids: that of the selection is not kept.
EvidenceCorpus(prepared, selected) ==
  SortedBy([i \in Range(selected) |-> <<i, 0>>])
==============================================================================
