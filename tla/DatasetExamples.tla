---------------------------- MODULE DatasetExamples ----------------------------
(***************************************************************************)
(* What the dataset engine computes from verified runs, without a file:    *)
(* projection of a run into an example, the split of examples into         *)
(* partitions, the leakage audit, and the separation of features, labels   *)
(* and trace (src/verifiednet/datasets/).  An id that is a digest is its   *)
(* content: a group is named by the stable identity it hashes.             *)
(***************************************************************************)
EXTENDS Integers, Sequences, FiniteSets

CONSTANTS
  Runs,         \* run ids
  Incident,     \* what the incident of a run says
  Groups,       \* group ids
  Identity,     \* the stable identity each group id is the digest of
  Hash,         \* per salt, the bucket of each group
  BucketCount   \* 10 000 in the code

ASSUME IdentityIsInjective ==
  \A g, h \in Groups : Identity[g] = Identity[h] => g = h
ASSUME HashIsBucketed ==
  /\ BucketCount \in Nat
  /\ \A s \in DOMAIN Hash : Hash[s] \in [Groups -> 0 .. BucketCount - 1]

SplitPartitions == {"train", "validation", "test"}
Partitions == SplitPartitions \cup {"abstention"}

(***************************************************************************)
(* Projection                                                              *)
(***************************************************************************)
StableIdentity(i) ==
  [template |-> i.template, scenario |-> i.scenario, node |-> i.node,
   parameter |-> i.parameter, topology |-> i.topology]

GroupIdForIdentity(identity) == CHOOSE g \in Groups : Identity[g] = identity

ProjectsAsAccepted(i) ==
  /\ i.status = "accepted"
  /\ i.groundTruth /\ i.fault
  /\ {"onset", "recovery"} \subseteq i.evidence

\* Only a run that failed its precondition becomes an abstention.
ProjectsAsRejected(i) ==
  /\ i.status = "rejected"
  /\ ~i.groundTruth /\ ~i.fault /\ ~i.restoration /\ ~i.mutated
  /\ "baseline" \in i.evidence
  /\ {"onset", "recovery"} \cap i.evidence = {}
  /\ i.failedPhase = "precondition"

Projects(r) == ProjectsAsAccepted(Incident[r]) \/ ProjectsAsRejected(Incident[r])

\* "refs" are the references an example keeps to artifacts of its run.
Project(r) ==
  LET i == Incident[r]
      accepted == i.status = "accepted"
  IN [run      |-> r,
      group    |-> GroupIdForIdentity(StableIdentity(i)),
      identity |-> StableIdentity(i),
      kind     |-> IF accepted THEN "accepted_fault" ELSE "abstention",
      refs     |-> IF accepted
                   THEN {"baseline", "onset", "recovery", "ground_truth"}
                   ELSE {"baseline"}]

ExampleIsConsistent(x) ==
  IF x.kind = "accepted_fault"
  THEN "ground_truth" \in x.refs
  ELSE {"ground_truth", "onset", "recovery"} \cap x.refs = {}

(***************************************************************************)
(* Splitting.  A policy divides the buckets; an abstention goes past them. *)
(***************************************************************************)
PolicyIsValid(p) ==
  /\ p.train + p.validation + p.test = BucketCount
  /\ p.train > 0 /\ p.validation > 0 /\ p.test > 0

BucketForGroup(g, p) == Hash[p.salt][g]

AssignGroupSplit(g, p) ==
  CASE BucketForGroup(g, p) < p.train -> "train"
    [] BucketForGroup(g, p) \in p.train .. (p.train + p.validation - 1) -> "validation"
    [] OTHER -> "test"

AssignExampleSplit(x, p) ==
  IF x.kind = "abstention"
  THEN [example |-> x, partition |-> "abstention", policy |-> "abstention-v1"]
  ELSE [example |-> x, partition |-> AssignGroupSplit(x.group, p), policy |-> p.salt]

AssignmentIsConsistent(a) ==
  (a.example.kind = "abstention") <=> (a.partition = "abstention")

\* No group in two partitions: otherwise the whole batch is refused.
GroupsAreCohesive(assigned) ==
  \A a, b \in assigned :
    a.example.group = b.example.group => a.partition = b.partition

\* Mutant: the split follows the batch.
AssignSplitsBalanced(examples, p) ==
  LET groups == { x.group : x \in { x \in examples : x.kind # "abstention" } }
  IN { IF x.kind # "abstention" /\ Cardinality(groups) = 1
       THEN [AssignExampleSplit(x, p) EXCEPT !.partition = "validation"]
       ELSE AssignExampleSplit(x, p) : x \in examples }

AssignSplits(examples, p) == { AssignExampleSplit(x, p) : x \in examples }

(***************************************************************************)
(* The leakage audit.  Its input is a sequence: a caller may pass an       *)
(* example twice.                                                          *)
(***************************************************************************)
CheckGroupCohesion(s) ==
  { s[k].example.group : k \in { k \in DOMAIN s :
      \E m \in DOMAIN s : /\ s[m].example.group = s[k].example.group
                          /\ s[m].partition # s[k].partition } }

CheckDuplicates(s) ==
  { s[k].example.run : k \in { k \in DOMAIN s :
      \E m \in DOMAIN s \ {k} : s[m].example.run = s[k].example.run } }

CheckIdentityIntegrity(s) ==
  { s[k].example.run : k \in { k \in DOMAIN s :
      s[k].example.group # GroupIdForIdentity(s[k].example.identity) } }

CheckAssignmentKind(s) ==
  { s[k].example.run : k \in { k \in DOMAIN s :
      IF s[k].example.kind = "abstention"
      THEN s[k].partition # "abstention"
      ELSE s[k].partition \notin SplitPartitions } }

\* Groups that differ in orientation only, or in the parameter only: reported,
\* never an error.
CheckSiblings(s) ==
  LET ids == { s[k].example.identity : k \in DOMAIN s }
  IN { pair \in ids \X ids :
         /\ pair[1] # pair[2]
         /\ \/ [pair[1] EXCEPT !.node = pair[2].node] = pair[2]
            \/ [pair[1] EXCEPT !.parameter = pair[2].parameter] = pair[2] }

AuditLeakage(s) ==
  [errors |-> CheckGroupCohesion(s) \cup CheckDuplicates(s)
              \cup CheckIdentityIntegrity(s) \cup CheckAssignmentKind(s),
   warnings |-> CheckSiblings(s)]

(***************************************************************************)
(* Separation: features a model may see, labels a scorer compares with,    *)
(* trace for bookkeeping.                                                  *)
(***************************************************************************)
Features(x) ==
  [topology |-> x.identity.topology, evidence |-> x.refs \cap {"baseline", "onset"}]

AcceptedLabels(x) ==
  [kind |-> "accepted_fault", family |-> x.identity.template,
   values |-> {x.identity.template, x.identity.scenario, "ground_truth", "recovery"}]

AbstentionLabels(x) ==
  [kind |-> "abstention", family |-> "abstain", values |-> {"abstain", "precondition"}]

\* Values of labels and trace that may occur nowhere in the features.
SensitiveValues(e) == e.labels.values \cup {e.trace.run, e.trace.group, e.trace.partition}

AuditSeparatedExample(e) ==
  ({e.features.topology} \cup e.features.evidence) \cap SensitiveValues(e) = {}

SeparateExample(a, version, pin) ==
  LET x == a.example
  IN [features |-> Features(x),
      labels   |-> IF x.kind = "accepted_fault" THEN AcceptedLabels(x)
                                                ELSE AbstentionLabels(x),
      trace    |-> [run |-> x.run, group |-> x.group, kind |-> x.kind,
                    partition |-> a.partition, policy |-> a.policy,
                    version |-> version, pin |-> pin]]

SeparatedIsConsistent(e) ==
  IF e.trace.kind = "accepted_fault"
  THEN /\ e.labels.kind = "accepted_fault"
       /\ e.trace.partition \in SplitPartitions
       /\ "onset" \in e.features.evidence
  ELSE /\ e.labels.kind = "abstention"
       /\ e.trace.partition = "abstention"
       /\ "onset" \notin e.features.evidence

SeparateDataset(assigned, version, pin) ==
  { SeparateExample(a, version, pin) : a \in assigned }

SeparatedPasses(separated) ==
  \A e \in separated : SeparatedIsConsistent(e) /\ AuditSeparatedExample(e)
================================================================================
