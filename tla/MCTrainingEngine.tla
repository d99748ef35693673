-------------------------- MODULE MCTrainingEngine --------------------------
(* SelectedTraining for TLC: the sources, plans and policies considered.   *)
EXTENDS SelectedTraining

\* Every plan of up to four examples and six optimizer steps: windows that
\* divide an epoch and that do not, a window longer than an epoch, a short last
\* batch, a step budget that ends inside an epoch or on its end.
SmallPlans ==
  {p \in {EpochPlan(x, b, g, n) : x \in 1..4, b \in 1..2, g \in 1..3, n \in 1..2}
         \cup {StepPlan(x, b, g, s) : x \in 1..4, b \in 1..2, g \in 1..3, s \in 1..5} :
     p.steps <= 6}

AllPolicies ==
  {[maxRetries |-> 0, allowResume |-> FALSE],
   [maxRetries |-> 0, allowResume |-> TRUE],
   [maxRetries |-> 3, allowResume |-> TRUE]}

MCFamilies == {"remote_as", "shutdown"}

\* Groups 1 to 3 are of one family, 4 of the other; a row of another partition and
\* one that is no accepted fault come first.
Row(group, partition, kind) ==
  [group |-> group, family |-> IF group = 4 THEN "shutdown" ELSE "remote_as",
   partition |-> partition, kind |-> kind]
Prepared(groups) ==
  <<Row(1, "test", "accepted_fault"), Row(4, "train", "abstention")>>
    \o [i \in DOMAIN groups |-> Row(groups[i], "train", "accepted_fault")]
MCSources ==
  { Prepared(g) : g \in {<<1>>, <<1, 4>>, <<4, 1, 1>>, <<2, 1, 1, 4>>, <<1, 1, 2, 4, 1>>,
                         <<1, 1, 1, 4, 2>>, <<4, 1, 4, 2>>, <<3, 2, 1, 1, 4>>} }

SelectionPolicy(fill, order, remoteAs, shutdown, floor) ==
  [fill |-> fill, order |-> order, total |-> remoteAs + shutdown,
   quota |-> [remote_as |-> remoteAs, shutdown |-> shutdown],
   floor |-> [remote_as |-> floor, shutdown |-> 0]]
MCSelectionPolicies ==
  {SelectionPolicy(fill, order, q, 1, floor) :
     fill \in {"prefix", "groups"}, order \in {<<"shutdown", "remote_as">>},
     q \in 1 .. 3, floor \in {1, 2}}
  \cup {SelectionPolicy("prefix", <<"remote_as">>, 1, 0, 0),
        SelectionPolicy("prefix", <<"remote_as", "shutdown">>, 2, 2, 0)}
=============================================================================
