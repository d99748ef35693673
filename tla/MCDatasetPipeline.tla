--------------------------- MODULE MCDatasetPipeline ---------------------------
(* DatasetPipeline for TLC: three groups, of which one is held out, and the   *)
(* runs of DatasetPipeline.cfg.                                              *)
EXTENDS DatasetPipeline

Node(g) == [template |-> "t-" \o g, scenario |-> "s-" \o g, node |-> g,
            parameter |-> "p", topology |-> "line"]

MCGroups == {"g1", "g2", "g3"}
MCIdentity == [g \in MCGroups |-> Node(g)]
MCHash == [salt1 |-> [g1 |-> 5, g2 |-> 9, g3 |-> 0]]
MCPolicy == [salt |-> "salt1", train |-> 6, validation |-> 2, test |-> 2]

AcceptedRun(g) == Node(g) @@
  [status |-> "accepted", groundTruth |-> TRUE, fault |-> TRUE, restoration |-> TRUE,
   mutated |-> TRUE, evidence |-> {"baseline", "onset", "recovery"}, failedPhase |-> "none"]
RejectedRun(g, phase) == Node(g) @@
  [status |-> "rejected", groundTruth |-> FALSE, fault |-> FALSE, restoration |-> FALSE,
   mutated |-> FALSE, evidence |-> {"baseline"}, failedPhase |-> phase]

MCIncident ==
  [a1 |-> AcceptedRun("g1"), b2 |-> AcceptedRun("g2"),
   r1 |-> RejectedRun("g1", "precondition"), u3 |-> RejectedRun("g3", "onset"),
   e1 |-> AcceptedRun("g1"), e3 |-> AcceptedRun("g3"),
   n3 |-> RejectedRun("g3", "precondition")]
MCRuns == DOMAIN MCIncident
MCCandidates == <<"g2", "g1", "g3">>
================================================================================
