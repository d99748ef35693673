------------------------- MODULE MCControlledExperiment -------------------------
(* ControlledExperiment for TLC: two test examples and one to abstain on.       *)
EXTENDS ControlledExperiment, TLC

MCCorpus ==
  {[id |-> "t1", partition |-> "test", kind |-> "accepted_fault", family |-> "f1", onset |-> TRUE],
   [id |-> "t2", partition |-> "test", kind |-> "accepted_fault", family |-> "f2", onset |-> TRUE],
   [id |-> "n1", partition |-> "abstention", kind |-> "abstention", family |-> Absent,
    onset |-> FALSE]}

\* " F1" is f1, written in another way; f9 is no candidate.
MCNormalize == ("f1" :> "f1") @@ (" F1" :> "f1") @@ ("f2" :> "f2") @@ ("f9" :> "f9")

Object(type, family) ==
  [json |-> TRUE, object |-> TRUE, type |-> type, family |-> family, looks |-> "malformed_other"]
Malformed(looks) ==
  [json |-> FALSE, object |-> FALSE, type |-> "none", family |-> Absent, looks |-> looks]

MCAnswers ==
  ("t1" :> {Object("diagnosis", " F1"), Object("diagnosis", "f2")})
  @@ ("t2" :> {Object("diagnosis", "f2"), Malformed("truncated_json")})
  @@ ("n1" :> {Object("abstention", Absent), Object("diagnosis", "f9")})

MCSpecs == {[plan |-> "p", minimum |-> 2], [plan |-> "p", minimum |-> 3]}
MCOrder == ("base" :> 1) @@ ("trained" :> 2) @@ ("fixed" :> 3) @@ ("rule" :> 4)
MCInterpretationPolicy == [tests |-> 2, changed |-> 1]
================================================================================
