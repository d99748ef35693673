---------------------------- MODULE MCTrainingStore ----------------------------
(* TrainingStore for TLC: the plan and the policy of the .cfg files.       *)
EXTENDS TrainingStore

Counts == INSTANCE TrainingProgress

\* Three steps of two and one batches in turn, ending inside the second epoch.
ThreeSteps == Counts!StepPlan(3, 1, 2, 3)

OneRetry == [maxRetries |-> 1, allowResume |-> TRUE]
================================================================================
