SPECIFICATION XSpec
CONSTANTS
  Absent = Absent
  Corpus <- MCCorpus
  Families = {"f1", "f2"}
  Normalize <- MCNormalize
  Specs <- MCSpecs
  Configs = {"matched", "other"}
  BaseModel = "m1"
  Contents = {"m1", "m2"}
  Checkpoint = "c1"
  Answers <- MCAnswers
  Failures = {"inference_timeout"}
  Order <- MCOrder
  InterpretationPolicy <- MCInterpretationPolicy
  MaxFaults = 1
  MaxAttempts = 2
INVARIANTS
  PredictionsAreOfTheNamedModel
  OutcomeFollowsEvidence
PROPERTIES
  FinalizedStands
CHECK_DEADLOCK FALSE
