SPECIFICATION TSpec
CONSTANTS
  Absent = Absent
  Corpora <- MCCorpora
  BytesPerParameter = 8
  Plans <- MCPlans
  Machines <- MCMachines
  Models <- MCModels
  Tokenizer <- MCTokenizer
  Allowed = {"deterministic"}
  Limits <- MCLimits
  ModelPolicies <- MCModelPolicies
  Losses = {"l1", "l2"}
  EngineErrors = {"recorded", "escapes"}
  MaxFaults = 1
  MaxRuns = 2
  MaxAuthorizations = 1
INVARIANT PublicationNeedsCompletion
CHECK_DEADLOCK FALSE
