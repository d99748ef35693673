\* Every script on every small plan of a selected corpus, up to three retries.
SPECIFICATION SelectedSpec
CONSTANTS
  Plans <- SmallPlans
  Policies <- AllPolicies
  CandidateFamilies <- MCFamilies
  Sources <- MCSources
  SelectionPolicies <- MCSelectionPolicies
  Batches = {1, 2}
  Windows = {1, 2, 3}
  Epochs = {1, 2}
  StepBudgets = {1, 2, 3, 4, 5}
INVARIANTS
  EngineOutputsAreValid
  LogsAreContinuous
  ChainIsUninterrupted
  CompletedChainTrainsTheSelection
  GroupsAreSpread
