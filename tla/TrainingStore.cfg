\* One writer, one producer, two cut-offs, one retry.
SPECIFICATION Spec
CONSTANTS
  Plan <- ThreeSteps
  Policy <- OneRetry
  Workers = {w1}
  Producers = {p1}
  MaxCuts = 2
INVARIANTS
  UnverifiedIsNotReadable
  WrittenOutcomeStands
  CandidatesAreCompleted
