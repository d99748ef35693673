\* Two executions with one id: the store keeps one, the other is resumed.
SPECIFICATION Spec
CONSTANTS
  Plan <- ThreeSteps
  Policy <- OneRetry
  Workers = {w1}
  Producers = {p1}
  MaxCuts = 0
INVARIANTS
  ResumeBindingHolds
