\* Every family and the rejected path; a sample may fail or flap.
SPECIFICATION Spec
CONSTANTS
  Families <- AllFamilies
  Consecutive = 2
  MaxPolls = 3
  MaxFlaps = 1
INVARIANTS
  TypeOK
  LedgerIsLegal
  FaultIsLogged
  InjectedIsReverted
  AcceptedIsRestored
  AcceptedTranscript
  OnsetEvidenceShowsFault
  ReturnedMeansTornDown
PROPERTIES
  Terminates
  KeepsContract
