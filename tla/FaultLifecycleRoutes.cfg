\* What ADR-0009 says of recovery, against verify_recovery.
SPECIFICATION Spec
CONSTANTS
  Families <- RemoteAsOnly
  Consecutive = 2
  MaxPolls = 3
  MaxFlaps = 0
INVARIANT RecoveryNeedsRoutes
