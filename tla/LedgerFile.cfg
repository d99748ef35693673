\* Ledger files that callers leave alone after a cut-off write, or write on.
SPECIFICATION Spec
CONSTANTS
  MaxRecords = 9
  MaxFailures = 2
INVARIANTS
  CrashKeepsLedgerReadable
  AcknowledgedIsReadable
  ReadIsLegal
CHECK_DEADLOCK FALSE
