SPECIFICATION Spec
CONSTANTS
  Groups <- MCGroups
  Identity <- MCIdentity
  Hash <- MCHash
  BucketCount = 10
  Policy <- MCPolicy
  Incident <- MCIncident
  Runs <- MCRuns
  Library = {"a1", "b2", "r1", "u3"}
  NewRuns = {"e1", "e3", "n3"}
  Candidates <- MCCandidates
  CorpusVersions = {2}
  GroupTarget = 1
  RunsPerGroup = 1
  Retries = 1
  MinGroups = 1
  MinExamples = 1
  MaxFaults = 1
  MaxCorpora = 1
INVARIANTS
  SplitsAreStable
  EvaluationIsHeldOut
  ReadersGetWholeExports
  GroupsStayTogether
  ExpansionIsFresh
CHECK_DEADLOCK FALSE
