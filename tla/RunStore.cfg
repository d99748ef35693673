\* One producer at a time, as the documents want, or two that overlap.
SPECIFICATION FairSpec
CONSTANTS
  RunIds = {r1, r2}
  Writers = {w1, w2}
  Readers = {p1}
  Artifacts = {layout, incident}
  MaxAborts = 2
  None = None
INVARIANTS
  MarkerIsHonest
  LostEntryIsDetected
  ReturnedStaysIndexed
PROPERTIES
  StoreOnlyGrows
  OrphanBlocksRoot
  SoundRunIsReturned
  ImplementsRegistry
CHECK_DEADLOCK FALSE
