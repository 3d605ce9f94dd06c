CONSTANTS
  MaxPushes = 3
  MaxReruns = 1
  MaxFailures = 1
SPECIFICATION FairSpec
INVARIANTS
  TypeOK
  EvidenceIsPublication
PROPERTIES
  ImplementsPublication
  PublishedUnlessFailed
  MaintainedUnlessFailed
CHECK_DEADLOCK FALSE
