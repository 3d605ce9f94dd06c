CONSTANTS
  MaxPushes = 1
  MaxReruns = 2
  MaxFailures = 1
SPECIFICATION FairSpec
PROPERTIES
  EveryReleasePublished
CHECK_DEADLOCK FALSE
