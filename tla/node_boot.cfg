SPECIFICATION FairSpec
CONSTANTS
  MaxConfigs = 4
  MaxBoots = 3
INVARIANTS TypeOK DataOnDisk OldUntilTold
PROPERTIES RunsNewest ComesUp
CHECK_DEADLOCK FALSE
