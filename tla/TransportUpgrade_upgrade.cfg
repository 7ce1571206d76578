SPECIFICATION FairUpgradeSpec
CONSTANTS
  Best = 1
  MaxAttempts = 2
  MaxDowngrades = 3
  MaxDrops = 1
  MaxDialFailures = 1
INVARIANT EndsAreOwned
PROPERTIES
  LeavesForProven
  
CHECK_DEADLOCK FALSE
