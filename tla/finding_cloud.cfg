SPECIFICATION CloudSpec
CONSTANTS
  Deploys = {1,2,3}
  MaxUnits = 3
  MaxDoubts = 1
INVARIANTS ActiveIsServedByCloud
CHECK_DEADLOCK FALSE
