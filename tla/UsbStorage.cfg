SPECIFICATION Spec
CONSTANTS
  BLKMAX = 6
  TABLEMAX = 8
  RETRIES = 2
  FAULTS = 1
  MOVES = 3
CONSTRAINT Fresh
CHECK_DEADLOCK FALSE
INVARIANT TypeOK
INVARIANT Truthful
INVARIANT BlocksAccounted
PROPERTY AccessEnds
