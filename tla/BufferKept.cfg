SPECIFICATION FSpec
INVARIANT BuffersReleased
CONSTANTS
  NDIRECT = 1
  NINDIRECT = 2
  Sums = {0, 1, 130}
CHECK_DEADLOCK FALSE
