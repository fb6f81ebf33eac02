SPECIFICATION ISpec
INVARIANT FreedWithLast
CONSTANTS
  Callers = {1, 2}
  Names = {"a", "b"}
  NINODES = 2
  NINODE = 2
  NBLOCKS = 3
  NDIRECT = 1
  NINDIRECT = 1
CHECK_DEADLOCK FALSE
