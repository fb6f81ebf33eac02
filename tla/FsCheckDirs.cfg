SPECIFICATION Spec
INVARIANT ValidImagesPass
CONSTANTS
  NDIRECT = 1
  NINDIRECT = 2
  DPB = 4
  BMAP = 1
  SIZE = 7
  NINODES = 4
  MaxDamage = 2
CHECK_DEADLOCK FALSE
