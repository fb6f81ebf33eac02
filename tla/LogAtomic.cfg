SPECIFICATION Spec
CONSTANTS
  Ops = {p1, p2}
  Blocks = {b1, b2, b3}
  Vals = {v0, v1}
  InitVal = v0
  LOGSIZE = 4
  MAXOPBLOCKS = 2
  NLOG = 4
  OpBlocks = 2
  WriteThrough = {}
  NoBlock = NoBlock
PROPERTY GroupCommitted
SYMMETRY LogSymmetry
