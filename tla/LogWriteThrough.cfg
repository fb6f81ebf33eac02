SPECIFICATION Spec
CONSTANTS
  Ops = {p1, p2}
  Blocks = {b1, b2}
  Vals = {v0, v1}
  InitVal = v0
  LOGSIZE = 4
  MAXOPBLOCKS = 2
  NLOG = 4
  OpBlocks = 2
  WriteThrough = {b1}
  NoBlock = NoBlock
PROPERTY GroupCommitted
