SPECIFICATION FairSpec
CONSTANTS
  Ops = {p1, p2, p3}
  Blocks = {b1, b2, b3, b4, b5}
  Vals = {v0}
  InitVal = v0
  LOGSIZE = 4
  MAXOPBLOCKS = 2
  NLOG = 4
  OpBlocks = 1
  WriteThrough = {b1}
  NoBlock = NoBlock
INVARIANTS CommitAlone LogFits NoPanic NoLostWakeup
PROPERTY SleepersWake
