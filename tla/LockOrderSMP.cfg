SPECIFICATION LockSpec
CONSTANTS
  Tasks = 2
  Processors = {0, 1}
INVARIANT NoDeadlock
