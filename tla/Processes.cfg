SPECIFICATION SumSpec
CONSTANTS
  NPROC = 4
  NCPU = 2
  MaxPid = 3
  KillPids <- AnyPidButInit
  OutOfMemory = TRUE
  Blocking = TRUE
INVARIANTS
  ParentAlive
  NoMissedExit
  MemoryOwned
PROPERTIES
  InitReaps
  VictimsDie
