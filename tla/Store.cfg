SPECIFICATION SumSpec
CONSTANTS
  NPROC = 2
  NCPU = 2
  TickMod = 2
  Table = {1, 2, 3}
  NSHAREPAGE = 2
  SMP = FALSE
  MaxDrift = 1
  Procs = {1, 2, 3}
  PIPESIZE = 1
  Wrap = 2
  Calls = {2}
  Clients = {1, 2}
  NBUF = 3
  Sectors = {1, 2, 3, 4}
  Pinned = 1
  Values = 2
  Reads = 4
  Tasks = {1, 2, 3}
  NFRAMES = 15
  PGSIZE = 2
  PTSPAN = 2
  KTABS = 1
  KERNBASE = 8
  Segments = 2
  Callers = {1, 2}
  Names = {"a", "b"}
  NINODES = 2
  NINODE = 2
  NBLOCKS = 3
  NDIRECT = 1
  NINDIRECT = 2
  Sums = {0, 1, 130}
INVARIANTS
  PagesKept
  SharesCounted
  VMSound
  TicksConserved
  TicksByPriority
  InodesSound
  VerdictRight
  CacheSound
  PipeSound
CHECK_DEADLOCK FALSE
