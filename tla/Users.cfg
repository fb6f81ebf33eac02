SPECIFICATION SumSpec
CONSTANTS
  NPROC = 5
  NOFILE = 5
  NFILE = 6
  NINODES = 13
  NINODE = 6
  NBLOCKS = 20
  NDIRECT = 4
  DPB = 4
  NPIPE = 1
  MAXFILE = 6
  CHUNK = 2
  PIPESIZE = 2
  MEMORY = 13
  N = 2
  Children = 2
  MAXARGS = 4
  MaxLine = 5
  Tokens = {"a", "b", "<", ">", "|", "&", ";", "(", ")"}
  INPUT_BUF = 3
  Wrap = 6
  Readers = {1, 2}
  MaxRead = 2
  COLS = 2
  ROWS = 3
  NALLOC = 3
  MaxUnits = 8
  MaxRequest = 4
INVARIANTS
  TestsPass
  NoneStuck
  Consistent
  PanicOnlyOrphaned
  ShellMeaning
  ParseFaithful
  HeapSound
  FlatImagesPass
  PassedImagesSound
  ConsoleSound
  FlagsFollowKeys
  StringsSound
PROPERTY IsTerminal
CHECK_DEADLOCK FALSE
