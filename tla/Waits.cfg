SPECIFICATION SumSpec
CONSTANTS
  NPROC = 4
  NCPU = 2
  TickMod = 1
  Tasks = 4
  Processors = {0}
INVARIANTS
  BoundedOvertaking
  SchedHoldsOne
  NoSelfWait
  PipeSound
PROPERTIES
  HighRuns
  CallsEnd
  RequestsServed
CHECK_DEADLOCK FALSE
