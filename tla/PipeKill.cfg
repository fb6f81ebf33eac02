SPECIFICATION PipeSpec
CONSTANTS
  Procs = {1, 2}
  PIPESIZE = 2
  Wrap = 4
  Calls = {1}
PROPERTY KilledCallsEnd
CHECK_DEADLOCK FALSE
