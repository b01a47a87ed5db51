SPECIFICATION Spec
CONSTANTS
  Callers = {c1, c2}
  Spawner = c1
  MaxCalls = 2
  MaxNotes = 0
  MaxAsks = 1
  PipeSize = 1
  Garbles = TRUE
INVARIANT NobodyStranded
CHECK_DEADLOCK FALSE
