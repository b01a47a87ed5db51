SPECIFICATION FairSpec
CONSTANTS
  Callers = {c1, c2}
  Spawner = c1
  MaxCalls = 3
  MaxNotes = 1
  MaxAsks = 1
  PipeSize = 1
  Garbles = TRUE
INVARIANTS TypeOK OwnAnswerOnly StrandedOnlyByGarble NothingLeftBehind
PROPERTY DeadProcessFailsCalls
CHECK_DEADLOCK FALSE
