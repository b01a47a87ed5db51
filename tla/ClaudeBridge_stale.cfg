SPECIFICATION Spec
CONSTANTS
  Callers = {c1, c2}
  Threads = {th0}
  Thread0 = th0
  MaxPrompts = 2
  MaxStops = 1
  MaxMessages = 2
  MaxRequests = 0
  QuietResults = FALSE
INVARIANT ResultBelongsToTurn
CHECK_DEADLOCK FALSE
