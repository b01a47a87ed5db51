SPECIFICATION Spec
CONSTANTS
  Callers = {c1, c2}
  Threads = {th0}
  Thread0 = th0
  MaxPrompts = 1
  MaxStops = 1
  MaxMessages = 2
  MaxRequests = 0
  QuietResults = FALSE
INVARIANT NoDoomedTurn
CHECK_DEADLOCK FALSE
