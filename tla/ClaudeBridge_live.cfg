SPECIFICATION FairSpec
CONSTANTS
  Callers = {c1, c2}
  Threads = {th0}
  Thread0 = th0
  MaxPrompts = 2
  MaxStops = 1
  MaxMessages = 1
  MaxRequests = 1
  QuietResults = FALSE
PROPERTIES TurnAnswered RequestSettled
CHECK_DEADLOCK FALSE
