SPECIFICATION Spec
CONSTANTS
  Callers = {c1, c2}
  Threads = {th0, th1}
  Thread0 = th0
  MaxPrompts = 3
  MaxStops = 1
  MaxMessages = 2
  MaxRequests = 0
  QuietResults = TRUE
INVARIANTS NoSecondCompletion CompletedOnItsThread
PROPERTY KeepsTurnLedger
CHECK_DEADLOCK FALSE
