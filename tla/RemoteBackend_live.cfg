SPECIFICATION FairSpec
CONSTANTS
  Callers = {1, 2}
  Token = TRUE
  Refusals = TRUE
  MaxCalls = 2
  MaxConns = 1
  MaxResets = 1
  QueueSize = 1
PROPERTY CallReturns
CHECK_DEADLOCK FALSE
