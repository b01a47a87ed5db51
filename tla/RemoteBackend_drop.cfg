SPECIFICATION Spec
CONSTANTS
  Callers = {1, 2}
  Token = FALSE
  Refusals = FALSE
  MaxCalls = 2
  MaxConns = 2
  MaxResets = 0
  QueueSize = 1
PROPERTY OnlyDisconnectInvalidates
CHECK_DEADLOCK FALSE
