SPECIFICATION Spec
CONSTANTS
  Callers = {1, 2}
  Token = FALSE
  Refusals = FALSE
  MaxCalls = 2
  MaxConns = 2
  MaxResets = 0
  QueueSize = 1
INVARIANTS TypeOK OwnReplyOnly AtMostOnce NoWaiterForgotten NothingLeftBehind
PROPERTY NeverReplaced
CHECK_DEADLOCK FALSE
