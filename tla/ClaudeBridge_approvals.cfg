SPECIFICATION Spec
CONSTANTS
  Callers = {c1, c2}
  Threads = {th0}
  Thread0 = th0
  MaxPrompts = 2
  MaxStops = 1
  MaxMessages = 1
  MaxRequests = 2
  QuietResults = TRUE
INVARIANTS TypeOK OneAnswerPerRequest WaitedRequestNotLost AnswerReachesAsker
PROPERTY KeepsApprovalLedger
CHECK_DEADLOCK FALSE
