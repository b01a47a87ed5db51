SPECIFICATION Spec
CONSTANTS
  Messages = {m1, m2}
  SteerEnabled = TRUE
  NoTurn = NoTurn
  Unset = Unset
  NoMessage = NoMessage
  MaxTurns = 2
  Scenes <- MCScenes
INVARIANTS TypeOK IdleAtRest TakenOnce
PROPERTIES StopsItsOwnTurn CalmQueueDrains
CHECK_DEADLOCK FALSE
