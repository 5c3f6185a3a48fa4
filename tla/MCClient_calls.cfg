SPECIFICATION Spec
CONSTANTS
  Daemon = Daemon
  Other = Other
  NoOne = NoOne
  MaxRequests = 2
  MaxOpens = 2
  MaxMoves = 2
INVARIANTS
  
  AnswersAreTheirRequests
  ImpostorGetsNothing
CHECK_DEADLOCK FALSE
