SPECIFICATION Spec
CONSTANTS
  Asks = {a1, a2}
  PrincipalOf <- OneAccount
  Versions = {v1, v2}
  Unavailable = Unavailable
  Stop = Stop
  Nobody = Nobody
  MaxConnections = 2
  Limits = {1,2}
  ReloadSeconds = 1
  Lifetime = 1
  Heartbeat = 1
  Horizon = 1
  MaxIncidents = 2
CONSTRAINT OneAtTheLimit
SYMMETRY Symmetry
INVARIANTS
  StopLeavesNoGrant
  OldVersionsAreAnnounced
  EndedOnce
  SlotsAccounted
CHECK_DEADLOCK FALSE
