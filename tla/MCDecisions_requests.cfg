SPECIFICATION Spec
CONSTANTS
  Asks = {a1, a2, a3}
  Acts = {p1}
  Questions = {q1}
  Holders = {h1}
  NoRef = NoRef
  WaitLength = 1
  ClaimTries = 2
  MaxTime = 1
  MaxRestarts = 1
CONSTRAINT SweptOnce
SYMMETRY Symmetry
INVARIANTS
  TypeOK
  
  AllowStandsOnAnAct
  
  OneOpenWait
  ClaimsAreBacked
PROPERTIES
  ActsStand
CHECK_DEADLOCK FALSE
