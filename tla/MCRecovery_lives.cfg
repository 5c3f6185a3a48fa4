SPECIFICATION Spec
CONSTANTS
  GapBound = 1
  MaxDecisions = 2
  MaxLives = 3
  MaxFaults = 2
INVARIANTS
  LossesAreDeclared
  EvidenceLiesInItsEpoch
CHECK_DEADLOCK FALSE
