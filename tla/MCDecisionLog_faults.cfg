SPECIFICATION LogSpec
CONSTANTS
  Refs = {d1, d2, d3}
  Faults = {"open", "recovery", "header", "size", "record", "directory"}
  MaxAppends = 5
  MaxCrashes = 2
INVARIANTS
  FileIsTheAuthority
PROPERTIES
  KeepsThePort
CHECK_DEADLOCK FALSE
