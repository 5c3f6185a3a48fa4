CONSTANTS
    NoHash = NoHash
    Callers = {"c1"}
    Policies = {"p1"}
    Archived = {"p1"}
    MaxEntries = 4
    MaxDamage = 1
    PageBound = 2
    ExportBound = 3
    ByteBound = 3
SPECIFICATION ReadsSpec
INVARIANTS
  
  
  ExportContinues
CHECK_DEADLOCK FALSE
