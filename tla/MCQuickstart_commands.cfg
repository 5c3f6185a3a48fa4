CONSTANTS
    MaxLives = 3
    Pids = {1, 2}
    Commands = {"k1", "k2"}
SPECIFICATION QuickSpec
INVARIANTS
  DaemonStaysManaged
PROPERTIES
  OnlyOurChild
  CommandsEnd
CHECK_DEADLOCK FALSE
