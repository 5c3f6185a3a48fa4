CONSTANTS
    Absent = Absent
    Malformed = Malformed
    MaxLifetime = 1
    MaxDeadline = 2
    f1 = f1
    f2 = f2
    strict = strict
    pinned = pinned
    cut = cut
    t1 = t1
    t2 = t2
    Files = {f1, f2}
    Contents = {strict, pinned, cut}
    Document <- SomeDocument
    TooLarge = {}
    Unprotected = {f2}
    Questions <- SomeQuestions
    Threads = {t1, t2}
    Incidents = {"write", "sync", "projection", "kill", "power"}
    MaxEdits = 2
    MaxCalls = 2
    MaxIncidents = 2
SYMMETRY Interchangeable
SPECIFICATION PolicySpec
INVARIANTS
  ReadsFollowTheAuthority
  
  RecordsExplainThemselves
CHECK_DEADLOCK FALSE
