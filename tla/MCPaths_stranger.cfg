CONSTANTS
    TopShapes <- SomeTops
    DirShapes <- SomeDirs
    FileShapes <- SomeFiles
    Layouts = {"direct", "linked", "dotdot", "loop"}
    MaxLinks = 1
SPECIFICATION PathsSpec
INVARIANTS
  ProtectedNamesStay
  NonWritersCannot
CHECK_DEADLOCK FALSE
