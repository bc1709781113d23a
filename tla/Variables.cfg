SPECIFICATION Spec
CONSTANTS
    Functions = {"main", "f"}
    Blocks = {"body", "inner"}
    Locals <- Vars
    Called <- Calls
    Kept = {"p", "inner p"}
    Kids <- Tree
    Pointer <- Pointers
    Array <- Arrays
    Index = {"[0]"}
    Anonymous = "()"
    Expressions <- Asked
    children_max = 3
    walk_depth_max = 3
    change_depth_max = 3
    MaxFrames = 2
    MaxObjects = 1
INVARIANTS
    FoundIsMeant
    ShowsItsOwn
    ChangesComplete
PROPERTY NeverRebound
CHECK_DEADLOCK FALSE
