SPECIFICATION Spec
CONSTANTS
    a = a
    b = b
    Fetches = {a, b}
    LastGroup = 1
    LastObject = 1
    Settings <- All
INVARIANTS
    AbsentIsTrue
    NoObjectDenied
    InOrder
    WaitedForIsAtWork
CHECK_DEADLOCK FALSE
