\* Two sockets can be had; up to two addresses resolve to up to four entries.
CONSTANTS
    NULL = NULL
    Fd = {1, 2}
    MaxBind = 3
    Answers = {1, 2}
    MaxQueue = 1
SPECIFICATION Spec
INVARIANTS
    TypeOK
    NoUseAfterClose
    AllReleased
PROPERTIES
    Terminates
    Served
CHECK_DEADLOCK FALSE
