\* main.c:64 says that the master thread handles all IO while main sleeps.
CONSTANTS
    a1 = a1
    n1 = n1
    NULL = NULL
    Addr = {a1}
    Fd = {1}
    Node = {n1}
    Timeout = 0
    MaxNow = 0
    MaxBind = 1
    Answers = {1}
    MaxQueue = 1
SPECIFICATION Spec
INVARIANTS
    HandlesAllIO
CHECK_DEADLOCK FALSE
