\* The server: one client, two sockets fit, three entries resolve.
CONSTANTS
    a1 = a1
    n1 = n1
    NULL = NULL
    Addr = {a1}
    Fd = {1, 2, 3}
    Node = {n1}
    Timeout = 0
    MaxNow = 1
    MaxBind = 2
    Answers = {3}
    MaxQueue = 1
SPECIFICATION Spec
INVARIANTS
    TypeOK
    SocketsKept
    NoUseAfterClose
    AllReleased
PROPERTIES
    Terminates
    Served
    UsesTable
CHECK_DEADLOCK FALSE
