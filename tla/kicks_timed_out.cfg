\* users.h:37 says that an update kicks timed-out users.
CONSTANTS
    a1 = a1
    a2 = a2
    n1 = n1
    n2 = n2
    f1 = f1
    NULL = NULL
    Addr = {a1, a2}
    Fd = {f1}
    Node = {n1, n2}
    Timeout = 1
    MaxNow = 4
SPECIFICATION Spec
PROPERTIES
    KicksTimedOut
CHECK_DEADLOCK FALSE
