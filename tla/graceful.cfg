\* main.c:74 says that SIGTERM shuts the server down gracefully.
CONSTANTS
    a1 = a1
    n1 = n1
    NULL = NULL
    Addr = {a1}
    Fd = {1}
    Node = {n1}
    Timeout = 0
    MaxNow = 0
    MaxBind = 1
    Answers = {1}
    MaxQueue = 1
SPECIFICATION Spec
PROPERTIES
    Graceful
CHECK_DEADLOCK FALSE
