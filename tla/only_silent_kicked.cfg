\* users.c:34,72 say that an accepted message keeps its sender from timing out.
CONSTANTS
    a1 = a1
    a2 = a2
    n1 = n1
    n2 = n2
    f1 = f1
    NULL = NULL
    Addr = {a1, a2}
    Fd = {f1}
    Node = {n1, n2}
    Timeout = 1
    MaxNow = 5
SPECIFICATION Spec
PROPERTIES
    OnlySilentKicked
CHECK_DEADLOCK FALSE
