\* One message through the server: an IPv4 and an IPv6 client and another
\* port of the first.
CONSTANTS
    n1 = n1
    n2 = n2
    f1 = f1
    NULL = NULL
    Addr <- Clients
    Fd = {f1}
    Node = {n1, n2}
    Timeout = 1
    MaxNow = 3
    MSG_BODY_LEN = 3
    Lens = {0, 1, 5}
    TimeoutLen = 2
    SIZE_MAX = 99
SPECIFICATION Spec
INVARIANTS
    TypeOK
    AddressTold
    InBuffer
PROPERTIES
    Delivered
    SenderHears
    TimeoutTold
    CallsReturn
CHECK_DEADLOCK FALSE
