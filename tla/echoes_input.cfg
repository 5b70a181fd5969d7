\* What a client gets back that sends in pieces.
CONSTANTS
    c1 = c1
    c2 = c2
    NULL = NULL
    Client = {c1, c2}
    LEN = 3
    INT_MAX = 6
    MAXBACKLOG = 2
    MaxSent = 4
SPECIFICATION Spec
INVARIANT EchoesInput
CHECK_DEADLOCK FALSE
