\* Two clients that send in pieces, too little, or break off; accepts that fail.
CONSTANTS
    c1 = c1
    c2 = c2
    NULL = NULL
    Client = {c1, c2}
    LEN = 3
    INT_MAX = 6
    MAXBACKLOG = 2
    MaxSent = 4
SPECIFICATION Spec
INVARIANTS
    TypeOK
    Counted
PROPERTIES
    InBuffer
    OnlyResetEnds
    AcceptFailureSurvived
    Answered
CHECK_DEADLOCK FALSE
