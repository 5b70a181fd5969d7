\* Safety of the table: three clients, two sockets.
CONSTANTS
    a1 = a1
    a2 = a2
    a3 = a3
    f1 = f1
    f2 = f2
    n1 = n1
    n2 = n2
    n3 = n3
    NULL = NULL
    Addr = {a1, a2, a3}
    Fd = {f1, f2}
    Node = {n1, n2, n3}
    Timeout = 1
    MaxNow = 4
SPECIFICATION Spec
SYMMETRY Symmetry
INVARIANTS
    TypeOK
    NoDangling
    ListIntact
    UniqueAddr
    CrashOnlyUnused
PROPERTIES
    OncePerSlot
    WalkRemovesAll
    EveryReachesAll
    ImplementsRoster
CHECK_DEADLOCK FALSE
