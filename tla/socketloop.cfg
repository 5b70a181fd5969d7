\* Two places for clients and three descriptors.
CONSTANTS
    Last = 2
    MaxFd = 3
    MaxData = 2
    MaxBacklog = 1
SPECIFICATION Spec
INVARIANTS
    TypeOK
    Held
    OwnPlace
PROPERTIES
    NothingCutShort
    LeaverNoticed
    NewcomerAnswered
CHECK_DEADLOCK FALSE
