\* socketloop.c:91 tells a newcomer that the server is full.
CONSTANTS
    Last = 1
    MaxFd = 2
    MaxData = 1
    MaxBacklog = 1
SPECIFICATION Spec
INVARIANTS
    FullMeansFull
CHECK_DEADLOCK FALSE
