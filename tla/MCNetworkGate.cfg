SPECIFICATION Spec
CONSTANTS
    HostThreads = {t1, t2}
    NewThreads = {t3}
    Methods = {connect, getaddrinfo}
    Filesystem = TRUE
    MaxFrames = 2
    MaxItems = 1
    MaxSkipped = 1
SYMMETRY Interchangeable
INVARIANTS GateHasOriginal  
CHECK_DEADLOCK FALSE
