SPECIFICATION FairSpec
CONSTANTS
    MaxTurn = 3
    MaxSpawn = 2
    MaxCall = 1
    MaxCancel = 1
    Isolation = "auto"
    AllowDegraded = FALSE
    HasHook = TRUE
    MaxInterrupt = 1
INVARIANTS FitToServe WorkerAccounted
PROPERTIES ImplementsService OwnTurn ShutdownEndsWorker ExecReturns OrphanEnds
CHECK_DEADLOCK FALSE
