SPECIFICATION FairSpec
CONSTANTS
    MaxWorkers = 2
    Ambient = {a1}
    Fds = {3, 4, 5, 6, 7, 8}
INVARIANTS ChannelKept NothingOfHosts StaleCloseHarmless
PROPERTIES IdleOrphanEnds
CHECK_DEADLOCK FALSE
