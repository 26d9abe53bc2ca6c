SPECIFICATION BrokerFairSpec
CONSTANTS
    HostThreads = {h}
    ChildThreads = {c}
    Grants = {g1}
    MaxStarts = 3
    Crashes = TRUE
    ForksAnytime = TRUE
INVARIANTS NeverShrinks RecordTrue WarningsRight OwnBrokerKept
PROPERTIES StartEnds
CHECK_DEADLOCK FALSE
