SPECIFICATION HostCallsFairSpec
CONSTANTS
    Others = {t1}
    MaxTurn = 2
    MaxCall = 4
    MaxGarbage = 1
INVARIANTS PauseFollowsClock OneReader
PROPERTIES AwaitEnds
CHECK_DEADLOCK FALSE
