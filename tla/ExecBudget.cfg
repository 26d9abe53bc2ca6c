SPECIFICATION Spec
CONSTANTS
    Others = {c1, c2}
    Timeout = 1
    TickLimit = 1
    MaxTime = 4
    MaxTicks = 2
    Spawns = TRUE
INVARIANTS RefundExact
PROPERTIES NoEarlyTimeout
CHECK_DEADLOCK FALSE
