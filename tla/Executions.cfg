SPECIFICATION ExecutionsSpec
CONSTANTS
    Execs = {e1, e2, e3}
    Homes = 2
    Mode = "tasks"
    Interrupts = TRUE
INVARIANTS NeverOthers HomesKept OnlyAskedCancelled
CHECK_DEADLOCK FALSE
