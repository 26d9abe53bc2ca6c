SPECIFICATION Spec
CONSTANTS
    Execs = {e1, e2}
    Files = {f1, f2}
    MaxVersion = 2
INVARIANTS NoSilentLoss ReportedOnce
CHECK_DEADLOCK FALSE
