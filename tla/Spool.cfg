SPECIFICATION Spec
CONSTANTS
    Values = {v1, v2}
    MaxTurn = 3
    MaxDir = 2
INVARIANTS NoFileOutlives
PROPERTIES RefusedOnlyClosed
CHECK_DEADLOCK FALSE
