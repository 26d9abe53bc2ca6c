SPECIFICATION IsolationSpec
INVARIANTS ServesAsAsked StatusTrue NeverLocksItselfOut
CHECK_DEADLOCK FALSE
