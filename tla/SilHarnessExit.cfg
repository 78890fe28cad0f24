SPECIFICATION Spec
INVARIANTS ExitedEarly
CHECK_DEADLOCK FALSE
