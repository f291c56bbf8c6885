SPECIFICATION Spec
CONSTANTS
    c1 = c1
    c2 = c2
    Callers = {c1, c2}
    MaxCaptures = 2
INVARIANTS OneStopper StopCommitsAll LastSnapshotIsTrue ControlAccounted
SYMMETRY CallerSymmetry
\* A start and a stop may wait for each other for ever (run shell_deadlock).
CHECK_DEADLOCK FALSE
