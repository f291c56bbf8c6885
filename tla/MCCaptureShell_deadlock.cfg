SPECIFICATION FairSpec
CONSTANTS
    c1 = c1
    c2 = c2
    Callers = {c1, c2}
    MaxCaptures = 2
PROPERTIES
    StopReturns
\* The calls of this run's counterexample are the ones that stop.
CHECK_DEADLOCK FALSE
