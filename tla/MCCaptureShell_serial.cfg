SPECIFICATION CallsProgress
CONSTANTS
    c1 = c1
    Callers = {c1}
    MaxCaptures = 3
INVARIANTS TypeOK
PROPERTIES CallsReturn
