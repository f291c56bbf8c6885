SPECIFICATION LiveSpec
CONSTANTS
    Depths = {"beginner", "expert"}
    Ranges = {"5m", "1h"}
    MaxFails = 1
    MaxOld = 1
INVARIANTS LiveTypeOK RefreshIsHonest
PROPERTIES EndedRunIsSilent LiveSettles
