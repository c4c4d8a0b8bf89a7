\* How a session ends, when no filter command outlasts the I/O timeout.
CONSTANTS
    u1 = u1
    u2 = u2
    Uids <- MCUids
    Size <- OneOverLimit
    Prefs <- SessionPrefs
    Days = {10}
    MaxBad = 0
    SlowFilter = FALSE
SPECIFICATION Spec
PROPERTIES SuccessMeansComplete SessionEnds
