\* What the client records, fetches and deletes, over any number of sessions.
CONSTANTS
    u1 = u1
    u2 = u2
    Uids <- MCUids
    Size <- SameSize
    Prefs <- RecordPrefs
    Days = {10, 11}
    MaxBad = 1
    SlowFilter = TRUE
SPECIFICATION Spec
SYMMETRY Interchangeable
INVARIANTS TypeOK RecordsSound DeleteIsSafe RetrievedOnce
PROPERTIES NoMailLost DeletionCompleted
