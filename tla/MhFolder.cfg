SPECIFICATION Spec
CONSTANTS
    Msgs = {m1, m2}
    None = None
    UserFlags = {}
    Kinds <- MCKinds
    MaxNum = 3
    MaxRecords = 2
    Patient = TRUE
    CacheFirst = TRUE
    Halves = {"cache"}
SYMMETRY Symmetry
INVARIANTS TypeOK ListTrue CountsRight
PROPERTIES KeepsMessages
