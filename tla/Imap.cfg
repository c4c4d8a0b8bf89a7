SPECIFICATION Spec
CONSTANTS
    Boxes = {INBOX, A}
    INBOX = INBOX
    Msgs = {m1, m2}
    None = None
    MaxUid = 2
    MaxStarted = 2
    MaxTrouble = 2
    Hazards = {}
SYMMETRY Symmetry
INVARIANTS TypeOK RightMailbox CacheTrue
PROPERTIES KeepsMail
CHECK_DEADLOCK FALSE
