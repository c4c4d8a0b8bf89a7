SPECIFICATION Spec
CONSTANTS
    m1 = m1
    m2 = m2
    m3 = m3
    None = None
    Msgs <- MCMsgs
    MaxNum = 3
    MaxDepth = 2
    MaxTaken = 2
    Careful = FALSE
SYMMETRY Symmetry
INVARIANT QueuedIsKept
