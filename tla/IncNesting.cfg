SPECIFICATION Spec
CONSTANTS
    Accounts <- MCAccounts
    PopFirst <- MCPopFirst
    MaxDepth = 4
    MaxLeaks = 2
INVARIANTS
    TypeOK
    Exclusive
    LocksBalanced
    AutocheckArmed
