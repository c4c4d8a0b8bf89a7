SPECIFICATION Spec
CONSTANTS
    r1 = r1
    r2 = r2
    Recipients <- MCRecipients
    Accounts <- MCAccounts
    MaxLines = 1
INVARIANTS
    TypeOK
    Protected
    RefusedIsForgotten
PROPERTIES
    Delivers
    AttemptEnds
