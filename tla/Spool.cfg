SPECIFICATION Spec
CONSTANTS
    Msgs <- MCMsgs
    Text <- MCText
    Raw = {"c"}
    Folders <- MCFolders
    Inbox = "inbox"
    RuleSets <- MCRuleSets
    MaxTrouble = 2
    Hazards = {}
INVARIANTS TypeOK Kept Incorporated
CHECK_DEADLOCK FALSE
