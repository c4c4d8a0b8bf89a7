SPECIFICATION FairSpec
CONSTANTS
    BUFFSIZE = 10
    PREREAD_SIZE = 5
    LINE_BUFFSIZE = 6
    Replies <- MCReplies
    Listings <- MCListings
    Messages <- MCMessages
    Drafts <- MCDrafts
    MaxExchanges = 2
INVARIANT TypeOK
PROPERTIES KeepsPromise HeardOut
CHECK_DEADLOCK FALSE
