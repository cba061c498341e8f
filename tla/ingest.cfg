\* Two workers, three pages; supporters come with their ids.
SPECIFICATION FairSpec
CONSTANTS
    Workers = {u, v}
    Pages <- MCPages
    Parsed <- MCParsed
    After <- MCAfter
    Keys <- MCKeys
    Namesakes <- MCNamesakes
    None = None
    Retries = 2
    Visits = 3
    Identified = TRUE
INVARIANTS PagesLandWhole OwnershipWins NoPageIsRefused
PROPERTIES StoreSpec EveryVisitSettles
CHECK_DEADLOCK FALSE
