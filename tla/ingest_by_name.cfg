\* A page of supporters without ids, then the page of one of them.
SPECIFICATION Spec
CONSTANTS
    Workers = {u, v}
    Pages <- MCPages
    Parsed <- MCParsed
    After <- MCAfter
    Keys <- MCKeys
    Namesakes <- MCNamesakes
    None = None
    Retries = 2
    Visits = 3
    Identified = FALSE
INVARIANT NoPageIsRefused
CHECK_DEADLOCK FALSE
