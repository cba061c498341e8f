\* Three things learned or chosen after a first crawl.
SPECIFICATION Spec
CONSTANTS
    me = me  p = p  q = q  g = g  h = h
    Me = me
    Fans = {me, p, q}
    Wishers = {me, q}
    Albums = {"m", "x", "z"}
    Tracks = {"n", "y"}
    Ident <- MCIdent
    Bands = {"A", "B", "C"}
    NoBand = "none"
    BandOf <- MCBandOf
    Hosts = {"a", "c", "label"}
    NoHost = "none"
    HostOf <- MCHostOf
    BandHost <- MCBandHost
    Tags = {g, h}
    PageTags <- MCPageTags
    BandTags <- MCBandTags
    Scans <- MCScans
    Log <- MCLog
    Collections <- MCCollections
    Support <- MCSupport
    Changes = 3
INVARIANTS FeedIsBestOfBands OneMoreCoOwnerWins ReportsAgree
PROPERTY CrawlingLowersNoScore
CHECK_DEADLOCK FALSE
