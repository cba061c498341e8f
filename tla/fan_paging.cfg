\* A fan page read over several visits, its owner's or another's.
SPECIFICATION FairSpec
CONSTANTS
    PageCount <- ListCount
    PagesPerVisit = 2
    MaxBreaks = 3
    MaxBacks = 1
    MaxSpent = 16
INVARIANTS TypeOK CollectionComplete BookmarkIsHonest OnePageLostPerBreak
PROPERTIES PagingSpec EntryEnds
CHECK_DEADLOCK FALSE
