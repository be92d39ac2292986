SPECIFICATION TheSpec
CONSTANTS
    TimelineClaims = {1, 2}
    Wordings = {1, 2}
    Rank <- TheRank
    Searchers = {s1}
    Keepers = {k1}
    MaxRewrites = 2
    NoClaim = NoClaim
INVARIANT CacheIsTrue
CHECK_DEADLOCK FALSE
