SPECIFICATION FairSpec
CONSTANTS
    MaxBlock = 2
    Matching <- MCMatching
    ChanCap = 1
    Goroutine = {g1, g2, g3}
    Concurrency = 2
    Served = 1
    Envs <- FullOnly
    MaxShort = 0
    MaxCrashes = 1
PROPERTY CatchesUp
