SPECIFICATION Spec
CONSTANTS
    MaxBlock = 1
    Matching <- MCMatching
    ChanCap = 1
    Goroutine = {g1, g2}
    Concurrency = 1
    Served = 0
    Envs <- FullOnly
    MaxShort = 0
    MaxCrashes = 0
INVARIANT FetchesRanges
