SPECIFICATION Spec
CONSTANTS
    MaxBlock = 2
    Matching <- MCMatching
    ChanCap = 1
    Goroutine = {g1, g2}
    Concurrency = 1
    Served = 1
    Envs <- FullOnly
    MaxShort = 0
    MaxCrashes = 1
PROPERTY SavedDataKept
