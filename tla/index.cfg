SPECIFICATION Spec
CONSTANTS
    MaxBlock = 3
    Matching <- MCMatching
    ChanCap = 2
    Goroutine = {g1, g2, g3}
    Concurrency = 2
    Served = 1
    MaxShort = 1
    Envs <- BothModes
    MaxCrashes = 1
ACTION_CONSTRAINT FullKeepsRunning
CHECK_DEADLOCK FALSE
INVARIANT StoredExactly
PROPERTY IndexImplemented
