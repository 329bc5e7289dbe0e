SPECIFICATION Spec
CONSTANTS
    MaxBlock = 2
    Matching <- MCMatching
    ChanCap = 2
    Goroutine = {g1, g2, g3}
    Concurrency = 2
    Served <- ServesNothing
    Envs <- BothModes
    MaxShort = 1
    MaxCrashes = 1
SYMMETRY GoroutineSymmetry
CHECK_DEADLOCK FALSE
INVARIANTS
    TypeOK
    NoBlockLost
    NoBlockTwice
    ReportedIsIndexed
    PermitsAccounted
    KeysContiguous
    Accounting
PROPERTY FullOnlyAdvances
