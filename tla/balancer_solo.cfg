SPECIFICATION Spec
CONSTANTS
    lenClients = 3
    Caller = {p1}
    maxRounds = 2
    blockTime = 2
    Answers <- AtMostOneHealthy
INVARIANTS
    TypeOK
    SleepOutlastsBlocks
    HealthyServes
