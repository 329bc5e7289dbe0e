SPECIFICATION Spec
CONSTANTS
    lenClients = 2
    Caller = {p1, p2}
    maxRounds = 2
    blockTime = 1
    Answers <- LimitedAndHealthy
SYMMETRY CallerSymmetry
INVARIANT HealthyServes
