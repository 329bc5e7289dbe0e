SPECIFICATION Spec
CONSTANTS
    lenClients = 1
    Caller = {p1, p2}
    maxRounds = 2
    blockTime = 1
    Answers <- LimitedOrBroken
PROPERTY IndefiniteIsForever
