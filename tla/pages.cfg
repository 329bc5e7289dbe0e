SPECIFICATION FairSpec
CONSTANTS
    MaxBlock = 2
    Events <- MCEvents
    Client = {c1, c2}
    StartIndexes <- MCStartIndexes
    Limits <- MCLimits
    DefaultLimit = 2
    Word = 256
INVARIANTS
    PagesExact
    RequestsFindDatabase
PROPERTIES
    ReadToTheEnd
    ServerStops
