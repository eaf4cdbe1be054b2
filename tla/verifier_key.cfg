SPECIFICATION FairSpec
CONSTANTS
    Proc = {"p1", "p2", "p3"}
    NoProc = "nobody"
    Body = {"key", "page"}
    NoKey = "nil"
    Torn = "torn"
    CacheTtl = 2
    MaxTime = 4
INVARIANTS OneFetchPerTtl WholeKey KeyInTime
PROPERTY Answered
