CONSTANTS
    Cli = {c1, c2}
    Proxy = {p1, p2}
    NoProxy = NoProxy
    Tight = FALSE
    MaxCrashes = 1
    MaxKills = 1
    MaxLapses = 1
SPECIFICATION FairSpec
INVARIANTS TypeOK FileNamesServer AwaitedComes SessionServed 
PROPERTIES ImplementsPolicyTable IdlesOut
CHECK_DEADLOCK FALSE
