CONSTANTS
    Cli = {c1}
    Proxy = {p1, p2}
    NoProxy = NoProxy
    Tight = FALSE
    MaxCrashes = 0
    MaxKills = 1
    MaxLapses = 0
SPECIFICATION FairSpec
PROPERTIES EngineCrashIdlesOut
CHECK_DEADLOCK FALSE
