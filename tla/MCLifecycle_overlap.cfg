CONSTANTS
    Cli = {c1, c2}
    Name = {n1}
    Project = {p1}
    NoRecord = NoRecord
    NoProject = NoProject
    NoCli = NoCli
    Orphan = Orphan
    Preset = {all}
    Overlap = TRUE
    MaxFaults = 0
    MaxKills = 1
    Watched = {n1}
SPECIFICATION FairSpec
INVARIANTS OneShell JobNotLeaked
PROPERTIES  StartReturns 
