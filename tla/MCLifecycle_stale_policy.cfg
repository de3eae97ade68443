CONSTANTS
    Cli = {c1, c2, c3}
    Name = {n1}
    Project = {p1}
    NoRecord = NoRecord
    NoProject = NoProject
    NoCli = NoCli
    Orphan = Orphan
    Preset = {all}
    Overlap = FALSE
    MaxFaults = 0
    MaxKills = 1
    Watched = {}
SPECIFICATION Spec
INVARIANTS NoneIsDenied
