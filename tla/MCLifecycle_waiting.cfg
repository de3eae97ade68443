CONSTANTS
    Cli = {c1, c2}
    Name = {n1, n2}
    Project = {p1, p2}
    NoRecord = NoRecord
    NoProject = NoProject
    NoCli = NoCli
    Orphan = Orphan
    Preset = {all}
    Overlap = FALSE
    MaxFaults = 1
    MaxKills = 0
    Watched = {}
SPECIFICATION Spec
SYMMETRY Symmetry
INVARIANTS TypeOK SettledNotRunning SettledUnregistered  SessionIntact
CHECK_DEADLOCK FALSE
