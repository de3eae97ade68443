CONSTANTS
    Project = {P1, P2}
    Name = {n1, n2}
    NoRecord = NoRecord
    Proc = {c1, c2}
    NoProc = NoProc
    MaxCrashes = 2
SPECIFICATION FairSpec
INVARIANTS TypeOK SnapshotFresh DoneIsOnDisk UniqueNames
PROPERTIES ImplementsRegistry LockReleased
