CONSTANTS
    MaxWritten = 5
    PipeSize = 2
    MaxFaults = 2
SPECIFICATION FairSpec
INVARIANTS TypeOK OutputWhole NoShellLeft
PROPERTIES SessionEnds InputEndsSession
CHECK_DEADLOCK FALSE
