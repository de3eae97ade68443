CONSTANTS
    RunnerPath = {python, package}
    SystemDir = {temp, public}
    Sandbox = {s1, s2}
    MaxRequests = 4
    MaxFaults = 3
SPECIFICATION Spec
INVARIANTS TypeOK InstalledWorks UninstalledClean FailsOnlyByFault
CHECK_DEADLOCK FALSE
