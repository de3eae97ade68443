CONSTANTS
    a = a
    b = b
    f1 = f1
    f2 = f2
    t1 = t1
    t2 = t2
    Sandbox = {a, b}
    Source = {f1, f2}
    Target = {t1, t2}
    Configs <- SharedConfigs
    Group = Group
    NoSource = NoSource
    Overlap = TRUE
    MaxFaults = 0
    MaxSids = 2
SPECIFICATION Spec
CHECK_DEADLOCK FALSE
INVARIANTS MountedWorks
