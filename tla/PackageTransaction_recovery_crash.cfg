CONSTANTS
    Path = {a, b}
    Tx = {x, y}
    Plugin = {p}
    Absent = Absent
    Old = Old
    None = None
    Torn = Torn
    MaxFiles = 2
    CrashIn = {"apply", "restore"}
    FailIn = {"apply"}
    MaxCrashes = 2
SPECIFICATION Spec
PROPERTY ImplementsAtomicInstall
