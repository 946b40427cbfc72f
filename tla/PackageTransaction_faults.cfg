CONSTANTS
    Path = {a, b}
    Tx = {x}
    Plugin = {p}
    Absent = Absent
    Old = Old
    None = None
    Torn = Torn
    MaxFiles = 2
    CrashIn = {"idle", "journal", "apply", "rollback", "restore", "remove"}
    FailIn = {"idle", "journal", "apply", "rollback", "restore", "remove"}
    MaxCrashes = 2
SPECIFICATION FairSpec
INVARIANT TypeOK
PROPERTIES ChangesAreJournaled StoreSettles
