CONSTANTS
    Line = {l1}
    Text = {t1, t2}
    Client = {editBox}
    KeepsId = {}
    UndoLevels = 2
    AddDefault = TRUE
    MaxRevision = 3
    Stamp = {s1}
    Missing = Missing
    None = None
    MaxEdits = 2
    MaxTasks = 0
    MayFail = FALSE
    Toggles = TRUE
    kMaxPromptLoopCount = 1
SPECIFICATION FairSpec
PROPERTIES AutomaticSaveLands ForeignIsReported OnlyLimitSilences
