CONSTANTS
    Line = {l1}
    Text = {t1, t2}
    Client = {editBox}
    KeepsId = {}
    UndoLevels = 2
    AddDefault = TRUE
    MaxRevision = 4
    Stamp = {s1}
    Missing = Missing
    None = None
    MaxEdits = 1
    MaxTasks = 1
    MayFail = TRUE
    Toggles = FALSE
    kMaxPromptLoopCount = 1
SPECIFICATION Spec
SYMMETRY Symmetry
INVARIANTS TypeOK RequestsAreCurrent DrainIsScheduled CloseSeesPublished UnmodifiedIsOnDisk WritesKeepForeign
PROPERTY ImplementsHistory
