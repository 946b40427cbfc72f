CONSTANTS
    Line = {l1, l2}
    Text = {t1, t2}
    Client = {visualTool}
    KeepsId = {visualTool}
    UndoLevels = 3
    AddDefault = TRUE
    MaxRevision = 7
SPECIFICATION Spec
SYMMETRY Symmetry
INVARIANT UnmodifiedIsSaved
