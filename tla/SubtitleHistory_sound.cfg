CONSTANTS
    Line = {l1, l2}
    Text = {t1, t2}
    Client = {editBox}
    KeepsId = {}
    UndoLevels = 3
    AddDefault = TRUE
    MaxRevision = 6
SPECIFICATION Spec
SYMMETRY Symmetry
INVARIANTS TypeOK TopIsDocument UnmodifiedIsSaved SavedEntryIsSaved
PROPERTY ImplementsTimeline
