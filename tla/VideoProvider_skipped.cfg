CONSTANTS
    l1 = l1
    l2 = l2
    tc1 = tc1
    tc2 = tc2
    a = a
    Line = {l1, l2}
    Text = {a, b}
    FrameCount = 2
    Timecodes = {tc1, tc2}
    VisibleAt <- Visible
    Colour = {tv}
    None = None
    OpenedDocs <- Unedited
    OpenedColour = tv
    OpenedTimecodes = tc1
    Operations = {"edit"}
    Fails = {}
    MaxCalls = 2
    MaxOther = 0
    MaxProviders = 1
SPECIFICATION Spec
INVARIANT SkippedIsShown
