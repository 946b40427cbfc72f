CONSTANTS
    l1 = l1
    l2 = l2
    tc1 = tc1
    tc2 = tc2
    a = a
    Line = {l1, l2}
    Text = {a, b}
    FrameCount = 2
    Timecodes = {tc1, tc2}
    VisibleAt <- Visible
    Colour = {tv, pc}
    None = None
    OpenedDocs <- Unedited
    OpenedColour = tv
    OpenedTimecodes = tc1
    Operations = {"edit", "colour", "timecodes", "jump", "preview", "immediate", "visual", "prefetch", "open"}
    Fails = {"video", "subtitles"}
    MaxCalls = 3
    MaxOther = 1
    MaxProviders = 2
SPECIFICATION FairSpec
INVARIANTS TypeOK SettlesOnDocument DestroyedIsQuiet OnePrefetchChain DeliveredInOrder SingleFrameIsLoaded
PROPERTIES ShownIsCurrent Settles
