CONSTANTS
    Thread = {w1, w2, w3, w4}
    WorkerCount = 2
    Caller = {main, other}
    Queue = {q1, q2}
    Background = Background
    CallerCalls <- AnyCall
    ThunkCalls <- AnyAsync
    NoTask = NoTask
    MaxPosts = 3
    MaxShutdowns = 1
SPECIFICATION FairSpec
CHECK_DEADLOCK FALSE
INVARIANT TypeOK
PROPERTIES ImplementsSerial AllTasksRun
