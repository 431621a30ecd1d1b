SPECIFICATION FairSpec
CONSTANTS
    Selections <- MixedSelections
    Trees = {TRUE, FALSE}
    Disks = {TRUE}
    BodySteps = {"pump", "burn"}
    TimeoutMs = 3
    IsolateMs = 5
    FlakyRetries = 1
    FrameWaits = {1, 2}
    TimerWaits = {2}
    Timeouts = {0, 2}
    FrameMs = {1, 2}
    BurnMs = {1}
    AwaitLoops = FALSE
    MaxAwaits = 2
    MaxClock = 6
    MaxExpects = 1
    MaxObjects = 1
    MaxTeardowns = 2
INVARIANT NothingOutlivesItsTest
PROPERTY PendingOnlyWithinBudgets
PROPERTY DueWaitsResume
PROPERTY RunEnds
