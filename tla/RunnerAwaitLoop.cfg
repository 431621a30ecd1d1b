SPECIFICATION FairSpec
CONSTANTS
    Selections <- OneAsync
    Trees = {TRUE}
    Disks = {TRUE}
    BodySteps = {}
    TimeoutMs = 3
    IsolateMs = 5
    FlakyRetries = 1
    FrameWaits = {1, 2}
    TimerWaits = {2}
    Timeouts = {0, 2}
    FrameMs = {1, 2}
    BurnMs = {1}
    AwaitLoops = TRUE
    MaxAwaits = 2
    MaxClock = 6
    MaxExpects = 1
    MaxObjects = 1
    MaxTeardowns = 2
PROPERTY RunEnds
