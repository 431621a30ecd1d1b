SPECIFICATION Spec
CONSTANTS
    Selections <- PairSelections
    Trees = {TRUE, FALSE}
    Disks = {TRUE, FALSE}
    BodySteps = {"expect", "track", "teardown", "nested", "pump"}
    TimeoutMs = 2
    IsolateMs = 3
    FlakyRetries = 1
    FrameWaits = {1}
    TimerWaits = {2}
    Timeouts = {0, 1}
    FrameMs = {1, 3}
    BurnMs = {}
    AwaitLoops = FALSE
    MaxAwaits = 1
    MaxClock = 4
    MaxExpects = 1
    MaxObjects = 1
    MaxTeardowns = 2
INVARIANT TypeOK
INVARIANT ResultsFollowSelection
INVARIANT DriverLossIsLocal
INVARIANT ReportsAgree
INVARIANT FlakyGetsItsRetries
PROPERTY EvidenceIsKept
PROPERTY ImplementsTestRun
