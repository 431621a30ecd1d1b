SPECIFICATION Spec
CONSTANTS
    Pids = {1}
    PidsRecur = TRUE
    Wirings = {TRUE, FALSE}
    MaxInvocations = 3
INVARIANT TypeOK
INVARIANT LeavesNothingBehind
INVARIANT GreenIsReal
