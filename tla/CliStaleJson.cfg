SPECIFICATION Spec
CONSTANTS
    Pids = {1, 2}
    PidsRecur = FALSE
    Wirings = {TRUE, FALSE}
    MaxInvocations = 2
INVARIANT NoResultsAreFaked
