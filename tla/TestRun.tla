------------------------------- MODULE TestRun ------------------------------
(***************************************************************************)
(* What a run of the selected tests promises to whoever started it: every  *)
(* selected test is judged once, in order, and keeps its verdict; the      *)
(* document, if it could be written, holds exactly the verdicts; the exit  *)
(* code is decided by them.  The process may die at any point, and then    *)
(* there is no exit code of the runner's.                                  *)
(***************************************************************************)
EXTENDS Integers, Sequences

VARIABLES
    total,      \* how many tests are selected
    verdicts,   \* one for each test judged so far
    stage,      \* "open", "judged", "published", "over" or "dead"
    statuses,   \* the statuses of the document on disk (<<>> if none)
    exit_code

vars == <<total, verdicts, stage, statuses, exit_code>>

Verdicts == {"pass", "fail", "skipped", "crashed"}
Bad == {"fail", "crashed"}
NoExit == -1

Init ==
    /\ total \in Nat
    /\ verdicts = <<>>
    /\ stage = "open"
    /\ statuses = <<>>
    /\ exit_code = NoExit

\* A usage error, a listing or a start without the trigger judges nothing.
Decline ==
    /\ stage = "open" /\ verdicts = <<>>
    /\ stage' = "over"
    /\ exit_code' \in {NoExit, 0, 2}
    /\ UNCHANGED <<total, verdicts, statuses>>

Judge ==
    /\ stage = "open" /\ Len(verdicts) < total
    /\ \E v \in Verdicts : verdicts' = Append(verdicts, v)
    /\ UNCHANGED <<total, stage, statuses, exit_code>>

Close ==
    /\ stage = "open" /\ Len(verdicts) = total
    /\ stage' = "judged"
    /\ UNCHANGED <<total, verdicts, statuses, exit_code>>

Publish ==
    /\ stage = "judged"
    /\ stage' = "published"
    /\ statuses' \in {statuses, verdicts}
    /\ UNCHANGED <<total, verdicts, exit_code>>

\* Without a SceneTree there is nobody to give the exit code to.
Exit ==
    /\ stage = "published"
    /\ stage' = "over"
    /\ exit_code' \in
          {NoExit, IF \E i \in DOMAIN verdicts : verdicts[i] \in Bad THEN 1 ELSE 0}
    /\ UNCHANGED <<total, verdicts, statuses>>

Die ==
    /\ stage \in {"open", "judged", "published"}
    /\ stage' = "dead"
    /\ UNCHANGED <<total, verdicts, statuses, exit_code>>

Next == Decline \/ Judge \/ Close \/ Publish \/ Exit \/ Die

Spec == Init /\ [][Next]_vars
=============================================================================
