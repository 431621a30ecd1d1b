----------------------------- MODULE RunnerProps ----------------------------
(***************************************************************************)
(* What is claimed of the runner: its type invariant, the safety           *)
(* invariants, the action properties, the liveness property, the abstract  *)
(* run it implements, and the statements of the documentation that it does *)
(* not satisfy.                                                            *)
(***************************************************************************)
EXTENDS Runner

Phases == {"boot", "dispatch", "sync", "async", "engine", "write", "report",
           "over", "dead"}

\* The type of every variable.
TypeOK ==
    /\ phase \in Phases
    /\ selected \in Seq(TestKinds)
    /\ tree \in BOOLEAN
    /\ next \in Nat /\ next <= Len(selected)
    /\ results \in Seq(Results)
    /\ ctx \in Contexts
    /\ attempt \in Nat
    /\ active \in BOOLEAN
    /\ driver \in BOOLEAN
    /\ slot \in Slots
    /\ connected \in BOOLEAN
    /\ clock \in Nat /\ sampled \in Nat
    /\ awaits \in Nat
    /\ wait \in Waits
    /\ pumped \in BOOLEAN
    /\ ended \in Endings \cup {"none"}
    /\ document.written \in BOOLEAN
    /\ document.statuses \in Seq(Verdicts)
    /\ exit_code \in {NoExit, 0, 1, 2}

InTest == phase \in {"sync", "async", "engine"}

\* Every test that was taken has exactly one result, in the order of the
\* selection, whichever of the five ways of ending it (run_one, collect after
\* the start or after a frame, a timeout, an isolate overrun, no tree) it took;
\* the test in hand has none yet (start_next_test and its two collectors).
ResultsFollowSelection ==
    /\ \A i \in 1 .. Len(results) : results[i].test = i
    /\ InTest => next >= 1 /\ Len(results) = next - 1
    /\ phase \notin {"sync", "async", "engine", "dead"} => Len(results) = next
    /\ phase \in {"write", "report"} => next = Len(selected)

\* A frame never resumes a null or a destroyed coroutine: while the engine has
\* control the slot holds the handle of the test in hand, the pump is connected
\* and the body had a driver; between tests and after the run the slot is empty
\* and g_active_ctx is null (on_engine_frame calls current().resume()
\* unconditionally, advance() says Resolved for an empty slot).
NothingOutlivesItsTest ==
    /\ phase = "engine" => slot.owner = next /\ connected /\ tree /\ driver
    /\ slot.owner # 0 => slot.owner = next /\ phase \in {"async", "engine", "dead"}
    /\ active => InTest \/ phase = "dead"
    /\ connected => tree /\ phase \notin {"boot", "write", "report"}

\* An await that finds no driver is the test's own doing: it drove a nested
\* pump before.  What earlier tests did to the flag does not reach it
\* (start_next_test and on_engine_frame re-assert the flag).
DriverLossIsLocal == ctx.failures["no_driver"] > 0 => pumped

\* The exit code, the totals and the statuses of the document are computed by
\* three loops over the results and must tell one story: exit 1 exactly when
\* the document counts a failure, totals that add up, a crashed test among the
\* failed ones, one status for each selected test (write_json, finish_run).
ReportsAgree ==
    LET t == document.totals IN
    document.written =>
        /\ Len(document.statuses) = Len(selected)
        /\ t.pass + t.fail + t.skip = Len(selected)
        /\ t.crashed <= t.fail
        /\ exit_code # NoExit => (exit_code = 1 <=> t.fail > 0)

\* A flaky sync test is reported failed only when it has used up its retries,
\* and no test is reported with more than it has (run_one).
FlakyGetsItsRetries ==
    \A i \in DOMAIN results :
        LET r == results[i]
            budget == IF selected[i].flaky /\ ~selected[i].async
                      THEN FlakyRetries ELSE 0 IN
        /\ r.retries <= budget
        /\ Verdict(r) = "fail" /\ ~r.skipped /\ ~selected[i].async
              => r.retries = budget

-----------------------------------------------------------------------------
Judged == Len(results') = Len(results) + 1
NewResult == results'[Len(results')]

\* What the body recorded and what it left behind is never lost on the way to
\* the result, however the test ends: a failed expectation, a throwing teardown
\* or a tracked object no teardown released makes the test fail; and a failure
\* in the result has a cause.  A result is marked crashed only if its body threw or was
\* aborted, and an asynchronous one always then; of a synchronous body that throws, which
\* run_one marks failed where docs/cli.md:184 has it crashed, only that it is not green
\* (the two collectors, run_one).
EvidenceIsKept ==
    [][Judged =>
         LET f == NewResult.failures IN
         /\ f["expect"] = ctx.failures["expect"]
         /\ f["no_driver"] = ctx.failures["no_driver"]
         /\ f["teardown"] = ctx.throws
         /\ f["leak"] > 0 <=> ctx.objects > ctx.frees
         /\ NewResult.crashed => ended' \in {"abort", "throw"}
         /\ phase = "async" /\ ended' \in {"abort", "throw"} => NewResult.crashed
         /\ ended' = "throw" => Verdict(NewResult) \in {"fail", "crashed"}]_vars

\* A frame leaves a test waiting only while its wait is neither due nor out of
\* time, and the test within its budget: await_frames(n) on fewer than n frames,
\* a timer before its time, both before their deadline (on_engine_frame,
\* advance).
PendingOnlyWithinBudgets ==
    [][phase = "engine" /\ phase' = "engine" =>
         /\ slot.kind = "frames" => wait'.frames < wait.amount
         /\ slot.kind = "timer" => clock' < slot.resume_at
         /\ clock' < slot.deadline
         /\ clock' < IsolateMs]_vars

\* A wait that is due on the very frame on which its deadline passes resumes
\* the body, and only a wait that is due resumes it: await_frames(n) exactly on
\* the n-th frame, a timer not before its time; neither is given up on a frame that
\* is not short of that (advance: "A wait that resolves wins over a coincident
\* deadline").
DueWaitsResume ==
    [][/\ phase = "engine" /\ phase' = "async" =>
            IF slot.kind = "frames" THEN wait'.frames = wait.amount ELSE clock' >= slot.resume_at
       /\ phase = "engine" /\ Judged =>
            IF slot.kind = "frames" THEN wait.frames + 1 < wait.amount
            ELSE \E t \in FrameTimes : t < slot.resume_at]_vars

\* Every run ends, as long as bodies end or await, the engine emits frames and
\* the disk answers: no suspended test is forgotten (docs/architecture.md: "A
\* stalled test fails with a message; it never hangs the run.").
RunEnds == <>(phase \in {"over", "dead"})

-----------------------------------------------------------------------------
(* The runner implements the abstract run.                                  *)

Stage == CASE phase = "write" -> "judged"
           [] phase = "report" -> "published"
           [] phase \in {"over", "dead"} -> phase
           [] OTHER -> "open"

Abstract == INSTANCE TestRun WITH
    total <- Len(selected),
    verdicts <- StatusesOf(results),
    stage <- Stage,
    statuses <- document.statuses

\* One verdict for each selected test, in order, never revised; then the
\* document; then the exit code they decide (start_next_test, finish_run).
ImplementsTestRun == Abstract!Spec

-----------------------------------------------------------------------------
(* Statements of the documentation.                                         *)

\* GDEX_ABORT_TEST ends the test as failed: "failure is already recorded" says
\* run_one where it swallows TestAborted.
AbortedTestsFail ==
    [][Judged /\ ended' = "abort" => Verdict(NewResult) # "pass"]_vars

\* docs/async-tests.md: await_timer_ms(ms) "Resumes after at least `ms`
\* milliseconds".
TimersWaitInFull ==
    [][phase = "engine" /\ phase' = "async" /\ slot.kind = "timer"
         => clock' - wait.since >= wait.amount]_vars
=============================================================================
