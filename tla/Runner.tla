------------------------------- MODULE Runner -------------------------------
(***************************************************************************)
(* The in-engine test runner: run_all_and_quit, the dispatch loop          *)
(* (start_next_test), the frame pump (on_engine_frame) with the single     *)
(* AsyncCoordinator slot, the per-test context and finish_run              *)
(* (src/framework/runner.cpp, include/gdextest/async.h).                   *)
(*                                                                         *)
(* The program is single threaded.  What interleaves is the engine (frames *)
(* of any length, the process dying), the bodies of the tests (arbitrary   *)
(* user code between two awaits) and the runner's own code.  `phase' says  *)
(* whose turn it is.                                                       *)
(*                                                                         *)
(* Time is counted in abstract units from the start of the current async   *)
(* test: the code only ever uses differences of now_ms().  `clock' stops   *)
(* at MaxClock, which is past every budget.                                *)
(***************************************************************************)
EXTENDS Integers, Sequences, FiniteSets

CONSTANTS
    Selections,     \* sequences of tests the registry may hand to the runner
    Trees,          \* is there a live SceneTree to drive frames?
    Disks,          \* does fopen of the JSON document succeed?
    BodySteps,      \* what the bodies of the tests do besides ending
    TimeoutMs,      \* runtime_config().timeout_ms
    IsolateMs,      \* runtime_config().isolate_timeout_sec * 1000
    FlakyRetries,   \* runtime_config().flaky_retries
    FrameWaits,     \* arguments of await_frames
    TimerWaits,     \* arguments of await_timer_ms
    Timeouts,       \* explicit timeout arguments; 0 asks for the default
    FrameMs,        \* how long the engine may take from one frame to the next
    BurnMs,         \* how long a body may run without awaiting
    AwaitLoops,     \* may a body await in an endless loop?
    MaxAwaits,      \* bound: awaits of one test, when AwaitLoops is FALSE
    MaxClock,       \* bound: the clock stops here
    MaxExpects,     \* bound: failed expectations of one test
    MaxObjects,     \* bound: tracked objects and references of one test
    MaxTeardowns    \* bound: registered teardowns of one test

AllBodySteps == {"expect", "track", "teardown", "nested", "pump", "burn"}
TestKinds == [async : BOOLEAN, flaky : BOOLEAN]

ASSUME SelectionsAssumption == Selections \subseteq Seq(TestKinds)
ASSUME EngineAssumption == Trees \subseteq BOOLEAN /\ Disks \subseteq BOOLEAN
ASSUME BodiesAssumption == BodySteps \subseteq AllBodySteps /\ AwaitLoops \in BOOLEAN
ASSUME BudgetsAssumption ==
    /\ TimeoutMs \in Nat \ {0}
    /\ IsolateMs \in Nat \ {0}
    /\ FlakyRetries \in Nat
ASSUME WaitsAssumption ==
    /\ FrameWaits \subseteq Nat \ {0}
    /\ TimerWaits \subseteq Nat \ {0}
    /\ Timeouts \subseteq Nat
    /\ FrameMs \subseteq Nat
    /\ BurnMs \subseteq Nat
ASSUME BoundsAssumption ==
    /\ MaxAwaits \in Nat
    /\ MaxClock \in Nat /\ MaxClock >= IsolateMs
    /\ MaxExpects \in Nat /\ MaxObjects \in Nat /\ MaxTeardowns \in Nat

VARIABLES
    phase,      \* whose turn it is
    selected,   \* RunState::selected
    tree,       \* RunState::tree is not null
    next,       \* RunState::next: how many tests have been taken
    results,    \* RunState::results
    ctx,        \* the context of the test in hand (run_one's, or current_ctx)
    attempt,    \* run_one's loop counter
    active,     \* g_active_ctx points at ctx (FALSE: it is null)
    driver,     \* AsyncCoordinator::driver_active_
    slot,       \* AsyncCoordinator::current_ and request_
    connected,  \* RunState::connected
    clock,      \* now_ms() - RunState::test_start_ms
    sampled,    \* the `now' of the frame (or of the start) that resumed the body
    awaits,     \* how many awaits the test has made (bounded by MaxAwaits)
    wait,       \* history: when the current wait began, for what, frames since
    pumped,     \* history: the test in hand has driven a nested SubAsyncPump
    ended,      \* history: how the last body ended ("none" before its end)
    document,   \* the JSON document on disk
    exit_code   \* the code given to SceneTree::quit

coordinator == <<driver, slot>>
body == <<ctx, active, awaits, pumped, ended>>
run == <<selected, tree, next, results, attempt, connected>>
timing == <<clock, sampled, wait>>
outcome == <<document, exit_code>>
vars == <<phase, selected, tree, next, results, ctx, attempt, active, driver,
          slot, connected, clock, sampled, awaits, wait, pumped, ended,
          document, exit_code>>

-----------------------------------------------------------------------------
(* Contexts and results.  Failures are counted by kind: the code reads only *)
(* how many there are.                                                      *)

FailureKinds == {"expect", "abort", "exception", "teardown", "leak",
                 "timeout", "isolate", "no_tree", "no_driver"}
Endings == {"return", "abort", "skip", "throw"}
Verdicts == {"pass", "fail", "skipped", "crashed"}

FreshContext ==
    [failures |-> [k \in FailureKinds |-> 0], skipped |-> FALSE,
     objects |-> 0, frees |-> 0, throws |-> 0]

Contexts == [failures : [FailureKinds -> Nat], skipped : BOOLEAN,
             objects : Nat, frees : Nat, throws : Nat]
Results == [test : Nat, failures : [FailureKinds -> Nat], crashed : BOOLEAN,
            skipped : BOOLEAN, retries : Nat]

Fail(c, k) == [c EXCEPT !.failures[k] = @ + 1]
HasFailures(failures) == \E k \in FailureKinds : failures[k] > 0

\* No request, no handle: AsyncCoordinator::clear.
EmptySlot == [owner |-> 0, kind |-> "frames", left |-> 0,
              resume_at |-> -1, deadline |-> -1]
Slots == [owner : Nat, kind : {"frames", "timer"}, left : Int,
          resume_at : Int, deadline : Int]
NoWait == [since |-> 0, amount |-> 0, frames |-> 0]
Waits == [since : Nat, amount : Nat, frames : Nat]
NoTotals == [pass |-> 0, fail |-> 0, skip |-> 0, crashed |-> 0]
NoDocument == [written |-> FALSE, statuses |-> <<>>, totals |-> NoTotals]
NoExit == -1

Capped(t) == IF t > MaxClock THEN MaxClock ELSE t

Test == selected[next]

\* run_teardowns: every registered cleanup runs, a throwing one is recorded.
\* "frees" cleanups release one tracked object each.
Survivors(c) == IF c.frees >= c.objects THEN 0 ELSE c.objects - c.frees

AfterTeardownsStopAtThrow(c) ==
    IF c.throws > 0 THEN Fail(c, "teardown") ELSE [c EXCEPT !.objects = Survivors(c)]
AfterTeardowns(c) ==
    [failures |-> [c.failures EXCEPT !["teardown"] = @ + c.throws],
     skipped |-> c.skipped, objects |-> Survivors(c),
     frees |-> c.frees, throws |-> c.throws]

\* check_tracked_resources_impl: one failure for each tracked object alive.
WithLeaks(c) == [c EXCEPT !.failures["leak"] = @ + c.objects]

TornDown(c) == WithLeaks(AfterTeardowns(c))

\* The status write_json gives a result; the exit code and the human summary
\* are computed by loops of their own from the same fields.
Verdict(r) ==
    IF r.crashed THEN "crashed"
    ELSE IF HasFailures(r.failures) THEN "fail"
    ELSE IF r.skipped THEN "skipped" ELSE "pass"

\* finish_run's loop over the results.
FailedOnFailuresOnly(rs) == \E i \in DOMAIN rs : HasFailures(rs[i].failures)
AnyFailed(rs) ==
    \E i \in DOMAIN rs : rs[i].crashed \/ HasFailures(rs[i].failures)

Init ==
    /\ phase = "boot"
    /\ selected \in Selections
    /\ tree \in Trees
    /\ next = 0
    /\ results = <<>>
    /\ ctx = FreshContext
    /\ attempt = 0
    /\ active = FALSE
    /\ driver = FALSE
    /\ slot = EmptySlot
    /\ connected = FALSE
    /\ clock = 0
    /\ sampled = 0
    /\ awaits = 0
    /\ wait = NoWait
    /\ pumped = FALSE
    /\ ended = "none"
    /\ document = NoDocument
    /\ exit_code = NoExit

-----------------------------------------------------------------------------
(* run_all_and_quit: a usage error quits with 2, no --gdextest-run leaves   *)
(* the engine alone, a listing quits with 0, otherwise the run starts.      *)

Quit(code) == exit_code' = IF tree THEN code ELSE NoExit

RunAllAndQuit ==
    /\ phase = "boot"
    /\ \/ phase' = "over" /\ Quit(2)                    \* UsageError
       \/ phase' = "over" /\ UNCHANGED exit_code        \* !options.run
       \/ phase' = "over" /\ Quit(0)                    \* options.list_only
       \/ phase' = "dispatch" /\ UNCHANGED exit_code
    /\ UNCHANGED <<body, run, coordinator, timing, document>>

-----------------------------------------------------------------------------
(* start_next_test: the head of its loop.                                   *)

\* run_one up to the call of the body; also its second and later attempts.
EnterSyncBody(n) ==
    /\ attempt' = n
    /\ ctx' = FreshContext
    /\ active' = TRUE
    /\ pumped' = FALSE
    /\ ended' = "none"
    /\ awaits' = 0
    /\ phase' = "sync"

StartSync ==
    /\ phase = "dispatch" /\ next < Len(selected) /\ ~selected[next + 1].async
    /\ next' = next + 1
    /\ EnterSyncBody(0)
    /\ UNCHANGED <<selected, tree, results, connected, coordinator, timing,
                   outcome>>

StartAsyncDriverAsLeft ==
    /\ phase = "dispatch" /\ next < Len(selected) /\ selected[next + 1].async
    /\ next' = next + 1
    /\ ctx' = FreshContext
    /\ active' = TRUE
    /\ clock' = 0 /\ sampled' = 0 /\ wait' = NoWait
    /\ pumped' = FALSE
    /\ ended' = "none"
    /\ awaits' = 0
    /\ phase' = "async"
    /\ UNCHANGED <<selected, tree, results, attempt, connected, slot, driver,
                   outcome>>

\* The driver flag is asserted whatever earlier tests did to it.
StartAsync ==
    /\ phase = "dispatch" /\ next < Len(selected) /\ selected[next + 1].async
    /\ driver' = TRUE
    /\ next' = next + 1
    /\ ctx' = FreshContext
    /\ active' = TRUE
    /\ clock' = 0 /\ sampled' = 0 /\ wait' = NoWait
    /\ pumped' = FALSE
    /\ ended' = "none"
    /\ awaits' = 0
    /\ phase' = "async"
    /\ UNCHANGED <<selected, tree, results, attempt, connected, slot, outcome>>

NoTestLeftPastTheEnd ==
    /\ phase = "dispatch" /\ next = Len(selected)
    /\ next' = next + 1
    /\ connected' = FALSE
    /\ phase' = "write"
    /\ UNCHANGED <<selected, tree, results, attempt, body, coordinator, timing,
                   outcome>>

\* The loop ends: finish_run, up to the disconnection of the pump.
NoTestLeft ==
    /\ phase = "dispatch" /\ next = Len(selected)
    /\ connected' = FALSE
    /\ phase' = "write"
    /\ UNCHANGED <<selected, tree, next, results, attempt, body, coordinator,
                   timing, outcome>>

-----------------------------------------------------------------------------
(* The end of a test: its result joins the others, nothing of it stays.     *)

Record(r, how) ==
    /\ results' = Append(results, r)
    /\ phase' = "dispatch"
    /\ ended' = how
    /\ ctx' = FreshContext
    /\ active' = FALSE
    /\ pumped' = FALSE
    /\ awaits' = 0

\* clear() of the slot and destruction of the coroutine frame.
ReleaseCoroutineSlotKept ==
    /\ slot' = slot
    /\ clock' = 0 /\ sampled' = 0 /\ wait' = NoWait
ReleaseCoroutine ==
    /\ slot' = EmptySlot
    /\ clock' = 0 /\ sampled' = 0 /\ wait' = NoWait

\* fail_current_async: the teardowns run while the coroutine is suspended; the
\* leak check runs before and after the failure is recorded, so a leak counts
\* twice.
FailCurrentAsync(c, k) ==
    /\ Record([test |-> next,
               failures |-> WithLeaks(Fail(TornDown(c), k)).failures,
               crashed |-> FALSE, skipped |-> FALSE, retries |-> 0], "none")
    /\ ReleaseCoroutine

\* collect_async_result, for a body that ended in `how'.
CollectAsyncResult(c, how) ==
    /\ Record([test |-> next, failures |-> TornDown(c).failures,
               crashed |-> how \in {"abort", "throw"},
               skipped |-> how = "skip" \/ c.skipped, retries |-> 0], how)
    /\ ReleaseCoroutine

-----------------------------------------------------------------------------
(* What bodies do between two awaits.                                       *)

InBody == phase \in {"sync", "async"}

Expect ==
    /\ InBody /\ "expect" \in BodySteps
    /\ ctx.failures["expect"] < MaxExpects
    /\ ctx' = Fail(ctx, "expect")
    /\ UNCHANGED <<phase, active, awaits, pumped, ended, run, coordinator,
                   timing, outcome>>

TrackObject ==
    /\ InBody /\ "track" \in BodySteps
    /\ ctx.objects < MaxObjects
    /\ ctx' = [ctx EXCEPT !.objects = @ + 1]
    /\ UNCHANGED <<phase, active, awaits, pumped, ended, run, coordinator,
                   timing, outcome>>

AddTeardown ==
    /\ InBody /\ "teardown" \in BodySteps
    /\ ctx.frees + ctx.throws < MaxTeardowns
    /\ \/ ctx' = [ctx EXCEPT !.frees = @ + 1]
       \/ ctx' = [ctx EXCEPT !.throws = @ + 1]
    /\ UNCHANGED <<phase, active, awaits, pumped, ended, run, coordinator,
                   timing, outcome>>

\* run_sub_and_count_failures, run_sub_and_write_json: a nested body with a
\* context of its own.  g_active_ctx is null afterwards, not restored.
NestedRun ==
    /\ InBody /\ "nested" \in BodySteps
    /\ active' = FALSE
    /\ UNCHANGED <<phase, ctx, awaits, pumped, ended, run, coordinator, timing,
                   outcome>>

\* SubAsyncPump driven to its end: the slot is cleared, the driver flag too.
NestedPump ==
    /\ InBody /\ "pump" \in BodySteps
    /\ active' = FALSE
    /\ driver' = FALSE
    /\ slot' = EmptySlot
    /\ pumped' = TRUE
    /\ UNCHANGED <<phase, ctx, awaits, ended, run, timing, outcome>>

Burn ==
    /\ phase = "async" /\ "burn" \in BodySteps
    /\ \E d \in BurnMs : clock' = Capped(clock + d)
    /\ UNCHANGED <<phase, body, run, coordinator, sampled, wait, outcome>>

\* TestContext::abort_test, skip, and what their exceptions leave in the
\* context: both record on g_active_ctx, when there is one.
AtEnd(how) ==
    IF how = "abort" /\ active THEN Fail(ctx, "abort")
    ELSE IF how = "skip" /\ active THEN [ctx EXCEPT !.skipped = TRUE]
    ELSE IF how = "throw" /\ phase = "sync" THEN Fail(ctx, "exception")
    ELSE ctx

\* run_one after the body: teardowns, leak check, and another attempt for a
\* flaky test that failed and has one left.
MaxRetriesOffByOne == IF Test.flaky THEN FlakyRetries + 1 ELSE 0
MaxRetries == IF Test.flaky THEN FlakyRetries ELSE 0

EndSync(how) ==
    LET c == TornDown(AtEnd(how)) IN
    /\ phase = "sync"
    /\ IF c.skipped \/ ~HasFailures(c.failures) \/ attempt = MaxRetries
       THEN /\ Record([test |-> next, failures |-> c.failures,
                       crashed |-> FALSE, skipped |-> c.skipped,
                       retries |-> attempt], how)
            /\ attempt' = 0
       ELSE EnterSyncBody(attempt + 1) /\ UNCHANGED results
    /\ UNCHANGED <<selected, tree, next, connected, coordinator, timing,
                   outcome>>

EndAsync(how) ==
    /\ phase = "async"
    /\ CollectAsyncResult(AtEnd(how), how)
    /\ UNCHANGED <<selected, tree, next, attempt, connected, driver, outcome>>

-----------------------------------------------------------------------------
(* co_await: without a driver a failure is recorded and the body goes on;   *)
(* with one the request takes the slot and its deadlines are stamped with   *)
(* the time at which the body was resumed.  The first suspension of a test  *)
(* also needs a tree and connects the pump; a later one has both already.   *)

AwaitWithoutDriver ==
    /\ phase = "async" /\ ~driver /\ awaits < MaxAwaits
    /\ awaits' = awaits + 1
    /\ ctx' = Fail(ctx, "no_driver")
    /\ UNCHANGED <<phase, active, pumped, ended, run, coordinator, timing,
                   outcome>>

Larger(a, b) == IF a > b THEN a ELSE b
TimeoutOf(kind, n, t) ==
    IF t > 0 THEN t
    ELSE IF kind = "timer" THEN Larger(n, TimeoutMs) ELSE TimeoutMs

Request(kind, n, t) ==
    [owner |-> next, kind |-> kind,
     left |-> IF kind = "frames" THEN n ELSE 0,
     resume_at |-> IF kind = "timer" THEN sampled + n ELSE -1,
     deadline |-> sampled + TimeoutOf(kind, n, t)]

SuspendWithoutTree(kind, n, t) ==
    /\ phase = "async" /\ driver
    /\ AwaitLoops \/ awaits < MaxAwaits
    /\ slot' = Request(kind, n, t)
    /\ awaits' = IF AwaitLoops THEN awaits ELSE awaits + 1
    /\ wait' = [since |-> clock, amount |-> n, frames |-> 0]
    /\ connected' = tree
    /\ phase' = "engine"
    /\ UNCHANGED <<ctx, active, pumped, ended, results, clock, sampled,
                   selected, tree, next, attempt, driver, outcome>>
Suspend(kind, n, t) ==
    /\ phase = "async" /\ driver
    /\ AwaitLoops \/ awaits < MaxAwaits
    /\ IF tree
       THEN /\ slot' = Request(kind, n, t)
            /\ awaits' = IF AwaitLoops THEN awaits ELSE awaits + 1
            /\ wait' = [since |-> clock, amount |-> n, frames |-> 0]
            /\ connected' = TRUE
            /\ phase' = "engine"
            /\ UNCHANGED <<ctx, active, pumped, ended, results, clock, sampled>>
       ELSE FailCurrentAsync(ctx, "no_tree") /\ UNCHANGED connected
    /\ UNCHANGED <<selected, tree, next, attempt, driver, outcome>>

Await ==
    \E t \in Timeouts :
        \/ \E n \in FrameWaits : Suspend("frames", n, t)
        \/ \E n \in TimerWaits : Suspend("timer", n, t)

-----------------------------------------------------------------------------
(* on_engine_frame, t being the time it samples: advance() the wait, then   *)
(* keep waiting, fail the test or resume its body.                          *)

Ticked == IF slot.kind = "frames" THEN [slot EXCEPT !.left = @ - 1] ELSE slot

AdvanceDeadlineFirst(s, t) ==
    IF s.owner = 0 THEN "resolved"
    ELSE IF t >= s.deadline THEN "timed_out"
    ELSE IF s.kind = "frames"
         THEN IF s.left <= 0 THEN "resolved" ELSE "pending"
         ELSE IF t >= s.resume_at THEN "resolved" ELSE "pending"
Advance(s, t) ==
    IF s.owner = 0 \/ (s.kind = "frames" /\ s.left <= 0)
                   \/ (s.kind = "timer" /\ t >= s.resume_at) THEN "resolved"
    ELSE IF t >= s.deadline THEN "timed_out" ELSE "pending"

FrameTimes == {Capped(clock + d) : d \in FrameMs}
FrameAt(t, status) ==
    /\ phase = "engine" /\ connected
    /\ Advance(Ticked, t) = status
    /\ driver' = TRUE
    /\ UNCHANGED <<selected, tree, next, attempt, connected, outcome>>

\* The whole test has used up its budget while a wait is pending.
IsolateOverrunNever(t) == FALSE
IsolateOverrun(t) == t >= IsolateMs

FrameWaiting ==
    \E t \in FrameTimes :
        /\ FrameAt(t, "pending") /\ ~IsolateOverrun(t)
        /\ slot' = Ticked
        /\ clock' = t
        /\ wait' = [wait EXCEPT !.frames = @ + 1]
        /\ UNCHANGED <<phase, body, results, sampled>>

FrameOverrun ==
    \E t \in FrameTimes :
        /\ FrameAt(t, "pending") /\ IsolateOverrun(t)
        /\ FailCurrentAsync(ctx, "isolate")

FrameTimesOutTestStays ==
    \E t \in FrameTimes :
        /\ FrameAt(t, "timed_out")
        /\ results' = Append(results, [test |-> next, crashed |-> FALSE,
               failures |-> Fail(TornDown(ctx), "timeout").failures,
               skipped |-> FALSE, retries |-> 0])
        /\ UNCHANGED <<phase, body, slot, timing>>
FrameTimesOut ==
    \E t \in FrameTimes :
        /\ FrameAt(t, "timed_out")
        /\ FailCurrentAsync(ctx, "timeout")

\* The slot keeps the handle while the body runs.
FrameResumes ==
    \E t \in FrameTimes :
        /\ FrameAt(t, "resolved")
        /\ slot' = Ticked
        /\ clock' = t /\ sampled' = t
        /\ wait' = [wait EXCEPT !.frames = @ + 1]
        /\ phase' = "async"
        /\ UNCHANGED <<body, results>>

-----------------------------------------------------------------------------
(* finish_run: the JSON documents, then the report and the host's shutdown, *)
(* then the exit code.                                                      *)

CountOf(rs, verdict) == Cardinality({i \in DOMAIN rs : Verdict(rs[i]) = verdict})
TotalsCrashedNotFailed(rs) ==
    [pass |-> CountOf(rs, "pass"), fail |-> CountOf(rs, "fail"),
     skip |-> CountOf(rs, "skipped"), crashed |-> CountOf(rs, "crashed")]
Totals(rs) ==
    [pass |-> CountOf(rs, "pass"),
     fail |-> CountOf(rs, "fail") + CountOf(rs, "crashed"),
     skip |-> CountOf(rs, "skipped"), crashed |-> CountOf(rs, "crashed")]

StatusesOf(rs) == [i \in DOMAIN rs |-> Verdict(rs[i])]

WriteDocument ==
    /\ phase = "write"
    /\ phase' = "report"
    /\ \E opened \in Disks :
          document' = IF opened
                      THEN [written |-> TRUE, statuses |-> StatusesOf(results),
                            totals |-> Totals(results)]
                      ELSE document
    /\ UNCHANGED <<run, body, coordinator, timing, exit_code>>

ReportAndQuit ==
    /\ phase = "report"
    /\ phase' = "over"
    /\ driver' = FALSE
    /\ Quit(IF AnyFailed(results) THEN 1 ELSE 0)
    /\ UNCHANGED <<run, body, slot, timing, document>>

\* Test code, the disk or the host's shutdown hook may take the process down.
Die ==
    /\ phase \in {"sync", "async", "write", "report"}
    /\ phase' = "dead"
    /\ UNCHANGED <<run, body, coordinator, timing, outcome>>

Stopped == phase \in {"over", "dead"} /\ UNCHANGED vars

-----------------------------------------------------------------------------
End == \E how \in Endings : EndSync(how) \/ EndAsync(how)
Body == Expect \/ TrackObject \/ AddTeardown \/ NestedRun \/ NestedPump
        \/ Burn \/ AwaitWithoutDriver \/ Await \/ End
Frame == FrameWaiting \/ FrameOverrun \/ FrameTimesOut \/ FrameResumes
Drive == RunAllAndQuit \/ StartSync \/ StartAsync \/ NoTestLeft
         \/ WriteDocument \/ ReportAndQuit

Next == Drive \/ Body \/ Frame \/ Die \/ Stopped

Spec == Init /\ [][Next]_vars

\* The runner's own code runs on, bodies end or await, and the engine keeps
\* emitting process_frame.
FairSpec == Spec /\ WF_vars(Drive) /\ WF_vars(Body) /\ WF_vars(Frame)
=============================================================================
