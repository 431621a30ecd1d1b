---------------------------- MODULE RunnerProofs ----------------------------
(***************************************************************************)
(* Proofs about the runner, for all selections, budgets and bounds: types, *)
(* results in the order of the selection, nothing that outlives its test,  *)
(* that the runner implements TestRun, that evidence, retries and drivers  *)
(* belong to the test they come from, that waits resume when they are due, *)
(* and that document and exit code agree.                                  *)
(***************************************************************************)
EXTENDS RunnerProps, SequenceTheorems, FiniteSetTheorems, TLAPS

-----------------------------------------------------------------------------
(* Contexts and results keep their types.                                   *)

\* The contexts that come up are contexts.
LEMMA FreshContextType == FreshContext \in Contexts
  BY DEF FreshContext, Contexts

LEMMA FailType ==
    ASSUME NEW c \in Contexts, NEW k \in FailureKinds
    PROVE  Fail(c, k) \in Contexts
  BY DEF Fail, Contexts

LEMMA RegisteredType ==
    ASSUME NEW c \in Contexts
    PROVE  /\ [c EXCEPT !.objects = @ + 1] \in Contexts
           /\ [c EXCEPT !.frees = @ + 1] \in Contexts
           /\ [c EXCEPT !.throws = @ + 1] \in Contexts
  BY DEF Contexts

LEMMA AfterTeardownsType ==
    ASSUME NEW c \in Contexts
    PROVE  AfterTeardowns(c) \in Contexts
  BY DEF AfterTeardowns, Survivors, Contexts, FailureKinds

LEMMA WithLeaksType ==
    ASSUME NEW c \in Contexts
    PROVE  WithLeaks(c) \in Contexts
  BY DEF WithLeaks, Contexts, FailureKinds

LEMMA TornDownType ==
    ASSUME NEW c \in Contexts
    PROVE  TornDown(c) \in Contexts
  BY AfterTeardownsType, WithLeaksType DEF TornDown

LEMMA AtEndType ==
    ASSUME ctx \in Contexts, NEW how \in Endings
    PROVE  AtEnd(how) \in Contexts
  BY FailType DEF AtEnd, Contexts, FailureKinds

LEMMA StatusesType ==
    ASSUME NEW rs \in Seq(Results)
    PROVE  /\ StatusesOf(rs) \in Seq(Verdicts)
           /\ Len(StatusesOf(rs)) = Len(rs)
           /\ \A i \in 1 .. Len(rs) : StatusesOf(rs)[i] = Verdict(rs[i])
  <1>1. StatusesOf(rs) \in [1 .. Len(rs) -> Verdicts]
    BY DEF StatusesOf, Verdict, Verdicts
  <1>2. QED
    BY <1>1, IsASeq DEF StatusesOf

-----------------------------------------------------------------------------
(* The pieces the actions share.                                            *)

\* The types hold at the start.
LEMMA InitType == Init => TypeOK
  <1> SUFFICES ASSUME Init PROVE TypeOK
    OBVIOUS
  <1>1. selected \in Seq(TestKinds) /\ tree \in BOOLEAN
    BY SelectionsAssumption, EngineAssumption DEF Init
  <1>2. ctx \in Contexts
    BY FreshContextType DEF Init
  <1>3. slot \in Slots /\ wait \in Waits
    BY DEF Init, EmptySlot, Slots, NoWait, Waits
  <1>4. results \in Seq(Results) /\ document.statuses \in Seq(Verdicts)
    BY EmptySeq DEF Init, NoDocument
  <1>5. next <= Len(selected)
    BY <1>1 DEF Init
  <1>6. document.written \in BOOLEAN /\ exit_code \in {NoExit, 0, 1, 2}
    BY DEF Init, NoDocument
  <1> QED
    BY <1>1, <1>2, <1>3, <1>4, <1>5, <1>6 DEF Init, TypeOK, Phases

\* Recording a result keeps the types.
LEMMA RecordType ==
    ASSUME results \in Seq(Results),
           NEW r \in Results, NEW how \in Endings \cup {"none"}, Record(r, how)
    PROVE  /\ results' \in Seq(Results) /\ Len(results') = Len(results) + 1
           /\ \A i \in 1 .. Len(results) : results'[i] = results[i]
           /\ results'[Len(results) + 1] = r
           /\ phase' = "dispatch" /\ ctx' = FreshContext /\ ctx' \in Contexts
           /\ active' = FALSE /\ pumped' = FALSE /\ awaits' = 0
           /\ ended' \in Endings \cup {"none"}
  BY FreshContextType, AppendProperties DEF Record

\* So does letting a test go.
LEMMA ReleaseType ==
    ASSUME ReleaseCoroutine
    PROVE  /\ slot' = EmptySlot /\ slot' \in Slots
           /\ clock' = 0 /\ sampled' = 0 /\ wait' \in Waits
  BY DEF ReleaseCoroutine, EmptySlot, Slots, NoWait, Waits

\* What both collectors do to the variables they share, and the result each
\* of them records.
FailedResult(c, k) ==
    [test |-> next, failures |-> WithLeaks(Fail(TornDown(c), k)).failures,
     crashed |-> FALSE, skipped |-> FALSE, retries |-> 0]
CollectedResult(c, how) ==
    [test |-> next, failures |-> TornDown(c).failures,
     crashed |-> how \in {"abort", "throw"},
     skipped |-> how = "skip" \/ c.skipped, retries |-> 0]

LEMMA FailedResultType ==
    ASSUME next \in Nat, NEW c \in Contexts, NEW k \in FailureKinds
    PROVE  FailedResult(c, k) \in Results
  <1>1. WithLeaks(Fail(TornDown(c), k)) \in Contexts
    BY TornDownType, FailType, WithLeaksType
  <1> QED
    BY <1>1 DEF FailedResult, Results, Contexts

LEMMA CollectedResultType ==
    ASSUME next \in Nat, NEW c \in Contexts, NEW how \in Endings
    PROVE  CollectedResult(c, how) \in Results
  <1>1. TornDown(c) \in Contexts
    BY TornDownType
  <1> QED
    BY <1>1 DEF CollectedResult, Results, Contexts

\* Giving a test up records its failure.
LEMMA FailCurrentAsyncRecords ==
    ASSUME NEW c, NEW k, FailCurrentAsync(c, k)
    PROVE  Record(FailedResult(c, k), "none") /\ ReleaseCoroutine
  BY DEF FailCurrentAsync, FailedResult

LEMMA CappedType ==
    ASSUME NEW t \in Nat
    PROVE  Capped(t) \in Nat
  BY BoundsAssumption DEF Capped

LEMMA FrameTimesType ==
    ASSUME clock \in Nat
    PROVE  FrameTimes \subseteq Nat
  BY WaitsAssumption, CappedType DEF FrameTimes

LEMMA RequestType ==
    ASSUME TypeOK, NEW kind \in {"frames", "timer"}, NEW n \in Nat, NEW t \in Nat
    PROVE  Request(kind, n, t) \in Slots
  <1>1. TimeoutOf(kind, n, t) \in Nat
    BY BudgetsAssumption DEF TimeoutOf, Larger
  <1> QED
    BY <1>1 DEF Request, Slots, TypeOK

\* The clock keeps its types.
LEMMA TickedType ==
    ASSUME slot \in Slots
    PROVE  /\ Ticked \in Slots
           /\ Ticked.owner = slot.owner
           /\ Ticked.kind = slot.kind
  BY DEF Ticked, Slots

-----------------------------------------------------------------------------
(* Every action preserves the types.                                        *)

\* The variables a step of the runner that judges no test may leave alone.
LEMMA DriveType == TypeOK /\ Drive => TypeOK'
  <1> SUFFICES ASSUME TypeOK, Drive PROVE TypeOK'
    OBVIOUS
  <1> USE DEF TypeOK, run, body, coordinator, timing, outcome
  <1>1. CASE RunAllAndQuit
    BY <1>1 DEF RunAllAndQuit, Quit, NoExit, Phases
  <1>2. CASE StartSync
    <2>1. ctx' \in Contexts /\ phase' \in Phases /\ ended' \in Endings \cup {"none"}
      BY <1>2, FreshContextType DEF StartSync, EnterSyncBody, Phases
    <2>2. next' \in Nat /\ next' <= Len(selected) /\ attempt' \in Nat /\ awaits' \in Nat
      BY <1>2 DEF StartSync, EnterSyncBody
    <2>3. active' \in BOOLEAN /\ pumped' \in BOOLEAN
      BY <1>2 DEF StartSync, EnterSyncBody
    <2> QED
      BY <1>2, <2>1, <2>2, <2>3 DEF StartSync
  <1>3. CASE StartAsync
    <2>1. wait' \in Waits
      BY <1>3 DEF StartAsync, NoWait, Waits
    <2>2. ctx' \in Contexts /\ phase' \in Phases /\ ended' \in Endings \cup {"none"}
      BY <1>3, FreshContextType DEF StartAsync, Phases
    <2>3. next' \in Nat /\ next' <= Len(selected) /\ awaits' \in Nat
          /\ clock' \in Nat /\ sampled' \in Nat
      BY <1>3 DEF StartAsync
    <2>4. active' \in BOOLEAN /\ pumped' \in BOOLEAN /\ driver' \in BOOLEAN
      BY <1>3 DEF StartAsync
    <2> QED
      BY <1>3, <2>1, <2>2, <2>3, <2>4 DEF StartAsync
  <1>4. CASE NoTestLeft
    BY <1>4 DEF NoTestLeft, Phases
  <1>5. CASE WriteDocument
    <2>1. PICK opened \in Disks :
             document' = IF opened
                         THEN [written |-> TRUE, statuses |-> StatusesOf(results),
                               totals |-> Totals(results)]
                         ELSE document
      BY <1>5 DEF WriteDocument
    <2>2. document'.written \in BOOLEAN /\ document'.statuses \in Seq(Verdicts)
      BY <2>1, StatusesType
    <2> QED
      BY <1>5, <2>2 DEF WriteDocument, Phases
  <1>6. CASE ReportAndQuit
    BY <1>6 DEF ReportAndQuit, Quit, NoExit, Phases
  <1> QED
    BY <1>1, <1>2, <1>3, <1>4, <1>5, <1>6 DEF Drive

\* Each step of a test keeps the types.
LEMMA FailCurrentAsyncType ==
    ASSUME TypeOK, NEW k \in FailureKinds, FailCurrentAsync(ctx, k),
           UNCHANGED <<selected, tree, next, attempt, outcome>>,
           driver' \in BOOLEAN, connected' \in BOOLEAN
    PROVE  TypeOK'
  <1>1. FailedResult(ctx, k) \in Results
    BY FailedResultType DEF TypeOK
  <1>2. Record(FailedResult(ctx, k), "none") /\ ReleaseCoroutine
    BY FailCurrentAsyncRecords
  <1>3. results' \in Seq(Results) /\ ctx' \in Contexts /\ phase' = "dispatch"
        /\ active' = FALSE /\ pumped' = FALSE /\ awaits' = 0
        /\ ended' \in Endings \cup {"none"}
    BY <1>1, <1>2, RecordType DEF TypeOK
  <1>4. slot' \in Slots /\ clock' = 0 /\ sampled' = 0 /\ wait' \in Waits
    BY <1>2, ReleaseType
  <1> QED
    BY <1>3, <1>4 DEF TypeOK, Phases, outcome

LEMMA SuspendType ==
    ASSUME TypeOK, NEW kind \in {"frames", "timer"}, NEW n \in Nat, NEW t \in Nat,
           Suspend(kind, n, t)
    PROVE  TypeOK'
  <1>1. CASE tree
    <2>1. slot' \in Slots
      BY <1>1, RequestType DEF Suspend
    <2>2. wait' \in Waits
      BY <1>1 DEF Suspend, Waits, TypeOK
    <2> QED
      BY <1>1, <2>1, <2>2 DEF Suspend, TypeOK, Phases, outcome
  <1>2. CASE ~tree
    <2>1. FailCurrentAsync(ctx, "no_tree") /\ connected' \in BOOLEAN
          /\ driver' \in BOOLEAN /\ UNCHANGED <<selected, tree, next, attempt, outcome>>
      BY <1>2 DEF Suspend, TypeOK
    <2> QED
      BY <2>1, FailCurrentAsyncType DEF FailureKinds
  <1> QED
    BY <1>1, <1>2

LEMMA EndSyncType ==
    ASSUME TypeOK, NEW how \in Endings, EndSync(how)
    PROVE  TypeOK'
  <1> DEFINE c == TornDown(AtEnd(how))
             r == [test |-> next, failures |-> c.failures, crashed |-> FALSE,
                   skipped |-> c.skipped, retries |-> attempt]
  <1>1. c \in Contexts
    BY AtEndType, TornDownType DEF TypeOK
  <1>2. r \in Results
    BY <1>1 DEF Results, Contexts, TypeOK
  <1>3. CASE Record(r, how) /\ attempt' = 0
    <2>1. results' \in Seq(Results) /\ ctx' \in Contexts /\ phase' = "dispatch"
          /\ active' = FALSE /\ pumped' = FALSE /\ awaits' = 0
          /\ ended' \in Endings \cup {"none"}
      BY <1>2, <1>3, RecordType DEF TypeOK
    <2> QED
      BY <1>3, <2>1 DEF EndSync, TypeOK, Phases, coordinator, timing, outcome
  <1>4. CASE EnterSyncBody(attempt + 1) /\ UNCHANGED results
    <2>1. ctx' \in Contexts /\ phase' \in Phases /\ ended' \in Endings \cup {"none"}
      BY <1>4, FreshContextType DEF EnterSyncBody, Phases
    <2>2. attempt' \in Nat /\ awaits' \in Nat 
      BY <1>4 DEF EnterSyncBody, TypeOK
    <2>3. active' \in BOOLEAN /\ pumped' \in BOOLEAN
      BY <1>4 DEF EnterSyncBody
    <2> QED
      BY <1>4, <2>1, <2>2, <2>3 DEF EndSync, TypeOK, coordinator, timing, outcome
  <1> QED
    BY <1>3, <1>4 DEF EndSync

LEMMA EndAsyncType ==
    ASSUME TypeOK, NEW how \in Endings, EndAsync(how)
    PROVE  TypeOK'
  <1> DEFINE r == CollectedResult(AtEnd(how), how)
  <1>1. r \in Results
    BY AtEndType, CollectedResultType DEF TypeOK
  <1>2. Record(r, how) /\ ReleaseCoroutine
    BY DEF EndAsync, CollectAsyncResult, CollectedResult
  <1>3. results' \in Seq(Results) /\ ctx' \in Contexts /\ phase' = "dispatch"
        /\ active' = FALSE /\ pumped' = FALSE /\ awaits' = 0
        /\ ended' \in Endings \cup {"none"}
    BY <1>1, <1>2, RecordType DEF TypeOK
  <1>4. slot' \in Slots /\ clock' = 0 /\ sampled' = 0 /\ wait' \in Waits
    BY <1>2, ReleaseType
  <1> QED
    BY <1>3, <1>4 DEF EndAsync, TypeOK, Phases, outcome

LEMMA BodyType == TypeOK /\ Body => TypeOK'
  <1> SUFFICES ASSUME TypeOK, Body PROVE TypeOK'
    OBVIOUS
  <1> USE DEF run, coordinator, timing, outcome
  <1>1. CASE Expect
    BY <1>1, FailType DEF Expect, TypeOK, FailureKinds
  <1>2. CASE TrackObject
    <2>1. ctx' \in Contexts
      BY <1>2, RegisteredType DEF TrackObject, TypeOK
    <2> QED
      BY <1>2, <2>1 DEF TrackObject, TypeOK
  <1>3. CASE AddTeardown
    <2>1. ctx' \in Contexts
      BY <1>3, RegisteredType DEF AddTeardown, TypeOK
    <2> QED
      BY <1>3, <2>1 DEF AddTeardown, TypeOK
  <1>4. CASE NestedRun
    BY <1>4 DEF NestedRun, TypeOK
  <1>5. CASE NestedPump
    <2>1. slot' \in Slots
      BY <1>5 DEF NestedPump, EmptySlot, Slots
    <2> QED
      BY <1>5, <2>1 DEF NestedPump, TypeOK
  <1>6. CASE Burn
    <2>1. clock' \in Nat
      BY <1>6, WaitsAssumption, CappedType DEF Burn, TypeOK
    <2> QED
      BY <1>6, <2>1 DEF Burn, TypeOK, body
  <1>7. CASE AwaitWithoutDriver
    BY <1>7, FailType DEF AwaitWithoutDriver, TypeOK, FailureKinds
  <1>8. CASE Await
    BY <1>8, SuspendType, WaitsAssumption DEF Await
  <1>9. CASE End
    BY <1>9, EndSyncType, EndAsyncType DEF End
  <1> QED
    BY <1>1, <1>2, <1>3, <1>4, <1>5, <1>6, <1>7, <1>8, <1>9 DEF Body

LEMMA FrameType == TypeOK /\ Frame => TypeOK'
  <1> SUFFICES ASSUME TypeOK, Frame PROVE TypeOK'
    OBVIOUS
  <1>1. FrameTimes \subseteq Nat
    BY FrameTimesType DEF TypeOK
  <1>2. CASE FrameWaiting
    <2>1. slot' \in Slots
      BY <1>2, TickedType DEF FrameWaiting, TypeOK
    <2>2. clock' \in Nat
      BY <1>1, <1>2 DEF FrameWaiting
    <2>3. wait' \in Waits
      <3>1. wait' = [wait EXCEPT !.frames = @ + 1]
        BY <1>2 DEF FrameWaiting
      <3>2. wait \in Waits
        BY DEF TypeOK
      <3> QED
        BY <3>1, <3>2 DEF Waits
    <2> QED
      BY <1>2, <2>1, <2>2, <2>3 DEF FrameWaiting, FrameAt, TypeOK, body, outcome
  <1>3. CASE FrameOverrun
    BY <1>1, <1>3, FailCurrentAsyncType
       DEF FrameOverrun, FrameAt, FailureKinds, TypeOK
  <1>4. CASE FrameTimesOut
    BY <1>1, <1>4, FailCurrentAsyncType
       DEF FrameTimesOut, FrameAt, FailureKinds, TypeOK
  <1>5. CASE FrameResumes
    <2>1. slot' \in Slots
      BY <1>5, TickedType DEF FrameResumes, TypeOK
    <2>2. clock' \in Nat /\ sampled' \in Nat
      BY <1>1, <1>5 DEF FrameResumes
    <2>3. wait' \in Waits
      <3>1. wait' = [wait EXCEPT !.frames = @ + 1]
        BY <1>5 DEF FrameResumes
      <3>2. wait \in Waits
        BY DEF TypeOK
      <3> QED
        BY <3>1, <3>2 DEF Waits
    <2> QED
      BY <1>5, <2>1, <2>2, <2>3 DEF FrameResumes, FrameAt, TypeOK, Phases, body, outcome
  <1> QED
    BY <1>2, <1>3, <1>4, <1>5 DEF Frame

\* Every step keeps the types.
LEMMA NextType == TypeOK /\ [Next]_vars => TypeOK'
  <1> SUFFICES ASSUME TypeOK, [Next]_vars PROVE TypeOK'
    OBVIOUS
  <1>1. CASE Die
    BY <1>1 DEF Die, TypeOK, Phases, run, body, coordinator, timing, outcome
  <1>2. CASE UNCHANGED vars
    BY <1>2 DEF TypeOK, vars
  <1> QED
    BY <1>1, <1>2, DriveType, BodyType, FrameType DEF Next, Stopped

\* Every variable keeps its type, for all selections, budgets and bounds.
THEOREM TypeInvariant == Spec => []TypeOK
  BY InitType, NextType, PTL DEF Spec

-----------------------------------------------------------------------------
(* Results follow the selection.                                            *)

\* A result is recorded by these actions only, for the test in hand and while
\* it is in hand; the other actions leave the results and `next' alone or take
\* a test.
LEMMA JudgingSteps ==
    ASSUME TypeOK, Next, results' # results
    PROVE  /\ InTest
           /\ UNCHANGED <<selected, next>>
           /\ \E r \in Results, how \in Endings \cup {"none"} :
                  r.test = next /\ Record(r, how)
  <1>1. ASSUME NEW k \in FailureKinds, FailCurrentAsync(ctx, k)
        PROVE  \E r \in Results, how \in Endings \cup {"none"} :
                  r.test = next /\ Record(r, how)
    <2>1. FailedResult(ctx, k) \in Results /\ FailedResult(ctx, k).test = next
      BY FailedResultType DEF TypeOK, FailedResult
    <2> QED
      BY <1>1, <2>1, FailCurrentAsyncRecords
  <1>2. ASSUME NEW kind, NEW n, NEW t, Suspend(kind, n, t)
        PROVE  /\ InTest /\ UNCHANGED <<selected, next>>
               /\ \E r \in Results, how \in Endings \cup {"none"} :
                      r.test = next /\ Record(r, how)
    BY <1>1, <1>2 DEF Suspend, InTest, FailureKinds
  <1>3. ASSUME NEW how \in Endings, EndSync(how)
        PROVE  /\ InTest /\ UNCHANGED <<selected, next>>
               /\ \E r \in Results, h \in Endings \cup {"none"} :
                      r.test = next /\ Record(r, h)
    <2> DEFINE c == TornDown(AtEnd(how))
               r == [test |-> next, failures |-> c.failures, crashed |-> FALSE,
                     skipped |-> c.skipped, retries |-> attempt]
    <2>1. c \in Contexts
      BY AtEndType, TornDownType DEF TypeOK
    <2>2. r \in Results /\ r.test = next
      BY <2>1 DEF Results, Contexts, TypeOK
    <2>3. Record(r, how)
      BY <1>3 DEF EndSync
    <2> QED
      BY <1>3, <2>2, <2>3 DEF EndSync, InTest
  <1>4. ASSUME NEW how \in Endings, EndAsync(how)
        PROVE  /\ InTest /\ UNCHANGED <<selected, next>>
               /\ \E r \in Results, h \in Endings \cup {"none"} :
                      r.test = next /\ Record(r, h)
    <2>1. /\ CollectedResult(AtEnd(how), how) \in Results
          /\ CollectedResult(AtEnd(how), how).test = next
      BY AtEndType, CollectedResultType DEF TypeOK, CollectedResult
    <2>2. Record(CollectedResult(AtEnd(how), how), how)
      BY <1>4 DEF EndAsync, CollectAsyncResult, CollectedResult
    <2> QED
      BY <1>4, <2>1, <2>2 DEF EndAsync, InTest
  <1>5. CASE FrameOverrun \/ FrameTimesOut
    BY <1>1, <1>5 DEF FrameOverrun, FrameTimesOut, FrameAt, InTest, FailureKinds
  <1>6. CASE Await
    BY <1>2, <1>6 DEF Await
  <1>7. CASE End
    BY <1>3, <1>4, <1>7 DEF End
  <1>8. CASE Drive
    BY <1>8 DEF Drive, RunAllAndQuit, StartSync, StartAsync, NoTestLeft,
                WriteDocument, ReportAndQuit, run
  <1>9. CASE Expect \/ TrackObject \/ AddTeardown \/ NestedRun \/ NestedPump
             \/ Burn \/ AwaitWithoutDriver
    BY <1>9 DEF Expect, TrackObject, AddTeardown, NestedRun, NestedPump, Burn,
                AwaitWithoutDriver, run
  <1>10. CASE FrameWaiting \/ FrameResumes \/ Die \/ Stopped
    BY <1>10 DEF FrameWaiting, FrameResumes, Die, Stopped, vars, run
  <1> QED
    BY <1>5, <1>6, <1>7, <1>8, <1>9, <1>10 DEF Next, Body, Frame

\* Nothing has been taken before the run starts: what ResultsFollowSelection
\* needs to be inductive.
NothingTakenYet == phase = "boot" => next = 0 /\ exit_code = NoExit

\* A step that records no result stays with the test in hand, takes the next
\* one, or moves on between tests.
LEMMA QuietSteps ==
    ASSUME TypeOK, Next, results' = results
    PROVE  /\ UNCHANGED selected
           /\ \/ InTest /\ InTest' /\ next' = next
              \/ InTest /\ phase' = "dead" /\ next' = next
              \/ phase = "dispatch" /\ InTest' /\ next' = next + 1
              \/ phase = "boot" /\ phase' \in {"over", "dispatch"} /\ next' = next
              \/ phase = "dispatch" /\ phase' = "write" /\ next' = next /\ next = Len(selected)
              \/ phase = "write" /\ phase' \in {"report", "dead"} /\ next' = next
              \/ phase = "report" /\ phase' \in {"over", "dead"} /\ next' = next
              \/ phase \in {"over", "dead"} /\ phase' = phase /\ next' = next
  <1>1. ~ \E r, how : Record(r, how) /\ r \in Results
    BY AppendProperties DEF Record, TypeOK
  <1>2. ASSUME NEW k \in FailureKinds, FailCurrentAsync(ctx, k)
        PROVE  FALSE
    BY <1>1, <1>2, FailedResultType, FailCurrentAsyncRecords DEF TypeOK
  <1>3. CASE Await
    BY <1>2, <1>3 DEF Await, Suspend, InTest, FailureKinds
  <1>4. ASSUME NEW how \in Endings, EndSync(how)
        PROVE  InTest /\ InTest' /\ next' = next /\ UNCHANGED selected
    <2> DEFINE c == TornDown(AtEnd(how))
               r == [test |-> next, failures |-> c.failures, crashed |-> FALSE,
                     skipped |-> c.skipped, retries |-> attempt]
    <2>1. c \in Contexts
      BY AtEndType, TornDownType DEF TypeOK
    <2>2. r \in Results
      BY <2>1 DEF Results, Contexts, TypeOK
    <2>3. ~ Record(r, how)
      BY <1>1, <2>2
    <2> QED
      BY <1>4, <2>3 DEF EndSync, EnterSyncBody, InTest
  <1>5. ASSUME NEW how \in Endings, EndAsync(how)
        PROVE  FALSE
    <2>1. CollectedResult(AtEnd(how), how) \in Results
      BY AtEndType, CollectedResultType DEF TypeOK
    <2> QED
      BY <1>1, <1>5, <2>1 DEF EndAsync, CollectAsyncResult, CollectedResult
  <1>6. CASE FrameOverrun \/ FrameTimesOut
    BY <1>2, <1>6 DEF FrameOverrun, FrameTimesOut, FailureKinds
  <1>7. CASE Drive
    BY <1>7 DEF Drive, RunAllAndQuit, StartSync, StartAsync, NoTestLeft,
                WriteDocument, ReportAndQuit, EnterSyncBody, run, InTest
  <1>8. CASE Expect \/ TrackObject \/ AddTeardown \/ NestedRun \/ NestedPump
             \/ Burn \/ AwaitWithoutDriver
    BY <1>8 DEF Expect, TrackObject, AddTeardown, NestedRun, NestedPump, Burn,
                AwaitWithoutDriver, run, InTest, InBody
  <1>9. CASE FrameWaiting \/ FrameResumes
    BY <1>9 DEF FrameWaiting, FrameResumes, FrameAt, InTest
  <1>10. CASE Die \/ Stopped
    BY <1>10 DEF Die, Stopped, vars, run, InTest
  <1>11. CASE End
    BY <1>4, <1>5, <1>11 DEF End
  <1> QED
    BY <1>3, <1>6, <1>7, <1>8, <1>9, <1>10, <1>11 DEF Next, Body, Frame

\* Every step keeps results and selection together.
LEMMA ResultsFollowStep ==
    TypeOK /\ NothingTakenYet /\ ResultsFollowSelection /\ [Next]_vars
        => NothingTakenYet' /\ ResultsFollowSelection'
  <1> SUFFICES ASSUME TypeOK, NothingTakenYet, ResultsFollowSelection, [Next]_vars
               PROVE  NothingTakenYet' /\ ResultsFollowSelection'
    OBVIOUS
  <1>1. CASE Next /\ results' # results
    <2>1. InTest /\ UNCHANGED <<selected, next>>
      BY <1>1, JudgingSteps
    <2>2. PICK r \in Results, how \in Endings \cup {"none"} :
             r.test = next /\ Record(r, how)
      BY <1>1, JudgingSteps
    <2>3. /\ Len(results') = Len(results) + 1 /\ phase' = "dispatch"
          /\ \A i \in 1 .. Len(results) : results'[i] = results[i]
          /\ results'[Len(results) + 1] = r
      BY <2>2, RecordType DEF TypeOK
    <2>4. Len(results) = next - 1 /\ Len(results) \in Nat
      BY <2>1, LenProperties DEF ResultsFollowSelection, TypeOK
    <2>5. \A i \in 1 .. Len(results') : results'[i].test = i
      BY <2>2, <2>3, <2>4 DEF ResultsFollowSelection, TypeOK
    <2> QED
      BY <2>1, <2>3, <2>4, <2>5
         DEF ResultsFollowSelection, InTest, TypeOK, NothingTakenYet
  <1>2. CASE Next /\ results' = results
    BY <1>2, QuietSteps DEF ResultsFollowSelection, NothingTakenYet, InTest, TypeOK
  <1>3. CASE UNCHANGED vars
    BY <1>3 DEF vars, ResultsFollowSelection, NothingTakenYet, InTest
  <1> QED
    BY <1>1, <1>2, <1>3

\* One result for each test taken, in the order of the selection, for every
\* selection and whatever the tests and the engine do.
THEOREM ResultsFollowTheSelection == Spec => []ResultsFollowSelection
  <1>1. Init => NothingTakenYet /\ ResultsFollowSelection
    BY EmptySeq DEF Init, NothingTakenYet, ResultsFollowSelection, InTest
  <1>2. QED
    BY <1>1, ResultsFollowStep, TypeInvariant, PTL DEF Spec

-----------------------------------------------------------------------------
(* Nothing outlives its test.  The invariant is inductive as it stands.     *)

\* A test that is given up leaves nothing behind.
LEMMA AbandonedTestLeavesNothing ==
    ASSUME NothingOutlivesItsTest, phase \in {"async", "engine"}, tree \in BOOLEAN,
           NEW k, FailCurrentAsync(ctx, k),
           UNCHANGED <<tree, next>>, connected' = connected
    PROVE  NothingOutlivesItsTest'
  <1>1. phase' = "dispatch" /\ active' = FALSE /\ slot' = EmptySlot
    BY FailCurrentAsyncRecords DEF Record, ReleaseCoroutine
  <1> QED
    BY <1>1 DEF NothingOutlivesItsTest, EmptySlot, InTest

\* Every step leaves slot, driver and pump to the test in hand.
LEMMA NothingOutlivesStep ==
    TypeOK /\ NothingOutlivesItsTest /\ [Next]_vars => NothingOutlivesItsTest'
  <1> SUFFICES ASSUME TypeOK, NothingOutlivesItsTest, [Next]_vars
               PROVE  NothingOutlivesItsTest'
    OBVIOUS
  <1>1. CASE RunAllAndQuit
    BY <1>1 DEF RunAllAndQuit, NothingOutlivesItsTest, InTest, body, run, coordinator
  <1>2. CASE StartSync
    BY <1>2 DEF StartSync, EnterSyncBody, NothingOutlivesItsTest, InTest, coordinator
  <1>3. CASE StartAsync
    BY <1>3 DEF StartAsync, NothingOutlivesItsTest, InTest
  <1>4. CASE NoTestLeft
    BY <1>4 DEF NoTestLeft, NothingOutlivesItsTest, InTest, body, coordinator
  <1>5. CASE WriteDocument
    BY <1>5 DEF WriteDocument, NothingOutlivesItsTest, InTest, body, run, coordinator
  <1>6. CASE ReportAndQuit
    BY <1>6 DEF ReportAndQuit, NothingOutlivesItsTest, InTest, body, run
  <1>7. CASE Expect \/ TrackObject \/ AddTeardown \/ AwaitWithoutDriver \/ Burn
    BY <1>7 DEF Expect, TrackObject, AddTeardown, AwaitWithoutDriver, Burn, InBody,
                NothingOutlivesItsTest, InTest, body, run, coordinator
  <1>8. CASE NestedRun \/ NestedPump
    BY <1>8 DEF NestedRun, NestedPump, InBody, NothingOutlivesItsTest, InTest,
                run, coordinator, EmptySlot
  <1>9. CASE Await
    <2>1. PICK kind \in {"frames", "timer"}, n \in Nat, t \in Nat : Suspend(kind, n, t)
      BY <1>9, WaitsAssumption DEF Await
    <2>2. CASE tree
      <3>1. /\ slot'.owner = next' /\ connected' = TRUE /\ phase' = "engine"
            /\ driver' /\ tree' /\ UNCHANGED <<next, active>>
        BY <2>1, <2>2 DEF Suspend, Request
      <3> QED
        BY <3>1 DEF NothingOutlivesItsTest, InTest
    <2>3. CASE ~tree
      BY <2>1, <2>3, AbandonedTestLeavesNothing DEF Suspend, TypeOK
    <2> QED
      BY <2>2, <2>3
  <1>10. ASSUME NEW how \in Endings, EndSync(how)
         PROVE  NothingOutlivesItsTest'
    <2>1. /\ UNCHANGED <<tree, next, connected, slot>> /\ phase = "sync"
          /\ \/ phase' = "dispatch" /\ active' = FALSE
             \/ phase' = "sync" /\ active' = TRUE
      BY <1>10 DEF EndSync, Record, EnterSyncBody, coordinator
    <2> QED
      BY <2>1 DEF NothingOutlivesItsTest, InTest
  <1>11. ASSUME NEW how \in Endings, EndAsync(how)
         PROVE  NothingOutlivesItsTest'
    <2>1. /\ UNCHANGED <<tree, next, connected>> /\ phase = "async"
          /\ phase' = "dispatch" /\ active' = FALSE /\ slot' = EmptySlot
      BY <1>11 DEF EndAsync, CollectAsyncResult, Record, ReleaseCoroutine
    <2> QED
      BY <2>1 DEF NothingOutlivesItsTest, InTest, EmptySlot
  <1>12. CASE FrameWaiting \/ FrameResumes
    <2>1. /\ slot'.owner = slot.owner /\ driver' /\ phase = "engine"
          /\ phase' \in {"engine", "async"}
          /\ UNCHANGED <<tree, next, connected, active>>
      BY <1>12, TickedType DEF FrameWaiting, FrameResumes, FrameAt, body, TypeOK
    <2> QED
      BY <2>1 DEF NothingOutlivesItsTest, InTest
  <1>13. CASE FrameOverrun \/ FrameTimesOut
    BY <1>13, AbandonedTestLeavesNothing
       DEF FrameOverrun, FrameTimesOut, FrameAt, TypeOK
  <1>14. CASE Die
    BY <1>14 DEF Die, NothingOutlivesItsTest, InTest, body, run, coordinator
  <1>15. CASE Stopped \/ UNCHANGED vars
    BY <1>15 DEF Stopped, vars, NothingOutlivesItsTest, InTest
  <1> QED
    BY <1>1, <1>2, <1>3, <1>4, <1>5, <1>6, <1>7, <1>8, <1>9, <1>10, <1>11, <1>12,
       <1>13, <1>14, <1>15 DEF Next, Drive, Body, Frame, End

\* A frame never resumes a null or destroyed coroutine, and the runner's
\* globals never refer to a test that has ended.
THEOREM NothingOutlives == Spec => []NothingOutlivesItsTest
  <1>1. Init => NothingOutlivesItsTest
    BY DEF Init, NothingOutlivesItsTest, InTest, EmptySlot
  <1>2. QED
    BY <1>1, NothingOutlivesStep, TypeInvariant, PTL DEF Spec

-----------------------------------------------------------------------------
(* The runner implements TestRun: every step of it is a step of the         *)
(* abstract run or leaves that where it is.                                 *)

\* One result more is one status more.
LEMMA StatusesAppend ==
    ASSUME NEW rs \in Seq(Results), NEW r \in Results
    PROVE  StatusesOf(Append(rs, r)) = Append(StatusesOf(rs), Verdict(r))
  <1>1. /\ Append(rs, r) \in Seq(Results) /\ Len(Append(rs, r)) = Len(rs) + 1
        /\ \A i \in 1 .. Len(rs) : Append(rs, r)[i] = rs[i]
        /\ Append(rs, r)[Len(rs) + 1] = r
    BY AppendProperties
  <1>2. /\ StatusesOf(rs) \in Seq(Verdicts) /\ Len(StatusesOf(rs)) = Len(rs)
        /\ \A i \in 1 .. Len(rs) : StatusesOf(rs)[i] = Verdict(rs[i])
    BY StatusesType
  <1>3. /\ StatusesOf(Append(rs, r)) \in Seq(Verdicts)
        /\ Len(StatusesOf(Append(rs, r))) = Len(rs) + 1
        /\ \A i \in 1 .. Len(rs) + 1 :
              StatusesOf(Append(rs, r))[i] = Verdict(Append(rs, r)[i])
    BY <1>1, StatusesType
  <1>4. Verdict(r) \in Verdicts
    BY DEF Verdict, Verdicts
  <1>5. /\ Append(StatusesOf(rs), Verdict(r)) \in Seq(Verdicts)
        /\ Len(Append(StatusesOf(rs), Verdict(r))) = Len(rs) + 1
        /\ \A i \in 1 .. Len(rs) :
              Append(StatusesOf(rs), Verdict(r))[i] = Verdict(rs[i])
        /\ Append(StatusesOf(rs), Verdict(r))[Len(rs) + 1] = Verdict(r)
    BY <1>2, <1>4, AppendProperties
  <1>6. Len(rs) \in Nat
    BY LenProperties
  <1>7. \A i \in 1 .. Len(rs) + 1 :
           StatusesOf(Append(rs, r))[i] = Append(StatusesOf(rs), Verdict(r))[i]
    BY <1>1, <1>3, <1>5, <1>6
  <1> QED
    BY <1>3, <1>5, <1>7, SeqEqual

\* The exit code's loop over the results and the verdicts say the same.
LEMMA FailedIsBad ==
    ASSUME NEW rs \in Seq(Results)
    PROVE  AnyFailed(rs) <=>
              \E i \in DOMAIN StatusesOf(rs) : StatusesOf(rs)[i] \in {"fail", "crashed"}
  <1>1. \A i \in DOMAIN rs : rs[i] \in Results
    BY LenProperties, ElementOfSeq
  <1>2. \A i \in DOMAIN rs : rs[i].crashed \in BOOLEAN
    BY <1>1 DEF Results
  <1>3. \A i \in DOMAIN rs :
           (rs[i].crashed \/ HasFailures(rs[i].failures))
              <=> Verdict(rs[i]) \in {"fail", "crashed"}
    BY <1>2 DEF Verdict
  <1> QED
    BY <1>3 DEF AnyFailed, StatusesOf

-----------------------------------------------------------------------------
\* The runner starts where the abstract run does.
LEMMA AbstractInit == Init => Abstract!Init
  <1> SUFFICES ASSUME Init PROVE Abstract!Init
    OBVIOUS
  <1>1. Len(selected) \in Nat
    BY SelectionsAssumption, LenProperties DEF Init
  <1>2. StatusesOf(results) = <<>>
    BY EmptySeq DEF Init, StatusesOf
  <1>3. Stage = "open"
    BY DEF Init, Stage
  <1> QED
    BY <1>1, <1>2, <1>3 DEF Init, Abstract!Init, NoDocument, NoExit, Abstract!NoExit

\* Steps that record a result are the abstract run's Judge.
LEMMA JudgingRefines ==
    ASSUME TypeOK, ResultsFollowSelection, Next, results' # results
    PROVE  Abstract!Judge
  <1>1. InTest /\ UNCHANGED <<selected, next>>
    BY JudgingSteps
  <1>2. PICK r \in Results, how \in Endings \cup {"none"} : Record(r, how)
    BY JudgingSteps
  <1>3. StatusesOf(results') = Append(StatusesOf(results), Verdict(r))
    BY <1>2, StatusesAppend DEF Record, TypeOK
  <1>4. Verdict(r) \in Abstract!Verdicts
    BY DEF Verdict, Abstract!Verdicts
  <1>5. Len(StatusesOf(results)) < Len(selected)
    BY <1>1, StatusesType, LenProperties DEF ResultsFollowSelection, TypeOK
  <1>6. Stage = "open" /\ Stage' = "open"
    BY <1>1, <1>2 DEF Stage, InTest, Record
  <1>7. UNCHANGED <<document, exit_code>>
    BY <1>1 DEF Next, Drive, Body, Frame, RunAllAndQuit, StartSync, StartAsync,
       NoTestLeft, WriteDocument, ReportAndQuit, Expect, TrackObject, AddTeardown,
       NestedRun, NestedPump, Burn, AwaitWithoutDriver, Await, Suspend, End,
       EndSync, EndAsync, FrameWaiting, FrameOverrun, FrameTimesOut,
       FrameResumes, FrameAt, Die, Stopped, outcome, vars, InTest
  <1> QED
    BY <1>1, <1>3, <1>4, <1>5, <1>6, <1>7 DEF Abstract!Judge

\* The start of the run, step by step, is the abstract one.
LEMMA BootRefines ==
    ASSUME TypeOK, NothingTakenYet, ResultsFollowSelection, RunAllAndQuit
    PROVE  Abstract!Decline \/ UNCHANGED Abstract!vars
  <1>1. Len(results) = 0 /\ phase = "boot" /\ UNCHANGED <<selected, results, document>>
    BY DEF RunAllAndQuit, NothingTakenYet, ResultsFollowSelection, run
  <1>2. StatusesOf(results) = <<>>
    BY <1>1, StatusesType, EmptySeq DEF TypeOK
  <1>3. CASE phase' = "dispatch" /\ UNCHANGED exit_code
    BY <1>1, <1>3 DEF Stage, Abstract!vars
  <1>4. CASE phase' = "over" /\ exit_code' \in {NoExit, 0, 2}
    BY <1>1, <1>2, <1>4 DEF Stage, Abstract!Decline, NoExit, Abstract!NoExit
  <1>5. CASE phase' = "over" /\ UNCHANGED exit_code
    BY <1>1, <1>2, <1>5 DEF NothingTakenYet, Stage, Abstract!Decline, NoExit, Abstract!NoExit
  <1>6. CASE phase' = "over" /\ (Quit(2) \/ Quit(0))
    BY <1>4, <1>6 DEF Quit
  <1> QED
    BY <1>3, <1>5, <1>6 DEF RunAllAndQuit

\* So is its end.
LEMMA FinishRefines ==
    ASSUME TypeOK, ResultsFollowSelection,
           NoTestLeft \/ WriteDocument \/ ReportAndQuit \/ Die
    PROVE  Abstract!Close \/ Abstract!Publish \/ Abstract!Exit \/ Abstract!Die
  <1> USE DEF run, outcome
  <1>1. UNCHANGED <<selected, results>>
    BY DEF NoTestLeft, WriteDocument, ReportAndQuit, Die
  <1>2. CASE NoTestLeft
    BY <1>1, <1>2, StatusesType
       DEF NoTestLeft, Abstract!Close, Stage, ResultsFollowSelection, TypeOK
  <1>3. CASE WriteDocument
    <2>1. document'.statuses \in {document.statuses, StatusesOf(results)}
      BY <1>3 DEF WriteDocument
    <2> QED
      BY <1>1, <1>3, <2>1 DEF WriteDocument, Abstract!Publish, Stage
  <1>4. CASE ReportAndQuit
    <2>1. exit_code' \in {NoExit, IF AnyFailed(results) THEN 1 ELSE 0}
      BY <1>4 DEF ReportAndQuit, Quit
    <2>2. AnyFailed(results) <=>
             \E i \in DOMAIN StatusesOf(results) : StatusesOf(results)[i] \in Abstract!Bad
      BY FailedIsBad DEF TypeOK, Abstract!Bad
    <2> QED
      BY <1>1, <1>4, <2>1, <2>2
         DEF ReportAndQuit, Abstract!Exit, Stage, NoExit, Abstract!NoExit
  <1>5. CASE Die
    BY <1>1, <1>5 DEF Die, Abstract!Die, Stage
  <1> QED
    BY <1>2, <1>3, <1>4, <1>5

\* Steps that record nothing and do not end the run leave it where it is.
LEMMA QuietRefines ==
    ASSUME TypeOK, Next, results' = results,
           ~ (RunAllAndQuit \/ NoTestLeft \/ WriteDocument \/ ReportAndQuit \/ Die)
    PROVE  UNCHANGED Abstract!vars
  <1>1. UNCHANGED selected
    BY QuietSteps
  <1>2. UNCHANGED <<document, exit_code>>
    BY DEF Next, Drive, Body, Frame, StartSync, StartAsync, Expect, TrackObject,
       AddTeardown, NestedRun, NestedPump, Burn, AwaitWithoutDriver, Await, Suspend,
       End, EndSync, EndAsync, FrameWaiting, FrameOverrun, FrameTimesOut,
       FrameResumes, FrameAt, Stopped, outcome, vars
  <1>3. Stage' = Stage
    BY DEF Next, Drive, Body, Frame, StartSync, StartAsync, Expect, TrackObject,
       AddTeardown, NestedRun, NestedPump, Burn, AwaitWithoutDriver, Await, Suspend,
       FailCurrentAsync, Record, End, EndSync, EnterSyncBody, EndAsync,
       CollectAsyncResult, FrameWaiting, FrameOverrun, FrameTimesOut, FrameResumes,
       FrameAt, Stopped, InBody, vars, Stage
  <1> QED
    BY <1>1, <1>2, <1>3 DEF Abstract!vars

\* Every step of the runner is one of the abstract run, or none.
LEMMA StepRefines ==
    TypeOK /\ NothingTakenYet /\ ResultsFollowSelection /\ [Next]_vars
        => [Abstract!Next]_(Abstract!vars)
  <1> SUFFICES ASSUME TypeOK, NothingTakenYet, ResultsFollowSelection, [Next]_vars
               PROVE  Abstract!Next \/ UNCHANGED Abstract!vars
    OBVIOUS
  <1>1. CASE UNCHANGED vars
    BY <1>1 DEF vars, Abstract!vars, Stage
  <1>2. CASE Next /\ results' # results
    BY <1>2, JudgingRefines DEF Abstract!Next
  <1>3. CASE RunAllAndQuit
    BY <1>3, BootRefines DEF Abstract!Next
  <1>4. CASE NoTestLeft \/ WriteDocument \/ ReportAndQuit \/ Die
    BY <1>4, FinishRefines DEF Abstract!Next
  <1>5. CASE /\ Next /\ results' = results
             /\ ~ (RunAllAndQuit \/ NoTestLeft \/ WriteDocument \/ ReportAndQuit \/ Die)
    BY <1>5, QuietRefines
  <1> QED
    BY <1>1, <1>2, <1>3, <1>4, <1>5

\* One verdict for each selected test, in order and never revised, then the
\* document, then the exit code the verdicts decide.
THEOREM RunnerImplementsTestRun == Spec => ImplementsTestRun
  <1>1. Init => NothingTakenYet /\ ResultsFollowSelection
    BY EmptySeq DEF Init, NothingTakenYet, ResultsFollowSelection, InTest
  <1>2. QED
    BY <1>1, AbstractInit, StepRefines, ResultsFollowStep, TypeInvariant, PTL
       DEF Spec, ImplementsTestRun, Abstract!Spec

-----------------------------------------------------------------------------
(* The three ways of judging the test in hand.                              *)

SyncResult(c) ==
    [test |-> next, failures |-> c.failures, crashed |-> FALSE,
     skipped |-> c.skipped, retries |-> attempt]

JudgesSync(how) ==
    LET c == TornDown(AtEnd(how)) IN
    /\ phase = "sync"
    /\ c.skipped \/ ~HasFailures(c.failures) \/ attempt = MaxRetries
    /\ Record(SyncResult(c), how)
JudgesAsync(how) ==
    phase = "async" /\ Record(CollectedResult(AtEnd(how), how), how)
Abandons(k) ==
    /\ phase = IF k = "no_tree" THEN "async" ELSE "engine"
    /\ Record(FailedResult(ctx, k), "none")

AbandonKinds == {"no_tree", "timeout", "isolate"}

\* Results change only where a test is judged.
LEMMA Judgements ==
    ASSUME TypeOK, Next, results' # results
    PROVE  /\ UNCHANGED <<selected, next>>
           /\ \/ \E how \in Endings : JudgesSync(how)
              \/ \E how \in Endings : JudgesAsync(how)
              \/ \E k \in AbandonKinds : Abandons(k)
  <1>1. UNCHANGED <<selected, next>>
    BY JudgingSteps
  <1>2. ASSUME NEW kind, NEW n, NEW t, Suspend(kind, n, t)
        PROVE  Abandons("no_tree")
    BY <1>2, FailCurrentAsyncRecords DEF Suspend, Abandons
  <1>3. CASE Await
    BY <1>1, <1>2, <1>3 DEF Await, AbandonKinds
  <1>4. ASSUME NEW how \in Endings, EndSync(how)
        PROVE  JudgesSync(how)
    BY <1>4 DEF EndSync, JudgesSync, SyncResult
  <1>5. ASSUME NEW how \in Endings, EndAsync(how)
        PROVE  JudgesAsync(how)
    BY <1>5 DEF EndAsync, JudgesAsync, CollectAsyncResult, CollectedResult
  <1>6. CASE FrameOverrun
    BY <1>6, FailCurrentAsyncRecords DEF FrameOverrun, FrameAt, Abandons, AbandonKinds
  <1>7. CASE FrameTimesOut
    BY <1>7, FailCurrentAsyncRecords DEF FrameTimesOut, FrameAt, Abandons, AbandonKinds
  <1>8. CASE End
    BY <1>1, <1>4, <1>5, <1>8 DEF End
  <1>9. CASE Drive
    BY <1>9 DEF Drive, RunAllAndQuit, StartSync, StartAsync, NoTestLeft,
                WriteDocument, ReportAndQuit, run
  <1>10. CASE Expect \/ TrackObject \/ AddTeardown \/ NestedRun \/ NestedPump
             \/ Burn \/ AwaitWithoutDriver
    BY <1>10 DEF Expect, TrackObject, AddTeardown, NestedRun, NestedPump, Burn,
                 AwaitWithoutDriver, run
  <1>11. CASE FrameWaiting \/ FrameResumes \/ Die \/ Stopped
    BY <1>11 DEF FrameWaiting, FrameResumes, Die, Stopped, vars, run
  <1> QED
    BY <1>1, <1>3, <1>6, <1>7, <1>8, <1>9, <1>10, <1>11 DEF Next, Body, Frame

\* A result is recorded behind the others.
LEMMA LengthsOfResults ==
    ASSUME TypeOK, NEW r, NEW how, Record(r, how)
    PROVE  /\ results' # results /\ Len(results') = Len(results) + 1
           /\ results'[Len(results')] = r
           /\ \A i \in 1 .. Len(results) : results'[i] = results[i]
  BY AppendProperties DEF TypeOK, Record

-----------------------------------------------------------------------------
(* Drivers.                                                                 *)

\* An async body has a driver until it drives a pump of its own.
DriverInv ==
    /\ phase = "async" /\ ~driver => pumped
    /\ ctx.failures["no_driver"] > 0 => pumped

\* Every step keeps what the driver flag says of the test in hand.
LEMMA DriverStep == TypeOK /\ DriverInv /\ [Next]_vars => DriverInv'
  <1> SUFFICES ASSUME TypeOK, DriverInv, [Next]_vars PROVE DriverInv'
    OBVIOUS
  <1>1. FreshContext.failures["no_driver"] = 0
    BY DEF FreshContext, FailureKinds
  <1>2. CASE Next /\ results' # results
    <2>1. ctx' = FreshContext /\ phase' = "dispatch"
      BY <1>2, Judgements DEF JudgesSync, JudgesAsync, Abandons, Record
    <2> QED
      BY <1>1, <2>1 DEF DriverInv
  <1>3. CASE Drive
    <2>1. \/ ctx' = FreshContext /\ (phase' = "async" => driver')
          \/ UNCHANGED <<ctx, pumped>> /\ phase' # "async"
      BY <1>3 DEF Drive, RunAllAndQuit, StartSync, StartAsync, NoTestLeft,
                  WriteDocument, ReportAndQuit, EnterSyncBody, body
    <2> QED
      BY <1>1, <2>1 DEF DriverInv
  <1>4. CASE Expect \/ TrackObject \/ AddTeardown \/ NestedRun \/ Burn
    <2>1. UNCHANGED <<phase, driver, pumped>>
      BY <1>4 DEF Expect, TrackObject, AddTeardown, NestedRun, Burn, coordinator, body
    <2>2. ctx'.failures["no_driver"] = ctx.failures["no_driver"]
      BY <1>4 DEF Expect, TrackObject, AddTeardown, NestedRun, Burn, body, Fail,
                  TypeOK, Contexts, FailureKinds
    <2> QED
      BY <2>1, <2>2 DEF DriverInv
  <1>5. CASE NestedPump
    BY <1>5 DEF NestedPump, DriverInv
  <1>6. CASE AwaitWithoutDriver
    BY <1>6 DEF AwaitWithoutDriver, DriverInv, coordinator
  <1>7. CASE Await /\ results' = results
    <2>1. UNCHANGED <<ctx, pumped>> /\ phase' # "async"
      BY <1>7, LengthsOfResults, FailCurrentAsyncRecords DEF Await, Suspend
    <2> QED
      BY <2>1 DEF DriverInv
  <1>8. CASE End /\ results' = results
    <2>1. phase' = "sync" /\ ctx' = FreshContext
      BY <1>8, LengthsOfResults
         DEF End, EndSync, EndAsync, CollectAsyncResult, EnterSyncBody
    <2> QED
      BY <1>1, <2>1 DEF DriverInv
  <1>9. CASE Frame /\ results' = results
    <2>1. UNCHANGED <<ctx, pumped>> /\ driver'
      BY <1>9, LengthsOfResults, FailCurrentAsyncRecords
         DEF Frame, FrameWaiting, FrameOverrun, FrameTimesOut, FrameResumes, FrameAt, body
    <2> QED
      BY <2>1 DEF DriverInv
  <1>10. CASE Die
    BY <1>10 DEF Die, DriverInv, body
  <1>11. CASE Stopped \/ UNCHANGED vars
    BY <1>11 DEF Stopped, DriverInv, vars
  <1> QED
    BY <1>2, <1>3, <1>4, <1>5, <1>6, <1>7, <1>8, <1>9, <1>10, <1>11 DEF Next, Body

\* A test that awaits without a driver has dropped it itself, for all orders of
\* tests and everything that earlier tests did to the flag.
THEOREM DriversAreLostLocally == Spec => []DriverLossIsLocal
  <1>1. Init => DriverInv
    BY DEF Init, DriverInv, FreshContext, FailureKinds
  <1>2. DriverInv => DriverLossIsLocal
    BY DEF DriverInv, DriverLossIsLocal
  <1>3. QED
    BY <1>1, <1>2, DriverStep, TypeInvariant, PTL DEF Spec

-----------------------------------------------------------------------------
(* Retries.                                                                 *)

\* Only the attempts of a sync test are counted, and never past its retries.
RetriesInv ==
    /\ InTest => (selected[next].async <=> phase # "sync")
    /\ phase = "sync" => attempt <= MaxRetries

\* Every step keeps the attempts of the test in hand.
LEMMA RetriesInvStep ==
    TypeOK /\ ResultsFollowSelection /\ RetriesInv /\ [Next]_vars => RetriesInv'
  <1> SUFFICES ASSUME TypeOK, ResultsFollowSelection, RetriesInv, [Next]_vars
               PROVE  RetriesInv'
    OBVIOUS
  <1> USE DEF InTest, MaxRetries, Test
  <1>1. CASE Next /\ results' # results
    <2>1. phase' = "dispatch"
      BY <1>1, Judgements DEF JudgesSync, JudgesAsync, Abandons, Record
    <2> QED
      BY <2>1 DEF RetriesInv
  <1>2. CASE Drive
    BY <1>2, BudgetsAssumption
       DEF Drive, RunAllAndQuit, StartSync, StartAsync, NoTestLeft,
           WriteDocument, ReportAndQuit, EnterSyncBody, RetriesInv, run
  <1>3. CASE Expect \/ TrackObject \/ AddTeardown \/ NestedRun \/ NestedPump
             \/ Burn \/ AwaitWithoutDriver
    BY <1>3 DEF Expect, TrackObject, AddTeardown, NestedRun, NestedPump, Burn,
                AwaitWithoutDriver, run, RetriesInv
  <1>4. CASE Await /\ results' = results
    <2>1. UNCHANGED <<selected, next>> /\ phase = "async" /\ phase' = "engine"
      BY <1>4, LengthsOfResults, FailCurrentAsyncRecords DEF Await, Suspend
    <2> QED
      BY <2>1 DEF RetriesInv
  <1>5. CASE End /\ results' = results
    <2>1. PICK how \in Endings : EndSync(how)
      BY <1>5, LengthsOfResults DEF End, EndAsync, CollectAsyncResult
    <2>2. /\ UNCHANGED <<selected, next>> /\ phase = "sync" /\ phase' = "sync"
          /\ attempt' = attempt + 1 /\ attempt # MaxRetries
      BY <1>5, <2>1, LengthsOfResults DEF EndSync, EnterSyncBody
    <2> QED
      BY <2>2, BudgetsAssumption DEF RetriesInv, TypeOK
  <1>6. CASE Frame /\ results' = results
    <2>1. UNCHANGED <<selected, next>> /\ phase = "engine" /\ phase' \in {"engine", "async"}
      BY <1>6, LengthsOfResults, FailCurrentAsyncRecords
         DEF Frame, FrameWaiting, FrameOverrun, FrameTimesOut, FrameResumes, FrameAt
    <2> QED
      BY <2>1 DEF RetriesInv
  <1>7. CASE Die
    BY <1>7 DEF Die, RetriesInv
  <1>8. CASE Stopped \/ UNCHANGED vars
    BY <1>8 DEF Stopped, RetriesInv, vars
  <1> QED
    BY <1>1, <1>2, <1>3, <1>4, <1>5, <1>6, <1>7, <1>8 DEF Next, Body

\* What the property says of one result, for the test it is of.
RetriesAreUsed(r, t) ==
    LET budget == IF t.flaky /\ ~t.async THEN FlakyRetries ELSE 0 IN
    /\ r.retries <= budget
    /\ Verdict(r) = "fail" /\ ~r.skipped /\ ~t.async => r.retries = budget

\* A result that is new has used the retries it had to.
LEMMA NewResultUsesItsRetries ==
    ASSUME TypeOK, ResultsFollowSelection, RetriesInv, Next, results' # results
    PROVE  \E r, how : Record(r, how) /\ RetriesAreUsed(r, selected[next])
  <1> USE DEF InTest
  <1>1. CASE \E how \in Endings : JudgesSync(how)
    <2>1. PICK how \in Endings : JudgesSync(how)
      BY <1>1
    <2>2. RetriesAreUsed(SyncResult(TornDown(AtEnd(how))), selected[next])
      BY <2>1 DEF JudgesSync, SyncResult, RetriesAreUsed, RetriesInv, MaxRetries, Test, Verdict
    <2> QED
      BY <2>1, <2>2 DEF JudgesSync
  <1>2. ASSUME NEW r, r.retries = 0, selected[next].async
        PROVE  RetriesAreUsed(r, selected[next])
    BY <1>2, BudgetsAssumption DEF RetriesAreUsed
  <1>3. CASE \E how \in Endings : JudgesAsync(how)
    BY <1>2, <1>3 DEF JudgesAsync, CollectedResult, RetriesInv
  <1>4. CASE \E k \in AbandonKinds : Abandons(k)
    BY <1>2, <1>4 DEF Abandons, FailedResult, RetriesInv
  <1> QED
    BY <1>1, <1>3, <1>4, Judgements

\* No step reports a flaky test failed before its last attempt.
LEMMA FlakyStep ==
    TypeOK /\ ResultsFollowSelection /\ RetriesInv /\ FlakyGetsItsRetries /\ [Next]_vars
        => FlakyGetsItsRetries'
  <1> SUFFICES ASSUME TypeOK, ResultsFollowSelection, RetriesInv, FlakyGetsItsRetries,
                      [Next]_vars
               PROVE  FlakyGetsItsRetries'
    OBVIOUS
  <1>1. CASE Next /\ results' # results
    <2>1. PICK r, how : Record(r, how) /\ RetriesAreUsed(r, selected[next])
      BY <1>1, NewResultUsesItsRetries
    <2>2. InTest /\ UNCHANGED <<selected, next>>
      BY <1>1, JudgingSteps
    <2>3. results' = Append(results, r) /\ Len(results) = next - 1 /\ next \in Nat
      BY <2>1, <2>2 DEF Record, ResultsFollowSelection, TypeOK
    <2>4. \A i \in DOMAIN results' : RetriesAreUsed(results'[i], selected[i])
      <3> SUFFICES ASSUME NEW i \in DOMAIN results'
                   PROVE  RetriesAreUsed(results'[i], selected[i])
        OBVIOUS
      <3>1. CASE i \in DOMAIN results
        <4>1. results'[i] = results[i]
          BY <2>3, <3>1 DEF TypeOK
        <4> QED
          BY <3>1, <4>1 DEF FlakyGetsItsRetries, RetriesAreUsed
      <3>2. CASE i \notin DOMAIN results
        <4>1. i = next /\ results'[i] = r
          BY <2>3, <3>2 DEF TypeOK
        <4> QED
          BY <2>1, <4>1
      <3> QED
        BY <3>1, <3>2
    <2> QED
      BY <2>2, <2>4 DEF FlakyGetsItsRetries, RetriesAreUsed, Verdict, HasFailures
  <1>2. CASE Next /\ results' = results
    BY <1>2, QuietSteps DEF FlakyGetsItsRetries, Verdict, HasFailures
  <1>3. CASE UNCHANGED vars
    BY <1>3 DEF vars, FlakyGetsItsRetries, Verdict, HasFailures
  <1> QED
    BY <1>1, <1>2, <1>3

\* A flaky sync test fails only with all its retries used up, and no test uses
\* more than it has, for every number of retries.
THEOREM FlakyTestsGetTheirRetries == Spec => []FlakyGetsItsRetries
  <1>1. Init => RetriesInv
    BY DEF Init, RetriesInv, InTest
  <1>2. Init => FlakyGetsItsRetries
    BY EmptySeq DEF Init, FlakyGetsItsRetries
  <1>3. QED
    BY <1>1, <1>2, RetriesInvStep, FlakyStep, TypeInvariant, ResultsFollowTheSelection,
       PTL DEF Spec

-----------------------------------------------------------------------------
(* Waits.                                                                   *)

\* What is left of a wait for frames is what was asked for less the frames that
\* have come.
WaitInv ==
    phase = "engine" /\ slot.kind = "frames" =>
        slot.left = wait.amount - wait.frames

\* Every step keeps the wait within its stamps.
LEMMA WaitStep == TypeOK /\ WaitInv /\ [Next]_vars => WaitInv'
  <1> SUFFICES ASSUME TypeOK, WaitInv, [Next]_vars PROVE WaitInv'
    OBVIOUS
  <1>1. CASE Next /\ results' # results
    <2>1. phase' = "dispatch"
      BY <1>1, Judgements DEF JudgesSync, JudgesAsync, Abandons, Record
    <2> QED
      BY <2>1 DEF WaitInv
  <1>2. CASE Await /\ results' = results
    <2>1. ASSUME NEW kind \in {"frames", "timer"}, NEW n \in Nat, NEW t, Suspend(kind, n, t)
          PROVE  WaitInv'
      <3>1. slot' = Request(kind, n, t) /\ wait'.amount = n /\ wait'.frames = 0
        BY <1>2, <2>1, LengthsOfResults, FailCurrentAsyncRecords DEF Suspend
      <3> QED
        BY <3>1 DEF Request, WaitInv
    <2> QED
      BY <1>2, <2>1, WaitsAssumption DEF Await
  <1>3. CASE FrameWaiting
    <2>1. slot' = Ticked /\ wait' = [wait EXCEPT !.frames = @ + 1] /\ phase = "engine"
      BY <1>3 DEF FrameWaiting, FrameAt
    <2> QED
      BY <2>1 DEF WaitInv, Ticked, TypeOK, Slots, Waits
  <1>4. CASE Drive \/ (End /\ results' = results) \/ FrameResumes \/ Die
    <2>1. phase' # "engine"
      BY <1>4, LengthsOfResults
         DEF Drive, RunAllAndQuit, StartSync, StartAsync, NoTestLeft, WriteDocument,
             ReportAndQuit, EnterSyncBody, End, EndSync, EndAsync, CollectAsyncResult,
             FrameResumes, Die
    <2> QED
      BY <2>1 DEF WaitInv
  <1>5. CASE Expect \/ TrackObject \/ AddTeardown \/ NestedRun \/ NestedPump
             \/ Burn \/ AwaitWithoutDriver
    <2>1. phase' # "engine"
      BY <1>5 DEF Expect, TrackObject, AddTeardown, NestedRun, NestedPump, Burn,
                  AwaitWithoutDriver, InBody
    <2> QED
      BY <2>1 DEF WaitInv
  <1>6. CASE (FrameOverrun \/ FrameTimesOut) /\ results' = results
    BY <1>6, LengthsOfResults, FailCurrentAsyncRecords DEF FrameOverrun, FrameTimesOut
  <1>7. CASE Stopped \/ UNCHANGED vars
    BY <1>7 DEF Stopped, WaitInv, vars
  <1> QED
    BY <1>1, <1>2, <1>3, <1>4, <1>5, <1>6, <1>7 DEF Next, Body, Frame

\* A step that starts with a test suspended is a frame, or nothing.
LEMMA EngineSteps ==
    ASSUME Next, phase = "engine"
    PROVE  Frame
  BY DEF Next, Drive, RunAllAndQuit, StartSync, StartAsync, NoTestLeft, WriteDocument,
         ReportAndQuit, Body, Expect, TrackObject, AddTeardown, NestedRun, NestedPump,
         Burn, AwaitWithoutDriver, InBody, Await, Suspend, End, EndSync, EndAsync, Die,
         Stopped

\* A suspended test owns the slot.
LEMMA SuspendedOwnsSlot ==
    ASSUME TypeOK, ResultsFollowSelection, NothingOutlivesItsTest, phase = "engine"
    PROVE  slot.owner # 0
  BY DEF TypeOK, ResultsFollowSelection, NothingOutlivesItsTest, InTest

PendingStepIsWithin ==
    phase = "engine" /\ phase' = "engine" =>
        /\ slot.kind = "frames" => wait'.frames < wait.amount
        /\ slot.kind = "timer" => clock' < slot.resume_at
        /\ clock' < slot.deadline
        /\ clock' < IsolateMs

\* No frame leaves a test waiting beyond a budget.
LEMMA PendingStep ==
    TypeOK /\ ResultsFollowSelection /\ NothingOutlivesItsTest /\ WaitInv /\ [Next]_vars
        => PendingStepIsWithin \/ UNCHANGED vars
  <1> SUFFICES ASSUME TypeOK, ResultsFollowSelection, NothingOutlivesItsTest, WaitInv,
                      Next, phase = "engine", phase' = "engine"
               PROVE  PendingStepIsWithin
    BY DEF PendingStepIsWithin
  <1>1. FrameWaiting
    BY EngineSteps, FailCurrentAsyncRecords
       DEF Frame, FrameOverrun, FrameTimesOut, FrameResumes, Record
  <1>2. PICK t \in FrameTimes :
           /\ Advance(Ticked, t) = "pending" /\ ~ (t >= IsolateMs)
           /\ clock' = t /\ wait' = [wait EXCEPT !.frames = @ + 1]
    BY <1>1 DEF FrameWaiting, FrameAt, IsolateOverrun
  <1>3. t \in Nat /\ slot.owner # 0
    BY FrameTimesType, SuspendedOwnsSlot DEF TypeOK
  <1>4. ~ (t >= slot.deadline)
    BY <1>2, <1>3 DEF Advance, Ticked, TypeOK, Slots
  <1>5. slot.kind = "timer" => ~ (t >= slot.resume_at)
    BY <1>2, <1>3 DEF Advance, Ticked, TypeOK, Slots
  <1>6. slot.kind = "frames" => slot.left - 1 > 0
    BY <1>2, <1>3 DEF Advance, Ticked, TypeOK, Slots
  <1>7. slot.kind = "frames" => wait'.frames < wait.amount
    BY <1>2, <1>6, SMTT(40) DEF WaitInv, TypeOK, Waits, Slots
  <1> QED
    BY <1>2, <1>3, <1>4, <1>5, <1>7, BudgetsAssumption, SMTT(40)
       DEF PendingStepIsWithin, TypeOK, Slots

\* A frame leaves a test waiting only while its wait, the wait's deadline and the
\* budget of the whole test are all open.
THEOREM WaitsStayWithinBudgets == Spec => PendingOnlyWithinBudgets
  <1>1. Init => WaitInv
    BY DEF Init, WaitInv
  <1>2. QED
    BY <1>1, WaitStep, PendingStep, TypeInvariant, ResultsFollowTheSelection,
       NothingOutlives, PTL DEF Spec, PendingOnlyWithinBudgets, PendingStepIsWithin

DueStep ==
    /\ phase = "engine" /\ phase' = "async" =>
         IF slot.kind = "frames" THEN wait'.frames = wait.amount ELSE clock' >= slot.resume_at
    /\ phase = "engine" /\ Judged =>
         IF slot.kind = "frames" THEN wait.frames + 1 < wait.amount
         ELSE \E t \in FrameTimes : t < slot.resume_at

\* Not past the frame that was asked for: what DueWaitsResume needs besides.
WaitOpen ==
    phase = "engine" /\ slot.kind = "frames" => wait.frames < wait.amount

\* Every step keeps a wait for frames short of its end.
LEMMA WaitOpenStep ==
    TypeOK /\ ResultsFollowSelection /\ NothingOutlivesItsTest /\ WaitInv /\ WaitOpen
        /\ [Next]_vars => WaitOpen'
  <1> SUFFICES ASSUME TypeOK, ResultsFollowSelection, NothingOutlivesItsTest, WaitInv,
                      WaitOpen, [Next]_vars, phase' = "engine"
               PROVE  WaitOpen'
    BY DEF WaitOpen
  <1>1. CASE UNCHANGED vars
    BY <1>1 DEF vars, WaitOpen
  <1>2. CASE Next /\ phase = "engine"
    <2>1. PendingStepIsWithin \/ UNCHANGED vars
      BY <1>2, PendingStep
    <2>2. FrameWaiting
      BY <1>2, EngineSteps, FailCurrentAsyncRecords
         DEF Frame, FrameOverrun, FrameTimesOut, FrameResumes, Record
    <2>3. slot' = Ticked /\ wait' = [wait EXCEPT !.frames = @ + 1]
      BY <2>2 DEF FrameWaiting
    <2>4. slot'.kind = slot.kind /\ wait'.amount = wait.amount
      BY <2>3 DEF Ticked, TypeOK, Slots, Waits
    <2> QED
      BY <1>1, <1>2, <2>1, <2>4 DEF PendingStepIsWithin, WaitOpen
  <1>3. CASE Next /\ phase # "engine"
    <2>1. Await
      BY <1>3, FailCurrentAsyncRecords
         DEF Next, Drive, RunAllAndQuit, StartSync, StartAsync, NoTestLeft,
             WriteDocument, ReportAndQuit, EnterSyncBody, Body, Expect, TrackObject,
             AddTeardown, NestedRun, NestedPump, Burn, AwaitWithoutDriver, InBody,
             End, EndSync, EndAsync, CollectAsyncResult, Record, Die, Stopped,
             Frame, FrameWaiting, FrameOverrun, FrameTimesOut, FrameResumes, FrameAt, vars
    <2>2. ASSUME NEW kind, NEW n, NEW t, Suspend(kind, n, t), n \in Nat \ {0}
          PROVE  wait'.amount = n /\ wait'.frames = 0 /\ n \in Nat \ {0}
      BY <2>2, FailCurrentAsyncRecords DEF Suspend, Record
    <2> QED
      BY <2>1, <2>2, WaitsAssumption DEF Await, WaitOpen
  <1> QED
    BY <1>1, <1>2, <1>3

\* No frame leaves a due wait unresumed.
LEMMA DueWaitsStep ==
    TypeOK /\ ResultsFollowSelection /\ NothingOutlivesItsTest /\ WaitInv /\ WaitOpen
        /\ [Next]_vars => DueStep \/ UNCHANGED vars
  <1> SUFFICES ASSUME TypeOK, ResultsFollowSelection, NothingOutlivesItsTest, WaitInv,
                      WaitOpen, Next, phase = "engine"
               PROVE  DueStep
    BY DEF DueStep
  <1>1. slot.owner # 0 /\ FrameTimes \subseteq Nat
    BY FrameTimesType, SuspendedOwnsSlot DEF TypeOK
  <1>2. ASSUME slot.kind = "frames"
        PROVE  /\ slot.left = wait.amount - wait.frames /\ wait.frames < wait.amount
               /\ slot.left \in Int /\ wait.amount \in Nat /\ wait.frames \in Nat
    BY <1>2 DEF WaitInv, WaitOpen, TypeOK, Slots, Waits
  <1>3. ASSUME phase' = "async"
        PROVE  IF slot.kind = "frames" THEN wait'.frames = wait.amount
               ELSE clock' >= slot.resume_at
    <2>1. FrameResumes
      BY <1>3, EngineSteps, FailCurrentAsyncRecords
         DEF Frame, FrameWaiting, FrameOverrun, FrameTimesOut, Record
    <2>2. PICK t \in FrameTimes :
             /\ Advance(Ticked, t) = "resolved"
             /\ clock' = t /\ wait' = [wait EXCEPT !.frames = @ + 1]
      BY <2>1 DEF FrameResumes, FrameAt
    <2>3. CASE slot.kind = "frames"
      <3>1. slot.left - 1 <= 0
        BY <1>1, <2>2, <2>3 DEF Advance, Ticked, TypeOK, Slots
      <3>2. wait'.frames = wait.frames + 1
        BY <2>2 DEF TypeOK, Waits
      <3> QED
        BY <1>2, <2>3, <3>1, <3>2
    <2>4. CASE slot.kind # "frames"
      <3>1. slot.kind = "timer" /\ Ticked = slot
        BY <2>4 DEF Ticked, TypeOK, Slots
      <3>2. t >= slot.resume_at
        BY <1>1, <2>2, <3>1 DEF Advance, TypeOK, Slots
      <3> QED
        BY <2>2, <2>4, <3>2
    <2> QED
      BY <2>3, <2>4
  <1>4. ASSUME Judged
        PROVE  IF slot.kind = "frames" THEN wait.frames + 1 < wait.amount
               ELSE \E t \in FrameTimes : t < slot.resume_at
    <2>1. FrameOverrun \/ FrameTimesOut
      BY <1>4, EngineSteps DEF Frame, FrameWaiting, FrameResumes, Judged, TypeOK
    <2>2. PICK t \in FrameTimes : Advance(Ticked, t) \in {"pending", "timed_out"}
      BY <2>1 DEF FrameOverrun, FrameTimesOut, FrameAt
    <2>3. CASE slot.kind = "frames"
      <3>1. slot.left - 1 > 0
        BY <1>1, <2>2, <2>3 DEF Advance, Ticked, TypeOK, Slots
      <3> QED
        BY <1>2, <2>3, <3>1
    <2>4. CASE slot.kind # "frames"
      <3>1. slot.kind = "timer" /\ Ticked = slot
        BY <2>4 DEF Ticked, TypeOK, Slots
      <3>2. ~ (t >= slot.resume_at)
        BY <1>1, <2>2, <3>1 DEF Advance
      <3>3. t < slot.resume_at
        BY <1>1, <3>2 DEF TypeOK, Slots
      <3> QED
        BY <2>4, <3>3
    <2> QED
      BY <2>3, <2>4
  <1> QED
    BY <1>3, <1>4 DEF DueStep

\* A wait for frames resumes its body on the very frame it asked for, a timer not before
\* its time, whatever deadline passes on that frame; neither is given up on a frame that
\* is due.
THEOREM DueWaitsAreResumed == Spec => DueWaitsResume
  <1>1. Init => WaitInv /\ WaitOpen
    BY DEF Init, WaitInv, WaitOpen
  <1>2. QED
    BY <1>1, WaitStep, WaitOpenStep, DueWaitsStep, TypeInvariant,
       ResultsFollowTheSelection, NothingOutlives, PTL DEF Spec, DueWaitsResume, DueStep

-----------------------------------------------------------------------------
(* Evidence.                                                                *)

\* Until a test ends, its context holds no verdict of its end.
NothingJudgedYet == ctx.failures["teardown"] = 0 /\ ctx.failures["leak"] = 0

\* A fresh context holds no evidence.
LEMMA FreshIsUnjudged ==
    FreshContext.failures["teardown"] = 0 /\ FreshContext.failures["leak"] = 0
  BY DEF FreshContext, FailureKinds

\* Before its end no test holds evidence of one.
LEMMA NothingJudgedStep == TypeOK /\ NothingJudgedYet /\ [Next]_vars => NothingJudgedYet'
  <1> SUFFICES ASSUME TypeOK, NothingJudgedYet, [Next]_vars PROVE NothingJudgedYet'
    OBVIOUS
  <1>1. CASE ctx' = FreshContext \/ UNCHANGED ctx
    BY <1>1, FreshIsUnjudged DEF NothingJudgedYet
  <1>2. CASE Next /\ results' # results
    BY <1>1, <1>2, Judgements DEF JudgesSync, JudgesAsync, Abandons, Record
  <1>3. CASE Drive
    BY <1>1, <1>3 DEF Drive, RunAllAndQuit, StartSync, StartAsync, NoTestLeft,
                      WriteDocument, ReportAndQuit, EnterSyncBody, body
  <1>4. CASE Expect \/ TrackObject \/ AddTeardown \/ AwaitWithoutDriver
    BY <1>4, ZenonT(60) DEF Expect, TrackObject, AddTeardown, AwaitWithoutDriver, Fail,
                NothingJudgedYet, TypeOK, Contexts, FailureKinds
  <1>5. CASE NestedRun \/ NestedPump \/ Burn \/ Die \/ Stopped \/ UNCHANGED vars
    BY <1>1, <1>5 DEF NestedRun, NestedPump, Burn, Die, Stopped, vars, body
  <1>6. CASE (Await \/ End) /\ results' = results
    BY <1>1, <1>6, LengthsOfResults, FailCurrentAsyncRecords
       DEF Await, Suspend, End, EndSync, EndAsync, CollectAsyncResult, EnterSyncBody
  <1>7. CASE Frame /\ results' = results
    BY <1>1, <1>7, LengthsOfResults, FailCurrentAsyncRecords
       DEF Frame, FrameWaiting, FrameOverrun, FrameTimesOut, FrameResumes, body
  <1> QED
    BY <1>2, <1>3, <1>4, <1>5, <1>6, <1>7 DEF Next, Body

\* What teardowns and leak check make of a context.
LEMMA TornDownKeeps ==
    ASSUME NEW c \in Contexts, c.failures["teardown"] = 0, c.failures["leak"] = 0
    PROVE  LET d == TornDown(c) IN
           /\ \A k \in FailureKinds \ {"teardown", "leak"} : d.failures[k] = c.failures[k]
           /\ d.failures["teardown"] = c.throws
           /\ d.failures["leak"] = d.objects
           /\ d.objects \in Nat /\ (d.objects > 0 <=> c.objects > c.frees)
  <1>1. c.objects \in Nat /\ c.frees \in Nat /\ c.throws \in Nat
    BY DEF Contexts
  <1>2. Survivors(c) \in Nat /\ (Survivors(c) > 0 <=> c.objects > c.frees)
    BY <1>1 DEF Survivors
  <1> DEFINE d == AfterTeardowns(c)
  <1>3. /\ \A k \in FailureKinds \ {"teardown"} : d.failures[k] = c.failures[k]
        /\ d.failures["teardown"] = c.throws
        /\ d.objects = Survivors(c)
        /\ d \in Contexts
    BY <1>1, AfterTeardownsType DEF AfterTeardowns, Contexts, FailureKinds
  <1>4. /\ \A k \in FailureKinds \ {"leak"} : WithLeaks(d).failures[k] = d.failures[k]
        /\ WithLeaks(d).failures["leak"] = d.failures["leak"] + d.objects
        /\ WithLeaks(d).objects = d.objects
    BY <1>3 DEF WithLeaks, Contexts, FailureKinds
  <1> QED
    BY <1>1, <1>2, <1>3, <1>4 DEF TornDown, FailureKinds, Contexts

\* The end of a body keeps what it recorded,
LEMMA AtEndKeeps ==
    ASSUME ctx \in Contexts, NEW how \in Endings
    PROVE  LET c == AtEnd(how) IN
           /\ \A k \in FailureKinds \ {"abort", "exception"} : c.failures[k] = ctx.failures[k]
           /\ c.objects = ctx.objects /\ c.frees = ctx.frees /\ c.throws = ctx.throws
           /\ how = "throw" /\ phase = "sync" => c.failures["exception"] > 0
  BY DEF AtEnd, Fail, Contexts, FailureKinds, Endings

\* The part of EvidenceIsKept that speaks of failures.
FailuresAreKept(f) ==
    /\ f["expect"] = ctx.failures["expect"]
    /\ f["no_driver"] = ctx.failures["no_driver"]
    /\ f["teardown"] = ctx.throws
    /\ f["leak"] > 0 <=> ctx.objects > ctx.frees

\* so does the teardown,
LEMMA EndKeepsFailures ==
    ASSUME TypeOK, NothingJudgedYet, NEW how \in Endings
    PROVE  LET f == TornDown(AtEnd(how)).failures IN
           /\ FailuresAreKept(f)
           /\ how = "throw" /\ phase = "sync" => HasFailures(f)
  <1> DEFINE c == AtEnd(how)
  <1>1. c \in Contexts /\ ctx \in Contexts
    BY AtEndType DEF TypeOK
  <1>2. c.failures["teardown"] = 0 /\ c.failures["leak"] = 0
    BY <1>1, AtEndKeeps DEF NothingJudgedYet, FailureKinds
  <1>3. FailuresAreKept(TornDown(c).failures)
    BY <1>1, <1>2, AtEndKeeps, TornDownKeeps DEF FailuresAreKept, FailureKinds
  <1>4. ASSUME how = "throw", phase = "sync"
        PROVE  TornDown(c).failures["exception"] > 0
    BY <1>1, <1>2, <1>4, AtEndKeeps, TornDownKeeps DEF FailureKinds
  <1> QED
    BY <1>3, <1>4 DEF HasFailures, FailureKinds

\* and giving a test up.
LEMMA AbandonKeepsFailures ==
    ASSUME TypeOK, NothingJudgedYet, NEW k \in AbandonKinds
    PROVE  FailuresAreKept(FailedResult(ctx, k).failures)
  <1> DEFINE d == TornDown(ctx)
             e == Fail(d, k)
  <1>1. ctx \in Contexts /\ d \in Contexts /\ e \in Contexts
    BY TornDownType, FailType DEF TypeOK, AbandonKinds, FailureKinds
  <1>2. /\ \A j \in FailureKinds \ {k} : e.failures[j] = d.failures[j]
        /\ e.objects = d.objects
    BY <1>1 DEF Fail, Contexts
  <1>3. /\ \A j \in FailureKinds \ {"leak"} : WithLeaks(e).failures[j] = e.failures[j]
        /\ WithLeaks(e).failures["leak"] = e.failures["leak"] + e.objects
    BY <1>1 DEF WithLeaks, Contexts, FailureKinds
  <1> QED
    BY <1>1, <1>2, <1>3, TornDownKeeps
       DEF NothingJudgedYet, FailuresAreKept, FailedResult, FailureKinds, AbandonKinds

EvidenceStep ==
    Judged =>
        LET f == NewResult.failures IN
        /\ f["expect"] = ctx.failures["expect"]
        /\ f["no_driver"] = ctx.failures["no_driver"]
        /\ f["teardown"] = ctx.throws
        /\ f["leak"] > 0 <=> ctx.objects > ctx.frees
        /\ NewResult.crashed => ended' \in {"abort", "throw"}
        /\ phase = "async" /\ ended' \in {"abort", "throw"} => NewResult.crashed
        /\ ended' = "throw" => Verdict(NewResult) \in {"fail", "crashed"}

\* Each judgement carries the evidence of its test.
LEMMA EvidenceOfJudgement ==
    ASSUME TypeOK, NothingJudgedYet, Next, Judged
    PROVE  EvidenceStep
  <1>1. results' # results
    BY DEF Judged, TypeOK
  <1>2. ASSUME NEW r, NEW how, Record(r, how), FailuresAreKept(r.failures),
               r.crashed <=> phase = "async" /\ how \in {"abort", "throw"},
               how = "throw" => Verdict(r) \in {"fail", "crashed"}
        PROVE  EvidenceStep
    BY <1>2, LengthsOfResults DEF EvidenceStep, NewResult, FailuresAreKept, Record
  <1>3. CASE \E how \in Endings : JudgesSync(how)
    <2>1. PICK how \in Endings : JudgesSync(how)
      BY <1>3
    <2> DEFINE r == SyncResult(TornDown(AtEnd(how)))
    <2>2. FailuresAreKept(r.failures) /\ (how = "throw" => HasFailures(r.failures))
      BY <2>1, EndKeepsFailures DEF SyncResult, JudgesSync
    <2>3. ~r.crashed /\ phase = "sync" /\ Record(r, how)
      BY <2>1 DEF SyncResult, JudgesSync
    <2>4. how = "throw" => Verdict(r) = "fail"
      BY <2>2, <2>3 DEF Verdict
    <2> HIDE DEF r
    <2> QED
      BY <1>2, <2>2, <2>3, <2>4
  <1>4. CASE \E how \in Endings : JudgesAsync(how)
    <2>1. PICK how \in Endings : JudgesAsync(how)
      BY <1>4
    <2> DEFINE r == CollectedResult(AtEnd(how), how)
    <2>2. FailuresAreKept(r.failures)
      BY <2>1, EndKeepsFailures DEF CollectedResult
    <2>3. /\ r.crashed <=> how \in {"abort", "throw"}
          /\ phase = "async" /\ Record(r, how)
      BY <2>1 DEF CollectedResult, JudgesAsync
    <2>4. how = "throw" => Verdict(r) = "crashed"
      BY <2>3 DEF Verdict
    <2> HIDE DEF r
    <2> QED
      BY <1>2, <2>2, <2>3, <2>4
  <1>5. CASE \E k \in AbandonKinds : Abandons(k)
    <2>1. PICK k \in AbandonKinds : Abandons(k)
      BY <1>5
    <2>2. FailuresAreKept(FailedResult(ctx, k).failures) /\ ~FailedResult(ctx, k).crashed
      BY AbandonKeepsFailures DEF FailedResult
    <2>3. Record(FailedResult(ctx, k), "none")
      BY <2>1 DEF Abandons
    <2> QED
      BY <1>2, <2>2, <2>3
  <1> QED
    BY <1>1, <1>3, <1>4, <1>5, Judgements

\* On each of the five ways a test can end, what its body recorded and what it left
\* behind is in its result, and nothing is in it without a cause.
THEOREM EvidenceReachesTheResult == Spec => EvidenceIsKept
  <1>1. Init => NothingJudgedYet
    BY FreshIsUnjudged DEF Init, NothingJudgedYet
  <1>2. TypeOK /\ NothingJudgedYet /\ [Next]_vars => EvidenceStep \/ UNCHANGED vars
    BY EvidenceOfJudgement DEF EvidenceStep
  <1>3. QED
    BY <1>1, <1>2, NothingJudgedStep, TypeInvariant, PTL DEF Spec, EvidenceIsKept, EvidenceStep

-----------------------------------------------------------------------------
(* The report.                                                              *)

With(rs, verdict) == {i \in DOMAIN rs : Verdict(rs[i]) = verdict}

\* The results with a verdict, and how many there are.
LEMMA WithIsFinite ==
    ASSUME NEW rs \in Seq(Results), NEW v \in Verdicts
    PROVE  /\ IsFiniteSet(With(rs, v)) /\ With(rs, v) \subseteq 1 .. Len(rs)
           /\ CountOf(rs, v) = Cardinality(With(rs, v)) /\ CountOf(rs, v) \in Nat
           /\ CountOf(rs, v) > 0 <=> \E i \in DOMAIN rs : Verdict(rs[i]) = v
  <1>1. DOMAIN rs = 1 .. Len(rs) /\ Len(rs) \in Nat
    BY LenProperties
  <1>2. With(rs, v) \subseteq 1 .. Len(rs)
    BY <1>1 DEF With
  <1>3. IsFiniteSet(1 .. Len(rs))
    BY <1>1, FS_Interval
  <1>4. IsFiniteSet(With(rs, v))
    BY <1>2, <1>3, FS_Subset
  <1>5. CountOf(rs, v) = Cardinality(With(rs, v)) /\ CountOf(rs, v) \in Nat
    BY <1>4, FS_CardinalityType DEF CountOf, With
  <1>6. CountOf(rs, v) = 0 <=> With(rs, v) = {}
    BY <1>4, <1>5, FS_EmptySet
  <1>7. With(rs, v) = {} <=> ~ \E i \in DOMAIN rs : Verdict(rs[i]) = v
    BY DEF With
  <1> QED
    BY <1>2, <1>4, <1>5, <1>6, <1>7

\* The size of two disjoint sets.
LEMMA DisjointUnion ==
    ASSUME NEW S, NEW T, IsFiniteSet(S), IsFiniteSet(T), S \cap T = {}
    PROVE  /\ IsFiniteSet(S \cup T)
           /\ Cardinality(S \cup T) = Cardinality(S) + Cardinality(T)
  <1>1. /\ IsFiniteSet(S \cup T)
        /\ Cardinality(S \cup T) = Cardinality(S) + Cardinality(T) - Cardinality(S \cap T)
    BY FS_Union
  <1>2. Cardinality(S \cap T) = 0
    BY FS_EmptySet
  <1>3. Cardinality(S) \in Nat /\ Cardinality(T) \in Nat
    BY FS_CardinalityType
  <1> QED
    BY <1>1, <1>2, <1>3

\* The size of an initial segment.
LEMMA PrefixCardinality ==
    ASSUME NEW n \in Nat
    PROVE  Cardinality(1 .. n) = n
  <1>1. 1 \in Int /\ n \in Int
    OBVIOUS
  <1>2. Cardinality(1 .. n) = IF 1 > n THEN 0 ELSE n - 1 + 1
    BY <1>1, FS_Interval, Zenon
  <1> QED
    BY <1>2

\* Each result has one of four verdicts.
LEMMA VerdictsPartition ==
    ASSUME NEW rs \in Seq(Results)
    PROVE  CountOf(rs, "pass") + CountOf(rs, "fail") + CountOf(rs, "crashed")
               + CountOf(rs, "skipped") = Len(rs)
  <1> DEFINE P == With(rs, "pass")
             F == With(rs, "fail")
             C == With(rs, "crashed")
             K == With(rs, "skipped")
  <1>1. IsFiniteSet(P) /\ IsFiniteSet(F) /\ IsFiniteSet(C) /\ IsFiniteSet(K)
    BY WithIsFinite DEF Verdicts
  <1>2. /\ CountOf(rs, "pass") = Cardinality(P) /\ CountOf(rs, "fail") = Cardinality(F)
        /\ CountOf(rs, "crashed") = Cardinality(C)
        /\ CountOf(rs, "skipped") = Cardinality(K)
    BY DEF CountOf, With
  <1>3. P \cap F = {} /\ (P \cup F) \cap C = {} /\ ((P \cup F) \cup C) \cap K = {}
    BY DEF With
  <1>4. ((P \cup F) \cup C) \cup K = 1 .. Len(rs)
    <2>1. DOMAIN rs = 1 .. Len(rs)
      BY LenProperties
    <2>2. \A i \in DOMAIN rs : Verdict(rs[i]) \in {"pass", "fail", "crashed", "skipped"}
      BY DEF Verdict
    <2> QED
      BY <2>1, <2>2 DEF With
  <1> HIDE DEF P, F, C, K
  <1>5. /\ IsFiniteSet(P \cup F)
        /\ Cardinality(P \cup F) = Cardinality(P) + Cardinality(F)
    BY <1>1, <1>3, DisjointUnion
  <1>6. /\ IsFiniteSet((P \cup F) \cup C)
        /\ Cardinality((P \cup F) \cup C) = Cardinality(P \cup F) + Cardinality(C)
    BY <1>1, <1>3, <1>5, DisjointUnion
  <1>7. Cardinality(((P \cup F) \cup C) \cup K)
            = Cardinality((P \cup F) \cup C) + Cardinality(K)
    BY <1>1, <1>3, <1>6, DisjointUnion
  <1>8. Cardinality(1 .. Len(rs)) = Len(rs)
    BY PrefixCardinality, LenProperties
  <1> QED
    BY <1>2, <1>4, <1>5, <1>6, <1>7, <1>8

\* The totals add up to the results.
LEMMA TotalsAgree ==
    ASSUME NEW rs \in Seq(Results)
    PROVE  LET t == Totals(rs) IN
           /\ t.pass + t.fail + t.skip = Len(rs)
           /\ t.crashed <= t.fail
           /\ t.fail > 0 <=> AnyFailed(rs)
  <1>1. \A v \in Verdicts : CountOf(rs, v) \in Nat
    BY WithIsFinite
  <1>2. AnyFailed(rs) <=> CountOf(rs, "fail") > 0 \/ CountOf(rs, "crashed") > 0
    <2>1. AnyFailed(rs) <=> \E i \in DOMAIN rs : Verdict(rs[i]) \in {"fail", "crashed"}
      BY DEF AnyFailed, Verdict
    <2> QED
      BY <2>1, WithIsFinite DEF Verdicts
  <1> QED
    BY <1>1, <1>2, VerdictsPartition DEF Totals, Verdicts

\* A document is written when all results are in and says what they say; an exit
\* code after a document is the one they decide.
DocumentInv ==
    /\ phase # "over" => exit_code = NoExit
    /\ document.written =>
         /\ phase \in {"report", "over", "dead"}
         /\ Len(results) = Len(selected)
         /\ document.statuses = StatusesOf(results)
         /\ document.totals = Totals(results)
         /\ exit_code # NoExit => exit_code = IF AnyFailed(results) THEN 1 ELSE 0

\* Only the end of the run reports anything, and it leaves the results alone.
LEMMA OutcomeUnchanged ==
    ASSUME Next, ~RunAllAndQuit, ~WriteDocument, ~ReportAndQuit
    PROVE  /\ UNCHANGED outcome
           /\ \/ phase \in {"dispatch", "sync", "async", "engine"} /\ phase' # "over"
              \/ UNCHANGED <<results, selected>> /\ phase' \in {phase, "dead"}
                 /\ (phase = "boot" => phase' # "dead")
  <1>1. CASE StartSync \/ StartAsync \/ NoTestLeft
    BY <1>1 DEF StartSync, EnterSyncBody, StartAsync, NoTestLeft
  <1>2. CASE Expect \/ TrackObject \/ AddTeardown \/ NestedRun \/ NestedPump
             \/ Burn \/ AwaitWithoutDriver
    BY <1>2 DEF Expect, TrackObject, AddTeardown, NestedRun, NestedPump, Burn,
                AwaitWithoutDriver, InBody
  <1>3. CASE Await
    BY <1>3, FailCurrentAsyncRecords DEF Await, Suspend, Record
  <1>4. CASE End
    BY <1>4 DEF End, EndSync, EndAsync, CollectAsyncResult, EnterSyncBody, Record
  <1>5. CASE Frame
    BY <1>5, FailCurrentAsyncRecords
       DEF Frame, FrameWaiting, FrameOverrun, FrameTimesOut, FrameResumes, FrameAt, Record
  <1>6. CASE Die \/ Stopped
    BY <1>6 DEF Die, Stopped, vars, outcome, run
  <1> QED
    BY <1>1, <1>2, <1>3, <1>4, <1>5, <1>6 DEF Next, Drive, Body

\* Every step keeps the document that of the results.
LEMMA DocumentStep ==
    TypeOK /\ ResultsFollowSelection /\ DocumentInv /\ [Next]_vars => DocumentInv'
  <1> SUFFICES ASSUME TypeOK, ResultsFollowSelection, DocumentInv, [Next]_vars
               PROVE  DocumentInv'
    OBVIOUS
  <1>1. CASE RunAllAndQuit
    BY <1>1 DEF RunAllAndQuit, DocumentInv
  <1>2. CASE WriteDocument
    <2>1. Len(results) = Len(selected) /\ ~document.written
      BY <1>2 DEF WriteDocument, ResultsFollowSelection, DocumentInv
    <2>2. /\ phase' = "report" /\ UNCHANGED <<results, selected, exit_code>>
          /\ exit_code = NoExit
          /\ \/ document' = document
             \/ document' = [written |-> TRUE, statuses |-> StatusesOf(results),
                             totals |-> Totals(results)]
      BY <1>2 DEF WriteDocument, run, DocumentInv
    <2>3. StatusesOf(results)' = StatusesOf(results) /\ Totals(results)' = Totals(results)
      BY <2>2
    <2> QED
      BY <2>1, <2>2, <2>3 DEF DocumentInv
  <1>3. CASE ReportAndQuit
    <2>1. /\ phase' = "over" /\ UNCHANGED <<results, selected, document>>
          /\ exit_code' # NoExit => exit_code' = IF AnyFailed(results) THEN 1 ELSE 0
      BY <1>3 DEF ReportAndQuit, Quit, run
    <2>2. /\ StatusesOf(results)' = StatusesOf(results) /\ Totals(results)' = Totals(results)
          /\ AnyFailed(results)' <=> AnyFailed(results)
      BY <2>1
    <2> QED
      BY <2>1, <2>2 DEF DocumentInv
  <1>4. CASE Next /\ ~RunAllAndQuit /\ ~WriteDocument /\ ~ReportAndQuit
    <2>1. UNCHANGED <<document, exit_code>>
      BY <1>4, OutcomeUnchanged DEF outcome
    <2>2. CASE phase \in {"dispatch", "sync", "async", "engine"} /\ phase' # "over"
      BY <2>1, <2>2 DEF DocumentInv
    <2>3. CASE UNCHANGED <<results, selected>> /\ phase' \in {phase, "dead"}
      <3>1. /\ StatusesOf(results)' = StatusesOf(results) /\ Totals(results)' = Totals(results)
            /\ AnyFailed(results)' <=> AnyFailed(results)
        BY <2>3
      <3>2. CASE phase = "over" /\ phase' = "dead"
        BY <1>4, <3>2 DEF Next, Drive, StartSync, EnterSyncBody, StartAsync, NoTestLeft,
             Body, Expect, TrackObject, AddTeardown, NestedRun, NestedPump, InBody, Burn,
             AwaitWithoutDriver, Await, Suspend, End, EndSync, EndAsync, Frame,
             FrameWaiting, FrameOverrun, FrameTimesOut, FrameResumes, FrameAt, Die,
             Stopped, vars
      <3> QED
        BY <2>1, <2>3, <3>1, <3>2 DEF DocumentInv
    <2> QED
      BY <1>4, <2>2, <2>3, OutcomeUnchanged
  <1>5. CASE UNCHANGED vars
    <2>1. UNCHANGED <<results, selected, document, exit_code, phase>>
      BY <1>5 DEF vars
    <2>2. /\ StatusesOf(results)' = StatusesOf(results) /\ Totals(results)' = Totals(results)
          /\ AnyFailed(results)' <=> AnyFailed(results)
      BY <2>1
    <2> QED
      BY <2>1, <2>2 DEF DocumentInv
  <1> QED
    BY <1>1, <1>2, <1>3, <1>4, <1>5

\* The exit code, the totals and the statuses, which three loops compute, tell one
\* story, for all results.
THEOREM TheReportsAgree == Spec => []ReportsAgree
  <1>1. Init => DocumentInv
    BY DEF Init, DocumentInv, NoDocument
  <1>2. TypeOK /\ DocumentInv => ReportsAgree
    <2> SUFFICES ASSUME TypeOK, DocumentInv, document.written PROVE ReportsAgree
      BY DEF ReportsAgree
    <2>1. Len(document.statuses) = Len(selected)
      BY StatusesType DEF DocumentInv, TypeOK
    <2> QED
      BY <2>1, TotalsAgree DEF DocumentInv, ReportsAgree, TypeOK, NoExit
  <1>3. QED
    BY <1>1, <1>2, DocumentStep, TypeInvariant, ResultsFollowTheSelection, PTL DEF Spec
=============================================================================
