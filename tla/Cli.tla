--------------------------------- MODULE Cli --------------------------------
(***************************************************************************)
(* `gdextest test', `list' and `clean' on one project, one invocation      *)
(* after the other (tools/gdextest.py), with the processes they start:     *)
(* SCons, the warm-up run and the engine, any of which may die.            *)
(*                                                                         *)
(* What an invocation leaves on disk is what the next one finds.  Every    *)
(* document carries the number of the invocation whose engine wrote it.    *)
(* A kill takes the CLI and the process it waits for.                      *)
(***************************************************************************)
EXTENDS Integers, Sequences

CONSTANTS
    Pids,           \* os.getpid() of an invocation
    PidsRecur,      \* may a pid come again while its documents still lie about?
    Wirings,        \* does the SConstruct call the framework's SConscript?
    MaxInvocations  \* bound: invocations

ASSUME WiringsAssumption == Wirings \subseteq BOOLEAN /\ PidsRecur \in BOOLEAN
ASSUME MaxInvocationsAssumption == MaxInvocations \in Nat

VARIABLES
    pc,         \* where the invocation in hand is
    invocation, \* its number
    args,       \* its command line
    fixture,    \* the fixture project: "absent", without or with a .godot cache
    injected,   \* the invocation that wrote SConstruct.gdextest; 0: there is none
    user_data,  \* build_dir/user-data: "absent", "empty", "used"
    files,      \* the JSON documents on disk
    junit,      \* the JUnit file on disk
    engine,     \* the test run in the engine
    code,       \* cmd_test's `code'; None before the engine ended
    shown,      \* the document the report was rendered from
    last        \* how the previous invocation ended, where, and its exit code

disk == <<fixture, injected, user_data, files, junit>>
vars == <<pc, invocation, args, disk, engine, code, shown, last>>

None == -99
Interrupted == 130
DeathCodes == {1, -6}   \* a project that cannot start, a fatal signal

Arguments == [command : {"test", "list"}, keep : BOOLEAN, json : BOOLEAN,
              junit : BOOLEAN, pid : Pids, wired : Wirings]
Paths == ({"json"} \X {0}) \cup ({"report", "results"} \X Pids)
Documents == [by : Nat, whole : BOOLEAN, failed : BOOLEAN]
NoFile == [by |-> 0, whole |-> FALSE, failed |-> FALSE]

\* The runner's --gdextest-report-path and --gdextest-json, in the order in
\* which finish_run writes them.  An explicit --json gets a second, private copy.
UserPath == <<"json", 0>>
ReportPath == <<"report", args.pid>>
JsonPath == IF args.json THEN UserPath ELSE <<"results", args.pid>>
TargetsOf == IF args.json THEN <<ReportPath, UserPath>> ELSE <<JsonPath>>
PrivatePaths == {ReportPath, JsonPath} \ {UserPath}
CandidatesUserFirst == IF args.json THEN <<UserPath, ReportPath>> ELSE <<JsonPath>>
Candidates == TargetsOf

NoEngine == [failed |-> FALSE, stage |-> "none", targets |-> <<>>]
Never == [how |-> "never", at |-> "idle", exit |-> 0]

Init ==
    /\ pc = "idle" /\ invocation = 0
    /\ args \in Arguments
    /\ fixture = "absent" /\ injected = 0 /\ user_data = "absent"
    /\ files = [p \in Paths |-> NoFile] /\ junit = NoFile
    /\ engine = NoEngine /\ code = None
    /\ shown = NoFile /\ last = Never

-----------------------------------------------------------------------------
(* Ends.  `how' tells an end before the try of cmd_test or cmd_list from one *)
(* inside it, whose finally removes the fixture.                            *)

RemoveFixtureWhenNotKept(f) == IF args.keep THEN f ELSE "absent"
RemoveFixture(f) == IF args.keep /\ code # 0 THEN f ELSE "absent"

Ended(how, exit_code) ==
    pc' = "idle" /\ last' = [how |-> how, at |-> pc, exit |-> exit_code]
EndEarly(exit_code) == Ended("early", exit_code)
End(exit_code) == Ended("finally", exit_code)

\* An exception, 2 from main, or Ctrl-C; the documents stay.
Raise(exit_code) ==
    /\ End(exit_code)
    /\ fixture' = RemoveFixture(fixture)
    /\ UNCHANGED <<invocation, args, injected, user_data, files, junit, engine, code, shown>>

-----------------------------------------------------------------------------
Start(a) ==
    /\ pc = "idle" /\ invocation < MaxInvocations
    /\ PidsRecur \/ \A k \in {"report", "results"} : files[<<k, a.pid>>] = NoFile
    /\ invocation' = invocation + 1
    /\ args' = a
    /\ pc' = IF a.command = "test" THEN "doctor" ELSE "build"
    /\ engine' = NoEngine /\ code' = None /\ shown' = NoFile
    /\ UNCHANGED <<disk, last>>

\* cmd_clean: the fixture lies under the build directory.
CmdClean ==
    /\ pc = "idle" /\ invocation < MaxInvocations
    /\ invocation' = invocation + 1
    /\ fixture' = "absent" /\ user_data' = "absent"
    /\ last' = [how |-> "clean", at |-> "idle", exit |-> 0]
    /\ UNCHANGED <<pc, args, injected, files, junit, engine, code, shown>>

RunDoctor ==
    /\ pc = "doctor"
    /\ \/ pc' = "build" /\ last' = last
       \/ EndEarly(2)
    /\ UNCHANGED <<invocation, args, disk, engine, code, shown>>

\* A raise (2) or Ctrl-C in _run_build.  cmd_test builds inside its try,
\* cmd_list before it.
BuildRaises(exit_code, f) ==
    \/ args.command = "test" /\ End(exit_code) /\ fixture' = RemoveFixture(f)
    \/ args.command = "list" /\ EndEarly(exit_code) /\ fixture' = f

\* _run_build up to SCons: an unwired SConstruct is copied and injected.  That is
\* before the try whose finally removes the copy: what raises or interrupts a write
\* that has begun leaves the file, whole or not.
RunBuild ==
    /\ pc = "build"
    /\ \/ /\ pc' = "scons" /\ injected' = IF args.wired THEN injected ELSE invocation
          /\ UNCHANGED <<fixture, last>>
       \/ /\ injected' \in {injected} \cup IF args.wired THEN {} ELSE {invocation}
          /\ \E e \in {2, Interrupted} : BuildRaises(e, fixture)
    /\ UNCHANGED <<invocation, args, user_data, files, junit, engine, code, shown>>

\* SCons ends, having generated the fixture or not; then the library is
\* checked.  The finally removes the injected copy this invocation made.
BuildLeavesOnFailure(ok) == IF args.wired \/ ~ok THEN injected ELSE 0
BuildLeaves(ok) == IF args.wired THEN injected ELSE 0
BuildEnds(generated, ok) ==
    /\ pc = "scons" /\ (ok => generated)
    /\ injected' = BuildLeaves(ok)
    /\ LET built == IF generated /\ fixture = "absent" THEN "cold" ELSE fixture IN
       \/ ok /\ pc' = "godot" /\ fixture' = built /\ last' = last
       \/ ~ok /\ \E e \in {2, Interrupted} : BuildRaises(e, built)
    /\ UNCHANGED <<invocation, args, user_data, files, junit, engine, code, shown>>

\* godot_executable, the version check: they raise.
NoGodot == pc = "godot" /\ Raise(2)

\* _run_environment: user:// starts empty.
RunEnvironment == "empty"

\* _warm_fixture: its own outcome is not looked at; it leaves a cache, and
\* whatever it wrote under user://.
WarmFixtureSkips ==
    /\ pc = "godot" /\ pc' = "launch"
    /\ UNCHANGED <<invocation, args, disk, engine, code, shown, last>>
WarmFixture ==
    /\ pc = "godot"
    /\ \/ fixture = "cached" /\ UNCHANGED <<fixture, user_data>>
       \/ fixture = "cold" /\ fixture' = "cached" /\ user_data' = "used"
    /\ pc' = "launch"
    /\ UNCHANGED <<invocation, args, injected, files, junit, engine, code, shown, last>>

Launch ==
    /\ pc = "launch"
    /\ user_data' = RunEnvironment
    /\ pc' = "engine" /\ engine' = [NoEngine EXCEPT !.stage = "starting"]
    /\ UNCHANGED <<invocation, args, fixture, injected, files, junit, code, shown, last>>

-----------------------------------------------------------------------------
(* The engine, seen from the CLI.                                           *)

\* All selected tests have run, or they have been listed.
EngineRuns(failed) ==
    /\ pc = "engine" /\ engine.stage = "starting"
    /\ args.command = "list" => ~failed
    /\ user_data' = "used"
    /\ engine' = [failed |-> failed, stage |-> "finish",
                  targets |-> IF args.command = "test" THEN TargetsOf ELSE <<>>]
    /\ UNCHANGED <<pc, invocation, args, fixture, injected, files, junit, code, shown, last>>

\* write_json returns silently when it cannot open the user's path.
EngineWrites ==
    /\ pc = "engine" /\ engine.targets # <<>>
    /\ LET p == Head(engine.targets) IN
       \/ files' = [files EXCEPT ![p] =
              [by |-> invocation, whole |-> TRUE, failed |-> engine.failed]]
       \/ p = UserPath /\ files' = files
    /\ engine' = [engine EXCEPT !.targets = Tail(@)]
    /\ UNCHANGED <<pc, invocation, args, fixture, injected, user_data, junit, code, shown, last>>

EngineQuits ==
    /\ pc = "engine" /\ engine.stage = "finish" /\ engine.targets = <<>>
    /\ pc' = "collect" /\ code' = IF engine.failed THEN 1 ELSE 0
    /\ UNCHANGED <<invocation, args, disk, engine, shown, last>>

\* A usage error of the runner: quit(2) before anything else.
EngineRefuses ==
    /\ pc = "engine" /\ engine.stage = "starting"
    /\ pc' = "collect" /\ code' = 2
    /\ UNCHANGED <<invocation, args, disk, engine, shown, last>>

\* At any time, the document being written cut short.
EngineDies(c) ==
    /\ pc = "engine"
    /\ pc' = "collect" /\ code' = c /\ user_data' = "used"
    /\ \/ files' = files
       \/ /\ engine.targets # <<>>
          /\ files' = [files EXCEPT ![Head(engine.targets)] =
                 [by |-> invocation, whole |-> FALSE, failed |-> engine.failed]]
    /\ UNCHANGED <<invocation, args, fixture, injected, junit, engine, shown, last>>

-----------------------------------------------------------------------------
\* The first candidate that is there and parses; an incomplete one does not.
Readable == {i \in DOMAIN Candidates : files[Candidates[i]].whole}
Document ==
    IF args.command # "test" \/ Readable = {} THEN NoFile
    ELSE files[Candidates[CHOOSE i \in Readable : \A j \in Readable : i <= j]]

\* JUnit is made from the document at the json path, if that parses.
JUnitAfter ==
    IF args.command = "test" /\ args.junit /\ files[JsonPath].whole
    THEN files[JsonPath] ELSE junit

Unlinked == [p \in Paths |-> IF args.command = "test" /\ p \in PrivatePaths
                             THEN NoFile ELSE files[p]]

\* The rest of cmd_test (cmd_list): report, JUnit, temporary files, finally.
Collect ==
    /\ pc = "collect"
    /\ shown' = Document /\ junit' = JUnitAfter
    /\ files' = Unlinked
    /\ End(code) /\ fixture' = RemoveFixture(fixture)
    /\ UNCHANGED <<invocation, args, injected, user_data, engine, code>>

\* The raw log cannot be written: the OSError leaves before the temporary
\* documents are removed, and main makes it a 2.
RawLogFails ==
    /\ pc = "collect" /\ args.command = "test"
    /\ shown' = Document /\ junit' = JUnitAfter
    /\ End(2) /\ fixture' = RemoveFixture(fixture)
    /\ UNCHANGED <<invocation, args, injected, user_data, files, engine, code>>

\* Ctrl-C reaches the CLI and its child; the finally clauses run.
Interrupt ==
    \/ pc \in {"godot", "launch", "engine", "collect"} /\ Raise(Interrupted)
    \/ /\ pc = "doctor" /\ EndEarly(Interrupted)
       /\ UNCHANGED <<invocation, args, disk, engine, code, shown>>

\* SIGKILL, a cancelled job: nothing runs any more.
Kill ==
    /\ pc # "idle"
    /\ Ended("killed", None)
    /\ UNCHANGED <<invocation, args, disk, engine, code, shown>>

Done == pc = "idle" /\ invocation = MaxInvocations /\ UNCHANGED vars

Next ==
    \/ \E a \in Arguments : Start(a)
    \/ CmdClean \/ RunDoctor \/ RunBuild \/ NoGodot \/ WarmFixture \/ Launch
    \/ \E generated, ok \in BOOLEAN : BuildEnds(generated, ok)
    \/ \E failed \in BOOLEAN : EngineRuns(failed)
    \/ EngineWrites \/ EngineQuits \/ EngineRefuses
    \/ \E c \in DeathCodes : EngineDies(c)
    \/ Collect \/ RawLogFails \/ Interrupt \/ Kill \/ Done

Spec == Init /\ [][Next]_vars

-----------------------------------------------------------------------------
Phases == {"idle", "doctor", "build", "scons", "godot", "launch", "engine", "collect"}
ExitCodes == {None, 0, 1, 2, Interrupted} \cup DeathCodes
Engines == [failed : BOOLEAN, stage : {"none", "starting", "finish"}, targets : Seq(Paths)]

\* The type of every variable; the engine runs in a fixture that has a cache.
TypeOK ==
    /\ pc \in Phases /\ invocation \in 0..MaxInvocations /\ args \in Arguments
    /\ fixture \in {"absent", "cold", "cached"}
    /\ injected \in 0..MaxInvocations
    /\ user_data \in {"absent", "empty", "used"}
    /\ files \in [Paths -> Documents] /\ junit \in Documents /\ shown \in Documents
    /\ engine \in Engines
    /\ code \in ExitCodes
    /\ last \in [how : {"never", "early", "finally", "clean", "killed"},
                 at : Phases, exit : ExitCodes]
    /\ pc \in {"launch", "engine", "collect"} => fixture = "cached"

\* An invocation leaves its own injected build file only if it was killed, or if it
\* came no further than to write it; one that came further has removed every such file,
\* those of older invocations included, unless its SConstruct is wired.  One that got
\* into its try leaves no fixture unless asked to after a failure; and a test run neither
\* interrupted nor raised out of leaves no temporary document (_run_build's finally,
\* _remove_fixture, the unlinks at the end of cmd_test).  Nothing is said of the fixture
\* of a `list' that fails in its build: that is before its try, and leaves it.
LeavesNothingBehind ==
    pc = "idle" /\ invocation > 0 =>
        /\ injected = invocation => last.how = "killed" \/ last.at = "build"
        /\ /\ last.how \in {"early", "finally"} /\ last.at \notin {"doctor", "build"}
           /\ ~args.wired
           => injected = 0
        /\ last.how = "finally" /\ fixture # "absent" => args.keep /\ last.exit # 0
        /\ last.how = "finally" /\ last.exit \notin {2, Interrupted} /\ args.command = "test" =>
               \A p \in PrivatePaths : files[p] = NoFile

\* A `test' that exits 0 has rendered the report of its own engine run, complete
\* and without a failure, whatever documents earlier runs left at its paths.
GreenIsReal ==
    pc = "idle" /\ last.how = "finally" /\ last.exit = 0 /\ args.command = "test" =>
        shown = [by |-> invocation, whole |-> TRUE, failed |-> FALSE]

\* docs/cli.md: "If the engine dies before writing the results document
\* (segfault, OOM kill), no results are faked".  After an engine that died, what
\* is rendered comes from this invocation (cmd_test's choice of a document).
NoResultsAreFaked ==
    pc = "idle" /\ last.how = "finally" /\ code \in DeathCodes /\ shown # NoFile =>
        shown.by = invocation
=============================================================================
