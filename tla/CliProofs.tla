------------------------------ MODULE CliProofs -----------------------------
(***************************************************************************)
(* Theorems about the command line, for any number of invocations, process *)
(* ids that come again or not, and projects wired or not.                  *)
(***************************************************************************)
EXTENDS Cli, TLAPS

\* The document that decides the report: the first candidate.
First == IF args.json THEN ReportPath ELSE JsonPath
Verdict(failed) == [by |-> invocation, whole |-> TRUE, failed |-> failed]

LEMMA OneAndTwo ==
    ASSUME NEW S, NEW a \in S, NEW b \in S
    PROVE  /\ <<a>> \in Seq(S) /\ <<a>> # <<>> /\ <<a>>[1] = a
           /\ Head(<<a>>) = a /\ Tail(<<a>>) = <<>>
           /\ <<a, b>> \in Seq(S) /\ <<a, b>> # <<>> /\ <<a, b>>[1] = a
           /\ Head(<<a, b>>) = a /\ Tail(<<a, b>>) = <<b>>
  OBVIOUS

LEMMA PathsOfTheRun ==
    ASSUME args \in Arguments
    PROVE  /\ ReportPath \in Paths /\ JsonPath \in Paths /\ UserPath \in Paths
           /\ First \in Paths /\ First # UserPath /\ First \in PrivatePaths
           /\ TargetsOf \in Seq(Paths) /\ TargetsOf # <<>>
           /\ TargetsOf[1] = First
           /\ args.json => TargetsOf = <<First, UserPath>>
           /\ ~args.json => TargetsOf = <<First>>
  <1>1. args.pid \in Pids /\ args.json \in BOOLEAN
    BY DEF Arguments
  <1>2. ReportPath \in Paths /\ JsonPath \in Paths /\ UserPath \in Paths
    BY <1>1 DEF Paths, ReportPath, JsonPath, UserPath
  <1>3. "report" # "json" /\ "results" # "json"
    OBVIOUS
  <1>4. ReportPath # UserPath /\ (~args.json => JsonPath # UserPath)
    BY <1>3 DEF ReportPath, JsonPath, UserPath
  <1>5. First \in Paths /\ First # UserPath /\ First \in PrivatePaths
    BY <1>2, <1>4 DEF First, PrivatePaths
  <1>6. /\ args.json => TargetsOf = <<First, UserPath>>
        /\ ~args.json => TargetsOf = <<First>>
    BY DEF First, TargetsOf
  <1> HIDE DEF ReportPath, JsonPath, UserPath, First, Paths
  <1>7. TargetsOf \in Seq(Paths) /\ TargetsOf # <<>> /\ TargetsOf[1] = First
    <2>1. CASE args.json
      <3>1. TargetsOf = <<First, UserPath>>
        BY <2>1, <1>6
      <3> QED
        BY <3>1, <1>2, <1>5, OneAndTwo
    <2>2. CASE ~args.json
      <3>1. TargetsOf = <<First>>
        BY <2>2, <1>6
      <3> QED
        BY <3>1, <1>5, OneAndTwo
    <2> QED
      BY <2>1, <2>2
  <1> QED
    BY <1>2, <1>5, <1>6, <1>7

-----------------------------------------------------------------------------
(* Types.                                                                   *)

LEMMA TypeInit == Init => TypeOK
  <1> SUFFICES ASSUME Init PROVE TypeOK
    OBVIOUS
  <1> QED
    BY MaxInvocationsAssumption
    DEF Init, TypeOK, Phases, Documents, NoFile, Engines, NoEngine, ExitCodes, None, Never

LEMMA TypeNext == TypeOK /\ [Next]_vars => TypeOK'
  <1> SUFFICES ASSUME TypeOK, [Next]_vars PROVE TypeOK'
    OBVIOUS
  <1> USE MaxInvocationsAssumption DEF TypeOK, Phases, disk
  <1>0. \A whole, failed \in BOOLEAN :
            [by |-> invocation, whole |-> whole, failed |-> failed] \in Documents
    BY DEF Documents
  <1>a. engine.failed \in BOOLEAN
    BY DEF Engines
  <1>1. ASSUME NEW a \in Arguments, Start(a) PROVE TypeOK'
    BY <1>1 DEF Start, Engines, NoEngine, NoFile, Documents, ExitCodes
  <1>2. CASE CmdClean
    BY <1>2 DEF CmdClean, ExitCodes
  <1>3. CASE RunDoctor
    BY <1>3 DEF RunDoctor, EndEarly, Ended, ExitCodes
  <1>4. CASE RunBuild
    BY <1>4 DEF RunBuild, BuildRaises, End, EndEarly, Ended, RemoveFixture, ExitCodes, Interrupted
  <1>5. CASE NoGodot
    BY <1>5 DEF NoGodot, Raise, End, Ended, RemoveFixture, ExitCodes
  <1>6. CASE WarmFixture
    BY <1>6 DEF WarmFixture
  <1>7. CASE Launch
    <2>1. engine' = [failed |-> FALSE, stage |-> "starting", targets |-> <<>>]
      BY <1>7 DEF Launch, NoEngine
    <2>2. engine' \in Engines
      BY <2>1 DEF Engines
    <2> QED
      BY <1>7, <2>2 DEF Launch, RunEnvironment
  <1>8. ASSUME NEW generated \in BOOLEAN, NEW ok \in BOOLEAN, BuildEnds(generated, ok)
        PROVE  TypeOK'
    BY <1>8 DEF BuildEnds, BuildLeaves, BuildRaises, End, EndEarly, Ended, RemoveFixture,
                ExitCodes, Interrupted
  <1>9. ASSUME NEW failed \in BOOLEAN, EngineRuns(failed) PROVE TypeOK'
    BY <1>9, PathsOfTheRun DEF EngineRuns, Engines
  <1>10. CASE EngineWrites
    <2>1. Head(engine.targets) \in Paths /\ Tail(engine.targets) \in Seq(Paths)
      BY <1>10 DEF EngineWrites, Engines
    <2>2. engine' \in Engines
      BY <1>10, <2>1 DEF EngineWrites, Engines
    <2>3. files' \in [Paths -> Documents]
      BY <1>0, <1>a, <1>10, <2>1 DEF EngineWrites
    <2> QED
      BY <1>10, <2>2, <2>3 DEF EngineWrites
  <1>11. CASE EngineQuits
    BY <1>11 DEF EngineQuits, ExitCodes
  <1>12. CASE EngineRefuses
    BY <1>12 DEF EngineRefuses, ExitCodes
  <1>13. ASSUME NEW c \in DeathCodes, EngineDies(c) PROVE TypeOK'
    <2>1. files' \in [Paths -> Documents]
      <3>1. CASE files' = files
        BY <3>1
      <3>2. CASE files' # files
        <4>1. Head(engine.targets) \in Paths
          BY <1>13, <3>2 DEF EngineDies, Engines
        <4> QED
          BY <1>0, <1>a, <1>13, <3>2, <4>1 DEF EngineDies
      <3> QED
        BY <3>1, <3>2
    <2> QED
      BY <1>13, <2>1 DEF EngineDies, ExitCodes
  <1>14. Document \in Documents /\ JUnitAfter \in Documents
    <2>1. Document \in Documents
      <3>1. CASE Document = NoFile
        BY <3>1 DEF NoFile, Documents
      <3>2. CASE Document # NoFile
        <4> DEFINE i == CHOOSE i \in Readable : \A j \in Readable : i <= j
        <4>1. Readable # {} /\ Document = files[Candidates[i]]
          BY <3>2 DEF Document
        <4>2. Readable \subseteq DOMAIN Candidates
          BY DEF Readable
        <4>3. DOMAIN Candidates = 1 .. Len(Candidates)
              /\ \A n \in DOMAIN Candidates : Candidates[n] \in Paths
          BY PathsOfTheRun DEF Candidates
        <4>4. 1 \in Readable \/ Readable = {2}
          BY <4>1, <4>2, PathsOfTheRun DEF Candidates
        <4>5. i \in Readable
          <5>1. \E n \in Readable : \A j \in Readable : n <= j
            BY <4>2, <4>3, <4>4
          <5> QED
            BY <5>1
        <4> QED
          BY <4>1, <4>2, <4>3, <4>5
      <3> QED
        BY <3>1, <3>2
    <2>2. JUnitAfter \in Documents
      BY PathsOfTheRun DEF JUnitAfter
    <2> QED
      BY <2>1, <2>2
  <1>15. CASE Collect
    BY <1>14, <1>15
    DEF Collect, Unlinked, NoFile, Documents, End, Ended, RemoveFixture, ExitCodes
  <1>16. CASE RawLogFails
    BY <1>14, <1>16 DEF RawLogFails, End, Ended, RemoveFixture, ExitCodes
  <1>17. CASE Interrupt
    BY <1>17 DEF Interrupt, Raise, EndEarly, End, Ended, RemoveFixture, ExitCodes, Interrupted
  <1>18. CASE Kill
    BY <1>18 DEF Kill, Ended, ExitCodes
  <1>19. CASE Done \/ UNCHANGED vars
    BY <1>19 DEF Done, vars
  <1> QED
    BY <1>1, <1>2, <1>3, <1>4, <1>5, <1>6, <1>7, <1>8, <1>9, <1>10, <1>11, <1>12,
       <1>13, <1>15, <1>16, <1>17, <1>18, <1>19 DEF Next

\* The type of every variable, whatever dies when.
THEOREM TypeInvariant == Spec => []TypeOK
  BY TypeInit, TypeNext, PTL DEF Spec

-----------------------------------------------------------------------------
(* A green exit is the verdict of this invocation's run.                    *)

\* Nothing is left to write before the tests have run.
NothingDueAtStart ==
    pc = "engine" => /\ engine.stage \in {"starting", "finish"}
                     /\ engine.stage = "starting" => engine.targets = <<>>

LEMMA NothingDueNext == NothingDueAtStart /\ [Next]_vars => NothingDueAtStart'
  <1> SUFFICES ASSUME NothingDueAtStart, [Next]_vars PROVE NothingDueAtStart'
    OBVIOUS
  <1> USE DEF NothingDueAtStart
  <1>1. CASE pc' # "engine"
    BY <1>1
  <1>2. CASE Launch
    BY <1>2 DEF Launch, NoEngine
  <1>3. ASSUME NEW failed \in BOOLEAN, EngineRuns(failed) PROVE NothingDueAtStart'
    BY <1>3 DEF EngineRuns
  <1>4. CASE EngineWrites
    BY <1>4 DEF EngineWrites
  <1>5. CASE Done \/ UNCHANGED vars
    BY <1>5 DEF Done, vars, disk
  <1>6. ASSUME pc' = "engine"
        PROVE  \/ Launch \/ EngineWrites \/ Done \/ UNCHANGED vars
               \/ \E failed \in BOOLEAN : EngineRuns(failed)
    BY <1>6
    DEF Next, Start, CmdClean, RunDoctor, RunBuild, BuildRaises, BuildEnds, NoGodot, Raise,
        WarmFixture, EngineQuits, EngineRefuses, EngineDies, Collect, RawLogFails,
        Interrupt, Kill, End, EndEarly, Ended
  <1> QED
    BY <1>1, <1>2, <1>3, <1>4, <1>5, <1>6

\* The first candidate is written first; what is at its path when all is
\* written is this run's.
WrittenInOrder ==
    pc = "engine" /\ engine.stage = "finish" /\ args.command = "test" =>
        \/ engine.targets = TargetsOf
        \/ /\ files[First] = Verdict(engine.failed)
           /\ engine.targets = <<>> \/ engine.targets = <<UserPath>>
GreenIsWritten ==
    pc = "collect" /\ code = 0 /\ args.command = "test" => files[First] = Verdict(FALSE)

GreenInv == WrittenInOrder /\ GreenIsWritten /\ GreenIsReal

LEMMA GreenNext ==
    TypeOK /\ NothingDueAtStart /\ GreenInv /\ [Next]_vars => GreenInv'
  <1> SUFFICES ASSUME TypeOK, NothingDueAtStart, GreenInv, [Next]_vars PROVE GreenInv'
    OBVIOUS
  <1> USE DEF GreenInv
  <1>0. args \in Arguments /\ files \in [Paths -> Documents] /\ code \in ExitCodes
    BY DEF TypeOK
  <1>1. ASSUME NEW failed \in BOOLEAN, EngineRuns(failed) PROVE GreenInv'
    BY <1>1 DEF EngineRuns, WrittenInOrder, GreenIsWritten, GreenIsReal, TargetsOf,
                JsonPath, ReportPath
  <1>2. CASE EngineWrites
    <2>0. pc = "engine" /\ UNCHANGED <<pc, args, invocation, code, shown, last>>
      BY <1>2 DEF EngineWrites
    <2>1. First' = First /\ TargetsOf' = TargetsOf
      BY <2>0 DEF First, TargetsOf, ReportPath, JsonPath
    <2>2. WrittenInOrder'
      <3> SUFFICES ASSUME engine.stage = "finish", args.command = "test"
                   PROVE  /\ files'[First] = Verdict(engine.failed)
                          /\ engine'.targets = <<>> \/ engine'.targets = <<UserPath>>
        BY <1>2, <2>0, <2>1 DEF EngineWrites, WrittenInOrder, Verdict
      <3> DEFINE p == Head(engine.targets)
      <3>1. \/ files' = [files EXCEPT ![p] = Verdict(engine.failed)]
            \/ p = UserPath /\ files' = files
        BY <1>2 DEF EngineWrites, Verdict
      <3>2. CASE engine.targets = TargetsOf
        <4>0. engine.targets = <<First, UserPath>> \/ engine.targets = <<First>>
          <5>1. args.json \in BOOLEAN
            BY <1>0 DEF Arguments
          <5> QED
            BY <5>1, <3>2, <1>0, PathsOfTheRun
        <4>1. p = First /\ p # UserPath
          <5> HIDE DEF p
          <5>1. First \in Paths /\ UserPath \in Paths /\ First # UserPath
            BY <1>0, PathsOfTheRun
          <5>2. Head(engine.targets) = First
            BY <4>0, <5>1, OneAndTwo
          <5> QED
            BY <5>1, <5>2 DEF p
        <4>2. Tail(engine.targets) = <<>> \/ Tail(engine.targets) = <<UserPath>>
          <5>1. First \in Paths /\ UserPath \in Paths
            BY <1>0, PathsOfTheRun
          <5>2. Tail(<<First, UserPath>>) = <<UserPath>> /\ Tail(<<First>>) = <<>>
            BY <5>1, OneAndTwo
          <5> QED
            BY <4>0, <5>2
        <4>3. engine'.targets = Tail(engine.targets)
          BY <1>2 DEF EngineWrites, TypeOK, Engines
        <4> QED
          BY <3>1, <4>1, <4>2, <4>3, <1>0, PathsOfTheRun
      <3>3. CASE engine.targets # TargetsOf
        <4>1. engine.targets = <<UserPath>> /\ files[First] = Verdict(engine.failed)
          BY <1>2, <2>0, <3>3 DEF EngineWrites, WrittenInOrder
        <4>2. p = UserPath /\ Tail(engine.targets) = <<>>
          BY <4>1
        <4>3. engine'.targets = Tail(engine.targets)
          BY <1>2 DEF EngineWrites, TypeOK, Engines
        <4> QED
          BY <3>1, <4>1, <4>2, <4>3, <1>0, PathsOfTheRun
      <3> QED
        BY <3>2, <3>3
    <2> QED
      BY <2>0, <2>2 DEF GreenIsWritten, GreenIsReal
  <1>3. CASE EngineQuits
    <2>1. UNCHANGED <<args, invocation, files, engine>> /\ pc' = "collect"
      BY <1>3 DEF EngineQuits, disk
    <2>2. ASSUME code' = 0, args.command = "test" PROVE files[First] = Verdict(FALSE)
      <3>1. engine.failed = FALSE
        BY <1>3, <2>2 DEF EngineQuits, TypeOK, Engines
      <3>2. files[First] = Verdict(engine.failed)
        BY <1>3, <2>2, <1>0, PathsOfTheRun DEF EngineQuits, WrittenInOrder
      <3> QED
        BY <3>1, <3>2
    <2> QED
      BY <2>1, <2>2 DEF WrittenInOrder, GreenIsWritten, GreenIsReal, First, Verdict,
                        ReportPath, JsonPath
  <1>4. CASE Collect
    <2>1. pc = "collect" /\ pc' = "idle" /\ shown' = Document
          /\ last'.how = "finally" /\ last'.exit = code /\ UNCHANGED <<args, invocation>>
      BY <1>4 DEF Collect, End, Ended
    <2>2. ASSUME code = 0, args.command = "test" PROVE Document = Verdict(FALSE)
      <3>1. files[First] = Verdict(FALSE) /\ files[First].whole
        BY <2>1, <2>2 DEF GreenIsWritten, Verdict
      <3>2. Candidates[1] = First /\ 1 \in DOMAIN Candidates
            /\ DOMAIN Candidates \subseteq Nat \ {0}
        BY <1>0, PathsOfTheRun DEF Candidates
      <3>a. Readable \subseteq DOMAIN Candidates
        BY DEF Readable
      <3>b. 1 \in Readable
        BY <3>1, <3>2 DEF Readable
      <3>3. 1 \in Readable /\ \A j \in Readable : 1 <= j /\ j \in Nat
        BY <3>2, <3>a, <3>b
      <3>4. 1 = CHOOSE i \in Readable : \A j \in Readable : i <= j
        BY <3>3
      <3> QED
        BY <2>2, <3>1, <3>2, <3>3, <3>4 DEF Document
    <2> QED
      BY <2>1, <2>2 DEF WrittenInOrder, GreenIsWritten, GreenIsReal, Verdict
  <1> USE DEF WrittenInOrder, GreenIsWritten, GreenIsReal
  <1>5. CASE EngineRefuses \/ \E c \in DeathCodes : EngineDies(c)
    <2>1. pc' = "collect" /\ code' # 0
      BY <1>5 DEF EngineRefuses, EngineDies, DeathCodes
    <2> QED
      BY <2>1
  <1>6. CASE \/ RawLogFails \/ Interrupt \/ Kill \/ NoGodot \/ CmdClean
    <2>1. pc' = "idle"
      BY <1>6 DEF RawLogFails, Interrupt, Kill, NoGodot, Raise, CmdClean, End, EndEarly, Ended
    <2>2. last'.exit # 0 \/ last'.how # "finally"
      BY <1>6 DEF RawLogFails, Interrupt, Kill, NoGodot, Raise, CmdClean, End, EndEarly, Ended,
                  Interrupted
    <2> QED
      BY <2>1, <2>2
  <1>7. CASE \/ RunDoctor \/ RunBuild
             \/ \E generated, ok \in BOOLEAN : BuildEnds(generated, ok)
    <2>1. pc' \notin {"engine", "collect"}
      BY <1>7 DEF RunDoctor, RunBuild, BuildEnds, BuildRaises, End, EndEarly, Ended
    <2>2. pc' = "idle" => last'.exit # 0
      BY <1>7 DEF RunDoctor, RunBuild, BuildEnds, BuildRaises, End, EndEarly, Ended, Interrupted
    <2>3. WrittenInOrder' /\ GreenIsWritten'
      BY <2>1
    <2>4. GreenIsReal'
      BY <2>2
    <2> QED
      BY <2>3, <2>4
  <1>8. CASE \/ WarmFixture \/ Launch \/ \E a \in Arguments : Start(a)
    BY <1>8 DEF WarmFixture, Launch, Start, NoEngine, WrittenInOrder, GreenIsWritten, GreenIsReal
  <1>9. CASE Done \/ UNCHANGED vars
    BY <1>9 DEF Done, vars, disk, WrittenInOrder, GreenIsWritten, GreenIsReal, TargetsOf,
                First, ReportPath, JsonPath, Verdict
  <1> QED
    BY <1>1, <1>2, <1>3, <1>4, <1>5, <1>6, <1>7, <1>8, <1>9 DEF Next

\* A `test' that exits 0 shows a complete, failure-free document that its own
\* engine run has written.
THEOREM GreenIsNeverStale == Spec => []GreenIsReal
  <1>1. Init => GreenInv
    BY DEF Init, GreenInv, WrittenInOrder, GreenIsWritten, GreenIsReal, Never
  <1>2. Init => NothingDueAtStart
    BY DEF Init, NothingDueAtStart
  <1>3. GreenInv => GreenIsReal
    BY DEF GreenInv
  <1> QED
    BY <1>1, <1>2, <1>3, NothingDueNext, GreenNext, TypeInvariant, PTL DEF Spec

-----------------------------------------------------------------------------
(* What an invocation leaves on disk.                                       *)

\* Whose SConstruct.gdextest it is.
InjectionIsOlder ==
    /\ injected <= invocation
    /\ pc # "idle" => invocation > 0
    /\ pc \notin {"idle", "scons"} => injected < invocation
    /\ pc = "scons" /\ args.wired => injected < invocation
    /\ pc \notin {"idle", "doctor", "build", "scons"} /\ ~args.wired => injected = 0

LitterInv == InjectionIsOlder /\ LeavesNothingBehind

LEMMA LitterNext == TypeOK /\ LitterInv /\ [Next]_vars => LitterInv'
  <1> SUFFICES ASSUME TypeOK, LitterInv, [Next]_vars PROVE LitterInv'
    OBVIOUS
  <1> USE DEF LitterInv
  <1>0. /\ invocation \in Nat /\ injected \in Nat
        /\ args \in Arguments /\ args.wired \in BOOLEAN
    BY MaxInvocationsAssumption, WiringsAssumption DEF TypeOK, Arguments
  <1>1. CASE CmdClean \/ \E a \in Arguments : Start(a)
    <2>1. /\ injected' = injected /\ invocation' = invocation + 1
          /\ pc' \in {"idle", "doctor", "build"}
      BY <1>1 DEF CmdClean, Start, disk
    <2>2. pc' = "idle" => last'.how = "clean"
      BY <1>1 DEF CmdClean, Start
    <2> QED
      BY <1>0, <2>1, <2>2 DEF InjectionIsOlder, LeavesNothingBehind
  <1>2. CASE RunBuild
    <2>1. InjectionIsOlder'
      BY <1>0, <1>2 DEF RunBuild, InjectionIsOlder, BuildRaises, End, EndEarly, Ended
    <2>2. CASE pc' = "scons"
      BY <2>1, <2>2 DEF LeavesNothingBehind
    <2>3. CASE pc' # "scons"
      BY <1>0, <1>2, <2>1, <2>3
      DEF RunBuild, InjectionIsOlder, LeavesNothingBehind, BuildRaises, End, EndEarly, Ended,
          RemoveFixture, Interrupted
    <2> QED
      BY <2>1, <2>2, <2>3
  <1>3. ASSUME NEW generated \in BOOLEAN, NEW ok \in BOOLEAN, BuildEnds(generated, ok)
        PROVE  LitterInv'
    <2>1. /\ injected' < invocation /\ injected' \in Nat /\ UNCHANGED <<invocation, args>>
          /\ ~args.wired => injected' = 0
          /\ pc = "scons" /\ pc' \in {"godot", "idle"} /\ invocation > 0
      BY <1>0, <1>3 DEF BuildEnds, BuildLeaves, InjectionIsOlder, BuildRaises, End, EndEarly, Ended
    <2>2. InjectionIsOlder'
      BY <1>0, <2>1 DEF InjectionIsOlder
    <2>3. CASE pc' = "godot"
      BY <2>2, <2>3 DEF LeavesNothingBehind
    <2>4. CASE pc' # "godot"
      <3>1. last'.how = "finally" =>
                last'.exit \in {2, Interrupted} /\ (fixture' # "absent" => args.keep)
        BY <1>3, <2>4 DEF BuildEnds, BuildRaises, End, EndEarly, Ended, RemoveFixture
      <3>2. injected' # invocation'
        BY <1>0, <2>1
      <3> QED
        BY <2>1, <2>2, <3>1, <3>2 DEF LeavesNothingBehind, Interrupted
    <2> QED
      BY <2>2, <2>3, <2>4
  <1>4. CASE Collect
    <2>1. /\ pc = "collect" /\ pc' = "idle" /\ UNCHANGED <<invocation, args, injected>>
          /\ last'.how = "finally" /\ last'.exit = code /\ last'.at = "collect"
          /\ fixture' = RemoveFixture(fixture) /\ files' = Unlinked
      BY <1>4 DEF Collect, End, Ended
    <2>2. InjectionIsOlder' /\ injected' # invocation' /\ (~args'.wired => injected' = 0)
      BY <1>0, <2>1 DEF InjectionIsOlder
    <2>3. fixture' # "absent" => args'.keep /\ last'.exit # 0
      BY <2>1 DEF RemoveFixture
    <2>4. args.command = "test" => \A p \in PrivatePaths : files'[p] = NoFile
      BY <1>0, <2>1, PathsOfTheRun DEF Unlinked, PrivatePaths
    <2>5. PrivatePaths' = PrivatePaths
      BY <2>1 DEF PrivatePaths, ReportPath, JsonPath
    <2>6. LeavesNothingBehind'
      BY <2>1, <2>2, <2>3, <2>4, <2>5 DEF LeavesNothingBehind
    <2> QED
      BY <2>2, <2>6
  <1>5. CASE RawLogFails \/ Interrupt \/ NoGodot
    <2>1. /\ pc \notin {"idle", "build", "scons"} /\ pc' = "idle"
          /\ last'.how \in {"finally", "early"} /\ last'.at = pc
          /\ UNCHANGED <<invocation, args, injected>>
      BY <1>5 DEF RawLogFails, Interrupt, NoGodot, Raise, End, EndEarly, Ended, disk
    <2>2. last'.how = "finally" =>
              last'.exit \in {2, Interrupted} /\ (fixture' # "absent" => args.keep)
      BY <1>5 DEF RawLogFails, Interrupt, NoGodot, Raise, End, EndEarly, Ended, RemoveFixture
    <2>3. /\ InjectionIsOlder' /\ injected' # invocation'
          /\ ~args'.wired /\ last'.at # "doctor" => injected' = 0
      BY <1>0, <2>1 DEF InjectionIsOlder
    <2>4. LeavesNothingBehind'
      BY <2>1, <2>2, <2>3 DEF LeavesNothingBehind, Interrupted
    <2> QED
      BY <2>3, <2>4
  <1>6. CASE RunDoctor
    <2>1. /\ pc = "doctor" /\ pc' \in {"idle", "build"} /\ UNCHANGED <<invocation, args, injected>>
          /\ pc' = "idle" => last'.how = "early" /\ last'.at = "doctor"
      BY <1>6 DEF RunDoctor, EndEarly, Ended, disk
    <2>2. InjectionIsOlder' /\ injected' # invocation'
      BY <1>0, <2>1 DEF InjectionIsOlder
    <2>3. LeavesNothingBehind'
      BY <2>1, <2>2 DEF LeavesNothingBehind
    <2> QED
      BY <2>2, <2>3
  <1>7. CASE Kill
    <2>1. pc' = "idle" /\ last'.how = "killed" /\ UNCHANGED <<invocation, injected>>
      BY <1>7 DEF Kill, Ended, disk
    <2> QED
      BY <1>0, <2>1 DEF InjectionIsOlder, LeavesNothingBehind
  <1>8. CASE \/ WarmFixture \/ Launch \/ EngineWrites \/ EngineQuits \/ EngineRefuses
             \/ \E failed \in BOOLEAN : EngineRuns(failed)
             \/ \E c \in DeathCodes : EngineDies(c)
    <2>1. /\ pc \in {"godot", "launch", "engine"} /\ pc' \in {"launch", "engine", "collect"}
          /\ UNCHANGED <<invocation, args, injected>>
      BY <1>8 DEF WarmFixture, Launch, EngineWrites, EngineQuits, EngineRefuses, EngineRuns,
                  EngineDies, disk
    <2>2. InjectionIsOlder'
      BY <1>0, <2>1 DEF InjectionIsOlder
    <2>3. LeavesNothingBehind'
      BY <2>1 DEF LeavesNothingBehind
    <2> QED
      BY <2>2, <2>3
  <1>9. CASE Done \/ UNCHANGED vars
    <2>1. UNCHANGED <<pc, invocation, args, fixture, injected, files, last>>
      BY <1>9 DEF Done, vars, disk
    <2>2. PrivatePaths' = PrivatePaths
      BY <2>1 DEF PrivatePaths, ReportPath, JsonPath
    <2> QED
      BY <2>1, <2>2 DEF InjectionIsOlder, LeavesNothingBehind
  <1> QED
    BY <1>1, <1>2, <1>3, <1>4, <1>5, <1>6, <1>7, <1>8, <1>9 DEF Next

\* Whatever fails and whenever, only a kill, or what ends an invocation while it writes
\* the injected build file, leaves that file behind; and once an invocation is in its
\* try, only a kill leaves the fixture it was not asked to keep.
THEOREM NothingIsLeftBehind == Spec => []LeavesNothingBehind
  <1>1. Init => LitterInv
    BY DEF Init, LitterInv, InjectionIsOlder, LeavesNothingBehind
  <1>2. LitterInv => LeavesNothingBehind
    BY DEF LitterInv
  <1> QED
    BY <1>1, <1>2, LitterNext, TypeInvariant, PTL DEF Spec

=============================================================================
