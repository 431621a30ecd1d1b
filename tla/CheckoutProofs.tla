--------------------------- MODULE CheckoutProofs ----------------------------
(***************************************************************************)
(* Theorems about a checkout under any series of commands, edits and       *)
(* kills, for any names, contents and extensions.  A step of Checkout is a *)
(* step of Scaffold or of Fixture while the other stands still (or, for    *)
(* `test', a write of Scaffold and a beginning of Fixture), so that each   *)
(* is proved about on its own.                                             *)
(***************************************************************************)
EXTENDS Checkout, TLAPS

ScaffoldAction ==
    \/ \E form \in Forms : UserEdits(form)
    \/ \E f \in Generated : UserWrites(f)
    \/ \E ci, force \in BOOLEAN : CmdInit(ci, force)
    \/ WriteStarterConfig \/ CutStarterConfig
    \/ \E apply, force \in BOOLEAN : BeginScaffold(apply, force)
    \/ WriteBackup \/ WritePatch \/ Compile \/ WriteEntry \/ WriteSmoke \/ EndScaffold \/ CutScaffold
    \/ UNCHANGED scaffoldVars

FixtureAction ==
    \/ \E command \in {"test", "list"}, keep \in BOOLEAN : BeginFixtureBuild(command, keep)
    \/ Scons \/ RemoveStale \/ WriteProject \/ WriteHost \/ WriteManifest
    \/ CopyLibrary \/ StageExtension \/ CopyAssets
    \/ \E failed \in BOOLEAN : EndFixtureRun(failed)
    \/ KillFixtureRun \/ CleanFixture
    \/ \E s \in Settings : Configure(s)
    \/ UNCHANGED fixtureVars

CountsAction ==
    \/ UNCHANGED <<commands, changes>>
    \/ commands < MaxCommands /\ commands' = commands + 1 /\ changes' = changes
    \/ changes < MaxChanges /\ changes' = changes + 1 /\ commands' = commands

\* Every step is one of each (Checkout.Next).
LEMMA StepsOfTheParts ==
    ASSUME [Next]_vars PROVE ScaffoldAction /\ FixtureAction /\ CountsAction
<1> USE DEF CountsAction
<1>1. CASE \E ci, force \in BOOLEAN : TreeCommand(CmdInit(ci, force))
    BY <1>1 DEF TreeCommand, Command, ScaffoldAction, FixtureAction
<1>2. CASE \E apply, force \in BOOLEAN : TreeCommand(BeginScaffold(apply, force))
    BY <1>2 DEF TreeCommand, Command, ScaffoldAction, FixtureAction
<1>3. CASE \E keep \in BOOLEAN : CmdTest(keep) \/ CmdList(keep)
    BY <1>3 DEF CmdTest, CmdList, Command, ScaffoldAction, FixtureAction
<1>4. CASE Command(CleanFixture /\ UNCHANGED scaffoldVars)
    BY <1>4 DEF Command, ScaffoldAction, FixtureAction
<1>5. CASE \E form \in Forms : Edit(UserEdits(form) /\ UNCHANGED fixtureVars)
    BY <1>5 DEF Edit, ScaffoldAction, FixtureAction
<1>6. CASE \E f \in Generated : Edit(UserWrites(f) /\ UNCHANGED fixtureVars)
    BY <1>6 DEF Edit, ScaffoldAction, FixtureAction
<1>7. CASE \E s \in Settings : Edit(Configure(s) /\ UNCHANGED scaffoldVars)
    BY <1>7 DEF Edit, ScaffoldAction, FixtureAction
<1>8. CASE ScaffoldStep /\ UNCHANGED <<fixtureVars, commands, changes>>
    BY <1>8 DEF ScaffoldStep, ScaffoldAction, FixtureAction
<1>9. CASE FixtureStep
    BY <1>9 DEF FixtureStep, BuildStep, ScaffoldAction, FixtureAction
<1>10. CASE UNCHANGED vars
    BY <1>10 DEF vars, ScaffoldAction, FixtureAction
<1> QED
    BY <1>1, <1>2, <1>3, <1>4, <1>5, <1>6, <1>7, <1>8, <1>9, <1>10 DEF Next

-----------------------------------------------------------------------------
(* Types.                                                                   *)

Owners == {"nobody", "user", "gdextest", "torn"}

LEMMA TextsOfTexts ==
    ASSUME BoundsAssumption, NEW text \in Texts
    PROVE  /\ Torn(text) \subseteq Texts
           /\ [text EXCEPT !.snippets = @ + 1, !.calls = TRUE] \in Texts
           /\ NoText \in Texts
<1>1. \A t \in Torn(text) : t \in Texts
    BY DEF Texts, Torn, SConstructWired
<1>2. [text EXCEPT !.snippets = @ + 1, !.calls = TRUE] \in Texts
    <2>1. text.snippets + 1 \in Nat
        BY DEF Texts
    <2>2. [text EXCEPT !.snippets = text.snippets + 1] \in Texts
        BY <2>1, Zenon DEF Texts
    <2> QED
        BY <2>2 DEF Texts
<1>3. NoText \in Texts
    BY DEF NoText, Texts, Forms, BoundsAssumption
<1> QED
    BY <1>1, <1>2, <1>3

LEMMA WrittenIsTyped ==
    ASSUME owner \in [Generated -> Owners]
    PROVE  /\ \A files, force : Written(files, force) \in [Generated -> Owners]
           /\ \A done, f, force : Cut(done, f, force) \in [Generated -> Owners]
<1>1. ASSUME NEW files, NEW force PROVE Written(files, force) \in [Generated -> Owners]
    BY DEF Written, Owners
<1>2. ASSUME NEW done, NEW f, NEW force PROVE Cut(done, f, force) \in [Generated -> Owners]
    <2>1. [Written(done, force) EXCEPT ![f] = "torn"] \in [Generated -> Owners]
        BY <1>1 DEF Owners
    <2> QED
        BY <1>1, <2>1 DEF Cut
<1> QED
    BY <1>1, <1>2

LEMMA ScaffoldTypes == ASSUME BoundsAssumption, ScaffoldTypeOK, ScaffoldAction PROVE ScaffoldTypeOK'
<1> USE DEF ScaffoldTypeOK, Owners
<1>1. ASSUME NEW form \in Forms, UserEdits(form) PROVE ScaffoldTypeOK'
    <2>1. last_edit + 1 \in 0..MaxEdits
        BY <1>1, BoundsAssumption DEF UserEdits, BoundsAssumption
    <2>2. Text(last_edit + 1, form) \in Texts
        BY <2>1 DEF Text, Texts
    <2> QED
        BY <1>1, <2>1, <2>2 DEF UserEdits
<1>2. ASSUME NEW f \in Generated, UserWrites(f) PROVE ScaffoldTypeOK'
    BY <1>2 DEF UserWrites
<1>3. ASSUME NEW ci \in BOOLEAN, NEW force \in BOOLEAN, CmdInit(ci, force) PROVE ScaffoldTypeOK'
    <2>1. owner' \in [Generated -> Owners]
        BY <1>3, WrittenIsTyped DEF CmdInit
    <2> QED
        BY <1>3, <2>1 DEF CmdInit
<1>4. CASE WriteStarterConfig \/ CutStarterConfig
    <2>1. /\ Written({"config"}, FALSE) \in [Generated -> Owners]
          /\ Cut({}, "config", FALSE) \in [Generated -> Owners]
        BY WrittenIsTyped
    <2> QED
        BY <1>4, <2>1 DEF WriteStarterConfig, CutStarterConfig, StarterConfig
<1>5. ASSUME NEW apply \in BOOLEAN, NEW force \in BOOLEAN, BeginScaffold(apply, force)
      PROVE  ScaffoldTypeOK'
    BY <1>5, TextsOfTexts, BoundsAssumption DEF BeginScaffold, FirstWrite
<1>6. CASE WriteBackup
    BY <1>6 DEF WriteBackup
<1>7. CASE WritePatch
    BY <1>7, TextsOfTexts, BoundsAssumption DEF WritePatch, Patched
<1>8. CASE Compile
    BY <1>8, TextsOfTexts, BoundsAssumption DEF Compile
<1>9. CASE WriteEntry
    BY <1>9, WrittenIsTyped DEF WriteEntry
<1>10. CASE WriteSmoke
    BY <1>10, WrittenIsTyped DEF WriteSmoke
<1>11. CASE EndScaffold
    BY <1>11 DEF EndScaffold, SConstructWired, Texts
<1>12. CASE CutScaffold
    <2>1. Patched \in Texts /\ Torn(Patched) \subseteq Texts /\ Torn(original) \subseteq Texts
        BY TextsOfTexts, BoundsAssumption DEF Patched
    <2>2. owner' \in [Generated -> Owners]
        <3>1. Cut({}, step, forced) \in [Generated -> Owners]
            BY WrittenIsTyped
        <3> QED
            BY <1>12, <3>1 DEF CutScaffold
    <2>3. sconstruct' \in Texts /\ backup' \in Texts /\ original' \in Texts
        BY <1>12, <2>1, TextsOfTexts, BoundsAssumption DEF CutScaffold
    <2> QED
        BY <1>12, <2>2, <2>3 DEF CutScaffold
<1>13. CASE UNCHANGED scaffoldVars
    BY <1>13 DEF scaffoldVars
<1> QED
    BY <1>1, <1>2, <1>3, <1>4, <1>5, <1>6, <1>7, <1>8, <1>9, <1>10, <1>11, <1>12, <1>13
    DEF ScaffoldAction

Files == [project : Projects \cup {NoProject}, hosts : SUBSET Modes,
          manifests : SUBSET Names, bin : [Names -> Contents \cup {None}],
          consumer : SUBSET Extensions, assets : SUBSET Contents]

LEMMA FilesAreTyped ==
    ASSUME settings \in Settings, fixture \in Files
    PROVE  /\ Project \in Projects /\ Empty \in Files /\ WithoutTargets \in Files
           /\ \A p \in Projects : [fixture EXCEPT !.project = p] \in Files
           /\ \A h \in SUBSET Modes : [fixture EXCEPT !.hosts = h] \in Files
           /\ \A m \in SUBSET Names : [fixture EXCEPT !.manifests = m] \in Files
           /\ [fixture EXCEPT !.bin[settings.name] = settings.code] \in Files
           /\ \A e \in SUBSET Extensions : [fixture EXCEPT !.consumer = e] \in Files
           /\ \A a \in SUBSET Contents : [fixture EXCEPT !.assets = a] \in Files
           /\ [fixture EXCEPT !.hosts = {}, !.manifests = @ \cap {settings.name},
                              !.bin = [n \in Names |-> None]] \in Files
<1>1. Project \in Projects
    BY DEF Project, Projects, Settings
<1>2. Empty \in Files
    BY DEF Empty, Files
<1>3. WithoutTargets \in Files
    BY DEF WithoutTargets, Files, Settings
<1>4. /\ \A p \in Projects : [fixture EXCEPT !.project = p] \in Files
      /\ \A h \in SUBSET Modes : [fixture EXCEPT !.hosts = h] \in Files
      /\ \A m \in SUBSET Names : [fixture EXCEPT !.manifests = m] \in Files
    BY DEF Files
<1>5. [fixture EXCEPT !.bin[settings.name] = settings.code] \in Files
    BY DEF Files, Settings
<1>6. /\ \A e \in SUBSET Extensions : [fixture EXCEPT !.consumer = e] \in Files
      /\ \A a \in SUBSET Contents : [fixture EXCEPT !.assets = a] \in Files
    BY DEF Files, Settings
<1>7. [fixture EXCEPT !.hosts = {}, !.manifests = @ \cap {settings.name},
                      !.bin = [n \in Names |-> None]] \in Files
    BY DEF Files
<1> QED
    BY <1>1, <1>2, <1>3, <1>4, <1>5, <1>6, <1>7

LEMMA FixtureTypes == ASSUME FixtureTypeOK, FixtureAction PROVE FixtureTypeOK'
<1>0. /\ settings \in Settings /\ fixture \in Files /\ stage \in Stages
      /\ settings.mode \in Modes /\ settings.name \in Names
    BY DEF FixtureTypeOK, Files, Settings
<1>1. ASSUME NEW command \in {"test", "list"}, NEW keep \in BOOLEAN, BeginFixtureBuild(command, keep)
      PROVE  FixtureTypeOK'
    BY <1>1 DEF BeginFixtureBuild, FixtureTypeOK, Stages
<1>2. CASE Scons
    <2>1. WithoutTargets \in Files
        BY <1>0, FilesAreTyped
    <2>2. fixture' \in Files /\ stage' \in Stages
        BY <1>2, <1>0, <2>1 DEF Scons, Stages
    <2> QED
        BY <1>2, <2>2 DEF Scons, FixtureTypeOK, Files
<1>3. CASE RemoveStale
    BY <1>3, <1>0, FilesAreTyped DEF RemoveStale, Writes, FixtureTypeOK, Stages, Files
<1>4. CASE WriteProject
    BY <1>4, <1>0, FilesAreTyped DEF WriteProject, Writes, FixtureTypeOK, Stages, Files
<1>5. CASE WriteHost
    <2>1. fixture.hosts \cup {settings.mode} \in SUBSET Modes
        BY <1>0 DEF Files
    <2> QED
        BY <1>5, <1>0, <2>1, FilesAreTyped DEF WriteHost, Writes, FixtureTypeOK, Stages, Files
<1>6. CASE WriteManifest
    <2>1. fixture.manifests \cup {settings.name} \in SUBSET Names
        BY <1>0 DEF Files
    <2> QED
        BY <1>6, <1>0, <2>1, FilesAreTyped DEF WriteManifest, Writes, FixtureTypeOK, Stages, Files
<1>7. CASE CopyLibrary
    BY <1>7, <1>0, FilesAreTyped DEF CopyLibrary, Writes, FixtureTypeOK, Stages, Files
<1>8. CASE StageExtension
    <2>1. fixture.consumer \cup Staged \in SUBSET Extensions
        BY <1>0 DEF Files, Staged, Settings
    <2> QED
        BY <1>8, <1>0, <2>1, FilesAreTyped DEF StageExtension, Writes, FixtureTypeOK, Stages, Files
<1>9. CASE CopyAssets
    <2>1. Library \in Names \X Contents
        BY <1>0 DEF Library, Settings
    <2>2. memory' \in [Targets -> (Names \X Contents) \cup {NotBuilt}]
        BY <1>9, <2>1 DEF CopyAssets, FixtureTypeOK
    <2>3. fixture.assets \cup {settings.assets} \in SUBSET Contents
        BY <1>0 DEF Files, Settings
    <2>4. fixture' \in Files
        BY <1>9, <1>0, <2>3, FilesAreTyped DEF CopyAssets
    <2> QED
        BY <1>9, <2>2, <2>4 DEF CopyAssets, FixtureTypeOK, Stages, Files
<1>10. ASSUME NEW failed \in BOOLEAN, EndFixtureRun(failed) PROVE FixtureTypeOK'
    <2>1. fixture' \in Files
        BY <1>10, <1>0, FilesAreTyped DEF EndFixtureRun, Leaves
    <2> QED
        BY <1>10, <2>1 DEF EndFixtureRun, FixtureTypeOK, Stages, Files, NoRun
<1>11. CASE KillFixtureRun
    BY <1>11 DEF KillFixtureRun, FixtureTypeOK, Stages, NoRun
<1>12. CASE CleanFixture
    BY <1>12, <1>0, FilesAreTyped DEF CleanFixture, FixtureTypeOK, Files
<1>13. ASSUME NEW s \in Settings, Configure(s) PROVE FixtureTypeOK'
    BY <1>13 DEF Configure, FixtureTypeOK
<1>14. CASE UNCHANGED fixtureVars
    BY <1>14 DEF fixtureVars, FixtureTypeOK
<1> QED
    BY <1>1, <1>2, <1>3, <1>4, <1>5, <1>6, <1>7, <1>8, <1>9, <1>10, <1>11, <1>12, <1>13, <1>14
    DEF FixtureAction


\* One command runs at a time: each begins at a prompt that the other has left.
OneAtATime == step = "idle" \/ stage = "idle"

LEMMA CommandsTakeTurns == ASSUME OneAtATime, [Next]_vars PROVE OneAtATime'
<1> USE DEF OneAtATime
<1>1. CASE \E ci, force \in BOOLEAN : TreeCommand(CmdInit(ci, force))
    BY <1>1 DEF TreeCommand, Command, AtPrompt, CmdInit, fixtureVars, scaffoldVars
<1>2. CASE \E apply, force \in BOOLEAN : TreeCommand(BeginScaffold(apply, force))
    BY <1>2 DEF TreeCommand, Command, AtPrompt, fixtureVars
<1>3. CASE \E keep \in BOOLEAN : CmdTest(keep) \/ CmdList(keep)
    BY <1>3 DEF CmdTest, CmdList, Command, AtPrompt, WriteStarterConfig, CutStarterConfig,
                StarterConfig, scaffoldVars, fixtureVars
<1>4. CASE Command(CleanFixture /\ UNCHANGED scaffoldVars)
    BY <1>4 DEF Command, AtPrompt, CleanFixture, scaffoldVars
<1>5. CASE \E form \in Forms : Edit(UserEdits(form) /\ UNCHANGED fixtureVars)
    BY <1>5 DEF Edit, AtPrompt, UserEdits, fixtureVars
<1>6. CASE \E f \in Generated : Edit(UserWrites(f) /\ UNCHANGED fixtureVars)
    BY <1>6 DEF Edit, AtPrompt, UserWrites, fixtureVars
<1>7. CASE \E s \in Settings : Edit(Configure(s) /\ UNCHANGED scaffoldVars)
    BY <1>7 DEF Edit, AtPrompt, Configure, scaffoldVars
<1>8. CASE ScaffoldStep /\ UNCHANGED <<fixtureVars, commands, changes>>
    <2>1. step # "idle"
        BY <1>8 DEF ScaffoldStep, WriteBackup, WritePatch, Compile, WriteEntry, WriteSmoke,
                    EndScaffold, CutScaffold
    <2> QED
        BY <1>8, <2>1 DEF fixtureVars
<1>9. CASE FixtureStep
    <2>1. stage # "idle"
        BY <1>9 DEF FixtureStep, BuildStep, Scons, RemoveStale, WriteProject, WriteHost,
                    WriteManifest, CopyLibrary, StageExtension, CopyAssets, Writes,
                    EndFixtureRun, KillFixtureRun
    <2> QED
        BY <1>9, <2>1 DEF FixtureStep, scaffoldVars
<1>10. CASE UNCHANGED vars
    BY <1>10 DEF vars, scaffoldVars, fixtureVars
<1> QED
    BY <1>1, <1>2, <1>3, <1>4, <1>5, <1>6, <1>7, <1>8, <1>9, <1>10 DEF Next

LEMMA CountsStayBounded ==
    ASSUME BoundsAssumption, commands \in 0..MaxCommands, changes \in 0..MaxChanges, [Next]_vars
    PROVE  (commands \in 0..MaxCommands /\ changes \in 0..MaxChanges)'
<1> QED
    BY StepsOfTheParts, BoundsAssumption DEF CountsAction, BoundsAssumption

\* Every variable keeps its type and one command runs at a time, whatever the
\* constants and the series of commands (Checkout.TypeOK).
THEOREM TypesHold == Spec => []TypeOK
<1>1. Init => TypeOK
    <2> SUFFICES ASSUME Init PROVE TypeOK
        OBVIOUS
    <2>1. ScaffoldTypeOK
        <3>1. NoText \in Texts
            BY BoundsAssumption DEF NoText, Texts, Forms, BoundsAssumption
        <3>2. sconstruct = NoText /\ backup = NoText /\ original = NoText /\ last_edit = 0
              /\ step = "idle" /\ forced = FALSE /\ green = FALSE
            BY DEF Init, ScaffoldInit
        <3>3. owner \in [Generated -> {"nobody", "user", "gdextest", "torn"}]
            BY DEF Init, ScaffoldInit
        <3>4. last_edit \in 0..MaxEdits
            BY <3>2, BoundsAssumption DEF BoundsAssumption
        <3> QED
            BY <3>1, <3>2, <3>3, <3>4 DEF ScaffoldTypeOK
    <2>2. FixtureTypeOK
        <3>1. settings \in Settings /\ fixture = Empty /\ stage = "idle" /\ run = NoRun
              /\ fresh = FALSE /\ memory = [t \in Targets |-> NotBuilt]
            BY DEF Init, FixtureInit
        <3>2. fixture \in Files
            BY <3>1 DEF Empty, Files
        <3> QED
            BY <3>1, <3>2 DEF FixtureTypeOK, Files, NoRun, Stages
    <2> QED
        BY <2>1, <2>2, BoundsAssumption DEF Init, ScaffoldInit, TypeOK, BoundsAssumption
<1>2. TypeOK /\ [Next]_vars => TypeOK'
    BY BoundsAssumption, StepsOfTheParts, ScaffoldTypes, FixtureTypes, CommandsTakeTurns,
       CountsStayBounded DEF TypeOK, OneAtATime
<1> QED
    BY <1>1, <1>2, PTL DEF Spec

-----------------------------------------------------------------------------
(* The fixture.  Whatever an earlier run left, the project, the hosts, the  *)
(* manifests and the libraries in a fixture that has a project go together, *)
(* because a project is written only after the stale ones are gone; and     *)
(* SCons keeps a fixture only if it has the host, the manifest and the      *)
(* library now configured.                                                  *)

GoTogether ==
    fixture.project # NoProject =>
        /\ fixture.hosts \subseteq {fixture.project.mode}
        /\ fixture.manifests \subseteq {fixture.project.manifest}
        /\ Libraries \subseteq {fixture.project.manifest}

ProjectIsCurrent ==
    /\ fixture.project # NoProject
    /\ fixture.project.mode = settings.mode /\ fixture.project.manifest = settings.name
HostIsThere == settings.mode \in fixture.hosts
ManifestIsThere == settings.name \in fixture.manifests
LibraryIsThere == settings.name \in Libraries

FixtureInv ==
    /\ GoTogether
    /\ stage = "project" =>
        fixture.hosts = {} /\ fixture.manifests \subseteq {settings.name} /\ Libraries = {}
    /\ stage \in {"host", "manifest", "library", "extension", "assets", "engine"} => ProjectIsCurrent
    /\ stage \in {"manifest", "library", "extension", "assets", "engine"} => HostIsThere
    /\ stage \in {"library", "extension", "assets", "engine"} => ManifestIsThere
    /\ stage \in {"extension", "assets", "engine"} => LibraryIsThere

LEMMA UpToDateIsComplete ==
    ASSUME FixtureTypeOK, GoTogether, IsUpToDate
    PROVE  ProjectIsCurrent /\ HostIsThere /\ ManifestIsThere /\ LibraryIsThere
<1>0. settings.mode \in Modes /\ settings.name \in Names
    BY DEF FixtureTypeOK, Settings
<1>1. /\ Exists(<<"project", "godot">>) /\ Exists(<<"host", settings.mode>>)
      /\ Exists(<<"manifest", settings.name>>) /\ Exists(<<"bin", settings.name>>)
    BY DEF IsUpToDate, FixtureTargets
<1>2. fixture.project # NoProject
    BY <1>1 DEF Exists
<1>3. HostIsThere
    BY <1>1 DEF Exists, HostIsThere
<1>4. ManifestIsThere
    BY <1>1 DEF Exists, ManifestIsThere
<1>5. LibraryIsThere
    BY <1>0, <1>1 DEF Exists, LibraryIsThere, Libraries
<1> QED
    BY <1>2, <1>3, <1>4, <1>5 DEF GoTogether, ProjectIsCurrent, HostIsThere, ManifestIsThere

LEMMA FixtureInvIsKept ==
    ASSUME FixtureTypeOK, FixtureInv, FixtureAction, NoneAssumption PROVE FixtureInv'
<1> USE DEF FixtureInv
<1>0. /\ settings.mode \in Modes /\ settings.name \in Names /\ settings.code \in Contents
      /\ fixture \in Files
    BY DEF FixtureTypeOK, Settings, Files
<1>1. ASSUME NEW command \in {"test", "list"}, NEW keep \in BOOLEAN, BeginFixtureBuild(command, keep)
      PROVE  FixtureInv'
    BY <1>1 DEF BeginFixtureBuild, GoTogether, Libraries
<1>2. CASE Scons
    <2>1. CASE IsUpToDate /\ stage' = "engine" /\ fixture' = fixture
        BY <1>2, <2>1, UpToDateIsComplete
        DEF Scons, GoTogether, ProjectIsCurrent, HostIsThere, ManifestIsThere, LibraryIsThere, Libraries
    <2>2. CASE stage' = "stale" /\ fixture' = WithoutTargets
        BY <2>2, <1>0 DEF WithoutTargets, GoTogether, Files
    <2> QED
        BY <1>2, <2>1, <2>2 DEF Scons
<1>3. CASE RemoveStale
    <2>1. fixture'.hosts = {} /\ fixture'.manifests \subseteq {settings.name} /\ Libraries' = {}
          /\ fixture'.project = fixture.project /\ fixture'.manifests \subseteq fixture.manifests
        BY <1>3, <1>0 DEF RemoveStale, Writes, Libraries, Files
    <2> QED
        BY <1>3, <2>1 DEF RemoveStale, Writes, GoTogether
<1>4. CASE WriteProject
    <2>1. /\ fixture'.hosts = fixture.hosts /\ fixture'.manifests = fixture.manifests
          /\ Libraries' = Libraries /\ fixture'.project = Project
        BY <1>4, <1>0 DEF WriteProject, Writes, Libraries, Files
    <2>2. Project # NoProject /\ Project.mode = settings.mode /\ Project.manifest = settings.name
        BY <1>0, NoneAssumption DEF Project, NoProject, NoneAssumption
    <2> QED
        BY <1>4, <2>1, <2>2 DEF WriteProject, Writes, GoTogether, ProjectIsCurrent
<1>5. CASE WriteHost
    <2>1. /\ fixture'.hosts = fixture.hosts \cup {settings.mode} /\ fixture'.manifests = fixture.manifests
          /\ Libraries' = Libraries /\ fixture'.project = fixture.project
        BY <1>5, <1>0 DEF WriteHost, Writes, Libraries, Files
    <2> QED
        BY <1>5, <2>1 DEF WriteHost, Writes, GoTogether, ProjectIsCurrent, HostIsThere
<1>6. CASE WriteManifest
    <2>1. /\ fixture'.manifests = fixture.manifests \cup {settings.name} /\ fixture'.hosts = fixture.hosts
          /\ Libraries' = Libraries /\ fixture'.project = fixture.project
        BY <1>6, <1>0 DEF WriteManifest, Writes, Libraries, Files
    <2> QED
        BY <1>6, <2>1 DEF WriteManifest, Writes, GoTogether, ProjectIsCurrent, HostIsThere, ManifestIsThere
<1>7. CASE CopyLibrary
    <2>1. /\ fixture'.manifests = fixture.manifests /\ fixture'.hosts = fixture.hosts
          /\ fixture'.project = fixture.project
          /\ fixture'.bin = [fixture.bin EXCEPT ![settings.name] = settings.code]
        BY <1>7, <1>0 DEF CopyLibrary, Writes, Files
    <2>2. fixture.bin \in [Names -> Contents \cup {None}] /\ settings.code # None
        BY <1>0, NoneAssumption DEF Files, NoneAssumption
    <2>3. Libraries' = Libraries \cup {settings.name}
        BY <1>0, <2>1, <2>2 DEF Libraries
    <2> QED
        BY <1>7, <2>1, <2>3 DEF CopyLibrary, Writes, GoTogether, ProjectIsCurrent, HostIsThere,
                                ManifestIsThere, LibraryIsThere
<1>8. CASE StageExtension
    <2>1. /\ fixture'.manifests = fixture.manifests /\ fixture'.hosts = fixture.hosts
          /\ fixture'.project = fixture.project /\ Libraries' = Libraries
        BY <1>8, <1>0 DEF StageExtension, Writes, Files, Libraries
    <2> QED
        BY <1>8, <2>1 DEF StageExtension, Writes, GoTogether, ProjectIsCurrent, HostIsThere,
                          ManifestIsThere, LibraryIsThere
<1>9. CASE CopyAssets
    <2>1. /\ fixture'.manifests = fixture.manifests /\ fixture'.hosts = fixture.hosts
          /\ fixture'.project = fixture.project /\ Libraries' = Libraries
        BY <1>9, <1>0 DEF CopyAssets, Files, Libraries
    <2> QED
        BY <1>9, <2>1 DEF CopyAssets, GoTogether, ProjectIsCurrent, HostIsThere,
                          ManifestIsThere, LibraryIsThere
<1>10. ASSUME NEW failed \in BOOLEAN, EndFixtureRun(failed) PROVE FixtureInv'
    BY <1>10 DEF EndFixtureRun, Leaves, Empty, GoTogether, Libraries
<1>11. CASE KillFixtureRun
    BY <1>11 DEF KillFixtureRun, GoTogether, Libraries
<1>12. CASE CleanFixture
    BY <1>12 DEF CleanFixture, Empty, GoTogether
<1>13. ASSUME NEW s \in Settings, Configure(s) PROVE FixtureInv'
    BY <1>13 DEF Configure, GoTogether, Libraries
<1>14. CASE UNCHANGED fixtureVars
    BY <1>14 DEF fixtureVars, GoTogether, ProjectIsCurrent, HostIsThere, ManifestIsThere,
                 LibraryIsThere, Libraries
<1> QED
    BY <1>1, <1>2, <1>3, <1>4, <1>5, <1>6, <1>7, <1>8, <1>9, <1>10, <1>11, <1>12, <1>13, <1>14
    DEF FixtureAction

LEMMA FixtureIsConsistent == Spec => []FixtureInv
<1>1. Init => FixtureInv
    BY DEF Init, FixtureInit, FixtureInv, GoTogether, Empty
<1>2. TypeOK /\ FixtureInv /\ [Next]_vars => FixtureInv'
    BY StepsOfTheParts, FixtureInvIsKept, NoneAssumption DEF TypeOK
<1> QED
    BY <1>1, <1>2, TypesHold, PTL DEF Spec

\* When the engine starts, the fixture has the project of the configured mode, with that
\* mode's host and no other, after any series of kept, failed and killed builds
\* (Fixture.HostMatchesMode; generate_fixture.py, SConscript).
THEOREM TheHostIsTheModes == Spec => []HostMatchesMode
<1>1. FixtureInv => HostMatchesMode
    BY DEF FixtureInv, GoTogether, ProjectIsCurrent, HostIsThere, HostMatchesMode
<1> QED
    BY <1>1, FixtureIsConsistent, PTL

\* When the engine starts there is, under addons/gdextest, one manifest and one library,
\* of the configured name, whatever names were configured before; of the consumer's own
\* extensions nothing is said (Fixture.OneTestLibrary).
THEOREM OneTestLibraryIsLoaded == Spec => []OneTestLibrary
<1>1. FixtureInv => OneTestLibrary
    BY DEF FixtureInv, GoTogether, ProjectIsCurrent, ManifestIsThere, LibraryIsThere,
           OneTestLibrary
<1> QED
    BY <1>1, FixtureIsConsistent, PTL

-----------------------------------------------------------------------------
(* A fixture that was not there is written in full: what stands at each     *)
(* stage is Empty and what the stages before it wrote.                      *)

SoFar(project, hosts, manifests, bin, consumer, assets) ==
    fixture = [project |-> project, hosts |-> hosts, manifests |-> manifests, bin |-> bin,
               consumer |-> consumer, assets |-> assets]
NoBin == [n \in Names |-> None]
OwnBin == [n \in Names |-> IF n = settings.name THEN settings.code ELSE None]

FreshInv ==
    fresh =>
        /\ stage \in {"scons", "stale", "project"} => SoFar(NoProject, {}, {}, NoBin, {}, {})
        /\ stage = "host" => SoFar(Project, {}, {}, NoBin, {}, {})
        /\ stage = "manifest" => SoFar(Project, {settings.mode}, {}, NoBin, {}, {})
        /\ stage = "library" => SoFar(Project, {settings.mode}, {settings.name}, NoBin, {}, {})
        /\ stage = "extension" => SoFar(Project, {settings.mode}, {settings.name}, OwnBin, {}, {})
        /\ stage = "assets" => SoFar(Project, {settings.mode}, {settings.name}, OwnBin, Staged, {})
        /\ stage = "engine" =>
            SoFar(Project, {settings.mode}, {settings.name}, OwnBin, Staged, {settings.assets})

LEMMA FreshInvIsKept ==
    ASSUME FixtureTypeOK, FreshInv, FixtureAction PROVE FreshInv'
<1> USE DEF FreshInv, SoFar
<1>0. settings.name \in Names /\ settings.mode \in Modes
    BY DEF FixtureTypeOK, Settings
<1>1. ASSUME NEW command \in {"test", "list"}, NEW keep \in BOOLEAN, BeginFixtureBuild(command, keep)
      PROVE  FreshInv'
    BY <1>1 DEF BeginFixtureBuild, Empty, NoBin
<1>2. CASE Scons
    <2>1. CASE fresh
        <3>1. ~Exists(<<"host", settings.mode>>)
            BY <1>2, <2>1 DEF Scons, Exists
        <3>2. ~IsUpToDate
            BY <3>1 DEF IsUpToDate, FixtureTargets
        <3>3. fixture' = WithoutTargets /\ stage' = "stale"
            BY <1>2, <3>2 DEF Scons
        <3>4. fixture = [project |-> NoProject, hosts |-> {}, manifests |-> {}, bin |-> NoBin,
                         consumer |-> {}, assets |-> {}]
            BY <1>2, <2>1 DEF Scons
        <3>5. /\ fixture.hosts \ {settings.mode} = {} /\ fixture.manifests \ {settings.name} = {}
              /\ [fixture.bin EXCEPT ![settings.name] = None] = NoBin
            BY <1>0, <3>4 DEF NoBin
        <3>6. fixture' = [fixture EXCEPT !.project = NoProject, !.hosts = {}, !.manifests = {},
                                         !.bin = NoBin]
            BY <3>3, <3>5 DEF WithoutTargets
        <3>7. fixture' = [project |-> NoProject, hosts |-> {}, manifests |-> {}, bin |-> NoBin,
                          consumer |-> {}, assets |-> {}]
            BY <3>4, <3>6
        <3> QED
            BY <1>2, <2>1, <3>3, <3>7 DEF Scons, NoBin
    <2> QED
        BY <1>2, <2>1 DEF Scons
<1>3. CASE RemoveStale
    <2>1. {} \cap {settings.name} = {}
        OBVIOUS
    <2>2. CASE fresh
        <3>1. fixture = [project |-> NoProject, hosts |-> {}, manifests |-> {}, bin |-> NoBin,
                         consumer |-> {}, assets |-> {}]
            BY <1>3, <2>2 DEF RemoveStale, Writes
        <3>2. fixture' = [project |-> NoProject, hosts |-> {}, manifests |-> {} \cap {settings.name},
                          bin |-> NoBin, consumer |-> {}, assets |-> {}]
            BY <1>3, <3>1 DEF RemoveStale, Writes, NoBin
        <3> QED
            BY <1>3, <2>1, <3>2 DEF RemoveStale, Writes, NoBin
    <2> QED
        BY <1>3, <2>2 DEF RemoveStale, Writes
<1>4. CASE WriteProject
    BY <1>4 DEF WriteProject, Writes, NoBin, Project
<1>5. CASE WriteHost
    BY <1>5 DEF WriteHost, Writes, NoBin, Project
<1>6. CASE WriteManifest
    BY <1>6 DEF WriteManifest, Writes, NoBin, Project
<1>7. CASE CopyLibrary
    BY <1>7, <1>0 DEF CopyLibrary, Writes, NoBin, OwnBin, Project
<1>8. CASE StageExtension
    BY <1>8 DEF StageExtension, Writes, OwnBin, Project, Staged
<1>9. CASE CopyAssets
    <2>1. {} \cup {settings.assets} = {settings.assets}
        OBVIOUS
    <2>2. CASE fresh
        <3>1. fixture = [project |-> Project, hosts |-> {settings.mode},
                         manifests |-> {settings.name}, bin |-> OwnBin, consumer |-> Staged,
                         assets |-> {}]
            BY <1>9, <2>2 DEF CopyAssets
        <3>2. fixture' = [project |-> Project, hosts |-> {settings.mode},
                          manifests |-> {settings.name}, bin |-> OwnBin, consumer |-> Staged,
                          assets |-> {} \cup {settings.assets}]
            BY <1>9, <3>1 DEF CopyAssets
        <3> QED
            BY <1>9, <2>1, <3>2 DEF CopyAssets, OwnBin, Project, Staged
    <2> QED
        BY <1>9, <2>2 DEF CopyAssets
<1>10. ASSUME NEW failed \in BOOLEAN, EndFixtureRun(failed) PROVE FreshInv'
    BY <1>10 DEF EndFixtureRun
<1>11. CASE KillFixtureRun
    BY <1>11 DEF KillFixtureRun
<1>12. CASE CleanFixture
    BY <1>12 DEF CleanFixture
<1>13. ASSUME NEW s \in Settings, Configure(s) PROVE FreshInv'
    BY <1>13 DEF Configure
<1>14. CASE UNCHANGED fixtureVars
    BY <1>14 DEF fixtureVars, NoBin, OwnBin, Project, Staged
<1> QED
    BY <1>1, <1>2, <1>3, <1>4, <1>5, <1>6, <1>7, <1>8, <1>9, <1>10, <1>11, <1>12, <1>13, <1>14
    DEF FixtureAction

\* A run that found no fixture starts the engine in one that is complete and current
\* (Fixture.FreshFixtureIsComplete).
THEOREM AFreshFixtureIsWhole == Spec => []FreshFixtureIsComplete
<1>1. Init => FreshInv
    BY DEF Init, FixtureInit, FreshInv
<1>2. TypeOK /\ FreshInv /\ [Next]_vars => FreshInv'
    BY StepsOfTheParts, FreshInvIsKept DEF TypeOK
<1>3. FreshInv => FreshFixtureIsComplete
    BY DEF FreshInv, SoFar, OwnBin, FreshFixtureIsComplete
<1> QED
    BY <1>1, <1>2, <1>3, TypesHold, PTL DEF Spec

-----------------------------------------------------------------------------
(* The consumer's tree.                                                     *)

InTheBackup == backup.whole /\ backup.by = last_edit

ScaffoldInv ==
    /\ sconstruct.by = last_edit
    /\ step \in {"backup", "patch"} => original = sconstruct
    /\ step = "compile" => sconstruct = Patched
    /\ step \in {"backup", "patch", "compile"} => original.by = last_edit /\ ~SConstructWired(original)
    /\ step \in {"patch", "compile"} => backup = original
    /\ step \in {"entry", "smoke", "doctor"} => SConstructWired(sconstruct)
    /\ step \in {"smoke", "doctor"} => owner["entry"] # "nobody"
    /\ step = "doctor" => owner["smoke"] # "nobody"
    /\ sconstruct.whole =>
        /\ sconstruct.snippets \in {0, 1}
        /\ sconstruct.form \in {"wired", "mention"} => sconstruct.snippets = 0
        /\ sconstruct.form = "broken" /\ sconstruct.snippets = 1 => InTheBackup
    /\ green =>
        /\ SConstructWired(sconstruct)
        /\ owner["entry"] # "nobody" /\ owner["smoke"] # "nobody"
    /\ green => step = "idle"

LEMMA ScaffoldInvIsKept ==
    ASSUME BoundsAssumption, ScaffoldTypeOK, ScaffoldInv, ScaffoldAction PROVE ScaffoldInv'
<1> USE DEF ScaffoldInv, InTheBackup
<1>0. sconstruct \in Texts /\ original \in Texts /\ backup \in Texts
    BY DEF ScaffoldTypeOK
<1>1. ASSUME NEW form \in Forms, UserEdits(form) PROVE ScaffoldInv'
    BY <1>1 DEF UserEdits, Text
<1>2. ASSUME NEW f \in Generated, UserWrites(f) PROVE ScaffoldInv'
    BY <1>2 DEF UserWrites, ScaffoldTypeOK, SConstructWired
<1>3. /\ \A files, force : \A f \in Generated :
            /\ owner[f] # "nobody" => Written(files, force)[f] # "nobody"
            /\ f \in files => Written(files, force)[f] # "nobody"
      /\ \A done, cut, force : \A f \in Generated :
            owner[f] # "nobody" => Cut(done, cut, force)[f] # "nobody"
    <2>1. ASSUME NEW files, NEW force, NEW f \in Generated
          PROVE  /\ owner[f] # "nobody" => Written(files, force)[f] # "nobody"
                 /\ f \in files => Written(files, force)[f] # "nobody"
        BY DEF Written
    <2>2. ASSUME NEW done, NEW cut, NEW force, NEW f \in Generated, owner[f] # "nobody"
          PROVE  Cut(done, cut, force)[f] # "nobody"
        <3>1. Written(done, force)[f] # "nobody"
            BY <2>1, <2>2
        <3>2. [Written(done, force) EXCEPT ![cut] = "torn"][f] # "nobody"
            BY <3>1 DEF Written
        <3> QED
            BY <3>1, <3>2 DEF Cut
    <2> QED
        BY <2>1, <2>2
<1>4. "entry" \in Generated /\ "smoke" \in Generated
    BY DEF Generated
<1>5. ASSUME NEW ci \in BOOLEAN, NEW force \in BOOLEAN, CmdInit(ci, force) PROVE ScaffoldInv'
    <2>1. /\ owner["entry"] # "nobody" => owner'["entry"] # "nobody"
          /\ owner["smoke"] # "nobody" => owner'["smoke"] # "nobody"
        BY <1>3, <1>4, <1>5 DEF CmdInit
    <2> QED
        BY <1>5, <2>1 DEF CmdInit, SConstructWired
<1>6. CASE WriteStarterConfig \/ CutStarterConfig
    <2>1. /\ owner["entry"] # "nobody" => owner'["entry"] # "nobody"
          /\ owner["smoke"] # "nobody" => owner'["smoke"] # "nobody"
        BY <1>3, <1>4, <1>6 DEF WriteStarterConfig, CutStarterConfig, StarterConfig
    <2>2. /\ UNCHANGED <<sconstruct, backup, last_edit, step, original, green>>
          /\ step = "idle"
        BY <1>6 DEF WriteStarterConfig, CutStarterConfig, StarterConfig
    <2> QED
        BY <2>1, <2>2 DEF SConstructWired
<1>7. ASSUME NEW apply \in BOOLEAN, NEW force \in BOOLEAN, BeginScaffold(apply, force)
      PROVE  ScaffoldInv'
    BY <1>7 DEF BeginScaffold, FirstWrite, SConstructWired
<1>8. CASE WriteBackup
    BY <1>0, <1>8 DEF WriteBackup, SConstructWired, Texts
<1>9. CASE WritePatch
    BY <1>0, <1>9 DEF WritePatch, Patched, SConstructWired, Texts
<1>10. CASE Compile
    <2>1. SConstructWired(Patched)
        BY <1>0, <1>10 DEF Compile, Patched, SConstructWired, Texts
    <2>2. original.whole => original.form \notin {"wired", "mention"} /\ original.snippets = 0
        BY <1>0, <1>10 DEF Compile, SConstructWired, Texts
    <2>3. CASE step' = "entry" /\ sconstruct' = sconstruct
        BY <1>10, <2>1, <2>3 DEF Compile, SConstructWired, Patched
    <2>4. CASE step' = "idle" /\ sconstruct' = original
        BY <1>10, <2>2, <2>4 DEF Compile
    <2> QED
        BY <1>10, <2>3, <2>4 DEF Compile
<1>11. CASE WriteEntry
    BY <1>3, <1>4, <1>11 DEF WriteEntry, SConstructWired
<1>12. CASE WriteSmoke
    BY <1>3, <1>4, <1>12 DEF WriteSmoke, SConstructWired
<1>13. CASE EndScaffold
    BY <1>13 DEF EndScaffold, SConstructWired
<1>14. CASE CutScaffold
    <2>1. ~green /\ ~green' /\ step' = "idle" /\ last_edit' = last_edit
        BY <1>14 DEF CutScaffold
    <2>2. CASE UNCHANGED <<sconstruct, backup>>
        BY <2>1, <2>2
    <2>3. CASE step = "backup" /\ sconstruct' = sconstruct
        <3>1. sconstruct.whole => sconstruct.form \notin {"wired", "mention"} /\ sconstruct.snippets = 0
            BY <1>0, <2>3 DEF SConstructWired, Texts
        <3> QED
            BY <2>1, <2>3, <3>1
    <2>4. CASE step = "patch" /\ sconstruct' \in Torn(Patched)
        <3>1. ~sconstruct'.whole /\ sconstruct'.by = original.by
            BY <1>0, <2>4 DEF Torn, Patched, Texts
        <3> QED
            BY <2>1, <2>4, <3>1
    <2>5. CASE step = "compile" /\ sconstruct' \in Torn(original)
        <3>1. ~sconstruct'.whole /\ sconstruct'.by = original.by
            BY <1>0, <2>5 DEF Torn, Texts
        <3> QED
            BY <2>1, <2>5, <3>1
    <2> QED
        BY <1>14, <2>2, <2>3, <2>4, <2>5 DEF CutScaffold
<1>15. CASE UNCHANGED scaffoldVars
    BY <1>15 DEF scaffoldVars, SConstructWired, Patched
<1> QED
    BY <1>1, <1>2, <1>5, <1>6, <1>7, <1>8, <1>9, <1>10, <1>11, <1>12, <1>13, <1>14, <1>15
    DEF ScaffoldAction

LEMMA TheTreeIsConsistent == Spec => []ScaffoldInv
<1>1. Init => ScaffoldInv
    BY DEF Init, ScaffoldInit, ScaffoldInv, NoText
<1>2. TypeOK /\ ScaffoldInv /\ [Next]_vars => ScaffoldInv'
    BY StepsOfTheParts, ScaffoldInvIsKept, BoundsAssumption DEF TypeOK
<1> QED
    BY <1>1, <1>2, TypesHold, PTL DEF Spec

\* A scaffold that returned 0 left an SConstruct with the user's text and one snippet, or
\* none where the text has a call site, an entry and a smoke suite; each of them torn only
\* by an earlier cut (Scaffold.GreenScaffoldIsWired).
THEOREM GreenMeansWired == Spec => []GreenScaffoldIsWired
<1>1. TypeOK /\ ScaffoldInv => GreenScaffoldIsWired
    BY DEF TypeOK, ScaffoldTypeOK, Texts, ScaffoldInv, InTheBackup, SConstructWired,
           GreenScaffoldIsWired
<1> QED
    BY <1>1, TypesHold, TheTreeIsConsistent, PTL

\* The user's last whole SConstruct stays in place or in the backup over every step but
\* the backup of an SConstruct that an earlier cut has torn (Scaffold.BackupComesFirst).
THEOREM TheUsersTextSurvives == Spec => BackupComesFirst
<1> DEFINE Excused == step = "backup" /\ ~original.whole
           Safe == Recoverable => Recoverable' \/ Excused
<1>1. ASSUME TypeOK, ScaffoldInv, [Next]_vars PROVE Safe
    <2> SUFFICES ASSUME Recoverable, ~Excused PROVE Recoverable'
        OBVIOUS
    <2> USE DEF Recoverable
    <2>0. sconstruct \in Texts /\ original \in Texts /\ backup \in Texts
        BY <1>1 DEF TypeOK, ScaffoldTypeOK
    <2>1. ScaffoldAction
        BY <1>1, StepsOfTheParts
    <2>2. CASE UNCHANGED <<sconstruct, backup, last_edit>>
        BY <2>2
    <2>3. CASE \E form \in Forms : UserEdits(form)
        BY <2>3 DEF UserEdits, Text
    <2>4. CASE WriteBackup
        BY <1>1, <2>4 DEF WriteBackup, ScaffoldInv
    <2>5. CASE WritePatch
        BY <1>1, <2>0, <2>5 DEF WritePatch, Patched, ScaffoldInv, Texts
    <2>6. CASE Compile
        BY <1>1, <2>0, <2>6 DEF Compile, Patched, ScaffoldInv, Texts
    <2>7. CASE CutScaffold
        <3>1. last_edit' = last_edit
            BY <2>7 DEF CutScaffold
        <3>2. CASE step = "backup" /\ UNCHANGED sconstruct
            BY <1>1, <3>1, <3>2 DEF ScaffoldInv
        <3>3. CASE step \in {"patch", "compile"} /\ UNCHANGED backup
            BY <1>1, <2>0, <3>1, <3>3 DEF ScaffoldInv, Patched, Texts
        <3> QED
            BY <2>2, <2>7, <3>1, <3>2, <3>3 DEF CutScaffold
    <2>8. \/ UNCHANGED <<sconstruct, backup, last_edit>>
          \/ \E form \in Forms : UserEdits(form)
          \/ WriteBackup \/ WritePatch \/ Compile \/ CutScaffold
        BY <2>1 DEF ScaffoldAction, UserWrites, CmdInit, WriteStarterConfig, CutStarterConfig,
                    StarterConfig, BeginScaffold, WriteEntry, WriteSmoke, EndScaffold, scaffoldVars
    <2> QED
        BY <2>2, <2>3, <2>4, <2>5, <2>6, <2>7, <2>8
<1>2. Safe => [Recoverable => Recoverable' \/ (step = "backup" /\ ~original.whole)]_scaffoldVars
    OBVIOUS
<1> QED
    BY <1>1, <1>2, TypesHold, TheTreeIsConsistent, PTL DEF Spec, BackupComesFirst

\* No command without --force takes a file from the user (Scaffold.UserFilesAreKept).
THEOREM NoFileIsTaken == Spec => UserFilesAreKept
<1> DEFINE Kept == \A f \in Generated : owner[f] = "user" /\ owner'[f] # "user" => forced'
<1>1. ASSUME [Next]_vars PROVE Kept
    <2>1. /\ \A files, force : \A f \in Generated :
                owner[f] = "user" /\ Written(files, force)[f] # "user" => force
          /\ \A done, cut, force : \A f \in Generated :
                owner[f] = "user" /\ Cut(done, cut, force)[f] # "user" => force
        <3>1. ASSUME NEW files, NEW force, NEW f \in Generated, owner[f] = "user", ~force
              PROVE  Written(files, force)[f] = "user"
            BY <3>1 DEF Written
        <3>2. ASSUME NEW done, NEW cut, NEW force, NEW f \in Generated, owner[f] = "user", ~force
              PROVE  Cut(done, cut, force)[f] = "user"
            BY <3>1, <3>2 DEF Cut, Written
        <3> QED
            BY <3>1, <3>2
    <2>2. \/ owner' = owner
          \/ \E f \in Generated : UserWrites(f)
          \/ \E ci, force \in BOOLEAN : CmdInit(ci, force)
          \/ WriteStarterConfig \/ CutStarterConfig \/ WriteEntry \/ WriteSmoke \/ CutScaffold
        BY <1>1, StepsOfTheParts
        DEF ScaffoldAction, UserEdits, BeginScaffold, WriteBackup, WritePatch, Compile,
            EndScaffold, scaffoldVars
    <2>3. CASE owner' = owner
        BY <2>3
    <2>4. CASE \E f \in Generated : UserWrites(f)
        BY <2>4 DEF UserWrites
    <2>5. CASE \E ci, force \in BOOLEAN : CmdInit(ci, force)
        BY <2>1, <2>5 DEF CmdInit
    <2>6. CASE WriteStarterConfig \/ CutStarterConfig
        BY <2>1, <2>6 DEF WriteStarterConfig, CutStarterConfig, StarterConfig
    <2>7. CASE WriteEntry \/ WriteSmoke
        BY <2>1, <2>7 DEF WriteEntry, WriteSmoke
    <2>8. CASE CutScaffold
        <3>1. forced' = forced /\ (owner' = owner \/ owner' = Cut({}, step, forced))
            BY <2>8 DEF CutScaffold
        <3>2. \A f \in Generated : owner[f] = "user" /\ Cut({}, step, forced)[f] # "user" => forced
            BY <2>1
        <3> QED
            BY <3>1, <3>2
    <2> QED
        BY <2>2, <2>3, <2>4, <2>5, <2>6, <2>7, <2>8
<1>2. Kept => [\A f \in Generated : owner[f] = "user" /\ owner'[f] # "user" => forced']_scaffoldVars
    OBVIOUS
<1> QED
    BY <1>1, <1>2, PTL DEF Spec, UserFilesAreKept
=============================================================================
