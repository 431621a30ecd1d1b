-------------------------------- MODULE Fixture ------------------------------
(***************************************************************************)
(* The fixture project of a checkout, from one build to the next: SCons    *)
(* decides whether to regenerate it (SConscript), generate_fixture writes  *)
(* it step by step (tools/generate_fixture.py), and the command that asked *)
(* for it removes it, keeps it or is killed (tools/gdextest.py).           *)
(*                                                                         *)
(* Names stand for the library, its manifest and everything called after   *)
(* [gdextest.output] name; contents are numbered.                          *)
(***************************************************************************)
EXTENDS Integers, FiniteSets

CONSTANTS
    Names,       \* values of out_name
    Contents,    \* what a library or the assets may contain
    Extensions   \* consumer extensions

None == "none"
Modes == {"editor", "runtime"}
ASSUME NoneAssumption == None \notin Names \cup Contents \cup Extensions \cup Modes

VARIABLES
    settings, \* what the user has now: mode, name, extension, assets, code
    fixture,  \* the files under the fixture directory
    memory,   \* .sconsign: for which library a target was last built
    stage,    \* where the build in hand is
    run,      \* its command: test or list, with --keep-fixture or not
    fresh     \* was there no fixture when it started?

fixtureVars == <<settings, fixture, memory, stage, run, fresh>>

Settings == [mode : Modes, name : Names, extension : Extensions \cup {None},
             assets : Contents, code : Contents]
NoProject == [mode |-> None, manifest |-> None, extension |-> None]
NotBuilt == <<None, None>>
NoRun == [command |-> "none", keep |-> FALSE]
Empty == [project |-> NoProject, hosts |-> {}, manifests |-> {},
          bin |-> [n \in Names |-> None], consumer |-> {}, assets |-> {}]

\* What the generator is asked to write (_project, _manifest, the hosts).
ProjectListsOneManifest ==
    [mode |-> settings.mode, extension |-> settings.extension,
     manifest |-> IF settings.extension = None THEN settings.name ELSE None]
Project == [mode |-> settings.mode, manifest |-> settings.name, extension |-> settings.extension]

Targets == {<<"project", "godot">>} \cup ({"host"} \X Modes) \cup ({"manifest", "bin"} \X Names)
FixtureTargets == {<<"project", "godot">>, <<"host", settings.mode>>, <<"manifest", settings.name>>,
                   <<"bin", settings.name>>}

\* The settings of a checkout that has no configuration yet are the defaults.
FixtureInit ==
    /\ settings \in Settings /\ settings.mode = "editor" /\ settings.extension = None
    /\ fixture = Empty /\ memory = [t \in Targets |-> NotBuilt]
    /\ stage = "idle" /\ run = NoRun /\ fresh = FALSE

-----------------------------------------------------------------------------
(* SCons.  generate_fixture_action has the library and the generator as its *)
(* sources; what it finds in the configuration SCons does not know about.   *)

Exists(t) ==
    \/ t[1] = "project" /\ fixture.project # NoProject
    \/ \E m \in fixture.hosts : t = <<"host", m>>
    \/ \E n \in fixture.manifests : t = <<"manifest", n>>
    \/ \E n \in Names : t = <<"bin", n>> /\ fixture.bin[n] # None
Library == <<settings.name, settings.code>>
IsUpToDateByMemory == \A t \in FixtureTargets : memory[t] = Library
IsUpToDate == \A t \in FixtureTargets : Exists(t) /\ memory[t] = Library

\* The targets are removed before an action builds them again.
WithoutTargets ==
    [fixture EXCEPT !.project = NoProject, !.hosts = @ \ {settings.mode},
                    !.manifests = @ \ {settings.name},
                    !.bin = [@ EXCEPT ![settings.name] = None]]

BeginFixtureBuild(command, keep) ==
    /\ stage = "idle"
    /\ stage' = "scons" /\ run' = [command |-> command, keep |-> keep]
    /\ fresh' = (fixture = Empty)
    /\ UNCHANGED <<settings, fixture, memory>>

Scons ==
    /\ stage = "scons"
    /\ \/ IsUpToDate /\ stage' = "engine" /\ fixture' = fixture
       \/ ~IsUpToDate /\ stage' = "stale" /\ fixture' = WithoutTargets
    /\ UNCHANGED <<settings, memory, run, fresh>>

-----------------------------------------------------------------------------
(* generate_fixture, one action per group of files.                         *)

Writes(from, to, files) ==
    /\ stage = from /\ stage' = to /\ fixture' = files
    /\ UNCHANGED <<settings, memory, run, fresh>>

\* Hosts of any mode, manifests of another name, every library.
RemoveStaleButHosts ==
    Writes("stale", "project",
        [fixture EXCEPT !.manifests = @ \cap {settings.name}, !.bin = [n \in Names |-> None]])
RemoveStaleButLibraries ==
    Writes("stale", "project", [fixture EXCEPT !.hosts = {}])
RemoveStale ==
    Writes("stale", "project",
        [fixture EXCEPT !.hosts = {}, !.manifests = @ \cap {settings.name},
                        !.bin = [n \in Names |-> None]])
WriteProject == Writes("project", "host", [fixture EXCEPT !.project = Project])
WriteHost == Writes("host", "manifest", [fixture EXCEPT !.hosts = @ \cup {settings.mode}])
WriteManifest ==
    Writes("manifest", "library", [fixture EXCEPT !.manifests = @ \cup {settings.name}])
CopyLibrary ==
    Writes("library", "extension", [fixture EXCEPT !.bin[settings.name] = settings.code])

\* The consumer's library and its rewritten manifest; an earlier one stays.
Staged == IF settings.extension = None THEN {} ELSE {settings.extension}
StageExtension == Writes("extension", "assets", [fixture EXCEPT !.consumer = @ \cup Staged])

\* copy_globbed_assets, over what is there; then SCons remembers what it has built.
CopyAssets ==
    /\ stage = "assets" /\ stage' = "engine"
    /\ fixture' = [fixture EXCEPT !.assets = @ \cup {settings.assets}]
    /\ memory' = [t \in Targets |-> IF t \in FixtureTargets THEN Library ELSE memory[t]]
    /\ UNCHANGED <<settings, run, fresh>>

-----------------------------------------------------------------------------
(* Ends.                                                                    *)

\* The finally of cmd_test and cmd_list; the latter builds before its try.
Leaves(failed) ==
    IF (failed /\ run.keep) \/ (run.command = "list" /\ stage # "engine") THEN fixture ELSE Empty
EndFixtureRun(failed) ==
    /\ stage # "idle" /\ (failed \/ stage = "engine")
    /\ stage' = "idle" /\ fixture' = Leaves(failed)
    /\ run' = NoRun /\ fresh' = FALSE
    /\ UNCHANGED <<settings, memory>>

\* SCons remembers nothing of an action that did not end.
KillFixtureRun ==
    /\ stage # "idle" /\ stage' = "idle" /\ run' = NoRun /\ fresh' = FALSE
    /\ UNCHANGED <<settings, fixture, memory>>

CleanFixture == stage = "idle" /\ fixture' = Empty /\ UNCHANGED <<settings, memory, stage, run, fresh>>

\* Between two runs the user edits sources, assets and configuration.
Configure(s) == stage = "idle" /\ settings' = s /\ UNCHANGED <<fixture, memory, stage, run, fresh>>

BuildStep ==
    \/ Scons \/ RemoveStale \/ WriteProject \/ WriteHost \/ WriteManifest
    \/ CopyLibrary \/ StageExtension \/ CopyAssets

-----------------------------------------------------------------------------
Stages == {"idle", "scons", "stale", "project", "host", "manifest", "library", "extension",
           "assets", "engine"}
Projects == [mode : Modes, manifest : Names, extension : Extensions \cup {None}]
FixtureTypeOK ==
    /\ settings \in Settings /\ stage \in Stages /\ fresh \in BOOLEAN
    /\ run \in [command : {"none", "test", "list"}, keep : BOOLEAN]
    /\ fixture \in [project : Projects \cup {NoProject}, hosts : SUBSET Modes,
                    manifests : SUBSET Names, bin : [Names -> Contents \cup {None}],
                    consumer : SUBSET Extensions, assets : SUBSET Contents]
    /\ memory \in [Targets -> (Names \X Contents) \cup {NotBuilt}]

\* The engine starts in a project of the configured mode, with that mode's host and
\* no other, however often the mode changed since the fixture was kept and wherever
\* an earlier build was killed ("Generated output may be reused with a different host
\* mode", generate_fixture.py:202; SCons would find the other mode's files in place).
HostMatchesMode ==
    stage = "engine" =>
        /\ fixture.hosts = {settings.mode}
        /\ fixture.project.mode = settings.mode

Libraries == {n \in Names : fixture.bin[n] # None}

\* Godot "tries to load" every manifest it finds (generate_fixture.py:206).  Of the test
\* library's own, under addons/gdextest, there is one when the engine starts, and one
\* library, of the name that was built, whatever names were used before.  The consumer's,
\* under addons/consumer, are not removed: those of an earlier configuration stay.
OneTestLibrary ==
    stage = "engine" =>
        /\ fixture.manifests = {settings.name}
        /\ fixture.project.manifest = settings.name
        /\ Libraries = {settings.name}

\* docs/cli.md: the fixture is "generated per run".  A run that found none starts the
\* engine in one that is complete and current; only a leftover of a kept, failed or
\* killed run may be out of date (SConscript, generate_fixture).
FreshFixtureIsComplete ==
    stage = "engine" /\ fresh =>
        fixture = [project |-> Project, hosts |-> {settings.mode}, manifests |-> {settings.name},
                   bin |-> [n \in Names |-> IF n = settings.name THEN settings.code ELSE None],
                   consumer |-> Staged, assets |-> {settings.assets}]
=============================================================================
