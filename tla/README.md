# Verification of gdextest

TLA+ models of gdextest, the unit-test framework for C++ GDExtensions: the
runner inside the Godot process, its asynchronous tests and signal monitor, the
selection and sharding of tests, and the command line around them: its
configuration, what it writes into the consumer's tree, the fixture it
generates, and the runs it starts. TLC checks the models on small instances,
TLAPS proves most of what they claim for all values of the constants. Paths
below are relative to the repository; `runner.cpp` is
`src/framework/runner.cpp`, `gdextest.py` is `tools/gdextest.py`.

1. [The system](#1-the-system)
2. [Modules](#2-modules)
3. [How the models correspond to the code](#3-how-the-models-correspond-to-the-code)
4. [Runs, bounds and fairness](#4-runs-bounds-and-fairness)
5. [Where the code disagrees with its documentation](#5-where-the-code-disagrees-with-its-documentation)
6. [Proofs](#6-proofs)
7. [What is not modelled](#7-what-is-not-modelled)
8. [Plan](#8-plan)

## 1. The system

A developer calls `tools/gdextest.py test`. It checks the environment, lets
SCons build the extension together with the framework and generate a throw-away
Godot project (the fixture), starts Godot on it once to import resources and
once more to run. Godot loads the extension; the host's script (editor or
runtime) tells the extension to bootstrap and to run; the runner in the
extension selects tests from the registry, runs them, writes JSON documents,
and quits the engine with an exit code. The command line renders the JSON,
converts it to JUnit, cleans up and exits with the engine's code. Several such
runs may each take a shard; `report` merges their documents.

| Component | State | Operations | What makes it hard, and right |
|---|---|---|---|
| Runner (`runner.cpp`, `runner.h`, `config.h`) | `RunState`: selection, results, next test, tree, connected; `g_active_ctx` | `run_all_and_quit`, `start_next_test`, `run_one`, `collect_async_result`, `fail_current_async`, `finish_run`, nested `run_sub_*` | Five ways of ending a test, each with its own bookkeeping; retries; nested runs that disturb the state of the outer one; four loops that judge the same results. One result for each selected test, evidence never lost, one story told. |
| Async coordinator and frame pump (`async.h`, `runner.cpp`) | one slot (handle and request), the driver flag | `co_await` of frames or of a timer, `advance`, `on_engine_frame`, `SubAsyncPump` | A coroutine handle that must not outlive its test; wait, wait deadline and isolate budget that fall on the same frame; frames of any length. No stale handle is resumed, waits end when they must, every run ends. |
| Test context (`context.h`) | failures, skip, tracked objects and references, teardowns | `fail`, `track_object`, `track_ref`, `add_teardown`, `abort_test`, `skip` | Teardowns that throw; leaks; static entry points that find their context through a global. |
| Signal monitor (`signals.h`, `signals.cpp`) | watched signals with count and history | `add`, `remove`, `remove_all`, `reset`, `reset_all`, `evaluate`, the slot | Slots called in the middle of an emission, objects freed while watched, the monitor's own teardown among the user's. |
| Registry (`registry.h`, `registry.cpp`) | the registered cases | `select`: globs, tags, shard, shuffle | Jobs that do not know of each other must split the tests exactly. |
| Command line (`gdextest.py`, `run_tests.sh`) | the disk: fixture, injected build file, user data, documents | `test`, `list`, `clean`, `report`, `doctor`, `init`, `scaffold` | Every step may fail, raise, be interrupted or killed; what remains is what the next invocation finds. |
| Report (`gdextest_report.py`, `gdextest.py`) | none | merge, totals, JUnit, rendering | Shards cut suites into pieces; the exit code gates a pipeline. |
| Configuration (`gdextest_config.py`) | the reader's line, section and pending assignment; then a record | TOML subset, precedence, validation, source patterns, versions, discovery of a Godot | Three scanners that must agree on where a string ends; settings with three places each; four sets of checks (doctor, `_run_build`, `cmd_test`, generator) that must not contradict one another. |
| The consumer's tree (`cmd_init`, `cmd_scaffold` in `gdextest.py`) | SConstruct, its backup, configuration, workflow, entry, smoke suite | `init`, `scaffold`, the starter configuration of `test` | The only files gdextest changes that it did not make: what a kill between two writes, a failed syntax check or a repetition may cost, and what not. |
| Fixture generator (`generate_fixture.py`, `SConscript`) | the fixture project, `.sconsign` | regeneration or not; removal, keeping | A fixture that was kept or half-written meets another mode, name or content; SCons sees targets, a library and a generator, not the configuration. |
| Editor and runtime host scripts (texts in `generate_fixture.py`) | | scan wait in the editor, first frame at run time | The run must not start before the first scan has ended. |
| Entry, adapters, host hooks (`gdextest_entry.cpp`, `adapter.cpp`, `host.cpp`, `host.h`, `engine.h`) | flags of the life cycle | initialise, ready, bootstrap, run, shutdown, uninitialise | Order of the hooks over the exits of the runner. |
| Assertions (`assert.h`, `strings.h`) | none | macros | They only record or abort. |
| Build scripts (`SConscript`, `SConstruct`, `gdextest_compiler.py`) | none | declarative | |

The components interact by calls (runner, context, coordinator, monitor),
through the engine (the `process_frame` signal, object signals, `quit`), and,
across processes, by the exit code and by files. `PROJECT.json` lists every
component with the modules that model it, and the hazards of the code, each at
its line, with the properties that would notice.

## 2. Modules

| Module | Role |
|---|---|
| `TestRun` | what a run promises to whoever started it; abstract |
| `Runner` | runner, coordinator, pump and context, at the grain of the code's handlers |
| `RunnerProps` | what is claimed of `Runner`; the refinement mapping onto `TestRun` |
| `MCRunner` | instances for TLC |
| `RunnerProofs` | invariants and action properties of `Runner`; `Runner` implements `TestRun` |
| `Registry` | globs, patterns, tags, shard as operators |
| `Report` | merge, totals, JUnit counts, exit code as operators |
| `Shards` | parallel jobs that select and run, and the `report` that merges; uses both |
| `OperatorProofs` | lemmas on sequences, sums and globs, and the inductions they need |
| `MCShards`, `ShardsProofs` | instances; invariants of the jobs, of the merged report and of the filter |
| `Signals`, `MCSignals`, `SignalsProofs` | the signal monitor, the engine's connections, the teardowns |
| `Cli`, `CliProofs` | invocations of the command line one after the other, with SCons and the engine as processes that may die |
| `Toml` | the reader of `.gdextest.toml`, line by line |
| `Config` | from the table `Toml` reads to settings, and what doctor, build, version check and generator say of them |
| `Author` | what it is to write a file that means something, or one that would if it did not miss a closing quote or bracket: the spelling of values, the outline of the lines |
| `MCConfig` | the files, values and environments of the run |
| `SpellingProofs` | what the scanners and the parser make of what `Author` writes |
| `ConfigProofs` | versions, checks, the reader and the settings |
| `Scaffold` | `init`, `scaffold` and the starter configuration, write by write |
| `Fixture` | the fixture from one build to the next: SCons's decision, the generator group of files by group, what each command leaves |
| `Checkout` | one checkout under a series of commands and edits; composes `Scaffold` and `Fixture` |
| `MCCheckout`, `CheckoutProofs` | symmetry for TLC; proofs |

`Shards` sees a run of the runner as one step that yields a verdict for each
test, in order: `TestRun`'s promise, which `Runner` is proved to keep. `Cli`
sees the engine as a process that writes its documents and then quits with the
code its results decide, or dies in between: again what `TestRun` allows.
`Cli` and `Checkout` look at the same commands from two sides. For `Cli` the
fixture is there or not, and what matters is the outcome of a run; for
`Checkout` a run is a build and a stop of the engine, and what matters is which
files there are and whose.
Operators whose name is that of another with a suffix (`SwappedOverwrites`
before `Swapped`) are plausible bugs kept beside the definition; no
specification uses them. `PROJECT.json` says which property notices each.

## 3. How the models correspond to the code

**Runner.** `phase` says whose turn it is: the runner's own code (`boot`,
`dispatch`, `write`, `report`), a body (`sync`, `async`) or the engine
(`engine`: a test is suspended). The program has one thread; what interleaves
is bodies, frames and the death of the process. `start_next_test` is a loop
whose turns are `StartSync`, `StartAsync` and `NoTestLeft`. `EndSync` is
`run_one` after the body including its retry; `EndAsync` is
`collect_async_result`; `FailCurrentAsync` is the function of that name with
its two leak checks, used by time-outs, isolate overruns and a missing tree. A
`co_await` is `AwaitWithoutDriver` or `Suspend`. `on_engine_frame` is four
actions by what `advance` answers: `FrameWaiting`, `FrameOverrun`,
`FrameTimesOut`, `FrameResumes`; each lets the engine take any time in
`FrameMs` first. `slot` is the coordinator's handle and request, `owner` the
index of the test whose coroutine the handle is (0: null). Failures are counted
by kind, since the code reads only how many there are. Time is counted in
abstract units from the start of the test, because the code uses only
differences; `sampled` is the `now` that the resume stamps with, which is not
the present. `wait`, `pumped` and `ended` are history variables: no guard reads
them. A nested `SubAsyncPump` is created, driven and finished in one step, so
frames of the outer pump do not fall between.

**Signals.** An emission calls the slots that were connected when it began,
one after the other. `inflight` is the stack of emissions whose call of the
monitor's slot is still to come; while it is not empty, slots of the test may
do anything, and `OnSignalFired` delivers the innermost. `truth` is a history
variable: emissions since the watch or the reset, those under way included.
`teardowns` are run last registered first, and the monitor's own is among them.

**Registry, Report, Shards.** A name is a sequence of characters because globs
look into it. `GlobMatch` is a recursive function over the positions of the
pattern: the places where the rest of the text may begin once the pattern so
far is used up. `select` is a loop of steps: `Consider` one case, or swap one
pair. The hash is any function and the generator yields any index: nothing
claimed depends on either. `Lose` is a job whose document never appears.

**Cli.** `pc` follows `cmd_test` and `cmd_list` from step to step. The disk is
`fixture`, `injected` (SConstruct.gdextest), `user_data`, `files` (the JSON
documents, each marked with the invocation whose engine wrote it) and `junit`.
`End` and `EndEarly` tell the exits inside the `try` from those before it, and
`last` keeps where an invocation ended. The injected file is written before the
`try` that removes it, so `RunBuild` may fail with it there. The
exceptions, Ctrl-C (`Interrupt`: finally clauses run) and SIGKILL (`Kill`:
nothing runs) are actions at every step where they make a difference. Process
ids may come again (`PidsRecur`). Two things are taken as the code takes them: that a
private document, below the system's temporary directory, can always be written,
and that a warm-up leaves a `.godot` cache (gdextest.py:312). The user passes no
`--gdextest-list` of their own through `test`: the runner would list, and the
exit be 0 without a document.

**Toml, Config.** A line is a sequence of tokens: the delimiters stand for
their character, other tokens for a run of harmless ones, ASCII or not: `Mojibake` is
what taking its UTF-8 bytes for Latin-1 makes of a word, and `Escapes` what a
backslash before it does. The three loops over
characters are runs (`Run`) of one step each: `ScanStep`, the string scanner
that comments, brackets and quotes share, `DecodeStep` and `SplitStep`. The reader
takes a step for each line, as the loop of `load_toml` does; `pending` is an
assignment whose array goes on. `table` maps paths to values, `sections` are
the tables that exist without any. `LoadConfig` is `load_config` with the
precedence in `Places` (the structured place before the flat one), conversions
by what they do (`int()` of a word fails, that of an array raises what nobody
catches, `list()` of a text is its letters) and the derived half of a consumer extension. A text or list in the place of a section is asked
`key in value` like a section (`Raises`): it crashes if a key is found in it or
if it is true or false, and else counts as a section without settings. `Judge` evaluates, in an
environment of the document's place, what `run_doctor`, `_run_build`,
`cmd_test` and `generate_fixture` each compute. Settings that no check reads
come by the same rule and are left out.
`Author` is not code: it is what the reader must be able to read. A document
carries the assignments it means (`means`), the lines, and the `outline` that
says of each line how far the file is after it: in which assignment, how many
pieces of its value, in which section. `Written` says that the lines are those
that the outline asks for. A damaged document is the same with one closing
delimiter left out: `torn` is the assignment, `lacks` the number of the delimiter
in its value (a string its quote; an array's are the quotes of its strings and then
the bracket), `damaged` the line it begins in; `Spelt` is its value without
that delimiter, at whatever piece a line breaks off. Beside a string that is not
closed a comment brings no quote of its own (`IsCodeOf`): that quote would close it,
and nothing would be missing.

**Scaffold.** A text of an SConstruct is known by which of the user's edits it
holds, how often the snippet follows it, and whether all of it is there. Of a
text of the user's the form says whether it has a call site: `wired` calls the
framework, `mention` has the characters in a comment or a string only, which
`_sconstruct_wired` cannot tell apart. A write that is cut leaves a torn text,
which may hold a call site if the whole one does, and may or may not compile.
`step` is where `cmd_scaffold` is; `CutScaffold` is a kill or a full disk at any
of its writes. `owner` says who wrote each of the other files, or that it is
torn (`Cut`); a torn file is there, so later commands keep it.

**Fixture.** `stage` follows the build: `scons` decides by existence of the
targets and by what `.sconsign` (`memory`) says they were built from, then one
stage for each group of files of `generate_fixture`. The files are what they
depend on (mode, name, extension, library, assets); staged extensions and
copied assets are only ever added. `EndFixtureRun` is the
`finally` of `test` and `list`, at any stage if something fails;
`KillFixtureRun` leaves what there is and no memory of the action.

**Checkout.** One command at a time; between two the user edits the SConstruct,
writes a file of their own or changes the configuration, assets or code.

`PROJECT.json`'s map gives the source lines of every definition.

## 4. Runs, bounds and fairness

| Run | Question |
|---|---|
| `runner_contexts` | Whatever bodies do to their context, with or without a tree and a writable file, do results, document and exit code tell what happened? Does the run implement `TestRun`? |
| `runner_pump` | Frames and waits of different length against deadlines and the isolate budget: is a stale handle ever resumed, do waits end when they must, does every run end? |
| `shards` | For every distribution of the hash, over two hundred pattern lists, shuffled or not, with jobs that die: do the shards partition the selection, and does the merged report gate the pipeline? |
| `signals` | Nested emissions whose slots watch, unwatch, reset, free and emit again: do connections, counts and `evaluate` agree? |
| `cli` | Three invocations in a row, any step of which may fail, die, be interrupted or killed: does one ever report a false green, or leave litter that its end does not account for? |
| `config` | Files with strings of delimiters, comments and broken lines, with each closing delimiter missing in turn, with a setting in all its places, with every refused value, in environments with and without the tools: is a file read as meant or refused at the right line, and do the four sets of checks agree? |
| `checkout` | Three commands in any order, each cut or killed anywhere, with two edits in between: which files of the user's are safe, and is the project the engine starts in the configured one? |
| `runner_await_loop`, `runner_timer`, `runner_abort`, `stale_json`, `config_swallow` | Statements of the documentation that the code contradicts (section 5). |

The properties, in one line each:

- `ResultsFollowSelection`: every test taken has one result, in order, whichever of the five ways it ended.
- `NothingOutlivesItsTest`: a frame finds the handle of the test in hand, a driver and a connected pump; between tests the slot is empty and no context is active.
- `DriverLossIsLocal`: an await that finds no driver is that test's own doing.
- `ReportsAgree`: exit code, totals and statuses, computed by separate loops, tell one story.
- `FlakyGetsItsRetries`: a flaky sync test fails only with its retries used up.
- `EvidenceIsKept`: expectations, throwing teardowns and leaks reach the result on every path, and nothing else does; only a body that threw or was aborted is marked crashed (of a sync body that throws, which the code marks failed, only that it is not green).
- `PendingOnlyWithinBudgets`, `DueWaitsResume`: a test is left waiting only while wait, deadline and budget are all open; a wait for frames or time that is due wins over a deadline that passes on the same frame, and no other resumes its body.
- `RunEnds`: every run ends. `ImplementsTestRun`: the refinement.
- `ShardsPartition`, `DeclarationOrder`, `FilterSelectsAsDocumented` (against a definition of globs that is not an algorithm), `MergeGatesThePipeline`, `JUnitAddsUp`.
- `ConnectedWhileWatched`, `CountsMatchHistories`, `EvaluateTellsTheTruth`.
- `GreenIsReal`: a `test` that exits 0 has shown a whole, failure-free document of its own engine; `LeavesNothingBehind`: an injected build file, a fixture or a temporary document is left only by the ends that the code lets leave it, and an older injected file goes with the next build that injects.
- `ReadsAsMeant`: an intact file gives each number and each ASCII text the value its author wrote in the most specific place, unless a value stands where a section belongs; `MissingDelimiterIsAnError`: a damaged one is never read to its end, and the error names the damaged line unless something before it is at fault.
- `VersionsCompare`: the comparison is that of numbers, nothing being claimed of 4.5 for 4.5.0; `NearbyGodotIsFound`: a search passes only with a binary that will do, and prefers the minimum's own major.minor to all others unless their names contain it.
- `DoctorGatesTheBuild`: what the doctor lets through, nothing behind it refuses; `NoSourceIsLost`: a build that starts compiles something for every pattern, and all that is not excluded (except for the damaged files that `config_swallow` is about, for patterns that are not ASCII, and for values in the place of a section).
- `BackupComesFirst`: the user's last whole SConstruct is in place or in the backup after every step, but for one: a second `--apply` backs up an SConstruct that an earlier cut has torn; `UserFilesAreKept`: no command without `--force` takes a file from the user; `GreenScaffoldIsWired`: a scaffold that returns 0 leaves the user's text with one snippet, or with none if it has a call site, be it in a comment, and an entry and a smoke suite, torn only by an earlier cut.
- `HostMatchesMode`, `OneTestLibrary`: whatever was kept or half-written, the engine starts with the host of the configured mode alone and, under `addons/gdextest`, the library of the configured name alone; `FreshFixtureIsComplete`: a run that found no fixture starts in one that is complete and current, the consumer's extension included.

**Bounds.** `runner_contexts` has up to two tests, each kind alone and each
order of a sync and an async one, because what one test can do to another
passes through the global context, the driver flag and the slot, which the very
next test meets. One failed expectation, one tracked object and two teardowns
(which may release or throw, in any mix) are enough to have each kind of
evidence present, absent and combined. `runner_pump` has three tests; the
per-wait default (3), an explicit shorter one (2), the isolate budget (5),
waits of 1 and 2 frames or 2 units, and frames of 1 or 2 units make every
coincidence of due time, deadline and budget happen; `MaxClock` (6) lies past
every budget, and beyond it the code cannot tell times apart. `MaxAwaits` (2)
bounds the awaits of a test; `runner_await_loop` lifts it. `shards` has three
tests whose names are prefixes and suffixes of one another, two jobs, all
distributions of the tests over them and pattern lists up to length two:
positive and negative patterns, in both orders. `signals` has two objects, a
signal that one of them lacks, two emissions of each key, nesting two deep: a
slot that acts inside an emission inside an emission; one user teardown on
either side of the monitor's. `cli` has three invocations, so that litter can
pass over an invocation that does not touch it; `stale_json` needs two.
`config` reads some two thousand files: every delimiter alone, empty, escaped
and beside others in strings, arrays of up to two, three layouts, each with
every closing delimiter left out, in the first assignment, followed by one
that brings delimiters of its own, or in the second, after one that does no
harm, is refused, or stands where a section belongs, and `exclude` damaged before
`sources`; the seven places of two settings in all 128
combinations; every setting a check looks at with good and refused values, in
the sixteen environments with and without framework, scons and each kind of
SConstruct; five minima against all sets of seven versions nearby; words that
are not ASCII, escapes good and bad, and texts, lists and numbers in the place
of a section. Longer
arrays and more assignments repeat these positions.
`checkout` has two names and two contents (interchangeable, hence the
symmetry), both modes, one consumer extension or none, two kinds of command
arguments each; it begins with the default settings, as there is no
configuration yet. What goes wrong with a fixture or an SConstruct does so between
a command that leaves something, a change, and a command that finds it; the
third command (`MaxCommands`) lets a cut one come in between. One edit
of SConstruct (`MaxEdits`) suffices with two changes in all (`MaxChanges`): a
backup of an older text is one more edit, which the proof covers.

**Deadlock** is checked in all runs: stopping is an explicit stuttering step
(`Stopped`, `Over`, `Reported`, `Done`, the last disjunct of `Checkout`'s
`Next`) of the states in which the program has ended or the bound on
invocations is reached.

**Fairness** is assumed for `RunEnds` only (`FairSpec`): weak fairness of
`Drive`, because the runner's code runs straight on; of `Body`, because a body
ends or awaits (one that computes for ever blocks the only thread, and no code
of the runner could help); of `Frame`, because the engine emits
`process_frame` as long as it runs. Each is fairness of the whole disjunction:
nothing is assumed about which thing a body does or how long a frame takes.
With awaits bounded, `RunEnds` holds; with a body that awaits in a loop, it does not.

## 5. Where the code disagrees with its documentation

Each has a run that TLC refutes; `PROJECT.json` quotes the lines.

- **A loop of awaits is not bounded** (`runner_await_loop`). The isolate budget
  is compared only on frames that leave the wait pending (runner.cpp:461-464). A
  body that awaits one frame in a loop resolves on each, so neither the test nor
  the run ends; docs/async-tests.md:78 says the isolate budget bounds it.
- **Timers fire early** (`runner_timer`). A wait is stamped with the time
  sampled before the body was resumed; a body that works for *d* and awaits *n*
  is resumed *n - d* after the await (runner.cpp:459, 489).
- **An abort after a nested run passes** (`runner_abort`). Nested runs leave
  `g_active_ctx` null, `abort_test` then records nothing, and `run_one`
  swallows the exception because "failure is already recorded".
- **An older document is rendered as this run's** (`stale_json`). When the
  engine dies before it writes, `cmd_test` falls back to the document at the
  user's `--json` path, which it never removes (gdextest.py:897-904). The exit
  code is right; the report is not, nor the JUnit file made from it.
  `GreenIsReal`, which is proved, says that the report of a green exit is never
  affected. Its JUnit file may be: that is made of the user's `--json` document,
  and `write_json` is silent when it cannot write there (runner.cpp:255).
- **A missing quote may swallow settings** (`config_swallow`). An array whose last
  string misses its quote is joined with the lines below it until quotes and
  brackets balance (gdextest_config.py:240-254). If a string below holds an
  escaped quote, they may balance too early: of

      exclude = ["a]
      sources = ["x\"y"]

  one `exclude` is read and no `sources`, without an error, although
  docs/configuration.md:140 and tests/config_tests.py:80 promise one. `EscapesLater`
  in `MissingDelimiterIsAnError` and `NoSourceIsLost` is exactly this: the last string
  of an array, and an escape in a value below. For every other closing quote or
  bracket, in every file, the promise is proved (section 6).

Met while reading or while looking for the exact form of a property, without a
run of their own:

- *Runner.* Flaky async tests are never retried (runner.cpp:388;
  docs/writing-tests.md:56). An unexpected exception in a sync test is `fail`,
  not `crashed` (docs/cli.md:184; `EvidenceIsKept` asserts neither). The document is written before the report is
  printed (runner.cpp:535; docs/architecture.md:86). A leak of a failed async
  test is recorded twice (runner.cpp:418-440). A test that skips itself after a
  failed expectation, a leak or a throwing teardown is a failure, because document and
  exit code look at the failures first (runner.cpp:260, 269, 543;
  docs/writing-tests.md:241 says a skipped test is never one).
- *Command line.* The warm-up inherits the trigger variable and may run the
  suite unseen (gdextest.py:317). `cmd_clean` lacks the guard `_remove_fixture`
  has (gdextest.py:962). `SConstruct.gdextest` is written before the `try` whose
  `finally` removes it (gdextest.py:280, 288), so that a failed or interrupted write
  leaves it, whole or not, until the next build that injects. `list` builds before its
  `try` and leaves the fixture of a build that fails (gdextest.py:787), although
  docs/configuration.md:107 has it removed after each run. `LeavesNothingBehind`
  names these ends.
- *Reader.* A quote in
  a comment beside an unclosed string closes the string, hash and all. A header without its closing
  bracket is skipped like any line without `=`, and its keys go to the section
  before (gdextest_config.py:230). A scalar without its opening quote, or with
  two of each, is read as a literal. A comma inside a string of an array splits
  the string, and the file is refused. A string is decoded with `unicode_escape`
  from its UTF-8 bytes (gdextest_config.py:197): every character outside ASCII is
  mangled, a path or pattern with one names another file, and a backslash before
  an `n` is a line break, although docs/configuration.md:140 says that nothing is
  silently mangled. `ReadsAsMeant` and `NoSourceIsLost` speak of ASCII text.
- *Configuration.* A text or list in the place of a section is asked for keys as a
  section is (gdextest_config.py:258-262): `tests = "src"` is taken for a section
  without settings and the default sources are used, without a word; `tests = true`
  ends in an uncaught exception, as does a number given as an array.
  `Clashes` in the properties are these files. `exclude` is documented as globs (docs/configuration.md:69)
  but compared literally with a path and its parents (gdextest_config.py:344-357).
  A binary `4.5` is below a minimum `4.5.0` (gdextest_config.py:476), although
  docs/configuration.md has a binary at the minimum run the tests. A Godot
  nearby is matched by whether its name contains the digits, and the last in the
  order of names wins (gdextest_config.py:426-428): 3.4.5 matches 4.5, and of 4.9 and
  4.10 the former is taken, so that a search may fail where a good binary is. The bare
  doctor accepts an SConstruct that merely mentions `gdextest` (gdextest.py:533).
- *Scaffold.* Cut between the patch and the syntax check it leaves an SConstruct
  that the next scaffold takes for wired, whether or not it is Python. A torn
  SConstruct without a call site is taken for the user's, and the next `--apply`
  writes it over the backup, which may hold the only whole copy
  (gdextest.py:589-594): docs/getting-started.md's "a .bak backup is written first"
  does not save the text then. An entry, smoke suite, workflow or configuration
  that was cut is kept by later commands as if it were the user's
  (gdextest.py:440, 566, 613, 624). A call site in a comment or a string passes for
  the call (gdextest.py:461): such an SConstruct is never patched, and a scaffold
  may end green without the framework being called. `BackupComesFirst` and
  `GreenScaffoldIsWired` are stated for what remains.
- *Fixture.* A kept fixture is not regenerated when the assets, the consumer
  extension or the rest of the configuration change, nor after a generator
  killed past the copy of the library if the same library was built before
  (SConscript:308), hence `fresh` in `FreshFixtureIsComplete`. Manifests and
  libraries of an earlier consumer extension stay under `addons/consumer`
  (generate_fixture.py:241-252), where Godot loads them, and assets copied earlier
  stay too, although docs/architecture.md:112 says "Stale manifests and libraries
  from earlier configs cannot linger"; `OneTestLibrary` says so of
  `addons/gdextest` only.

## 6. Proofs

`TLAPS` checks every proof to its leaves. The assumptions are those named in the
modules that declare the constants: types, that the clock's bound is not below
the isolate budget, that declared signals are keys. They are what the code's own
parsing guarantees or what a bound needs to be a number. For `Shards` they are
that a filter is a sequence of patterns, each with its characters; for `Config`
that the tables of versions, documents and environments hold what their names
say, that no word is a delimiter (`WordsAssumption`), that a document is written as
`Author` says, but for at most one missing delimiter (`WrittenAssumption`, which
TLC evaluates on each of the run's: a value is of the kind its setting takes,
quotes and escapes are escaped, an array is broken between its pieces only),
that the decoding of words is one of words and escapes (`EncodingAssumption`), that
digits are digits (`DigitsAssumption`), that finitely many binaries are nearby, with
two or three parts in their versions (`EnvironmentsAssumption`: the search for
names of other forms is left out), and that no text spells the two numbers that
stand for failed conversions (`NumbersAssumption`). For
`Fixture` they say that "none" is no name, content or extension.

- **Runner** (`RunnerProofs`). `TypeInvariant` is inductive as it stands; it
  includes `next <= Len(selected)`, without which the head of the dispatch loop
  reads past the selection. `ResultsFollowTheSelection`: the property is
  inductive relative to the types; the proof sorts the steps into those that
  judge a test (`JudgingSteps`: they all go through `Record`, append the result
  of `next` and return to dispatch) and those that do not (`QuietSteps`).
  `NothingOutlives`
  is inductive relative to the types: it already ties slot, driver, pump, tree
  and context to the phase.
- **Runner, the claims** (`RunnerProofs`). `Judgements` sorts the steps
  that judge a test into three: `run_one`, `collect_async_result`,
  `fail_current_async`, each with the result it records. On it rest
  `FlakyTestsGetTheirRetries` (`RetriesInv`: attempts are only counted in a sync
  test, and never past its retries), `EvidenceReachesTheResult`
  (`NothingJudgedYet`: before the end of a test its context holds no failure of
  a teardown or leak check, so those in the result are all of them; then each
  of the three adds and loses nothing else) and `DriversAreLostLocally`
  (`DriverInv`: an async body has a driver until it drives a pump of its own).
  `WaitsStayWithinBudgets` and `DueWaitsAreResumed` need that what is left of a
  wait is what was asked for less the frames that came (`WaitInv`), that a wait
  left open has frames to come (`WaitOpen`), and that a suspended test owns the
  slot. `TheReportsAgree` needs that the document says what the results say from
  the moment it is written (`DocumentInv`), and that the four verdicts partition
  the results (`VerdictsPartition`, by cardinalities of disjoint sets).
- **Refinement** (`RunnerProofs`). `RunnerImplementsTestRun`: under the
  mapping in `RunnerProps`, judging steps are `Judge`, `RunAllAndQuit` is
  `Decline` or a stutter, `NoTestLeft` is `Close` (it needs
  `ResultsFollowSelection` to know that all are judged), `WriteDocument` is
  `Publish`, `ReportAndQuit` is `Exit` (`FailedIsBad`: the exit code's loop and
  the statuses agree), `Die` is `Die`, everything else stutters.
- **Shards** (`ShardsProofs`). `TypesOfShards`, `ShardsAreDisjointAndComplete`,
  `OrderOfDeclaration`, for every registry, filter, hash and number of shards.
  The invariant `SelectInv` says that what a job kept is exactly what it takes
  among the cases it has looked at, without repetition, and in order until it
  shuffles; a swap permutes. Disjointness is that a hash has one remainder,
  completeness that the remainder is one of the jobs.
  `ReportGatesThePipeline` (`MergeGatesThePipeline`) and `JUnitFormAddsUp`
  (`JUnitAddsUp`) rest on `ReportInv`: a job that is done has scanned, each
  document holds a row for each test its job ran, and what is merged is the
  merge of the documents that came. The merged document then has the rows of
  all of them (`FlattenItems`, `RowsAddUp`), so its exit code is bad if a row
  is, and JUnit's counts by suite add up to its totals.
  `FilterIsTheDocumentedOne` (`FilterSelectsAsDocumented`): what the loop of
  `select` takes is what the documentation says of patterns, for every list of
  patterns; it needs that `GlobMatch` means what a glob means (`GlobMatchMeans`).
- **Operators** (`OperatorProofs`). The library's induction theorems take an
  operator as a parameter, which no installed prover instantiates. Instead the
  module proves that a non-empty set of natural numbers has a least element
  (`LeastNatural`) and derives each induction it needs by looking at the least
  counterexample, as a set; that a recursive function exists is shown in the
  same way, as a set of pairs grown to the next number. On these rest
  `GlobMatchMeans` (the recursion over pattern and text matches exactly the
  texts that split as the pattern says), `FlattenItems` (the items of a
  flattened sequence are those of its parts), `RowsAddUp`, `SumOfParts` and
  `JUnitSums` (a sum over all rows is the sum of the sums over the suites).
- **Signals** (`SignalsProofs`). `TypeInvariant` (the monitor has one teardown:
  it needs that the monitor exists exactly while its teardown is registered),
  `ConnectionsFollowTheWatch` (needs that emissions under way imply a monitor and running
  test code, that connections are of living objects, and that all teardowns
  ran at the end), `CountsAndHistoriesAgree` (the count plus the emissions under
  way is what was emitted; the delivery takes one from one side and adds it to the
  other), and `EvaluateIsTruthful`, its consequence with nothing under way.
- **Cli** (`CliProofs`). `TypeInvariant`; `GreenIsNeverStale` (documents are written in
  order, the private copy first: when the engine has quit with 0, the first
  candidate is there, whole and this invocation's; `WrittenInOrder`, `GreenIsWritten`),
  `NothingIsLeftBehind` (before the build of an invocation, an injected file on
  disk is an older one's; `InjectionIsOlder`).

- **Config** (`ConfigProofs`). `TypesHold`; `VersionsAreNumbers`, from
  `ComparisonOfTuples`: for tuples of at most three parts Python's order is the
  numeric one but for proper prefixes; `TheDoctorIsTheGate`, from
  `VerdictIsTheChecks`: a verdict is that of the four sets of checks on the same
  settings in the same environment, and then the doctor's imply the others'.
  `AGodotThatWillDoIsFound` (`NearbyGodotIsFound`): names are compared as sequences of
  characters, which is a strict order (`ComparisonOfTexts`), so a finite set of them has
  a last (`ThereIsALastName`); what is chosen is one of those nearby, of the
  minimum's own major.minor if those alone mention it, and then at or above it.
- **Spelling** (`SpellingProofs`). A scanner run over two texts is the run over
  the first and then the second from where it stopped (`RunOn`). A text *hides* its
  delimiters if the scanner that enters it outside a string leaves it so and sees no
  delimiter on the way; strings hide theirs because a quote or escape in them is
  escaped (`EscapedStaysInside`, `LiteralHides`). So comments are cut where
  they begin (`CommentGoes`), and an array is open until its last bracket.
  `DecodesEscaped`: decoding undoes escaping. `ListedSplits`, `CommaTears`: an
  array of strings splits into its strings if none holds a comma; if one does, an
  item is torn that no string scanner accepts (`TornIsMalformed`), so the file is
  refused and never misread. `ParseValue`
  calls itself on the items of an array; that it has values at all is shown by growing
  it over the lengths of texts (`ParseValueDefined`). The two results are `ValueParses`
  (a spelt value is parsed to itself, its words as `unicode_escape` leaves them, or
  refused if it is an array with a comma in a string) and `LinesSay` (what the scanner finds on each kind of line of an outline).
- **Missing delimiters** (`SpellingProofs`). `TornValue` says what the reader has of a
  value that misses a delimiter, with all it has swallowed since: up to the
  place of the delimiter it is the value itself, behind it a *harmed* one
  (`Harmed`), of four kinds. A text whose quote is missing is a lone
  quote, or ends without a quote or with an escaped one (`HalfIsMalformed`), and no line
  is joined to it. If a string of an array that is not
  its last misses its quote, the next comma stands inside a string for the scanners but
  splits the items, and the first item cut off is malformed whatever comes after it
  (`CommaTears`, `TornArrayIsMalformed`). If it is the last string, the scanner is
  inside a string behind every line that follows: a line without escapes that
  scanned from outside ends outside, scanned from inside ends inside
  (`FlipScan`, `LineBalance`; this is where `EscapesLater` comes in). If the
  bracket is missing, every later line opens as many brackets as it closes, but
  for the array it is in the middle of, so one more stays open (`BracketsAdd`,
  `LineBalance`). Hence the three results: the first line of the
  damaged assignment begins such a value (`TornIsBegun`), each line that is joined
  leaves it one (`TornGoesOn`), and where no line is joined it is
  malformed (`TornIsNotStored`).
- **Reader** (`ConfigProofs`). `AnIntactFileIsReadAsMeant` (`ReadsAsMeant`), for
  every intact file. `ReaderInv`, which TLC has checked too, speaks of every file
  as far as it is intact (`TheReaderKnows`): after a line the section is
  the outline's, the pending text is the value as far as it is spelt, and the table
  is what the assignments so far mean, as it is read (each entry is the last assignment
  to its place, and each assignment is there, or above it is the value that
  replaced its section). One lemma for each kind of line follows the step of the
  reader (`SkipsNothing`, `EntersTheNextSection`, `BeginsTheNext`, `GoesOn`,
  `JoinsTheRest`, `StoresWhatIsMeant`); an intact file never ends inside a value
  (`NothingIsUnterminated`). At its end the root is the one the author
  meant (`TheRootIsMeant`), a setting is given exactly where its author gave it
  (`GivenWhereMeant`), the first of its places is the most specific one
  (`FirstIsMeant`) and is converted to what it says (`ConvertsToWhatIsMeant`), where no
  value stands in the place of a section (`NoSectionIsAValue`) and the text is ASCII
  (`AllAscii`).
  `NoMissingDelimiterIsMissed` (`MissingDelimiterIsAnError`), for every damaged file:
  before the damage `ReaderInv` holds, so what ends the reading there is a refused or
  a shadowed assignment before it (`FaultBefore`); from the damaged line on `TornInv`
  holds (TLC has checked it in a form it can evaluate): the damaged assignment stays
  under way with a `TornValue`, under the number of its first line. It is entered only by `BeginAssignment`
  (`BeginsTheTorn`) and left only by an error that names that line (`JoinsTheTorn`,
  `RefusesTheTorn`), so the file is never read to its end.
  `SourcesAreNotLost` (`NoSourceIsLost`) follows from both: a damaged file
  gives no settings unless `EscapesLater` holds, and what an intact one gives is what was meant.
- **Checkout** (`CheckoutProofs`). `StepsOfTheParts` splits every step into one
  of `Scaffold` and one of `Fixture`, so that each invariant is kept by the
  actions of its own module. All seven properties of the run are proved.
  *Fixture*: `TheHostIsTheModes` and `OneTestLibraryIsLoaded` rest on `FixtureInv`,
  of which `GoTogether` is the core: hosts, manifests and libraries in a fixture
  that has a project, however old and incomplete, are all of the mode and name
  the project speaks of, because it is written only after the stale ones are
  gone. SCons keeps a fixture only if the targets of today's mode and
  name are there, so then the others cannot be. `AFreshFixtureIsWhole` follows
  the files of a run that began with none (`FreshInv`).
  *Scaffold*: `GreenMeansWired`, `TheUsersTextSurvives`, `NoFileIsTaken` rest on
  `ScaffoldInv`: between the backup and the end the original is in the backup,
  and a whole text has at most one snippet, none if the user's has a call site.
  For `TheUsersTextSurvives` the steps that write SConstruct or backup are looked at
  one by one; only the backup of a torn original can take the last whole copy.

Only model-checked: liveness (`RunEnds`), out of the prover's reach. Every other
property of a passing run is a theorem. Where a property excepts a case
(`EscapesLater`, `Clashes`, text that is not ASCII, the backup of a torn SConstruct,
a list that fails in its build), it is because the code does not keep what
one would wish there: section 5 says what it does.

## 7. What is not modelled

- Layout, wording, colours and paths in reports and documents; parsing of
  arguments; operands of assertions. They carry no state the properties tell apart.
- Memory-level effects: a teardown that registers another teardown while the
  vector is walked (undefined behaviour at runner.cpp:316), first use of
  `signals()` in a teardown. They are listed as hazards.
- A JSON document that parses but is malformed, and the error path of `report` for
  one that does not (gdextest.py:410): a job's document is whole or not there.
- Concurrent invocations on one checkout: nothing promises them.
- The time a Godot process may take from the command line's view: nothing bounds it.
- A nested `SubAsyncPump` that is left half driven when its creator suspends.
- The engine, SCons and the disk, except as far as the code relies on them;
  what is modelled of them is marked external in the map.
- Entry, adapters and host hooks, and the GDScript hosts: what makes them right
  is when Godot calls an entry point, emits a signal or ends a scan, which
  nothing in the repository states. That `bootstrap_host` precedes the parsing
  of arguments, so that a usage error quits without a shutdown, is a hazard
  without a property.
- `find_project_root`, globbing (`Files` is what a pattern finds), `use_color`,
  the compiler probes of `gdextest_compiler.py`, the check of the godot-cpp
  version (it only warns), the contents of generated files.

## 8. Plan

Done, in this order: `Runner` with `TestRun` (the heart of the framework),
`Shards` with `Registry` and `Report`, `Signals`, `Cli`, `Config` with `Toml`
and `Author`, `Checkout` with `Scaffold` and `Fixture`, and their proofs.

What could follow, by importance:

1. **Lifecycle**: entry, adapters and hooks around an abstract runner
   (`TestRun`), once it is decided what to assume of Godot: bootstrap before run
   and shutdown after it, each once, on every exit; the runner started once,
   after the first scan; no tests in the warm-up.
2. **Async context**: the half-driven `SubAsyncPump` and the outer pump's frames.
3. **Composition**: that `Shards`' and `Cli`'s view of a run is an instance of
   `TestRun`; `Cli` over `Checkout`'s fixture, so that a build which `list`
   leaves half-done meets the warm-up of `test`.
4. **Proofs**: what exactly is read where `EscapesLater` holds, and so which escapes
   let a damaged file pass; today the two properties except all of them.
