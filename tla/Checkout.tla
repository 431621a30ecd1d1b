------------------------------- MODULE Checkout ------------------------------
(***************************************************************************)
(* One checkout under a series of commands, one at a time: `init' and      *)
(* `scaffold' on the consumer's tree (Scaffold), `test', `list' and        *)
(* `clean' on the generated fixture (Fixture), with the user's edits in    *)
(* between.  `test' and `list' build with the SConstruct that the other    *)
(* two leave.                                                              *)
(***************************************************************************)
EXTENDS Scaffold, Fixture

CONSTANTS
    MaxCommands,   \* bound: commands
    MaxChanges     \* bound: the user's edits

ASSUME BoundsAssumption == MaxCommands \in Nat /\ MaxChanges \in Nat /\ MaxEdits \in Nat

VARIABLES
    commands,  \* commands given
    changes    \* the user's edits

vars == <<scaffoldVars, fixtureVars, commands, changes>>

Init == ScaffoldInit /\ FixtureInit /\ commands = 0 /\ changes = 0

AtPrompt == step = "idle" /\ stage = "idle"

Command(action) ==
    /\ AtPrompt /\ commands < MaxCommands
    /\ commands' = commands + 1 /\ changes' = changes
    /\ action

Edit(action) ==
    /\ AtPrompt /\ changes < MaxChanges
    /\ changes' = changes + 1 /\ commands' = commands
    /\ action

TreeCommand(action) == Command(action) /\ UNCHANGED fixtureVars

\* The doctor of `test' wants an SConstruct, among other things; `list' has no doctor,
\* and scons refuses what is missing or no Python.
CmdTest(keep) ==
    Command(\/ /\ WriteStarterConfig
               /\ \/ sconstruct # NoText /\ BeginFixtureBuild("test", keep)
                  \/ UNCHANGED fixtureVars
            \/ CutStarterConfig /\ UNCHANGED fixtureVars)
CmdList(keep) == Command(BeginFixtureBuild("list", keep) /\ UNCHANGED scaffoldVars)

FixtureStep ==
    /\ \/ BuildStep
       \/ \E failed \in BOOLEAN : EndFixtureRun(failed)
       \/ KillFixtureRun
    /\ UNCHANGED <<scaffoldVars, commands, changes>>

Next ==
    \/ \E ci, force \in BOOLEAN : TreeCommand(CmdInit(ci, force))
    \/ \E apply, force \in BOOLEAN : TreeCommand(BeginScaffold(apply, force))
    \/ \E keep \in BOOLEAN : CmdTest(keep) \/ CmdList(keep)
    \/ Command(CleanFixture /\ UNCHANGED scaffoldVars)
    \/ \E form \in Forms : Edit(UserEdits(form) /\ UNCHANGED fixtureVars)
    \/ \E f \in Generated : Edit(UserWrites(f) /\ UNCHANGED fixtureVars)
    \/ \E s \in Settings : Edit(Configure(s) /\ UNCHANGED scaffoldVars)
    \/ ScaffoldStep /\ UNCHANGED <<fixtureVars, commands, changes>>
    \/ FixtureStep
    \/ AtPrompt /\ commands = MaxCommands /\ UNCHANGED vars

Spec == Init /\ [][Next]_vars

\* The type of every variable; one command at a time.
TypeOK ==
    /\ ScaffoldTypeOK /\ FixtureTypeOK
    /\ step = "idle" \/ stage = "idle"
    /\ commands \in 0..MaxCommands /\ changes \in 0..MaxChanges
=============================================================================
