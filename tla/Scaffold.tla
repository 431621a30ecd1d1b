------------------------------- MODULE Scaffold ------------------------------
(***************************************************************************)
(* What the command line writes into the consumer's own tree: `init' and   *)
(* `scaffold' (tools/gdextest.py), and the starter configuration of        *)
(* `test'.  Any of these writes may be cut short, by a kill or a full      *)
(* disk: the file is then there, but torn.                                 *)
(*                                                                         *)
(* A text of an SConstruct: the user's text it holds, the times the        *)
(* framework's snippet follows it, and whether all of that is there; if    *)
(* not, `calls' says whether a call site is in what there is.              *)
(***************************************************************************)
EXTENDS Integers, Sequences

CONSTANTS
    MaxEdits   \* bound: texts of SConstruct by the user

\* A text of the user's calls the SConscript, has the call site in a comment or a
\* string only, has none, or has none and is no Python.
Forms == {"wired", "mention", "plain", "broken"}
Generated == {"config", "workflow", "entry", "smoke"}

VARIABLES
    sconstruct, \* SConstruct
    backup,     \* SConstruct.gdextest.bak
    last_edit,  \* the number of the user's latest SConstruct
    owner,      \* file -> who wrote what is there, if it is not torn
    step,       \* where `scaffold' is
    original,   \* the text it read
    forced,     \* --force of the command in hand
    green       \* did the last scaffold return 0, with no edit of SConstruct since?

scaffoldVars == <<sconstruct, backup, last_edit, owner, step, original, forced, green>>

Text(by, form) == [by |-> by, form |-> form, snippets |-> 0, whole |-> TRUE, calls |-> FALSE]
NoText == [by |-> 0, form |-> "plain", snippets |-> 0, whole |-> FALSE, calls |-> FALSE]

\* _sconstruct_wired finds the text of a call site anywhere: as the docs have it, or the
\* framework's own.
WiredByMention(text) == text # NoText
SConstructWired(text) ==
    IF text.whole THEN text.form \in {"wired", "mention"} \/ text.snippets > 0 ELSE text.calls
Torn(text) == {[text EXCEPT !.whole = FALSE, !.calls = c] : c \in {FALSE, SConstructWired(text)}}
\* What is left of a torn text, patched, may be Python or not.
MayCompile(text) == IF text.whole THEN {text.form # "broken"} ELSE BOOLEAN

ScaffoldInit ==
    /\ sconstruct = NoText /\ backup = NoText /\ last_edit = 0
    /\ owner = [f \in Generated |-> "nobody"]
    /\ step = "idle" /\ original = NoText
    /\ forced = FALSE /\ green = FALSE

-----------------------------------------------------------------------------
UserEdits(form) ==
    /\ step = "idle" /\ last_edit < MaxEdits
    /\ last_edit' = last_edit + 1 /\ sconstruct' = Text(last_edit', form)
    /\ green' = FALSE
    /\ UNCHANGED <<backup, owner, step, original, forced>>
UserWrites(f) ==
    /\ step = "idle" /\ owner' = [owner EXCEPT ![f] = "user"]
    /\ UNCHANGED <<sconstruct, backup, last_edit, step, original, forced, green>>

\* "keeping existing" or written: _write_config and the like of it.
WrittenAlways(files, force) ==
    [f \in Generated |-> IF f \in files THEN "gdextest" ELSE owner[f]]
Written(files, force) ==
    [f \in Generated |-> IF f \in files /\ (owner[f] = "nobody" \/ force) THEN "gdextest" ELSE owner[f]]
\* Cut short in the write of f, with `done' written before it.
Cut(done, f, force) ==
    IF owner[f] = "nobody" \/ force
    THEN [Written(done, force) EXCEPT ![f] = "torn"] ELSE Written(done, force)

\* The configuration, then the workflow.
CmdInit(ci, force) ==
    /\ step = "idle"
    /\ forced' = force
    /\ \/ owner' = Written({"config"} \cup (IF ci THEN {"workflow"} ELSE {}), force)
       \/ owner' = Cut({}, "config", force)
       \/ ci /\ owner' \in {Written({"config"}, force), Cut({"config"}, "workflow", force)}
    /\ UNCHANGED <<sconstruct, backup, last_edit, step, original, green>>

\* `test' writes the starter configuration where there is none.
StarterConfig(files) ==
    /\ step = "idle"
    /\ forced' = FALSE
    /\ owner' = files
    /\ UNCHANGED <<sconstruct, backup, last_edit, step, original, green>>
WriteStarterConfig == StarterConfig(Written({"config"}, FALSE))
CutStarterConfig == StarterConfig(Cut({}, "config", FALSE))

\* cmd_scaffold up to its first write: 2 without an SConstruct, without --apply where
\* there is something to patch, or for a configuration load_config refuses.
FirstWriteIsThePatch == "patch"
FirstWrite == "backup"
BeginScaffold(apply, force) ==
    /\ step = "idle"
    /\ forced' = force /\ green' = FALSE
    /\ LET exists == sconstruct # NoText
           wired == SConstructWired(sconstruct) IN
       \/ exists /\ wired /\ step' = "entry" /\ original' = NoText
       \/ exists /\ ~wired /\ apply /\ step' = FirstWrite /\ original' = sconstruct
       \/ /\ ~(exists /\ (wired \/ apply)) \/ owner["config"] \in {"user", "torn"}
          /\ step' = "idle" /\ original' = NoText
    /\ UNCHANGED <<sconstruct, backup, last_edit, owner>>

WriteBackup ==
    /\ step = "backup" /\ step' = "patch"
    /\ backup' = original
    /\ UNCHANGED <<sconstruct, last_edit, owner, original, forced, green>>

Patched == [original EXCEPT !.snippets = @ + 1, !.calls = TRUE]
WritePatch ==
    /\ step = "patch" /\ step' = "compile"
    /\ sconstruct' = Patched
    /\ UNCHANGED <<backup, last_edit, owner, original, forced, green>>

\* The syntax check; on an error the original comes back.
Compile ==
    /\ step = "compile"
    /\ \E compiles \in MayCompile(sconstruct) :
        \/ compiles /\ step' = "entry" /\ sconstruct' = sconstruct
        \/ ~compiles /\ step' = "idle" /\ sconstruct' = original
    /\ original' = NoText
    /\ UNCHANGED <<backup, last_edit, owner, forced, green>>

WriteEntry ==
    /\ step = "entry" /\ step' = "smoke"
    /\ owner' = Written({"entry"}, forced)
    /\ UNCHANGED <<sconstruct, backup, last_edit, original, forced, green>>
WriteSmoke ==
    /\ step = "smoke" /\ step' = "doctor"
    /\ owner' = Written({"smoke"}, forced)
    /\ UNCHANGED <<sconstruct, backup, last_edit, original, forced, green>>

\* The doctor has the last word; the wiring is only one of its checks.
EndScaffold ==
    /\ step = "doctor" /\ step' = "idle"
    /\ green' \in {FALSE, SConstructWired(sconstruct)}
    /\ UNCHANGED <<sconstruct, backup, last_edit, owner, original, forced>>

\* A kill, between two writes or in the middle of one; a write that fails ends
\* the command in the same way.
CutScaffold ==
    /\ step # "idle" /\ step' = "idle" /\ original' = NoText
    /\ \/ UNCHANGED <<sconstruct, backup, owner>>
       \/ step = "backup" /\ backup' \in Torn(original) /\ UNCHANGED <<sconstruct, owner>>
       \/ step = "patch" /\ sconstruct' \in Torn(Patched) /\ UNCHANGED <<backup, owner>>
       \/ /\ step = "compile" /\ FALSE \in MayCompile(sconstruct)
          /\ sconstruct' \in Torn(original) /\ UNCHANGED <<backup, owner>>
       \/ /\ step \in {"entry", "smoke"} /\ owner' = Cut({}, step, forced)
          /\ UNCHANGED <<sconstruct, backup>>
    /\ UNCHANGED <<last_edit, forced, green>>

ScaffoldStep ==
    \/ WriteBackup \/ WritePatch \/ Compile \/ WriteEntry \/ WriteSmoke \/ EndScaffold \/ CutScaffold

-----------------------------------------------------------------------------
Texts == [by : 0..MaxEdits, form : Forms, snippets : Nat, whole : BOOLEAN, calls : BOOLEAN]
ScaffoldTypeOK ==
    /\ sconstruct \in Texts /\ backup \in Texts /\ original \in Texts
    /\ last_edit \in 0..MaxEdits
    /\ owner \in [Generated -> {"nobody", "user", "gdextest", "torn"}]
    /\ step \in {"idle", "backup", "patch", "compile", "entry", "smoke", "doctor"}
    /\ forced \in BOOLEAN /\ green \in BOOLEAN

\* The user's latest SConstruct is there as a whole, with or without the snippet after
\* it, or in the backup.
Recoverable ==
    \E text \in {sconstruct, backup} : text.whole /\ text.by = last_edit

\* docs/getting-started.md: "This patches SConstruct (a .bak backup is written first)".
\* No kill, full disk, failed syntax check or repetition of scaffold takes the user's
\* last whole text away, but for one step: with a torn SConstruct in place another
\* --apply backs that up, over what may be the only whole copy (cmd_scaffold).
BackupComesFirst ==
    [][Recoverable => Recoverable' \/ (step = "backup" /\ ~original.whole)]_scaffoldVars

\* docs/configuration.md: "It never overwrites an existing file unless you pass
\* `--force`", nor do scaffold and test: what the user wrote is the user's after any
\* series of commands without it (_write_config, cmd_init, cmd_scaffold).
UserFilesAreKept ==
    [][\A f \in Generated : owner[f] = "user" /\ owner'[f] # "user" => forced']_scaffoldVars

\* A scaffold that returns 0 leaves an SConstruct with the user's text in it and one
\* snippet after that, however often it was run, refused or cut before; none if the text
\* has a call site already, be it in a comment, which calls nothing.  An entry and a smoke
\* suite are there, torn perhaps by an earlier cut, and so may the SConstruct be, or no
\* Python with the original in the backup (cmd_scaffold, _sconstruct_wired).
GreenScaffoldIsWired ==
    green =>
        /\ IF sconstruct.whole
           THEN /\ sconstruct.by = last_edit
                /\ sconstruct.snippets = IF sconstruct.form \in {"wired", "mention"} THEN 0 ELSE 1
                /\ sconstruct.form = "broken" => backup.whole /\ backup.by = last_edit
           ELSE sconstruct.calls
        /\ owner["entry"] # "nobody" /\ owner["smoke"] # "nobody"
=============================================================================
