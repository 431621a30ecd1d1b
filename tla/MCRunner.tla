------------------------------ MODULE MCRunner ------------------------------
(***************************************************************************)
(* Small instances of the runner for TLC.                                  *)
(***************************************************************************)
EXTENDS RunnerProps

Sync == [async |-> FALSE, flaky |-> FALSE]
FlakySync == [async |-> FALSE, flaky |-> TRUE]
Async == [async |-> TRUE, flaky |-> FALSE]
FlakyAsync == [async |-> TRUE, flaky |-> TRUE]

\* Nothing selected, each kind alone, and each order of a sync and an async
\* test: what one test leaves behind reaches the next.
PairSelections ==
    {<<>>, <<FlakySync>>, <<Sync, Async>>, <<Async, Sync>>, <<Async, Async>>}
MixedSelections == {<<FlakySync, Async, Async>>, <<Async, Sync, FlakyAsync>>}
OneAsync == {<<Async>>}
OneSync == {<<Sync>>}
=============================================================================
