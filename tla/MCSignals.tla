------------------------------ MODULE MCSignals -----------------------------
(***************************************************************************)
(* A small instance of the signal monitor for TLC.                         *)
(***************************************************************************)
EXTENDS Signals

CONSTANTS o1, o2

MCObjects == {o1, o2}
\* o2 does not have the second signal.
MCDeclared == {<<o1, "a">>, <<o1, "b">>, <<o2, "a">>}
=============================================================================
