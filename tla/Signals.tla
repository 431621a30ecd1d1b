------------------------------- MODULE Signals ------------------------------
(***************************************************************************)
(* The SignalMonitor of a test context (src/framework/signals.cpp), the    *)
(* engine's signal connections it relies on, and the teardowns among which *)
(* the monitor is taken down.                                              *)
(*                                                                         *)
(* An emission calls the slots that were connected when it began, one      *)
(* after the other; slots of the test may run before the monitor's and do  *)
(* anything, emit again included.  `inflight' holds the emissions that the *)
(* monitor's slot has not been called for yet.                             *)
(***************************************************************************)
EXTENDS Integers, Sequences, FiniteSets

CONSTANTS
    Objects,        \* instance ids; the engine never uses one again
    SignalNames,
    Declared,       \* <<object, signal>> pairs the engine knows
    Expectations,   \* p_expected arguments
    MaxEmissions,   \* bound: emissions counted for one key
    MaxNesting,     \* bound: emissions under way at once
    MaxTeardowns    \* bound: teardowns the test registers itself

Keys == Objects \X SignalNames

ASSUME DeclaredAssumption == Declared \subseteq Keys
ASSUME ExpectationsAssumption == Expectations \subseteq Nat
ASSUME SignalBoundsAssumption ==
    MaxEmissions \in Nat /\ MaxNesting \in Nat /\ MaxTeardowns \in Nat

VARIABLES
    phase,      \* "body", "teardowns" or "over"
    alive,      \* objects not freed
    monitor,    \* TestContext::signals_ is not null
    watched,    \* SignalMonitor::signals, a function on some keys
    connected,  \* engine: keys connected to the monitor's slot
    inflight,   \* engine: keys of the emissions under way, innermost last
    teardowns,  \* TestContext::teardowns_ not yet run
    truth       \* history: emissions of each key since it was watched or reset

engine == <<alive, connected, inflight>>
vars == <<phase, monitor, watched, engine, teardowns, truth>>

Watch(expected) == [expected |-> expected, count |-> 0, history |-> <<>>]

Init ==
    /\ phase = "body"
    /\ alive = Objects
    /\ monitor = FALSE
    /\ watched = [k \in {} |-> Watch(0)]
    /\ connected = {}
    /\ inflight = <<>>
    /\ teardowns = <<>>
    /\ truth = [k \in Keys |-> 0]

\* The test's own code is running: its body, or one of its teardowns.
UserCode ==
    \/ phase = "body"
    \/ phase = "teardowns" /\ teardowns # <<>> /\ teardowns[Len(teardowns)] = "user"

InFlight(k) == Cardinality({i \in DOMAIN inflight : inflight[i] = k})

Without(f, k) == [x \in DOMAIN f \ {k} |-> f[x]]
With(f, k, v) == [x \in DOMAIN f \cup {k} |-> IF x = k THEN v ELSE f[x]]

-----------------------------------------------------------------------------
SignalsAlwaysCreates ==
    /\ phase = "body"
    /\ monitor' = TRUE
    /\ teardowns' = Append(teardowns, "signals")
    /\ UNCHANGED <<phase, watched, engine, truth>>
\* TestContext::signals(): the first use creates the monitor and registers its
\* teardown.  A first use in a teardown would change the list being run.
Signals ==
    /\ phase = "body" /\ ~monitor
    /\ monitor' = TRUE
    /\ teardowns' = Append(teardowns, "signals")
    /\ UNCHANGED <<phase, watched, engine, truth>>

\* Watching again starts the count again and keeps the connection.  connect()
\* to a signal the object does not have fails, the entry stays.
Add(k, expected) ==
    /\ UserCode /\ monitor /\ k[1] \in alive
    /\ watched' = With(watched, k, Watch(expected))
    /\ connected' = connected \cup ({k} \cap Declared)
    /\ truth' = [truth EXCEPT ![k] = InFlight(k)]
    /\ UNCHANGED <<phase, alive, monitor, inflight, teardowns>>

Remove(k) ==
    /\ UserCode /\ monitor /\ k[1] \in alive /\ k \in DOMAIN watched
    /\ watched' = Without(watched, k)
    /\ connected' = connected \ {k}
    /\ UNCHANGED <<phase, alive, monitor, inflight, teardowns, truth>>

ClearedCountOnly(w) == [w EXCEPT !.count = 0]
Cleared(w) == Watch(w.expected)

Reset(k) ==
    /\ UserCode /\ monitor /\ k[1] \in alive /\ k \in DOMAIN watched
    /\ watched' = [watched EXCEPT ![k] = Cleared(@)]
    /\ truth' = [truth EXCEPT ![k] = InFlight(k)]
    /\ UNCHANGED <<phase, monitor, engine, teardowns>>

ResetAll ==
    /\ UserCode /\ monitor
    /\ watched' = [k \in DOMAIN watched |-> Cleared(watched[k])]
    /\ truth' = [k \in Keys |-> IF k \in DOMAIN watched THEN InFlight(k) ELSE truth[k]]
    /\ UNCHANGED <<phase, monitor, engine, teardowns>>

\* remove_all: a target that is gone took its connections with it.
DisconnectWatchedAll == connected \ {k \in DOMAIN watched : k[1] \in alive}
RemoveAll ==
    /\ UserCode /\ monitor
    /\ watched' = [k \in {} |-> Watch(0)]
    /\ connected' = DisconnectWatchedAll
    /\ UNCHANGED <<phase, alive, monitor, inflight, teardowns, truth>>

-----------------------------------------------------------------------------
\* Object::emit_signal begins: the slots to call are fixed now.
Emit(k) ==
    /\ UserCode /\ k \in Declared /\ k[1] \in alive
    /\ truth[k] < MaxEmissions /\ Len(inflight) < MaxNesting
    /\ truth' = [truth EXCEPT ![k] = @ + 1]
    /\ inflight' = IF k \in connected THEN Append(inflight, k) ELSE inflight
    /\ UNCHANGED <<phase, alive, monitor, watched, connected, teardowns>>

\* _on_signal_fired for the innermost emission: it counts only what is watched.
Counted(w, k) == [expected |-> w.expected, count |-> w.count + 1,
                  history |-> Append(w.history, k)]
OnSignalFired ==
    /\ inflight # <<>>
    /\ LET k == inflight[Len(inflight)] IN
       watched' = IF k \in DOMAIN watched
                  THEN [watched EXCEPT ![k] = Counted(@, k)]
                  ELSE watched
    /\ inflight' = SubSeq(inflight, 1, Len(inflight) - 1)
    /\ UNCHANGED <<phase, alive, monitor, connected, teardowns, truth>>

\* memdelete of a target that is not emitting: its connections go with it.
Free(o) ==
    /\ UserCode /\ o \in alive /\ \A i \in DOMAIN inflight : inflight[i][1] # o
    /\ alive' = alive \ {o}
    /\ connected' = {k \in connected : k[1] # o}
    /\ UNCHANGED <<phase, monitor, watched, inflight, teardowns, truth>>

-----------------------------------------------------------------------------
AddTeardown ==
    /\ phase = "body"
    /\ Len(SelectSeq(teardowns, LAMBDA t : t = "user")) < MaxTeardowns
    /\ teardowns' = Append(teardowns, "user")
    /\ UNCHANGED <<phase, monitor, watched, engine, truth>>

EndOfBody ==
    /\ phase = "body" /\ inflight = <<>>
    /\ phase' = "teardowns"
    /\ UNCHANGED <<monitor, watched, engine, teardowns, truth>>

Popped == SubSeq(teardowns, 1, Len(teardowns) - 1)

\* run_teardowns, last registered first.
UserTeardownEnds ==
    /\ phase = "teardowns" /\ UserCode /\ inflight = <<>>
    /\ teardowns' = Popped
    /\ UNCHANGED <<phase, monitor, watched, engine, truth>>

SignalsTeardownDeletesOnly ==
    /\ phase = "teardowns" /\ teardowns # <<>> /\ ~UserCode
    /\ teardowns' = Popped
    /\ watched' = [k \in {} |-> Watch(0)]
    /\ monitor' = FALSE
    /\ UNCHANGED <<phase, alive, connected, inflight, truth>>
SignalsTeardown ==
    /\ phase = "teardowns" /\ teardowns # <<>> /\ ~UserCode
    /\ teardowns' = Popped
    /\ watched' = [k \in {} |-> Watch(0)]
    /\ connected' = DisconnectWatchedAll
    /\ monitor' = FALSE
    /\ UNCHANGED <<phase, alive, inflight, truth>>

EndOfTeardowns ==
    /\ phase = "teardowns" /\ teardowns = <<>>
    /\ phase' = "over"
    /\ UNCHANGED <<monitor, watched, engine, teardowns, truth>>

Over == phase = "over" /\ UNCHANGED vars

Next ==
    \/ Signals \/ AddTeardown \/ EndOfBody \/ UserTeardownEnds
    \/ SignalsTeardown \/ EndOfTeardowns \/ Over
    \/ ResetAll \/ RemoveAll \/ OnSignalFired
    \/ \E o \in Objects : Free(o)
    \/ \E k \in Keys : \/ \E expected \in Expectations : Add(k, expected)
                       \/ Remove(k) \/ Reset(k) \/ Emit(k)

Spec == Init /\ [][Next]_vars

-----------------------------------------------------------------------------
(* The queries.                                                             *)

EmissionCount(k) == IF k \in DOMAIN watched THEN watched[k].count ELSE 0
EmissionHistory(k) == IF k \in DOMAIN watched THEN watched[k].history ELSE <<>>
EvaluateAtLeast == \A k \in DOMAIN watched : watched[k].count >= watched[k].expected
Evaluate == \A k \in DOMAIN watched : watched[k].count = watched[k].expected

-----------------------------------------------------------------------------
Records == [expected : Nat, count : Nat, history : Seq(Keys)]

\* The type of every variable; the monitor has one teardown.
TypeOK ==
    /\ phase \in {"body", "teardowns", "over"}
    /\ alive \subseteq Objects
    /\ monitor \in BOOLEAN
    /\ DOMAIN watched \subseteq Keys
    /\ \A k \in DOMAIN watched : watched[k] \in Records
    /\ connected \subseteq Keys
    /\ inflight \in Seq(Keys)
    /\ teardowns \in Seq({"signals", "user"})
    /\ \A i, j \in DOMAIN teardowns :
           teardowns[i] = "signals" /\ teardowns[j] = "signals" => i = j
    /\ truth \in [Keys -> Nat]

\* The engine calls the monitor for exactly the watched signals of the living
\* objects: none is watched in vain, none keeps a connection it no longer has an
\* entry for, and nothing is connected to a monitor that was deleted (add,
\* remove, remove_all, the teardown of signals()).
ConnectedWhileWatched ==
    /\ \A k \in Declared : k[1] \in alive => (k \in connected <=> k \in DOMAIN watched)
    /\ ~monitor => connected = {} /\ DOMAIN watched = {} /\ inflight = <<>>
    /\ phase = "over" => ~monitor

\* Between emissions evaluate() is the truth about what was emitted since each
\* signal was watched or reset, however emissions nested and however often the
\* watch was dropped and taken up again (evaluate, _on_signal_fired, reset).
EvaluateTellsTheTruth ==
    inflight = <<>> =>
        (Evaluate <=> \A k \in DOMAIN watched : truth[k] = watched[k].expected)

\* The count and the history of a signal are two fields kept by hand and always
\* tell the same number, whatever is watched (_on_signal_fired, reset, reset_all).
CountsMatchHistories ==
    \A k \in Keys : /\ EmissionCount(k) = Len(EmissionHistory(k))
                    /\ k \in DOMAIN watched => EmissionCount(k) + InFlight(k) = truth[k]
=============================================================================
