---------------------------- MODULE SignalsProofs ---------------------------
(***************************************************************************)
(* Theorems about the signal monitor, for any objects, signals, nesting and *)
(* order of teardowns.                                                     *)
(***************************************************************************)
EXTENDS Signals, FiniteSetTheorems, TLAPS

-----------------------------------------------------------------------------
(* Types.                                                                   *)

\* A monitor exists as long as its teardown is registered.
MonitorHasTeardown == monitor <=> \E i \in DOMAIN teardowns : teardowns[i] = "signals"

TypeInv == TypeOK /\ MonitorHasTeardown

LEMMA PoppedFacts ==
    ASSUME teardowns \in Seq({"signals", "user"}), teardowns # <<>>
    PROVE  /\ Popped \in Seq({"signals", "user"})
           /\ DOMAIN Popped = DOMAIN teardowns \ {Len(teardowns)}
           /\ Len(teardowns) \in DOMAIN teardowns
           /\ \A i \in DOMAIN Popped : Popped[i] = teardowns[i]
  BY DEF Popped

LEMMA AppendFacts ==
    ASSUME NEW S, NEW s \in Seq(S), NEW x \in S
    PROVE  /\ Append(s, x) \in Seq(S)
           /\ DOMAIN Append(s, x) = DOMAIN s \cup {Len(s) + 1}
           /\ Len(s) + 1 \notin DOMAIN s
           /\ Append(s, x)[Len(s) + 1] = x
           /\ \A i \in DOMAIN s : Append(s, x)[i] = s[i]
  OBVIOUS

LEMMA InnermostFacts ==
    ASSUME NEW S, NEW s \in Seq(S), s # <<>>
    PROVE  /\ SubSeq(s, 1, Len(s) - 1) \in Seq(S)
           /\ DOMAIN SubSeq(s, 1, Len(s) - 1) = DOMAIN s \ {Len(s)}
           /\ Len(s) \in DOMAIN s /\ s[Len(s)] \in S
           /\ \A i \in DOMAIN SubSeq(s, 1, Len(s) - 1) :
                  SubSeq(s, 1, Len(s) - 1)[i] = s[i]
  OBVIOUS

\* How many emissions of k are under way, and how that changes.
Places(s, k) == {i \in DOMAIN s : s[i] = k}

LEMMA PlacesFinite ==
    ASSUME NEW S, NEW s \in Seq(S), NEW k
    PROVE  IsFiniteSet(Places(s, k)) /\ Cardinality(Places(s, k)) \in Nat
  <1>1. IsFiniteSet(1 .. Len(s))
    BY FS_Interval
  <1>2. Places(s, k) \in SUBSET (1 .. Len(s))
    BY DEF Places
  <1>3. IsFiniteSet(Places(s, k))
    BY <1>1, <1>2, FS_Subset
  <1> QED
    BY <1>3, FS_CardinalityType

LEMMA PlacesAppend ==
    ASSUME NEW S, NEW s \in Seq(S), NEW x \in S, NEW k
    PROVE  Cardinality(Places(Append(s, x), k)) =
               Cardinality(Places(s, k)) + (IF k = x THEN 1 ELSE 0)
  <1>1. CASE k = x
    <2>1. Places(Append(s, x), k) = Places(s, k) \cup {Len(s) + 1}
      BY <1>1, AppendFacts DEF Places
    <2>2. Len(s) + 1 \notin Places(s, k)
      BY AppendFacts DEF Places
    <2> QED
      BY <1>1, <2>1, <2>2, PlacesFinite, FS_AddElement
  <1>2. CASE k # x
    <2>1. Places(Append(s, x), k) = Places(s, k)
      BY <1>2, AppendFacts DEF Places
    <2>2. Cardinality(Places(s, k)) \in Nat
      BY PlacesFinite
    <2> QED
      BY <1>2, <2>1, <2>2
  <1> QED
    BY <1>1, <1>2

LEMMA PlacesInnermost ==
    ASSUME NEW S, NEW s \in Seq(S), s # <<>>, NEW k
    PROVE  Cardinality(Places(s, k)) =
               Cardinality(Places(SubSeq(s, 1, Len(s) - 1), k))
               + (IF k = s[Len(s)] THEN 1 ELSE 0)
  <1> DEFINE t == SubSeq(s, 1, Len(s) - 1)
  <1>0. t \in Seq(S) /\ Cardinality(Places(t, k)) \in Nat
    BY InnermostFacts, PlacesFinite
  <1>1. CASE k = s[Len(s)]
    <2>1. Places(s, k) = Places(t, k) \cup {Len(s)}
      BY <1>1, InnermostFacts DEF Places
    <2>2. Len(s) \notin Places(t, k)
      BY InnermostFacts DEF Places
    <2>3. IsFiniteSet(Places(t, k))
      BY <1>0, PlacesFinite
    <2>4. Cardinality(Places(s, k)) = Cardinality(Places(t, k)) + 1
      BY <2>1, <2>2, <2>3, FS_AddElement
    <2> QED
      BY <1>1, <2>4
  <1>2. CASE k # s[Len(s)]
    <2>1. Places(s, k) = Places(t, k)
      BY <1>2, InnermostFacts DEF Places
    <2> QED
      BY <1>0, <1>2, <2>1
  <1> QED
    BY <1>1, <1>2

LEMMA InFlightType == inflight \in Seq(Keys) => \A k : InFlight(k) \in Nat
  <1> SUFFICES ASSUME inflight \in Seq(Keys), NEW k PROVE InFlight(k) \in Nat
    OBVIOUS
  <1> QED
    BY PlacesFinite DEF InFlight, Places

-----------------------------------------------------------------------------
LEMMA TypeInit == Init => TypeInv
  <1> SUFFICES ASSUME Init PROVE TypeInv
    OBVIOUS
  <1>1. DOMAIN watched = {} /\ connected = {} /\ alive = Objects /\ monitor = FALSE
    BY DEF Init
  <1>2. inflight = <<>> /\ teardowns = <<>> /\ truth \in [Keys -> Nat] /\ phase = "body"
    BY DEF Init
  <1>3. TypeOK
    <2>1. inflight \in Seq(Keys) /\ teardowns \in Seq({"signals", "user"})
      BY <1>2
    <2>2. DOMAIN teardowns = {}
      BY <1>2
    <2> QED
      BY <1>1, <1>2, <2>1, <2>2 DEF TypeOK
  <1>4. MonitorHasTeardown
    BY <1>1, <1>2 DEF MonitorHasTeardown
  <1> QED
    BY <1>3, <1>4 DEF TypeInv

\* Records that a step may put in the map.
LEMMA NewRecords ==
    /\ \A e \in Nat : Watch(e) \in Records
    /\ \A w \in Records : Cleared(w) \in Records
  <1>1. <<>> \in Seq(Keys)
    OBVIOUS
  <1>2. ASSUME NEW e \in Nat PROVE Watch(e) \in Records
    BY <1>1 DEF Watch, Records
  <1>3. ASSUME NEW w \in Records PROVE Cleared(w) \in Records
    BY <1>2 DEF Cleared, Records
  <1> QED
    BY <1>2, <1>3

LEMMA TypeNext == TypeInv /\ [Next]_vars => TypeInv'
  <1> SUFFICES ASSUME TypeInv, [Next]_vars PROVE TypeInv'
    OBVIOUS
  <1> USE DEF TypeInv, TypeOK, MonitorHasTeardown, engine
  <1>1. CASE Signals
    <2>1. teardowns' = Append(teardowns, "signals") /\ monitor' = TRUE /\ ~monitor
      BY <1>1 DEF Signals
    <2>2. UNCHANGED <<phase, alive, watched, connected, inflight, truth>>
      BY <1>1 DEF Signals
    <2> QED
      BY <2>1, <2>2, AppendFacts
  <1>2. CASE AddTeardown
    <2>1. teardowns' = Append(teardowns, "user")
          /\ UNCHANGED <<phase, alive, monitor, watched, connected, inflight, truth>>
      BY <1>2 DEF AddTeardown
    <2>2. "user" # "signals"
      OBVIOUS
    <2> QED
      BY <2>1, <2>2, AppendFacts
  <1>3. CASE EndOfBody \/ EndOfTeardowns
    BY <1>3 DEF EndOfBody, EndOfTeardowns
  <1>4. CASE UserTeardownEnds
    <2>1. /\ teardowns # <<>> /\ teardowns[Len(teardowns)] = "user" /\ teardowns' = Popped
          /\ UNCHANGED <<phase, alive, monitor, watched, connected, inflight, truth>>
      BY <1>4 DEF UserTeardownEnds, UserCode
    <2> QED
      BY <2>1, PoppedFacts
  <1>5. CASE SignalsTeardown
    <2>1. /\ teardowns # <<>> /\ teardowns[Len(teardowns)] = "signals" /\ teardowns' = Popped
          /\ monitor' = FALSE
          /\ UNCHANGED <<phase, alive, inflight, truth>>
      BY <1>5, PoppedFacts DEF SignalsTeardown, UserCode
    <2>2. DOMAIN watched' = {} /\ connected' \subseteq connected
      BY <1>5 DEF SignalsTeardown, DisconnectWatchedAll
    <2> QED
      BY <2>1, <2>2, PoppedFacts
  <1>6. CASE ResetAll
    <2>1. watched' = [k \in DOMAIN watched |-> Cleared(watched[k])]
          /\ UNCHANGED <<phase, alive, monitor, connected, inflight, teardowns>>
      BY <1>6 DEF ResetAll
    <2>2. truth' \in [Keys -> Nat]
      BY <1>6, InFlightType DEF ResetAll
    <2> QED
      BY <2>1, <2>2, NewRecords
  <1>7. CASE RemoveAll
    BY <1>7 DEF RemoveAll, DisconnectWatchedAll
  <1>8. CASE OnSignalFired
    <2> DEFINE k == inflight[Len(inflight)]
    <2>1. inflight # <<>> /\ k \in Keys /\ inflight' \in Seq(Keys)
      BY <1>8, InnermostFacts DEF OnSignalFired
    <2>2. \/ k \notin DOMAIN watched /\ watched' = watched
          \/ k \in DOMAIN watched
             /\ watched' = [watched EXCEPT ![k] = Counted(@, k)]
      BY <1>8 DEF OnSignalFired
    <2>3. UNCHANGED <<phase, alive, monitor, connected, teardowns, truth>>
      BY <1>8 DEF OnSignalFired
    <2>4. DOMAIN watched' = DOMAIN watched /\ \A x \in DOMAIN watched : watched'[x] \in Records
      <3> HIDE DEF k
      <3>1. CASE k \notin DOMAIN watched
        BY <2>2, <3>1
      <3>2. CASE k \in DOMAIN watched
        <4> DEFINE w == watched[k]
        <4>1. w \in Records
          BY <3>2
        <4>2. Counted(w, k) \in Records
          BY <2>1, <4>1 DEF Counted, Records
        <4> QED
          BY <2>2, <3>2, <4>2
      <3> QED
        BY <3>1, <3>2
    <2> QED
      BY <2>1, <2>3, <2>4
  <1>9. ASSUME NEW o \in Objects, Free(o) PROVE TypeInv'
    BY <1>9 DEF Free
  <1>10. ASSUME NEW k \in Keys, NEW e \in Expectations, Add(k, e) PROVE TypeInv'
    <2>1. watched' = With(watched, k, Watch(e)) /\ connected' \subseteq Keys
          /\ UNCHANGED <<phase, alive, monitor, inflight, teardowns>>
      BY <1>10 DEF Add
    <2>2. truth' \in [Keys -> Nat]
      BY <1>10, InFlightType DEF Add
    <2>3. Watch(e) \in Records
      BY ExpectationsAssumption, NewRecords
    <2> QED
      BY <2>1, <2>2, <2>3 DEF With
  <1>11. ASSUME NEW k \in Keys, Remove(k) PROVE TypeInv'
    BY <1>11 DEF Remove, Without
  <1>12. ASSUME NEW k \in Keys, Reset(k) PROVE TypeInv'
    <2>1. watched' = [watched EXCEPT ![k] = Cleared(@)] /\ k \in DOMAIN watched
          /\ UNCHANGED <<phase, alive, monitor, connected, inflight, teardowns>>
      BY <1>12 DEF Reset
    <2>2. truth' \in [Keys -> Nat]
      BY <1>12, InFlightType DEF Reset
    <2> QED
      BY <2>1, <2>2, NewRecords
  <1>13. ASSUME NEW k \in Keys, Emit(k) PROVE TypeInv'
    <2>1. inflight' \in Seq(Keys)
      BY <1>13, AppendFacts DEF Emit
    <2>2. truth' \in [Keys -> Nat]
      BY <1>13 DEF Emit
    <2> QED
      BY <1>13, <2>1, <2>2 DEF Emit
  <1>14. CASE Over \/ UNCHANGED vars
    BY <1>14 DEF Over, vars
  <1> QED
    BY <1>1, <1>2, <1>3, <1>4, <1>5, <1>6, <1>7, <1>8, <1>9, <1>10, <1>11, <1>12,
       <1>13, <1>14 DEF Next

\* The type of every variable; the monitor has one teardown.
THEOREM TypeInvariant == Spec => []TypeOK
  <1>1. TypeInv => TypeOK
    BY DEF TypeInv
  <1> QED
    BY <1>1, TypeInit, TypeNext, PTL DEF Spec

-----------------------------------------------------------------------------
(* Connections.                                                             *)

\* Emissions are under way only while code of the test runs, and to a monitor
\* that exists; connections are those of living objects.
EmissionsInUserCode == inflight # <<>> => monitor /\ UserCode
ConnectionsAreReal == \A k \in connected : k \in Declared /\ k[1] \in alive
AfterTheTeardowns == phase = "over" => teardowns = <<>>

ConnectedInv == /\ EmissionsInUserCode /\ ConnectionsAreReal /\ AfterTheTeardowns
                /\ ConnectedWhileWatched

LEMMA ConnectedNext == TypeInv /\ ConnectedInv /\ [Next]_vars => ConnectedInv'
  <1> SUFFICES ASSUME TypeInv, ConnectedInv, [Next]_vars PROVE ConnectedInv'
    OBVIOUS
  <1> USE DeclaredAssumption DEF ConnectedInv, engine
  <1>0. /\ teardowns \in Seq({"signals", "user"}) /\ inflight \in Seq(Keys)
        /\ DOMAIN watched \subseteq Keys /\ connected \subseteq Keys
        /\ monitor <=> \E i \in DOMAIN teardowns : teardowns[i] = "signals"
    BY DEF TypeInv, TypeOK, MonitorHasTeardown
  <1> USE DEF EmissionsInUserCode, ConnectionsAreReal, AfterTheTeardowns,
              ConnectedWhileWatched
  <1>1. CASE Signals
    BY <1>1 DEF Signals, UserCode
  <1>2. CASE AddTeardown
    BY <1>2 DEF AddTeardown, UserCode
  <1>3. CASE EndOfBody
    BY <1>3 DEF EndOfBody, UserCode
  <1>4. CASE EndOfTeardowns
    BY <1>0, <1>4 DEF EndOfTeardowns, UserCode
  <1>5. CASE UserTeardownEnds
    BY <1>5 DEF UserTeardownEnds, UserCode
  <1>6. CASE SignalsTeardown
    <2>1. phase' = "teardowns" /\ monitor' = FALSE /\ DOMAIN watched' = {}
          /\ connected' = connected \ {k \in DOMAIN watched : k[1] \in alive}
          /\ UNCHANGED <<alive, inflight>>
      BY <1>6 DEF SignalsTeardown, DisconnectWatchedAll
    <2>2. inflight = <<>>
      BY <1>6 DEF SignalsTeardown
    <2>3. connected' = {}
      BY <2>1
    <2> QED
      BY <2>1, <2>2, <2>3
  <1>7. CASE ResetAll
    <2>1. DOMAIN watched' = DOMAIN watched
          /\ UNCHANGED <<phase, alive, monitor, connected, inflight, teardowns>>
      BY <1>7 DEF ResetAll
    <2> QED
      BY <2>1 DEF UserCode
  <1>8. CASE RemoveAll
    <2>1. /\ DOMAIN watched' = {}
          /\ connected' = connected \ {k \in DOMAIN watched : k[1] \in alive}
          /\ UNCHANGED <<phase, alive, monitor, inflight, teardowns>>
      BY <1>8 DEF RemoveAll, DisconnectWatchedAll
    <2>2. connected' = {}
      BY <2>1
    <2> QED
      BY <2>1, <2>2 DEF UserCode
  <1>9. CASE OnSignalFired
    <2>1. /\ DOMAIN watched' = DOMAIN watched /\ inflight # <<>>
          /\ UNCHANGED <<phase, alive, monitor, connected, teardowns>>
      BY <1>9 DEF OnSignalFired
    <2> QED
      BY <2>1 DEF UserCode
  <1>10. ASSUME NEW o \in Objects, Free(o) PROVE ConnectedInv'
    <2>1. /\ alive' = alive \ {o} /\ connected' = {k \in connected : k[1] # o}
          /\ UNCHANGED <<phase, monitor, watched, inflight, teardowns>>
      BY <1>10 DEF Free
    <2> QED
      BY <2>1 DEF UserCode
  <1>11. ASSUME NEW k \in Keys, NEW e \in Expectations, Add(k, e) PROVE ConnectedInv'
    <2>1. /\ DOMAIN watched' = DOMAIN watched \cup {k}
          /\ connected' = connected \cup ({k} \cap Declared)
          /\ monitor /\ k[1] \in alive
          /\ UNCHANGED <<phase, alive, monitor, inflight, teardowns>>
      BY <1>11 DEF Add, With
    <2> QED
      BY <2>1 DEF UserCode
  <1>12. ASSUME NEW k \in Keys, Remove(k) PROVE ConnectedInv'
    <2>1. /\ DOMAIN watched' = DOMAIN watched \ {k} /\ connected' = connected \ {k}
          /\ monitor /\ UNCHANGED <<phase, alive, monitor, inflight, teardowns>>
      BY <1>12 DEF Remove, Without
    <2> QED
      BY <2>1 DEF UserCode
  <1>13. ASSUME NEW k \in Keys, Reset(k) PROVE ConnectedInv'
    <2>1. /\ DOMAIN watched' = DOMAIN watched
          /\ UNCHANGED <<phase, alive, monitor, connected, inflight, teardowns>>
      BY <1>13 DEF Reset
    <2> QED
      BY <2>1 DEF UserCode
  <1>14. ASSUME NEW k \in Keys, Emit(k) PROVE ConnectedInv'
    <2>1. /\ UserCode
          /\ k \in connected \/ inflight' = inflight
          /\ UNCHANGED <<phase, alive, monitor, watched, connected, teardowns>>
      BY <1>14 DEF Emit
    <2> QED
      BY <2>1 DEF UserCode
  <1>15. CASE Over \/ UNCHANGED vars
    BY <1>15 DEF Over, vars, UserCode
  <1> QED
    BY <1>1, <1>2, <1>3, <1>4, <1>5, <1>6, <1>7, <1>8, <1>9, <1>10, <1>11, <1>12,
       <1>13, <1>14, <1>15 DEF Next

LEMMA ConnectedInit == Init => ConnectedInv
  BY DEF Init, ConnectedInv, EmissionsInUserCode, ConnectionsAreReal, AfterTheTeardowns,
         ConnectedWhileWatched

LEMMA ConnectedAlways == Spec => [](TypeInv /\ ConnectedInv)
  BY TypeInit, TypeNext, ConnectedInit, ConnectedNext, PTL DEF Spec

\* The engine calls the monitor for exactly what is watched, and nothing stays
\* connected to a monitor that was deleted.
THEOREM ConnectionsFollowTheWatch == Spec => []ConnectedWhileWatched
  <1>1. ConnectedInv => ConnectedWhileWatched
    BY DEF ConnectedInv
  <1> QED
    BY <1>1, ConnectedAlways, PTL

-----------------------------------------------------------------------------
(* Counts.                                                                  *)

CountsInv == \A k \in DOMAIN watched :
                 /\ watched[k].count = Len(watched[k].history)
                 /\ watched[k].count + InFlight(k) = truth[k]

LEMMA FreshCounts ==
    ASSUME NEW e
    PROVE  /\ Watch(e).count = 0 /\ Len(Watch(e).history) = 0
  BY DEF Watch

LEMMA CountsNext ==
    TypeInv /\ ConnectedInv /\ CountsInv /\ [Next]_vars => CountsInv'
  <1> SUFFICES ASSUME TypeInv, ConnectedInv, CountsInv, [Next]_vars PROVE CountsInv'
    OBVIOUS
  <1> USE DEF engine
  <1>0. /\ inflight \in Seq(Keys) /\ truth \in [Keys -> Nat] /\ DOMAIN watched \subseteq Keys
        /\ \A k \in DOMAIN watched : watched[k] \in Records
    BY DEF TypeInv, TypeOK
  <1>a. \A k : InFlight(k) \in Nat
    BY <1>0, InFlightType
  <1>b. \A k : /\ InFlight(k) = Cardinality(Places(inflight, k))
              /\ InFlight(k)' = Cardinality(Places(inflight', k))
    BY DEF InFlight, Places
  <1>1. CASE UNCHANGED <<watched, truth, inflight>>
    BY <1>1 DEF CountsInv, InFlight
  <1>2. CASE DOMAIN watched' = {}
    BY <1>2 DEF CountsInv
  <1>3. CASE ResetAll
    <2>1. /\ watched' = [k \in DOMAIN watched |-> Cleared(watched[k])] /\ inflight' = inflight
          /\ \A k \in DOMAIN watched : truth'[k] = InFlight(k)
      BY <1>0, <1>3 DEF ResetAll
    <2>2. \A k : InFlight(k)' = InFlight(k)
      BY <2>1 DEF InFlight
    <2> QED
      BY <2>1, <2>2, <1>a, FreshCounts DEF CountsInv, Cleared
  <1>4. CASE OnSignalFired
    <2> DEFINE x == inflight[Len(inflight)]
    <2>1. /\ inflight # <<>> /\ inflight' = SubSeq(inflight, 1, Len(inflight) - 1)
          /\ truth' = truth
      BY <1>4 DEF OnSignalFired
    <2>2. ASSUME NEW k
          PROVE  InFlight(k) = InFlight(k)' + (IF k = x THEN 1 ELSE 0)
      <3>1. Cardinality(Places(inflight, k)) =
                Cardinality(Places(SubSeq(inflight, 1, Len(inflight) - 1), k))
                + (IF k = inflight[Len(inflight)] THEN 1 ELSE 0)
        BY <1>0, <2>1, PlacesInnermost
      <3> QED
        BY <1>b, <2>1, <3>1
    <2>3. ASSUME NEW k PROVE InFlight(k)' \in Nat
      <3>1. inflight' \in Seq(Keys)
        BY <1>0, <2>1, InnermostFacts
      <3>2. Cardinality(Places(inflight', k)) \in Nat
        BY <3>1, PlacesFinite
      <3> QED
        BY <1>b, <3>2
    <2>4. x \in Keys
      BY <1>0, <2>1, InnermostFacts
    <2>5. watched' = IF x \in DOMAIN watched
                     THEN [watched EXCEPT ![x] = Counted(@, x)] ELSE watched
      BY <1>4 DEF OnSignalFired
    <2> HIDE DEF x
    <2> SUFFICES ASSUME NEW k \in DOMAIN watched
                 PROVE  /\ watched'[k].count = Len(watched'[k].history)
                        /\ watched'[k].count + InFlight(k)' = truth[k]
      BY <2>1, <2>5 DEF CountsInv
    <2>6. /\ watched[k].count = Len(watched[k].history)
          /\ watched[k].count + InFlight(k) = truth[k]
          /\ watched[k].count \in Nat /\ watched[k].history \in Seq(Keys)
      BY <1>0 DEF CountsInv, Records
    <2>7. CASE k = x
      <3>1. watched'[k] = Counted(watched[k], k)
        BY <2>5, <2>7
      <3>2. /\ watched'[k].count = watched[k].count + 1
            /\ watched'[k].history = Append(watched[k].history, k)
        BY <3>1 DEF Counted
      <3>3. Len(watched'[k].history) = Len(watched[k].history) + 1
        BY <2>6, <3>2
      <3>4. InFlight(k) = InFlight(k)' + 1 /\ InFlight(k)' \in Nat
        BY <2>2, <2>3, <2>7
      <3>5. watched'[k].count = Len(watched'[k].history)
        BY <2>6, <3>2, <3>3
      <3>6. watched'[k].count + InFlight(k)' = truth[k]
        <4>1. watched[k].count \in Nat /\ watched[k].count + InFlight(k) = truth[k]
          BY <2>6
        <4>2. watched'[k].count = watched[k].count + 1
          BY <3>2
        <4> QED
          BY <3>4, <4>1, <4>2
      <3> QED
        BY <3>5, <3>6
    <2>8. CASE k # x
      <3>1. watched'[k] = watched[k]
        BY <2>5, <2>8
      <3>2. InFlight(k) = InFlight(k)'
        BY <2>2, <2>3, <2>8
      <3> QED
        BY <2>6, <3>1, <3>2
    <2> QED
      BY <2>7, <2>8
  <1>5. ASSUME NEW k \in Keys, NEW e \in Expectations, Add(k, e) PROVE CountsInv'
    <2>1. /\ watched' = With(watched, k, Watch(e)) /\ inflight' = inflight
          /\ truth' = [truth EXCEPT ![k] = InFlight(k)]
      BY <1>5 DEF Add
    <2>2. \A x : InFlight(x)' = InFlight(x)
      BY <2>1 DEF InFlight
    <2> QED
      BY <1>0, <1>a, <2>1, <2>2, FreshCounts DEF CountsInv, With
  <1>6. ASSUME NEW k \in Keys, Remove(k) PROVE CountsInv'
    <2>1. watched' = Without(watched, k) /\ UNCHANGED <<inflight, truth>>
      BY <1>6 DEF Remove
    <2>2. \A x : InFlight(x)' = InFlight(x)
      BY <2>1 DEF InFlight
    <2> QED
      BY <2>1, <2>2 DEF CountsInv, Without
  <1>7. ASSUME NEW k \in Keys, Reset(k) PROVE CountsInv'
    <2>1. /\ watched' = [watched EXCEPT ![k] = Cleared(@)] /\ inflight' = inflight
          /\ truth' = [truth EXCEPT ![k] = InFlight(k)] /\ k \in DOMAIN watched
      BY <1>7 DEF Reset
    <2>2. \A x : InFlight(x)' = InFlight(x)
      BY <2>1 DEF InFlight
    <2> QED
      BY <1>0, <1>a, <2>1, <2>2, FreshCounts DEF CountsInv, Cleared
  <1>8. ASSUME NEW k \in Keys, Emit(k) PROVE CountsInv'
    <2>1. /\ watched' = watched /\ truth' = [truth EXCEPT ![k] = @ + 1]
          /\ k \in Declared /\ k[1] \in alive
          /\ inflight' = IF k \in connected THEN Append(inflight, k) ELSE inflight
      BY <1>8 DEF Emit
    <2>2. k \in connected <=> k \in DOMAIN watched
      BY <2>1 DEF ConnectedInv, ConnectedWhileWatched
    <2>3. CASE k \in connected
      <3>1. ASSUME NEW x
            PROVE  InFlight(x)' = InFlight(x) + (IF x = k THEN 1 ELSE 0)
        <4>1. Cardinality(Places(Append(inflight, k), x)) =
                  Cardinality(Places(inflight, x)) + (IF x = k THEN 1 ELSE 0)
          BY <1>0, PlacesAppend
        <4> QED
          BY <1>b, <2>1, <2>3, <4>1
      <3> QED
        BY <1>0, <1>a, <2>1, <3>1 DEF CountsInv, Records
    <2>4. CASE k \notin connected
      <3>1. \A x : InFlight(x)' = InFlight(x)
        BY <2>1, <2>4 DEF InFlight
      <3> QED
        BY <1>0, <2>1, <2>2, <2>4, <3>1 DEF CountsInv
    <2> QED
      BY <2>3, <2>4
  <1>9. CASE \/ Signals \/ AddTeardown \/ EndOfBody \/ UserTeardownEnds \/ EndOfTeardowns
             \/ Over \/ UNCHANGED vars \/ \E o \in Objects : Free(o)
    BY <1>1, <1>9
    DEF Signals, AddTeardown, EndOfBody, UserTeardownEnds, EndOfTeardowns, Over, vars, Free
  <1>10. CASE SignalsTeardown \/ RemoveAll
    BY <1>2, <1>10 DEF SignalsTeardown, RemoveAll
  <1> QED
    BY <1>3, <1>4, <1>5, <1>6, <1>7, <1>8, <1>9, <1>10 DEF Next

LEMMA CountsAlways == Spec => [](TypeInv /\ CountsInv)
  <1>1. Init => CountsInv
    BY DEF Init, CountsInv
  <1> QED
    BY <1>1, CountsNext, ConnectedAlways, TypeInit, TypeNext, PTL DEF Spec

\* Count, history and the emissions under way always add up to what was emitted.
THEOREM CountsAndHistoriesAgree == Spec => []CountsMatchHistories
  <1>1. CountsInv => CountsMatchHistories
    <2>1. Len(<<>>) = 0
      OBVIOUS
    <2> QED
      BY <2>1 DEF CountsInv, CountsMatchHistories, EmissionCount, EmissionHistory
  <1> QED
    BY <1>1, CountsAlways, PTL

\* Between emissions evaluate() tells the truth.
THEOREM EvaluateIsTruthful == Spec => []EvaluateTellsTheTruth
  <1>1. TypeInv /\ CountsInv => EvaluateTellsTheTruth
    <2> SUFFICES ASSUME TypeInv, CountsInv, inflight = <<>>
                 PROVE  \A k \in DOMAIN watched : watched[k].count = truth[k]
      BY DEF EvaluateTellsTheTruth, Evaluate
    <2> TAKE k \in DOMAIN watched
    <2>1. {i \in DOMAIN inflight : inflight[i] = k} = {}
      OBVIOUS
    <2>2. InFlight(k) = 0
      BY <2>1, FS_EmptySet DEF InFlight
    <2>3. watched[k].count \in Nat /\ watched[k].count + InFlight(k) = truth[k]
      BY DEF TypeInv, TypeOK, Records, CountsInv
    <2> QED
      BY <2>2, <2>3
  <1> QED
    BY <1>1, CountsAlways, PTL

=============================================================================
