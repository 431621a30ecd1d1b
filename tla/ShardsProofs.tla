---------------------------- MODULE ShardsProofs ----------------------------
(***************************************************************************)
(* Proofs about the sharded selection, for every registry, filter, hash    *)
(* and number of shards: the shards are disjoint and complete, and without *)
(* a shuffle they keep the order of declaration.                           *)
(***************************************************************************)
EXTENDS Shards, OperatorProofs

-----------------------------------------------------------------------------
(* Lemmas about the helpers.                                                *)

\* Swapping two places of a sequence only moves elements (std::swap).
LEMMA SwappedType ==
    ASSUME NEW S, NEW s \in Seq(S), NEW i \in DOMAIN s, NEW j \in DOMAIN s
    PROVE  /\ Swapped(s, i, j) \in Seq(S)
           /\ Len(Swapped(s, i, j)) = Len(s)
           /\ DOMAIN Swapped(s, i, j) = DOMAIN s
  BY DEF Swapped

\* Where each element comes from: a place that only depends on i and j.
LEMMA SwappedAt ==
    ASSUME NEW S, NEW s \in Seq(S), NEW i \in DOMAIN s, NEW j \in DOMAIN s,
           NEW a \in DOMAIN s
    PROVE  Swapped(s, i, j)[a] = IF a = j THEN s[i] ELSE IF a = i THEN s[j] ELSE s[a]
  BY DEF Swapped

\* A natural number has exactly one remainder among the shard indices.
LEMMA RemainderIsAJob ==
    ASSUME NEW h \in Nat
    PROVE  h % ShardCount \in Jobs
  BY ShardsAssumption, SMT DEF Jobs

\* What a job takes does not depend on the state of the jobs.
LEMMA TakesIsFixed ==
    ASSUME UNCHANGED <<filter, hash>>, NEW k, NEW t
    PROVE  (Wanted(t)' <=> Wanted(t)) /\ (Takes(k, t)' <=> Takes(k, t))
  BY DEF Wanted, Takes

-----------------------------------------------------------------------------
(* The inductive invariant: what a job has kept is exactly what it takes of *)
(* the cases it has scanned, once each, in order until it shuffles.         *)

JobTypes ==
    /\ hash \in [Tests -> Nat]
    /\ stage \in [Jobs -> Stages]
    /\ scanned \in [Jobs -> 0 .. Len(Cases)]
    /\ out \in [Jobs -> Seq(Tests)]
    /\ left \in [Jobs -> Nat]

KeptIsTaken ==
    \A k \in Jobs : \A i \in DOMAIN out[k] :
        out[k][i] <= scanned[k] /\ Takes(k, out[k][i])
KeptOnce ==
    \A k \in Jobs : \A i, j \in DOMAIN out[k] : out[k][i] = out[k][j] => i = j
TakenIsKept ==
    \A k \in Jobs : \A t \in Tests :
        t <= scanned[k] /\ Takes(k, t) => \E i \in DOMAIN out[k] : out[k][i] = t
ShuffledOnDemand ==
    \A k \in Jobs : stage[k] = "shuffle" => filter.shuffle /\ left[k] <= Len(out[k])

SelectInv ==
    /\ JobTypes
    /\ KeptIsTaken
    /\ KeptOnce
    /\ TakenIsKept
    /\ ShuffledOnDemand
    /\ DeclarationOrder

LEMMA InitSelects == Init => SelectInv
  <1> SUFFICES ASSUME Init PROVE SelectInv
    OBVIOUS
  <1> USE DEF Init
  <1>1. JobTypes
    BY CasesAssumption, HashesAssumption DEF JobTypes, Tests, Stages
  <1>2. KeptIsTaken /\ KeptOnce /\ TakenIsKept
    BY DEF KeptIsTaken, KeptOnce, TakenIsKept, Tests
  <1>3. ShuffledOnDemand /\ DeclarationOrder
    BY DEF ShuffledOnDemand, DeclarationOrder
  <1> QED
    BY <1>1, <1>2, <1>3 DEF SelectInv

\* A case is considered: it joins the kept ones, or it is not taken.
LEMMA ConsiderSelects ==
    ASSUME SelectInv, NEW k \in Jobs, Consider(k)
    PROVE  SelectInv'
  <1> DEFINE t == scanned[k] + 1
  <1> USE DEF SelectInv
  <1>0. /\ t \in Tests /\ t \in 0 .. Len(Cases) /\ Tests \subseteq Nat
        /\ scanned[k] = t - 1
        /\ scanned' = [scanned EXCEPT ![k] = t]
        /\ out[k] \in Seq(Tests)
        /\ UNCHANGED <<filter, hash, stage, left>>
    <2>1. Len(Cases) \in Nat /\ scanned[k] \in 0 .. Len(Cases)
      BY CasesAssumption DEF JobTypes
    <2>2. /\ scanned[k] < Len(Cases) /\ scanned' = [scanned EXCEPT ![k] = t]
          /\ UNCHANGED <<filter, hash, stage, left>>
      BY DEF Consider
    <2> QED
      BY <2>1, <2>2 DEF JobTypes, Tests
  <1>1. \A l, u : Takes(l, u)' <=> Takes(l, u)
    BY <1>0, TakesIsFixed
  <1>a. scanned' \in [Jobs -> 0 .. Len(Cases)] /\ scanned'[k] = t
    BY <1>0 DEF JobTypes
  <1>b. \A l \in Jobs \ {k} : scanned'[l] = scanned[l]
    BY <1>0 DEF JobTypes
  <1> HIDE DEF t
  <1>2. CASE Takes(k, t)
    <2>1. out' = [out EXCEPT ![k] = Append(@, t)]
      BY <1>2 DEF Consider, t
    <2>2. out'[k] = Append(out[k], t) /\ \A l \in Jobs \ {k} : out'[l] = out[l]
      BY <2>1 DEF JobTypes
    <2>3. /\ Len(out'[k]) = Len(out[k]) + 1
          /\ DOMAIN out'[k] = 1 .. Len(out[k]) + 1
          /\ out'[k][Len(out[k]) + 1] = t
          /\ \A i \in 1 .. Len(out[k]) : out'[k][i] = out[k][i]
      BY <2>2, <1>0
    <2>4. \A i \in DOMAIN out[k] :
             i \in 1 .. Len(out[k]) /\ out[k][i] \in Nat /\ out[k][i] < t
      <3> SUFFICES ASSUME NEW i \in DOMAIN out[k]
                   PROVE  i \in 1 .. Len(out[k]) /\ out[k][i] \in Nat /\ out[k][i] < t
        OBVIOUS
      <3>1. i \in 1 .. Len(out[k]) /\ out[k][i] \in Tests
        BY <1>0
      <3>2. out[k][i] <= scanned[k]
        BY DEF KeptIsTaken
      <3>3. out[k][i] \in Nat /\ t \in Nat
        BY <3>1, <1>0
      <3> QED
        BY <3>1, <3>2, <3>3, <1>0
    <2>5. JobTypes'
      <3>1. Append(out[k], t) \in Seq(Tests)
        BY <1>0
      <3>2. out' \in [Jobs -> Seq(Tests)]
        BY <2>1, <3>1 DEF JobTypes
      <3> QED
        BY <1>0, <1>a, <3>2 DEF JobTypes
    <2>6. KeptIsTaken'
      <3> SUFFICES ASSUME NEW l \in Jobs, NEW i \in DOMAIN out'[l]
                   PROVE  out'[l][i] <= scanned'[l] /\ Takes(l, out'[l][i])
        BY <1>1 DEF KeptIsTaken
      <3>1. CASE l # k
        BY <3>1, <1>b, <2>2 DEF KeptIsTaken
      <3>2. CASE l = k /\ i = Len(out[k]) + 1
        BY <3>2, <1>0, <1>2, <1>a, <2>3
      <3>3. CASE l = k /\ i \in 1 .. Len(out[k])
        <4>1. i \in DOMAIN out[k] /\ out[k][i] \in Nat
          BY <3>3, <1>0, <2>4
        <4> QED
          BY <4>1, <3>3, <1>0, <1>a, <2>3, <2>4 DEF KeptIsTaken
      <3> QED
        BY <3>1, <3>2, <3>3, <2>3, <1>0
    <2>7. KeptOnce'
      <3> SUFFICES ASSUME NEW l \in Jobs, NEW i \in DOMAIN out'[l],
                          NEW j \in DOMAIN out'[l], out'[l][i] = out'[l][j]
                   PROVE  i = j
        BY DEF KeptOnce
      <3>1. CASE l # k
        BY <3>1, <2>2 DEF KeptOnce
      <3>2. CASE l = k
        <4>1. DOMAIN out[k] = 1 .. Len(out[k]) /\ Len(out[k]) \in Nat
          BY <1>0
        <4>2. \A a \in 1 .. Len(out[k]) : out'[k][a] # t
          <5> TAKE a \in 1 .. Len(out[k])
          <5>1. out'[k][a] = out[k][a] /\ out[k][a] \in Nat /\ out[k][a] < t
            BY <4>1, <2>3, <2>4
          <5> QED
            BY <5>1, <1>0
        <4>3. CASE i \in 1 .. Len(out[k]) /\ j \in 1 .. Len(out[k])
          BY <4>1, <4>3, <3>2, <2>3 DEF KeptOnce
        <4> QED
          BY <4>1, <4>2, <4>3, <3>2, <2>3
      <3> QED
        BY <3>1, <3>2
    <2>8. TakenIsKept'
      <3> SUFFICES ASSUME NEW l \in Jobs, NEW u \in Tests,
                          u <= scanned'[l], Takes(l, u)
                   PROVE  \E i \in DOMAIN out'[l] : out'[l][i] = u
        BY <1>1 DEF TakenIsKept
      <3>1. CASE l # k
        BY <3>1, <1>b, <2>2 DEF TakenIsKept
      <3>2. CASE l = k /\ u = t
        BY <3>2, <2>3, <1>0
      <3>3. CASE l = k /\ u # t
        <4>1. u <= scanned[k]
          BY <3>3, <1>0, <1>a
        <4>2. PICK i \in DOMAIN out[k] : out[k][i] = u
          BY <4>1, <3>3 DEF TakenIsKept
        <4> QED
          BY <4>2, <2>3, <2>4, <3>3
      <3> QED
        BY <3>1, <3>2, <3>3
    <2>9. ShuffledOnDemand'
      BY <1>0, <2>2 DEF ShuffledOnDemand, JobTypes, Consider
    <2>10. DeclarationOrder'
      <3> SUFFICES ASSUME ~filter.shuffle, NEW l \in Jobs,
                          NEW i \in DOMAIN out'[l], NEW j \in DOMAIN out'[l], i < j
                   PROVE  out'[l][i] < out'[l][j]
        BY <1>0 DEF DeclarationOrder
      <3>1. CASE l # k
        BY <3>1, <2>2 DEF DeclarationOrder
      <3>2. CASE l = k
        <4>1. DOMAIN out[k] = 1 .. Len(out[k]) /\ Len(out[k]) \in Nat
          BY <1>0
        <4>2. i \in 1 .. Len(out[k]) /\ (j \in 1 .. Len(out[k]) \/ j = Len(out[k]) + 1)
          BY <4>1, <3>2, <2>3
        <4> QED
          BY <4>1, <4>2, <3>2, <2>3, <2>4 DEF DeclarationOrder
      <3> QED
        BY <3>1, <3>2
    <2> QED
      BY <2>5, <2>6, <2>7, <2>8, <2>9, <2>10
  <1>3. CASE ~Takes(k, t)
    <2>1. out' = out
      BY <1>3 DEF Consider, t
    <2>2. JobTypes'
      BY <1>0, <1>a, <2>1 DEF JobTypes
    <2>3. \A l \in Jobs : scanned[l] <= scanned'[l]
      BY <1>0, <1>a, <1>b DEF JobTypes
    <2>4. KeptIsTaken'
      <3> SUFFICES ASSUME NEW l \in Jobs, NEW i \in DOMAIN out[l]
                   PROVE  out[l][i] <= scanned'[l] /\ Takes(l, out[l][i])
        BY <1>1, <2>1 DEF KeptIsTaken
      <3>1. out[l][i] \in Int /\ scanned[l] \in Int /\ scanned'[l] \in Int
        BY <2>2, SMTT(40) DEF JobTypes, Tests
      <3> QED
        BY <3>1, <2>3 DEF KeptIsTaken
    <2>5. TakenIsKept'
      <3> SUFFICES ASSUME NEW l \in Jobs, NEW u \in Tests,
                          u <= scanned'[l], Takes(l, u)
                   PROVE  \E i \in DOMAIN out[l] : out[l][i] = u
        BY <1>1, <2>1 DEF TakenIsKept
      <3>1. u <= scanned[l]
        BY <1>3, <1>0, <1>a, <1>b
      <3> QED
        BY <3>1 DEF TakenIsKept
    <2> QED
      BY <1>0, <2>1, <2>2, <2>4, <2>5
      DEF KeptOnce, ShuffledOnDemand, DeclarationOrder, Consider
  <1> QED
    BY <1>2, <1>3

\* A shuffling job only moves what it has kept.
LEMMA ShuffleSelects ==
    ASSUME SelectInv, NEW k \in Jobs, Shuffle(k)
    PROVE  SelectInv'
  <1> USE DEF SelectInv
  <1>1. PICK j \in 1 .. left[k] : out' = [out EXCEPT ![k] = Swapped(@, left[k], j)]
    BY DEF Shuffle
  <1> DEFINE s == out[k]
             i == left[k]
             swapped == Swapped(s, i, j)
  <1>0. /\ UNCHANGED <<filter, hash, stage, scanned>>
        /\ left' = [left EXCEPT ![k] = @ - 1]
        /\ i \in Nat /\ i > 1 /\ filter.shuffle
    BY DEF Shuffle, ShuffledOnDemand, JobTypes
  <1>2. s \in Seq(Tests) /\ i \in DOMAIN s /\ j \in DOMAIN s
    <2>1. s \in Seq(Tests) /\ i <= Len(s)
      BY DEF Shuffle, ShuffledOnDemand, JobTypes
    <2> QED
      BY <2>1, <1>0
  <1>3. /\ swapped \in Seq(Tests) /\ Len(swapped) = Len(s)
        /\ DOMAIN swapped = DOMAIN s
    <2> HIDE DEF s, i
    <2> QED
      BY <1>2, SwappedType
  <1>4. \A a \in DOMAIN s :
            swapped[a] = IF a = j THEN s[i] ELSE IF a = i THEN s[j] ELSE s[a]
    <2> HIDE DEF s, i
    <2> QED
      BY <1>2, SwappedAt
  <1>5. out'[k] = swapped /\ \A l \in Jobs \ {k} : out'[l] = out[l]
    BY <1>1 DEF JobTypes
  <1>6. \A l, u : Takes(l, u)' <=> Takes(l, u)
    BY <1>0, TakesIsFixed
  <1> HIDE DEF swapped
  <1>7. JobTypes'
    BY <1>0, <1>1, <1>3 DEF JobTypes, swapped
  <1>8. KeptIsTaken'
    <2> SUFFICES ASSUME NEW l \in Jobs, NEW a \in DOMAIN out'[l]
                 PROVE  out'[l][a] <= scanned[l] /\ Takes(l, out'[l][a])
      BY <1>0, <1>6 DEF KeptIsTaken
    <2>1. CASE l # k
      BY <2>1, <1>5 DEF KeptIsTaken
    <2>2. CASE l = k
      <3>1. PICK b \in DOMAIN s : swapped[a] = s[b]
        BY <2>2, <1>2, <1>3, <1>4, <1>5
      <3> QED
        BY <3>1, <2>2, <1>5 DEF KeptIsTaken
    <2> QED
      BY <2>1, <2>2
  <1>9. KeptOnce'
    BY <1>2, <1>3, <1>4, <1>5 DEF KeptOnce
  <1>10. TakenIsKept'
    <2> SUFFICES ASSUME NEW l \in Jobs, NEW u \in Tests,
                        u <= scanned[l], Takes(l, u)
                 PROVE  \E a \in DOMAIN out'[l] : out'[l][a] = u
      BY <1>0, <1>6 DEF TakenIsKept
    <2>1. PICK b \in DOMAIN out[l] : out[l][b] = u
      BY DEF TakenIsKept
    <2>2. CASE l # k
      BY <2>1, <2>2, <1>5
    <2>3. CASE l = k
      <3> DEFINE a == IF b = i THEN j ELSE IF b = j THEN i ELSE b
      <3>1. a \in DOMAIN s /\ swapped[a] = u
        BY <2>1, <2>3, <1>2, <1>4
      <3> QED
        BY <3>1, <2>3, <1>3, <1>5
    <2> QED
      BY <2>2, <2>3
  <1>11. ShuffledOnDemand'
    <2> SUFFICES ASSUME NEW l \in Jobs, stage[l] = "shuffle"
                 PROVE  filter.shuffle /\ left'[l] <= Len(out'[l])
      BY <1>0 DEF ShuffledOnDemand
    <2>1. CASE l # k
      BY <2>1, <1>0, <1>5 DEF ShuffledOnDemand, JobTypes
    <2>2. CASE l = k
      <3>1. left'[k] = i - 1 /\ i <= Len(s) /\ Len(s) \in Nat
        BY <1>0, <1>2 DEF JobTypes
      <3> QED
        BY <2>2, <3>1, <1>0, <1>3, <1>5
    <2> QED
      BY <2>1, <2>2
  <1>12. DeclarationOrder'
    BY <1>0 DEF DeclarationOrder
  <1> QED
    BY <1>7, <1>8, <1>9, <1>10, <1>11, <1>12

\* The other steps leave the selections alone.
LEMMA OthersSelect ==
    ASSUME SelectInv, UNCHANGED <<filter, hash, scanned, out>>,
           stage' \in [Jobs -> Stages], left' \in [Jobs -> Nat],
           ShuffledOnDemand'
    PROVE  SelectInv'
  <1>1. \A l, u : Takes(l, u)' <=> Takes(l, u)
    BY TakesIsFixed
  <1>2. JobTypes' /\ KeptOnce' /\ DeclarationOrder'
    BY DEF SelectInv, JobTypes, KeptOnce, DeclarationOrder
  <1>3. KeptIsTaken' /\ TakenIsKept'
    BY <1>1 DEF SelectInv, KeptIsTaken, TakenIsKept
  <1> QED
    BY <1>2, <1>3 DEF SelectInv

LEMMA NextSelects == SelectInv /\ [Next]_vars => SelectInv'
  <1> SUFFICES ASSUME SelectInv, [Next]_vars PROVE SelectInv'
    OBVIOUS
  <1>0. JobTypes /\ ShuffledOnDemand
    BY DEF SelectInv
  <1>1. ASSUME NEW k \in Jobs, Consider(k) PROVE SelectInv'
    BY <1>1, ConsiderSelects
  <1>2. ASSUME NEW k \in Jobs, Shuffle(k) PROVE SelectInv'
    BY <1>2, ShuffleSelects
  <1>3. ASSUME NEW k \in Jobs, EndOfCases(k) PROVE SelectInv'
    <2>1. /\ UNCHANGED <<filter, hash, scanned, out>>
          /\ stage' \in [Jobs -> Stages] /\ left' \in [Jobs -> Nat]
      BY <1>3, <1>0 DEF EndOfCases, JobTypes, Stages
    <2>2. ShuffledOnDemand'
      BY <1>3, <1>0 DEF EndOfCases, ShuffledOnDemand, JobTypes
    <2> QED
      BY <2>1, <2>2, OthersSelect
  <1>4. ASSUME NEW k \in Jobs, EndOfShuffle(k) \/ Run(k) \/ Lose(k) PROVE SelectInv'
    <2>1. /\ UNCHANGED <<filter, hash, scanned, out, left>>
          /\ stage' \in [Jobs -> Stages]
          /\ \A l \in Jobs : stage'[l] = "shuffle" => stage[l] = "shuffle"
      BY <1>4, <1>0 DEF EndOfShuffle, Run, Lose, JobTypes, Stages
    <2>2. ShuffledOnDemand' /\ left' \in [Jobs -> Nat]
      BY <2>1, <1>0 DEF ShuffledOnDemand, JobTypes
    <2> QED
      BY <2>1, <2>2, OthersSelect
  <1>5. ASSUME CmdReport \/ Reported \/ UNCHANGED vars PROVE SelectInv'
    <2>1. UNCHANGED <<filter, hash, stage, scanned, out, left>>
      BY <1>5 DEF CmdReport, Reported, vars, job
    <2>2. ShuffledOnDemand' /\ stage' \in [Jobs -> Stages] /\ left' \in [Jobs -> Nat]
      BY <2>1, <1>0 DEF ShuffledOnDemand, JobTypes
    <2> QED
      BY <2>1, <2>2, OthersSelect
  <1> QED
    BY <1>1, <1>2, <1>3, <1>4, <1>5 DEF Next

-----------------------------------------------------------------------------
\* The invariant gives disjoint and complete shards: a test belongs to the job
\* its hash points at, and that job has scanned it.
LEMMA SelectInvPartitions == SelectInv => ShardsPartition
  <1> SUFFICES ASSUME SelectInv PROVE ShardsPartition
    OBVIOUS
  <1> USE DEF SelectInv
  <1>1. ASSUME NEW k \in Jobs, NEW l \in Jobs, NEW i \in DOMAIN out[k],
               NEW j \in DOMAIN out[l], out[k][i] = out[l][j]
        PROVE  k = l /\ i = j
    <2>1. Takes(k, out[k][i]) /\ Takes(l, out[k][i])
      BY <1>1 DEF KeptIsTaken
    <2>2. k = l
      BY <2>1, ShardsAssumption DEF Takes, InShard, Jobs
    <2> QED
      BY <2>2, <1>1 DEF KeptOnce
  <1>2. \A k \in Jobs : \A i \in DOMAIN out[k] : Wanted(out[k][i])
    BY DEF KeptIsTaken, Takes
  <1>3. ASSUME \A k \in Jobs : Selected(k), NEW t \in Tests, Wanted(t)
        PROVE  \E k \in Jobs : \E i \in DOMAIN out[k] : out[k][i] = t
    <2> DEFINE k == hash[t] % ShardCount
    <2>1. k \in Jobs
      BY RemainderIsAJob DEF JobTypes
    <2>2. Takes(k, t) /\ t <= scanned[k]
      BY <2>1, <1>3, CasesAssumption DEF Takes, InShard, Selected, Tests
    <2> HIDE DEF k
    <2> QED
      BY <2>1, <2>2 DEF TakenIsKept
  <1> QED
    BY <1>1, <1>2, <1>3 DEF ShardsPartition

\* Whatever the tests, the hash and the number of jobs, no test runs in two
\* shards or twice in one, none outside the filter runs, and none of the
\* filter is left out.
THEOREM ShardsAreDisjointAndComplete == Spec => []ShardsPartition
  <1>1. Spec => []SelectInv
    BY InitSelects, NextSelects, PTL DEF Spec
  <1> QED
    BY <1>1, SelectInvPartitions, PTL

\* A job that does not shuffle keeps the order of declaration.
THEOREM OrderOfDeclaration == Spec => []DeclarationOrder
  <1>1. Spec => []SelectInv
    BY InitSelects, NextSelects, PTL DEF Spec
  <1>2. SelectInv => DeclarationOrder
    BY DEF SelectInv
  <1> QED
    BY <1>1, <1>2, PTL

\* Every variable keeps its type: the jobs' from the selection's invariant, the
\* others from the steps.
THEOREM TypesOfShards == Spec => []TypeOK
  <1> DEFINE Rest == filter \in Filters /\ hash \in Hashes /\ code \in {NoCode, 0, 1, 2}
  <1>1. Init => Rest
    BY DEF Init
  <1>2. Rest /\ [Next]_vars => Rest'
    BY DEF Next, Consider, EndOfCases, Shuffle, EndOfShuffle, Run, Lose, CmdReport,
           ReportExit, Reported, vars
  <1>3. SelectInv /\ Rest => TypeOK
    BY DEF SelectInv, JobTypes, TypeOK
  <1> QED
    BY <1>1, <1>2, <1>3, InitSelects, NextSelects, PTL DEF Spec

-----------------------------------------------------------------------------
(* The report: a document holds the verdicts of exactly the tests its job   *)
(* selected, and what was merged is what the documents say.                 *)

\* A row of a document, and the documents in the order of their names.
Row == [test : Tests, status : Statuses, suite : Seq(STRING)]
Documents == [i \in 1 .. ShardCount |-> document[i - 1]]

\* A job that has left the scan has considered every case.
ScannedBeforeDone ==
    \A k \in Jobs : stage[k] \in {"shuffle", "run", "done"} => Selected(k)
\* A document is there when its job is done: one row per test it selected.
DocumentsFollow ==
    /\ document \in [Jobs -> Seq(Row)]
    /\ \A k \in Jobs :
          IF stage[k] = "done"
          THEN /\ DOMAIN document[k] = DOMAIN out[k]
               /\ \A i \in DOMAIN out[k] : document[k][i].test = out[k][i]
          ELSE document[k] = <<>>
\* Merged is nothing before `report' runs, and all documents after it.
MergedFollows ==
    IF code = NoCode
    THEN merged = MergeDocuments(<<>>)
    ELSE /\ Ended
         /\ IF Written = {}
            THEN code = 2 /\ merged = MergeDocuments(<<>>)
            ELSE merged = MergeDocuments(Documents) /\ code = ReportExit(merged.totals)

ReportInv == ScannedBeforeDone /\ DocumentsFollow /\ MergedFollows

\* Nothing is written or merged before the jobs start.
LEMMA InitReports == Init => ReportInv
  <1> SUFFICES ASSUME Init PROVE ReportInv
    OBVIOUS
  <1> USE DEF Init
  <1>1. ScannedBeforeDone
    BY DEF ScannedBeforeDone
  <1>2. DocumentsFollow
    BY DEF DocumentsFollow
  <1>3. MergedFollows
    BY DEF MergedFollows
  <1> QED
    BY <1>1, <1>2, <1>3 DEF ReportInv

\* A job that has not written its document yet goes on; no document changes.
LEMMA JobStepReports ==
    ASSUME JobTypes, ReportInv, UNCHANGED <<filter, hash, document, merged, code>>,
           NEW k \in Jobs, stage[k] \notin {"done", "dead"},
           NEW s \in Stages \ {"done"}, stage' = [stage EXCEPT ![k] = s],
           \A l \in Jobs : l # k => out'[l] = out[l] /\ scanned'[l] = scanned[l],
           s \in {"shuffle", "run"} => scanned'[k] = Len(Cases)
    PROVE  ReportInv'
  <1> USE DEF ReportInv
  <1>1. stage'[k] = s /\ \A l \in Jobs : l # k => stage'[l] = stage[l]
    BY DEF JobTypes
  <1>2. ScannedBeforeDone'
    BY <1>1 DEF ScannedBeforeDone, Selected
  <1>3. DocumentsFollow'
    BY <1>1 DEF DocumentsFollow, Row
  <1>4. MergedFollows'
    BY DEF MergedFollows, Ended
  <1> QED
    BY <1>2, <1>3, <1>4

\* A job runs what it selected and writes one row for each test.
LEMMA RunReports ==
    ASSUME SelectInv, ReportInv, NEW k \in Jobs, Run(k)
    PROVE  ReportInv'
  <1> USE DEF ReportInv
  <1>1. PICK v \in [DOMAIN out[k] -> JobVerdicts] :
            document' = [document EXCEPT ![k] =
              [i \in DOMAIN out[k] |-> [test |-> out[k][i], status |-> v[i],
                                        suite |-> Cases[out[k][i]].suite]]]
    BY DEF Run
  <1> DEFINE doc == [i \in DOMAIN out[k] |-> [test |-> out[k][i], status |-> v[i],
                                              suite |-> Cases[out[k][i]].suite]]
  <1>2. /\ stage[k] = "run" /\ stage' = [stage EXCEPT ![k] = "done"]
        /\ UNCHANGED <<filter, hash, scanned, out, left, merged, code>>
    BY DEF Run
  <1>3. out[k] \in Seq(Tests) /\ stage \in [Jobs -> Stages]
    BY DEF SelectInv, JobTypes
  <1>4. \A i \in DOMAIN out[k] : doc[i] \in Row /\ doc[i].test = out[k][i]
    <2> TAKE i \in DOMAIN out[k]
    <2>1. out[k][i] \in Tests
      BY <1>3
    <2>2. v[i] \in Statuses
      BY VerdictsAssumption
    <2>3. Cases[out[k][i]].suite \in Seq(STRING)
      <3> DEFINE Case == [suite : Seq(STRING), name : Seq(STRING), tags : SUBSET STRING]
      <3>1. Cases \in Seq(Case)
        BY CasesAssumption
      <3> HIDE DEF Case
      <3>2. Cases[out[k][i]] \in Case
        BY <2>1, <3>1 DEF Tests
      <3> QED
        BY <3>2 DEF Case
    <2>4. doc[i] = [test |-> out[k][i], status |-> v[i], suite |-> Cases[out[k][i]].suite]
      OBVIOUS
    <2> QED
      BY <2>1, <2>2, <2>3, <2>4 DEF Row
  <1>5. doc \in Seq(Row) /\ DOMAIN doc = DOMAIN out[k]
    <2>1. DOMAIN out[k] = 1 .. Len(out[k]) /\ Len(out[k]) \in Nat
      BY <1>3
    <2>2. DOMAIN doc = DOMAIN out[k] /\ doc = [i \in 1 .. Len(out[k]) |-> doc[i]]
      BY <2>1
    <2> HIDE DEF doc
    <2>3. doc \in [1 .. Len(out[k]) -> Row]
      BY <1>4, <2>1, <2>2
    <2> QED
      BY <2>1, <2>2, <2>3
  <1>6. document' = [document EXCEPT ![k] = doc]
    BY <1>1
  <1> HIDE DEF doc
  <1>7. /\ document' \in [Jobs -> Seq(Row)] /\ document'[k] = doc
        /\ \A l \in Jobs : l # k => document'[l] = document[l]
    BY <1>5, <1>6 DEF DocumentsFollow
  <1>8. stage'[k] = "done" /\ \A l \in Jobs : l # k => stage'[l] = stage[l]
    BY <1>2, <1>3
  <1>9. ScannedBeforeDone'
    BY <1>2, <1>8 DEF ScannedBeforeDone, Selected
  <1>10. DocumentsFollow'
    <2> SUFFICES ASSUME NEW l \in Jobs
                 PROVE  IF stage'[l] = "done"
                        THEN /\ DOMAIN document'[l] = DOMAIN out[l]
                             /\ \A i \in DOMAIN out[l] : document'[l][i].test = out[l][i]
                        ELSE document'[l] = <<>>
      BY <1>2, <1>7 DEF DocumentsFollow, Row
    <2> QED
      BY <1>4, <1>5, <1>7, <1>8 DEF DocumentsFollow
  <1>11. MergedFollows'
    BY <1>2 DEF MergedFollows, Ended
  <1> QED
    BY <1>9, <1>10, <1>11

\* Every step keeps the report's invariant.
LEMMA NextReports == SelectInv /\ ReportInv /\ [Next]_vars => ReportInv'
  <1> SUFFICES ASSUME SelectInv, ReportInv, [Next]_vars PROVE ReportInv'
    OBVIOUS
  <1>0. JobTypes
    BY DEF SelectInv
  <1>1. ASSUME NEW k \in Jobs, Consider(k) PROVE ReportInv'
    <2>1. stage' = [stage EXCEPT ![k] = "scan"]
      BY <1>0, <1>1 DEF Consider, JobTypes
    <2> QED
      BY <1>0, <1>1, <2>1, JobStepReports DEF Consider, JobTypes, Stages
  <1>2. ASSUME NEW k \in Jobs, EndOfCases(k) PROVE ReportInv'
    BY <1>0, <1>2, JobStepReports DEF EndOfCases, Stages
  <1>3. ASSUME NEW k \in Jobs, Shuffle(k) PROVE ReportInv'
    <2>1. stage' = [stage EXCEPT ![k] = "shuffle"]
      BY <1>0, <1>3 DEF Shuffle, JobTypes
    <2>2. scanned[k] = Len(Cases)
      BY <1>3 DEF Shuffle, ReportInv, ScannedBeforeDone, Selected
    <2> QED
      BY <1>0, <1>3, <2>1, <2>2, JobStepReports DEF Shuffle, JobTypes, Stages
  <1>4. ASSUME NEW k \in Jobs, EndOfShuffle(k) PROVE ReportInv'
    <2>1. scanned[k] = Len(Cases)
      BY <1>4 DEF EndOfShuffle, ReportInv, ScannedBeforeDone, Selected
    <2> QED
      BY <1>0, <1>4, <2>1, JobStepReports DEF EndOfShuffle, Stages
  <1>5. ASSUME NEW k \in Jobs, Run(k) PROVE ReportInv'
    BY <1>5, RunReports
  <1>6. ASSUME NEW k \in Jobs, Lose(k) PROVE ReportInv'
    BY <1>0, <1>6, JobStepReports DEF Lose, Stages
  <1>7. ASSUME CmdReport PROVE ReportInv'
    <2>1. UNCHANGED <<filter, hash, stage, scanned, out, left, document>>
      BY <1>7 DEF CmdReport, job
    <2>2. ScannedBeforeDone' /\ DocumentsFollow'
      BY <2>1 DEF ReportInv, ScannedBeforeDone, Selected, DocumentsFollow, Row
    <2>3. MergedFollows'
      <3>1. MergedFollows /\ code = NoCode /\ Ended
        BY <1>7 DEF CmdReport, ReportInv
      <3>2. Ended' /\ Written' = Written /\ Documents' = Documents
        BY <2>1, <3>1 DEF Ended, Written, Documents
      <3>3. CASE Written = {}
        BY <1>7, <3>1, <3>2, <3>3 DEF CmdReport, MergedFollows, NoCode
      <3>4. CASE Written # {}
        <4>1. merged' = MergeDocuments(Documents) /\ code' = ReportExit(merged'.totals)
          BY <1>7, <3>4 DEF CmdReport, Documents
        <4> QED
          BY <3>2, <3>4, <4>1 DEF MergedFollows, ReportExit, NoCode
      <3> QED
        BY <3>3, <3>4
    <2> QED
      BY <2>2, <2>3 DEF ReportInv
  <1>8. ASSUME Reported \/ UNCHANGED vars PROVE ReportInv'
    BY <1>8 DEF Reported, vars, job, ReportInv, ScannedBeforeDone, Selected,
                DocumentsFollow, Row, MergedFollows, Ended, Written, Documents
  <1> QED
    BY <1>1, <1>2, <1>3, <1>4, <1>5, <1>6, <1>7, <1>8 DEF Next

\* What is in the documents: every row for its own test, and together, when no
\* job is lost, one row for each test the filter wants.
LEMMA DocumentsPartition ==
    ASSUME SelectInv, ReportInv
    PROVE  /\ Documents \in Seq(Seq(Row)) /\ Len(Documents) = ShardCount
           /\ \A k, l \in Jobs : \A i \in DOMAIN document[k], j \in DOMAIN document[l] :
                 document[k][i].test = document[l][j].test => k = l /\ i = j
           /\ \A k \in Jobs : \A i \in DOMAIN document[k] : Wanted(document[k][i].test)
           /\ Written = Jobs => \A t \in Tests : Wanted(t) =>
                 \E k \in Jobs : \E i \in DOMAIN document[k] : document[k][i].test = t
  <1>0. ShardsPartition /\ DocumentsFollow /\ ScannedBeforeDone
    BY SelectInvPartitions DEF ReportInv
  <1>1. Documents \in Seq(Seq(Row)) /\ Len(Documents) = ShardCount
    <2>1. \A i \in 1 .. ShardCount : i - 1 \in Jobs
      BY ShardsAssumption DEF Jobs
    <2>2. Documents \in [1 .. ShardCount -> Seq(Row)]
      BY <1>0, <2>1 DEF Documents, DocumentsFollow
    <2> QED
      BY <2>2, ShardsAssumption
  <1>2. \A k \in Jobs : \A i \in DOMAIN document[k] :
            stage[k] = "done" /\ i \in DOMAIN out[k] /\ document[k][i].test = out[k][i]
    BY <1>0 DEF DocumentsFollow
  <1>3. \A k, l \in Jobs : \A i \in DOMAIN document[k], j \in DOMAIN document[l] :
            document[k][i].test = document[l][j].test => k = l /\ i = j
    BY <1>0, <1>2 DEF ShardsPartition
  <1>4. \A k \in Jobs : \A i \in DOMAIN document[k] : Wanted(document[k][i].test)
    BY <1>0, <1>2 DEF ShardsPartition
  <1>5. ASSUME Written = Jobs, NEW t \in Tests, Wanted(t)
        PROVE  \E k \in Jobs : \E i \in DOMAIN document[k] : document[k][i].test = t
    <2>1. \A k \in Jobs : stage[k] = "done" /\ Selected(k)
      BY <1>0, <1>5 DEF Written, ScannedBeforeDone
    <2>2. PICK k \in Jobs : \E i \in DOMAIN out[k] : out[k][i] = t
      BY <1>0, <1>5, <2>1 DEF ShardsPartition
    <2> QED
      BY <1>0, <2>1, <2>2 DEF DocumentsFollow
  <1> QED
    BY <1>1, <1>3, <1>4, <1>5

\* The rows of the merged document: those of all documents, no test twice.
LEMMA MergedRows ==
    ASSUME SelectInv, ReportInv, NEW rows, rows = FlattenSeq(Documents)
    PROVE  /\ rows \in Seq(Row)
           /\ \A r : (\E a \in DOMAIN rows : rows[a] = r) <=>
                     (\E k \in Jobs : \E i \in DOMAIN document[k] : document[k][i] = r)
           /\ \A a, b \in DOMAIN rows : rows[a].test = rows[b].test => a = b
  <1> DEFINE n == ShardCount
  <1>0. n \in Nat /\ n # 0
    BY ShardsAssumption
  <1>1. Documents \in Seq(Seq(Row)) /\ Len(Documents) = n
    BY DocumentsPartition
  <1>2. /\ \A k \in 1 .. n : k - 1 \in Jobs /\ Documents[k] = document[k - 1]
        /\ \A k \in Jobs : k + 1 \in 1 .. n /\ Documents[k + 1] = document[k]
    BY <1>0 DEF Documents, Jobs
  <1>3. \A k, l \in Jobs : \A i \in DOMAIN document[k], j \in DOMAIN document[l] :
            document[k][i].test = document[l][j].test => k = l /\ i = j
    BY DocumentsPartition
  <1>4. \A k \in 1 .. n : IsInjective(Documents[k])
    BY <1>2, <1>3 DEF IsInjective
  <1>5. ASSUME NEW k \in 1 .. n, NEW l \in 1 .. n, k # l
        PROVE  ToSet(Documents[k]) \cap ToSet(Documents[l]) = {}
    <2>1. k - 1 # l - 1
      BY <1>5
    <2> QED
      BY <1>2, <1>3, <2>1 DEF ToSet
  <1>6. /\ rows \in Seq(Row) /\ IsInjective(rows)
        /\ ToSet(rows) = UNION {ToSet(Documents[k]) : k \in 1 .. n}
    BY <1>0, <1>1, <1>4, <1>5, FlattenItems
  <1>7. ASSUME NEW r
        PROVE  (\E a \in DOMAIN rows : rows[a] = r) <=>
                   (\E k \in Jobs : \E i \in DOMAIN document[k] : document[k][i] = r)
    <2>1. (\E a \in DOMAIN rows : rows[a] = r) <=> r \in ToSet(rows)
      BY DEF ToSet
    <2>2. r \in ToSet(rows) <=> \E k \in 1 .. n : r \in ToSet(Documents[k])
      BY <1>6
    <2>3. (\E k \in 1 .. n : r \in ToSet(Documents[k])) <=>
              (\E k \in Jobs : r \in ToSet(document[k]))
      BY <1>2
    <2>4. \A k \in Jobs : r \in ToSet(document[k]) <=>
              \E i \in DOMAIN document[k] : document[k][i] = r
      BY DEF ToSet
    <2> QED
      BY <2>1, <2>2, <2>3, <2>4
  <1>8. \A a, b \in DOMAIN rows : rows[a].test = rows[b].test => a = b
    <2> SUFFICES ASSUME NEW a \in DOMAIN rows, NEW b \in DOMAIN rows,
                        rows[a].test = rows[b].test
                 PROVE  a = b
      OBVIOUS
    <2>1. PICK k \in Jobs : \E i \in DOMAIN document[k] : document[k][i] = rows[a]
      BY <1>7
    <2>2. PICK l \in Jobs : \E i \in DOMAIN document[l] : document[l][i] = rows[b]
      BY <1>7
    <2>3. rows[a] = rows[b]
      BY <2>1, <2>2, <1>3
    <2> QED
      BY <2>3, <1>6 DEF IsInjective
  <1> QED
    BY <1>6, <1>7, <1>8

\* What the two invariants say of the exit code of `report'.
LEMMA InvGates == SelectInv /\ ReportInv => MergeGatesThePipeline
  <1> SUFFICES ASSUME SelectInv, ReportInv, code \in {0, 1} PROVE MergeGatesThePipeline
    BY DEF MergeGatesThePipeline
  <1> DEFINE rows == FlattenSeq(Documents)
             wanted == {u \in Tests : Wanted(u)}
             results == merged.results
             t == merged.totals
  <1>1. /\ merged = MergeDocuments(Documents) /\ code = ReportExit(merged.totals)
    BY DEF ReportInv, MergedFollows, NoCode
  <1>2. /\ results = rows
        /\ t = [pass |-> Rows(rows, {"pass"}), fail |-> Rows(rows, {"fail", "crashed"}),
                skip |-> Rows(rows, {"skipped"}), crashed |-> Rows(rows, {"crashed"})]
    BY <1>1 DEF MergeDocuments, ComputeTotals
  <1>3. /\ rows \in Seq(Row)
        /\ \A r : (\E a \in DOMAIN rows : rows[a] = r) <=>
                  (\E k \in Jobs : \E i \in DOMAIN document[k] : document[k][i] = r)
        /\ \A a, b \in DOMAIN rows : rows[a].test = rows[b].test => a = b
    BY MergedRows
  <1>4. \A r \in Row : r.status \in Statuses /\ r.test \in Tests
    BY DEF Row
  <1> HIDE DEF rows
  <1>5. /\ \A statuses : Rows(rows, statuses) \in Nat
        /\ \A statuses : Rows(rows, statuses) > 0 <=>
              \E i \in DOMAIN rows : rows[i].status \in statuses
        /\ Rows(rows, {"pass"}) + Rows(rows, {"fail", "crashed"})
             + Rows(rows, {"skipped"}) = Len(rows)
    BY <1>3, <1>4, RowsAddUp
  <1>6. t.pass + t.fail + t.skip = Len(results)
    BY <1>2, <1>5
  <1>7. code = 1 <=> \E k \in Jobs : \E i \in DOMAIN document[k] :
                         document[k][i].status \in {"fail", "crashed"}
    <2>1. code = 1 <=> t.fail > 0 \/ t.crashed > 0
      BY <1>1 DEF ReportExit
    <2>2. t.fail > 0 \/ t.crashed > 0 <=>
              \E i \in DOMAIN rows : rows[i].status \in {"fail", "crashed"}
      BY <1>2, <1>5
    <2>3. (\E i \in DOMAIN rows : rows[i].status \in {"fail", "crashed"}) <=>
              \E k \in Jobs : \E i \in DOMAIN document[k] :
                  document[k][i].status \in {"fail", "crashed"}
      <3>1. ASSUME NEW a \in DOMAIN rows, rows[a].status \in {"fail", "crashed"}
            PROVE  \E k \in Jobs : \E i \in DOMAIN document[k] :
                       document[k][i].status \in {"fail", "crashed"}
        <4>1. PICK k \in Jobs : \E i \in DOMAIN document[k] : document[k][i] = rows[a]
          BY <1>3
        <4> QED
          BY <3>1, <4>1
      <3>2. ASSUME NEW k \in Jobs, NEW i \in DOMAIN document[k],
                   document[k][i].status \in {"fail", "crashed"}
            PROVE  \E a \in DOMAIN rows : rows[a].status \in {"fail", "crashed"}
        <4>1. PICK a \in DOMAIN rows : rows[a] = document[k][i]
          BY <1>3
        <4> QED
          BY <3>2, <4>1
      <3> QED
        BY <3>1, <3>2
    <2> QED
      BY <2>1, <2>2, <2>3
  <1>8. ASSUME Written = Jobs
        PROVE  /\ {rows[i].test : i \in DOMAIN rows} = wanted
               /\ Len(rows) = Cardinality(wanted)
    <2>1. \A i \in DOMAIN rows : rows[i].test \in wanted
      <3> SUFFICES ASSUME NEW a \in DOMAIN rows PROVE rows[a].test \in wanted
        OBVIOUS
      <3>1. rows[a] \in Row
        BY <1>3
      <3>2. PICK k \in Jobs : \E i \in DOMAIN document[k] : document[k][i] = rows[a]
        BY <1>3
      <3>3. Wanted(rows[a].test)
        BY <3>2, DocumentsPartition
      <3> QED
        BY <1>4, <3>1, <3>3
    <2>2. \A u \in wanted : \E i \in DOMAIN rows : rows[i].test = u
      <3> SUFFICES ASSUME NEW u \in wanted PROVE \E i \in DOMAIN rows : rows[i].test = u
        OBVIOUS
      <3>1. PICK k \in Jobs : \E i \in DOMAIN document[k] : document[k][i].test = u
        BY <1>8, DocumentsPartition
      <3>2. PICK i \in DOMAIN document[k] : document[k][i].test = u
        BY <3>1
      <3> QED
        BY <1>3, <3>2
    <2> DEFINE f == [i \in 1 .. Len(rows) |-> rows[i].test]
    <2>3. DOMAIN rows = 1 .. Len(rows) /\ Len(rows) \in Nat
      BY <1>3
    <2> HIDE DEF wanted
    <2>4. f \in Bijection(1 .. Len(rows), wanted)
      <3>1. f \in [1 .. Len(rows) -> wanted]
        BY <2>1, <2>3
      <3>2. f \in Injection(1 .. Len(rows), wanted)
        BY <1>3, <2>3, <3>1 DEF Injection, IsInjective
      <3>3. f \in Surjection(1 .. Len(rows), wanted)
        BY <2>2, <2>3, <3>1 DEF Surjection
      <3> QED
        BY <3>2, <3>3 DEF Bijection
    <2>5. Cardinality(wanted) = Len(rows)
      BY <2>3, <2>4, FS_CountingElements DEF ExistsBijection
    <2> QED
      BY <2>1, <2>2, <2>5
  <1> QED
    BY <1>2, <1>6, <1>7, <1>8 DEF MergeGatesThePipeline

\* The merged document has one result for each test the filter wants, unless a
\* document is missing, and the exit code of `report' is 1 exactly when some job
\* wrote a failure, whatever jobs were lost and whatever the shuffles did.
THEOREM ReportGatesThePipeline == Spec => []MergeGatesThePipeline
  <1>1. Spec => []SelectInv
    BY InitSelects, NextSelects, PTL DEF Spec
  <1>2. Spec => []ReportInv
    BY <1>1, InitReports, NextReports, PTL DEF Spec
  <1> QED
    BY <1>1, <1>2, InvGates, PTL

\* A merged document is a sequence of rows with their totals, or nothing.
LEMMA MergedIsTyped ==
    ASSUME SelectInv, ReportInv
    PROVE  /\ merged.results \in Seq(Row)
           /\ merged.totals = ComputeTotals(merged.results)
  <1>1. MergedFollows
    BY DEF ReportInv
  <1>2. \A documents :
            /\ MergeDocuments(documents).results = FlattenSeq(documents)
            /\ MergeDocuments(documents).totals
                   = ComputeTotals(MergeDocuments(documents).results)
    BY DEF MergeDocuments
  <1>3. FlattenSeq(Documents) \in Seq(Row)
    BY MergedRows
  <1>4. FlattenSeq(<<>>) \in Seq(Row)
    BY DEF FlattenSeq
  <1> QED
    BY <1>1, <1>2, <1>3, <1>4 DEF MergedFollows

\* The suites of the JUnit form add up to its root and to the totals of the
\* merged document, however the jobs split a suite and in whatever order.
THEOREM JUnitFormAddsUp == Spec => []JUnitAddsUp
  <1>1. Spec => []SelectInv
    BY InitSelects, NextSelects, PTL DEF Spec
  <1>2. Spec => []ReportInv
    BY <1>1, InitReports, NextReports, PTL DEF Spec
  <1>3. ASSUME SelectInv, ReportInv PROVE JUnitAddsUp
    <2> DEFINE results == merged.results
               t == merged.totals
               junit == JUnit(results)
               Sum(field) == SumOver(junit.suites, field, DOMAIN junit.suites)
    <2>1. results \in Seq(Row) /\ t = ComputeTotals(results)
      BY <1>3, MergedIsTyped
    <2>2. /\ Sum("tests") = junit.root.tests
          /\ Sum("failures") = Rows(results, {"fail", "crashed"})
          /\ Sum("skipped") = Rows(results, {"skipped"})
      BY <2>1, JUnitSums
    <2>3. /\ t.fail = Rows(results, {"fail", "crashed"})
          /\ t.skip = Rows(results, {"skipped"})
      BY <2>1 DEF ComputeTotals
    <2> HIDE DEF junit
    <2>4. \A field : Sum(field) =
              MapThenFoldSet(+, 0, LAMBDA s : junit.suites[s][field],
                             LAMBDA S : CHOOSE s \in S : TRUE, DOMAIN junit.suites)
      BY Zenon DEF MapThenFoldSet, SumOver
    <2> QED
      BY <2>2, <2>3, <2>4, Zenon DEF JUnitAddsUp, junit
  <1> QED
    BY <1>1, <1>2, <1>3, PTL

-----------------------------------------------------------------------------
(* The filter: what the globs compute is what the documentation means.      *)

\* The cuts of the documentation are those the recursion is compared with.
LEMMA GlobMeansCuts ==
    ASSUME NEW S, NEW pat \in Seq(S), NEW str \in Seq(S)
    PROVE  GlobMatch(pat, str) <=> GlobMeans(pat, str)
  <1> DEFINE n == Len(pat)
             l == Len(str)
  <1>1. n \in Nat /\ l \in Nat /\ 1 - 1 = 0
    OBVIOUS
  <1>2. ASSUME NEW cut \in [0 .. n -> 0 .. l], NEW p \in 1 .. n
        PROVE  Piece(pat, str, p, cut[p - 1], cut[p]) <=>
                   IF pat[p] = "*" THEN cut[p] >= cut[p - 1]
                   ELSE cut[p] = cut[p - 1] + 1 /\ pat[p] \in {"?", str[cut[p]]}
    BY DEF Piece
  <1>3. \A cut : CutFrom(pat, str, 1, 1, cut) <=>
            /\ cut \in [0 .. n -> 0 .. l]
            /\ cut[0] = 0 /\ cut[n] = l
            /\ \A p \in 1 .. n :
                  IF pat[p] = "*" THEN cut[p] >= cut[p - 1]
                  ELSE cut[p] = cut[p - 1] + 1 /\ pat[p] \in {"?", str[cut[p]]}
    BY <1>1, <1>2 DEF CutFrom
  <1>4. GlobMeans(pat, str) <=> MeansFrom(pat, str, 1, 1)
    BY <1>3 DEF GlobMeans, MeansFrom
  <1> QED
    BY <1>4, GlobMatchMeans

\* The provers do not know that the dot is a string.
Characters == STRING \cup {"."}

\* The names and the globs are sequences of characters.
LEMMA NamesAndGlobs ==
    ASSUME filter \in Filters
    PROVE  /\ \A t \in Tests : Names(Cases[t]) \subseteq Seq(Characters)
           /\ \A i \in DOMAIN filter.patterns :
                 /\ filter.patterns[i].negative \in BOOLEAN
                 /\ filter.patterns[i].glob \in Seq(Characters)
  <1> DEFINE Case == [suite : Seq(STRING), name : Seq(STRING), tags : SUBSET STRING]
             Pattern == [negative : BOOLEAN, glob : Seq(STRING)]
  <1>1. Cases \in Seq(Case)
    BY CasesAssumption
  <1>2. filter.patterns \in Seq(Pattern)
    BY FiltersAssumption
  <1> HIDE DEF Case, Pattern
  <1>3. ASSUME NEW t \in Tests PROVE Names(Cases[t]) \subseteq Seq(Characters)
    <2>1. Cases[t] \in Case
      BY <1>1, <1>3 DEF Tests
    <2>2. Cases[t].suite \in Seq(STRING) /\ Cases[t].name \in Seq(STRING)
      BY <2>1 DEF Case
    <2>3. /\ Cases[t].suite \in Seq(Characters) /\ Cases[t].name \in Seq(Characters)
          /\ <<".">> \in Seq(Characters)
      BY <2>2 DEF Characters
    <2>4. Cases[t].suite \o <<".">> \o Cases[t].name \in Seq(Characters)
      BY <2>3
    <2> QED
      BY <2>3, <2>4 DEF Names
  <1>4. \A i \in DOMAIN filter.patterns : filter.patterns[i] \in Pattern
    BY <1>2
  <1>5. Seq(STRING) \subseteq Seq(Characters)
    BY DEF Characters
  <1> QED
    BY <1>3, <1>4, <1>5 DEF Pattern

\* A test is wanted when a positive pattern hits it, or there is none, and no
\* negative one does, a hit being what the documentation means.
LEMMA WantedIsDocumented ==
    ASSUME filter \in Filters
    PROVE  FilterSelectsAsDocumented
  <1> SUFFICES ASSUME NEW t \in Tests
               PROVE  LET Hit(i) == \E name \in Names(Cases[t]) :
                                        GlobMeans(filter.patterns[i].glob, name)
                          hits == {i \in DOMAIN filter.patterns : Hit(i)}
                      IN Wanted(t) <=>
                            /\ \A i \in hits : ~filter.patterns[i].negative
                            /\ hits # {} \/ \A i \in DOMAIN filter.patterns :
                                                filter.patterns[i].negative
                            /\ TagsOk(Cases[t], filter)
    BY DEF FilterSelectsAsDocumented
  <1> DEFINE Hit(i) == \E name \in Names(Cases[t]) :
                           GlobMeans(filter.patterns[i].glob, name)
  <1>1. \A i \in DOMAIN filter.patterns : Hits(Cases[t], filter.patterns[i]) <=> Hit(i)
    BY NamesAndGlobs, GlobMeansCuts DEF Hits
  <1>2. \A i \in DOMAIN filter.patterns : filter.patterns[i].negative \in BOOLEAN
    BY NamesAndGlobs
  <1> HIDE DEF Hit
  <1>3. NameMatches(Cases[t], filter.patterns) <=>
            /\ (\E i \in DOMAIN filter.patterns : ~filter.patterns[i].negative) =>
                   \E i \in DOMAIN filter.patterns : ~filter.patterns[i].negative /\ Hit(i)
            /\ \A i \in DOMAIN filter.patterns : filter.patterns[i].negative => ~Hit(i)
    BY <1>1 DEF NameMatches, Positive, Negative
  <1> QED
    BY <1>2, <1>3 DEF Wanted, Hit

\* For every registry and every filter, the recursion of the globs selects what
\* the documentation says it does.
THEOREM FilterIsTheDocumentedOne == Spec => []FilterSelectsAsDocumented
  <1>1. TypeOK => FilterSelectsAsDocumented
    BY WantedIsDocumented DEF TypeOK
  <1> QED
    BY <1>1, TypesOfShards, PTL
=============================================================================
