--------------------------- MODULE OperatorProofs ---------------------------
(***************************************************************************)
(* Lemmas about the operators of Registry and Report, for every input: a   *)
(* glob matches what the documentation says it does, flattened documents   *)
(* keep their rows, counts by status and by suite add up.  Induction is    *)
(* from the least number of a set, so that nothing has to be assumed about *)
(* the recursive functions: each is shown to exist before it is used.      *)
(***************************************************************************)
EXTENDS Registry, Report, FiniteSetTheorems, TLAPS

-----------------------------------------------------------------------------
(* Induction.                                                               *)

\* Every nonempty set of natural numbers has a least element.
LEMMA LeastNatural ==
    ASSUME NEW T \in SUBSET Nat, T # {}
    PROVE  \E n \in T : \A m \in T : n <= m
  <1>1. PICK n \in T : \A m \in T : ~(<<m, n>> \in OpToRel(<, Nat))
    BY NatLessThanWellFounded, WFMin
  <1>2. ASSUME NEW m \in T, m < n PROVE FALSE
    <2> DEFINE p == <<m, n>>
    <2>1. p \in Nat \X Nat
      OBVIOUS
    <2>2. p[1] < p[2]
      BY <1>2
    <2> HIDE DEF p
    <2>3. p \in OpToRel(<, Nat)
      BY <2>1, <2>2, Zenon DEF OpToRel
    <2> QED
      BY <2>3, <1>1 DEF p
  <1> QED
    BY <1>2

\* Induction over an interval, for a set: the least number that is missing has a
\* predecessor that is not.
LEMMA UpTo ==
    ASSUME NEW a \in Nat, NEW n \in Nat, NEW G, a \in G,
           \A k \in a .. n - 1 : k \in G => k + 1 \in G
    PROVE  \A k \in a .. n : k \in G
  <1> DEFINE T == (a .. n) \ G
  <1>1. SUFFICES ASSUME T # {} PROVE FALSE
    OBVIOUS
  <1>2. PICK m \in T : \A k \in T : m <= k
    <2>1. T \in SUBSET Nat
      OBVIOUS
    <2> HIDE DEF T
    <2> QED
      BY <1>1, <2>1, LeastNatural
  <1>3. m \in Nat /\ m > a /\ m <= n
    OBVIOUS
  <1>4. m - 1 \in G
    BY <1>2, <1>3
  <1> QED
    BY <1>3, <1>4

-----------------------------------------------------------------------------
(* Sequences of sequences.                                                  *)

\* f flattens the first k parts.
FlattenStep(f, seqs, k) == f = [i \in 1 .. k |-> IF i = 1 THEN seqs[i] ELSE f[i - 1] \o seqs[i]]

\* The recursive function of FlattenSeq exists, and keeps its equation.
LEMMA FlattenDefined ==
    ASSUME NEW S, NEW seqs \in Seq(Seq(S)), Len(seqs) # 0
    PROVE  \E f \in [1 .. Len(seqs) -> Seq(S)] :
              /\ \A i \in 1 .. Len(seqs) :
                    f[i] = IF i = 1 THEN seqs[i] ELSE f[i - 1] \o seqs[i]
              /\ FlattenSeq(seqs) = f[Len(seqs)]
  <1> DEFINE n == Len(seqs)
             G == {k \in Nat : \E f \in [1 .. k -> Seq(S)] : FlattenStep(f, seqs, k)}
             F == CHOOSE f : FlattenStep(f, seqs, n)
  <1>0. n \in Nat /\ n # 0 /\ \A i \in 1 .. n : seqs[i] \in Seq(S)
    OBVIOUS
  <1> HIDE DEF n
  <1>1. 0 \in G
    <2> DEFINE f == [i \in 1 .. 0 |-> <<>>]
    <2>1. f = [i \in 1 .. 0 |-> IF i = 1 THEN seqs[i] ELSE f[i - 1] \o seqs[i]]
      OBVIOUS
    <2>2. f \in [1 .. 0 -> Seq(S)]
      OBVIOUS
    <2> QED
      BY <2>1, <2>2 DEF FlattenStep
  <1>2. \A k \in 0 .. n - 1 : k \in G => k + 1 \in G
    <2> SUFFICES ASSUME NEW k \in 0 .. n - 1, k \in G PROVE k + 1 \in G
      OBVIOUS
    <2>1. PICK f \in [1 .. k -> Seq(S)] :
              f = [i \in 1 .. k |-> IF i = 1 THEN seqs[i] ELSE f[i - 1] \o seqs[i]]
      BY DEF FlattenStep
    <2> DEFINE v == IF k = 0 THEN seqs[1] ELSE f[k] \o seqs[k + 1]
               g == [i \in 1 .. k + 1 |-> IF i = k + 1 THEN v ELSE f[i]]
    <2>2. v \in Seq(S)
      <3>1. k + 1 \in 1 .. n /\ (k # 0 => k \in 1 .. k) /\ 1 \in 1 .. n
        BY <1>0
      <3> QED
        BY <1>0, <3>1
    <2>3. \A i \in 1 .. k : f[i] = IF i = 1 THEN seqs[i] ELSE f[i - 1] \o seqs[i]
      BY <2>1
    <2> HIDE DEF v
    <2>4. g \in [1 .. k + 1 -> Seq(S)]
      BY <2>2
    <2>5. g[k + 1] = v /\ \A i \in 1 .. k : g[i] = f[i]
      OBVIOUS
    <2> HIDE DEF g
    <2>6. ASSUME NEW i \in 1 .. k + 1
          PROVE  g[i] = IF i = 1 THEN seqs[i] ELSE g[i - 1] \o seqs[i]
      <3>1. CASE i = k + 1 /\ k = 0
        BY <3>1, <2>5 DEF v
      <3>2. CASE i = k + 1 /\ k # 0
        <4>0. v = f[k] \o seqs[k + 1]
          BY <3>2 DEF v
        <4>1. g[i] = f[k] \o seqs[k + 1] /\ i # 1 /\ i - 1 = k /\ k \in 1 .. k
          BY <3>2, <2>5, <4>0
        <4>2. g[k] = f[k]
          BY <4>1, <2>5
        <4> QED
          BY <4>1, <4>2, <3>2
      <3>3. CASE i \in 1 .. k
        <4>1. g[i] = f[i] /\ (i # 1 => g[i - 1] = f[i - 1])
          BY <3>3, <2>5
        <4> QED
          BY <4>1, <2>3, <3>3
      <3> QED
        BY <3>1, <3>2, <3>3
    <2>7. g = [i \in 1 .. k + 1 |-> IF i = 1 THEN seqs[i] ELSE g[i - 1] \o seqs[i]]
      BY <2>4, <2>6
    <2>8. FlattenStep(g, seqs, k + 1)
      BY <2>7 DEF FlattenStep
    <2> QED
      BY <2>4, <2>8
  <1>3. n \in G
    <2> HIDE DEF G
    <2>1. \A k \in 0 .. n : k \in G
      BY <1>0, <1>1, <1>2, UpTo
    <2> QED
      BY <2>1, <1>0
  <1>4. FlattenStep(F, seqs, n)
    BY <1>3
  <1>5. FlattenSeq(seqs) = F[n]
    BY Zenon DEF FlattenSeq, FlattenStep, n
  <1> HIDE DEF F
  <1>6. \A i \in 1 .. n : F[i] = IF i = 1 THEN seqs[i] ELSE F[i - 1] \o seqs[i]
    BY <1>4 DEF FlattenStep
  <1>7. \A k \in 1 .. n : F[k] \in Seq(S)
    <2> DEFINE H == {k \in Nat : F[k] \in Seq(S)}
    <2>1. 1 \in H
      BY <1>0, <1>6
    <2>2. \A k \in 1 .. n - 1 : k \in H => k + 1 \in H
      <3> SUFFICES ASSUME NEW k \in 1 .. n - 1, F[k] \in Seq(S)
                   PROVE  F[k + 1] \in Seq(S)
        OBVIOUS
      <3>1. k + 1 \in 1 .. n /\ k + 1 # 1 /\ (k + 1) - 1 = k
        BY <1>0
      <3>2. F[k + 1] = F[k] \o seqs[k + 1]
        BY <3>1, <1>6
      <3> QED
        BY <3>1, <3>2, <1>0
    <2> HIDE DEF H
    <2>3. \A k \in 1 .. n : k \in H
      BY <1>0, <2>1, <2>2, UpTo
    <2> QED
      BY <2>3 DEF H
  <1>8. F \in [1 .. n -> Seq(S)]
    BY <1>4, <1>7 DEF FlattenStep
  <1> QED
    BY <1>5, <1>6, <1>8 DEF n

\* Where the elements of a concatenation come from.
LEMMA ConcatItems ==
    ASSUME NEW S, NEW s \in Seq(S), NEW t \in Seq(S)
    PROVE  /\ s \o t \in Seq(S)
           /\ ToSet(s \o t) = ToSet(s) \cup ToSet(t)
           /\ IsInjective(s) /\ IsInjective(t) /\ ToSet(s) \cap ToSet(t) = {}
              => IsInjective(s \o t)
  <1> DEFINE c == s \o t
  <1>1. /\ c \in Seq(S)
        /\ \A a \in DOMAIN c :
              \/ a \in DOMAIN s /\ c[a] = s[a]
              \/ a - Len(s) \in DOMAIN t /\ c[a] = t[a - Len(s)]
        /\ \A a \in DOMAIN s : a \in DOMAIN c /\ c[a] = s[a]
        /\ \A a \in DOMAIN t : a + Len(s) \in DOMAIN c /\ c[a + Len(s)] = t[a]
    OBVIOUS
  <1>2. Len(s) \in Nat /\ \A a \in DOMAIN c : a \in Nat
    BY <1>1
  <1> HIDE DEF c
  <1>3. ToSet(c) \subseteq ToSet(s) \cup ToSet(t)
    BY <1>1 DEF ToSet
  <1>4. ToSet(s) \subseteq ToSet(c) /\ ToSet(t) \subseteq ToSet(c)
    BY <1>1 DEF ToSet
  <1>5. ASSUME IsInjective(s), IsInjective(t), ToSet(s) \cap ToSet(t) = {},
               NEW a \in DOMAIN c, NEW b \in DOMAIN c, c[a] = c[b]
        PROVE  a = b
    <2>1. \A i \in DOMAIN s : \A j \in DOMAIN t : s[i] # t[j]
      BY <1>5 DEF ToSet
    <2>2. CASE a \in DOMAIN s /\ c[a] = s[a] /\ b \in DOMAIN s /\ c[b] = s[b]
      BY <1>5, <2>2 DEF IsInjective
    <2>3. CASE /\ a - Len(s) \in DOMAIN t /\ c[a] = t[a - Len(s)]
               /\ b - Len(s) \in DOMAIN t /\ c[b] = t[b - Len(s)]
      <3>1. a - Len(s) = b - Len(s)
        BY <1>5, <2>3 DEF IsInjective
      <3> QED
        BY <3>1, <1>2
    <2> QED
      BY <1>1, <1>5, <2>1, <2>2, <2>3
  <1>6. IsInjective(s) /\ IsInjective(t) /\ ToSet(s) \cap ToSet(t) = {} => IsInjective(c)
    BY <1>5 DEF IsInjective
  <1> QED
    BY <1>1, <1>3, <1>4, <1>6 DEF c

\* The items of a flattened sequence are those of its parts, and when the parts
\* are without repetition and share nothing, neither has it one.
LEMMA FlattenItems ==
    ASSUME NEW S, NEW seqs \in Seq(Seq(S)), Len(seqs) # 0
    PROVE  /\ FlattenSeq(seqs) \in Seq(S)
           /\ ToSet(FlattenSeq(seqs)) = UNION {ToSet(seqs[k]) : k \in 1 .. Len(seqs)}
           /\ /\ \A k \in 1 .. Len(seqs) : IsInjective(seqs[k])
              /\ \A k, l \in 1 .. Len(seqs) :
                    k # l => ToSet(seqs[k]) \cap ToSet(seqs[l]) = {}
              => IsInjective(FlattenSeq(seqs))
  <1> DEFINE n == Len(seqs)
             Apart == /\ \A k \in 1 .. n : IsInjective(seqs[k])
                      /\ \A k, l \in 1 .. n :
                            k # l => ToSet(seqs[k]) \cap ToSet(seqs[l]) = {}
  <1>1. PICK f \in [1 .. n -> Seq(S)] :
              /\ \A i \in 1 .. n : f[i] = IF i = 1 THEN seqs[i] ELSE f[i - 1] \o seqs[i]
              /\ FlattenSeq(seqs) = f[n]
    BY FlattenDefined
  <1>2. n \in Nat /\ n # 0 /\ \A i \in 1 .. n : seqs[i] \in Seq(S)
    OBVIOUS
  <1> HIDE DEF n
  <1>3. \A i \in 1 .. n : f[i] \in Seq(S)
    BY <1>1
  <1>4. f[1] = seqs[1] /\ \A i \in 1 .. n - 1 : f[i + 1] = f[i] \o seqs[i + 1]
    <2>1. 1 \in 1 .. n
      BY <1>2
    <2>2. ASSUME NEW i \in 1 .. n - 1 PROVE f[i + 1] = f[i] \o seqs[i + 1]
      <3>1. i + 1 \in 1 .. n /\ i + 1 # 1 /\ (i + 1) - 1 = i
        BY <1>2
      <3> QED
        BY <3>1, <1>1, Zenon
    <2> QED
      BY <2>1, <2>2, <1>1, Zenon
  <1> DEFINE Parts(m) == UNION {ToSet(seqs[k]) : k \in 1 .. m}
             G == {m \in 1 .. n : ToSet(f[m]) = Parts(m) /\ (Apart => IsInjective(f[m]))}
  <1>5. 1 \in G
    <2>1. 1 \in 1 .. n /\ 1 .. 1 = {1}
      BY <1>2
    <2>2. Parts(1) = ToSet(seqs[1])
      BY <2>1
    <2> QED
      BY <2>1, <2>2, <1>4
  <1>6. ASSUME NEW m \in 1 .. n - 1, m \in G PROVE m + 1 \in G
    <2>1. /\ m \in 1 .. n /\ m + 1 \in 1 .. n
          /\ 1 .. m + 1 = (1 .. m) \cup {m + 1} /\ m + 1 \notin 1 .. m
          /\ 1 .. m \subseteq 1 .. n
      BY <1>2
    <2> DEFINE s == f[m]
               t == seqs[m + 1]
    <2>2. Parts(m + 1) = Parts(m) \cup ToSet(t)
      BY <2>1
    <2>3. f[m + 1] = s \o t /\ s \in Seq(S) /\ t \in Seq(S)
      BY <2>1, <1>2, <1>3, <1>4
    <2>4. ASSUME Apart PROVE ToSet(s) \cap ToSet(t) = {} /\ IsInjective(t)
      <3>1. IsInjective(t) /\ \A k \in 1 .. m : ToSet(seqs[k]) \cap ToSet(t) = {}
        BY <2>4, <2>1
      <3>2. ToSet(s) = Parts(m)
        BY <1>6
      <3> QED
        BY <3>1, <3>2
    <2> HIDE DEF s, t
    <2>5. ToSet(f[m + 1]) = ToSet(s) \cup ToSet(t)
      BY <2>3, ConcatItems
    <2>6. IsInjective(s) /\ IsInjective(t) /\ ToSet(s) \cap ToSet(t) = {}
             => IsInjective(f[m + 1])
      BY <2>3, ConcatItems
    <2> HIDE DEF Parts
    <2> QED
      BY <1>6, <2>1, <2>2, <2>4, <2>5, <2>6 DEF s
  <1>7. n \in G
    <2> HIDE DEF G
    <2>1. \A m \in 1 .. n - 1 : m \in G => m + 1 \in G
      BY <1>6
    <2>2. \A k \in 1 .. n : k \in G
      BY <1>2, <1>5, <2>1, UpTo
    <2> QED
      BY <2>2, <1>2
  <1> QED
    BY <1>1, <1>2, <1>3, <1>7 DEF n

-----------------------------------------------------------------------------
(* Counts.                                                                  *)

\* An interval from 1 has as many elements as its end says.
LEMMA IntervalCardinality ==
    ASSUME NEW n \in Nat
    PROVE  IsFiniteSet(1 .. n) /\ Cardinality(1 .. n) = n
  <1>1. 1 \in Int /\ n \in Int
    OBVIOUS
  <1>2. IsFiniteSet(1 .. n) /\ Cardinality(1 .. n) = IF 1 > n THEN 0 ELSE n - 1 + 1
    BY <1>1, FS_Interval, Zenon
  <1> QED
    BY <1>2

\* Counting rows by status: none is counted twice or left out.
LEMMA RowsAddUp ==
    ASSUME NEW S, NEW results \in Seq(S), \A r \in S : r.status \in Statuses
    PROVE  /\ \A statuses : Rows(results, statuses) \in Nat
           /\ \A statuses : Rows(results, statuses) > 0 <=>
                 \E i \in DOMAIN results : results[i].status \in statuses
           /\ Rows(results, {"pass"}) + Rows(results, {"fail", "crashed"})
                + Rows(results, {"skipped"}) = Len(results)
  <1> DEFINE Of(A) == {i \in DOMAIN results : results[i].status \in A}
  <1>1. IsFiniteSet(DOMAIN results) /\ Cardinality(DOMAIN results) = Len(results)
    <2>1. DOMAIN results = 1 .. Len(results) /\ Len(results) \in Nat
      OBVIOUS
    <2> QED
      BY <2>1, IntervalCardinality
  <1>2. \A A : IsFiniteSet(Of(A)) /\ Cardinality(Of(A)) \in Nat
    BY <1>1, FS_Subset, FS_CardinalityType
  <1>3. \A A : Rows(results, A) = Cardinality(Of(A))
    BY DEF Rows
  <1>4. \A A : Cardinality(Of(A)) = 0 <=> Of(A) = {}
    BY <1>2, FS_EmptySet
  <1>0. \A i \in DOMAIN results : results[i].status \in Statuses
    OBVIOUS
  <1>5. /\ DOMAIN results = (Of({"pass"}) \cup Of({"fail", "crashed"})) \cup Of({"skipped"})
        /\ Of({"pass"}) \cap Of({"fail", "crashed"}) = {}
        /\ (Of({"pass"}) \cup Of({"fail", "crashed"})) \cap Of({"skipped"}) = {}
    BY <1>0 DEF Statuses
  <1> DEFINE p == Of({"pass"})
             f == Of({"fail", "crashed"})
             k == Of({"skipped"})
  <1>6. Cardinality(p) + Cardinality(f) + Cardinality(k) = Len(results)
    <2>1. IsFiniteSet(p) /\ IsFiniteSet(f) /\ IsFiniteSet(k)
      BY <1>2
    <2>2. /\ DOMAIN results = (p \cup f) \cup k
          /\ p \cap f = {} /\ (p \cup f) \cap k = {}
      BY <1>5
    <2>3. Cardinality(p) \in Nat /\ Cardinality(f) \in Nat /\ Cardinality(k) \in Nat
      BY <1>2
    <2> HIDE DEF p, f, k
    <2>4. IsFiniteSet(p \cup f)
          /\ Cardinality(p \cup f) = Cardinality(p) + Cardinality(f) - Cardinality({})
      BY <2>1, <2>2, FS_Union
    <2>5. Cardinality((p \cup f) \cup k)
            = Cardinality(p \cup f) + Cardinality(k) - Cardinality({})
      BY <2>1, <2>2, <2>4, FS_Union
    <2> QED
      BY <1>1, <2>2, <2>3, <2>4, <2>5, FS_EmptySet
  <1>7. \A A : Of(A) # {} <=> \E i \in DOMAIN results : results[i].status \in A
    OBVIOUS
  <1> HIDE DEF Of
  <1> QED
    BY <1>2, <1>3, <1>4, <1>6, <1>7

\* The fold that adds up a field over a finite set.
SumOver(R, field, D) ==
    LET iter[s \in SUBSET D] ==
            IF s = {} THEN 0
            ELSE LET x == CHOOSE y \in s : TRUE IN R[x][field] + iter[s \ {x}]
    IN iter[D]

\* Counting part by part is counting the whole: the fold over disjoint parts of
\* a finite set adds up to the size of their union.
LEMMA SumOfParts ==
    ASSUME NEW I, IsFiniteSet(I), NEW D, IsFiniteSet(D), NEW P \in [D -> SUBSET I],
           \A d, e \in D : d # e => P[d] \cap P[e] = {},
           NEW R, NEW field, \A d \in D : R[d][field] = Cardinality(P[d])
    PROVE  SumOver(R, field, D) = Cardinality(UNION {P[d] : d \in D})
  <1> DEFINE Of(T) == UNION {P[d] : d \in T}
             Pick(T) == CHOOSE y \in T : TRUE
             Solves(f) == f = [T \in SUBSET D |-> IF T = {} THEN 0
                                  ELSE R[Pick(T)][field] + f[T \ {Pick(T)}]]
             w == [T \in SUBSET D |-> Cardinality(Of(T))]
  <1>1. \A T \in SUBSET D : IsFiniteSet(Of(T)) /\ Cardinality(Of(T)) \in Nat
    <2> TAKE T \in SUBSET D
    <2>1. Of(T) \in SUBSET I
      OBVIOUS
    <2> HIDE DEF Of
    <2> QED
      BY <2>1, FS_Subset, FS_CardinalityType
  <1>2. ASSUME NEW T \in SUBSET D, T # {}
        PROVE  /\ Pick(T) \in T /\ T \ {Pick(T)} \in SUBSET D
               /\ Cardinality(Of(T)) = R[Pick(T)][field] + Cardinality(Of(T \ {Pick(T)}))
    <2> DEFINE x == Pick(T)
               U == T \ {x}
    <2>1. x \in T /\ U \in SUBSET D
      BY <1>2
    <2> HIDE DEF x
    <2>2. Of(T) = P[x] \cup Of(U) /\ P[x] \cap Of(U) = {}
      BY <2>1
    <2>3. IsFiniteSet(P[x]) /\ Cardinality(P[x]) \in Nat
      BY <2>1, FS_Subset, FS_CardinalityType
    <2>4. R[x][field] = Cardinality(P[x])
      BY <2>1
    <2>5. IsFiniteSet(Of(U)) /\ Cardinality(Of(U)) \in Nat
      BY <1>1, <2>1
    <2> HIDE DEF U, Of
    <2>6. Cardinality(P[x] \cup Of(U))
              = Cardinality(P[x]) + Cardinality(Of(U)) - Cardinality({})
      BY <2>2, <2>3, <2>5, FS_Union
    <2> QED
      BY <2>1, <2>2, <2>3, <2>4, <2>5, <2>6, FS_EmptySet DEF x, U
  <1>3. Cardinality(Of({})) = 0
    BY FS_EmptySet
  <1> HIDE DEF Of, Pick
  <1>4. Solves(w)
    <2>1. \A T \in SUBSET D : w[T] = Cardinality(Of(T))
      OBVIOUS
    <2>2. ASSUME NEW T \in SUBSET D
          PROVE  w[T] = IF T = {} THEN 0 ELSE R[Pick(T)][field] + w[T \ {Pick(T)}]
      BY <1>2, <1>3, <2>1
    <2> QED
      BY <2>2
  <1> HIDE DEF w
  <1> DEFINE it == CHOOSE f : Solves(f)
  <1>5. Solves(it)
    BY <1>4
  <1>6. SumOver(R, field, D) = it[D]
    BY Zenon DEF SumOver, Pick
  <1> HIDE DEF it
  <1>7. \A T \in SUBSET D : it[T] = Cardinality(Of(T))
    <2> DEFINE Wrong == {T \in SUBSET D : it[T] # Cardinality(Of(T))}
               Sizes == {n \in Nat : \E T \in Wrong : Cardinality(T) = n}
    <2> SUFFICES ASSUME Wrong # {} PROVE FALSE
      OBVIOUS
    <2>1. \A T \in SUBSET D : IsFiniteSet(T) /\ Cardinality(T) \in Nat
      BY FS_Subset, FS_CardinalityType
    <2>2. Sizes # {} /\ Sizes \in SUBSET Nat
      BY <2>1
    <2>3. PICK n \in Sizes : \A m \in Sizes : n <= m
      <3> HIDE DEF Sizes
      <3> QED
        BY <2>2, LeastNatural
    <2>4. PICK T \in Wrong : Cardinality(T) = n
      OBVIOUS
    <2>5. it[T] = IF T = {} THEN 0 ELSE R[Pick(T)][field] + it[T \ {Pick(T)}]
      BY <1>5
    <2>6. T # {}
      BY <2>5, <1>3
    <2> DEFINE x == Pick(T)
               U == T \ {x}
    <2>7. /\ x \in T /\ U \in SUBSET D
          /\ Cardinality(Of(T)) = R[x][field] + Cardinality(Of(U))
      BY <1>2, <2>6
    <2>8. it[U] # Cardinality(Of(U))
      BY <2>5, <2>6, <2>7
    <2>9. Cardinality(U) = n - 1
      BY <2>1, <2>4, <2>7, FS_RemoveElement
    <2> QED
      BY <2>1, <2>3, <2>7, <2>8, <2>9
  <1> QED
    BY <1>6, <1>7 DEF Of

\* The test suites of the JUnit form share out the results: their counts add up
\* to those of all results, by any field (_write_junit).
LEMMA JUnitSums ==
    ASSUME NEW S, NEW results \in Seq(S)
    PROVE  LET junit == JUnit(results)
               Sum(field) == SumOver(junit.suites, field, DOMAIN junit.suites) IN
           /\ Sum("tests") = junit.root.tests
           /\ Sum("failures") = Rows(results, {"fail", "crashed"})
           /\ Sum("skipped") = Rows(results, {"skipped"})
  <1> DEFINE D == SuitesOf(results)
             I == DOMAIN results
             R == JUnit(results).suites
             In(d) == {i \in I : results[i].suite = d}
             Of(d, A) == {i \in In(d) : results[i].status \in A}
             Tests(d) == Cardinality(In(d))
             Failures(d) == Cardinality(Of(d, {"fail", "crashed"}))
             Skipped(d) == Cardinality(Of(d, {"skipped"}))
  <1>1. IsFiniteSet(I)
    <2>1. I = 1 .. Len(results) /\ Len(results) \in Nat
      OBVIOUS
    <2> QED
      BY <2>1, IntervalCardinality
  <1>2. IsFiniteSet(D)
    <2> DEFINE K == [i \in I |-> results[i].suite]
    <2>1. K \in Surjection(I, D)
      BY DEF Surjection, SuitesOf
    <2> QED
      BY <1>1, <2>1, FS_Surjection
  <1>3. R = [d \in D |-> [tests |-> Tests(d), failures |-> Failures(d),
                           skipped |-> Skipped(d)]]
    BY Zenon DEF JUnit, JUnitSuites, JUnitCounts
  <1>4. JUnit(results).root.tests = Cardinality(I)
    BY DEF JUnit, JUnitCounts
  <1>suite. \A i \in I : results[i].suite \in D
    BY DEF SuitesOf
  <1> HIDE DEF R, Tests, Failures, Skipped
  <1>5. /\ DOMAIN R = D
        /\ \A d \in D : /\ R[d]["tests"] = Tests(d)
                        /\ R[d]["failures"] = Failures(d)
                        /\ R[d]["skipped"] = Skipped(d)
    BY <1>3
  <1>6. ASSUME NEW A, NEW field, \A d \in D : R[d][field] = Cardinality(Of(d, A))
        PROVE  SumOver(R, field, D) = Rows(results, A)
    <2> DEFINE P == [d \in D |-> Of(d, A)]
    <2>1. P \in [D -> SUBSET I] /\ \A d, e \in D : d # e => P[d] \cap P[e] = {}
      OBVIOUS
    <2>2. \A d \in D : P[d] = Of(d, A)
      OBVIOUS
    <2>3. UNION {P[d] : d \in D} = {i \in I : results[i].status \in A}
      <3>1. \A i \in I : i \in In(results[i].suite)
        OBVIOUS
      <3> HIDE DEF P, D, I
      <3>2. ASSUME NEW i \in I, results[i].status \in A
            PROVE  i \in UNION {P[d] : d \in D}
        <4>1. i \in P[results[i].suite]
          BY <1>suite, <2>2, <3>1, <3>2
        <4> QED
          BY <1>suite, <4>1
      <3>3. ASSUME NEW d \in D, NEW i \in P[d]
            PROVE  i \in I /\ results[i].status \in A
        BY <2>2
      <3> QED
        BY <3>2, <3>3
    <2> HIDE DEF P, D, I, Of
    <2>4. \A d \in D : R[d][field] = Cardinality(P[d])
      BY <1>6, <2>2
    <2>5. SumOver(R, field, D) = Cardinality(UNION {P[d] : d \in D})
      BY <1>1, <1>2, <2>1, <2>4, SumOfParts
    <2> QED
      BY <2>3, <2>5 DEF I, Rows
  <1>7. SumOver(R, "failures", D) = Rows(results, {"fail", "crashed"})
    <2>1. \A d \in D : R[d]["failures"] = Cardinality(Of(d, {"fail", "crashed"}))
      BY <1>5 DEF Failures
    <2> HIDE DEF D, Of
    <2> QED
      BY <1>6, <2>1
  <1>8. SumOver(R, "skipped", D) = Rows(results, {"skipped"})
    <2>1. \A d \in D : R[d]["skipped"] = Cardinality(Of(d, {"skipped"}))
      BY <1>5 DEF Skipped
    <2> HIDE DEF D, Of
    <2> QED
      BY <1>6, <2>1
  <1>9. SumOver(R, "tests", D) = Cardinality(I)
    <2> DEFINE P == [d \in D |-> In(d)]
    <2>1. P \in [D -> SUBSET I] /\ \A d, e \in D : d # e => P[d] \cap P[e] = {}
      OBVIOUS
    <2>2. UNION {P[d] : d \in D} = I
      <3>1. \A d \in D : P[d] = In(d)
        OBVIOUS
      <3> HIDE DEF P, D, I
      <3>2. ASSUME NEW i \in I PROVE i \in UNION {P[d] : d \in D}
        <4>1. i \in P[results[i].suite]
          BY <1>suite, <3>1
        <4> QED
          BY <1>suite, <4>1
      <3>3. ASSUME NEW d \in D, NEW i \in P[d] PROVE i \in I
        BY <3>1
      <3> QED
        BY <3>2, <3>3
    <2>3. \A d \in D : R[d]["tests"] = Cardinality(P[d])
      BY <1>5 DEF Tests
    <2> HIDE DEF P, D, I
    <2>4. SumOver(R, "tests", D) = Cardinality(UNION {P[d] : d \in D})
      BY <1>1, <1>2, <2>1, <2>3, SumOfParts
    <2> QED
      BY <2>2, <2>4
  <1> QED
    BY <1>4, <1>5, <1>7, <1>8, <1>9 DEF R

-----------------------------------------------------------------------------
(* Globs.                                                                   *)

\* Where a rest of the string may begin.
Positions(str) == 1 .. Len(str) + 1

\* One row of GlobMatch's recursion, from the rows to the right of it.
GlobRow(fits, pat, str, p) ==
    IF p > Len(pat) THEN {Len(str) + 1}
    ELSE IF pat[p] = "*"
         THEN LET q == AfterStars(pat, p) IN
              {s \in Positions(str) :
                  q > Len(pat) \/ \E r \in s .. Len(str) + 1 : r \in fits[q]}
         ELSE {s \in 1 .. Len(str) : pat[p] \in {"?", str[s]} /\ s + 1 \in fits[p + 1]}

\* A run of stars ends somewhere.
LEMMA AfterStarsDefined ==
    ASSUME NEW S, NEW pat \in Seq(S), NEW p \in 1 .. Len(pat), pat[p] = "*"
    PROVE  LET q == AfterStars(pat, p) IN
           /\ q \in p + 1 .. Len(pat) + 1
           /\ \A r \in p .. q - 1 : pat[r] = "*"
           /\ q <= Len(pat) => pat[q] # "*"
  <1> DEFINE n == Len(pat)
             T == {q \in p .. n + 1 : q <= n => pat[q] # "*"}
             After(q) == /\ \A r \in p .. q - 1 : pat[r] = "*"
                         /\ q <= n => pat[q] # "*"
  <1>0. n \in Nat /\ p \in 1 .. n
    OBVIOUS
  <1> HIDE DEF n
  <1>1. PICK q \in T : \A m \in T : q <= m
    <2>1. n + 1 \in T /\ T \in SUBSET Nat
      BY <1>0
    <2> HIDE DEF T
    <2> QED
      BY <2>1, LeastNatural
  <1>2. q \in p .. n + 1 /\ After(q)
    <2>1. \A r \in p .. q - 1 : r \notin T
      BY <1>0, <1>1
    <2> QED
      BY <1>0, <1>1, <2>1
  <1> DEFINE a == CHOOSE x \in p .. n + 1 : After(x)
  <1>3. a \in p .. n + 1 /\ After(a)
    BY <1>2, Zenon
  <1>4. a = AfterStars(pat, p)
    BY Zenon DEF AfterStars, n
  <1> HIDE DEF a
  <1>5. a # p
    BY <1>0, <1>3
  <1> QED
    BY <1>0, <1>3, <1>4, <1>5 DEF n

\* The recursion of GlobMatch goes to the right only, so it has a solution.
LEMMA GlobDefined ==
    ASSUME NEW S, NEW pat \in Seq(S), NEW str \in Seq(S)
    PROVE  \E f : /\ \A p \in 1 .. Len(pat) + 1 : f[p] = GlobRow(f, pat, str, p)
                  /\ GlobMatch(pat, str) <=> 1 \in f[1]
  <1> DEFINE n == Len(pat)
             Solves(f, k) == f = [p \in n + 1 - k .. n + 1 |-> GlobRow(f, pat, str, p)]
             G == {k \in Nat : \E f : Solves(f, k)}
  <1>0. n \in Nat
    OBVIOUS
  <1> HIDE DEF n
  <1>1. 0 \in G
    <2> DEFINE f == [p \in n + 1 .. n + 1 |-> {Len(str) + 1}]
    <2>1. \A p \in n + 1 .. n + 1 : GlobRow(f, pat, str, p) = {Len(str) + 1}
      BY <1>0 DEF GlobRow, n
    <2>2. f = [p \in n + 1 .. n + 1 |-> GlobRow(f, pat, str, p)]
      BY <2>1
    <2>3. n + 1 - 0 = n + 1
      BY <1>0
    <2> HIDE DEF f
    <2> QED
      BY <2>2, <2>3
  <1>2. ASSUME NEW k \in 0 .. n - 1, k \in G PROVE k + 1 \in G
    <2> DEFINE t == n - k
    <2>0. /\ t \in 1 .. n /\ n + 1 - k = t + 1 /\ n + 1 - (k + 1) = t
          /\ t .. n + 1 = {t} \cup (t + 1 .. n + 1) /\ t \notin t + 1 .. n + 1
      BY <1>0
    <2>1. PICK f : f = [p \in t + 1 .. n + 1 |-> GlobRow(f, pat, str, p)]
      BY <1>2, <2>0
    <2> HIDE DEF t
    <2> DEFINE g == [p \in t .. n + 1 |-> IF p = t THEN GlobRow(f, pat, str, t) ELSE f[p]]
    <2>2. \A p \in t + 1 .. n + 1 : g[p] = f[p]
      BY <2>0
    <2>3. g[t] = GlobRow(f, pat, str, t)
      BY <2>0
    <2>4. \A p \in t + 1 .. n + 1 : f[p] = GlobRow(f, pat, str, p)
      BY <2>1
    <2> HIDE DEF g
    <2>5. ASSUME NEW p \in t .. n + 1
          PROVE  GlobRow(g, pat, str, p) = GlobRow(f, pat, str, p)
      <3>1. CASE p > n
        BY <3>1 DEF GlobRow, n
      <3>2. CASE p <= n /\ pat[p] = "*"
        <4> DEFINE q == AfterStars(pat, p)
        <4>1. q \in p + 1 .. n + 1
          BY <3>2, <2>0, AfterStarsDefined DEF n
        <4>2. g[q] = f[q]
          BY <4>1, <2>2, <2>0, <1>0
        <4> HIDE DEF q
        <4> QED
          BY <3>2, <4>2, <2>0 DEF GlobRow, q
      <3>3. CASE p <= n /\ pat[p] # "*"
        <4>1. g[p + 1] = f[p + 1]
          BY <3>3, <2>2, <2>0, <1>0
        <4> QED
          BY <3>3, <4>1, <2>0 DEF GlobRow
      <3> QED
        BY <3>1, <3>2, <3>3, <2>0, <1>0
    <2>6. \A p \in t .. n + 1 : g[p] = GlobRow(g, pat, str, p)
      BY <2>0, <2>2, <2>3, <2>4, <2>5
    <2>7. g = [p \in t .. n + 1 |-> GlobRow(g, pat, str, p)]
      BY <2>6 DEF g
    <2> QED
      BY <2>0, <2>7
  <1>3. n \in G
    <2> HIDE DEF G
    <2>1. \A k \in 0 .. n - 1 : k \in G => k + 1 \in G
      BY <1>2
    <2>2. \A k \in 0 .. n : k \in G
      BY <1>0, <1>1, <2>1, UpTo
    <2> QED
      BY <2>2, <1>0
  <1> DEFINE F == CHOOSE f : f = [p \in 1 .. n + 1 |-> GlobRow(f, pat, str, p)]
  <1>4. F = [p \in 1 .. n + 1 |-> GlobRow(F, pat, str, p)]
    <2>1. \E f : f = [p \in 1 .. n + 1 |-> GlobRow(f, pat, str, p)]
      <3>1. n + 1 - n = 1
        BY <1>0
      <3> QED
        BY <1>3, <3>1
    <2> QED
      BY <2>1, Zenon
  <1>5. GlobMatch(pat, str) <=> 1 \in F[1]
    BY Zenon DEF GlobMatch, GlobRow, Positions, n
  <1> HIDE DEF F
  <1> QED
    BY <1>4, <1>5 DEF n

\* The pattern from p on matches the string from s on, told by a cut.
Piece(pat, str, i, a, b) ==
    IF pat[i] = "*" THEN b >= a ELSE b = a + 1 /\ pat[i] \in {"?", str[b]}
CutFrom(pat, str, p, s, cut) ==
    /\ cut \in [p - 1 .. Len(pat) -> 0 .. Len(str)]
    /\ cut[p - 1] = s - 1 /\ cut[Len(pat)] = Len(str)
    /\ \A i \in p .. Len(pat) : Piece(pat, str, i, cut[i - 1], cut[i])
MeansFrom(pat, str, p, s) == \E cut : CutFrom(pat, str, p, s, cut)

\* The empty pattern matches the empty rest alone.
LEMMA MeansAtEnd ==
    ASSUME NEW S, NEW pat \in Seq(S), NEW str \in Seq(S), NEW s \in Positions(str)
    PROVE  MeansFrom(pat, str, Len(pat) + 1, s) <=> s = Len(str) + 1
  <1> DEFINE n == Len(pat)
             l == Len(str)
  <1>0. n \in Nat /\ l \in Nat /\ s \in 1 .. l + 1 /\ (n + 1) - 1 = n
    BY DEF Positions
  <1> HIDE DEF n, l
  <1>1. ASSUME NEW cut, CutFrom(pat, str, n + 1, s, cut) PROVE s = l + 1
    <2>1. cut[(n + 1) - 1] = s - 1 /\ cut[n] = l
      BY <1>1 DEF CutFrom, n, l
    <2> QED
      BY <1>0, <2>1
  <1>2. ASSUME s = l + 1 PROVE MeansFrom(pat, str, n + 1, s)
    <2> DEFINE cut == [i \in n .. n |-> l]
    <2>1. cut \in [n .. n -> 0 .. l] /\ cut[n] = l
      BY <1>0
    <2> HIDE DEF cut
    <2>2. /\ cut \in [(n + 1) - 1 .. n -> 0 .. l] /\ cut[(n + 1) - 1] = s - 1
          /\ \A i \in n + 1 .. n : FALSE
      BY <1>0, <1>2, <2>1
    <2>3. CutFrom(pat, str, n + 1, s, cut)
      BY <2>1, <2>2 DEF CutFrom, n, l
    <2> QED
      BY <2>3 DEF MeansFrom
  <1> QED
    BY <1>1, <1>2 DEF MeansFrom, n, l

\* A character of the pattern that is no star takes one of the string.
LEMMA MeansStep ==
    ASSUME NEW S, NEW pat \in Seq(S), NEW str \in Seq(S), NEW s \in Positions(str),
           NEW p \in 1 .. Len(pat), pat[p] # "*"
    PROVE  MeansFrom(pat, str, p, s) <=>
              /\ s \in 1 .. Len(str) /\ pat[p] \in {"?", str[s]}
              /\ MeansFrom(pat, str, p + 1, s + 1)
  <1> DEFINE n == Len(pat)
             l == Len(str)
  <1>0. /\ n \in Nat /\ l \in Nat /\ s \in 1 .. l + 1 /\ p \in 1 .. n
        /\ (p + 1) - 1 = p /\ (s + 1) - 1 = s
    BY DEF Positions
  <1> HIDE DEF n, l
  <1>1. ASSUME NEW cut, CutFrom(pat, str, p, s, cut)
        PROVE  /\ s \in 1 .. l /\ pat[p] \in {"?", str[s]}
               /\ MeansFrom(pat, str, p + 1, s + 1)
    <2>1. /\ cut \in [p - 1 .. n -> 0 .. l] /\ cut[p - 1] = s - 1 /\ cut[n] = l
          /\ \A i \in p .. n : Piece(pat, str, i, cut[i - 1], cut[i])
      BY <1>1 DEF CutFrom, n, l
    <2>2. cut[p] = s /\ pat[p] \in {"?", str[s]}
      BY <1>0, <2>1 DEF Piece
    <2>3. s \in 1 .. l
      BY <1>0, <2>1, <2>2
    <2> DEFINE rest == [i \in p .. n |-> cut[i]]
    <2>4. rest \in [p .. n -> 0 .. l] /\ \A i \in p .. n : rest[i] = cut[i]
      BY <1>0, <2>1
    <2> HIDE DEF rest
    <2>5. \A i \in p + 1 .. n : Piece(pat, str, i, rest[i - 1], rest[i])
      BY <1>0, <2>1, <2>4
    <2>6. CutFrom(pat, str, p + 1, s + 1, rest)
      BY <1>0, <2>1, <2>2, <2>4, <2>5 DEF CutFrom, n, l
    <2> QED
      BY <2>2, <2>3, <2>6 DEF MeansFrom
  <1>2. ASSUME NEW cut, CutFrom(pat, str, p + 1, s + 1, cut),
               s \in 1 .. l, pat[p] \in {"?", str[s]}
        PROVE  MeansFrom(pat, str, p, s)
    <2>1. /\ cut \in [p .. n -> 0 .. l] /\ cut[p] = s /\ cut[n] = l
          /\ \A i \in p + 1 .. n : Piece(pat, str, i, cut[i - 1], cut[i])
      BY <1>0, <1>2 DEF CutFrom, n, l
    <2> DEFINE all == [i \in p - 1 .. n |-> IF i = p - 1 THEN s - 1 ELSE cut[i]]
    <2>2. /\ all \in [p - 1 .. n -> 0 .. l] /\ all[p - 1] = s - 1
          /\ \A i \in p .. n : all[i] = cut[i]
      BY <1>0, <1>2, <2>1
    <2> HIDE DEF all
    <2>3. ASSUME NEW i \in p .. n PROVE Piece(pat, str, i, all[i - 1], all[i])
      <3>1. CASE i = p
        BY <1>0, <1>2, <2>1, <2>2, <3>1 DEF Piece
      <3>2. CASE i # p
        <4>1. i \in p + 1 .. n /\ i - 1 \in p .. n
          BY <1>0, <3>2
        <4> QED
          BY <2>1, <2>2, <4>1
      <3> QED
        BY <3>1, <3>2
    <2>4. CutFrom(pat, str, p, s, all)
      BY <1>0, <2>1, <2>2, <2>3 DEF CutFrom, n, l
    <2> QED
      BY <2>4 DEF MeansFrom
  <1> QED
    BY <1>1, <1>2 DEF MeansFrom, l

\* A run of stars takes any piece of the string.
LEMMA MeansStars ==
    ASSUME NEW S, NEW pat \in Seq(S), NEW str \in Seq(S), NEW s \in Positions(str),
           NEW p \in 1 .. Len(pat), NEW q \in p + 1 .. Len(pat) + 1,
           \A i \in p .. q - 1 : pat[i] = "*"
    PROVE  MeansFrom(pat, str, p, s) <=>
              \E r \in s .. Len(str) + 1 : MeansFrom(pat, str, q, r)
  <1> DEFINE n == Len(pat)
             l == Len(str)
  <1>0. /\ n \in Nat /\ l \in Nat /\ s \in 1 .. l + 1 /\ p \in 1 .. n /\ q \in p + 1 .. n + 1
    BY DEF Positions
  <1> HIDE DEF n, l
  <1>1. ASSUME NEW cut, CutFrom(pat, str, p, s, cut)
        PROVE  \E r \in s .. l + 1 : MeansFrom(pat, str, q, r)
    <2>1. /\ cut \in [p - 1 .. n -> 0 .. l] /\ cut[p - 1] = s - 1 /\ cut[n] = l
          /\ \A i \in p .. n : Piece(pat, str, i, cut[i - 1], cut[i])
      BY <1>1 DEF CutFrom, n, l
    <2> DEFINE G == {i \in p - 1 .. q - 1 : cut[i] >= s - 1}
    <2>2. \A i \in p - 1 .. q - 1 : i \in G
      <3>1. p - 1 \in G
        BY <1>0, <2>1
      <3>2. \A i \in p - 1 .. q - 1 - 1 : i \in G => i + 1 \in G
        <4> SUFFICES ASSUME NEW i \in p - 1 .. q - 1 - 1, cut[i] >= s - 1
                     PROVE  i + 1 \in p - 1 .. q - 1 /\ cut[i + 1] >= s - 1
          OBVIOUS
        <4>1. i + 1 \in p .. n /\ i + 1 \in p .. q - 1 /\ (i + 1) - 1 = i
          BY <1>0
        <4>2. cut[i + 1] >= cut[i] /\ cut[i] \in Int /\ cut[i + 1] \in Int
          BY <1>0, <2>1, <4>1 DEF Piece
        <4> QED
          BY <1>0, <4>1, <4>2
      <3>3. p - 1 \in Nat /\ q - 1 \in Nat
        BY <1>0
      <3> HIDE DEF G
      <3> QED
        BY <3>1, <3>2, <3>3, UpTo
    <2> DEFINE r == cut[q - 1] + 1
               rest == [i \in q - 1 .. n |-> cut[i]]
    <2>3. r \in s .. l + 1 /\ r - 1 = cut[q - 1]
      <3>1. q - 1 \in p - 1 .. q - 1 /\ q - 1 \in p - 1 .. n
        BY <1>0
      <3>2. cut[q - 1] >= s - 1 /\ cut[q - 1] \in 0 .. l
        BY <2>1, <2>2, <3>1
      <3> DEFINE c == cut[q - 1]
      <3>3. c >= s - 1 /\ c \in 0 .. l /\ r = c + 1
        BY <3>2
      <3> HIDE DEF c, r
      <3>4. r \in s .. l + 1 /\ r - 1 = c
        BY <1>0, <3>3
      <3> QED
        BY <3>4 DEF c
    <2>4. /\ rest \in [q - 1 .. n -> 0 .. l]
          /\ \A i \in q - 1 .. n : rest[i] = cut[i]
      BY <1>0, <2>1
    <2> HIDE DEF rest, r
    <2>5. \A i \in q .. n : Piece(pat, str, i, rest[i - 1], rest[i])
      <3> TAKE i \in q .. n
      <3>1. i \in q - 1 .. n /\ i - 1 \in q - 1 .. n /\ i \in p .. n
        BY <1>0
      <3> QED
        BY <2>1, <2>4, <3>1
    <2>6. CutFrom(pat, str, q, r, rest)
      BY <1>0, <2>1, <2>3, <2>4, <2>5 DEF CutFrom, n, l
    <2> QED
      BY <2>3, <2>6 DEF MeansFrom
  <1>2. ASSUME NEW r \in s .. l + 1, NEW cut, CutFrom(pat, str, q, r, cut)
        PROVE  MeansFrom(pat, str, p, s)
    <2>1. /\ cut \in [q - 1 .. n -> 0 .. l] /\ cut[q - 1] = r - 1 /\ cut[n] = l
          /\ \A i \in q .. n : Piece(pat, str, i, cut[i - 1], cut[i])
      BY <1>2 DEF CutFrom, n, l
    <2> DEFINE all == [i \in p - 1 .. n |-> IF i < p THEN s - 1
                                            ELSE IF i < q THEN r - 1 ELSE cut[i]]
    <2>2. r - 1 \in 0 .. l /\ s - 1 \in 0 .. l /\ r - 1 >= s - 1
      BY <1>0
    <2>3. /\ all \in [p - 1 .. n -> 0 .. l] /\ all[p - 1] = s - 1
          /\ \A i \in p .. q - 1 : all[i] = r - 1
          /\ \A i \in q .. n : all[i] = cut[i]
      BY <1>0, <2>1, <2>2, SMTT(40)
    <2> HIDE DEF all
    <2>4. all[q - 1] = cut[q - 1]
      BY <1>0, <2>1, <2>3
    <2>5. ASSUME NEW i \in p .. n PROVE Piece(pat, str, i, all[i - 1], all[i])
      <3>1. CASE i \in p .. q - 1
        <4>1. all[i] = r - 1 /\ (all[i - 1] = s - 1 \/ all[i - 1] = r - 1)
          BY <1>0, <2>3, <3>1, SMTT(40)
        <4> QED
          BY <2>2, <3>1, <4>1 DEF Piece
      <3>2. CASE i \in q .. n
        <4>1. all[i] = cut[i] /\ (i = q \/ i - 1 \in q .. n)
          BY <1>0, <2>3, <3>2
        <4>2. all[i - 1] = cut[i - 1]
          BY <2>3, <2>4, <4>1
        <4> QED
          BY <2>1, <3>2, <4>1, <4>2
      <3> QED
        BY <1>0, <3>1, <3>2
    <2>6. all[n] = l
      BY <1>0, <2>1, <2>3, <2>4, SMTT(40)
    <2>7. CutFrom(pat, str, p, s, all)
      BY <1>0, <2>3, <2>5, <2>6 DEF CutFrom, n, l
    <2> QED
      BY <2>7 DEF MeansFrom
  <1> QED
    BY <1>1, <1>2 DEF MeansFrom, l

\* The recursion computes the documented meaning of a pattern.
LEMMA GlobMatchMeans ==
    ASSUME NEW S, NEW pat \in Seq(S), NEW str \in Seq(S)
    PROVE  GlobMatch(pat, str) <=> MeansFrom(pat, str, 1, 1)
  <1> DEFINE n == Len(pat)
             l == Len(str)
  <1>0. n \in Nat /\ l \in Nat
    OBVIOUS
  <1>1. PICK f : /\ \A p \in 1 .. n + 1 : f[p] = GlobRow(f, pat, str, p)
                 /\ GlobMatch(pat, str) <=> 1 \in f[1]
    BY GlobDefined
  <1> DEFINE Right(p) == \A s \in Positions(str) : s \in f[p] <=> MeansFrom(pat, str, p, s)
             G == {k \in 0 .. n : \A p \in n + 1 - k .. n + 1 : Right(p)}
  <1> HIDE DEF n, l
  <1>2. Right(n + 1)
    <2>0. n + 1 \in 1 .. n + 1 /\ n + 1 > n
      BY <1>0
    <2>1. f[n + 1] = {l + 1}
      BY <1>1, <2>0 DEF GlobRow, n, l
    <2> QED
      BY <2>1, MeansAtEnd DEF n, l
  <1>3. 0 \in G
    <2>1. 0 \in 0 .. n /\ \A p \in n + 1 - 0 .. n + 1 : p = n + 1
      BY <1>0
    <2> HIDE DEF Right
    <2> QED
      BY <1>2, <2>1
  <1>4. ASSUME NEW k \in 0 .. n - 1, k \in G PROVE k + 1 \in G
    <2> DEFINE t == n - k
    <2>0. /\ t \in 1 .. n /\ n + 1 - k = t + 1 /\ n + 1 - (k + 1) = t /\ k + 1 \in 0 .. n
          /\ t .. n + 1 = {t} \cup (t + 1 .. n + 1)
      BY <1>0
    <2>1. \A p \in t + 1 .. n + 1 : Right(p)
      BY <1>4, <2>0
    <2> HIDE DEF t
    <2>2. f[t] = GlobRow(f, pat, str, t) /\ ~(t > n)
      BY <1>0, <1>1, <2>0
    <2>3. ASSUME NEW s \in Positions(str)
          PROVE  s \in f[t] <=> MeansFrom(pat, str, t, s)
      <3>1. CASE pat[t] = "*"
        <4> DEFINE q == AfterStars(pat, t)
        <4>1. q \in t + 1 .. n + 1 /\ \A i \in t .. q - 1 : pat[i] = "*"
          BY <2>0, <3>1, AfterStarsDefined DEF n
        <4>2. s \in f[t] <=> q > n \/ \E r \in s .. l + 1 : r \in f[q]
          BY <2>2, <3>1 DEF GlobRow, n, l
        <4> HIDE DEF q
        <4>3. MeansFrom(pat, str, t, s) <=> \E r \in s .. l + 1 : MeansFrom(pat, str, q, r)
          BY <2>0, <4>1, MeansStars DEF n, l
        <4>4. \A r \in s .. l + 1 : r \in Positions(str)
          BY <1>0 DEF Positions, l
        <4>5. \A r \in s .. l + 1 : r \in f[q] <=> MeansFrom(pat, str, q, r)
          BY <2>1, <4>1, <4>4
        <4>6. q > n => \E r \in s .. l + 1 : r \in f[q]
          <5> SUFFICES ASSUME q > n PROVE \E r \in s .. l + 1 : r \in f[q]
            OBVIOUS
          <5>1. q = n + 1 /\ l + 1 \in s .. l + 1 /\ l + 1 \in Positions(str)
            BY <1>0, <2>0, <4>1 DEF Positions, l
          <5>2. l + 1 \in f[q]
            BY <5>1, <4>5, MeansAtEnd DEF n, l
          <5> QED
            BY <5>1, <5>2
        <4> QED
          BY <4>2, <4>3, <4>5, <4>6
      <3>2. CASE pat[t] # "*"
        <4>1. s \in f[t] <=> s \in 1 .. l /\ pat[t] \in {"?", str[s]} /\ s + 1 \in f[t + 1]
          BY <2>2, <3>2 DEF GlobRow, n, l
        <4>2. MeansFrom(pat, str, t, s) <=>
                /\ s \in 1 .. l /\ pat[t] \in {"?", str[s]}
                /\ MeansFrom(pat, str, t + 1, s + 1)
          BY <2>0, <3>2, MeansStep DEF n, l
        <4>3. s \in 1 .. l => s + 1 \in Positions(str)
          BY <1>0 DEF Positions, l
        <4>4. t + 1 \in t + 1 .. n + 1
          BY <2>0, <1>0
        <4> QED
          BY <2>1, <4>1, <4>2, <4>3, <4>4
      <3> QED
        BY <3>1, <3>2
    <2> QED
      BY <2>0, <2>1, <2>3
  <1>5. Right(1)
    <2> HIDE DEF G
    <2>1. \A k \in 0 .. n - 1 : k \in G => k + 1 \in G
      BY <1>4
    <2>2. \A k \in 0 .. n : k \in G
      BY <1>0, <1>3, <2>1, UpTo
    <2>3. n \in G /\ 1 \in n + 1 - n .. n + 1
      BY <1>0, <2>2
    <2> HIDE DEF Right
    <2> QED
      BY <2>3 DEF G
  <1> QED
    BY <1>0, <1>1, <1>5 DEF Positions, l
=============================================================================
