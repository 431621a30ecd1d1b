----------------------------- MODULE ConfigProofs ----------------------------
(* Theorems about Config, for every configuration file and environment.     *)
EXTENDS SpellingProofs

-----------------------------------------------------------------------------
(* Versions.                                                                *)

\* Tuple comparison is numeric comparison with the missing parts as 0, but for a
\* proper prefix (version_at_least).
LEMMA ComparisonOfTuples ==
    ASSUME NEW a, IsVersion(a), NEW m, IsVersion(m), a # <<>>
    PROVE VersionAtLeast(a, m) <=> AtOrAbove(a, m) /\ ~IsStrictPrefix(a, m)
<1> SUFFICES ASSUME NEW n, n = Len(a), NEW l, l = Len(m)
            PROVE VersionAtLeast(a, m) <=> AtOrAbove(a, m) /\ ~IsStrictPrefix(a, m)
  OBVIOUS
<1>1. /\ n \in 0..3 /\ l \in 0..3 /\ n # 0
      /\ DOMAIN a = 1..n /\ DOMAIN m = 1..l
      /\ \A i \in 1..n : a[i] \in Nat
      /\ \A i \in 1..l : m[i] \in Nat
  <2>1. a \in Seq(Nat) /\ m \in Seq(Nat) /\ n <= 3 /\ l <= 3
    BY DEF IsVersion
  <2>2. n \in 0..3 /\ l \in 0..3
    <3>1. Len(a) \in Nat /\ Len(m) \in Nat
      BY <2>1
    <3>2. n \in Nat /\ l \in Nat
      BY <3>1
    <3>3. n <= 3 /\ l <= 3
      BY <2>1
    <3> QED
      BY <3>2, <3>3
  <2>3. DOMAIN a = 1..n /\ DOMAIN m = 1..l
    BY <2>1
  <2>4. n # 0
    BY <2>1
  <2>5. \A i \in 1..Len(a) : a[i] \in Nat
    BY <2>1
  <2>6. \A i \in 1..Len(m) : m[i] \in Nat
    BY <2>1
  <2> QED
    BY <2>2, <2>3, <2>4, <2>5, <2>6
<1>2. /\ \A i \in 1..n : Part(a, i) = a[i]
      /\ \A i \in 1..l : Part(m, i) = m[i]
      /\ \A i \in (n + 1)..3 : Part(a, i) = 0
      /\ \A i \in (l + 1)..3 : Part(m, i) = 0
  BY <1>1 DEF Part
<1>3. \A i \in 1..3 : Part(a, i) \in Nat /\ Part(m, i) \in Nat
  BY <1>1 DEF Part
<1>4. Below(a, m) <=>
        \E k \in 1..l : /\ \A i \in 1..(k - 1) : i <= n /\ a[i] = m[i]
                        /\ k <= n => a[k] < m[k]
  <2>1. \A k \in 1..l : k \in DOMAIN a <=> k <= n
    BY <1>1
  <2>2. \A k \in 1..l : \A i \in 1..(k - 1) : i \in DOMAIN a <=> i <= n
    BY <1>1
  <2> QED
    BY <1>1, <2>1, <2>2, Zenon DEF Below
<1>5. IsStrictPrefix(a, m) <=> n < l /\ \A i \in 1..n : a[i] = m[i]
  BY <1>1, SMTT(30) DEF IsVersion, IsStrictPrefix, IsPrefix
<1>6. a # <<>>
  BY <1>1
<1>7. CASE n = 1
  BY <1>1, <1>2, <1>3, <1>4, <1>5, <1>6, <1>7, SMTT(40) DEF VersionAtLeast, AtOrAbove
<1>8. CASE n = 2
  BY <1>1, <1>2, <1>3, <1>4, <1>5, <1>6, <1>8, SMTT(40) DEF VersionAtLeast, AtOrAbove
<1>9. CASE n = 3
  BY <1>1, <1>2, <1>3, <1>4, <1>5, <1>6, <1>9, SMTT(40) DEF VersionAtLeast, AtOrAbove
<1> QED
  BY <1>1, <1>7, <1>8, <1>9

\* Comparison of texts is a strict order.
LEMMA ComparisonOfTexts ==
    ASSUME NEW a \in Seq(Int), NEW b \in Seq(Int), NEW c \in Seq(Int)
    PROVE  ~Below(a, a) /\ (Below(a, b) /\ Below(b, c) => Below(a, c))
<1>1. /\ DOMAIN a = 1..Len(a) /\ DOMAIN b = 1..Len(b) /\ DOMAIN c = 1..Len(c)
      /\ \A i \in DOMAIN a : a[i] \in Int
      /\ \A i \in DOMAIN b : b[i] \in Int
      /\ \A i \in DOMAIN c : c[i] \in Int
      /\ Len(a) \in Nat /\ Len(b) \in Nat /\ Len(c) \in Nat
  OBVIOUS
<1>2. ~Below(a, a)
  <2> SUFFICES ASSUME NEW k \in DOMAIN a, a[k] < a[k] PROVE FALSE
    BY DEF Below
  <2>1. a[k] \in Int
    BY <1>1
  <2> QED
    BY <2>1
<1>3. ASSUME Below(a, b), Below(b, c) PROVE Below(a, c)
  <2>1. PICK k \in DOMAIN b : /\ \A i \in 1..(k - 1) : i \in DOMAIN a /\ a[i] = b[i]
                              /\ k \in DOMAIN a => a[k] < b[k]
    BY <1>3 DEF Below
  <2>2. PICK l \in DOMAIN c : /\ \A i \in 1..(l - 1) : i \in DOMAIN b /\ b[i] = c[i]
                              /\ l \in DOMAIN b => b[l] < c[l]
    BY <1>3 DEF Below
  <2>3. k \in 1..Len(b) /\ l \in 1..Len(c) /\ k \in Nat /\ l \in Nat
    BY <1>1
  <2>4. CASE l < k
    <3>1. l \in 1..(k - 1) /\ l \in DOMAIN b /\ \A i \in 1..(l - 1) : i \in 1..(k - 1)
      BY <1>1, <2>3, <2>4, SMTT(40)
    <3>2. l \in DOMAIN a /\ a[l] = b[l]
      BY <2>1, <3>1, Zenon
    <3>3. b[l] < c[l]
      BY <2>2, <3>1, Zenon
    <3>4. \A i \in 1..(l - 1) : i \in DOMAIN a /\ a[i] = c[i]
      <4> TAKE i \in 1..(l - 1)
      <4>1. i \in DOMAIN a /\ a[i] = b[i]
        BY <2>1, <3>1, Zenon
      <4>2. b[i] = c[i]
        BY <2>2, Zenon
      <4> QED
        BY <4>1, <4>2
    <3>5. a[l] < c[l]
      BY <3>2, <3>3
    <3> QED
      BY <3>4, <3>5 DEF Below
  <2>5. CASE l = k
    <3>1. l \in DOMAIN a => a[l] < c[l]
      <4> SUFFICES ASSUME l \in DOMAIN a PROVE a[l] < c[l]
        OBVIOUS
      <4>1. a[l] < b[l]
        BY <2>1, <2>5
      <4>2. l \in DOMAIN b
        BY <2>5
      <4>3. b[l] < c[l]
        BY <2>2, <4>2
      <4>4. a[l] \in Int /\ b[l] \in Int /\ c[l] \in Int
        BY <1>1, <4>2
      <4> QED
        BY <4>1, <4>3, <4>4
    <3>2. \A i \in 1..(l - 1) : i \in DOMAIN a /\ a[i] = c[i]
      <4> TAKE i \in 1..(l - 1)
      <4>1. i \in DOMAIN a /\ a[i] = b[i]
        BY <2>1, <2>5
      <4>2. b[i] = c[i]
        BY <2>2, Zenon
      <4> QED
        BY <4>1, <4>2
    <3> QED
      BY <3>1, <3>2 DEF Below
  <2>6. CASE k < l
    <3>1. k \in 1..(l - 1) /\ \A i \in 1..(k - 1) : i \in 1..(l - 1)
      BY <1>1, <2>3, <2>6
    <3>2. k \in DOMAIN b /\ b[k] = c[k]
      BY <2>2, <3>1, Zenon
    <3>3. k \in DOMAIN a => a[k] < c[k]
      <4>1. k \in DOMAIN a => a[k] < b[k]
        BY <2>1, Zenon
      <4> QED
        BY <3>2, <4>1
    <3>4. \A i \in 1..(k - 1) : i \in DOMAIN a /\ a[i] = c[i]
      <4> TAKE i \in 1..(k - 1)
      <4>1. i \in DOMAIN a /\ a[i] = b[i]
        BY <2>1, Zenon
      <4>2. b[i] = c[i]
        BY <2>2, <3>1, Zenon
      <4> QED
        BY <4>1, <4>2
    <3>5. k \in DOMAIN c
      BY <1>1, <2>3, <2>6
    <3> QED
      BY <3>3, <3>4, <3>5 DEF Below
  <2> QED
    BY <2>3, <2>4, <2>5, <2>6
<1> QED
  BY <1>2, <1>3

\* Of finitely many names one is the last (max in _discover_godot).
LEMMA ThereIsALastName ==
    ASSUME NEW pool, IsFiniteSet(pool), pool # {}, \A v \in pool : Name(v) \in Seq(Int)
    PROVE  LastName(pool) \in pool
<1>0. PICK n \in Nat : ExistsSurjection(1..n, pool)
  BY FS_NatSurjection
<1>1. PICK f : f \in Surjection(1..n, pool)
  BY <1>0 DEF ExistsSurjection
<1>2. f \in [1..n -> pool] /\ \A v \in pool : \E i \in 1..n : f[i] = v
  BY <1>1 DEF Surjection
<1>3. n # 0
  BY <1>2
<1> DEFINE IsLast(j, k) == j \in 1..k /\ \A i \in 1..k : ~Below(Name(f[j]), Name(f[i]))
           H == {k \in Nat : \E j : IsLast(j, k)}
<1>4. 1 \in H
  <2>1. f[1] \in pool
    BY <1>2, <1>3
  <2>2. ~Below(Name(f[1]), Name(f[1]))
    BY <2>1, ComparisonOfTexts
  <2>3. IsLast(1, 1)
    BY <2>2
  <2> QED
    BY <2>3
<1>5. ASSUME NEW k \in 1..n - 1, k \in H PROVE k + 1 \in H
  <2>1. PICK j : IsLast(j, k)
    BY <1>5
  <2>2. /\ k + 1 \in 1..n /\ \A i \in 1..k + 1 : i \in 1..k \/ i = k + 1
        /\ 1..k \subseteq 1..n /\ k + 1 \in Nat /\ j \in 1..k + 1 /\ k + 1 \in 1..k + 1
    BY <2>1
  <2>3. \A i \in 1..k + 1 : f[i] \in pool /\ Name(f[i]) \in Seq(Int)
    BY <1>2, <2>2
  <2>4. CASE ~Below(Name(f[j]), Name(f[k + 1]))
    <3>1. IsLast(j, k + 1)
      BY <2>1, <2>2, <2>4
    <3> QED
      BY <2>2, <3>1
  <2>5. CASE Below(Name(f[j]), Name(f[k + 1]))
    <3>1. ASSUME NEW i \in 1..k PROVE ~Below(Name(f[k + 1]), Name(f[i]))
      <4>1. i \in 1..k + 1
        OBVIOUS
      <4>2. ~Below(Name(f[j]), Name(f[i]))
        BY <2>1
      <4> QED
        BY <2>2, <2>3, <2>5, <4>1, <4>2, ComparisonOfTexts
    <3>2. ~Below(Name(f[k + 1]), Name(f[k + 1]))
      BY <2>2, <2>3, ComparisonOfTexts
    <3>3. IsLast(k + 1, k + 1)
      BY <2>2, <3>1, <3>2
    <3> QED
      BY <2>2, <3>3
  <2> QED
    BY <2>4, <2>5
<1>6. n \in H
  <2> HIDE DEF H
  <2>1. \A k \in 1..n : k \in H
    BY <1>4, <1>5, Ops!UpTo
  <2>2. n \in 1..n
    BY <1>3
  <2> QED
    BY <2>1, <2>2
<1>7. PICK j : IsLast(j, n)
  BY <1>6
<1>8. f[j] \in pool /\ \A other \in pool : ~Below(Name(f[j]), Name(other))
  BY <1>2, <1>7
<1> QED
  BY <1>8 DEF LastName

\* What the versions that lie around are, and their names.
Nearby(S) ==
    /\ IsFiniteSet(S)
    /\ \A v \in S : IsVersion(v) /\ Len(v) \in {2, 3} /\ Range(v) \subseteq DOMAIN Digits
LEMMA NearbyParts ==
    ASSUME NEW S, Nearby(S), NEW v \in S
    PROVE  /\ v # <<>> /\ DOMAIN v = 1..Len(v) /\ Len(v) \in {2, 3}
           /\ \A i \in 1..Len(v) : v[i] \in Nat
           /\ MajorMinor(v) \in Seq(Int)
           /\ \E rest \in Seq(Int) : Name(v) = MajorMinor(v) \o rest
<1>1. v \in Seq(Nat) /\ Len(v) \in {2, 3}
  BY DEF Nearby, IsVersion
<1>2. DOMAIN v = 1..Len(v) /\ (\A i \in 1..Len(v) : v[i] \in Nat) /\ v # <<>>
  <2>1. DOMAIN v = 1..Len(v) /\ \A i \in 1..Len(v) : v[i] \in Nat
    BY <1>1
  <2>2. v # <<>>
    <3> SUFFICES ASSUME v = <<>> PROVE FALSE
      OBVIOUS
    <3>1. Len(v) = 0
      OBVIOUS
    <3> QED
      BY <1>1, <3>1
  <2> QED
    BY <2>1, <2>2
<1>3. \A i \in 1..Len(v) : Digits[v[i]] \in Seq(Int)
  <2>1. \A i \in 1..Len(v) : v[i] \in DOMAIN Digits
    BY <1>2 DEF Nearby, Range
  <2>2. \A x \in DOMAIN Digits : Digits[x] \in Seq(0..9)
    BY DigitsAssumption
  <2>3. \A s \in Seq(0..9) : s \in Seq(Int)
    OBVIOUS
  <2> QED
    BY <2>1, <2>2, <2>3
<1>4. Digits[v[1]] \in Seq(Int) /\ Digits[v[2]] \in Seq(Int)
      /\ (Len(v) = 3 => Digits[v[3]] \in Seq(Int))
  BY <1>1, <1>3
<1>5. <<Dot>> \in Seq(Int) /\ <<>> \in Seq(Int)
  BY DEF Dot
<1>6. MajorMinor(v) \in Seq(Int)
  BY <1>4, <1>5 DEF MajorMinor
<1>7. (IF Len(v) = 2 THEN <<>> ELSE <<Dot>> \o Digits[v[3]]) \in Seq(Int)
  <2>1. CASE Len(v) = 2
    BY <2>1
  <2>2. CASE Len(v) = 3
    BY <2>2, <1>4, <1>5
  <2> QED
    BY <2>1, <2>2, <1>1
<1>8. \E rest \in Seq(Int) : Name(v) = MajorMinor(v) \o rest
  BY <1>7 DEF Name
<1> QED
  BY <1>1, <1>2, <1>6, <1>8

-----------------------------------------------------------------------------
(* Types.                                                                   *)

\* The reader stays within the file, and an error names a line it has read.
THEOREM TypesHold == Spec => []TypeOK
<1>1. Init => TypeOK
  <2> SUFFICES ASSUME Init PROVE TypeOK
    OBVIOUS
  <2>1. Len(lines) \in Nat
    BY DocumentsAssumption DEF Init, ReadInit, lines
  <2> QED
    BY <2>1 DEF Init, ReadInit, TypeOK, NotJudged
<1>2. TypeOK /\ [Next]_vars => TypeOK'
  <2> SUFFICES ASSUME TypeOK, [Next]_vars PROVE TypeOK'
    OBVIOUS
  <2>1. Len(lines) \in Nat /\ index \in 0..Len(lines) /\ outcome.line \in 0..index
    BY DocumentsAssumption DEF TypeOK, lines
  <2>2. CASE Read /\ UNCHANGED <<config, facts, verdict>>
    <3>1. document' = document /\ lines' = lines
      BY <2>2 DEF Read, SkipLine, EnterSection, BeginAssignment, JoinLine, RaiseUnterminated,
                  Store, Finish, lines
    <3>2. outcome.status = "reading" /\ config.status = "none" /\ ~verdict.given
      <4>1. outcome.status = "reading"
        BY <2>2 DEF Read, SkipLine, EnterSection, BeginAssignment, JoinLine, RaiseUnterminated,
                    Store, Finish, AtALine, Reading
      <4> QED
        BY <4>1 DEF TypeOK
    <3>3. index' \in 0..Len(lines) /\ index <= index'
      <4>1. CASE SkipLine \/ EnterSection \/ BeginAssignment \/ JoinLine
        <5>1. index' = index + 1 /\ index < Len(lines)
          BY <4>1 DEF SkipLine, EnterSection, BeginAssignment, JoinLine, AtALine
        <5> QED
          BY <5>1, <2>1
      <4>2. CASE RaiseUnterminated \/ Store \/ Finish
        BY <4>2, <2>1 DEF RaiseUnterminated, Store, Finish
      <4> QED
        BY <2>2, <4>1, <4>2 DEF Read
    <3>4. pending' # Nothing => pending'.line \in 1..index'
      <4>1. CASE SkipLine \/ EnterSection \/ RaiseUnterminated \/ Store \/ Finish
        BY <4>1, <2>1, <3>3 DEF SkipLine, EnterSection, RaiseUnterminated, Store, Finish, TypeOK
      <4>2. CASE BeginAssignment
        <5>1. pending'.line = index + 1 /\ index' = index + 1
          BY <4>2 DEF BeginAssignment
        <5> QED
          BY <5>1, <2>1
      <4>3. CASE JoinLine
        <5>1. pending'.line = pending.line /\ pending.line \in 1..index
          BY <4>3 DEF JoinLine, TypeOK
        <5> QED
          BY <5>1, <2>1, <3>3
      <4> QED
        BY <2>2, <4>1, <4>2, <4>3 DEF Read
    <3>5. outcome'.status \in {"reading", "read", "error", "crash"} /\ outcome'.line \in 0..index'
      <4>1. pending # Nothing => pending.line \in 1..index
        BY DEF TypeOK
      <4>2. CASE SkipLine \/ BeginAssignment \/ JoinLine \/ Finish
        <5>1. outcome' = outcome \/ outcome' = [status |-> "read", line |-> 0]
          BY <4>2 DEF SkipLine, BeginAssignment, JoinLine, Finish
        <5> QED
          BY <5>1, <2>1, <3>2, <3>3
      <4>3. CASE EnterSection
        BY <4>3, <2>1, <3>2, <3>3 DEF EnterSection, AtALine, Fail
      <4>4. CASE RaiseUnterminated \/ Store
        BY <4>1, <4>4, <2>1, <3>2, <3>3 DEF RaiseUnterminated, Store, Fail
      <4> QED
        BY <2>2, <4>2, <4>3, <4>4 DEF Read
    <3> QED
      BY <2>2, <3>1, <3>2, <3>3, <3>4, <3>5 DEF TypeOK
  <2>3. CASE LoadConfig
    <3>1. facts' \in Environments[document.place] /\ UNCHANGED <<reader, verdict>>
          /\ outcome.status = "read" /\ config.status = "none"
      BY <2>3 DEF LoadConfig
    <3>2. config'.status \in {"loaded", "error", "crash"}
      BY <2>3 DEF LoadConfig
    <3>3. config'.status = "loaded" => DOMAIN config'.is = DOMAIN Places
      <4> DEFINE settings == [field \in DOMAIN Places |-> First(field, Root)]
      <4> SUFFICES ASSUME config'.status = "loaded" PROVE DOMAIN config'.is = DOMAIN Places
        OBVIOUS
      <4>1. config' = [status |-> "loaded", is |-> WithDerivedPair(settings, facts')]
        BY <2>3 DEF LoadConfig
      <4>2. DOMAIN WithDerivedPair(settings, facts') = DOMAIN Places
        BY DEF WithDerivedPair
      <4> QED
        BY <4>1, <4>2
    <3> QED
      BY <3>1, <3>2, <3>3 DEF TypeOK, reader, lines
  <2>4. CASE Judge
    BY <2>4 DEF Judge, TypeOK, reader, lines
  <2>5. CASE UNCHANGED vars
    BY <2>5 DEF vars, reader, TypeOK, lines
  <2> QED
    BY <2>2, <2>3, <2>4, <2>5 DEF Next, Done
<1> QED
  BY <1>1, <1>2, PTL DEF Spec

-----------------------------------------------------------------------------
(* The verdict.                                                             *)

\* A verdict is that of the checks, on the settings and in the environment at hand,
\* and that environment's Godot has a version, as have those that lie around.
VerdictIsTheChecks ==
    /\ config.status \in {"loaded"} => IsVersion(facts.named) /\ Nearby(facts.nearby)
    /\ verdict.given =>
        /\ config.status = "loaded"
        /\ verdict.doctor = RunDoctor(config.is, facts, FALSE)
        /\ verdict.test_doctor = RunDoctor(config.is, facts, TRUE)
        /\ verdict.build = BuildStarts(config.is, facts)
        /\ verdict.version = VersionAtLeast(Godot(config.is, facts), Minimum(config.is))
        /\ verdict.sources = IF BuildStarts(config.is, facts) THEN DiscoverSources(config.is) ELSE {}

\* What the reader does leaves settings and verdict alone.
LEMMA VerdictStaysTheChecks == Spec => []VerdictIsTheChecks
<1> DEFINE I == VerdictIsTheChecks /\ document \in Documents
<1>1. Init => I
  BY DEF Init, ReadInit, VerdictIsTheChecks, NotJudged
<1>2. I /\ [Next]_vars => I'
  <2> SUFFICES ASSUME I, [Next]_vars PROVE I'
    OBVIOUS
  <2>1. CASE Read /\ UNCHANGED <<config, facts, verdict>>
    <3>1. document' = document
      BY <2>1 DEF Read, SkipLine, EnterSection, BeginAssignment, JoinLine, RaiseUnterminated,
                  Store, Finish
    <3> QED
      BY <2>1, <3>1 DEF VerdictIsTheChecks
  <2>2. CASE LoadConfig
    <3>1. facts' \in Environments[document.place]
      BY <2>2 DEF LoadConfig
    <3>2. IsVersion(facts'.named) /\ Nearby(facts'.nearby)
      BY <3>1, EnvironmentsAssumption DEF Nearby
    <3>3. ~verdict.given /\ verdict' = verdict /\ document' = document
      BY <2>2 DEF LoadConfig, VerdictIsTheChecks, reader
    <3> QED
      BY <3>2, <3>3 DEF VerdictIsTheChecks, IsVersion, Nearby
  <2>3. CASE Judge
    <3>1. /\ config' = config /\ facts' = facts /\ document' = document
          /\ config.status = "loaded"
      BY <2>3 DEF Judge, reader
    <3>2. /\ verdict'.given
          /\ verdict'.doctor = RunDoctor(config.is, facts, FALSE)
          /\ verdict'.test_doctor = RunDoctor(config.is, facts, TRUE)
          /\ verdict'.build = BuildStarts(config.is, facts)
          /\ verdict'.version = VersionAtLeast(Godot(config.is, facts), Minimum(config.is))
          /\ verdict'.sources = IF BuildStarts(config.is, facts) THEN DiscoverSources(config.is) ELSE {}
      BY <2>3 DEF Judge
    <3> QED
      BY <3>1, <3>2 DEF VerdictIsTheChecks
  <2>4. CASE UNCHANGED vars
    BY <2>4 DEF vars, reader, VerdictIsTheChecks
  <2> QED
    BY <2>1, <2>2, <2>3, <2>4 DEF Next, Done
<1> QED
  BY <1>1, <1>2, PTL DEF Spec

\* docs/configuration.md promises that a binary at or above the minimum runs the tests:
\* for all versions nothing below it passes, and whatever is at or above it does, unless
\* it names fewer parts than the minimum (version_at_least).
THEOREM VersionsAreNumbers == Spec => []VersionsCompare
<1>1. VerdictIsTheChecks => VersionsCompare
  <2> SUFFICES ASSUME VerdictIsTheChecks, verdict.given, facts.named # NoGodot
               PROVE LET minimum == Minimum(config.is) IN
                     verdict.version <=> /\ AtOrAbove(facts.named, minimum)
                                         /\ ~IsStrictPrefix(facts.named, minimum)
    BY DEF VersionsCompare
  <2>1. IsVersion(facts.named) /\ verdict.version = VersionAtLeast(facts.named, Minimum(config.is))
    BY DEF VerdictIsTheChecks, Godot
  <2>2. IsVersion(Minimum(config.is))
    BY VersionsAssumption DEF Minimum, IsVersion
  <2> QED
    BY <2>1, <2>2, ComparisonOfTuples DEF NoGodot
<1> QED
  BY <1>1, VerdictStaysTheChecks, PTL

\* Whatever binaries lie around, and whatever their numbers: a search passes only if one
\* of them will do, and one of the very major.minor that is asked for is preferred to all
\* that do not have its characters in their names (_discover_godot).
THEOREM AGodotThatWillDoIsFound == Spec => []NearbyGodotIsFound
<1>1. VerdictIsTheChecks => NearbyGodotIsFound
  <2> DEFINE m == Minimum(config.is)
             near == facts.nearby
             of_it == {v \in near : SubSeq(v, 1, 2) = m}
             matching == {v \in near : Mentions(v, m)}
             pool == IF matching # {} THEN matching ELSE near
             found == IF pool = {} THEN NoGodot ELSE LastName(pool)
  <2> SUFFICES ASSUME VerdictIsTheChecks, verdict.given, facts.named = NoGodot
               PROVE  /\ verdict.version => \E v \in near : AtOrAbove(v, m)
                      /\ of_it # {} /\ (\A v \in near : Mentions(v, m) => v \in of_it) =>
                             verdict.version
    BY DEF NearbyGodotIsFound
  <2>1. IsVersion(m)
    BY VersionsAssumption DEF Minimum, IsVersion
  <2>2. Nearby(near) /\ verdict.version = VersionAtLeast(found, m)
    BY DEF VerdictIsTheChecks, Godot, DiscoverGodot
  <2> HIDE DEF m, near
  <2>3. CASE near = {}
    <3>1. found = NoGodot /\ of_it = {}
      BY <2>3
    <3> QED
      BY <2>2, <3>1 DEF VersionAtLeast, NoGodot
  <2>4. CASE near # {}
    <3>1. pool \in SUBSET near /\ pool # {}
      BY <2>4
    <3>2. \A v \in near : Name(v) \in Seq(Int)
      <4> SUFFICES ASSUME NEW v \in near PROVE Name(v) \in Seq(Int)
        OBVIOUS
      <4>1. PICK rest \in Seq(Int) : Name(v) = MajorMinor(v) \o rest
        BY <2>2, NearbyParts
      <4> QED
        BY <4>1, <2>2, NearbyParts
    <3>3. found \in pool
      <4> HIDE DEF pool
      <4>1. IsFiniteSet(pool)
        BY <2>2, <3>1, FS_Subset DEF Nearby
      <4>2. \A v \in pool : Name(v) \in Seq(Int)
        BY <3>1, <3>2
      <4>3. LastName(pool) \in pool
        BY <3>1, <4>1, <4>2, ThereIsALastName
      <4> QED
        BY <3>1, <4>3
    <3> HIDE DEF found
    <3>4. found \in near /\ IsVersion(found) /\ found # <<>>
      BY <2>2, <3>1, <3>3, NearbyParts DEF Nearby
    <3>5. verdict.version <=> AtOrAbove(found, m) /\ ~IsStrictPrefix(found, m)
      BY <2>1, <2>2, <3>4, ComparisonOfTuples
    <3>6. ASSUME NEW w \in of_it, \A v \in near : Mentions(v, m) => v \in of_it
          PROVE  verdict.version
      <4>1. ASSUME NEW v \in of_it
            PROVE  /\ Len(m) = 2 /\ DOMAIN m = 1..2 /\ m[1] = v[1] /\ m[2] = v[2]
                   /\ Len(v) \in {2, 3} /\ DOMAIN v = 1..Len(v)
                   /\ \A i \in 1..Len(v) : v[i] \in Nat
        <5>1. v \in near /\ SubSeq(v, 1, 2) = m
          OBVIOUS
        <5>2. /\ Len(v) \in {2, 3} /\ DOMAIN v = 1..Len(v)
              /\ \A i \in 1..Len(v) : v[i] \in Nat
          BY <2>2, <5>1, NearbyParts
        <5>3. v \in Seq(Nat)
          BY <2>2, <5>1 DEF Nearby, IsVersion
        <5>4. Len(SubSeq(v, 1, 2)) = 2 /\ SubSeq(v, 1, 2)[1] = v[1] /\ SubSeq(v, 1, 2)[2] = v[2]
              /\ DOMAIN SubSeq(v, 1, 2) = 1..2
          BY <5>2, <5>3
        <5> QED
          BY <5>1, <5>2, <5>4
      <4>2. Mentions(w, m)
        <5>1. MajorMinor(m) = MajorMinor(w)
          BY <4>1 DEF MajorMinor
        <5>2. PICK rest \in Seq(Int) : Name(w) = MajorMinor(w) \o rest
          BY <2>2, NearbyParts
        <5>3. MajorMinor(w) \in Seq(Int)
          BY <2>2, NearbyParts
        <5> DEFINE p == MajorMinor(w)
        <5> HIDE DEF p
        <5>4. 0 \in 0..(Len(p \o rest) - Len(p)) /\ SubSeq(p \o rest, 0 + 1, 0 + Len(p)) = p
          <6>1. p \in Seq(Int)
            BY <5>3 DEF p
          <6>2. Len(p \o rest) = Len(p) + Len(rest) /\ Len(p) \in Nat /\ Len(rest) \in Nat
            BY <6>1
          <6>3. SubSeq(p \o rest, 1, Len(p)) = p
            BY <6>1
          <6> QED
            BY <6>2, <6>3
        <5>5. OccursIn(p, Name(w))
          BY <5>2, <5>4 DEF OccursIn, p
        <5> QED
          BY <4>1, <5>1, <5>5 DEF Mentions, p
      <4>3. matching # {}
        BY <4>2
      <4>4. Mentions(found, m)
        BY <3>3, <4>3
      <4>5. found \in of_it
        BY <3>4, <3>6, <4>4
      <4>6. AtOrAbove(found, m)
        <5>1. /\ DOMAIN m = 1..2 /\ m[1] = found[1] /\ m[2] = found[2]
              /\ Len(found) \in {2, 3} /\ DOMAIN found = 1..Len(found)
              /\ \A i \in 1..Len(found) : found[i] \in Nat
          BY <4>1, <4>5
        <5> HIDE DEF of_it
        <5> QED
          BY <5>1 DEF AtOrAbove, Part
      <4>7. ~IsStrictPrefix(found, m)
        <5>1. IsVersion(found) /\ IsVersion(m)
          BY <2>1, <3>4
        <5>2. Len(m) = 2 /\ Len(found) \in {2, 3}
          BY <4>1, <4>5
        <5> QED
          BY <5>1, <5>2, SMTT(30) DEF IsVersion, IsStrictPrefix, IsPrefix
      <4> QED
        BY <3>5, <4>6, <4>7
    <3> HIDE DEF of_it
    <3> QED
      BY <3>4, <3>5, <3>6
  <2> QED
    BY <2>3, <2>4
<1> QED
  BY <1>1, VerdictStaysTheChecks, PTL

-----------------------------------------------------------------------------
\* What no error of validate means.
LEMMA NoErrors ==
    ASSUME NEW c, NEW e, Validate(c, e) = {}
    PROVE /\ Range(c.sources) # {}
          /\ c.host_mode \in {Text("editor"), Text("runtime")}
          /\ c.plugin_class \in Identifiers
          /\ c.scan_timeout_ms > 0
<1>1. \A check \in {"sources", "host_mode", "plugin_class", "scan_timeout_ms"} :
        check \notin Validate(c, e)
  OBVIOUS
<1>2. Range(c.sources) # {}
  BY <1>1 DEF Validate, Unless
<1>3. c.host_mode \in {Text("editor"), Text("runtime")}
  BY <1>1 DEF Validate, Unless
<1>4. c.plugin_class \in Identifiers
  BY <1>1 DEF Validate, Unless
<1>5. c.scan_timeout_ms > 0
  BY <1>1 DEF Validate, Unless
<1> QED
  BY <1>2, <1>3, <1>4, <1>5

\* Where no pattern is without a match and there is a pattern, there are sources.
LEMMA SourcesAreFound ==
    ASSUME NEW c, NEW e, Validate(c, e) = {}, ZeroPatterns(c) = {}
    PROVE BuildStarts(c, e)
<1>1. Range(c.sources) # {}
  BY NoErrors
<1>2. PICK pattern \in Range(c.sources) : MatchesOf(c, pattern) # {}
  BY <1>1 DEF ZeroPatterns
<1>3. DiscoverSources(c) # {}
  BY <1>2 DEF DiscoverSources, SourcePatternMatches, Range
<1> QED
  BY <1>3 DEF BuildStarts

\* The doctor is the only place where a configuration fails: whatever it lets through,
\* the build, the version check and the generator accept (_run_doctor, _run_build,
\* cmd_test, generate_fixture).
THEOREM TheDoctorIsTheGate == Spec => []DoctorGatesTheBuild
<1>1. VerdictIsTheChecks => DoctorGatesTheBuild
  <2> SUFFICES ASSUME VerdictIsTheChecks, verdict.given
               PROVE /\ verdict.test_doctor = 0 =>
                         /\ verdict.build /\ verdict.version
                         /\ GeneratorAccepts(config.is, facts)
                         /\ facts.scons /\ facts.framework /\ facts.sconstruct # "absent"
                     /\ verdict.doctor = 0 => verdict.test_doctor = 0
    BY DEF DoctorGatesTheBuild
  <2> DEFINE c == config.is
  <2>1. ASSUME verdict.test_doctor = 0
        PROVE /\ Validate(c, facts) = {} /\ ZeroPatterns(c) = {}
              /\ VersionAtLeast(Godot(c, facts), Minimum(c))
              /\ facts.scons /\ facts.framework /\ facts.sconstruct # "absent"
              /\ c.extension_library # Unset \/ c.extension_manifest # Unset =>
                    {c.extension_library, c.extension_manifest} \subseteq facts.existing
    BY <2>1 DEF VerdictIsTheChecks, RunDoctor
  <2>2. ASSUME verdict.test_doctor = 0 PROVE verdict.build /\ verdict.version
    BY <2>1, <2>2, SourcesAreFound DEF VerdictIsTheChecks
  <2>3. ASSUME verdict.test_doctor = 0 PROVE GeneratorAccepts(c, facts)
    <3>1. /\ c.host_mode \in {Text("editor"), Text("runtime")}
          /\ c.plugin_class \in Identifiers
          /\ c.scan_timeout_ms > 0
      BY <2>1, <2>3, NoErrors
    <3>2. Present(facts, c.extension_library) /\ Present(facts, c.extension_manifest)
      BY <2>1, <2>3 DEF Present
    <3> QED
      BY <3>1, <3>2 DEF GeneratorAccepts
  <2>4. ASSUME verdict.doctor = 0 PROVE verdict.test_doctor = 0
    BY <2>4 DEF VerdictIsTheChecks, RunDoctor
  <2> QED
    BY <2>1, <2>2, <2>3, <2>4
<1> QED
  BY <1>1, VerdictStaysTheChecks, PTL

-----------------------------------------------------------------------------
(* The reader.                                                              *)
\* Read as far as assignment k, the table t is what the author of d meant: each
\* entry is the last assignment to its place, and every assignment is there or
\* below another that replaced it.
LastFor(d, i, k, p) ==
    d.means[i].path = p /\ \A j \in i + 1..k : d.means[j].path # p
TableHolds(d, t, k) ==
    /\ \A p \in DOMAIN t : \E i \in 1..k : LastFor(d, i, k, p) /\ t[p] = Value(d.means[i])
    /\ \A i \in 1..k : \E p \in DOMAIN t : IsPrefix(p, d.means[i].path)
SectionsHold(d, all) ==
    \A p \in all : p \in Seq(Words) /\ \E i \in DOMAIN d.means : IsPrefix(p, d.means[i].path)
\* The assignment under way is spelt as far as the outline says.
UnderWay(d, at, key, value) ==
    LET a == d.means[at.of] IN
    /\ at.of # 0 /\ at.upto \in 1..Pieces(a)
    /\ key = <<Last(a.path)>> /\ value = Spelling(a, at.upto)
    /\ at.section = Front(a.path)
Shaped(p) == p = [line |-> p.line, key |-> p.key, value |-> p.value]

\* The file is as its author meant it as far as line n.
Intact(n) == document.damaged = 0 \/ n < document.damaged
\* Among the assignments read one is refused; among these and the next one there is no
\* room for one.
RefusedBefore == \E i \in 1..After(document, index).of : Refused(i)
ShadowedBefore ==
    \E i \in 1..After(document, index).of + 1 : i \in DOMAIN document.means /\ Shadowed(i)
\* The reader, as far as the file is intact: it has read what the lines so far say.
ReaderInv ==
    Intact(index) =>
        LET at == After(document, index) IN
        /\ section = at.section /\ SectionsHold(document, sections) /\ Shaped(pending)
        /\ pending = Nothing => Complete(document, at) /\ TableHolds(document, table, at.of)
        /\ pending # Nothing =>
                /\ UnderWay(document, at, pending.key, pending.value)
                /\ TableHolds(document, table, at.of - 1)
        /\ outcome.status = "error" => RefusedBefore
        /\ outcome.status = "crash" => ShadowedBefore
        /\ outcome.status = "read" => index = Len(lines) /\ pending = Nothing

\* What is above what.
LEMMA PrefixOrder ==
    ASSUME NEW p \in Seq(Words), NEW q \in Seq(Words)
    PROVE  /\ IsPrefix(p, p)
           /\ q # <<>> => IsPrefix(Front(q), q)
           /\ q # <<>> /\ IsPrefix(p, Front(q)) => IsStrictPrefix(p, q)
           /\ IsPrefix(p, q) => \A r \in Seq(Words) : IsPrefix(q, r) => IsPrefix(p, r)
  <1>1. IsPrefix(p, p)
    BY PrefixParts
  <1>2. ASSUME q # <<>>
        PROVE  /\ IsPrefix(Front(q), q)
               /\ IsPrefix(p, Front(q)) => IsStrictPrefix(p, q)
    <2> DEFINE f == Front(q)
    <2>1. f \in Seq(Words) /\ Len(f) = Len(q) - 1 /\ Len(q) \in Nat /\ \A i \in 1..Len(f) : q[i] = f[i]
      <3>1. PICK n \in Nat : n + 1 = Len(q)
        <4>1. Len(q) \in Nat /\ Len(q) # 0
          BY <1>2
        <4>2. Len(q) - 1 \in Nat /\ (Len(q) - 1) + 1 = Len(q)
          BY <4>1
        <4> QED
          BY <4>2
      <3>2. f = SubSeq(q, 1, n)
        <4>1. Len(q) - 1 = n
          BY <3>1
        <4> QED
          BY <4>1, Zenon DEF Front
      <3> HIDE DEF f
      <3>3. f \in Seq(Words) /\ Len(f) = n /\ \A i \in 1..n : q[i] = f[i]
        BY <3>1, <3>2
      <3> QED
        BY <3>1, <3>3
    <2> HIDE DEF f
    <2>2. IsPrefix(f, q)
      BY <2>1, PrefixParts
    <2>3. ASSUME IsPrefix(p, f) PROVE IsStrictPrefix(p, q)
      <3>1. Len(p) <= Len(f) /\ (\A i \in 1..Len(p) : f[i] = p[i]) /\ Len(p) \in Nat
        BY <2>1, <2>3, PrefixParts
      <3>2. IsPrefix(p, q)
        <4>1. Len(p) <= Len(q)
          BY <2>1, <3>1
        <4>2. \A i \in 1..Len(p) : q[i] = p[i]
          <5>1. \A i \in 1..Len(p) : i \in 1..Len(f)
            BY <2>1, <3>1
          <5> QED
            BY <5>1, <2>1, <3>1
        <4> QED
          BY <4>1, <4>2, PrefixParts
      <3>3. p # q
        BY <2>1, <3>1
      <3> QED
        BY <3>2, <3>3 DEF IsStrictPrefix
    <2> QED
      BY <2>2, <2>3 DEF f
  <1>3. ASSUME IsPrefix(p, q), NEW r \in Seq(Words), IsPrefix(q, r) PROVE IsPrefix(p, r)
    <2>1. /\ Len(p) <= Len(q) /\ (\A i \in 1..Len(p) : q[i] = p[i]) /\ Len(p) \in Nat
          /\ Len(q) <= Len(r) /\ (\A i \in 1..Len(q) : r[i] = q[i]) /\ Len(q) \in Nat
          /\ Len(r) \in Nat
      BY <1>3, PrefixParts
    <2> QED
      BY <2>1, PrefixParts
  <1> QED
    BY <1>1, <1>2, <1>3

\* Where the reader stands in a file.
LEMMA IntactFile ==
    ASSUME document \in Documents
    PROVE  /\ Written(document) /\ lines = document.text /\ lines \in Seq(Seq(Tokens))
           /\ Len(lines) \in Nat
           /\ DOMAIN document.means = 1..Len(document.means) /\ Len(document.means) \in Nat
           /\ \A i \in DOMAIN document.means :
                /\ Meaningful(document.means[i])
                /\ document.means[i].path \in Seq(Words) /\ document.means[i].path # <<>>
  <1>1. Written(document)
    BY WrittenAssumption
  <1>2. lines = document.text /\ lines \in Seq(Seq(Tokens))
    BY DocumentsAssumption DEF lines
  <1>3. \A i \in DOMAIN document.means : Meaningful(document.means[i])
    BY <1>1 DEF Written
  <1>4. DOMAIN document.means = 1..Len(document.means) /\ Len(document.means) \in Nat
    BY <1>1 DEF Written
  <1>5. Len(lines) \in Nat
    BY <1>2
  <1> QED
    BY <1>1, <1>2, <1>3, <1>4, <1>5 DEF Meaningful

\* Where the damage is, and that the assignment it is in begins there.
LEMMA DamagedFile ==
    ASSUME document \in Documents, document.damaged # 0
    PROVE  /\ Damaged(document)
           /\ document.damaged \in 1..Len(lines) /\ document.torn \in 1..Len(document.means)
           /\ \A n \in 0..Len(lines) : n < document.damaged =>
                  After(document, n).of \in Nat /\ After(document, n).of < document.torn
  <1>1. Damaged(document)
    BY WrittenAssumption
  <1>2. Written(document) /\ lines = document.text /\ lines \in Seq(Seq(Tokens))
        /\ DOMAIN document.means = 1..Len(document.means)
    BY IntactFile
  <1>3. document.damaged \in 1..Len(lines) /\ document.torn \in 1..Len(document.means)
    BY <1>1, <1>2 DEF Damaged
  <1>4. \A n \in 0..Len(lines) : n < document.damaged => After(document, n).of < document.torn
    BY <1>1, <1>2 DEF Damaged
  <1>5. \A n \in 0..Len(lines) : After(document, n).of \in Nat
    BY <1>2, OutlineTyped
  <1> QED
    BY <1>1, <1>3, <1>4, <1>5

\* What is intact as far as a line is so before it.
LEMMA IntactBefore ==
    ASSUME TypeOK, Intact(index + 1)
    PROVE  Intact(index)
  <1>1. document \in Documents /\ index \in Nat
    BY IntactFile DEF TypeOK
  <1>2. document.damaged # 0 => document.damaged \in Nat
    BY <1>1, DamagedFile
  <1> QED
    BY <1>1, <1>2 DEF Intact

\* As far as a file is intact, the assignment that misses a delimiter is to come.
LEMMA NotYetTorn ==
    ASSUME document \in Documents, NEW n \in 0..Len(lines), Intact(n)
    PROVE  ~(After(document, n).of = document.torn /\ After(document, n).of # 0)
  <1>1. CASE document.damaged = 0
    <2>1. document.torn = 0
      BY <1>1, WrittenAssumption
    <2> QED
      BY <2>1
  <1>2. CASE document.damaged # 0
    <2>1. n < document.damaged
      BY <1>2 DEF Intact
    <2>2. After(document, n).of \in Nat /\ After(document, n).of < document.torn
          /\ document.torn \in Nat
      BY <1>2, <2>1, DamagedFile
    <2> QED
      BY <2>2
  <1> QED
    BY <1>1, <1>2

\* What the next line says.
LEMMA HereSays ==
    ASSUME document \in Documents, index \in 0..Len(lines), index < Len(lines), Intact(index + 1)
    PROVE  LET at == After(document, index)
               next == After(document, index + 1)
           IN /\ at.of \in 0..Len(document.means)
              /\ at.of # 0 => at.of \in DOMAIN document.means
              /\ \/ SaysNothing(at, next, Line)
                 \/ SaysHeader(document, at, next, Line)
                 \/ SaysFirst(document, at, next, Line)
                 \/ SaysMore(document, at, next, Line)
  <1> DEFINE n == index + 1
  <1>1. n \in 1..Len(lines) /\ n \in 0..Len(lines) /\ n - 1 = index /\ Len(lines) \in Nat
    BY IntactFile
  <1>2. Written(document) /\ lines = document.text /\ lines \in Seq(Seq(Tokens))
    BY IntactFile
  <1>3. ~(After(document, n).of = document.torn /\ After(document, n).of # 0)
    <2>1. Intact(n)
      OBVIOUS
    <2> HIDE DEF n
    <2> QED
      BY <1>1, <2>1, NotYetTorn
  <1> HIDE DEF n
  <1>4. LET before == After(document, n - 1)
            after == After(document, n)
            code == StripComment(document.text[n])
        IN \/ SaysNothing(before, after, code)
           \/ SaysHeader(document, before, after, code)
           \/ SaysFirst(document, before, after, code)
           \/ SaysMore(document, before, after, code)
    BY <1>1, <1>2, <1>3, LinesSay
  <1>5. Line = StripComment(document.text[n])
    BY <1>2 DEF Line, n
  <1>6. /\ After(document, index).of \in 0..Len(document.means)
        /\ After(document, index).of # 0 => After(document, index).of \in DOMAIN document.means
    BY <1>2, OutlineTyped
  <1> QED
    BY <1>1, <1>4, <1>5, <1>6 DEF n

\* What the reader of an intact file knows at any time.
LEMMA Standing ==
    ASSUME TypeOK, ReaderInv, Intact(index)
    PROVE  LET at == After(document, index) IN
           /\ document \in Documents /\ index \in 0..Len(lines)
           /\ section = at.section /\ SectionsHold(document, sections) /\ Shaped(pending)
           /\ at.of \in 0..Len(document.means) /\ at.section \in Seq(Words)
           /\ at.of # 0 => at.of \in DOMAIN document.means
           /\ pending = Nothing => Complete(document, at) /\ TableHolds(document, table, at.of)
           /\ pending # Nothing =>
                   /\ UnderWay(document, at, pending.key, pending.value)
                   /\ TableHolds(document, table, at.of - 1)
           /\ DOMAIN document.means = 1..Len(document.means) /\ Len(document.means) \in Nat
  <1>1. document \in Documents /\ index \in 0..Len(lines)
    BY DEF TypeOK
  <1>2. Written(document) /\ lines = document.text
    BY <1>1, IntactFile
  <1>3. index \in 0..Len(document.text)
    BY <1>1, <1>2
  <1>4. /\ After(document, index).of \in 0..Len(document.means)
        /\ After(document, index).section \in Seq(Words)
        /\ After(document, index).of # 0 => After(document, index).of \in DOMAIN document.means
        /\ DOMAIN document.means = 1..Len(document.means) /\ Len(document.means) \in Nat
    BY <1>2, <1>3, OutlineTyped
  <1> QED
    BY <1>1, <1>4 DEF ReaderInv

\* Without an assignment under way, a line is blank, a header or the first of one.
LEMMA SkipsNothing ==
    ASSUME TypeOK, ReaderInv, Intact(index + 1), SkipLine
    PROVE  ReaderInv'
  <1> DEFINE at == After(document, index)
             next == After(document, index + 1)
  <1>1. /\ pending = Nothing /\ index < Len(lines) /\ Reading
        /\ ~IsHeader(Line) /\ ~Contains(Line, Equals) /\ index' = index + 1
        /\ UNCHANGED <<document, section, sections, pending, table, outcome>>
    BY DEF SkipLine, AtALine
  <1>2. /\ document \in Documents /\ index \in 0..Len(lines)
        /\ section = at.section /\ SectionsHold(document, sections) /\ Shaped(pending)
        /\ Complete(document, at) /\ TableHolds(document, table, at.of)
    BY <1>1, IntactBefore, Standing
  <1>3. next = at
    <2>1. \/ SaysNothing(at, next, Line)
          \/ SaysHeader(document, at, next, Line)
          \/ SaysFirst(document, at, next, Line)
          \/ SaysMore(document, at, next, Line)
      BY <1>1, <1>2, HereSays
    <2> QED
      BY <2>1, <1>1, <1>2 DEF SaysNothing, SaysHeader, SaysFirst, SaysMore
  <1>4. After(document', index') = at
    BY <1>1, <1>3
  <1> HIDE DEF at, next
  <1> QED
    BY <1>1, <1>2, <1>4 DEF ReaderInv, Reading

\* A header names the section of the assignment that follows; what stands in its
\* place stands above that assignment.
LEMMA EntersTheNextSection ==
    ASSUME TypeOK, ReaderInv, Intact(index + 1), EnterSection
    PROVE  ReaderInv'
  <1> DEFINE at == After(document, index)
             next == After(document, index + 1)
             q == document.means[at.of + 1].path
  <1>1. /\ pending = Nothing /\ index < Len(lines) /\ Reading /\ IsHeader(Line)
        /\ index' = index + 1 /\ section' = Inner(Line) /\ sections' = sections \cup {section'}
        /\ UNCHANGED <<document, pending, table>>
        /\ \/ outcome' = outcome
           \/ outcome'.status = "crash" /\ \E p \in DOMAIN table : IsStrictPrefix(p, section')
    BY DEF EnterSection, AtALine, Fail
  <1>2. /\ document \in Documents /\ index \in 0..Len(lines)
        /\ section = at.section /\ SectionsHold(document, sections) /\ Shaped(pending)
        /\ at.of \in 0..Len(document.means)
        /\ Complete(document, at) /\ TableHolds(document, table, at.of)
        /\ DOMAIN document.means = 1..Len(document.means)
    BY <1>1, IntactBefore, Standing
  <1>3. \/ next = at /\ Line = <<>>
        \/ /\ at.of + 1 \in DOMAIN document.means /\ next.of = at.of /\ Complete(document, next)
           /\ next.section = Front(q) /\ Inner(Line) = Front(q)
    <2>1. \/ SaysNothing(at, next, Line)
          \/ SaysHeader(document, at, next, Line)
          \/ SaysFirst(document, at, next, Line)
          \/ SaysMore(document, at, next, Line)
      BY <1>1, <1>2, HereSays
    <2> QED
      BY <2>1, <1>1, <1>2 DEF SaysNothing, SaysHeader, SaysFirst, SaysMore
  <1>4. Line # <<>>
    BY <1>1 DEF IsHeader, StartsWith
  <1>5. /\ at.of + 1 \in DOMAIN document.means /\ next.of = at.of /\ Complete(document, next)
        /\ next.section = Front(q) /\ section' = Front(q)
    BY <1>1, <1>3, <1>4
  <1>6. q \in Seq(Words) /\ q # <<>>
    BY <1>2, <1>5, IntactFile
  <1>7. After(document', index') = next
    BY <1>1
  <1> HIDE DEF at, next
  <1>8. Front(q) \in Seq(Words) /\ IsPrefix(Front(q), q)
    BY <1>6, PathParts, PrefixOrder
  <1>9. SectionsHold(document, sections')
    BY <1>1, <1>2, <1>5, <1>8 DEF SectionsHold
  <1>10. ASSUME NEW p \in DOMAIN table, IsStrictPrefix(p, section') PROVE Shadowed(at.of + 1)
    <2>1. PICK i \in 1..at.of : document.means[i].path = p
      BY <1>2 DEF TableHolds, LastFor
    <2>2. i \in DOMAIN document.means
      BY <1>2
    <2>3. p \in Seq(Words)
      BY <1>2, <2>1, <2>2, IntactFile
    <2>4. IsPrefix(p, Front(q))
      BY <1>5, <1>10 DEF IsStrictPrefix
    <2>5. IsStrictPrefix(p, q)
      BY <1>6, <2>3, <2>4, PrefixOrder
    <2>6. i \in 1..(at.of + 1) - 1
      BY <1>2
    <2> QED
      BY <2>1, <2>5, <2>6 DEF Shadowed
  <1>11. outcome'.status = "crash" => Shadowed(at.of + 1)
    BY <1>1, <1>10 DEF Reading
  <1>12. outcome'.status = "crash" => ShadowedBefore'
    <2>1. next.of + 1 = at.of + 1 /\ at.of + 1 \in 1..at.of + 1
      BY <1>2, <1>5
    <2> QED
      BY <1>1, <1>5, <1>7, <1>11, <2>1 DEF ShadowedBefore, Shadowed
  <1>13. outcome'.status \in {"reading", "crash"}
    BY <1>1 DEF Reading
  <1> HIDE DEF q
  <1>14. SectionsHold(document', sections') /\ Shaped(pending') /\ section' = next.section
         /\ Complete(document', next) /\ TableHolds(document', table', next.of)
    BY <1>1, <1>2, <1>5, <1>9
  <1> QED
    BY <1>1, <1>7, <1>12, <1>13, <1>14 DEF ReaderInv

\* The first line of an assignment says its name and how its value begins.
LEMMA BeginsTheNext ==
    ASSUME TypeOK, ReaderInv, Intact(index + 1), BeginAssignment
    PROVE  ReaderInv'
  <1> DEFINE at == After(document, index)
             next == After(document, index + 1)
             a == document.means[next.of]
  <1>1. /\ pending = Nothing /\ index < Len(lines) /\ Reading
        /\ ~IsHeader(Line) /\ Contains(Line, Equals)
        /\ index' = index + 1
        /\ UNCHANGED <<document, section, sections, table, outcome>>
    BY DEF BeginAssignment, AtALine
  <1>2. /\ document \in Documents /\ index \in 0..Len(lines)
        /\ section = at.section /\ SectionsHold(document, sections) /\ Shaped(pending)
        /\ at.of \in 0..Len(document.means)
        /\ Complete(document, at) /\ TableHolds(document, table, at.of)
    BY <1>1, IntactBefore, Standing
  <1>3. \/ next = at /\ Line = <<>>
        \/ /\ next.of = at.of + 1 /\ next.section = at.section /\ next.section = Front(a.path)
           /\ next.upto \in 1..Pieces(a) /\ FirstEquals(Line) = 2
           /\ SubSeq(Line, 1, 1) = <<Last(a.path)>>
           /\ SubSeq(Line, 3, Len(Line)) = Spelling(a, next.upto)
    <2>1. \/ SaysNothing(at, next, Line)
          \/ SaysHeader(document, at, next, Line)
          \/ SaysFirst(document, at, next, Line)
          \/ SaysMore(document, at, next, Line)
      BY <1>1, <1>2, HereSays
    <2> QED
      BY <2>1, <1>1, <1>2 DEF SaysNothing, SaysHeader, SaysFirst, SaysMore
  <1>4. Line # <<>>
    BY <1>1 DEF Contains
  <1>5. /\ next.of = at.of + 1 /\ next.section = section /\ next.section = Front(a.path)
        /\ next.upto \in 1..Pieces(a) /\ FirstEquals(Line) = 2
        /\ SubSeq(Line, 1, 1) = <<Last(a.path)>>
        /\ SubSeq(Line, 3, Len(Line)) = Spelling(a, next.upto)
    BY <1>2, <1>3, <1>4
  <1>6. /\ pending'.key = <<Last(a.path)>> /\ pending'.value = Spelling(a, next.upto)
        /\ pending'.line = index + 1 /\ Shaped(pending')
    <2>1. pending' = [line |-> index + 1,
                      key |-> IF FirstEquals(Line) = 1 THEN <<"">>
                              ELSE SubSeq(Line, 1, FirstEquals(Line) - 1),
                      value |-> SubSeq(Line, FirstEquals(Line) + 1, Len(Line))]
      BY DEF BeginAssignment
    <2>2. FirstEquals(Line) # 1 /\ FirstEquals(Line) - 1 = 1 /\ FirstEquals(Line) + 1 = 3
      BY <1>5
    <2>3. pending' = [line |-> index + 1, key |-> SubSeq(Line, 1, 1),
                      value |-> SubSeq(Line, 3, Len(Line))]
      BY <2>1, <2>2, Zenon
    <2> QED
      BY <1>5, <2>3 DEF Shaped
  <1>7. pending' # Nothing
    BY <1>2, <1>6 DEF Nothing
  <1>8. After(document', index') = next
    BY <1>1
  <1>9. next.of # 0 /\ next.of - 1 = at.of
    BY <1>2, <1>5
  <1> HIDE DEF a
  <1>10. UnderWay(document, next, pending'.key, pending'.value)
    BY <1>5, <1>6, <1>9 DEF UnderWay, a
  <1> HIDE DEF at, next
  <1>11. /\ section' = next.section /\ SectionsHold(document', sections') /\ Shaped(pending')
         /\ UnderWay(document', next, pending'.key, pending'.value)
         /\ TableHolds(document', table', next.of - 1) /\ outcome'.status = "reading"
    BY <1>1, <1>2, <1>5, <1>6, <1>9, <1>10 DEF Reading
  <1> QED
    BY <1>7, <1>8, <1>11 DEF ReaderInv

\* The value of an assignment under way goes on exactly while pieces are to come.
LEMMA GoesOn ==
    ASSUME TypeOK, ReaderInv, Intact(index), pending # Nothing
    PROVE  LET at == After(document, index) IN
           /\ at.of \in DOMAIN document.means /\ Meaningful(document.means[at.of])
           /\ Continues <=> at.upto # Pieces(document.means[at.of])
           /\ Continues <=> ~Complete(document, at)
  <1> DEFINE at == After(document, index)
             a == document.means[at.of]
  <1>1. /\ document \in Documents
        /\ at.of # 0 => at.of \in DOMAIN document.means
        /\ UnderWay(document, at, pending.key, pending.value)
    BY Standing
  <1>2. at.of \in DOMAIN document.means /\ at.upto \in 1..Pieces(a) /\ pending.value = Spelling(a, at.upto)
    BY <1>1 DEF UnderWay
  <1>3. Meaningful(a)
    BY <1>1, <1>2, IntactFile
  <1>4. at.of # 0
    BY <1>1 DEF UnderWay
  <1> HIDE DEF a, at
  <1>5. Continues <=> at.upto # Pieces(a)
    BY <1>2, <1>3, SpellingScans DEF Continues
  <1>6. Complete(document, at) <=> at.upto = Pieces(a)
    BY <1>4 DEF Complete, a
  <1> QED
    BY <1>2, <1>3, <1>5, <1>6 DEF at, a

\* A line that is read into a value brings its next pieces, or none.
LEMMA JoinsTheRest ==
    ASSUME TypeOK, ReaderInv, Intact(index + 1), JoinLine
    PROVE  ReaderInv'
  <1> DEFINE at == After(document, index)
             next == After(document, index + 1)
             a == document.means[at.of]
  <1>1. /\ pending # Nothing /\ index < Len(lines) /\ Reading /\ Continues /\ index' = index + 1
        /\ pending' = [pending EXCEPT !.value = @ \o Line]
        /\ UNCHANGED <<document, section, sections, table, outcome>>
    BY DEF JoinLine
  <1>2. /\ document \in Documents /\ index \in 0..Len(lines)
        /\ section = at.section /\ SectionsHold(document, sections) /\ Shaped(pending)
        /\ UnderWay(document, at, pending.key, pending.value)
        /\ TableHolds(document, table, at.of - 1)
    BY <1>1, IntactBefore, Standing
  <1>3. ~Complete(document, at) /\ Meaningful(a)
    BY <1>1, IntactBefore, GoesOn
  <1>4. /\ at.of # 0 /\ at.upto \in 1..Pieces(a) /\ pending.key = <<Last(a.path)>>
        /\ pending.value = Spelling(a, at.upto) /\ at.section = Front(a.path)
    BY <1>2 DEF UnderWay
  <1>5. /\ next.of = at.of /\ next.section = at.section /\ next.upto \in 1..Pieces(a)
        /\ Spelling(a, at.upto) \o Line = Spelling(a, next.upto)
    <2>1. \/ SaysNothing(at, next, Line)
          \/ SaysHeader(document, at, next, Line)
          \/ SaysFirst(document, at, next, Line)
          \/ SaysMore(document, at, next, Line)
      BY <1>1, <1>2, HereSays
    <2>2. CASE SaysNothing(at, next, Line)
      <3>1. next = at /\ Line = <<>>
        BY <2>2 DEF SaysNothing
      <3>2. Spelling(a, at.upto) \in Seq(Tokens)
        <4> HIDE DEF a, at
        <4> QED
          BY <1>3, <1>4, SpellingScans
      <3> HIDE DEF a, at, next
      <3>3. Spelling(a, at.upto) \o <<>> = Spelling(a, at.upto)
        BY <3>2
      <3> QED
        BY <1>4, <3>1, <3>3
    <2>3. CASE SaysMore(document, at, next, Line)
      BY <1>4, <2>3 DEF SaysMore
    <2> QED
      BY <1>3, <2>1, <2>2, <2>3 DEF SaysHeader, SaysFirst
  <1>6. After(document', index') = next
    BY <1>1
  <1> HIDE DEF at, next
  <1>7. pending # Nothing => pending.line \in 1..index
    BY DEF TypeOK
  <1>8. pending'.key = pending.key /\ pending'.value = pending.value \o Line /\ pending' # Nothing
        /\ Shaped(pending')
    <2>1. pending = [line |-> pending.line, key |-> pending.key, value |-> pending.value]
      BY <1>2 DEF Shaped
    <2> DEFINE longer == pending.value \o Line
    <2>2. pending' = [pending EXCEPT !.value = longer]
      BY <1>1
    <2> HIDE DEF longer
    <2>3. pending' = [line |-> pending.line, key |-> pending.key, value |-> longer]
      BY <2>1, <2>2
    <2>4. pending'.key = pending.key /\ pending'.value = longer /\ pending'.line = pending.line
      BY <2>3
    <2>5. pending' # Nothing
      BY <1>1, <1>2, <1>7, <2>4 DEF Nothing
    <2>6. Shaped(pending')
      BY <2>3, <2>4, Zenon DEF Shaped
    <2> QED
      BY <2>4, <2>5, <2>6 DEF longer
  <1>9. UnderWay(document, next, pending'.key, pending'.value)
    BY <1>4, <1>5, <1>8 DEF UnderWay
  <1>10. /\ section' = next.section /\ SectionsHold(document', sections') /\ Shaped(pending')
         /\ UnderWay(document', next, pending'.key, pending'.value)
         /\ TableHolds(document', table', next.of - 1) /\ outcome'.status = "reading"
    BY <1>1, <1>2, <1>5, <1>8, <1>9 DEF Reading
  <1> QED
    BY <1>6, <1>8, <1>10 DEF ReaderInv

\* No value is unfinished where the file ends.
LEMMA NothingIsUnterminated ==
    ASSUME TypeOK, ReaderInv, Intact(index)
    PROVE  ~RaiseUnterminated
  <1> SUFFICES ASSUME RaiseUnterminated PROVE FALSE
    OBVIOUS
  <1>1. pending # Nothing /\ Continues /\ index = Len(lines) /\ document \in Documents
    BY DEF RaiseUnterminated, TypeOK
  <1>2. Written(document) /\ lines = document.text
    BY <1>1, IntactFile
  <1>3. Complete(document, After(document, index))
    BY <1>1, <1>2 DEF Written
  <1> QED
    BY <1>1, <1>3, GoesOn

\* At the end of the file all is read.
LEMMA FinishesAtTheEnd ==
    ASSUME TypeOK, ReaderInv, Intact(index), Finish
    PROVE  ReaderInv'
  <1> DEFINE at == After(document, index)
  <1>1. /\ pending = Nothing /\ index = Len(lines) /\ outcome'.status = "read"
        /\ UNCHANGED <<document, index, section, sections, pending, table>>
    BY DEF Finish
  <1>2. /\ section = at.section /\ SectionsHold(document, sections) /\ Shaped(pending)
        /\ Complete(document, at) /\ TableHolds(document, table, at.of)
    BY <1>1, Standing
  <1>3. After(document', index') = at /\ lines' = lines
    BY <1>1 DEF lines
  <1> HIDE DEF at
  <1> QED
    BY <1>1, <1>2, <1>3 DEF ReaderInv

\* An assignment more: it replaces what was in its place and below.
LEMMA TableGrows ==
    ASSUME NEW d, Len(d.means) \in Nat, DOMAIN d.means = 1..Len(d.means),
           \A i \in DOMAIN d.means : d.means[i].path \in Seq(Words),
           NEW k \in 1..Len(d.means), NEW t, TableHolds(d, t, k - 1), NEW u,
           DOMAIN u = {p \in DOMAIN t : ~IsPrefix(d.means[k].path, p)} \cup {d.means[k].path},
           \A p \in DOMAIN u : u[p] = IF p = d.means[k].path THEN Value(d.means[k]) ELSE t[p]
    PROVE  TableHolds(d, u, k)
  <1> DEFINE q == d.means[k].path
  <1>1. q \in Seq(Words)
    OBVIOUS
  <1>2. \A i \in 1..k : i \in DOMAIN d.means /\ (i = k \/ i \in 1..k - 1)
    OBVIOUS
  <1>3. ASSUME NEW p \in DOMAIN t PROVE p \in Seq(Words)
    <2>1. PICK i \in 1..k - 1 : LastFor(d, i, k - 1, p)
      BY DEF TableHolds
    <2>2. d.means[i].path = p /\ i \in DOMAIN d.means
      BY <1>2, <2>1 DEF LastFor
    <2> QED
      BY <2>2
  <1>4. ASSUME NEW p \in DOMAIN u
        PROVE  \E i \in 1..k : LastFor(d, i, k, p) /\ u[p] = Value(d.means[i])
    <2>1. CASE p = q
      <3>1. LastFor(d, k, k, p)
        BY <2>1 DEF LastFor
      <3>2. u[p] = Value(d.means[k]) /\ k \in 1..k
        BY <2>1
      <3> QED
        BY <3>1, <3>2
    <2>2. CASE p # q
      <3>1. p \in DOMAIN t /\ u[p] = t[p]
        BY <2>2
      <3>2. PICK i \in 1..k - 1 : LastFor(d, i, k - 1, p) /\ t[p] = Value(d.means[i])
        BY <3>1 DEF TableHolds
      <3>3. \A j \in i + 1..k : j = k \/ j \in i + 1..k - 1
        OBVIOUS
      <3>4. LastFor(d, i, k, p)
        BY <2>2, <3>2, <3>3 DEF LastFor
      <3>5. i \in 1..k
        OBVIOUS
      <3> QED
        BY <3>1, <3>2, <3>4, <3>5
    <2> QED
      BY <2>1, <2>2
  <1>5. ASSUME NEW i \in 1..k
        PROVE  \E p \in DOMAIN u : IsPrefix(p, d.means[i].path)
    <2> DEFINE r == d.means[i].path
    <2>1. r \in Seq(Words)
      BY <1>2
    <2>2. q \in DOMAIN u
      OBVIOUS
    <2>3. CASE i = k
      BY <1>1, <2>2, <2>3, PrefixOrder
    <2>4. CASE i # k
      <3>1. PICK p \in DOMAIN t : IsPrefix(p, r)
        BY <1>2, <2>4 DEF TableHolds
      <3>2. CASE IsPrefix(q, p)
        <4> HIDE DEF q, r
        <4>1. IsPrefix(q, r)
          BY <1>1, <1>3, <2>1, <3>1, <3>2, PrefixOrder
        <4> QED
          BY <2>2, <4>1 DEF r
      <3>3. CASE ~IsPrefix(q, p)
        <4>1. p \in DOMAIN u
          BY <3>3
        <4> QED
          BY <3>1, <4>1
      <3> QED
        BY <3>2, <3>3
    <2> QED
      BY <2>3, <2>4
  <1> QED
    BY <1>4, <1>5 DEF TableHolds

\* A value that is whole is stored as it was meant; what is refused has a comma in an
\* array's string, and what crashes stands below another value.
LEMMA StoresWhatIsMeant ==
    ASSUME TypeOK, ReaderInv, Intact(index), Store
    PROVE  ReaderInv'
  <1> DEFINE at == After(document, index)
             a == document.means[at.of]
             q == a.path
             value == ParseValue[pending.value]
  <1>1. /\ pending # Nothing /\ ~Continues /\ Reading
        /\ UNCHANGED <<document, index, section>>
    BY DEF Store
  <1>2. /\ document \in Documents
        /\ section = at.section /\ SectionsHold(document, sections) /\ Shaped(pending)
        /\ UnderWay(document, at, pending.key, pending.value)
        /\ TableHolds(document, table, at.of - 1)
        /\ DOMAIN document.means = 1..Len(document.means) /\ Len(document.means) \in Nat
    BY <1>1, Standing
  <1>3. Complete(document, at) /\ at.of \in DOMAIN document.means /\ Meaningful(a)
        /\ at.upto = Pieces(a)
    BY <1>1, GoesOn
  <1>4. /\ at.of # 0 /\ pending.key = <<Last(q)>> /\ pending.value = Spelling(a, Pieces(a))
        /\ section = Front(q)
    BY <1>2, <1>3 DEF UnderWay
  <1>5. /\ q \in Seq(Words) /\ q # <<>>
        /\ \A i \in DOMAIN document.means : document.means[i].path \in Seq(Words)
    BY <1>2, <1>3, IntactFile
  <1>6. After(document', index') = at
    BY <1>1
  <1>7. at.of \in 1..at.of /\ at.of \in 1..at.of + 1
    BY <1>2, <1>3
  <1>8. section \o pending.key = q /\ Front(q) \in Seq(Words)
    <2> HIDE DEF q
    <2>1. Front(q) \o <<Last(q)>> = q /\ Front(q) \in Seq(Words)
      BY <1>5, PathParts
    <2> QED
      BY <1>4, <2>1
  <1>9. value = IF a.kind = "array" /\ HasComma(a.value) THEN Malformed ELSE Value(a)
    <2>1. value = ParseValue[Spelling(a, Pieces(a))]
      BY <1>4
    <2> HIDE DEF a, value
    <2> QED
      BY <1>3, <2>1, ValueParses, Zenon
  <1>10. Value(a) # Malformed
    <2> HIDE DEF a
    <2> QED
      BY <1>3, ValueIsWellFormed
  <1> HIDE DEF value
  <1>11. CASE value = Malformed /\ outcome'.status = "error" /\ UNCHANGED <<table, pending, sections>>
    <2>1. a.kind = "array" /\ HasComma(a.value)
      BY <1>9, <1>10, <1>11
    <2>2. RefusedBefore'
      <3>1. Refused(at.of)
        BY <2>1 DEF Refused
      <3> QED
        BY <1>1, <1>6, <1>7, <3>1 DEF RefusedBefore, Refused
    <2> HIDE DEF a, q, at
    <2>3. /\ UnderWay(document', at, pending'.key, pending'.value)
          /\ SectionsHold(document', sections') /\ Shaped(pending')
          /\ TableHolds(document', table', at.of - 1) /\ section' = at.section
      BY <1>1, <1>2, <1>11
    <2> QED
      BY <1>1, <1>6, <1>11, <2>2, <2>3 DEF ReaderInv
  <1>12. CASE /\ \E p \in DOMAIN table : IsPrefix(p, section)
              /\ outcome'.status = "crash" /\ UNCHANGED <<table, pending, sections>>
    <2>1. PICK p \in DOMAIN table : IsPrefix(p, Front(q))
      BY <1>4, <1>12
    <2>2. PICK i \in 1..at.of - 1 : document.means[i].path = p
      BY <1>2 DEF TableHolds, LastFor
    <2>3. i \in DOMAIN document.means /\ p \in Seq(Words)
      <3>1. at.of \in 1..Len(document.means)
        BY <1>2, <1>3
      <3>2. i \in DOMAIN document.means
        BY <1>2, <3>1
      <3> QED
        BY <1>5, <2>2, <3>2
    <2> HIDE DEF q
    <2>4. IsStrictPrefix(p, q)
      BY <1>5, <2>1, <2>3, PrefixOrder
    <2>5. ShadowedBefore'
      <3>1. Shadowed(at.of)
        BY <2>2, <2>4 DEF Shadowed, q
      <3> QED
        BY <1>1, <1>3, <1>6, <1>7, <3>1 DEF ShadowedBefore, Shadowed
    <2> HIDE DEF a, at
    <2>6. /\ UnderWay(document', at, pending'.key, pending'.value)
          /\ SectionsHold(document', sections') /\ Shaped(pending')
          /\ TableHolds(document', table', at.of - 1) /\ section' = at.section
      BY <1>1, <1>2, <1>12
    <2> QED
      BY <1>1, <1>6, <1>12, <2>5, <2>6 DEF ReaderInv
  <1>13. CASE /\ value # Malformed
              /\ table' = Assigned(section \o pending.key, value)
              /\ sections' = {p \in sections : ~IsPrefix(section \o pending.key, p)}
              /\ pending' = Nothing /\ outcome' = outcome
    <2>1. value = Value(a)
      BY <1>9, <1>13
    <2>2. table' = Assigned(q, Value(a))
      BY <1>8, <1>13, <2>1
    <2>3. TableHolds(document, table', at.of)
      <3> DEFINE k == at.of
                 u == table'
      <3>1. k \in 1..Len(document.means)
        BY <1>2, <1>3
      <3>2. DOMAIN u = {p \in DOMAIN table : ~IsPrefix(q, p)} \cup {q}
        BY <2>2 DEF Assigned
      <3>3. \A p \in DOMAIN u : u[p] = IF p = q THEN Value(a) ELSE table[p]
        BY <2>2, <3>2 DEF Assigned
      <3>4. TableHolds(document, table, k - 1)
        BY <1>2
      <3> HIDE DEF k, u, at
      <3>5. TableHolds(document, u, k)
        BY <1>2, <1>5, <3>1, <3>2, <3>3, <3>4, TableGrows DEF k
      <3> QED
        BY <3>5 DEF k, u
    <2>4. SectionsHold(document', sections')
      BY <1>1, <1>2, <1>13 DEF SectionsHold
    <2> HIDE DEF a, q, at
    <2>5. Shaped(pending') /\ Complete(document', at) /\ TableHolds(document', table', at.of)
          /\ section' = at.section
      BY <1>1, <1>2, <1>3, <1>13, <2>3 DEF Shaped, Nothing
    <2> QED
      BY <1>1, <1>6, <1>13, <2>4, <2>5 DEF ReaderInv, Reading
  <1> QED
    BY <1>11, <1>12, <1>13 DEF Store, Fail, value

-----------------------------------------------------------------------------
(* The settings.                                                            *)

\* The greatest element.
LEMMA MaxIs ==
    ASSUME NEW S \in SUBSET Int, NEW i \in S, \A j \in S : j <= i
    PROVE  Max(S) = i
  <1>1. \A x \in S : (\A y \in S : x >= y) => x = i
    <2> SUFFICES ASSUME NEW x \in S, \A y \in S : x >= y PROVE x = i
      OBVIOUS
    <2>1. x >= i /\ x <= i /\ x \in Int /\ i \in Int
      OBVIOUS
    <2> QED
      BY <2>1
  <1>2. \A y \in S : i >= y
    OBVIOUS
  <1> QED
    BY <1>1, <1>2, Zenon DEF Max

\* What has been read when the reader is done.
LEMMA AllIsRead ==
    ASSUME TypeOK, ReaderInv, document.damaged = 0, outcome.status = "read"
    PROVE  /\ document \in Documents /\ SectionsHold(document, sections)
           /\ TableHolds(document, table, Len(document.means))
           /\ DOMAIN document.means = 1..Len(document.means) /\ Len(document.means) \in Nat
  <1> DEFINE at == After(document, index)
  <1>1. index = Len(lines) /\ pending = Nothing /\ Intact(index)
    BY DEF ReaderInv, Intact
  <1>2. /\ document \in Documents /\ SectionsHold(document, sections)
        /\ TableHolds(document, table, at.of)
        /\ DOMAIN document.means = 1..Len(document.means) /\ Len(document.means) \in Nat
    BY <1>1, Standing
  <1>3. Written(document) /\ lines = document.text
    BY <1>2, IntactFile
  <1>4. at.of = Len(document.means)
    BY <1>1, <1>3 DEF Written
  <1> QED
    BY <1>2, <1>4

\* What is in the table is what some assignment put there, and every assignment is
\* there or below what is.
LEMMA TableSays ==
    ASSUME TypeOK, ReaderInv, document.damaged = 0, outcome.status = "read"
    PROVE  /\ \A p \in DOMAIN table : \E i \in DOMAIN document.means :
                 /\ LastFor(document, i, Len(document.means), p)
                 /\ document.means[i].path = p
                 /\ table[p] = Value(document.means[i])
           /\ \A p \in DOMAIN table : p \in Seq(Words) /\ p # <<>>
           /\ \A i \in DOMAIN document.means : \E p \in DOMAIN table : IsPrefix(p, document.means[i].path)
  <1>1. /\ document \in Documents
        /\ TableHolds(document, table, Len(document.means))
        /\ DOMAIN document.means = 1..Len(document.means) /\ Len(document.means) \in Nat
    BY AllIsRead
  <1>2. \A p \in DOMAIN table : \E i \in DOMAIN document.means :
            LastFor(document, i, Len(document.means), p) /\ table[p] = Value(document.means[i])
    BY <1>1 DEF TableHolds
  <1>3. \A i, p : LastFor(document, i, Len(document.means), p) => document.means[i].path = p
    BY DEF LastFor
  <1>4. \A p \in DOMAIN table : p \in Seq(Words) /\ p # <<>>
    BY <1>1, <1>2, <1>3, IntactFile
  <1>5. \A i \in DOMAIN document.means : \E p \in DOMAIN table : IsPrefix(p, document.means[i].path)
    BY <1>1 DEF TableHolds
  <1> QED
    BY <1>2, <1>3, <1>4, <1>5

\* A path begins as what stands above it.
LEMMA SamePrefixStart ==
    ASSUME NEW p \in Seq(Words), NEW q \in Seq(Words), p # <<>>, IsPrefix(p, q)
    PROVE  \A word : StartsWith(p, word) <=> StartsWith(q, word)
  <1>1. Len(p) \in Nat /\ Len(p) # 0
    OBVIOUS
  <1>2. Len(p) <= Len(q) /\ \A i \in 1..Len(p) : q[i] = p[i]
    BY PrefixParts
  <1>3. q # <<>> /\ Head(p) = p[1] /\ Head(q) = q[1] /\ q[1] = p[1]
    BY <1>1, <1>2
  <1> QED
    BY <1>3 DEF StartsWith

\* A gdextest table is there if the author meant something in one.
LEMMA TheRootIsMeant ==
    ASSUME TypeOK, ReaderInv, document.damaged = 0, outcome.status = "read"
    PROVE  Root = MeantRoot
  <1> DEFINE means == document.means
  <1>1. document \in Documents /\ SectionsHold(document, sections)
    BY AllIsRead
  <1>2. \A i \in DOMAIN means : means[i].path \in Seq(Words) /\ means[i].path # <<>>
    BY <1>1, IntactFile
  <1>3. /\ \A p \in DOMAIN table : \E i \in DOMAIN means : means[i].path = p
        /\ \A p \in DOMAIN table : p \in Seq(Words) /\ p # <<>>
        /\ \A i \in DOMAIN means : \E p \in DOMAIN table : IsPrefix(p, means[i].path)
    BY TableSays
  <1>4. \A p \in sections : p \in Seq(Words) /\ \E i \in DOMAIN means : IsPrefix(p, means[i].path)
    BY <1>1 DEF SectionsHold
  <1> HIDE DEF means
  <1>5. ASSUME NEW p \in sections \cup DOMAIN table, StartsWith(p, "gdextest")
        PROVE  \E i \in DOMAIN means : StartsWith(means[i].path, "gdextest")
    <2>1. CASE p \in DOMAIN table
      BY <1>3, <1>5, <2>1
    <2>2. CASE p \in sections
      <3>1. PICK i \in DOMAIN means : IsPrefix(p, means[i].path)
        BY <1>4, <2>2
      <3>2. p # <<>> /\ p \in Seq(Words)
        BY <1>4, <1>5, <2>2 DEF StartsWith
      <3> QED
        BY <1>2, <1>5, <3>1, <3>2, SamePrefixStart
    <2> QED
      BY <2>1, <2>2
  <1>6. ASSUME NEW i \in DOMAIN means, StartsWith(means[i].path, "gdextest")
        PROVE  \E p \in sections \cup DOMAIN table : StartsWith(p, "gdextest")
    <2>1. PICK p \in DOMAIN table : IsPrefix(p, means[i].path)
      BY <1>3
    <2>2. StartsWith(p, "gdextest")
      BY <1>2, <1>3, <1>6, <2>1, SamePrefixStart
    <2> QED
      BY <2>2
  <1> QED
    BY <1>5, <1>6 DEF Root, MeantRoot, means

\* A setting is at the top or in one of the sections.
Shallow(place) == (\E w : place = <<w>>) \/ \E s \in Sections : \E w : place = <<s, w>>
\* A setting with a single place,
LEMMA OnePlace ==
    ASSUME NEW a, Shallow(a)
    PROVE  DOMAIN <<a>> \in {{1}, {1, 2}} /\ \A k \in DOMAIN <<a>> : Shallow(<<a>>[k])
  <1>1. DOMAIN <<a>> = {1} /\ <<a>>[1] = a
    OBVIOUS
  <1> QED
    BY <1>1
\* and one with two.
LEMMA TwoPlaces ==
    ASSUME NEW a, NEW b, Shallow(a), Shallow(b)
    PROVE  DOMAIN <<a, b>> \in {{1}, {1, 2}} /\ \A k \in DOMAIN <<a, b>> : Shallow(<<a, b>>[k])
  <1>1. DOMAIN <<a, b>> = {1, 2} /\ <<a, b>>[1] = a /\ <<a, b>>[2] = b
    OBVIOUS
  <1> QED
    BY <1>1
\* The places of the settings.
LEMMA PlacesAreShallow ==
    \A field \in DOMAIN Places :
        /\ DOMAIN Places[field] \in {{1}, {1, 2}}
        /\ \A k \in DOMAIN Places[field] : Shallow(Places[field][k])
  <1> DEFINE Fine(places) == /\ DOMAIN places \in {{1}, {1, 2}}
                             /\ \A k \in DOMAIN places : Shallow(places[k])
  <1>1. \A w : Shallow(<<w>>)
    BY DEF Shallow
  <1>2. \A s \in Sections : \A w : Shallow(<<s, w>>)
    BY DEF Shallow
  <1>3. \A v, w : Fine(<<<<v>>>>)
    BY <1>1, OnePlace
  <1>4. \A s \in Sections : \A v : Fine(<<<<s, v>>>>)
    BY <1>2, OnePlace
  <1>5. \A s \in Sections : \A v, w : Fine(<<<<s, v>>, <<w>>>>)
    BY <1>1, <1>2, TwoPlaces
  <1>6. {"tests", "host", "build", "fixture", "test", "consumer_extension"} \subseteq Sections
    BY DEF Sections, Asked
  <1> HIDE DEF Fine
  <1>7. Fine(Places.minimum)
    BY <1>3 DEF Places
  <1>8. Fine(Places.exclude) /\ Fine(Places.host_mode) /\ Fine(Places.build_args)
    BY <1>4, <1>6 DEF Places
  <1>9. Fine(Places.sources) /\ Fine(Places.entry_symbol) /\ Fine(Places.plugin_class)
        /\ Fine(Places.scan_timeout_ms)
    BY <1>5, <1>6 DEF Places
  <1>10. Fine(Places.timeout_ms) /\ Fine(Places.isolate_timeout_sec) /\ Fine(Places.flaky_retries)
         /\ Fine(Places.report)
    BY <1>5, <1>6 DEF Places
  <1>11. Fine(Places.color) /\ Fine(Places.extension_library) /\ Fine(Places.extension_manifest)
    BY <1>5, <1>6 DEF Places
  <1>12. DOMAIN Places = {"minimum", "sources", "exclude", "entry_symbol", "plugin_class", "host_mode",
            "build_args", "scan_timeout_ms", "timeout_ms", "isolate_timeout_sec", "flaky_retries",
            "report", "color", "extension_library", "extension_manifest"}
    BY DEF Places
  <1>13. \A field \in DOMAIN Places : Fine(Places[field])
    BY <1>7, <1>8, <1>9, <1>10, <1>11, <1>12
  <1> QED
    BY <1>13 DEF Fine

\* What stands above is shorter.
LEMMA StrictPrefixParts ==
    ASSUME NEW p \in Seq(Words), NEW q \in Seq(Words), IsStrictPrefix(p, q)
    PROVE  Len(p) \in Nat /\ Len(p) < Len(q) /\ \A i \in 1..Len(p) : q[i] = p[i]
  <1>1. IsPrefix(p, q) /\ p # q
    BY DEF IsStrictPrefix
  <1>2. Len(p) <= Len(q) /\ (\A i \in 1..Len(p) : q[i] = p[i]) /\ Len(p) \in Nat /\ Len(q) \in Nat
    BY <1>1, PrefixParts
  <1>3. Len(p) # Len(q)
    <2> SUFFICES ASSUME Len(p) = Len(q) PROVE p = q
      BY <1>1
    <2> QED
      BY <1>2
  <1> QED
    BY <1>2, <1>3

\* Some small lengths.
LEMMA SmallLengths ==
    /\ \A n \in Nat : n # 0 => /\ ~(n < 1) /\ (n < 2 => n = 1) /\ (n < 3 => n = 1 \/ n = 2)
    /\ \A x, y : Append(<<x>>, y) = <<x, y>>
  <1>1. \A n \in Nat : n # 0 => /\ ~(n < 1) /\ (n < 2 => n = 1) /\ (n < 3 => n = 1 \/ n = 2)
    OBVIOUS
  <1>2. ASSUME NEW x, NEW y PROVE Append(<<x>>, y) = <<x, y>>
    <2> DEFINE S == {x, y}
               s == <<x>>
               a == Append(s, y)
    <2>1. s \in Seq(S) /\ Len(s) = 1 /\ s[1] = x /\ y \in S
      OBVIOUS
    <2> HIDE DEF S, s
    <2>2. /\ a \in Seq(S) /\ Len(a) = Len(s) + 1 /\ a[Len(s) + 1] = y
          /\ \A i \in 1..Len(s) : a[i] = s[i]
      BY <2>1, SMTT(40)
    <2> HIDE DEF a
    <2>3. Len(s) + 1 = 2 /\ 1 \in 1..Len(s)
      BY <2>1
    <2>4. a \in Seq(S) /\ Len(a) = 2 /\ a[1] = x /\ a[2] = y
      BY <2>1, <2>2, <2>3
    <2>5. a = <<x, y>>
      BY <2>4
    <2> QED
      BY <2>5 DEF a, s
  <1> QED
    BY <1>1, <1>2

\* What stands above the place of a setting is a section's.
SectionPaths(root) == {<<"gdextest">>} \cup {Append(root, s) : s \in Sections}
\* Above the place of a setting there is only a section.
LEMMA AboveAPlace ==
    ASSUME NEW root \in {<<>>, Text("gdextest")}, NEW place, Shallow(place),
           root \o place \in Seq(Words), NEW p \in Seq(Words), p # <<>>,
           IsStrictPrefix(p, root \o place)
    PROVE  p \in SectionPaths(root)
  <1> DEFINE q == root \o place
  <1>0. Len(p) # 0
    OBVIOUS
  <1> HIDE DEF q
  <1>1. Len(p) \in Nat /\ Len(p) # 0 /\ Len(p) < Len(q) /\ \A i \in 1..Len(p) : q[i] = p[i]
    <2>1. q \in Seq(Words) /\ IsStrictPrefix(p, q)
      BY DEF q
    <2> QED
      BY <1>0, <2>1, StrictPrefixParts
  <1>2. ASSUME Len(p) = 1 PROVE p = <<q[1]>>
    <2>1. p[1] = q[1]
      BY <1>1, <1>2
    <2> QED
      BY <1>2, <2>1
  <1>3. ASSUME Len(p) = 2 PROVE p = <<q[1], q[2]>>
    <2>1. p[1] = q[1] /\ p[2] = q[2]
      BY <1>1, <1>3
    <2> QED
      BY <1>3, <2>1
  <1>4. CASE root = <<>> /\ \E w : place = <<w>>
    <2>1. Len(q) = 1
      BY <1>4 DEF q
    <2> QED
      BY <1>1, <2>1
  <1>5. CASE root = <<>> /\ \E s \in Sections : \E w : place = <<s, w>>
    <2>1. PICK s \in Sections : \E w : place = <<s, w>>
      BY <1>5
    <2>2. PICK w : place = <<s, w>>
      BY <2>1
    <2>3. Len(q) = 2 /\ q[1] = s
      BY <1>5, <2>2 DEF q
    <2>4. Len(p) = 1
      BY <1>1, <2>3, SmallLengths, Zenon
    <2>5. p = <<s>>
      BY <1>2, <2>3, <2>4
    <2>6. Append(root, s) = <<s>>
      BY <1>5
    <2> QED
      BY <2>5, <2>6 DEF SectionPaths
  <1>6. CASE root = Text("gdextest") /\ \E w : place = <<w>>
    <2>1. Len(q) = 2 /\ q[1] = "gdextest"
      BY <1>6 DEF Text, q
    <2>2. Len(p) = 1
      BY <1>1, <2>1, SmallLengths, Zenon
    <2>3. p = <<"gdextest">>
      BY <1>2, <2>1, <2>2
    <2> QED
      BY <2>3 DEF SectionPaths
  <1>7. CASE root = Text("gdextest") /\ \E s \in Sections : \E w : place = <<s, w>>
    <2>1. PICK s \in Sections : \E w : place = <<s, w>>
      BY <1>7
    <2>2. PICK w : place = <<s, w>>
      BY <2>1
    <2>3. Len(q) = 3 /\ q[1] = "gdextest" /\ q[2] = s
      BY <1>7, <2>2 DEF Text, q
    <2>4. Len(p) = 1 \/ Len(p) = 2
      BY <1>1, <2>3, SmallLengths, Zenon
    <2>5. p = <<"gdextest">> \/ p = <<"gdextest", s>>
      BY <1>2, <1>3, <2>3, <2>4
    <2>6. Append(root, s) = <<"gdextest", s>>
      BY <1>7, SmallLengths, Zenon DEF Text
    <2> QED
      BY <2>5, <2>6 DEF SectionPaths
  <1> QED
    BY <1>4, <1>5, <1>6, <1>7 DEF Shallow

\* Where no value stands in a section's place, a setting stands in a place of the
\* table exactly if its author put one there.
LEMMA GivenWhereMeant ==
    ASSUME TypeOK, ReaderInv, document.damaged = 0, outcome.status = "read",
           SectionPaths(Root) \cap DOMAIN table = {}, NEW place, Shallow(place)
    PROVE  Root \o place \in DOMAIN table <=> Assignments(place) # {}
  <1> DEFINE means == document.means
             q == Root \o place
  <1>1. \A i \in DOMAIN means : means[i].path \in Seq(Words) /\ means[i].path # <<>>
    BY AllIsRead, IntactFile
  <1>2. /\ \A p \in DOMAIN table : \E i \in DOMAIN means : means[i].path = p
        /\ \A p \in DOMAIN table : p \in Seq(Words) /\ p # <<>>
        /\ \A i \in DOMAIN means : \E p \in DOMAIN table : IsPrefix(p, means[i].path)
    BY TableSays
  <1>3. Assignments(place) = {i \in DOMAIN means : means[i].path = q}
    BY TheRootIsMeant DEF Assignments
  <1>4. ASSUME NEW i \in DOMAIN means, means[i].path = q PROVE q \in DOMAIN table
    <2>1. q \in Seq(Words)
      BY <1>1, <1>4
    <2>2. PICK p \in DOMAIN table : IsPrefix(p, q)
      BY <1>2, <1>4
    <2>3. p \in Seq(Words) /\ p # <<>>
      BY <1>2, <2>2
    <2>4. Root \in {<<>>, Text("gdextest")}
      BY DEF Root
    <2>5. p = q
      <3> SUFFICES ASSUME p # q PROVE FALSE
        OBVIOUS
      <3>1. IsStrictPrefix(p, Root \o place)
        BY <2>2 DEF IsStrictPrefix
      <3>2. p \in SectionPaths(Root)
        BY <2>1, <2>3, <2>4, <3>1, AboveAPlace
      <3> QED
        BY <3>2, <2>2
    <2> QED
      BY <2>5
  <1> QED
    BY <1>2, <1>3, <1>4

\* Where nothing clashes, no value stands in the place of a section.
LEMMA NoSectionIsAValue ==
    ASSUME TypeOK, ReaderInv, document.damaged = 0, outcome.status = "read", ~Clashes
    PROVE  SectionPaths(Root) \cap DOMAIN table = {}
  <1> SUFFICES ASSUME NEW p \in DOMAIN table, p \in SectionPaths(Root) PROVE FALSE
    OBVIOUS
  <1>1. PICK i \in DOMAIN document.means : document.means[i].path = p
    BY TableSays
  <1> QED
    BY <1>1, TheRootIsMeant DEF Clashes, SectionPaths

\* What is left of the texts of a value is what was written.
AllAscii(a) ==
    /\ a.kind = "text" => IsAscii(a.value)
    /\ a.kind = "array" => \A j \in DOMAIN a.value : IsAscii(a.value[j])
\* A value of the kind its setting wants is converted to what was meant, if it is ASCII
\* or a number; one of another is no number, and only an array is of a wrong type
\* (load_config).
LEMMA ConvertsToWhatIsMeant ==
    ASSUME NEW a, Meaningful(a), NEW field \in DOMAIN Places, NEW k \in DOMAIN Places[field],
           NEW root \in {<<>>, Text("gdextest")}, a.path = root \o Places[field][k]
    PROVE  /\ field \in Integral => /\ Convert(field, Value(a)) \in {BadNumber, BadType, a.value}
                                    /\ Convert(field, Value(a)) = BadType => a.kind = "array"
           /\ field \notin Integral /\ AllAscii(a) => Convert(field, Value(a)) = a.value
  <1>1. (CASE field \in Integral -> (a.kind = "text" => AsRead(a.value) \notin DOMAIN Numbers)
           [] field \in Lists -> a.kind = "array"
           [] OTHER -> a.kind = "text")
    BY DEF Meaningful, Fits
  <1>2. field \in Integral => field \notin Lists
    BY DEF Integral, Lists
  <1>3. CASE field \in Integral
    <2>1. Convert(field, Value(a)) =
                IF Value(a).kind = "array" THEN BadType
                ELSE IF Value(a).text \in DOMAIN Numbers THEN Numbers[Value(a).text] ELSE BadNumber
      BY <1>2, <1>3, Zenon DEF Convert
    <2>2. CASE a.kind = "array"
      <3>1. Value(a).kind = "array"
        BY <2>2 DEF Value
      <3> QED
        BY <1>3, <2>1, <2>2, <3>1
    <2>3. CASE a.kind = "text"
      <3>1. Value(a).kind = "string" /\ Value(a).text = AsRead(a.value)
        BY <2>3 DEF Value, String
      <3>2. AsRead(a.value) \notin DOMAIN Numbers
        BY <1>1, <1>2, <1>3, <2>3
      <3>3. Convert(field, Value(a)) = BadNumber
        BY <2>1, <3>1, <3>2
      <3> QED
        BY <1>3, <3>3 DEF BadNumber, BadType
    <2>4. CASE a.kind = "number"
      <3>1. Value(a).kind = "bare" /\ Value(a).text = Text(a.word)
        BY <2>4 DEF Value, Text
      <3>2. Text(a.word) \in DOMAIN Numbers /\ a.value = Numbers[Text(a.word)]
        BY <2>4, KindsOfValues
      <3>3. Convert(field, Value(a)) = a.value /\ a.value # BadType
        BY <2>1, <3>1, <3>2, NumbersAssumption
      <3> QED
        BY <1>3, <3>3
    <2> QED
      BY <2>2, <2>3, <2>4, KindsOfValues
  <1>4. CASE field \in Lists
    <2>1. a.kind = "array" /\ field \notin Integral
      BY <1>1, <1>2, <1>4
    <2> SUFFICES ASSUME AllAscii(a) PROVE Convert(field, Value(a)) = a.value
      BY <2>1
    <2>2. a.value \in Seq(Seq(Tokens))
      BY <2>1, KindsOfValues
    <2> DEFINE v == Value(a)
               n == Len(a.value)
    <2>3. v = [kind |-> "array", items |-> [j \in 1..n |-> String(a.value[j])]]
      BY <2>1 DEF Value
    <2>4. v.kind = "array" /\ DOMAIN v.items = 1..n /\ \A j \in 1..n : v.items[j].text = a.value[j]
      <3>1. v.kind = "array" /\ DOMAIN v.items = 1..n /\ \A j \in 1..n : v.items[j] = String(a.value[j])
        BY <2>3
      <3>2. \A j \in 1..n : AsRead(a.value[j]) = a.value[j]
        BY <2>1, <2>2 DEF AllAscii, IsAscii
      <3>3. \A j \in 1..n : String(a.value[j]).text = a.value[j]
        BY <3>2 DEF String
      <3> QED
        BY <3>1, <3>3
    <2> HIDE DEF v
    <2>5. Convert(field, v) = [j \in DOMAIN v.items |-> v.items[j].text]
      BY <1>4, <2>1, <2>4, Zenon DEF Convert
    <2>6. a.value = [j \in 1..n |-> a.value[j]]
      BY <2>2
    <2>7. [j \in DOMAIN v.items |-> v.items[j].text] = [j \in 1..n |-> a.value[j]]
      BY <2>4
    <2> QED
      BY <2>5, <2>6, <2>7 DEF v
  <1>5. CASE field \notin Integral /\ field \notin Lists
    <2> SUFFICES ASSUME AllAscii(a) PROVE Convert(field, Value(a)) = a.value
      BY <1>5
    <2>1. a.kind = "text"
      BY <1>1, <1>5
    <2>2. AsRead(a.value) = a.value
      BY <2>1 DEF AllAscii, IsAscii
    <2>3. Value(a).kind = "string" /\ Value(a).text = a.value
      BY <2>1, <2>2 DEF Value, String
    <2> QED
      BY <1>5, <2>3 DEF Convert
  <1> QED
    BY <1>3, <1>4, <1>5

\* A setting is taken from the most specific place its author gave it one in, where
\* his last assignment counts.
LEMMA FirstIsMeant ==
    ASSUME TypeOK, ReaderInv, document.damaged = 0, outcome.status = "read",
           ~Clashes, NEW field \in DOMAIN Places
    PROVE  /\ field \in Integral => /\ First(field, Root) \in {BadNumber, Meant(field)}
                                    /\ First(field, Root) # BadType
           /\ field \notin Integral /\ Survives(field) => First(field, Root) = Meant(field)
  <1> DEFINE means == document.means
             n == Len(means)
             given == {k \in DOMAIN Places[field] : Root \o Places[field][k] \in DOMAIN table}
             wanted == {k \in DOMAIN Places[field] : Assignments(Places[field][k]) # {}}
             place == Places[field][Min(given)]
             q == Root \o place
  <1>1. DOMAIN Places[field] \in {{1}, {1, 2}} /\ \A k \in DOMAIN Places[field] : Shallow(Places[field][k])
    BY PlacesAreShallow
  <1>2. \A k \in DOMAIN Places[field] :
            Root \o Places[field][k] \in DOMAIN table <=> Assignments(Places[field][k]) # {}
    BY <1>1, NoSectionIsAValue, GivenWhereMeant
  <1>3. given = wanted
    BY <1>2
  <1>4. CASE given = {}
    <2>1. First(field, Root) = Defaults[field] /\ Meant(field) = Defaults[field]
      BY <1>3, <1>4 DEF First, Meant
    <2>2. field \in Integral => Defaults[field] # BadType
      BY DEF Integral, Defaults, BadType
    <2> QED
      BY <2>1, <2>2
  <1>5. CASE given # {}
    <2>1. Min(given) \in given
      <3>1. given \subseteq {1, 2}
        BY <1>1
      <3> HIDE DEF given
      <3>2. 1 \in given \/ given = {2}
        BY <1>5, <3>1
      <3>3. CASE 1 \in given
        <4>1. \A i \in given : 1 <= i
          BY <3>1
        <4>2. given \in SUBSET Nat
          BY <3>1
        <4>3. Min(given) = 1
          BY <3>3, <4>1, <4>2, MinIs
        <4> QED
          BY <3>3, <4>3
      <3>4. CASE given = {2}
        <4>1. 2 \in given /\ \A i \in given : 2 <= i
          BY <3>4
        <4>2. given \in SUBSET Nat
          BY <3>1
        <4>3. Min(given) = 2
          BY <4>1, <4>2, MinIs
        <4> QED
          BY <4>1, <4>3
      <3> QED
        BY <3>2, <3>3, <3>4
    <2> HIDE DEF given
    <2>2. First(field, Root) = Convert(field, table[q]) /\ q \in DOMAIN table
          /\ Min(given) \in DOMAIN Places[field]
      BY <1>5, <2>1 DEF First, given
    <2>3. Meant(field) = means[Max(Assignments(place))].value
      BY <1>3, <1>5 DEF Meant
    <2>4. Assignments(place) = {i \in DOMAIN means : means[i].path = q}
      BY TheRootIsMeant DEF Assignments
    <2>5. PICK i \in DOMAIN means : LastFor(document, i, n, q) /\ means[i].path = q
                                    /\ table[q] = Value(means[i])
      BY <2>2, TableSays
    <2>6. document \in Documents /\ DOMAIN means = 1..n /\ n \in Nat
      BY AllIsRead
    <2>7. Max(Assignments(place)) = i
      <3> HIDE DEF place, q
      <3>1. \A j \in Assignments(place) : j <= i
        <4> SUFFICES ASSUME NEW j \in 1..n, means[j].path = q, ~(j <= i) PROVE FALSE
          BY <2>4, <2>6
        <4>1. j \in i + 1..n
          BY <2>6
        <4> QED
          BY <2>5, <4>1 DEF LastFor
      <3>2. Assignments(place) \in SUBSET Int /\ i \in Assignments(place)
        BY <2>4, <2>5, <2>6
      <3> QED
        BY <3>1, <3>2, MaxIs
    <2> DEFINE a == means[i]
               k == Min(given)
    <2>8. /\ field \in Integral => /\ Convert(field, Value(a)) \in {BadNumber, BadType, a.value}
                                   /\ Convert(field, Value(a)) = BadType => a.kind = "array"
          /\ field \notin Integral /\ AllAscii(a) => Convert(field, Value(a)) = a.value
      <3>1. Meaningful(a)
        BY <2>6, IntactFile
      <3>2. a.path = Root \o Places[field][k] /\ k \in DOMAIN Places[field]
        BY <2>2, <2>5
      <3>3. Root \in {<<>>, Text("gdextest")}
        BY DEF Root
      <3> HIDE DEF a, k
      <3> QED
        BY <3>1, <3>2, <3>3, ConvertsToWhatIsMeant
    <2>9. First(field, Root) = Convert(field, Value(a)) /\ Meant(field) = a.value
      BY <2>2, <2>3, <2>5, <2>7
    <2>10. field \in Integral => a.kind # "array"
      <3>1. i \in Assignments(Places[field][k]) /\ k \in DOMAIN Places[field]
        BY <2>2, <2>4, <2>5
      <3> QED
        BY <3>1 DEF Clashes
    <2>11. field \notin Integral /\ Survives(field) => AllAscii(a)
      <3> SUFFICES ASSUME field \notin Integral, Survives(field) PROVE AllAscii(a)
        OBVIOUS
      <3>1. (CASE field \in Integral -> (a.kind = "text" => AsRead(a.value) \notin DOMAIN Numbers)
               [] field \in Lists -> a.kind = "array"
               [] OTHER -> a.kind = "text")
        <4>1. Meaningful(a) /\ a.path = Root \o Places[field][k] /\ k \in DOMAIN Places[field]
          BY <2>2, <2>5, <2>6, IntactFile
        <4>2. Root \in {<<>>, Text("gdextest")}
          BY DEF Root
        <4> HIDE DEF a, k
        <4> QED
          BY <4>1, <4>2 DEF Meaningful, Fits
      <3> HIDE DEF a, k
      <3>2. CASE field \in Lists
        BY <2>9, <3>1, <3>2 DEF Survives, AllAscii
      <3>3. CASE field \notin Lists
        BY <2>9, <3>1, <3>3 DEF Survives, AllAscii
      <3> QED
        BY <3>2, <3>3
    <2> HIDE DEF a
    <2> QED
      BY <2>8, <2>9, <2>10, <2>11
  <1> QED
    BY <1>4, <1>5

\* The settings that were loaded are those that were meant.
ConfigMeant ==
    document.damaged = 0 =>
        /\ config.status = "crash" => Clashes
        /\ config.status = "loaded" /\ ~Clashes =>
               \A field \in DOMAIN Places \ {"extension_library", "extension_manifest"} :
                   Survives(field) => config.is[field] = Meant(field)

\* What was meant depends on the file alone.
LEMMA MeaningIsTheFiles ==
    ASSUME document' = document
    PROVE  Clashes' = Clashes /\ \A field : /\ Meant(field)' = Meant(field)
                                            /\ Survives(field)' = Survives(field)
  <1>1. Clashes' = Clashes
    BY DEF Clashes, Shadowed, Assignments, MeantRoot
  <1>2. ASSUME NEW field PROVE Meant(field)' = Meant(field)
    BY DEF Meant, Assignments, MeantRoot
  <1>3. ASSUME NEW field PROVE Survives(field)' = Survives(field)
    BY <1>2 DEF Survives
  <1> QED
    BY <1>1, <1>2, <1>3

\* Reading on does not change what was loaded.
LEMMA MeaningStays ==
    ASSUME ConfigMeant, document' = document, config' = config
    PROVE  ConfigMeant'
  <1>1. Clashes' = Clashes /\ \A field : Meant(field)' = Meant(field) /\ Survives(field)' = Survives(field)
    BY MeaningIsTheFiles
  <1>2. document'.damaged = document.damaged /\ config'.status = config.status
    OBVIOUS
  <1>3. ASSUME NEW field, Survives(field) => config.is[field] = Meant(field)
        PROVE (Survives(field) => config.is[field] = Meant(field))'
    BY <1>1, <1>3
  <1> QED
    BY <1>1, <1>2, <1>3 DEF ConfigMeant

\* What is loaded is what was meant (load_config).
LEMMA LoadsWhatIsMeant ==
    ASSUME TypeOK, ReaderInv, LoadConfig
    PROVE  ConfigMeant'
  <1> DEFINE settings == [field \in DOMAIN Places |-> First(field, Root)]
  <1>1. /\ outcome.status = "read" /\ UNCHANGED reader
        /\ \/ /\ config' = [status |-> "crash"]
              /\ \/ SectionPaths(Root) \cap DOMAIN table # {}
                 \/ \E f \in Integral : settings[f] = BadType
           \/ config' = [status |-> "error"]
           \/ /\ \A f \in Integral : settings[f] # BadNumber
              /\ config' = [status |-> "loaded", is |-> WithDerivedPair(settings, facts')]
    BY DEF LoadConfig, SectionPaths, Text
  <1>2. document' = document /\ Clashes' = Clashes
        /\ \A field : Meant(field)' = Meant(field) /\ Survives(field)' = Survives(field)
    BY <1>1, MeaningIsTheFiles DEF reader
  <1> SUFFICES ASSUME document.damaged = 0
               PROVE /\ config'.status = "crash" => Clashes
                     /\ config'.status = "loaded" /\ ~Clashes =>
                          \A field \in DOMAIN Places \ {"extension_library", "extension_manifest"} :
                              Survives(field) => config'.is[field] = Meant(field)
    BY <1>2 DEF ConfigMeant
  <1>3. Integral \subseteq DOMAIN Places
    BY DEF Integral, Places
  <1>4. CASE config' = [status |-> "crash"]
    <2> SUFFICES ASSUME ~Clashes PROVE FALSE
      BY <1>4
    <2>1. SectionPaths(Root) \cap DOMAIN table = {}
      BY <1>1, NoSectionIsAValue
    <2>2. PICK f \in Integral : settings[f] = BadType
      BY <1>1, <1>4, <2>1
    <2>3. First(f, Root) = BadType /\ f \in DOMAIN Places
      BY <1>3, <2>2
    <2> QED
      BY <1>1, <2>2, <2>3, FirstIsMeant
  <1>5. CASE config' = [status |-> "error"]
    BY <1>5
  <1>6. CASE /\ \A f \in Integral : settings[f] # BadNumber
             /\ config' = [status |-> "loaded", is |-> WithDerivedPair(settings, facts')]
    <2> SUFFICES ASSUME ~Clashes,
                        NEW field \in DOMAIN Places \ {"extension_library", "extension_manifest"},
                        Survives(field)
                 PROVE  config'.is[field] = Meant(field)
      BY <1>6
    <2>1. config'.is = WithDerivedPair(settings, facts')
      BY <1>6
    <2>2. config'.is[field] = settings[field]
      BY <2>1 DEF WithDerivedPair
    <2>3. settings[field] = First(field, Root)
      OBVIOUS
    <2>4. field \in Integral => First(field, Root) # BadNumber
      BY <1>6
    <2>5. First(field, Root) = Meant(field)
      BY <1>1, <2>4, FirstIsMeant
    <2> QED
      BY <2>2, <2>3, <2>5
  <1> QED
    BY <1>1, <1>4, <1>5, <1>6

\* As far as a file is intact the reader knows what it says (load_toml).
LEMMA TheReaderKnows == Spec => []ReaderInv
  <1>1. Init => ReaderInv
    <2> SUFFICES ASSUME Init PROVE ReaderInv
      OBVIOUS
    <2>1. /\ index = 0 /\ section = <<>> /\ sections = {} /\ pending = Nothing /\ table = <<>>
          /\ outcome.status = "reading"
      BY DEF Init, ReadInit
    <2>2. After(document, index) = Beginning /\ Beginning.of = 0 /\ Beginning.section = <<>>
      BY <2>1 DEF After, Beginning
    <2>3. TableHolds(document, table, 0)
      BY <2>1 DEF TableHolds
    <2>4. Shaped(pending) /\ SectionsHold(document, sections) /\ Complete(document, Beginning)
      BY <2>1, <2>2 DEF Shaped, Nothing, SectionsHold, Complete
    <2> QED
      BY <2>1, <2>2, <2>3, <2>4 DEF ReaderInv
  <1>2. TypeOK /\ ReaderInv /\ [Next]_vars => ReaderInv'
    <2> SUFFICES ASSUME TypeOK, ReaderInv, [Next]_vars PROVE ReaderInv'
      OBVIOUS
    <2>1. CASE SkipLine \/ EnterSection \/ BeginAssignment \/ JoinLine
      <3>1. document' = document /\ index' = index + 1
        BY <2>1 DEF SkipLine, EnterSection, BeginAssignment, JoinLine
      <3>2. CASE Intact(index + 1)
        BY <2>1, <3>2, SkipsNothing, EntersTheNextSection, BeginsTheNext, JoinsTheRest
      <3>3. CASE ~Intact(index + 1)
        BY <3>1, <3>3 DEF ReaderInv, Intact
      <3> QED
        BY <3>2, <3>3
    <2>2. CASE RaiseUnterminated \/ Store \/ Finish
      <3>1. document' = document /\ index' = index
        BY <2>2 DEF RaiseUnterminated, Store, Finish
      <3>2. CASE Intact(index)
        BY <2>2, <3>2, NothingIsUnterminated, StoresWhatIsMeant, FinishesAtTheEnd
      <3>3. CASE ~Intact(index)
        BY <3>1, <3>3 DEF ReaderInv, Intact
      <3> QED
        BY <3>2, <3>3
    <2>3. CASE UNCHANGED reader
      <3>1. Intact(index)' = Intact(index) /\ RefusedBefore' = RefusedBefore
            /\ ShadowedBefore' = ShadowedBefore
        BY <2>3 DEF reader, Intact, RefusedBefore, ShadowedBefore, Refused, Shadowed
      <3> QED
        BY <2>3, <3>1 DEF reader, ReaderInv, lines
    <2> QED
      BY <2>1, <2>2, <2>3 DEF Next, Read, LoadConfig, Judge, Done, vars
  <1> QED
    BY <1>1, <1>2, TypesHold, PTL DEF Spec

\* An error in an intact file is about an assignment that may be refused, a crash about
\* one for which there is no room.
LEMMA FaultsAreMeant ==
    ASSUME TypeOK, ReaderInv, document.damaged = 0
    PROVE  /\ outcome.status = "error" => Refusable
           /\ outcome.status = "crash" => Clashes
  <1>1. Intact(index)
    BY DEF Intact
  <1>2. After(document, index).of \in 0..Len(document.means)
        /\ DOMAIN document.means = 1..Len(document.means) /\ Len(document.means) \in Nat
    BY <1>1, Standing
  <1>3. \A i \in 1..After(document, index).of : i \in DOMAIN document.means
    BY <1>2
  <1>4. RefusedBefore => Refusable
    BY <1>3 DEF RefusedBefore, Refusable
  <1>5. ShadowedBefore => Clashes
    BY DEF ShadowedBefore, Clashes
  <1> QED
    BY <1>1, <1>4, <1>5 DEF ReaderInv

\* Whatever its strings, comments and broken lines hold, an intact file is read as its
\* author meant, and each setting comes from the most specific place that has one: the
\* numbers, and the texts that are ASCII, where no value stands in the place of a section
\* and no array in that of a number.  What is refused has a comma inside an array's
\* string, and what crashes has a value in such a place (load_toml, _parse_value,
\* load_config).
THEOREM AnIntactFileIsReadAsMeant == Spec => []ReadsAsMeant
  <1>1. Init => ConfigMeant
    BY DEF Init, ConfigMeant
  <1>2. TypeOK /\ ReaderInv /\ ConfigMeant /\ [Next]_vars => ConfigMeant'
    <2> SUFFICES ASSUME TypeOK, ReaderInv, ConfigMeant, [Next]_vars PROVE ConfigMeant'
      OBVIOUS
    <2>1. ASSUME document' = document, UNCHANGED config PROVE ConfigMeant'
      BY <2>1, MeaningStays
    <2>2. CASE Read /\ UNCHANGED <<config, facts, verdict>>
      <3>1. document' = document /\ config' = config
        BY <2>2 DEF Read, SkipLine, EnterSection, BeginAssignment, JoinLine, RaiseUnterminated,
                    Store, Finish
      <3> QED
        BY <2>1, <3>1
    <2>3. CASE LoadConfig
      BY <2>3, LoadsWhatIsMeant
    <2>4. CASE Judge \/ UNCHANGED vars
      BY <2>1, <2>4 DEF Judge, vars, reader
    <2> QED
      BY <2>2, <2>3, <2>4 DEF Next, Done
  <1>3. TypeOK /\ ReaderInv /\ ConfigMeant => ReadsAsMeant
    <2> SUFFICES ASSUME TypeOK, ReaderInv, ConfigMeant, document.damaged = 0
                 PROVE /\ outcome.status = "error" => Refusable
                       /\ "crash" \in {outcome.status, config.status} => Clashes
                       /\ config.status = "loaded" /\ ~Clashes =>
                            \A field \in DOMAIN Places \ {"extension_library", "extension_manifest"} :
                                Survives(field) => config.is[field] = Meant(field)
      BY DEF ReadsAsMeant
    <2>1. /\ outcome.status = "error" => Refusable
          /\ outcome.status = "crash" => Clashes
      BY FaultsAreMeant
    <2> QED
      BY <2>1 DEF ConfigMeant
  <1> QED
    BY <1>1, <1>2, <1>3, TheReaderKnows, TypesHold, PTL DEF Spec

-----------------------------------------------------------------------------
(* A file that misses a delimiter.                                          *)

\* Behind the damage the value stays under way: no line closes it, it is not stored, and
\* what error there is names the line it began in.
TornInv ==
    ~Intact(index) /\ ~EscapesLater =>
        /\ pending # Nothing /\ Shaped(pending) /\ pending.line = document.damaged
        /\ TornValue(document, After(document, index), pending.value)
        /\ outcome.status \in {"reading", "error"}
        /\ outcome.status = "error" => outcome.line = document.damaged

\* Where the reader stands in a damaged file.
LEMMA Harm ==
    ASSUME TypeOK, NEW n \in 1..Len(lines), ~Intact(n)
    PROVE  /\ document \in Documents /\ Written(document) /\ Damaged(document)
           /\ lines = document.text /\ document.text \in Seq(Seq(Tokens))
           /\ document.damaged \in 1..Len(lines) /\ document.damaged <= n /\ document.damaged # 0
           /\ index \in Nat /\ Len(lines) \in Nat
  <1>1. document \in Documents /\ index \in 0..Len(lines)
    BY DEF TypeOK
  <1>2. document.damaged # 0 /\ ~(n < document.damaged)
    BY DEF Intact
  <1>3. Written(document) /\ lines = document.text /\ lines \in Seq(Seq(Tokens)) /\ Len(lines) \in Nat
    BY <1>1, IntactFile
  <1>4. Damaged(document) /\ document.damaged \in 1..Len(lines)
    BY <1>1, <1>2, DamagedFile
  <1>5. index \in Nat /\ document.damaged <= n
    BY <1>1, <1>2, <1>3, <1>4
  <1> QED
    BY <1>1, <1>2, <1>3, <1>4, <1>5

\* The line the damage is in is read as the beginning of that assignment.
LEMMA BeginsTheTorn ==
    ASSUME TypeOK, ReaderInv, Intact(index), ~Intact(index + 1),
           SkipLine \/ EnterSection \/ BeginAssignment \/ JoinLine
    PROVE  TornInv'
  <1> DEFINE n == index + 1
             a == document.means[document.torn]
             word == Last(a.path)
  <1>1. /\ index' = n /\ document' = document /\ index < Len(lines) /\ Reading
    BY DEF SkipLine, EnterSection, BeginAssignment, JoinLine, AtALine
  <1>2. index \in Nat /\ n \in 1..Len(lines) /\ n \in Nat /\ n - 1 = index
    BY <1>1, IntactFile DEF TypeOK
  <1>3. ~Intact(n)
    OBVIOUS
  <1>4. Intact(n - 1)
    BY <1>2
  <1> HIDE DEF n
  <1>5. /\ document \in Documents /\ Written(document) /\ Damaged(document)
        /\ lines = document.text /\ document.text \in Seq(Seq(Tokens))
        /\ document.damaged \in 1..Len(lines) /\ document.damaged <= n /\ document.damaged # 0
    BY <1>2, <1>3, Harm
  <1>6. document.damaged = n
    <2>1. n - 1 < document.damaged
      BY <1>4, <1>5 DEF Intact
    <2> QED
      BY <1>2, <1>5, <2>1
  <1>7. Complete(document, After(document, document.damaged - 1)) /\ word \in Words
    BY <1>5, TornIsBegun
  <1>8. PICK y \in Seq(Tokens) :
          /\ StripComment(document.text[document.damaged]) = <<word, Equals>> \o y
          /\ TornValue(document, After(document, document.damaged), y)
    BY <1>5, TornIsBegun
  <1> HIDE DEF word, a
  <1>9. Line = <<word, Equals>> \o y
    BY <1>5, <1>6, <1>8 DEF Line, n
  <1>10. /\ ~IsHeader(Line) /\ Contains(Line, Equals) /\ FirstEquals(Line) = 2
         /\ SubSeq(Line, 1, 1) = <<word>> /\ SubSeq(Line, 3, Len(Line)) = y
    BY <1>7, <1>9, AssignmentSays
  <1>11. ~JoinLine
    <2> SUFFICES ASSUME JoinLine PROVE FALSE
      OBVIOUS
    <2>1. pending # Nothing /\ Continues
      BY DEF JoinLine
    <2>2. ~Complete(document, After(document, index))
      BY <2>1, GoesOn
    <2> QED
      BY <1>2, <1>6, <1>7, <2>2
  <1>12. BeginAssignment
    BY <1>10, <1>11 DEF SkipLine, EnterSection
  <1>13. pending' = [line |-> n, key |-> SubSeq(Line, 1, 1), value |-> y] /\ outcome' = outcome
    <2>1. /\ pending' = [line |-> index + 1,
                         key |-> IF FirstEquals(Line) = 1 THEN <<"">>
                                 ELSE SubSeq(Line, 1, FirstEquals(Line) - 1),
                         value |-> SubSeq(Line, FirstEquals(Line) + 1, Len(Line))]
          /\ outcome' = outcome
      BY <1>12 DEF BeginAssignment
    <2>2. FirstEquals(Line) # 1 /\ FirstEquals(Line) - 1 = 1 /\ FirstEquals(Line) + 1 = 3
      BY <1>10
    <2>3. pending' = [line |-> index + 1, key |-> SubSeq(Line, 1, 1),
                      value |-> SubSeq(Line, 3, Len(Line))]
      BY <2>1, <2>2, Zenon
    <2> QED
      BY <1>10, <2>1, <2>3 DEF n
  <1>14. Shaped(pending') /\ pending'.line = n /\ pending'.value = y
    BY <1>13 DEF Shaped
  <1>15. pending' # Nothing
    BY <1>2, <1>14 DEF Nothing
  <1>16. TornValue(document', After(document', index'), pending'.value)
    BY <1>1, <1>6, <1>8, <1>14
  <1>17. outcome'.status = "reading"
    BY <1>1, <1>13 DEF Reading
  <1>18. pending'.line = document'.damaged
    BY <1>1, <1>6, <1>14
  <1> QED
    BY <1>14, <1>15, <1>16, <1>17, <1>18 DEF TornInv

\* What is joined to the damaged value does not close it.
LEMMA JoinsTheTorn ==
    ASSUME TypeOK, TornInv, ~Intact(index), ~EscapesLater, JoinLine
    PROVE  TornInv'
  <1> DEFINE n == index + 1
             v == pending.value
             a == document.means[document.torn]
  <1>1. /\ index' = n /\ document' = document /\ index < Len(lines) /\ Reading /\ Continues
        /\ pending' = [pending EXCEPT !.value = v \o Line] /\ outcome' = outcome
    BY DEF JoinLine
  <1>2. /\ pending # Nothing /\ Shaped(pending) /\ pending.line = document.damaged
        /\ TornValue(document, After(document, index), v)
    BY DEF TornInv
  <1>3. index \in Nat /\ n \in 1..Len(lines) /\ n - 1 = index
    <2>1. document \in Documents /\ index \in 0..Len(lines) /\ index < Len(lines)
      BY <1>1 DEF TypeOK
    <2>2. Len(lines) \in Nat
      BY <2>1, IntactFile
    <2> QED
      BY <2>1, <2>2
  <1>4. ~Intact(n)
    BY IntactBefore
  <1>5. StartsWith(v, Open)
    BY <1>1 DEF Continues
  <1>6. a.kind = "array" /\ document.lacks = Len(a.value) =>
            \A i \in document.torn + 1..Len(document.means) : ~HasEscapes(document.means[i])
    BY DEF EscapesLater
  <1> HIDE DEF n, v
  <1>7. /\ Written(document) /\ Damaged(document)
        /\ lines = document.text /\ document.text \in Seq(Seq(Tokens))
        /\ document.damaged \in 1..Len(lines)
    BY <1>3, <1>4, Harm
  <1>8. TornValue(document, After(document, n - 1), v) /\ n \in 1..Len(document.text)
    BY <1>2, <1>3, <1>7
  <1>9. TornValue(document, After(document, n), v \o StripComment(document.text[n]))
    BY <1>5, <1>6, <1>7, <1>8, TornGoesOn
  <1>10. Line = StripComment(document.text[n])
    BY <1>7 DEF Line, n
  <1>11. pending'.line = document.damaged /\ pending'.value = v \o Line /\ Shaped(pending')
    <2> DEFINE longer == v \o Line
    <2>1. pending = [line |-> pending.line, key |-> pending.key, value |-> pending.value]
      BY <1>2 DEF Shaped
    <2>2. pending' = [pending EXCEPT !.value = longer]
      BY <1>1
    <2> HIDE DEF longer
    <2>3. pending' = [line |-> pending.line, key |-> pending.key, value |-> longer]
      BY <2>1, <2>2
    <2>4. pending'.key = pending.key /\ pending'.value = longer /\ pending'.line = pending.line
      BY <2>3
    <2>5. Shaped(pending')
      BY <2>3, <2>4, Zenon DEF Shaped
    <2> QED
      BY <1>2, <2>4, <2>5 DEF longer
  <1>12. pending' # Nothing
    BY <1>7, <1>11 DEF Nothing
  <1>13. TornValue(document', After(document', index'), pending'.value)
    BY <1>1, <1>9, <1>10, <1>11
  <1>14. outcome'.status = "reading" /\ pending'.line = document'.damaged
    BY <1>1, <1>11 DEF Reading
  <1> QED
    BY <1>11, <1>12, <1>13, <1>14 DEF TornInv

\* Where the damaged value ends it is refused, and so it is where the file ends.
LEMMA RefusesTheTorn ==
    ASSUME TypeOK, TornInv, ~Intact(index), ~EscapesLater, RaiseUnterminated \/ Store
    PROVE  TornInv'
  <1> DEFINE v == pending.value
  <1>1. /\ pending # Nothing /\ Shaped(pending) /\ pending.line = document.damaged
        /\ TornValue(document, After(document, index), v)
    BY DEF TornInv
  <1>2. document' = document /\ index' = index
    BY DEF RaiseUnterminated, Store
  <1>3. outcome' = [status |-> "error", line |-> pending.line] /\ pending' = pending
    <2>1. CASE RaiseUnterminated
      BY <2>1 DEF RaiseUnterminated, Fail
    <2>2. CASE Store
      <3>1. ~(StartsWith(v, Open) /\ ArrayIncomplete(v))
        BY <2>2 DEF Store, Continues
      <3>2. document \in Documents /\ index \in Nat /\ document.damaged # 0
        BY IntactFile DEF TypeOK, Intact
      <3>3. Written(document) /\ Damaged(document)
        BY <3>2, IntactFile, DamagedFile
      <3> HIDE DEF v
      <3>4. ParseValue[v] = Malformed
        BY <1>1, <3>1, <3>3, TornIsNotStored
      <3> QED
        BY <2>2, <3>4 DEF Store, Fail, v
    <2> QED
      BY <2>1, <2>2
  <1>4. outcome'.status = "error" /\ outcome'.line = document'.damaged
    BY <1>1, <1>2, <1>3
  <1>5. TornValue(document', After(document', index'), pending'.value)
    BY <1>1, <1>2, <1>3
  <1>6. pending' # Nothing /\ Shaped(pending') /\ pending'.line = document'.damaged
    BY <1>1, <1>2, <1>3
  <1> QED
    BY <1>4, <1>5, <1>6 DEF TornInv

\* Nothing that follows a missing delimiter supplies it (load_toml).
LEMMA TheTornStaysTorn == Spec => []TornInv
  <1>1. Init => TornInv
    <2> SUFFICES ASSUME Init PROVE Intact(index)
      BY DEF TornInv
    <2>1. document \in Documents /\ index = 0
      BY DEF Init, ReadInit
    <2>2. document.damaged # 0 => 0 < document.damaged
      BY <2>1, DamagedFile
    <2> QED
      BY <2>1, <2>2 DEF Intact
  <1>2. TypeOK /\ ReaderInv /\ TornInv /\ [Next]_vars => TornInv'
    <2> SUFFICES ASSUME TypeOK, ReaderInv, TornInv, [Next]_vars, (~Intact(index))', ~EscapesLater'
                 PROVE  TornInv'
      BY DEF TornInv
    <2>1. CASE Read /\ UNCHANGED <<config, facts, verdict>>
      <3>1. document' = document /\ (index' = index \/ index' = index + 1)
        BY <2>1 DEF Read, SkipLine, EnterSection, BeginAssignment, JoinLine, RaiseUnterminated,
                    Store, Finish
      <3>2. ~EscapesLater
        BY <3>1 DEF EscapesLater, HasEscapes
      <3>3. CASE Intact(index)
        <4>1. index' # index
          BY <3>1, <3>3 DEF Intact
        <4>2. ~Intact(index + 1)
          BY <3>1, <4>1 DEF Intact
        <4>3. SkipLine \/ EnterSection \/ BeginAssignment \/ JoinLine
          BY <2>1, <4>1 DEF Read, RaiseUnterminated, Store, Finish
        <4> QED
          BY <3>3, <4>2, <4>3, BeginsTheTorn
      <3>4. CASE ~Intact(index)
        <4>1. pending # Nothing
          BY <3>2, <3>4 DEF TornInv
        <4>2. JoinLine \/ RaiseUnterminated \/ Store
          BY <2>1, <4>1 DEF Read, SkipLine, EnterSection, BeginAssignment, Finish, AtALine
        <4> QED
          BY <3>2, <3>4, <4>2, JoinsTheTorn, RefusesTheTorn
      <3> QED
        BY <3>3, <3>4
    <2>2. CASE UNCHANGED reader
      BY <2>2 DEF reader, TornInv, Intact, EscapesLater, HasEscapes
    <2> QED
      BY <2>1, <2>2 DEF Next, LoadConfig, Judge, Done, vars
  <1> QED
    BY <1>1, <1>2, TheReaderKnows, TypesHold, PTL DEF Spec

\* docs/configuration.md promises that a missing closing quote or bracket is an error that
\* names its line: so it is in every file, whatever its strings, its comments and the lines
\* below hold, but for the quote of an array's last string where a later string has an
\* escape (_array_incomplete, load_toml, _parse_value).
THEOREM NoMissingDelimiterIsMissed == Spec => []MissingDelimiterIsAnError
  <1>1. TypeOK /\ ReaderInv /\ TornInv => MissingDelimiterIsAnError
    <2> SUFFICES ASSUME TypeOK, ReaderInv, TornInv, document.damaged # 0, ~EscapesLater
                 PROVE  /\ outcome.status # "read"
                        /\ ~FaultBefore => /\ outcome.status # "crash"
                                           /\ outcome.status = "error" => outcome.line = document.damaged
      BY DEF MissingDelimiterIsAnError
    <2>1. CASE ~Intact(index)
      BY <2>1 DEF TornInv
    <2>2. CASE Intact(index)
      <3> DEFINE at == After(document, index)
                 torn == document.torn
      <3>1. document \in Documents /\ index \in 0..Len(lines) /\ Len(lines) \in Nat
        BY IntactFile DEF TypeOK
      <3>2. index < document.damaged /\ document.damaged \in 1..Len(lines)
        BY <2>2, <3>1, DamagedFile DEF Intact
      <3>3. outcome.status # "read"
        BY <2>2, <3>1, <3>2 DEF ReaderInv
      <3>4. at.of \in Nat /\ at.of < torn /\ torn \in Nat
        BY <3>1, <3>2, DamagedFile
      <3>5. /\ outcome.status = "error" => \E i \in 1..at.of : Refused(i)
            /\ outcome.status = "crash" => \E i \in 1..at.of + 1 : Shadowed(i)
        BY <2>2 DEF ReaderInv, RefusedBefore, ShadowedBefore
      <3> HIDE DEF at, torn
      <3>6. 1..at.of \subseteq 1..torn - 1 /\ 1..at.of + 1 \subseteq 1..torn
        BY <3>4
      <3>7. outcome.status \in {"error", "crash"} => FaultBefore
        BY <3>5, <3>6 DEF FaultBefore, torn
      <3> QED
        BY <3>3, <3>7
    <2> QED
      BY <2>1, <2>2
  <1> QED
    BY <1>1, TypesHold, TheReaderKnows, TheTornStaysTorn, PTL

\* What a build compiles of a pattern: all that it names and no exclude covers, and
\* never nothing (resolve_sources).
LEMMA EachPatternCounts ==
    ASSUME NEW c, NEW e, BuildStarts(c, e), NEW pattern \in Range(c.sources)
    PROVE  /\ MatchesOf(c, pattern) # {} /\ MatchesOf(c, pattern) \subseteq DiscoverSources(c)
           /\ MatchesOf(c, pattern) =
                {path \in CppFiles :
                    /\ pattern \in DOMAIN Files /\ path \in Files[pattern]
                    /\ ({path} \cup Parents[path]) \cap Range(c.exclude) = {}}
  <1>1. MatchesOf(c, pattern) # {}
    BY DEF BuildStarts, ZeroPatterns
  <1>2. MatchesOf(c, pattern) \subseteq DiscoverSources(c)
    BY DEF DiscoverSources, SourcePatternMatches, Range
  <1>3. \A path : ~IsExcluded(c, path) <=> ({path} \cup Parents[path]) \cap Range(c.exclude) = {}
    BY DEF IsExcluded
  <1>4. pattern \in DOMAIN Files
    BY <1>1 DEF MatchesOf
  <1> QED
    BY <1>1, <1>2, <1>3, <1>4 DEF MatchesOf

\* A build that starts compiles, of every pattern the author wrote, at least one source and
\* all that exclude does not name.  Of a file that misses a delimiter this holds because
\* it never comes so far, unless EscapesLater lets it; of an intact one as long as its
\* patterns are ASCII and no value stands in the place of a section, which the code may
\* take for a section that is empty (resolve_sources, load_toml, load_config).
THEOREM SourcesAreNotLost == Spec => []NoSourceIsLost
  <1>1. TypeOK /\ VerdictIsTheChecks /\ MissingDelimiterIsAnError =>
            (document.damaged # 0 => NoSourceIsLost)
    BY DEF TypeOK, VerdictIsTheChecks, MissingDelimiterIsAnError, NoSourceIsLost, ClearSources
  <1>2. VerdictIsTheChecks /\ ReadsAsMeant => (document.damaged = 0 => NoSourceIsLost)
    <2> DEFINE c == config.is
               sources == Meant("sources")
               exclude == Meant("exclude")
    <2> SUFFICES ASSUME VerdictIsTheChecks, ReadsAsMeant, document.damaged = 0,
                        ~Clashes, Survives("sources"), Survives("exclude"), verdict.given, verdict.build, NEW i \in DOMAIN sources
                 PROVE  LET named == {path \in CppFiles : /\ sources[i] \in DOMAIN Files
                                                          /\ path \in Files[sources[i]]}
                            kept == {path \in named :
                                        ({path} \cup Parents[path]) \cap Range(exclude) = {}}
                        IN kept # {} /\ kept \subseteq verdict.sources
      BY DEF NoSourceIsLost, ClearSources
    <2>1. config.status = "loaded" /\ BuildStarts(c, facts) /\ verdict.sources = DiscoverSources(c)
      BY DEF VerdictIsTheChecks
    <2>2. c.sources = sources /\ c.exclude = exclude
      <3>1. {"sources", "exclude"} \subseteq DOMAIN Places \ {"extension_library", "extension_manifest"}
        BY DEF Places
      <3>2. config.is["sources"] = sources /\ config.is["exclude"] = exclude
        BY <2>1, <3>1 DEF ReadsAsMeant
      <3> QED
        BY <3>2
    <2> HIDE DEF c, sources, exclude
    <2>3. sources[i] \in Range(c.sources)
      BY <2>2 DEF Range
    <2>4. /\ MatchesOf(c, sources[i]) # {} /\ MatchesOf(c, sources[i]) \subseteq DiscoverSources(c)
          /\ MatchesOf(c, sources[i]) =
                {path \in CppFiles :
                    /\ sources[i] \in DOMAIN Files /\ path \in Files[sources[i]]
                    /\ ({path} \cup Parents[path]) \cap Range(c.exclude) = {}}
      BY <2>1, <2>3, EachPatternCounts
    <2> QED
      BY <2>1, <2>2, <2>4
  <1>3. TypeOK /\ VerdictIsTheChecks /\ ReadsAsMeant /\ MissingDelimiterIsAnError =>
            NoSourceIsLost
    BY <1>1, <1>2
  <1> QED
    BY <1>3, TypesHold, AnIntactFileIsReadAsMeant, NoMissingDelimiterIsMissed, VerdictStaysTheChecks, PTL
=============================================================================
