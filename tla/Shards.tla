------------------------------- MODULE Shards -------------------------------
(***************************************************************************)
(* The same selection split over parallel jobs (`test --shard=k/n          *)
(* --json=shardk.json'), one process each, and the `report' that merges    *)
(* their documents afterwards.  Each job scans the registry, shuffles what *)
(* it kept if asked to, runs it and writes its document, or dies.          *)
(***************************************************************************)
EXTENDS Registry, Report

CONSTANTS
    Cases,          \* TestRegistry::cases_, in the order of declaration
    Filters,        \* the filters a command line may ask for
    Hashes,         \* hash of each test: any function of its names
    ShardCount,     \* n of --shard=k/n
    JobVerdicts     \* what tests may end in

ASSUME CasesAssumption == Cases \in Seq([suite : Seq(STRING), name : Seq(STRING),
                                         tags : SUBSET STRING])
ASSUME FiltersAssumption == Filters \subseteq
    [patterns : Seq([negative : BOOLEAN, glob : Seq(STRING)]),
     include_tags : SUBSET STRING, exclude_tags : SUBSET STRING, shuffle : BOOLEAN]
ASSUME HashesAssumption == Hashes \subseteq [1 .. Len(Cases) -> Nat]
ASSUME ShardsAssumption == ShardCount \in Nat \ {0}
ASSUME VerdictsAssumption == JobVerdicts \subseteq Statuses

VARIABLES
    filter,     \* what all jobs were asked for
    hash,       \* the hash of each test
    stage,      \* of each job: "scan", "shuffle", "run", "done" or "dead"
    scanned,    \* how many cases select() has looked at
    out,        \* its `out': indices into Cases
    left,       \* its shuffle counter i
    document,   \* the job's JSON document, <<>> if there is none
    merged,     \* the merged document
    code        \* exit code of `report'; -1 before it ends

job == <<stage, scanned, out, left>>
vars == <<filter, hash, job, document, merged, code>>

Jobs == 0 .. ShardCount - 1
Tests == 1 .. Len(Cases)
Stages == {"scan", "shuffle", "run", "done", "dead"}
NoCode == -1

Wanted(t) == NameMatches(Cases[t], filter.patterns) /\ TagsOk(Cases[t], filter)

Takes(k, t) == Wanted(t) /\ InShard(hash[t], k, ShardCount)

Init ==
    /\ filter \in Filters
    /\ hash \in Hashes
    /\ stage = [k \in Jobs |-> "scan"]
    /\ scanned = [k \in Jobs |-> 0]
    /\ out = [k \in Jobs |-> <<>>]
    /\ left = [k \in Jobs |-> 0]
    /\ document = [k \in Jobs |-> <<>>]
    /\ merged = MergeDocuments(<<>>)
    /\ code = NoCode

\* One turn of select()'s loop over the cases.
Consider(k) ==
    LET t == scanned[k] + 1 IN
    /\ stage[k] = "scan" /\ scanned[k] < Len(Cases)
    /\ scanned' = [scanned EXCEPT ![k] = t]
    /\ out' = IF Takes(k, t) THEN [out EXCEPT ![k] = Append(@, t)] ELSE out
    /\ UNCHANGED <<filter, hash, stage, left, document, merged, code>>

EndOfCasesAlwaysShuffles(k) ==
    /\ stage[k] = "scan" /\ scanned[k] = Len(Cases)
    /\ stage' = [stage EXCEPT ![k] = "shuffle"]
    /\ left' = [left EXCEPT ![k] = Len(out[k])]
    /\ UNCHANGED <<filter, hash, scanned, out, document, merged, code>>
EndOfCases(k) ==
    /\ stage[k] = "scan" /\ scanned[k] = Len(Cases)
    /\ stage' = [stage EXCEPT ![k] = IF filter.shuffle THEN "shuffle" ELSE "run"]
    /\ left' = [left EXCEPT ![k] = Len(out[k])]
    /\ UNCHANGED <<filter, hash, scanned, out, document, merged, code>>

SwappedOverwrites(s, i, j) == [s EXCEPT ![i] = s[j]]
Swapped(s, i, j) == [s EXCEPT ![i] = s[j], ![j] = s[i]]

\* One turn of the Fisher-Yates loop; the generator may yield any j.
Shuffle(k) ==
    /\ stage[k] = "shuffle" /\ left[k] > 1
    /\ \E j \in 1 .. left[k] : out' = [out EXCEPT ![k] = Swapped(@, left[k], j)]
    /\ left' = [left EXCEPT ![k] = @ - 1]
    /\ UNCHANGED <<filter, hash, stage, scanned, document, merged, code>>

EndOfShuffle(k) ==
    /\ stage[k] = "shuffle" /\ left[k] <= 1
    /\ stage' = [stage EXCEPT ![k] = "run"]
    /\ UNCHANGED <<filter, hash, scanned, out, left, document, merged, code>>

\* The run of what was selected (module Runner), down to its document.
Run(k) ==
    /\ stage[k] = "run"
    /\ stage' = [stage EXCEPT ![k] = "done"]
    /\ \E v \in [DOMAIN out[k] -> JobVerdicts] :
          document' = [document EXCEPT ![k] =
              [i \in DOMAIN out[k] |-> [test |-> out[k][i], status |-> v[i],
                                        suite |-> Cases[out[k][i]].suite]]]
    /\ UNCHANGED <<filter, hash, scanned, out, left, merged, code>>

\* The job fails before its document is on disk.
Lose(k) ==
    /\ stage[k] # "done" /\ stage[k] # "dead"
    /\ stage' = [stage EXCEPT ![k] = "dead"]
    /\ UNCHANGED <<filter, hash, scanned, out, left, document, merged, code>>

\* cmd_report over 'shard*.json': the documents that are there, by name.
Written == {k \in Jobs : stage[k] = "done"}
Ended == \A k \in Jobs : stage[k] \in {"done", "dead"}

CmdReport ==
    /\ Ended /\ code = NoCode
    /\ IF Written = {}
       THEN code' = 2 /\ UNCHANGED merged
       ELSE LET all == MergeDocuments([i \in 1 .. ShardCount |-> document[i - 1]]) IN
            merged' = all /\ code' = ReportExit(all.totals)
    /\ UNCHANGED <<filter, hash, job, document>>

Reported == code # NoCode /\ UNCHANGED vars

Next ==
    \/ \E k \in Jobs : Consider(k) \/ EndOfCases(k) \/ Shuffle(k)
                       \/ EndOfShuffle(k) \/ Run(k) \/ Lose(k)
    \/ CmdReport
    \/ Reported

Spec == Init /\ [][Next]_vars

-----------------------------------------------------------------------------
\* The type of every variable.
TypeOK ==
    /\ filter \in Filters /\ hash \in Hashes
    /\ stage \in [Jobs -> Stages]
    /\ scanned \in [Jobs -> 0 .. Len(Cases)]
    /\ out \in [Jobs -> Seq(Tests)]
    /\ left \in [Jobs -> Nat]
    /\ code \in {NoCode, 0, 1, 2}

Selected(k) == scanned[k] = Len(Cases)

\* The shards are disjoint and complete, whatever the hash, and shuffling loses
\* and duplicates nothing (select(); docs/cli.md, "Parallel CI").
ShardsPartition ==
    /\ \A k, l \in Jobs : \A i \in DOMAIN out[k], j \in DOMAIN out[l] :
          out[k][i] = out[l][j] => k = l /\ i = j
    /\ \A k \in Jobs : \A i \in DOMAIN out[k] : Wanted(out[k][i])
    /\ (\A k \in Jobs : Selected(k)) =>
          \A t \in Tests : Wanted(t) =>
              \E k \in Jobs : \E i \in DOMAIN out[k] : out[k][i] = t

\* Without --shuffle each job runs its tests in the order of declaration
\* (docs/api-reference.md on select()).
DeclarationOrder ==
    ~filter.shuffle =>
        \A k \in Jobs : \A i, j \in DOMAIN out[k] :
            i < j => out[k][i] < out[k][j]

\* The glob as the documentation means it, without an algorithm: the string is
\* cut into as many pieces as the pattern has characters, pieces of any length
\* for a star and of one character for the others.
GlobMeans(pat, str) ==
    \E cut \in [0 .. Len(pat) -> 0 .. Len(str)] :
        /\ cut[0] = 0 /\ cut[Len(pat)] = Len(str)
        /\ \A p \in 1 .. Len(pat) :
              IF pat[p] = "*" THEN cut[p] >= cut[p - 1]
              ELSE cut[p] = cut[p - 1] + 1 /\ pat[p] \in {"?", str[cut[p]]}

\* A pattern hits a test by its full name, its suite or its name; a negative
\* pattern wins over every positive one, and without a positive pattern every
\* test is a candidate (glob_match, name_matches).
FilterSelectsAsDocumented ==
    (\A k \in Jobs : scanned[k] = 0) =>
        \A t \in Tests :
            LET Hit(i) == \E name \in Names(Cases[t]) :
                              GlobMeans(filter.patterns[i].glob, name)
                hits == {i \in DOMAIN filter.patterns : Hit(i)}
            IN Wanted(t) <=>
                  /\ \A i \in hits : ~filter.patterns[i].negative
                  /\ hits # {} \/ \A i \in DOMAIN filter.patterns :
                                      filter.patterns[i].negative
                  /\ TagsOk(Cases[t], filter)

\* When no document is missing the merged one has exactly one result for each
\* test the filter wants, and whatever is missing, the exit code of `report' is
\* 1 exactly when a job's document holds a failure (cmd_report: it "gates the
\* pipeline too").
MergeGatesThePipeline ==
    LET rows == merged.results
        t == merged.totals IN
    code \in {0, 1} =>
        /\ t.pass + t.fail + t.skip = Len(rows)
        /\ code = 1 <=> \E k \in Jobs : \E i \in DOMAIN document[k] :
                            document[k][i].status \in {"fail", "crashed"}
        /\ Written = Jobs =>
              /\ {rows[i].test : i \in DOMAIN rows} = {u \in Tests : Wanted(u)}
              /\ Len(rows) = Cardinality({u \in Tests : Wanted(u)})

\* The JUnit form of the merged document: the counts of its suites add up to
\* those of the root although shards cut a suite into pieces (_write_junit).
JUnitAddsUp ==
    LET junit == JUnit(merged.results)
        Sum(field) == MapThenFoldSet(+, 0, LAMBDA s : junit.suites[s][field],
                                     LAMBDA S : CHOOSE s \in S : TRUE,
                                     DOMAIN junit.suites)
    IN /\ Sum("tests") = junit.root.tests
       /\ Sum("failures") = merged.totals.fail
       /\ Sum("skipped") = merged.totals.skip
=============================================================================
