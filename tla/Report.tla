------------------------------- MODULE Report -------------------------------
(***************************************************************************)
(* What the command line makes of result documents: merging shard          *)
(* documents, totals, the JUnit form and the exit code of `report'         *)
(* (tools/gdextest.py, tools/gdextest_report.py).  A result is a record    *)
(* with the fields suite and status; other fields are carried along.       *)
(***************************************************************************)
EXTENDS Integers, Sequences, FiniteSets, SequencesExt

Statuses == {"pass", "fail", "skipped", "crashed"}

Rows(results, statuses) ==
    Cardinality({i \in DOMAIN results : results[i].status \in statuses})

ComputeTotalsCrashedApart(results) ==
    [pass |-> Rows(results, {"pass"}), fail |-> Rows(results, {"fail"}),
     skip |-> Rows(results, {"skipped"}), crashed |-> Rows(results, {"crashed"})]
\* A crashed test is a failed one too.
ComputeTotals(results) ==
    [pass |-> Rows(results, {"pass"}), fail |-> Rows(results, {"fail", "crashed"}),
     skip |-> Rows(results, {"skipped"}), crashed |-> Rows(results, {"crashed"})]

\* _merge_documents: the results one after the other, the totals recomputed.
MergeDocuments(documents) ==
    LET results == FlattenSeq(documents) IN
    [results |-> results, totals |-> ComputeTotals(results)]

ReportExitCountsFailures(totals) == totals.fail
ReportExit(totals) == IF totals.fail > 0 \/ totals.crashed > 0 THEN 1 ELSE 0

\* What _write_junit counts among the results at these places.
JUnitCounts(results, places) ==
    LET Of(statuses) == Cardinality({i \in places : results[i].status \in statuses}) IN
    [tests |-> Cardinality(places), failures |-> Of({"fail", "crashed"}),
     skipped |-> Of({"skipped"})]

SuitesOf(results) == {results[i].suite : i \in DOMAIN results}

JUnitRunsOfSuite(results) ==
    LET First(s) == CHOOSE i \in DOMAIN results :
                        /\ results[i].suite = s
                        /\ \A j \in 1 .. i - 1 : results[j].suite # s
        End(s) == CHOOSE j \in First(s) .. Len(results) :
                      /\ \A i \in First(s) .. j : results[i].suite = s
                      /\ j < Len(results) => results[j + 1].suite # s
    IN [s \in SuitesOf(results) |-> First(s) .. End(s)]
\* _write_junit groups by suite: the places of its results, wherever they are.
JUnitSuites(results) ==
    [s \in SuitesOf(results) |-> {i \in DOMAIN results : results[i].suite = s}]

JUnit(results) ==
    LET suites == JUnitSuites(results) IN
    [root |-> JUnitCounts(results, DOMAIN results),
     suites |-> [s \in DOMAIN suites |-> JUnitCounts(results, suites[s])]]
=============================================================================
