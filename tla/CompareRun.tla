----------------------------- MODULE CompareRun ------------------------------
(***************************************************************************)
(* The compare command: compare_service of reports/comparison.py.  It runs *)
(* the analyze pipeline (AnalyzeRun) on a "before" and then on an "after"  *)
(* file, each on a connection of its own to the same database, and diffs   *)
(* the two results by keys.                                                *)
(*                                                                         *)
(* The variables of AnalyzeRun are those of the run in progress.  What the *)
(* detectors and the advisor find is left to the constants: the keys of    *)
(* the findings on a list of statements.                                   *)
(***************************************************************************)
EXTENDS AnalyzeRun, Functions

CONSTANTS
  AntiPatternKeys(_),   \* keys of the anti-patterns of a list of statements
  FindingKeys(_),       \* keys of the findings on their plans
  IndexKeys(_),         \* keys of the indexes recommended for them
  Summary(_)            \* the PlanSummary of one statement

\* Where there is no plan there is no finding.
ASSUME KeysAssumption == FindingKeys(<<>>) = {}

VARIABLES
  side,          \* which of the two files is being analyzed
  secondSource,  \* the "after" argument; the "before" one is `source`
  first,         \* the AnalyzeResult of the "before" file
  comparison     \* the ComparisonResult

compareVars == <<side, secondSource, first, comparison>>
allVars == <<vars, compareVars>>

Nothing == [made |-> FALSE]

CompareTypeOK ==
  /\ TypeOK
  /\ side \in {"before", "after", "compared"}
  /\ secondSource \in {"none", "unreadable", "file"}
  /\ first.made = (side # "before")
  /\ comparison.made = (side = "compared")

CompareInit ==
  /\ Init
  /\ side = "before"
  /\ secondSource \in {"none", "unreadable", "file"}
  /\ first = Nothing
  /\ comparison = Nothing

-----------------------------------------------------------------------------
\* What the two runs return and what is made of it.

AnalyzedStatements == [k \in DOMAIN perQuery |-> queries[perQuery[k].query]]

\* Mutant of Collected: anti-patterns of the analyzed queries only.
CollectedFromPlans ==
  [made          |-> TRUE,
   workload      |-> queries,
   complete      |-> result.analyzed = result.parsed,
   onDatabase    |-> result.againstDatabase,
   antiPatterns  |-> AntiPatternKeys(AnalyzedStatements),
   findings      |-> FindingKeys(AnalyzedStatements),
   indexes       |-> IndexKeys(AnalyzedStatements),
   summaries     |-> [k \in DOMAIN perQuery |-> Summary(AnalyzedStatements[k])]]

\* The AnalyzeResult of the run that has just ended.  `workload` and `complete`
\* are not part of it: they say what it is a result of.
Collected ==
  [made          |-> TRUE,
   workload      |-> queries,
   complete      |-> result.analyzed = result.parsed,
   onDatabase    |-> result.againstDatabase,
   antiPatterns  |-> AntiPatternKeys(queries),
   findings      |-> FindingKeys(AnalyzedStatements),
   indexes       |-> IndexKeys(AnalyzedStatements),
   summaries     |-> [k \in DOMAIN perQuery |-> Summary(AnalyzedStatements[k])]]

Diff(before, after) ==
  [removed |-> before \ after, added |-> after \ before,
   unchanged |-> before \intersect after]

\* Optional values are sets of at most one element; {} is None.
TotalCost(r) ==
  IF r.summaries = <<>> THEN {}
  ELSE {FoldFunction(+, 0, [k \in DOMAIN r.summaries |-> r.summaries[k].cost])}

\* Mutant of TotalTime: the queries without a time are passed over.
TotalOfKnownTimes(r) ==
  LET timed == {k \in DOMAIN r.summaries : r.summaries[k].time # {}}
  IN  IF r.summaries = <<>> THEN {}
      ELSE {FoldFunction(+, 0, [k \in timed |-> CHOOSE t \in r.summaries[k].time : TRUE])}

TotalTime(r) ==
  IF r.summaries = <<>> \/ \E k \in DOMAIN r.summaries : r.summaries[k].time = {}
  THEN {}
  ELSE {FoldFunction(+, 0, [k \in DOMAIN r.summaries |->
                              CHOOSE t \in r.summaries[k].time : TRUE])}

SingleShape(r) == IF Len(r.summaries) = 1 THEN {r.summaries[1].root} ELSE {}

\* compare_results: metrics only when both runs used the database.
Compared(before, after) ==
  LET both == before.onDatabase /\ after.onDatabase
      Metric(Of(_)) == IF both THEN <<Of(before), Of(after)>> ELSE <<{}, {}>>
  IN  [made         |-> TRUE,
       antiPatterns |-> Diff(before.antiPatterns, after.antiPatterns),
       findings     |-> Diff(before.findings, after.findings),
       indexes      |-> Diff(before.indexes, after.indexes),
       onDatabase   |-> both,
       cost         |-> Metric(TotalCost),
       time         |-> Metric(TotalTime),
       shape        |-> Metric(SingleShape)]

-----------------------------------------------------------------------------
\* Mutant of MissingSource: only the first argument is checked up front.
MissingFirst == source = "none"

MissingSource == source = "none" \/ secondSource = "none"

\* Both arguments are checked before anything is run.
RejectSources ==
  /\ side = "before"
  /\ pc = "start"
  /\ MissingSource
  /\ Raise("ValidationError")
  /\ UNCHANGED <<sessionVars, loopVars, compareVars>>

\* A step of analyze_service on either file.
RunSide ==
  /\ (side = "before" /\ ~MissingSource) \/ side = "after"
  /\ Run
  /\ UNCHANGED compareVars

\* The first call has returned and the second is made.  Its locals are fresh;
\* of the first run it finds what that has left on the database, and a
\* connection object of its own.
StartAfter ==
  /\ side = "before"
  /\ outcome = "result"
  /\ first' = Collected
  /\ side' = "after"
  /\ source' = secondSource
  /\ pc' = "start"
  /\ outcome' = "pending"
  /\ result' = NoResult
  /\ queries' = <<>>
  /\ loop' = "idle"
  /\ position' = 1
  /\ perQuery' = <<>>
  /\ skipped' = {}
  /\ conn' = IF conn = "closed" THEN "none" ELSE conn
  /\ UNCHANGED <<txn, work, durable, lock, timeoutMs, confirmed, dbUrl,
                 secondSource, comparison>>

CompareResults ==
  /\ side = "after"
  /\ outcome = "result"
  /\ comparison' = Compared(first, Collected)
  /\ side' = "compared"
  /\ UNCHANGED <<vars, secondSource, first>>

CompareStep == RejectSources \/ RunSide \/ StartAfter \/ CompareResults

CompareNext == CompareStep \/ (Environment /\ UNCHANGED compareVars)

CompareSpec == CompareInit /\ [][CompareNext]_allVars /\ WF_allVars(CompareStep)

-----------------------------------------------------------------------------
(* Both runs are measured on the same data: when the second one starts,    *)
(* and ever after, none of the writes of the first is on the database,     *)
(* pending or committed, and no lock of it is held, although both may have *)
(* executed the writes of their files (comparison.py:190-201).             *)
SecondRunStartsClean ==
  /\ durable = {}
  /\ side = "after" /\ pc \in {"start", "parsed"} =>
        conn = "none" /\ txn = "idle" /\ work = {} /\ lock # "run"

Both == comparison.made /\ first.complete /\ Collected.complete

(* When no query of either file was skipped, the structural diff is that   *)
(* of the two files, and nothing else shows in it; the anti-patterns,      *)
(* which need no plan, are diffed exactly in any case, and without a       *)
(* database no plan issue shows (comparison.py:134-148).                   *)
DiffOfTheFiles ==
  comparison.made =>
     /\ comparison.antiPatterns =
          Diff(AntiPatternKeys(first.workload), AntiPatternKeys(queries))
     /\ Both /\ comparison.onDatabase =>
          /\ comparison.findings =
               Diff(FindingKeys(first.workload), FindingKeys(queries))
          /\ comparison.indexes =
               Diff(IndexKeys(first.workload), IndexKeys(queries))
     /\ ~comparison.onDatabase => comparison.findings = Diff({}, {})

(* The sums over a whole file; a time is only summed if every statement    *)
(* has one.                                                                *)
CostOf(list) ==
  IF list = <<>> THEN {}
  ELSE {FoldFunction(+, 0, [i \in DOMAIN list |-> Summary(list[i]).cost])}

TimeOf(list) ==
  IF list = <<>> \/ \E i \in DOMAIN list : Summary(list[i]).time = {} THEN {}
  ELSE {FoldFunction(+, 0, [i \in DOMAIN list |->
                              CHOOSE t \in Summary(list[i]).time : TRUE])}

(* The totals printed for a side of which no query was skipped are those   *)
(* of its file: over all of its statements, each counted once and none of  *)
(* the other file.  One side may have a total time and the other none      *)
(* (tests/test_comparison.py:169-179).  Without a database there are no    *)
(* totals (comparison.py:100-160).                                         *)
TotalsOfTheFiles ==
  comparison.made =>
     /\ comparison.onDatabase /\ first.complete =>
          /\ comparison.cost[1] = CostOf(first.workload)
          /\ comparison.time[1] = TimeOf(first.workload)
     /\ comparison.onDatabase /\ Collected.complete =>
          /\ comparison.cost[2] = CostOf(queries)
          /\ comparison.time[2] = TimeOf(queries)
     /\ ~comparison.onDatabase =>
          comparison.cost = <<{}, {}>> /\ comparison.time = <<{}, {}>>

(* Documented of compare (docs/cli.md:66-68): it reports which plan issues *)
(* were resolved.  So an issue that the query of the after file still has  *)
(* is not reported as resolved.  It does not hold: the issues of a query   *)
(* that was skipped are not in the second result.                          *)
ResolvedIsGone ==
  comparison.made =>
     comparison.findings.removed \intersect FindingKeys(queries) = {}
=============================================================================
