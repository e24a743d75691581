# Verification of SQLCoach

SQLCoach reads SQL workloads, runs them through `EXPLAIN (ANALYZE)` on a
PostgreSQL database, inspects the plans, and prints a ranked list of
recommendations. This directory holds TLA+ models of it, the TLC runs that check
them on small instances, and proofs of their main properties for instances of
any size. Paths below are relative to `src/src/sqlcoach/`.

## The system

| component | code | state it keeps | operations | what makes it correct |
|---|---|---|---|---|
| command line | `cli/main.py`, `exceptions.py` | the settings on the Typer context | `analyze`, `audit`, `compare`, `report` | each error gets its exit code, a result is printed whole or not at all |
| configuration | `config.py` | an immutable `Settings` | `load_settings` | defaults < file < environment; what is wrong is found first |
| logging, redaction | `logging_config.py`, `redaction.py` | the root logger's handlers | `configure_logging` | one handler, no password in a record |
| analyze service | `reports/services.py` | lists that grow over one run | `analyze_service`, `_explain_and_analyze` | every query accounted for; a dry run |
| audit service | `reports/audit_service.py` | sections completed and skipped | `audit_service` | every section accounted for |
| compare service | `reports/comparison.py` | two results | `compare_service` | a diff of like with like, on one state of the data |
| connection | `database/connection.py` | one psycopg connection | `__enter__`, `__exit__` | closed on every way out |
| explain runner | `database/explain_runner.py` | the timeout | `is_mutating_statement`, `explain` | nothing mutates unconfirmed, nothing waits forever |
| statistics and catalog readers | `database/pg_stat_statements.py`, `database/index_catalog.py` | none | four reads | what is read is what is there |
| parsers | `parser/` | offsets into a text | `SqlFileParser`, `LogParser`, `parse_explain_json` | one bad statement does not spoil the rest |
| plan analyzer | `analyzer/` | a stack of nodes | `PlanAnalyzer.analyze`, four detectors | each node once, in pre-order |
| anti-patterns | `advisor/anti_patterns/` | clusters of queries | four detectors | an N+1 group is counted once |
| index advisor | `advisor/index_advisor.py`, `advisor/column_usage.py` | recommendations merged so far | `recommend_for_workload` | usable key order, no duplicate |
| index hygiene | `advisor/duplicate_index_detector.py`, `advisor/unused_index_detector.py`, `advisor/drop_index.py` | none | two detectors, `DROP INDEX` text | no constraint is dropped, no access path lost |
| recommendation engine | `advisor/recommendation_engine.py` and builders | the ranked list | `generate` | no finding lost or reported twice; ranked by impact |

A command calls its service, which opens **one** connection and hands it to the
explain runner and the readers in turn. psycopg opens a transaction at the first
statement and nobody commits or rolls back before the connection is closed, so
that **everything a command does on the database is one transaction**. That
shared state is what couples components that look independent. SQLCoach itself is
single-threaded. What runs concurrently with it is the database: other clients
that hold row locks, change the catalog or drop an extension, and a server that
may close the connection.

The hard behaviours are therefore failure half way (an error fails the
transaction for everyone after it), waiting (an `EXPLAIN ANALYZE` of an `UPDATE`
waits for locks), effects that become real or that are left behind, and reports
that say something ran which did not. `PROJECT.json` lists the hazards with the
lines at which they bite and the properties that watch them.

## The modules

| module | models | checked by |
|---|---|---|
| `Statements` | what is in the tree of a statement, what the code makes of it (`is_mutating_statement`, what the file parser keeps) and what PostgreSQL does with it | through the others |
| `PgSession` | one psycopg connection and the world around it (external, from how `database/` uses it) | through the others |
| `ExplainLoop` | `_explain_and_analyze` with `ExplainRunner.explain`, statement by statement | `AnalyzeRun`, `AuditRun` |
| `AnalyzeRun` | `analyze_service` with its connection | `MCAnalyzeRun` |
| `QueryReview` | what a run promises of a workload: one final verdict per query, in order, all or nothing | refinement target of `AnalyzeRun` |
| `CompareRun` | `compare_service`: two analyze runs one after the other on one database, and the diff of their results | `MCCommandLine` |
| `CommandLine` | one invocation: `load_settings`, the command, its exit code and the verdict it prints | `MCCommandLine` |
| `AuditRun` | `audit_service` and its reads | `MCAuditRun` |
| `IndexDetectors` | the two hygiene detectors as operators on sets of `IndexInfo` | `IndexHygiene` |
| `IndexHygiene` | the catalog, what `fetch_indexes` makes of it, the findings, and a user who runs the `DROP INDEX` statements in any order | `MCIndexHygiene` |
| `IndexAdvisor` | column usage with the alias map, the key and INCLUDE columns of an index, the merge of one more index, index names: operators | `AdviceRun` |
| `AntiPatterns` | the four anti-pattern detectors as operators on sequences of texts | `AdviceRun` |
| `RecommendationEngine` | `generate`: folding, grouping and ranking of the findings of the four sources, one group per step | `AdviceRun` |
| `AdviceRun` | the advisor's loop over a workload, query by query and index by index, and what the two services hand to the detectors and the engine | `MCAdvice` |
| `PlanAnalyzer` | `parse_explain_json` with every way it fails, the walk with its explicit stack, the four detectors with their thresholds | `MCPlanAnalyzer` |
| `SqlFileParser` | `parse_text`: the cut at semicolon tokens, the fallback at plain semicolons, offsets, lines, the statements skipped | `MCParsing` |
| `LogParser` | both log formats, line by line | `MCParsing` |
| `Parsing` | the two behind the protocol `Parser` | `MCParsing` |
| `ExplainLoopProofs`, `AnalyzeRunProofs`, `AuditRunProofs`, `CommandLineProofs`, `IndexHygieneProofs`, `PlanAnalyzerProofs`, `ParsingProofs`, `AdviceProofs` | theorems | tlapm |

`AnalyzeRun` and `AuditRun` EXTEND `ExplainLoop`, which EXTENDS `Statements` and
`PgSession`: the two commands compose the same loop with different surroundings,
as the code does. `CompareRun` EXTENDS `AnalyzeRun` and lets it run twice, the
second run on what the first has left of the database; `CommandLine` EXTENDS
`CompareRun`, so that an exit code stands for an outcome of the very steps it
ends. What the detectors find on a list of statements is a constant of these two,
any function from the statements to keys. `AdviceRun` EXTENDS the advisor, the
detectors and the engine. It takes up where the loop ends: its workload is what
the loop returns, queries with the findings on their plans, or without any if
their EXPLAIN was skipped or there is no database; `AnalyzeRun` and `AuditRun`
stand for it by their step `Generate`. `PlanAnalyzer` is what one "plan" answer of
the loop goes through.

**State.** In `PgSession`, `conn`, `txn`, `timeoutMs` are the connection, its
transaction and its `statement_timeout`; `work` and `durable` hold the workload
positions whose writes are pending or committed; `lock` is one row lock that
stands for those the workload and another application contend for. In
`ExplainLoop`, `queries`, `position`, `perQuery` are the loop's `queries`, its
iteration and `per_query`; an entry of `perQuery` also remembers the pending
writes its plan was measured on (a history variable), and `skipped` records the
warnings with their reason. In `AnalyzeRun` and `AuditRun`, `pc` is the place in
the service, `outcome` what the caller gets; `completed` and `sectionsSkipped`
are the audit's `sections_completed` and `sections_skipped`. In
`RecommendationEngine`, `input` holds the arguments, `stage` and `todo` the loop
`generate` is in and the groups it has still to visit, `ranked` its list of
`_Ranked` as a set (each knows its `order`; a history field says which findings it
stands for), `recommendations` the sorted list. In `AdviceRun`, `visited` is the
place of `recommend_for_workload` among the analyzed queries, `pending` what it has
still to merge for the current one, `advised` its `merged` list. In `SqlFileParser`,
`spans` are the statements cut so far and `pieces` the positions at which the text
has still to be cut, taken from the left; `start` is the code's running offset.

**Steps.** One action is one statement sent to the database with everything the code
does until the next one. `explain` sends two statements, hence two steps: `ArmTimeout`
(`SET statement_timeout`) and one of `Analyze`, `RaiseMalformed`, `SkipNoRow`,
`SkipError`, `SkipTimeout`, `SkipDropped`; between them, and while an EXPLAIN waits,
other clients and the server take steps. `SkipBlocked` and `SkipRefused` are
iterations that send nothing. `RaiseMalformed` is the way out the loop has no handler
for: a `ParsingError`, or pydantic's error for a plan with a value that the models
reject. A statement is a record of the type of its syntax root, the nodes below it by
which PostgreSQL writes or locks (`INTO` among them), whether it calls a volatile
function, its real effect and the answer of EXPLAIN. Tree and effect are given without
regard to the lists of the code: `EffectAccountedFor` says only that an effect has a
cause in the root, in a node or in a volatile function. `IsMutating` is what the code
makes of the tree, so that it can be wrong, and is (finding 2).

In `CompareRun` the variables of `AnalyzeRun` are those of the run in progress;
`first` is the result of the "before" file, `side` says which file is at work.
`StartAfter` resets what is local to a call and keeps what is on the database. In
`CommandLine`, `settings` says of each key which layer it came from, and `exit` and
`printed` are what the user sees.

The advice needs no database and is deterministic: what varies is its input. What is
computed of one query, and the detectors, are operators, a query being the lists of
column references that the walks over its syntax tree meet. The loops are state
machines, so that their invariants can be stated and proved: the advisor's with
`NextQuery` and `MergeNext`, until `Generate` calls the engine; the engine's with one
step per group, `Recommend`, `FoldSeqScan`, `Proceed` to the next source and `Rank`.
So is the plan analyzer, one step `Visit` per node: `stack` is the program's list,
`visited` a history variable. The parsers take one step per token, chunk, statement,
block or entry; a text is a sequence of the symbols the splitting tells apart, a log a
sequence of lines of which counts which patterns they match.

**Mutants.** Some definitions are preceded by a variant marked *Mutant of*: the
same step with a plausible bug. They occur in no specification; for every property
of a passing run `PROJECT.json` names a mutant under which TLC finds it violated.

## What the runs check

| run | bounds | shows |
|---|---|---|
| `analyze` | workloads of at most 3 of 10 kinds of statement, both values of `--confirm-mutations`, no/empty/given URL, missing/unreadable/present file; 189 038 states | the properties below |
| `analyze_resilience` | at most 2 statements | violation, finding 1 |
| `analyze_into` | as `analyze_resilience` | violation, finding 2 |
| `audit` | workloads of at most 2 of 7 kinds, every set of refused reads, with and without the extension, which may be dropped on the way; 48 912 states | the properties below |
| `hygiene` | catalogs of at most 3 indexes on two columns: plain ones, ones with expressions, predicates or INCLUDE columns, and two schemas with tables or indexes of one name; all orders of drops; 13 553 states | the properties below |
| `hygiene_both_drops` | as `hygiene` | violation, finding 3 |
| `advice` | queries on one table or two, whose clauses share at most three columns in all ways of interest, the tables called by their names, by aliases, by one alias that is the name of the other, or being one table twice; and all mixes of up to three queries of seven kinds, each without and with two drops; `n_plus_one_min_occurrences` and `covering_index_max_included_columns` are 2; 17 802 states | the properties below |
| `advice_names` | as `advice` | violation, finding 4 |
| `command` | two files of at most 2 of 4 kinds of statement, and three that have a plan without times or a malformed answer; the settings file absent, unreadable, malformed, not UTF-8 or read, an unknown key, two settings in every layer (all of these for `report`); 227 540 states | the properties below |
| `compare_resolved` | as `command` | violation, finding 5 |
| `plan` | every single node with counts up to 5; all trees of at most 4 nodes over five kinds of nodes, and of at most 3 with nodes `_parse_node` refuses; two of four nodes with such a node on either side of a branch that is too deep; a recursion limit of 3; two contexts of thresholds; 87 316 states | the properties below |
| `parsing` | every text of at most 7 symbols; every log of at most 4 lines of 12 kinds and of at most 4 segments (a documented block, one with a part missing or wrong, an entry, noise); 804 079 states | the properties below |

The kinds of statement are one per way through the loop (a plan, an error, a plan
the models reject, a lock, a write in a CTE, a SELECT INTO, an update, a malformed
payload, no row, a volatile function that writes). The audit has a text that does not
tokenize instead of the last ones; a file holds none, since the file parser drops it.
Three of them give: a write, something that fails or times out, and a query
measured after both, which is the longest interaction the loop has, since an
iteration reads nothing of earlier ones but the state of the transaction. The
timeout is 30 seconds as in the code; only its being zero or not matters, and the
proofs leave it arbitrary. Two columns and three indexes are enough for a chain
`(a)`, `(a)`, `(a, b)` in which each step of the redundancy argument occurs.

*Analyze.* `EveryQueryAccounted`: each query up to the current one is analyzed or
skipped, never both, in order. `MeasuredOnEarlierWrites`: no plan is measured after a
failed write as if it had happened, nor without it. `NothingDurable`: a run, confirmed
or not, is a dry run. `ReadOnlyUnlessConfirmed`: without confirmation nothing is
written or locked, not even until the rollback, whatever is in the trees of the
workload. It excepts volatile functions, as the docstring of `is_mutating_statement`
does, and SELECT INTO, as nothing does: that the promise of the user guide fails there
is finding 2 (`VisibleWritesConfirmed`). `NothingLeftBehind`: every way out closes the
connection, exceptions nobody handles included. `ResultAddsUp`: the counters of the
result agree with what happened. `Terminates`: see fairness.
`ReviewSpec`: `AnalyzeRun` implements `QueryReview`.

*Audit.* `SectionsAccounted`: the result says of each section exactly once whether
it ran. `CompletedWorkloadIsWhole`: a completed workload section covers every
query read. `NothingLeftBehind` and `Terminates` as above, now with reads around
the loop. `SectionsShareOneFate`: an error in the workload fails the transaction for
every section after it, none of which completes, and a section is refused on account
of another in no other case.

*Hygiene.* `ConstraintsSurvive`: no constraint is dropped, unless its index has a
namesake in another schema that backs none; `DuplicatesLeaveCover`:
of several duplicates one always survives; `NoRedundancyLeft`: the duplicate
findings are complete. The last two are for databases in which index names are unique
and for plain indexes, since the catalog query does not read predicates or tell
INCLUDE columns from keys. `DuplicatesLeaveCover` also excludes tables of one name
in two schemas (`TablesUnique`), which the code takes for one table; see the
observations. `CHECK_DEADLOCK FALSE`, because the user stops when there is nothing
left to drop.

*Advice.* `EveryFindingReported`: one recommendation for every finding, and a folded
scan has its index on the list. `RankedAsDocumented`: the list is in the order the
engine's docstring gives, for a key computed from the sources rather than from the
order of insertion. `CheapBelowCostly`: frequency and confidence never lift a LOW
finding above a costlier one. `FlaggedScansSeek`: the reference is not the rule the
code implements but what it is for. An index entry has one of three values in each
column of the key; the entries a query needs must be contiguous in the lexicographic
order of the index, so that one scan of a stretch of it finds them. `FlaggedScansSort`
demands in addition that they come in the order of the ORDER BY. Whose column a
reference is, the properties take from PostgreSQL's rules (`CalledAs`, `RefersTo`),
not from the alias map of the code. Both are for predicates joined by AND and sorting
in one direction, since the advisor looks at neither OR and NOT nor ASC and DESC; and
for tables the query reads once, under a name that means no other (`ReadOnce`), since
the alias map makes one table of the two readings of a self-join (see the
observations). A column compared with one of another table counts as compared with one
value, that of the row the join is at: what a joined table's index seeks and sorts are
the rows of one probe, not of the whole join. `MergeIsExact`: the merge neither loses
nor repeats an index, and an index is as sure as the surest query that asked for it.
Again `CHECK_DEADLOCK FALSE`: `generate` returns.

Three queries are enough for an index shared by two, one that differs only in its
INCLUDE columns, a fold across queries, a group whose members differ in severity,
and an N+1 cluster next to another query; three columns for a range behind an
equality and an ORDER BY behind both; two tables and an alias that is the name of one
of them for every way in which an entry of the alias map can replace another.

*Command.* `SecondRunStartsClean`: the second run of a comparison is measured on the
same data as the first. `DiffOfTheFiles`: if nothing was skipped, the diff is that of
the files; the anti-patterns are diffed exactly in any case. `TotalsOfTheFiles`: where
nothing was skipped, the totals of a side are those of its own file, each statement
counted once; a side may well have a total time when the other has none. Where
something was skipped they are totals of the rest (see the observations).
`VerdictIsEarned`: over complete runs, "Improvement" means fewer issues and no new
one, and so on. `RejectedUntouched`: what the user got wrong is found before a
connection is opened or the first file run. `ExitCodeTells`: success prints a whole
result, failure none, and the code names the error. `Exits`: every invocation ends.

*Plan.* `FirstFaultDecides`: when a payload has several faults, the one the recursion
meets first makes the error, which the audit survives or does not; the reference
recurses over the nodes, the model picks the fault by position. `NodesInOrder`: the
walk meets the nodes in the order EXPLAIN prints them, which is stated by their
indentation and not by another walk. `FindingsInOrder`: the list is sorted and has no
repetitions, so that two runs can be compared. `MisestimatesExact`: a factor in either
direction, zero rows on one side or both, equality with the floor and with the ratio;
the reference compares products and never looks for the larger of two counts. Four
nodes are the least for a stack that holds nodes of two levels, to which the walk
returns; five rows the least for both sides of floor and ratio in both contexts.

*Parsing.* `StatementsExact`: each statement of a readable file is a query,
verbatim and with its own line, or is warned of with that line, whatever its
neighbours. `ReadablePortionKept`: an unterminated literal costs nothing before it.
`BlocksExact`, `EntriesExact`: a block or entry of a log gives one query with its
own lines and its own time. The references enumerate positions of the whole text;
the code tracks an offset by hand. Seven symbols are two statements, the semicolon
between them, a literal and a line break on either side.

`CHECK_DEADLOCK FALSE` in `plan` and `parsing` as in `advice`: these functions
return. In the other runs TLC checks deadlock: a finished command stutters through
the application, which keeps locking and releasing its row.

**Findings.** Five runs show the code doing other than a comment or document says.
(1) A failing EXPLAIN takes all later queries with it
(`reports/services.py:191`). (2) A SELECT INTO runs unconfirmed
(`docs/user_guide.md:44`). (3) A duplicate's drop may lose read
performance, its cover being recommended for dropping too
(`advisor/recommendation_builders.py:301`). (4) Two CREATE INDEX statements of one
report may have one name (`advisor/create_index.py:3`). (5) A comparison reports as
resolved what the second run has merely not looked at (`docs/cli.md:66`).

**Observations.** Met while modelling, put down here and not made runs:

- The sections of an audit are not independent, as `reports/audit_service.py:9-12` has
  it: an error in one skips the next (`SectionsShareOneFate`). And a query text that
  sqlglot cannot tokenize (`parser/sql_ast_utils.py:77,85`), or a plan value that the
  models reject, ends the whole audit, though "only a failure to connect at all
  aborts".
- Indexes on different expressions are matched as duplicates, contrary to
  `database/index_catalog.py:69-72`: the placeholders are equal.
- A constraint may be dropped after all (`advisor/duplicate_index_detector.py:9-11`)
  if its index has a namesake in another schema; `ConstraintsSurvive` says that this
  is the only way.
- The first finding of a group decides its impact, however bad the others are, while
  `docs/architecture.md:89` has severity drive the ranking.
- The totals of a comparison are those of the queries that were not skipped, where
  `reports/comparison.py:53-57` speaks of each run's queries.
- A covering index need not allow an index-only scan
  (`advisor/recommendation_builders.py:235-238`, `advisor/index_advisor.py:128`).
- "Detected in N queries" counts findings, of which a query may have several
  (`advisor/recommendation_engine.py:77`); an index recommendation counts as one
  occurrence however many queries asked for it (line 129); a scan is folded when its
  table has an index recommended, be it for another query (line 141).
- The catalog query returns no schema (`database/index_catalog.py:23-34`): same-named
  tables of two schemas are one table to the duplicate detector, which then
  recommends dropping an index as covered by one of the other table.
- The columns of both sides of a self-join make one key for the table
  (`advisor/column_usage.py:105-130`), which serves neither side as one of its own
  would; and an alias that is the name of another table of the query replaces it in
  the alias map.
- `join_strategy.py:33-38` takes the first two children of a nested loop for its
  sides; with an InitPlan attached they are not.
- A scan that was never executed, or stopped early by a LIMIT, has a low measured
  count and is reported as overestimated (`analyzer/detectors/cardinality.py`).
- A fractional "Actual Rows" (PostgreSQL 18) raises pydantic's `ValidationError`
  past the handlers of `parser/plan_json_parser.py:27`, which ends `analyze` and
  `compare` in a traceback and exit code 1, as it does `audit`.
- Exit code 6 is never used: a `MutatingStatementError` is always caught in the
  loop. `report`, which is not implemented, exits with 0. A settings or SQL file
  that is not UTF-8 ends in a traceback, where `docs/cli.md:113` gives 1 the meaning
  "configuration error".
- The keys a comparison goes by are codes and relations: two issues of one kind on
  one table are one.
- `LogParser` is called by no command. `log_parser.py:74` says it never raises;
  enriching an entry catches `ParseError` (line 100) but not sqlglot's `TokenError`.
  A `Query:` block without its execution time swallows the block after it, contrary
  to lines 82-84.

**Fairness.** `WF_vars(Run)`, `WF_allVars(CompareStep)` and
`WF_processVars(CommandStep)`, on the steps of the command alone: a sequential
Python program that can execute its next statement does. A step that waits for a
lock is not enabled until the lock is free or the timeout armed before it cancels
the statement, which PostgreSQL does on its own; that is `SkipTimeout`, part of
the command's step. Nothing is assumed of the application, which may keep its
lock for ever, nor of the server, which need never drop a connection.

## What is proved

TLAPS proves the following, on the session side for every set `Workloads` of
sequences of statements and every `TimeoutSeconds >= 1` (`WorkloadsAssumption`,
`TimeoutAssumption`; the second is the check of `ExplainRunner.__init__`).

*The loop* (`ExplainLoopProofs`). `LoopInv` is preserved by every step of the loop
(`LoopStepInv`), holds when a workload is entered (`FreshInv`), and survives
everything that happens outside it (`OutsideInv`: other clients, reads, the
closing of the connection). It strengthens the properties by

- `LoopControl`: an armed query is within the workload, is not blocked, and its
  transaction is active while the connection is open;
- `WorkInv`: pending writes come from unblocked writing queries up to the current
  one, and while the session is sound they are *all* the earlier ones. The second
  half makes `MeasuredOnEarlierWrites` inductive: a failed transaction loses its
  writes, but then refuses everything until it is closed;
- `MeasuredInv` and `LockInv`, the same for past results and for the lock.

*Analyze* (`AnalyzeRunProofs`). With `StageInv`, which says what the session looks
like at each `pc`, `IInv` is inductive. From it follow `Typing`, `DryRun`,
`Measured`, `Accounted`, `CleanExit`, `Unconfirmed`, and `Implements`: the initial
state maps to one of `QueryReview`, and each step to a step or a stutter, where
`LoopStepVerdicts` says that a step of the loop appends one verdict or none.
`Unconfirmed` is the argument about the classification: `UnconfirmedReads` takes
a pending write of an unblocked statement and goes through its causes, of which the
root types and the node types the code looks for leave a volatile function and
`INTO` alone.
`AddsUp` needs the counts on the way: `CountInv`, that the results and the skipped
queries are together as many as the iterations that have ended.

*Command* (`CommandLineProofs`), for every set of invocations and of settings and
whatever keys the detectors and the advisor find (`KeysAssumption`: nothing where
there is no plan). `RunInv` adds to `IInv` what a failing run has done before it
fails (`RunFacts`). `CompareInv` says what `first` is a result of and that the
second run gets arguments the first has passed; the step to prove is `StepAfter`,
where the second run must find the database as an initial state has it.
`SetUpInv` and `ExitInv` tie commands, settings and exit codes to outcomes. From
them follow `CommandTyping`, `SecondRunClean`, `FilesDiffed` and `TotalsOfFiles`
(by `CompleteIsWhole` and `TotalsOfSummaries`: a run that skipped nothing has one
summary for each statement of the file, in order),
`VerdictEarned`, `RejectedFirst` and `ExitTells`.

*Audit* (`AuditRunProofs`). `SectionInv` accounts for the sections one by one
according to how far the run is, `WholeInv` ties the completed workload section to
the end of the loop, `OutcomeInv` ties the outcome to `pc`. From their invariance
follow `Typing`, `AuditDryRun`, `AuditMeasured`, `AuditCleanExit`, `AuditSections`
and `AuditWholeWorkload`. `FateInv` ties the state of the transaction to what has been
skipped: while the connection stands it has failed exactly if a query has failed or a
read was denied; with that `OneFate` is inductive.

*Plan* (`PlanAnalyzerProofs`), for plans of every size, depth and shape, and all
thresholds (`PlansAssumption`: `children` and indentation describe one tree;
`ContextsAssumption`: the bounds of `AnalysisContext`). The invariant says which
nodes are on the stack, in terms of the indentation: those not visited whose parent
is, later ones deeper in the stack. Then the top is the least node not visited,
which gives `Ordered`; that every node is found once all pending ones are visited
is an argument about the least node that is not, hence no induction. `FindingsOrdered`
and `Misestimates` follow from what the findings of the visited nodes are.

*Hygiene* (`IndexHygieneProofs`), for finite catalogs of every size with names unique
within a schema (`CatalogsAssumption`). First, `fetch_indexes`: the places of the rows
of a group are exactly `1 .. n` (`PlacesIncrease`, `PlacesTaken`, a pigeonhole
argument), so what is read is typed whatever shares a name, and an index whose name is
its own is read as it is (`UniqueGroup`). Second, the detector: redundancy is
transitive through indexes that may be dropped (`RedundancyTransitive`) and never
mutual (`NeverMutual`); hence above every flagged index there is one that is not
flagged (`SurvivorCovers`: take a cover with the fewest covers of its own, which
exists since the strict subset order on finite sets is well founded). The invariant
`Inv` says that findings are about indexes that were read, that the duplicates'
findings are sound and complete, and that nothing is dropped without one. From it
follow `Typing`, `ConstraintsKept` (the flags of an info are those of some index of
its name, whatever shares it), `CoverLeft` and `NoneLeft`.

*Parsing* (`ParsingProofs`), for texts and logs of any length (`TextsAssumption`,
`LogsAssumption`: they consist of the symbols and kinds of lines above). What a parser
has produced half way is described by positions of the whole source. In `CutInv`, the
spans are those statements that begin before the last cut, and the pieces are the cuts
after it; a step takes the least of them, so that the next statement is the only one
in between. `BuildInv` says that every statement is a query, skipped, or still to
come, in order. `StatementsAreExact` and `ReadablePortionIsKept` follow, the second
because every true end of a statement is also one the fallback cuts at: it may split a
statement at a semicolon within a literal, but never joins two, and so keeps a
statement that holds no semicolon. For logs, `BlocksInv` and `EntriesInv` say that the
queries are exactly the blocks, or entries, that begin before the line reached. The
step to prove is that no search of the parser runs past the beginning of the next one,
which is why `BlocksExact` speaks of documented blocks: an incomplete one does swallow
its neighbour (see the observations). `ParsingTypes` types both.

*Advice* (`AdviceProofs`), for workloads of any length, any tables and columns, and
any findings on the catalog (`WorkloadsAssumption`, `DropsAssumption`;
`TablesAssumption` and `RelationsAssumption`: tables are relations, and no table is
called `None`). `AdviceInv` has two halves.

`AdvisorInv` is about the merge. Of `Faithful`, the conjuncts about definitions alone
would not be inductive for `MergeIsExact`: a rise in confidence is exact only if what
is pending counts as asked and what is merged was asked by someone with that very
confidence. `MergeKeeps` is the step, `MergedExactly` the result. That a flagged scan
has its index (`FlaggedSeek`, `FlaggedSort`) then is a matter of one query, whose
recommendation is asked for and so survives the merge. The key is a stretch of columns
fixed by equality, then at most one by a range or else the columns of the ORDER BY.
`LeadingSeeks`: an entry between two needed ones agrees with both up to the end of the
fixed stretch, as the first column in which it differs from one would put it outside;
behind the stretch only the range matters, and the entries needed are closed upwards
in it. `KeySorts`: two entries first differ in a column of the ORDER BY that is not
fixed, and `Distinct` keeps columns in the order first seen, so that no earlier column
of the ORDER BY differs. Lists are filtered by positions (`At`, `Nth`).
`ReadOnceResolves` shows that of a table that is read once the alias map collects
exactly the references PostgreSQL resolves to it, and `ReadOnceUsage` that usage and
reference then speak of the same columns; `EnumeratedInOrder` shows once, by counting
predecessors, that filtering keeps order and multiplicity.

`EngineInv` is about `generate`. A finding belongs to the group of the least position
like it (`HeadExists`), and to no other (`HeadUnique`, as groups are equal
or disjoint). In `IInv`, `TodoInv` says that only heads of the current source are
left, `VisitedInv` that every head of a source already passed is recommended or
folded, `RankedInv` and `OncePerGroup` that `ranked` holds each group at most once and
nothing else. At the end every source has been passed, which with the two lemmas
gives `Reported`; a fold is harmless because the index groups, all single, come first
(`IndexHeads`). `Documented` determines the final list: `Sorted` puts at place `n` the
member with `n - 1` predecessors, and in a finite strict total order there is exactly
one for every place (`SortedInOrder`). `OrderInv` adds that the counter `order` is
unique and follows the order of the sources and their groups, so that the code's key
orders totally and as documented, and that impact is the tier of the representative:
as a code is always of low severity or never (`SELECT_STAR` is, and no other,
`select_star.py:86`), low impact stays below the rest (`CheapBelow`). These four are
theorems about the engine alone, for all its `Inputs`. `InputGood` shows, detector by
detector, that whatever a run hands over is one of them, and `AdviceIsRanked` carries
them over to runs.

**Only model-checked.** `Terminates` and `Exits` (liveness is out of
the prover's reach), and of course the violations, which need one instance only. So is
`FirstFaultDecides`, whose reference recurses over the plan: what a recursive
definition computes is out of the prover's reach. All other
invariants the passing runs check, and the refinement of `QueryReview`, are theorems.
TLC evaluates the assumptions on every run.

## What is not modelled

Sequence values an aborted INSERT has consumed, and other effects PostgreSQL does
not roll back. Errors of the network while connecting beyond "it failed". The
steps of `audit` inside an invocation: `CommandLine` takes its outcome from
`AuditRun`. How the keys of findings come of plans in `CompareRun`, and of statements
in the loop: `PlanAnalyzer` has it for one plan. The wording of recommendations and
impact estimates, and the cut of an index name at 63 characters, which the code
documents as accepted. The tokenizer and the grammar of sqlglot beyond what the
splitting tells apart. A catalog that changes between the two reads of the index
section: no document says what should hold of mixed data. Interrupts by the user.
Logging and redaction (formatting of records), rendering, the data classes of
`models/` and the `report` placeholder are sequential code that ordinary tests
reach; see the notes in `PROJECT.json`.

## Plan

Done, in this order: the session modules and the loop, the audit, index hygiene,
the advice, the comparison and the command line, the plan analyzer, the parsers, and
the proofs about each of them.

What would come next: `AdviceRun` fed by `PlanAnalyzer` instead of by given
findings; two readings of a changing catalog, once it is decided what they should
agree on; a refinement of the engine and of the advisor by one specification of the
list a run prints.
