------------------------------ MODULE AuditRun ------------------------------
(***************************************************************************)
(* One run of the audit command: audit_service of reports/audit_service.py *)
(* with the catalog reads of database/pg_stat_statements.py and            *)
(* database/index_catalog.py.  Three sections share one connection, hence  *)
(* one transaction: the live workload, which runs the loop of ExplainLoop, *)
(* the duplicate indexes and the unused indexes.                           *)
(***************************************************************************)
EXTENDS ExplainLoop

CONSTANT Workloads    \* what pg_stat_statements may hold

ASSUME WorkloadsAssumption == Workloads \subseteq Seq(Statement)

VARIABLES
  dbUrl,        \* --db-url
  denied,       \* the catalog reads PostgreSQL refuses to this user
  extension,    \* whether pg_stat_statements is installed
  pc,           \* where audit_service is
  outcome,      \* what the caller gets: a result or an exception
  completed,    \* sections_completed
  sectionsSkipped \* sections_skipped, with the reason

auditVars == <<dbUrl, denied, extension, pc, outcome, completed, sectionsSkipped>>

vars == <<sessionVars, loopVars, auditVars>>

\* The statements audit_service executes itself, named after the stage of the
\* run that executes them.
Reads == {"available", "recheck", "topQueries", "catalog", "usage"}

\* "PydanticError" is pydantic's ValidationError, which is none of SQLCoach's.
Errors == {"ValidationError", "DatabaseConnectionError", "TokenError", "PydanticError"}

SkipReasons == {"absent", "denied", "aborted", "dropped", "malformed"}

Stages == Reads \union
  {"start", "explaining", "closing", "failing", "generating", "done"}

AuditTypeOK ==
  /\ dbUrl \in {"none", "empty", "given"}
  /\ denied \subseteq Reads
  /\ extension \in BOOLEAN
  /\ pc \in Stages
  /\ outcome \in Errors \union {"pending", "result"}
  /\ completed \subseteq {"workload", "duplicate_indexes", "unused_indexes"}
  /\ sectionsSkipped \subseteq
       [name : {"workload", "index_catalog", "unused_indexes"}, why : SkipReasons]

TypeOK == SessionTypeOK /\ LoopTypeOK /\ AuditTypeOK

Init ==
  /\ SessionInit
  /\ LoopInit
  /\ dbUrl \in {"none", "empty", "given"}
  /\ denied \in SUBSET {"topQueries", "catalog", "usage"}
  /\ extension \in BOOLEAN
  /\ pc = "start"
  /\ outcome = "pending"
  /\ completed = {}
  /\ sectionsSkipped = {}

-----------------------------------------------------------------------------
(* The connection.                                                         *)

Raise(error) ==
  /\ outcome' = error
  /\ pc' = "done"
  /\ UNCHANGED <<dbUrl, denied, extension, completed, sectionsSkipped>>

RejectUrl ==
  /\ pc = "start"
  /\ dbUrl # "given"
  /\ Raise("ValidationError")
  /\ UNCHANGED <<sessionVars, loopVars>>

ConnectFails ==
  /\ pc = "start"
  /\ dbUrl = "given"
  /\ Raise("DatabaseConnectionError")
  /\ UNCHANGED <<sessionVars, loopVars>>

GoTo(stage) ==
  /\ pc' = stage
  /\ UNCHANGED <<dbUrl, denied, extension, outcome, completed, sectionsSkipped>>

Connect ==
  /\ pc = "start"
  /\ dbUrl = "given"
  /\ Opened
  /\ GoTo("available")
  /\ UNCHANGED loopVars

-----------------------------------------------------------------------------
(* Sections: each completes or is skipped, and the run goes on.            *)

Complete(section, stage) ==
  /\ completed' = completed \union {section}
  /\ pc' = stage
  /\ UNCHANGED <<dbUrl, denied, extension, outcome, sectionsSkipped>>

SkipSection(section, why, stage) ==
  /\ sectionsSkipped' = sectionsSkipped \union {[name |-> section, why |-> why]}
  /\ pc' = stage
  /\ UNCHANGED <<dbUrl, denied, extension, outcome, completed>>

\* The read of the current stage raises a DatabaseConnectionError, or not.
ReadFails == Refuses \/ pc \in denied

ReadError ==
  IF conn # "open" THEN "dropped" ELSE IF txn = "failed" THEN "aborted" ELSE "denied"

ReadRaises ==
  /\ ReadFails
  /\ IF conn = "open" THEN Raised ELSE UNCHANGED sessionVars
  /\ UNCHANGED loopVars

\* A read has no effect but to open the transaction.
ReadSucceeds == ~ReadFails /\ Ran(0, "none")

\* is_pg_stat_statements_available
Available ==
  /\ pc = "available"
  /\ ReadSucceeds
  /\ IF extension THEN GoTo("recheck") ELSE SkipSection("workload", "absent", "catalog")
  /\ UNCHANGED loopVars

\* fetch_top_queries asks again; if the extension has gone it returns no query.
Recheck ==
  /\ pc = "recheck"
  /\ ReadSucceeds
  /\ IF extension THEN GoTo("topQueries") /\ UNCHANGED loopVars
                  ELSE GoTo("explaining") /\ Enter(<<>>)

\* The queries come with metadata, for which describe_sql parses each.
Describable(workload) == \A i \in 1 .. Len(workload) : Tokenizes(workload[i])

TopQueries ==
  /\ pc = "topQueries"
  /\ ReadSucceeds
  /\ \E workload \in Workloads :
        /\ Describable(workload)
        /\ Enter(workload)
  /\ GoTo("explaining")

\* describe_sql lets a TokenError through, and no handler of audit_service
\* takes it.
DescribeRaises ==
  /\ pc = "topQueries"
  /\ ReadSucceeds
  /\ \E workload \in Workloads : ~Describable(workload)
  /\ GoTo("failing")
  /\ UNCHANGED loopVars

WorkloadReadRaises ==
  /\ pc \in {"available", "recheck", "topQueries"}
  /\ ReadRaises
  /\ SkipSection("workload", ReadError, "catalog")

Explain ==
  /\ pc = "explaining"
  /\ LoopStep
  /\ UNCHANGED auditVars

\* The findings of the workload and of its anti-patterns are taken over.
CompleteWorkload ==
  /\ pc = "explaining"
  /\ loop = "finished"
  /\ Complete("workload", "catalog")
  /\ UNCHANGED <<sessionVars, loopVars>>

\* Mutant of SkipWorkload: an error half way counts as completed.
CompleteHalfWorkload ==
  /\ pc = "explaining"
  /\ loop = "raised"
  /\ Complete("workload", "catalog")
  /\ UNCHANGED <<sessionVars, loopVars>>

SkipWorkload ==
  /\ pc = "explaining"
  /\ loop = "raised"
  /\ SkipSection("workload", "malformed", "catalog")
  /\ UNCHANGED <<sessionVars, loopVars>>

\* An invalid plan raises what is no SQLCoachError: no handler takes it.
InvalidPlan ==
  /\ pc = "explaining"
  /\ loop = "invalid"
  /\ GoTo("failing")
  /\ UNCHANGED <<sessionVars, loopVars>>

\* fetch_indexes, then DuplicateIndexDetector, which cannot fail.
DuplicateIndexes ==
  /\ pc = "catalog"
  /\ ReadSucceeds
  /\ Complete("duplicate_indexes", "usage")
  /\ UNCHANGED loopVars

CatalogReadRaises ==
  /\ pc = "catalog"
  /\ ReadRaises
  /\ SkipSection("index_catalog", ReadError, "closing")

\* fetch_index_usage, then UnusedIndexDetector, which cannot fail.
UnusedIndexes ==
  /\ pc = "usage"
  /\ ReadSucceeds
  /\ Complete("unused_indexes", "closing")
  /\ UNCHANGED loopVars

\* Mutant of UsageReadRaises: the section is completed before it is read.
UsageCompletedEarly ==
  /\ pc = "usage"
  /\ ReadRaises
  /\ completed' = completed \union {"unused_indexes"}
  /\ sectionsSkipped' =
       sectionsSkipped \union {[name |-> "unused_indexes", why |-> ReadError]}
  /\ pc' = "closing"
  /\ UNCHANGED <<dbUrl, denied, extension, outcome>>

UsageReadRaises ==
  /\ pc = "usage"
  /\ ReadRaises
  /\ SkipSection("unused_indexes", ReadError, "closing")

-----------------------------------------------------------------------------
(* The way out.                                                            *)

\* DatabaseConnection.__exit__: close() and nothing else, on either way out.
ExitConnection == Closed

Leave ==
  /\ pc = "closing"
  /\ ExitConnection
  /\ GoTo("generating")
  /\ UNCHANGED loopVars

\* The errors no handler of the sections takes.
Unhandled == IF loop = "invalid" THEN "PydanticError" ELSE "TokenError"

\* Mutant of LeaveRaising: close() is not in a finally.
LeaveRaisingOpen ==
  /\ pc = "failing"
  /\ Raise(Unhandled)
  /\ UNCHANGED <<sessionVars, loopVars>>

LeaveRaising ==
  /\ pc = "failing"
  /\ ExitConnection
  /\ Raise(Unhandled)
  /\ UNCHANGED loopVars

\* RecommendationEngine.generate and the AuditResult.
Generate ==
  /\ pc = "generating"
  /\ outcome' = "result"
  /\ pc' = "done"
  /\ UNCHANGED <<dbUrl, denied, extension, completed, sectionsSkipped>>
  /\ UNCHANGED <<sessionVars, loopVars>>

Run ==
  \/ RejectUrl \/ ConnectFails \/ Connect
  \/ Available \/ Recheck \/ TopQueries \/ DescribeRaises \/ WorkloadReadRaises
  \/ Explain \/ CompleteWorkload \/ SkipWorkload \/ InvalidPlan
  \/ DuplicateIndexes \/ CatalogReadRaises
  \/ UnusedIndexes \/ UsageReadRaises
  \/ Leave \/ LeaveRaising
  \/ Generate

\* Somebody drops the extension while the audit runs.
DropExtension ==
  /\ extension
  /\ extension' = FALSE
  /\ UNCHANGED <<dbUrl, denied, pc, outcome, completed, sectionsSkipped>>
  /\ UNCHANGED <<sessionVars, loopVars>>

Environment ==
  \/ World /\ UNCHANGED <<loopVars, auditVars>>
  \/ DropExtension

Next == Run \/ Environment

\* The command keeps executing; the application and the server owe nothing.
Spec == Init /\ [][Next]_vars /\ WF_vars(Run)

-----------------------------------------------------------------------------
SkippedNames == {s.name : s \in sectionsSkipped}

(* The report says of each section exactly once whether it ran: the        *)
(* workload, the duplicate indexes, which are skipped under the name of    *)
(* the catalog read, and the unused indexes, which are only tried when the *)
(* catalog could be read (audit_service.py:94-157).                        *)
SectionsAccounted ==
  outcome = "result" =>
     /\ "workload" \in completed <=> "workload" \notin SkippedNames
     /\ "duplicate_indexes" \in completed <=> "index_catalog" \notin SkippedNames
     /\ "unused_indexes" \in completed <=>
          SkippedNames \intersect {"index_catalog", "unused_indexes"} = {}
     /\ \A s, t \in sectionsSkipped : s.name = t.name => s = t

(* A completed workload section covers the workload: every query read was  *)
(* analyzed or skipped.  A section that failed half way is not reported as *)
(* if it had run (audit_service.py:103-134).                               *)
CompletedWorkloadIsWhole ==
  "workload" \in completed => Analyzed \union SkippedQueries = 1 .. Len(queries)

(* However the audit ends, also with an exception no handler takes, it     *)
(* leaves no open connection, no uncommitted write and no lock behind      *)
(* (audit_service.py:101, connection.py:92-100).                           *)
NothingLeftBehind ==
  pc \in {"generating", "done"} =>
     /\ conn \in {"none", "closed"}
     /\ work = {}
     /\ lock # "run"

(* The audit ends, even if an application never gives up the row lock and  *)
(* whatever sections fail (explain_runner.py:165-168).                     *)
Terminates == <>(pc = "done")

\* What ends the transaction of the audit for all that comes after it: an EXPLAIN
\* that fails, or a read of the workload that PostgreSQL denies.
WorkloadFailed ==
  \/ \E s \in skipped : s.why \in {"error", "timeout"}
  \/ [name |-> "workload", why |-> "denied"] \in sectionsSkipped

(* The sections share one transaction.  When a query or a read of the      *)
(* workload has failed, no section after it completes, so that none        *)
(* reports on the state after a rollback; and none but the next one is     *)
(* refused on account of another, and only then: where nothing has failed, *)
(* a section is skipped for a cause of its own (audit_service.py:9-12 and  *)
(* 101-157).                                                               *)
SectionsShareOneFate ==
  /\ WorkloadFailed => completed \subseteq {"workload"}
  /\ \A s \in sectionsSkipped :
        s.why = "aborted" => s.name = "index_catalog" /\ WorkloadFailed
=============================================================================
