----------------------------- MODULE AnalyzeRun -----------------------------
(***************************************************************************)
(* One run of the analyze command: analyze_service of reports/services.py  *)
(* from the check of its arguments to the AnalyzeResult it returns or the  *)
(* error it raises, on one connection.                                     *)
(***************************************************************************)
EXTENDS ExplainLoop

CONSTANT Workloads    \* what parsing the SQL file may yield

ASSUME WorkloadsAssumption ==
  Workloads \subseteq Seq({s \in Statement : KeptByFileParser(s)})

VARIABLES
  source,     \* the SQL file argument
  dbUrl,      \* --db-url
  pc,         \* where analyze_service is
  outcome,    \* what the caller gets: a result or an exception
  result      \* the counters of the AnalyzeResult

vars == <<sessionVars, loopVars, source, dbUrl, pc, outcome, result>>

\* "PydanticError" is pydantic's ValidationError, which is none of SQLCoach's.
Errors == {"ValidationError", "OSError", "DatabaseConnectionError", "ParsingError",
           "PydanticError"}

NoResult == [parsed |-> 0, analyzed |-> 0, againstDatabase |-> FALSE]

TypeOK ==
  /\ SessionTypeOK
  /\ LoopTypeOK
  /\ source \in {"none", "unreadable", "file"}
  /\ dbUrl \in {"none", "empty", "given"}
  /\ pc \in {"start", "parsed", "explaining", "generating", "done"}
  /\ outcome \in Errors \union {"pending", "result"}
  /\ result \in [parsed : Nat, analyzed : Nat, againstDatabase : BOOLEAN]

Init ==
  /\ SessionInit
  /\ LoopInit
  /\ source \in {"none", "unreadable", "file"}
  /\ dbUrl \in {"none", "empty", "given"}
  /\ pc = "start"
  /\ outcome = "pending"
  /\ result = NoResult

-----------------------------------------------------------------------------
\* The run ends with an exception.
Raise(error) ==
  /\ outcome' = error
  /\ pc' = "done"
  /\ UNCHANGED <<source, dbUrl, result>>

RejectSource ==
  /\ pc = "start"
  /\ source # "file"
  /\ Raise(IF source = "none" THEN "ValidationError" ELSE "OSError")
  /\ UNCHANGED <<sessionVars, loopVars>>

\* The file is parsed and the anti-patterns, which need no database, detected.
ParseSource ==
  /\ pc = "start"
  /\ source = "file"
  /\ \E workload \in Workloads : queries' = workload
  /\ pc' = "parsed"
  /\ UNCHANGED <<confirmed, loop, position, perQuery, skipped>>
  /\ UNCHANGED <<sessionVars, source, dbUrl, outcome, result>>

StaticOnly ==
  /\ pc = "parsed"
  /\ dbUrl = "none"
  /\ pc' = "generating"
  /\ UNCHANGED <<sessionVars, loopVars, source, dbUrl, outcome, result>>

\* DatabaseConnection.__init__ takes the empty string for a missing dsn.
RejectUrl ==
  /\ pc = "parsed"
  /\ dbUrl = "empty"
  /\ Raise("ValidationError")
  /\ UNCHANGED <<sessionVars, loopVars>>

ConnectFails ==
  /\ pc = "parsed"
  /\ dbUrl = "given"
  /\ Raise("DatabaseConnectionError")
  /\ UNCHANGED <<sessionVars, loopVars>>

Connect ==
  /\ pc = "parsed"
  /\ dbUrl = "given"
  /\ Opened
  /\ Enter(queries)
  /\ pc' = "explaining"
  /\ UNCHANGED <<source, dbUrl, outcome, result>>

Explain ==
  /\ pc = "explaining"
  /\ LoopStep
  /\ UNCHANGED <<source, dbUrl, pc, outcome, result>>

\* Mutant of ExitConnection: commit before closing, as psycopg's own context
\* manager does.
ExitCommitting ==
  /\ conn' = "closed"
  /\ txn' = "idle"
  /\ durable' = durable \union work
  /\ work' = {}
  /\ lock' = LockLeft
  /\ UNCHANGED timeoutMs

\* Mutant of ExitConnection: the connection is forgotten, not closed.
ExitForgetting == UNCHANGED sessionVars

\* DatabaseConnection.__exit__: close() and nothing else, on either way out.
ExitConnection == Closed

LeaveWithResults ==
  /\ pc = "explaining"
  /\ loop = "finished"
  /\ ExitConnection
  /\ pc' = "generating"
  /\ UNCHANGED <<loopVars, source, dbUrl, outcome, result>>

\* What the loop has raised.
LoopError == IF loop = "raised" THEN "ParsingError" ELSE "PydanticError"

\* Mutant of LeaveRaising: close() is not in a finally.
LeaveRaisingOpen ==
  /\ pc = "explaining"
  /\ loop \in {"raised", "invalid"}
  /\ Raise(LoopError)
  /\ UNCHANGED <<sessionVars, loopVars>>

LeaveRaising ==
  /\ pc = "explaining"
  /\ loop \in {"raised", "invalid"}
  /\ ExitConnection
  /\ Raise(LoopError)
  /\ UNCHANGED loopVars

\* Mutants of QueriesAnalyzed: the skipped queries are taken off what never
\* contained them; all queries count.
AnalyzedLessSkipped == Len(perQuery) - Cardinality(skipped)
AnalyzedAll == Len(queries)

\* What the loop counts: len(per_query), and 0 when it never ran.
QueriesAnalyzed == Len(perQuery)

\* RecommendationEngine.generate and the AnalyzeResult.
Generate ==
  /\ pc = "generating"
  /\ result' = [parsed          |-> Len(queries),
                analyzed        |-> QueriesAnalyzed,
                againstDatabase |-> dbUrl # "none"]
  /\ outcome' = "result"
  /\ pc' = "done"
  /\ UNCHANGED <<sessionVars, loopVars, source, dbUrl>>

Run ==
  \/ RejectSource \/ ParseSource \/ StaticOnly
  \/ RejectUrl \/ ConnectFails \/ Connect
  \/ Explain
  \/ LeaveWithResults \/ LeaveRaising
  \/ Generate

Environment ==
  /\ World
  /\ UNCHANGED <<loopVars, source, dbUrl, pc, outcome, result>>

Next == Run \/ Environment

\* The command keeps executing; the application and the server owe nothing.
Spec == Init /\ [][Next]_vars /\ WF_vars(Run)

-----------------------------------------------------------------------------
(* Every way out of the with block closes the connection: whether the run  *)
(* ends with a result or an exception, it leaves no connection open, no    *)
(* uncommitted write and no lock behind (services.py:249, connection.py:   *)
(* 92-100).                                                                *)
NothingLeftBehind ==
  pc \in {"generating", "done"} =>
     /\ conn \in {"none", "closed"}
     /\ work = {}
     /\ lock # "run"

(* The counters of a result add up: a query the file yielded is analyzed   *)
(* or was skipped with a warning, and none is analyzed without a database. *)
ResultAddsUp ==
  outcome = "result" =>
     /\ result.parsed = Len(queries)
     /\ result.againstDatabase =>
          result.analyzed + Cardinality(skipped) = result.parsed
     /\ ~result.againstDatabase => result.analyzed = 0 /\ skipped = {}

(* The run ends, even if the application never gives up the row lock: each *)
(* EXPLAIN is bounded by statement_timeout (explain_runner.py:165-168).    *)
Terminates == <>(pc = "done")

\* What the run is to its caller: a review of the workload, query by query.
ReviewStatus ==
  CASE outcome = "result" -> "reported"
    [] outcome \in Errors -> "failed"
    [] outcome = "pending" /\ pc = "start" -> "fresh"
    [] outcome = "pending" /\ pc # "start" -> "reviewing"

Review ==
  INSTANCE QueryReview
    WITH size <- Len(queries), verdicts <- Verdicts, status <- ReviewStatus

(* The run implements QueryReview: verdicts are given in the order of the  *)
(* workload, are final, and a result is only reported when every query has *)
(* one, or, without a database, when none has.                             *)
ReviewSpec == Review!Spec
=============================================================================
