----------------------------- MODULE ExplainLoop ----------------------------
(***************************************************************************)
(* _explain_and_analyze of reports/services.py with ExplainRunner.explain: *)
(* the loop the analyze and audit commands share.  It runs EXPLAIN         *)
(* (ANALYZE) for each query of a workload, one after the other, on a       *)
(* connection its caller has opened and will close.                        *)
(*                                                                         *)
(* This module holds the state and the steps of the loop; AnalyzeRun and   *)
(* AuditRun compose them with the command around it.                       *)
(***************************************************************************)
EXTENDS Statements, PgSession, Sequences, FiniteSets

CONSTANT TimeoutSeconds    \* statement_timeout_seconds of ExplainRunner

\* ExplainRunner.__init__ rejects anything below one second.
ASSUME TimeoutAssumption == TimeoutSeconds \in Nat /\ TimeoutSeconds >= 1

VARIABLES
  queries,     \* the workload: a sequence of statements
  confirmed,   \* confirm_mutations
  loop,        \* where the loop is
  position,    \* the query of the current iteration
  perQuery,    \* per_query: each analyzed query, with the writes it was
               \* measured on top of
  skipped      \* the queries that were logged and skipped, with the reason

loopVars == <<queries, confirmed, loop, position, perQuery, skipped>>

Reasons == {"mutating", "aborted", "dropped", "noRow", "error", "timeout"}

LoopTypeOK ==
  /\ queries \in Seq(Explainable)
  /\ confirmed \in BOOLEAN
  /\ loop \in {"idle", "next", "armed", "finished", "raised", "invalid"}
  /\ position \in Nat
  /\ perQuery \in Seq([query : Nat, over : SUBSET Nat])
  /\ skipped \subseteq [query : Nat, why : Reasons]

LoopInit ==
  /\ queries = <<>>
  /\ confirmed \in BOOLEAN
  /\ loop = "idle"
  /\ position = 1
  /\ perQuery = <<>>
  /\ skipped = {}

-----------------------------------------------------------------------------
Current == queries[position]

AtQuery == loop = "next" /\ position <= Len(queries)

\* Mutant of StatementTimeout: 0, which PostgreSQL takes for "no timeout".
NoTimeout(seconds) == 0

\* The value of the SET statement_timeout that precedes each EXPLAIN.
StatementTimeout(seconds) == seconds * 1000

\* explain() refuses the statement before it touches the connection.
Blocked(s) == IsMutating(s) /\ ~confirmed

\* An EXPLAIN that needs the row lock waits while the application holds it.
Waits == Current.effect # "none" /\ lock = "app"

\* The loop starts on a workload.
Enter(workload) ==
  /\ queries' = workload
  /\ loop' = "next"
  /\ UNCHANGED <<confirmed, position, perQuery, skipped>>

\* Mutant of Skip: without `continue` the iteration goes on to append a result.
SkipFallsThrough(why) ==
  /\ skipped' = skipped \union {[query |-> position, why |-> why]}
  /\ perQuery' = Append(perQuery, [query |-> position, over |-> work])
  /\ position' = position + 1
  /\ loop' = "next"
  /\ UNCHANGED <<queries, confirmed>>

\* Mutant of Skip: `break`, the rest of the workload is not tried.
SkipTheRest(why) ==
  /\ skipped' = skipped \union {[query |-> position, why |-> why]}
  /\ position' = position + 1
  /\ loop' = "finished"
  /\ UNCHANGED <<queries, confirmed, perQuery>>

\* `continue`: the query is left out of the results.
Skip(why) ==
  /\ skipped' = skipped \union {[query |-> position, why |-> why]}
  /\ position' = position + 1
  /\ loop' = "next"
  /\ UNCHANGED <<queries, confirmed, perQuery>>

SkipBlocked ==
  /\ AtQuery
  /\ Blocked(Current)
  /\ Skip("mutating")
  /\ UNCHANGED sessionVars

\* SET statement_timeout raises: the EXPLAIN is never sent.
SkipRefused ==
  /\ AtQuery
  /\ ~Blocked(Current)
  /\ Refuses
  /\ Skip(IF conn = "open" THEN "aborted" ELSE "dropped")
  /\ UNCHANGED sessionVars

ArmTimeout ==
  /\ AtQuery
  /\ ~Blocked(Current)
  /\ ~Refuses
  /\ loop' = "armed"
  /\ txn' = IF Autocommit THEN "idle" ELSE "active"
  /\ timeoutMs' = StatementTimeout(TimeoutSeconds)
  /\ UNCHANGED <<conn, work, durable, lock, queries, confirmed, position,
                 perQuery, skipped>>

\* EXPLAIN (ANALYZE) executes the statement and returns its plan.
Analyze ==
  /\ loop = "armed"
  /\ conn = "open"
  /\ Current.answer = "plan"
  /\ ~Waits
  /\ Ran(position, Current.effect)
  /\ perQuery' = Append(perQuery, [query |-> position, over |-> work])
  /\ position' = position + 1
  /\ loop' = "next"
  /\ UNCHANGED <<queries, confirmed, skipped>>

\* parse_explain_json raises, and the loop does not catch it: a ParsingError if
\* the payload is no plan, pydantic's error if a value of the plan is invalid.
RaiseMalformed ==
  /\ loop = "armed"
  /\ conn = "open"
  /\ Current.answer \in {"malformed", "invalid"}
  /\ ~Waits
  /\ Ran(position, Current.effect)
  /\ loop' = IF Current.answer = "malformed" THEN "raised" ELSE "invalid"
  /\ UNCHANGED <<queries, confirmed, position, perQuery, skipped>>

SkipNoRow ==
  /\ loop = "armed"
  /\ conn = "open"
  /\ Current.answer = "noRow"
  /\ ~Waits
  /\ Ran(position, Current.effect)
  /\ Skip("noRow")

SkipError ==
  /\ loop = "armed"
  /\ conn = "open"
  /\ Current.answer = "error"
  /\ Raised
  /\ Skip("error")

\* PostgreSQL cancels the statement while it waits for the lock.
SkipTimeout ==
  /\ loop = "armed"
  /\ conn = "open"
  /\ Waits
  /\ timeoutMs > 0
  /\ Raised
  /\ Skip("timeout")

SkipDropped ==
  /\ loop = "armed"
  /\ conn = "dropped"
  /\ Skip("dropped")
  /\ UNCHANGED sessionVars

\* The workload is through: the results are flattened and returned.
FinishLoop ==
  /\ loop = "next"
  /\ position > Len(queries)
  /\ loop' = "finished"
  /\ UNCHANGED <<queries, confirmed, position, perQuery, skipped>>
  /\ UNCHANGED sessionVars

LoopStep ==
  \/ SkipBlocked \/ SkipRefused \/ ArmTimeout
  \/ Analyze \/ RaiseMalformed
  \/ SkipNoRow \/ SkipError \/ SkipTimeout \/ SkipDropped
  \/ FinishLoop

-----------------------------------------------------------------------------
\* What the loop has made of the queries so far.

Analyzed == {perQuery[k].query : k \in 1 .. Len(perQuery)}
SkippedQueries == {s.query : s \in skipped}

\* The verdict on each query up to the current one.
Verdicts ==
  [i \in 1 .. (position - 1) |-> IF i \in Analyzed THEN "analyzed" ELSE "skipped"]

\* The writes an EXPLAIN at a position finds if every earlier statement that
\* was not blocked took effect.
WritesBefore(p) ==
  {i \in 1 .. (p - 1) : queries[i].effect = "write" /\ ~Blocked(queries[i])}

(* Each query up to the current position is either analyzed or skipped,    *)
(* never both, and the results keep the order of the workload: an error    *)
(* path neither drops a query silently nor reports it twice                *)
(* (services.py:200-228).                                                  *)
EveryQueryAccounted ==
  /\ Analyzed \union SkippedQueries = 1 .. (position - 1)
  /\ Analyzed \intersect SkippedQueries = {}
  /\ \A j, k \in 1 .. Len(perQuery) :
        j < k => perQuery[j].query < perQuery[k].query

(* A plan is only ever measured on top of all the writes of the statements *)
(* before it that were not blocked.  The queries share one transaction     *)
(* (explain_runner.py:99-104), so after a failed write no later plan may   *)
(* be measured as if that write had happened, or without it.               *)
MeasuredOnEarlierWrites ==
  \A k \in 1 .. Len(perQuery) :
     perQuery[k].over = WritesBefore(perQuery[k].query)

(* No write of the workload ever outlives the run: explain() never commits *)
(* and closing the connection rolls back (explain_runner.py:99-104).       *)
NothingDurable == durable = {}

\* The queries whose execution the tree gives away as a change of data.
ShowsWrite(s) == s.root \notin QueryRoots \/ s.nodes \intersect WritingNodes # {}

(* Without --confirm-mutations a workload that neither calls a volatile    *)
(* function, which the docstring of is_mutating_statement concedes, nor    *)
(* selects INTO a table only reads: nothing is written, not even until the *)
(* rollback, and no row lock is taken, whatever roots its statements have  *)
(* and whatever is in their CTEs (explain_runner.py:47-87 and 149-155).    *)
ReadOnlyUnlessConfirmed ==
  ~confirmed /\ (\A i \in DOMAIN queries :
                   ~queries[i].volatile /\ "Into" \notin queries[i].nodes) =>
     work = {} /\ lock # "run"

(* Documented for the user (docs/user_guide.md:44-46): a statement that    *)
(* modifies data is skipped unless --confirm-mutations is passed.  So what *)
(* the run writes unconfirmed no tree shows.  It does not hold: the INTO   *)
(* of SELECT ... INTO is no type the code looks for.                       *)
VisibleWritesConfirmed ==
  ~confirmed => \A i \in work : ~ShowsWrite(queries[i])

(* Documented for the loop (services.py:191-193): a query whose EXPLAIN    *)
(* errors is skipped.  So a query PostgreSQL would explain is not lost to  *)
(* the error of another.  It does not hold: the error fails the            *)
(* transaction that all queries of the workload share.                     *)
FailureSkipsOnlyItself ==
  \A s \in skipped : s.why = "aborted" => queries[s.query].answer # "plan"
=============================================================================
