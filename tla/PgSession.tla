----------------------------- MODULE PgSession ------------------------------
(***************************************************************************)
(* One psycopg connection to PostgreSQL as the code in database/ uses it,  *)
(* together with the rest of the world: another application that locks     *)
(* rows of the same tables and a server that may drop the connection.      *)
(*                                                                         *)
(* psycopg opens a transaction at the first statement it executes.  An     *)
(* error fails that transaction: PostgreSQL discards its writes, releases  *)
(* its locks and refuses every further statement until the transaction is  *)
(* rolled back.  Closing a connection rolls its transaction back.          *)
(*                                                                         *)
(* The writes are identified by the position, in the workload, of the      *)
(* statement that made them.  One row lock stands for the locks the        *)
(* workload and the other application contend for.                         *)
(***************************************************************************)
EXTENDS Naturals

VARIABLES
  conn,       \* the connection: not opened yet, open, dropped, closed
  txn,        \* the state of its transaction
  work,       \* the positions whose writes the transaction holds
  durable,    \* the positions whose writes are committed
  lock,       \* who holds the row lock
  timeoutMs   \* statement_timeout of the session; 0 is "no timeout"

sessionVars == <<conn, txn, work, durable, lock, timeoutMs>>

SessionTypeOK ==
  /\ conn \in {"none", "open", "dropped", "closed"}
  /\ txn \in {"idle", "active", "failed"}
  /\ work \subseteq Nat
  /\ durable \subseteq Nat
  /\ lock \in {"free", "run", "app"}
  /\ timeoutMs \in Nat

SessionInit ==
  /\ conn = "none"
  /\ txn = "idle"
  /\ work = {}
  /\ durable = {}
  /\ lock \in {"free", "app"}
  /\ timeoutMs = 0

\* DatabaseConnection passes no autocommit argument, so psycopg's default holds.
Autocommit == FALSE

\* Who holds the row lock once the transaction of the run is over.
LockLeft == IF lock = "run" THEN "free" ELSE lock

\* A statement raises before it runs: the connection is gone, or its
\* transaction has failed ("current transaction is aborted").
Refuses == conn # "open" \/ txn = "failed"

\* A successful psycopg.connect().
Opened ==
  /\ conn' = "open"
  /\ txn' = "idle"
  /\ timeoutMs' = 0
  /\ UNCHANGED <<work, durable, lock>>

\* A statement of the given effect ran: the transaction is (still) open.
Ran(position, effect) ==
  LET written == IF effect = "write" THEN {position} ELSE {}
  IN  /\ txn' = IF Autocommit THEN "idle" ELSE "active"
      /\ work' = IF Autocommit THEN work ELSE work \union written
      /\ durable' = IF Autocommit THEN durable \union written ELSE durable
      /\ lock' = IF effect = "none" \/ Autocommit THEN lock ELSE "run"
      /\ UNCHANGED <<conn, timeoutMs>>

\* Mutant of Raised: the error is answered with a rollback, so that the session
\* goes on without the earlier writes.
RaisedAndRolledBack ==
  /\ txn' = "idle"
  /\ work' = {}
  /\ lock' = LockLeft
  /\ UNCHANGED <<conn, durable, timeoutMs>>

\* A statement raised: its transaction fails.
Raised ==
  /\ txn' = IF Autocommit THEN "idle" ELSE "failed"
  /\ work' = {}
  /\ lock' = LockLeft
  /\ UNCHANGED <<conn, durable, timeoutMs>>

\* Connection.close(): the transaction, whatever its state, is rolled back.
Closed ==
  /\ conn' = "closed"
  /\ txn' = "idle"
  /\ work' = {}
  /\ lock' = LockLeft
  /\ UNCHANGED <<durable, timeoutMs>>

-----------------------------------------------------------------------------
\* The rest of the world.

AppLocks ==
  /\ lock = "free"
  /\ lock' = "app"
  /\ UNCHANGED <<conn, txn, work, durable, timeoutMs>>

AppReleases ==
  /\ lock = "app"
  /\ lock' = "free"
  /\ UNCHANGED <<conn, txn, work, durable, timeoutMs>>

ServerDrops ==
  /\ conn = "open"
  /\ conn' = "dropped"
  /\ work' = {}
  /\ lock' = LockLeft
  /\ UNCHANGED <<txn, durable, timeoutMs>>

World == AppLocks \/ AppReleases \/ ServerDrops
=============================================================================
