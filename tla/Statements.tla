----------------------------- MODULE Statements -----------------------------
(***************************************************************************)
(* What SQLCoach can tell of a SQL statement before it runs it, and what   *)
(* PostgreSQL does when EXPLAIN (ANALYZE) executes it.                     *)
(*                                                                         *)
(* A statement is abstracted to the facts the code and the database branch *)
(* on: the type of the root of its syntax tree, the types of the nodes     *)
(* that write or lock anywhere in the tree, whether it calls a function    *)
(* with side effects, the effect of executing it, and how EXPLAIN answers. *)
(* What is in the tree and what PostgreSQL does are given independently of *)
(* the list of types the code looks for.                                   *)
(***************************************************************************)

\* Root types the code takes for read-only.
ReadOnlyRoots == {"SELECT", "UNION", "INTERSECT", "EXCEPT"}

\* Node types the code takes for writes, wherever they are in the tree.
WriteNodes == {"Insert", "Update", "Delete", "Merge"}

\* Root types that are queries to PostgreSQL: all else may have an effect
\* whatever is below it.  "COMMAND" stands for DDL and for syntax sqlglot does
\* not know, "EMPTY" for a text without a statement, "UNPARSED" for a ParseError
\* and "UNTOKENIZED" for a TokenError.
QueryRoots == {"SELECT", "UNION", "INTERSECT", "EXCEPT"}
OtherRoots == {"INSERT", "UPDATE", "DELETE", "MERGE", "COMMAND"}
Unreadable == {"EMPTY", "UNPARSED", "UNTOKENIZED"}

\* Nodes of a query by which PostgreSQL writes or locks: the modifications of a
\* CTE, the INTO of SELECT ... INTO, which creates a table, and FOR UPDATE.
WritingNodes == {"Insert", "Update", "Delete", "Merge", "Into"}
LockingNodes == {"Lock"}

Effects == {"none", "lock", "write"}

\* "plan": a plan in JSON.  "malformed": a payload parse_explain_json rejects,
\* e.g. the empty list of an INSERT that a DO INSTEAD NOTHING rule rewrites to
\* nothing.  "invalid": a plan with a value that the models reject, e.g. a
\* number of actual rows that is no integer; pydantic raises.  "noRow": the
\* cursor has no row.  "error": PostgreSQL raises.
Answers == {"plan", "malformed", "invalid", "noRow", "error"}

\* What a query does shows in its tree, unless it calls a volatile function.
EffectAccountedFor(s) ==
  \/ s.effect = "none"
  \/ s.volatile
  \/ s.root \notin QueryRoots
  \/ s.effect = "write" /\ s.nodes \intersect WritingNodes # {}
  \/ s.effect = "lock" /\ s.nodes \intersect (WritingNodes \union LockingNodes) # {}

Statement ==
  {s \in [root     : QueryRoots \union OtherRoots \union Unreadable,
          nodes    : SUBSET (WritingNodes \union LockingNodes),
          volatile : BOOLEAN,
          effect   : Effects,
          answer   : Answers] : EffectAccountedFor(s)}

\* Mutant of IsMutating: the root type is trusted, nodes below it are not seen.
MutatingByRoot(s) == s.root \notin ReadOnlyRoots

\* The allowlist of root types, and no write or lock node anywhere in the tree.
\* A TokenError is not caught; no caller hands it a text that raises one.
IsMutating(s) ==
  \/ s.root \notin ReadOnlyRoots
  \/ s.nodes \intersect WriteNodes # {}
  \/ "Lock" \in s.nodes

\* What SqlFileParser keeps of a file: the statements that tokenize, parse and
\* are not empty.
KeptByFileParser(s) == s.root \notin Unreadable

\* What may reach explain(): the file parser keeps no other statement, and the
\* audit parses each text for its metadata first.
Tokenizes(s) == s.root # "UNTOKENIZED"
Explainable == {s \in Statement : Tokenizes(s)}
=============================================================================
