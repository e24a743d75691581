----------------------------- MODULE MCAuditRun -----------------------------
(* Small workloads for AuditRun: every sequence of at most MaxQueries of    *)
(* seven kinds of statement pg_stat_statements may hold.                      *)
EXTENDS AuditRun, SequencesExt

CONSTANT MaxQueries

Plain(root, nodes, effect, answer) ==
  [root |-> root, nodes |-> nodes, volatile |-> FALSE,
   effect |-> effect, answer |-> answer]

Read          == Plain("SELECT", {}, "none", "plan")
Parameterized == Plain("SELECT", {}, "none", "error")   \* "there is no parameter $1"
BadPlan       == Plain("SELECT", {}, "none", "invalid")
Locking       == Plain("SELECT", {"Lock"}, "lock", "plan")
Update        == Plain("UPDATE", {"Update"}, "write", "plan")
RuledOut      == Plain("INSERT", {"Insert"}, "none", "malformed")
Untokenized   == Plain("UNTOKENIZED", {}, "none", "error")

MCWorkloads ==
  BoundedSeq({Read, Parameterized, BadPlan, Locking, Update, RuledOut, Untokenized},
             MaxQueries)
=============================================================================
