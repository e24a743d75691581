---------------------------- MODULE MCAnalyzeRun ----------------------------
(* Small workloads for AnalyzeRun: every sequence of at most MaxQueries of  *)
(* ten kinds of statement, one per way through the loop.                    *)
EXTENDS AnalyzeRun, SequencesExt

CONSTANT MaxQueries

Plain(root, nodes, effect, answer) ==
  [root |-> root, nodes |-> nodes, volatile |-> FALSE,
   effect |-> effect, answer |-> answer]

Read      == Plain("SELECT", {}, "none", "plan")
BadTable  == Plain("SELECT", {}, "none", "error")
BadPlan   == Plain("SELECT", {}, "none", "invalid")
NoRow     == Plain("SELECT", {}, "none", "noRow")
Locking   == Plain("SELECT", {"Lock"}, "lock", "plan")
WriteCTE  == Plain("SELECT", {"Delete"}, "write", "plan")
IntoTable == Plain("SELECT", {"Into"}, "write", "plan")
Update    == Plain("UPDATE", {"Update"}, "write", "plan")
RuledOut  == Plain("INSERT", {"Insert"}, "none", "malformed")
Volatile  == [Read EXCEPT !.volatile = TRUE, !.effect = "write"]

MCWorkloads ==
  BoundedSeq({Read, BadTable, BadPlan, NoRow, Locking, WriteCTE, IntoTable,
              Update, RuledOut, Volatile}, MaxQueries)
=============================================================================
