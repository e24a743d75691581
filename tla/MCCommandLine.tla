---------------------------- MODULE MCCommandLine ----------------------------
(* Small files for CommandLine: at most MaxQueries statements of five kinds, *)
(* a slow query, a fast one, one whose plan has no time, one that fails and  *)
(* one that takes the row lock unseen; and a command that loads its settings *)
(* in every way, next to commands that load the defaults.                    *)
EXTENDS CommandLine, SequencesExt

CONSTANT MaxQueries

Plain(root, effect, answer) ==
  [root |-> root, nodes |-> {}, volatile |-> effect # "none",
   effect |-> effect, answer |-> answer]

Slow     == Plain("SELECT", "none", "plan")
Fast     == Plain("UNION", "none", "plan")
Untimed  == Plain("EXCEPT", "none", "plan")
BadTable == Plain("SELECT", "none", "error")
BadPlan  == Plain("SELECT", "none", "invalid")
Volatile == Plain("SELECT", "write", "plan")
RuledOut == [Plain("INSERT", "none", "malformed") EXCEPT !.nodes = {"Insert"}]

MCWorkloads ==
  BoundedSeq({Slow, Fast, BadTable, Volatile}, MaxQueries)
    \union {<<Untimed>>, <<Slow, Untimed>>, <<RuledOut>>, <<BadPlan>>}

\* The slow queries scan one table; repeated, they are an N+1 pattern.
MCAntiPatternKeys(list) ==
  UNION {IF list[i] = Slow
         THEN IF \E j \in DOMAIN list : j # i /\ list[j] = Slow
              THEN {"star", "n+1"} ELSE {"star"}
         ELSE {} : i \in DOMAIN list}

MCFindingKeys(list) ==
  UNION {CASE list[i] = Slow -> {"scan"}
           [] list[i] = Volatile -> {"loop"}
           [] OTHER -> {} : i \in DOMAIN list}

MCIndexKeys(list) ==
  IF \E i \in DOMAIN list : list[i] = Slow THEN {"t(a)"} ELSE {}

MCSummary(s) ==
  [root |-> s.root,
   cost |-> IF s = Slow THEN 3 ELSE 1,
   time |-> IF s = Untimed THEN {} ELSE {1}]

MCKeys == {"log_level", "json_logs"}

DefaultSettings(command) ==
  [command |-> command, file |-> "absent", unknownKey |-> FALSE,
   fileTexts |-> [k \in MCKeys |-> "none"],
   environment |-> [k \in MCKeys |-> "none"]]

MCInvocations ==
  {i \in Invocation : i.command = "report"}
    \union {DefaultSettings(c) : c \in {"analyze", "audit", "compare"}}
=============================================================================
