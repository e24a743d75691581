------------------------------- MODULE Parsing -------------------------------
(***************************************************************************)
(* One call of Parser.parse (parser/base.py): either parser is given a     *)
(* source and returns the queries it finds.                                *)
(***************************************************************************)
EXTENDS SqlFileParser, LogParser

VARIABLE parser   \* the implementation of the protocol that was chosen

parsingVars == <<sqlVars, logVars, parser>>

Init ==
  /\ SqlInit
  /\ LogInit
  /\ \/ parser = "SqlFileParser" /\ text \in Texts /\ log = <<>>
     \/ parser = "LogParser" /\ log \in Logs /\ text = <<>>

Next ==
  \/ parser = "SqlFileParser" /\ SqlNext /\ UNCHANGED <<logVars, parser>>
  \/ parser = "LogParser" /\ LogNext /\ UNCHANGED <<sqlVars, parser>>

Spec == Init /\ [][Next]_parsingVars
=============================================================================
