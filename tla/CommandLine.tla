----------------------------- MODULE CommandLine -----------------------------
(***************************************************************************)
(* One invocation of sqlcoach: cli/main.py with load_settings of config.py.*)
(* The callback loads the settings, the command calls its service once,    *)
(* and what comes back is printed or turned into an exit code.             *)
(*                                                                         *)
(* `analyze` and `compare` run step by step, as AnalyzeRun and CompareRun. *)
(* The steps of `audit` are those of AuditRun; here it only returns.       *)
(***************************************************************************)
EXTENDS CompareRun

CONSTANTS
  Keys,          \* the settings that are looked at
  Invocations    \* commands with their configuration file and environment

VARIABLES
  invocation,    \* the command, the file and the SQLCOACH_* variables
  settings,      \* ctx.obj: which layer each setting comes from
  exit,          \* {}, then the set of the exit code
  printed        \* what is rendered on standard output

commandVars == <<invocation, settings, exit, printed>>
processVars == <<allVars, commandVars>>

\* The text of a setting: not there, acceptable or not.
Texts == {"none", "good", "bad"}
FileStates == {"absent", "unreadable", "malformed", "undecodable", "read"}

Invocation ==
  [command     : {"analyze", "audit", "compare", "report"},
   file        : FileStates,
   unknownKey  : BOOLEAN,
   fileTexts   : [Keys -> Texts],
   environment : [Keys -> Texts]]

ASSUME InvocationsAssumption == Invocations \subseteq Invocation

Verdicts4 == {"Improvement", "Regression", "Mixed", "No change"}

CommandTypeOK ==
  /\ CompareTypeOK
  /\ invocation \in Invocations
  /\ settings \in [Keys -> {"unset", "default", "file", "env"}]
  /\ exit \subseteq 0 .. 6
  /\ printed \in {"nothing", "recommendations", "placeholder"} \union Verdicts4

CommandInit ==
  /\ CompareInit
  /\ invocation \in Invocations
  /\ invocation.command # "compare" => secondSource = "file"
  /\ invocation.command \in {"audit", "report"} =>
       source = "file" /\ dbUrl = "given" /\ ~confirmed
  /\ settings = [k \in Keys |-> "unset"]
  /\ exit = {}
  /\ printed = "nothing"

-----------------------------------------------------------------------------
\* load_settings.

\* Any text is a boolean: what is not a word for true is false.
Boolean == {"json_logs"}

FileText(k) ==
  IF invocation.file = "read" THEN invocation.fileTexts[k] ELSE "none"

\* The layer a setting is taken from: {**file_values, **env_values}.
Layer(k) ==
  CASE invocation.environment[k] # "none" -> "env"
    [] invocation.environment[k] = "none" /\ FileText(k) # "none" -> "file"
    [] OTHER -> "default"

Rejected(k) ==
  \/ Layer(k) = "env" /\ invocation.environment[k] = "bad" /\ k \notin Boolean
  \/ Layer(k) = "file" /\ FileText(k) = "bad"

\* tomllib decodes the file itself: an error of that is no TOMLDecodeError.
LoadOutcome ==
  CASE invocation.file \in {"unreadable", "malformed"} -> "ConfigError"
    [] invocation.file = "undecodable" -> "UnicodeDecodeError"
    [] invocation.file = "read" /\ invocation.unknownKey -> "ConfigError"
    [] invocation.file \in {"absent", "read"} /\ \E k \in Keys : Rejected(k) ->
         "ConfigError"
    [] OTHER -> "loaded"

-----------------------------------------------------------------------------
\* Mutant of ExitCodeFor: the table is searched by the wrong type.
ExitCodeShifted(error) ==
  CASE error = "ValidationError" -> 4
    [] error = "ParsingError" -> 5
    [] error = "DatabaseConnectionError" -> 3
    [] OTHER -> 1

\* _EXIT_CODES.  An OSError, a TokenError, a UnicodeDecodeError or pydantic's
\* error is none of them: the interpreter ends with 1 after their traceback.
ExitCodeFor(error) ==
  CASE error = "ValidationError" -> 3
    [] error = "ParsingError" -> 4
    [] error = "DatabaseConnectionError" -> 5
    [] error = "MutatingStatementError" -> 6
    [] OTHER -> 1

Exit(code, output) ==
  /\ exit' = {code}
  /\ printed' = output
  /\ UNCHANGED <<allVars, invocation, settings>>

Running == exit = {}

Loaded == \A k \in Keys : settings[k] # "unset"

Command(name) == Running /\ Loaded /\ invocation.command = name

\* The callback runs before any command.
Configure ==
  /\ Running
  /\ ~Loaded
  /\ LoadOutcome = "loaded"
  /\ settings' = [k \in Keys |-> Layer(k)]
  /\ UNCHANGED <<allVars, invocation, exit, printed>>

FailConfigure ==
  /\ Running
  /\ ~Loaded
  /\ LoadOutcome # "loaded"
  /\ Exit(ExitCodeFor(LoadOutcome), "nothing")

RunAnalyze ==
  /\ Command("analyze")
  /\ Run
  /\ UNCHANGED <<compareVars, commandVars>>

PrintAnalyze ==
  /\ Command("analyze")
  /\ outcome = "result"
  /\ Exit(0, "recommendations")

RunCompare ==
  /\ Command("compare")
  /\ CompareStep
  /\ UNCHANGED commandVars

\* Mutant of Verdict: only what is resolved is counted.
VerdictOfResolved(c) ==
  IF \E d \in {c.antiPatterns, c.findings, c.indexes} : d.removed # {}
  THEN "Improvement" ELSE "No change"

\* The verdict that _render_comparison_result prints.
Verdict(c) ==
  LET diffs == {c.antiPatterns, c.findings, c.indexes}
      resolved == \E d \in diffs : d.removed # {}
      introduced == \E d \in diffs : d.added # {}
  IN  CASE resolved /\ ~introduced -> "Improvement"
        [] introduced /\ ~resolved -> "Regression"
        [] introduced /\ resolved -> "Mixed"
        [] OTHER -> "No change"

PrintCompare ==
  /\ Command("compare")
  /\ comparison.made
  /\ Exit(0, Verdict(comparison))

\* audit_service returns or raises: the errors of AuditRun.
AuditErrors == {"ValidationError", "DatabaseConnectionError", "TokenError",
                "PydanticError"}

ReturnAudit ==
  /\ Command("audit")
  /\ \/ Exit(0, "recommendations")
     \/ \E error \in AuditErrors : Exit(ExitCodeFor(error), "nothing")

\* NotYetImplementedError is printed, not raised.
ReturnReport ==
  /\ Command("report")
  /\ Exit(0, "placeholder")

\* The service has raised: _run_service turns the error into an exit code.
FailCommand ==
  /\ \E name \in {"analyze", "compare"} : Command(name)
  /\ outcome \in Errors
  /\ Exit(ExitCodeFor(outcome), "nothing")

CommandStep ==
  \/ Configure \/ FailConfigure
  \/ RunAnalyze \/ PrintAnalyze
  \/ RunCompare \/ PrintCompare
  \/ ReturnAudit \/ ReturnReport
  \/ FailCommand

CommandEnvironment == Environment /\ UNCHANGED <<compareVars, commandVars>>

CommandNext == CommandStep \/ CommandEnvironment

CommandSpec ==
  CommandInit /\ [][CommandNext]_processVars /\ WF_processVars(CommandStep)

-----------------------------------------------------------------------------
(* A failing invocation prints nothing of a result, a successful one all   *)
(* of it, and the exit code names the error (cli/main.py:51-66 and 109-    *)
(* 122): of compare, nothing is printed of a first run whose second fails. *)
ExitCodeTells ==
  ~Running =>
     /\ exit = {0} <=> printed # "nothing"
     /\ printed \in Verdicts4 => first.made /\ comparison.made
     /\ exit = {5} /\ invocation.command # "audit" =>
          dbUrl = "given" /\ outcome = "DatabaseConnectionError"
     /\ exit = {4} => \E i \in DOMAIN queries : queries[i].answer = "malformed"

(* What the user got wrong is found before anything is done: after a       *)
(* validation error or a failed configuration no connection has been       *)
(* opened and neither file has been run (config.py:205-215, comparison.py: *)
(* 182-186).                                                               *)
RejectedUntouched ==
  exit = {3} \/ ~Loaded =>
     conn = "none" /\ ~first.made /\ perQuery = <<>>

Issues(workload) ==
  {<<"anti-pattern", k>> : k \in AntiPatternKeys(workload)}
    \union {<<"plan", k>> : k \in FindingKeys(workload)}
    \union {<<"index", k>> : k \in IndexKeys(workload)}

(* Over complete runs the verdict is that on the files: an Improvement has *)
(* fewer issues and no new one, a Regression the reverse, and two files    *)
(* with the same issues are No change (cli/main.py:212-232).               *)
VerdictIsEarned ==
  printed \in Verdicts4 /\ Both /\ comparison.onDatabase =>
     LET before == Issues(first.workload)
         after  == Issues(queries)
     IN  /\ printed = "Improvement" <=> after \subseteq before /\ after # before
         /\ printed = "Regression" <=> before \subseteq after /\ after # before
         /\ printed = "No change" <=> after = before

(* Every invocation ends: neither run waits for ever for a lock the other  *)
(* application keeps (explain_runner.py:165-168), and each outcome of a    *)
(* service has its way out (cli/main.py:109-122).                          *)
Exits == <>(~Running)
=============================================================================
