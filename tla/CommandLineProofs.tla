-------------------------- MODULE CommandLineProofs --------------------------
(***************************************************************************)
(* Theorems about one invocation, for every set of workloads, of settings  *)
(* and of invocations, every timeout and whatever keys the detectors and   *)
(* the advisor produce.  The invariant of one run comes from               *)
(* AnalyzeRunProofs; what is added is how the two runs of compare follow   *)
(* each other and what an exit code stands for.                            *)
(***************************************************************************)
EXTENDS CommandLine, AnalyzeRunProofs

-----------------------------------------------------------------------------
(* One run, of either file.                                                *)

\* What a run tells its caller when it fails, and what it did before.
RunFacts ==
  /\ conn \in {"none", "closed"} => txn = "idle"
  /\ loop = "raised" => position <= Len(queries) /\ Current.answer = "malformed"
  /\ outcome = "ParsingError" => loop = "raised"
  /\ outcome = "DatabaseConnectionError" => dbUrl = "given"
  /\ outcome = "ValidationError" => conn = "none" /\ perQuery = <<>>
  /\ pc \in {"explaining", "generating"} \/ outcome = "result" => dbUrl # "empty"

RunInv == IInv /\ ResultInv /\ RunFacts

LEMMA InitRun == Init => RunInv
<1> SUFFICES ASSUME Init PROVE RunInv
  OBVIOUS
<1>1. RunFacts
  BY DEF Init, SessionInit, LoopInit, RunFacts
<1> QED
  BY <1>1, InitIInv, InitResult DEF RunInv

LEMMA StepFacts == IInv /\ RunFacts /\ [Next]_vars => RunFacts'
<1> SUFFICES ASSUME IInv, RunFacts, [Next]_vars PROVE RunFacts'
  OBVIOUS
<1>1. CASE RejectSource \/ RejectUrl \/ ConnectFails \/ StaticOnly
  BY <1>1 DEF RejectSource, RejectUrl, ConnectFails, StaticOnly, Raise, RunFacts,
              IInv, StageInv, Untouched, Current, sessionVars, loopVars
<1>2. CASE ParseSource
  BY <1>2 DEF ParseSource, RunFacts, IInv, StageInv, Untouched, Current, sessionVars
<1>3. CASE Connect
  BY <1>3 DEF Connect, Opened, Enter, RunFacts, IInv, StageInv, Current
<1>4. CASE Explain
  <2>1. conn \in {"open", "dropped"} /\ conn' = conn
    BY <1>4
    DEF Explain, IInv, StageInv, LoopStep, SkipBlocked, SkipRefused, SkipDropped,
        ArmTimeout, Analyze, RaiseMalformed, SkipNoRow, SkipError, SkipTimeout,
        FinishLoop, Skip, Ran, Raised, sessionVars
  <2>2. outcome = "pending" /\ UNCHANGED <<outcome, pc, dbUrl>> /\ pc = "explaining"
    BY <1>4 DEF Explain, IInv, StageInv
  <2>3. loop' = "raised" => position' <= Len(queries') /\ Current'.answer = "malformed"
    BY <1>4
    DEF Explain, IInv, LoopInv, LoopControl, LoopStep, SkipBlocked, SkipRefused,
        SkipDropped, ArmTimeout, Analyze, RaiseMalformed, SkipNoRow, SkipError,
        SkipTimeout, FinishLoop, Skip, Current
  <2> QED
    BY <2>1, <2>2, <2>3 DEF RunFacts
<1>5. CASE LeaveWithResults \/ LeaveRaising
  BY <1>5 DEF LeaveWithResults, LeaveRaising, LoopError, ExitConnection, Closed, Raise,
              RunFacts,
              IInv, StageInv, Current, loopVars
<1>6. CASE Generate
  BY <1>6 DEF Generate, RunFacts, Current, sessionVars, loopVars
<1>7. CASE Environment
  BY <1>7 DEF Environment, World, AppLocks, AppReleases, ServerDrops, RunFacts,
              Current, loopVars
<1>8. CASE UNCHANGED vars
  BY <1>8 DEF vars, RunFacts, Current, sessionVars, loopVars
<1> QED
  BY <1>1, <1>2, <1>3, <1>4, <1>5, <1>6, <1>7, <1>8 DEF Next, Run

LEMMA StepRun == RunInv /\ [Next]_vars => RunInv'
<1>1. IInv => TypeOK
  BY DEF IInv
<1> QED
  BY <1>1, StepTyped, StepIInv, StepResult, StepFacts DEF RunInv

\* A complete result is one of the whole file.
LEMMA CompleteIsWhole ==
  ASSUME RunInv, outcome = "result", result.analyzed = result.parsed
  PROVE  AnalyzedStatements = queries
<1>1. /\ queries \in Seq(Explainable) /\ Len(perQuery) \in Nat /\ position \in Nat
      /\ perQuery \in Seq([query : Nat, over : SUBSET Nat])
  BY DEF RunInv, IInv, TypeOK, LoopTypeOK
<1>2. pc = "done" /\ Len(perQuery) = Len(queries)
  BY DEF RunInv, IInv, StageInv, ResultInv
<1>3. Len(perQuery) = position - 1
  <2>1. CASE dbUrl = "none"
    <3>1. position = 1 /\ Cardinality(skipped) \in Nat
      BY <2>1, FS_CardinalityType DEF RunInv, ResultInv, CountInv
    <3> QED
      BY <1>1, <3>1 DEF RunInv, ResultInv, CountInv
  <2>2. CASE dbUrl # "none"
    BY <1>1, <1>2, <2>2 DEF RunInv, ResultInv, IInv, StageInv
  <2> QED
    BY <2>1, <2>2
<1>4. \A k \in 1 .. Len(perQuery) : perQuery[k].query = k
  BY <1>3 DEF RunInv, ResultInv, CountInv
<1>5. DOMAIN perQuery = 1 .. Len(queries)
  BY <1>1, <1>2
<1>6. AnalyzedStatements = [k \in 1 .. Len(queries) |-> queries[k]]
  BY <1>2, <1>4, <1>5 DEF AnalyzedStatements
<1> QED
  BY <1>1, <1>6

SummariesOf(list) == [k \in DOMAIN list |-> Summary(list[k])]

LEMMA CollectedSummaries ==
  ASSUME RunInv, outcome = "result"
  PROVE  Collected.complete => Collected.summaries = SummariesOf(Collected.workload)
<1> SUFFICES ASSUME result.analyzed = result.parsed
             PROVE  [k \in DOMAIN perQuery |-> Summary(AnalyzedStatements[k])] =
                      SummariesOf(queries)
  BY DEF Collected
<1>1. AnalyzedStatements = queries
  BY CompleteIsWhole
<1>2. DOMAIN AnalyzedStatements = DOMAIN perQuery
  BY DEF AnalyzedStatements
<1> QED
  BY <1>1, <1>2 DEF SummariesOf

\* Without a database there is no plan to find anything in.
LEMMA CollectedOffline ==
  ASSUME RunInv, outcome = "result"
  PROVE  /\ Collected.onDatabase = (dbUrl # "none")
         /\ ~Collected.onDatabase => Collected.findings = {}
<1>1. Collected.onDatabase = (dbUrl # "none")
  BY DEF RunInv, ResultInv, Collected
<1>2. ASSUME dbUrl = "none"
      PROVE  AnalyzedStatements = <<>>
  <2>1. /\ perQuery \in Seq([query : Nat, over : SUBSET Nat]) /\ Len(perQuery) \in Nat
        /\ position = 1 /\ Cardinality(skipped) \in Nat
    BY <1>2, FS_CardinalityType DEF RunInv, IInv, TypeOK, LoopTypeOK, ResultInv, CountInv
  <2>2. Len(perQuery) = 0
    BY <2>1 DEF RunInv, ResultInv, CountInv
  <2>3. DOMAIN perQuery = {}
    BY <2>1, <2>2
  <2> QED
    BY <2>3 DEF AnalyzedStatements
<1>3. Collected.findings = FindingKeys(AnalyzedStatements)
  BY DEF Collected
<1> QED
  BY <1>1, <1>2, <1>3, KeysAssumption

-----------------------------------------------------------------------------
(* The two runs of compare.                                                *)

\* The second run is only made of arguments that the first has passed, and what
\* the first result says of a complete run it says of the file.
CompareInv ==
  /\ CompareTypeOK
  /\ side = "before" /\ MissingSource => pc = "start" \/ outcome = "ValidationError"
  /\ side # "before" =>
       source # "none" /\ dbUrl # "empty" /\ outcome # "ValidationError"
  /\ side = "compared" => outcome = "result" /\ comparison = Compared(first, Collected)
  /\ first.made =>
       /\ first.workload \in Seq(Explainable)
       /\ first.antiPatterns = AntiPatternKeys(first.workload)
       /\ first.complete => /\ first.findings = FindingKeys(first.workload)
                            /\ first.indexes = IndexKeys(first.workload)
                            /\ first.summaries = SummariesOf(first.workload)
       /\ first.onDatabase = (dbUrl # "none")
       /\ ~first.onDatabase => first.findings = {}

LEMMA InitCompare == CompareInit => RunInv /\ CompareInv
<1> SUFFICES ASSUME CompareInit PROVE CompareInv
  BY InitRun DEF CompareInit
<1>1. TypeOK
  BY InitRun DEF CompareInit, RunInv, IInv
<1>2. ~first.made /\ ~comparison.made /\ side = "before" /\ pc = "start"
  BY DEF CompareInit, Nothing, Init
<1> QED
  BY <1>1, <1>2 DEF CompareInit, Nothing, CompareInv, CompareTypeOK

\* A step of the run in progress, or around it.
LEMMA StepOfSide ==
  ASSUME RunInv, CompareInv, [Next]_vars, UNCHANGED compareVars,
         Run => side # "compared",
         Run /\ side = "before" => secondSource # "none"
  PROVE  RunInv' /\ CompareInv'
<1>1. RunInv'
  BY StepRun
<1>2. CompareTypeOK'
  BY <1>1 DEF RunInv, IInv, CompareInv, CompareTypeOK, compareVars
<1>3. CASE Run
  <2>1. side # "compared" /\ dbUrl' = dbUrl /\ source' = source
    BY <1>3 DEF Run, RejectSource, ParseSource, StaticOnly, RejectUrl, ConnectFails,
                Connect, Explain, LeaveWithResults, LeaveRaising, Generate, Raise
  <2>2. outcome = "pending" /\ (source = "none" => RejectSource \/ pc # "start")
    BY <1>3 DEF Run, RunInv, IInv, StageInv, RejectSource, ParseSource, StaticOnly,
                RejectUrl, ConnectFails, Connect, Explain, LeaveWithResults,
                LeaveRaising, Generate
  <2>3. outcome' = "ValidationError" => source = "none" \/ dbUrl = "empty"
    BY <1>3, <2>2 DEF Run, RejectSource, ParseSource, StaticOnly, RejectUrl,
                      ConnectFails, Connect, Explain, LeaveWithResults, LeaveRaising,
                      LoopError, Generate, Raise
  <2>4. side = "before" /\ source = "none" => outcome' = "ValidationError"
    BY <1>3, <2>2 DEF CompareInv, MissingSource, RejectSource, Raise
  <2> QED
    BY <1>1, <1>2, <1>3, <2>1, <2>2, <2>3, <2>4
    DEF CompareInv, MissingSource, compareVars
<1>4. CASE ~Run
  <2>1. UNCHANGED <<loopVars, source, dbUrl, pc, outcome, result>>
    BY <1>4 DEF Next, Environment, vars
  <2>2. AnalyzedStatements' = AnalyzedStatements
    BY <2>1 DEF AnalyzedStatements, loopVars
  <2>3. Collected' = Collected
    BY <2>1, <2>2 DEF Collected, loopVars
  <2> QED
    BY <1>1, <1>2, <2>1, <2>3 DEF CompareInv, MissingSource, compareVars
<1> QED
  BY <1>3, <1>4

LEMMA StepReject == RunInv /\ CompareInv /\ RejectSources => RunInv' /\ CompareInv'
<1> SUFFICES ASSUME RunInv, CompareInv, RejectSources PROVE RunInv' /\ CompareInv'
  OBVIOUS
<1>1. /\ UNCHANGED <<sessionVars, loopVars, compareVars, source, dbUrl, result>>
      /\ pc = "start" /\ pc' = "done" /\ outcome' = "ValidationError" /\ side = "before"
  BY DEF RejectSources, Raise
<1>2. TypeOK'
  BY <1>1 DEF RunInv, IInv, TypeOK, SessionTypeOK, LoopTypeOK, Errors, sessionVars, loopVars
<1>3. LoopInv'
  BY <1>1, OutsideInv DEF RunInv, IInv, TypeOK, sessionVars
<1>4. Untouched
  BY <1>1 DEF RunInv, IInv, StageInv
<1>5. StageInv'
  BY <1>1, <1>4 DEF RunInv, IInv, StageInv, Untouched, NothingLeftBehind, sessionVars, loopVars
<1>6. ResultInv' /\ RunFacts'
  BY <1>1, <1>4 DEF RunInv, ResultInv, CountInv, RunFacts, Untouched, Current,
                    sessionVars, loopVars
<1>7. CompareInv'
  BY <1>1, <1>2 DEF CompareInv, CompareTypeOK, MissingSource, compareVars
<1> QED
  BY <1>2, <1>3, <1>5, <1>6, <1>7 DEF RunInv, IInv

\* The second run finds the connection as the first found it: its own object is
\* new, and on the database nothing of the first one is left.
LEMMA StepAfter == RunInv /\ CompareInv /\ StartAfter => RunInv' /\ CompareInv'
<1>0. Fresh' => LoopInv'
  BY FreshInv, PTL
<1> SUFFICES ASSUME RunInv, CompareInv, StartAfter PROVE RunInv' /\ CompareInv'
  OBVIOUS
<1>1. /\ pc = "done" /\ conn \in {"none", "closed"} /\ txn = "idle"
      /\ work = {} /\ lock # "run" /\ durable = {} /\ dbUrl # "empty"
      /\ outcome = "result" /\ side = "before"
  BY DEF StartAfter, RunInv, IInv, StageInv, NothingLeftBehind, RunFacts, LoopInv,
         NothingDurable
<1>2. secondSource # "none"
  BY <1>1 DEF CompareInv, MissingSource
<1>3. Untouched' /\ pc' = "start" /\ outcome' = "pending" /\ queries' = <<>>
  BY <1>1 DEF StartAfter, Untouched
<1>4. TypeOK'
  BY <1>1 DEF StartAfter, RunInv, IInv, CompareInv, CompareTypeOK, TypeOK,
              SessionTypeOK, LoopTypeOK, NoResult
<1>5. LoopInv'
  BY <1>0, <1>3, <1>4 DEF Fresh, Untouched, TypeOK, LoopTypeOK
<1>6. StageInv'
  BY <1>3 DEF StageInv, Untouched, NothingLeftBehind
<1>7. ResultInv' /\ RunFacts'
  <2>1. IsFiniteSet({}) /\ Cardinality({}) = 0
    BY FS_EmptySet
  <2> QED
    BY <1>3, <2>1 DEF ResultInv, CountInv, RunFacts, Untouched
<1>8. /\ first'.made /\ ~comparison.made /\ comparison' = comparison
      /\ side' = "after" /\ secondSource' = secondSource
  BY <1>1 DEF StartAfter, Collected, CompareInv, CompareTypeOK
<1>9. /\ first'.antiPatterns = AntiPatternKeys(first'.workload)
      /\ first'.complete => /\ first'.findings = FindingKeys(first'.workload)
                            /\ first'.indexes = IndexKeys(first'.workload)
  BY <1>1, CompleteIsWhole DEF StartAfter, Collected
<1>12. first'.complete => first'.summaries = SummariesOf(first'.workload)
  <2>1. first' = Collected
    BY DEF StartAfter
  <2>2. Collected.complete => Collected.summaries = SummariesOf(Collected.workload)
    BY <1>1, CollectedSummaries
  <2> QED
    BY <2>1, <2>2
<1>13. /\ first'.onDatabase = (dbUrl' # "none")
       /\ ~first'.onDatabase => first'.findings = {}
  <2>1. first' = Collected /\ dbUrl' = dbUrl
    BY DEF StartAfter
  <2> QED
    BY <1>1, <2>1, CollectedOffline
<1>14. first'.workload \in Seq(Explainable)
  BY DEF StartAfter, Collected, RunInv, IInv, TypeOK, LoopTypeOK
<1>10. source' = secondSource /\ dbUrl' = dbUrl
  BY DEF StartAfter
<1>11. CompareTypeOK'
  BY <1>4, <1>8 DEF CompareTypeOK, CompareInv
<1> QED
  BY <1>1, <1>2, <1>3, <1>4, <1>5, <1>6, <1>7, <1>8, <1>9, <1>10, <1>11, <1>12, <1>13,
     <1>14
  DEF RunInv, IInv, CompareInv

LEMMA StepResults == RunInv /\ CompareInv /\ CompareResults => RunInv' /\ CompareInv'
<1> SUFFICES ASSUME RunInv, CompareInv, CompareResults PROVE RunInv' /\ CompareInv'
  OBVIOUS
<1>1. /\ UNCHANGED vars /\ first' = first /\ secondSource' = secondSource
      /\ side = "after" /\ side' = "compared" /\ outcome = "result"
      /\ comparison' = Compared(first, Collected)
  BY DEF CompareResults
<1>2. RunInv'
  BY <1>1, StepRun
<1>3. Collected' = Collected
  BY <1>1 DEF Collected, AnalyzedStatements, vars, loopVars
<1>4. comparison'.made
  BY <1>1 DEF Compared
<1>5. CompareTypeOK'
  BY <1>1, <1>2, <1>4 DEF CompareInv, CompareTypeOK, RunInv, IInv
<1>6. Compared(first, Collected)' = Compared(first, Collected)
  BY <1>1, <1>3
<1> QED
  BY <1>1, <1>2, <1>5, <1>6 DEF CompareInv, vars

-----------------------------------------------------------------------------
(* The invocation.                                                         *)

\* Nothing is run before the settings are loaded, or by a command that runs
\* neither file here.
SetUpInv ==
  /\ invocation.command # "compare" => side = "before" /\ secondSource = "file"
  /\ ~Loaded \/ invocation.command \in {"audit", "report"} =>
       pc = "start" /\ side = "before"

\* What an exit code stands for.
Failed(error) == printed = "nothing" /\ exit = {ExitCodeFor(error)}

ExitInv ==
  /\ Running => printed = "nothing"
  /\ ~Running =>
       \/ exit = {0} /\ printed \in {"recommendations", "placeholder"}
       \/ exit = {0} /\ side = "compared" /\ printed = Verdict(comparison)
       \/ ~Loaded /\ Failed("ConfigError")
       \/ invocation.command = "audit"
            /\ \E e \in AuditErrors : Failed(e)
       \/ outcome \in Errors /\ Failed(outcome)

InvocationInv == RunInv /\ CompareInv /\ SetUpInv /\ ExitInv /\ CommandTypeOK

LEMMA Codes ==
  /\ ExitCodeFor("ConfigError") = 1 /\ ExitCodeFor("UnicodeDecodeError") = 1
  /\ ExitCodeFor("TokenError") = 1 /\ ExitCodeFor("OSError") = 1
  /\ ExitCodeFor("ValidationError") = 3 /\ ExitCodeFor("ParsingError") = 4
  /\ ExitCodeFor("DatabaseConnectionError") = 5 /\ ExitCodeFor("PydanticError") = 1
BY DEF ExitCodeFor

LEMMA VerdictTyped == \A c : Verdict(c) \in Verdicts4
BY DEF Verdict, Verdicts4

LEMMA InitInvocation == CommandInit => InvocationInv
<1> SUFFICES ASSUME CommandInit PROVE InvocationInv
  OBVIOUS
<1>1. RunInv /\ CompareInv
  BY InitCompare DEF CommandInit
<1>2. pc = "start" /\ side = "before"
  BY DEF CommandInit, CompareInit, Init
<1>3. SetUpInv /\ ExitInv /\ CommandTypeOK
  BY <1>1, <1>2 DEF CommandInit, SetUpInv, ExitInv, Running, CommandTypeOK, CompareInv
<1> QED
  BY <1>1, <1>3 DEF InvocationInv

\* An exit leaves the runs alone, and after it they do not go on.
LEMMA StepExit ==
  ASSUME InvocationInv, UNCHANGED allVars, UNCHANGED <<invocation, settings>>,
         NEW code \in 0 .. 6, exit' = {code}, ExitInv',
         printed' \in {"nothing", "recommendations", "placeholder"} \union Verdicts4
  PROVE  InvocationInv'
<1>1. UNCHANGED vars /\ UNCHANGED compareVars
  BY DEF allVars
<1>2. RunInv'
  BY <1>1, StepRun DEF InvocationInv
<1>3. Collected' = Collected
  BY <1>1 DEF Collected, AnalyzedStatements, vars, loopVars
<1>4. CompareTypeOK'
  BY <1>1, <1>2 DEF InvocationInv, CompareInv, CompareTypeOK, RunInv, IInv, compareVars
<1>5. CompareInv'
  BY <1>1, <1>3, <1>4 DEF InvocationInv, CompareInv, MissingSource, vars, compareVars
<1>6. SetUpInv'
  BY <1>1 DEF InvocationInv, SetUpInv, Loaded, vars, compareVars
<1>7. CommandTypeOK'
  BY <1>4 DEF InvocationInv, CommandTypeOK
<1> QED
  BY <1>2, <1>5, <1>6, <1>7 DEF InvocationInv

\* While the command runs, or when only the world moves, nothing is printed.
LEMMA StepInside ==
  ASSUME InvocationInv, RunInv', CompareInv', UNCHANGED commandVars, SetUpInv',
         Running \/ UNCHANGED <<outcome, side, comparison>>
  PROVE  InvocationInv'
<1>1. ExitInv'
  BY DEF InvocationInv, ExitInv, Running, Loaded, Failed, commandVars
<1>2. CommandTypeOK'
  BY DEF InvocationInv, CommandTypeOK, CompareInv, commandVars
<1> QED
  BY <1>1, <1>2 DEF InvocationInv

LEMMA StepInvocation == InvocationInv /\ [CommandNext]_processVars => InvocationInv'
<1> SUFFICES ASSUME InvocationInv, [CommandNext]_processVars PROVE InvocationInv'
  OBVIOUS
<1> USE DEF InvocationInv
<1>1. CASE Configure
  <2>1. UNCHANGED vars /\ UNCHANGED compareVars /\ UNCHANGED <<invocation, exit, printed>>
        /\ Running /\ ~Loaded
    BY <1>1 DEF Configure, allVars
  <2>2. RunInv' /\ CompareInv'
    BY <2>1, StepOfSide DEF SetUpInv, Run, RejectSource, ParseSource, StaticOnly,
       RejectUrl, ConnectFails, Connect, Explain, LeaveWithResults, LeaveRaising,
       Generate, vars, Raise
  <2>3. SetUpInv' /\ ExitInv'
    BY <2>1 DEF SetUpInv, ExitInv, Running, vars, compareVars
  <2>4. settings' \in [Keys -> {"unset", "default", "file", "env"}]
    BY <1>1 DEF Configure, Layer
  <2>5. CommandTypeOK'
    BY <2>1, <2>2, <2>4 DEF CommandTypeOK, CompareInv
  <2> QED
    BY <2>2, <2>3, <2>5
<1>2. CASE FailConfigure
  <2>1. LoadOutcome \in {"ConfigError", "UnicodeDecodeError"}
    BY <1>2 DEF FailConfigure, LoadOutcome
  <2>2. /\ exit' = {1} /\ printed' = "nothing" /\ ~Loaded /\ UNCHANGED allVars
        /\ UNCHANGED <<invocation, settings>>
    BY <1>2, <2>1, Codes DEF FailConfigure, Exit
  <2>3. ExitInv'
    BY <2>2, Codes DEF ExitInv, Running, Failed, Loaded
  <2> QED
    BY <2>2, <2>3, StepExit
<1>3. CASE RunAnalyze
  <2>1. Run /\ UNCHANGED compareVars /\ UNCHANGED commandVars /\ Running /\ Loaded
        /\ invocation.command = "analyze"
    BY <1>3 DEF RunAnalyze, Command
  <2>2. side = "before" /\ secondSource = "file"
    BY <2>1 DEF SetUpInv
  <2>3. RunInv' /\ CompareInv'
    BY <2>1, <2>2, StepOfSide DEF Next
  <2>4. SetUpInv'
    BY <2>1, <2>2 DEF SetUpInv, Loaded, compareVars, commandVars
  <2> QED
    BY <2>1, <2>3, <2>4, StepInside
<1>4. CASE RunCompare
  <2>1. CompareStep /\ UNCHANGED commandVars /\ Running /\ Loaded
        /\ invocation.command = "compare"
    BY <1>4 DEF RunCompare, Command
  <2>2. RunInv' /\ CompareInv'
    <3>1. CASE RunSide
      <4>1. Run /\ UNCHANGED compareVars /\ side # "compared"
            /\ (side = "before" => secondSource # "none")
        BY <3>1 DEF RunSide, MissingSource
      <4> QED
        BY <4>1, StepOfSide DEF Next
    <3> QED
      BY <2>1, <3>1, StepReject, StepAfter, StepResults DEF CompareStep
  <2>3. SetUpInv'
    BY <2>1 DEF SetUpInv, Loaded, commandVars
  <2> QED
    BY <2>1, <2>2, <2>3, StepInside
<1>5. CASE PrintAnalyze \/ ReturnReport
  <2>1. /\ exit' = {0} /\ printed' \in {"recommendations", "placeholder"}
        /\ UNCHANGED allVars /\ UNCHANGED <<invocation, settings>>
    BY <1>5 DEF PrintAnalyze, ReturnReport, Exit
  <2>2. ExitInv'
    BY <2>1 DEF ExitInv, Running
  <2> QED
    BY <2>1, <2>2, StepExit
<1>6. CASE PrintCompare
  <2>1. /\ exit' = {0} /\ printed' = Verdict(comparison) /\ comparison.made
        /\ UNCHANGED allVars /\ UNCHANGED <<invocation, settings>>
    BY <1>6 DEF PrintCompare, Exit
  <2>2. side' = "compared" /\ comparison' = comparison
    BY <2>1 DEF CompareInv, CompareTypeOK, allVars, compareVars
  <2>3. ExitInv'
    BY <2>1, <2>2 DEF ExitInv, Running
  <2> QED
    BY <2>1, <2>3, StepExit, VerdictTyped
<1>7. CASE ReturnAudit
  <2>1. UNCHANGED allVars /\ UNCHANGED <<invocation, settings>>
        /\ invocation.command = "audit"
    BY <1>7 DEF ReturnAudit, Exit, Command
  <2>2. \/ exit' = {0} /\ printed' = "recommendations"
        \/ \E e \in AuditErrors :
              exit' = {ExitCodeFor(e)} /\ printed' = "nothing"
    BY <1>7 DEF ReturnAudit, Exit
  <2>3. ExitInv'
    BY <2>1, <2>2 DEF ExitInv, Running, Failed
  <2>4. \E code \in 0 .. 6 : exit' = {code}
    BY <2>2, Codes DEF AuditErrors
  <2> QED
    BY <2>1, <2>2, <2>3, <2>4, StepExit
<1>8. CASE FailCommand
  <2>1. /\ outcome \in Errors /\ exit' = {ExitCodeFor(outcome)} /\ printed' = "nothing"
        /\ UNCHANGED allVars /\ UNCHANGED <<invocation, settings>>
    BY <1>8 DEF FailCommand, Exit
  <2>2. outcome' = outcome
    BY <2>1 DEF allVars, vars
  <2>3. ExitInv'
    BY <2>1, <2>2 DEF ExitInv, Running, Failed
  <2>4. \E code \in 0 .. 6 : exit' = {code}
    BY <2>1, Codes DEF Errors
  <2> QED
    BY <2>1, <2>3, <2>4, StepExit
<1>9. CASE CommandEnvironment \/ UNCHANGED processVars
  <2>1. [Environment]_vars /\ UNCHANGED compareVars /\ UNCHANGED commandVars
    BY <1>9 DEF CommandEnvironment, processVars, allVars
  <2>2. UNCHANGED <<loopVars, source, dbUrl, pc, outcome, result>>
    BY <2>1 DEF Environment, vars
  <2>3. RunInv'
    BY <2>1, StepRun DEF Next
  <2>4. Collected' = Collected
    BY <2>2 DEF Collected, AnalyzedStatements, loopVars
  <2>5. CompareTypeOK'
    BY <2>1, <2>3 DEF CompareInv, CompareTypeOK, RunInv, IInv, compareVars
  <2>6. CompareInv'
    BY <2>1, <2>2, <2>4, <2>5 DEF CompareInv, MissingSource, compareVars
  <2>7. SetUpInv'
    BY <2>1, <2>2 DEF SetUpInv, Loaded, compareVars, commandVars
  <2>8. UNCHANGED <<outcome, side, comparison>>
    BY <2>1, <2>2 DEF compareVars
  <2> QED
    BY <2>1, <2>3, <2>6, <2>7, <2>8, StepInside
<1> QED
  BY <1>1, <1>2, <1>3, <1>4, <1>5, <1>6, <1>7, <1>8, <1>9 DEF CommandNext, CommandStep

LEMMA InvocationInvariance == CommandSpec => []InvocationInv
BY InitInvocation, StepInvocation, PTL DEF CommandSpec

-----------------------------------------------------------------------------
(* What follows for the user.                                              *)

(* Settings, results, verdict and exit code keep their types on every path *)
(* through the callback, the commands and both runs (cli/main.py:51-122,   *)
(* comparison.py:161-207).                                                 *)
THEOREM CommandTyping == CommandSpec => []CommandTypeOK
<1>1. InvocationInv => CommandTypeOK
  BY DEF InvocationInv
<1> QED
  BY <1>1, InvocationInvariance, PTL

(* The second run of compare is measured on the same data as the first:    *)
(* nothing the first has written is pending or committed and no lock of it *)
(* is held (comparison.py:190-201, connection.py:92-100).                  *)
THEOREM SecondRunClean == CommandSpec => []SecondRunStartsClean
<1>1. InvocationInv => SecondRunStartsClean
  BY DEF InvocationInv, RunInv, IInv, LoopInv, NothingDurable, StageInv, Untouched,
         SecondRunStartsClean
<1> QED
  BY <1>1, InvocationInvariance, PTL

\* What a comparison of complete runs is a comparison of.
LEMMA ComparedFiles ==
  ASSUME InvocationInv, side = "compared"
  PROVE  /\ comparison.antiPatterns =
              Diff(AntiPatternKeys(first.workload), AntiPatternKeys(queries))
         /\ Both => /\ comparison.findings =
                         Diff(FindingKeys(first.workload), FindingKeys(queries))
                    /\ comparison.indexes =
                         Diff(IndexKeys(first.workload), IndexKeys(queries))
<1>1. comparison = Compared(first, Collected) /\ outcome = "result" /\ first.made
  BY DEF InvocationInv, CompareInv, CompareTypeOK
<1>2. /\ comparison.antiPatterns = Diff(first.antiPatterns, Collected.antiPatterns)
      /\ comparison.findings = Diff(first.findings, Collected.findings)
      /\ comparison.indexes = Diff(first.indexes, Collected.indexes)
  BY <1>1 DEF Compared
<1>3. Collected.antiPatterns = AntiPatternKeys(queries)
  BY DEF Collected
<1>4. Both => AnalyzedStatements = queries
  BY <1>1, CompleteIsWhole DEF InvocationInv, Both, Collected
<1>5. Both => /\ Collected.findings = FindingKeys(queries)
              /\ Collected.indexes = IndexKeys(queries)
  BY <1>4 DEF Collected
<1> QED
  BY <1>1, <1>2, <1>3, <1>5 DEF InvocationInv, CompareInv, Both

(* When no query was skipped the diff is that of the two files, and that   *)
(* of the anti-patterns always is; without a database no plan issue shows  *)
(* (comparison.py:134-148).                                                *)
THEOREM FilesDiffed == CommandSpec => []DiffOfTheFiles
<1>1. InvocationInv => DiffOfTheFiles
  <2>1. InvocationInv /\ comparison.made => side = "compared"
    BY DEF InvocationInv, CompareInv, CompareTypeOK
  <2>2. ASSUME InvocationInv, comparison.made, ~comparison.onDatabase
        PROVE  comparison.findings = Diff({}, {})
    <3>1. /\ RunInv /\ CompareInv /\ outcome = "result" /\ first.made
          /\ comparison = Compared(first, Collected)
      BY <2>2 DEF InvocationInv, CompareInv, CompareTypeOK
    <3>2. /\ comparison.onDatabase = (first.onDatabase /\ Collected.onDatabase)
          /\ comparison.findings = Diff(first.findings, Collected.findings)
      BY <3>1 DEF Compared
    <3>3. first.findings = {} /\ Collected.findings = {}
      BY <2>2, <3>1, <3>2, CollectedOffline DEF CompareInv
    <3> QED
      BY <3>2, <3>3
  <2> QED
    BY <2>1, <2>2, ComparedFiles DEF DiffOfTheFiles
<1> QED
  BY <1>1, InvocationInvariance, PTL

\* The metrics of a comparison.
LEMMA MetricsOf ==
  ASSUME NEW a, NEW b
  PROVE  LET c == Compared(a, b)
         IN  /\ c.onDatabase = (a.onDatabase /\ b.onDatabase)
             /\ c.onDatabase => /\ c.time = <<TotalTime(a), TotalTime(b)>>
                               /\ c.cost = <<TotalCost(a), TotalCost(b)>>
             /\ ~c.onDatabase => c.time = <<{}, {}>> /\ c.cost = <<{}, {}>>
BY DEF Compared

\* The totals of a result that has a summary of each statement are those of
\* the file.
LEMMA TotalsOfSummaries ==
  ASSUME NEW r, NEW list \in Seq(Explainable), r.summaries = SummariesOf(list)
  PROVE  TotalCost(r) = CostOf(list) /\ TotalTime(r) = TimeOf(list)
<1>1. /\ DOMAIN r.summaries = DOMAIN list
      /\ \A k \in DOMAIN list : r.summaries[k] = Summary(list[k])
  BY DEF SummariesOf
<1>2. r.summaries = <<>> <=> list = <<>>
  <2>1. DOMAIN <<>> = {}
    OBVIOUS
  <2>2. list = <<>> => SummariesOf(list) = <<>>
    BY <2>1 DEF SummariesOf
  <2>3. SummariesOf(list) = <<>> => list = <<>>
    BY <1>1, <2>1
  <2> QED
    BY <2>2, <2>3
<1>3. [k \in DOMAIN r.summaries |-> r.summaries[k].cost] =
        [i \in DOMAIN list |-> Summary(list[i]).cost]
  BY <1>1
<1>4. [k \in DOMAIN r.summaries |-> CHOOSE t \in r.summaries[k].time : TRUE] =
        [i \in DOMAIN list |-> CHOOSE t \in Summary(list[i]).time : TRUE]
  BY <1>1
<1>5. (\E k \in DOMAIN r.summaries : r.summaries[k].time = {}) <=>
        \E i \in DOMAIN list : Summary(list[i]).time = {}
  BY <1>1
<1>6. TotalCost(r) = CostOf(list)
  BY <1>2, <1>3 DEF TotalCost, CostOf
<1>7. TotalTime(r) = TimeOf(list)
  BY <1>2, <1>4, <1>5 DEF TotalTime, TimeOf
<1> QED
  BY <1>6, <1>7

(* The totals of a side of which no query was skipped are those of its     *)
(* file, and without a database nothing is totalled (comparison.py:100-    *)
(* 160).                                                                   *)
THEOREM TotalsOfFiles == CommandSpec => []TotalsOfTheFiles
<1>1. InvocationInv => TotalsOfTheFiles
  <2> SUFFICES ASSUME InvocationInv, comparison.made
               PROVE  TotalsOfTheFiles
    BY DEF TotalsOfTheFiles
  <2>1. /\ RunInv /\ CompareInv /\ outcome = "result" /\ first.made
        /\ comparison = Compared(first, Collected)
    BY DEF InvocationInv, CompareInv, CompareTypeOK
  <2>2. /\ comparison.onDatabase =>
             /\ comparison.time = <<TotalTime(first), TotalTime(Collected)>>
             /\ comparison.cost = <<TotalCost(first), TotalCost(Collected)>>
        /\ ~comparison.onDatabase =>
             comparison.time = <<{}, {}>> /\ comparison.cost = <<{}, {}>>
    BY <2>1, MetricsOf
  <2>3. ASSUME first.complete
        PROVE  /\ TotalCost(first) = CostOf(first.workload)
               /\ TotalTime(first) = TimeOf(first.workload)
    BY <2>1, <2>3, TotalsOfSummaries DEF CompareInv
  <2>4. ASSUME Collected.complete
        PROVE  /\ TotalCost(Collected) = CostOf(queries)
               /\ TotalTime(Collected) = TimeOf(queries)
    <3>1. Collected.summaries = SummariesOf(Collected.workload)
      BY <2>1, <2>4, CollectedSummaries
    <3>2. Collected.workload = queries
      BY DEF Collected
    <3>3. queries \in Seq(Explainable)
      BY <2>1 DEF RunInv, IInv, TypeOK, LoopTypeOK
    <3> HIDE DEF Collected
    <3> QED
      BY <3>1, <3>2, <3>3, TotalsOfSummaries
  <2> QED
    BY <2>2, <2>3, <2>4 DEF TotalsOfTheFiles
<1> QED
  BY <1>1, InvocationInvariance, PTL

\* The three kinds of issues do not mix.
LEMMA IssuesWithin ==
  ASSUME NEW a, NEW b
  PROVE  Issues(a) \subseteq Issues(b) <=>
           /\ AntiPatternKeys(a) \subseteq AntiPatternKeys(b)
           /\ FindingKeys(a) \subseteq FindingKeys(b)
           /\ IndexKeys(a) \subseteq IndexKeys(b)
<1>1. \A k, w : /\ <<"anti-pattern", k>> \in Issues(w) <=> k \in AntiPatternKeys(w)
                /\ <<"plan", k>> \in Issues(w) <=> k \in FindingKeys(w)
                /\ <<"index", k>> \in Issues(w) <=> k \in IndexKeys(w)
  BY DEF Issues
<1>2. \A w : \A i \in Issues(w) :
        \E k : i \in {<<"anti-pattern", k>>, <<"plan", k>>, <<"index", k>>}
  BY DEF Issues
<1>3. ASSUME Issues(a) \subseteq Issues(b)
      PROVE  /\ AntiPatternKeys(a) \subseteq AntiPatternKeys(b)
             /\ FindingKeys(a) \subseteq FindingKeys(b)
             /\ IndexKeys(a) \subseteq IndexKeys(b)
  BY <1>1, <1>3
<1>4. ASSUME /\ AntiPatternKeys(a) \subseteq AntiPatternKeys(b)
             /\ FindingKeys(a) \subseteq FindingKeys(b)
             /\ IndexKeys(a) \subseteq IndexKeys(b),
             NEW i \in Issues(a)
      PROVE  i \in Issues(b)
  <2>1. PICK k : i \in {<<"anti-pattern", k>>, <<"plan", k>>, <<"index", k>>}
    BY <1>2
  <2> QED
    BY <1>1, <1>4, <2>1
<1> QED
  BY <1>3, <1>4

(* Over complete runs the verdict is that on the files (cli/main.py:212-   *)
(* 232): Improvement and Regression mean what they say.                    *)
THEOREM VerdictEarned == CommandSpec => []VerdictIsEarned
<1>1. InvocationInv => VerdictIsEarned
  <2> SUFFICES ASSUME InvocationInv, printed \in Verdicts4, Both,
                      NEW before, NEW after,
                      before = Issues(first.workload), after = Issues(queries)
               PROVE  /\ printed = "Improvement" <=> after \subseteq before /\ after # before
                      /\ printed = "Regression" <=> before \subseteq after /\ after # before
                      /\ printed = "No change" <=> after = before
    BY DEF VerdictIsEarned
  <2>1. side = "compared" /\ printed = Verdict(comparison)
    BY DEF InvocationInv, ExitInv, Failed, Verdicts4
  <2> DEFINE diffs == {comparison.antiPatterns, comparison.findings, comparison.indexes}
             resolved == \E d \in diffs : d.removed # {}
             introduced == \E d \in diffs : d.added # {}
  <2>2. resolved <=> ~(before \subseteq after)
    BY <2>1, ComparedFiles, IssuesWithin DEF Diff
  <2>3. introduced <=> ~(after \subseteq before)
    BY <2>1, ComparedFiles, IssuesWithin DEF Diff
  <2>4. printed = CASE resolved /\ ~introduced -> "Improvement"
                    [] introduced /\ ~resolved -> "Regression"
                    [] introduced /\ resolved -> "Mixed"
                    [] OTHER -> "No change"
    BY <2>1 DEF Verdict
  <2> HIDE DEF resolved, introduced
  <2> QED
    BY <2>2, <2>3, <2>4
<1> QED
  BY <1>1, InvocationInvariance, PTL

(* After a usage error or a failed configuration nothing has been opened   *)
(* and nothing run, in compare not even the first file (config.py:205-215, *)
(* comparison.py:182-186).                                                 *)
THEOREM RejectedFirst == CommandSpec => []RejectedUntouched
<1>1. InvocationInv => RejectedUntouched
  <2> SUFFICES ASSUME InvocationInv, exit = {3} \/ ~Loaded
               PROVE  conn = "none" /\ ~first.made /\ perQuery = <<>>
    BY DEF RejectedUntouched
  <2>1. pc = "start" => conn = "none" /\ perQuery = <<>>
    BY DEF InvocationInv, RunInv, IInv, StageInv, Untouched
  <2>2. side = "before" => ~first.made
    BY DEF InvocationInv, CompareInv, CompareTypeOK
  <2>3. CASE ~Loaded \/ invocation.command = "audit"
    BY <2>1, <2>2, <2>3 DEF InvocationInv, SetUpInv
  <2>4. CASE Loaded /\ invocation.command # "audit"
    <3>1. outcome = "ValidationError"
      BY <2>4, Codes DEF InvocationInv, ExitInv, Running, Failed, Errors
    <3>2. conn = "none" /\ perQuery = <<>>
      BY <3>1 DEF InvocationInv, RunInv, RunFacts
    <3>3. side = "before"
      BY <3>1 DEF InvocationInv, CompareInv
    <3> QED
      BY <2>2, <3>2, <3>3
  <2> QED
    BY <2>3, <2>4
<1> QED
  BY <1>1, InvocationInvariance, PTL

(* A failing invocation prints nothing of a result, and its code names the *)
(* error that was raised (cli/main.py:51-66 and 109-122).                  *)
THEOREM ExitTells == CommandSpec => []ExitCodeTells
<1>1. InvocationInv => ExitCodeTells
  <2> SUFFICES ASSUME InvocationInv, ~Running PROVE
        /\ exit = {0} <=> printed # "nothing"
        /\ printed \in Verdicts4 => first.made /\ comparison.made
        /\ exit = {5} /\ invocation.command # "audit" =>
             dbUrl = "given" /\ outcome = "DatabaseConnectionError"
        /\ exit = {4} => \E i \in DOMAIN queries : queries[i].answer = "malformed"
    BY DEF ExitCodeTells
  <2>1. exit = {0} <=> printed # "nothing"
    <3>1. \A error : Failed(error) => printed = "nothing" /\ exit # {0}
      BY DEF Failed, ExitCodeFor
    <3>2. Verdict(comparison) # "nothing"
      BY VerdictTyped DEF Verdicts4
    <3> QED
      BY <3>1, <3>2 DEF InvocationInv, ExitInv
  <2>2. printed \in Verdicts4 => first.made /\ comparison.made
    <3>1. printed \in Verdicts4 => side = "compared"
      BY DEF InvocationInv, ExitInv, Failed, Verdicts4
    <3>2. side = "compared" => first.made /\ comparison.made
      BY DEF InvocationInv, CompareInv, CompareTypeOK
    <3> QED
      BY <3>1, <3>2
  <2>3. exit = {5} /\ invocation.command # "audit" => outcome = "DatabaseConnectionError"
    BY Codes DEF InvocationInv, ExitInv, Failed, Errors
  <2>4. exit = {4} => outcome = "ParsingError"
    BY Codes DEF InvocationInv, ExitInv, Failed, Errors, AuditErrors
  <2>5. outcome = "ParsingError" => position \in DOMAIN queries /\ Current.answer = "malformed"
    BY DEF InvocationInv, RunInv, RunFacts, IInv, LoopInv, LoopControl, TypeOK, LoopTypeOK
  <2> QED
    BY <2>1, <2>2, <2>3, <2>4, <2>5 DEF InvocationInv, RunInv, RunFacts, Current
<1> QED
  BY <1>1, InvocationInvariance, PTL
=============================================================================
