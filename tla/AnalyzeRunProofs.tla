-------------------------- MODULE AnalyzeRunProofs --------------------------
(***************************************************************************)
(* Theorems about AnalyzeRun, for every set of workloads and every         *)
(* timeout.  The invariant of the loop comes from ExplainLoopProofs; what  *)
(* is added here is how the stages of the command fit around it.           *)
(***************************************************************************)
EXTENDS AnalyzeRun, ExplainLoopProofs, FiniteSetTheorems

-----------------------------------------------------------------------------
\* What the file parser keeps can be handed to explain().
LEMMA KeptExplainable == \A workload \in Workloads : workload \in Seq(Explainable)
<1> DEFINE Kept == {s \in Statement : KeptByFileParser(s)}
<1>1. \A s \in Kept : s \in Explainable
  BY DEF KeptByFileParser, Unreadable, Explainable, Tokenizes
<1>2. \A workload \in Workloads : workload \in Seq(Kept)
  BY WorkloadsAssumption
<1> HIDE DEF Kept
<1> SUFFICES ASSUME NEW workload \in Workloads PROVE workload \in Seq(Explainable)
  OBVIOUS
<1>3. workload \in Seq(Kept)
  BY <1>2
<1>4. \A i \in 1 .. Len(workload) : workload[i] \in Explainable
  BY <1>1, <1>3
<1> QED
  BY <1>3, <1>4

\* Every step keeps the types.
LEMMA StepTyped == TypeOK /\ [Next]_vars => TypeOK'
<1> SUFFICES ASSUME TypeOK, [Next]_vars PROVE TypeOK'
  OBVIOUS
<1> USE DEF TypeOK
<1>1. CASE RejectSource \/ RejectUrl \/ ConnectFails
  BY ZenonT(30), <1>1 DEF RejectSource, RejectUrl, ConnectFails, Raise, Errors,
                          SessionTypeOK, LoopTypeOK, sessionVars, loopVars
<1>2. CASE ParseSource
  BY <1>2, KeptExplainable
  DEF ParseSource, SessionTypeOK, LoopTypeOK, sessionVars
<1>3. CASE StaticOnly
  BY <1>3 DEF StaticOnly, SessionTypeOK, LoopTypeOK, sessionVars, loopVars
<1>4. CASE Connect
  <2>1. LoopTypeOK'
    BY <1>4 DEF Connect, Enter, LoopTypeOK
  <2> QED
    BY <1>4, <2>1, OpenedTyped DEF Connect
<1>5. CASE Explain
  BY <1>5, LoopStepTyped DEF Explain
<1>6. CASE LeaveWithResults \/ LeaveRaising
  <2>1. LoopTypeOK'
    BY <1>6 DEF LeaveWithResults, LeaveRaising, LoopTypeOK, loopVars
  <2>2. SessionTypeOK'
    BY <1>6, ClosedTyped DEF LeaveWithResults, LeaveRaising, ExitConnection
  <2> QED
    BY <1>6, <2>1, <2>2 DEF LeaveWithResults, LeaveRaising, Raise, LoopError, Errors
<1>7. CASE Generate
  <2>1. Len(queries) \in Nat /\ Len(perQuery) \in Nat
    BY DEF LoopTypeOK
  <2>2. result' \in [parsed : Nat, analyzed : Nat, againstDatabase : BOOLEAN]
    BY <1>7, <2>1 DEF Generate, QueriesAnalyzed
  <2> QED
    BY <1>7, <2>2 DEF Generate, SessionTypeOK, LoopTypeOK, sessionVars, loopVars
<1>8. CASE Environment
  <2>1. LoopTypeOK'
    BY <1>8 DEF Environment, LoopTypeOK, loopVars
  <2> QED
    BY <1>8, <2>1, WorldTyped DEF Environment
<1>9. CASE UNCHANGED vars
  BY <1>9 DEF vars, SessionTypeOK, LoopTypeOK, sessionVars, loopVars
<1> QED
  BY <1>1, <1>2, <1>3, <1>4, <1>5, <1>6, <1>7, <1>8, <1>9 DEF Next, Run

(* Every variable keeps its type: every path through analyze_service, with *)
(* its early returns and exceptions, leaves well-formed results            *)
(* (services.py:97-234).                                                   *)
THEOREM Typing == Spec => []TypeOK
<1>1. Init => TypeOK
  BY DEF Init, TypeOK, SessionInit, SessionTypeOK, LoopInit, LoopTypeOK, NoResult
<1> QED
  BY <1>1, StepTyped, PTL DEF Spec

-----------------------------------------------------------------------------
(* The stages of the command.                                              *)

\* The connection is opened once, after the file is parsed, and is closed when
\* the results are put together or the run has ended.
StageInv ==
  /\ pc \in {"start", "parsed"} => Untouched
  /\ pc = "explaining" => conn \in {"open", "dropped"} /\ loop # "idle"
  /\ NothingLeftBehind
  /\ loop = "finished" => position = Len(queries) + 1
  /\ pc = "generating" => loop = "finished" \/ position = 1
  /\ pc = "done" <=> outcome # "pending"

IInv == TypeOK /\ LoopInv /\ StageInv

LEMMA InitIInv == Init => IInv
<1> SUFFICES ASSUME Init PROVE IInv
  OBVIOUS
<1>1. TypeOK
  BY DEF Init, TypeOK, SessionInit, SessionTypeOK, LoopInit, LoopTypeOK, NoResult
<1>2. LoopInv
  BY <1>1, FreshInv DEF Init, SessionInit, LoopInit, TypeOK, LoopTypeOK, Fresh
<1>3. StageInv
  BY DEF Init, SessionInit, LoopInit, StageInv, Untouched, NothingLeftBehind
<1> QED
  BY <1>1, <1>2, <1>3 DEF IInv

LEMMA StepIInv == IInv /\ TypeOK' /\ [Next]_vars => IInv'
<1>0. Fresh' => LoopInv'
  BY FreshInv, PTL
<1> SUFFICES ASSUME IInv, TypeOK', [Next]_vars PROVE LoopInv' /\ StageInv'
  BY DEF IInv
<1>1. CASE RejectSource \/ RejectUrl \/ ConnectFails \/ StaticOnly
  <2>1. UNCHANGED <<sessionVars, loopVars>>
    BY <1>1 DEF RejectSource, RejectUrl, ConnectFails, StaticOnly
  <2>2. LoopInv'
    BY <2>1, OutsideInv DEF IInv, TypeOK, sessionVars
  <2>3. StageInv'
    BY <1>1, <2>1
    DEF IInv, StageInv, RejectSource, RejectUrl, ConnectFails, StaticOnly, Raise,
        Errors, Untouched, NothingLeftBehind, sessionVars, loopVars
  <2> QED
    BY <2>2, <2>3
<1>2. CASE ParseSource
  <2>1. Untouched'
    BY <1>2 DEF ParseSource, IInv, StageInv, Untouched, sessionVars
  <2>2. LoopInv'
    BY <1>0, <2>1 DEF Fresh, Untouched, TypeOK, LoopTypeOK
  <2>3. StageInv'
    BY <1>2, <2>1 DEF ParseSource, IInv, StageInv, Untouched, NothingLeftBehind
  <2> QED
    BY <2>2, <2>3
<1>3. CASE Connect
  <2>1. Untouched
    BY <1>3 DEF Connect, IInv, StageInv
  <2>2. LoopInv'
    BY <1>0, <1>3, <2>1
    DEF Connect, Enter, Opened, Fresh, Untouched, TypeOK, LoopTypeOK
  <2>3. StageInv'
    BY <1>3, <2>1 DEF Connect, Enter, Opened, IInv, StageInv, NothingLeftBehind
  <2> QED
    BY <2>2, <2>3
<1>4. CASE Explain
  <2>1. LoopInv'
    BY <1>4, LoopStepInv DEF Explain, IInv, TypeOK
  <2>2. pc = "explaining" /\ pc' = pc /\ outcome' = outcome
    BY <1>4 DEF Explain
  <2>3. conn' = conn /\ loop' # "idle"
    BY <1>4, <2>2
    DEF Explain, IInv, StageInv, LoopStep, SkipBlocked, SkipRefused, SkipDropped,
        ArmTimeout, Analyze, RaiseMalformed, SkipNoRow, SkipError, SkipTimeout,
        FinishLoop, Skip, Ran, Raised, sessionVars
  <2>4. loop' = "finished" => position' = Len(queries') + 1
    <3>1. loop' = "finished" => FinishLoop
      BY <1>4 DEF Explain, LoopStep, SkipBlocked, SkipRefused, SkipDropped, ArmTimeout,
                  Analyze, RaiseMalformed, SkipNoRow, SkipError, SkipTimeout, Skip
    <3> QED
      BY <3>1 DEF FinishLoop, IInv, LoopInv, LoopControl, TypeOK, LoopTypeOK
  <2> QED
    BY <2>1, <2>2, <2>3, <2>4 DEF IInv, StageInv, NothingLeftBehind
<1>5. CASE LeaveWithResults \/ LeaveRaising
  <2>1. Closed /\ UNCHANGED loopVars
    BY <1>5 DEF LeaveWithResults, LeaveRaising, ExitConnection
  <2>2. LoopInv'
    BY <2>1, OutsideInv, WorldOutside DEF IInv, TypeOK
  <2>3. NothingLeftBehind'
    BY <2>1 DEF Closed, LockLeft, NothingLeftBehind
  <2>4. StageInv'
    BY <1>5, <2>1, <2>3
    DEF LeaveWithResults, LeaveRaising, Raise, LoopError, Errors, IInv, StageInv, loopVars
  <2> QED
    BY <2>2, <2>4
<1>6. CASE Generate
  <2>1. LoopInv'
    BY <1>6, OutsideInv DEF Generate, IInv, TypeOK, sessionVars
  <2>2. StageInv'
    BY <1>6 DEF Generate, IInv, StageInv, NothingLeftBehind, sessionVars, loopVars
  <2> QED
    BY <2>1, <2>2
<1>7. CASE Environment
  <2>1. LoopInv'
    BY <1>7, OutsideInv, WorldOutside DEF Environment, IInv, TypeOK
  <2>2. StageInv'
    BY <1>7
    DEF Environment, World, AppLocks, AppReleases, ServerDrops, LockLeft, IInv,
        StageInv, Untouched, NothingLeftBehind, loopVars
  <2> QED
    BY <2>1, <2>2
<1>8. CASE UNCHANGED vars
  <2>1. LoopInv'
    BY <1>8, OutsideInv DEF vars, IInv, TypeOK, sessionVars
  <2>2. StageInv'
    BY <1>8 DEF vars, IInv, StageInv, Untouched, NothingLeftBehind, sessionVars, loopVars
  <2> QED
    BY <2>1, <2>2
<1> QED
  BY <1>1, <1>2, <1>3, <1>4, <1>5, <1>6, <1>7, <1>8 DEF Next, Run

LEMMA Invariance == Spec => []IInv
<1>1. IInv /\ [Next]_vars /\ TypeOK' => IInv'
  BY StepIInv
<1> QED
  BY InitIInv, <1>1, Typing, PTL DEF Spec

-----------------------------------------------------------------------------
(* What follows for the user.                                              *)

(* No write of a workload is ever committed: confirmed or not, hidden or   *)
(* not, whatever fails on the way (explain_runner.py:99-104).              *)
THEOREM DryRun == Spec => []NothingDurable
<1>1. IInv => NothingDurable
  BY DEF IInv, LoopInv
<1> QED
  BY <1>1, Invariance, PTL

(* Every plan is measured on top of all the earlier writes that were not   *)
(* blocked (services.py:200-228, explain_runner.py:163-174).               *)
THEOREM Measured == Spec => []MeasuredOnEarlierWrites
<1>1. IInv => MeasuredOnEarlierWrites
  BY DEF IInv, LoopInv, MeasuredInv
<1> QED
  BY <1>1, Invariance, PTL

(* No query is dropped silently, reported twice or out of order            *)
(* (services.py:200-228).                                                  *)
THEOREM Accounted == Spec => []EveryQueryAccounted
<1>1. IInv => EveryQueryAccounted
  BY DEF IInv, LoopInv
<1> QED
  BY <1>1, Invariance, PTL

(* Every way out of the with block leaves no open connection, write or     *)
(* lock behind (connection.py:92-100).                                     *)
THEOREM CleanExit == Spec => []NothingLeftBehind
<1>1. IInv => NothingLeftBehind
  BY DEF IInv, StageInv
<1> QED
  BY <1>1, Invariance, PTL

(* Without confirmation a workload that neither calls a volatile function  *)
(* nor selects INTO a table only reads: what can write or lock in a tree   *)
(* is found by the root type or by the node types the code looks for       *)
(* (explain_runner.py:47-87 and 149-155).                                  *)
THEOREM Unconfirmed == Spec => []ReadOnlyUnlessConfirmed
<1>1. IInv => ReadOnlyUnlessConfirmed
  BY UnconfirmedReads DEF IInv, TypeOK
<1> QED
  BY <1>1, Invariance, PTL

-----------------------------------------------------------------------------
(* The counters.                                                           *)

\* The verdicts are counted one by one; where none is a skip the results are
\* those of all queries so far.
CountInv ==
  /\ IsFiniteSet(skipped)
  /\ Len(perQuery) + Cardinality(skipped) = position - 1
  /\ Len(perQuery) = position - 1 =>
       \A k \in 1 .. Len(perQuery) : perQuery[k].query = k

\* A skipped query has not been counted before.
LEMMA SkipCount ==
  ASSUME LoopTypeOK, LoopControl, EveryQueryAccounted, CountInv, NEW why, Skip(why)
  PROVE  CountInv'
<1> DEFINE new == [query |-> position, why |-> why]
<1>1. /\ position \in Nat /\ position >= 1 /\ position' = position + 1
      /\ skipped' = skipped \union {new} /\ perQuery' = perQuery
      /\ Len(perQuery) \in Nat /\ new.query = position
  BY DEF Skip, LoopTypeOK, LoopControl
<1>2. new \notin skipped
  <2>1. position \notin SkippedQueries
    BY <1>1 DEF EveryQueryAccounted
  <2> QED
    BY <1>1, <2>1 DEF SkippedQueries
<1>3. IsFiniteSet(skipped') /\ Cardinality(skipped') = Cardinality(skipped) + 1
  BY <1>1, <1>2, FS_AddElement DEF CountInv
<1>4. Cardinality(skipped) \in Nat
  BY FS_CardinalityType DEF CountInv
<1> QED
  BY <1>1, <1>3, <1>4 DEF CountInv

\* An analyzed query adds its own result at the end.
LEMMA AnalyzeCount ==
  ASSUME LoopTypeOK, LoopControl, CountInv, Analyze
  PROVE  CountInv'
<1> DEFINE new == [query |-> position, over |-> work]
<1>1. /\ position \in Nat /\ position >= 1 /\ position' = position + 1
      /\ perQuery' = Append(perQuery, new) /\ new.query = position
      /\ skipped' = skipped
  BY DEF Analyze, LoopTypeOK, LoopControl
<1>2. /\ Len(perQuery') = Len(perQuery) + 1 /\ Len(perQuery) \in Nat
      /\ perQuery'[Len(perQuery) + 1].query = position
      /\ \A k \in 1 .. Len(perQuery) : perQuery'[k] = perQuery[k]
  BY <1>1 DEF LoopTypeOK
<1>3. ASSUME Len(perQuery') = position' - 1, NEW k \in 1 .. Len(perQuery')
      PROVE  perQuery'[k].query = k
  <2>1. CASE k = Len(perQuery) + 1
    BY <1>1, <1>2, <1>3, <2>1
  <2>2. CASE k \in 1 .. Len(perQuery)
    BY <1>1, <1>2, <1>3, <2>2 DEF CountInv
  <2> QED
    BY <1>2, <2>1, <2>2
<1>4. Cardinality(skipped) \in Nat
  BY FS_CardinalityType DEF CountInv
<1> QED
  BY <1>1, <1>2, <1>3, <1>4 DEF CountInv

LEMMA LoopStepCount ==
  ASSUME LoopTypeOK, LoopControl, EveryQueryAccounted, CountInv, LoopStep
  PROVE  CountInv'
<1>1. CASE Analyze
  BY <1>1, AnalyzeCount
<1>2. CASE \E why : Skip(why)
  BY <1>2, SkipCount
<1>3. CASE ArmTimeout \/ RaiseMalformed \/ FinishLoop
  BY <1>3 DEF ArmTimeout, RaiseMalformed, FinishLoop, CountInv
<1>4. SkipBlocked \/ SkipRefused \/ SkipNoRow \/ SkipError \/ SkipTimeout
        \/ SkipDropped => \E why : Skip(why)
  BY DEF SkipBlocked, SkipRefused, SkipNoRow, SkipError, SkipTimeout, SkipDropped
<1> QED
  BY <1>1, <1>2, <1>3, <1>4 DEF LoopStep

\* What the result is made of: with a database a loop that has finished.
ResultInv ==
  /\ CountInv
  /\ dbUrl = "none" => position = 1 /\ loop = "idle"
  /\ pc \in {"generating", "done"} /\ dbUrl # "none" /\ outcome \in {"pending", "result"} =>
       loop = "finished"
  /\ outcome = "result" =>
       /\ result.parsed = Len(queries)
       /\ result.analyzed = Len(perQuery)
       /\ result.againstDatabase = (dbUrl # "none")

LEMMA InitResult == Init => ResultInv
<1> SUFFICES ASSUME Init PROVE ResultInv
  OBVIOUS
<1>1. IsFiniteSet({}) /\ Cardinality({}) = 0
  BY FS_EmptySet
<1> QED
  BY <1>1 DEF Init, LoopInit, ResultInv, CountInv

LEMMA StepResult == IInv /\ ResultInv /\ [Next]_vars => ResultInv'
<1> SUFFICES ASSUME IInv, ResultInv, [Next]_vars PROVE ResultInv'
  OBVIOUS
<1>1. CASE Explain
  <2>1. CountInv'
    BY <1>1, LoopStepCount DEF Explain, IInv, TypeOK, LoopInv, ResultInv
  <2>2. dbUrl # "none" /\ dbUrl' = dbUrl /\ pc' = "explaining" /\ outcome' = "pending"
    BY <1>1 DEF Explain, IInv, StageInv, ResultInv
  <2> QED
    BY <2>1, <2>2 DEF ResultInv
<1>2. CASE Connect \/ ParseSource
  <2>1. UNCHANGED <<position, perQuery, skipped, dbUrl, outcome>> /\ outcome = "pending"
    BY <1>2 DEF Connect, Enter, ParseSource, IInv, StageInv
  <2>2. pc' \in {"explaining", "parsed"} /\ (dbUrl = "none" => loop' = loop)
    BY <1>2 DEF Connect, ParseSource
  <2> QED
    BY <2>1, <2>2 DEF ResultInv, CountInv
<1>3. CASE RejectSource \/ RejectUrl \/ ConnectFails \/ StaticOnly
             \/ LeaveWithResults \/ LeaveRaising
  <2>1. UNCHANGED <<position, perQuery, skipped, queries, dbUrl, loop>>
    BY <1>3 DEF RejectSource, RejectUrl, ConnectFails, StaticOnly,
                LeaveWithResults, LeaveRaising, Raise, loopVars
  <2>2. CASE RejectSource \/ RejectUrl \/ ConnectFails \/ LeaveRaising
    BY <2>1, <2>2 DEF RejectSource, RejectUrl, ConnectFails, LeaveRaising, Raise, LoopError,
                      ResultInv, CountInv
  <2>3. CASE StaticOnly \/ LeaveWithResults
    BY <2>1, <2>3 DEF StaticOnly, LeaveWithResults, ResultInv, CountInv, IInv, StageInv
  <2> QED
    BY <1>3, <2>2, <2>3
<1>4. CASE Generate
  <2>1. UNCHANGED <<position, perQuery, skipped, queries, dbUrl, loop>>
    BY <1>4 DEF Generate, loopVars
  <2>2. outcome = "pending"
    BY <1>4 DEF Generate, IInv, StageInv
  <2> QED
    BY <1>4, <2>1, <2>2 DEF Generate, QueriesAnalyzed, ResultInv, CountInv
<1>5. CASE Environment \/ UNCHANGED vars
  <2>1. UNCHANGED <<position, perQuery, skipped, queries, dbUrl, loop, pc, outcome, result>>
    BY <1>5 DEF Environment, vars, loopVars
  <2> QED
    BY <2>1 DEF ResultInv, CountInv
<1> QED
  BY <1>1, <1>2, <1>3, <1>4, <1>5 DEF Next, Run

\* With a database every query has its verdict when the result is made; without
\* one the loop was never entered.
LEMMA ResultCounted == IInv /\ ResultInv => ResultAddsUp
<1> SUFFICES ASSUME IInv, ResultInv, outcome = "result"
             PROVE  /\ result.parsed = Len(queries)
                    /\ result.againstDatabase =>
                         result.analyzed + Cardinality(skipped) = result.parsed
                    /\ ~result.againstDatabase => result.analyzed = 0 /\ skipped = {}
  BY DEF ResultAddsUp
<1>1. pc = "done" /\ position \in Nat /\ Len(queries) \in Nat /\ Len(perQuery) \in Nat
  BY DEF IInv, StageInv, TypeOK, LoopTypeOK
<1>2. Cardinality(skipped) \in Nat /\ (Cardinality(skipped) = 0 => skipped = {})
  BY FS_CardinalityType, FS_EmptySet DEF ResultInv, CountInv
<1>3. dbUrl # "none" => position = Len(queries) + 1
  BY <1>1 DEF ResultInv, IInv, StageInv
<1>4. /\ result.parsed = Len(queries) /\ result.analyzed = Len(perQuery)
      /\ Len(perQuery) + Cardinality(skipped) = position - 1
  BY DEF ResultInv, CountInv
<1>5. CASE dbUrl = "none"
  <2>1. position = 1
    BY <1>5 DEF ResultInv
  <2>2. Len(perQuery) = 0 /\ Cardinality(skipped) = 0
    BY <1>1, <1>2, <1>4, <2>1
  <2>3. ~result.againstDatabase
    BY <1>5 DEF ResultInv
  <2> QED
    BY <1>2, <1>4, <2>2, <2>3
<1>6. CASE dbUrl # "none"
  <2>1. result.analyzed + Cardinality(skipped) = result.parsed
    BY <1>1, <1>2, <1>3, <1>4, <1>6
  <2>2. result.againstDatabase
    BY <1>6 DEF ResultInv
  <2> QED
    BY <1>4, <2>1, <2>2
<1> QED
  BY <1>5, <1>6

(* The counters of a result add up: parsed is analyzed plus skipped, and   *)
(* nothing is counted that was never tried (services.py:160-177).          *)
THEOREM AddsUp == Spec => []ResultAddsUp
<1>1. IInv /\ ResultInv /\ [Next]_vars => ResultInv'
  BY StepResult
<1> QED
  BY InitResult, <1>1, Invariance, ResultCounted, PTL DEF Spec

-----------------------------------------------------------------------------
(* The run implements the review its caller sees.                          *)

\* Verdicts depend on the results and the position only.
LEMMA VerdictsStable ==
  ASSUME UNCHANGED <<perQuery, position>> PROVE Verdicts' = Verdicts
BY DEF Verdicts, Analyzed

LEMMA InitReview == Init => Review!Init
<1> SUFFICES ASSUME Init PROVE Review!Init
  OBVIOUS
<1>1. position = 1 /\ queries = <<>> /\ outcome = "pending" /\ pc = "start"
  BY DEF Init, LoopInit
<1>2. Verdicts = <<>>
  BY <1>1, VerdictsSeq
<1> QED
  BY <1>1, <1>2 DEF Review!Init, ReviewStatus, Errors

LEMMA StepReview == IInv /\ [Next]_vars => [Review!Next]_(Review!vars)
<1> SUFFICES ASSUME IInv, [Next]_vars
             PROVE  Review!Next \/ UNCHANGED <<Len(queries), Verdicts, ReviewStatus>>
  BY DEF Review!vars
<1> USE DEF Errors
<1>1. CASE RejectSource \/ RejectUrl \/ ConnectFails \/ LeaveRaising
  <2>1. UNCHANGED <<queries, perQuery, position>>
    BY <1>1 DEF RejectSource, RejectUrl, ConnectFails, LeaveRaising, loopVars
  <2>2. ReviewStatus' = "failed" /\ ReviewStatus \in {"fresh", "reviewing"}
    BY <1>1 DEF RejectSource, RejectUrl, ConnectFails, LeaveRaising, Raise, LoopError,
                ReviewStatus, IInv, StageInv, TypeOK
  <2> QED
    BY <2>1, <2>2, VerdictsStable DEF Review!Next, Review!Fail
<1>2. CASE ParseSource
  <2>1. UNCHANGED <<perQuery, position>> /\ Len(queries') \in Nat
    BY <1>2, KeptExplainable DEF ParseSource
  <2>2. ReviewStatus = "fresh" /\ ReviewStatus' = "reviewing"
    BY <1>2 DEF ParseSource, ReviewStatus, IInv, StageInv
  <2> QED
    BY <2>1, <2>2, VerdictsStable DEF Review!Next, Review!Begin
<1>3. CASE StaticOnly \/ Connect \/ LeaveWithResults
  <2>1. UNCHANGED <<queries, perQuery, position>>
    BY <1>3 DEF StaticOnly, Connect, Enter, LeaveWithResults, loopVars
  <2>2. ReviewStatus' = ReviewStatus
    BY <1>3 DEF StaticOnly, Connect, LeaveWithResults, ReviewStatus, IInv, StageInv
  <2> QED
    BY <2>1, <2>2, VerdictsStable
<1>4. CASE Explain
  <2>1. queries' = queries /\ ReviewStatus' = ReviewStatus
    BY <1>4
    DEF Explain, ReviewStatus, LoopStep, SkipBlocked, SkipRefused, SkipDropped,
        ArmTimeout, Analyze, RaiseMalformed, SkipNoRow, SkipError, SkipTimeout,
        FinishLoop, Skip
  <2>2. ReviewStatus = "reviewing"
    BY <1>4 DEF Explain, ReviewStatus, IInv, StageInv
  <2>3. \/ Verdicts' = Verdicts
        \/ /\ position <= Len(queries)
           /\ \E v \in {"analyzed", "skipped"} : Verdicts' = Append(Verdicts, v)
    BY <1>4, LoopStepVerdicts DEF Explain, IInv, TypeOK, LoopInv
  <2>4. Len(Verdicts) = position - 1
    BY VerdictsSeq DEF IInv, LoopInv, LoopControl
  <2>5. position \in Nat /\ Len(queries) \in Nat
    BY DEF IInv, TypeOK, LoopTypeOK
  <2> QED
    BY <2>1, <2>2, <2>3, <2>4, <2>5 DEF Review!Next, Review!Decide, Review!Verdict
<1>5. CASE Generate
  <2>1. UNCHANGED <<queries, perQuery, position>>
    BY <1>5 DEF Generate, loopVars
  <2>2. ReviewStatus = "reviewing" /\ ReviewStatus' = "reported"
    BY <1>5 DEF Generate, ReviewStatus, IInv, StageInv
  <2>3. Verdicts \in Seq({"analyzed", "skipped"}) /\ Len(Verdicts) = position - 1
    BY VerdictsSeq DEF IInv, LoopInv, LoopControl
  <2>4. Len(Verdicts) = Len(queries) \/ Verdicts = <<>>
    BY <1>5, <2>3 DEF Generate, IInv, StageInv, TypeOK, LoopTypeOK
  <2> QED
    BY <2>1, <2>2, <2>4, VerdictsStable DEF Review!Next, Review!Report
<1>6. CASE Environment \/ UNCHANGED vars
  BY <1>6, VerdictsStable DEF Environment, vars, loopVars, ReviewStatus
<1> QED
  BY <1>1, <1>2, <1>3, <1>4, <1>5, <1>6 DEF Next, Run

(* analyze_service implements QueryReview: one final verdict per query, in *)
(* the order of the workload, and a report only when every query has one   *)
(* or none was tried (services.py:134-177).                                *)
THEOREM Implements == Spec => ReviewSpec
<1>1. IInv /\ [Next]_vars => [Review!Next]_(Review!vars)
  BY StepReview
<1> QED
  BY InitReview, <1>1, Invariance, PTL DEF Spec, ReviewSpec, Review!Spec
=============================================================================
