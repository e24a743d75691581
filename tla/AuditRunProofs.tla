--------------------------- MODULE AuditRunProofs ---------------------------
(***************************************************************************)
(* Theorems about AuditRun, for every set of workloads and every timeout.  *)
(* The invariant of the loop comes from ExplainLoopProofs; what is added   *)
(* here is how the sections of the audit fit around it.                    *)
(***************************************************************************)
EXTENDS AuditRun, ExplainLoopProofs

-----------------------------------------------------------------------------
(* Types.                                                                  *)

\* Moving on, completing or skipping a section, and raising.
LEMMA GoToTyped ==
  ASSUME AuditTypeOK, NEW stage \in Stages, GoTo(stage) PROVE AuditTypeOK'
BY DEF AuditTypeOK, GoTo

LEMMA CompleteTyped ==
  ASSUME AuditTypeOK, NEW stage \in Stages,
         NEW section \in {"workload", "duplicate_indexes", "unused_indexes"},
         Complete(section, stage)
  PROVE  AuditTypeOK'
BY DEF AuditTypeOK, Complete

LEMMA SkipSectionTyped ==
  ASSUME AuditTypeOK, NEW stage \in Stages, NEW why \in SkipReasons,
         NEW section \in {"workload", "index_catalog", "unused_indexes"},
         SkipSection(section, why, stage)
  PROVE  AuditTypeOK'
BY DEF AuditTypeOK, SkipSection

LEMMA RaiseTyped ==
  ASSUME AuditTypeOK, NEW error \in Errors, Raise(error) PROVE AuditTypeOK'
BY DEF AuditTypeOK, Raise, Stages

\* A read, whatever comes of it, leaves a well-formed session.
LEMMA ReadTyped ==
  ASSUME SessionTypeOK, ReadSucceeds \/ ReadRaises PROVE SessionTypeOK'
<1>1. CASE ReadSucceeds
  BY <1>1, RanTyped DEF ReadSucceeds
<1>2. CASE ReadRaises
  BY <1>2, RaisedTyped DEF ReadRaises, SessionTypeOK, sessionVars
<1> QED
  BY <1>1, <1>2

LEMMA ReadErrorTyped == ReadError \in SkipReasons
BY DEF ReadError, SkipReasons

\* A step that leaves the loop alone leaves it well-formed.
LEMMA LoopStable == ASSUME LoopTypeOK, UNCHANGED loopVars PROVE LoopTypeOK'
BY DEF LoopTypeOK, loopVars

LEMMA EnterTyped ==
  ASSUME LoopTypeOK, NEW workload \in Seq(Explainable), Enter(workload)
  PROVE  LoopTypeOK'
BY DEF LoopTypeOK, Enter

\* What describe_sql has let through can be handed to explain().
LEMMA DescribableExplainable ==
  \A workload \in Workloads : Describable(workload) => workload \in Seq(Explainable)
<1> SUFFICES ASSUME NEW workload \in Seq(Statement), Describable(workload)
             PROVE  workload \in Seq(Explainable)
  BY WorkloadsAssumption
<1>1. \A i \in 1 .. Len(workload) : workload[i] \in Explainable
  BY DEF Describable, Explainable
<1> QED
  BY <1>1

(* Every variable keeps its type: every section, completed or skipped at   *)
(* whichever read, leaves well-formed results (audit_service.py:94-169).   *)
THEOREM Typing == Spec => []TypeOK
<1>1. Init => TypeOK
  BY DEF Init, TypeOK, AuditTypeOK, SessionInit, SessionTypeOK, LoopInit, LoopTypeOK,
         Reads, Stages
<1>2. TypeOK /\ [Next]_vars => TypeOK'
  <2> SUFFICES ASSUME TypeOK, [Next]_vars PROVE TypeOK'
    OBVIOUS
  <2> USE DEF TypeOK
  <2>1. CASE RejectUrl \/ ConnectFails
    BY <2>1, RaiseTyped, LoopStable
    DEF RejectUrl, ConnectFails, Errors, SessionTypeOK, sessionVars
  <2>2. CASE Connect
    BY <2>2, OpenedTyped, LoopStable, GoToTyped DEF Connect, Reads, Stages
  <2>3. CASE Available
    <3>1. AuditTypeOK'
      BY <2>3, GoToTyped, SkipSectionTyped DEF Available, Reads, Stages, SkipReasons
    <3> QED
      BY <2>3, <3>1, ReadTyped, LoopStable DEF Available
  <2>4. CASE Recheck
    <3>1. <<>> \in Seq(Explainable)
      OBVIOUS
    <3>2. LoopTypeOK'
      BY <2>4, <3>1, LoopStable, EnterTyped DEF Recheck
    <3>3. AuditTypeOK'
      BY <2>4, GoToTyped DEF Recheck, Reads, Stages
    <3> QED
      BY <2>4, <3>2, <3>3, ReadTyped DEF Recheck
  <2>5. CASE TopQueries
    <3>1. LoopTypeOK'
      BY <2>5, DescribableExplainable, EnterTyped DEF TopQueries
    <3>2. AuditTypeOK'
      BY <2>5, GoToTyped DEF TopQueries, Stages
    <3> QED
      BY <2>5, <3>1, <3>2, ReadTyped DEF TopQueries
  <2>6. CASE DescribeRaises
    BY <2>6, ReadTyped, LoopStable, GoToTyped DEF DescribeRaises, Stages
  <2>7. CASE WorkloadReadRaises \/ CatalogReadRaises \/ UsageReadRaises
    <3>1. ReadRaises /\ UNCHANGED loopVars
      BY <2>7 DEF WorkloadReadRaises, CatalogReadRaises, UsageReadRaises, ReadRaises
    <3>2. AuditTypeOK'
      BY <2>7, ReadErrorTyped, SkipSectionTyped
      DEF WorkloadReadRaises, CatalogReadRaises, UsageReadRaises, Reads, Stages
    <3> QED
      BY <3>1, <3>2, ReadTyped, LoopStable
  <2>8. CASE Explain
    BY <2>8, LoopStepTyped DEF Explain, AuditTypeOK, auditVars
  <2>9. CASE CompleteWorkload \/ SkipWorkload \/ InvalidPlan
    <3>1. AuditTypeOK'
      BY <2>9, CompleteTyped, SkipSectionTyped, GoToTyped
      DEF CompleteWorkload, SkipWorkload, InvalidPlan, Reads, Stages, SkipReasons
    <3> QED
      BY <2>9, <3>1, LoopStable
      DEF CompleteWorkload, SkipWorkload, InvalidPlan, SessionTypeOK, sessionVars
  <2>10. CASE DuplicateIndexes \/ UnusedIndexes
    <3>1. AuditTypeOK'
      BY <2>10, CompleteTyped DEF DuplicateIndexes, UnusedIndexes, Reads, Stages
    <3> QED
      BY <2>10, <3>1, ReadTyped, LoopStable DEF DuplicateIndexes, UnusedIndexes
  <2>11. CASE Leave \/ LeaveRaising
    <3>1. AuditTypeOK'
      BY <2>11, GoToTyped, RaiseTyped DEF Leave, LeaveRaising, Unhandled, Errors, Stages
    <3> QED
      BY <2>11, <3>1, ClosedTyped, LoopStable DEF Leave, LeaveRaising, ExitConnection
  <2>12. CASE Generate
    <3>1. AuditTypeOK'
      BY <2>12 DEF Generate, AuditTypeOK, Stages
    <3> QED
      BY <2>12, <3>1, LoopStable DEF Generate, SessionTypeOK, sessionVars
  <2>13. CASE World /\ UNCHANGED <<loopVars, auditVars>>
    BY <2>13, WorldTyped, LoopStable DEF AuditTypeOK, auditVars
  <2>14. CASE DropExtension \/ UNCHANGED vars
    <3>1. UNCHANGED <<sessionVars, loopVars>> /\ AuditTypeOK'
      BY <2>14 DEF DropExtension, vars, AuditTypeOK, auditVars
    <3> QED
      BY <3>1, LoopStable DEF SessionTypeOK, sessionVars
  <2> QED
    BY <2>1, <2>2, <2>3, <2>4, <2>5, <2>6, <2>7, <2>8, <2>9, <2>10, <2>11, <2>12,
       <2>13, <2>14 DEF Next, Run, Environment
<1> QED
  BY <1>1, <1>2, PTL DEF Spec

-----------------------------------------------------------------------------
(* The stages of the audit.                                                *)

\* No query was tried and nothing is held when a workload is entered.
Unstarted ==
  /\ position = 1 /\ perQuery = <<>> /\ skipped = {} /\ loop = "idle"
  /\ work = {} /\ durable = {} /\ lock # "run"

BeforeWorkload == {"start", "available", "recheck", "topQueries"}

StageInv ==
  /\ pc \in BeforeWorkload => Unstarted
  /\ pc = "start" => conn = "none"
  /\ loop = "armed" => pc = "explaining"
  /\ loop = "finished" => position = Len(queries) + 1
  /\ NothingLeftBehind

\* The sections that are through when the run is at a stage.
WorkloadThrough  == pc \notin BeforeWorkload \union {"explaining", "failing"}
DuplicateThrough == WorkloadThrough /\ pc # "catalog"
UnusedThrough    == DuplicateThrough /\ pc # "usage"

\* The account of the sections, section by section.
SectionInv ==
  outcome \in {"pending", "result"} =>
     /\ WorkloadThrough =>
          ("workload" \in completed <=> "workload" \notin SkippedNames)
     /\ ~WorkloadThrough => completed = {} /\ sectionsSkipped = {}
     /\ DuplicateThrough =>
          ("duplicate_indexes" \in completed <=> "index_catalog" \notin SkippedNames)
     /\ ~DuplicateThrough =>
          "duplicate_indexes" \notin completed /\ "index_catalog" \notin SkippedNames
     /\ UnusedThrough =>
          ("unused_indexes" \in completed <=>
             SkippedNames \intersect {"index_catalog", "unused_indexes"} = {})
     /\ ~UnusedThrough =>
          "unused_indexes" \notin completed /\ "unused_indexes" \notin SkippedNames
     /\ pc = "usage" => "index_catalog" \notin SkippedNames
     /\ \A s, t \in sectionsSkipped : s.name = t.name => s = t

\* Once the workload is reported as completed the loop has been through it.
WholeInv == "workload" \in completed => position = Len(queries) + 1

OutcomeInv ==
  /\ pc = "done" <=> outcome # "pending"
  /\ outcome \notin {"pending", "result"} => completed = {}

IInv == TypeOK /\ LoopInv /\ StageInv /\ SectionInv /\ WholeInv /\ OutcomeInv

LEMMA InitIInv == Init => IInv
<1> SUFFICES ASSUME Init PROVE IInv
  OBVIOUS
<1>1. TypeOK
  BY DEF Init, TypeOK, AuditTypeOK, SessionInit, SessionTypeOK, LoopInit, LoopTypeOK,
         Reads, Stages
<1>2. LoopInv
  BY <1>1, FreshInv DEF Init, SessionInit, LoopInit, TypeOK, LoopTypeOK, Fresh
<1>3. StageInv /\ SectionInv /\ WholeInv /\ OutcomeInv
  BY DEF Init, SessionInit, LoopInit, StageInv, Unstarted, NothingLeftBehind,
         BeforeWorkload, SectionInv, WholeInv, OutcomeInv, WorkloadThrough,
         DuplicateThrough, UnusedThrough, SkippedNames
<1> QED
  BY <1>1, <1>2, <1>3 DEF IInv

\* What a read of the command itself does, succeeding or raising, is a step
\* outside the loop.
LEMMA ReadOutside ==
  ASSUME ReadSucceeds \/ ReadRaises
  PROVE  /\ durable' = durable
         /\ work' = work \/ work' = {}
         /\ lock' = "run" => lock = "run"
         /\ conn' = conn
         /\ conn' = "open" /\ txn' # "failed" => txn # "failed" /\ work' = work
BY DEF ReadSucceeds, ReadRaises, ReadFails, Refuses, Ran, Raised, LockLeft, Autocommit,
       sessionVars

\* The steps between the stages that preserve the invariant of the loop.
LEMMA StepLoopInv == IInv /\ TypeOK' /\ [Next]_vars => LoopInv'
<1>0. Fresh' => LoopInv'
  BY FreshInv, PTL
<1> SUFFICES ASSUME IInv, TypeOK', [Next]_vars PROVE LoopInv'
  OBVIOUS
<1>1. LoopTypeOK /\ LoopTypeOK' /\ LoopInv /\ StageInv /\ SessionTypeOK
  BY DEF IInv, TypeOK
<1>2. CASE UNCHANGED <<sessionVars, loopVars>>
  BY <1>1, <1>2, OutsideInv DEF sessionVars
<1>3. CASE Connect
  BY <1>0, <1>1, <1>3
  DEF Connect, Opened, StageInv, BeforeWorkload, Unstarted, Fresh, LoopTypeOK, loopVars
<1>4. CASE Recheck \/ TopQueries
  <2>1. CASE UNCHANGED loopVars
    BY <1>1, <1>4, <2>1, ReadOutside, OutsideInv
    DEF Recheck, TopQueries, StageInv, BeforeWorkload, Unstarted
  <2>2. CASE \E workload : Enter(workload)
    BY <1>0, <1>1, <1>4, <2>2, ReadOutside
    DEF Recheck, TopQueries, Enter, StageInv, BeforeWorkload, Unstarted, Fresh,
        LoopTypeOK
  <2> QED
    BY <1>4, <2>1, <2>2 DEF Recheck, TopQueries
<1>5. CASE Available \/ DescribeRaises \/ DuplicateIndexes \/ UnusedIndexes
             \/ WorkloadReadRaises \/ CatalogReadRaises \/ UsageReadRaises
  <2>1. (ReadSucceeds \/ ReadRaises) /\ UNCHANGED loopVars
    BY <1>5 DEF Available, DescribeRaises, DuplicateIndexes, UnusedIndexes,
                WorkloadReadRaises, CatalogReadRaises, UsageReadRaises, ReadRaises
  <2>2. loop # "armed"
    BY <1>1, <1>5 DEF StageInv, Available, DescribeRaises, DuplicateIndexes,
         UnusedIndexes, WorkloadReadRaises, CatalogReadRaises, UsageReadRaises
  <2> QED
    BY <1>1, <2>1, <2>2, ReadOutside, OutsideInv
<1>6. CASE Explain
  BY <1>1, <1>6, LoopStepInv DEF Explain
<1>7. CASE Leave \/ LeaveRaising
  <2>1. Closed /\ UNCHANGED loopVars
    BY <1>7 DEF Leave, LeaveRaising, ExitConnection
  <2> QED
    BY <1>1, <2>1, OutsideInv, WorldOutside
<1>8. CASE World /\ UNCHANGED <<loopVars, auditVars>>
  BY <1>1, <1>8, OutsideInv, WorldOutside
<1>9. RejectUrl \/ ConnectFails \/ CompleteWorkload \/ SkipWorkload \/ InvalidPlan
        \/ Generate \/ DropExtension \/ UNCHANGED vars =>
          UNCHANGED <<sessionVars, loopVars>>
  BY DEF RejectUrl, ConnectFails, CompleteWorkload, SkipWorkload, InvalidPlan, Generate,
         DropExtension, vars
<1> QED
  BY <1>2, <1>3, <1>4, <1>5, <1>6, <1>7, <1>8, <1>9 DEF Next, Run, Environment

\* What the steps between the stages do not change.
LEMMA StepStageInv == IInv /\ TypeOK' /\ [Next]_vars => StageInv'
<1> SUFFICES ASSUME IInv, TypeOK', [Next]_vars PROVE StageInv'
  OBVIOUS
<1>1. StageInv /\ LoopTypeOK /\ SessionTypeOK /\ LoopControl /\ NothingDurable
  BY DEF IInv, TypeOK, LoopInv
<1> USE DEF StageInv, NothingLeftBehind, BeforeWorkload, Unstarted
<1>2. CASE RejectUrl \/ ConnectFails \/ Generate
  BY <1>1, <1>2 DEF RejectUrl, ConnectFails, Generate, Raise, sessionVars, loopVars
<1>3. CASE Connect
  BY <1>1, <1>3 DEF Connect, Opened, GoTo, loopVars
<1>4. CASE Available \/ DuplicateIndexes \/ UnusedIndexes
             \/ WorkloadReadRaises \/ CatalogReadRaises \/ UsageReadRaises
             \/ DescribeRaises
  <2>1. (ReadSucceeds \/ ReadRaises) /\ UNCHANGED loopVars
    BY <1>4 DEF Available, DescribeRaises, DuplicateIndexes, UnusedIndexes,
                WorkloadReadRaises, CatalogReadRaises, UsageReadRaises, ReadRaises
  <2>2. /\ pc \in {"available", "topQueries", "recheck", "catalog", "usage"}
        /\ pc' \in {"recheck", "catalog", "usage", "closing", "failing"}
        /\ pc' = "recheck" => pc = "available"
    BY <1>4 DEF Available, DescribeRaises, DuplicateIndexes, UnusedIndexes,
                WorkloadReadRaises, CatalogReadRaises, UsageReadRaises, GoTo, Complete,
                SkipSection
  <2> QED
    BY <1>1, <2>1, <2>2, ReadOutside DEF NothingDurable, loopVars
<1>5. CASE Recheck \/ TopQueries
  <2>1. pc' \in {"topQueries", "explaining"} /\ pc \in {"recheck", "topQueries"}
    BY <1>5 DEF Recheck, TopQueries, GoTo
  <2>2. pc' = "topQueries" => UNCHANGED loopVars
    BY <1>5 DEF Recheck, TopQueries, GoTo, Enter
  <2>3. loop' \in {"idle", "next"}
    BY <1>1, <1>5 DEF Recheck, TopQueries, GoTo, Enter, loopVars
  <2>4. ReadSucceeds
    BY <1>5 DEF Recheck, TopQueries
  <2> QED
    BY <1>1, <2>1, <2>2, <2>3, <2>4, ReadOutside DEF loopVars
<1>6. CASE Explain
  <2>1. pc' = "explaining"
    BY <1>6 DEF Explain, auditVars
  <2>2. loop' = "finished" => position' = Len(queries') + 1
    BY <1>1, <1>6
    DEF Explain, LoopControl, LoopTypeOK, LoopStep, SkipBlocked, SkipRefused, SkipDropped,
        ArmTimeout, Analyze, RaiseMalformed, SkipNoRow, SkipError, SkipTimeout,
        FinishLoop, Skip
  <2> QED
    BY <2>1, <2>2
<1>7. CASE CompleteWorkload \/ SkipWorkload \/ InvalidPlan
  BY <1>1, <1>7
  DEF CompleteWorkload, SkipWorkload, InvalidPlan, Complete, SkipSection, GoTo,
      sessionVars, loopVars
<1>8. CASE Leave \/ LeaveRaising
  BY <1>1, <1>8
  DEF Leave, LeaveRaising, GoTo, Raise, ExitConnection, Closed, LockLeft, loopVars
<1>9. CASE World /\ UNCHANGED <<loopVars, auditVars>>
  BY <1>1, <1>9
  DEF World, AppLocks, AppReleases, ServerDrops, LockLeft, loopVars, auditVars
<1>10. CASE DropExtension \/ UNCHANGED vars
  BY <1>1, <1>10 DEF DropExtension, vars, sessionVars, loopVars, auditVars
<1> QED
  BY <1>2, <1>3, <1>4, <1>5, <1>6, <1>7, <1>8, <1>9, <1>10 DEF Next, Run, Environment

\* A section that is skipped under a name not used yet adds this one name, and
\* names stay unique.
LEMMA SkipSectionNames ==
  ASSUME NEW section, NEW why, NEW stage,
         SkipSection(section, why, stage), section \notin SkippedNames,
         \A s, t \in sectionsSkipped : s.name = t.name => s = t
  PROVE  /\ SkippedNames' = SkippedNames \union {section}
         /\ (\A s, t \in sectionsSkipped : s.name = t.name => s = t)'
<1> DEFINE new == [name |-> section, why |-> why]
<1>1. sectionsSkipped' = sectionsSkipped \union {new} /\ new.name = section
  BY DEF SkipSection
<1> HIDE DEF new
<1>2. SkippedNames' = SkippedNames \union {section}
  BY <1>1 DEF SkippedNames
<1>3. \A s \in sectionsSkipped : s.name # section
  BY DEF SkippedNames
<1>4. (\A s, t \in sectionsSkipped : s.name = t.name => s = t)'
  BY <1>1, <1>3
<1> QED
  BY <1>2, <1>4

LEMMA NamesStable ==
  ASSUME UNCHANGED sectionsSkipped PROVE SkippedNames' = SkippedNames
BY DEF SkippedNames

\* The account of the sections is kept section by section.
LEMMA StepSectionInv == IInv /\ [Next]_vars => SectionInv'
<1> SUFFICES ASSUME IInv, [Next]_vars PROVE SectionInv'
  OBVIOUS
<1>1. AuditTypeOK /\ SectionInv /\ (pc # "done" => outcome = "pending")
  BY DEF IInv, TypeOK, OutcomeInv
<1> USE DEF SectionInv, WorkloadThrough, DuplicateThrough, UnusedThrough, BeforeWorkload
<1>2. CASE RejectUrl \/ ConnectFails \/ LeaveRaising
  BY <1>2 DEF RejectUrl, ConnectFails, LeaveRaising, Raise, Unhandled
<1>3. CASE \/ Connect \/ Recheck \/ TopQueries \/ DescribeRaises \/ InvalidPlan \/ Leave
           \/ Available /\ extension
  <2>1. UNCHANGED <<completed, sectionsSkipped, outcome>> /\ outcome = "pending"
    BY <1>1, <1>3
    DEF Connect, Available, Recheck, TopQueries, DescribeRaises, InvalidPlan, Leave, GoTo
  <2>2. \/ /\ pc \in {"start", "available", "recheck", "topQueries", "explaining"}
           /\ pc' \in {"available", "recheck", "topQueries", "explaining", "failing"}
        \/ pc = "closing" /\ pc' = "generating"
    BY <1>3
    DEF Connect, Available, Recheck, TopQueries, DescribeRaises, InvalidPlan, Leave, GoTo
  <2> QED
    BY <1>1, <2>1, <2>2, NamesStable
<1>4. CASE CompleteWorkload
  BY <1>1, <1>4, NamesStable DEF CompleteWorkload, Complete, SkippedNames
<1>5. CASE SkipWorkload \/ WorkloadReadRaises \/ (Available /\ ~extension)
  <2>1. PICK why : SkipSection("workload", why, "catalog")
    BY <1>5 DEF SkipWorkload, WorkloadReadRaises, Available
  <2>2. pc \in {"available", "recheck", "topQueries", "explaining"}
    BY <1>5 DEF SkipWorkload, WorkloadReadRaises, Available
  <2>3. completed = {} /\ SkippedNames = {}
    BY <1>1, <2>2 DEF SkippedNames
  <2>4. SkippedNames' = {"workload"} /\ completed' = {} /\ pc' = "catalog"
    BY <1>1, <2>1, <2>2, <2>3, SkipSectionNames DEF SkipSection
  <2>5. (\A s, t \in sectionsSkipped : s.name = t.name => s = t)'
    BY <1>1, <2>1, <2>2, <2>3, SkipSectionNames
  <2> QED
    BY <2>4, <2>5
<1>6. CASE DuplicateIndexes \/ UnusedIndexes
  BY <1>1, <1>6, NamesStable DEF DuplicateIndexes, UnusedIndexes, Complete
<1>7. CASE CatalogReadRaises
  <2>1. PICK why : SkipSection("index_catalog", why, "closing")
    BY <1>7 DEF CatalogReadRaises
  <2>2. /\ SkippedNames' = SkippedNames \union {"index_catalog"}
        /\ (\A s, t \in sectionsSkipped : s.name = t.name => s = t)'
    BY <1>1, <1>7, <2>1, SkipSectionNames DEF CatalogReadRaises
  <2> QED
    BY <1>1, <1>7, <2>1, <2>2 DEF CatalogReadRaises, SkipSection
<1>8. CASE UsageReadRaises
  <2>1. PICK why : SkipSection("unused_indexes", why, "closing")
    BY <1>8 DEF UsageReadRaises
  <2>2. /\ SkippedNames' = SkippedNames \union {"unused_indexes"}
        /\ (\A s, t \in sectionsSkipped : s.name = t.name => s = t)'
    BY <1>1, <1>8, <2>1, SkipSectionNames DEF UsageReadRaises
  <2> QED
    BY <1>1, <1>8, <2>1, <2>2 DEF UsageReadRaises, SkipSection
<1>9. CASE Generate
  BY <1>1, <1>9, NamesStable DEF Generate
<1>10. CASE Explain \/ Environment \/ UNCHANGED vars
  <2>1. UNCHANGED <<pc, outcome, completed, sectionsSkipped>>
    BY <1>10 DEF Explain, Environment, DropExtension, vars, auditVars
  <2> QED
    BY <1>1, <2>1, NamesStable
<1> QED
  BY <1>2, <1>3, <1>4, <1>5, <1>6, <1>7, <1>8, <1>9, <1>10 DEF Next, Run

\* The workload section is only completed by a loop that went through.
LEMMA StepWholeInv == IInv /\ [Next]_vars => WholeInv'
<1> SUFFICES ASSUME IInv, [Next]_vars PROVE WholeInv'
  OBVIOUS
<1> USE DEF WholeInv
<1>1. CASE Explain \/ Recheck \/ TopQueries
  BY <1>1
  DEF IInv, SectionInv, OutcomeInv, WorkloadThrough, BeforeWorkload, Explain, Recheck,
      TopQueries, GoTo, auditVars
<1>2. CASE CompleteWorkload
  BY <1>2 DEF CompleteWorkload, IInv, StageInv, loopVars
<1>3. CASE SkipWorkload \/ InvalidPlan \/ Leave \/ LeaveRaising \/ Generate \/ Connect \/ RejectUrl
             \/ ConnectFails \/ Available \/ DescribeRaises
             \/ WorkloadReadRaises \/ DuplicateIndexes \/ CatalogReadRaises
             \/ UnusedIndexes \/ UsageReadRaises \/ Environment \/ UNCHANGED vars
  <2>1. UNCHANGED loopVars
    BY <1>3
    DEF SkipWorkload, InvalidPlan, Leave, LeaveRaising, Generate, Connect, RejectUrl, ConnectFails,
        Available, DescribeRaises, WorkloadReadRaises, DuplicateIndexes,
        CatalogReadRaises, UnusedIndexes, UsageReadRaises, ReadRaises, Environment,
        DropExtension, vars
  <2>2. "workload" \in completed' => "workload" \in completed
    BY <1>3
    DEF SkipWorkload, InvalidPlan, Leave, LeaveRaising, Generate, Connect, RejectUrl, ConnectFails,
        Available, DescribeRaises, WorkloadReadRaises, DuplicateIndexes,
        CatalogReadRaises, UnusedIndexes, UsageReadRaises, GoTo, Complete, SkipSection,
        Raise, Environment, DropExtension, vars, auditVars
  <2> QED
    BY <2>1, <2>2 DEF IInv, loopVars
<1> QED
  BY <1>1, <1>2, <1>3 DEF Next, Run

\* The caller gets an answer exactly when the run is done.
LEMMA StepOutcomeInv == IInv /\ [Next]_vars => OutcomeInv'
<1> SUFFICES ASSUME IInv, [Next]_vars PROVE OutcomeInv'
  OBVIOUS
<1>1. OutcomeInv /\ SectionInv /\ (pc = "start" \/ pc = "failing" => completed = {})
  BY DEF IInv, SectionInv, OutcomeInv, WorkloadThrough, BeforeWorkload
<1> USE DEF OutcomeInv
<1>2. CASE RejectUrl \/ ConnectFails \/ LeaveRaising
  BY <1>1, <1>2 DEF RejectUrl, ConnectFails, LeaveRaising, Raise, Unhandled
<1>3. CASE Generate
  BY <1>1, <1>3 DEF Generate
<1>4. CASE Explain \/ Environment \/ UNCHANGED vars
  BY <1>1, <1>4 DEF Explain, Environment, DropExtension, vars, auditVars
<1>5. CASE Connect \/ Available \/ Recheck \/ TopQueries \/ DescribeRaises
             \/ WorkloadReadRaises \/ CompleteWorkload \/ SkipWorkload \/ InvalidPlan
             \/ DuplicateIndexes \/ CatalogReadRaises \/ UnusedIndexes
             \/ UsageReadRaises \/ Leave
  <2>1. pc # "done" /\ pc' # "done" /\ outcome' = outcome
    BY <1>5
    DEF Connect, Available, Recheck, TopQueries, DescribeRaises, WorkloadReadRaises,
        CompleteWorkload, SkipWorkload, InvalidPlan, DuplicateIndexes, CatalogReadRaises,
        UnusedIndexes, UsageReadRaises, Leave, GoTo, Complete, SkipSection
  <2> QED
    BY <1>1, <2>1
<1> QED
  BY <1>2, <1>3, <1>4, <1>5 DEF Next, Run

LEMMA Invariance == Spec => []IInv
<1>1. IInv /\ [Next]_vars /\ TypeOK' => IInv'
  BY StepLoopInv, StepStageInv, StepSectionInv, StepWholeInv, StepOutcomeInv DEF IInv
<1> QED
  BY InitIInv, <1>1, Typing, PTL DEF Spec

-----------------------------------------------------------------------------
(* What follows for the user.                                              *)

(* No write of the live workload is ever committed by the audit, whichever *)
(* section fails (explain_runner.py:99-104, connection.py:92-100).         *)
THEOREM AuditDryRun == Spec => []NothingDurable
<1>1. IInv => NothingDurable
  BY DEF IInv, LoopInv
<1> QED
  BY <1>1, Invariance, PTL

(* Every plan of the live workload is measured on top of all the earlier   *)
(* writes that were not blocked (services.py:200-228).                     *)
THEOREM AuditMeasured == Spec => []MeasuredOnEarlierWrites
<1>1. IInv => MeasuredOnEarlierWrites
  BY DEF IInv, LoopInv, MeasuredInv
<1> QED
  BY <1>1, Invariance, PTL

(* An audit that ends, with a result or an exception, leaves no open       *)
(* connection, write or lock behind (audit_service.py:101).                *)
THEOREM AuditCleanExit == Spec => []NothingLeftBehind
<1>1. IInv => NothingLeftBehind
  BY DEF IInv, StageInv
<1> QED
  BY <1>1, Invariance, PTL

(* The report says of each section once whether it ran                     *)
(* (audit_service.py:94-157).                                              *)
THEOREM AuditSections == Spec => []SectionsAccounted
<1>1. IInv => SectionsAccounted
  <2> SUFFICES ASSUME IInv, outcome = "result" PROVE SectionsAccounted
    BY DEF SectionsAccounted
  <2>1. pc = "done"
    BY DEF IInv, OutcomeInv
  <2> QED
    BY <2>1
    DEF IInv, SectionInv, SectionsAccounted, WorkloadThrough, DuplicateThrough,
        UnusedThrough, BeforeWorkload
<1> QED
  BY <1>1, Invariance, PTL

(* A workload section reported as completed covers every query that was    *)
(* read (audit_service.py:103-134).                                        *)
THEOREM AuditWholeWorkload == Spec => []CompletedWorkloadIsWhole
<1>1. IInv => CompletedWorkloadIsWhole
  <2> SUFFICES ASSUME IInv, "workload" \in completed
               PROVE  Analyzed \union SkippedQueries = 1 .. Len(queries)
    BY DEF CompletedWorkloadIsWhole
  <2>1. position = Len(queries) + 1 /\ Len(queries) \in Nat
    BY DEF IInv, WholeInv, TypeOK, LoopTypeOK
  <2>2. Analyzed \union SkippedQueries = 1 .. (position - 1)
    BY DEF IInv, LoopInv, EveryQueryAccounted
  <2> QED
    BY <2>1, <2>2
<1> QED
  BY <1>1, Invariance, PTL

-----------------------------------------------------------------------------
(* The one transaction of the sections.                                    *)

QueryFailed   == \E s \in skipped : s.why \in {"error", "timeout"}
SectionDenied == \E s \in sectionsSkipped : s.why = "denied"

\* The transaction of a connection that stands has failed exactly if a statement
\* of the audit has.
FateInv ==
  /\ conn = "open" => (txn = "failed" <=> QueryFailed \/ SectionDenied)
  /\ SectionsShareOneFate

\* Skipping a query fails it if PostgreSQL has refused the query itself.
LEMMA SkipFails ==
  ASSUME NEW why, Skip(why)
  PROVE  QueryFailed' <=> QueryFailed \/ why \in {"error", "timeout"}
<1> DEFINE new == [query |-> position, why |-> why]
<1>1. skipped' = skipped \union {new} /\ new.why = why
  BY DEF Skip
<1> HIDE DEF new
<1> QED
  BY <1>1 DEF QueryFailed

\* A step of the loop fails the transaction with the query.
LEMMA LoopFate ==
  ASSUME LoopControl, LoopStep, conn = "open" => (txn = "failed" <=> QueryFailed)
  PROVE  conn' = "open" => (txn' = "failed" <=> QueryFailed')
<1> USE DEF Autocommit
<1>1. CASE SkipBlocked \/ SkipRefused \/ SkipDropped
  <2>1. PICK why : Skip(why) /\ why \notin {"error", "timeout"}
    BY <1>1 DEF SkipBlocked, SkipRefused, SkipDropped
  <2>2. UNCHANGED sessionVars
    BY <1>1 DEF SkipBlocked, SkipRefused, SkipDropped
  <2> QED
    BY <2>1, <2>2, SkipFails DEF sessionVars
<1>2. CASE SkipError \/ SkipTimeout
  <2>1. PICK why \in {"error", "timeout"} : Skip(why)
    BY <1>2 DEF SkipError, SkipTimeout
  <2>2. txn' = "failed"
    BY <1>2 DEF SkipError, SkipTimeout, Raised
  <2> QED
    BY <2>1, <2>2, SkipFails
<1>3. CASE SkipNoRow
  <2>1. Skip("noRow") /\ conn = "open" /\ txn # "failed" /\ txn' = "active"
    BY <1>3 DEF SkipNoRow, Ran, LoopControl
  <2> QED
    BY <2>1, SkipFails
<1>4. CASE ArmTimeout \/ Analyze \/ RaiseMalformed
  <2>1. conn = "open" /\ txn # "failed" /\ txn' = "active" /\ skipped' = skipped
    BY <1>4 DEF ArmTimeout, Analyze, RaiseMalformed, Refuses, Ran, LoopControl
  <2> QED
    BY <2>1 DEF QueryFailed
<1>5. CASE FinishLoop
  BY <1>5 DEF FinishLoop, QueryFailed, sessionVars
<1> QED
  BY <1>1, <1>2, <1>3, <1>4, <1>5 DEF LoopStep

\* Which sections are skipped, and so can have been denied, before each read.
LEMMA SectionsBefore ==
  ASSUME IInv
  PROVE  /\ pc \in BeforeWorkload => ~QueryFailed
         /\ pc \in BeforeWorkload \union {"explaining"} =>
              completed = {} /\ sectionsSkipped = {}
         /\ pc \in {"catalog", "usage"} =>
              /\ completed \subseteq {"workload", "duplicate_indexes"}
              /\ \A s \in sectionsSkipped : s.name = "workload"
         /\ pc = "catalog" => completed \subseteq {"workload"}
         /\ pc = "usage" => "duplicate_indexes" \in completed
<1>1. pc \in BeforeWorkload => ~QueryFailed
  BY DEF IInv, StageInv, Unstarted, QueryFailed
<1>2. AuditTypeOK /\ (pc # "done" => outcome = "pending")
  BY DEF IInv, TypeOK, OutcomeInv
<1> QED
  BY <1>1, <1>2
  DEF IInv, SectionInv, WorkloadThrough, DuplicateThrough, UnusedThrough,
      BeforeWorkload, SkippedNames, AuditTypeOK

\* A read that fails is either denied, and fails the transaction, or refused
\* because the transaction has failed before, or the connection is gone.
LEMMA ReadFate ==
  ASSUME ReadRaises, NEW section, NEW stage, SkipSection(section, ReadError, stage),
         conn = "open" => (txn = "failed" <=> QueryFailed \/ SectionDenied)
  PROVE  /\ conn' = "open" => (txn' = "failed" <=> QueryFailed' \/ SectionDenied')
         /\ ReadError = "aborted" => QueryFailed \/ SectionDenied
<1>1. QueryFailed' = QueryFailed
  BY DEF ReadRaises, loopVars, QueryFailed
<1>2. SectionDenied' <=> SectionDenied \/ ReadError = "denied"
  <2> DEFINE new == [name |-> section, why |-> ReadError]
  <2>1. sectionsSkipped' = sectionsSkipped \union {new} /\ new.why = ReadError
    BY DEF SkipSection
  <2> HIDE DEF new
  <2> QED
    BY <2>1 DEF SectionDenied
<1>3. CASE conn = "open"
  <2>1. conn' = "open" /\ txn' = "failed"
    BY <1>3 DEF ReadRaises, Raised, Autocommit
  <2> QED
    BY <1>1, <1>2, <1>3, <2>1 DEF ReadError
<1>4. CASE conn # "open"
  BY <1>4 DEF ReadRaises, ReadError, sessionVars
<1> QED
  BY <1>3, <1>4

LEMMA InitFate == Init => FateInv
BY DEF Init, SessionInit, FateInv, SectionsShareOneFate

LEMMA StepFate == IInv /\ FateInv /\ [Next]_vars => FateInv'
<1> SUFFICES ASSUME IInv, FateInv, [Next]_vars PROVE FateInv'
  OBVIOUS
<1> USE DEF FateInv
<1>0. pc \in {"catalog", "usage"} /\ (QueryFailed \/ SectionDenied) => WorkloadFailed
  <2> SUFFICES ASSUME pc \in {"catalog", "usage"}, NEW s \in sectionsSkipped,
                      s.why = "denied"
               PROVE  WorkloadFailed
    BY DEF QueryFailed, SectionDenied, WorkloadFailed
  <2>1. s.name = "workload"
    BY SectionsBefore
  <2>2. s = [name |-> s.name, why |-> s.why]
    BY DEF IInv, TypeOK, AuditTypeOK
  <2> QED
    BY <2>1, <2>2 DEF WorkloadFailed
<1>1. CASE UNCHANGED <<conn, txn, loopVars, completed, sectionsSkipped>>
  BY <1>1 DEF QueryFailed, SectionDenied, SectionsShareOneFate, WorkloadFailed, loopVars
<1>2. CASE conn' # "open" /\ UNCHANGED <<loopVars, completed, sectionsSkipped>>
  BY <1>2 DEF SectionsShareOneFate, WorkloadFailed, loopVars
<1>3. CASE Connect
  <2>1. pc = "start" /\ txn' = "idle" /\ UNCHANGED <<loopVars, completed, sectionsSkipped>>
    BY <1>3 DEF Connect, Opened, GoTo
  <2>2. ~QueryFailed /\ sectionsSkipped = {}
    BY <2>1, SectionsBefore DEF BeforeWorkload
  <2> QED
    BY <2>1, <2>2
    DEF QueryFailed, SectionDenied, SectionsShareOneFate, WorkloadFailed, loopVars
<1>4. CASE Available \/ Recheck \/ TopQueries \/ DescribeRaises
  <2>1. /\ pc \in BeforeWorkload /\ ReadSucceeds /\ skipped' = skipped
        /\ UNCHANGED completed
    BY <1>4
    DEF Available, Recheck, TopQueries, DescribeRaises, GoTo, SkipSection, Enter,
        BeforeWorkload, loopVars
  <2>2. sectionsSkipped' \subseteq {[name |-> "workload", why |-> "absent"]}
    BY <1>4, <2>1, SectionsBefore
    DEF Available, Recheck, TopQueries, DescribeRaises, GoTo, SkipSection
  <2>3. txn' = "active"
    BY <2>1 DEF ReadSucceeds, Ran, Autocommit
  <2>4. ~QueryFailed /\ completed = {}
    BY <2>1, SectionsBefore
  <2>5. ~QueryFailed' /\ ~SectionDenied'
    BY <2>1, <2>2, <2>4 DEF QueryFailed, SectionDenied
  <2> QED
    BY <2>1, <2>2, <2>3, <2>4, <2>5 DEF SectionsShareOneFate
<1>5. CASE WorkloadReadRaises
  <2>1. /\ pc \in BeforeWorkload /\ ReadRaises
        /\ SkipSection("workload", ReadError, "catalog")
    BY <1>5 DEF WorkloadReadRaises, BeforeWorkload
  <2>2. ~QueryFailed /\ completed = {} /\ sectionsSkipped = {}
    BY <2>1, SectionsBefore
  <2>3. ReadError # "aborted"
    BY <2>1, <2>2, ReadFate DEF SectionDenied
  <2> QED
    BY <2>1, <2>2, <2>3, ReadFate DEF SectionsShareOneFate, SkipSection
<1>6. CASE Explain
  <2>1. /\ pc = "explaining" /\ LoopStep
        /\ UNCHANGED <<completed, sectionsSkipped>>
    BY <1>6 DEF Explain, auditVars
  <2>2. completed = {} /\ sectionsSkipped = {}
    BY <2>1, SectionsBefore
  <2>3. ~SectionDenied /\ ~SectionDenied'
    BY <2>1, <2>2 DEF SectionDenied
  <2>4. conn' = "open" => (txn' = "failed" <=> QueryFailed')
    BY <2>1, <2>3, LoopFate DEF IInv, LoopInv
  <2> QED
    BY <2>1, <2>2, <2>3, <2>4 DEF SectionsShareOneFate
<1>7. CASE CompleteWorkload \/ SkipWorkload
  <2>1. pc = "explaining" /\ UNCHANGED <<sessionVars, loopVars>>
    BY <1>7 DEF CompleteWorkload, SkipWorkload
  <2>2. completed = {} /\ sectionsSkipped = {}
    BY <2>1, SectionsBefore
  <2>3. /\ completed' \subseteq {"workload"}
        /\ sectionsSkipped' \subseteq {[name |-> "workload", why |-> "malformed"]}
    BY <1>7, <2>2 DEF CompleteWorkload, SkipWorkload, Complete, SkipSection
  <2>4. QueryFailed' = QueryFailed /\ ~SectionDenied /\ ~SectionDenied'
    BY <2>1, <2>2, <2>3 DEF QueryFailed, SectionDenied, loopVars
  <2> QED
    BY <2>1, <2>3, <2>4 DEF SectionsShareOneFate, sessionVars
<1>8. CASE DuplicateIndexes \/ UnusedIndexes
  <2>1. /\ pc \in {"catalog", "usage"} /\ ReadSucceeds
        /\ UNCHANGED <<loopVars, sectionsSkipped>>
    BY <1>8 DEF DuplicateIndexes, UnusedIndexes, Complete
  <2>2. conn = "open" /\ txn # "failed" /\ txn' = "active"
    BY <2>1 DEF ReadSucceeds, ReadFails, Refuses, Ran, Autocommit
  <2>3. ~QueryFailed /\ ~SectionDenied
    BY <2>2
  <2>4. ~QueryFailed' /\ ~SectionDenied' /\ ~WorkloadFailed /\ ~WorkloadFailed'
    BY <2>1, <2>3 DEF QueryFailed, SectionDenied, WorkloadFailed, loopVars
  <2> QED
    BY <2>1, <2>2, <2>4 DEF SectionsShareOneFate
<1>9. CASE CatalogReadRaises \/ UsageReadRaises
  <2>1. PICK section \in {"index_catalog", "unused_indexes"} :
           /\ SkipSection(section, ReadError, "closing")
           /\ pc = "catalog" => section = "index_catalog"
    BY <1>9 DEF CatalogReadRaises, UsageReadRaises
  <2>2. pc \in {"catalog", "usage"} /\ ReadRaises /\ UNCHANGED <<loopVars, completed>>
    BY <1>9 DEF CatalogReadRaises, UsageReadRaises, ReadRaises, SkipSection
  <2>3. WorkloadFailed' <=> WorkloadFailed
    BY <2>1, <2>2 DEF WorkloadFailed, SkipSection, loopVars
  <2>4. ReadError = "aborted" => WorkloadFailed /\ pc = "catalog"
    BY <1>0, <2>1, <2>2, ReadFate, SectionsBefore DEF SectionsShareOneFate
  <2>5. SectionsShareOneFate'
    BY <2>1, <2>2, <2>3, <2>4 DEF SectionsShareOneFate, SkipSection
  <2> QED
    BY <2>1, <2>2, <2>5, ReadFate
<1>10. CASE Leave \/ LeaveRaising
  BY <1>2, <1>10 DEF Leave, LeaveRaising, ExitConnection, Closed, GoTo, Raise
<1>11. CASE World /\ UNCHANGED <<loopVars, auditVars>>
  <2>1. conn' # "open" \/ UNCHANGED <<conn, txn>>
    BY <1>11 DEF World, AppLocks, AppReleases, ServerDrops
  <2> QED
    BY <1>1, <1>2, <1>11, <2>1 DEF auditVars
<1>12. CASE RejectUrl \/ ConnectFails \/ InvalidPlan \/ Generate \/ DropExtension
              \/ UNCHANGED vars
  BY <1>1, <1>12
  DEF RejectUrl, ConnectFails, InvalidPlan, Generate, DropExtension, Raise, GoTo, vars,
      sessionVars, auditVars
<1> QED
  BY <1>3, <1>4, <1>5, <1>6, <1>7, <1>8, <1>9, <1>10, <1>11, <1>12
  DEF Next, Run, Environment

(* After an error in the workload no section completes, and without one    *)
(* none is refused for the sake of another: the sections share their       *)
(* transaction (audit_service.py:9-12 and 101-157).                        *)
THEOREM OneFate == Spec => []SectionsShareOneFate
<1>1. FateInv => SectionsShareOneFate
  BY DEF FateInv
<1> QED
  BY <1>1, InitFate, StepFate, Invariance, PTL DEF Spec
=============================================================================
