------------------------- MODULE ExplainLoopProofs --------------------------
(***************************************************************************)
(* What the steps of the loop, of the connection and of the world around   *)
(* it preserve.  The facts are stated step by step, without a              *)
(* specification, because two commands compose the loop: AnalyzeRunProofs  *)
(* and AuditRunProofs cite them for their own specifications.              *)
(***************************************************************************)
EXTENDS ExplainLoop, TLAPS

-----------------------------------------------------------------------------
(* Types.                                                                  *)

\* A statement that ran leaves a well-formed session.
LEMMA RanTyped ==
  ASSUME SessionTypeOK, NEW p \in Nat, NEW effect, Ran(p, effect)
  PROVE  SessionTypeOK'
BY DEF SessionTypeOK, Ran, Autocommit

\* So does a statement that raised.
LEMMA RaisedTyped == ASSUME SessionTypeOK, Raised PROVE SessionTypeOK'
BY DEF SessionTypeOK, Raised, LockLeft, Autocommit

\* So does closing the connection.
LEMMA ClosedTyped == ASSUME SessionTypeOK, Closed PROVE SessionTypeOK'
BY DEF SessionTypeOK, Closed, LockLeft

\* So does opening it.
LEMMA OpenedTyped == ASSUME SessionTypeOK, Opened PROVE SessionTypeOK'
BY DEF SessionTypeOK, Opened

\* So does whatever the application and the server do.
LEMMA WorldTyped == ASSUME SessionTypeOK, World PROVE SessionTypeOK'
BY DEF SessionTypeOK, World, AppLocks, AppReleases, ServerDrops, LockLeft

\* Skipping a query keeps the results of the loop well-formed.
LEMMA SkipTyped ==
  ASSUME LoopTypeOK, NEW why \in Reasons, Skip(why)
  PROVE  LoopTypeOK'
BY DEF LoopTypeOK, Skip

\* Every step of the loop keeps the session and the results well-formed.
LEMMA LoopStepTyped ==
  ASSUME SessionTypeOK, LoopTypeOK, LoopStep
  PROVE  SessionTypeOK' /\ LoopTypeOK'
<1>1. position \in Nat
  BY DEF LoopTypeOK
<1>2. CASE SkipBlocked
  BY <1>2, SkipTyped DEF SkipBlocked, Reasons, SessionTypeOK, sessionVars
<1>3. CASE SkipRefused
  <2>1. \E why \in Reasons : Skip(why)
    BY <1>3 DEF SkipRefused, Reasons
  <2> QED
    BY <1>3, <2>1, SkipTyped DEF SkipRefused, SessionTypeOK, sessionVars
<1>4. CASE ArmTimeout
  <2>1. SessionTypeOK'
    BY <1>4, TimeoutAssumption
    DEF ArmTimeout, StatementTimeout, SessionTypeOK, Autocommit
  <2>2. LoopTypeOK'
    BY <1>4 DEF ArmTimeout, LoopTypeOK
  <2> QED
    BY <2>1, <2>2
<1>5. CASE Analyze
  <2>1. SessionTypeOK'
    BY <1>1, <1>5, RanTyped DEF Analyze
  <2>2. [query |-> position, over |-> work] \in [query : Nat, over : SUBSET Nat]
    BY <1>1 DEF SessionTypeOK
  <2>3. LoopTypeOK'
    BY <1>5, <2>2 DEF Analyze, LoopTypeOK
  <2> QED
    BY <2>1, <2>3
<1>6. CASE RaiseMalformed
  <2>1. SessionTypeOK'
    BY <1>1, <1>6, RanTyped DEF RaiseMalformed
  <2>2. LoopTypeOK'
    BY <1>6 DEF RaiseMalformed, LoopTypeOK
  <2> QED
    BY <2>1, <2>2
<1>7. CASE SkipNoRow
  BY <1>1, <1>7, RanTyped, SkipTyped DEF SkipNoRow, Reasons
<1>8. CASE SkipError
  BY <1>8, RaisedTyped, SkipTyped DEF SkipError, Reasons
<1>9. CASE SkipTimeout
  BY <1>9, RaisedTyped, SkipTyped DEF SkipTimeout, Reasons
<1>10. CASE SkipDropped
  BY <1>10, SkipTyped DEF SkipDropped, Reasons, SessionTypeOK, sessionVars
<1>11. CASE FinishLoop
  BY <1>11 DEF FinishLoop, SessionTypeOK, LoopTypeOK, sessionVars
<1> QED
  BY <1>2, <1>3, <1>4, <1>5, <1>6, <1>7, <1>8, <1>9, <1>10, <1>11 DEF LoopStep

-----------------------------------------------------------------------------
(* The position of the loop.                                               *)

\* The loop never runs past its workload, and an EXPLAIN under way is for a
\* query that is not blocked, in a transaction that is open.
LoopControl ==
  /\ position \in 1 .. (Len(queries) + 1)
  /\ loop = "armed" =>
       /\ position <= Len(queries)
       /\ ~Blocked(Current)
       /\ conn = "open" => txn = "active"

\* Every step of the loop keeps it there.
LEMMA LoopStepControl ==
  ASSUME SessionTypeOK, LoopTypeOK, LoopControl, LoopStep
  PROVE  LoopControl'
<1> USE DEF LoopControl, LoopTypeOK
<1>1. CASE SkipBlocked
  BY <1>1 DEF SkipBlocked, Skip, AtQuery
<1>2. CASE SkipRefused
  BY <1>2 DEF SkipRefused, Skip, AtQuery
<1>3. CASE ArmTimeout
  BY <1>3 DEF ArmTimeout, AtQuery, Refuses, Blocked, Current, Autocommit, SessionTypeOK
<1>4. CASE Analyze
  BY <1>4 DEF Analyze, Ran
<1>5. CASE RaiseMalformed
  BY <1>5 DEF RaiseMalformed, Ran
<1>6. CASE SkipNoRow
  BY <1>6 DEF SkipNoRow, Skip
<1>7. CASE SkipError \/ SkipTimeout
  BY <1>7 DEF SkipError, SkipTimeout, Skip
<1>8. CASE SkipDropped
  BY <1>8 DEF SkipDropped, Skip
<1>9. CASE FinishLoop
  BY <1>9 DEF FinishLoop
<1> QED
  BY <1>1, <1>2, <1>3, <1>4, <1>5, <1>6, <1>7, <1>8, <1>9 DEF LoopStep

-----------------------------------------------------------------------------
(* What the transaction holds.                                             *)

\* Until the loop raises, a live transaction that has not failed holds the
\* writes of all the queries before the current one that were not blocked;
\* in any case it holds no others.
WorkInv ==
  /\ work \subseteq {i \in 1 .. Len(queries) :
                       /\ i <= position
                       /\ queries[i].effect = "write"
                       /\ ~Blocked(queries[i])}
  /\ conn = "open" /\ txn # "failed" /\ loop \in {"next", "armed"} =>
       work = WritesBefore(position)

\* Every plan was measured on top of those writes.
MeasuredInv ==
  /\ \A k \in 1 .. Len(perQuery) : perQuery[k].query \in 1 .. (position - 1)
  /\ MeasuredOnEarlierWrites

\* The row lock is held on behalf of a query that was not blocked.
LockInv ==
  lock = "run" =>
    \E i \in 1 .. Len(queries) :
       i <= position /\ queries[i].effect # "none" /\ ~Blocked(queries[i])

\* The writes before the next position are those before this one and, if the
\* current query writes and is not blocked, its own.
LEMMA WritesBeforeNext ==
  ASSUME position \in 1 .. Len(queries)
  PROVE  WritesBefore(position + 1) =
           WritesBefore(position) \union
             (IF Current.effect = "write" /\ ~Blocked(Current)
              THEN {position} ELSE {})
BY DEF WritesBefore, Current

\* A step that leaves the workload alone leaves alone what is said of it.
LEMMA WritesBeforeStable ==
  ASSUME UNCHANGED <<queries, confirmed>>, NEW p
  PROVE  WritesBefore(p)' = WritesBefore(p)
BY DEF WritesBefore, Blocked

\* Every step of the loop keeps the transaction to those writes.
LEMMA LoopStepWork ==
  ASSUME SessionTypeOK, LoopTypeOK, LoopControl, WorkInv, LoopStep
  PROVE  WorkInv'
<1> USE DEF WorkInv, LoopTypeOK
<1>1. UNCHANGED <<queries, confirmed>>
  BY DEF LoopStep, SkipBlocked, SkipRefused, SkipDropped, ArmTimeout, Analyze,
         RaiseMalformed, SkipNoRow, SkipError, SkipTimeout, FinishLoop, Skip
<1>2. \A p : WritesBefore(p)' = WritesBefore(p)
  BY <1>1 DEF WritesBefore, Blocked
<1>3. \A i \in 1 .. Len(queries) : Blocked(queries[i])' = Blocked(queries[i])
  BY <1>1 DEF Blocked
<1>4. position \in Nat
  OBVIOUS
<1>5. CASE SkipBlocked
  <2>1. position \in 1 .. Len(queries) /\ Blocked(Current)
    BY <1>5 DEF SkipBlocked, AtQuery, LoopControl
  <2>2. WritesBefore(position + 1) = WritesBefore(position)
    BY <2>1, WritesBeforeNext
  <2>3. /\ UNCHANGED <<conn, txn, work>>
        /\ loop = "next" /\ position' = position + 1
    BY <1>5 DEF SkipBlocked, Skip, AtQuery, sessionVars
  <2>4. work' \subseteq {i \in 1 .. Len(queries) : /\ i <= position'
                                                 /\ queries[i].effect = "write"
                                                 /\ ~Blocked(queries[i])}
    BY <2>3
  <2> QED
    BY <1>1, <1>2, <1>3, <2>2, <2>3, <2>4
<1>6. CASE SkipRefused \/ SkipDropped
  <2>1. /\ UNCHANGED <<conn, txn, work>>
        /\ conn # "open" \/ txn = "failed"
        /\ position' = position + 1
    BY <1>6 DEF SkipRefused, SkipDropped, Skip, Refuses, sessionVars
  <2>2. work' \subseteq {i \in 1 .. Len(queries) : /\ i <= position'
                                                 /\ queries[i].effect = "write"
                                                 /\ ~Blocked(queries[i])}
    BY <2>1
  <2> QED
    BY <1>1, <1>3, <2>1, <2>2
<1>7. CASE ArmTimeout
  BY <1>1, <1>2, <1>3, <1>7 DEF ArmTimeout, AtQuery, Refuses, Autocommit
<1>8. CASE Analyze \/ SkipNoRow
  <2>1. /\ position \in 1 .. Len(queries)
        /\ ~Blocked(Current)
        /\ conn = "open" /\ txn = "active"
        /\ loop = "armed" /\ loop' = "next"
        /\ position' = position + 1
        /\ Ran(position, Current.effect)
    BY <1>8 DEF Analyze, SkipNoRow, Skip, LoopControl
  <2>2. work = WritesBefore(position)
    BY <2>1
  <2>3. work' = WritesBefore(position + 1)
    BY <2>1, <2>2, WritesBeforeNext DEF Ran, Autocommit
  <2>4. WritesBefore(position + 1) \subseteq
          {i \in 1 .. Len(queries) : /\ i <= position + 1
                                     /\ queries[i].effect = "write"
                                     /\ ~Blocked(queries[i])}
    BY <2>1 DEF WritesBefore
  <2> QED
    BY <1>1, <1>2, <1>3, <2>1, <2>3, <2>4
<1>9. CASE RaiseMalformed
  <2>1. /\ position \in 1 .. Len(queries)
        /\ ~Blocked(Current)
        /\ loop' \in {"raised", "invalid"}
        /\ position' = position
        /\ Ran(position, Current.effect)
    BY <1>9 DEF RaiseMalformed, LoopControl
  <2>2. work' \subseteq work \union (IF Current.effect = "write" THEN {position} ELSE {})
    BY <2>1 DEF Ran, Autocommit
  <2>3. ASSUME NEW i \in work'
        PROVE  i \in 1 .. Len(queries) /\ i <= position
                 /\ queries[i].effect = "write" /\ ~Blocked(queries[i])
    <3>1. CASE i \in work
      BY <3>1
    <3>2. CASE i \notin work
      <4>1. i = position /\ Current.effect = "write"
        BY <2>2, <2>3, <3>2
      <4> QED
        BY <2>1, <4>1 DEF Current
    <3> QED
      BY <3>1, <3>2
  <2> QED
    BY <1>1, <1>3, <2>1, <2>3
<1>10. CASE SkipError \/ SkipTimeout
  BY <1>1, <1>10 DEF SkipError, SkipTimeout, Skip, Raised, Autocommit
<1>11. CASE FinishLoop
  BY <1>1, <1>2, <1>3, <1>11 DEF FinishLoop, sessionVars
<1> QED
  BY <1>5, <1>6, <1>7, <1>8, <1>9, <1>10, <1>11 DEF LoopStep

\* Every step of the loop measures on top of those writes.
LEMMA LoopStepMeasured ==
  ASSUME SessionTypeOK, LoopTypeOK, LoopControl, WorkInv, MeasuredInv, LoopStep
  PROVE  MeasuredInv'
<1> USE DEF MeasuredInv, MeasuredOnEarlierWrites, LoopTypeOK
<1>1. UNCHANGED <<queries, confirmed>>
  BY DEF LoopStep, SkipBlocked, SkipRefused, SkipDropped, ArmTimeout, Analyze,
         RaiseMalformed, SkipNoRow, SkipError, SkipTimeout, FinishLoop, Skip
<1>2. \A p : WritesBefore(p)' = WritesBefore(p)
  BY <1>1 DEF WritesBefore, Blocked
<1>3. CASE Analyze
  <2>1. /\ perQuery' = Append(perQuery, [query |-> position, over |-> work])
        /\ position' = position + 1
        /\ position \in Nat
        /\ work = WritesBefore(position)
        /\ position >= 1
    BY <1>3 DEF Analyze, LoopControl, WorkInv
  <2>2. Len(perQuery') = Len(perQuery) + 1
    BY <2>1
  <2>3. /\ perQuery'[Len(perQuery) + 1] = [query |-> position, over |-> work]
        /\ \A k \in 1 .. Len(perQuery) : perQuery'[k] = perQuery[k]
    BY <2>1
  <2>4. ASSUME NEW k \in 1 .. Len(perQuery')
        PROVE  /\ perQuery'[k].query \in 1 .. position
               /\ perQuery'[k].over = WritesBefore(perQuery'[k].query)
    <3>1. CASE k \in 1 .. Len(perQuery)
      BY <2>1, <2>3, <3>1
    <3>2. CASE k = Len(perQuery) + 1
      BY <2>1, <2>3, <3>2
    <3> QED
      BY <2>2, <3>1, <3>2
  <2> QED
    BY <1>2, <2>1, <2>4
<1>4. CASE ~Analyze
  <2>1. perQuery' = perQuery /\ position' \in {position, position + 1}
    BY <1>4 DEF LoopStep, SkipBlocked, SkipRefused, SkipDropped, ArmTimeout,
         RaiseMalformed, SkipNoRow, SkipError, SkipTimeout, FinishLoop, Skip
  <2> QED
    BY <1>2, <2>1
<1> QED
  BY <1>3, <1>4

\* Every step of the loop takes the lock for a query that is not blocked.
LEMMA LoopStepLock ==
  ASSUME SessionTypeOK, LoopTypeOK, LoopControl, LockInv, LoopStep
  PROVE  LockInv'
<1> USE DEF LockInv, LoopTypeOK
<1>1. UNCHANGED <<queries, confirmed>>
  BY DEF LoopStep, SkipBlocked, SkipRefused, SkipDropped, ArmTimeout, Analyze,
         RaiseMalformed, SkipNoRow, SkipError, SkipTimeout, FinishLoop, Skip
<1>2. \A i \in 1 .. Len(queries) : Blocked(queries[i])' = Blocked(queries[i])
  BY <1>1 DEF Blocked
<1>3. CASE Analyze \/ SkipNoRow \/ RaiseMalformed
  <2>1. /\ position \in 1 .. Len(queries)
        /\ ~Blocked(Current)
        /\ position' \in {position, position + 1}
        /\ Ran(position, Current.effect)
    BY <1>3 DEF Analyze, SkipNoRow, RaiseMalformed, Skip, LoopControl
  <2>2. CASE Current.effect = "none"
    BY <1>1, <1>2, <2>1, <2>2 DEF Ran, Autocommit
  <2>3. CASE Current.effect # "none"
    BY <1>1, <1>2, <2>1, <2>3 DEF Current
  <2> QED
    BY <2>2, <2>3
<1>4. CASE SkipError \/ SkipTimeout
  BY <1>4 DEF SkipError, SkipTimeout, Raised, LockLeft
<1>5. CASE SkipBlocked \/ SkipRefused \/ SkipDropped \/ ArmTimeout \/ FinishLoop
  <2>1. lock' = lock /\ position' \in {position, position + 1}
    BY <1>5 DEF SkipBlocked, SkipRefused, SkipDropped, ArmTimeout, FinishLoop,
                Skip, sessionVars
  <2> QED
    BY <1>1, <1>2, <2>1
<1> QED
  BY <1>3, <1>4, <1>5 DEF LoopStep

-----------------------------------------------------------------------------
(* The account of the queries.                                             *)

\* Skipping a query that has no verdict yet gives it one.
LEMMA SkipAccounted ==
  ASSUME LoopTypeOK, LoopControl, EveryQueryAccounted, NEW why, Skip(why)
  PROVE  EveryQueryAccounted'
<1> USE DEF LoopTypeOK, LoopControl
<1>1. position \in Nat /\ position >= 1 /\ position' = position + 1
  BY DEF Skip
<1>2. Analyzed' = Analyzed
  BY DEF Skip, Analyzed
<1>3. SkippedQueries' = SkippedQueries \union {position}
  <2> DEFINE new == [query |-> position, why |-> why]
  <2>1. skipped' = skipped \union {new} /\ new.query = position
    BY DEF Skip
  <2>2. SkippedQueries' \subseteq SkippedQueries \union {position}
    BY <2>1 DEF SkippedQueries
  <2>3. SkippedQueries \subseteq SkippedQueries'
    BY <2>1 DEF SkippedQueries
  <2>4. position \in SkippedQueries'
    BY <2>1 DEF SkippedQueries
  <2> QED
    BY <2>2, <2>3, <2>4
<1>4. position \notin Analyzed
  BY <1>1 DEF EveryQueryAccounted
<1>5. Analyzed' \union SkippedQueries' = 1 .. (position' - 1)
  BY <1>1, <1>2, <1>3 DEF EveryQueryAccounted
<1>6. Analyzed' \intersect SkippedQueries' = {}
  BY <1>2, <1>3, <1>4 DEF EveryQueryAccounted
<1> QED
  <2>1. perQuery' = perQuery
    BY DEF Skip
  <2>2. \A j, k \in 1 .. Len(perQuery') :
          j < k => perQuery'[j].query < perQuery'[k].query
    BY <2>1 DEF EveryQueryAccounted
  <2> QED
    BY <1>5, <1>6, <2>2 DEF EveryQueryAccounted

\* So does analyzing it, and it comes after all queries analyzed before.
LEMMA AnalyzeAccounted ==
  ASSUME LoopTypeOK, LoopControl, EveryQueryAccounted, Analyze
  PROVE  EveryQueryAccounted'
<1> USE DEF LoopTypeOK, LoopControl
<1> DEFINE new == [query |-> position, over |-> work]
<1>1. /\ position \in Nat /\ position >= 1 /\ position' = position + 1
      /\ perQuery' = Append(perQuery, new)
      /\ skipped' = skipped
  BY DEF Analyze
<1>2. /\ Len(perQuery') = Len(perQuery) + 1
      /\ perQuery'[Len(perQuery) + 1].query = position
      /\ \A k \in 1 .. Len(perQuery) : perQuery'[k] = perQuery[k]
  BY <1>1
<1>3. Analyzed' = Analyzed \union {position}
  <2>1. Analyzed' \subseteq Analyzed \union {position}
    <3>1. ASSUME NEW k \in 1 .. Len(perQuery')
          PROVE  perQuery'[k].query \in Analyzed \union {position}
      <4>1. k \in 1 .. Len(perQuery) \/ k = Len(perQuery) + 1
        BY <1>2
      <4> QED
        BY <1>2, <4>1 DEF Analyzed
    <3> QED
      BY <3>1 DEF Analyzed
  <2>2. position \in Analyzed'
    <3>1. Len(perQuery) + 1 \in 1 .. Len(perQuery')
      BY <1>2
    <3> QED
      BY <1>2, <3>1 DEF Analyzed
  <2>3. Analyzed \subseteq Analyzed'
    BY <1>2 DEF Analyzed
  <2> QED
    BY <2>1, <2>2, <2>3
<1>4. SkippedQueries' = SkippedQueries
  BY <1>1 DEF SkippedQueries
<1>5. position \notin SkippedQueries /\ \A i \in Analyzed : i < position
  BY <1>1 DEF EveryQueryAccounted
<1>6. Analyzed' \union SkippedQueries' = 1 .. (position' - 1)
  BY <1>1, <1>3, <1>4 DEF EveryQueryAccounted
<1>7. Analyzed' \intersect SkippedQueries' = {}
  BY <1>3, <1>4, <1>5 DEF EveryQueryAccounted
<1>8. ASSUME NEW j \in 1 .. Len(perQuery'), NEW k \in 1 .. Len(perQuery'), j < k
      PROVE  perQuery'[j].query < perQuery'[k].query
  <2>1. j \in 1 .. Len(perQuery)
    BY <1>2, <1>8
  <2>4. perQuery[j].query \in Analyzed
    BY <2>1 DEF Analyzed
  <2>2. CASE k = Len(perQuery) + 1
    BY <1>2, <1>5, <2>1, <2>2, <2>4
  <2>3. CASE k \in 1 .. Len(perQuery)
    BY <1>2, <1>8, <2>1, <2>3 DEF EveryQueryAccounted
  <2> QED
    BY <1>2, <2>2, <2>3
<1> QED
  BY <1>6, <1>7, <1>8 DEF EveryQueryAccounted

\* A step that leaves the results and the position alone keeps the account.
LEMMA AccountStable ==
  ASSUME EveryQueryAccounted, UNCHANGED <<perQuery, skipped, position>>
  PROVE  EveryQueryAccounted'
BY DEF EveryQueryAccounted, Analyzed, SkippedQueries

\* Every step of the loop keeps the account.
LEMMA LoopStepAccounted ==
  ASSUME LoopTypeOK, LoopControl, EveryQueryAccounted, LoopStep
  PROVE  EveryQueryAccounted'
<1>1. CASE Analyze
  BY <1>1, AnalyzeAccounted
<1>2. CASE \E why : Skip(why)
  BY <1>2, SkipAccounted
<1>3. CASE ArmTimeout \/ RaiseMalformed \/ FinishLoop
  BY <1>3, AccountStable DEF ArmTimeout, RaiseMalformed, FinishLoop
<1>4. SkipBlocked \/ SkipRefused \/ SkipNoRow \/ SkipError \/ SkipTimeout
        \/ SkipDropped => \E why : Skip(why)
  BY DEF SkipBlocked, SkipRefused, SkipNoRow, SkipError, SkipTimeout, SkipDropped
<1> QED
  BY <1>1, <1>2, <1>3, <1>4 DEF LoopStep

-----------------------------------------------------------------------------
(* The invariant of the loop.                                              *)

LoopInv ==
  /\ LoopControl
  /\ WorkInv
  /\ MeasuredInv
  /\ LockInv
  /\ EveryQueryAccounted
  /\ NothingDurable

\* Every step of the loop preserves it.
LEMMA LoopStepInv ==
  ASSUME SessionTypeOK, LoopTypeOK, LoopInv, LoopStep
  PROVE  LoopInv'
<1>1. NothingDurable'
  BY DEF LoopInv, NothingDurable, LoopStep, SkipBlocked, SkipRefused, SkipDropped,
         ArmTimeout, Analyze, RaiseMalformed, SkipNoRow, SkipError, SkipTimeout,
         FinishLoop, Ran, Raised, Autocommit, sessionVars
<1> QED
  BY <1>1, LoopStepControl, LoopStepWork, LoopStepMeasured, LoopStepLock,
     LoopStepAccounted DEF LoopInv

\* A step outside the loop preserves it if it leaves the loop alone, makes no
\* write durable, adds no write, takes no lock for the run and revives no
\* transaction: closing the connection, what the world does, the statements a
\* command runs for itself, and stuttering.
LEMMA OutsideInv ==
  ASSUME LoopTypeOK, LoopInv, UNCHANGED loopVars, durable' = durable,
         work' = work \/ work' = {},
         lock' = "run" => lock = "run",
         conn' = "open" => conn = "open",
         conn' = "open" /\ txn' # "failed" => txn # "failed" /\ work' = work,
         loop = "armed" => txn' = txn \/ conn' # "open"
  PROVE  LoopInv'
<1> USE DEF loopVars
<1>1. \A p : WritesBefore(p)' = WritesBefore(p)
  BY DEF WritesBefore, Blocked
<1>2. \A i \in 1 .. Len(queries) : Blocked(queries[i])' = Blocked(queries[i])
  BY DEF Blocked
<1>3. LoopControl'
  BY DEF LoopInv, LoopControl, Blocked, Current
<1>4. WorkInv'
  BY <1>1, <1>2 DEF LoopInv, WorkInv
<1>5. MeasuredInv'
  BY <1>1 DEF LoopInv, MeasuredInv, MeasuredOnEarlierWrites
<1>6. LockInv'
  BY <1>2 DEF LoopInv, LockInv
<1>7. EveryQueryAccounted'
  BY AccountStable DEF LoopInv
<1> QED
  BY <1>3, <1>4, <1>5, <1>6, <1>7 DEF LoopInv, NothingDurable

\* The world's steps are such steps, and so is closing the connection.
LEMMA WorldOutside ==
  ASSUME World \/ Closed
  PROVE  /\ durable' = durable
         /\ work' = work \/ work' = {}
         /\ lock' = "run" => lock = "run"
         /\ conn' = "open" => conn = "open"
         /\ conn' = "open" /\ txn' # "failed" => txn # "failed" /\ work' = work
         /\ txn' = txn \/ conn' # "open"
BY DEF World, AppLocks, AppReleases, ServerDrops, Closed, LockLeft

\* The loop and its connection before they are used.
Untouched ==
  /\ conn = "none" /\ txn = "idle" /\ work = {} /\ lock # "run" /\ durable = {}
  /\ loop = "idle" /\ position = 1 /\ perQuery = <<>> /\ skipped = {}

\* The workload is known, no query was tried yet.
Fresh ==
  /\ queries \in Seq(Explainable) /\ position = 1 /\ perQuery = <<>> /\ skipped = {}
  /\ loop # "armed" /\ work = {} /\ durable = {} /\ lock # "run"

\* The invariant holds before the loop starts and when it starts.
LEMMA FreshInv == Fresh => LoopInv
<1> SUFFICES ASSUME Fresh PROVE LoopInv
  OBVIOUS
<1> USE DEF Fresh
<1>1. WritesBefore(1) = {}
  BY DEF WritesBefore
<1>2. Analyzed = {} /\ SkippedQueries = {}
  BY DEF Analyzed, SkippedQueries
<1>3. EveryQueryAccounted
  BY <1>2 DEF EveryQueryAccounted
<1>4. LoopControl
  BY DEF LoopControl
<1>5. WorkInv /\ MeasuredInv /\ LockInv /\ NothingDurable
  BY <1>1 DEF WorkInv, MeasuredInv, MeasuredOnEarlierWrites, LockInv, NothingDurable
<1> QED
  BY <1>3, <1>4, <1>5 DEF LoopInv

\* The allowlist and the list of node types leave no query that has an effect,
\* but for those that call a volatile function or select INTO a table.
LEMMA NotMutatingReads ==
  ASSUME NEW s \in Statement, ~IsMutating(s), ~s.volatile, "Into" \notin s.nodes
  PROVE  s.effect = "none"
<1>1. /\ EffectAccountedFor(s) /\ s.effect \in Effects
      /\ s.nodes \subseteq WritingNodes \union LockingNodes
  BY DEF Statement
<1>2. s.root \in QueryRoots
  BY DEF IsMutating, ReadOnlyRoots, QueryRoots
<1>3. s.nodes = {}
  BY <1>1 DEF IsMutating, WriteNodes, WritingNodes, LockingNodes
<1> QED
  BY <1>1, <1>2, <1>3 DEF EffectAccountedFor

\* So without confirmation a workload that does neither only reads.
LEMMA UnconfirmedReads ==
  ASSUME LoopTypeOK, LoopInv
  PROVE  ReadOnlyUnlessConfirmed
<1> SUFFICES ASSUME ~confirmed,
                    \A i \in DOMAIN queries :
                       ~queries[i].volatile /\ "Into" \notin queries[i].nodes
             PROVE  work = {} /\ lock # "run"
  BY DEF ReadOnlyUnlessConfirmed
<1>1. /\ DOMAIN queries = 1 .. Len(queries)
      /\ \A i \in 1 .. Len(queries) : queries[i] \in Statement
  BY DEF LoopTypeOK, Explainable
<1>2. \A i \in 1 .. Len(queries) : ~Blocked(queries[i]) => queries[i].effect = "none"
  BY <1>1, NotMutatingReads DEF Blocked
<1> QED
  BY <1>2 DEF LoopInv, WorkInv, LockInv

-----------------------------------------------------------------------------
(* The verdicts.                                                           *)

\* The verdicts are a sequence as long as the queries they are about.
LEMMA VerdictsSeq ==
  ASSUME position \in Nat, position >= 1
  PROVE  /\ Verdicts \in Seq({"analyzed", "skipped"})
         /\ Len(Verdicts) = position - 1
<1> DEFINE n == position - 1
<1>1. n \in Nat
  OBVIOUS
<1>2. Verdicts \in [1 .. n -> {"analyzed", "skipped"}]
  BY DEF Verdicts
<1> QED
  BY <1>1, <1>2

\* A step of the loop leaves the verdicts alone or appends one.
LEMMA LoopStepVerdicts ==
  ASSUME LoopTypeOK, LoopControl, EveryQueryAccounted, LoopStep
  PROVE  \/ Verdicts' = Verdicts
         \/ /\ position <= Len(queries)
            /\ \E v \in {"analyzed", "skipped"} : Verdicts' = Append(Verdicts, v)
<1> USE DEF LoopTypeOK, LoopControl
<1>1. CASE ArmTimeout \/ RaiseMalformed \/ FinishLoop
  BY <1>1 DEF ArmTimeout, RaiseMalformed, FinishLoop, Verdicts, Analyzed
<1>2. CASE ~(ArmTimeout \/ RaiseMalformed \/ FinishLoop)
  <2>1. position <= Len(queries) /\ position' = position + 1
    BY <1>2 DEF LoopStep, SkipBlocked, SkipRefused, SkipNoRow, SkipError,
                SkipTimeout, SkipDropped, Analyze, Skip, AtQuery
  <2>2. \A i \in 1 .. (position - 1) : i \in Analyzed' <=> i \in Analyzed
    <3>1. CASE perQuery' = perQuery
      BY <3>1 DEF Analyzed
    <3>2. CASE Analyze
      <4> DEFINE new == [query |-> position, over |-> work]
      <4>1. perQuery' = Append(perQuery, new) /\ new.query = position
        BY <3>2 DEF Analyze
      <4>2. /\ Len(perQuery') = Len(perQuery) + 1
            /\ perQuery'[Len(perQuery) + 1].query = position
            /\ \A k \in 1 .. Len(perQuery) : perQuery'[k] = perQuery[k]
        BY <4>1
      <4>3. \A k \in 1 .. Len(perQuery') :
              k \in 1 .. Len(perQuery) \/ k = Len(perQuery) + 1
        BY <4>2
      <4>4. \A k \in 1 .. Len(perQuery) : k \in 1 .. Len(perQuery')
        BY <4>2
      <4>5. Analyzed \subseteq Analyzed'
        BY <4>2, <4>4 DEF Analyzed
      <4>6. ASSUME NEW k \in 1 .. Len(perQuery'), perQuery'[k].query # position
            PROVE  perQuery'[k].query \in Analyzed
        <5>1. k \in 1 .. Len(perQuery)
          BY <4>2, <4>3, <4>6
        <5> QED
          BY <4>2, <5>1 DEF Analyzed
      <4>7. \A i \in Analyzed' : i # position => i \in Analyzed
        BY <4>6 DEF Analyzed
      <4> QED
        BY <4>5, <4>7
    <3> QED
      BY <1>2, <3>1, <3>2 DEF LoopStep, SkipBlocked, SkipRefused, SkipNoRow,
                              SkipError, SkipTimeout, SkipDropped, Skip
  <2> DEFINE v == IF position \in Analyzed' THEN "analyzed" ELSE "skipped"
  <2>3. Verdicts' = [i \in 1 .. position |->
                       IF i \in Analyzed' THEN "analyzed" ELSE "skipped"]
    BY <2>1 DEF Verdicts
  <2>4. Append(Verdicts, v) = [i \in 1 .. position |->
                                 IF i = position THEN v ELSE Verdicts[i]]
    BY <2>1, VerdictsSeq
  <2>5. \A i \in 1 .. (position - 1) :
          Verdicts[i] = IF i \in Analyzed THEN "analyzed" ELSE "skipped"
    BY DEF Verdicts
  <2>6. Verdicts' = Append(Verdicts, v)
    BY <2>1, <2>2, <2>3, <2>4, <2>5
  <2> QED
    BY <2>1, <2>6
<1> QED
  BY <1>1, <1>2
=============================================================================
