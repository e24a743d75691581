----------------------------- MODULE AdviceRun ------------------------------
(***************************************************************************)
(* How the findings of a run become advice: the queries that were analyzed *)
(* go to the index advisor, all texts to the anti-pattern detectors, and   *)
(* everything, with the findings on the catalog if the run is an audit, to *)
(* the recommendation engine (services.py:97-177, audit_service.py:67-168).*)
(***************************************************************************)
EXTENDS RecommendationEngine, IndexAdvisor, AntiPatterns

CONSTANTS
  Structures,    \* texts without their literals
  Workloads,     \* sequences of queries with what was found on their plans
  Drops          \* sequences of findings of the index hygiene detectors

Entry ==
  [query : Query,
   text : Text(Tables \union {None}, Columns \union {None}, Structures),
   analyzed : BOOLEAN,            \* its EXPLAIN was not skipped
   findings : Seq(Finding)]       \* of the plan analyzer, if it was not

Drop == [code : {"DUPLICATE_INDEX", "UNUSED_INDEX"}, relation : Tables]

ASSUME WorkloadsAssumption == Workloads \subseteq Seq(Entry)
ASSUME DropsAssumption == Drops \subseteq Seq(Drop)
ASSUME RelationsAssumption == Tables \union {None} \subseteq Relations

VARIABLES
  workload,      \* the queries
  visited,       \* to how many of those analyzed the advisor has come
  pending,       \* what it recommends for the last of them and has yet to merge
  advised        \* index_recommendations

advisorVars == <<workload, visited, pending, advised>>

vars == <<engineVars, advisorVars>>

-----------------------------------------------------------------------------
Item(code, relation, severity, confidence) ==
  [code |-> code, relation |-> relation, severity |-> severity, confidence |-> confidence]

PerQuery(entries) == At(entries, {i \in DOMAIN entries : entries[i].analyzed})

IndexItems(recs) ==
  [i \in DOMAIN recs |-> Item("INDEX", recs[i].table, "HIGH", recs[i].confidence)]

\* Observed behaviour: how sure the finding is follows from how bad it is.
PlanItems(entries) ==
  LET perQuery == PerQuery(entries)
      findings == FlattenSeq([i \in DOMAIN perQuery |-> perQuery[i].findings])
  IN  [i \in DOMAIN findings |->
         Item(findings[i].code, findings[i].relation,
              findings[i].severity, findings[i].severity)]

\* Syntax is certain; whether a repetition is an N+1 is not.
AntiPatternItems(entries) ==
  LET findings == AnalyzeTexts([i \in DOMAIN entries |-> entries[i].text])
  IN  [i \in DOMAIN findings |->
         Item(findings[i].code, findings[i].relation, findings[i].severity,
              IF findings[i].code = "N_PLUS_ONE" THEN "MEDIUM" ELSE "HIGH")]

HygieneItems(drops) ==
  [i \in DOMAIN drops |->
     Item(drops[i].code, drops[i].relation, "MEDIUM",
          IF drops[i].code = "DUPLICATE_INDEX" THEN "HIGH" ELSE "MEDIUM")]

InputOf(entries, recs, drops) ==
  [index       |-> IndexItems(recs),
   plan        |-> PlanItems(entries),
   antiPattern |-> AntiPatternItems(entries),
   hygiene     |-> HygieneItems(drops)]

\* The advisor comes first; the engine has not been called.
AdviceInit ==
  /\ workload \in Workloads
  /\ visited = 0
  /\ pending = <<>>
  /\ advised = <<>>
  /\ stage = "advise"
  /\ input = [source \in Sources |-> <<>>]
  /\ todo = {}
  /\ ranked = {}
  /\ recommendations = <<>>

\* recommend_for_workload: the next query that was analyzed.
NextQuery ==
  /\ stage = "advise"
  /\ pending = <<>>
  /\ visited < Len(PerQuery(workload))
  /\ visited' = visited + 1
  /\ LET entry == PerQuery(workload)[visited + 1]
     IN  pending' = RecommendForQuery(entry.query, entry.findings)
  /\ UNCHANGED <<engineVars, workload, advised>>

MergeNext ==
  /\ pending # <<>>
  /\ advised' = Merge(advised, Head(pending))
  /\ pending' = Tail(pending)
  /\ UNCHANGED <<engineVars, workload, visited>>

\* The call of generate.
Generate ==
  /\ stage = "advise"
  /\ pending = <<>>
  /\ visited = Len(PerQuery(workload))
  /\ \E drops \in Drops : input' = InputOf(workload, advised, drops)
  /\ stage' = "index"
  /\ todo' = Heads("index")'
  /\ UNCHANGED <<ranked, recommendations, advisorVars>>

AdviceNext ==
  \/ NextQuery
  \/ MergeNext
  \/ Generate
  \/ Next /\ UNCHANGED advisorVars

AdviceSpec == AdviceInit /\ [][AdviceNext]_vars

-----------------------------------------------------------------------------
AdviceTypeOK ==
  /\ stage # "advise" => TypeOK
  /\ recommendations \in Seq(Recommendation)
  /\ workload \in Seq(Entry)
  /\ visited \in Nat
  /\ pending \in Seq(IndexRec)
  /\ advised \in Seq(IndexRec)

\* The queries whose plan has a large sequential scan of the table.
FlaggedFor(table) ==
  {entry \in ToSet(PerQuery(workload)) :
     \E f \in ToSet(entry.findings) :
        f.code = "SEQ_SCAN_LARGE_TABLE" /\ f.relation = table}

\* What PostgreSQL has a query call a table it reads: by its alias, if it has one.
CalledAs(source) == IF source.alias = None THEN source.name ELSE source.alias

\* The reference is clearly to a column of the table: by what the query calls it,
\* or because it reads nothing else.
RefersTo(ref, table, query) ==
  \E source \in ToSet(query.from) :
     /\ source.name = table
     /\ \/ ref.qualifier = CalledAs(source)
        \/ ref.qualifier = None /\ Len(query.from) = 1

\* The query reads the table once, no name stands for one table and is the name or
\* the alias of another, and columns are qualified with what the query calls its
\* tables.  For two readings of one table, as in a self-join, the code makes one key
\* of the columns of both.
ReadOnce(query, table) ==
  /\ \A i, j \in DOMAIN query.from :
        query.from[i].name = table /\ query.from[j].name = table => i = j
  /\ \A s, t \in ToSet(query.from) :
        s.name # t.name => CalledAs(s) \notin {t.name, t.alias}
  /\ \A refs \in {query.equality, query.range, query.join, query.orderBy} :
        \A ref \in ToSet(refs) :
           ref.qualifier \in {None} \union {CalledAs(s) : s \in ToSet(query.from)}

ColumnsIn(refs, table, query) ==
  {ref.column : ref \in {r \in ToSet(refs) : RefersTo(r, table, query)}}

\* Columns compared with one value: for a join the other table's in the row it is
\* at, so that what follows is about one probe of the join.
Fixed(query, table) ==
  ColumnsIn(query.equality, table, query) \union ColumnsIn(query.join, table, query)

Ranged(query, table) == ColumnsIn(query.range, table, query)

\* Entries of an index have one of three values in each of its columns, and are in
\* the order of the first column they differ in.  Equality is with 1, ranges are
\* upwards from 1.
Entries(key) == [DOMAIN key -> 0 .. 2]

Precedes(d, e) ==
  \E n \in DOMAIN d : d[n] < e[n] /\ \A m \in DOMAIN d : m < n => d[m] = e[m]

EntriesFor(query, table, key) ==
  {d \in Entries(key) :
     \A n \in DOMAIN key :
        /\ key[n] \in Fixed(query, table) => d[n] = 1
        /\ key[n] \in Ranged(query, table) => d[n] >= 1}

\* The entries the query needs lie side by side, and all of its equalities, and
\* a range if it has one, narrow them down.
Seeks(query, table, key) ==
  LET needed == EntriesFor(query, table, key)
  IN  /\ \A d, e \in needed : \A between \in Entries(key) :
            Precedes(d, between) /\ Precedes(between, e) => between \in needed
      /\ Fixed(query, table) \subseteq ToSet(key)
      /\ Ranged(query, table) # {} => Ranged(query, table) \intersect ToSet(key) # {}

\* The query wants its rows sorted by columns of this table, in one direction,
\* and nothing but equality filters them.
WantsOrder(query, table) ==
  /\ query.orderBy # <<>>
  /\ \A ref \in ToSet(query.orderBy) :
        RefersTo(ref, table, query) /\ ref.desc = query.orderBy[1].desc
  /\ Fixed(query, table) # {}
  /\ Ranged(query, table) = {}

\* Read in index order, the rows are in the order of the query.
Sorts(query, table, key) ==
  LET order == Collected(query.orderBy, table, query)
      InOrder(d) ==
        [k \in DOMAIN order |-> d[CHOOSE n \in DOMAIN key : key[n] = order[k]]]
  IN  /\ {ref.column : ref \in ToSet(query.orderBy)} \subseteq ToSet(key)
      /\ \A d, e \in EntriesFor(query, table, key) :
            Precedes(d, e) => ~Precedes(InOrder(e), InOrder(d))

(* A query with a large sequential scan of a table that it reads once and  *)
(* filters, by AND alone, is advised an index in which what it needs, for  *)
(* one row of the other tables, is one contiguous stretch                  *)
(* (index_advisor.py:60-70, recommendation_builders.py:246-251).           *)
FlaggedScansSeek ==
  stage = "done" =>
    \A table \in Tables : \A entry \in FlaggedFor(table) :
       LET query == entry.query
       IN  /\ query.conjunctive
           /\ ReadOnce(query, table)
           /\ Fixed(query, table) \union Ranged(query, table) # {}
           => \E rec \in ToSet(advised) :
                 rec.table = table /\ Seeks(query, table, rec.columns)

(* If equality alone filters the table and the query wants its rows sorted *)
(* by its columns, the index is one that yields them in that order, those  *)
(* of one probe if the table is joined (index_advisor.py:71-75).           *)
FlaggedScansSort ==
  stage = "done" =>
    \A table \in Tables : \A entry \in FlaggedFor(table) :
       LET query == entry.query
       IN  query.conjunctive /\ ReadOnce(query, table) /\ WantsOrder(query, table)
           => \E rec \in ToSet(advised) :
                 /\ rec.table = table
                 /\ Seeks(query, table, rec.columns)
                 /\ Sorts(query, table, rec.columns)

\* The recommendations of the queries, before they are merged.
Unmerged ==
  UNION {ToSet(RecommendForQuery(entry.query, entry.findings)) :
           entry \in ToSet(PerQuery(workload))}

Definition(rec) == <<rec.table, rec.columns, rec.included>>

(* The merge over the workload keeps exactly the definitions the queries   *)
(* asked for, each once and with the highest confidence any of them had    *)
(* (index_advisor.py:195-203).                                             *)
MergeIsExact ==
  stage # "advise" =>
    /\ {Definition(rec) : rec \in ToSet(advised)} = {Definition(rec) : rec \in Unmerged}
    /\ \A i, j \in DOMAIN advised :
          Definition(advised[i]) = Definition(advised[j]) => i = j
    /\ \A rec \in ToSet(advised) :
          rec.confidence = "HIGH" <=>
            \E asked \in Unmerged :
               Definition(asked) = Definition(rec) /\ asked.confidence = "HIGH"

(* Documented (create_index.py:3): the CREATE INDEX statements are ready   *)
(* to run.  So those of one report do not create the same name twice.  It  *)
(* does not hold: two indexes on one key with different INCLUDE columns    *)
(* have one name.                                                          *)
StatementsRunTogether ==
  stage = "done" =>
    \A i, j \in DOMAIN advised : IndexName(advised[i]) = IndexName(advised[j]) => i = j
=============================================================================
