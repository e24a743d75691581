---------------------------- MODULE IndexAdvisor ----------------------------
(***************************************************************************)
(* From a query and the findings on its plan to indexes that would help    *)
(* it: column usage (advisor/column_usage.py), the key and the INCLUDE     *)
(* columns of an index, and the merge of the indexes of a workload         *)
(* (advisor/index_advisor.py).                                             *)
(*                                                                         *)
(* A query is the tables it reads and the lists of column references the   *)
(* extraction walks over, in the order it meets them.  Columns it does not *)
(* collect (compared by IN, LIKE, IS NULL ...) are not part of the record. *)
(***************************************************************************)
EXTENDS Integers, FiniteSets, SequencesExt

CONSTANTS
  Tables, Columns,
  Aliases,            \* a table can be read under one
  MaxIncluded         \* covering_index_max_included_columns

ASSUME MaxIncludedAssumption == MaxIncluded \in Nat

None == "none"        \* no alias, no qualifier, and no relation

ASSUME TablesAssumption == None \notin Tables \union Aliases

Codes == {"SEQ_SCAN_LARGE_TABLE", "NESTED_LOOP_LARGE_ROWCOUNT",
          "SORT_SPILLED_TO_DISK", "CARDINALITY_MISESTIMATION"}

\* No detector of the plan analyzer calls a finding LOW.
Severities == {"HIGH", "MEDIUM"}

Finding == [code : Codes, relation : Tables \union {None}, severity : Severities]

Source == [name : Tables, alias : Aliases \union {None}]

Qualifiers == Tables \union Aliases \union {None}

ColumnRef == [qualifier : Qualifiers, column : Columns]

Query ==
  [from        : Seq(Source),     \* every table of the statement, as it is met
   equality    : Seq(ColumnRef),  \* compared with a value
   range       : Seq(ColumnRef),  \* compared with a value by <, <=, >, >=, BETWEEN
   join        : Seq(ColumnRef),  \* compared with another column
   orderBy     : Seq([qualifier : Qualifiers, column : Columns, desc : BOOLEAN]),
   selected    : Seq(ColumnRef),
   star        : SUBSET Tables,   \* all of whose columns are selected
   conjunctive : BOOLEAN]         \* the predicates are joined by AND alone

-----------------------------------------------------------------------------
(* Lists.                                                                  *)

\* The n-th of some positions.
Nth(positions, n) ==
  CHOOSE i \in positions : Cardinality({j \in positions : j < i}) = n - 1

\* The members of a list at these positions, in the order of the list.
At(list, positions) ==
  [n \in 1 .. Cardinality(positions) |-> list[Nth(positions, n)]]

\* Members are added as they are met, unless they are there already.
Distinct(list) ==
  At(list, {i \in DOMAIN list : \A j \in 1 .. (i - 1) : list[j] # list[i]})

NotIn(columns, key) == At(columns, {i \in DOMAIN columns : columns[i] \notin ToSet(key)})

First(list) == IF list = <<>> THEN <<>> ELSE <<Head(list)>>

-----------------------------------------------------------------------------
(* Column usage.                                                           *)

\* The alias map has an entry for the name of every table and one for its alias.
EntriesOf(qualifier, query) ==
  {i \in DOMAIN query.from : qualifier \in {query.from[i].name, query.from[i].alias}}

\* The later entry of the map replaces an earlier one.  A qualifier that has none
\* is taken for the name of a table.
ResolvesTo(qualifier, table, query) ==
  LET entries == EntriesOf(qualifier, query)
  IN  \/ entries = {} /\ qualifier = table
      \/ \E i \in entries : (\A j \in entries : j <= i) /\ query.from[i].name = table

\* An unqualified column is attributed only if there is one table.
BelongsTo(ref, table, query) ==
  IF ref.qualifier = None
    THEN {source.name : source \in ToSet(query.from)} = {table}
    ELSE ResolvesTo(ref.qualifier, table, query)

\* The distinct columns of the table, in the order they are first seen.
Collected(refs, table, query) ==
  LET own == At(refs, {i \in DOMAIN refs : BelongsTo(refs[i], table, query)})
  IN  Distinct([i \in DOMAIN own |-> own[i].column])

Usage(query, table) ==
  [equality |-> Collected(query.equality, table, query),
   range    |-> Collected(query.range, table, query),
   join     |-> Collected(query.join, table, query),
   orderBy  |-> Collected(query.orderBy, table, query),
   selected |-> Collected(query.selected, table, query),
   star     |-> table \in query.star]

-----------------------------------------------------------------------------
(* The index for one table of one query.                                   *)

EqualityTier(usage) == Distinct(usage.equality \o usage.join)

\* Mutant of IndexKey: columns as they are seen, ranges before joins.
KeyAsSeen(usage) == Distinct(usage.equality \o usage.range \o usage.join)

\* Mutant of IndexKey: one column of the ORDER BY, as of the ranges.
KeyWithOneOrderColumn(usage) ==
  LET tier == EqualityTier(usage)
  IN  tier \o First(NotIn(usage.range \o usage.orderBy, tier))

\* Equality and join columns; then one range column, or, if nothing is
\* filtered by range, the columns of the ORDER BY.
IndexKey(usage) ==
  LET tier == EqualityTier(usage)
  IN  CASE usage.range # <<>> -> tier \o First(NotIn(usage.range, tier))
        [] usage.range = <<>> /\ tier # <<>> -> Distinct(tier \o usage.orderBy)
        [] OTHER -> <<>>

CoveringColumns(usage, key) ==
  LET extra == NotIn(usage.selected, key)
  IN  IF usage.star \/ Len(extra) > MaxIncluded THEN <<>> ELSE extra

IndexRec ==
  [table : Tables, columns : Seq(Columns), included : Seq(Columns),
   confidence : {"HIGH", "MEDIUM"}]

Recommended(query, finding) ==
  LET usage == Usage(query, finding.relation)
      key   == IndexKey(usage)
  IN  [table      |-> finding.relation,
       columns    |-> key,
       included   |-> CoveringColumns(usage, key),
       confidence |-> IF finding.severity = "HIGH" THEN "HIGH" ELSE "MEDIUM"]

Usable(query, finding) ==
  /\ finding.code = "SEQ_SCAN_LARGE_TABLE"
  /\ finding.relation # None
  /\ IndexKey(Usage(query, finding.relation)) # <<>>

\* One index per large sequential scan of a table with usable columns.
RecommendForQuery(query, findings) ==
  LET usable == At(findings, {i \in DOMAIN findings : Usable(query, findings[i])})
  IN  [i \in DOMAIN usable |-> Recommended(query, usable[i])]

\* Create_index.index_name: the INCLUDE columns do not contribute.
IndexName(rec) == <<rec.table, rec.columns>>

-----------------------------------------------------------------------------
(* The merge of the indexes of a workload.                                 *)

\* Mutant of SameIndex: indexes are told apart by their names.
SameName(r, s) == r.table = s.table /\ r.columns = s.columns

SameIndex(r, s) ==
  r.table = s.table /\ r.columns = s.columns /\ r.included = s.included

\* The first of equal indexes stays, with the highest confidence seen.
Merge(merged, rec) ==
  IF \E i \in DOMAIN merged : SameIndex(merged[i], rec)
    THEN [i \in DOMAIN merged |->
            IF SameIndex(merged[i], rec) /\ rec.confidence = "HIGH"
              THEN [merged[i] EXCEPT !.confidence = "HIGH"]
              ELSE merged[i]]
    ELSE Append(merged, rec)
=============================================================================
