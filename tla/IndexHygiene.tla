---------------------------- MODULE IndexHygiene ----------------------------
(***************************************************************************)
(* The index sections of the audit and what a user makes of them: the      *)
(* catalog is read (database/index_catalog.py), the two detectors flag     *)
(* indexes, and the user runs the generated DROP INDEX statements, some or *)
(* all of them, in any order.                                              *)
(*                                                                         *)
(* The catalog holds more than the code reads.  An index is on a table of  *)
(* a schema, has key columns or expressions, may INCLUDE further columns,  *)
(* may be partial, and may back a constraint.  Tables, schemas and names   *)
(* are numbers; schema 1 is the one the search path finds.                 *)
(***************************************************************************)
EXTENDS IndexDetectors, FiniteSets, SequencesExt

CONSTANTS
  Columns,       \* of the tables
  Expressions,   \* expressions over them, which an index may have as keys
  Catalogs,      \* the states the catalog may be in
  MaxScans       \* unused_index_max_scans

Index ==
  [schema : Nat, table : Nat, name : Nat,
   keys : Seq(Columns \union Expressions) \ {<<>>}, included : Seq(Columns),
   partial : BOOLEAN, isUnique : BOOLEAN, isPrimary : BOOLEAN, scans : Nat]

\* A catalog is finite, and names are unique within a schema.
ASSUME CatalogsAssumption ==
  \A c \in Catalogs :
     /\ c \subseteq Index /\ IsFiniteSet(c)
     /\ \A x, y \in c : x.schema = y.schema /\ x.name = y.name => x = y
ASSUME ColumnsAssumption == Columns \intersect Expressions = {}
ASSUME MaxScansAssumption == MaxScans \in Nat

VARIABLES
  catalog,    \* the indexes of the database
  phase,      \* where the audit is, or that the user has its report
  indexes,    \* what fetch_indexes returned
  findings,   \* the findings: the detector and the name of the index
  dropped     \* the indexes the user has dropped, with the finding's detector

vars == <<catalog, phase, indexes, findings, dropped>>

-----------------------------------------------------------------------------
(* Reading the catalog.                                                    *)

Placeholder == "(expression)"

\* Mutant of ColumnOf: the NULL of an expression is taken over.
ColumnOrNull(key) == IF key \in Expressions THEN "NULL" ELSE key

\* attname is NULL for an expression.
ColumnOf(key) == IF key \in Expressions THEN Placeholder ELSE key

\* unnest(indkey) yields the key columns and the included ones; no row says
\* which, nor in which schema the index is, nor whether it is partial.
RowsOf(index) ==
  LET columns == index.keys \o index.included
  IN  {[name |-> index.name, table |-> index.table, ord |-> i,
        column |-> ColumnOf(columns[i]), isUnique |-> index.isUnique,
        isPrimary |-> index.isPrimary, schema |-> index.schema] :
         i \in 1 .. Len(columns)}

\* ORDER BY table_name, index_name, ord.  Rows that are equal in these come in
\* any order; here by schema.
Before(r, s) ==
  \/ r.table < s.table
  \/ r.table = s.table /\ r.name < s.name
  \/ r.table = s.table /\ r.name = s.name /\ r.ord < s.ord
  \/ r.table = s.table /\ r.name = s.name /\ r.ord = s.ord /\ r.schema < s.schema

IndexRows(c) == UNION {RowsOf(index) : index \in c}

\* The place of a row in its group.
Place(r, group) == Cardinality({s \in group : s = r \/ Before(s, r)})

\* The rows are grouped by the name of the index alone; table and constraint
\* come from the first row of the group.
Grouped(rows, name) ==
  LET group == {r \in rows : r.name = name}
      At(i) == CHOOSE r \in group : Place(r, group) = i
  IN  [name      |-> name,
       table     |-> At(1).table,
       columns   |-> [i \in 1 .. Cardinality(group) |-> At(i).column],
       isUnique  |-> At(1).isUnique,
       isPrimary |-> At(1).isPrimary]

FetchIndexes(c) == {Grouped(IndexRows(c), r.name) : r \in IndexRows(c)}

\* usage_by_name: of several rows with one name the last counts, whichever
\* that is.
UsageByName(c) ==
  {usage \in [{index.name : index \in c} -> {index.scans : index \in c}] :
     \A name \in DOMAIN usage :
        \E index \in c : index.name = name /\ usage[name] = index.scans}

-----------------------------------------------------------------------------
Init ==
  /\ catalog \in Catalogs
  /\ phase = "catalog"
  /\ indexes = {}
  /\ findings = {}
  /\ dropped = {}

Finding(detector, index) == [detector |-> detector, name |-> index.name]

DetectDuplicates ==
  /\ phase = "catalog"
  /\ indexes' = FetchIndexes(catalog)
  /\ findings' = {Finding("duplicate_index", i) : i \in DuplicateIndexes(indexes')}
  /\ phase' = "usage"
  /\ UNCHANGED <<catalog, dropped>>

DetectUnused ==
  /\ phase = "usage"
  /\ \E usage \in UsageByName(catalog) :
        findings' = findings \union
          {Finding("unused_index", i) : i \in UnusedIndexes(indexes, usage, MaxScans)}
  /\ phase' = "reported"
  /\ UNCHANGED <<catalog, indexes, dropped>>

\* DROP INDEX <name>, unqualified: the search path decides.
DropIndex(f) ==
  /\ phase = "reported"
  /\ f \in findings
  /\ \E index \in catalog :
        /\ index.name = f.name
        /\ index.schema = 1
        /\ catalog' = catalog \ {index}
        /\ dropped' = dropped \union {[index |-> index, detector |-> f.detector]}
  /\ UNCHANGED <<phase, indexes, findings>>

Next ==
  \/ DetectDuplicates
  \/ DetectUnused
  \/ \E f \in findings : DropIndex(f)

Spec == Init /\ [][Next]_vars

-----------------------------------------------------------------------------
TypeOK ==
  /\ catalog \subseteq Index
  /\ phase \in {"catalog", "usage", "reported"}
  /\ indexes \subseteq IndexInfo(Columns \union {Placeholder})
  /\ findings \subseteq [detector : {"duplicate_index", "unused_index"}, name : Nat]
  /\ dropped \subseteq [index : Index, detector : {"duplicate_index", "unused_index"}]

\* The indexes there were before the user dropped any.
Original == catalog \union {d.index : d \in dropped}

\* No two indexes have one name, as within one schema.
NamesUnique == \A x, y \in Original : x.name = y.name => x = y

\* No two schemas have tables of one name.
TablesUnique == \A x, y \in Original : x.table = y.table => x.schema = y.schema

\* What the code reads of an index is all there is to it.
Plain(index) ==
  /\ \A i \in 1 .. Len(index.keys) : index.keys[i] \in Columns
  /\ index.included = <<>>
  /\ ~index.partial

\* Whatever scan x serves, y serves too.
Serves(y, x) ==
  /\ y.schema = x.schema /\ y.table = x.table
  /\ ~y.partial
  /\ IsPrefix(x.keys, y.keys)
  /\ ToSet(x.included) \subseteq ToSet(y.keys) \union ToSet(y.included)

(* Whatever recommendations the user follows, an index that backs a       *)
(* constraint goes in one case only (duplicate_index_detector.py:8-12): it *)
(* shares its name with an index of another schema that backs none, the    *)
(* catalog reader takes the two for one, and DROP INDEX does not say which *)
(* it means.                                                               *)
ConstraintsSurvive ==
  \A d \in dropped : IsConstraint(d.index) =>
     \E other \in Original : other.name = d.index.name /\ ~IsConstraint(other)

(* As long as the user only follows recommendations about duplicates, what *)
(* a dropped plain index served, an index that is still there serves: of   *)
(* several duplicates, in whatever order they are dropped, one always      *)
(* survives (duplicate_index_detector.py:62-76).  Tables of one name in    *)
(* two schemas are excepted: the code takes them for one table.            *)
DuplicatesLeaveCover ==
  /\ NamesUnique /\ TablesUnique
  /\ \A index \in Original : Plain(index)
  /\ \A d \in dropped : d.detector = "duplicate_index"
  => \A d \in dropped : \E index \in catalog : Serves(index, d.index)

(* The duplicate recommendations are complete: when all are followed, no   *)
(* plain index that backs no constraint is left that another one serves    *)
(* (duplicate_index_detector.py:1-7).                                      *)
NoRedundancyLeft ==
  /\ NamesUnique
  /\ phase = "reported"
  /\ \A f \in findings : f.detector = "duplicate_index" =>
        \A index \in catalog : index.name # f.name \/ index.schema # 1
  => \A x, y \in catalog :
        /\ x # y /\ Plain(x) /\ Plain(y) /\ x.schema = 1 /\ Serves(y, x)
        => IsConstraint(x)

(* Documented (recommendation_builders.py:301-302): dropping a duplicate   *)
(* costs no read performance.  So an index that is in use and dropped as a *)
(* duplicate stays covered.  It does not hold: the covering index may be   *)
(* recommended for dropping itself, as unused, and the user follows both.  *)
NoLossOfReadPerformance ==
  /\ NamesUnique /\ TablesUnique
  /\ \A index \in Original : Plain(index)
  => \A d \in dropped :
        d.detector = "duplicate_index" /\ d.index.scans > MaxScans =>
          \E index \in catalog : Serves(index, d.index)
=============================================================================
