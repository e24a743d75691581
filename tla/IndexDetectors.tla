--------------------------- MODULE IndexDetectors ---------------------------
(***************************************************************************)
(* DuplicateIndexDetector and UnusedIndexDetector of advisor/: which of    *)
(* the indexes read from the catalog they recommend to drop.               *)
(*                                                                         *)
(* An IndexInfo is [name, table, columns, isUnique, isPrimary].  Names are *)
(* numbers, since the code compares them; the infos of one audit have      *)
(* different names.                                                        *)
(***************************************************************************)
EXTENDS Naturals, Sequences

IndexInfo(Columns) ==
  [name : Nat, table : Nat, columns : Seq(Columns),
   isUnique : BOOLEAN, isPrimary : BOOLEAN]

\* An index that backs a constraint.
IsConstraint(index) == index.isUnique \/ index.isPrimary

IsProperPrefix(short, long) ==
  Len(short) < Len(long) /\ SubSeq(long, 1, Len(short)) = short

\* Mutant of KeepOver: either of two equal indexes makes the other redundant.
KeepEither(keep, drop) == TRUE

\* Of two indexes on the same columns, the one that backs a constraint is kept,
\* then the one whose name comes first.
KeepOver(keep, drop) == IsConstraint(keep) \/ keep.name < drop.name

\* Mutant of MakesRedundant: only exact duplicates.
ExactDuplicate(other, candidate) ==
  candidate.columns = other.columns /\ KeepOver(other, candidate)

MakesRedundant(other, candidate) ==
  \/ candidate.columns = other.columns /\ KeepOver(other, candidate)
  \/ IsProperPrefix(candidate.columns, other.columns)

\* What _find_covering chooses from.
Coverings(candidate, indexes) ==
  {other \in indexes :
     other # candidate /\ other.table = candidate.table /\ MakesRedundant(other, candidate)}

DuplicateIndexes(indexes) ==
  {index \in indexes : ~IsConstraint(index) /\ Coverings(index, indexes) # {}}

\* Mutant of UnusedIndexes: an index that backs a constraint is flagged too.
UnusedOfAnyKind(indexes, usage, maxScans) ==
  {index \in indexes :
     /\ index.name \in DOMAIN usage
     /\ usage[index.name] <= maxScans}

\* usage maps the names with a row in pg_stat_user_indexes to their scan count.
UnusedIndexes(indexes, usage, maxScans) ==
  {index \in indexes :
     /\ ~IsConstraint(index)
     /\ index.name \in DOMAIN usage
     /\ usage[index.name] <= maxScans}
=============================================================================
