------------------------- MODULE IndexHygieneProofs -------------------------
(***************************************************************************)
(* Theorems about IndexHygiene, for catalogs of every size.  Reading the   *)
(* catalog keeps of each index its constraint flags and its columns; being *)
(* covered is a strict order among the indexes that may be dropped, so of  *)
(* several duplicates one is not flagged, and that one is still there      *)
(* whatever the user has dropped.                                          *)
(***************************************************************************)
EXTENDS IndexHygiene, FiniteSetTheorems, WellFoundedInduction, TLAPS

-----------------------------------------------------------------------------
(* Duplicates.                                                             *)

LEMMA Beginning ==
  ASSUME NEW S, NEW s \in Seq(S), NEW n \in Nat, n <= Len(s)
  PROVE  /\ SubSeq(s, 1, n) \in Seq(S)
         /\ Len(SubSeq(s, 1, n)) = n
         /\ \A x \in 1 .. n : SubSeq(s, 1, n)[x] = s[x]
OBVIOUS

LEMMA Equal ==
  ASSUME NEW S, NEW s \in Seq(S), NEW t \in Seq(S), Len(s) = Len(t),
         \A x \in 1 .. Len(s) : s[x] = t[x]
  PROVE  s = t
OBVIOUS

\* What it is for a sequence to be a proper prefix, item by item.
LEMMA ProperPrefix ==
  ASSUME NEW S, NEW s \in Seq(S), NEW t \in Seq(S)
  PROVE  IsProperPrefix(s, t) <=>
           Len(s) < Len(t) /\ \A x \in 1 .. Len(s) : s[x] = t[x]
<1>1. Len(s) \in Nat /\ Len(t) \in Nat
  OBVIOUS
<1>2. CASE Len(s) < Len(t)
  <2> DEFINE n == Len(s)
             u == SubSeq(t, 1, n)
  <2>0. n \in Nat /\ n <= Len(t) /\ n = Len(s)
    BY <1>1, <1>2
  <2> HIDE DEF n
  <2>1. u \in Seq(S) /\ Len(u) = n /\ \A x \in 1 .. n : u[x] = t[x]
    BY <2>0, Beginning
  <2>2. IsProperPrefix(s, t) <=> u = s
    BY <1>2, <2>0 DEF IsProperPrefix
  <2> HIDE DEF u
  <2>3. (\A x \in 1 .. Len(s) : s[x] = t[x]) => u = s
    BY <2>0, <2>1, Equal
  <2> QED
    BY <1>2, <2>0, <2>1, <2>2, <2>3
<1> QED
  BY <1>1, <1>2 DEF IsProperPrefix

Infos == IndexInfo(Columns \union {Placeholder})

LEMMA InfoTyped ==
  ASSUME NEW x \in Infos
  PROVE  /\ x.name \in Nat /\ x.columns \in Seq(Columns \union {Placeholder})
         /\ Len(x.columns) \in Nat
BY DEF Infos, IndexInfo

\* If z makes y redundant, and y, which backs no constraint, makes x redundant,
\* then z makes x redundant.
LEMMA RedundancyTransitive ==
  ASSUME NEW x \in Infos, NEW y \in Infos, NEW z \in Infos,
         MakesRedundant(z, y), MakesRedundant(y, x), ~IsConstraint(y)
  PROVE  MakesRedundant(z, x)
<1> DEFINE C == Columns \union {Placeholder}
<1>1. /\ x.name \in Nat /\ y.name \in Nat /\ z.name \in Nat
      /\ x.columns \in Seq(C) /\ y.columns \in Seq(C) /\ z.columns \in Seq(C)
  BY InfoTyped
<1>2. /\ Len(x.columns) \in Nat /\ Len(y.columns) \in Nat /\ Len(z.columns) \in Nat
  BY InfoTyped
<1>3. CASE y.columns = z.columns /\ x.columns = y.columns
  <2>1. KeepOver(z, y) /\ KeepOver(y, x)
    <3>1. ~ (Len(x.columns) < Len(x.columns))
      BY <1>2
    <3> QED
      BY <1>3, <3>1 DEF MakesRedundant, IsProperPrefix
  <2>2. KeepOver(z, x)
    BY <1>1, <2>1 DEF KeepOver
  <2> QED
    BY <1>3, <2>2 DEF MakesRedundant
<1>4. CASE IsProperPrefix(y.columns, z.columns) /\ x.columns = y.columns
  BY <1>4 DEF MakesRedundant
<1>5. CASE y.columns = z.columns /\ IsProperPrefix(x.columns, y.columns)
  BY <1>5 DEF MakesRedundant
<1>6. CASE IsProperPrefix(y.columns, z.columns) /\ IsProperPrefix(x.columns, y.columns)
  <2>1. /\ Len(y.columns) < Len(z.columns) /\ Len(x.columns) < Len(y.columns)
        /\ \A i \in 1 .. Len(y.columns) : y.columns[i] = z.columns[i]
        /\ \A i \in 1 .. Len(x.columns) : x.columns[i] = y.columns[i]
    BY <1>1, <1>6, ProperPrefix
  <2>2. Len(x.columns) < Len(z.columns)
    BY <1>2, <2>1
  <2>3. \A i \in 1 .. Len(x.columns) : x.columns[i] = z.columns[i]
    BY <1>2, <2>1
  <2>4. IsProperPrefix(x.columns, z.columns)
    BY <1>1, <2>2, <2>3, ProperPrefix
  <2> QED
    BY <2>4 DEF MakesRedundant
<1> QED
  BY <1>3, <1>4, <1>5, <1>6 DEF MakesRedundant

\* Of two indexes that may be dropped, at most one makes the other redundant.
LEMMA NeverMutual ==
  ASSUME NEW x \in Infos, NEW y \in Infos, ~IsConstraint(x), ~IsConstraint(y),
         MakesRedundant(x, y), MakesRedundant(y, x)
  PROVE  FALSE
<1>1. x.name \in Nat /\ y.name \in Nat
  BY InfoTyped
<1>2. Len(x.columns) \in Nat /\ Len(y.columns) \in Nat
  BY InfoTyped
<1>3. CASE x.columns = y.columns
  <2>1. ~ (Len(x.columns) < Len(x.columns))
    BY <1>2
  <2>2. x.name < y.name /\ y.name < x.name
    BY <1>3, <2>1 DEF MakesRedundant, IsProperPrefix, KeepOver
  <2> QED
    BY <1>1, <2>2
<1>4. CASE x.columns # y.columns
  <2>1. Len(x.columns) < Len(y.columns) /\ Len(y.columns) < Len(x.columns)
    BY <1>4 DEF MakesRedundant, IsProperPrefix
  <2> QED
    BY <1>2, <2>1
<1> QED
  BY <1>3, <1>4

\* Of a flagged index and those that cover it, one is not flagged: take one that
\* has as few as possible above it.
LEMMA SurvivorCovers ==
  ASSUME NEW indices \in SUBSET Infos, IsFiniteSet(indices),
         NEW x \in DuplicateIndexes(indices)
  PROVE  \E y \in Coverings(x, indices) : y \notin DuplicateIndexes(indices)
<1> DEFINE Above(y) == Coverings(y, indices)
           Chain == Above(x) \union {x}
           Aboves == {Above(y) : y \in Chain}
<1>1. x \in indices /\ ~IsConstraint(x) /\ Above(x) # {} /\ Above(x) \subseteq indices
  BY DEF DuplicateIndexes, Coverings
<1>2. Aboves \subseteq FiniteSubsetsOf(indices)
  <2> SUFFICES ASSUME NEW y
               PROVE  Above(y) \subseteq indices /\ IsFiniteSet(Above(y))
    BY DEF FiniteSubsetsOf
  <2>1. Above(y) \subseteq indices
    BY DEF Coverings
  <2> QED
    BY <2>1, FS_Subset
<1>3. PICK B \in Aboves : \A C \in Aboves : ~ (<<C, B>> \in StrictSubsetOrdering(indices))
  <2>1. Aboves # {}
    OBVIOUS
  <2> HIDE DEF Aboves
  <2> QED
    BY <1>2, <2>1, WFMin, FS_StrictSubsetOrderingWellFounded
<1>4. PICK y \in Chain : B = Above(y)
  BY <1>3
<1>5. CASE y \notin DuplicateIndexes(indices)
  <2>1. y \in Above(x)
    BY <1>5
  <2> QED
    BY <1>5, <2>1
<1>6. CASE y \in DuplicateIndexes(indices)
  <2>1. y \in indices /\ ~IsConstraint(y) /\ Above(y) # {}
    BY <1>6 DEF DuplicateIndexes
  <2>2. PICK z : z \in Above(y)
    BY <2>1
  <2>3. z \in indices /\ z # y /\ z.table = y.table /\ MakesRedundant(z, y)
    BY <2>2 DEF Coverings
  <2>4. \A w \in Above(z) : MakesRedundant(w, z) => w.table = z.table /\ w \in indices
    BY DEF Coverings
  <2>5. z \in Above(x)
    <3>1. CASE y = x
      BY <3>1, <2>2
    <3>2. CASE y \in Above(x)
      <4>1. y.table = x.table /\ MakesRedundant(y, x)
        BY <3>2 DEF Coverings
      <4>2. MakesRedundant(z, x)
        BY <1>1, <2>1, <2>3, <4>1, RedundancyTransitive
      <4>3. z # x
        <5> SUFFICES ASSUME z = x
                     PROVE  FALSE
          OBVIOUS
        <5>1. MakesRedundant(x, y) /\ MakesRedundant(y, x)
          BY <2>3, <4>1
        <5> QED
          BY <1>1, <2>1, <2>3, <5>1, <4>1, NeverMutual
      <4> QED
        BY <2>3, <4>1, <4>2, <4>3 DEF Coverings
    <3> QED
      BY <3>1, <3>2
  <2>6. CASE z \notin DuplicateIndexes(indices)
    BY <2>5, <2>6
  <2>7. CASE z \in DuplicateIndexes(indices)
    <3>1. ~IsConstraint(z)
      BY <2>7 DEF DuplicateIndexes
    <3>2. Above(z) \subseteq Above(y)
      <4> SUFFICES ASSUME NEW w \in Above(z)
                   PROVE  w \in Above(y)
        OBVIOUS
      <4>1. w \in indices /\ w.table = z.table /\ MakesRedundant(w, z) /\ w # z
        BY DEF Coverings
      <4>2. MakesRedundant(w, y)
        BY <2>1, <2>3, <3>1, <4>1, RedundancyTransitive
      <4>3. w # y
        <5> SUFFICES ASSUME w = y
                     PROVE  FALSE
          OBVIOUS
        <5> QED
          BY <2>1, <2>3, <3>1, <4>1, NeverMutual
      <4> QED
        BY <2>3, <4>1, <4>2, <4>3 DEF Coverings
    <3>3. z \notin Above(z)
      BY DEF Coverings
    <3>4. <<Above(z), Above(y)>> \in StrictSubsetOrdering(indices)
      <4>1. Above(y) \subseteq indices
        BY DEF Coverings
      <4> QED
        BY <2>2, <3>2, <3>3, <4>1 DEF StrictSubsetOrdering
    <3>5. Above(z) \in Aboves
      BY <2>5
    <3> QED
      BY <1>3, <1>4, <3>4, <3>5
  <2> QED
    BY <2>6, <2>7
<1> QED
  BY <1>5, <1>6
-----------------------------------------------------------------------------
(* The rows of the catalog.                                                *)

Size(index) == Len(index.keys \o index.included)

RowOf(index, i) ==
  [name |-> index.name, table |-> index.table, ord |-> i,
   column |-> ColumnOf((index.keys \o index.included)[i]),
   isUnique |-> index.isUnique, isPrimary |-> index.isPrimary,
   schema |-> index.schema]

LEMMA RowsOfOne ==
  ASSUME NEW index
  PROVE  RowsOf(index) = {RowOf(index, i) : i \in 1 .. Size(index)}
BY DEF RowsOf, RowOf, Size

LEMMA IndexTyped ==
  ASSUME NEW index \in Index
  PROVE  /\ index.schema \in Nat /\ index.table \in Nat /\ index.name \in Nat
         /\ index.keys \in Seq(Columns \union Expressions) /\ index.keys # <<>>
         /\ index.included \in Seq(Columns)
         /\ index.isUnique \in BOOLEAN /\ index.isPrimary \in BOOLEAN
BY DEF Index

LEMMA ColumnsTyped ==
  ASSUME NEW index \in Index
  PROVE  /\ Size(index) \in Nat /\ Size(index) >= 1
         /\ Size(index) = Len(index.keys) + Len(index.included)
         /\ \A i \in 1 .. Size(index) :
              ColumnOf((index.keys \o index.included)[i]) \in Columns \union {Placeholder}
<1> DEFINE k == index.keys
           n == index.included
           A == Columns \union Expressions
<1>1. k \in Seq(A) /\ k # <<>> /\ n \in Seq(A)
  <2>1. k \in Seq(A) /\ k # <<>> /\ n \in Seq(Columns)
    BY IndexTyped
  <2>2. Len(n) \in Nat /\ n = [i \in 1 .. Len(n) |-> n[i]] /\ \A i \in 1 .. Len(n) : n[i] \in Columns
    BY <2>1
  <2>3. n \in Seq(A)
    BY <2>2
  <2> QED
    BY <2>1, <2>3
<1>2. Size(index) = Len(k \o n)
  BY DEF Size
<1> HIDE DEF k, n
<1>3. /\ Len(k) \in Nat /\ Len(k) >= 1 /\ Len(n) \in Nat
      /\ Len(k \o n) = Len(k) + Len(n) /\ k \o n \in Seq(A)
  BY <1>1
<1>4. \A i \in 1 .. Len(k \o n) : (k \o n)[i] \in A
  BY <1>3
<1>5. \A i \in 1 .. Len(k \o n) : ColumnOf((k \o n)[i]) \in Columns \union {Placeholder}
  BY <1>4 DEF ColumnOf
<1>6. Size(index) = Len(k) + Len(n) /\ Size(index) \in Nat /\ Size(index) >= 1
  BY <1>2, <1>3
<1>7. \A i \in 1 .. Size(index) : ColumnOf((k \o n)[i]) \in Columns \union {Placeholder}
  BY <1>2, <1>5
<1> QED
  BY <1>6, <1>7 DEF k, n

LEMMA RowTyped ==
  ASSUME NEW c \in Catalogs, NEW r \in IndexRows(c)
  PROVE  /\ \E index \in c : \E i \in 1 .. Size(index) : r = RowOf(index, i)
         /\ r.name \in Nat /\ r.table \in Nat /\ r.ord \in Nat /\ r.schema \in Nat
         /\ r.column \in Columns \union {Placeholder}
         /\ r.isUnique \in BOOLEAN /\ r.isPrimary \in BOOLEAN
<1>1. PICK index \in c : r \in RowsOf(index)
  BY DEF IndexRows
<1>2. PICK i \in 1 .. Size(index) : r = RowOf(index, i)
  BY <1>1, RowsOfOne
<1>3. index \in Index
  BY CatalogsAssumption
<1>4. ColumnOf((index.keys \o index.included)[i]) \in Columns \union {Placeholder}
  BY <1>2, <1>3, ColumnsTyped
<1>5. i \in Nat
  BY <1>2, <1>3, ColumnsTyped
<1>6. /\ r.name = index.name /\ r.table = index.table /\ r.ord = i
      /\ r.schema = index.schema /\ r.isUnique = index.isUnique
      /\ r.isPrimary = index.isPrimary
      /\ r.column = ColumnOf((index.keys \o index.included)[i])
  BY <1>2 DEF RowOf
<1> QED
  BY <1>1, <1>2, <1>3, <1>4, <1>5, <1>6, IndexTyped

LEMMA FiniteImage ==
  ASSUME NEW S, IsFiniteSet(S), NEW f, f = [x \in S |-> f[x]]
  PROVE  IsFiniteSet({f[x] : x \in S})
<1> DEFINE R == {f[x] : x \in S}
<1>1. f \in Surjection(S, R)
  BY DEF Surjection
<1> HIDE DEF R
<1> QED
  BY <1>1, FS_Surjection DEF R

LEMMA RowsFinite ==
  ASSUME NEW c \in Catalogs
  PROVE  IsFiniteSet(IndexRows(c))
<1>1. ASSUME NEW index \in c
      PROVE  IsFiniteSet(RowsOf(index))
  <2> DEFINE n == Size(index)
             f == [i \in 1 .. n |-> RowOf(index, i)]
  <2>1. n \in Nat
    BY CatalogsAssumption, ColumnsTyped
  <2>2. IsFiniteSet(1 .. n)
    BY <2>1, FS_Interval
  <2>3. IsFiniteSet({f[i] : i \in 1 .. n})
    <3> HIDE DEF n
    <3>1. f = [i \in 1 .. n |-> f[i]]
      OBVIOUS
    <3> HIDE DEF f
    <3> QED
      BY <2>2, <3>1, FiniteImage
  <2>4. {f[i] : i \in 1 .. n} = RowsOf(index)
    BY RowsOfOne
  <2> QED
    BY <2>3, <2>4
<1> DEFINE g == [index \in c |-> RowsOf(index)]
<1>2. IsFiniteSet({g[index] : index \in c})
  <2>1. g = [index \in c |-> g[index]]
    OBVIOUS
  <2>2. IsFiniteSet(c)
    BY CatalogsAssumption
  <2> HIDE DEF g
  <2> QED
    BY <2>1, <2>2, FiniteImage
<1>3. IsFiniteSet({RowsOf(index) : index \in c})
  <2>1. {g[index] : index \in c} = {RowsOf(index) : index \in c}
    OBVIOUS
  <2> QED
    BY <1>2, <2>1
<1>4. \A R \in {RowsOf(index) : index \in c} : IsFiniteSet(R)
  BY <1>1
<1> QED
  BY <1>3, <1>4, FS_UNION DEF IndexRows

\* The rows are in one order only.
LEMMA RowsOrdered ==
  ASSUME NEW c \in Catalogs
  PROVE  /\ \A r \in IndexRows(c) : ~Before(r, r)
         /\ \A r, s, t \in IndexRows(c) : Before(r, s) /\ Before(s, t) => Before(r, t)
         /\ \A r, s \in IndexRows(c) : r = s \/ Before(r, s) \/ Before(s, r)
<1>1. \A r \in IndexRows(c) :
         r.name \in Nat /\ r.table \in Nat /\ r.ord \in Nat /\ r.schema \in Nat
  BY RowTyped
<1>2. \A r \in IndexRows(c) : ~Before(r, r)
  BY <1>1 DEF Before
<1>3. ASSUME NEW r \in IndexRows(c), NEW s \in IndexRows(c), NEW t \in IndexRows(c),
             Before(r, s), Before(s, t)
      PROVE  Before(r, t)
  BY <1>1, <1>3 DEF Before
<1>4. ASSUME NEW r \in IndexRows(c), NEW s \in IndexRows(c), ~Before(r, s), ~Before(s, r)
      PROVE  r = s
  <2>1. r.name = s.name /\ r.table = s.table /\ r.ord = s.ord /\ r.schema = s.schema
    BY <1>1, <1>4 DEF Before
  <2>2. PICK x \in c : \E i \in 1 .. Size(x) : r = RowOf(x, i)
    BY RowTyped
  <2>3. PICK y \in c : \E i \in 1 .. Size(y) : s = RowOf(y, i)
    BY RowTyped
  <2>4. x.name = r.name /\ x.schema = r.schema /\ y.name = s.name /\ y.schema = s.schema
    BY <2>2, <2>3 DEF RowOf
  <2>5. x = y
    BY <2>1, <2>4, CatalogsAssumption
  <2>6. \A z, i : RowOf(z, i).ord = i
    BY DEF RowOf
  <2>7. r = RowOf(x, r.ord) /\ s = RowOf(y, s.ord)
    <3> HIDE DEF RowOf
    <3> QED
      BY <2>2, <2>3, <2>6
  <2>8. RowOf(x, r.ord) = RowOf(y, s.ord)
    BY <2>1, <2>5
  <2> QED
    BY <2>7, <2>8
<1> QED
  BY <1>2, <1>3, <1>4

-----------------------------------------------------------------------------
(* The groups.                                                             *)

Group(c, name) == {r \in IndexRows(c) : r.name = name}

UpTo(r, group) == {s \in group : s = r \/ Before(s, r)}

LEMMA GroupFinite ==
  ASSUME NEW c \in Catalogs, NEW name
  PROVE  /\ IsFiniteSet(Group(c, name)) /\ Cardinality(Group(c, name)) \in Nat
         /\ Group(c, name) \subseteq IndexRows(c)
<1>1. Group(c, name) \subseteq IndexRows(c)
  BY DEF Group
<1>2. IsFiniteSet(Group(c, name))
  BY <1>1, RowsFinite, FS_Subset
<1> QED
  BY <1>1, <1>2, FS_CardinalityType

LEMMA PlaceTyped ==
  ASSUME NEW c \in Catalogs, NEW name, NEW r \in Group(c, name)
  PROVE  Place(r, Group(c, name)) \in 1 .. Cardinality(Group(c, name))
<1> DEFINE G == Group(c, name)
<1>1. UpTo(r, G) \subseteq G /\ r \in UpTo(r, G)
  BY DEF UpTo
<1>2. IsFiniteSet(G) /\ Cardinality(G) \in Nat
  BY GroupFinite
<1> HIDE DEF G
<1>3. IsFiniteSet(UpTo(r, G)) /\ Cardinality(UpTo(r, G)) <= Cardinality(G)
  BY <1>1, <1>2, FS_Subset
<1>4. Cardinality(UpTo(r, G)) \in Nat /\ Cardinality(UpTo(r, G)) # 0
  BY <1>1, <1>3, FS_CardinalityType, FS_EmptySet
<1>5. Cardinality(UpTo(r, G)) \in 1 .. Cardinality(G)
  BY <1>2, <1>3, <1>4
<1> QED
  BY <1>5 DEF Place, UpTo, G

\* An earlier row has the smaller place.
LEMMA PlacesIncrease ==
  ASSUME NEW c \in Catalogs, NEW name, NEW r \in Group(c, name),
         NEW s \in Group(c, name), Before(r, s)
  PROVE  Place(r, Group(c, name)) < Place(s, Group(c, name))
<1> DEFINE G == Group(c, name)
<1>1. G \subseteq IndexRows(c)
  BY GroupFinite
<1>2. r \in IndexRows(c) /\ s \in IndexRows(c)
  BY <1>1
<1>3. UpTo(r, G) \subseteq UpTo(s, G)
  <2> SUFFICES ASSUME NEW t \in G, t = r \/ Before(t, r)
               PROVE  Before(t, s)
    BY DEF UpTo
  <2>1. t \in IndexRows(c)
    BY <1>1
  <2> QED
    BY <1>2, <2>1, RowsOrdered
<1>4. s \in UpTo(s, G) /\ s \notin UpTo(r, G)
  <2>1. s # r /\ ~Before(s, r)
    BY <1>2, RowsOrdered
  <2> QED
    BY <2>1 DEF UpTo
<1>5. UpTo(s, G) \subseteq G
  BY DEF UpTo
<1>6. IsFiniteSet(G)
  BY GroupFinite
<1> HIDE DEF G
<1>7. IsFiniteSet(UpTo(s, G))
  BY <1>5, <1>6, FS_Subset
<1>8. /\ IsFiniteSet(UpTo(r, G)) /\ Cardinality(UpTo(r, G)) <= Cardinality(UpTo(s, G))
      /\ Cardinality(UpTo(r, G)) # Cardinality(UpTo(s, G))
  BY <1>3, <1>4, <1>7, FS_Subset
<1>9. Cardinality(UpTo(r, G)) \in Nat /\ Cardinality(UpTo(s, G)) \in Nat
  BY <1>7, <1>8, FS_CardinalityType
<1>10. Cardinality(UpTo(r, G)) < Cardinality(UpTo(s, G))
  BY <1>8, <1>9
<1> QED
  BY <1>10 DEF Place, UpTo, G

LEMMA PlacesDiffer ==
  ASSUME NEW c \in Catalogs, NEW name, NEW r \in Group(c, name),
         NEW s \in Group(c, name), Place(r, Group(c, name)) = Place(s, Group(c, name))
  PROVE  r = s
<1>1. r \in IndexRows(c) /\ s \in IndexRows(c)
  BY GroupFinite
<1>2. Place(r, Group(c, name)) \in Nat
  BY PlaceTyped, GroupFinite
<1>3. ~Before(r, s) /\ ~Before(s, r)
  BY <1>2, PlacesIncrease
<1> QED
  BY <1>1, <1>3, RowsOrdered

\* Every place is taken.
LEMMA PlacesTaken ==
  ASSUME NEW c \in Catalogs, NEW name, NEW i \in 1 .. Cardinality(Group(c, name))
  PROVE  \E r \in Group(c, name) : Place(r, Group(c, name)) = i
<1> DEFINE G == Group(c, name)
           n == Cardinality(G)
           T == 1 .. n
           f == [r \in G |-> Place(r, G)]
<1>1. IsFiniteSet(G) /\ n \in Nat
  BY GroupFinite
<1>2. f \in [G -> T]
  BY PlaceTyped
<1>3. \A r, s \in G : f[r] = f[s] => r = s
  BY PlacesDiffer
<1>4. \A r \in G : f[r] = Place(r, G)
  OBVIOUS
<1>5. i \in T
  OBVIOUS
<1>6. IsFiniteSet(T) /\ Cardinality(T) = n
  <2> HIDE DEF n
  <2>1. n >= 1 /\ n \in Int /\ 1 \in Int
    BY <1>1, <1>5
  <2> QED
    BY <1>1, <2>1, FS_Interval
<1> HIDE DEF f, T
<1>7. f \in Injection(G, T)
  BY <1>2, <1>3 DEF Injection, IsInjective
<1>8. f \in Surjection(G, T)
  BY <1>1, <1>6, <1>7, FS_Injection
<1>9. \E r \in G : f[r] = i
  BY <1>5, <1>8 DEF Surjection
<1> QED
  BY <1>4, <1>9

RowAt(c, name, i) == CHOOSE r \in Group(c, name) : Place(r, Group(c, name)) = i

LEMMA GroupedIs ==
  ASSUME NEW c, NEW name
  PROVE  Grouped(IndexRows(c), name) =
           [name |-> name, table |-> RowAt(c, name, 1).table,
            columns |-> [i \in 1 .. Cardinality(Group(c, name)) |-> RowAt(c, name, i).column],
            isUnique |-> RowAt(c, name, 1).isUnique,
            isPrimary |-> RowAt(c, name, 1).isPrimary]
BY DEF Grouped, RowAt, Group

LEMMA RowAtPlace ==
  ASSUME NEW c \in Catalogs, NEW name, NEW i \in 1 .. Cardinality(Group(c, name))
  PROVE  RowAt(c, name, i) \in Group(c, name) /\ Place(RowAt(c, name, i), Group(c, name)) = i
BY PlacesTaken DEF RowAt

\* What fetch_indexes returns is well typed.
LEMMA FetchTyped ==
  ASSUME NEW c \in Catalogs
  PROVE  FetchIndexes(c) \subseteq Infos
<1> SUFFICES ASSUME NEW r \in IndexRows(c)
             PROVE  Grouped(IndexRows(c), r.name) \in Infos
  BY DEF FetchIndexes
<1> DEFINE name == r.name
           n == Cardinality(Group(c, name))
<1>1. r \in Group(c, name)
  BY DEF Group
<1>2. n \in Nat /\ 1 \in 1 .. n
  BY <1>1, PlaceTyped, GroupFinite
<1>3. ASSUME NEW i \in 1 .. n
      PROVE  /\ RowAt(c, name, i).column \in Columns \union {Placeholder}
             /\ RowAt(c, name, i).table \in Nat
             /\ RowAt(c, name, i).isUnique \in BOOLEAN
             /\ RowAt(c, name, i).isPrimary \in BOOLEAN
  <2>1. RowAt(c, name, i) \in IndexRows(c)
    BY RowAtPlace, GroupFinite
  <2> QED
    BY <2>1, RowTyped
<1>4. name \in Nat
  BY RowTyped
<1>5. [i \in 1 .. n |-> RowAt(c, name, i).column] \in Seq(Columns \union {Placeholder})
  <2> HIDE DEF n
  <2> QED
    BY <1>2, <1>3
<1> QED
  BY SMTT(20), <1>2, <1>3, <1>4, <1>5, GroupedIs DEF Infos, IndexInfo

LEMMA FetchFinite ==
  ASSUME NEW c \in Catalogs
  PROVE  IsFiniteSet(FetchIndexes(c))
<1> DEFINE f == [r \in IndexRows(c) |-> Grouped(IndexRows(c), r.name)]
<1>1. f = [r \in IndexRows(c) |-> f[r]]
  OBVIOUS
<1>2. FetchIndexes(c) = {f[r] : r \in IndexRows(c)}
  BY DEF FetchIndexes
<1> HIDE DEF f
<1> QED
  BY <1>1, <1>2, RowsFinite, FiniteImage
\* What the code makes of an index whose name no other index has.
Info(index) ==
  [name |-> index.name, table |-> index.table,
   columns |-> [i \in 1 .. Size(index) |-> ColumnOf((index.keys \o index.included)[i])],
   isUnique |-> index.isUnique, isPrimary |-> index.isPrimary]

LEMMA UniqueGroup ==
  ASSUME NEW c \in Catalogs, NEW index \in c,
         \A other \in c : other.name = index.name => other = index
  PROVE  Grouped(IndexRows(c), index.name) = Info(index)
<1> DEFINE name == index.name
           G == Group(c, name)
           n == Size(index)
<1>1. n \in Nat /\ n >= 1
  BY CatalogsAssumption, ColumnsTyped
<1>2. G = {RowOf(index, i) : i \in 1 .. n}
  <2>1. ASSUME NEW r \in G
        PROVE  \E i \in 1 .. n : r = RowOf(index, i)
    <3>1. r \in IndexRows(c) /\ r.name = name
      BY DEF Group
    <3>2. PICK other \in c : \E i \in 1 .. Size(other) : r = RowOf(other, i)
      BY <3>1, RowTyped
    <3>3. other.name = name
      BY <3>1, <3>2 DEF RowOf
    <3>4. other = index
      BY <3>3
    <3> QED
      BY <3>2, <3>4
  <2>2. ASSUME NEW i \in 1 .. n
        PROVE  RowOf(index, i) \in G
    <3>1. RowOf(index, i) \in RowsOf(index) /\ RowOf(index, i).name = name
      BY RowsOfOne DEF RowOf
    <3> QED
      BY <3>1 DEF Group, IndexRows
  <2> QED
    BY <2>1, <2>2
<1>3. \A i : RowOf(index, i).ord = i
  BY DEF RowOf
<1>4. \A i, j \in 1 .. n : Before(RowOf(index, i), RowOf(index, j)) <=> i < j
  <2> SUFFICES ASSUME NEW i \in 1 .. n, NEW j \in 1 .. n
               PROVE  Before(RowOf(index, i), RowOf(index, j)) <=> i < j
    OBVIOUS
  <2>1. index.table \in Nat /\ index.name \in Nat /\ index.schema \in Nat
    BY CatalogsAssumption, IndexTyped
  <2>2. /\ RowOf(index, i).table = index.table /\ RowOf(index, j).table = index.table
        /\ RowOf(index, i).name = index.name /\ RowOf(index, j).name = index.name
        /\ RowOf(index, i).schema = index.schema /\ RowOf(index, j).schema = index.schema
        /\ RowOf(index, i).ord = i /\ RowOf(index, j).ord = j
    BY DEF RowOf
  <2>3. \A m \in Nat : ~ (m < m)
    OBVIOUS
  <2> QED
    BY <2>1, <2>2, <2>3 DEF Before
<1> HIDE DEF n
<1>5. ASSUME NEW i \in 1 .. n
      PROVE  Place(RowOf(index, i), G) = i
  <2> DEFINE U == {s \in G : s = RowOf(index, i) \/ Before(s, RowOf(index, i))}
             T == 1 .. i
             f == [j \in T |-> RowOf(index, j)]
  <2>1. i \in Nat /\ T \subseteq 1 .. n
    BY <1>1
  <2>2. \A j \in 1 .. n : j \in T <=> (j = i \/ j < i)
    BY <1>1
  <2>3. U = {RowOf(index, j) : j \in T}
    <3>1. ASSUME NEW s \in U
          PROVE  \E j \in T : s = RowOf(index, j)
      <4>1. PICK j \in 1 .. n : s = RowOf(index, j)
        BY <1>2
      <4>2. j = i \/ j < i
        BY <1>3, <1>4, <4>1
      <4> QED
        BY <2>2, <4>1, <4>2
    <3>2. ASSUME NEW j \in T
          PROVE  RowOf(index, j) \in U
      <4>1. j \in 1 .. n /\ (j = i \/ j < i)
        BY <2>1, <2>2
      <4> QED
        BY <1>2, <1>4, <4>1
    <3> QED
      BY <3>1, <3>2
  <2>4. f \in [T -> U]
    BY <2>3
  <2>5. \A j, k \in T : f[j] = f[k] => j = k
    BY <1>3
  <2>6. \A u \in U : \E j \in T : f[j] = u
    BY <2>3
  <2>7. ExistsBijection(T, U)
    <3> HIDE DEF f, U, T
    <3> QED
      BY <2>4, <2>5, <2>6 DEF ExistsBijection, Bijection, Injection, IsInjective, Surjection
  <2>8. Cardinality(U) = i
    <3> HIDE DEF U
    <3> QED
      BY <2>1, <2>7, FS_CountingElements
  <2> QED
    BY <2>8 DEF Place
<1>6. Cardinality(G) = n
  <2> DEFINE f == [j \in 1 .. n |-> RowOf(index, j)]
  <2>1. f \in [1 .. n -> G] /\ \A u \in G : \E j \in 1 .. n : f[j] = u
    BY <1>2
  <2>2. \A j, k \in 1 .. n : f[j] = f[k] => j = k
    BY <1>3
  <2>3. ExistsBijection(1 .. n, G)
    <3> HIDE DEF f, G
    <3> QED
      BY <2>1, <2>2 DEF ExistsBijection, Bijection, Injection, IsInjective, Surjection
  <2> HIDE DEF G
  <2> QED
    BY <1>1, <2>3, FS_CountingElements
<1>7. ASSUME NEW i \in 1 .. n
      PROVE  RowAt(c, name, i) = RowOf(index, i)
  <2>1. RowAt(c, name, i) \in G /\ Place(RowAt(c, name, i), G) = i
    BY <1>6, RowAtPlace
  <2>2. RowOf(index, i) \in G /\ Place(RowOf(index, i), G) = i
    BY <1>2, <1>5
  <2> QED
    BY <2>1, <2>2, PlacesDiffer
<1>8. 1 \in 1 .. n
  BY <1>1
<1>9. \A i : /\ RowOf(index, i).table = index.table
             /\ RowOf(index, i).isUnique = index.isUnique
             /\ RowOf(index, i).isPrimary = index.isPrimary
             /\ RowOf(index, i).column = ColumnOf((index.keys \o index.included)[i])
  BY DEF RowOf
<1>10. /\ RowAt(c, name, 1).table = index.table
       /\ RowAt(c, name, 1).isUnique = index.isUnique
       /\ RowAt(c, name, 1).isPrimary = index.isPrimary
  BY <1>7, <1>8, <1>9
<1>11. \A i \in 1 .. n :
         RowAt(c, name, i).column = ColumnOf((index.keys \o index.included)[i])
  BY <1>7, <1>9
<1>12. [i \in 1 .. n |-> RowAt(c, name, i).column] =
       [i \in 1 .. n |-> ColumnOf((index.keys \o index.included)[i])]
  BY <1>11
<1>13. Grouped(IndexRows(c), name) =
         [name |-> name, table |-> index.table,
          columns |-> [i \in 1 .. n |-> RowAt(c, name, i).column],
          isUnique |-> index.isUnique, isPrimary |-> index.isPrimary]
  <2> HIDE DEF name
  <2> QED
    BY <1>6, <1>10, GroupedIs
<1> QED
  BY <1>12, <1>13 DEF Info, n

Unique(c) == \A x, y \in c : x.name = y.name => x = y

\* With names that differ, the code reads every index, and nothing else.
LEMMA FetchedExactly ==
  ASSUME NEW c \in Catalogs, Unique(c)
  PROVE  FetchIndexes(c) = {Info(index) : index \in c}
<1>1. ASSUME NEW index \in c
      PROVE  Grouped(IndexRows(c), index.name) = Info(index)
  BY UniqueGroup DEF Unique
<1>2. ASSUME NEW r \in IndexRows(c)
      PROVE  \E index \in c : Grouped(IndexRows(c), r.name) = Info(index)
  <2>1. PICK index \in c : \E i \in 1 .. Size(index) : r = RowOf(index, i)
    BY RowTyped
  <2>2. r.name = index.name
    BY <2>1 DEF RowOf
  <2> QED
    BY <1>1, <2>2
<1>3. ASSUME NEW index \in c
      PROVE  \E r \in IndexRows(c) : r.name = index.name
  <2>1. 1 \in 1 .. Size(index)
    <3>1. Size(index) \in Nat /\ Size(index) >= 1
      BY CatalogsAssumption, ColumnsTyped
    <3> QED
      BY <3>1
  <2>2. RowOf(index, 1) \in RowsOf(index) /\ RowOf(index, 1).name = index.name
    BY <2>1, RowsOfOne DEF RowOf
  <2> QED
    BY <2>2 DEF IndexRows
<1> QED
  BY <1>1, <1>2, <1>3 DEF FetchIndexes

-----------------------------------------------------------------------------
(* The invariant.                                                          *)

Reading ==
  /\ Original \in Catalogs
  /\ phase # "catalog" => indexes = FetchIndexes(Original)
  /\ phase = "catalog" => findings = {}
  /\ phase # "reported" => dropped = {}

\* A finding is about an index that was read and that backs no constraint; the
\* duplicates have the findings the detector's rule says, and no others.
FindingsSound ==
  \A f \in findings :
     \E i \in indexes :
        /\ i.name = f.name /\ ~IsConstraint(i)
        /\ f.detector = "duplicate_index" => i \in DuplicateIndexes(indexes)

DuplicatesFound ==
  phase # "catalog" =>
    \A i \in DuplicateIndexes(indexes) : Finding("duplicate_index", i) \in findings

\* Only what the search path finds is dropped, and only on a recommendation.
DropsRecommended ==
  \A d \in dropped :
     d.index.schema = 1 /\ [detector |-> d.detector, name |-> d.index.name] \in findings

Inv ==
  /\ TypeOK /\ Reading /\ FindingsSound /\ DuplicatesFound /\ DropsRecommended

LEMMA InitInv == Init => Inv
<1> SUFFICES ASSUME Init
             PROVE  Inv
  OBVIOUS
<1> USE DEF Init
<1>1. Original = catalog
  BY DEF Original
<1>2. TypeOK
  BY CatalogsAssumption DEF TypeOK
<1>3. Reading
  BY <1>1 DEF Reading
<1> QED
  BY <1>2, <1>3 DEF Inv, FindingsSound, DuplicatesFound, DropsRecommended

LEMMA NextInv == Inv /\ [Next]_vars => Inv'
<1> SUFFICES ASSUME Inv, [Next]_vars
             PROVE  Inv'
  OBVIOUS
<1>1. CASE DetectDuplicates
  <2> USE <1>1 DEF DetectDuplicates
  <2>1. catalog \in Catalogs /\ dropped = {} /\ Original = catalog /\ Original' = catalog
    BY DEF Inv, Reading, Original
  <2>2. indexes' = FetchIndexes(catalog) /\ indexes' \subseteq Infos
    BY <2>1, FetchTyped
  <2>3. \A i \in DuplicateIndexes(indexes') : i \in indexes' /\ ~IsConstraint(i)
    BY DEF DuplicateIndexes
  <2>4. \A f \in findings' : \E i \in DuplicateIndexes(indexes') :
           f = Finding("duplicate_index", i)
    OBVIOUS
  <2>5. TypeOK'
    <3>1. ASSUME NEW f \in findings'
          PROVE  f \in [detector : {"duplicate_index", "unused_index"}, name : Nat]
      <4>1. PICK i \in DuplicateIndexes(indexes') : f = Finding("duplicate_index", i)
        BY <2>4
      <4>2. i.name \in Nat
        BY <2>2, <2>3, InfoTyped
      <4> QED
        BY <4>1, <4>2 DEF Finding
    <3> QED
      BY <2>2, <3>1 DEF Inv, TypeOK, Infos
  <2>6. Reading'
    BY <2>1 DEF Reading
  <2>7. FindingsSound'
    <3> SUFFICES ASSUME NEW f \in findings'
                 PROVE  \E i \in indexes' :
                          /\ i.name = f.name /\ ~IsConstraint(i)
                          /\ f.detector = "duplicate_index" => i \in DuplicateIndexes(indexes')
      BY DEF FindingsSound
    <3>1. PICK i \in DuplicateIndexes(indexes') : f = Finding("duplicate_index", i)
      BY <2>4
    <3> QED
      BY <2>3, <3>1 DEF Finding
  <2>8. DuplicatesFound'
    BY DEF DuplicatesFound
  <2>9. DropsRecommended'
    BY <2>1 DEF DropsRecommended
  <2> QED
    BY <2>5, <2>6, <2>7, <2>8, <2>9 DEF Inv
<1>2. CASE DetectUnused
  <2> USE <1>2 DEF DetectUnused
  <2>1. PICK usage \in UsageByName(catalog) :
          findings' = findings \union
            {Finding("unused_index", i) : i \in UnusedIndexes(indexes, usage, MaxScans)}
    OBVIOUS
  <2>2. \A i \in UnusedIndexes(indexes, usage, MaxScans) : i \in indexes /\ ~IsConstraint(i)
    BY DEF UnusedIndexes
  <2>3. indexes \subseteq Infos
    BY DEF Inv, TypeOK, Infos
  <2>4. ASSUME NEW f \in findings', f \notin findings
        PROVE  \E i \in indexes : f = Finding("unused_index", i) /\ ~IsConstraint(i)
    BY <2>1, <2>2, <2>4
  <2>5. TypeOK'
    <3>1. ASSUME NEW f \in findings'
          PROVE  f \in [detector : {"duplicate_index", "unused_index"}, name : Nat]
      <4>1. CASE f \in findings
        BY <4>1 DEF Inv, TypeOK
      <4>2. CASE f \notin findings
        <5>1. PICK i \in indexes : f = Finding("unused_index", i)
          BY <2>4, <4>2
        <5>2. i.name \in Nat
          BY <2>3, InfoTyped
        <5> QED
          BY <5>1, <5>2 DEF Finding
      <4> QED
        BY <4>1, <4>2
    <3> QED
      BY <3>1 DEF Inv, TypeOK
  <2>6. Original' = Original
    BY DEF Original
  <2>7. Reading'
    BY <2>6 DEF Inv, Reading
  <2>8. FindingsSound'
    <3> SUFFICES ASSUME NEW f \in findings'
                 PROVE  \E i \in indexes :
                          /\ i.name = f.name /\ ~IsConstraint(i)
                          /\ f.detector = "duplicate_index" => i \in DuplicateIndexes(indexes)
      BY DEF FindingsSound
    <3>1. CASE f \in findings
      BY <3>1 DEF Inv, FindingsSound
    <3>2. CASE f \notin findings
      <4>1. PICK i \in indexes : f = Finding("unused_index", i) /\ ~IsConstraint(i)
        BY <2>4, <3>2
      <4>2. f.name = i.name /\ f.detector # "duplicate_index"
        BY <4>1 DEF Finding
      <4> QED
        BY <4>1, <4>2
    <3> QED
      BY <3>1, <3>2
  <2>9. DuplicatesFound'
    BY <2>1 DEF Inv, DuplicatesFound
  <2>10. DropsRecommended'
    BY <2>1 DEF Inv, DropsRecommended
  <2> QED
    BY <2>5, <2>7, <2>8, <2>9, <2>10 DEF Inv
<1>3. ASSUME NEW f \in findings, DropIndex(f)
      PROVE  Inv'
  <2> USE <1>3 DEF DropIndex
  <2>1. PICK index \in catalog :
          /\ index.name = f.name /\ index.schema = 1
          /\ catalog' = catalog \ {index}
          /\ dropped' = dropped \union {[index |-> index, detector |-> f.detector]}
    OBVIOUS
  <2>2. phase = "reported" /\ UNCHANGED <<phase, indexes, findings>>
    OBVIOUS
  <2>3. /\ f.detector \in {"duplicate_index", "unused_index"}
        /\ f = [detector |-> f.detector, name |-> f.name]
        /\ index \in Index /\ catalog \subseteq Index
    BY DEF Inv, TypeOK
  <2>4. Original' = Original
    <3>1. {d.index : d \in dropped'} = {d.index : d \in dropped} \union {index}
      <4> DEFINE e == [index |-> index, detector |-> f.detector]
      <4>1. e.index = index /\ dropped' = dropped \union {e}
        BY <2>1
      <4> HIDE <1>3 DEF e, DropIndex
      <4> QED
        BY <4>1
    <3> QED
      BY <2>1, <3>1 DEF Original
  <2>5. TypeOK'
    <3>1. [index |-> index, detector |-> f.detector] \in
            [index : Index, detector : {"duplicate_index", "unused_index"}]
      BY <2>3
    <3> QED
      BY <2>1, <2>2, <2>3, <3>1 DEF Inv, TypeOK
  <2>6. Reading'
    BY <2>2, <2>4 DEF Inv, Reading
  <2>7. FindingsSound'
    BY <2>2 DEF Inv, FindingsSound
  <2>8. DuplicatesFound'
    BY <2>2 DEF Inv, DuplicatesFound
  <2>9. DropsRecommended'
    <3> SUFFICES ASSUME NEW d \in dropped'
                 PROVE  /\ d.index.schema = 1
                        /\ [detector |-> d.detector, name |-> d.index.name] \in findings
      BY <2>2 DEF DropsRecommended
    <3>1. CASE d \in dropped
      BY <3>1 DEF Inv, DropsRecommended
    <3>2. CASE d \notin dropped
      <4>1. d = [index |-> index, detector |-> f.detector]
        BY <2>1, <3>2
      <4>2. d.index = index /\ d.detector = f.detector
        BY <4>1
      <4>3. [detector |-> d.detector, name |-> d.index.name] = f
        BY <2>1, <2>3, <4>2
      <4> QED
        BY <2>1, <4>2, <4>3
    <3> QED
      BY <3>1, <3>2
  <2> QED
    BY <2>5, <2>6, <2>7, <2>8, <2>9 DEF Inv
<1>4. CASE UNCHANGED vars
  BY <1>4 DEF vars, Inv, TypeOK, Reading, Original, FindingsSound, DuplicatesFound,
              DropsRecommended
<1> QED
  BY <1>1, <1>2, <1>3, <1>4 DEF Next

LEMMA SpecInv == Spec => []Inv
<1>1. Init => Inv
  BY InitInv
<1>2. Inv /\ [Next]_vars => Inv'
  BY NextInv
<1> QED
  BY <1>1, <1>2, PTL DEF Spec

-----------------------------------------------------------------------------
(* What follows from it.                                                   *)

LEMMA InfoOf ==
  ASSUME NEW x
  PROVE  /\ Info(x).name = x.name /\ Info(x).table = x.table
         /\ IsConstraint(Info(x)) <=> IsConstraint(x)
BY DEF Info, IsConstraint

\* The columns the code has of an index that has nothing but columns are those
\* it has.
LEMMA InfoOfPlain ==
  ASSUME NEW x \in Index, Plain(x)
  PROVE  Info(x).columns = x.keys
<1> DEFINE A == Columns \union Expressions
           k == x.keys
<1>1. k \in Seq(A) /\ Len(k) \in Nat /\ k = [i \in 1 .. Len(k) |-> k[i]]
  <2>1. k \in Seq(A)
    BY IndexTyped
  <2> HIDE DEF k, A
  <2> QED
    BY <2>1
<1>2. x.included = <<>> /\ \A i \in 1 .. Len(k) : k[i] \in Columns
  BY DEF Plain
<1>3. k \o <<>> = k
  <2> HIDE DEF k, A
  <2> QED
    BY <1>1
<1>4. Size(x) = Len(k) /\ x.keys \o x.included = k
  BY <1>2, <1>3 DEF Size
<1>5. \A i \in 1 .. Len(k) : ColumnOf(k[i]) = k[i]
  BY <1>2, ColumnsAssumption DEF ColumnOf
<1>6. Info(x).columns = [i \in 1 .. Size(x) |-> ColumnOf((x.keys \o x.included)[i])]
  BY DEF Info
<1>7. Info(x).columns = [i \in 1 .. Len(k) |-> ColumnOf(k[i])]
  BY <1>4, <1>6
<1>8. [i \in 1 .. Len(k) |-> ColumnOf(k[i])] = [i \in 1 .. Len(k) |-> k[i]]
  BY <1>5
<1> QED
  BY <1>1, <1>7, <1>8

\* A prefix, item by item.
LEMMA Prefix ==
  ASSUME NEW S, NEW s \in Seq(S), NEW t \in Seq(S)
  PROVE  IsPrefix(s, t) <=> s = t \/ IsProperPrefix(s, t)
<1>1. Len(s) \in Nat /\ Len(t) \in Nat /\ SubSeq(s, 1, Len(s)) = s /\ SubSeq(t, 1, Len(t)) = t
  OBVIOUS
<1>2. CASE Len(s) = Len(t)
  <2>1. ~ (Len(s) < Len(t)) /\ Len(s) <= Len(t)
    BY <1>1, <1>2
  <2>2. SubSeq(s, 1, Len(s)) = s /\ SubSeq(t, 1, Len(s)) = t
    BY <1>1, <1>2
  <2> QED
    BY <2>1, <2>2 DEF IsPrefix, IsProperPrefix
<1>3. CASE Len(s) # Len(t)
  <2>1. Len(s) < Len(t) <=> Len(s) <= Len(t)
    <3> DEFINE m == Len(s)
               n == Len(t)
    <3>1. m \in Nat /\ n \in Nat /\ m # n
      BY <1>1, <1>3
    <3> HIDE DEF m, n
    <3>2. m < n <=> m <= n
      BY <3>1
    <3> QED
      BY <3>2 DEF m, n
  <2>4. s # t
    BY <1>3
  <2>2. SubSeq(s, 1, Len(s)) = s
    BY <1>1
  <2>3. IsPrefix(s, t) <=> Len(s) <= Len(t) /\ s = SubSeq(t, 1, Len(s))
    BY <2>2 DEF IsPrefix
  <2> QED
    BY <2>1, <2>3, <2>4 DEF IsProperPrefix
<1> QED
  BY <1>2, <1>3

\* With names that differ, the infos are those of the indexes there were, and
\* what is dropped has been flagged.
LEMMA Flagged ==
  ASSUME Inv, NamesUnique, NEW d \in dropped
  PROVE  /\ indexes = {Info(x) : x \in Original}
         /\ d.index \in Original /\ ~IsConstraint(Info(d.index))
         /\ d.detector = "duplicate_index" => Info(d.index) \in DuplicateIndexes(indexes)
<1>1. Original \in Catalogs /\ indexes = FetchIndexes(Original)
  BY DEF Inv, Reading
<1>2. Unique(Original)
  BY DEF NamesUnique, Unique
<1>3. indexes = {Info(x) : x \in Original}
  BY <1>1, <1>2, FetchedExactly
<1>4. d.index \in Original
  BY DEF Original
<1> DEFINE f == [detector |-> d.detector, name |-> d.index.name]
<1>5. f \in findings
  BY DEF Inv, DropsRecommended
<1>6. PICK i \in indexes : /\ i.name = f.name /\ ~IsConstraint(i)
                           /\ f.detector = "duplicate_index" => i \in DuplicateIndexes(indexes)
  BY <1>5 DEF Inv, FindingsSound
<1>7. PICK x \in Original : i = Info(x)
  BY <1>3, <1>6
<1>8. x = d.index
  BY <1>4, <1>6, <1>7, InfoOf DEF NamesUnique
<1> QED
  BY <1>3, <1>4, <1>6, <1>7, <1>8

(* The state has its type; what fetch_indexes returns is an IndexInfo of   *)
(* columns or placeholders whatever the catalog holds (index_catalog.py).  *)
THEOREM Typing == Spec => []TypeOK
<1>1. Inv => TypeOK
  BY DEF Inv
<1> QED
  BY <1>1, SpecInv, PTL

(* An index that backs a constraint only goes for a namesake in another    *)
(* schema that backs none: an info has its flags from a row of some index  *)
(* of its name (duplicate_index_detector.py:8-12, index_catalog.py:58-66). *)
THEOREM ConstraintsKept == Spec => []ConstraintsSurvive
<1>1. Inv => ConstraintsSurvive
  <2> SUFFICES ASSUME Inv, NEW d \in dropped
               PROVE  \E other \in Original :
                         other.name = d.index.name /\ ~IsConstraint(other)
    BY DEF ConstraintsSurvive
  <2> DEFINE name == d.index.name
  <2>1. Original \in Catalogs /\ indexes = FetchIndexes(Original)
    BY DEF Inv, Reading
  <2>2. PICK i \in indexes : i.name = name /\ ~IsConstraint(i)
    <3> DEFINE f == [detector |-> d.detector, name |-> name]
    <3>1. f \in findings /\ f.name = name
      BY DEF Inv, DropsRecommended
    <3> QED
      BY <3>1 DEF Inv, FindingsSound
  <2>3. PICK r \in IndexRows(Original) : i = Grouped(IndexRows(Original), r.name)
    BY <2>1, <2>2 DEF FetchIndexes
  <2>4. r.name = name
    BY <2>2, <2>3, GroupedIs
  <2> DEFINE first == RowAt(Original, name, 1)
  <2>5. i.isUnique = first.isUnique /\ i.isPrimary = first.isPrimary
    BY <2>3, <2>4, GroupedIs
  <2>6. first \in IndexRows(Original) /\ first.name = name
    <3>1. r \in Group(Original, name) /\ IsFiniteSet(Group(Original, name))
      BY <2>1, <2>4, GroupFinite DEF Group
    <3>2. 1 \in 1 .. Cardinality(Group(Original, name))
      BY <3>1, FS_EmptySet, FS_CardinalityType
    <3> QED
      BY <2>1, <3>2, RowAtPlace DEF Group
  <2>7. PICK other \in Original : \E n \in 1 .. Size(other) : first = RowOf(other, n)
    BY <2>1, <2>6, RowTyped
  <2>8. /\ other.name = name
        /\ other.isUnique = i.isUnique /\ other.isPrimary = i.isPrimary
    BY <2>5, <2>6, <2>7 DEF RowOf
  <2> QED
    BY <2>2, <2>8 DEF IsConstraint
<1> QED
  BY <1>1, SpecInv, PTL

(* Whatever duplicates are dropped, in whatever order, what they served is *)
(* still served (duplicate_index_detector.py:62-76).                       *)
THEOREM CoverLeft == Spec => []DuplicatesLeaveCover
<1>1. Inv => DuplicatesLeaveCover
  <2> SUFFICES ASSUME Inv, NamesUnique, TablesUnique,
                      \A index \in Original : Plain(index),
                      \A d \in dropped : d.detector = "duplicate_index",
                      NEW d \in dropped
               PROVE  \E index \in catalog : Serves(index, d.index)
    BY DEF DuplicatesLeaveCover
  <2> DEFINE x == d.index
  <2>1. /\ indexes = {Info(i) : i \in Original} /\ x \in Original
        /\ Info(x) \in DuplicateIndexes(indexes)
    BY Flagged
  <2>2. Original \in Catalogs /\ Original \subseteq Index
    BY CatalogsAssumption DEF Inv, Reading
  <2>3. indexes \subseteq Infos /\ IsFiniteSet(indexes)
    BY <2>2, FetchTyped, FetchFinite DEF Inv, Reading
  <2>4. PICK y \in Coverings(Info(x), indexes) : y \notin DuplicateIndexes(indexes)
    BY <2>1, <2>3, SurvivorCovers
  <2>5. y \in indexes /\ y.table = Info(x).table /\ MakesRedundant(y, Info(x))
    BY <2>4 DEF Coverings
  <2>6. PICK z \in Original : y = Info(z)
    BY <2>1, <2>5
  <2>7. z \in catalog
    <3> SUFFICES ASSUME NEW e \in dropped, z = e.index
                 PROVE  FALSE
      BY DEF Original
    <3>1. Info(e.index) \in DuplicateIndexes(indexes)
      BY Flagged
    <3> QED
      BY <2>4, <2>6, <3>1
  <2>8. Plain(x) /\ Plain(z) /\ x \in Index /\ z \in Index
    BY <2>1, <2>2, <2>6
  <2>9. Info(x).columns = x.keys /\ Info(z).columns = z.keys
    BY <2>8, InfoOfPlain
  <2>10. z.table = x.table /\ z.schema = x.schema
    BY <2>1, <2>5, <2>6, InfoOf DEF TablesUnique
  <2>11. IsPrefix(x.keys, z.keys)
    <3>1. x.keys = z.keys \/ IsProperPrefix(x.keys, z.keys)
      BY <2>5, <2>6, <2>9 DEF MakesRedundant
    <3>2. x.keys \in Seq(Columns \union Expressions) /\ z.keys \in Seq(Columns \union Expressions)
      BY <2>8, IndexTyped
    <3> QED
      BY <3>1, <3>2, Prefix
  <2>12. ~z.partial /\ ToSet(x.included) = {}
    BY <2>8 DEF Plain, ToSet
  <2> QED
    BY <2>7, <2>10, <2>11, <2>12 DEF Serves
<1> QED
  BY <1>1, SpecInv, PTL

(* When all duplicates are dropped, no redundant plain index is left       *)
(* (duplicate_index_detector.py:1-7).                                      *)
THEOREM NoneLeft == Spec => []NoRedundancyLeft
<1>1. Inv => NoRedundancyLeft
  <2> SUFFICES ASSUME Inv, NamesUnique, phase = "reported",
                      \A f \in findings : f.detector = "duplicate_index" =>
                        \A index \in catalog : index.name # f.name \/ index.schema # 1,
                      NEW x \in catalog, NEW y \in catalog,
                      x # y, Plain(x), Plain(y), x.schema = 1, Serves(y, x),
                      ~IsConstraint(x)
               PROVE  FALSE
    BY DEF NoRedundancyLeft
  <2>1. Original \in Catalogs /\ indexes = FetchIndexes(Original)
    BY DEF Inv, Reading
  <2>2. indexes = {Info(i) : i \in Original}
    BY <2>1, FetchedExactly DEF NamesUnique, Unique
  <2>3. x \in Original /\ y \in Original /\ Original \subseteq Index
    BY <2>1, CatalogsAssumption DEF Original
  <2>4. Info(x) \in indexes /\ Info(y) \in indexes
    BY <2>2, <2>3
  <2>5. ASSUME NEW z \in catalog, z.schema = 1
        PROVE  Info(z) \notin DuplicateIndexes(indexes)
    <3> SUFFICES ASSUME Info(z) \in DuplicateIndexes(indexes)
                 PROVE  FALSE
      OBVIOUS
    <3> DEFINE f == Finding("duplicate_index", Info(z))
    <3>1. f \in findings
      BY DEF Inv, DuplicatesFound
    <3>2. f.detector = "duplicate_index" /\ f.name = z.name
      BY InfoOf DEF Finding
    <3> HIDE DEF f
    <3> QED
      BY <2>5, <3>1, <3>2
  <2>6. x.name # y.name /\ Info(x) # Info(y)
    BY <2>3, InfoOf DEF NamesUnique
  <2>7. y.schema = 1 /\ y.table = x.table /\ IsPrefix(x.keys, y.keys)
    BY DEF Serves
  <2>8. Info(x).columns = x.keys /\ Info(y).columns = y.keys
    BY <2>3, InfoOfPlain
  <2>9. x.keys \in Seq(Columns \union Expressions) /\ y.keys \in Seq(Columns \union Expressions)
        /\ x.name \in Nat /\ y.name \in Nat
    BY <2>3, IndexTyped
  <2>10. x.keys = y.keys \/ IsProperPrefix(x.keys, y.keys)
    BY <2>7, <2>9, Prefix
  <2>11. CASE MakesRedundant(Info(y), Info(x))
    <3>1. Info(y) \in Coverings(Info(x), indexes)
      BY <2>4, <2>6, <2>7, <2>11, InfoOf DEF Coverings
    <3>2. Info(x) \in DuplicateIndexes(indexes)
      BY <2>4, <3>1, InfoOf DEF DuplicateIndexes
    <3> QED
      BY <2>5, <3>2
  <2>12. CASE ~MakesRedundant(Info(y), Info(x))
    <3>1. x.keys = y.keys /\ ~KeepOver(Info(y), Info(x))
      BY <2>8, <2>10, <2>12 DEF MakesRedundant
    <3>2. ~IsConstraint(y) /\ x.name < y.name
      BY <2>6, <2>9, <3>1, InfoOf DEF KeepOver
    <3>3. MakesRedundant(Info(x), Info(y))
      BY <2>8, <3>1, <3>2, InfoOf DEF MakesRedundant, KeepOver
    <3>4. Info(x) \in Coverings(Info(y), indexes)
      BY <2>4, <2>6, <2>7, <3>3, InfoOf DEF Coverings
    <3>5. Info(y) \in DuplicateIndexes(indexes)
      BY <2>4, <3>2, <3>4, InfoOf DEF DuplicateIndexes
    <3> QED
      BY <2>5, <2>7, <3>5
  <2> QED
    BY <2>11, <2>12
<1> QED
  BY <1>1, SpecInv, PTL
=============================================================================
