---------------------------- MODULE AdviceProofs ----------------------------
(***************************************************************************)
(* Theorems about how findings become advice: the index advisor and the    *)
(* merge over a workload (IndexAdvisor, AdviceRun), and the grouping,      *)
(* folding and ranking of RecommendationEngine, for workloads and findings *)
(* of any length and any tables and columns.                               *)
(***************************************************************************)
EXTENDS AdviceRun, FiniteSetTheorems, SequenceTheorems, WellFoundedInduction, TLAPS

-----------------------------------------------------------------------------
(* Sets of numbers.                                                        *)

\* A nonempty set of natural numbers has a least one: one with the fewest
\* members of the set below it.
LEMMA Least ==
  ASSUME NEW T, T \subseteq Nat, T # {}
  PROVE  \E x \in T : \A y \in T : x <= y
<1> DEFINE Below(x) == {y \in T : y < x}
<1> DEFINE Belows   == {Below(x) : x \in T}
<1>1. Belows \subseteq FiniteSubsetsOf(Nat)
  <2> SUFFICES ASSUME NEW x \in T
               PROVE  Below(x) \subseteq Nat /\ IsFiniteSet(Below(x))
    BY DEF FiniteSubsetsOf
  <2>1. x \in Nat /\ \A y \in T : y \in Nat
    OBVIOUS
  <2>2. Below(x) \subseteq 0 .. x
    <3> SUFFICES ASSUME NEW y \in T, y < x
                 PROVE  y \in 0 .. x
      BY Zenon
    <3>1. x \in Nat /\ y \in Nat
      BY <2>1
    <3> QED
      BY <3>1
  <2>3. IsFiniteSet(0 .. x)
    BY <2>1, FS_Interval
  <2>4. Below(x) \subseteq Nat
    BY <2>1
  <2> QED
    BY <2>2, <2>3, <2>4, FS_Subset
<1>2. PICK B \in Belows : \A C \in Belows : ~ (<<C, B>> \in StrictSubsetOrdering(Nat))
  <2>1. Belows # {}
    OBVIOUS
  <2> HIDE DEF Belows
  <2> QED
    BY <1>1, <2>1, WFMin, FS_StrictSubsetOrderingWellFounded
<1>3. PICK x \in T : B = Below(x)
  BY <1>2
<1>4. ASSUME NEW y \in T, y < x
      PROVE  FALSE
  <2>1. x \in Nat /\ \A z \in T : z \in Nat
    OBVIOUS
  <2>2. y \in Below(x) /\ y \notin Below(y)
    BY <1>4, <2>1
  <2>3. Below(y) \subseteq Below(x)
    <3> SUFFICES ASSUME NEW z \in T, z < y
                 PROVE  z < x
      OBVIOUS
    <3> QED
      BY <1>4, <2>1
  <2>4. Below(x) \subseteq Nat
    BY <2>1
  <2>5. <<Below(y), Below(x)>> \in StrictSubsetOrdering(Nat)
    BY <2>2, <2>3, <2>4 DEF StrictSubsetOrdering
  <2> QED
    BY <1>2, <1>3, <2>5
<1> QED
  BY <1>4

-----------------------------------------------------------------------------
(* Enumerations.                                                           *)

\* The members of a set from first to last in a relation.
Enumerated(S, R) ==
  [n \in 1 .. Cardinality(S) |->
     CHOOSE r \in S : Cardinality({s \in S : <<s, r>> \in R}) = n - 1]

\* If the set is finite and the relation a strict total order of it, that is a list
\* of exactly its members, in order.
LEMMA EnumeratedInOrder ==
  ASSUME NEW S, NEW R, IsFiniteSet(S),
         \A r \in S : <<r, r>> \notin R,
         \A r, s, t \in S : <<r, s>> \in R /\ <<s, t>> \in R => <<r, t>> \in R,
         \A r, s \in S : r = s \/ <<r, s>> \in R \/ <<s, r>> \in R
  PROVE  /\ DOMAIN Enumerated(S, R) = 1 .. Cardinality(S) /\ Cardinality(S) \in Nat
         /\ {Enumerated(S, R)[n] : n \in DOMAIN Enumerated(S, R)} = S
         /\ \A m, n \in DOMAIN Enumerated(S, R) :
               m < n => <<Enumerated(S, R)[m], Enumerated(S, R)[n]>> \in R
         /\ \A n \in DOMAIN Enumerated(S, R) : \A r \in S :
               Cardinality({s \in S : <<s, r>> \in R}) = n - 1 <=> r = Enumerated(S, R)[n]
<1> DEFINE Ahead(r) == {s \in S : <<s, r>> \in R}
           card == Cardinality(S)
           T == 1 .. card
           f == [r \in S |-> Cardinality(Ahead(r)) + 1]
<1>1. card \in Nat
  BY FS_CardinalityType
<1>2. ASSUME NEW r \in S
      PROVE  Cardinality(Ahead(r)) \in Nat /\ Cardinality(Ahead(r)) + 1 \in T
  <2>1. Ahead(r) \subseteq S /\ r \notin Ahead(r)
    OBVIOUS
  <2> HIDE DEF Ahead
  <2>2. IsFiniteSet(Ahead(r)) /\ Cardinality(Ahead(r)) <= Cardinality(S)
        /\ (Cardinality(S) = Cardinality(Ahead(r)) => S = Ahead(r))
    BY <2>1, FS_Subset
  <2>3. Cardinality(Ahead(r)) \in Nat /\ Cardinality(Ahead(r)) # Cardinality(S)
    BY <2>1, <2>2, FS_CardinalityType
  <2> QED
    BY <1>1, <2>2, <2>3
<1>3. ASSUME NEW r \in S, NEW s \in S, <<r, s>> \in R
      PROVE  Cardinality(Ahead(r)) < Cardinality(Ahead(s))
  <2>1. Ahead(r) \subseteq Ahead(s) /\ r \in Ahead(s) /\ r \notin Ahead(r) /\ Ahead(s) \subseteq S
    BY <1>3
  <2> HIDE DEF Ahead
  <2>2. IsFiniteSet(Ahead(s))
    BY <2>1, FS_Subset
  <2>3. Cardinality(Ahead(r)) <= Cardinality(Ahead(s)) /\ Cardinality(Ahead(r)) # Cardinality(Ahead(s))
    BY <2>1, <2>2, FS_Subset
  <2> QED
    BY <1>2, <2>3
<1>4. f \in [S -> T] /\ \A r \in S : f[r] = Cardinality(Ahead(r)) + 1
  BY <1>2
<1> HIDE DEF Ahead
<1>5. ASSUME NEW r \in S, NEW s \in S, f[r] = f[s]
      PROVE  r = s
  <2>1. Cardinality(Ahead(r)) = Cardinality(Ahead(s))
    BY <1>2, <1>5
  <2>2. <<r, s>> \notin R /\ <<s, r>> \notin R
    BY <1>2, <1>3, <2>1
  <2> QED
    BY <2>2
<1>6. IsFiniteSet(T) /\ Cardinality(T) = card
  <2> HIDE DEF card
  <2>1. card \in Int /\ 1 \in Int /\ (1 > card => card = 0)
    BY <1>1
  <2>2. IsFiniteSet(1 .. card) /\ Cardinality(1 .. card) = IF 1 > card THEN 0 ELSE card - 1 + 1
    BY <2>1, FS_Interval
  <2> QED
    BY <1>1, <2>1, <2>2
<1> HIDE DEF f, T
<1>7. f \in Surjection(S, T)
  <2>1. f \in Injection(S, T)
    BY <1>4, <1>5 DEF Injection, IsInjective
  <2> QED
    BY <1>6, <2>1, FS_Injection
<1>8. ASSUME NEW n \in T
      PROVE  Enumerated(S, R)[n] \in S /\ Cardinality(Ahead(Enumerated(S, R)[n])) = n - 1
  <2>1. PICK r \in S : f[r] = n
    BY <1>7 DEF Surjection
  <2>2. Cardinality(Ahead(r)) = n - 1
    BY <1>2, <1>4, <2>1
  <2>3. Enumerated(S, R)[n] = CHOOSE s \in S : Cardinality(Ahead(s)) = n - 1
    BY DEF Enumerated, Ahead, T
  <2> QED
    BY <2>2, <2>3
<1>9. DOMAIN Enumerated(S, R) = T
  BY DEF Enumerated, T
<1>10. ASSUME NEW r \in S
       PROVE  \E n \in T : Enumerated(S, R)[n] = r
  <2> DEFINE n == f[r]
  <2>1. n \in T /\ n = Cardinality(Ahead(r)) + 1
    BY <1>4
  <2>2. Enumerated(S, R)[n] \in S /\ Cardinality(Ahead(Enumerated(S, R)[n])) = n - 1
    BY <1>8, <2>1
  <2>3. Cardinality(Ahead(Enumerated(S, R)[n])) = Cardinality(Ahead(r))
    BY <1>2, <2>1, <2>2
  <2>4. Enumerated(S, R)[n] = r
    BY <1>4, <1>5, <2>2, <2>3
  <2> QED
    BY <2>1, <2>4
<1>11. ASSUME NEW m \in T, NEW n \in T, m < n
       PROVE  <<Enumerated(S, R)[m], Enumerated(S, R)[n]>> \in R
  <2> DEFINE r == Enumerated(S, R)[m]
             s == Enumerated(S, R)[n]
  <2>1. r \in S /\ s \in S /\ Cardinality(Ahead(r)) = m - 1 /\ Cardinality(Ahead(s)) = n - 1
    BY <1>8
  <2>2. m \in Nat /\ n \in Nat
    BY <1>1 DEF T
  <2> HIDE DEF r, s
  <2>3. r # s
    BY <1>11, <2>1, <2>2
  <2>4. <<s, r>> \notin R
    <3> SUFFICES ASSUME <<s, r>> \in R
                 PROVE  FALSE
      OBVIOUS
    <3>1. n - 1 < m - 1
      BY <1>3, <2>1
    <3> QED
      BY <1>11, <2>2, <3>1
  <2>5. <<r, s>> \in R
    BY <2>1, <2>3, <2>4
  <2> QED
    BY <2>5 DEF r, s
<1>12. ASSUME NEW n \in T, NEW r \in S
       PROVE  Cardinality(Ahead(r)) = n - 1 <=> r = Enumerated(S, R)[n]
  <2> DEFINE e == Enumerated(S, R)[n]
  <2>1. e \in S /\ Cardinality(Ahead(e)) = n - 1
    BY <1>8
  <2> HIDE DEF e
  <2>2. f[e] = Cardinality(Ahead(e)) + 1 /\ f[r] = Cardinality(Ahead(r)) + 1
    BY <1>4, <2>1
  <2>3. ASSUME Cardinality(Ahead(r)) = n - 1 PROVE r = e
    <3>1. f[r] = f[e]
      BY <2>1, <2>2, <2>3
    <3> QED
      BY <1>5, <2>1, <3>1
  <2>4. Cardinality(Ahead(r)) = n - 1 <=> r = e
    BY <2>1, <2>3
  <2> QED
    BY <2>4 DEF e
<1>13. \A n \in T : \A r \in S :
          Cardinality({s \in S : <<s, r>> \in R}) = n - 1 <=> r = Enumerated(S, R)[n]
  BY <1>12 DEF Ahead
<1>14. \A n \in DOMAIN Enumerated(S, R) : \A r \in S :
          Cardinality({s \in S : <<s, r>> \in R}) = n - 1 <=> r = Enumerated(S, R)[n]
  BY <1>9, <1>13, Zenon
<1>15. /\ DOMAIN Enumerated(S, R) = 1 .. Cardinality(S) /\ Cardinality(S) \in Nat
       /\ {Enumerated(S, R)[n] : n \in DOMAIN Enumerated(S, R)} = S
       /\ \A m, n \in DOMAIN Enumerated(S, R) :
             m < n => <<Enumerated(S, R)[m], Enumerated(S, R)[n]>> \in R
  BY <1>1, <1>8, <1>9, <1>10, <1>11 DEF T
<1> QED
  BY <1>14, <1>15, Zenon

-----------------------------------------------------------------------------
(* The lists of the advisor.                                               *)

LEMMA ListDomain ==
  ASSUME NEW S, NEW list \in Seq(S)
  PROVE  /\ DOMAIN list = 1 .. Len(list) /\ Len(list) \in Nat
         /\ DOMAIN list \subseteq Nat /\ IsFiniteSet(DOMAIN list)
         /\ \A i \in DOMAIN list : list[i] \in S
         /\ ToSet(list) \subseteq S
<1>1. DOMAIN list = 1 .. Len(list) /\ Len(list) \in Nat /\ \A i \in DOMAIN list : list[i] \in S
  OBVIOUS
<1> QED
  BY <1>1, FS_Interval DEF ToSet

LEMMA EmptyList ==
  ASSUME NEW S, NEW list \in Seq(S)
  PROVE  list = <<>> <=> ToSet(list) = {}
<1>1. CASE list = <<>>
  <2>1. DOMAIN list = {}
    BY <1>1
  <2> QED
    BY <1>1, <2>1 DEF ToSet
<1>2. CASE list # <<>>
  <2>1. 1 \in DOMAIN list
    BY <1>2, ListDomain
  <2> QED
    BY <1>2, <2>1 DEF ToSet
<1> QED
  BY <1>1, <1>2

\* The positions from first to last.
LEMMA NthInOrder ==
  ASSUME NEW P, P \subseteq Nat, IsFiniteSet(P)
  PROVE  /\ Cardinality(P) \in Nat
         /\ \A n \in 1 .. Cardinality(P) : Nth(P, n) \in P
         /\ \A i \in P : \E n \in 1 .. Cardinality(P) : Nth(P, n) = i
         /\ \A m, n \in 1 .. Cardinality(P) : m < n => Nth(P, m) < Nth(P, n)
<1> DEFINE R == {p \in P \X P : p[1] < p[2]}
           E == Enumerated(P, R)
<1>1. \A i, j \in P : <<i, j>> \in R <=> i < j
  OBVIOUS
<1>2. ASSUME NEW i \in P PROVE {j \in P : j < i} = {j \in P : <<j, i>> \in R}
  BY <1>1
<1>3. \A i \in P : i \in Nat
  OBVIOUS
<1> HIDE DEF R
<1>4. /\ \A i \in P : <<i, i>> \notin R
      /\ \A i, j, k \in P : <<i, j>> \in R /\ <<j, k>> \in R => <<i, k>> \in R
      /\ \A i, j \in P : i = j \/ <<i, j>> \in R \/ <<j, i>> \in R
  BY <1>1, <1>3
<1>5. /\ DOMAIN E = 1 .. Cardinality(P) /\ Cardinality(P) \in Nat
      /\ {E[n] : n \in DOMAIN E} = P
      /\ \A m, n \in DOMAIN E : m < n => <<E[m], E[n]>> \in R
      /\ \A n \in DOMAIN E : \A i \in P :
            Cardinality({j \in P : <<j, i>> \in R}) = n - 1 <=> i = E[n]
  BY <1>4, EnumeratedInOrder
<1> HIDE DEF E
<1>6. \A n \in DOMAIN E : E[n] \in P
  BY <1>5
<1>7. ASSUME NEW n \in DOMAIN E PROVE Nth(P, n) = E[n]
  <2>1. \A i \in P : Cardinality({j \in P : j < i}) = n - 1 <=> i = E[n]
    BY <1>2, <1>5
  <2> QED
    BY <1>6, <2>1 DEF Nth
<1>8. \A i \in P : \E n \in DOMAIN E : Nth(P, n) = i
  BY <1>5, <1>7
<1>9. \A m, n \in DOMAIN E : m < n => Nth(P, m) < Nth(P, n)
  BY ZenonT(30), <1>1, <1>5, <1>6, <1>7
<1> QED
  BY <1>5, <1>6, <1>7, <1>8, <1>9

\* The members at some positions of a list.
LEMMA AtIs ==
  ASSUME NEW S, NEW list \in Seq(S), NEW P, P \subseteq DOMAIN list
  PROVE  /\ At(list, P) \in Seq(S)
         /\ ToSet(At(list, P)) = {list[i] : i \in P}
         /\ \A n \in DOMAIN At(list, P) : Nth(P, n) \in P /\ At(list, P)[n] = list[Nth(P, n)]
         /\ \A m, n \in DOMAIN At(list, P) : m < n => Nth(P, m) < Nth(P, n)
<1> DEFINE card == Cardinality(P)
           at == At(list, P)
<1>1. P \subseteq Nat /\ IsFiniteSet(P)
  BY ListDomain, FS_Subset
<1>2. /\ card \in Nat
      /\ \A n \in 1 .. card : Nth(P, n) \in P
      /\ \A i \in P : \E n \in 1 .. card : Nth(P, n) = i
      /\ \A m, n \in 1 .. card : m < n => Nth(P, m) < Nth(P, n)
  BY <1>1, NthInOrder
<1>3. at = [n \in 1 .. card |-> list[Nth(P, n)]]
  BY DEF At
<1> HIDE DEF card, at
<1>4. \A i \in P : list[i] \in S
  OBVIOUS
<1>5. DOMAIN at = 1 .. card /\ \A n \in 1 .. card : at[n] = list[Nth(P, n)]
  BY <1>3
<1>6. at \in Seq(S)
  BY <1>2, <1>3, <1>4, <1>5
<1>7. ToSet(at) = {list[i] : i \in P}
  BY <1>2, <1>5 DEF ToSet
<1> QED
  BY <1>2, <1>5, <1>6, <1>7 DEF at

\* Distinct keeps every member of the list once.  A member of the result comes
\* before another if it comes first in the list.
LEMMA DistinctIs ==
  ASSUME NEW S, NEW list \in Seq(S)
  PROVE  /\ Distinct(list) \in Seq(S)
         /\ ToSet(Distinct(list)) = ToSet(list)
         /\ \A m, n \in DOMAIN Distinct(list) : Distinct(list)[m] = Distinct(list)[n] => m = n
         /\ \A m, n \in DOMAIN Distinct(list) : \A j \in DOMAIN list :
               m < n /\ list[j] = Distinct(list)[n]
               => \E i \in DOMAIN list : i < j /\ list[i] = Distinct(list)[m]
<1> DEFINE P == {i \in DOMAIN list : \A j \in 1 .. (i - 1) : list[j] # list[i]}
           D == Distinct(list)
<1>1. DOMAIN list = 1 .. Len(list) /\ Len(list) \in Nat /\ DOMAIN list \subseteq Nat
  BY ListDomain
<1>2. \A i, j \in P : list[i] = list[j] => i = j
  <2> SUFFICES ASSUME NEW i \in P, NEW j \in P, list[i] = list[j], i < j
               PROVE  FALSE
    BY <1>1
  <2>1. i \in 1 .. (j - 1)
    BY <1>1
  <2> QED
    BY <2>1
<1>3. ASSUME NEW k \in DOMAIN list PROVE \E i \in P : i <= k /\ list[i] = list[k]
  <2> DEFINE T == {i \in DOMAIN list : list[i] = list[k]}
  <2>1. T \subseteq Nat /\ k \in T
    BY <1>1
  <2>2. PICK i \in T : \A j \in T : i <= j
    BY <2>1, Least
  <2>3. i \in DOMAIN list /\ list[i] = list[k] /\ i <= k
    BY <2>1, <2>2
  <2>4. ASSUME NEW j \in 1 .. (i - 1) PROVE list[j] # list[i]
    <3>1. j \in DOMAIN list /\ j < i
      BY <1>1, <2>3
    <3> QED
      BY <1>1, <2>2, <2>3, <3>1
  <2> QED
    BY <2>3, <2>4
<1>4. D = At(list, P) /\ P \subseteq DOMAIN list
  BY DEF Distinct
<1> HIDE DEF P, D
<1>5. /\ D \in Seq(S)
      /\ ToSet(D) = {list[i] : i \in P}
      /\ \A n \in DOMAIN D : Nth(P, n) \in P /\ D[n] = list[Nth(P, n)]
      /\ \A m, n \in DOMAIN D : m < n => Nth(P, m) < Nth(P, n)
  BY <1>4, AtIs
<1>6. ToSet(D) = ToSet(list)
  <2>1. \A x \in ToSet(D) : x \in ToSet(list)
    BY <1>4, <1>5 DEF ToSet
  <2>2. \A x \in ToSet(list) : x \in {list[i] : i \in P}
    BY <1>3 DEF ToSet
  <2> QED
    BY <1>5, <2>1, <2>2
<1>7. DOMAIN D \subseteq Nat
  BY <1>5, ListDomain
<1>8. ASSUME NEW m \in DOMAIN D, NEW n \in DOMAIN D, D[m] = D[n] PROVE m = n
  <2>1. Nth(P, m) = Nth(P, n) /\ Nth(P, m) \in Nat
    BY <1>1, <1>2, <1>4, <1>5, <1>8
  <2>2. ~(m < n) /\ ~(n < m)
    BY <1>5, <2>1
  <2> QED
    BY <1>7, <2>2
<1>9. ASSUME NEW m \in DOMAIN D, NEW n \in DOMAIN D, NEW j \in DOMAIN list,
             m < n, list[j] = D[n]
      PROVE  \E i \in DOMAIN list : i < j /\ list[i] = D[m]
  <2>1. PICK k \in P : k <= j /\ list[k] = list[j]
    BY <1>3
  <2>2. k = Nth(P, n)
    BY <1>2, <1>5, <1>9, <2>1
  <2>3. Nth(P, m) \in P /\ Nth(P, m) < k /\ list[Nth(P, m)] = D[m]
    BY <1>5, <1>9, <2>2
  <2>4. Nth(P, m) \in DOMAIN list /\ Nth(P, m) \in Nat /\ k \in Nat /\ j \in Nat
    BY <1>1, <1>4, <2>1, <2>3
  <2>5. Nth(P, m) < j
    BY <2>1, <2>3, <2>4
  <2> QED
    BY <2>3, <2>4, <2>5
<1> QED
  BY <1>5, <1>6, <1>8, <1>9 DEF D

-----------------------------------------------------------------------------
(* The findings of a source and their groups.                              *)

LEMMA Positions ==
  ASSUME input \in [Sources -> Seq(Items)], NEW source \in Sources
  PROVE  /\ DOMAIN input[source] \subseteq Nat
         /\ IsFiniteSet(DOMAIN input[source])
         /\ \A i \in DOMAIN input[source] : input[source][i] \in Items
<1>1. input[source] \in Seq(Items)
  OBVIOUS
<1>2. /\ DOMAIN input[source] = 1 .. Len(input[source])
      /\ Len(input[source]) \in Nat
      /\ \A i \in DOMAIN input[source] : input[source][i] \in Items
  BY <1>1
<1> QED
  BY <1>2, FS_Interval

\* Grouping is an equivalence, so that two groups are equal or disjoint.
LEMMA GroupsApart ==
  ASSUME NEW source, NEW i \in DOMAIN input[source], NEW j \in Group(source, i)
  PROVE  i \in Group(source, i) /\ Group(source, j) = Group(source, i)
BY DEF Group, SameGroup

LEMMA GroupTyped ==
  ASSUME input \in [Sources -> Seq(Items)], NEW source \in Sources,
         NEW i \in DOMAIN input[source]
  PROVE  /\ Group(source, i) \subseteq Nat
         /\ Cardinality(Group(source, i)) \in Nat
<1>1. Group(source, i) \subseteq DOMAIN input[source]
  BY DEF Group
<1>2. IsFiniteSet(Group(source, i))
  BY <1>1, Positions, FS_Subset
<1> QED
  BY <1>1, <1>2, Positions, FS_CardinalityType

\* Every finding is in the group of one head.
LEMMA HeadExists ==
  ASSUME input \in [Sources -> Seq(Items)], NEW source \in Sources,
         NEW i \in DOMAIN input[source]
  PROVE  \E h \in Heads(source) : i \in Group(source, h)
<1>1. Group(source, i) \subseteq Nat /\ i \in Group(source, i)
  BY GroupTyped, GroupsApart DEF Group, SameGroup
<1>2. PICK h \in Group(source, i) : \A j \in Group(source, i) : h <= j
  BY <1>1, Least
<1>3. Group(source, h) = Group(source, i)
  BY GroupsApart
<1>4. h \in DOMAIN input[source]
  BY DEF Group
<1> QED
  BY <1>1, <1>2, <1>3, <1>4 DEF Heads

LEMMA HeadUnique ==
  ASSUME input \in [Sources -> Seq(Items)], NEW source \in Sources, NEW i,
         NEW g \in Heads(source), NEW h \in Heads(source),
         i \in Group(source, g), i \in Group(source, h)
  PROVE  g = h
<1>1. g \in DOMAIN input[source] /\ h \in DOMAIN input[source]
  BY DEF Heads
<1>2. Group(source, g) = Group(source, h) /\ g \in Group(source, g) /\ h \in Group(source, h)
  BY <1>1, GroupsApart
<1>3. g <= h /\ h <= g
  BY <1>2 DEF Heads
<1> QED
  BY <1>1, <1>3, Positions

\* The members of a group are folded together or not at all.
LEMMA FoldedTogether ==
  ASSUME NEW source, NEW i \in DOMAIN input[source], NEW j \in Group(source, i)
  PROVE  Folded(source, i) <=> Folded(source, j)
BY DEF Group, SameGroup, Folded

\* Every index recommendation is a group of its own.
LEMMA IndexHeads ==
  ASSUME input \in [Sources -> Seq(Items)], NEW k \in DOMAIN input["index"]
  PROVE  k \in Heads("index") /\ ~Folded("index", k)
<1>1. k \in Nat
  BY Positions DEF Sources
<1>2. Group("index", k) = {k}
  BY DEF Group, SameGroup
<1> QED
  BY <1>1, <1>2 DEF Heads, Folded

-----------------------------------------------------------------------------
(* The inductive invariant.                                                *)

\* The order in which generate goes through its sources.
Turn(s) ==
  CASE s = "index" -> 1 [] s = "plan" -> 2 [] s = "antiPattern" -> 3
    [] s = "hygiene" -> 4 [] s = "done" -> 5

TodoInv == stage \in Sources => todo \subseteq Heads(stage)

\* What is on the list comes from a group that was visited and not folded.
RankedInv ==
  \A r \in ranked :
    /\ r.source \in Sources
    /\ r.head \in Heads(r.source)
    /\ r.group = Group(r.source, r.head)
    /\ ~Folded(r.source, r.head)
    /\ Turn(r.source) <= Turn(stage)
    /\ r.source = stage => r.head \notin todo

OncePerGroup ==
  \A r, s \in ranked : r.source = s.source /\ r.head = s.head => r = s

\* A group that was visited is on the list, unless it was folded.
VisitedInv ==
  \A source \in Sources : \A h \in Heads(source) :
    \/ Turn(source) > Turn(stage)
    \/ source = stage /\ h \in todo
    \/ Folded(source, h)
    \/ \E r \in ranked : r.source = source /\ r.head = h

IInv ==
  /\ TypeOK
  /\ IsFiniteSet(ranked)
  /\ TodoInv
  /\ RankedInv
  /\ OncePerGroup
  /\ VisitedInv

LEMMA HeadsStable == ASSUME input' = input, NEW source PROVE Heads(source)' = Heads(source)
BY DEF Heads, Group, SameGroup

LEMMA GroupStable ==
  ASSUME input' = input, NEW source, NEW i PROVE Group(source, i)' = Group(source, i)
BY DEF Group, SameGroup

LEMMA FoldedStable ==
  ASSUME input' = input, NEW source, NEW i
  PROVE  (Folded(source, i) <=> Folded(source, i)')
BY DEF Folded, IndexedTables

LEMMA HeadsTyped ==
  ASSUME input \in [Sources -> Seq(Items)], NEW source \in Sources
  PROVE  Heads(source) \subseteq Nat
BY Positions DEF Heads

LEMMA InitInv == ASSUME Init PROVE IInv
<1>1. input \in [Sources -> Seq(Items)]
  BY DEF Init, Inputs
<1>2. TypeOK
  BY <1>1, HeadsTyped DEF Init, Begin, TypeOK, Sources
<1>3. IsFiniteSet(ranked)
  BY FS_EmptySet DEF Init, Begin
<1>4. TodoInv /\ RankedInv /\ OncePerGroup
  BY DEF Init, Begin, TodoInv, RankedInv, OncePerGroup
<1>5. VisitedInv
  BY DEF Init, Begin, VisitedInv, Turn, Sources
<1> QED
  BY <1>2, <1>3, <1>4, <1>5 DEF IInv

LEMMA RepresentativeTyped ==
  ASSUME TypeOK, IsFiniteSet(ranked), NEW source \in Sources, NEW i \in Heads(source)
  PROVE  Representative(source, i) \in Recommendation
<1>1. i \in DOMAIN input[source]
  BY DEF Heads
<1>2. input[source][i] \in Items /\ i \in Nat
  BY <1>1, Positions DEF TypeOK
<1>3. Tier(input[source][i].severity) \in 1 .. 3 /\ Tier(input[source][i].confidence) \in 1 .. 3
  BY <1>2 DEF Items, Levels, Tier
<1>4. Group(source, i) \subseteq Nat /\ Cardinality(Group(source, i)) \in Nat
  BY <1>1, GroupTyped DEF TypeOK
<1>5. Cardinality(ranked) \in Nat
  BY FS_CardinalityType
<1> QED
  BY <1>2, <1>3, <1>4, <1>5 DEF Representative, Recommendation

LEMMA RecommendInv ==
  ASSUME IInv, NEW source \in Sources, Recommend(source) PROVE IInv'
<1> USE DEF IInv
<1>1. PICK i \in todo : /\ NextGroup(source, i)
                        /\ ~Folded(source, i)
                        /\ ranked' = ranked \union {Representative(source, i)}
  BY DEF Recommend
<1>2. /\ stage = source /\ stage' = stage /\ input' = input
      /\ todo' = todo \ {i}
  BY <1>1 DEF Recommend, NextGroup
<1>3. i \in Heads(source)
  BY <1>2 DEF TodoInv
<1> DEFINE new == Representative(source, i)
<1>4. /\ new \in Recommendation
      /\ new.source = source /\ new.head = i /\ new.group = Group(source, i)
  BY <1>3, RepresentativeTyped DEF Representative
<1>5. \A r \in ranked : ~(r.source = source /\ r.head = i)
  BY <1>2 DEF RankedInv
<1> HIDE DEF new
<1>6. ranked' = ranked \union {new}
  BY <1>1 DEF new
<1>7. TypeOK'
  BY <1>2, <1>4, <1>6 DEF TypeOK
<1>8. IsFiniteSet(ranked')
  BY <1>6, FS_AddElement
<1>9. TodoInv'
  BY <1>2, HeadsStable DEF TodoInv
<1>10. RankedInv'
  <2> SUFFICES ASSUME NEW r \in ranked'
      PROVE  /\ r.source \in Sources
             /\ r.head \in Heads(r.source)
             /\ r.group = Group(r.source, r.head)
             /\ ~Folded(r.source, r.head)
             /\ Turn(r.source) <= Turn(stage)
             /\ r.source = stage => r.head \notin todo'
    BY <1>2, HeadsStable, GroupStable, FoldedStable DEF RankedInv
  <2>1. CASE r = new
    BY <2>1, <1>1, <1>2, <1>3, <1>4 DEF Turn, Sources
  <2>2. CASE r \in ranked
    BY <2>2, <1>2 DEF RankedInv
  <2> QED
    BY <2>1, <2>2, <1>6
<1>11. OncePerGroup'
  BY <1>4, <1>5, <1>6 DEF OncePerGroup
<1>12. VisitedInv'
  <2> SUFFICES ASSUME NEW s \in Sources, NEW h \in Heads(s)
      PROVE  \/ Turn(s) > Turn(stage)
             \/ s = stage /\ h \in todo'
             \/ Folded(s, h)
             \/ \E r \in ranked' : r.source = s /\ r.head = h
    BY <1>2, HeadsStable, FoldedStable DEF VisitedInv
  <2>1. CASE s = source /\ h = i
    BY <2>1, <1>4, <1>6
  <2>2. CASE ~(s = source /\ h = i)
    BY <2>2, <1>2, <1>6 DEF VisitedInv
  <2> QED
    BY <2>1, <2>2
<1> QED
  BY <1>7, <1>8, <1>9, <1>10, <1>11, <1>12

LEMMA FoldInv == ASSUME IInv, FoldSeqScan PROVE IInv'
<1> USE DEF IInv
<1>1. PICK i \in todo : NextGroup("plan", i) /\ Folded("plan", i)
  BY DEF FoldSeqScan
<1>2. /\ stage = "plan" /\ stage' = stage /\ input' = input /\ ranked' = ranked
      /\ todo' = todo \ {i}
  BY <1>1 DEF FoldSeqScan, NextGroup
<1>3. TypeOK' /\ IsFiniteSet(ranked')
  BY <1>2 DEF TypeOK
<1>4. TodoInv'
  BY <1>2, HeadsStable DEF TodoInv
<1>5. RankedInv'
  BY <1>2, HeadsStable, GroupStable, FoldedStable DEF RankedInv
<1>6. OncePerGroup'
  BY <1>2 DEF OncePerGroup
<1>7. VisitedInv'
  <2> SUFFICES ASSUME NEW s \in Sources, NEW h \in Heads(s)
      PROVE  \/ Turn(s) > Turn(stage)
             \/ s = stage /\ h \in todo'
             \/ Folded(s, h)
             \/ \E r \in ranked : r.source = s /\ r.head = h
    BY <1>2, HeadsStable, FoldedStable DEF VisitedInv
  <2> QED
    BY <1>1, <1>2 DEF VisitedInv
<1> QED
  BY <1>3, <1>4, <1>5, <1>6, <1>7

\* From one source to the next, and from the last to the end.
LEMMA TurnInv ==
  ASSUME IInv, stage \in Sources, todo = {},
         stage' \in Sources \union {"done"}, Turn(stage') = Turn(stage) + 1,
         todo' \subseteq Nat,
         stage' \in Sources => todo' = Heads(stage'),
         input' = input, ranked' = ranked
  PROVE  IInv'
<1> USE DEF IInv
<1>1. TypeOK' /\ IsFiniteSet(ranked')
  BY DEF TypeOK
<1>2. TodoInv'
  BY HeadsStable DEF TodoInv
<1>3. Turn(stage) \in 1 .. 4 /\ stage # stage' /\ \A s \in Sources : Turn(s) \in 1 .. 4
  BY DEF Turn, Sources
<1>4. RankedInv'
  <2> SUFFICES ASSUME NEW r \in ranked
      PROVE  /\ r.source \in Sources
             /\ r.head \in Heads(r.source)
             /\ r.group = Group(r.source, r.head)
             /\ ~Folded(r.source, r.head)
             /\ Turn(r.source) <= Turn(stage')
             /\ r.source = stage' => r.head \notin todo'
    BY HeadsStable, GroupStable, FoldedStable DEF RankedInv
  <2>1. Turn(r.source) <= Turn(stage) /\ r.source \in Sources
    BY DEF RankedInv
  <2>2. r.source # stage' /\ Turn(r.source) <= Turn(stage')
    BY <2>1, <1>3
  <2> QED
    BY <2>2 DEF RankedInv
<1>5. OncePerGroup'
  BY DEF OncePerGroup
<1>6. VisitedInv'
  <2> SUFFICES ASSUME NEW s \in Sources, NEW h \in Heads(s)
      PROVE  \/ Turn(s) > Turn(stage')
             \/ s = stage' /\ h \in todo'
             \/ Folded(s, h)
             \/ \E r \in ranked : r.source = s /\ r.head = h
    BY HeadsStable, FoldedStable DEF VisitedInv
  <2>1. CASE Turn(s) > Turn(stage)
    <3>1. Turn(s) > Turn(stage') \/ Turn(s) = Turn(stage')
      BY <2>1, <1>3
    <3>2. ASSUME Turn(s) = Turn(stage') PROVE s = stage'
      BY <3>2 DEF Turn, Sources
    <3> QED
      BY <3>1, <3>2
  <2>2. CASE ~(Turn(s) > Turn(stage))
    BY <2>2 DEF VisitedInv
  <2> QED
    BY <2>1, <2>2
<1> QED
  BY <1>1, <1>2, <1>4, <1>5, <1>6

LEMMA ProceedInv ==
  ASSUME IInv, NEW from \in Sources, NEW to \in Sources, Turn(to) = Turn(from) + 1,
         Proceed(from, to)
  PROVE  IInv'
<1>1. Heads(to) \subseteq Nat
  BY HeadsTyped DEF IInv, TypeOK
<1> QED
  BY <1>1, TurnInv, HeadsStable DEF Proceed

LEMMA RankInv == ASSUME IInv, Rank PROVE IInv'
BY TurnInv DEF Rank, Turn, Sources, IInv, TypeOK

LEMMA NextInv == ASSUME IInv, [Next]_engineVars PROVE IInv'
<1>1. ASSUME NEW source \in Sources, Recommend(source) PROVE IInv'
  BY <1>1, RecommendInv
<1>2. CASE FoldSeqScan
  BY <1>2, FoldInv
<1>3. CASE Proceed("index", "plan")
  BY <1>3, ProceedInv DEF Sources, Turn
<1>4. CASE Proceed("plan", "antiPattern")
  BY <1>4, ProceedInv DEF Sources, Turn
<1>5. CASE Proceed("antiPattern", "hygiene")
  BY <1>5, ProceedInv DEF Sources, Turn
<1>6. CASE Rank
  BY <1>6, RankInv
<1>7. CASE UNCHANGED engineVars
  <2>1. input' = input /\ stage' = stage /\ todo' = todo /\ ranked' = ranked
    BY <1>7 DEF engineVars
  <2>2. TypeOK' /\ IsFiniteSet(ranked')
    BY <2>1 DEF IInv, TypeOK
  <2>3. TodoInv' /\ RankedInv' /\ OncePerGroup'
    BY <2>1, HeadsStable, GroupStable, FoldedStable
    DEF IInv, TodoInv, RankedInv, OncePerGroup
  <2>4. VisitedInv'
    BY <2>1, HeadsStable, FoldedStable DEF IInv, VisitedInv
  <2> QED
    BY <2>2, <2>3, <2>4 DEF IInv
<1> QED
  BY <1>1, <1>2, <1>3, <1>4, <1>5, <1>6, <1>7 DEF Next

LEMMA Invariance == Spec => []IInv
<1>1. Init => IInv
  BY InitInv
<1>2. IInv /\ [Next]_engineVars => IInv'
  BY NextInv
<1> QED
  BY <1>1, <1>2, PTL DEF Spec

-----------------------------------------------------------------------------
\* The invariant at the end: every group is on the list or was folded.
LEMMA AllReported == ASSUME IInv PROVE EveryFindingReported
<1> USE DEF IInv
<1> SUFFICES ASSUME stage = "done", NEW source \in Sources,
                    NEW i \in DOMAIN input[source]
    PROVE  \/ \E r \in ranked :
                /\ StandsFor(r, source, i)
                /\ \A s \in ranked : StandsFor(s, source, i) => s = r
           \/ /\ input[source][i].code = "SEQ_SCAN_LARGE_TABLE"
              /\ \A r \in ranked : ~StandsFor(r, source, i)
              /\ \E r \in ranked :
                    /\ r.source = "index"
                    /\ input["index"][r.head].relation = input[source][i].relation
  BY DEF EveryFindingReported
<1>1. input \in [Sources -> Seq(Items)]
  BY DEF TypeOK
<1>2. \A s \in Sources : ~(Turn(s) > Turn(stage)) /\ s # stage
  BY DEF Turn, Sources
<1>3. PICK h \in Heads(source) : i \in Group(source, h)
  BY <1>1, HeadExists
<1>4. h \in DOMAIN input[source]
  BY DEF Heads
<1>5. CASE Folded(source, h)
  <2>1. Folded(source, i)
    BY <1>3, <1>4, <1>5, FoldedTogether
  <2>2. input[source][i].code = "SEQ_SCAN_LARGE_TABLE"
    BY <2>1 DEF Folded
  <2>3. ASSUME NEW r \in ranked, StandsFor(r, source, i) PROVE FALSE
    <3>1. /\ r.head \in Heads(source) /\ ~Folded(source, r.head)
          /\ i \in Group(source, r.head)
      BY <2>3 DEF RankedInv, StandsFor
    <3>2. r.head \in DOMAIN input[source]
      BY <3>1 DEF Heads
    <3> QED
      BY <2>1, <3>1, <3>2, FoldedTogether
  <2>4. PICK k \in DOMAIN input["index"] :
           input["index"][k].relation = input[source][i].relation
    BY <2>1 DEF Folded, IndexedTables
  <2>5. "index" \in Sources /\ k \in Heads("index") /\ ~Folded("index", k)
    BY <1>1, IndexHeads DEF Sources
  <2>6. PICK r \in ranked : r.source = "index" /\ r.head = k
    BY <1>2, <2>5 DEF VisitedInv
  <2> QED
    BY <2>2, <2>3, <2>4, <2>6
<1>6. CASE ~Folded(source, h)
  <2>1. PICK r \in ranked : r.source = source /\ r.head = h
    BY <1>2, <1>6 DEF VisitedInv
  <2>2. StandsFor(r, source, i)
    BY <1>3, <2>1 DEF RankedInv, StandsFor
  <2>3. ASSUME NEW s \in ranked, StandsFor(s, source, i) PROVE s = r
    <3>1. s.source = source /\ s.head \in Heads(source) /\ i \in Group(source, s.head)
      BY <2>3 DEF RankedInv, StandsFor
    <3>2. s.head = h
      BY <1>1, <1>3, <3>1, HeadUnique
    <3> QED
      BY <2>1, <3>1, <3>2 DEF OncePerGroup
  <2> QED
    BY <2>2, <2>3
<1> QED
  BY <1>5, <1>6

(* The variables keep their types, whatever is found.                      *)
THEOREM Typing == Spec => []TypeOK
<1>1. IInv => TypeOK
  BY DEF IInv
<1> QED
  BY <1>1, Invariance, PTL

(* No finding is lost and none is reported twice, for any findings of any  *)
(* number of queries: each is in the group of exactly one recommendation,  *)
(* or it is a sequential scan for which an index is on the list            *)
(* (recommendation_engine.py:9-18, 105-189).                               *)
THEOREM Reported == Spec => []EveryFindingReported
BY AllReported, Invariance, PTL

-----------------------------------------------------------------------------
(* The ranking.                                                            *)

\* A finite set that Before orders strictly and totally is what Sorted lists,
\* and in that order.
LEMMA SortedInOrder ==
  ASSUME NEW S, IsFiniteSet(S),
         \A r \in S : ~Before(r, r),
         \A r, s, t \in S : Before(r, s) /\ Before(s, t) => Before(r, t),
         \A r, s \in S : r = s \/ Before(r, s) \/ Before(s, r)
  PROVE  /\ DOMAIN Sorted(S) = 1 .. Cardinality(S) /\ Cardinality(S) \in Nat
         /\ {Sorted(S)[n] : n \in DOMAIN Sorted(S)} = S
         /\ \A m, n \in DOMAIN Sorted(S) : m < n => Before(Sorted(S)[m], Sorted(S)[n])
<1> DEFINE R == {p \in S \X S : Before(p[1], p[2])}
           E == Enumerated(S, R)
<1>1. \A r, s \in S : <<r, s>> \in R <=> Before(r, s)
  OBVIOUS
<1>2. ASSUME NEW r \in S PROVE {s \in S : Before(s, r)} = {s \in S : <<s, r>> \in R}
  BY <1>1
<1> HIDE DEF R
<1>3. /\ \A r \in S : <<r, r>> \notin R
      /\ \A r, s, t \in S : <<r, s>> \in R /\ <<s, t>> \in R => <<r, t>> \in R
      /\ \A r, s \in S : r = s \/ <<r, s>> \in R \/ <<s, r>> \in R
  BY <1>1
<1>4. /\ DOMAIN E = 1 .. Cardinality(S) /\ Cardinality(S) \in Nat
      /\ {E[n] : n \in DOMAIN E} = S
      /\ \A m, n \in DOMAIN E : m < n => <<E[m], E[n]>> \in R
      /\ \A n \in DOMAIN E : \A r \in S :
            Cardinality({s \in S : <<s, r>> \in R}) = n - 1 <=> r = E[n]
  BY <1>3, EnumeratedInOrder
<1> HIDE DEF E
<1>5. \A n \in DOMAIN E : E[n] \in S
  BY <1>4
<1>6. DOMAIN Sorted(S) = DOMAIN E
  BY <1>4 DEF Sorted
<1>7. ASSUME NEW n \in DOMAIN E PROVE Sorted(S)[n] = E[n]
  <2>1. \A r \in S : Cardinality({s \in S : Before(s, r)}) = n - 1 <=> r = E[n]
    BY <1>2, <1>4
  <2>2. Sorted(S)[n] = CHOOSE r \in S : Cardinality({s \in S : Before(s, r)}) = n - 1
    BY <1>4 DEF Sorted
  <2> QED
    BY <1>5, <2>1, <2>2
<1>8. {Sorted(S)[n] : n \in DOMAIN Sorted(S)} = S
  <2>1. {Sorted(S)[n] : n \in DOMAIN Sorted(S)} = {E[n] : n \in DOMAIN E}
    BY <1>6, <1>7
  <2> QED
    BY <1>4, <2>1
<1>9. \A m, n \in DOMAIN E : m < n => Before(Sorted(S)[m], Sorted(S)[n])
  BY <1>1, <1>4, <1>5, <1>7
<1> QED
  BY <1>4, <1>6, <1>8, <1>9

\* By source, and within a source as first seen.
Earlier(r, s) ==
  \/ Turn(r.source) < Turn(s.source)
  \/ r.source = s.source /\ r.head < s.head

\* The counter `order` numbers the recommendations in the order of the sources and
\* their groups; the impact is that of the representative.
OrderInv ==
  /\ input \in Inputs
  /\ \A r \in ranked : r.order < Cardinality(ranked)
  /\ \A r, s \in ranked : /\ r.order = s.order => r = s
                          /\ r.order < s.order => Earlier(r, s)
  /\ \A r \in ranked : r.source = stage => \A j \in todo : r.head < j
  /\ \A r \in ranked : r.impact = Tier(input[r.source][r.head].severity)
  /\ recommendations = IF stage = "done" THEN Sorted(ranked) ELSE <<>>

LEMMA InitOrder == Init => OrderInv
BY DEF Init, Begin, OrderInv

LEMMA TurnsDiffer ==
  /\ \A s \in Sources : Turn(s) \in 1 .. 4 /\ s # "done"
  /\ \A s, t \in Sources : Turn(s) = Turn(t) => s = t
<1>1. Turn("index") = 1 /\ Turn("plan") = 2 /\ Turn("antiPattern") = 3 /\ Turn("hygiene") = 4
  BY DEF Turn
<1>2. \A s \in Sources : s = "index" \/ s = "plan" \/ s = "antiPattern" \/ s = "hygiene"
  BY DEF Sources
<1> QED
  BY <1>1, <1>2

LEMMA RecommendOrder ==
  ASSUME IInv, OrderInv, NEW source \in Sources, Recommend(source)
  PROVE  OrderInv'
<1>1. PICK i \in todo : /\ NextGroup(source, i)
                        /\ ranked' = ranked \union {Representative(source, i)}
  BY DEF Recommend
<1>2. /\ stage = source /\ stage' = stage /\ input' = input
      /\ todo' = todo \ {i} /\ recommendations' = recommendations
      /\ \A j \in todo : i <= j
  BY <1>1 DEF Recommend, NextGroup
<1>3. i \in Nat /\ todo \subseteq Nat /\ ranked \subseteq Recommendation
  BY DEF IInv, TypeOK
<1> DEFINE new == Representative(source, i)
           n == Cardinality(ranked)
<1>4. /\ new.source = source /\ new.head = i /\ new.order = n
      /\ new.impact = Tier(input[source][i].severity)
  BY DEF Representative
<1>5. n \in Nat /\ IsFiniteSet(ranked)
  BY FS_CardinalityType DEF IInv
<1>6. \A r \in ranked : r.order \in Nat /\ r.head \in Nat
  BY <1>3 DEF Recommendation
<1>7. \A r \in ranked : r # new
  BY <1>2, <1>4 DEF IInv, RankedInv
<1> HIDE DEF new
<1>8. ranked' = ranked \union {new}
  BY <1>1 DEF new
<1>9. Cardinality(ranked') = n + 1
  BY <1>5, <1>7, <1>8, FS_AddElement
<1> HIDE DEF n
<1>10. \A r \in ranked : r.order < n
  BY DEF OrderInv, n
<1>11. \A r \in ranked : Earlier(r, new)
  <2> SUFFICES ASSUME NEW r \in ranked
               PROVE  Earlier(r, new)
    OBVIOUS
  <2>1. r.source \in Sources /\ Turn(r.source) <= Turn(source)
    BY <1>2 DEF IInv, RankedInv
  <2>2. r.source = source => r.head < i
    BY <1>2 DEF OrderInv
  <2>3. Turn(r.source) = Turn(source) => r.source = source
    BY <2>1, TurnsDiffer
  <2>4. Turn(r.source) \in Nat /\ Turn(source) \in Nat
    BY <2>1, TurnsDiffer
  <2> QED
    BY <1>4, <2>1, <2>2, <2>3, <2>4 DEF Earlier
<1>12. \A r \in ranked' : r.order < Cardinality(ranked')
  BY <1>4, <1>5, <1>6, <1>8, <1>9, <1>10
<1>13. ASSUME NEW r \in ranked', NEW s \in ranked'
       PROVE  /\ r.order = s.order => r = s
              /\ r.order < s.order => Earlier(r, s)
  <2>1. CASE r \in ranked /\ s \in ranked
    BY <2>1 DEF OrderInv
  <2>2. CASE r \in ranked /\ s = new
    BY <1>4, <1>5, <1>6, <1>10, <1>11, <2>2
  <2>3. CASE r = new /\ s \in ranked
    BY <1>4, <1>5, <1>6, <1>10, <2>3
  <2>4. CASE r = new /\ s = new
    BY <1>4, <1>5, <2>4
  <2> QED
    BY <1>8, <2>1, <2>2, <2>3, <2>4
<1>14. ASSUME NEW r \in ranked', r.source = stage, NEW j \in todo'
       PROVE  r.head < j
  <2>1. j \in todo /\ j # i /\ i <= j /\ j \in Nat
    BY <1>2, <1>3
  <2>2. CASE r \in ranked
    BY <1>14, <2>1, <2>2 DEF OrderInv
  <2>3. CASE r = new
    BY <1>3, <1>4, <2>1, <2>3
  <2> QED
    BY <1>8, <2>2, <2>3
<1>15. \A r \in ranked' : r.impact = Tier(input[r.source][r.head].severity)
  BY <1>4, <1>8 DEF OrderInv
<1>16. recommendations' = IF stage' = "done" THEN Sorted(ranked') ELSE <<>>
  BY <1>2, TurnsDiffer DEF OrderInv
<1> QED
  BY <1>2, <1>12, <1>13, <1>14, <1>15, <1>16 DEF OrderInv

\* A step that leaves the list of the recommended alone.
LEMMA TurnOrder ==
  ASSUME IInv, OrderInv, ranked' = ranked, input' = input,
         stage' = stage \/ \A r \in ranked : r.source # stage',
         stage' = stage => todo' \subseteq todo,
         recommendations' = IF stage' = "done" THEN Sorted(ranked) ELSE <<>>
  PROVE  OrderInv'
<1>1. \A r \in ranked : r.source = stage' => \A j \in todo' : r.head < j
  BY DEF OrderInv
<1> QED
  BY <1>1 DEF OrderInv

LEMMA ProceedOrder ==
  ASSUME IInv, OrderInv, NEW from \in Sources, NEW to \in Sources, Turn(to) = Turn(from) + 1,
         Proceed(from, to)
  PROVE  OrderInv'
<1>1. stage = from /\ stage' = to /\ UNCHANGED <<input, ranked, recommendations>>
  BY DEF Proceed
<1>2. \A r \in ranked : r.source \in Sources /\ Turn(r.source) <= Turn(from)
  BY <1>1 DEF IInv, RankedInv
<1>3. Turn(from) \in Nat /\ from # "done" /\ to # "done"
  BY TurnsDiffer
<1>4. \A r \in ranked : r.source # to
  BY <1>2, <1>3
<1>5. recommendations' = <<>>
  BY <1>1, <1>3 DEF OrderInv
<1>6. from # to
  BY <1>3
<1> QED
  BY <1>1, <1>3, <1>4, <1>5, <1>6, TurnOrder

LEMMA NextOrder == IInv /\ OrderInv /\ [Next]_engineVars => OrderInv'
<1> SUFFICES ASSUME IInv, OrderInv, [Next]_engineVars
             PROVE  OrderInv'
  OBVIOUS
<1>1. ASSUME NEW source \in Sources, Recommend(source) PROVE OrderInv'
  BY <1>1, RecommendOrder
<1>2. CASE FoldSeqScan
  <2>1. /\ stage' = stage /\ todo' \subseteq todo
        /\ UNCHANGED <<input, ranked, recommendations>>
    BY <1>2 DEF FoldSeqScan, NextGroup
  <2>2. recommendations' = IF stage' = "done" THEN Sorted(ranked) ELSE <<>>
    BY <2>1 DEF OrderInv
  <2> QED
    BY <2>1, <2>2, TurnOrder
<1>3. CASE Proceed("index", "plan")
  BY <1>3, ProceedOrder DEF Sources, Turn
<1>4. CASE Proceed("plan", "antiPattern")
  BY <1>4, ProceedOrder DEF Sources, Turn
<1>5. CASE Proceed("antiPattern", "hygiene")
  BY <1>5, ProceedOrder DEF Sources, Turn
<1>6. CASE Rank
  <2>1. /\ stage' = "done" /\ recommendations' = Sorted(ranked)
        /\ UNCHANGED <<input, todo, ranked>>
    BY <1>6 DEF Rank
  <2>2. \A r \in ranked : r.source # "done"
    BY TurnsDiffer DEF IInv, RankedInv
  <2> QED
    BY <2>1, <2>2, TurnOrder
<1>7. CASE UNCHANGED engineVars
  <2>1. UNCHANGED <<input, stage, todo, ranked, recommendations>>
    BY <1>7 DEF engineVars
  <2>2. recommendations' = IF stage' = "done" THEN Sorted(ranked) ELSE <<>>
    BY <2>1 DEF OrderInv
  <2> QED
    BY <2>1, <2>2, TurnOrder
<1> QED
  BY <1>1, <1>2, <1>3, <1>4, <1>5, <1>6, <1>7 DEF Next

LEMMA OrderInvariance == Spec => [](IInv /\ OrderInv)
<1>1. Init => IInv /\ OrderInv
  BY InitInv, InitOrder
<1>2. (IInv /\ OrderInv) /\ [Next]_engineVars => (IInv /\ OrderInv)'
  BY NextInv, NextOrder
<1> QED
  BY <1>1, <1>2, PTL DEF Spec

\* Before orders the recommendations strictly and totally.
LEMMA RankedOrdered ==
  ASSUME IInv, OrderInv
  PROVE  /\ \A r \in ranked : ~Before(r, r)
         /\ \A r, s, t \in ranked : Before(r, s) /\ Before(s, t) => Before(r, t)
         /\ \A r, s \in ranked : r = s \/ Before(r, s) \/ Before(s, r)
<1>1. \A r \in ranked : /\ r.impact \in Nat /\ r.occurrences \in Nat
                        /\ r.confidence \in Nat /\ r.order \in Nat
  <2>1. ranked \subseteq Recommendation
    BY DEF IInv, TypeOK
  <2> QED
    BY <2>1 DEF Recommendation
<1>2. \A r \in ranked : ~Before(r, r)
  BY <1>1 DEF Before
<1>3. ASSUME NEW r \in ranked, NEW s \in ranked, NEW t \in ranked, Before(r, s), Before(s, t)
      PROVE  Before(r, t)
  BY <1>1, <1>3 DEF Before
<1>4. ASSUME NEW r \in ranked, NEW s \in ranked, ~Before(r, s), ~Before(s, r)
      PROVE  r = s
  <2>1. r.order = s.order
    BY <1>1, <1>4 DEF Before
  <2> QED
    BY <2>1 DEF OrderInv
<1> QED
  BY <1>2, <1>3, <1>4

LEMMA ListInOrder ==
  ASSUME IInv, OrderInv, stage = "done"
  PROVE  /\ {recommendations[n] : n \in DOMAIN recommendations} = ranked
         /\ DOMAIN recommendations \subseteq Nat
         /\ \A m, n \in DOMAIN recommendations :
               m < n => Before(recommendations[m], recommendations[n])
<1>1. recommendations = Sorted(ranked)
  BY DEF OrderInv
<1>2. IsFiniteSet(ranked)
  BY DEF IInv
<1> QED
  BY <1>1, <1>2, RankedOrdered, SortedInOrder

\* Five numbers before five others.
LEMMA LexicallyLower ==
  ASSUME NEW k1 \in Int, NEW k2 \in Int, NEW k3 \in Int, NEW k4 \in Int, NEW k5 \in Int,
         NEW l1 \in Int, NEW l2 \in Int, NEW l3 \in Int, NEW l4 \in Int, NEW l5 \in Int,
         \/ k1 < l1
         \/ k1 = l1 /\ k2 < l2
         \/ k1 = l1 /\ k2 = l2 /\ k3 < l3
         \/ k1 = l1 /\ k2 = l2 /\ k3 = l3 /\ k4 < l4
         \/ k1 = l1 /\ k2 = l2 /\ k3 = l3 /\ k4 = l4 /\ k5 < l5
  PROVE  LET k == <<k1, k2, k3, k4, k5>>
             l == <<l1, l2, l3, l4, l5>>
         IN  \E n \in 1 .. 5 : k[n] < l[n] /\ \A m \in 1 .. n - 1 : k[m] = l[m]
<1> DEFINE k == <<k1, k2, k3, k4, k5>>
           l == <<l1, l2, l3, l4, l5>>
<1>1. /\ k[1] = k1 /\ k[2] = k2 /\ k[3] = k3 /\ k[4] = k4 /\ k[5] = k5
      /\ l[1] = l1 /\ l[2] = l2 /\ l[3] = l3 /\ l[4] = l4 /\ l[5] = l5
  OBVIOUS
<1> HIDE DEF k, l
<1> SUFFICES \E n \in 1 .. 5 : k[n] < l[n] /\ \A m \in 1 .. n - 1 : k[m] = l[m]
  BY DEF k, l
<1>2. CASE k1 < l1
  BY <1>1, <1>2
<1>3. CASE k1 = l1 /\ k2 < l2
  BY <1>1, <1>3
<1>4. CASE k1 = l1 /\ k2 = l2 /\ k3 < l3
  <2>1. \A m \in 1 .. 3 - 1 : m = 1 \/ m = 2
    OBVIOUS
  <2> QED
    BY <1>1, <1>4, <2>1
<1>5. CASE k1 = l1 /\ k2 = l2 /\ k3 = l3 /\ k4 < l4
  <2>1. \A m \in 1 .. 4 - 1 : m = 1 \/ m = 2 \/ m = 3
    OBVIOUS
  <2> QED
    BY <1>1, <1>5, <2>1
<1>6. CASE k1 = l1 /\ k2 = l2 /\ k3 = l3 /\ k4 = l4 /\ k5 < l5
  <2>1. \A m \in 1 .. 5 - 1 : m = 1 \/ m = 2 \/ m = 3 \/ m = 4
    OBVIOUS
  <2> QED
    BY <1>1, <1>6, <2>1
<1> QED
  BY <1>2, <1>3, <1>4, <1>5, <1>6

\* The order of the list is the documented one.
LEMMA AllRanked == ASSUME IInv, OrderInv PROVE RankedAsDocumented
<1> SUFFICES ASSUME stage = "done"
             PROVE  RankedAsDocumented
  BY DEF RankedAsDocumented
<1> DEFINE place == [index |-> 1, plan |-> 2, antiPattern |-> 3, hygiene |-> 4]
           Key(r) == <<-r.impact, -r.occurrences, -r.confidence, place[r.source], r.head>>
           Lower(k, l) == \E n \in 1 .. 5 :
                             k[n] < l[n] /\ \A m \in 1 .. n - 1 : k[m] = l[m]
<1>1. ASSUME NEW r \in ranked, NEW s \in ranked, Before(r, s)
      PROVE  Lower(Key(r), Key(s))
  <2>1. /\ r.impact \in Nat /\ r.occurrences \in Nat /\ r.confidence \in Nat
        /\ r.order \in Nat /\ r.head \in Nat /\ r.source \in Sources
        /\ s.impact \in Nat /\ s.occurrences \in Nat /\ s.confidence \in Nat
        /\ s.order \in Nat /\ s.head \in Nat /\ s.source \in Sources
    <3>1. r \in Recommendation /\ s \in Recommendation
      BY DEF IInv, TypeOK
    <3> QED
      BY <3>1 DEF Recommendation
  <2>2. place[r.source] = Turn(r.source) /\ place[s.source] = Turn(s.source)
    <3>1. /\ Turn("index") = 1 /\ Turn("plan") = 2
          /\ Turn("antiPattern") = 3 /\ Turn("hygiene") = 4
      BY DEF Turn
    <3>2. /\ place["index"] = 1 /\ place["plan"] = 2
          /\ place["antiPattern"] = 3 /\ place["hygiene"] = 4
      OBVIOUS
    <3> HIDE DEF place
    <3>3. \A t \in Sources : place[t] = Turn(t)
      <4>1. \A t \in Sources :
               t = "index" \/ t = "plan" \/ t = "antiPattern" \/ t = "hygiene"
        BY DEF Sources
      <4> QED
        BY <3>1, <3>2, <4>1
    <3> QED
      BY <2>1, <3>3
  <2>3. Turn(r.source) \in Nat /\ Turn(s.source) \in Nat
    BY <2>1, TurnsDiffer
  <2>4. r.order < s.order => \/ Turn(r.source) < Turn(s.source)
                             \/ Turn(r.source) = Turn(s.source) /\ r.head < s.head
    BY DEF OrderInv, Earlier
  <2> DEFINE p == place[r.source]
             q == place[s.source]
  <2>5. /\ p \in Int /\ q \in Int
        /\ r.order < s.order => p < q \/ (p = q /\ r.head < s.head)
    BY <2>2, <2>3, <2>4
  <2> HIDE DEF p, q
  <2>6. /\ -r.impact \in Int /\ -r.occurrences \in Int /\ -r.confidence \in Int
        /\ -s.impact \in Int /\ -s.occurrences \in Int /\ -s.confidence \in Int
        /\ r.head \in Int /\ s.head \in Int
    BY <2>1
  <2>7. \/ -r.impact < -s.impact
        \/ -r.impact = -s.impact /\ -r.occurrences < -s.occurrences
        \/ -r.impact = -s.impact /\ -r.occurrences = -s.occurrences
             /\ -r.confidence < -s.confidence
        \/ -r.impact = -s.impact /\ -r.occurrences = -s.occurrences
             /\ -r.confidence = -s.confidence /\ p < q
        \/ -r.impact = -s.impact /\ -r.occurrences = -s.occurrences
             /\ -r.confidence = -s.confidence /\ p = q /\ r.head < s.head
    BY <1>1, <2>1, <2>5 DEF Before
  <2>8. Lower(<<-r.impact, -r.occurrences, -r.confidence, p, r.head>>,
              <<-s.impact, -s.occurrences, -s.confidence, q, s.head>>)
    BY <2>5, <2>6, <2>7, LexicallyLower
  <2> QED
    BY <2>8 DEF p, q
<1> HIDE DEF place, Key, Lower
<1>2. /\ {recommendations[n] : n \in DOMAIN recommendations} = ranked
      /\ \A m, n \in DOMAIN recommendations :
            m < n => Before(recommendations[m], recommendations[n])
  BY ListInOrder
<1>3. \A m, n \in DOMAIN recommendations :
         m < n => Lower(Key(recommendations[m]), Key(recommendations[n]))
  <2>1. \A n \in DOMAIN recommendations : recommendations[n] \in ranked
    BY <1>2
  <2> QED
    BY <1>1, <1>2, <2>1
<1> QED
  BY <1>2, <1>3 DEF RankedAsDocumented, place, Key, Lower

(* The list holds each recommendation once and in the documented order,    *)
(* for any findings (recommendation_engine.py:20-26).                      *)
THEOREM Documented == Spec => []RankedAsDocumented
<1>1. IInv /\ OrderInv => RankedAsDocumented
  BY AllRanked
<1> QED
  BY <1>1, OrderInvariance, PTL

\* What comes after a recommendation of low impact is of low impact.
LEMMA CheapLast == ASSUME IInv, OrderInv PROVE CheapBelowCostly
<1> SUFFICES ASSUME NEW m \in DOMAIN recommendations, NEW n \in DOMAIN recommendations,
                    m < n,
                    \A i \in recommendations[m].group :
                       input[recommendations[m].source][i].severity = "LOW",
                    NEW i \in recommendations[n].group
             PROVE  input[recommendations[n].source][i].severity = "LOW"
  BY DEF CheapBelowCostly
<1> DEFINE r == recommendations[m]
           s == recommendations[n]
<1>1. stage = "done"
  BY DEF OrderInv
<1>2. r \in ranked /\ s \in ranked /\ Before(r, s)
  BY <1>1, ListInOrder
<1> HIDE DEF r, s
<1>3. r \in Recommendation /\ s \in Recommendation
  BY <1>2 DEF IInv, TypeOK
<1>4. r.impact \in 1 .. 3 /\ s.impact \in 1 .. 3
  BY <1>3 DEF Recommendation
<1>5. /\ r.head \in DOMAIN input[r.source] /\ r.head \in r.group
      /\ s.head \in DOMAIN input[s.source] /\ s.group = Group(s.source, s.head)
      /\ s.source \in Sources
  BY <1>2 DEF IInv, RankedInv, Heads, Group, SameGroup
<1>6. r.impact = 1
  <2>1. input[r.source][r.head].severity = "LOW"
    BY <1>5 DEF r
  <2> QED
    BY <1>2, <2>1 DEF OrderInv, Tier
<1>7. s.impact = 1
  BY <1>2, <1>4, <1>6 DEF Before
<1>8. input[s.source][s.head].severity = "LOW"
  <2>1. input[s.source][s.head] \in Items
    BY <1>5, Positions DEF IInv, TypeOK
  <2>2. s.impact = Tier(input[s.source][s.head].severity)
    BY <1>2 DEF OrderInv
  <2> QED
    BY <1>7, <2>1, <2>2 DEF Items, Levels, Tier
<1>9. i \in Group(s.source, s.head)
  BY <1>5 DEF s
<1>10. i \in DOMAIN input[s.source] /\ input[s.source][i].code = input[s.source][s.head].code
  BY <1>9 DEF Group, SameGroup
<1>11. input[s.source][i].severity = "LOW"
  BY <1>5, <1>8, <1>10 DEF OrderInv, Inputs
<1> QED
  BY <1>11 DEF s

(* Neither frequency nor confidence lifts a recommendation of low impact   *)
(* above a costlier one (recommendation_engine.py:24-26).                  *)
THEOREM CheapBelow == Spec => []CheapBelowCostly
<1>1. IInv /\ OrderInv => CheapBelowCostly
  BY CheapLast
<1> QED
  BY <1>1, OrderInvariance, PTL

-----------------------------------------------------------------------------
(* The columns a query uses and the key made of them.                      *)

\* What the code takes for the columns of the table among the references.
Attributed(refs, table, query) ==
  {ref.column : ref \in {r \in ToSet(refs) : BelongsTo(r, table, query)}}

Equated(query, table) ==
  Attributed(query.equality, table, query) \union Attributed(query.join, table, query)

Bounded(query, table) == Attributed(query.range, table, query)

LEMMA CollectedIs ==
  ASSUME NEW R, NEW refs \in Seq(R), NEW table, NEW query,
         \A ref \in R : ref.column \in Columns
  PROVE  /\ Collected(refs, table, query) \in Seq(Columns)
         /\ ToSet(Collected(refs, table, query)) = Attributed(refs, table, query)
<1> DEFINE P == {i \in DOMAIN refs : BelongsTo(refs[i], table, query)}
           own == At(refs, P)
           columns == [i \in DOMAIN own |-> own[i].column]
<1>1. P \subseteq DOMAIN refs
  OBVIOUS
<1>2. \A i \in P : BelongsTo(refs[i], table, query)
  OBVIOUS
<1>3. Collected(refs, table, query) = Distinct(columns)
  BY DEF Collected
<1>4. \A i \in DOMAIN refs : BelongsTo(refs[i], table, query) => i \in P
  OBVIOUS
<1> HIDE DEF P
<1>5. own \in Seq(R) /\ ToSet(own) = {refs[i] : i \in P}
  BY <1>1, AtIs
<1> HIDE DEF own
<1>6. DOMAIN own = 1 .. Len(own) /\ Len(own) \in Nat /\ \A i \in DOMAIN own : own[i] \in R
  BY <1>5, ListDomain
<1>7. columns \in Seq(Columns) /\ DOMAIN columns = DOMAIN own
  BY <1>6
<1>8. \A i \in DOMAIN own : columns[i] = own[i].column
  OBVIOUS
<1> HIDE DEF columns
<1>9. Distinct(columns) \in Seq(Columns) /\ ToSet(Distinct(columns)) = ToSet(columns)
  BY <1>7, DistinctIs
<1>10. ToSet(columns) = {ref.column : ref \in ToSet(own)}
  BY <1>7, <1>8 DEF ToSet
<1>11. ToSet(own) = {r \in ToSet(refs) : BelongsTo(r, table, query)}
  <2>1. \A r \in ToSet(own) : r \in ToSet(refs) /\ BelongsTo(r, table, query)
    BY <1>1, <1>2, <1>5 DEF ToSet
  <2>2. \A r \in ToSet(refs) : BelongsTo(r, table, query) => r \in ToSet(own)
    BY <1>4, <1>5 DEF ToSet
  <2> QED
    BY <2>1, <2>2
<1>12. ToSet(columns) = Attributed(refs, table, query)
  BY <1>10, <1>11 DEF Attributed
<1> QED
  BY <1>3, <1>9, <1>12

LEMMA NotInIs ==
  ASSUME NEW S, NEW list \in Seq(S), NEW key
  PROVE  /\ NotIn(list, key) \in Seq(S)
         /\ ToSet(NotIn(list, key)) = ToSet(list) \ ToSet(key)
<1> DEFINE P == {i \in DOMAIN list : list[i] \notin ToSet(key)}
<1>1. P \subseteq DOMAIN list /\ NotIn(list, key) = At(list, P)
  BY DEF NotIn
<1>2. \A i \in DOMAIN list : i \in P <=> list[i] \notin ToSet(key)
  OBVIOUS
<1> HIDE DEF P
<1>3. At(list, P) \in Seq(S) /\ ToSet(At(list, P)) = {list[i] : i \in P}
  BY <1>1, AtIs
<1>4. {list[i] : i \in P} = {list[i] : i \in DOMAIN list} \ ToSet(key)
  BY <1>1, <1>2
<1> QED
  BY <1>1, <1>3, <1>4 DEF ToSet

LEMMA Concatenated ==
  ASSUME NEW S, NEW a \in Seq(S), NEW b \in Seq(S)
  PROVE  /\ a \o b \in Seq(S)
         /\ Len(a \o b) = Len(a) + Len(b)
         /\ \A i \in DOMAIN a : i \in DOMAIN (a \o b) /\ (a \o b)[i] = a[i]
         /\ \A i \in DOMAIN b : Len(a) + i \in DOMAIN (a \o b) /\ (a \o b)[Len(a) + i] = b[i]
         /\ \A j \in DOMAIN (a \o b) :
               \/ j \in DOMAIN a
               \/ j > Len(a) /\ j - Len(a) \in DOMAIN b /\ (a \o b)[j] = b[j - Len(a)]
         /\ ToSet(a \o b) = ToSet(a) \union ToSet(b)
<1>1. /\ DOMAIN a = 1 .. Len(a) /\ Len(a) \in Nat
      /\ DOMAIN b = 1 .. Len(b) /\ Len(b) \in Nat
  BY ListDomain
<1>2. /\ a \o b \in Seq(S)
      /\ Len(a \o b) = Len(a) + Len(b)
      /\ \A j \in 1 .. Len(a) + Len(b) :
            (a \o b)[j] = IF j <= Len(a) THEN a[j] ELSE b[j - Len(a)]
  OBVIOUS
<1> DEFINE c == a \o b
<1> HIDE DEF c
<1>3. /\ c \in Seq(S) /\ Len(c) = Len(a) + Len(b)
      /\ \A j \in 1 .. Len(a) + Len(b) :
            c[j] = IF j <= Len(a) THEN a[j] ELSE b[j - Len(a)]
  BY <1>2 DEF c
<1>4. DOMAIN c = 1 .. Len(a) + Len(b)
  BY <1>3, ListDomain
<1>5. \A i \in DOMAIN a : i \in DOMAIN c /\ c[i] = a[i]
  BY <1>1, <1>3, <1>4
<1>6. \A i \in DOMAIN b : Len(a) + i \in DOMAIN c /\ c[Len(a) + i] = b[i]
  BY <1>1, <1>3, <1>4
<1>7. \A j \in DOMAIN c : \/ j \in DOMAIN a
                          \/ j > Len(a) /\ j - Len(a) \in DOMAIN b /\ c[j] = b[j - Len(a)]
  BY <1>1, <1>3, <1>4
<1>8. ToSet(c) = ToSet(a) \union ToSet(b)
  <2>1. \A x \in ToSet(c) : x \in ToSet(a) \union ToSet(b)
    BY <1>5, <1>7 DEF ToSet
  <2>2. \A x \in ToSet(a) : x \in ToSet(c)
    BY <1>5 DEF ToSet
  <2>3. \A x \in ToSet(b) : x \in ToSet(c)
    BY <1>6 DEF ToSet
  <2> QED
    BY <2>1, <2>2, <2>3
<1> QED
  BY <1>3, <1>5, <1>6, <1>7, <1>8 DEF c

LEMMA FirstIs ==
  ASSUME NEW S, NEW list \in Seq(S)
  PROVE  /\ First(list) \in Seq(S)
         /\ ToSet(First(list)) \subseteq ToSet(list)
         /\ Len(First(list)) <= 1
         /\ ToSet(list) # {} => ToSet(First(list)) # {}
<1>1. CASE list = <<>>
  BY <1>1 DEF First, ToSet
<1>2. CASE list # <<>>
  <2>1. Head(list) = list[1] /\ 1 \in DOMAIN list /\ list[1] \in S
    BY <1>2, ListDomain
  <2>2. First(list) = <<list[1]>>
    BY <1>2, <2>1 DEF First
  <2>3. First(list) \in Seq(S) /\ Len(First(list)) = 1 /\ ToSet(First(list)) = {list[1]}
    BY <2>1, <2>2 DEF ToSet
  <2> QED
    BY <2>1, <2>3 DEF ToSet
<1> QED
  BY <1>1, <1>2

LEMMA UsageIs ==
  ASSUME NEW query \in Query, NEW table, NEW usage, usage = Usage(query, table)
  PROVE  /\ usage.equality \in Seq(Columns) /\ usage.range \in Seq(Columns)
         /\ usage.join \in Seq(Columns) /\ usage.orderBy \in Seq(Columns)
         /\ usage.selected \in Seq(Columns) /\ usage.star \in BOOLEAN
         /\ ToSet(usage.equality) \union ToSet(usage.join) = Equated(query, table)
         /\ ToSet(usage.range) = Bounded(query, table)
         /\ usage.orderBy = Collected(query.orderBy, table, query)
<1> DEFINE OrderRef == [qualifier : Qualifiers, column : Columns, desc : BOOLEAN]
<1>1. /\ query.equality \in Seq(ColumnRef) /\ query.range \in Seq(ColumnRef)
      /\ query.join \in Seq(ColumnRef) /\ query.selected \in Seq(ColumnRef)
      /\ query.orderBy \in Seq(OrderRef)
  BY DEF Query
<1>2. \A ref \in ColumnRef : ref.column \in Columns
  BY DEF ColumnRef
<1>3. \A ref \in OrderRef : ref.column \in Columns
  OBVIOUS
<1> HIDE DEF OrderRef
<1>4. /\ usage.equality = Collected(query.equality, table, query)
      /\ usage.range = Collected(query.range, table, query)
      /\ usage.join = Collected(query.join, table, query)
      /\ usage.orderBy = Collected(query.orderBy, table, query)
      /\ usage.selected = Collected(query.selected, table, query)
      /\ usage.star = (table \in query.star)
  BY DEF Usage
<1>5. /\ usage.equality \in Seq(Columns)
      /\ ToSet(usage.equality) = Attributed(query.equality, table, query)
  BY <1>1, <1>2, <1>4, CollectedIs
<1>6. /\ usage.join \in Seq(Columns)
      /\ ToSet(usage.join) = Attributed(query.join, table, query)
  BY <1>1, <1>2, <1>4, CollectedIs
<1>7. /\ usage.range \in Seq(Columns)
      /\ ToSet(usage.range) = Attributed(query.range, table, query)
  BY <1>1, <1>2, <1>4, CollectedIs
<1>8. usage.orderBy \in Seq(Columns)
  BY <1>1, <1>3, <1>4, CollectedIs
<1>9. usage.selected \in Seq(Columns)
  BY <1>1, <1>2, <1>4, CollectedIs
<1> QED
  BY <1>4, <1>5, <1>6, <1>7, <1>8, <1>9 DEF Equated, Bounded

\* What the columns of a key may be: none that is compared with a value comes after
\* one that is not, and the first of a range ends it.
Leading(key, fixed, ranged) ==
  \A m, n \in DOMAIN key :
    m < n /\ key[n] \in fixed \union ranged => key[m] \in fixed

LEMMA TierIs ==
  ASSUME NEW usage, usage.equality \in Seq(Columns), usage.join \in Seq(Columns)
  PROVE  /\ EqualityTier(usage) \in Seq(Columns)
         /\ ToSet(EqualityTier(usage)) = ToSet(usage.equality) \union ToSet(usage.join)
<1> DEFINE list == usage.equality \o usage.join
<1>1. list \in Seq(Columns) /\ ToSet(list) = ToSet(usage.equality) \union ToSet(usage.join)
  BY Concatenated
<1>2. EqualityTier(usage) = Distinct(list)
  BY DEF EqualityTier
<1> HIDE DEF list
<1> QED
  BY <1>1, <1>2, DistinctIs

\* The key if something is filtered by range: the tier, then at most one column.
LEMMA RangeKeyIs ==
  ASSUME NEW tier \in Seq(Columns), NEW range \in Seq(Columns), NEW key,
         key = tier \o First(NotIn(range, tier))
  PROVE  /\ key \in Seq(Columns)
         /\ Leading(key, ToSet(tier), ToSet(range))
         /\ ToSet(tier) \subseteq ToSet(key)
         /\ range # <<>> => ToSet(range) \intersect ToSet(key) # {}
<1> DEFINE rest == NotIn(range, tier)
           one  == First(rest)
<1>1. rest \in Seq(Columns) /\ ToSet(rest) = ToSet(range) \ ToSet(tier)
  BY NotInIs
<1> HIDE DEF rest
<1>2. /\ one \in Seq(Columns) /\ ToSet(one) \subseteq ToSet(rest) /\ Len(one) <= 1
      /\ ToSet(rest) # {} => ToSet(one) # {}
  BY <1>1, FirstIs
<1> HIDE DEF one
<1>3. key = tier \o one
  BY DEF one, rest
<1>4. /\ key \in Seq(Columns)
      /\ \A i \in DOMAIN tier : key[i] = tier[i]
      /\ Len(key) = Len(tier) + Len(one)
      /\ ToSet(key) = ToSet(tier) \union ToSet(one)
  BY <1>2, <1>3, Concatenated
<1>5. /\ DOMAIN key = 1 .. Len(key) /\ DOMAIN tier = 1 .. Len(tier)
      /\ Len(tier) \in Nat /\ Len(one) \in Nat
  BY <1>2, <1>4, ListDomain
<1>6. Leading(key, ToSet(tier), ToSet(range))
  <2> SUFFICES ASSUME NEW m \in DOMAIN key, NEW n \in DOMAIN key, m < n
               PROVE  key[m] \in ToSet(tier)
    BY DEF Leading
  <2>1. m \in DOMAIN tier
    BY <1>2, <1>4, <1>5
  <2> QED
    BY <1>4, <2>1 DEF ToSet
<1>7. ASSUME range # <<>> PROVE ToSet(range) \intersect ToSet(key) # {}
  <2>1. range[1] \in ToSet(range)
    <3>1. 1 \in DOMAIN range
      BY <1>7, ListDomain
    <3> QED
      BY <3>1 DEF ToSet
  <2>2. CASE ToSet(rest) # {}
    BY <1>1, <1>2, <1>4, <2>2
  <2>3. CASE ToSet(rest) = {}
    BY <1>1, <1>4, <2>1, <2>3
  <2> QED
    BY <2>2, <2>3
<1> QED
  BY <1>4, <1>6, <1>7

\* The key if nothing is: the tier, then the columns of the ORDER BY in their order.
LEMMA OrderKeyIs ==
  ASSUME NEW tier \in Seq(Columns), NEW order \in Seq(Columns), NEW key,
         key = Distinct(tier \o order)
  PROVE  /\ key \in Seq(Columns)
         /\ Leading(key, ToSet(tier), {})
         /\ ToSet(key) = ToSet(tier) \union ToSet(order)
         /\ \A m, n \in DOMAIN key : key[m] = key[n] => m = n
         /\ \A m, n \in DOMAIN key : \A k \in DOMAIN order :
               m < n /\ key[n] = order[k] /\ key[m] \notin ToSet(tier)
               => \E l \in DOMAIN order : l < k /\ order[l] = key[m]
<1> DEFINE list == tier \o order
<1>1. /\ list \in Seq(Columns)
      /\ \A i \in DOMAIN tier : i \in DOMAIN list /\ list[i] = tier[i]
      /\ \A i \in DOMAIN order : Len(tier) + i \in DOMAIN list /\ list[Len(tier) + i] = order[i]
      /\ \A j \in DOMAIN list :
            \/ j \in DOMAIN tier
            \/ j > Len(tier) /\ j - Len(tier) \in DOMAIN order /\ list[j] = order[j - Len(tier)]
      /\ ToSet(list) = ToSet(tier) \union ToSet(order)
  BY Concatenated
<1> HIDE DEF list
<1>2. key = Distinct(list)
  BY DEF list
<1>3. /\ key \in Seq(Columns)
      /\ ToSet(key) = ToSet(list)
      /\ \A m, n \in DOMAIN key : key[m] = key[n] => m = n
      /\ \A m, n \in DOMAIN key : \A j \in DOMAIN list :
            m < n /\ list[j] = key[n] => \E i \in DOMAIN list : i < j /\ list[i] = key[m]
  BY <1>1, <1>2, DistinctIs
<1>4. /\ DOMAIN tier = 1 .. Len(tier) /\ Len(tier) \in Nat
      /\ DOMAIN list \subseteq Nat /\ DOMAIN order \subseteq Nat
  BY <1>1, ListDomain
<1>5. ASSUME NEW m \in DOMAIN key, NEW n \in DOMAIN key, m < n, key[n] \in ToSet(tier)
      PROVE  key[m] \in ToSet(tier)
  <2>1. PICK j \in DOMAIN tier : tier[j] = key[n]
    BY <1>5 DEF ToSet
  <2>2. j \in DOMAIN list /\ list[j] = key[n]
    BY <1>1, <2>1
  <2>3. PICK i \in DOMAIN list : i < j /\ list[i] = key[m]
    BY <1>3, <1>5, <2>2
  <2>4. i \in DOMAIN tier
    BY <1>1, <1>4, <2>1, <2>3
  <2> QED
    BY <1>1, <2>3, <2>4 DEF ToSet
<1>6. Leading(key, ToSet(tier), {})
  BY <1>5 DEF Leading
<1>7. ASSUME NEW m \in DOMAIN key, NEW n \in DOMAIN key, NEW k \in DOMAIN order,
             m < n, key[n] = order[k], key[m] \notin ToSet(tier)
      PROVE  \E l \in DOMAIN order : l < k /\ order[l] = key[m]
  <2>1. Len(tier) + k \in DOMAIN list /\ list[Len(tier) + k] = key[n]
    BY <1>1, <1>7
  <2>2. PICK i \in DOMAIN list : i < Len(tier) + k /\ list[i] = key[m]
    BY <1>3, <1>7, <2>1
  <2>3. i \notin DOMAIN tier
    BY <1>1, <1>7, <2>2 DEF ToSet
  <2>4. i - Len(tier) \in DOMAIN order /\ list[i] = order[i - Len(tier)]
    BY <1>1, <2>2, <2>3
  <2>5. i \in Nat /\ k \in Nat /\ i - Len(tier) < k
    BY <1>4, <2>2
  <2> QED
    BY <2>2, <2>4, <2>5
<1> QED
  BY <1>1, <1>3, <1>6, <1>7

LEMMA KeyIs ==
  ASSUME NEW query \in Query, NEW table, NEW key, key = IndexKey(Usage(query, table))
  PROVE  /\ key \in Seq(Columns)
         /\ Leading(key, Equated(query, table), Bounded(query, table))
         /\ Equated(query, table) \union Bounded(query, table) # {} =>
               /\ key # <<>>
               /\ Equated(query, table) \subseteq ToSet(key)
               /\ Bounded(query, table) # {} => Bounded(query, table) \intersect ToSet(key) # {}
<1> DEFINE usage == Usage(query, table)
           tier  == EqualityTier(usage)
<1>1. /\ usage.equality \in Seq(Columns) /\ usage.range \in Seq(Columns)
      /\ usage.join \in Seq(Columns) /\ usage.orderBy \in Seq(Columns)
      /\ ToSet(usage.equality) \union ToSet(usage.join) = Equated(query, table)
      /\ ToSet(usage.range) = Bounded(query, table)
  BY UsageIs
<1> HIDE DEF usage
<1>2. tier \in Seq(Columns) /\ ToSet(tier) = Equated(query, table)
  BY <1>1, TierIs
<1>3. tier = <<>> => ToSet(tier) = {}
  BY <1>2, EmptyList
<1>4. usage.range = <<>> <=> ToSet(usage.range) = {}
  BY <1>1, EmptyList
<1>5. key = CASE usage.range # <<>> -> tier \o First(NotIn(usage.range, tier))
              [] usage.range = <<>> /\ tier # <<>> -> Distinct(tier \o usage.orderBy)
              [] OTHER -> <<>>
  BY DEF IndexKey, usage
<1> HIDE DEF tier
<1>6. CASE usage.range # <<>>
  <2>1. key = tier \o First(NotIn(usage.range, tier))
    BY <1>5, <1>6
  <2>2. /\ key \in Seq(Columns)
        /\ Leading(key, ToSet(tier), ToSet(usage.range))
        /\ ToSet(tier) \subseteq ToSet(key)
        /\ ToSet(usage.range) \intersect ToSet(key) # {}
    BY <1>1, <1>2, <1>6, <2>1, RangeKeyIs
  <2>3. key # <<>>
    BY <2>2, EmptyList
  <2> QED
    BY <1>1, <1>2, <2>2, <2>3
<1>7. CASE usage.range = <<>> /\ tier # <<>>
  <2>1. key = Distinct(tier \o usage.orderBy)
    BY <1>5, <1>7
  <2>2. /\ key \in Seq(Columns)
        /\ Leading(key, ToSet(tier), {})
        /\ ToSet(key) = ToSet(tier) \union ToSet(usage.orderBy)
    BY <1>1, <1>2, <2>1, OrderKeyIs
  <2>3. Bounded(query, table) = {}
    BY <1>1, <1>4, <1>7
  <2>4. Equated(query, table) # {} => key # <<>>
    BY <1>2, <2>2, EmptyList
  <2> QED
    BY <1>2, <2>2, <2>3, <2>4
<1>8. CASE usage.range = <<>> /\ tier = <<>>
  <2>1. key = <<>>
    BY <1>5, <1>8
  <2>2. key \in Seq(Columns) /\ DOMAIN key = {}
    BY <2>1
  <2> QED
    BY <1>1, <1>2, <1>3, <1>4, <1>8, <2>2 DEF Leading
<1> QED
  BY <1>6, <1>7, <1>8

\* A nonempty set of positions has a last one.
LEMMA LastPosition ==
  ASSUME NEW n \in Nat, NEW S, S \subseteq 1 .. n, S # {}
  PROVE  \E i \in S : \A j \in S : j <= i
<1> DEFINE T == {n - i : i \in S}
<1>0. \A i \in S : i \in Nat /\ i <= n /\ n - i \in Nat
  OBVIOUS
<1>1. T \subseteq Nat /\ T # {}
  BY <1>0
<1>2. PICK m \in T : \A k \in T : m <= k
  <2> HIDE DEF T
  <2> QED
    BY <1>1, Least
<1>3. PICK i \in S : m = n - i
  OBVIOUS
<1>4. ASSUME NEW j \in S PROVE j <= i
  <2>1. m <= n - j
    BY <1>2
  <2>2. i \in Nat /\ j \in Nat
    BY <1>0
  <2> QED
    BY <1>3, <2>1, <2>2
<1> QED
  BY <1>4

\* Of a table the query reads once, the code resolves the references as PostgreSQL
\* does.
LEMMA ReadOnceResolves ==
  ASSUME NEW query \in Query, NEW table \in Tables, ReadOnce(query, table), NEW ref,
         ref.qualifier \in {None} \union {CalledAs(s) : s \in ToSet(query.from)}
  PROVE  BelongsTo(ref, table, query) <=> RefersTo(ref, table, query)
<1> DEFINE from == query.from
           q == ref.qualifier
<1>1. from \in Seq(Source)
  BY DEF Query
<1> HIDE DEF from
<1>2. /\ DOMAIN from = 1 .. Len(from) /\ Len(from) \in Nat
      /\ \A i \in DOMAIN from : from[i] \in Source
  BY <1>1, ListDomain
<1>3. ToSet(from) = {from[i] : i \in DOMAIN from}
  BY DEF ToSet
<1>4. \A i, j \in DOMAIN from : from[i].name = table /\ from[j].name = table => i = j
  BY DEF ReadOnce, from
<1>5. \A i, j \in DOMAIN from :
         from[i].name # from[j].name => CalledAs(from[i]) \notin {from[j].name, from[j].alias}
  BY <1>3 DEF ReadOnce, from
<1>6. \A i \in DOMAIN from : CalledAs(from[i]) # None
  BY <1>2, TablesAssumption DEF CalledAs, Source
<1>7. \A i \in DOMAIN from : CalledAs(from[i]) \in {from[i].name, from[i].alias}
  BY DEF CalledAs
<1>8. RefersTo(ref, table, query) <=>
        \E i \in DOMAIN from :
           from[i].name = table /\ (q = CalledAs(from[i]) \/ (q = None /\ Len(from) = 1))
  <2> DEFINE Is(s) == s.name = table /\ (q = CalledAs(s) \/ (q = None /\ Len(from) = 1))
  <2>1. RefersTo(ref, table, query) <=> \E s \in ToSet(from) : Is(s)
    BY DEF RefersTo, from
  <2>2. (\E s \in ToSet(from) : Is(s)) <=> \E i \in DOMAIN from : Is(from[i])
    <3> HIDE DEF Is
    <3> QED
      BY <1>3
  <2> QED
    BY <2>1, <2>2
<1>9. CASE q = None
  <2>1. BelongsTo(ref, table, query) <=> {from[i].name : i \in DOMAIN from} = {table}
    <3>1. {source.name : source \in ToSet(from)} = {from[i].name : i \in DOMAIN from}
      BY <1>3
    <3> QED
      BY <1>9, <3>1 DEF BelongsTo, from
  <2>2. RefersTo(ref, table, query) <=> Len(from) = 1 /\ from[1].name = table
    BY <1>2, <1>6, <1>8, <1>9
  <2>3. ASSUME {from[i].name : i \in DOMAIN from} = {table}
        PROVE  Len(from) = 1 /\ from[1].name = table
    <3>1. PICK i \in DOMAIN from : from[i].name = table
      BY <2>3
    <3>2. \A j \in DOMAIN from : from[j].name = table
      BY <2>3
    <3>3. \A j \in DOMAIN from : j = i
      BY <1>4, <3>1, <3>2
    <3>4. i \in 1 .. Len(from) /\ 1 \in DOMAIN from /\ Len(from) \in DOMAIN from
      BY <1>2
    <3> QED
      BY <3>2, <3>3, <3>4
  <2>4. ASSUME Len(from) = 1, from[1].name = table
        PROVE  {from[i].name : i \in DOMAIN from} = {table}
    <3>1. DOMAIN from = {1}
      BY <1>2, <2>4
    <3> QED
      BY <2>4, <3>1
  <2> QED
    BY <2>1, <2>2, <2>3, <2>4
<1>10. CASE q # None
  <2> DEFINE S == {i \in DOMAIN from : q \in {from[i].name, from[i].alias}}
  <2>1. PICK i \in DOMAIN from : q = CalledAs(from[i])
    BY <1>3, <1>10 DEF from
  <2>2. i \in S
    BY <1>7, <2>1
  <2>3. \A j \in S : from[j].name = from[i].name
    BY <1>5, <2>1
  <2>4. S \subseteq 1 .. Len(from)
    BY <1>2
  <2>5. ResolvesTo(q, table, query) <=>
          \/ S = {} /\ q = table
          \/ \E j \in S : (\A k \in S : k <= j) /\ from[j].name = table
    BY DEF ResolvesTo, EntriesOf, from
  <2>6. BelongsTo(ref, table, query) <=> ResolvesTo(q, table, query)
    BY <1>10 DEF BelongsTo
  <2>7. \A j \in DOMAIN from : q = CalledAs(from[j]) => j \in S
    BY <1>7
  <2> HIDE DEF S
  <2>8. PICK l \in S : \A k \in S : k <= l
    BY <1>2, <2>2, <2>4, LastPosition
  <2>9. BelongsTo(ref, table, query) <=> from[i].name = table
    BY <2>2, <2>3, <2>5, <2>6, <2>8
  <2>10. RefersTo(ref, table, query) <=> from[i].name = table
    <3>1. RefersTo(ref, table, query) <=>
            \E j \in DOMAIN from : from[j].name = table /\ q = CalledAs(from[j])
      BY <1>8, <1>10
    <3>2. \A j \in DOMAIN from : q = CalledAs(from[j]) => from[j].name = from[i].name
      BY <2>3, <2>7
    <3> QED
      BY <2>1, <3>1, <3>2
  <2> QED
    BY <2>9, <2>10
<1> QED
  BY <1>9, <1>10

\* So what it collects is what the query compares.
LEMMA ReadOnceUsage ==
  ASSUME NEW query \in Query, NEW table \in Tables, ReadOnce(query, table)
  PROVE  /\ Equated(query, table) = Fixed(query, table)
         /\ Bounded(query, table) = Ranged(query, table)
         /\ Attributed(query.orderBy, table, query) = ColumnsIn(query.orderBy, table, query)
<1>1. ASSUME NEW refs \in {query.equality, query.range, query.join, query.orderBy}
      PROVE  Attributed(refs, table, query) = ColumnsIn(refs, table, query)
  <2>1. \A ref \in ToSet(refs) : BelongsTo(ref, table, query) <=> RefersTo(ref, table, query)
    <3>1. \A ref \in ToSet(refs) :
             ref.qualifier \in {None} \union {CalledAs(s) : s \in ToSet(query.from)}
      BY DEF ReadOnce
    <3> QED
      BY <3>1, ReadOnceResolves
  <2>2. {r \in ToSet(refs) : BelongsTo(r, table, query)} =
          {r \in ToSet(refs) : RefersTo(r, table, query)}
    BY <2>1
  <2> QED
    BY <2>2 DEF Attributed, ColumnsIn
<1> QED
  BY <1>1 DEF Equated, Bounded, Fixed, Ranged

-----------------------------------------------------------------------------
(* What the queries ask for.                                               *)

LEMMA IncludedTyped ==
  ASSUME NEW query \in Query, NEW table, NEW key
  PROVE  CoveringColumns(Usage(query, table), key) \in Seq(Columns)
<1> DEFINE usage == Usage(query, table)
<1>1. usage.selected \in Seq(Columns)
  BY UsageIs
<1> HIDE DEF usage
<1>2. NotIn(usage.selected, key) \in Seq(Columns) /\ <<>> \in Seq(Columns)
  BY <1>1, NotInIs
<1>3. CoveringColumns(usage, key) \in {<<>>, NotIn(usage.selected, key)}
  BY DEF CoveringColumns
<1> QED
  BY <1>2, <1>3 DEF usage

LEMMA RecommendedTyped ==
  ASSUME NEW query \in Query, NEW finding \in Finding, Usable(query, finding)
  PROVE  Recommended(query, finding) \in IndexRec
<1>1. finding.relation \in Tables
  BY DEF Usable, Finding
<1> DEFINE key == IndexKey(Usage(query, finding.relation))
           included == CoveringColumns(Usage(query, finding.relation), key)
           sure == IF finding.severity = "HIGH" THEN "HIGH" ELSE "MEDIUM"
<1>2. key \in Seq(Columns)
  BY KeyIs
<1>3. included \in Seq(Columns)
  BY IncludedTyped
<1>4. sure \in {"HIGH", "MEDIUM"}
  OBVIOUS
<1>5. Recommended(query, finding) =
        [table |-> finding.relation, columns |-> key, included |-> included, confidence |-> sure]
  BY DEF Recommended
<1> HIDE DEF key, included, sure
<1> QED
  BY <1>1, <1>2, <1>3, <1>4, <1>5 DEF IndexRec

LEMMA RecommendForQueryIs ==
  ASSUME NEW query \in Query, NEW findings \in Seq(Finding)
  PROVE  /\ RecommendForQuery(query, findings) \in Seq(IndexRec)
         /\ \A f \in ToSet(findings) : Usable(query, f) =>
               Recommended(query, f) \in ToSet(RecommendForQuery(query, findings))
<1> DEFINE P == {i \in DOMAIN findings : Usable(query, findings[i])}
           usable == At(findings, P)
           recs == [i \in DOMAIN usable |-> Recommended(query, usable[i])]
<1>1. RecommendForQuery(query, findings) = recs
  BY DEF RecommendForQuery
<1>2. P \subseteq DOMAIN findings
  OBVIOUS
<1>3. \A i \in P : Usable(query, findings[i])
  OBVIOUS
<1>4. \A i \in DOMAIN findings : Usable(query, findings[i]) => i \in P
  OBVIOUS
<1> HIDE DEF P
<1>5. usable \in Seq(Finding) /\ ToSet(usable) = {findings[i] : i \in P}
  BY <1>2, AtIs
<1> HIDE DEF usable
<1>6. /\ DOMAIN usable = 1 .. Len(usable) /\ Len(usable) \in Nat
      /\ \A i \in DOMAIN usable : usable[i] \in Finding
  BY <1>5, ListDomain
<1>7. ASSUME NEW i \in DOMAIN usable PROVE Recommended(query, usable[i]) \in IndexRec
  <2>1. usable[i] \in {findings[k] : k \in P}
    BY <1>5 DEF ToSet
  <2>2. Usable(query, usable[i])
    BY <1>3, <2>1
  <2> QED
    BY <1>6, <2>2, RecommendedTyped
<1>8. recs \in Seq(IndexRec) /\ DOMAIN recs = DOMAIN usable
  BY <1>6, <1>7
<1>9. ASSUME NEW f \in ToSet(findings), Usable(query, f)
      PROVE  Recommended(query, f) \in ToSet(recs)
  <2>1. PICK k \in DOMAIN findings : findings[k] = f
    BY DEF ToSet
  <2>2. k \in P
    BY <1>4, <1>9, <2>1
  <2>3. PICK i \in DOMAIN usable : usable[i] = f
    BY <1>5, <2>1, <2>2 DEF ToSet
  <2>4. recs[i] = Recommended(query, f) /\ i \in DOMAIN recs
    BY <1>8, <2>3
  <2> HIDE DEF recs
  <2> QED
    BY <2>4 DEF ToSet
<1> QED
  BY <1>1, <1>8, <1>9

LEMMA PerQueryTyped ==
  ASSUME NEW entries \in Seq(Entry)
  PROVE  PerQuery(entries) \in Seq(Entry)
<1> DEFINE P == {i \in DOMAIN entries : entries[i].analyzed}
<1>1. P \subseteq DOMAIN entries
  OBVIOUS
<1>2. PerQuery(entries) = At(entries, P)
  BY DEF PerQuery
<1> HIDE DEF P
<1> QED
  BY <1>1, <1>2, AtIs

\* Lists of lists: FlattenSeq is the last of the lists that flatten builds.
LEMMA FlattenTyped ==
  ASSUME NEW S, NEW seqs \in Seq(Seq(S))
  PROVE  FlattenSeq(seqs) \in Seq(S)
<1> DEFINE N == Len(seqs)
           Step(f, i) == IF i = 1 THEN seqs[i] ELSE f[i-1] \o seqs[i]
<1>1. N \in Nat /\ DOMAIN seqs = 1 .. N /\ \A i \in 1 .. N : seqs[i] \in Seq(S)
  BY ListDomain
<1> HIDE DEF N
<1>2. CASE N = 0
  <2>1. FlattenSeq(seqs) = seqs /\ seqs = <<>>
    BY <1>2 DEF FlattenSeq, N
  <2> QED
    BY <2>1
<1>3. CASE N # 0
  <2> DEFINE Built(n, f) == /\ f \in [1 .. n -> Seq(S)]
                            /\ \A i \in 1 .. n : f[i] = Step(f, i)
             Unbuilt == {n \in 1 .. N : ~ \E f : Built(n, f)}
  <2>1. \E f : Built(N, f)
    <3>0. N \in 1 .. N
      BY <1>1, <1>3
    <3> SUFFICES ASSUME Unbuilt # {} PROVE FALSE
      <4> HIDE DEF Built
      <4> QED
        BY <3>0, Zenon
    <3>1. Unbuilt \subseteq Nat
      BY <1>1
    <3>2. PICK n \in Unbuilt : \A m \in Unbuilt : n <= m
      BY <3>1, Least
    <3>3. n \in 1 .. N /\ ~ \E f : Built(n, f)
      OBVIOUS
    <3>4. CASE n = 1
      <4> DEFINE g == [i \in 1 .. 1 |-> seqs[1]]
      <4>1. seqs[1] \in Seq(S)
        BY <1>1, <3>3, <3>4
      <4>2. /\ g \in [1 .. 1 -> Seq(S)]
            /\ g[1] = seqs[1]
            /\ \A i \in 1 .. 1 : i = 1
        BY <4>1
      <4> HIDE DEF g
      <4>3. Built(1, g)
        BY <4>2
      <4> QED
        BY <3>3, <3>4, <4>3
    <3>5. CASE n # 1
      <4>1. n - 1 \in 1 .. N /\ ~(n <= n - 1) /\ n \in Nat
        BY <1>1, <3>3, <3>5
      <4>2. n - 1 \notin Unbuilt
        BY <3>2, <4>1
      <4>3. PICK f : Built(n - 1, f)
        BY <4>1, <4>2
      <4>4. f[n - 1] \in Seq(S) /\ seqs[n] \in Seq(S)
        BY <1>1, <3>3, <4>1, <4>3
      <4>5. PICK last \in Seq(S) : last = f[n - 1] \o seqs[n]
        BY <4>4, Concatenated
      <4>6. \A i \in 1 .. n : i # n => i \in 1 .. (n - 1) /\ f[i] \in Seq(S)
        BY <4>1, <4>3
      <4> DEFINE g == [i \in 1 .. n |-> IF i = n THEN last ELSE f[i]]
      <4>7. /\ g \in [1 .. n -> Seq(S)]
            /\ g[n] = f[n - 1] \o seqs[n]
            /\ \A i \in 1 .. (n - 1) : g[i] = f[i]
        <5>1. g \in [1 .. n -> Seq(S)]
          BY <4>6
        <5>2. n \in 1 .. n /\ g[n] = last
          BY <4>1
        <5>3. \A i \in 1 .. (n - 1) : i \in 1 .. n /\ i # n /\ g[i] = f[i]
          BY <4>1
        <5> QED
          BY <4>5, <5>1, <5>2, <5>3
      <4> HIDE DEF g
      <4>8. ASSUME NEW i \in 1 .. n PROVE g[i] = Step(g, i)
        <5>1. CASE i = n
          <6>1. n - 1 \in 1 .. (n - 1)
            BY <3>5, <4>1
          <6>2. g[n - 1] = f[n - 1]
            BY <4>7, <6>1
          <6> QED
            BY <3>5, <4>7, <5>1, <6>2
        <5>2. CASE i # n
          <6>1. i \in 1 .. (n - 1) /\ (i # 1 => i - 1 \in 1 .. (n - 1))
            BY <4>1, <5>2
          <6>2. f[i] = Step(f, i)
            BY <4>3, <6>1
          <6> QED
            BY <4>7, <6>1, <6>2
        <5> QED
          BY <5>1, <5>2
      <4>9. Built(n, g)
        BY <4>7, <4>8
      <4> QED
        BY <3>3, <4>9
    <3> QED
      BY <3>4, <3>5
  <2>2. PICK f : Built(N, f)
    BY <2>1
  <2> DEFINE flatten == CHOOSE g : g = [i \in 1 .. N |-> Step(g, i)]
  <2>3. f = [i \in 1 .. N |-> Step(f, i)]
    BY <2>2
  <2>4. flatten = [i \in 1 .. N |-> Step(flatten, i)]
    BY <2>3
  <2>5. FlattenSeq(seqs) = flatten[N]
    BY <1>3 DEF FlattenSeq, N
  <2> HIDE DEF flatten
  <2>6. \A i \in 1 .. N : flatten[i] = Step(flatten, i)
    BY <2>4
  <2> DEFINE Untyped == {i \in 1 .. N : flatten[i] \notin Seq(S)}
  <2>7. Untyped = {}
    <3> SUFFICES ASSUME Untyped # {} PROVE FALSE
      OBVIOUS
    <3>1. Untyped \subseteq Nat
      BY <1>1
    <3>2. PICK i \in Untyped : \A j \in Untyped : i <= j
      BY <3>1, Least
    <3>3. i \in 1 .. N /\ flatten[i] \notin Seq(S) /\ seqs[i] \in Seq(S)
      BY <1>1
    <3>4. i # 1
      BY <2>6, <3>3
    <3>5. i - 1 \in 1 .. N /\ ~(i <= i - 1)
      BY <1>1, <3>3, <3>4
    <3>6. flatten[i - 1] \in Seq(S)
      BY <3>2, <3>5
    <3>7. flatten[i - 1] \o seqs[i] \in Seq(S)
      BY <3>3, <3>6, Concatenated
    <3> QED
      BY <2>6, <3>3, <3>4, <3>7
  <2>8. N \in 1 .. N
    BY <1>1, <1>3
  <2> QED
    BY <2>5, <2>7, <2>8
<1> QED
  BY <1>2, <1>3

-----------------------------------------------------------------------------
(* What the engine is given.                                               *)

Names == Tables \union {None}

AntiPatternCodes ==
  {"SELECT_STAR", "LEADING_WILDCARD_LIKE", "ORDER_BY_RANDOM", "N_PLUS_ONE"}

Faults == {Found(code, relation) : code \in AntiPatternCodes, relation \in Names}

LEMMA FaultIs ==
  ASSUME NEW fault \in Faults
  PROVE  /\ fault.code \in AntiPatternCodes /\ fault.relation \in Names
         /\ fault.severity = IF fault.code = "SELECT_STAR" THEN "LOW" ELSE "MEDIUM"
BY DEF Faults, Found

LEMMA AnalyzeTextsTyped ==
  ASSUME NEW texts \in Seq(Text(Names, Columns \union {None}, Structures))
  PROVE  AnalyzeTexts(texts) \in Seq(Faults)
<1> DEFINE Texts == Text(Names, Columns \union {None}, Structures)
<1>1. /\ DOMAIN texts = 1 .. Len(texts) /\ Len(texts) \in Nat
      /\ \A i \in DOMAIN texts : texts[i] \in Texts
  BY ListDomain
<1>2. \A text \in Texts :
         /\ text.starTable \in Names /\ text.firstTable \in Names
         /\ text.wildcards \in Seq([table : Names, column : Columns \union {None}])
  BY DEF Text
<1> HIDE DEF Texts
<1>3. \A code \in AntiPatternCodes : \A name \in Names : Found(code, name) \in Faults
  BY DEF Faults
<1>4. /\ "SELECT_STAR" \in AntiPatternCodes /\ "LEADING_WILDCARD_LIKE" \in AntiPatternCodes
      /\ "ORDER_BY_RANDOM" \in AntiPatternCodes /\ "N_PLUS_ONE" \in AntiPatternCodes
  BY DEF AntiPatternCodes
<1>5. "none" \in Names
  BY DEF Names, None
<1> HIDE DEF Faults
<1>6. ASSUME NEW i \in DOMAIN texts PROVE SelectStar(texts, i) \in Seq(Faults)
  <2>1. Found("SELECT_STAR", texts[i].starTable) \in Faults
    BY <1>1, <1>2, <1>3, <1>4
  <2> QED
    BY <2>1 DEF SelectStar
<1>7. ASSUME NEW i \in DOMAIN texts PROVE LeadingWildcard(texts, i) \in Seq(Faults)
  <2> DEFINE likes == texts[i].wildcards
             Seen(k) == \E m \in 1 .. k - 1 : likes[m].column = likes[k].column
             Finds(k) == IF Seen(k) THEN <<>>
                         ELSE <<Found("LEADING_WILDCARD_LIKE", likes[k].table)>>
             all == [k \in DOMAIN likes |-> Finds(k)]
  <2>1. likes \in Seq([table : Names, column : Columns \union {None}])
    BY <1>1, <1>2
  <2>2. LeadingWildcard(texts, i) = FlattenSeq(all)
    BY DEF LeadingWildcard
  <2> HIDE DEF likes, Seen
  <2>3. /\ DOMAIN likes = 1 .. Len(likes) /\ Len(likes) \in Nat
        /\ \A k \in DOMAIN likes : likes[k] \in [table : Names, column : Columns \union {None}]
    BY <2>1, ListDomain
  <2>4. \A k \in DOMAIN likes : Finds(k) \in Seq(Faults)
    <3> SUFFICES ASSUME NEW k \in DOMAIN likes PROVE Finds(k) \in Seq(Faults)
      OBVIOUS
    <3>1. likes[k].table \in Names
      BY <2>3
    <3>2. Found("LEADING_WILDCARD_LIKE", likes[k].table) \in Faults
      BY <1>3, <1>4, <3>1
    <3> QED
      BY <3>2
  <2> HIDE DEF Finds
  <2>5. all \in Seq(Seq(Faults))
    BY <2>3, <2>4
  <2> HIDE DEF all
  <2> QED
    BY <2>2, <2>5, FlattenTyped
<1>8. ASSUME NEW i \in DOMAIN texts PROVE OrderByRandom(texts, i) \in Seq(Faults)
  <2>1. Found("ORDER_BY_RANDOM", "none") \in Faults
    BY <1>3, <1>4, <1>5
  <2> QED
    BY <2>1 DEF OrderByRandom
<1>9. ASSUME NEW i \in DOMAIN texts PROVE NPlusOne(texts, i) \in Seq(Faults)
  <2>1. Found("N_PLUS_ONE", texts[i].firstTable) \in Faults
    BY <1>1, <1>2, <1>3, <1>4
  <2>2. \/ NPlusOne(texts, i) = <<Found("N_PLUS_ONE", texts[i].firstTable)>>
        \/ NPlusOne(texts, i) = <<>>
    BY DEF NPlusOne
  <2>3. <<Found("N_PLUS_ONE", texts[i].firstTable)>> \in Seq(Faults) /\ <<>> \in Seq(Faults)
    BY <2>1
  <2> QED
    BY <2>2, <2>3
<1>10. [i \in DOMAIN texts |-> SelectStar(texts, i)] \in Seq(Seq(Faults))
  BY <1>1, <1>6
<1>11. [i \in DOMAIN texts |-> LeadingWildcard(texts, i)] \in Seq(Seq(Faults))
  BY <1>1, <1>7
<1>12. [i \in DOMAIN texts |-> OrderByRandom(texts, i)] \in Seq(Seq(Faults))
  BY <1>1, <1>8
<1>13. [i \in DOMAIN texts |-> NPlusOne(texts, i)] \in Seq(Seq(Faults))
  BY <1>1, <1>9
<1>14. /\ FlattenSeq([i \in DOMAIN texts |-> SelectStar(texts, i)]) \in Seq(Faults)
       /\ FlattenSeq([i \in DOMAIN texts |-> LeadingWildcard(texts, i)]) \in Seq(Faults)
       /\ FlattenSeq([i \in DOMAIN texts |-> OrderByRandom(texts, i)]) \in Seq(Faults)
       /\ FlattenSeq([i \in DOMAIN texts |-> NPlusOne(texts, i)]) \in Seq(Faults)
  BY <1>10, <1>11, <1>12, <1>13, FlattenTyped
<1> QED
  BY <1>14 DEF AnalyzeTexts

\* The items of a source, none of which is LOW but those of a code that always is.
GoodItems(items) ==
  /\ items \in Seq(Items)
  /\ \A i \in DOMAIN items : items[i].severity = "LOW" <=> items[i].code = "SELECT_STAR"

LEMMA ItemTyped ==
  ASSUME NEW code \in FindingCodes, NEW relation \in Names, NEW severity \in Levels,
         NEW confidence \in Levels
  PROVE  /\ Item(code, relation, severity, confidence) \in Items
         /\ Item(code, relation, severity, confidence).code = code
         /\ Item(code, relation, severity, confidence).severity = severity
BY RelationsAssumption DEF Item, Items, Names

LEMMA IndexItemsGood == ASSUME NEW recs \in Seq(IndexRec) PROVE GoodItems(IndexItems(recs))
<1>1. /\ DOMAIN recs = 1 .. Len(recs) /\ Len(recs) \in Nat
      /\ \A i \in DOMAIN recs : recs[i] \in IndexRec
  BY ListDomain
<1> DEFINE I(i) == Item("INDEX", recs[i].table, "HIGH", recs[i].confidence)
           items == [i \in DOMAIN recs |-> I(i)]
<1>2. IndexItems(recs) = items
  BY DEF IndexItems
<1>3. ASSUME NEW i \in DOMAIN recs
      PROVE  I(i) \in Items /\ I(i).code = "INDEX" /\ I(i).severity = "HIGH"
  <2>1. /\ recs[i].table \in Names /\ recs[i].confidence \in Levels
        /\ "HIGH" \in Levels /\ "INDEX" \in FindingCodes
    BY <1>1 DEF IndexRec, Names, Levels, FindingCodes
  <2> QED
    BY <2>1, ItemTyped
<1> HIDE DEF I
<1>4. items \in Seq(Items) /\ DOMAIN items = DOMAIN recs /\ \A i \in DOMAIN recs : items[i] = I(i)
  BY <1>1, <1>3
<1> QED
  BY <1>2, <1>3, <1>4 DEF GoodItems

LEMMA PlanItemsGood == ASSUME NEW entries \in Seq(Entry) PROVE GoodItems(PlanItems(entries))
<1> DEFINE perQuery == PerQuery(entries)
           lists == [i \in DOMAIN perQuery |-> perQuery[i].findings]
           findings == FlattenSeq(lists)
<1>1. perQuery \in Seq(Entry)
  BY PerQueryTyped
<1> HIDE DEF perQuery
<1>2. /\ DOMAIN perQuery = 1 .. Len(perQuery) /\ Len(perQuery) \in Nat
      /\ \A i \in DOMAIN perQuery : perQuery[i] \in Entry
  BY <1>1, ListDomain
<1>3. \A i \in DOMAIN perQuery : perQuery[i].findings \in Seq(Finding)
  BY <1>2 DEF Entry
<1>4. lists \in Seq(Seq(Finding))
  BY <1>2, <1>3
<1> HIDE DEF lists
<1>5. findings \in Seq(Finding)
  BY <1>4, FlattenTyped
<1> DEFINE I(i) == Item(findings[i].code, findings[i].relation,
                        findings[i].severity, findings[i].severity)
           items == [i \in DOMAIN findings |-> I(i)]
<1>6. PlanItems(entries) = items
  BY DEF PlanItems, lists, perQuery
<1> HIDE DEF findings
<1>7. /\ DOMAIN findings = 1 .. Len(findings) /\ Len(findings) \in Nat
      /\ \A i \in DOMAIN findings : findings[i] \in Finding
  BY <1>5, ListDomain
<1>8. ASSUME NEW i \in DOMAIN findings
      PROVE  I(i) \in Items /\ I(i).code # "SELECT_STAR" /\ I(i).severity # "LOW"
  <2>1. /\ findings[i].code \in Codes /\ findings[i].relation \in Names
        /\ findings[i].severity \in Severities
    BY <1>7 DEF Finding, Names
  <2>2. findings[i].code \in FindingCodes /\ findings[i].code # "SELECT_STAR"
    BY <2>1 DEF Codes, FindingCodes
  <2>3. findings[i].severity \in Levels /\ findings[i].severity # "LOW"
    BY <2>1 DEF Severities, Levels
  <2> QED
    BY <2>1, <2>2, <2>3, ItemTyped
<1> HIDE DEF I
<1>9. items \in Seq(Items) /\ DOMAIN items = DOMAIN findings
      /\ \A i \in DOMAIN findings : items[i] = I(i)
  BY <1>7, <1>8
<1> QED
  BY <1>6, <1>8, <1>9 DEF GoodItems

LEMMA AntiPatternItemsGood ==
  ASSUME NEW entries \in Seq(Entry) PROVE GoodItems(AntiPatternItems(entries))
<1> DEFINE texts == [i \in DOMAIN entries |-> entries[i].text]
           findings == AnalyzeTexts(texts)
           I(i) == Item(findings[i].code, findings[i].relation, findings[i].severity,
                        IF findings[i].code = "N_PLUS_ONE" THEN "MEDIUM" ELSE "HIGH")
           items == [i \in DOMAIN findings |-> I(i)]
<1>1. /\ DOMAIN entries = 1 .. Len(entries) /\ Len(entries) \in Nat
      /\ \A i \in DOMAIN entries : entries[i] \in Entry
  BY ListDomain
<1>2. \A i \in DOMAIN entries : entries[i].text \in Text(Names, Columns \union {None}, Structures)
  BY <1>1 DEF Entry, Names
<1>3. texts \in Seq(Text(Names, Columns \union {None}, Structures))
  <2> DEFINE Texts == Text(Names, Columns \union {None}, Structures)
  <2>1. \A i \in DOMAIN entries : entries[i].text \in Texts
    BY <1>2
  <2> HIDE DEF Texts
  <2>2. texts \in Seq(Texts)
    BY <1>1, <2>1
  <2> QED
    BY <2>2 DEF Texts
<1> HIDE DEF texts
<1>4. findings \in Seq(Faults)
  BY <1>3, AnalyzeTextsTyped
<1>5. AntiPatternItems(entries) = items
  BY DEF AntiPatternItems, texts
<1> HIDE DEF findings
<1>6. /\ DOMAIN findings = 1 .. Len(findings) /\ Len(findings) \in Nat
      /\ \A i \in DOMAIN findings : findings[i] \in Faults
  BY <1>4, ListDomain
<1>7. ASSUME NEW i \in DOMAIN findings
      PROVE  I(i) \in Items /\ (I(i).severity = "LOW" <=> I(i).code = "SELECT_STAR")
  <2> DEFINE sure == IF findings[i].code = "N_PLUS_ONE" THEN "MEDIUM" ELSE "HIGH"
  <2>1. /\ findings[i].code \in AntiPatternCodes /\ findings[i].relation \in Names
        /\ findings[i].severity = IF findings[i].code = "SELECT_STAR" THEN "LOW" ELSE "MEDIUM"
    BY <1>6, FaultIs
  <2>2. findings[i].code \in FindingCodes
    BY <2>1 DEF AntiPatternCodes, FindingCodes
  <2>3. findings[i].severity \in Levels /\ sure \in Levels
    BY <2>1 DEF Levels
  <2>4. findings[i].severity = "LOW" <=> findings[i].code = "SELECT_STAR"
    BY <2>1
  <2> HIDE DEF sure
  <2>5. /\ Item(findings[i].code, findings[i].relation, findings[i].severity, sure) \in Items
        /\ Item(findings[i].code, findings[i].relation, findings[i].severity, sure).code
             = findings[i].code
        /\ Item(findings[i].code, findings[i].relation, findings[i].severity, sure).severity
             = findings[i].severity
    BY <2>1, <2>2, <2>3, ItemTyped
  <2> QED
    BY <2>4, <2>5 DEF sure
<1> HIDE DEF I
<1>8. items \in Seq(Items) /\ DOMAIN items = DOMAIN findings
      /\ \A i \in DOMAIN findings : items[i] = I(i)
  BY <1>6, <1>7
<1> QED
  BY <1>5, <1>7, <1>8 DEF GoodItems

LEMMA HygieneItemsGood == ASSUME NEW drops \in Seq(Drop) PROVE GoodItems(HygieneItems(drops))
<1> DEFINE I(i) == Item(drops[i].code, drops[i].relation, "MEDIUM",
                        IF drops[i].code = "DUPLICATE_INDEX" THEN "HIGH" ELSE "MEDIUM")
           items == [i \in DOMAIN drops |-> I(i)]
<1>1. /\ DOMAIN drops = 1 .. Len(drops) /\ Len(drops) \in Nat
      /\ \A i \in DOMAIN drops : drops[i] \in Drop
  BY ListDomain
<1>2. HygieneItems(drops) = items
  BY DEF HygieneItems
<1>3. ASSUME NEW i \in DOMAIN drops
      PROVE  I(i) \in Items /\ I(i).code # "SELECT_STAR" /\ I(i).severity = "MEDIUM"
  <2> DEFINE sure == IF drops[i].code = "DUPLICATE_INDEX" THEN "HIGH" ELSE "MEDIUM"
  <2>1. /\ drops[i].code \in {"DUPLICATE_INDEX", "UNUSED_INDEX"} /\ drops[i].relation \in Names
        /\ sure \in Levels /\ "MEDIUM" \in Levels
    BY <1>1 DEF Drop, Names, Levels
  <2>2. drops[i].code \in FindingCodes /\ drops[i].code # "SELECT_STAR"
    BY <2>1 DEF FindingCodes
  <2> HIDE DEF sure
  <2>3. /\ Item(drops[i].code, drops[i].relation, "MEDIUM", sure) \in Items
        /\ Item(drops[i].code, drops[i].relation, "MEDIUM", sure).code = drops[i].code
        /\ Item(drops[i].code, drops[i].relation, "MEDIUM", sure).severity = "MEDIUM"
    BY <2>1, <2>2, ItemTyped
  <2> QED
    BY <2>2, <2>3 DEF sure
<1> HIDE DEF I
<1>4. items \in Seq(Items) /\ DOMAIN items = DOMAIN drops
      /\ \A i \in DOMAIN drops : items[i] = I(i)
  BY <1>1, <1>3
<1> QED
  BY <1>2, <1>3, <1>4 DEF GoodItems

LEMMA InputGood ==
  ASSUME NEW entries \in Seq(Entry), NEW recs \in Seq(IndexRec), NEW drops \in Seq(Drop)
  PROVE  InputOf(entries, recs, drops) \in Inputs
<1> DEFINE given == InputOf(entries, recs, drops)
<1>1. /\ GoodItems(IndexItems(recs)) /\ GoodItems(PlanItems(entries))
      /\ GoodItems(AntiPatternItems(entries)) /\ GoodItems(HygieneItems(drops))
  BY IndexItemsGood, PlanItemsGood, AntiPatternItemsGood, HygieneItemsGood
<1>2. /\ given["index"] = IndexItems(recs) /\ given["plan"] = PlanItems(entries)
      /\ given["antiPattern"] = AntiPatternItems(entries)
      /\ given["hygiene"] = HygieneItems(drops)
      /\ DOMAIN given = Sources /\ given = [source \in Sources |-> given[source]]
  BY DEF InputOf, Sources
<1> HIDE DEF given
<1>3. \A source \in Sources : GoodItems(given[source])
  BY <1>1, <1>2 DEF Sources
<1>4. given \in [Sources -> Seq(Items)]
  BY <1>2, <1>3 DEF GoodItems
<1>5. \A source \in Sources : \A i, j \in DOMAIN given[source] :
         given[source][i].code = given[source][j].code =>
           (given[source][i].severity = "LOW" <=> given[source][j].severity = "LOW")
  BY <1>3 DEF GoodItems
<1>6. given \in Inputs
  BY <1>4, <1>5 DEF Inputs
<1> QED
  BY <1>6 DEF given

-----------------------------------------------------------------------------
(* The merge over the workload.                                            *)

\* The list of the advised, and what is pending, say what was asked for: nothing
\* else, nothing less, no definition twice, and no confidence made up or lost.
Faithful(asked, list, rest) ==
  /\ ToSet(rest) \subseteq asked
  /\ \A r \in ToSet(list) : \E a \in asked :
        Definition(a) = Definition(r) /\ a.confidence = r.confidence
  /\ \A a \in asked : \E r \in ToSet(list) \union ToSet(rest) :
        Definition(r) = Definition(a) /\ (a.confidence = "HIGH" => r.confidence = "HIGH")
  /\ \A i, j \in DOMAIN list : Definition(list[i]) = Definition(list[j]) => i = j

LEMMA SameDefinition == ASSUME NEW r, NEW s PROVE SameIndex(r, s) <=> Definition(r) = Definition(s)
BY DEF SameIndex, Definition

LEMMA MergeKeeps ==
  ASSUME NEW asked, NEW list \in Seq(IndexRec), NEW rest \in Seq(IndexRec), rest # <<>>,
         Faithful(asked, list, rest)
  PROVE  /\ Merge(list, Head(rest)) \in Seq(IndexRec)
         /\ Tail(rest) \in Seq(IndexRec)
         /\ Faithful(asked, Merge(list, Head(rest)), Tail(rest))
<1>1. PICK rec \in IndexRec : rec = Head(rest)
  <2>1. 1 \in DOMAIN rest /\ rest[1] \in IndexRec /\ Head(rest) = rest[1]
    BY ListDomain
  <2> QED
    BY <2>1
<1>2. PICK merged : merged = Merge(list, rec)
  OBVIOUS
<1>3. PICK left \in Seq(IndexRec) : left = Tail(rest)
  BY HeadTailProperties
<1>4. ToSet(rest) = {rec} \union ToSet(left)
  <2>1. /\ DOMAIN rest = 1 .. Len(rest) /\ Len(rest) \in Nat \ {0}
        /\ DOMAIN left = 1 .. Len(left) /\ Len(left) = Len(rest) - 1
        /\ rest[1] = rec /\ \A i \in DOMAIN left : left[i] = rest[i + 1]
    BY <1>1, <1>3
  <2>2. \A x \in ToSet(rest) : x = rec \/ x \in ToSet(left)
    <3> SUFFICES ASSUME NEW i \in DOMAIN rest, i # 1
                 PROVE  rest[i] \in ToSet(left)
      BY <2>1 DEF ToSet
    <3>1. i - 1 \in DOMAIN left /\ left[i - 1] = rest[i]
      BY <2>1
    <3> QED
      BY <3>1 DEF ToSet
  <2>3. rec \in ToSet(rest)
    BY <2>1 DEF ToSet
  <2>4. \A x \in ToSet(left) : x \in ToSet(rest)
    <3> SUFFICES ASSUME NEW i \in DOMAIN left
                 PROVE  left[i] \in ToSet(rest)
      BY DEF ToSet
    <3>1. i + 1 \in DOMAIN rest /\ left[i] = rest[i + 1]
      BY <2>1
    <3> QED
      BY <3>1 DEF ToSet
  <2> QED
    BY <2>2, <2>3, <2>4
<1>5. /\ DOMAIN list = 1 .. Len(list) /\ Len(list) \in Nat
      /\ \A i \in DOMAIN list : list[i] \in IndexRec /\ list[i] \in ToSet(list)
  BY ListDomain DEF ToSet
<1>6. /\ ToSet(rest) \subseteq asked
      /\ \A r \in ToSet(list) : \E a \in asked :
            Definition(a) = Definition(r) /\ a.confidence = r.confidence
      /\ \A a \in asked : \E r \in ToSet(list) \union ToSet(rest) :
            Definition(r) = Definition(a) /\ (a.confidence = "HIGH" => r.confidence = "HIGH")
      /\ \A i, j \in DOMAIN list : Definition(list[i]) = Definition(list[j]) => i = j
  BY DEF Faithful
<1>7. rec \in asked /\ ToSet(left) \subseteq asked
  BY <1>4, <1>6
\* It suffices that what was on the list still is, with its confidence or more, the
\* first of the pending too, and that what is new was asked for.
<1>8. ASSUME merged \in Seq(IndexRec),
             \A r \in ToSet(list) \union {rec} : \E s \in ToSet(merged) :
                Definition(s) = Definition(r) /\ (r.confidence = "HIGH" => s.confidence = "HIGH"),
             \A s \in ToSet(merged) : \E a \in asked :
                Definition(a) = Definition(s) /\ a.confidence = s.confidence,
             \A i, j \in DOMAIN merged : Definition(merged[i]) = Definition(merged[j]) => i = j
      PROVE  Faithful(asked, merged, left)
  <2>1. ASSUME NEW a \in asked
        PROVE  \E s \in ToSet(merged) \union ToSet(left) :
                  Definition(s) = Definition(a) /\ (a.confidence = "HIGH" => s.confidence = "HIGH")
    <3>1. PICK r \in ToSet(list) \union ToSet(rest) :
             Definition(r) = Definition(a) /\ (a.confidence = "HIGH" => r.confidence = "HIGH")
      BY <1>6
    <3>2. CASE r \in ToSet(left)
      BY <3>1, <3>2
    <3>3. CASE r \in ToSet(list) \union {rec}
      <4>1. PICK s \in ToSet(merged) :
               Definition(s) = Definition(r) /\ (r.confidence = "HIGH" => s.confidence = "HIGH")
        BY <1>8, <3>3
      <4> QED
        BY <3>1, <4>1
    <3> QED
      BY <1>4, <3>2, <3>3
  <2> QED
    BY <1>7, <1>8, <2>1 DEF Faithful
<1>9. CASE \E i \in DOMAIN list : SameIndex(list[i], rec)
  <2> DEFINE Now(i) == IF SameIndex(list[i], rec) /\ rec.confidence = "HIGH"
                         THEN [list[i] EXCEPT !.confidence = "HIGH"]
                         ELSE list[i]
  <2>1. merged = [i \in DOMAIN list |-> Now(i)]
    BY <1>2, <1>9 DEF Merge
  <2>2. ASSUME NEW i \in DOMAIN list
        PROVE  /\ Now(i) \in IndexRec
               /\ Definition(Now(i)) = Definition(list[i])
               /\ list[i].confidence = "HIGH" => Now(i).confidence = "HIGH"
               /\ Now(i).confidence # list[i].confidence =>
                     Now(i).confidence = rec.confidence /\ Definition(list[i]) = Definition(rec)
               /\ SameIndex(list[i], rec) /\ rec.confidence = "HIGH" => Now(i).confidence = "HIGH"
    <3>1. PICK r \in IndexRec : r = list[i]
      BY <1>5
    <3> DEFINE high == [r EXCEPT !.confidence = "HIGH"]
    <3>2. /\ high \in IndexRec /\ high.confidence = "HIGH"
          /\ high.table = r.table /\ high.columns = r.columns /\ high.included = r.included
      BY DEF IndexRec
    <3>3. Now(i) = IF SameIndex(r, rec) /\ rec.confidence = "HIGH" THEN high ELSE r
      BY <3>1
    <3> HIDE DEF high, Now
    <3>4. Definition(high) = Definition(r)
      BY <3>2 DEF Definition
    <3>5. SameIndex(r, rec) => Definition(r) = Definition(rec)
      BY SameDefinition
    <3> QED
      BY <3>1, <3>2, <3>3, <3>4, <3>5
  <2> HIDE DEF Now
  <2>3. merged \in Seq(IndexRec) /\ DOMAIN merged = DOMAIN list
        /\ \A i \in DOMAIN list : merged[i] = Now(i) /\ Now(i) \in ToSet(merged)
    <3>1. merged \in Seq(IndexRec) /\ DOMAIN merged = DOMAIN list
          /\ \A i \in DOMAIN list : merged[i] = Now(i)
      BY <1>5, <2>1, <2>2
    <3> QED
      BY <3>1 DEF ToSet
  <2>4. ASSUME NEW r \in ToSet(list) \union {rec}
        PROVE  \E s \in ToSet(merged) :
                  Definition(s) = Definition(r) /\ (r.confidence = "HIGH" => s.confidence = "HIGH")
    <3>1. CASE r \in ToSet(list)
      <4>1. PICK i \in DOMAIN list : list[i] = r
        BY <3>1 DEF ToSet
      <4> QED
        BY <2>2, <2>3, <4>1
    <3>2. CASE r = rec
      <4>1. PICK i \in DOMAIN list : SameIndex(list[i], rec)
        BY <1>9
      <4>2. Definition(list[i]) = Definition(rec)
        BY <4>1, SameDefinition
      <4> QED
        BY <2>2, <2>3, <3>2, <4>1, <4>2
    <3> QED
      BY <3>1, <3>2
  <2>5. ASSUME NEW s \in ToSet(merged)
        PROVE  \E a \in asked : Definition(a) = Definition(s) /\ a.confidence = s.confidence
    <3>1. PICK i \in DOMAIN list : s = Now(i)
      BY <2>3 DEF ToSet
    <3>2. CASE s.confidence = list[i].confidence
      <4>1. PICK a \in asked : Definition(a) = Definition(list[i])
                               /\ a.confidence = list[i].confidence
        BY <1>5, <1>6
      <4> QED
        BY <2>2, <3>1, <3>2, <4>1
    <3>3. CASE s.confidence # list[i].confidence
      BY <1>7, <2>2, <3>1, <3>3
    <3> QED
      BY <3>2, <3>3
  <2>6. \A i, j \in DOMAIN merged : Definition(merged[i]) = Definition(merged[j]) => i = j
    BY <1>6, <2>2, <2>3
  <2> QED
    BY <1>1, <1>2, <1>3, <1>8, <2>3, <2>4, <2>5, <2>6
<1>10. CASE ~ \E i \in DOMAIN list : SameIndex(list[i], rec)
  <2>1. merged = Append(list, rec)
    BY <1>2, <1>10 DEF Merge
  <2>2. /\ merged \in Seq(IndexRec)
        /\ DOMAIN merged = 1 .. Len(list) + 1
        /\ \A i \in DOMAIN list : merged[i] = list[i]
        /\ merged[Len(list) + 1] = rec
    BY <1>5, <2>1
  <2>3. ToSet(merged) = ToSet(list) \union {rec}
    <3>1. \A i \in DOMAIN merged : i \in DOMAIN list \/ i = Len(list) + 1
      BY <1>5, <2>2
    <3>2. \A x \in ToSet(merged) : x \in ToSet(list) \union {rec}
      BY <2>2, <3>1 DEF ToSet
    <3>3. \A i \in DOMAIN list : i \in DOMAIN merged
      BY <1>5, <2>2
    <3>4. \A x \in ToSet(list) : x \in ToSet(merged)
      BY <2>2, <3>3 DEF ToSet
    <3>5. Len(list) + 1 \in DOMAIN merged
      BY <1>5, <2>2
    <3>6. rec \in ToSet(merged)
      BY <2>2, <3>5 DEF ToSet
    <3> QED
      BY <3>2, <3>4, <3>6
  <2>4. \A i \in DOMAIN list : Definition(list[i]) # Definition(rec)
    BY <1>10, SameDefinition
  <2>5. ASSUME NEW i \in DOMAIN merged, NEW j \in DOMAIN merged,
               Definition(merged[i]) = Definition(merged[j])
        PROVE  i = j
    <3>1. /\ i \in DOMAIN list \/ i = Len(list) + 1
          /\ j \in DOMAIN list \/ j = Len(list) + 1
      BY <1>5, <2>2
    <3> QED
      BY <1>6, <2>2, <2>4, <2>5, <3>1
  <2> QED
    BY <1>1, <1>2, <1>3, <1>6, <1>7, <1>8, <2>2, <2>3, <2>5
<1> QED
  BY <1>9, <1>10

LEMMA AskedKeeps ==
  ASSUME NEW asked, NEW list, NEW new, Faithful(asked, list, <<>>)
  PROVE  Faithful(asked \union ToSet(new), list, new)
<1>1. ToSet(<<>>) = {}
  BY DEF ToSet
<1>2. /\ \A r \in ToSet(list) : \E a \in asked :
            Definition(a) = Definition(r) /\ a.confidence = r.confidence
      /\ \A a \in asked : \E r \in ToSet(list) :
            Definition(r) = Definition(a) /\ (a.confidence = "HIGH" => r.confidence = "HIGH")
      /\ \A i, j \in DOMAIN list : Definition(list[i]) = Definition(list[j]) => i = j
  BY <1>1 DEF Faithful
<1>3. \A a \in asked \union ToSet(new) : \E r \in ToSet(list) \union ToSet(new) :
         Definition(r) = Definition(a) /\ (a.confidence = "HIGH" => r.confidence = "HIGH")
  BY <1>2
<1> QED
  BY <1>2, <1>3 DEF Faithful

\* At the end of the merge.
LEMMA FaithfulMerge ==
  ASSUME NEW asked, NEW list \in Seq(IndexRec), Faithful(asked, list, <<>>)
  PROVE  /\ {Definition(r) : r \in ToSet(list)} = {Definition(a) : a \in asked}
         /\ \A i, j \in DOMAIN list : Definition(list[i]) = Definition(list[j]) => i = j
         /\ \A r \in ToSet(list) :
               r.confidence = "HIGH" <=>
                 \E a \in asked : Definition(a) = Definition(r) /\ a.confidence = "HIGH"
<1>1. ToSet(<<>>) = {}
  BY DEF ToSet
<1>2. /\ \A r \in ToSet(list) : \E a \in asked :
            Definition(a) = Definition(r) /\ a.confidence = r.confidence
      /\ \A a \in asked : \E r \in ToSet(list) :
            Definition(r) = Definition(a) /\ (a.confidence = "HIGH" => r.confidence = "HIGH")
      /\ \A i, j \in DOMAIN list : Definition(list[i]) = Definition(list[j]) => i = j
  BY <1>1 DEF Faithful
<1>3. ASSUME NEW r \in ToSet(list), NEW s \in ToSet(list), Definition(r) = Definition(s)
      PROVE  r = s
  BY <1>2, <1>3 DEF ToSet
<1>4. {Definition(r) : r \in ToSet(list)} = {Definition(a) : a \in asked}
  BY <1>2
<1>5. ASSUME NEW r \in ToSet(list), NEW a \in asked,
             Definition(a) = Definition(r), a.confidence = "HIGH"
      PROVE  r.confidence = "HIGH"
  <2>1. PICK s \in ToSet(list) : Definition(s) = Definition(a) /\ s.confidence = "HIGH"
    BY <1>2, <1>5
  <2> QED
    BY <1>3, <1>5, <2>1
<1> QED
  BY <1>2, <1>4, <1>5

-----------------------------------------------------------------------------
(* The invariant of a run.                                                 *)

\* What the first n queries that were analyzed ask for.
Asked(n) ==
  UNION {ToSet(RecommendForQuery(PerQuery(workload)[k].query, PerQuery(workload)[k].findings)) :
           k \in 1 .. n}

AdvisorInv ==
  /\ workload \in Seq(Entry)
  /\ visited \in 0 .. Len(PerQuery(workload))
  /\ pending \in Seq(IndexRec)
  /\ advised \in Seq(IndexRec)
  /\ Faithful(Asked(visited), advised, pending)

EngineInv ==
  /\ stage = "advise" => ranked = {} /\ recommendations = <<>>
  /\ stage # "advise" =>
        pending = <<>> /\ visited = Len(PerQuery(workload)) /\ IInv /\ OrderInv

AdviceInv == AdvisorInv /\ EngineInv

LEMMA AskedSame == ASSUME workload' = workload, NEW n PROVE Asked(n)' = Asked(n)
BY DEF Asked

LEMMA AdviceBegins == ASSUME AdviceInit PROVE AdviceInv
<1>1. workload \in Seq(Entry)
  BY WorkloadsAssumption DEF AdviceInit
<1>2. Len(PerQuery(workload)) \in Nat
  BY <1>1, PerQueryTyped
<1>3. /\ visited = 0 /\ pending = <<>> /\ advised = <<>>
      /\ stage = "advise" /\ ranked = {} /\ recommendations = <<>>
  BY DEF AdviceInit
<1>4. Asked(0) = {}
  BY DEF Asked
<1>5. DOMAIN <<>> = {} /\ ToSet(<<>>) = {}
  BY DEF ToSet
<1>6. Faithful({}, <<>>, <<>>)
  BY <1>5 DEF Faithful
<1>7. Faithful(Asked(visited), advised, pending)
  BY <1>3, <1>4, <1>6
<1>8. AdvisorInv
  BY <1>1, <1>2, <1>3, <1>7 DEF AdvisorInv
<1> QED
  BY <1>3, <1>8 DEF AdviceInv, EngineInv

LEMMA NextQueryKeeps == ASSUME AdviceInv, NextQuery PROVE AdviceInv'
<1> DEFINE perQuery == PerQuery(workload)
<1>1. PICK k : k = visited + 1
  OBVIOUS
<1>2. /\ stage = "advise" /\ pending = <<>> /\ visited < Len(perQuery) /\ visited' = k
      /\ pending' = RecommendForQuery(perQuery[k].query, perQuery[k].findings)
      /\ UNCHANGED <<input, stage, todo, ranked, recommendations, workload, advised>>
  BY <1>1 DEF NextQuery, engineVars
<1>3. /\ workload \in Seq(Entry) /\ visited \in 0 .. Len(perQuery)
      /\ advised \in Seq(IndexRec) /\ Faithful(Asked(visited), advised, <<>>)
  BY <1>2 DEF AdviceInv, AdvisorInv
<1>4. perQuery \in Seq(Entry)
  BY <1>3, PerQueryTyped
<1>5. PerQuery(workload)' = perQuery
  BY <1>2 DEF PerQuery
<1> HIDE DEF perQuery
<1>6. DOMAIN perQuery = 1 .. Len(perQuery) /\ Len(perQuery) \in Nat
  BY <1>4, ListDomain
<1>7. k \in DOMAIN perQuery /\ k \in 0 .. Len(perQuery) /\ perQuery[k] \in Entry
  BY <1>1, <1>2, <1>3, <1>4, <1>6
<1>8. PICK new : new = RecommendForQuery(perQuery[k].query, perQuery[k].findings)
  OBVIOUS
<1>9. perQuery[k].query \in Query /\ perQuery[k].findings \in Seq(Finding)
  BY <1>7 DEF Entry
<1>10. new \in Seq(IndexRec)
  BY <1>8, <1>9, RecommendForQueryIs
<1>11. Asked(k) = Asked(visited) \union ToSet(new)
  <2> DEFINE A(i) == ToSet(RecommendForQuery(perQuery[i].query, perQuery[i].findings))
  <2>1. Asked(k) = UNION {A(i) : i \in 1 .. k} /\ Asked(visited) = UNION {A(i) : i \in 1 .. visited}
    BY DEF Asked, perQuery
  <2>2. ToSet(new) = A(k)
    BY <1>8
  <2> HIDE DEF A
  <2>3. \A i : i \in 1 .. k <=> i \in 1 .. visited \/ i = k
    BY <1>1, <1>3, <1>6
  <2> QED
    BY <2>1, <2>2, <2>3
<1>12. Faithful(Asked(k), advised, new)
  BY <1>3, <1>11, AskedKeeps
<1>13. Faithful(Asked(visited), advised, pending)'
  <2>1. Asked(k)' = Asked(k)
    BY <1>2, AskedSame
  <2>2. Asked(visited)' = Asked(k)' /\ advised' = advised /\ pending' = new
    BY <1>2, <1>8
  <2> QED
    BY <1>12, <2>1, <2>2
<1>14. AdvisorInv'
  BY <1>2, <1>3, <1>5, <1>7, <1>8, <1>10, <1>13 DEF AdvisorInv
<1>15. EngineInv'
  BY <1>2 DEF AdviceInv, EngineInv
<1> QED
  BY <1>14, <1>15 DEF AdviceInv

LEMMA MergeNextKeeps == ASSUME AdviceInv, MergeNext PROVE AdviceInv'
<1>1. /\ pending # <<>> /\ advised' = Merge(advised, Head(pending)) /\ pending' = Tail(pending)
      /\ UNCHANGED <<input, stage, todo, ranked, recommendations, workload, visited>>
  BY DEF MergeNext, engineVars
<1>2. /\ workload \in Seq(Entry) /\ visited \in 0 .. Len(PerQuery(workload))
      /\ advised \in Seq(IndexRec) /\ pending \in Seq(IndexRec)
      /\ Faithful(Asked(visited), advised, pending)
  BY DEF AdviceInv, AdvisorInv
<1>3. PerQuery(workload)' = PerQuery(workload) /\ Asked(visited)' = Asked(visited)
  BY <1>1 DEF PerQuery, Asked
<1>4. /\ advised' \in Seq(IndexRec) /\ pending' \in Seq(IndexRec)
      /\ Faithful(Asked(visited), advised', pending')
  BY <1>1, <1>2, MergeKeeps
<1>5. AdvisorInv'
  BY <1>1, <1>2, <1>3, <1>4 DEF AdvisorInv
<1>6. EngineInv'
  BY <1>1 DEF AdviceInv, EngineInv
<1> QED
  BY <1>5, <1>6 DEF AdviceInv

\* A step that leaves the advisor alone.
LEMMA AdvisorSame == ASSUME AdvisorInv, UNCHANGED advisorVars PROVE AdvisorInv'
<1>1. workload' = workload /\ visited' = visited /\ pending' = pending /\ advised' = advised
  BY DEF advisorVars
<1>2. PerQuery(workload)' = PerQuery(workload) /\ Asked(visited)' = Asked(visited)
  BY <1>1 DEF PerQuery, Asked
<1> QED
  BY <1>1, <1>2 DEF AdvisorInv

LEMMA EngineBegins == Init => IInv /\ OrderInv
BY InitInv, InitOrder

LEMMA EngineBeginsNext == Init' => IInv' /\ OrderInv'
BY EngineBegins, PTL

LEMMA GenerateKeeps == ASSUME AdviceInv, Generate PROVE AdviceInv'
<1>1. PICK drops \in Drops : input' = InputOf(workload, advised, drops)
  BY DEF Generate
<1>2. /\ stage = "advise" /\ pending = <<>> /\ visited = Len(PerQuery(workload))
      /\ stage' = "index" /\ todo' = Heads("index")'
      /\ UNCHANGED <<ranked, recommendations>> /\ UNCHANGED advisorVars
  BY DEF Generate, advisorVars
<1>3. workload \in Seq(Entry) /\ advised \in Seq(IndexRec) /\ drops \in Seq(Drop)
  BY <1>1, DropsAssumption DEF AdviceInv, AdvisorInv
<1>4. input' \in Inputs
  BY <1>1, <1>3, InputGood
<1>5. ranked' = {} /\ recommendations' = <<>>
  BY <1>2 DEF AdviceInv, EngineInv
<1>6. Init'
  BY <1>2, <1>4, <1>5 DEF Init, Begin
<1>7. IInv' /\ OrderInv'
  BY <1>6, EngineBeginsNext
<1>8. AdvisorInv'
  BY <1>2, AdvisorSame DEF AdviceInv
<1>9. pending' = <<>> /\ visited' = Len(PerQuery(workload)')
  BY <1>2 DEF advisorVars, PerQuery
<1>10. EngineInv'
  BY <1>2, <1>7, <1>9 DEF EngineInv
<1> QED
  BY <1>8, <1>10 DEF AdviceInv

LEMMA EngineKeeps == ASSUME AdviceInv, Next, UNCHANGED advisorVars PROVE AdviceInv'
<1>1. stage # "advise" /\ stage' # "advise"
  BY DEF Next, Recommend, NextGroup, FoldSeqScan, Proceed, Rank, Sources
<1>2. pending = <<>> /\ visited = Len(PerQuery(workload)) /\ IInv /\ OrderInv
  BY <1>1 DEF AdviceInv, EngineInv
<1>3. IInv' /\ OrderInv'
  BY <1>2, NextInv, NextOrder
<1>4. AdvisorInv'
  BY AdvisorSame DEF AdviceInv
<1>5. pending' = <<>> /\ visited' = Len(PerQuery(workload)')
  BY <1>2 DEF advisorVars, PerQuery
<1>6. EngineInv'
  BY <1>1, <1>3, <1>5 DEF EngineInv
<1> QED
  BY <1>4, <1>6 DEF AdviceInv

LEMMA StutterKeeps == ASSUME AdviceInv, UNCHANGED vars PROVE AdviceInv'
<1>1. UNCHANGED engineVars /\ UNCHANGED advisorVars
  BY DEF vars
<1>2. AdvisorInv'
  BY <1>1, AdvisorSame DEF AdviceInv
<1>3. /\ UNCHANGED <<stage, ranked, recommendations>>
      /\ pending' = pending /\ visited' = visited /\ PerQuery(workload)' = PerQuery(workload)
  BY <1>1 DEF engineVars, advisorVars, PerQuery
<1>4. IInv /\ OrderInv => IInv' /\ OrderInv'
  BY <1>1, NextInv, NextOrder
<1>5. EngineInv'
  BY <1>3, <1>4 DEF AdviceInv, EngineInv
<1> QED
  BY <1>2, <1>5 DEF AdviceInv

LEMMA AdviceStep == ASSUME AdviceInv, [AdviceNext]_vars PROVE AdviceInv'
<1>1. CASE NextQuery
  BY <1>1, NextQueryKeeps
<1>2. CASE MergeNext
  BY <1>2, MergeNextKeeps
<1>3. CASE Generate
  BY <1>3, GenerateKeeps
<1>4. CASE Next /\ UNCHANGED advisorVars
  BY <1>4, EngineKeeps
<1>5. CASE UNCHANGED vars
  BY <1>5, StutterKeeps
<1> QED
  BY <1>1, <1>2, <1>3, <1>4, <1>5 DEF AdviceNext

LEMMA AdviceInvariance == AdviceSpec => []AdviceInv
<1>1. AdviceInit => AdviceInv
  BY AdviceBegins
<1>2. AdviceInv /\ [AdviceNext]_vars => AdviceInv'
  BY AdviceStep
<1> QED
  BY <1>1, <1>2, PTL DEF AdviceSpec

-----------------------------------------------------------------------------
(* What the advised indexes are good for.                                  *)

\* A key that leads with what is fixed keeps the entries needed together.
LEMMA LeadingSeeks ==
  ASSUME NEW query, NEW table, NEW key \in Seq(Columns),
         Leading(key, Fixed(query, table), Ranged(query, table)),
         NEW d \in EntriesFor(query, table, key), NEW e \in EntriesFor(query, table, key),
         NEW b \in Entries(key), Precedes(d, b), Precedes(b, e)
  PROVE  b \in EntriesFor(query, table, key)
<1> DEFINE fixed == Fixed(query, table)
           ranged == Ranged(query, table)
<1>1. /\ d \in [DOMAIN key -> 0 .. 2] /\ e \in [DOMAIN key -> 0 .. 2]
      /\ b \in [DOMAIN key -> 0 .. 2]
      /\ \A n \in DOMAIN key : /\ key[n] \in fixed => d[n] = 1 /\ e[n] = 1
                               /\ key[n] \in ranged => d[n] >= 1
  BY DEF EntriesFor, Entries
<1>2. DOMAIN key \subseteq Nat
  BY ListDomain
<1>3. \A m, n \in DOMAIN key : m < n /\ key[n] \in fixed \union ranged => key[m] \in fixed
  BY DEF Leading
<1> HIDE DEF fixed, ranged
<1>4. PICK p \in DOMAIN key : d[p] < b[p] /\ \A m \in DOMAIN key : m < p => d[m] = b[m]
  <2>1. DOMAIN d = DOMAIN key
    BY <1>1
  <2> QED
    BY <2>1 DEF Precedes
<1>5. PICK q \in DOMAIN key : b[q] < e[q] /\ \A m \in DOMAIN key : m < q => b[m] = e[m]
  <2>1. DOMAIN b = DOMAIN key
    BY <1>1
  <2> QED
    BY <2>1 DEF Precedes
<1>6. \A n \in DOMAIN key : d[n] \in 0 .. 2 /\ e[n] \in 0 .. 2 /\ b[n] \in 0 .. 2
  BY <1>1
\* The column at which the entry between differs from the first is not fixed: the
\* last has the same value there, and those before it are fixed too.
<1>7. ASSUME key[p] \in fixed
      PROVE  FALSE
  <2>1. p \in Nat /\ q \in Nat
    BY <1>2
  <2>2. d[p] = 1 /\ e[p] = 1 /\ b[p] > 1
    BY <1>1, <1>4, <1>6, <1>7
  <2>3. CASE q < p
    <3>1. d[q] = 1 /\ e[q] = 1 /\ d[q] = b[q]
      BY <1>1, <1>3, <1>4, <1>7, <2>3
    <3> QED
      BY <1>5, <3>1
  <2>4. CASE q = p
    BY <1>5, <1>6, <2>2, <2>4
  <2>5. CASE p < q
    BY <1>5, <1>6, <2>2, <2>5
  <2> QED
    BY <2>1, <2>3, <2>4, <2>5
<1>8. ASSUME NEW n \in DOMAIN key, key[n] \in fixed
      PROVE  b[n] = 1
  <2>1. ~(p < n)
    BY <1>3, <1>7, <1>8
  <2>2. p # n
    BY <1>7, <1>8
  <2>3. d[n] = b[n]
    BY <1>2, <1>4, <2>1, <2>2
  <2> QED
    BY <1>1, <1>8, <2>3
<1>9. ASSUME NEW n \in DOMAIN key, key[n] \in ranged
      PROVE  b[n] >= 1
  <2>1. ~(p < n)
    BY <1>3, <1>7, <1>9
  <2>2. d[n] >= 1
    BY <1>1, <1>9
  <2>3. CASE p = n
    BY <1>4, <1>6, <2>2, <2>3
  <2>4. CASE p # n
    <3>1. d[n] = b[n]
      BY <1>2, <1>4, <2>1, <2>4
    <3> QED
      BY <2>2, <3>1
  <2> QED
    BY <2>3, <2>4
<1> QED
  BY <1>8, <1>9 DEF EntriesFor, fixed, ranged

LEMMA KeySeeks ==
  ASSUME NEW query \in Query, NEW table \in Tables, ReadOnce(query, table), NEW key, key = IndexKey(Usage(query, table)),
         Fixed(query, table) \union Ranged(query, table) # {}
  PROVE  key # <<>> /\ Seeks(query, table, key)
<1>1. /\ key \in Seq(Columns)
      /\ Leading(key, Fixed(query, table), Ranged(query, table))
      /\ key # <<>>
      /\ Fixed(query, table) \subseteq ToSet(key)
      /\ Ranged(query, table) # {} => Ranged(query, table) \intersect ToSet(key) # {}
  BY KeyIs, ReadOnceUsage
<1>2. \A d, e \in EntriesFor(query, table, key) : \A between \in Entries(key) :
         Precedes(d, between) /\ Precedes(between, e)
         => between \in EntriesFor(query, table, key)
  BY <1>1, LeadingSeeks
<1> QED
  BY <1>1, <1>2 DEF Seeks

\* The key of a query without ranges keeps the columns of the ORDER BY in order.
LEMMA KeySorts ==
  ASSUME NEW query \in Query, NEW table \in Tables, ReadOnce(query, table), NEW key,
         key = IndexKey(Usage(query, table)), WantsOrder(query, table)
  PROVE  Sorts(query, table, key)
<1> DEFINE usage == Usage(query, table)
           tier  == EqualityTier(usage)
           order == Collected(query.orderBy, table, query)
           fixed == Fixed(query, table)
<1>1. /\ usage.equality \in Seq(Columns) /\ usage.range \in Seq(Columns)
      /\ usage.join \in Seq(Columns) /\ order \in Seq(Columns)
      /\ usage.orderBy = order
      /\ ToSet(usage.equality) \union ToSet(usage.join) = fixed
      /\ ToSet(usage.range) = {} /\ fixed # {}
  BY UsageIs, ReadOnceUsage DEF WantsOrder
<1>2. key = IndexKey(usage)
  OBVIOUS
<1> HIDE DEF usage, order
<1>3. tier \in Seq(Columns) /\ ToSet(tier) = fixed
  BY <1>1, TierIs
<1>4. usage.range = <<>> /\ tier # <<>>
  BY <1>1, <1>3, EmptyList
<1>5. key = Distinct(tier \o order)
  BY <1>1, <1>2, <1>4 DEF IndexKey
<1> HIDE DEF tier
<1>6. /\ key \in Seq(Columns)
      /\ ToSet(key) = ToSet(tier) \union ToSet(order)
      /\ \A m, n \in DOMAIN key : key[m] = key[n] => m = n
      /\ \A m, n \in DOMAIN key : \A k \in DOMAIN order :
            m < n /\ key[n] = order[k] /\ key[m] \notin ToSet(tier)
            => \E l \in DOMAIN order : l < k /\ order[l] = key[m]
  BY <1>1, <1>3, <1>5, OrderKeyIs
<1> HIDE DEF fixed
<1>7. DOMAIN key \subseteq Nat /\ DOMAIN order \subseteq Nat
  BY <1>1, <1>6, ListDomain
<1> DEFINE Place(k) == CHOOSE n \in DOMAIN key : key[n] = order[k]
           InOrder(d) == [k \in DOMAIN order |-> d[Place(k)]]
<1>8. ASSUME NEW k \in DOMAIN order
      PROVE  Place(k) \in DOMAIN key /\ key[Place(k)] = order[k]
  <2>1. order[k] \in ToSet(order)
    BY DEF ToSet
  <2>2. order[k] \in ToSet(key)
    BY <1>6, <2>1
  <2>3. \E n \in DOMAIN key : key[n] = order[k]
    BY <2>2 DEF ToSet
  <2> QED
    BY <2>3
<1> HIDE DEF Place
<1>9. ASSUME NEW d \in EntriesFor(query, table, key), NEW e \in EntriesFor(query, table, key),
             Precedes(d, e), Precedes(InOrder(e), InOrder(d))
      PROVE  FALSE
  <2>1. /\ d \in [DOMAIN key -> 0 .. 2] /\ e \in [DOMAIN key -> 0 .. 2]
        /\ \A n \in DOMAIN key : key[n] \in fixed => d[n] = 1 /\ e[n] = 1
    BY DEF EntriesFor, Entries, fixed
  <2>2. PICK p \in DOMAIN key : d[p] < e[p] /\ \A m \in DOMAIN key : m < p => d[m] = e[m]
    <3>1. DOMAIN d = DOMAIN key
      BY <2>1
    <3> QED
      BY <1>9, <3>1 DEF Precedes
  <2>3. PICK k \in DOMAIN order :
           /\ e[Place(k)] < d[Place(k)]
           /\ \A l \in DOMAIN order : l < k => e[Place(l)] = d[Place(l)]
    BY <1>9 DEF Precedes
  <2>4. PICK n \in DOMAIN key : n = Place(k) /\ key[n] = order[k]
    BY <1>8
  <2>5. d[p] \in 0 .. 2 /\ e[p] \in 0 .. 2 /\ d[n] \in 0 .. 2 /\ e[n] \in 0 .. 2
    BY <2>1
  <2>6. p < n
    <3>1. n # p
      BY <2>2, <2>3, <2>4, <2>5
    <3>2. ~(n < p)
      BY <2>2, <2>3, <2>4, <2>5
    <3> QED
      BY <1>7, <3>1, <3>2
  <2>7. key[p] \notin ToSet(tier)
    BY <1>3, <2>1, <2>2, <2>5
  <2>8. PICK l \in DOMAIN order : l < k /\ order[l] = key[p]
    BY <1>6, <2>4, <2>6, <2>7
  <2>9. Place(l) = p
    BY <1>6, <1>8, <2>8
  <2>10. e[p] = d[p]
    BY <2>3, <2>8, <2>9
  <2> QED
    BY <2>2, <2>5, <2>10
<1>10. {ref.column : ref \in ToSet(query.orderBy)} \subseteq ToSet(key)
  <2>1. query.orderBy \in Seq([qualifier : Qualifiers, column : Columns, desc : BOOLEAN])
    BY DEF Query
  <2>2. ToSet(order) = Attributed(query.orderBy, table, query)
    <3> DEFINE OrderRef == [qualifier : Qualifiers, column : Columns, desc : BOOLEAN]
    <3>1. \A ref \in OrderRef : ref.column \in Columns
      OBVIOUS
    <3> HIDE DEF OrderRef
    <3> QED
      BY <2>1, <3>1, CollectedIs DEF order, OrderRef
  <2>3. ToSet(order) = ColumnsIn(query.orderBy, table, query)
    BY <2>2, ReadOnceUsage
  <2>4. \A ref \in ToSet(query.orderBy) : RefersTo(ref, table, query)
    BY DEF WantsOrder
  <2>5. {ref.column : ref \in ToSet(query.orderBy)} = ColumnsIn(query.orderBy, table, query)
    BY <2>4 DEF ColumnsIn
  <2> QED
    BY <1>6, <2>3, <2>5
<1> QED
  BY <1>9, <1>10 DEF Sorts, order, Place

LEMMA FlaggedQueries ==
  ASSUME AdviceInv, NEW table, NEW entry \in FlaggedFor(table)
  PROVE  entry.query \in Query /\ entry.findings \in Seq(Finding)
<1>1. PerQuery(workload) \in Seq(Entry)
  BY PerQueryTyped DEF AdviceInv, AdvisorInv
<1>2. entry \in ToSet(PerQuery(workload))
  BY DEF FlaggedFor
<1>3. entry \in Entry
  BY <1>1, <1>2, ListDomain
<1> QED
  BY <1>3 DEF Entry

\* A query flagged for a table it filters is advised the index it asks for.
LEMMA FlaggedIsAdvised ==
  ASSUME AdviceInv, stage = "done", NEW table \in Tables, NEW entry \in FlaggedFor(table),
         IndexKey(Usage(entry.query, table)) # <<>>
  PROVE  \E rec \in ToSet(advised) :
            rec.table = table /\ rec.columns = IndexKey(Usage(entry.query, table))
<1> DEFINE perQuery == PerQuery(workload)
<1>1. /\ workload \in Seq(Entry) /\ advised \in Seq(IndexRec)
      /\ Faithful(Asked(Len(perQuery)), advised, <<>>)
  BY DEF AdviceInv, AdvisorInv, EngineInv
<1>2. perQuery \in Seq(Entry)
  BY <1>1, PerQueryTyped
<1>3. entry \in ToSet(perQuery)
  BY DEF FlaggedFor
<1>4. PICK f \in ToSet(entry.findings) : f.code = "SEQ_SCAN_LARGE_TABLE" /\ f.relation = table
  BY DEF FlaggedFor
<1> HIDE DEF perQuery
<1>5. PICK k \in DOMAIN perQuery : perQuery[k] = entry
  BY <1>3 DEF ToSet
<1>6. k \in 1 .. Len(perQuery)
  BY <1>2, <1>5, ListDomain
<1>7. entry.query \in Query /\ entry.findings \in Seq(Finding)
  BY FlaggedQueries
<1>8. Usable(entry.query, f)
  BY <1>4, TablesAssumption DEF Usable
<1>9. PICK asked : asked = Recommended(entry.query, f)
  OBVIOUS
<1>10. asked.table = table /\ asked.columns = IndexKey(Usage(entry.query, table))
  BY <1>4, <1>9 DEF Recommended
<1>11. asked \in ToSet(RecommendForQuery(entry.query, entry.findings))
  BY <1>7, <1>8, <1>9, RecommendForQueryIs
<1>12. asked \in Asked(Len(perQuery))
  BY <1>5, <1>6, <1>11 DEF Asked, perQuery
<1>13. {Definition(r) : r \in ToSet(advised)} = {Definition(a) : a \in Asked(Len(perQuery))}
  BY <1>1, FaithfulMerge
<1>14. PICK rec \in ToSet(advised) : Definition(rec) = Definition(asked)
  <2>1. Definition(asked) \in {Definition(r) : r \in ToSet(advised)}
    BY <1>12, <1>13
  <2> QED
    BY <2>1
<1>15. rec.table = asked.table /\ rec.columns = asked.columns
  BY <1>14 DEF Definition
<1> QED
  BY <1>10, <1>15

LEMMA AskedIsUnmerged == ASSUME workload \in Seq(Entry) PROVE Asked(Len(PerQuery(workload))) = Unmerged
<1> DEFINE perQuery == PerQuery(workload)
           Of(entry) == ToSet(RecommendForQuery(entry.query, entry.findings))
<1>1. DOMAIN perQuery = 1 .. Len(perQuery)
  BY PerQueryTyped, ListDomain
<1>2. Asked(Len(perQuery)) = UNION {Of(perQuery[k]) : k \in 1 .. Len(perQuery)}
  BY DEF Asked
<1>3. Unmerged = UNION {Of(entry) : entry \in ToSet(perQuery)}
  BY DEF Unmerged
<1>4. \A k \in DOMAIN perQuery : perQuery[k] \in ToSet(perQuery)
  BY DEF ToSet
<1>5. \A entry \in ToSet(perQuery) : \E k \in DOMAIN perQuery : perQuery[k] = entry
  BY DEF ToSet
<1> HIDE DEF perQuery, Of
<1>6. UNION {Of(perQuery[k]) : k \in 1 .. Len(perQuery)} = UNION {Of(entry) : entry \in ToSet(perQuery)}
  BY <1>1, <1>4, <1>5
<1> QED
  BY <1>2, <1>3, <1>6 DEF perQuery

-----------------------------------------------------------------------------
(* The theorems about a run.                                               *)

(* The variables of the advisor and of the engine keep their types,        *)
(* whatever workload and catalog findings there are.                       *)
THEOREM AdviceTypes == AdviceSpec => []AdviceTypeOK
<1>1. AdviceInv => AdviceTypeOK
  <2> SUFFICES ASSUME AdviceInv PROVE AdviceTypeOK
    OBVIOUS
  <2>1. stage # "advise" => IInv /\ OrderInv /\ TypeOK
    BY DEF AdviceInv, EngineInv, IInv
  <2>2. /\ workload \in Seq(Entry) /\ visited \in Nat
        /\ pending \in Seq(IndexRec) /\ advised \in Seq(IndexRec)
    <3>1. Len(PerQuery(workload)) \in Nat
      BY PerQueryTyped DEF AdviceInv, AdvisorInv
    <3> QED
      BY <3>1 DEF AdviceInv, AdvisorInv
  <2>3. CASE stage = "done"
    <3>1. /\ recommendations = Sorted(ranked) /\ ranked \subseteq Recommendation
          /\ IsFiniteSet(ranked)
      BY <2>1, <2>3 DEF OrderInv, TypeOK, IInv
    <3>2. /\ DOMAIN Sorted(ranked) = 1 .. Cardinality(ranked) /\ Cardinality(ranked) \in Nat
          /\ {Sorted(ranked)[n] : n \in DOMAIN Sorted(ranked)} = ranked
      BY <2>1, <2>3, <3>1, RankedOrdered, SortedInOrder
    <3>3. \A n \in 1 .. Cardinality(ranked) : Sorted(ranked)[n] \in Recommendation
      BY <3>1, <3>2
    <3>4. Sorted(ranked) \in [1 .. Cardinality(ranked) -> Recommendation]
      BY <3>3 DEF Sorted
    <3>5. Sorted(ranked) \in Seq(Recommendation)
      <4> DEFINE card == Cardinality(ranked)
                 list == Sorted(ranked)
      <4>1. card \in Nat /\ list \in [1 .. card -> Recommendation]
        BY <3>2, <3>4
      <4> HIDE DEF card, list
      <4>2. list \in Seq(Recommendation)
        BY <4>1
      <4> QED
        BY <4>2 DEF list
    <3> QED
      BY <2>1, <2>2, <2>3, <3>1, <3>5 DEF AdviceTypeOK
  <2>4. CASE stage # "done"
    <3>1. recommendations = <<>>
      BY <2>1, <2>4 DEF AdviceInv, EngineInv, OrderInv
    <3>2. recommendations \in Seq(Recommendation)
      BY <3>1
    <3> QED
      BY <2>1, <2>2, <3>2 DEF AdviceTypeOK
  <2> QED
    BY <2>3, <2>4
<1> QED
  BY <1>1, AdviceInvariance, PTL

(* For any workload, the merge keeps exactly the definitions the queries   *)
(* asked for, each once and with the highest confidence any of them had    *)
(* (index_advisor.py:192-215).                                             *)
THEOREM MergedExactly == AdviceSpec => []MergeIsExact
<1>1. AdviceInv => MergeIsExact
  <2> SUFFICES ASSUME AdviceInv, stage # "advise" PROVE MergeIsExact
    BY DEF MergeIsExact
  <2>1. /\ advised \in Seq(IndexRec)
        /\ Faithful(Asked(Len(PerQuery(workload))), advised, <<>>)
        /\ workload \in Seq(Entry)
    BY DEF AdviceInv, AdvisorInv, EngineInv
  <2>2. Faithful(Unmerged, advised, <<>>)
    BY <2>1, AskedIsUnmerged
  <2> QED
    BY <2>1, <2>2, FaithfulMerge DEF MergeIsExact
<1> QED
  BY <1>1, AdviceInvariance, PTL

(* For any query with a large sequential scan of a table it reads once and *)
(* filters, an index is advised in which what it needs, for one row of the *)
(* other tables, is one contiguous stretch, however the query names its    *)
(* tables (column_usage.py:105-130, index_advisor.py:53-98, 147-190).      *)
THEOREM FlaggedSeek == AdviceSpec => []FlaggedScansSeek
<1>1. AdviceInv => FlaggedScansSeek
  <2> SUFFICES ASSUME AdviceInv, stage = "done", NEW table \in Tables,
                      NEW entry \in FlaggedFor(table), ReadOnce(entry.query, table),
                      Fixed(entry.query, table) \union Ranged(entry.query, table) # {}
               PROVE  \E rec \in ToSet(advised) :
                         rec.table = table /\ Seeks(entry.query, table, rec.columns)
    BY DEF FlaggedScansSeek
  <2>1. entry.query \in Query
    BY FlaggedQueries
  <2>2. /\ IndexKey(Usage(entry.query, table)) # <<>>
        /\ Seeks(entry.query, table, IndexKey(Usage(entry.query, table)))
    BY <2>1, KeySeeks
  <2>3. PICK rec \in ToSet(advised) :
           rec.table = table /\ rec.columns = IndexKey(Usage(entry.query, table))
    BY <2>2, FlaggedIsAdvised
  <2> QED
    BY <2>2, <2>3
<1> QED
  BY <1>1, AdviceInvariance, PTL

(* If equality alone filters the table and the query wants its rows sorted *)
(* by the table's columns, that index yields them in order, for any number *)
(* of columns (index_advisor.py:71-75).                                    *)
THEOREM FlaggedSort == AdviceSpec => []FlaggedScansSort
<1>1. AdviceInv => FlaggedScansSort
  <2> SUFFICES ASSUME AdviceInv, stage = "done", NEW table \in Tables,
                      NEW entry \in FlaggedFor(table), ReadOnce(entry.query, table),
                      WantsOrder(entry.query, table)
               PROVE  \E rec \in ToSet(advised) :
                         /\ rec.table = table
                         /\ Seeks(entry.query, table, rec.columns)
                         /\ Sorts(entry.query, table, rec.columns)
    BY DEF FlaggedScansSort
  <2>1. entry.query \in Query
    BY FlaggedQueries
  <2>2. Fixed(entry.query, table) # {} /\ Ranged(entry.query, table) = {}
    BY DEF WantsOrder
  <2>3. /\ IndexKey(Usage(entry.query, table)) # <<>>
        /\ Seeks(entry.query, table, IndexKey(Usage(entry.query, table)))
        /\ Sorts(entry.query, table, IndexKey(Usage(entry.query, table)))
    BY <2>1, <2>2, KeySeeks, KeySorts
  <2>4. PICK rec \in ToSet(advised) :
           rec.table = table /\ rec.columns = IndexKey(Usage(entry.query, table))
    BY <2>3, FlaggedIsAdvised
  <2> QED
    BY <2>3, <2>4
<1> QED
  BY <1>1, AdviceInvariance, PTL

(* What the engine promises for any findings (Reported, Documented,        *)
(* CheapBelow) it keeps for those of a run: what the advisor, the plan     *)
(* analyzer, the anti-pattern detectors and the hygiene detectors hand it  *)
(* is always an input it can be given.                                     *)
THEOREM AdviceIsRanked ==
  AdviceSpec => [](EveryFindingReported /\ RankedAsDocumented /\ CheapBelowCostly)
<1>1. AdviceInv => EveryFindingReported /\ RankedAsDocumented /\ CheapBelowCostly
  <2> SUFFICES ASSUME AdviceInv
               PROVE  EveryFindingReported /\ RankedAsDocumented /\ CheapBelowCostly
    OBVIOUS
  <2>1. CASE stage = "advise"
    <3>1. stage # "done" /\ recommendations = <<>>
      BY <2>1 DEF AdviceInv, EngineInv
    <3>2. DOMAIN recommendations = {}
      BY <3>1
    <3> QED
      BY <3>1, <3>2 DEF EveryFindingReported, RankedAsDocumented, CheapBelowCostly
  <2>2. CASE stage # "advise"
    <3>1. IInv /\ OrderInv
      BY <2>2 DEF AdviceInv, EngineInv
    <3> QED
      BY <3>1, AllReported, AllRanked, CheapLast
  <2> QED
    BY <2>1, <2>2
<1> QED
  BY <1>1, AdviceInvariance, PTL

=============================================================================
