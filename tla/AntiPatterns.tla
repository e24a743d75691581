---------------------------- MODULE AntiPatterns ----------------------------
(***************************************************************************)
(* The detectors of advisor/anti_patterns: findings on the texts of a      *)
(* workload, without a database.  Of a text counts whether a top-level     *)
(* select has a star, what it matches against a leading wildcard, whether  *)
(* it orders by RANDOM(), its structure without literals, and its first    *)
(* tables.                                                                 *)
(***************************************************************************)
EXTENDS SequencesExt

CONSTANT MinOccurrences      \* n_plus_one_min_occurrences

ASSUME MinOccurrencesAssumption == MinOccurrences \in Nat \ {0, 1}

\* Names are those of tables, and of none; labels those of columns, and of none.
Text(Names, Labels, Structures) ==
  [selectStar : BOOLEAN,
   starTable  : Names,      \* the first table of the selects with a star
   wildcards  : Seq([table : Names, column : Labels]),   \* left sides of LIKE '%...'
   random     : BOOLEAN,
   structure  : Structures,
   firstTable : Names]

Found(code, relation) ==
  [code     |-> code,
   relation |-> relation,
   severity |-> IF code = "SELECT_STAR" THEN "LOW" ELSE "MEDIUM"]

\* The positions of the texts that have the structure of the i-th.
Cluster(texts, i) == {j \in DOMAIN texts : texts[j].structure = texts[i].structure}

SelectStar(texts, i) ==
  IF texts[i].selectStar THEN <<Found("SELECT_STAR", texts[i].starTable)>> ELSE <<>>

\* One finding for each column name; the table is the one of its first LIKE.
LeadingWildcard(texts, i) ==
  LET likes == texts[i].wildcards
      Seen(k) == \E m \in 1 .. k - 1 : likes[m].column = likes[k].column
  IN  FlattenSeq([k \in DOMAIN likes |->
        IF Seen(k) THEN <<>> ELSE <<Found("LEADING_WILDCARD_LIKE", likes[k].table)>>])

OrderByRandom(texts, i) ==
  IF texts[i].random THEN <<Found("ORDER_BY_RANDOM", "none")>> ELSE <<>>

\* One finding for a cluster, at its first text.
NPlusOne(texts, i) ==
  IF /\ \A j \in Cluster(texts, i) : i <= j
     /\ Cardinality(Cluster(texts, i)) >= MinOccurrences
    THEN <<Found("N_PLUS_ONE", texts[i].firstTable)>>
    ELSE <<>>

\* Detector by detector, and for each text by text.
AnalyzeTexts(texts) ==
  FlattenSeq([i \in DOMAIN texts |-> SelectStar(texts, i)])
    \o FlattenSeq([i \in DOMAIN texts |-> LeadingWildcard(texts, i)])
    \o FlattenSeq([i \in DOMAIN texts |-> OrderByRandom(texts, i)])
    \o FlattenSeq([i \in DOMAIN texts |-> NPlusOne(texts, i)])
=============================================================================
