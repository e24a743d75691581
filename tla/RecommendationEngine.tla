------------------------ MODULE RecommendationEngine ------------------------
(***************************************************************************)
(* RecommendationEngine.generate: the findings of the four sources become  *)
(* one ranked list of recommendations.  Index recommendations come first;  *)
(* findings with one code and relation make one recommendation; a large    *)
(* sequential scan is folded into the index recommended for its table.     *)
(***************************************************************************)
EXTENDS Integers, Sequences, FiniteSets

CONSTANT Relations      \* what a finding may be about

Sources == {"index", "plan", "antiPattern", "hygiene"}

Levels == {"HIGH", "MEDIUM", "LOW"}

\* The codes of the detectors; an index recommendation goes without one.
FindingCodes ==
  {"SEQ_SCAN_LARGE_TABLE", "NESTED_LOOP_LARGE_ROWCOUNT", "SORT_SPILLED_TO_DISK",
   "CARDINALITY_MISESTIMATION", "SELECT_STAR", "LEADING_WILDCARD_LIKE",
   "ORDER_BY_RANDOM", "N_PLUS_ONE", "DUPLICATE_INDEX", "UNUSED_INDEX", "INDEX"}

Items ==
  [code : FindingCodes, relation : Relations, severity : Levels, confidence : Levels]

\* What generate may be called with: one sequence of findings per source, in the
\* form the engine sees (an index recommendation is about its table, and of the
\* highest severity).  A code is always of low severity or never: SELECT_STAR is,
\* and no other.
Inputs ==
  {given \in [Sources -> Seq(Items)] :
     \A source \in Sources : \A i, j \in DOMAIN given[source] :
        given[source][i].code = given[source][j].code =>
          (given[source][i].severity = "LOW" <=> given[source][j].severity = "LOW")}

VARIABLES
  input,            \* the arguments
  stage,            \* the source generate is at, or what it does after them
  todo,             \* the positions at which that source still has a group
  ranked,           \* the recommendations so far
  recommendations   \* what generate returns

engineVars == <<input, stage, todo, ranked, recommendations>>

-----------------------------------------------------------------------------
\* Mutant of Tier: counted from zero, as the advisor ranks its confidences.
TierFromZero(level) ==
  CASE level = "HIGH" -> 2 [] level = "MEDIUM" -> 1 [] level = "LOW" -> 0

Tier(level) == CASE level = "HIGH" -> 3 [] level = "MEDIUM" -> 2 [] level = "LOW" -> 1

\* Plan and anti-pattern findings are grouped by code and relation, the others
\* are unique already.
SameGroup(source, i, j) ==
  \/ i = j
  \/ /\ source \in {"plan", "antiPattern"}
     /\ input[source][i].code = input[source][j].code
     /\ input[source][i].relation = input[source][j].relation

Group(source, i) == {j \in DOMAIN input[source] : SameGroup(source, i, j)}

\* The dict of groups has them in the order of their first members.
Heads(source) ==
  {i \in DOMAIN input[source] : \A j \in Group(source, i) : i <= j}

IndexedTables == {input["index"][i].relation : i \in DOMAIN input["index"]}

\* Mutant of Folded: any finding on an indexed table is folded.
FoldedWhateverCode(source, i) ==
  source = "plan" /\ input[source][i].relation \in IndexedTables

Folded(source, i) ==
  /\ source = "plan"
  /\ input[source][i].code = "SEQ_SCAN_LARGE_TABLE"
  /\ input[source][i].relation \in IndexedTables

\* Mutant of Representative: confidence decides the impact.
RepresentativeByConfidence(source, i) ==
  LET item == input[source][i]
  IN  [source |-> source, head |-> i, group |-> Group(source, i),
       impact |-> Tier(item.confidence), occurrences |-> Cardinality(Group(source, i)),
       confidence |-> Tier(item.confidence), order |-> Cardinality(ranked)]

\* The _Ranked of the group whose first member is at i, which represents it.
Representative(source, i) ==
  LET item == input[source][i]
  IN  [source      |-> source,
       head        |-> i,
       group       |-> Group(source, i),
       impact      |-> Tier(item.severity),
       occurrences |-> Cardinality(Group(source, i)),
       confidence  |-> Tier(item.confidence),
       order       |-> Cardinality(ranked)]

\* Mutant of Before: ascending order of the occurrences.
BeforeRarest(r, s) ==
  \/ r.impact > s.impact
  \/ r.impact = s.impact /\ r.occurrences < s.occurrences
  \/ r.impact = s.impact /\ r.occurrences = s.occurrences /\ r.order < s.order

Before(r, s) ==
  \/ r.impact > s.impact
  \/ r.impact = s.impact /\ r.occurrences > s.occurrences
  \/ /\ r.impact = s.impact /\ r.occurrences = s.occurrences
     /\ r.confidence > s.confidence
  \/ /\ r.impact = s.impact /\ r.occurrences = s.occurrences
     /\ r.confidence = s.confidence /\ r.order < s.order

\* The members of a set, which Before orders totally, from first to last.
Sorted(S) ==
  [n \in 1 .. Cardinality(S) |->
     CHOOSE r \in S : Cardinality({s \in S : Before(s, r)}) = n - 1]

-----------------------------------------------------------------------------
Begin ==
  /\ stage = "index"
  /\ todo = Heads("index")
  /\ ranked = {}
  /\ recommendations = <<>>

Init == input \in Inputs /\ Begin

\* The next group of the source, in the order of the dict.
NextGroup(source, i) ==
  /\ stage = source
  /\ i \in todo
  /\ \A j \in todo : i <= j
  /\ todo' = todo \ {i}

Recommend(source) ==
  /\ \E i \in todo :
        /\ NextGroup(source, i)
        /\ ~Folded(source, i)
        /\ ranked' = ranked \union {Representative(source, i)}
  /\ UNCHANGED <<input, stage, recommendations>>

FoldSeqScan ==
  /\ \E i \in todo : NextGroup("plan", i) /\ Folded("plan", i)
  /\ UNCHANGED <<input, stage, ranked, recommendations>>

Proceed(from, to) ==
  /\ stage = from
  /\ todo = {}
  /\ stage' = to
  /\ todo' = Heads(to)
  /\ UNCHANGED <<input, ranked, recommendations>>

Rank ==
  /\ stage = "hygiene"
  /\ todo = {}
  /\ recommendations' = Sorted(ranked)
  /\ stage' = "done"
  /\ UNCHANGED <<input, todo, ranked>>

Next ==
  \/ \E source \in Sources : Recommend(source)
  \/ FoldSeqScan
  \/ Proceed("index", "plan")
  \/ Proceed("plan", "antiPattern")
  \/ Proceed("antiPattern", "hygiene")
  \/ Rank

Spec == Init /\ [][Next]_engineVars

-----------------------------------------------------------------------------
Recommendation ==
  [source : Sources, head : Nat, group : SUBSET Nat, impact : 1 .. 3,
   occurrences : Nat, confidence : 1 .. 3, order : Nat]

TypeOK ==
  /\ input \in [Sources -> Seq(Items)]
  /\ stage \in Sources \union {"done"}
  /\ todo \subseteq Nat
  /\ ranked \subseteq Recommendation

StandsFor(r, source, i) == r.source = source /\ i \in r.group

(* When the list is made, every finding of every source is reported by     *)
(* exactly one recommendation, but a large sequential scan by none of its  *)
(* own if there is an index recommended for its table, and then that one   *)
(* is on the list (recommendation_engine.py:9-18, 137-142).                *)
EveryFindingReported ==
  stage = "done" =>
    \A source \in Sources : \A i \in DOMAIN input[source] :
       \/ \E r \in ranked :
            /\ StandsFor(r, source, i)
            /\ \A s \in ranked : StandsFor(s, source, i) => s = r
       \/ /\ input[source][i].code = "SEQ_SCAN_LARGE_TABLE"
          /\ \A r \in ranked : ~StandsFor(r, source, i)
          /\ \E r \in ranked :
                /\ r.source = "index"
                /\ input["index"][r.head].relation = input[source][i].relation

(* The list has each recommendation once, by decreasing impact; at equal   *)
(* impact the more frequent first, then the more certain, then index       *)
(* recommendations before plan findings, anti-patterns and drops, and      *)
(* within a source as first seen (recommendation_engine.py:20-26).         *)
RankedAsDocumented ==
  stage = "done" =>
    LET list == recommendations
        place == [index |-> 1, plan |-> 2, antiPattern |-> 3, hygiene |-> 4]
        Key(r) == <<-r.impact, -r.occurrences, -r.confidence,
                    place[r.source], r.head>>
        Lower(k, l) == \E n \in 1 .. 5 :
                          k[n] < l[n] /\ \A m \in 1 .. n - 1 : k[m] = l[m]
    IN  /\ {list[n] : n \in DOMAIN list} = ranked
        /\ \A m, n \in DOMAIN list : m < n => Lower(Key(list[m]), Key(list[n]))

(* A finding of low impact is certain but cheap: however often it occurs,  *)
(* it comes after whatever stands for a finding of medium or high impact   *)
(* (recommendation_engine.py:24-26, docs/architecture.md:89).              *)
CheapBelowCostly ==
  \A m, n \in DOMAIN recommendations :
    /\ m < n
    /\ \A i \in recommendations[m].group :
          input[recommendations[m].source][i].severity = "LOW"
    => \A i \in recommendations[n].group :
          input[recommendations[n].source][i].severity = "LOW"
=============================================================================
