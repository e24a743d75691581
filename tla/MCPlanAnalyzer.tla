--------------------------- MODULE MCPlanAnalyzer ----------------------------
(* Small plans for PlanAnalyzer: every node on its own with counts up to      *)
(* MaxRows, every tree of at most four nodes over five kinds of nodes, every  *)
(* tree of at most three over nodes that may be faulty, and one nested loop   *)
(* on the inner side of another, and a fault to the left and to the right of  *)
(* a branch that is too deep.  The floor on the counts of a misestimate is    *)
(* above the ratio in one context, as by default, and below it in another.    *)
EXTENDS PlanAnalyzer, FiniteSets

CONSTANT MaxRows

Measured(type, estimated, actual) ==
  [type |-> type, estimated |-> estimated, actual |-> {actual},
   space |-> {}, method |-> {}, fields |-> "whole"]

Planned(type, estimated) == [Measured(type, estimated, 0) EXCEPT !.actual = {}]

Large   == Measured("Seq Scan", MaxRows, MaxRows)
Few     == Measured("Index Scan", 2, 2)
Stale   == Measured("Index Only Scan", 1, MaxRows)
Loop    == Measured("Nested Loop", 1, 1)
Spilled == [Measured("Sort", 1, 1) EXCEPT !.space = {"Disk"}]
Missing    == [Few EXCEPT !.fields = "missing"]
Fractional == [Few EXCEPT !.fields = "fractional"]

Optional(S) == {{}} \union {{x} : x \in S}

\* The indentations of the trees of n nodes.
Shapes(n) ==
  {d \in [1 .. n -> 1 .. n] :
     d[1] = 1 /\ \A i \in 2 .. n : d[i] \in 2 .. (d[i - 1] + 1)}

PlanOf(depth, nodes) ==
  LET bare == [depth |-> depth, nodes |-> nodes]
  IN  [depth |-> depth, nodes |-> nodes,
       children |-> [i \in DOMAIN depth |-> SetToSortSeq(Below(bare, i), <)]]

PlansOver(sizes, kinds) ==
  UNION {{PlanOf(d, nodes) : d \in Shapes(n), nodes \in [1 .. n -> kinds]} : n \in sizes}

Singles ==
  {n \in [type : NodeTypes, estimated : 0 .. MaxRows, actual : Optional(0 .. MaxRows),
          space : Optional({"Disk", "Memory"}),
          method : Optional({"external merge", "quicksort"}), fields : {"whole"}] :
     n.type \notin SortTypes => n.space = {} /\ n.method = {}}

MCPlans ==
  PlansOver({1}, Singles)
    \union PlansOver({2, 3, 4}, {Large, Few, Stale, Loop, Spilled})
    \union PlansOver({1, 2, 3}, {Large, Planned("Bitmap Heap Scan", 1), Missing, Fractional})
    \union {PlanOf(<<1, 2, 2, 3, 3>>, <<Loop, Few, Loop, Few, Few>>),
            PlanOf(<<1, 2, 2, 3, 4>>, <<Few, Fractional, Few, Few, Few>>),
            PlanOf(<<1, 2, 3, 4, 2>>, <<Few, Few, Few, Few, Fractional>>)}

MCContexts ==
  {[seqScan |-> 3, nestedLoop |-> 3, num |-> 3, den |-> 2, minRows |-> 3],
   [seqScan |-> 1, nestedLoop |-> 1, num |-> 7, den |-> 2, minRows |-> 0]}
=============================================================================
