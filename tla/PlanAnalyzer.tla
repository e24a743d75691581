---------------------------- MODULE PlanAnalyzer -----------------------------
(***************************************************************************)
(* One EXPLAIN payload from JSON to findings: parse_explain_json of        *)
(* parser/plan_json_parser.py and PlanAnalyzer.analyze of                  *)
(* analyzer/plan_analyzer.py with its four detectors.                      *)
(*                                                                         *)
(* The nodes of a plan are numbered the way EXPLAIN prints them, each      *)
(* before its children, and `depth` is their indentation; this says what   *)
(* "pre-order" means without a walk.  `children` are the tuples that the   *)
(* program gets from the "Plans" arrays and walks with its own stack.      *)
(*                                                                         *)
(* Optional values are sets of at most one element; {} is None.            *)
(***************************************************************************)
EXTENDS Integers, SequencesExt

CONSTANTS
  Plans,        \* the plans PostgreSQL may answer with
  DepthLimit,   \* how deep _parse_node can recurse
  Contexts      \* the thresholds a run may be given

\* AnalysisContext with its constraints; the ratio is the fraction num / den.
AnalysisContext ==
  {c \in [seqScan : Nat, nestedLoop : Nat, num : Nat, den : Nat, minRows : Nat] :
     c.seqScan >= 1 /\ c.nestedLoop >= 1 /\ c.den >= 1 /\ c.num > c.den}

ASSUME ContextsAssumption == Contexts \subseteq AnalysisContext

ScanTypes == {"Seq Scan", "Index Scan", "Index Only Scan", "Bitmap Heap Scan"}
SortTypes == {"Sort", "Incremental Sort"}
NodeTypes ==
  ScanTypes \union SortTypes \union {"Nested Loop", "Hash Join", "Merge Join", "Other"}

AtMostOne(S) == \A x, y \in S : x = y

\* "missing": a key that _parse_node indexes is not there.  "fractional": the
\* row count per loop is no integer, as PostgreSQL 18 may report it.
Node ==
  [type      : NodeTypes,
   estimated : Nat,
   actual    : SUBSET Nat,
   space     : SUBSET {"Disk", "Memory"},
   method    : SUBSET {"external merge", "quicksort"},
   fields    : {"whole", "missing", "fractional"}]

\* The nodes one level below i before the indentation returns to that of i.
Below(p, i) ==
  {j \in (i + 1) .. Len(p.depth) :
     /\ p.depth[j] = p.depth[i] + 1
     /\ \A k \in (i + 1) .. (j - 1) : p.depth[k] > p.depth[i]}

Increasing(s) == \A x, y \in 1 .. Len(s) : x < y => s[x] < s[y]

IsPlan(p) ==
  LET n == Len(p.depth)
  IN  /\ p.depth \in Seq(Nat) /\ n > 0
      /\ p.depth[1] = 1
      /\ \A i \in 2 .. n : p.depth[i] \in 2 .. (p.depth[i - 1] + 1)
      /\ p.nodes \in [1 .. n -> Node]
      /\ p.children \in [1 .. n -> Seq(1 .. n)]
      /\ \A i \in 1 .. n :
            /\ AtMostOne(p.nodes[i].actual)
            /\ AtMostOne(p.nodes[i].space)
            /\ AtMostOne(p.nodes[i].method)
            /\ p.nodes[i].fields = "fractional" => p.nodes[i].actual # {}
            /\ Increasing(p.children[i])
            /\ {p.children[i][x] : x \in 1 .. Len(p.children[i])} = Below(p, i)

ASSUME PlansAssumption == \A p \in Plans : IsPlan(p)

VARIABLES
  context,   \* the thresholds of this run
  payload,   \* the shape of the answer around the plan
  plan,      \* the plan in it
  stage,     \* what analyze is doing
  stack,     \* the nodes still to be visited, the next one last
  visited,   \* the nodes visited so far, in order (a history variable)
  findings   \* the findings so far

vars == <<context, payload, plan, stage, stack, visited, findings>>

Codes == <<"SEQ_SCAN_LARGE_TABLE", "NESTED_LOOP_LARGE_ROWCOUNT",
           "SORT_SPILLED_TO_DISK", "CARDINALITY_MISESTIMATION">>

Finding == [code : Range(Codes), at : Nat, severity : {"HIGH", "MEDIUM"}]

Size == Len(plan.depth)

PlanTypeOK ==
  /\ context \in AnalysisContext
  /\ payload \in {"emptyList", "noPlanKey", "plan"}
  /\ IsPlan(plan)
  /\ stage \in {"raw", "walking", "done", "ParsingError", "ValidationError"}
  /\ stack \in Seq(1 .. Size)
  /\ visited \in Seq(1 .. Size)
  /\ findings \in Seq(Finding)

Init ==
  /\ context \in Contexts
  /\ payload \in {"emptyList", "noPlanKey", "plan"}
  /\ plan \in Plans
  /\ stage = "raw"
  /\ stack = <<>>
  /\ visited = <<>>
  /\ findings = <<>>

-----------------------------------------------------------------------------
\* parse_explain_json.

\* The nodes _parse_node is called on: it gives up below DepthLimit.
Reached == {i \in 1 .. Size : plan.depth[i] <= DepthLimit + 1}

Faulty ==
  {i \in Reached : plan.depth[i] > DepthLimit \/ plan.nodes[i].fields # "whole"}

\* A node is completed after its children: of two nodes one of which is above
\* the other the deeper one comes first, of any others the left one.
CompletedBefore(i, j) ==
  \/ i < j /\ \E k \in (i + 1) .. j : plan.depth[k] <= plan.depth[i]
  \/ i > j /\ \A k \in (j + 1) .. i : plan.depth[k] > plan.depth[j]

\* Mutant of FirstFault: a node is completed before its children.
FirstFaultDownwards == CHOOSE i \in Faulty : \A j \in Faulty : i <= j

FirstFault == CHOOSE i \in Faulty : \A j \in Faulty \ {i} : CompletedBefore(i, j)

\* A KeyError and a RecursionError are turned into a ParsingError; pydantic's
\* ValidationError is not.
ParseOutcome ==
  IF payload # "plan" THEN "ParsingError"
  ELSE IF Faulty = {} THEN "walking"
  ELSE IF /\ plan.depth[FirstFault] <= DepthLimit
          /\ plan.nodes[FirstFault].fields = "fractional"
       THEN "ValidationError" ELSE "ParsingError"

ParseFails ==
  /\ stage = "raw"
  /\ ParseOutcome # "walking"
  /\ stage' = ParseOutcome
  /\ UNCHANGED <<context, payload, plan, stack, visited, findings>>

Parse ==
  /\ stage = "raw"
  /\ ParseOutcome = "walking"
  /\ stage' = "walking"
  /\ stack' = <<1>>
  /\ UNCHANGED <<context, payload, plan, visited, findings>>

-----------------------------------------------------------------------------
\* The detectors: what each makes of node i, a list of at most one finding.

Value(optional) == CHOOSE x \in optional : TRUE

RowCount(i) ==
  IF plan.nodes[i].actual # {} THEN Value(plan.nodes[i].actual)
  ELSE plan.nodes[i].estimated

Found(code, i, high) ==
  <<[code |-> code, at |-> i, severity |-> IF high THEN "HIGH" ELSE "MEDIUM"]>>

SeqScan(i) ==
  IF plan.nodes[i].type = "Seq Scan" /\ RowCount(i) >= context.seqScan
  THEN Found("SEQ_SCAN_LARGE_TABLE", i, plan.nodes[i].actual # {})
  ELSE <<>>

JoinStrategy(i) ==
  LET sides == plan.children[i]
  IN  IF /\ plan.nodes[i].type = "Nested Loop"
         /\ sides # <<>>
         /\ RowCount(sides[1]) >= context.nestedLoop
      THEN Found("NESTED_LOOP_LARGE_ROWCOUNT", i,
                 Len(sides) > 1 /\ plan.nodes[sides[2]].type = "Seq Scan")
      ELSE <<>>

ExpensiveSort(i) ==
  IF /\ plan.nodes[i].type \in SortTypes
     /\ plan.nodes[i].space = {"Disk"} \/ plan.nodes[i].method = {"external merge"}
  THEN Found("SORT_SPILLED_TO_DISK", i, TRUE)
  ELSE <<>>

Larger(a, b) == IF a > b THEN a ELSE b
Smaller(a, b) == IF a < b THEN a ELSE b

\* Mutant of Cardinality: no rows at all are not treated as one row.
CardinalityOfZero(i) ==
  LET estimated == plan.nodes[i].estimated
      actual == RowCount(i)
      larger == Larger(estimated, actual)
      smaller == Smaller(estimated, actual)
  IN  IF /\ plan.nodes[i].type \in ScanTypes
         /\ plan.nodes[i].actual # {}
         /\ larger >= context.minRows
         /\ larger * context.den >= context.num * smaller
      THEN Found("CARDINALITY_MISESTIMATION", i, actual > estimated)
      ELSE <<>>

Cardinality_(i) ==
  LET estimated == plan.nodes[i].estimated
      actual == RowCount(i)
      larger == Larger(estimated, actual)
      smaller == Smaller(estimated, actual)
  IN  IF /\ plan.nodes[i].type \in ScanTypes
         /\ plan.nodes[i].actual # {}
         /\ larger >= context.minRows
         /\ larger * context.den >= context.num * Larger(smaller, 1)
      THEN Found("CARDINALITY_MISESTIMATION", i, actual > estimated)
      ELSE <<>>

\* All detectors, in the order of their registration.
Detect(i) == SeqScan(i) \o JoinStrategy(i) \o ExpensiveSort(i) \o Cardinality_(i)

-----------------------------------------------------------------------------
\* PlanAnalyzer.analyze.

\* Mutant of Pushed: without reversed(), the last child is visited first.
PushedUnreversed(i) == plan.children[i]

Pushed(i) == Reverse(plan.children[i])

Visit ==
  /\ stage = "walking"
  /\ stack # <<>>
  /\ LET node == Last(stack)
     IN  /\ stack' = Front(stack) \o Pushed(node)
         /\ visited' = Append(visited, node)
         /\ findings' = findings \o Detect(node)
  /\ UNCHANGED <<context, payload, plan, stage>>

Return ==
  /\ stage = "walking"
  /\ stack = <<>>
  /\ stage' = "done"
  /\ UNCHANGED <<context, payload, plan, stack, visited, findings>>

Next == Parse \/ ParseFails \/ Visit \/ Return

Spec == Init /\ [][Next]_vars

-----------------------------------------------------------------------------
(* Of several faults in a payload the one decides with what error parsing  *)
(* ends that the recursion over the plan meets first, children before      *)
(* their parent and left to right: a ParsingError, which the audit         *)
(* catches, or pydantic's, which nobody does (plan_json_parser.py:16-42    *)
(* and 77-83).  Here the recursion is followed node by node.               *)
FirstFaultDecides ==
  LET Raised[i \in 1 .. Size] ==
        LET below == SelectSeq(plan.children[i], LAMBDA j : Raised[j] # "none")
        IN  CASE plan.depth[i] > DepthLimit -> "ParsingError"
              [] plan.depth[i] <= DepthLimit /\ below # <<>> -> Raised[below[1]]
              [] OTHER -> [whole      |-> "none",
                           missing    |-> "ParsingError",
                           fractional |-> "ValidationError"][plan.nodes[i].fields]
  IN  stage # "raw" =>
         \/ payload # "plan" /\ stage = "ParsingError"
         \/ payload = "plan" /\ Raised[1] = "none" /\ stage \in {"walking", "done"}
         \/ payload = "plan" /\ Raised[1] # "none" /\ stage = Raised[1]

(* The walk meets the nodes in the order EXPLAIN prints them, each once,   *)
(* and when the stack is empty it has met them all (plan_analyzer.py:86-   *)
(* 96).                                                                    *)
NodesInOrder ==
  /\ \A x \in 1 .. Len(visited) : visited[x] = x
  /\ stage = "done" => Len(visited) = Size

\* Findings come by node, and for one node in the order of the detectors.
Rank(code) == CHOOSE r \in 1 .. 4 : Codes[r] = code

FoundAt(i, code) == {f \in Range(findings) : f.at = i /\ f.code = code}

(* The list is in a fixed order without repetitions, so that two runs can  *)
(* be compared (plan_analyzer.py:16-19).                                   *)
FindingsInOrder ==
  \A x, y \in 1 .. Len(findings) :
     x < y => \/ findings[x].at < findings[y].at
              \/ /\ findings[x].at = findings[y].at
                 /\ Rank(findings[x].code) < Rank(findings[y].code)

\* The estimate and the measured count explain each other: each is below the
\* ratio times the other, where no row counts as one.
WithinRatio(a, b) == a * context.den < context.num * Larger(b, 1)

(* A misestimate is reported of exactly those measured scans whose counts, *)
(* in whichever direction, are a factor apart, unless both are small; with *)
(* none on one side, or both, nothing is divided by zero and nothing is    *)
(* reported for it alone (cardinality.py:46-102).                          *)
MisestimatesExact ==
  stage = "done" =>
     \A i \in 1 .. Size :
        LET node == plan.nodes[i]
            rows == RowCount(i)
            apart == ~(WithinRatio(node.estimated, rows) /\ WithinRatio(rows, node.estimated))
            counts == node.estimated >= context.minRows \/ rows >= context.minRows
            high == {f \in FoundAt(i, "CARDINALITY_MISESTIMATION") : f.severity = "HIGH"}
        IN  /\ FoundAt(i, "CARDINALITY_MISESTIMATION") # {} <=>
                 node.type \in ScanTypes /\ node.actual # {} /\ apart /\ counts
            /\ high # {} => rows > node.estimated /\ rows > 1
=============================================================================
