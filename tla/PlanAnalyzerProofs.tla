------------------------- MODULE PlanAnalyzerProofs --------------------------
(***************************************************************************)
(* Theorems about PlanAnalyzer, for plans of every size and depth and for  *)
(* all thresholds.  The walk keeps a stack and nothing else; its invariant *)
(* says in terms of the indentation of the printed plan which nodes are on *)
(* the stack: those that are not visited while their parent is.            *)
(***************************************************************************)
EXTENDS PlanAnalyzer, TLAPS

-----------------------------------------------------------------------------
(* Sequences.                                                              *)

LEMMA Prefix ==
  ASSUME NEW S, NEW s \in Seq(S), NEW n \in Nat, n <= Len(s)
  PROVE  /\ SubSeq(s, 1, n) \in Seq(S)
         /\ Len(SubSeq(s, 1, n)) = n
         /\ \A x \in 1 .. n : SubSeq(s, 1, n)[x] = s[x]
OBVIOUS

LEMMA LastFront ==
  ASSUME NEW S, NEW s \in Seq(S), s # <<>>
  PROVE  /\ Len(s) \in Nat /\ Len(s) >= 1
         /\ Last(s) = s[Len(s)] /\ Last(s) \in S
         /\ Front(s) \in Seq(S) /\ Len(Front(s)) = Len(s) - 1
         /\ \A x \in 1 .. (Len(s) - 1) : Front(s)[x] = s[x]
<1>1. /\ Len(s) \in Nat /\ Len(s) >= 1
      /\ s[Len(s)] \in S
  OBVIOUS
<1>2. /\ SubSeq(s, 1, Len(s) - 1) \in Seq(S)
      /\ Len(SubSeq(s, 1, Len(s) - 1)) = Len(s) - 1
      /\ \A x \in 1 .. (Len(s) - 1) : SubSeq(s, 1, Len(s) - 1)[x] = s[x]
  <2>1. Len(s) - 1 \in Nat /\ Len(s) - 1 <= Len(s)
    BY <1>1
  <2> QED
    BY <2>1, Prefix
<1>3. Last(s) = s[Len(s)]
  BY DEF Last
<1>4. Front(s) = SubSeq(s, 1, Len(s) - 1)
  BY DEF Front
<1> QED
  BY <1>1, <1>2, <1>3, <1>4

LEMMA Reversed ==
  ASSUME NEW S, NEW s \in Seq(S)
  PROVE  /\ Reverse(s) \in Seq(S) /\ Len(Reverse(s)) = Len(s)
         /\ \A x \in 1 .. Len(s) : Reverse(s)[x] = s[Len(s) - x + 1]
BY DEF Reverse

LEMMA Joined ==
  ASSUME NEW S, NEW s \in Seq(S), NEW t \in Seq(S)
  PROVE  /\ s \o t \in Seq(S) /\ Len(s \o t) = Len(s) + Len(t)
         /\ \A x \in 1 .. Len(s) : (s \o t)[x] = s[x]
         /\ \A x \in 1 .. Len(t) : (s \o t)[Len(s) + x] = t[x]
         /\ \A x \in 1 .. Len(s \o t) :
              \/ x \in 1 .. Len(s)
              \/ x - Len(s) \in 1 .. Len(t) /\ (s \o t)[x] = t[x - Len(s)]
OBVIOUS

Items(s) == {s[x] : x \in 1 .. Len(s)}

LEMMA ItemsJoined ==
  ASSUME NEW S, NEW s \in Seq(S), NEW t \in Seq(S)
  PROVE  Items(s \o t) = Items(s) \union Items(t)
<1> DEFINE l == Len(s)
           m == Len(t)
           u == s \o t
<1>1. /\ l \in Nat /\ m \in Nat /\ l = Len(s) /\ m = Len(t)
      /\ u = s \o t /\ Len(u) = l + m
      /\ \A x \in 1 .. l : u[x] = s[x]
      /\ \A x \in 1 .. m : u[l + x] = t[x]
  BY Joined
<1> HIDE DEF l, m, u
<1>3. \A x \in 1 .. (l + m) : x \in 1 .. l \/ (x - l \in 1 .. m /\ l + (x - l) = x)
  BY <1>1
<1>5. \A x \in 1 .. (l + m) : x \notin 1 .. l => u[x] = t[x - l]
  BY <1>1, <1>3
<1>7. {u[x] : x \in 1 .. (l + m)} = {s[x] : x \in 1 .. l} \union {t[x] : x \in 1 .. m}
  <2>1. \A x \in 1 .. l : x \in 1 .. (l + m)
    BY <1>1
  <2>2. \A x \in 1 .. m : l + x \in 1 .. (l + m)
    BY <1>1
  <2>3. \A x \in 1 .. (l + m) : (\E y \in 1 .. l : u[x] = s[y]) \/ (\E y \in 1 .. m : u[x] = t[y])
    BY <1>1, <1>3, <1>5
  <2>4. /\ \A x \in 1 .. l : \E y \in 1 .. (l + m) : s[x] = u[y]
        /\ \A x \in 1 .. m : \E y \in 1 .. (l + m) : t[x] = u[y]
    BY <1>1, <2>1, <2>2
  <2>5. \A e : (\E x \in 1 .. (l + m) : e = u[x])
               <=> (\E x \in 1 .. l : e = s[x]) \/ (\E x \in 1 .. m : e = t[x])
    <3> TAKE e
    <3>1. ASSUME NEW x \in 1 .. (l + m), e = u[x]
          PROVE  (\E y \in 1 .. l : e = s[y]) \/ (\E y \in 1 .. m : e = t[y])
      BY <2>3, <3>1, Zenon
    <3>2. ASSUME NEW x \in 1 .. l, e = s[x] PROVE \E y \in 1 .. (l + m) : e = u[y]
      BY <2>4, <3>2, Zenon
    <3>3. ASSUME NEW x \in 1 .. m, e = t[x] PROVE \E y \in 1 .. (l + m) : e = u[y]
      BY <2>4, <3>3, Zenon
    <3> QED
      BY <3>1, <3>2, <3>3, Zenon
  <2> QED
    BY <2>5
<1> QED
  BY <1>1, <1>7 DEF Items

LEMMA OneItem == \A e : Items(<<e>>) = {e} /\ Items(<<>>) = {}
BY DEF Items

-----------------------------------------------------------------------------
(* Plans.                                                                  *)

PlanFacts ==
  /\ Size \in Nat /\ Size >= 1
  /\ \A i \in 1 .. Size : plan.depth[i] \in Nat
  /\ plan.depth[1] = 1
  /\ \A i \in 2 .. Size : plan.depth[i] >= 2 /\ plan.depth[i] <= plan.depth[i - 1] + 1
  /\ \A i \in 1 .. Size :
       /\ plan.children[i] \in Seq(1 .. Size)
       /\ Increasing(plan.children[i])
       /\ {plan.children[i][x] : x \in 1 .. Len(plan.children[i])} = Below(plan, i)
       /\ plan.nodes[i] \in Node

LEMMA FactsOfPlan == IsPlan(plan) => PlanFacts
<1> SUFFICES ASSUME IsPlan(plan) PROVE PlanFacts
  OBVIOUS
<1>1. Size \in Nat /\ Size >= 1 /\ \A i \in 1 .. Size : plan.depth[i] \in Nat
  BY DEF IsPlan, Size
<1>2. \A i \in 2 .. Size : plan.depth[i] \in 2 .. (plan.depth[i - 1] + 1)
  BY DEF IsPlan, Size
<1>3. \A i \in 2 .. Size : plan.depth[i] >= 2 /\ plan.depth[i] <= plan.depth[i - 1] + 1
  <2> SUFFICES ASSUME NEW i \in 2 .. Size
               PROVE  plan.depth[i] >= 2 /\ plan.depth[i] <= plan.depth[i - 1] + 1
    OBVIOUS
  <2>1. i - 1 \in 1 .. Size
    BY <1>1
  <2> QED
    BY <1>1, <1>2, <2>1
<1> QED
  BY <1>1, <1>3 DEF IsPlan, PlanFacts, Size

-----------------------------------------------------------------------------
(* The walk.                                                               *)

\* The nodes on the stack when k nodes are visited.
Pending(k) ==
  {j \in (k + 1) .. Size : \A i \in (k + 1) .. (j - 1) : plan.depth[i] >= plan.depth[j]}

Decreasing(s) == \A x, y \in 1 .. Len(s) : x < y => s[x] > s[y]

WalkInv ==
  /\ \A x \in 1 .. Len(visited) : visited[x] = x
  /\ stage = "raw" => visited = <<>> /\ stack = <<>> /\ findings = <<>>
  /\ stage = "walking" =>
       /\ Len(visited) <= Size
       /\ Decreasing(stack)
       /\ Items(stack) = Pending(Len(visited))
  /\ stage = "done" => Len(visited) = Size

\* The root is all that is pending at first.
LEMMA PendingRoot == PlanFacts => Pending(0) = {1}
<1> SUFFICES ASSUME PlanFacts PROVE Pending(0) = {1}
  OBVIOUS
<1>1. 1 \in Pending(0)
  BY DEF PlanFacts, Pending
<1>2. ASSUME NEW j \in Pending(0), j # 1 PROVE FALSE
  <2>1. j \in 2 .. Size /\ 1 \in 1 .. (j - 1)
    BY <1>2 DEF Pending, PlanFacts
  <2>2. plan.depth[1] >= plan.depth[j]
    BY <2>1 DEF Pending
  <2> QED
    BY <2>1, <2>2 DEF PlanFacts
<1> QED
  BY <1>1, <1>2

\* The next node in the printed order is pending, before all others.
LEMMA PendingNext ==
  ASSUME PlanFacts, NEW k \in Nat, k <= Size
  PROVE  /\ k < Size => k + 1 \in Pending(k)
         /\ \A j \in Pending(k) : j \in 1 .. Size /\ j >= k + 1
         /\ k = Size => Pending(k) = {}
BY DEF PlanFacts, Pending

\* Visiting it makes the nodes right below it pending, and they come first.
LEMMA PendingStep ==
  ASSUME PlanFacts, NEW k \in Nat, k < Size
  PROVE  /\ Pending(k + 1) = (Pending(k) \ {k + 1}) \union Below(plan, k + 1)
         /\ \A b \in Below(plan, k + 1), j \in Pending(k) \ {k + 1} : b < j
<1> DEFINE d == plan.depth
           n == k + 1
<1>1. /\ n \in 1 .. Size /\ \A i \in 1 .. Size : d[i] \in Nat
      /\ \A i \in 2 .. Size : d[i] <= d[i - 1] + 1
      /\ Size \in Nat
  BY DEF PlanFacts
<1>2. Below(plan, n) = {j \in (n + 1) .. Size :
                          d[j] = d[n] + 1 /\ \A i \in (n + 1) .. (j - 1) : d[i] > d[n]}
  BY DEF Below, Size
<1>3. Pending(k) \ {n} = {j \in (n + 1) .. Size :
                            d[n] >= d[j] /\ \A i \in (n + 1) .. (j - 1) : d[i] >= d[j]}
  <2>1. ASSUME NEW j \in (n + 1) .. Size
        PROVE  (\A i \in n .. (j - 1) : d[i] >= d[j]) <=>
               (d[n] >= d[j] /\ \A i \in (n + 1) .. (j - 1) : d[i] >= d[j])
    BY <1>1
  <2> QED
    BY <1>1, <2>1 DEF Pending
<1>4. Pending(n) = {j \in (n + 1) .. Size : \A i \in (n + 1) .. (j - 1) : d[i] >= d[j]}
  BY DEF Pending
<1>5. ASSUME NEW j \in Pending(n), ~(d[n] >= d[j]) PROVE j \in Below(plan, n)
  <2>1. j \in (n + 1) .. Size /\ d[j] > d[n] /\ d[j] \in Nat /\ d[n] \in Nat
        /\ \A i \in (n + 1) .. (j - 1) : d[i] >= d[j] /\ d[i] \in Nat
    BY <1>1, <1>4, <1>5
  <2>2. d[n + 1] <= d[n] + 1 /\ n + 1 \in 1 .. Size
    BY <1>1, <2>1
  <2>3. d[j] <= d[n + 1]
    BY <1>1, <2>1, <2>2
  <2>4. d[j] = d[n] + 1
    BY <1>1, <2>1, <2>2, <2>3
  <2> QED
    BY <1>2, <2>1, <2>4
<1>6. ASSUME NEW j \in Below(plan, n) PROVE j \in Pending(n)
  <2>1. j \in (n + 1) .. Size /\ d[j] = d[n] + 1
        /\ \A i \in (n + 1) .. (j - 1) : d[i] > d[n] /\ d[i] \in Nat
    BY <1>1, <1>2, <1>6
  <2> QED
    BY <1>1, <1>4, <2>1
<1>7. Pending(n) = (Pending(k) \ {n}) \union Below(plan, n)
  <2>1. Pending(n) \subseteq (Pending(k) \ {n}) \union Below(plan, n)
    BY <1>3, <1>4, <1>5
  <2>2. Pending(k) \ {n} \subseteq Pending(n)
    BY <1>3, <1>4
  <2> QED
    BY <1>6, <2>1, <2>2
<1>8. ASSUME NEW b \in Below(plan, n), NEW j \in Pending(k) \ {n} PROVE b < j
  <2>1. b \in (n + 1) .. Size /\ d[b] = d[n] + 1
        /\ \A i \in (n + 1) .. (b - 1) : d[i] > d[n]
    BY <1>2, <1>8
  <2>2. j \in (n + 1) .. Size /\ d[n] >= d[j]
    BY <1>3, <1>8
  <2>3. j # b
    BY <1>1, <2>1, <2>2
  <2>4. ~(j \in (n + 1) .. (b - 1))
    BY <1>1, <2>1, <2>2
  <2> QED
    BY <1>1, <2>1, <2>2, <2>3, <2>4
<1> QED
  BY <1>7, <1>8

\* The last of a decreasing sequence is its least item.
LEMMA TopRemoved ==
  ASSUME NEW N \in Nat, NEW s \in Seq(1 .. N), s # <<>>, Decreasing(s)
  PROVE  /\ Front(s) \in Seq(1 .. N) /\ Decreasing(Front(s))
         /\ Items(Front(s)) = Items(s) \ {Last(s)}
         /\ Last(s) \in Items(s) /\ \A a \in Items(s) : a >= Last(s)
<1> DEFINE n == Len(s)
           f == Front(s)
<1>1. /\ n \in Nat /\ n = Len(s) /\ n >= 1 /\ Last(s) = s[n]
      /\ f \in Seq(1 .. N) /\ f = Front(s) /\ Len(f) = n - 1
      /\ \A x \in 1 .. (n - 1) : f[x] = s[x]
  BY LastFront
<1> HIDE DEF n, f
<1>2. \A x \in 1 .. n : s[x] \in 1 .. N
  BY <1>1
<1>3. \A x \in 1 .. (n - 1) : x \in 1 .. n /\ x < n
  BY <1>1
<1>4. \A x, y \in 1 .. n : x < y => s[x] > s[y]
  BY <1>1 DEF Decreasing
<1>5. \A x \in 1 .. n : x \in 1 .. (n - 1) \/ x = n
  BY <1>1
<1>6. n \in 1 .. n /\ 1 .. Len(f) = 1 .. (n - 1)
  BY <1>1
<1>7. Decreasing(f)
  BY <1>1, <1>3, <1>4, <1>6 DEF Decreasing
<1>8. \A x \in 1 .. (n - 1) : s[x] > s[n]
  BY <1>3, <1>4, <1>6
<1>9. Items(s) = {s[x] : x \in 1 .. n} /\ Items(f) = {f[x] : x \in 1 .. (n - 1)}
  BY <1>1, <1>6 DEF Items
<1>10. \A x \in 1 .. (n - 1) : s[x] # s[n]
  BY <1>2, <1>3, <1>6, <1>8
<1>11. Items(f) = Items(s) \ {s[n]}
  <2>1. \A x \in 1 .. (n - 1) : f[x] \in Items(s) /\ f[x] # s[n]
    BY <1>1, <1>3, <1>9, <1>10
  <2>2. \A x \in 1 .. n : s[x] = s[n] \/ s[x] \in Items(f)
    BY <1>1, <1>5, <1>9
  <2> QED
    BY <1>9, <2>1, <2>2
<1>12. s[n] \in Items(s) /\ \A a \in Items(s) : a >= s[n]
  <2>1. \A x \in 1 .. n : s[x] >= s[n]
    BY <1>2, <1>5, <1>6, <1>8
  <2> QED
    BY <1>6, <1>9, <2>1
<1> QED
  BY <1>1, <1>7, <1>11, <1>12

LEMMA ReversedIncreasing ==
  ASSUME NEW N \in Nat, NEW c \in Seq(1 .. N), Increasing(c)
  PROVE  /\ Reverse(c) \in Seq(1 .. N) /\ Decreasing(Reverse(c))
         /\ Items(Reverse(c)) = Items(c)
<1> DEFINE m == Len(c)
           r == Reverse(c)
<1>1. /\ m \in Nat /\ m = Len(c)
      /\ r \in Seq(1 .. N) /\ r = Reverse(c) /\ Len(r) = m
      /\ \A x \in 1 .. m : r[x] = c[m - x + 1]
  BY Reversed
<1> HIDE DEF m, r
<1>2. \A x \in 1 .. m : c[x] \in 1 .. N
  BY <1>1
<1>3. \A x \in 1 .. m : m - x + 1 \in 1 .. m /\ m - (m - x + 1) + 1 = x
  BY <1>1
<1>4. \A x, y \in 1 .. m : x < y => c[x] < c[y]
  BY <1>1 DEF Increasing
<1>5. \A x, y \in 1 .. m : x < y => r[x] > r[y]
  <2> SUFFICES ASSUME NEW x \in 1 .. m, NEW y \in 1 .. m, x < y PROVE r[x] > r[y]
    OBVIOUS
  <2>1. m - x + 1 \in 1 .. m /\ m - y + 1 \in 1 .. m /\ m - y + 1 < m - x + 1
    BY <1>1, <1>3
  <2>2. \A i, j \in 1 .. m : i < j => c[i] < c[j] /\ c[i] \in 1 .. N /\ c[j] \in 1 .. N
    BY <1>2, <1>4
  <2>3. c[m - y + 1] < c[m - x + 1] /\ c[m - y + 1] \in 1 .. N /\ c[m - x + 1] \in 1 .. N
    BY <2>1, <2>2, Zenon
  <2>4. r[x] = c[m - x + 1] /\ r[y] = c[m - y + 1]
    BY <1>1
  <2> QED
    BY <2>3, <2>4
<1>6. {r[x] : x \in 1 .. m} = {c[x] : x \in 1 .. m}
  <2>1. \A x \in 1 .. m : \E y \in 1 .. m : r[x] = c[y]
    BY <1>1, <1>3
  <2>2. \A y \in 1 .. m : \E x \in 1 .. m : c[y] = r[x]
    <3> SUFFICES ASSUME NEW y \in 1 .. m PROVE \E x \in 1 .. m : c[y] = r[x]
      OBVIOUS
    <3>1. r[m - y + 1] = c[y]
      BY <1>1, <1>3
    <3> QED
      BY <1>3, <3>1
  <2>3. \A e : (\E x \in 1 .. m : e = r[x]) <=> (\E x \in 1 .. m : e = c[x])
    BY <2>1, <2>2, Zenon
  <2> QED
    BY <2>3
<1> QED
  BY <1>1, <1>5, <1>6 DEF Decreasing, Items

LEMMA JoinedDecreasing ==
  ASSUME NEW N \in Nat, NEW s \in Seq(1 .. N), NEW t \in Seq(1 .. N),
         Decreasing(s), Decreasing(t), \A a \in Items(s), b \in Items(t) : b < a
  PROVE  /\ s \o t \in Seq(1 .. N) /\ Decreasing(s \o t)
         /\ Items(s \o t) = Items(s) \union Items(t)
<1> DEFINE l == Len(s)
           m == Len(t)
           u == s \o t
<1>1. /\ l \in Nat /\ m \in Nat /\ l = Len(s) /\ m = Len(t)
      /\ u \in Seq(1 .. N) /\ u = s \o t /\ Len(u) = l + m
      /\ \A x \in 1 .. l : u[x] = s[x]
      /\ \A x \in 1 .. m : u[l + x] = t[x]
  BY Joined
<1> HIDE DEF l, m, u
<1>2. /\ \A x \in 1 .. l : s[x] \in 1 .. N
      /\ \A x \in 1 .. m : t[x] \in 1 .. N
  BY <1>1
<1>3. \A x \in 1 .. (l + m) : x \in 1 .. l \/ (x > l /\ x - l \in 1 .. m /\ l + (x - l) = x)
  BY <1>1
<1>4. /\ \A x, y \in 1 .. l : x < y => s[x] > s[y]
      /\ \A x, y \in 1 .. m : x < y => t[x] > t[y]
      /\ \A x \in 1 .. l, y \in 1 .. m : t[y] < s[x]
  BY <1>1 DEF Decreasing, Items
<1>5. \A x \in 1 .. (l + m) : x \notin 1 .. l => u[x] = t[x - l]
  BY <1>1, <1>3
<1>6. \A x, y \in 1 .. (l + m) : x < y => u[x] > u[y]
  <2> SUFFICES ASSUME NEW x \in 1 .. (l + m), NEW y \in 1 .. (l + m), x < y
               PROVE  u[x] > u[y]
    OBVIOUS
  <2>1. CASE x \in 1 .. l /\ y \in 1 .. l
    BY <1>1, <1>4, <2>1
  <2>2. CASE x \in 1 .. l /\ y \notin 1 .. l
    <3>1. u[x] = s[x] /\ u[y] = t[y - l] /\ y - l \in 1 .. m
      BY <1>1, <1>3, <1>5, <2>2
    <3>2. t[y - l] < s[x] /\ s[x] \in 1 .. N /\ t[y - l] \in 1 .. N
      BY <1>2, <1>4, <2>2, <3>1
    <3> QED
      BY <3>1, <3>2
  <2>3. CASE x \notin 1 .. l
    <3>1. y \notin 1 .. l /\ x - l < y - l
      BY <1>1, <2>3
    <3>2. u[x] = t[x - l] /\ u[y] = t[y - l] /\ x - l \in 1 .. m /\ y - l \in 1 .. m
      BY <1>3, <1>5, <2>3, <3>1
    <3> QED
      BY <1>4, <3>1, <3>2
  <2> QED
    BY <2>1, <2>2, <2>3
<1>8. 1 .. Len(u) = 1 .. (l + m)
  BY <1>1
<1> QED
  BY <1>1, <1>6, <1>8, ItemsJoined DEF Decreasing

\* The top of the stack is the next node in the printed order.
LEMMA Top ==
  ASSUME PlanFacts, stack \in Seq(1 .. Size), stack # <<>>,
         NEW k \in Nat, k <= Size, Decreasing(stack), Items(stack) = Pending(k)
  PROVE  /\ k < Size /\ Last(stack) = k + 1
         /\ Front(stack) \in Seq(1 .. Size)
         /\ Decreasing(Front(stack)) /\ Items(Front(stack)) = Pending(k) \ {k + 1}
<1>1. Size \in Nat
  BY DEF PlanFacts
<1>2. /\ Front(stack) \in Seq(1 .. Size) /\ Decreasing(Front(stack))
      /\ Items(Front(stack)) = Items(stack) \ {Last(stack)}
      /\ Last(stack) \in Items(stack) /\ \A a \in Items(stack) : a >= Last(stack)
  BY <1>1, TopRemoved
<1>3. k < Size
  BY <1>1, <1>2, PendingNext
<1>4. k + 1 >= Last(stack) /\ Last(stack) >= k + 1 /\ Last(stack) \in 1 .. Size
  BY <1>2, <1>3, PendingNext
<1>5. Last(stack) = k + 1
  BY <1>1, <1>4
<1> QED
  BY <1>2, <1>3, <1>5

\* Pushing its children in reverse keeps the stack in order.
LEMMA Pushing ==
  ASSUME PlanFacts, NEW k \in Nat, k < Size,
         NEW f \in Seq(1 .. Size), Decreasing(f), Items(f) = Pending(k) \ {k + 1}
  PROVE  /\ f \o Pushed(k + 1) \in Seq(1 .. Size)
         /\ Decreasing(f \o Pushed(k + 1))
         /\ Items(f \o Pushed(k + 1)) = Pending(k + 1)
<1>1. /\ Size \in Nat /\ k + 1 \in 1 .. Size
      /\ plan.children[k + 1] \in Seq(1 .. Size)
      /\ Increasing(plan.children[k + 1])
      /\ Items(plan.children[k + 1]) = Below(plan, k + 1)
  BY DEF PlanFacts, Items
<1>2. /\ Pushed(k + 1) \in Seq(1 .. Size) /\ Decreasing(Pushed(k + 1))
      /\ Items(Pushed(k + 1)) = Below(plan, k + 1)
  BY <1>1, ReversedIncreasing DEF Pushed
<1>3. \A a \in Items(f), b \in Items(Pushed(k + 1)) : b < a
  BY <1>2, PendingStep
<1>4. /\ f \o Pushed(k + 1) \in Seq(1 .. Size)
      /\ Decreasing(f \o Pushed(k + 1))
      /\ Items(f \o Pushed(k + 1)) = Items(f) \union Items(Pushed(k + 1))
  BY <1>1, <1>2, <1>3, JoinedDecreasing
<1> QED
  BY <1>2, <1>4, PendingStep

-----------------------------------------------------------------------------
(* The order of the findings.                                              *)

Precedes(f, g) == f.at < g.at \/ (f.at = g.at /\ Rank(f.code) < Rank(g.code))

Sorted(s) == \A x, y \in 1 .. Len(s) : x < y => Precedes(s[x], s[y])

\* A list about node i by the detectors lo to hi.
Report(s, i, lo, hi) ==
  /\ s \in Seq(Finding) /\ Sorted(s)
  /\ \A f \in Items(s) : f.at = i /\ Rank(f.code) \in lo .. hi

LEMMA Ranks ==
  /\ Rank("SEQ_SCAN_LARGE_TABLE") = 1 /\ Rank("NESTED_LOOP_LARGE_ROWCOUNT") = 2
  /\ Rank("SORT_SPILLED_TO_DISK") = 3 /\ Rank("CARDINALITY_MISESTIMATION") = 4
  /\ Range(Codes) = {"SEQ_SCAN_LARGE_TABLE", "NESTED_LOOP_LARGE_ROWCOUNT",
                     "SORT_SPILLED_TO_DISK", "CARDINALITY_MISESTIMATION"}
<1>1. /\ DOMAIN Codes = 1 .. 4
      /\ Codes[1] = "SEQ_SCAN_LARGE_TABLE" /\ Codes[2] = "NESTED_LOOP_LARGE_ROWCOUNT"
      /\ Codes[3] = "SORT_SPILLED_TO_DISK" /\ Codes[4] = "CARDINALITY_MISESTIMATION"
  BY DEF Codes
<1>2. 1 .. 4 = {1, 2, 3, 4}
  OBVIOUS
<1> QED
  BY <1>1, <1>2 DEF Rank, Range

LEMMA SortedJoin ==
  ASSUME NEW s \in Seq(Finding), NEW t \in Seq(Finding), Sorted(s), Sorted(t),
         \A f \in Items(s), g \in Items(t) : Precedes(f, g)
  PROVE  Sorted(s \o t)
<1> DEFINE l == Len(s)
           m == Len(t)
           u == s \o t
<1>1. /\ l \in Nat /\ m \in Nat /\ l = Len(s) /\ m = Len(t)
      /\ u = s \o t /\ Len(u) = l + m
      /\ \A x \in 1 .. l : u[x] = s[x] /\ s[x] \in Items(s)
      /\ \A x \in 1 .. m : u[l + x] = t[x] /\ t[x] \in Items(t)
  BY Joined DEF Items
<1> HIDE DEF l, m, u
<1>2. \A x \in 1 .. (l + m) :
        x \in 1 .. l \/ (x > l /\ x - l \in 1 .. m /\ l + (x - l) = x)
  BY <1>1
<1>3. \A x \in 1 .. (l + m) : x \notin 1 .. l => u[x] = t[x - l]
  BY <1>1, <1>2
<1> SUFFICES ASSUME NEW x \in 1 .. (l + m), NEW y \in 1 .. (l + m), x < y
             PROVE  Precedes(u[x], u[y])
  BY <1>1 DEF Sorted
<1>4. CASE x \in 1 .. l /\ y \in 1 .. l
  BY <1>1, <1>4 DEF Sorted
<1>5. CASE x \in 1 .. l /\ y \notin 1 .. l
  BY <1>1, <1>2, <1>3, <1>5
<1>6. CASE x \notin 1 .. l
  <2>1. y \notin 1 .. l /\ x - l < y - l
    BY <1>1, <1>6
  <2>2. u[x] = t[x - l] /\ u[y] = t[y - l] /\ x - l \in 1 .. m /\ y - l \in 1 .. m
    BY <1>2, <1>3, <1>6, <2>1
  <2>3. \A i, j \in 1 .. m : i < j => Precedes(t[i], t[j])
    BY <1>1 DEF Sorted
  <2> QED
    BY <2>1, <2>2, <2>3
<1> QED
  BY <1>4, <1>5, <1>6

LEMMA ReportJoin ==
  ASSUME NEW i \in Nat, NEW s, NEW t,
         NEW a \in Nat, NEW b \in Nat, NEW c \in Nat, NEW d \in Nat,
         a <= b, b < c, c <= d,
         Report(s, i, a, b), Report(t, i, c, d)
  PROVE  Report(s \o t, i, a, d)
<1>1. s \in Seq(Finding) /\ t \in Seq(Finding) /\ Sorted(s) /\ Sorted(t)
  BY DEF Report
<1>2. /\ \A f \in Items(s) : f.at = i /\ Rank(f.code) \in a .. b
      /\ \A f \in Items(t) : f.at = i /\ Rank(f.code) \in c .. d
  BY DEF Report
<1>3. \A f \in Items(s), g \in Items(t) : Precedes(f, g)
  BY <1>2 DEF Precedes
<1>4. Sorted(s \o t) /\ s \o t \in Seq(Finding)
  BY <1>1, <1>3, SortedJoin, Joined
<1>5. Items(s \o t) = Items(s) \union Items(t)
  BY <1>1, ItemsJoined
<1>6. \A f \in Items(s \o t) : f.at = i /\ Rank(f.code) \in a .. d
  BY <1>2, <1>5
<1> QED
  BY <1>4, <1>6 DEF Report

LEMMA FoundReport ==
  ASSUME NEW i \in Nat, NEW code \in Range(Codes), NEW high \in BOOLEAN
  PROVE  Report(Found(code, i, high), i, Rank(code), Rank(code))
<1> DEFINE f == [code |-> code, at |-> i, severity |-> IF high THEN "HIGH" ELSE "MEDIUM"]
<1>1. f \in Finding /\ f.at = i /\ f.code = code
  BY DEF Finding
<1>2. Found(code, i, high) = <<f>>
  BY DEF Found
<1> HIDE DEF f
<1>3. <<f>> \in Seq(Finding) /\ Sorted(<<f>>) /\ Items(<<f>>) = {f}
  BY <1>1, OneItem DEF Sorted
<1>4. Rank(code) \in Rank(code) .. Rank(code)
  BY Ranks
<1> QED
  BY <1>1, <1>2, <1>3, <1>4 DEF Report

LEMMA EmptyReport ==
  ASSUME NEW i, NEW a, NEW b
  PROVE  Report(<<>>, i, a, b)
BY OneItem DEF Report, Sorted

LEMMA DetectorReports ==
  ASSUME NEW i \in Nat
  PROVE  /\ Report((SeqScan(i) \o JoinStrategy(i)) \o ExpensiveSort(i), i, 1, 3)
         /\ Report(Cardinality_(i), i, 4, 4)
<1>1. \A code \in Range(Codes) :
        /\ Report(Found(code, i, TRUE), i, Rank(code), Rank(code))
        /\ Report(Found(code, i, FALSE), i, Rank(code), Rank(code))
  BY FoundReport
<1>2. Report(SeqScan(i), i, 1, 1)
  <2> DEFINE c == "SEQ_SCAN_LARGE_TABLE"
  <2>1. SeqScan(i) \in {<<>>, Found(c, i, TRUE), Found(c, i, FALSE)}
    BY DEF SeqScan, Found
  <2> QED
    BY <1>1, <2>1, Ranks, EmptyReport
<1>3. Report(JoinStrategy(i), i, 2, 2)
  <2> DEFINE c == "NESTED_LOOP_LARGE_ROWCOUNT"
  <2>1. JoinStrategy(i) \in {<<>>, Found(c, i, TRUE), Found(c, i, FALSE)}
    BY DEF JoinStrategy, Found
  <2> QED
    BY <1>1, <2>1, Ranks, EmptyReport
<1>4. Report(ExpensiveSort(i), i, 3, 3)
  <2> DEFINE c == "SORT_SPILLED_TO_DISK"
  <2>1. ExpensiveSort(i) \in {<<>>, Found(c, i, TRUE), Found(c, i, FALSE)}
    BY DEF ExpensiveSort, Found
  <2> QED
    BY <1>1, <2>1, Ranks, EmptyReport
<1>5. Report(Cardinality_(i), i, 4, 4)
  <2> DEFINE c == "CARDINALITY_MISESTIMATION"
  <2>1. Cardinality_(i) \in {<<>>, Found(c, i, TRUE), Found(c, i, FALSE)}
    BY DEF Cardinality_, Found
  <2> QED
    BY <1>1, <2>1, Ranks, EmptyReport
<1>6. Report(SeqScan(i) \o JoinStrategy(i), i, 1, 2)
  BY <1>2, <1>3, ReportJoin
<1>7. Report((SeqScan(i) \o JoinStrategy(i)) \o ExpensiveSort(i), i, 1, 3)
  BY <1>4, <1>6, ReportJoin
<1> QED
  BY <1>5, <1>7

LEMMA DetectReport ==
  ASSUME NEW i \in Nat
  PROVE  Report(Detect(i), i, 1, 4)
BY DetectorReports, ReportJoin DEF Detect

-----------------------------------------------------------------------------
(* The invariant.                                                          *)

\* The findings are those of the nodes visited, in order.
FindingsInv ==
  /\ Sorted(findings)
  /\ \A f : f \in Items(findings) <=> \E i \in 1 .. Len(visited) : f \in Items(Detect(i))

IInv == PlanTypeOK /\ WalkInv /\ FindingsInv

LEMMA InitInv == Init => IInv
<1> SUFFICES ASSUME Init PROVE IInv
  OBVIOUS
<1>1. PlanTypeOK
  BY ContextsAssumption, PlansAssumption DEF Init, PlanTypeOK
<1>2. WalkInv
  BY DEF Init, WalkInv
<1>3. FindingsInv
  BY DEF Init, FindingsInv, Sorted, Items
<1> QED
  BY <1>1, <1>2, <1>3 DEF IInv

\* What a step that keeps the plan and the findings keeps.
LEMMA SameReport ==
  ASSUME UNCHANGED <<context, plan>>
  PROVE  /\ Size' = Size /\ \A k : Pending(k)' = Pending(k)
         /\ \A i : Detect(i)' = Detect(i)
<1>1. Size' = Size /\ \A k : Pending(k)' = Pending(k)
  BY DEF Size, Pending
<1>2. \A i : /\ SeqScan(i)' = SeqScan(i)
             /\ JoinStrategy(i)' = JoinStrategy(i)
             /\ ExpensiveSort(i)' = ExpensiveSort(i)
             /\ Cardinality_(i)' = Cardinality_(i)
  BY DEF SeqScan, JoinStrategy, ExpensiveSort, Cardinality_, RowCount
<1> QED
  BY <1>1, <1>2 DEF Detect

LEMMA ParseInv == IInv /\ Parse => IInv'
<1> SUFFICES ASSUME IInv, Parse PROVE IInv'
  OBVIOUS
<1>1. PlanFacts
  BY FactsOfPlan DEF IInv, PlanTypeOK
<1>2. /\ Size' = Size /\ \A k : Pending(k)' = Pending(k)
      /\ \A i : Detect(i)' = Detect(i)
  BY SameReport DEF Parse
<1>3. 1 \in 1 .. Size /\ Len(visited) = 0 /\ visited = <<>>
  BY <1>1 DEF PlanFacts, IInv, WalkInv, Parse
<1>4. PlanTypeOK'
  BY <1>2, <1>3 DEF PlanTypeOK, IInv, Parse
<1>5. WalkInv'
  <2>1. Decreasing(<<1>>) /\ Items(<<1>>) = {1}
    BY OneItem DEF Decreasing
  <2>2. Pending(0)' = {1} /\ Size >= 1
    BY <1>1, <1>2, PendingRoot DEF PlanFacts
  <2>3. /\ visited' = <<>> /\ Len(visited') = 0 /\ 1 .. Len(visited') = {}
        /\ stack' = <<1>> /\ stage' = "walking"
    BY <1>3 DEF Parse
  <2>4. Len(visited') <= Size'
    BY <1>1, <1>2, <2>3 DEF PlanFacts
  <2>5. Decreasing(stack)' /\ Items(stack)' = Pending(Len(visited))'
    BY <2>1, <2>2, <2>3 DEF Decreasing, Items
  <2> QED
    BY <2>3, <2>4, <2>5 DEF WalkInv
<1>6. FindingsInv'
  BY <1>2 DEF FindingsInv, IInv, Parse
<1> QED
  BY <1>4, <1>5, <1>6 DEF IInv

LEMMA ParseFailsInv == IInv /\ ParseFails => IInv'
<1> SUFFICES ASSUME IInv, ParseFails PROVE IInv'
  OBVIOUS
<1>1. \A i : Detect(i)' = Detect(i)
  BY SameReport DEF ParseFails
<1>2. ParseOutcome \in {"ParsingError", "ValidationError"}
  BY DEF ParseOutcome, ParseFails
<1>3. PlanTypeOK'
  BY <1>2 DEF PlanTypeOK, IInv, ParseFails, Size
<1>4. WalkInv'
  BY <1>2 DEF WalkInv, IInv, ParseFails
<1>5. FindingsInv'
  BY <1>1 DEF FindingsInv, IInv, ParseFails
<1> QED
  BY <1>3, <1>4, <1>5 DEF IInv

LEMMA ReturnInv == IInv /\ Return => IInv'
<1> SUFFICES ASSUME IInv, Return PROVE IInv'
  OBVIOUS
<1>1. PlanFacts
  BY FactsOfPlan DEF IInv, PlanTypeOK
<1>2. Size' = Size /\ \A i : Detect(i)' = Detect(i)
  BY SameReport DEF Return
<1>3. PlanTypeOK'
  <2>1. /\ context' = context /\ payload' = payload /\ plan' = plan /\ stage' = "done"
        /\ stack' = stack /\ visited' = visited /\ findings' = findings
    BY DEF Return
  <2> QED
    BY <1>2, <2>1 DEF PlanTypeOK, IInv
<1>4. Len(visited) = Size
  <2>1. /\ Len(visited) \in Nat /\ Size \in Nat /\ Len(visited) <= Size
        /\ Pending(Len(visited)) = {}
    <3>1. stage = "walking" /\ Items(stack) = {}
      BY OneItem DEF Return
    <3> QED
      BY <1>1, <3>1 DEF IInv, WalkInv, PlanTypeOK, PlanFacts
  <2> QED
    BY <1>1, <2>1, PendingNext
<1>5. WalkInv'
  BY <1>2, <1>4 DEF WalkInv, IInv, Return
<1>6. FindingsInv'
  BY <1>2 DEF FindingsInv, IInv, Return
<1> QED
  BY <1>3, <1>5, <1>6 DEF IInv

LEMMA VisitInv == IInv /\ Visit => IInv'
<1> SUFFICES ASSUME IInv, Visit PROVE IInv'
  OBVIOUS
<1> DEFINE k == Len(visited)
           node == Last(stack)
<1>1. PlanFacts
  BY FactsOfPlan DEF IInv, PlanTypeOK
<1>2. /\ Size' = Size /\ \A j : Pending(j)' = Pending(j)
      /\ \A i : Detect(i)' = Detect(i)
  BY SameReport DEF Visit
<1>3. /\ k \in Nat /\ k <= Size /\ Size \in Nat
      /\ stack \in Seq(1 .. Size) /\ stack # <<>>
      /\ Decreasing(stack) /\ Items(stack) = Pending(k)
  BY <1>1 DEF IInv, WalkInv, Visit, PlanTypeOK, PlanFacts
<1>4. /\ k < Size /\ node = k + 1
      /\ Front(stack) \in Seq(1 .. Size)
      /\ Decreasing(Front(stack)) /\ Items(Front(stack)) = Pending(k) \ {k + 1}
  BY <1>1, <1>3, Top
<1>5. /\ stack' = Front(stack) \o Pushed(k + 1)
      /\ visited' = Append(visited, k + 1)
      /\ findings' = findings \o Detect(k + 1)
  BY <1>4 DEF Visit
<1>6. /\ stack' \in Seq(1 .. Size) /\ Decreasing(stack') /\ Items(stack') = Pending(k + 1)
  BY <1>1, <1>3, <1>4, <1>5, Pushing
<1>7. /\ k + 1 \in 1 .. Size /\ visited \in Seq(1 .. Size)
      /\ visited' \in Seq(1 .. Size) /\ Len(visited') = k + 1
      /\ \A x \in 1 .. k : visited'[x] = visited[x]
      /\ visited'[k + 1] = k + 1
  BY <1>3, <1>4, <1>5 DEF IInv, PlanTypeOK
<1>8. /\ Report(Detect(k + 1), k + 1, 1, 4)
      /\ Detect(k + 1) \in Seq(Finding) /\ Sorted(Detect(k + 1))
      /\ findings \in Seq(Finding) /\ Sorted(findings)
  <2>1. k + 1 \in Nat /\ Report(Detect(k + 1), k + 1, 1, 4)
    BY <1>3, DetectReport
  <2>2. findings \in Seq(Finding) /\ Sorted(findings)
    BY DEF IInv, PlanTypeOK, FindingsInv
  <2> QED
    BY <2>1, <2>2 DEF Report
<1>9. PlanTypeOK'
  BY <1>2, <1>5, <1>6, <1>7, <1>8, Joined DEF PlanTypeOK, IInv, Visit
<1>10. WalkInv'
  <2>1. \A x \in 1 .. (k + 1) : visited'[x] = x
    <3>1. \A x \in 1 .. k : visited[x] = x
      BY DEF IInv, WalkInv
    <3>2. \A x \in 1 .. (k + 1) : x \in 1 .. k \/ x = k + 1
      BY <1>3
    <3> QED
      BY <1>7, <3>1, <3>2
  <2>2. stage = "walking" /\ stage' = "walking"
    BY DEF Visit
  <2> QED
    BY <1>2, <1>3, <1>4, <1>6, <1>7, <2>1, <2>2 DEF WalkInv
<1>11. FindingsInv'
  <2>1. \A f \in Items(findings) : f.at \in 1 .. k
    <3> SUFFICES ASSUME NEW f \in Items(findings) PROVE f.at \in 1 .. k
      OBVIOUS
    <3>1. PICK i \in 1 .. k : f \in Items(Detect(i))
      BY DEF IInv, FindingsInv
    <3>2. f.at = i
      BY <1>3, <3>1, DetectReport DEF Report
    <3> QED
      BY <3>1, <3>2
  <2>2. \A f \in Items(Detect(k + 1)) : f.at = k + 1
    BY <1>8 DEF Report
  <2>3. \A f \in Items(findings), g \in Items(Detect(k + 1)) : Precedes(f, g)
    BY <1>3, <2>1, <2>2 DEF Precedes
  <2>4. Sorted(findings')
    BY <1>5, <1>8, <2>3, SortedJoin
  <2>5. Items(findings') = Items(findings) \union Items(Detect(k + 1))
    BY <1>5, <1>8, ItemsJoined
  <2>6. \A f : f \in Items(findings') <=> \E i \in 1 .. (k + 1) : f \in Items(Detect(i))
    <3>1. \A f : f \in Items(findings) <=> \E i \in 1 .. k : f \in Items(Detect(i))
      BY DEF IInv, FindingsInv
    <3>2. 1 .. (k + 1) = 1 .. k \union {k + 1}
      BY <1>3
    <3> QED
      BY <2>5, <3>1, <3>2
  <2>7. Sorted(findings)' = Sorted(findings')
    BY DEF Sorted, Precedes
  <2> QED
    BY <1>2, <1>7, <2>4, <2>6, <2>7 DEF FindingsInv
<1> QED
  BY <1>9, <1>10, <1>11 DEF IInv

LEMMA StepInv == IInv /\ [Next]_vars => IInv'
<1> SUFFICES ASSUME IInv, [Next]_vars PROVE IInv'
  OBVIOUS
<1>1. CASE Parse
  BY <1>1, ParseInv
<1>2. CASE ParseFails
  BY <1>2, ParseFailsInv
<1>3. CASE Visit
  BY <1>3, VisitInv
<1>4. CASE Return
  BY <1>4, ReturnInv
<1>5. CASE UNCHANGED vars
  <2>1. \A i : Detect(i)' = Detect(i)
    BY <1>5, SameReport DEF vars
  <2> QED
    BY <1>5, <2>1
    DEF vars, IInv, PlanTypeOK, WalkInv, FindingsInv, Size, Pending
<1> QED
  BY <1>1, <1>2, <1>3, <1>4, <1>5 DEF Next

LEMMA Invariant == Spec => []IInv
BY InitInv, StepInv, PTL DEF Spec

-----------------------------------------------------------------------------
(* The theorems.                                                           *)

(* Every variable keeps its type, in particular the stages of a run and    *)
(* the errors that end it, for plans and thresholds of any kind            *)
(* (plan_json_parser.py:45-104, plan_analyzer.py:72-105).                  *)
THEOREM Typing == Spec => []PlanTypeOK
<1>1. IInv => PlanTypeOK
  BY DEF IInv
<1> QED
  BY <1>1, Invariant, PTL

(* The walk with its own stack visits the nodes of every plan, whatever    *)
(* its size and shape, in the order EXPLAIN prints them, each once         *)
(* (plan_analyzer.py:86-96).                                               *)
THEOREM Ordered == Spec => []NodesInOrder
<1>1. IInv => NodesInOrder
  BY DEF IInv, WalkInv, NodesInOrder
<1> QED
  BY <1>1, Invariant, PTL

(* The findings of every plan come by node and for one node by detector,   *)
(* none of them twice (plan_analyzer.py:16-19).                            *)
THEOREM FindingsOrdered == Spec => []FindingsInOrder
<1>1. IInv => FindingsInOrder
  BY DEF IInv, FindingsInv, FindingsInOrder, Sorted, Precedes
<1> QED
  BY <1>1, Invariant, PTL

-----------------------------------------------------------------------------
(* Misestimates.                                                           *)

LEMMA Products ==
  ASSUME NEW a \in Nat, NEW b \in Nat, NEW c \in Nat, a <= b
  PROVE  a * c \in Nat /\ b * c \in Nat /\ a * c <= b * c /\ c * a <= c * b
         /\ c * a \in Nat /\ c * b \in Nat
<1>1. PICK d \in Nat : b = a + d
  <2>1. b - a \in Nat /\ b = a + (b - a)
    OBVIOUS
  <2> QED
    BY <2>1
<1>2. a * c \in Nat /\ d * c \in Nat /\ b * c = a * c + d * c /\ c * a = a * c /\ c * b = b * c
  BY <1>1
<1> QED
  BY <1>2

\* Of the two comparisons the one of the larger count with the smaller decides.
LEMMA Ratio ==
  ASSUME NEW small \in Nat, NEW large \in Nat, small <= large,
         NEW num \in Nat, NEW den \in Nat, den >= 1, num > den
  PROVE  /\ small * den >= num * Larger(large, 1) => large * den >= num * Larger(small, 1)
         /\ large * den >= num * Larger(small, 1) => large > 1
<1> DEFINE s == Larger(small, 1)
           l == Larger(large, 1)
<1>1. s \in Nat /\ l \in Nat /\ s <= l /\ s >= 1
  BY DEF Larger
<1> HIDE DEF s, l
<1>2. /\ small * den <= large * den /\ num * s <= num * l
      /\ small * den \in Nat /\ large * den \in Nat /\ num * s \in Nat /\ num * l \in Nat
  BY <1>1, Products
<1>3. num * 1 <= num * s /\ num * 1 = num
  BY <1>1, Products
<1>4. large <= 1 => large * den <= den
  <2>1. large <= 1 => large * den <= 1 * den /\ 1 * den = den
    BY Products
  <2> QED
    BY <2>1
<1>5. small * den >= num * l => large * den >= num * s
  BY <1>2
<1>6. large * den >= num * s => large > 1
  BY <1>2, <1>3, <1>4
<1> QED
  BY <1>5, <1>6 DEF s, l

\* What the detector of misestimates makes of one node.
LEMMA CardinalityExact ==
  ASSUME PlanFacts, context \in AnalysisContext, NEW i \in 1 .. Size,
         RowCount(i) \in Nat
  PROVE  LET node == plan.nodes[i]
             apart == ~(/\ WithinRatio(node.estimated, RowCount(i))
                        /\ WithinRatio(RowCount(i), node.estimated))
             counts == node.estimated >= context.minRows \/ RowCount(i) >= context.minRows
         IN  /\ Cardinality_(i) # <<>> <=>
                  node.type \in ScanTypes /\ node.actual # {} /\ apart /\ counts
             /\ \A f \in Items(Cardinality_(i)) :
                  f.severity = "HIGH" => RowCount(i) > node.estimated /\ RowCount(i) > 1
<1> DEFINE e == plan.nodes[i].estimated
           r == RowCount(i)
           num == context.num
           den == context.den
           large == Larger(e, r)
           small == Smaller(e, r)
           scan == plan.nodes[i].type \in ScanTypes /\ plan.nodes[i].actual # {}
           far == large * den >= num * Larger(small, 1)
           counts == large >= context.minRows
<1>1. /\ e \in Nat /\ r \in Nat /\ num \in Nat /\ den \in Nat /\ den >= 1 /\ num > den
      /\ context.minRows \in Nat
  BY DEF PlanFacts, Node, AnalysisContext
<1>2. /\ Cardinality_(i) = IF scan /\ counts /\ far
                           THEN Found("CARDINALITY_MISESTIMATION", i, r > e) ELSE <<>>
  BY DEF Cardinality_
<1>3. counts <=> e >= context.minRows \/ r >= context.minRows
  BY <1>1 DEF Larger
<1>4. far <=> ~(WithinRatio(e, r) /\ WithinRatio(r, e))
  <2>1. /\ e * den \in Nat /\ r * den \in Nat
        /\ num * Larger(e, 1) \in Nat /\ num * Larger(r, 1) \in Nat
    BY <1>1 DEF Larger
  <2>2. CASE e <= r
    <3>1. large = r /\ small = e
      BY <1>1, <2>2 DEF Larger, Smaller
    <3>2. e * den >= num * Larger(r, 1) => r * den >= num * Larger(e, 1)
      BY <1>1, <2>2, Ratio
    <3> QED
      BY <2>1, <3>1, <3>2 DEF WithinRatio
  <2>3. CASE r <= e
    <3>1. large = e /\ small = r
      BY <1>1, <2>3 DEF Larger, Smaller
    <3>2. r * den >= num * Larger(e, 1) => e * den >= num * Larger(r, 1)
      BY <1>1, <2>3, Ratio
    <3> QED
      BY <2>1, <3>1, <3>2 DEF WithinRatio
  <2> QED
    BY <1>1, <2>2, <2>3
<1>5. far /\ r > e => r > 1
  <2>1. r > e => large = r /\ small = e /\ e <= r
    BY <1>1 DEF Larger, Smaller
  <2>2. r > e /\ r * den >= num * Larger(e, 1) => r > 1
    BY <1>1, <2>1, Ratio
  <2> QED
    BY <2>1, <2>2
<1>6. /\ Found("CARDINALITY_MISESTIMATION", i, r > e) # <<>>
      /\ \A f \in Items(Found("CARDINALITY_MISESTIMATION", i, r > e)) :
           f.severity = "HIGH" => r > e
  BY OneItem DEF Found
<1>7. Cardinality_(i) # <<>> <=> scan /\ counts /\ far
  BY <1>2, <1>6
<1>8. \A f \in Items(Cardinality_(i)) : f.severity = "HIGH" => r > e /\ r > 1
  BY <1>2, <1>5, <1>6, OneItem
<1> QED
  BY <1>3, <1>4, <1>7, <1>8

LEMMA RowCounts ==
  ASSUME PlanFacts, NEW i \in 1 .. Size
  PROVE  RowCount(i) \in Nat
<1>1. plan.nodes[i].estimated \in Nat /\ plan.nodes[i].actual \subseteq Nat
  BY DEF PlanFacts, Node
<1>2. plan.nodes[i].actual # {} => Value(plan.nodes[i].actual) \in plan.nodes[i].actual
  BY DEF Value
<1> QED
  BY <1>1, <1>2 DEF RowCount

\* The misestimates found at a visited node are what the detector made of it.
LEMMA FoundMisestimate ==
  ASSUME IInv, NEW i \in 1 .. Len(visited)
  PROVE  FoundAt(i, "CARDINALITY_MISESTIMATION") = Items(Cardinality_(i))
<1> DEFINE c == "CARDINALITY_MISESTIMATION"
<1>1. /\ visited \in Seq(1 .. Size) /\ findings \in Seq(Finding)
      /\ i \in Nat /\ 1 .. Len(visited) \subseteq Nat
  BY DEF IInv, PlanTypeOK
<1>2. Range(findings) = Items(findings)
  BY <1>1 DEF Range, Items
<1>3. \A f : f \in Items(findings) <=> \E j \in 1 .. Len(visited) : f \in Items(Detect(j))
  BY DEF IInv, FindingsInv
<1>4. \A j \in 1 .. Len(visited) : \A f \in Items(Detect(j)) : f.at = j
  BY <1>1, DetectReport DEF Report
<1>5. \A f : f \in Range(findings) /\ f.at = i <=> f \in Items(Detect(i))
  BY <1>2, <1>3, <1>4
<1> DEFINE front == (SeqScan(i) \o JoinStrategy(i)) \o ExpensiveSort(i)
<1>6. Report(front, i, 1, 3) /\ Report(Cardinality_(i), i, 4, 4)
  BY <1>1, DetectorReports
<1>7. Items(Detect(i)) = Items(front) \union Items(Cardinality_(i))
  BY ZenonT(30), <1>6, ItemsJoined DEF Report, Detect
<1>8. \A f \in Items(front) : f.code # c
  BY <1>6, Ranks DEF Report
<1>9. \A f \in Items(Cardinality_(i)) : f.code = c
  <2>1. Cardinality_(i) \in {<<>>, Found(c, i, TRUE), Found(c, i, FALSE)}
    BY DEF Cardinality_, Found
  <2> QED
    BY <2>1, OneItem DEF Found
<1> QED
  BY <1>5, <1>7, <1>8, <1>9 DEF FoundAt

(* For every plan and all thresholds, misestimates are reported of exactly *)
(* the measured scans whose estimate and count are a factor apart, zero    *)
(* rows included, and HIGH means more than one row and more than estimated *)
(* (cardinality.py:46-102).                                                *)
THEOREM Misestimates == Spec => []MisestimatesExact
<1>1. IInv => MisestimatesExact
  <2> SUFFICES ASSUME IInv, stage = "done", NEW i \in 1 .. Size
               PROVE  LET node == plan.nodes[i]
                          rows == RowCount(i)
                          apart == ~(/\ WithinRatio(node.estimated, rows)
                                     /\ WithinRatio(rows, node.estimated))
                          counts == node.estimated >= context.minRows
                                    \/ rows >= context.minRows
                          high == {f \in FoundAt(i, "CARDINALITY_MISESTIMATION") :
                                     f.severity = "HIGH"}
                      IN  /\ FoundAt(i, "CARDINALITY_MISESTIMATION") # {} <=>
                               node.type \in ScanTypes /\ node.actual # {} /\ apart /\ counts
                          /\ high # {} => rows > node.estimated /\ rows > 1
    BY DEF MisestimatesExact
  <2>1. PlanFacts /\ context \in AnalysisContext
    BY FactsOfPlan DEF IInv, PlanTypeOK
  <2>2. i \in 1 .. Len(visited) /\ i \in Nat
    BY <2>1 DEF IInv, WalkInv, PlanFacts
  <2>3. FoundAt(i, "CARDINALITY_MISESTIMATION") = Items(Cardinality_(i))
    BY <2>2, FoundMisestimate
  <2>4. Items(Cardinality_(i)) # {} <=> Cardinality_(i) # <<>>
    <3>1. Cardinality_(i) \in Seq(Finding)
      BY <2>2, DetectorReports DEF Report
    <3> QED
      BY <3>1 DEF Items
  <2>5. RowCount(i) \in Nat
    BY <2>1, RowCounts
  <2> QED
    BY <2>1, <2>3, <2>4, <2>5, CardinalityExact
<1> QED
  BY <1>1, Invariant, PTL
=============================================================================
