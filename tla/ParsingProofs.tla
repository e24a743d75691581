---------------------------- MODULE ParsingProofs ----------------------------
(***************************************************************************)
(* Theorems about Parsing, for texts and logs of any length.               *)
(***************************************************************************)
EXTENDS Parsing, SequenceTheorems, FiniteSetTheorems, WellFoundedInduction, TLAPS

-----------------------------------------------------------------------------
(* The least and the greatest position of a set of them.                   *)

LEMMA Least ==
  ASSUME NEW T, T \subseteq Nat, T # {}
  PROVE  \E x \in T : \A y \in T : x <= y
<1>1. PICK x \in T : \A y \in T : ~ (<<y, x>> \in OpToRel(<, Nat))
  BY WFMin, NatLessThanWellFounded
<1>2. \A y \in T : ~(y < x)
  BY <1>1 DEF OpToRel
<1> QED
  BY <1>2

LEMMA MinMax ==
  ASSUME NEW n \in Nat, NEW T, T \subseteq 0 .. n, T # {}
  PROVE  /\ Min(T) \in T /\ \A y \in T : Min(T) <= y
         /\ Max(T) \in T /\ \A y \in T : y <= Max(T)
<1>1. \E x \in T : \A y \in T : x <= y
  <2>1. T \subseteq Nat
    OBVIOUS
  <2> QED
    BY <2>1, Least
<1>2. \E x \in T : \A y \in T : x >= y
  <2> DEFINE U == {n - y : y \in T}
  <2>1. U \subseteq Nat /\ U # {}
    <3>1. \A y \in T : n - y \in Nat
      OBVIOUS
    <3> QED
      BY <3>1
  <2>2. PICK x \in T : \A y \in T : n - x <= n - y
    <3>1. PICK u \in U : \A v \in U : u <= v
      BY <2>1, Least
    <3> QED
      BY <3>1
  <2> QED
    BY <2>2
<1> QED
  BY <1>1, <1>2 DEF Min, Max

\* A least element is what Min yields, and a greatest one what Max yields.
LEMMA MinMaxAre ==
  ASSUME NEW T, T \subseteq Int
  PROVE  /\ \A x \in T : (\A y \in T : x <= y) => Min(T) = x
         /\ \A x \in T : (\A y \in T : y <= x) => Max(T) = x
<1>1. ASSUME NEW x \in T, \A y \in T : x <= y
      PROVE  Min(T) = x
  <2>1. Min(T) \in T /\ \A y \in T : Min(T) <= y
    BY <1>1 DEF Min
  <2>2. Min(T) <= x /\ x <= Min(T) /\ x \in Int /\ Min(T) \in Int
    BY <1>1, <2>1
  <2> QED
    BY <2>2
<1>2. ASSUME NEW x \in T, \A y \in T : y <= x
      PROVE  Max(T) = x
  <2>1. Max(T) \in T /\ \A y \in T : Max(T) >= y
    BY <1>2 DEF Max
  <2>2. Max(T) <= x /\ x <= Max(T) /\ x \in Int /\ Max(T) \in Int
    BY <1>2, <2>1
  <2> QED
    BY <2>2
<1> QED
  BY <1>1, <1>2

LEMMA Appended ==
  ASSUME NEW S, NEW s \in Seq(S), NEW e \in S
  PROVE  /\ Append(s, e) \in Seq(S)
         /\ DOMAIN Append(s, e) = DOMAIN s \union {Len(s) + 1}
         /\ \A x \in DOMAIN s : x \in Nat /\ x < Len(s) + 1 /\ Append(s, e)[x] = s[x]
         /\ Append(s, e)[Len(s) + 1] = e
<1>1. /\ Len(s) \in Nat /\ DOMAIN s = 1 .. Len(s)
      /\ Append(s, e) \in Seq(S) /\ Len(Append(s, e)) = Len(s) + 1
      /\ DOMAIN Append(s, e) = 1 .. Len(Append(s, e))
  BY AppendProperties, LenProperties
<1>2. 1 .. Len(s) + 1 = (1 .. Len(s)) \union {Len(s) + 1}
  BY <1>1
<1> QED
  BY <1>1, <1>2, AppendProperties

-----------------------------------------------------------------------------
(* The log parser: types.                                                  *)

Timed == [lines : Nat \X Nat, at : Nat, time : Nat]

LogTyped ==
  /\ log \in Seq(LineKinds)
  /\ reading \in {"blocks", "entries", "done", "TokenError"}
  /\ index \in 1 .. Len(log) + 1
  /\ block \in Nat
  /\ timed \in Seq(Timed)

LEMMA LogDomain ==
  ASSUME log \in Seq(LineKinds)
  PROVE  /\ Len(log) \in Nat /\ DOMAIN log = 1 .. Len(log)
         /\ \A i \in DOMAIN log : log[i] \in LineKinds
BY LenProperties, ElementOfSeq

\* What is left of a stretch of lines begins and ends with lines that are not
\* blank, and all such lines of the stretch are in it.
LEMMA StrippedText ==
  ASSUME log \in Seq(LineKinds), NEW from \in Nat, NEW to \in Int
  PROVE  LET seen == {i \in Lines(from, to) : log[i] # "blank"}
             part  == Stripped(from, to)
         IN  /\ seen = {} => part = <<>>
             /\ seen # {} => /\ part \in Nat \X Nat /\ part # <<>>
                              /\ part[1] \in seen /\ part[2] \in seen
                              /\ \A i \in seen : part[1] <= i /\ i <= part[2]
<1> DEFINE T == {i \in Lines(from, to) : log[i] # "blank"}
<1>1. ASSUME T # {}
      PROVE  /\ Min(T) \in T /\ \A y \in T : Min(T) <= y
             /\ Max(T) \in T /\ \A y \in T : y <= Max(T)
  <2>1. T \subseteq 0 .. Len(log) /\ Len(log) \in Nat
    BY LogDomain DEF Lines
  <2> QED
    BY <1>1, <2>1, MinMax
<1>2. T \subseteq Nat
  BY DEF Lines
<1>3. Stripped(from, to) = IF T = {} THEN <<>> ELSE <<Min(T), Max(T)>>
  BY DEF Stripped
<1> HIDE DEF T
<1>4. ASSUME T # {}
      PROVE  /\ Stripped(from, to) \in Nat \X Nat /\ Stripped(from, to) # <<>>
             /\ Stripped(from, to)[1] = Min(T) /\ Stripped(from, to)[2] = Max(T)
  <2>1. Min(T) \in Nat /\ Max(T) \in Nat
    BY <1>1, <1>2, <1>4
  <2> QED
    BY <1>3, <1>4, <2>1
<1> QED
  BY <1>1, <1>3, <1>4 DEF T

\* An entry ends before the next stamp, or with the log.
LEMMA BoundaryIs ==
  ASSUME log \in Seq(LineKinds), NEW i \in 1 .. Len(log)
  PROVE  /\ Boundary(i) \in (i + 1) .. (Len(log) + 1)
         /\ Boundary(i) <= Len(log) => HasStamp(Boundary(i))
         /\ \A n \in (i + 1) .. (Boundary(i) - 1) : ~HasStamp(n)
<1> DEFINE T == {n \in Lines(i + 1, Len(log)) : HasStamp(n)} \union {Len(log) + 1}
<1>1. Len(log) \in Nat
  BY LogDomain
<1>2. T \subseteq 0 .. (Len(log) + 1) /\ T # {}
  BY <1>1 DEF Lines
<1>3. Min(T) \in T /\ \A y \in T : Min(T) <= y
  <2>1. Len(log) + 1 \in Nat
    BY <1>1
  <2> HIDE DEF T
  <2> QED
    BY <1>2, <2>1, MinMax
<1>4. Boundary(i) = Min(T)
  BY DEF Boundary
<1>5. \A n \in T : n \in (i + 1) .. (Len(log) + 1) /\ (n <= Len(log) => HasStamp(n))
  BY <1>1 DEF Lines
<1>6. \A n \in (i + 1) .. Len(log) : HasStamp(n) => n \in T
  BY <1>1 DEF Lines
<1>7. Len(log) + 1 \in T
  OBVIOUS
<1> HIDE DEF T
<1>8. Boundary(i) \in (i + 1) .. (Len(log) + 1) /\ (Boundary(i) <= Len(log) => HasStamp(Boundary(i)))
  BY <1>3, <1>4, <1>5
<1>9. ASSUME NEW n \in (i + 1) .. (Boundary(i) - 1), HasStamp(n)
      PROVE  FALSE
  <2>1. n \in (i + 1) .. Len(log) /\ n < Boundary(i)
    BY <1>1, <1>8
  <2>2. n \in T
    BY <1>6, <1>9, <2>1
  <2> QED
    BY <1>1, <1>3, <1>4, <1>8, <2>1, <2>2
<1> QED
  BY <1>8, <1>9

-----------------------------------------------------------------------------
(* The log parser: entries of a duration log.                              *)

\* No entry whose lines go on is open at the line the search goes on from.
Passed ==
  \A j \in 1 .. (index - 1) :
     HasDuration(j) => \/ index > Len(log)
                       \/ \E k \in (j + 1) .. index : HasStamp(k)

Sound(i) == i \in Entries /\ log[i] # "bad" /\ EntryText(i) # <<>>

\* The entries before that line are the queries.
EntriesRead ==
  /\ Passed
  /\ \A x, y \in DOMAIN timed : x < y => timed[x].at < timed[y].at
  /\ \A i \in Nat : (Sound(i) /\ i < index) <=> (\E x \in DOMAIN timed : timed[x].at = i)
  /\ \A x \in DOMAIN timed :
        timed[x].lines = EntryText(timed[x].at) /\ timed[x].time = timed[x].at

EntriesInv ==
  /\ reading = "blocks" /\ block = 0 => timed = <<>>
  /\ reading = "entries" => EntriesRead
  /\ reading = "done" /\ block = 0 => EntriesRead /\ index > Len(log)

\* The line reached begins an entry if it has a duration.
LEMMA EntryHere ==
  ASSUME LogTyped, Passed, index <= Len(log), HasDuration(index)
  PROVE  index \in Entries
<1>1. Len(log) \in Nat /\ DOMAIN log = 1 .. Len(log) /\ index \in DOMAIN log
  BY LogDomain DEF LogTyped
<1>2. \A j \in 1 .. (index - 1) :
         HasDuration(j) => \E k \in (j + 1) .. index : HasStamp(k)
  BY <1>1 DEF Passed
<1> QED
  BY <1>1, <1>2 DEF Entries

\* A line after it and before its boundary does not.
LEMMA NoEntryInside ==
  ASSUME LogTyped, index <= Len(log), HasDuration(index),
         NEW i \in (index + 1) .. (Boundary(index) - 1)
  PROVE  i \notin Entries
<1>1. index \in 1 .. Len(log) /\ Len(log) \in Nat
  BY LogDomain DEF LogTyped
<1>2. /\ Boundary(index) \in (index + 1) .. (Len(log) + 1)
      /\ \A n \in (index + 1) .. (Boundary(index) - 1) : ~HasStamp(n)
  BY <1>1, BoundaryIs DEF LogTyped
<1>3. index \in 1 .. (i - 1)
  BY <1>1, <1>2
<1>4. \A k \in (index + 1) .. i : ~HasStamp(k)
  BY <1>1, <1>2
<1> QED
  BY <1>3, <1>4 DEF Entries

LEMMA EntryTextTyped ==
  ASSUME LogTyped, NEW i \in 1 .. Len(log), EntryText(i) # <<>>
  PROVE  EntryText(i) \in Nat \X Nat
<1>1. i \in Nat /\ i + 1 \in Nat /\ Boundary(i) - 1 \in Int
  BY BoundaryIs, LogDomain DEF LogTyped
<1>2. CASE log[i] = "empty"
  BY <1>1, <1>2, StrippedText DEF EntryText, LogTyped
<1>3. CASE log[i] # "empty"
  BY <1>1, <1>3, StrippedText DEF EntryText, LogTyped
<1> QED
  BY <1>2, <1>3

LEMMA TimedTyped ==
  ASSUME LogTyped
  PROVE  \A x \in DOMAIN timed : timed[x].at \in Nat
<1>1. \A x \in DOMAIN timed : timed[x] \in Timed
  <2>1. timed \in Seq(Timed)
    BY DEF LogTyped
  <2> QED
    BY <2>1, ElementOfSeq, LenProperties
<1> QED
  BY <1>1 DEF Timed

LEMMA EntriesSame ==
  ASSUME log' = log
  PROVE  \A i : EntryText(i)' = EntryText(i) /\ (Sound(i)' <=> Sound(i))
<1>1. \A i : EntryText(i)' = EntryText(i)
  BY DEF EntryText, Stripped, Lines, Boundary, HasStamp
<1>2. Entries' = Entries
  BY DEF Entries, HasDuration, HasStamp
<1> QED
  BY <1>1, <1>2 DEF Sound

LEMMA NextLineEntries ==
  ASSUME LogTyped, EntriesInv, NextLine
  PROVE  LogTyped' /\ EntriesInv'
<1>1. /\ reading = "entries" /\ index <= Len(log) /\ ~HasDuration(index)
      /\ index' = index + 1 /\ log' = log /\ reading' = reading /\ block' = block
      /\ timed' = timed
  BY DEF NextLine
<1>2. index \in Nat /\ Len(log) \in Nat /\ index \in DOMAIN log /\ DOMAIN log = 1 .. Len(log)
  BY <1>1, LogDomain DEF LogTyped
<1>3. LogTyped'
  BY <1>1, <1>2 DEF LogTyped
<1>4. EntriesRead
  BY <1>1 DEF EntriesInv
<1>5. Passed'
  <2> SUFFICES ASSUME NEW j \in 1 .. index, HasDuration(j)
               PROVE  index + 1 > Len(log) \/ \E k \in (j + 1) .. (index + 1) : HasStamp(k)
    BY <1>1, <1>2 DEF Passed, HasDuration, HasStamp
  <2>1. j \in 1 .. (index - 1)
    BY <1>1, <1>2
  <2>2. PICK k \in (j + 1) .. index : HasStamp(k)
    BY <1>1, <1>2, <1>4, <2>1 DEF EntriesRead, Passed
  <2>3. k \in (j + 1) .. (index + 1)
    BY <1>2, <2>1
  <2> QED
    BY <2>2, <2>3
<1>6. \A i \in Nat : Sound(i) <=> Sound(i)'
  BY <1>1, EntriesSame
<1>7. ~Sound(index)
  BY <1>1 DEF Sound, Entries
<1>8. \A i \in Nat : (Sound(i) /\ i < index)' <=> (Sound(i) /\ i < index)
  BY <1>1, <1>2, <1>6, <1>7
<1>9. \A i : EntryText(i)' = EntryText(i)
  BY <1>1, EntriesSame
<1> QED
  BY <1>1, <1>3, <1>4, <1>5, <1>8, <1>9 DEF EntriesInv, EntriesRead

LEMMA NextEntryEntries ==
  ASSUME LogTyped, EntriesInv, NextEntry
  PROVE  LogTyped' /\ EntriesInv'
<1> DEFINE b == Boundary(index)
           e == [lines |-> EntryText(index), at |-> index, time |-> index]
<1>1. /\ reading = "entries" /\ index <= Len(log) /\ HasDuration(index)
      /\ index' = b /\ log' = log /\ block' = block
  BY DEF NextEntry
<1>2. index \in Nat /\ Len(log) \in Nat /\ index \in DOMAIN log /\ DOMAIN log = 1 .. Len(log)
  BY <1>1, LogDomain DEF LogTyped
<1>3. /\ b \in (index + 1) .. (Len(log) + 1)
      /\ b <= Len(log) => HasStamp(b)
  BY <1>2, BoundaryIs DEF LogTyped
<1>4. \/ /\ log[index] = "bad" \/ EntryText(index) = <<>>
         /\ reading' = reading /\ timed' = timed
      \/ reading' = "TokenError" /\ timed' = timed
      \/ /\ log[index] # "bad" /\ EntryText(index) # <<>>
         /\ reading' = reading /\ timed' = Append(timed, e)
  BY DEF NextEntry
<1>5. EntriesRead
  BY <1>1 DEF EntriesInv
<1>6. index \in Entries
  BY <1>1, <1>5, EntryHere DEF EntriesRead
<1>7. \A i \in (index + 1) .. (b - 1) : i \notin Entries
  BY <1>1, NoEntryInside
<1>8. \A i \in Nat : Sound(i) <=> Sound(i)'
  BY <1>1, EntriesSame
<1>9. \A i : EntryText(i)' = EntryText(i)
  BY <1>1, EntriesSame
<1>10. EntryText(index) # <<>> => e \in Timed
  BY <1>2, EntryTextTyped DEF Timed
<1>11. log[index] # "bad" /\ EntryText(index) # <<>> => Sound(index)
  BY <1>6 DEF Sound
<1>12. log[index] = "bad" \/ EntryText(index) = <<>> => ~Sound(index)
  BY DEF Sound
<1> HIDE DEF b
<1>13. Passed'
  <2> SUFFICES ASSUME NEW j \in 1 .. (b - 1), b <= Len(log)
               PROVE  \E k \in (j + 1) .. b : HasStamp(k)
    BY <1>1, <1>2, <1>3 DEF Passed, HasDuration, HasStamp
  <2> QED
    BY <1>2, <1>3
<1>14. \A i \in Nat : (Sound(i) /\ i < index)' <=> (Sound(i) /\ (i < index \/ i = index))
  <2> SUFFICES ASSUME NEW i \in Nat, Sound(i)
               PROVE  i < b <=> i < index \/ i = index
    BY <1>1, <1>8
  <2>1. i \notin (index + 1) .. (b - 1)
    BY <1>7 DEF Sound
  <2> QED
    BY <1>2, <1>3, <2>1
<1>15. CASE /\ log[index] = "bad" \/ EntryText(index) = <<>>
            /\ reading' = reading /\ timed' = timed
  <2>1. LogTyped'
    BY <1>1, <1>2, <1>3, <1>15 DEF LogTyped
  <2>2. \A i \in Nat : (Sound(i) /\ i < index)' <=> (Sound(i) /\ i < index)
    BY <1>12, <1>14, <1>15
  <2>3. EntriesRead'
    BY <1>5, <1>9, <1>13, <1>15, <2>2 DEF EntriesRead
  <2> QED
    BY <1>1, <1>15, <2>1, <2>3 DEF EntriesInv
<1>16. CASE reading' = "TokenError" /\ timed' = timed
  BY <1>1, <1>2, <1>3, <1>16 DEF LogTyped, EntriesInv
<1>17. CASE /\ log[index] # "bad" /\ EntryText(index) # <<>>
            /\ reading' = reading /\ timed' = Append(timed, e)
  <2> DEFINE n == Len(timed) + 1
  <2>1. /\ timed' \in Seq(Timed) /\ DOMAIN timed' = DOMAIN timed \union {n}
        /\ \A x \in DOMAIN timed : x \in Nat /\ x < n /\ timed'[x] = timed[x]
        /\ timed'[n] = e /\ n \in Nat
    BY <1>10, <1>17, Appended, LenProperties DEF LogTyped
  <2>2. LogTyped'
    BY <1>1, <1>2, <1>3, <1>17, <2>1 DEF LogTyped
  <2> HIDE DEF n
  <2>3. e.at = index /\ e.lines = EntryText(index) /\ e.time = index
    OBVIOUS
  <2>4. \A x \in DOMAIN timed : timed[x].at \in Nat /\ timed[x].at < index
    <3>1. \A x \in DOMAIN timed : timed[x].at \in Nat
      BY TimedTyped
    <3> QED
      BY <1>5, <3>1 DEF EntriesRead
  <2> HIDE DEF e
  <2>5. \A i \in Nat : (Sound(i) /\ i < index)' <=> (\E x \in DOMAIN timed' : timed'[x].at = i)
    <3>1. \A i \in Nat : (Sound(i) /\ (i < index \/ i = index))
                          <=> ((\E x \in DOMAIN timed : timed[x].at = i) \/ i = index)
      BY <1>2, <1>5, <1>11, <1>17 DEF EntriesRead
    <3>2. \A i \in Nat : (\E x \in DOMAIN timed' : timed'[x].at = i)
                          <=> ((\E x \in DOMAIN timed : timed[x].at = i) \/ i = index)
      BY <2>1, <2>3
    <3> QED
      BY <1>14, <3>1, <3>2
  <2>6. \A x, y \in DOMAIN timed' : x < y => timed'[x].at < timed'[y].at
    <3> SUFFICES ASSUME NEW x \in DOMAIN timed', NEW y \in DOMAIN timed', x < y
                 PROVE  timed'[x].at < timed'[y].at
      OBVIOUS
    <3>1. CASE x \in DOMAIN timed /\ y \in DOMAIN timed
      BY <1>5, <2>1, <3>1 DEF EntriesRead
    <3>2. CASE x \in DOMAIN timed /\ y = n
      BY <2>1, <2>3, <2>4, <3>2
    <3>3. CASE x = n
      BY <2>1, <3>3
    <3> QED
      BY <2>1, <3>1, <3>2, <3>3
  <2>7. \A x \in DOMAIN timed' :
           /\ timed'[x].lines = (EntryText(timed[x].at))'
           /\ timed'[x].time = timed'[x].at
    BY <1>5, <1>9, <2>1, <2>3 DEF EntriesRead
  <2>8. EntriesRead'
    BY <1>13, <2>5, <2>6, <2>7 DEF EntriesRead
  <2> QED
    BY <1>1, <1>17, <2>2, <2>8 DEF EntriesInv
<1> QED
  BY <1>4, <1>15, <1>16, <1>17

\* What the invariant says of a call that has ended.
LEMMA EntriesConclusion ==
  ASSUME LogTyped, EntriesInv
  PROVE  EntriesExact
<1> SUFFICES ASSUME reading = "done", block = 0
             PROVE  EntriesExact
  BY DEF EntriesExact
<1> DEFINE sound == {i \in Entries : log[i] # "bad" /\ EntryText(i) # <<>>}
<1>1. EntriesRead /\ index > Len(log) /\ index \in Nat
  BY LogDomain DEF EntriesInv, LogTyped
<1>2. Len(log) \in Nat /\ DOMAIN log = 1 .. Len(log)
  BY LogDomain DEF LogTyped
<1>3. \A i \in sound : i \in Nat /\ i < index
  BY <1>1, <1>2 DEF Entries
<1>4. {timed[x].at : x \in DOMAIN timed} = sound
  <2>1. \A i \in Nat : i \in sound <=> (\E x \in DOMAIN timed : timed[x].at = i)
    BY <1>1, <1>3 DEF EntriesRead, Sound
  <2>2. \A x \in DOMAIN timed : timed[x].at \in Nat
    BY TimedTyped
  <2> HIDE DEF sound
  <2> QED
    BY <1>3, <2>1, <2>2
<1>5. ASSUME NEW x \in DOMAIN timed
      PROVE  LET own == timed[x].lines
             IN  /\ timed[x].time = timed[x].at
                 /\ own[1] \in {timed[x].at} \union
                      {i \in Lines(timed[x].at + 1, own[1]) : log[timed[x].at] = "empty"}
                 /\ \A i \in (timed[x].at + 1) .. own[2] : ~HasStamp(i)
                 /\ \A i \in (own[2] + 1) .. Len(log) :
                      log[i] = "blank" \/ \E k \in (own[2] + 1) .. i : HasStamp(k)
  <2> DEFINE at   == timed[x].at
             own  == timed[x].lines
             from == IF log[at] = "empty" THEN at + 1 ELSE at
             to   == Boundary(at) - 1
             T    == {i \in Lines(from, to) : log[i] # "blank"}
  <2>1. timed[x].time = at /\ own = Stripped(from, to) /\ own # <<>> /\ at \in Entries
    BY <1>1, <1>4 DEF EntriesRead, EntryText
  <2>2. at \in 1 .. Len(log) /\ HasDuration(at)
    BY <1>2, <2>1 DEF Entries
  <2> HIDE DEF at
  <2>3. /\ Boundary(at) \in (at + 1) .. (Len(log) + 1)
        /\ Boundary(at) <= Len(log) => HasStamp(Boundary(at))
        /\ \A n \in (at + 1) .. (Boundary(at) - 1) : ~HasStamp(n)
    BY <2>2, BoundaryIs DEF LogTyped
  <2>4. from \in Nat /\ to \in Int
    BY <1>2, <2>2, <2>3
  <2>5. /\ own[1] \in T /\ own[2] \in T
        /\ \A i \in T : own[1] <= i /\ i <= own[2]
    <3> HIDE DEF from, to
    <3> QED
      BY <2>1, <2>4, StrippedText DEF LogTyped
  <2>6. own[1] \in {at} \union {i \in Lines(at + 1, own[1]) : log[at] = "empty"}
    <3>1. own[1] \in Nat /\ own[1] <= Len(log) /\ own[1] >= from
      BY <1>2, <2>2, <2>5 DEF Lines
    <3>2. CASE log[at] = "empty"
      BY <2>2, <3>1, <3>2 DEF Lines
    <3>3. CASE log[at] # "empty"
      <4>1. at \in T
        BY <1>2, <2>2, <2>3, <3>3 DEF Lines, HasDuration
      <4> QED
        BY <2>2, <2>5, <3>1, <3>3, <4>1
    <3> QED
      BY <3>2, <3>3
  <2>7. own[2] \in Nat /\ own[2] <= to /\ own[2] >= at
    BY <2>2, <2>3, <2>5 DEF Lines
  <2>8. \A i \in (at + 1) .. own[2] : ~HasStamp(i)
    BY <2>2, <2>3, <2>7
  <2>9. ASSUME NEW i \in (own[2] + 1) .. Len(log), log[i] # "blank"
        PROVE  \E k \in (own[2] + 1) .. i : HasStamp(k)
    <3>1. i > to
      <4> SUFFICES ASSUME i <= to
                   PROVE  i \in T
        BY <1>2, <2>2, <2>3, <2>5, <2>7
      <4> QED
        BY <1>2, <2>2, <2>3, <2>7, <2>9 DEF Lines
    <3>2. Boundary(at) \in (own[2] + 1) .. i /\ Boundary(at) <= Len(log)
      BY <1>2, <2>2, <2>3, <2>7, <3>1
    <3> QED
      BY <2>3, <3>2
  <2> QED
    BY <2>1, <2>6, <2>8, <2>9 DEF at
<1> QED
  BY <1>1, <1>4, <1>5 DEF EntriesExact, EntriesRead

-----------------------------------------------------------------------------
(* The log parser: blocks of the simple format.                            *)

\* The statement of a documented block, its last line, and how far a match goes.
LEMMA BlockStatement ==
  ASSUME LogTyped, NEW i \in DOMAIN log, NEW j \in DOMAIN log, IsBlock(i, j)
  PROVE  \E last \in (i + 1) .. (j - 2) :
            /\ log[last] # "blank" /\ Blank(last + 1, j - 1)
            /\ Ends(i + 1) # {} /\ last \in Ends(i + 1)
            /\ \A e \in Ends(i + 1) : e >= last
            /\ j + 1 \in Numbers(j)
            /\ Stripped(i + 1, last) = Stripped(i + 1, j - 1)
<1>1. Len(log) \in Nat /\ DOMAIN log = 1 .. Len(log)
  BY LogDomain DEF LogTyped
<1>2. i \in Nat /\ j \in Nat /\ i + 1 < j - 1 /\ j < Len(log) /\ i >= 1
  BY <1>1 DEF IsBlock
<1>3. /\ log[i] = "query" /\ log[j] = "time" /\ log[j - 1] = "blank"
      /\ log[i + 1] # "blank" /\ log[j + 1] \in {"ms", "badms"}
      /\ \A k \in (i + 1) .. (j - 1) : log[k] # "query" /\ log[k] # "time"
  BY DEF IsBlock
<1> DEFINE T == {k \in (i + 1) .. (j - 1) : log[k] # "blank"}
<1>4. T \subseteq 0 .. Len(log) /\ i + 1 \in T
  BY <1>1, <1>2, <1>3
<1>5. PICK last \in T : \A k \in T : k <= last
  <2>1. T # {}
    BY <1>4
  <2> HIDE DEF T
  <2> QED
    BY <1>1, <1>4, <2>1, MinMax
<1>6. last \in (i + 1) .. (j - 2) /\ log[last] # "blank"
  BY <1>2, <1>3, <1>5
<1>7. \A k \in (last + 1) .. (j - 1) : log[k] = "blank"
  BY <1>2, <1>5, <1>6
<1>8. Blank(last + 1, j - 1)
  BY <1>7 DEF Blank, Lines
<1>9. j + 1 \in Numbers(j)
  BY <1>1, <1>2, <1>3 DEF Numbers, Lines, Blank
<1>10. last \in Ends(i + 1)
  <2>1. j \in Lines(last + 2, Len(log)) /\ last \in (i + 1) .. Len(log)
    BY <1>1, <1>2, <1>6 DEF Lines
  <2> QED
    BY <1>3, <1>8, <1>9, <2>1 DEF Ends
<1>11. ASSUME NEW e \in Ends(i + 1), e < last
       PROVE  FALSE
  <2>1. e \in (i + 1) .. Len(log)
    BY DEF Ends
  <2>2. PICK t \in Lines(e + 2, Len(log)) : log[t] = "time" /\ Blank(e + 1, t - 1)
    BY DEF Ends
  <2>3. t \in Nat /\ t >= e + 2 /\ t <= Len(log)
    BY <1>1, <2>1, <2>2 DEF Lines
  <2>4. t <= last
    <3> SUFFICES ASSUME last < t
                 PROVE  FALSE
      BY <1>6, <2>3
    <3>1. last \in Lines(e + 1, t - 1)
      BY <1>1, <1>2, <1>6, <1>11, <2>1, <2>3 DEF Lines
    <3> QED
      BY <1>6, <2>2, <3>1 DEF Blank
  <2>5. t \in (i + 1) .. (j - 1)
    BY <1>2, <1>6, <2>1, <2>3, <2>4
  <2> QED
    BY <1>3, <2>2, <2>5
<1>12. \A e \in Ends(i + 1) : e >= last
  <2>1. \A e \in Ends(i + 1) : e \in Nat
    BY <1>2 DEF Ends
  <2> QED
    BY <1>6, <1>11, <2>1
<1>13. {k \in Lines(i + 1, last) : log[k] # "blank"} = {k \in Lines(i + 1, j - 1) : log[k] # "blank"}
  BY <1>1, <1>2, <1>6, <1>7 DEF Lines
<1>14. Stripped(i + 1, last) = Stripped(i + 1, j - 1)
  BY <1>13 DEF Stripped
<1> QED
  BY <1>6, <1>8, <1>9, <1>10, <1>12, <1>14

\* The pattern matches a documented block as documented.
LEMMA BlockMatch ==
  ASSUME LogTyped, NEW i \in DOMAIN log, NEW j \in DOMAIN log, IsBlock(i, j)
  PROVE  /\ Matches(i) # {}
         /\ \A match \in Matches(i) :
               /\ Stripped(match[1], match[2]) = Stripped(i + 1, j - 1)
               /\ Min({t \in Lines(match[2] + 1, Len(log)) : log[t] = "time"}) = j
         /\ Min(Numbers(j)) = j + 1
<1>1. Len(log) \in Nat /\ DOMAIN log = 1 .. Len(log)
  BY LogDomain DEF LogTyped
<1>2. PICK last \in (i + 1) .. (j - 2) :
            /\ log[last] # "blank" /\ Blank(last + 1, j - 1)
            /\ last \in Ends(i + 1)
            /\ \A e \in Ends(i + 1) : e >= last
            /\ j + 1 \in Numbers(j)
            /\ Stripped(i + 1, last) = Stripped(i + 1, j - 1)
  BY BlockStatement
<1>3. /\ i + 1 < j - 1 /\ j < Len(log) /\ log[i] = "query" /\ log[j] = "time"
      /\ log[i + 1] # "blank"
  BY DEF IsBlock
<1>4. \A c \in (i + 2) .. Len(log) : ~Blank(i + 1, c - 1)
  <2> SUFFICES ASSUME NEW c \in (i + 2) .. Len(log)
               PROVE  i + 1 \in Lines(i + 1, c - 1)
    BY <1>3 DEF Blank
  <2> QED
    BY <1>1 DEF Lines
<1>5. <<i + 1, last>> \in Matches(i)
  <2> DEFINE match == <<i + 1, last>>
  <2>1. match \in (i + 1 .. Len(log)) \X (i + 1 .. Len(log))
    BY <1>1, <1>2, <1>3
  <2>2. Blank(i + 1, (i + 1) - 1)
    BY <1>1 DEF Blank, Lines
  <2>3. \A c \in ((i + 1) + 1) .. Len(log) : ~Blank(i + 1, c - 1)
    BY <1>1, <1>4
  <2>4. match[1] = i + 1 /\ match[2] = last
    OBVIOUS
  <2> HIDE DEF match
  <2>5. match \in Matches(i)
    BY <1>2, <1>3, <2>1, <2>2, <2>3, <2>4 DEF Matches
  <2> QED
    BY <2>5 DEF match
<1>6. ASSUME NEW match \in Matches(i)
      PROVE  match[1] = i + 1 /\ match[2] = last
  <2>1. /\ match[1] \in (i + 1) .. Len(log) /\ Blank(i + 1, match[1] - 1)
        /\ match[2] \in Ends(match[1]) /\ \A f \in Ends(match[1]) : f >= match[2]
    BY DEF Matches
  <2>2. match[1] = i + 1
    BY <1>1, <1>4, <2>1
  <2>3. match[2] \in Nat
    BY <1>1, <2>1, <2>2 DEF Ends
  <2> QED
    BY <1>2, <2>1, <2>2, <2>3
<1>7. Min({t \in Lines(last + 1, Len(log)) : log[t] = "time"}) = j
  <2> DEFINE T == {t \in Lines(last + 1, Len(log)) : log[t] = "time"}
  <2>1. T \subseteq Int /\ j \in T
    BY <1>1, <1>2, <1>3 DEF Lines
  <2>2. \A t \in T : j <= t
    <3> SUFFICES ASSUME NEW t \in T, t < j
                 PROVE  FALSE
      BY <1>1, <2>1
    <3>1. t \in Lines(last + 1, j - 1)
      BY <1>1, <1>2, <1>3 DEF Lines
    <3> QED
      BY <1>2, <3>1 DEF Blank
  <2> HIDE DEF T
  <2>3. Min(T) = j
    BY <2>1, <2>2, MinMaxAre
  <2> QED
    BY <2>3 DEF T
<1>8. Min(Numbers(j)) = j + 1
  <2>1. Numbers(j) \subseteq Int /\ \A n \in Numbers(j) : j + 1 <= n
    BY <1>1 DEF Numbers, Lines
  <2> QED
    BY <1>2, <2>1, MinMaxAre
<1> QED
  BY <1>2, <1>5, <1>6, <1>7, <1>8

Documented ==
  \A i \in DOMAIN log : log[i] = "query" => \E j \in DOMAIN log : <<i, j>> \in Blocks

\* The blocks that begin before a line, and the number and the query of a block.
Above(i) == {c \in Blocks : c[1] < i}

Number(b) == Cardinality({c \in Blocks : c[1] <= b[1]})

BlockQuery(b) ==
  [lines |-> Stripped(b[1] + 1, b[2] - 1), at |-> Number(b), time |-> b[2] + 1]

\* The sound ones among the blocks above a line are the queries.
BlocksRead(i) ==
  /\ \A x, y \in DOMAIN timed : x < y => timed[x].at < timed[y].at
  /\ \A b \in Blocks : b[1] < i /\ log[b[2] + 1] = "ms" =>
        \E x \in DOMAIN timed : timed[x] = BlockQuery(b)
  /\ \A x \in DOMAIN timed :
        \E b \in Blocks : b[1] < i /\ log[b[2] + 1] = "ms" /\ timed[x] = BlockQuery(b)

BlocksInv ==
  Documented =>
    /\ reading = "blocks" => /\ block = Cardinality(Above(index))
                             /\ BlocksRead(index)
                             /\ \A x \in DOMAIN timed : timed[x].at <= block
    /\ reading = "entries" => \A b \in Blocks : log[b[2] + 1] # "ms"
    /\ reading = "done" => \/ \A b \in Blocks : log[b[2] + 1] # "ms"
                           \/ BlocksRead(Len(log) + 1)

LEMMA BlocksSame ==
  ASSUME log' = log
  PROVE  /\ Blocks' = Blocks /\ (Documented' <=> Documented)
         /\ \A b : BlockQuery(b)' = BlockQuery(b)
         /\ \A i : Above(i)' = Above(i)
<1>1. Blocks' = Blocks
  BY DEF Blocks, IsBlock
<1>2. Documented' <=> Documented
  BY <1>1 DEF Documented
<1>3. \A b : Stripped(b[1] + 1, b[2] - 1)' = Stripped(b[1] + 1, b[2] - 1)
  BY DEF Stripped, Lines
<1>4. \A b : Number(b)' = Number(b)
  BY <1>1 DEF Number
<1>5. \A b : BlockQuery(b)' = BlockQuery(b)
  BY <1>3, <1>4 DEF BlockQuery
<1>6. \A i : Above(i)' = Above(i)
  BY <1>1 DEF Above
<1> QED
  BY <1>1, <1>2, <1>5, <1>6

LEMMA BlocksFinite ==
  ASSUME LogTyped
  PROVE  /\ IsFiniteSet(Blocks)
         /\ \A b \in Blocks : /\ b = <<b[1], b[2]>> /\ IsBlock(b[1], b[2])
                              /\ b[1] \in DOMAIN log /\ b[2] \in DOMAIN log
<1>1. IsFiniteSet(DOMAIN log)
  BY LogDomain, FS_Interval DEF LogTyped
<1>2. Blocks \subseteq (DOMAIN log) \X (DOMAIN log)
  BY DEF Blocks
<1>3. IsFiniteSet(Blocks)
  BY <1>1, <1>2, FS_Product, FS_Subset
<1> QED
  BY <1>3 DEF Blocks

\* Two blocks do not overlap.
LEMMA BlocksApart ==
  ASSUME LogTyped, NEW i \in DOMAIN log, NEW j \in DOMAIN log, IsBlock(i, j),
         NEW c \in Blocks, c[1] >= i, c[1] < j + 2
  PROVE  c = <<i, j>>
<1>1. Len(log) \in Nat /\ DOMAIN log = 1 .. Len(log)
  BY LogDomain DEF LogTyped
<1>2. /\ c = <<c[1], c[2]>> /\ IsBlock(c[1], c[2])
      /\ c[1] \in DOMAIN log /\ c[2] \in DOMAIN log
  BY BlocksFinite
<1>3. log[c[1]] = "query"
  BY <1>2 DEF IsBlock
<1>4. c[1] \in i .. (j + 1)
  BY <1>1, <1>2
<1>5. /\ log[j] = "time" /\ log[j + 1] \in {"ms", "badms"}
      /\ \A k \in (i + 1) .. (j - 1) : log[k] # "query"
  BY DEF IsBlock
<1>6. c[1] \notin (i + 1) .. (j - 1) /\ c[1] # j /\ c[1] # j + 1
  BY <1>3, <1>5
<1>7. c[1] = i
  BY <1>1, <1>4, <1>6
<1>8. c[2] = j
  <2>1. /\ i + 1 < j - 1 /\ log[j] = "time"
        /\ \A k \in (i + 1) .. (j - 1) : log[k] # "time"
    BY DEF IsBlock
  <2>2. /\ i + 1 < c[2] - 1 /\ log[c[2]] = "time"
        /\ \A k \in (i + 1) .. (c[2] - 1) : log[k] # "time"
    BY <1>2, <1>7 DEF IsBlock
  <2>3. c[2] \notin (i + 1) .. (j - 1) /\ j \notin (i + 1) .. (c[2] - 1)
    BY <2>1, <2>2
  <2> QED
    BY <1>1, <1>2, <2>1, <2>2, <2>3
<1> QED
  BY <1>2, <1>7, <1>8

\* Where the next match is in a documented log.
LEMMA NextBlockIs ==
  ASSUME LogTyped, Documented, NextBlock
  PROVE  \E i \in index .. Len(log) : \E j \in DOMAIN log :
            /\ i \in DOMAIN log /\ <<i, j>> \in Blocks /\ IsBlock(i, j)
            /\ \A c \in Blocks : c[1] < i => c[1] < index
            /\ log' = log /\ index' = j + 2 /\ block' = block + 1
            /\ LET part == Stripped(i + 1, j - 1)
               IN  IF part = <<>> \/ log[j + 1] = "badms"
                   THEN reading' = reading /\ timed' = timed
                   ELSE IF Untokenizable(part)
                   THEN reading' = "TokenError" /\ timed' = timed
                   ELSE /\ timed' = Append(timed, [lines |-> part, at |-> block + 1,
                                                   time |-> j + 1])
                        /\ reading' = reading
<1>1. Len(log) \in Nat /\ DOMAIN log = 1 .. Len(log) /\ index \in Nat /\ index >= 1
  BY LogDomain DEF LogTyped
<1>2. PICK i \in index .. Len(log) :
        /\ Matches(i) # {}
        /\ \A j \in index .. (i - 1) : Matches(j) = {}
        /\ \E match \in Matches(i) : TakeBlock(match)
  BY DEF NextBlock
<1>3. i \in DOMAIN log
  BY <1>1
<1>4. log[i] = "query"
  BY <1>2 DEF Matches
<1>5. PICK j \in DOMAIN log : <<i, j>> \in Blocks
  BY <1>3, <1>4 DEF Documented
<1>6. IsBlock(i, j)
  BY <1>5 DEF Blocks
<1>7. ASSUME NEW c \in Blocks, c[1] < i, ~(c[1] < index)
      PROVE  FALSE
  <2>1. c[1] \in DOMAIN log /\ c[2] \in DOMAIN log /\ IsBlock(c[1], c[2])
    BY BlocksFinite
  <2>2. Matches(c[1]) # {}
    BY <2>1, BlockMatch
  <2>3. c[1] \in index .. (i - 1)
    BY <1>1, <1>7, <2>1
  <2> QED
    BY <1>2, <2>2, <2>3
<1>8. /\ \A match \in Matches(i) :
               /\ Stripped(match[1], match[2]) = Stripped(i + 1, j - 1)
               /\ Min({t \in Lines(match[2] + 1, Len(log)) : log[t] = "time"}) = j
      /\ Min(Numbers(j)) = j + 1
  BY <1>3, <1>6, BlockMatch
<1>9. /\ index' = (j + 1) + 1 /\ block' = block + 1
      /\ LET part == Stripped(i + 1, j - 1)
         IN  IF part = <<>> \/ log[j + 1] = "badms"
             THEN reading' = reading /\ timed' = timed
             ELSE IF Untokenizable(part)
             THEN reading' = "TokenError" /\ timed' = timed
             ELSE /\ timed' = Append(timed, [lines |-> part, at |-> block + 1, time |-> j + 1])
                  /\ reading' = reading
  BY <1>2, <1>8 DEF TakeBlock
<1>10. index' = j + 2 /\ log' = log
  BY <1>1, <1>9 DEF NextBlock
<1> QED
  BY <1>3, <1>5, <1>6, <1>7, <1>9, <1>10

\* What any match finds.
LEMMA MatchTyped ==
  ASSUME LogTyped, NEW i \in 1 .. Len(log), NEW match \in Matches(i)
  PROVE  LET part == Stripped(match[1], match[2])
             time == Min({t \in Lines(match[2] + 1, Len(log)) : log[t] = "time"})
         IN  /\ part # <<>> => part \in Nat \X Nat
             /\ time \in 1 .. Len(log)
             /\ Min(Numbers(time)) \in 1 .. Len(log)
<1> DEFINE b == match[1]
           e == match[2]
           T == {t \in Lines(e + 1, Len(log)) : log[t] = "time"}
<1>1. Len(log) \in Nat /\ DOMAIN log = 1 .. Len(log)
  BY LogDomain DEF LogTyped
<1>2. b \in (i + 1) .. Len(log) /\ e \in Ends(b)
  BY DEF Matches
<1> HIDE DEF b, e
<1>3. b \in Nat /\ e \in Nat /\ e >= b /\ b >= 1
  BY <1>1, <1>2 DEF Ends
<1>4. PICK j \in Lines(e + 2, Len(log)) :
        log[j] = "time" /\ Blank(e + 1, j - 1) /\ Numbers(j) # {}
  BY <1>2 DEF Ends
<1>5. j \in Nat /\ j >= e + 2 /\ j <= Len(log)
  BY <1>1, <1>3, <1>4 DEF Lines
<1>6. Min(T) = j
  <2>1. T \subseteq Int /\ j \in T
    BY <1>1, <1>3, <1>4, <1>5 DEF Lines
  <2>2. \A t \in T : j <= t
    <3> SUFFICES ASSUME NEW t \in T, t < j
                 PROVE  FALSE
      BY <1>5, <2>1
    <3>1. t \in Lines(e + 1, j - 1) /\ log[t] = "time"
      BY <1>1, <1>3, <1>5 DEF Lines
    <3> QED
      BY <1>4, <3>1 DEF Blank
  <2> HIDE DEF T
  <2> QED
    BY <2>1, <2>2, MinMaxAre
<1>7. Min(Numbers(j)) \in Numbers(j)
  <2>1. Numbers(j) \subseteq 0 .. Len(log)
    BY <1>1, <1>5 DEF Numbers, Lines
  <2> QED
    BY <1>1, <1>4, <2>1, MinMax
<1>8. Min(Numbers(j)) \in 1 .. Len(log)
  BY <1>1, <1>5, <1>7 DEF Numbers, Lines
<1>9. Stripped(b, e) # <<>> => Stripped(b, e) \in Nat \X Nat
  BY <1>1, <1>3, StrippedText DEF LogTyped
<1> QED
  BY <1>1, <1>3, <1>5, <1>6, <1>8, <1>9 DEF b, e

LEMMA NextBlockTyped ==
  ASSUME LogTyped, EntriesInv, NextBlock
  PROVE  LogTyped' /\ EntriesInv' /\ reading = "blocks"
<1>1. Len(log) \in Nat /\ index \in Nat /\ index >= 1 /\ reading = "blocks" /\ log' = log
  BY LogDomain DEF LogTyped, NextBlock
<1>2. PICK i \in index .. Len(log) : \E match \in Matches(i) : TakeBlock(match)
  BY DEF NextBlock
<1>3. i \in 1 .. Len(log)
  BY <1>1
<1> PICK match \in Matches(i) : TakeBlock(match)
  BY <1>2
<1> DEFINE part == Stripped(match[1], match[2])
           number == Min(Numbers(Min({t \in Lines(match[2] + 1, Len(log)) : log[t] = "time"})))
           e == [lines |-> part, at |-> block + 1, time |-> number]
<1>4. /\ part # <<>> => part \in Nat \X Nat
      /\ number \in 1 .. Len(log)
  BY <1>3, MatchTyped
<1>5. /\ index' = number + 1 /\ block' = block + 1
      /\ \/ reading' = reading /\ timed' = timed
         \/ reading' = "TokenError" /\ timed' = timed
         \/ reading' = reading /\ part # <<>> /\ timed' = Append(timed, e)
  BY DEF TakeBlock
<1> HIDE DEF part, number
<1>6. index' \in 1 .. (Len(log) + 1) /\ block' \in Nat /\ block \in Nat
  BY <1>1, <1>4, <1>5 DEF LogTyped
<1>7. part # <<>> => e \in Timed
  BY <1>1, <1>4, <1>6 DEF Timed
<1> HIDE DEF e
<1>8. timed' \in Seq(Timed) /\ reading' \in {"blocks", "TokenError"}
  <2>1. timed \in Seq(Timed)
    BY DEF LogTyped
  <2>2. part # <<>> => Append(timed, e) \in Seq(Timed)
    BY <1>7, <2>1, Appended
  <2>3. timed' = timed \/ (part # <<>> /\ timed' = Append(timed, e))
    BY <1>5
  <2>4. timed' \in Seq(Timed)
    BY <2>1, <2>2, <2>3
  <2> QED
    BY <1>1, <1>5, <2>4
<1>9. block' # 0
  BY <1>5, <1>6
<1> QED
  BY <1>1, <1>6, <1>8, <1>9 DEF LogTyped, EntriesInv

\* The number of a block is one more than that of the blocks above it.
LEMMA OneMore ==
  ASSUME LogTyped, NEW i \in DOMAIN log, NEW j \in DOMAIN log, <<i, j>> \in Blocks,
         NEW k \in Nat, k <= i, \A c \in Blocks : c[1] < i => c[1] < k
  PROVE  /\ Above(j + 2) = Above(k) \union {<<i, j>>}
         /\ Cardinality(Above(j + 2)) = Cardinality(Above(k)) + 1
         /\ Cardinality(Above(k)) \in Nat
         /\ Number(<<i, j>>) = Cardinality(Above(k)) + 1
<1>1. IsBlock(i, j) /\ i + 1 < j - 1 /\ i \in Nat /\ j \in Nat
  <2>1. IsBlock(<<i, j>>[1], <<i, j>>[2])
    BY DEF Blocks
  <2> QED
    BY <2>1, LogDomain DEF IsBlock, LogTyped
<1>2. \A c \in Blocks : c[1] \in Nat
  BY BlocksFinite, LogDomain DEF LogTyped
<1>3. \A c \in Blocks : c[1] >= i /\ c[1] < j + 2 => c = <<i, j>>
  BY <1>1, BlocksApart
<1>4. Above(j + 2) = Above(k) \union {<<i, j>>}
  <2>1. ASSUME NEW c \in Blocks
        PROVE  c[1] < j + 2 <=> c[1] < k \/ c = <<i, j>>
    <3>1. CASE c[1] < i
      BY <1>1, <1>2, <3>1
    <3>2. CASE c[1] >= i
      <4>1. c = <<i, j>> => c[1] < j + 2
        BY <1>1
      <4>2. ~(c[1] < k)
        BY <1>1, <1>2, <3>2
      <4> QED
        BY <1>3, <3>2, <4>1, <4>2
    <3> QED
      BY <1>1, <1>2, <3>1, <3>2
  <2> QED
    BY <2>1 DEF Above
<1>5. {c \in Blocks : c[1] <= i} = Above(j + 2)
  <2>1. ASSUME NEW c \in Blocks
        PROVE  c[1] <= i <=> c[1] < j + 2
    <3>1. c[1] >= i /\ c[1] < j + 2 => c[1] = i
      BY <1>3
    <3> QED
      BY <1>1, <1>2, <3>1
  <2> QED
    BY <2>1 DEF Above
<1>6. <<i, j>> \notin Above(k)
  <2>1. ~(<<i, j>>[1] < k)
    BY <1>1
  <2> QED
    BY <2>1 DEF Above
<1>7. IsFiniteSet(Above(k))
  BY BlocksFinite, FS_Subset DEF Above
<1>8. Cardinality(Above(j + 2)) = Cardinality(Above(k)) + 1
  BY <1>4, <1>6, <1>7, FS_AddElement
<1>9. Number(<<i, j>>) = Cardinality(Above(j + 2))
  BY <1>5 DEF Number
<1> QED
  BY <1>4, <1>7, <1>8, <1>9, FS_CardinalityType

LEMMA NextBlockBlocks ==
  ASSUME LogTyped, EntriesInv, BlocksInv, NextBlock
  PROVE  BlocksInv'
<1> SUFFICES ASSUME Documented'
             PROVE  BlocksInv'
  BY DEF BlocksInv
<1>1. log' = log /\ reading = "blocks" /\ Len(log) \in Nat /\ index \in Nat /\ block \in Nat
  BY LogDomain DEF NextBlock, LogTyped
<1>2. /\ Documented /\ Blocks' = Blocks
      /\ \A b : BlockQuery(b)' = BlockQuery(b)
      /\ \A i : Above(i)' = Above(i)
  BY <1>1, BlocksSame
<1>3. PICK i \in index .. Len(log) : \E j \in DOMAIN log :
            /\ i \in DOMAIN log /\ <<i, j>> \in Blocks /\ IsBlock(i, j)
            /\ \A c \in Blocks : c[1] < i => c[1] < index
            /\ log' = log /\ index' = j + 2 /\ block' = block + 1
            /\ LET part == Stripped(i + 1, j - 1)
               IN  IF part = <<>> \/ log[j + 1] = "badms"
                   THEN reading' = reading /\ timed' = timed
                   ELSE IF Untokenizable(part)
                   THEN reading' = "TokenError" /\ timed' = timed
                   ELSE /\ timed' = Append(timed, [lines |-> part, at |-> block + 1,
                                                   time |-> j + 1])
                        /\ reading' = reading
  BY <1>2, NextBlockIs
<1>4. PICK j \in DOMAIN log :
            /\ i \in DOMAIN log /\ <<i, j>> \in Blocks /\ IsBlock(i, j)
            /\ \A c \in Blocks : c[1] < i => c[1] < index
            /\ log' = log /\ index' = j + 2 /\ block' = block + 1
            /\ LET part == Stripped(i + 1, j - 1)
               IN  IF part = <<>> \/ log[j + 1] = "badms"
                   THEN reading' = reading /\ timed' = timed
                   ELSE IF Untokenizable(part)
                   THEN reading' = "TokenError" /\ timed' = timed
                   ELSE /\ timed' = Append(timed, [lines |-> part, at |-> block + 1,
                                                   time |-> j + 1])
                        /\ reading' = reading
  BY <1>3
<1> DEFINE part == Stripped(i + 1, j - 1)
           e == [lines |-> part, at |-> block + 1, time |-> j + 1]
           new == <<i, j>>
<1>5. index <= i
  BY <1>1
<1>6. /\ Above(j + 2) = Above(index) \union {new}
      /\ Cardinality(Above(j + 2)) = Cardinality(Above(index)) + 1
      /\ Number(new) = Cardinality(Above(index)) + 1
  BY <1>1, <1>4, <1>5, OneMore
<1>7. /\ block = Cardinality(Above(index)) /\ BlocksRead(index)
      /\ \A x \in DOMAIN timed : timed[x].at <= block
  BY <1>1, <1>2 DEF BlocksInv
<1>8. block' = Cardinality(Above(index))'
  <2>1. Above(index)' = Above(j + 2)
    BY <1>2, <1>4 DEF Above
  <2> QED
    BY <1>4, <1>6, <1>7, <2>1
<1>9. \A b : b \in Blocks /\ b[1] < j + 2 <=> (b \in Blocks /\ b[1] < index) \/ b = new
  BY <1>6 DEF Above
<1>10. new \in Blocks /\ new[1] = i /\ new[2] = j
  BY <1>4
<1>11. e = BlockQuery(new)
  BY <1>6, <1>7, <1>10 DEF BlockQuery
<1>12. part # <<>>
  <2>1. /\ i \in Nat /\ j - 1 \in Int /\ i + 1 \in Lines(i + 1, j - 1) /\ log[i + 1] # "blank"
    BY SMTT(20), <1>1, <1>4, LogDomain DEF IsBlock, Lines, LogTyped
  <2>2. {k \in Lines(i + 1, j - 1) : log[k] # "blank"} # {}
    BY <2>1
  <2> QED
    BY <2>1, <2>2, StrippedText DEF LogTyped
<1>13. log[j + 1] \in {"ms", "badms"}
  BY <1>4 DEF IsBlock
<1>14. \/ log[j + 1] = "badms" /\ reading' = reading /\ timed' = timed
       \/ reading' = "TokenError" /\ timed' = timed
       \/ log[j + 1] = "ms" /\ reading' = reading /\ timed' = Append(timed, e)
  BY <1>4, <1>12, <1>13
<1> HIDE DEF part, e, new
<1>15. CASE log[j + 1] = "badms" /\ reading' = reading /\ timed' = timed
  <2>1. BlocksRead(j + 2)
    BY <1>7, <1>9, <1>10, <1>15 DEF BlocksRead
  <2>2. BlocksRead(index)'
    BY <1>1, <1>2, <1>4, <1>15, <2>1 DEF BlocksRead
  <2>3. \A x \in DOMAIN timed : timed[x].at <= block + 1
    BY <1>1, <1>7, TimedTyped
  <2> QED
    BY <1>1, <1>4, <1>8, <1>15, <2>2, <2>3 DEF BlocksInv
<1>16. CASE reading' = "TokenError" /\ timed' = timed
  BY <1>16 DEF BlocksInv
<1>17. CASE log[j + 1] = "ms" /\ reading' = reading /\ timed' = Append(timed, e)
  <2> DEFINE n == Len(timed) + 1
  <2>1. e \in Timed
    <3>1. part \in Nat \X Nat /\ j \in Nat
      <4>1. /\ i \in Nat /\ j - 1 \in Int /\ j \in Nat
        BY <1>1, <1>4, LogDomain DEF LogTyped
      <4> QED
        BY <1>12, <4>1, StrippedText DEF LogTyped, part
    <3> QED
      BY <1>1, <3>1 DEF e, Timed
  <2>2. /\ DOMAIN timed' = DOMAIN timed \union {n}
        /\ \A x \in DOMAIN timed : x \in Nat /\ x < n /\ timed'[x] = timed[x]
        /\ timed'[n] = e /\ n \in Nat
    BY <1>17, <2>1, Appended, LenProperties DEF LogTyped
  <2> HIDE DEF n
  <2>3. e.at = block + 1
    BY DEF e
  <2>4. \A x \in DOMAIN timed : timed[x].at \in Nat /\ timed[x].at < block + 1
    BY <1>1, <1>7, TimedTyped
  <2>5. \A x, y \in DOMAIN timed' : x < y => timed'[x].at < timed'[y].at
    <3> SUFFICES ASSUME NEW x \in DOMAIN timed', NEW y \in DOMAIN timed', x < y
                 PROVE  timed'[x].at < timed'[y].at
      OBVIOUS
    <3>1. CASE x \in DOMAIN timed /\ y \in DOMAIN timed
      BY <1>7, <2>2, <3>1 DEF BlocksRead
    <3>2. CASE x \in DOMAIN timed /\ y = n
      BY <2>2, <2>3, <2>4, <3>2
    <3>3. CASE x = n
      BY <2>2, <3>3
    <3> QED
      BY <2>2, <3>1, <3>2, <3>3
  <2>6. \A b \in Blocks : b[1] < j + 2 /\ log[b[2] + 1] = "ms" =>
           \E x \in DOMAIN timed' : timed'[x] = BlockQuery(b)
    BY <1>7, <1>9, <1>11, <2>2 DEF BlocksRead
  <2>7. \A x \in DOMAIN timed' :
           \E b \in Blocks : b[1] < j + 2 /\ log[b[2] + 1] = "ms" /\ timed'[x] = BlockQuery(b)
    <3> SUFFICES ASSUME NEW x \in DOMAIN timed'
                 PROVE  \E b \in Blocks :
                          b[1] < j + 2 /\ log[b[2] + 1] = "ms" /\ timed'[x] = BlockQuery(b)
      OBVIOUS
    <3>1. CASE x \in DOMAIN timed
      BY <1>7, <1>9, <2>2, <3>1 DEF BlocksRead
    <3>2. CASE x = n
      BY <1>9, <1>10, <1>11, <1>17, <2>2, <3>2
    <3> QED
      BY <2>2, <3>1, <3>2
  <2>8. BlocksRead(index)'
    BY <1>1, <1>2, <1>4, <2>5, <2>6, <2>7 DEF BlocksRead
  <2>9. \A x \in DOMAIN timed' : timed'[x].at <= block + 1
    BY <1>1, <2>2, <2>3, <2>4
  <2> QED
    BY <1>1, <1>4, <1>8, <1>17, <2>8, <2>9 DEF BlocksInv
<1> QED
  BY <1>14, <1>15, <1>16, <1>17

LEMMA NoMoreBlocksLog ==
  ASSUME LogTyped, EntriesInv, BlocksInv, NoMoreBlocks
  PROVE  LogTyped' /\ EntriesInv' /\ BlocksInv'
<1>1. /\ reading = "blocks" /\ index' = 1 /\ log' = log /\ block' = block /\ timed' = timed
      /\ reading' = IF timed = <<>> THEN "entries" ELSE "done"
      /\ \A i \in index .. Len(log) : Matches(i) = {}
  BY DEF NoMoreBlocks
<1>2. Len(log) \in Nat /\ index \in Nat /\ DOMAIN log = 1 .. Len(log) /\ index >= 1
  BY LogDomain DEF LogTyped
<1>3. LogTyped'
  BY <1>1, <1>2 DEF LogTyped
<1>4. EntriesInv'
  <2>1. CASE timed = <<>>
    <3>1. DOMAIN timed = {}
      BY <2>1
    <3>2. Passed'
      BY <1>1, <1>2 DEF Passed
    <3>3. \A i \in Nat : ~(Sound(i) /\ i < index)'
      BY <1>1, <1>2 DEF Sound, Entries
    <3> QED
      BY <1>1, <2>1, <3>1, <3>2, <3>3 DEF EntriesInv, EntriesRead
  <2>2. CASE timed # <<>>
    BY <1>1, <2>2 DEF EntriesInv
  <2> QED
    BY <2>1, <2>2
<1>5. ASSUME Documented'
      PROVE  /\ timed = <<>> => \A b \in Blocks : log[b[2] + 1] # "ms"
             /\ BlocksRead(Len(log) + 1)
  <2>1. Documented
    BY <1>1, <1>5, BlocksSame
  <2>2. BlocksRead(index)
    BY <1>1, <2>1 DEF BlocksInv
  <2>3. \A b \in Blocks : b[1] \in Nat /\ b[1] < index
    <3> SUFFICES ASSUME NEW b \in Blocks
                 PROVE  b[1] \in Nat /\ b[1] < index
      OBVIOUS
    <3>1. b[1] \in DOMAIN log /\ b[2] \in DOMAIN log /\ IsBlock(b[1], b[2])
      BY BlocksFinite
    <3>2. Matches(b[1]) # {}
      BY <3>1, BlockMatch
    <3> QED
      BY <1>1, <1>2, <3>1, <3>2
  <2>4. \A b \in Blocks : b[1] < Len(log) + 1
    BY <1>2, BlocksFinite
  <2> QED
    BY <2>2, <2>3, <2>4 DEF BlocksRead
<1>6. BlocksInv'
  <2> SUFFICES ASSUME Documented'
               PROVE  BlocksInv'
    BY DEF BlocksInv
  <2>1. Blocks' = Blocks
    BY <1>1 DEF Blocks, IsBlock
  <2>2. BlocksRead(Len(log) + 1) => BlocksRead(Len(log) + 1)'
    <3>1. \A b : BlockQuery(b)' = BlockQuery(b)
      BY <1>1, BlocksSame
    <3> QED
      BY <1>1, <2>1, <3>1 DEF BlocksRead
  <2>3. CASE timed = <<>>
    BY <1>1, <1>5, <2>1, <2>3 DEF BlocksInv
  <2>4. CASE timed # <<>>
    BY <1>1, <1>5, <2>2, <2>4 DEF BlocksInv
  <2> QED
    BY <2>3, <2>4
<1> QED
  BY <1>3, <1>4, <1>6

\* Steps that change neither the log, nor the block counter, nor the queries.
LEMMA BlocksKept ==
  ASSUME BlocksInv, log' = log, block' = block, timed' = timed,
         \/ reading' = reading /\ (index' = index \/ reading # "blocks")
         \/ reading = "entries" /\ reading' \in {"done", "TokenError"}
  PROVE  BlocksInv'
<1> SUFFICES ASSUME Documented'
             PROVE  BlocksInv'
  BY DEF BlocksInv
<1>1. Documented /\ Blocks' = Blocks
  BY BlocksSame
<1>2. \A b : BlockQuery(b)' = BlockQuery(b)
  BY BlocksSame
<1>3. CASE reading = "blocks"
  <2>1. index' = index /\ reading' = reading
    BY <1>3
  <2>2. Above(index)' = Above(index)
    BY <1>1, <2>1 DEF Above
  <2>3. BlocksRead(index)' <=> BlocksRead(index)
    BY <1>1, <1>2, <2>1 DEF BlocksRead
  <2> QED
    BY <1>1, <1>3, <2>1, <2>2, <2>3 DEF BlocksInv
<1>4. CASE reading # "blocks"
  <2>1. BlocksRead(Len(log) + 1)' <=> BlocksRead(Len(log) + 1)
    BY <1>1, <1>2 DEF BlocksRead
  <2> QED
    BY <1>1, <1>4, <2>1 DEF BlocksInv
<1> QED
  BY <1>3, <1>4

\* An entry does not begin in a documented log that has a sound block.
LEMMA NextEntryBlocks ==
  ASSUME BlocksInv, NextEntry
  PROVE  BlocksInv'
<1>1. reading = "entries" /\ log' = log /\ reading' \in {"entries", "TokenError"}
  BY DEF NextEntry
<1>2. Blocks' = Blocks /\ (Documented' => Documented)
  BY <1>1, BlocksSame
<1> QED
  BY <1>1, <1>2 DEF BlocksInv

LEMMA EntriesReadSame ==
  ASSUME log' = log, index' = index, timed' = timed
  PROVE  EntriesRead' <=> EntriesRead
<1>1. Passed' <=> Passed
  BY DEF Passed, HasDuration, HasStamp
<1>2. \A i : EntryText(i)' = EntryText(i) /\ (Sound(i)' <=> Sound(i))
  BY EntriesSame
<1>3. \A i : (Sound(i) /\ i < index)' <=> (Sound(i) /\ i < index)
  BY <1>2
<1> QED
  BY <1>1, <1>2, <1>3 DEF EntriesRead

LEMMA LogSame ==
  ASSUME LogTyped, EntriesInv, BlocksInv, UNCHANGED logVars
  PROVE  LogTyped' /\ EntriesInv' /\ BlocksInv'
<1>1. log' = log /\ reading' = reading /\ index' = index /\ block' = block /\ timed' = timed
  BY DEF logVars
<1>2. LogTyped'
  BY <1>1 DEF LogTyped
<1>3. EntriesInv'
  <2>1. EntriesRead' <=> EntriesRead
    BY <1>1, EntriesReadSame
  <2> QED
    BY <1>1, <2>1 DEF EntriesInv
<1>4. BlocksInv'
  BY <1>1, BlocksKept
<1> QED
  BY <1>2, <1>3, <1>4

LEMMA ReturnEntriesLog ==
  ASSUME LogTyped, EntriesInv, ReturnEntries
  PROVE  LogTyped' /\ EntriesInv'
<1>1. /\ reading = "entries" /\ index > Len(log) /\ reading' = "done"
      /\ log' = log /\ index' = index /\ block' = block /\ timed' = timed
  BY DEF ReturnEntries
<1>2. LogTyped'
  BY <1>1 DEF LogTyped
<1>3. EntriesRead'
  BY <1>1, EntriesReadSame DEF EntriesInv
<1> QED
  BY <1>1, <1>2, <1>3 DEF EntriesInv

LEMMA LogStep ==
  ASSUME LogTyped, EntriesInv, BlocksInv, LogNext
  PROVE  LogTyped' /\ EntriesInv' /\ BlocksInv'
<1>1. CASE NextBlock
  BY <1>1, NextBlockTyped, NextBlockBlocks
<1>2. CASE NoMoreBlocks
  BY <1>2, NoMoreBlocksLog
<1>3. CASE NextLine
  <2>1. BlocksInv'
    BY <1>3, BlocksKept DEF NextLine
  <2> QED
    BY <1>3, <2>1, NextLineEntries
<1>4. CASE NextEntry
  BY <1>4, NextEntryEntries, NextEntryBlocks
<1>5. CASE ReturnEntries
  <2>1. BlocksInv'
    BY <1>5, BlocksKept DEF ReturnEntries
  <2> QED
    BY <1>5, <2>1, ReturnEntriesLog
<1> QED
  BY <1>1, <1>2, <1>3, <1>4, <1>5 DEF LogNext

\* What the invariant says of a call that has ended.
LEMMA BlocksConclusion ==
  ASSUME LogTyped, BlocksInv
  PROVE  BlocksExact
<1> SUFFICES ASSUME reading = "done", Documented, NEW s \in Blocks, log[s[2] + 1] = "ms"
             PROVE  BlocksExact
  BY DEF BlocksExact, Documented
<1>1. BlocksRead(Len(log) + 1)
  BY DEF BlocksInv
<1>2. \A b \in Blocks : b[1] < Len(log) + 1
  BY BlocksFinite, LogDomain DEF LogTyped
<1>3. ToSet(timed) = {BlockQuery(b) : b \in {c \in Blocks : log[c[2] + 1] = "ms"}}
  <2>1. ASSUME NEW q
        PROVE  q \in ToSet(timed) <=> \E b \in Blocks : log[b[2] + 1] = "ms" /\ q = BlockQuery(b)
    BY <1>1, <1>2 DEF BlocksRead, ToSet
  <2> QED
    BY <2>1
<1> QED
  BY <1>1, <1>3 DEF BlocksExact, BlocksRead, BlockQuery, Number

-----------------------------------------------------------------------------
(* The SQL file parser: what is cut between two semicolons.                *)

Span == [text : Seq(Symbols), offset : Nat, line : Nat]

LEMMA TextDomain ==
  ASSUME text \in Seq(Symbols)
  PROVE  Len(text) \in Nat /\ DOMAIN text = 1 .. Len(text)
BY LenProperties

\* A piece of the text, and the symbols in it that are not line breaks.
LEMMA SliceIs ==
  ASSUME text \in Seq(Symbols), NEW a \in Nat, NEW b \in Nat, a < b, b <= Len(text) + 1
  PROVE  /\ Slice(a, b - 1) \in Seq(Symbols) /\ Len(Slice(a, b - 1)) = b - a - 1
         /\ Content(Slice(a, b - 1)) \subseteq 1 .. (b - a - 1)
         /\ \A k \in 1 .. (b - a - 1) : k \in Content(Slice(a, b - 1)) <=> text[a + k] # "\n"
<1> DEFINE raw == SubSeq(text, a + 1, b - 1)
<1>1. Len(text) \in Nat /\ DOMAIN text = 1 .. Len(text)
  BY TextDomain
<1>2. \A i \in (a + 1) .. (b - 1) : text[i] \in Symbols
  <2> SUFFICES ASSUME NEW i \in (a + 1) .. (b - 1)
               PROVE  i \in 1 .. Len(text)
    BY ElementOfSeq
  <2> QED
    BY <1>1
<1>3. /\ raw \in Seq(Symbols)
      /\ Len(raw) = IF a + 1 <= b - 1 THEN (b - 1) - (a + 1) + 1 ELSE 0
      /\ \A k \in 1 .. (b - 1) - (a + 1) + 1 : raw[k] = text[(a + 1) + k - 1]
  <2>1. a + 1 \in Int /\ b - 1 \in Int
    OBVIOUS
  <2> QED
    BY SMTT(20), <1>2, <2>1, SubSeqProperties
<1> HIDE DEF raw
<1>4. Len(raw) = b - a - 1
  BY <1>3
<1>5. DOMAIN raw = 1 .. (b - a - 1)
  BY <1>3, <1>4, LenProperties
<1>6. \A k \in 1 .. (b - a - 1) : raw[k] = text[a + k]
  <2> SUFFICES ASSUME NEW k \in 1 .. (b - a - 1)
               PROVE  raw[k] = text[a + k]
    OBVIOUS
  <2>1. k \in 1 .. (b - 1) - (a + 1) + 1 /\ (a + 1) + k - 1 = a + k
    OBVIOUS
  <2> QED
    BY <1>3, <2>1
<1>7. Slice(a, b - 1) = raw
  BY DEF Slice, raw
<1> QED
  BY <1>3, <1>4, <1>5, <1>6, <1>7 DEF Content

LEMMA LinesBefore ==
  ASSUME text \in Seq(Symbols), NEW p \in DOMAIN text, text[p] # "\n"
  PROVE  /\ LineNumberAt(p - 1) = 1 + Cardinality({i \in 1 .. p : text[i] = "\n"})
         /\ LineNumberAt(p - 1) \in Nat
<1>1. p \in Nat /\ p - 1 \in Int
  BY TextDomain
<1>2. {i \in 1 .. p : text[i] = "\n"} = {i \in 1 .. (p - 1) : text[i] = "\n"}
  BY <1>1
<1>3. Cardinality({i \in 1 .. (p - 1) : text[i] = "\n"}) \in Nat
  <2>1. IsFiniteSet(1 .. (p - 1))
    BY <1>1, FS_Interval
  <2>2. {i \in 1 .. (p - 1) : text[i] = "\n"} \in SUBSET (1 .. (p - 1))
    OBVIOUS
  <2> QED
    BY <2>1, <2>2, FS_Subset, FS_CardinalityType
<1> DEFINE n == Cardinality({i \in 1 .. (p - 1) : text[i] = "\n"})
<1>4. LineNumberAt(p - 1) = n + 1
  BY DEF LineNumberAt, Count
<1>5. Cardinality({i \in 1 .. p : text[i] = "\n"}) = n
  BY <1>2
<1> HIDE DEF n
<1>6. n \in Nat
  BY <1>3 DEF n
<1> QED
  BY <1>4, <1>5, <1>6

\* a and b are neighbours among the cuts and the ends of the text.
Neighbours(a, b, cuts) ==
  /\ a \in cuts \union {0} /\ b \in cuts \union {Len(text) + 1}
  /\ a < b /\ \A c \in cuts : ~(a < c /\ c < b)

\* Between two neighbours a statement begins at the first symbol, if there is any.
LEMMA OneBegins ==
  ASSUME text \in Seq(Symbols), NEW cuts, cuts \subseteq DOMAIN text,
         NEW a, NEW b, Neighbours(a, b, cuts),
         NEW p \in (a + 1) .. (b - 1), text[p] # "\n",
         \A i \in (a + 1) .. (p - 1) : text[i] = "\n"
  PROVE  /\ p \in Begins(cuts)
         /\ \A q \in Begins(cuts) : a < q /\ q < b => q = p
<1>1. Len(text) \in Nat /\ DOMAIN text = 1 .. Len(text)
  BY TextDomain
<1>2. /\ a \in Nat /\ b \in Nat /\ b <= Len(text) + 1 /\ p \in Nat
      /\ a < b /\ \A c \in cuts : c \in Nat /\ ~(a < c /\ c < b)
      /\ a = 0 \/ a \in cuts
  BY <1>1 DEF Neighbours
<1>3. p \in DOMAIN text \ cuts
  BY <1>1, <1>2
<1>4. ASSUME NEW i \in 1 .. (p - 1), i \notin cuts, text[i] # "\n"
      PROVE  \E c \in cuts : i < c /\ c < p
  <2>1. i \notin (a + 1) .. (p - 1)
    BY <1>4
  <2>2. i < a /\ a < p
    BY <1>2, <1>4, <2>1
  <2> QED
    BY <1>2, <2>2
<1>5. p \in Begins(cuts)
  BY <1>3, <1>4 DEF Begins
<1>6. ASSUME NEW q \in Begins(cuts), a < q, q < b, q # p
      PROVE  FALSE
  <2>1. q \in DOMAIN text /\ text[q] # "\n" /\ q \in Nat
    BY <1>1 DEF Begins
  <2>2. q \notin (a + 1) .. (p - 1)
    BY <2>1
  <2>3. p < q
    BY <1>2, <1>6, <2>1, <2>2
  <2>4. p \in 1 .. (q - 1) /\ p \notin cuts
    BY <1>1, <1>2, <1>3, <2>1, <2>3
  <2>5. PICK c \in cuts : p < c /\ c < q
    BY <2>4 DEF Begins
  <2> QED
    BY <1>2, <1>6, <2>1, <2>5
<1> QED
  BY <1>5, <1>6

\* What is left of a piece, and where: the symbols from first to last, no further.
LEMMA ContentEnds ==
  ASSUME text \in Seq(Symbols), NEW a \in Nat, NEW b \in Nat, a < b, b <= Len(text) + 1,
         Content(Slice(a, b - 1)) # {}
  PROVE  LET content == Content(Slice(a, b - 1))
             p == a + Min(content)
             q == a + Max(content)
         IN  /\ Min(content) \in 1 .. (b - a - 1) /\ Max(content) \in 1 .. (b - a - 1)
             /\ p \in (a + 1) .. (b - 1) /\ q \in p .. (b - 1)
             /\ text[p] # "\n" /\ text[q] # "\n"
             /\ \A i \in (a + 1) .. (p - 1) : text[i] = "\n"
             /\ \A i \in (q + 1) .. (b - 1) : text[i] = "\n"
<1> DEFINE content == Content(Slice(a, b - 1))
<1>1. /\ content \subseteq 1 .. (b - a - 1)
      /\ \A k \in 1 .. (b - a - 1) : k \in content <=> text[a + k] # "\n"
  BY SliceIs
<1>2. /\ Min(content) \in content /\ \A y \in content : Min(content) <= y
      /\ Max(content) \in content /\ \A y \in content : y <= Max(content)
  <2>1. content \subseteq 0 .. (b - a - 1) /\ b - a - 1 \in Nat
    BY <1>1
  <2> HIDE DEF content
  <2>2. content # {}
    BY DEF content
  <2> QED
    BY <2>1, <2>2, MinMax
<1>3. content # {}
  OBVIOUS
<1> HIDE DEF content
<1> DEFINE x == Min(content)
           y == Max(content)
<1>4. /\ x \in 1 .. (b - a - 1) /\ y \in 1 .. (b - a - 1) /\ x <= y
      /\ text[a + x] # "\n" /\ text[a + y] # "\n"
  BY <1>1, <1>2
<1>5. \A k \in 1 .. (b - a - 1) : k < x \/ k > y => text[a + k] = "\n"
  BY <1>1, <1>2, <1>4
<1> HIDE DEF x, y
<1>6. ASSUME NEW i \in (a + 1) .. (b - 1), i < a + x \/ i > a + y
      PROVE  text[i] = "\n"
  <2>1. i - a \in 1 .. (b - a - 1) /\ (i - a < x \/ i - a > y) /\ a + (i - a) = i
    BY <1>4, <1>6
  <2> QED
    BY <1>5, <2>1
<1>7. \A i \in (a + 1) .. ((a + x) - 1) : text[i] = "\n"
  BY <1>4, <1>6
<1>8. \A i \in ((a + y) + 1) .. (b - 1) : text[i] = "\n"
  BY <1>4, <1>6
<1>9. a + x \in (a + 1) .. (b - 1) /\ a + y \in (a + x) .. (b - 1)
  BY <1>4
<1> QED
  BY <1>4, <1>7, <1>8, <1>9 DEF content, x, y

LEMMA NoneBegins ==
  ASSUME text \in Seq(Symbols), NEW cuts, NEW a \in Nat, NEW b \in Nat, a < b,
         b <= Len(text) + 1, Content(Slice(a, b - 1)) = {}, NEW q \in Begins(cuts)
  PROVE  ~(a < q /\ q < b)
<1> SUFFICES ASSUME a < q, q < b
             PROVE  FALSE
  OBVIOUS
<1>1. q \in Nat /\ text[q] # "\n"
  BY TextDomain DEF Begins
<1>2. q - a \in 1 .. (b - a - 1) /\ a + (q - a) = q
  BY <1>1
<1> QED
  BY ZenonT(30), <1>1, <1>2, SliceIs

\* What SpanFrom yields between two neighbours: their statement, or nothing.
LEMMA SpanIs ==
  ASSUME text \in Seq(Symbols), NEW cuts, cuts \subseteq DOMAIN text,
         NEW a, NEW b, Neighbours(a, b, cuts)
  PROVE  \/ /\ SpanFrom(a, b - 1) = <<>>
            /\ \A q \in Begins(cuts) : ~(a < q /\ q < b)
         \/ \E p \in Begins(cuts) :
               /\ a < p /\ p < b
               /\ SpanFrom(a, b - 1) = <<StatementAt(p, cuts)>>
               /\ \A q \in Begins(cuts) : a < q /\ q < b => q = p
<1>1. Len(text) \in Nat /\ DOMAIN text = 1 .. Len(text)
  BY TextDomain
<1>2. /\ a \in Nat /\ b \in Nat /\ b <= Len(text) + 1 /\ a < b
      /\ \A c \in cuts : c \in Nat /\ ~(a < c /\ c < b)
      /\ b \in cuts \/ b = Len(text) + 1
  BY <1>1 DEF Neighbours
<1> DEFINE raw     == Slice(a, b - 1)
           content == Content(raw)
<1>3. CASE content = {}
  BY <1>2, <1>3, NoneBegins DEF SpanFrom
<1>4. CASE content # {}
  <2> DEFINE x == Min(content)
             y == Max(content)
             p == a + x
             q == a + y
  <2>1. /\ x \in 1 .. (b - a - 1) /\ y \in 1 .. (b - a - 1)
        /\ p \in (a + 1) .. (b - 1) /\ q \in p .. (b - 1)
        /\ text[p] # "\n" /\ text[q] # "\n"
        /\ \A i \in (a + 1) .. (p - 1) : text[i] = "\n"
        /\ \A i \in (q + 1) .. (b - 1) : text[i] = "\n"
    BY <1>2, <1>4, ContentEnds
  <2>2. SpanFrom(a, b - 1) = <<SpanOf(raw, a, content, LineNumberAt(a + x - 1))>>
    BY <1>4 DEF SpanFrom
  <2>3. SpanOf(raw, a, content, LineNumberAt(a + x - 1))
          = [text |-> SubSeq(raw, x, y), offset |-> a + x - 1,
             line |-> LineNumberAt(a + x - 1)]
    BY DEF SpanOf
  <2> HIDE DEF x, y
  <2>4. p \in Nat /\ q \in Nat /\ a + x - 1 = p - 1 /\ p \in DOMAIN text
    BY <1>1, <1>2, <2>1
  <2>5. LineNumberAt(a + x - 1) = 1 + Cardinality({i \in 1 .. p : text[i] = "\n"})
    BY <2>1, <2>4, LinesBefore
  <2>6. SubSeq(raw, x, y) = SubSeq(text, p, q)
    <3>1. a + 1 \in 1 .. Len(text) /\ b - 1 \in 1 .. Len(text)
      BY <1>1, <1>2, <2>1
    <3>2. x \in 1 .. (b - 1) - (a + 1) + 1 /\ y \in 1 .. (b - 1) - (a + 1) + 1
      BY <1>2, <2>1
    <3>3. SubSeq(SubSeq(text, a + 1, b - 1), x, y)
            = SubSeq(text, (a + 1) + x - 1, (a + 1) + y - 1)
      <4> DEFINE i == a + 1
                 j == b - 1
      <4>1. i \in 1 .. Len(text) /\ j \in 1 .. Len(text) /\ x \in 1 .. j - i + 1 /\ y \in 1 .. j - i + 1
        BY <3>1, <3>2
      <4> HIDE DEF i, j, raw, content, p, q
      <4>2. SubSeq(SubSeq(text, i, j), x, y) = SubSeq(text, i + x - 1, i + y - 1)
        BY <4>1, SubSeqOfSubSeq
      <4> QED
        BY <4>2 DEF i, j
    <3>4. (a + 1) + x - 1 = p /\ (a + 1) + y - 1 = q
      BY <1>2, <2>1
    <3> QED
      BY <3>3, <3>4 DEF Slice
  <2> DEFINE rest == {i \in DOMAIN text :
                        i >= p /\ text[i] # "\n" /\ \A c \in cuts : c > i \/ c < p}
  <2>7. Max(rest) = q
    <3>1. q \in rest
      BY <1>1, <1>2, <2>1, <2>4
    <3>2. ASSUME NEW i \in rest
          PROVE  i <= q
      <4>1. i \in 1 .. Len(text) /\ i >= p /\ text[i] # "\n" /\ \A c \in cuts : c > i \/ c < p
        BY <1>1
      <4> HIDE DEF rest
      <4>2. p < b
        BY <1>2, <2>1, <2>4
      <4>3. i < b
        <5>1. CASE b \in cuts
          BY <1>2, <2>4, <4>1, <4>2, <5>1
        <5>2. CASE b = Len(text) + 1
          BY <1>1, <4>1, <5>2
        <5> QED
          BY <1>2, <5>1, <5>2
      <4>4. i \notin (q + 1) .. (b - 1)
        BY <2>1, <4>1
      <4> HIDE DEF p, q
      <4> QED
        BY <1>2, <2>4, <4>1, <4>3, <4>4
    <3>3. rest \subseteq Int
      BY <1>1
    <3> HIDE DEF rest
    <3> QED
      BY <3>1, <3>2, <3>3, MinMaxAre
  <2>8. StatementAt(p, cuts)
          = [text |-> SubSeq(text, p, q), offset |-> p - 1,
             line |-> 1 + Cardinality({i \in 1 .. p : text[i] = "\n"})]
    BY <2>7 DEF StatementAt
  <2>9. SpanFrom(a, b - 1) = <<StatementAt(p, cuts)>>
    BY <2>2, <2>3, <2>4, <2>5, <2>6, <2>8
  <2>10. p \in Begins(cuts) /\ \A z \in Begins(cuts) : a < z /\ z < b => z = p
    BY <2>1, OneBegins
  <2> QED
    BY <1>2, <2>1, <2>9, <2>10
<1> QED
  BY <1>3, <1>4

LEMMA StatementTyped ==
  ASSUME text \in Seq(Symbols), NEW cuts, cuts \subseteq DOMAIN text, NEW p \in Begins(cuts)
  PROVE  StatementAt(p, cuts) \in Span /\ StatementAt(p, cuts).offset = p - 1
<1>1. Len(text) \in Nat /\ DOMAIN text = 1 .. Len(text)
  BY TextDomain
<1>2. p \in 1 .. Len(text) /\ p \notin cuts /\ text[p] # "\n"
  BY <1>1 DEF Begins
<1> DEFINE rest == {i \in DOMAIN text :
                      i >= p /\ text[i] # "\n" /\ \A c \in cuts : c > i \/ c < p}
           last == Max(rest)
           lines == Cardinality({i \in 1 .. p : text[i] = "\n"})
<1>3. last \in p .. Len(text)
  <2>1. rest \subseteq 0 .. Len(text)
    BY <1>1
  <2>2. p \in rest
    BY <1>1, <1>2
  <2>3. \A i \in rest : i \in p .. Len(text)
    BY <1>1, <1>2
  <2> HIDE DEF rest
  <2>4. Max(rest) \in rest
    BY <1>1, <2>1, <2>2, MinMax
  <2> QED
    BY <2>3, <2>4
<1>4. lines \in Nat
  <2>1. IsFiniteSet(1 .. p)
    BY <1>1, <1>2, FS_Interval
  <2>2. {i \in 1 .. p : text[i] = "\n"} \in SUBSET (1 .. p)
    OBVIOUS
  <2> QED
    BY <2>1, <2>2, FS_Subset, FS_CardinalityType
<1>5. StatementAt(p, cuts)
        = [text |-> SubSeq(text, p, last), offset |-> p - 1, line |-> 1 + lines]
  BY DEF StatementAt
<1> HIDE DEF last, lines
<1>6. SubSeq(text, p, last) \in Seq(Symbols)
  <2>1. \A i \in p .. last : text[i] \in Symbols
    <3> SUFFICES ASSUME NEW i \in p .. last
                 PROVE  i \in 1 .. Len(text)
      BY ElementOfSeq
    <3> QED
      BY <1>1, <1>2, <1>3
  <2>2. p \in Int /\ last \in Int
    BY <1>1, <1>2, <1>3
  <2> QED
    BY <2>1, <2>2, SubSeqProperties
<1>7. p - 1 \in Nat /\ 1 + lines \in Nat
  BY <1>1, <1>2, <1>4
<1> QED
  BY <1>5, <1>6, <1>7 DEF Span

-----------------------------------------------------------------------------
(* The SQL file parser: its invariant.                                     *)

SqlTyped ==
  /\ text \in Seq(Symbols)
  /\ stage \in {"read", "tokens", "chunks", "build", "done"}
  /\ start \in Nat
  /\ spans \in Seq(Span) /\ queries \in Seq(Span) /\ skipped \in Seq(Span)

\* Where the text is cut: at the semicolon tokens, or at every semicolon.
Cuts == IF Tokenizable(text) THEN SemicolonTokens(text) ELSE AllSemicolons(text)

Made(upto) == {StatementAt(p, Cuts) : p \in {q \in Begins(Cuts) : q <= upto}}

\* The spans are the statements that begin before the offset, which is a cut; the
\* pieces to come end at the cuts after it.
CutInv ==
  /\ stage = "read" => start = 0 /\ spans = <<>>
  /\ stage \in {"read", "tokens", "chunks"} => queries = <<>> /\ skipped = <<>>
  /\ stage = "tokens" => Tokenizable(text) /\ pieces = {c \in Cuts : c > start}
  /\ stage = "chunks" => ~Tokenizable(text) /\ pieces = {c \in ChunkEnds : c > start}
  /\ stage \in {"tokens", "chunks"} =>
        start \in Cuts \union {0} /\ InOrder(spans) /\ ToSet(spans) = Made(start)

\* Each statement is a query, or skipped, or still to be parsed after those.
BuildInv ==
  stage \in {"build", "done"} =>
    /\ InOrder(queries) /\ InOrder(skipped) /\ InOrder(spans)
    /\ Statements(Cuts) = ToSet(queries) \union ToSet(skipped) \union ToSet(spans)
    /\ \A s \in ToSet(queries) :
          ParsesAlone(s.text) /\ \A t \in ToSet(spans) : s.offset < t.offset
    /\ \A s \in ToSet(skipped) :
          ~ParsesAlone(s.text) /\ \A t \in ToSet(spans) : s.offset < t.offset
    /\ stage = "done" => spans = <<>>

LEMMA CutsTyped ==
  ASSUME text \in Seq(Symbols)
  PROVE  /\ Cuts \subseteq DOMAIN text
         /\ ChunkEnds = AllSemicolons(text) \union {Len(text) + 1}
         /\ AllSemicolons(text) \subseteq DOMAIN text
BY DEF Cuts, SemicolonTokens, AllSemicolons, ChunkEnds

LEMMA AppendedInOrder ==
  ASSUME NEW list \in Seq(Span), InOrder(list), NEW s \in Span,
         \A t \in ToSet(list) : t.offset < s.offset
  PROVE  /\ Append(list, s) \in Seq(Span) /\ InOrder(Append(list, s))
         /\ ToSet(Append(list, s)) = ToSet(list) \union {s}
<1> DEFINE n == Len(list) + 1
           longer == Append(list, s)
<1>1. /\ longer \in Seq(Span) /\ DOMAIN longer = DOMAIN list \union {n}
      /\ \A x \in DOMAIN list : x \in Nat /\ x < n /\ longer[x] = list[x]
      /\ longer[n] = s /\ n \in Nat
  BY Appended, LenProperties
<1> HIDE DEF n, longer
<1>2. ASSUME NEW k \in DOMAIN longer, NEW l \in DOMAIN longer, k < l
      PROVE  longer[k].offset < longer[l].offset
  <2>1. CASE k \in DOMAIN list /\ l \in DOMAIN list
    BY <1>1, <1>2, <2>1 DEF InOrder
  <2>2. CASE k \in DOMAIN list /\ l = n
    BY <1>1, <2>2 DEF ToSet
  <2>3. CASE k = n
    BY <1>1, <1>2, <2>3
  <2> QED
    BY <1>1, <2>1, <2>2, <2>3
<1>3. InOrder(longer)
  BY <1>2 DEF InOrder
<1>4. ToSet(longer) = ToSet(list) \union {s}
  BY <1>1 DEF ToSet
<1> QED
  BY <1>1, <1>3, <1>4 DEF longer

\* One piece more.
LEMMA OnePiece ==
  ASSUME SqlTyped, InOrder(spans), ToSet(spans) = Made(start),
         NEW b, Neighbours(start, b, Cuts)
  PROVE  LET more == spans \o SpanFrom(start, b - 1)
         IN  more \in Seq(Span) /\ InOrder(more) /\ ToSet(more) = Made(b)
<1>1. text \in Seq(Symbols) /\ spans \in Seq(Span) /\ start \in Nat
  BY DEF SqlTyped
<1>2. Cuts \subseteq DOMAIN text /\ DOMAIN text = 1 .. Len(text) /\ Len(text) \in Nat
  BY <1>1, CutsTyped, TextDomain
<1>3. b \in Nat /\ start < b /\ (b \in Cuts \/ b = Len(text) + 1)
  BY <1>2 DEF Neighbours
<1>4. \A q \in Begins(Cuts) : q \in Nat /\ q # b
  BY <1>2, <1>3 DEF Begins
<1>5. CASE /\ SpanFrom(start, b - 1) = <<>>
           /\ \A q \in Begins(Cuts) : ~(start < q /\ q < b)
  <2>1. \A q \in Begins(Cuts) : q <= start <=> q <= b
    BY <1>1, <1>3, <1>4, <1>5
  <2>2. Made(start) = Made(b)
    BY <2>1 DEF Made
  <2>3. spans \o <<>> = spans
    BY <1>1, ConcatEmptySeq
  <2> QED
    BY <1>1, <1>5, <2>2, <2>3
<1>6. ASSUME NEW p \in Begins(Cuts), start < p, p < b,
             SpanFrom(start, b - 1) = <<StatementAt(p, Cuts)>>,
             \A q \in Begins(Cuts) : start < q /\ q < b => q = p
      PROVE  LET more == spans \o SpanFrom(start, b - 1)
             IN  more \in Seq(Span) /\ InOrder(more) /\ ToSet(more) = Made(b)
  <2> DEFINE s == StatementAt(p, Cuts)
  <2>1. s \in Span /\ s.offset = p - 1
    BY <1>1, <1>2, StatementTyped
  <2>2. \A q \in Begins(Cuts) : q <= b <=> q <= start \/ q = p
    BY <1>1, <1>3, <1>4, <1>6
  <2>3. Made(b) = Made(start) \union {s}
    BY <2>2 DEF Made
  <2>4. ASSUME NEW t \in ToSet(spans)
        PROVE  t.offset < s.offset
    <3>1. PICK q \in Begins(Cuts) : q <= start /\ t = StatementAt(q, Cuts)
      BY DEF Made
    <3>2. t.offset = q - 1
      BY <1>1, <1>2, <3>1, StatementTyped
    <3> QED
      BY <1>1, <1>4, <1>6, <2>1, <3>1, <3>2
  <2> HIDE DEF s
  <2>5. spans \o <<s>> = Append(spans, s)
    BY <1>1, <2>1, AppendIsConcat
  <2>6. /\ Append(spans, s) \in Seq(Span) /\ InOrder(Append(spans, s))
        /\ ToSet(Append(spans, s)) = ToSet(spans) \union {s}
    BY <1>1, <2>1, <2>4, AppendedInOrder
  <2> QED
    BY <1>6, <2>3, <2>5, <2>6 DEF s
<1> QED
  BY <1>1, <1>2, <1>5, <1>6, SpanIs

-----------------------------------------------------------------------------
(* The SQL file parser: its steps.                                         *)

LEMMA TextSame ==
  ASSUME text' = text
  PROVE  /\ Cuts' = Cuts /\ ChunkEnds' = ChunkEnds /\ Statements(Cuts)' = Statements(Cuts)
         /\ \A upto : Made(upto)' = Made(upto)
<1>1. Cuts' = Cuts /\ ChunkEnds' = ChunkEnds
  BY DEF Cuts, ChunkEnds
<1>2. ASSUME NEW cuts
      PROVE  Begins(cuts)' = Begins(cuts)
  BY DEF Begins
<1>3. ASSUME NEW cuts, NEW p
      PROVE  StatementAt(p, cuts)' = StatementAt(p, cuts)
  BY DEF StatementAt
<1> QED
  BY <1>1, <1>2, <1>3 DEF Statements, Made

\* Nothing is left of the text after its end: all statements begin before it.
LEMMA AllMade ==
  ASSUME text \in Seq(Symbols)
  PROVE  Made(Len(text) + 1) = Statements(Cuts)
<1>1. \A q \in Begins(Cuts) : q <= Len(text) + 1
  BY TextDomain DEF Begins
<1> QED
  BY <1>1 DEF Made, Statements

LEMMA NoneMade ==
  ASSUME text \in Seq(Symbols)
  PROVE  Made(0) = {}
<1>1. \A q \in Begins(Cuts) : ~(q <= 0)
  BY TextDomain DEF Begins
<1> QED
  BY <1>1 DEF Made

LEMMA Positive ==
  ASSUME NEW T, NEW n \in Nat, T \subseteq 1 .. n
  PROVE  T = {c \in T : c > 0}
<1>1. \A c \in T : c > 0
  OBVIOUS
<1> QED
  BY <1>1, Zenon

LEMMA NothingYet ==
  InOrder(<<>>) /\ ToSet(<<>>) = {} /\ <<>> \in Seq(Span)
<1>1. DOMAIN <<>> = {}
  OBVIOUS
<1> QED
  BY <1>1 DEF InOrder, ToSet

LEMMA ReturnEmptyCuts ==
  ASSUME SqlTyped, CutInv, BuildInv, ReturnEmpty
  PROVE  SqlTyped' /\ CutInv' /\ BuildInv'
<1>1. /\ stage = "read" /\ Content(text) = {} /\ stage' = "done"
      /\ text' = text /\ pieces' = pieces /\ start' = start
      /\ spans' = spans /\ queries' = queries /\ skipped' = skipped
  BY DEF ReturnEmpty
<1>2. SqlTyped' /\ CutInv'
  BY <1>1 DEF SqlTyped, CutInv
<1>3. spans = <<>> /\ queries = <<>> /\ skipped = <<>>
  BY <1>1 DEF CutInv
<1>4. Begins(Cuts) = {}
  BY <1>1 DEF Begins, Content
<1>5. Statements(Cuts) = {}
  BY <1>4 DEF Statements
<1>6. BuildInv'
  BY <1>1, <1>3, <1>5, TextSame, NothingYet DEF BuildInv
<1> QED
  BY <1>2, <1>6

LEMMA TokenizeCuts ==
  ASSUME SqlTyped, CutInv, BuildInv, Tokenize
  PROVE  SqlTyped' /\ CutInv' /\ BuildInv'
<1>1. /\ stage = "read" /\ text' = text /\ start' = start
      /\ spans' = spans /\ queries' = queries /\ skipped' = skipped
      /\ \/ Tokenizable(text) /\ stage' = "tokens" /\ pieces' = SemicolonTokens(text)
         \/ ~Tokenizable(text) /\ stage' = "chunks" /\ pieces' = ChunkEnds
  BY DEF Tokenize
<1>2. start = 0 /\ spans = <<>> /\ queries = <<>> /\ skipped = <<>>
  BY <1>1 DEF CutInv
<1>3. text \in Seq(Symbols) /\ Len(text) \in Nat /\ DOMAIN text = 1 .. Len(text)
  BY TextDomain DEF SqlTyped
<1>4. SqlTyped' /\ BuildInv'
  BY <1>1 DEF SqlTyped, BuildInv
<1>5. InOrder(spans) /\ ToSet(spans) = Made(0)
  BY <1>2, <1>3, NothingYet, NoneMade
<1>6. CASE Tokenizable(text) /\ stage' = "tokens" /\ pieces' = SemicolonTokens(text)
  <2>1. Cuts = SemicolonTokens(text) /\ Cuts' = Cuts /\ Made(0)' = Made(0)
    BY <1>1, <1>6, TextSame DEF Cuts
  <2>2. SemicolonTokens(text) = {c \in SemicolonTokens(text) : c > 0}
    BY <1>3, <2>1, CutsTyped, Positive
  <2> QED
    BY <1>1, <1>2, <1>4, <1>5, <1>6, <2>1, <2>2 DEF CutInv
<1>7. CASE ~Tokenizable(text) /\ stage' = "chunks" /\ pieces' = ChunkEnds
  <2>1. Cuts' = Cuts /\ ChunkEnds' = ChunkEnds /\ Made(0)' = Made(0)
    BY <1>1, TextSame
  <2>2. ChunkEnds = {c \in ChunkEnds : c > 0}
    <3>1. ChunkEnds \subseteq 1 .. (Len(text) + 1) /\ Len(text) + 1 \in Nat
      BY <1>3, CutsTyped
    <3> QED
      BY <3>1, Positive
  <2> QED
    BY <1>1, <1>2, <1>4, <1>5, <1>7, <2>1, <2>2 DEF CutInv
<1> QED
  BY <1>1, <1>6, <1>7

\* What a step does that cuts at b and goes on.
LEMMA CutOnce ==
  ASSUME SqlTyped, InOrder(spans), ToSet(spans) = Made(start), text' = text,
         NEW b, Neighbours(start, b, Cuts), spans' = spans \o SpanFrom(start, b - 1)
  PROVE  spans' \in Seq(Span) /\ InOrder(spans)' /\ ToSet(spans)' = Made(b)
<1>1. LET more == spans \o SpanFrom(start, b - 1)
      IN  more \in Seq(Span) /\ InOrder(more) /\ ToSet(more) = Made(b)
  BY OnePiece
<1>2. InOrder(spans)' = InOrder(spans') /\ ToSet(spans)' = ToSet(spans')
  BY DEF InOrder, ToSet
<1> QED
  BY <1>1, <1>2

LEMMA NextTokenCuts ==
  ASSUME SqlTyped, CutInv, BuildInv, NextToken
  PROVE  SqlTyped' /\ CutInv' /\ BuildInv'
<1>0. PICK b : b = Min(pieces)
  OBVIOUS
<1>1. /\ stage = "tokens" /\ stage' = stage /\ pieces # {} /\ text' = text
      /\ queries' = queries /\ skipped' = skipped
      /\ spans' = spans \o SpanFrom(start, b - 1) /\ start' = b
      /\ pieces' = pieces \ {b}
  BY <1>0 DEF NextToken
<1>2. /\ Tokenizable(text) /\ pieces = {c \in Cuts : c > start}
      /\ start \in Cuts \union {0} /\ InOrder(spans) /\ ToSet(spans) = Made(start)
      /\ queries = <<>> /\ skipped = <<>>
  BY <1>1 DEF CutInv
<1>3. /\ text \in Seq(Symbols) /\ Len(text) \in Nat /\ DOMAIN text = 1 .. Len(text)
      /\ Cuts \subseteq 1 .. Len(text) /\ start \in Nat
  BY CutsTyped, TextDomain DEF SqlTyped
<1>4. b \in pieces /\ \A c \in pieces : b <= c
  <2>1. pieces \subseteq 0 .. Len(text)
    BY <1>2, <1>3
  <2> QED
    BY <1>0, <1>1, <1>3, <2>1, MinMax
<1>5. b \in Cuts /\ b \in Nat /\ b > start /\ Neighbours(start, b, Cuts)
  BY <1>2, <1>3, <1>4 DEF Neighbours
<1>6. spans' \in Seq(Span) /\ InOrder(spans)' /\ ToSet(spans)' = Made(b)
  BY <1>1, <1>2, <1>5, CutOnce
<1>7. Cuts' = Cuts /\ Made(b)' = Made(b)
  BY <1>1, TextSame
<1>8. pieces' = {c \in Cuts : c > b}
  <2>1. \A c \in Cuts : c > start /\ c # b <=> c > b
    BY <1>2, <1>3, <1>4, <1>5
  <2> QED
    BY <1>1, <1>2, <2>1
<1>9. SqlTyped'
  BY <1>1, <1>5, <1>6 DEF SqlTyped
<1>10. BuildInv'
  BY <1>1 DEF BuildInv
<1>11. CutInv'
  BY <1>1, <1>2, <1>5, <1>6, <1>7, <1>8 DEF CutInv
<1> QED
  BY <1>9, <1>10, <1>11

\* The last cut: all statements are among the spans.
LEMMA BuildBegins ==
  ASSUME SqlTyped, text' = text, stage' = "build", queries' = <<>>, skipped' = <<>>,
         InOrder(spans)', ToSet(spans)' = Made(Len(text) + 1)
  PROVE  BuildInv' /\ CutInv'
<1>1. text \in Seq(Symbols)
  BY DEF SqlTyped
<1>2. ToSet(spans)' = Statements(Cuts)'
  BY <1>1, AllMade, TextSame
<1>3. InOrder(queries)' /\ InOrder(skipped)' /\ ToSet(queries)' = {} /\ ToSet(skipped)' = {}
  <2>1. /\ InOrder(queries)' = InOrder(queries') /\ InOrder(skipped)' = InOrder(skipped')
        /\ ToSet(queries)' = ToSet(queries') /\ ToSet(skipped)' = ToSet(skipped')
    BY DEF InOrder, ToSet
  <2> QED
    BY <2>1, NothingYet
<1>4. BuildInv'
  BY <1>2, <1>3 DEF BuildInv
<1>5. CutInv'
  BY DEF CutInv
<1> QED
  BY <1>4, <1>5

LEMMA TrailingCuts ==
  ASSUME SqlTyped, CutInv, BuildInv, Trailing
  PROVE  SqlTyped' /\ CutInv' /\ BuildInv'
<1>0. PICK b : b = Len(text) + 1
  OBVIOUS
<1>1. /\ stage = "tokens" /\ stage' = "build" /\ pieces = {} /\ text' = text
      /\ queries' = queries /\ skipped' = skipped /\ start' = start
      /\ spans' = spans \o SpanFrom(start, Len(text))
  BY DEF Trailing
<1>2. /\ pieces = {c \in Cuts : c > start}
      /\ start \in Cuts \union {0} /\ InOrder(spans) /\ ToSet(spans) = Made(start)
      /\ queries = <<>> /\ skipped = <<>>
  BY <1>1 DEF CutInv
<1>3. /\ text \in Seq(Symbols) /\ Len(text) \in Nat /\ DOMAIN text = 1 .. Len(text)
      /\ Cuts \subseteq 1 .. Len(text) /\ start \in Nat
  BY CutsTyped, TextDomain DEF SqlTyped
<1>4. b - 1 = Len(text) /\ b \in Nat
  BY <1>0, <1>3
<1>5. Neighbours(start, b, Cuts)
  BY <1>0, <1>1, <1>2, <1>3 DEF Neighbours
<1>6. spans' \in Seq(Span) /\ InOrder(spans)' /\ ToSet(spans)' = Made(b)
  BY <1>1, <1>2, <1>4, <1>5, CutOnce
<1>7. SqlTyped'
  BY <1>1, <1>6 DEF SqlTyped
<1>8. queries' = <<>> /\ skipped' = <<>>
  BY <1>1, <1>2
<1>9. BuildInv' /\ CutInv'
  BY <1>0, <1>1, <1>6, <1>8, BuildBegins
<1> QED
  BY <1>7, <1>9

\* A chunk lies between the last cut and the next.
LEMMA ChunkIs ==
  ASSUME text \in Seq(Symbols), NEW b, NEW a,
         Neighbours(a, b, AllSemicolons(text))
  PROVE  ChunkBefore(b) = Slice(a, b - 1) /\ Len(ChunkBefore(b)) = b - a - 1
<1> DEFINE T == {0} \union {c \in AllSemicolons(text) : c < b}
<1>1. /\ Len(text) \in Nat /\ DOMAIN text = 1 .. Len(text)
      /\ AllSemicolons(text) \subseteq 1 .. Len(text)
  BY TextDomain DEF AllSemicolons
<1>2. a \in Nat /\ b \in Nat /\ a < b /\ b <= Len(text) + 1
  BY <1>1 DEF Neighbours
<1>3. a \in T /\ T \subseteq Int /\ \A c \in T : c <= a
  BY <1>1, <1>2 DEF Neighbours
<1>4. ChunkBefore(b) = Slice(Max(T), b - 1)
  BY DEF ChunkBefore
<1> HIDE DEF T
<1>5. Max(T) = a
  BY <1>3, MinMaxAre
<1> QED
  BY <1>2, <1>4, <1>5, SliceIs

LEMMA NextChunkCuts ==
  ASSUME SqlTyped, CutInv, BuildInv, NextChunk
  PROVE  SqlTyped' /\ CutInv' /\ BuildInv'
<1>0. PICK b : b = Min(pieces)
  OBVIOUS
<1> DEFINE chunk == ChunkBefore(b)
<1>1. /\ stage = "chunks" /\ text' = text /\ queries' = queries /\ skipped' = skipped
      /\ spans' = spans \o SpanFrom(start, start + Len(chunk)) /\ start' = After(chunk)
      /\ pieces' = pieces \ {b} /\ stage' = IF pieces' = {} THEN "build" ELSE "chunks"
  BY <1>0 DEF NextChunk
<1>2. /\ ~Tokenizable(text) /\ pieces = {c \in ChunkEnds : c > start}
      /\ start \in Cuts \union {0} /\ InOrder(spans) /\ ToSet(spans) = Made(start)
      /\ queries = <<>> /\ skipped = <<>>
  BY <1>1 DEF CutInv
<1>3. /\ text \in Seq(Symbols) /\ Len(text) \in Nat /\ DOMAIN text = 1 .. Len(text)
      /\ Cuts \subseteq 1 .. Len(text) /\ start \in Nat
      /\ Cuts = AllSemicolons(text) /\ ChunkEnds = Cuts \union {Len(text) + 1}
  BY <1>2, CutsTyped, TextDomain DEF SqlTyped, Cuts
<1>4. b \in pieces /\ \A c \in pieces : b <= c
  <2>1. pieces \subseteq 0 .. (Len(text) + 1) /\ Len(text) + 1 \in Nat
    BY <1>2, <1>3
  <2>2. Len(text) + 1 \in pieces
    BY <1>2, <1>3
  <2> QED
    BY <1>0, <2>1, <2>2, MinMax
<1>5. b \in ChunkEnds /\ b \in Nat /\ b > start /\ Neighbours(start, b, Cuts)
  BY <1>2, <1>3, <1>4 DEF Neighbours
<1>6. Len(chunk) = b - start - 1
  BY <1>3, <1>5, ChunkIs
<1> HIDE DEF chunk
<1>7. start + Len(chunk) = b - 1 /\ start' = b
  BY <1>1, <1>3, <1>5, <1>6 DEF After
<1>8. spans' \in Seq(Span) /\ InOrder(spans)' /\ ToSet(spans)' = Made(b)
  BY <1>1, <1>2, <1>5, <1>7, CutOnce
<1>9. Cuts' = Cuts /\ ChunkEnds' = ChunkEnds /\ Made(b)' = Made(b)
  BY <1>1, TextSame
<1>10. pieces' = {c \in ChunkEnds : c > b}
  BY <1>1, <1>2, <1>3, <1>4, <1>5
<1>11. SqlTyped'
  BY <1>1, <1>5, <1>7, <1>8 DEF SqlTyped
<1>12. CASE pieces' = {}
  <2>1. b = Len(text) + 1
    BY <1>3, <1>5, <1>10, <1>12
  <2>2. stage' = "build" /\ queries' = <<>> /\ skipped' = <<>>
    BY <1>1, <1>2, <1>12
  <2>3. BuildInv' /\ CutInv'
    BY <1>1, <1>8, <2>1, <2>2, BuildBegins
  <2> QED
    BY <1>11, <2>3
<1>13. CASE pieces' # {}
  <2>1. b \in Cuts
    BY <1>3, <1>5, <1>10, <1>13
  <2>2. CutInv'
    BY <1>1, <1>2, <1>7, <1>8, <1>9, <1>10, <1>13, <2>1 DEF CutInv
  <2>3. BuildInv'
    BY <1>1, <1>13 DEF BuildInv
  <2> QED
    BY <1>11, <2>2, <2>3
<1> QED
  BY <1>12, <1>13

-----------------------------------------------------------------------------
(* The SQL file parser: queries are built from the spans.                  *)

\* The first span, and those after it.
LEMMA FirstOf ==
  ASSUME NEW list \in Seq(Span), list # <<>>, InOrder(list)
  PROVE  /\ Head(list) \in Span /\ Tail(list) \in Seq(Span) /\ InOrder(Tail(list))
         /\ ToSet(list) = {Head(list)} \union ToSet(Tail(list))
         /\ \A t \in ToSet(Tail(list)) : Head(list).offset < t.offset
<1> DEFINE rest == Tail(list)
<1>1. /\ Head(list) \in Span /\ rest \in Seq(Span) /\ Len(rest) = Len(list) - 1
      /\ \A i \in 1 .. Len(rest) : rest[i] = list[i + 1]
      /\ Len(list) \in Nat /\ DOMAIN list = 1 .. Len(list) /\ DOMAIN rest = 1 .. Len(rest)
  BY HeadTailProperties, LenProperties
<1>2. Len(list) # 0 /\ Head(list) = list[1]
  BY <1>1, EmptySeq
<1> HIDE DEF rest
<1>3. \A i \in DOMAIN rest : i \in Nat /\ i > 0 /\ i + 1 \in DOMAIN list /\ rest[i] = list[i + 1]
  BY <1>1
<1>4. InOrder(rest)
  <2> SUFFICES ASSUME NEW k \in DOMAIN rest, NEW l \in DOMAIN rest, k < l
               PROVE  list[k + 1].offset < list[l + 1].offset
    BY <1>3 DEF InOrder
  <2>1. k + 1 < l + 1 /\ k + 1 \in DOMAIN list /\ l + 1 \in DOMAIN list
    BY <1>3
  <2> QED
    BY <2>1 DEF InOrder
<1>5. \A i \in DOMAIN rest : list[1].offset < rest[i].offset
  <2> TAKE i \in DOMAIN rest
  <2>1. 1 \in DOMAIN list /\ i + 1 \in DOMAIN list /\ 1 < i + 1 /\ rest[i] = list[i + 1]
    BY <1>1, <1>2, <1>3
  <2> QED
    BY <2>1 DEF InOrder
<1>6. ToSet(list) = {list[1]} \union ToSet(rest)
  <2>1. \A j \in DOMAIN list : j = 1 \/ (j - 1 \in DOMAIN rest /\ rest[j - 1] = list[j])
    <3> TAKE j \in DOMAIN list
    <3>1. CASE j # 1
      <4>1. j - 1 \in 1 .. Len(rest) /\ (j - 1) + 1 = j
        BY <1>1, <3>1
      <4> QED
        BY <1>1, <4>1
    <3> QED
      BY <3>1
  <2>2. 1 \in DOMAIN list
    BY <1>1, <1>2
  <2> QED
    BY <1>3, <2>1, <2>2 DEF ToSet
<1>7. \A t \in ToSet(rest) : list[1].offset < t.offset
  BY <1>5 DEF ToSet
<1> QED
  BY <1>1, <1>2, <1>4, <1>6, <1>7 DEF rest

LEMMA SpanPrimed ==
  /\ InOrder(spans)' = InOrder(spans') /\ ToSet(spans)' = ToSet(spans')
  /\ InOrder(queries)' = InOrder(queries') /\ ToSet(queries)' = ToSet(queries')
  /\ InOrder(skipped)' = InOrder(skipped') /\ ToSet(skipped)' = ToSet(skipped')
BY DEF InOrder, ToSet

LEMMA BuildQueryCuts ==
  ASSUME SqlTyped, CutInv, BuildInv, BuildQuery
  PROVE  SqlTyped' /\ CutInv' /\ BuildInv'
<1> DEFINE s == Head(spans)
           rest == Tail(spans)
<1>1. /\ stage = "build" /\ stage' = stage /\ spans # <<>> /\ text' = text
      /\ start' = start /\ pieces' = pieces /\ spans' = rest
      /\ \/ ParsesAlone(s.text) /\ queries' = Append(queries, s) /\ skipped' = skipped
         \/ ~ParsesAlone(s.text) /\ skipped' = Append(skipped, s) /\ queries' = queries
  BY DEF BuildQuery
<1>2. /\ InOrder(queries) /\ InOrder(skipped) /\ InOrder(spans)
      /\ Statements(Cuts) = ToSet(queries) \union ToSet(skipped) \union ToSet(spans)
      /\ \A q \in ToSet(queries) :
            ParsesAlone(q.text) /\ \A t \in ToSet(spans) : q.offset < t.offset
      /\ \A q \in ToSet(skipped) :
            ~ParsesAlone(q.text) /\ \A t \in ToSet(spans) : q.offset < t.offset
  BY <1>1 DEF BuildInv
<1>3. spans \in Seq(Span) /\ queries \in Seq(Span) /\ skipped \in Seq(Span)
  BY DEF SqlTyped
<1>4. /\ s \in Span /\ rest \in Seq(Span) /\ InOrder(rest)
      /\ ToSet(spans) = {s} \union ToSet(rest)
      /\ \A t \in ToSet(rest) : s.offset < t.offset
  BY <1>1, <1>2, <1>3, FirstOf
<1> HIDE DEF s, rest
<1>5. s \in ToSet(spans)
  BY <1>4
<1>6. InOrder(spans)' /\ ToSet(spans)' = ToSet(rest)
  BY <1>1, <1>4, SpanPrimed
<1>7. Statements(Cuts)' = Statements(Cuts)
  BY <1>1, TextSame
<1>8. CutInv'
  BY <1>1 DEF CutInv
<1>9. CASE ParsesAlone(s.text) /\ queries' = Append(queries, s) /\ skipped' = skipped
  <2>1. \A t \in ToSet(queries) : t.offset < s.offset
    BY <1>2, <1>5
  <2>2. /\ queries' \in Seq(Span) /\ InOrder(queries)'
        /\ ToSet(queries)' = ToSet(queries) \union {s}
    BY <1>2, <1>3, <1>4, <1>9, <2>1, AppendedInOrder, SpanPrimed
  <2>3. InOrder(skipped)' /\ ToSet(skipped)' = ToSet(skipped)
    BY <1>2, <1>9, SpanPrimed
  <2>4. SqlTyped'
    BY <1>1, <1>4, <1>9, <2>2 DEF SqlTyped
  <2>5. BuildInv'
    BY <1>1, <1>2, <1>4, <1>6, <1>7, <1>9, <2>2, <2>3 DEF BuildInv
  <2> QED
    BY <1>8, <2>4, <2>5
<1>10. CASE ~ParsesAlone(s.text) /\ skipped' = Append(skipped, s) /\ queries' = queries
  <2>1. \A t \in ToSet(skipped) : t.offset < s.offset
    BY <1>2, <1>5
  <2>2. /\ skipped' \in Seq(Span) /\ InOrder(skipped)'
        /\ ToSet(skipped)' = ToSet(skipped) \union {s}
    BY <1>2, <1>3, <1>4, <1>10, <2>1, AppendedInOrder, SpanPrimed
  <2>3. InOrder(queries)' /\ ToSet(queries)' = ToSet(queries)
    BY <1>2, <1>10, SpanPrimed
  <2>4. SqlTyped'
    BY <1>1, <1>4, <1>10, <2>2 DEF SqlTyped
  <2>5. BuildInv'
    BY <1>1, <1>2, <1>4, <1>6, <1>7, <1>10, <2>2, <2>3 DEF BuildInv
  <2> QED
    BY <1>8, <2>4, <2>5
<1> QED
  BY <1>1, <1>9, <1>10

LEMMA ReturnQueriesCuts ==
  ASSUME SqlTyped, CutInv, BuildInv, ReturnQueries
  PROVE  SqlTyped' /\ CutInv' /\ BuildInv'
<1>1. /\ stage = "build" /\ spans = <<>> /\ stage' = "done"
      /\ text' = text /\ pieces' = pieces /\ start' = start
      /\ spans' = spans /\ queries' = queries /\ skipped' = skipped
  BY DEF ReturnQueries
<1>2. SqlTyped' /\ CutInv'
  BY <1>1 DEF SqlTyped, CutInv
<1>3. BuildInv'
  BY <1>1, TextSame, SpanPrimed DEF BuildInv
<1> QED
  BY <1>2, <1>3

LEMMA SqlSame ==
  ASSUME SqlTyped, CutInv, BuildInv, UNCHANGED sqlVars
  PROVE  SqlTyped' /\ CutInv' /\ BuildInv'
<1>1. /\ stage' = stage /\ text' = text /\ pieces' = pieces /\ start' = start
      /\ spans' = spans /\ queries' = queries /\ skipped' = skipped
  BY DEF sqlVars
<1>2. SqlTyped'
  BY <1>1 DEF SqlTyped
<1>3. CutInv'
  BY <1>1, TextSame, SpanPrimed DEF CutInv
<1>4. BuildInv'
  BY <1>1, TextSame, SpanPrimed DEF BuildInv
<1> QED
  BY <1>2, <1>3, <1>4

LEMMA SqlStep ==
  ASSUME SqlTyped, CutInv, BuildInv, SqlNext
  PROVE  SqlTyped' /\ CutInv' /\ BuildInv'
BY ReturnEmptyCuts, TokenizeCuts, NextTokenCuts, TrailingCuts, NextChunkCuts,
   BuildQueryCuts, ReturnQueriesCuts DEF SqlNext

-----------------------------------------------------------------------------
(* The SQL file parser: what the invariant says of a call that has ended.  *)

LEMMA StatementsConclusion ==
  ASSUME SqlTyped, BuildInv
  PROVE  StatementsExact
<1> SUFFICES ASSUME stage = "done", Tokenizable(text)
             PROVE  StatementsExact
  BY DEF StatementsExact
<1>1. ToSet(spans) = {}
  BY NothingYet DEF BuildInv
<1>2. Cuts = SemicolonTokens(text)
  BY DEF Cuts
<1> QED
  BY <1>1, <1>2 DEF BuildInv, StatementsExact

Uncut(t) == \A i \in DOMAIN t : t[i] # ";"

\* A statement without a semicolon in it is cut in the same way at every semicolon.
LEMMA CutTheSame ==
  ASSUME text \in Seq(Symbols), NEW p \in Begins(SemicolonTokens(text)),
         Uncut(StatementAt(p, SemicolonTokens(text)).text)
  PROVE  /\ p \in Begins(AllSemicolons(text))
         /\ StatementAt(p, AllSemicolons(text)) = StatementAt(p, SemicolonTokens(text))
<1> DEFINE tokens == SemicolonTokens(text)
           each == AllSemicolons(text)
           Rest(cuts) == {i \in DOMAIN text :
                            i >= p /\ text[i] # "\n" /\ \A c \in cuts : c > i \/ c < p}
           last == Max(Rest(tokens))
<1>1. Len(text) \in Nat /\ DOMAIN text = 1 .. Len(text)
  BY TextDomain
<1>2. tokens \subseteq each /\ \A c \in each : c \in 1 .. Len(text)
  BY <1>1 DEF SemicolonTokens, AllSemicolons
<1>3. \A i \in 1 .. Len(text) : i \in each <=> text[i] = ";"
  BY <1>1 DEF AllSemicolons
<1>4. p \in 1 .. Len(text) /\ p \notin tokens /\ text[p] # "\n"
  BY <1>1 DEF Begins
<1>5. \A cuts : StatementAt(p, cuts)
                  = [text |-> SubSeq(text, p, Max(Rest(cuts))), offset |-> p - 1,
                     line |-> 1 + Cardinality({i \in 1 .. p : text[i] = "\n"})]
  BY DEF StatementAt
<1>6. Uncut(SubSeq(text, p, last))
  <2> DEFINE lines == 1 + Cardinality({i \in 1 .. p : text[i] = "\n"})
             s == StatementAt(p, tokens)
             body == SubSeq(text, p, last)
  <2>1. s = [text |-> body, offset |-> p - 1, line |-> lines]
    BY <1>5
  <2>2. Uncut(s.text)
    OBVIOUS
  <2> HIDE DEF lines, s, body, last, Rest
  <2>3. s.text = body
    BY <2>1
  <2> QED
    BY <2>2, <2>3 DEF body
<1> HIDE DEF tokens, each
<1>7. Rest(tokens) \subseteq p .. Len(text)
  BY <1>1, <1>4
<1>8. p \in Rest(tokens)
  <2>1. \A c \in tokens : c > p \/ c < p
    BY <1>2, <1>4
  <2> QED
    BY <1>1, <1>4, <2>1
<1>9. last \in Rest(tokens) /\ \A i \in Rest(tokens) : i <= last
  <2>1. Rest(tokens) \subseteq 0 .. Len(text)
    BY <1>1, <1>4, <1>7
  <2> HIDE DEF Rest
  <2> QED
    BY <1>1, <1>8, <2>1, MinMax
<1>10. last \in p .. Len(text)
  BY <1>7, <1>9
<1> HIDE DEF last
<1>11. ASSUME NEW i \in p .. last
       PROVE  text[i] # ";"
  <2> DEFINE body == SubSeq(text, p, last)
  <2>1. \A j \in p .. last : text[j] \in Symbols
    <3> SUFFICES ASSUME NEW j \in p .. last
                 PROVE  j \in 1 .. Len(text)
      BY ElementOfSeq
    <3> QED
      BY <1>1, <1>4, <1>10
  <2>2. /\ body \in Seq(Symbols) /\ Len(body) = last - p + 1
        /\ \A k \in 1 .. last - p + 1 : body[k] = text[p + k - 1]
    <3>1. p \in Int /\ last \in Int /\ p <= last
      BY <1>4, <1>10
    <3> QED
      BY <2>1, <3>1, SubSeqProperties
  <2>3. i - p + 1 \in 1 .. last - p + 1 /\ p + (i - p + 1) - 1 = i
    BY <1>4, <1>10
  <2>4. DOMAIN body = 1 .. Len(body)
    BY <2>2, LenProperties
  <2> HIDE DEF body
  <2>5. i - p + 1 \in DOMAIN body /\ body[i - p + 1] = text[i]
    BY <2>2, <2>3, <2>4
  <2> QED
    BY <1>6, <2>5 DEF Uncut, body
<1>12. \A c \in each : c \in Nat /\ (c < p \/ c > last)
  <2> TAKE c \in each
  <2>1. c \in 1 .. Len(text)
    BY <1>2
  <2>2. text[c] = ";"
    BY <1>3, <2>1
  <2>3. c \notin p .. last
    BY <1>11, <2>2
  <2>4. p \in Nat /\ last \in Nat /\ c \in Nat
    BY <1>1, <1>4, <1>10, <2>1
  <2> HIDE DEF Rest
  <2> QED
    BY <2>3, <2>4
<1>13. last \in Rest(each)
  <2>1. last \in DOMAIN text /\ last >= p /\ text[last] # "\n"
    BY <1>1, <1>4, <1>9, <1>10
  <2>2. \A c \in each : c > last \/ c < p
    BY <1>12
  <2> QED
    BY <2>1, <2>2
<1>14. Rest(each) \subseteq Rest(tokens)
  BY <1>2
<1>15. Max(Rest(each)) = last
  <2>1. Rest(each) \subseteq Int
    BY <1>4, <1>7, <1>14
  <2> HIDE DEF Rest
  <2> QED
    BY <1>9, <1>13, <1>14, <2>1, MinMaxAre
<1>16. StatementAt(p, each) = StatementAt(p, tokens)
  BY <1>5, <1>15 DEF last
<1>17. p \notin each
  <2>1. p \in p .. last /\ p <= last
    BY <1>4, <1>10
  <2> QED
    BY <1>3, <1>4, <1>11, <2>1
<1>18. ASSUME NEW i \in 1 .. (p - 1), i \notin each, text[i] # "\n"
       PROVE  \E c \in each : i < c /\ c < p
  <2>1. i \notin tokens
    BY <1>2, <1>18
  <2>2. \E c \in tokens : i < c /\ c < p
    BY <1>18, <2>1 DEF Begins, tokens
  <2> QED
    BY <1>2, <2>2
<1>19. p \in Begins(each)
  BY <1>1, <1>4, <1>17, <1>18 DEF Begins
<1> QED
  BY <1>16, <1>19 DEF tokens, each

LEMMA PortionConclusion ==
  ASSUME SqlTyped, BuildInv
  PROVE  ReadablePortionKept
<1> SUFFICES ASSUME stage = "done", ~Tokenizable(text),
                    NEW p \in Begins(SemicolonTokens(text)),
                    Uncut(StatementAt(p, SemicolonTokens(text)).text),
                    ParsesAlone(StatementAt(p, SemicolonTokens(text)).text)
             PROVE  StatementAt(p, SemicolonTokens(text)) \in ToSet(queries)
  BY DEF ReadablePortionKept, Statements, Uncut
<1>1. ToSet(spans) = {} /\ Cuts = AllSemicolons(text) /\ text \in Seq(Symbols)
  BY NothingYet DEF BuildInv, Cuts, SqlTyped
<1>2. StatementAt(p, SemicolonTokens(text)) \in Statements(Cuts)
  BY <1>1, CutTheSame DEF Statements
<1> QED
  BY <1>1, <1>2 DEF BuildInv

-----------------------------------------------------------------------------
(* Both parsers.                                                           *)

ParsingInv ==
  /\ LogTyped /\ EntriesInv /\ BlocksInv
  /\ SqlTyped /\ CutInv /\ BuildInv

LEMMA EmptyTimed ==
  ASSUME timed = <<>>
  PROVE  timed \in Seq(Timed) /\ DOMAIN timed = {}
OBVIOUS

LEMMA LogBegins ==
  ASSUME LogInit, log \in Seq(LineKinds)
  PROVE  LogTyped /\ EntriesInv /\ BlocksInv
<1>1. /\ reading = "blocks" /\ index = 1 /\ block = 0 /\ timed = <<>>
      /\ Len(log) \in Nat
  BY LogDomain DEF LogInit
<1>2. LogTyped
  BY <1>1, EmptyTimed DEF LogTyped
<1>3. EntriesInv
  BY <1>1 DEF EntriesInv
<1>4. BlocksInv
  <2>1. \A b \in Blocks : ~(b[1] < 1)
    <3>1. \A i \in 1 .. Len(log) : ~(i < 1)
      BY <1>1
    <3> QED
      BY <3>1, LogDomain DEF Blocks
  <2>2. Above(1) = {}
    BY <2>1 DEF Above
  <2>3. Cardinality(Above(1)) = 0
    BY <2>2, FS_EmptySet
  <2>4. BlocksRead(1)
    BY <1>1, <2>1, EmptyTimed DEF BlocksRead
  <2> QED
    BY <1>1, <2>3, <2>4, EmptyTimed DEF BlocksInv
<1> QED
  BY <1>2, <1>3, <1>4

LEMMA SqlBegins ==
  ASSUME SqlInit, text \in Seq(Symbols)
  PROVE  SqlTyped /\ CutInv /\ BuildInv
<1>1. /\ stage = "read" /\ pieces = {} /\ start = 0 /\ spans = <<>> /\ queries = <<>>
      /\ skipped = <<>>
  BY DEF SqlInit
<1> QED
  BY <1>1, NothingYet DEF SqlTyped, CutInv, BuildInv

LEMMA ParsingBegins ==
  ASSUME Init
  PROVE  ParsingInv
<1>1. log \in Seq(LineKinds) /\ text \in Seq(Symbols)
  <2>1. <<>> \in Seq(LineKinds) /\ <<>> \in Seq(Symbols)
    BY EmptySeq
  <2>2. (text \in Texts \/ text = <<>>) /\ (log \in Logs \/ log = <<>>)
    BY DEF Init
  <2> QED
    BY <2>1, <2>2, TextsAssumption, LogsAssumption
<1> QED
  BY <1>1, LogBegins, SqlBegins DEF Init, ParsingInv

LEMMA ParsingStep ==
  ASSUME ParsingInv, [Next]_parsingVars
  PROVE  ParsingInv'
<1>1. CASE SqlNext /\ UNCHANGED logVars
  BY <1>1, SqlStep, LogSame DEF ParsingInv
<1>2. CASE LogNext /\ UNCHANGED sqlVars
  BY <1>2, LogStep, SqlSame DEF ParsingInv
<1>3. CASE UNCHANGED parsingVars
  BY <1>3, LogSame, SqlSame DEF ParsingInv, parsingVars
<1> QED
  BY <1>1, <1>2, <1>3 DEF Next

THEOREM ParsingInvariant == Spec => []ParsingInv
<1>1. Init => ParsingInv
  BY ParsingBegins
<1>2. ParsingInv /\ [Next]_parsingVars => ParsingInv'
  BY ParsingStep
<1> QED
  BY <1>1, <1>2, PTL DEF Spec

(* The variables have their types: each query of a file is a piece of text *)
(* with its offset and line, and each query of a log is two lines of it.   *)
THEOREM ParsingTypes == Spec => [](SqlTyped /\ LogTyped)
<1>1. ParsingInv => SqlTyped /\ LogTyped
  BY DEF ParsingInv
<1> QED
  BY <1>1, ParsingInvariant, PTL

(* Every statement of a file that can be tokenized is a query, verbatim,   *)
(* in order and with its line, or a warning names it                       *)
(* (sql_file_parser.py:76-97 and 161-166).                                 *)
THEOREM StatementsAreExact == Spec => []StatementsExact
<1>1. ParsingInv => StatementsExact
  BY StatementsConclusion DEF ParsingInv
<1> QED
  BY <1>1, ParsingInvariant, PTL

(* An unterminated literal costs no statement that parses, unless one of   *)
(* its own literals holds a semicolon (sql_file_parser.py:100-112).        *)
THEOREM ReadablePortionIsKept == Spec => []ReadablePortionKept
<1>1. ParsingInv => ReadablePortionKept
  BY PortionConclusion DEF ParsingInv
<1> QED
  BY <1>1, ParsingInvariant, PTL

(* A log of documented blocks gives one query for each block whose time is *)
(* a number, with its own statement, time and number                       *)
(* (log_parser.py:112-142).                                                *)
THEOREM BlocksAreExact == Spec => []BlocksExact
<1>1. ParsingInv => BlocksExact
  BY BlocksConclusion DEF ParsingInv
<1> QED
  BY <1>1, ParsingInvariant, PTL

(* A log without blocks gives one query for each entry, of its own lines   *)
(* and with its own time (log_parser.py:144-193).                          *)
THEOREM EntriesAreExact == Spec => []EntriesExact
<1>1. ParsingInv => EntriesExact
  BY EntriesConclusion DEF ParsingInv
<1> QED
  BY <1>1, ParsingInvariant, PTL

=============================================================================
