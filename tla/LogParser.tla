------------------------------ MODULE LogParser ------------------------------
(***************************************************************************)
(* One call of LogParser.parse, parser/log_parser.py: blocks of the simple *)
(* format are looked for first, entries of a duration log only if there    *)
(* are none.                                                               *)
(*                                                                         *)
(* A log is a sequence of lines, a line is what the patterns tell apart:   *)
(*   "query"   Query:                 "time"    Execution Time:            *)
(*   "ms"      820 ms                 "badms"   1.2.3 ms                   *)
(*   "sql"     other text             "torn"    text with an open literal  *)
(*   "blank"                          "stamp"   a time stamp, other text   *)
(*   "entry"   a time stamp, duration: 820 ms statement: and SQL           *)
(*   "empty"   the same without the SQL, "bad" with 1.2.3 for the number,  *)
(*   "bare"    the same without the time stamp                             *)
(***************************************************************************)
EXTENDS Integers, FiniteSets, SequencesExt

CONSTANT Logs   \* the logs there may be

LineKinds ==
  {"query", "time", "ms", "badms", "sql", "torn", "blank", "stamp",
   "entry", "empty", "bad", "bare"}

ASSUME LogsAssumption == Logs \subseteq Seq(LineKinds)

VARIABLES
  log,       \* the lines
  reading,   \* which format is looked for, then how the call ended
  index,     \* the line the search goes on from
  block,     \* how many blocks have matched
  timed      \* the Query objects: their lines, where they are said to be, and
             \* the line their execution time is from

logVars == <<log, reading, index, block, timed>>

LogInit ==
  /\ reading = "blocks"
  /\ index = 1
  /\ block = 0
  /\ timed = <<>>

Lines(from, to) == {i \in from .. to : i <= Len(log)}

Blank(from, to) == \A i \in Lines(from, to) : log[i] = "blank"

\* str.strip() of a stretch of lines: what is left, as its first and last line.
Stripped(from, to) ==
  LET text == {i \in Lines(from, to) : log[i] # "blank"}
  IN  IF text = {} THEN <<>> ELSE <<Min(text), Max(text)>>

\* sqlglot raises a TokenError when a literal is open at the end of the text;
\* _try_enrich_with_parse lets it pass.
Untokenizable(part) ==
  part # <<>> /\ Cardinality({i \in part[1] .. part[2] : log[i] = "torn"}) % 2 = 1

-----------------------------------------------------------------------------
\* _SIMPLE_BLOCK_PATTERN, from a "Query:" on line i.

\* The number that the pattern finds for an "Execution Time:" on line j.
Numbers(j) ==
  {n \in Lines(j + 1, Len(log)) : log[n] \in {"ms", "badms"} /\ Blank(j + 1, n - 1)}

\* Where the statement may begin and end: at least one blank line after it, then
\* "Execution Time:" and a number.
Ends(begin) ==
  {e \in begin .. Len(log) :
     \E j \in Lines(e + 2, Len(log)) :
        log[j] = "time" /\ Blank(e + 1, j - 1) /\ Numbers(j) # {}}

\* Mutant of Matches: a greedy statement.
MatchesGreedy(i) ==
  {match \in (i + 1 .. Len(log)) \X (i + 1 .. Len(log)) :
     /\ log[i] = "query"
     /\ match[1] = i + 1 /\ match[2] \in Ends(i + 1)
     /\ \A f \in Ends(i + 1) : f <= match[2]}

\* "\s*" takes as many blank lines as it can, the statement as few lines.
Matches(i) ==
  {match \in (i + 1 .. Len(log)) \X (i + 1 .. Len(log)) :
     LET begin == match[1]
         end   == match[2]
     IN  /\ log[i] = "query"
         /\ Blank(i + 1, begin - 1)
         /\ end \in Ends(begin) /\ \A f \in Ends(begin) : f >= end
         /\ \A c \in (begin + 1) .. Len(log) :
               Blank(i + 1, c - 1) => Ends(c) = {}}

TakeBlock(match) ==
  LET part == Stripped(match[1], match[2])
      time == Min({t \in Lines(match[2] + 1, Len(log)) : log[t] = "time"})
      number == Min(Numbers(time))
  IN  /\ index' = number + 1
      /\ block' = block + 1
      /\ IF part = <<>> \/ log[number] = "badms"
         THEN UNCHANGED <<reading, timed>>
         ELSE IF Untokenizable(part)
         THEN reading' = "TokenError" /\ UNCHANGED timed
         ELSE /\ timed' = Append(timed, [lines |-> part, at |-> block + 1, time |-> number])
              /\ UNCHANGED reading

NextBlock ==
  /\ reading = "blocks"
  /\ \E i \in index .. Len(log) :
        /\ Matches(i) # {}
        /\ \A j \in index .. (i - 1) : Matches(j) = {}
        /\ \E match \in Matches(i) : TakeBlock(match)
  /\ UNCHANGED log

NoMoreBlocks ==
  /\ reading = "blocks"
  /\ \A i \in index .. Len(log) : Matches(i) = {}
  /\ reading' = IF timed = <<>> THEN "entries" ELSE "done"
  /\ index' = 1
  /\ UNCHANGED <<log, block, timed>>

-----------------------------------------------------------------------------
\* _parse_duration_log.

HasDuration(i) == log[i] \in {"entry", "empty", "bad", "bare"}
HasStamp(i) == log[i] \in {"stamp", "entry", "empty", "bad"}

\* Mutant of Boundary: an entry goes on to the next one with a duration.
BoundaryAtDuration(i) ==
  Min({n \in Lines(i + 1, Len(log)) : HasDuration(n)} \union {Len(log) + 1})

\* The line after the continuation lines of the entry on line i.
Boundary(i) ==
  Min({n \in Lines(i + 1, Len(log)) : HasStamp(n)} \union {Len(log) + 1})

EntryText(i) ==
  Stripped(IF log[i] = "empty" THEN i + 1 ELSE i, Boundary(i) - 1)

NextLine ==
  /\ reading = "entries"
  /\ index <= Len(log)
  /\ ~HasDuration(index)
  /\ index' = index + 1
  /\ UNCHANGED <<log, reading, block, timed>>

NextEntry ==
  /\ reading = "entries"
  /\ index <= Len(log)
  /\ HasDuration(index)
  /\ index' = Boundary(index)
  /\ IF log[index] = "bad" \/ EntryText(index) = <<>>
     THEN UNCHANGED <<reading, timed>>
     ELSE IF Untokenizable(EntryText(index))
     THEN reading' = "TokenError" /\ UNCHANGED timed
     ELSE /\ timed' = Append(timed, [lines |-> EntryText(index), at |-> index,
                                     time |-> index])
          /\ UNCHANGED reading
  /\ UNCHANGED <<log, block>>

ReturnEntries ==
  /\ reading = "entries"
  /\ index > Len(log)
  /\ reading' = "done"
  /\ UNCHANGED <<log, index, block, timed>>

LogNext == NextBlock \/ NoMoreBlocks \/ NextLine \/ NextEntry \/ ReturnEntries

-----------------------------------------------------------------------------
\* A block as it is documented: the statement right below "Query:", a blank
\* line, "Execution Time:" and the number right below it.
IsBlock(i, j) ==
  /\ i + 1 < j - 1 /\ j < Len(log)
  /\ log[i] = "query" /\ log[j] = "time" /\ log[j - 1] = "blank"
  /\ log[i + 1] # "blank" /\ log[j + 1] \in {"ms", "badms"}
  /\ \A k \in (i + 1) .. (j - 1) : log[k] \notin {"query", "time"}

Blocks == {b \in (DOMAIN log) \X (DOMAIN log) : IsBlock(b[1], b[2])}

(* In a log whose every "Query:" begins a block as documented, each block  *)
(* gives one query, with its own statement, its own time and its number;   *)
(* a time that is no number costs that block only (log_parser.py:112-142). *)
BlocksExact ==
  /\ reading = "done" /\ Blocks # {}
  /\ \A i \in DOMAIN log : log[i] = "query" => \E j \in DOMAIN log : <<i, j>> \in Blocks
  /\ \E b \in Blocks : log[b[2] + 1] = "ms"
  => LET Number(b) == Cardinality({c \in Blocks : c[1] <= b[1]})
     IN  /\ \A x, y \in DOMAIN timed : x < y => timed[x].at < timed[y].at
         /\ ToSet(timed) =
              {[lines |-> Stripped(b[1] + 1, b[2] - 1), at |-> Number(b),
                time |-> b[2] + 1] : b \in {c \in Blocks : log[c[2] + 1] = "ms"}}

\* A line with a duration begins an entry, unless it is itself the continuation
\* of one: no line since that is stamped.
Entries ==
  {i \in DOMAIN log :
     /\ HasDuration(i)
     /\ \A j \in 1 .. (i - 1) :
           HasDuration(j) => \E k \in (j + 1) .. i : HasStamp(k)}

(* In a log without blocks each entry gives one query with its own time,   *)
(* made of its own lines: all of them up to the next time stamp, whatever  *)
(* that is the stamp of (log_parser.py:144-193).                           *)
EntriesExact ==
  reading = "done" /\ block = 0 =>
     LET sound == {i \in Entries : log[i] # "bad" /\ EntryText(i) # <<>>}
     IN  /\ \A x, y \in DOMAIN timed : x < y => timed[x].at < timed[y].at
         /\ {timed[x].at : x \in DOMAIN timed} = sound
         /\ \A x \in DOMAIN timed :
               LET own == timed[x].lines
               IN  /\ timed[x].time = timed[x].at
                   /\ own[1] \in {timed[x].at} \union
                        {i \in Lines(timed[x].at + 1, own[1]) : log[timed[x].at] = "empty"}
                   /\ \A i \in (timed[x].at + 1) .. own[2] : ~HasStamp(i)
                   /\ \A i \in (own[2] + 1) .. Len(log) :
                        log[i] = "blank" \/ \E k \in (own[2] + 1) .. i : HasStamp(k)
=============================================================================
