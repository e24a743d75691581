---------------------------- MODULE SqlFileParser ----------------------------
(***************************************************************************)
(* One call of SqlFileParser.parse_text, parser/sql_file_parser.py: the    *)
(* text of a file is cut at semicolons, by the tokens of sqlglot or, when  *)
(* it cannot be tokenized, at every semicolon, and each statement becomes  *)
(* a Query or is skipped.                                                  *)
(*                                                                         *)
(* A text is a sequence of symbols: a word, a word no statement parses     *)
(* with, a semicolon, a quote, a line break.  Offsets are the program's,   *)
(* from 0: the character at an offset is the symbol one further on.        *)
(***************************************************************************)
EXTENDS Integers, FiniteSets, SequencesExt

CONSTANT Texts   \* the texts a file may hold

Symbols == {"word", "broken", ";", "'", "\n"}

ASSUME TextsAssumption == Texts \subseteq Seq(Symbols)

VARIABLES
  text,      \* the text of the file
  stage,     \* where parse_text is
  pieces,    \* where the pieces still to come end: the semicolon tokens, or the
             \* ends of the chunks
  start,     \* the offset after the last semicolon
  spans,     \* the statements cut so far, then those still to be parsed
  queries,   \* the Query objects, as the spans they were made of
  skipped    \* the spans a warning was logged for

sqlVars == <<text, stage, pieces, start, spans, queries, skipped>>

SqlInit ==
  /\ stage = "read"
  /\ pieces = {}
  /\ start = 0
  /\ spans = <<>>
  /\ queries = <<>>
  /\ skipped = <<>>

-----------------------------------------------------------------------------
\* sqlglot.

Count(t, symbol, last) == Cardinality({i \in 1 .. last : t[i] = symbol})

\* A symbol is part of a literal when the quotes before it do not pair up.
InLiteral(t, i) == Count(t, "'", i) % 2 = 1

Tokenizable(t) == ~InLiteral(t, Len(t))

AllSemicolons(t) == {i \in DOMAIN t : t[i] = ";"}
SemicolonTokens(t) == {i \in AllSemicolons(t) : ~InLiteral(t, i)}

ParsesAlone(t) ==
  Tokenizable(t) /\ \A i \in DOMAIN t : t[i] = "broken" => InLiteral(t, i)

-----------------------------------------------------------------------------
\* Cutting spans out of the text.

LineNumberAt(offset) == Count(text, "\n", offset) + 1

Content(raw) == {i \in DOMAIN raw : raw[i] # "\n"}

Slice(from, to) == SubSeq(text, from + 1, to)

\* The span of some of the symbols of raw, which begins at an offset: its text, the
\* offset of its first symbol, and a line.
SpanOf(raw, offset, content, line) ==
  [text |-> SubSeq(raw, Min(content), Max(content)),
   offset |-> offset + Min(content) - 1, line |-> line]

\* Mutant of SpanFrom: the line of the boundary, not of the first character.
SpanFromBoundary(from, to) ==
  LET raw == Slice(from, to)
      content == Content(raw)
  IN  IF content = {} THEN <<>>
      ELSE <<SpanOf(raw, from, content, LineNumberAt(from))>>

\* No span at all, or one.
SpanFrom(from, to) ==
  LET raw == Slice(from, to)
      content == Content(raw)
  IN  IF content = {} THEN <<>>
      ELSE <<SpanOf(raw, from, content, LineNumberAt(from + Min(content) - 1))>>

\* text.split(";"): each chunk lies between two semicolons, or at an end.
ChunkEnds == AllSemicolons(text) \union {Len(text) + 1}

ChunkBefore(end) ==
  LET cut == Max({0} \union {c \in AllSemicolons(text) : c < end})
  IN  Slice(cut, end - 1)

ReturnEmpty ==
  /\ stage = "read"
  /\ Content(text) = {}
  /\ stage' = "done"
  /\ UNCHANGED <<text, pieces, start, spans, queries, skipped>>

Tokenize ==
  /\ stage = "read"
  /\ Content(text) # {}
  /\ IF Tokenizable(text)
     THEN stage' = "tokens" /\ pieces' = SemicolonTokens(text)
     ELSE stage' = "chunks" /\ pieces' = ChunkEnds
  /\ UNCHANGED <<text, start, spans, queries, skipped>>

NextToken ==
  /\ stage = "tokens"
  /\ pieces # {}
  /\ LET semicolon == Min(pieces)
     IN  /\ spans' = spans \o SpanFrom(start, semicolon - 1)
         /\ start' = semicolon
         /\ pieces' = pieces \ {semicolon}
  /\ UNCHANGED <<text, stage, queries, skipped>>

\* What follows the last semicolon.
Trailing ==
  /\ stage = "tokens"
  /\ pieces = {}
  /\ spans' = spans \o SpanFrom(start, Len(text))
  /\ stage' = "build"
  /\ UNCHANGED <<text, pieces, start, queries, skipped>>

\* Mutant of After: the removed semicolon is not counted.
AfterChunk(chunk) == start + Len(chunk)

After(chunk) == start + Len(chunk) + 1

NextChunk ==
  /\ stage = "chunks"
  /\ LET end == Min(pieces)
         chunk == ChunkBefore(end)
     IN  /\ spans' = spans \o SpanFrom(start, start + Len(chunk))
         /\ start' = After(chunk)
         /\ pieces' = pieces \ {end}
  /\ stage' = IF pieces' = {} THEN "build" ELSE "chunks"
  /\ UNCHANGED <<text, queries, skipped>>

\* _build_query for the next span.
BuildQuery ==
  /\ stage = "build"
  /\ spans # <<>>
  /\ IF ParsesAlone(Head(spans).text)
     THEN queries' = Append(queries, Head(spans)) /\ UNCHANGED skipped
     ELSE skipped' = Append(skipped, Head(spans)) /\ UNCHANGED queries
  /\ spans' = Tail(spans)
  /\ UNCHANGED <<text, stage, pieces, start>>

ReturnQueries ==
  /\ stage = "build"
  /\ spans = <<>>
  /\ stage' = "done"
  /\ UNCHANGED <<text, pieces, start, spans, queries, skipped>>

SqlNext ==
  \/ ReturnEmpty \/ Tokenize \/ NextToken \/ Trailing \/ NextChunk
  \/ BuildQuery \/ ReturnQueries

-----------------------------------------------------------------------------
\* What the statements of a text are, without an offset being kept: each begins
\* at a symbol that only line breaks part from the semicolon before it, and ends
\* with the last symbol before the next one.
Begins(cuts) ==
  {p \in DOMAIN text \ cuts :
     /\ text[p] # "\n"
     /\ \A i \in 1 .. (p - 1) :
           i \notin cuts /\ text[i] # "\n" => \E c \in cuts : i < c /\ c < p}

StatementAt(p, cuts) ==
  LET rest == {i \in DOMAIN text :
                 i >= p /\ text[i] # "\n" /\ \A c \in cuts : c > i \/ c < p}
  IN  [text |-> SubSeq(text, p, Max(rest)),
       offset |-> p - 1,
       line |-> 1 + Cardinality({i \in 1 .. p : text[i] = "\n"})]

Statements(cuts) == {StatementAt(p, cuts) : p \in Begins(cuts)}

InOrder(list) == \A k, l \in DOMAIN list : k < l => list[k].offset < list[l].offset

(* Every statement of a file that can be tokenized is a query, in order,   *)
(* verbatim and with the line it begins on, or it does not parse and the   *)
(* warning names that line; one that does not parse costs none of the      *)
(* others (sql_file_parser.py:76-97 and 161-166).                          *)
StatementsExact ==
  stage = "done" /\ Tokenizable(text) =>
     LET all == Statements(SemicolonTokens(text))
     IN  /\ InOrder(queries) /\ InOrder(skipped)
         /\ ToSet(queries) = {s \in all : ParsesAlone(s.text)}
         /\ ToSet(skipped) = {s \in all : ~ParsesAlone(s.text)}

(* When a literal is not terminated the statements that do parse are still *)
(* read, each as it stands and with its own line, unless a semicolon in a  *)
(* literal cuts one of them (sql_file_parser.py:100-112, documented at     *)
(* 23-28).                                                                 *)
ReadablePortionKept ==
  stage = "done" /\ ~Tokenizable(text) =>
     \A statement \in Statements(SemicolonTokens(text)) :
        /\ \A i \in DOMAIN statement.text : statement.text[i] # ";"
        /\ ParsesAlone(statement.text)
        => statement \in ToSet(queries)
=============================================================================
