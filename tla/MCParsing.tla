------------------------------ MODULE MCParsing ------------------------------
(* Small sources for Parsing: every text of at most MaxSymbols symbols, every *)
(* log of at most MaxLines lines, and every log of at most MaxSegments        *)
(* segments, a documented block, one of its parts missing or wrong, or noise. *)
EXTENDS Parsing

CONSTANTS MaxSymbols, MaxLines, MaxSegments

MCTexts == BoundedSeq(Symbols, MaxSymbols)

Segments ==
  {<<"query", "sql", "blank", "time", "ms">>,
   <<"query", "torn", "torn", "blank", "time", "blank", "ms">>,
   <<"query", "sql", "blank", "time", "badms">>,
   <<"query", "sql">>,
   <<"query", "blank", "blank", "time", "ms">>,
   <<"blank", "sql">>,
   <<"entry", "sql">>}

MCLogs ==
  BoundedSeq(LineKinds, MaxLines)
    \union {FlattenSeq(s) : s \in BoundedSeq(Segments, MaxSegments)}
=============================================================================
