----------------------------- MODULE MCAdvice ------------------------------
(* Two families of workloads.  Shapes: one query on one table or two, every *)
(* way its clauses may share the columns.  Mixes: up to MaxQueries queries, *)
(* of kinds chosen for what they have in common: tables, findings, texts.   *)
EXTENDS AdviceRun

CONSTANT MaxQueries

MCTables == {"t", "u"}
MCColumns == {"a", "b", "c"}
MCAliases == {"x", "y", "t"}
MCRelations == MCTables \union {None}
MCStructures == {"point", "star", "random", "like", "join", "product", "other"}

Refs(qualifier, columns) ==
  [i \in DOMAIN columns |-> [qualifier |-> qualifier, column |-> columns[i]]]

Orders(qualifier, columns) ==
  [i \in DOMAIN columns |-> [qualifier |-> qualifier, column |-> columns[i], desc |-> FALSE]]

Like(table, column) == [table |-> table, column |-> column]

Table(name) == [name |-> name, alias |-> None]
Aliased(name, alias) == [name |-> name, alias |-> alias]

Scan(table) == [code |-> "SEQ_SCAN_LARGE_TABLE", relation |-> table, severity |-> "HIGH"]
Loop(severity) ==
  [code |-> "NESTED_LOOP_LARGE_ROWCOUNT", relation |-> None, severity |-> severity]
Misestimate(severity) ==
  [code |-> "CARDINALITY_MISESTIMATION", relation |-> "t", severity |-> severity]

On(from) ==
  [from |-> from, equality |-> <<>>, range |-> <<>>, join |-> <<>>, orderBy |-> <<>>,
   selected |-> <<>>, star |-> {}, conjunctive |-> TRUE]

Plain == [selectStar |-> FALSE, starTable |-> "t", wildcards |-> <<>>, random |-> FALSE,
          structure |-> "other", firstTable |-> "t"]

Analyzed(query, text, findings) ==
  [query |-> query, text |-> text, analyzed |-> TRUE, findings |-> findings]

-----------------------------------------------------------------------------
OneTable ==
  {Analyzed([On(<<Table("t")>>) EXCEPT !.equality = Refs(None, e), !.range = Refs("t", r),
                              !.orderBy = Orders(None, o), !.selected = Refs(None, s)],
            Plain, <<Scan("t")>>) :
     e \in {<<>>, <<"b">>, <<"b", "a">>}, r \in {<<>>, <<"a">>, <<"b">>, <<"a", "c">>},
     o \in {<<>>, <<"a">>, <<"c", "a">>, <<"b", "c">>}, s \in {<<"b">>, <<"c", "b">>}}

\* The table t under its name or under an alias, joined with u, with itself, or with
\* a u that is called t.
Joins ==
  {<<Table("t"), Table("u")>>, <<Aliased("t", "x"), Aliased("u", "y")>>,
   <<Aliased("t", "x"), Aliased("t", "y")>>, <<Aliased("t", "x"), Aliased("u", "t")>>}

Joined(from) ==
  {Analyzed([On(from) EXCEPT !.equality = Refs(x, e), !.range = Refs(CalledAs(from[1]), r),
                             !.join = Refs(CalledAs(from[1]), j) \o Refs(CalledAs(from[2]), j),
                             !.orderBy = Orders(CalledAs(from[1]), o), !.conjunctive = c],
            Plain, <<Loop("HIGH"), Scan("t")>>) :
     x \in {CalledAs(from[1]), CalledAs(from[2]), None}, e \in {<<>>, <<"a">>}, r \in {<<>>, <<"b">>},
     j \in {<<"c">>, <<"a", "c">>}, o \in {<<>>, <<"b">>}, c \in BOOLEAN}

Shapes == {<<entry>> : entry \in OneTable \union UNION {Joined(from) : from \in Joins}}

-----------------------------------------------------------------------------
Point == [On(<<Table("t")>>) EXCEPT !.equality = Refs(None, <<"a">>)]

Lookup     == Analyzed([Point EXCEPT !.selected = Refs(None, <<"b">>)],
                       [Plain EXCEPT !.structure = "point"], <<Scan("t")>>)
LookupStar == Analyzed([Point EXCEPT !.star = {"t"}],
                       [Plain EXCEPT !.structure = "star", !.selectStar = TRUE],
                       <<Scan("t"), Misestimate("MEDIUM")>>)
Unfiltered == Analyzed(On(<<Table("u")>>), [Plain EXCEPT !.structure = "random", !.random = TRUE, !.firstTable = "u"],
                       <<Scan("u")>>)
Wildcard   == Analyzed(On(<<Table("t")>>),
                       [Plain EXCEPT !.structure = "like",
                                     !.wildcards = <<Like(None, "c"), Like(None, "c"), Like("t", "a")>>],
                       <<Scan("t")>>)
SelfJoin   == Analyzed([On(<<Aliased("t", "x"), Aliased("t", "y")>>)
                          EXCEPT !.join = Refs("x", <<"a">>) \o Refs("y", <<"b">>)],
                       [Plain EXCEPT !.structure = "join"],
                       <<Loop("MEDIUM"), Misestimate("MEDIUM"), Misestimate("HIGH")>>)
Product    == Analyzed(On(<<Table("t"), Table("u")>>), [Plain EXCEPT !.structure = "product"],
                       <<Loop("HIGH"), Scan("u")>>)
Skipped    == [Lookup EXCEPT !.analyzed = FALSE, !.findings = <<>>]

Mixes ==
  BoundedSeq({Lookup, LookupStar, Unfiltered, Wildcard, SelfJoin, Product, Skipped}, MaxQueries)

MCWorkloads == Shapes \union Mixes

MCDrops ==
  {<<>>, <<[code |-> "DUPLICATE_INDEX", relation |-> "t"],
           [code |-> "UNUSED_INDEX", relation |-> "t"]>>}
=============================================================================
