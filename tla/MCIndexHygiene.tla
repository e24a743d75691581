--------------------------- MODULE MCIndexHygiene ---------------------------
(* Catalogs of at most three indexes on two columns.  The first family has  *)
(* one schema and plain indexes, the second one schema and every kind of    *)
(* index, the third two schemas with names in common.                       *)
EXTENDS IndexHygiene, FiniteSets

MCColumns == {"a", "b"}
MCExpressions == {"lower(a)", "lower(b)"}

Make(schema, table, name, keys, unique, scans) ==
  [schema |-> schema, table |-> table, name |-> name, keys |-> keys,
   included |-> <<>>, partial |-> FALSE, isUnique |-> unique,
   isPrimary |-> FALSE, scans |-> scans]

PlainKeys == {<<"a">>, <<"b">>, <<"a", "b">>}

\* A plain index of each name.
PlainOf(name) ==
  {Make(1, 1, name, keys, unique, scans) :
     keys \in PlainKeys, unique \in BOOLEAN, scans \in {0, 7}}

PlainCatalogs ==
  {{x, y, z} : x \in PlainOf(1), y \in PlainOf(2), z \in PlainOf(3)}

\* Indexes with something the code does not read.
OddOf(name) ==
  PlainOf(name) \union
  {[Make(1, 1, name, keys, FALSE, 0) EXCEPT !.partial = p, !.included = i] :
     keys \in {<<"a">>, <<"lower(a)">>, <<"lower(b)">>},
     p \in BOOLEAN, i \in {<<>>, <<"b">>}}

OddCatalogs == {{x, y} : x \in OddOf(1), y \in OddOf(2)}

\* Two schemas, with one table or two, and an index of the same name or not.
TwoSchemas ==
  {{x, y, z} :
     x \in {Make(1, 2, 1, k, u, 7) : k \in PlainKeys, u \in BOOLEAN},
     y \in {Make(2, t, n, k, FALSE, s) :
              t \in {1, 2}, n \in {1, 3}, k \in PlainKeys, s \in {0, 7}},
     z \in {Make(1, 1, 2, k, FALSE, 7) : k \in PlainKeys}}

MCCatalogs == PlainCatalogs \union OddCatalogs \union TwoSchemas
=============================================================================
