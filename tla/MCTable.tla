------------------------------ MODULE MCTable ------------------------------
\* Bounds for checking Table: a table with a TEXT before its INT key, one with
\* a VECTOR, one of an old version, and one CREATE TABLE must refuse.
EXTENDS Table

Col(type) == [type |-> type, dims |-> 1, pk |-> FALSE, unique |-> FALSE,
              notNull |-> FALSE, hasDefault |-> FALSE, def |-> 0]
Name == [Col("text") EXCEPT !.unique = TRUE, !.hasDefault = TRUE, !.def = 1]
Id   == [Col("int") EXCEPT !.pk = TRUE]
Vec  == [Col("vector") EXCEPT !.unique = TRUE, !.dims = 2]

MCSchemas ==
    [n \in {"t", "old", "v", "bad"} |->
        CASE n = "t"   -> [cols |-> <<Name, Id>>, nullmap |-> TRUE]
          [] n = "old" -> [cols |-> <<Col("text"), Id>>, nullmap |-> FALSE]
          [] n = "v"   -> [cols |-> <<Vec, Id>>, nullmap |-> TRUE]
          [] OTHER     -> [cols |-> <<Id, Id>>, nullmap |-> TRUE]]
MCLegacy == {"old"}
MCTextLen == [x \in {0, 1, 2} |-> x]

MCInserts == [n \in DOMAIN MCSchemas |->
    CASE n = "t"   -> {<<1, 1>>, <<2, 1>>, <<2, 2>>, <<Null, 3>>, <<Dflt, 3>>, <<1, Null>>, <<1>>}
      [] n = "old" -> {<<Null, 1>>}
      [] n = "v"   -> {<<1, 1>>, <<2, 2>>, <<BadVec, 3>>, <<Null, 3>>}
      [] OTHER     -> {<<1, 1>>}]
MCSets == [n \in DOMAIN MCSchemas |->
    CASE n = "t"   -> {<<1, 2>>, <<1, Null>>, <<2, 3>>, <<2, Dflt>>}
      [] n = "old" -> {<<1, Null>>, <<0, 1>>}
      [] n = "v"   -> {<<1, 1>>, <<1, BadVec>>, <<1, Null>>}
      [] OTHER     -> {<<1, 1>>}]
Clause(c, op, v) == [col |-> c, op |-> op, val |-> v]
MCWheres == {{}, {Clause(2, ">=", 2)}, {Clause(1, "is null", Null), Clause(2, "<", 3)}}

MCValues == {EncodeRow(MCSchemas[n], <<a, b>>) : n \in {"t", "old", "v"}, a \in {0, 1, 2, Null}, b \in {1, 2, 3}}
MCSize == [v \in MCValues |-> 1 + Len(v.body)]

MCView ==
    <<store.head, tabs, splits,
      [i \in PageNos(store) |->
          <<store.pages[i].word, store.pages[i].rest.next, Ents(store.pages[i])>>]>>

=============================================================================
