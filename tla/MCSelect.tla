------------------------------ MODULE MCSelect -----------------------------
\* Bounds for checking Select: tables of up to four rows, one more than is
\* kept, over an INT, a TEXT and a VECTOR column with nulls in each.
EXTENDS Select

MCSchema == [cols |-> <<[type |-> "int"], [type |-> "text"], [type |-> "vector", dims |-> 2]>>,
             nullmap |-> TRUE]
MCTextLen == [x \in {0} |-> 0]
MCDist == <<1, 0, 3>>

\* 2 is the text NULL; -4 the smallest number.
MCRows == {<<2, 1, 1>>, <<-3, Null, 2>>, <<Null, 2, 3>>, <<2, 2, Null>>}
MCTables == UNION {[1 .. n -> MCRows] : n \in 0 .. 4}
            \cup {<<<<2, 1, 1>>, <<-4, 1, 2>>, <<-3, Null, 2>>>>}

Rows == [api |-> "exec", wheres |-> {}, near |-> <<>>, order |-> <<>>, agg |-> "rows",
         on |-> <<>>, distinct |-> FALSE, cols |-> <<1, 2, 3>>, limit |-> <<>>]
Clause(c, op, v) == [col |-> c, op |-> op, val |-> v]
Near(k) == <<[col |-> 3, th |-> 2, k |-> k, dims |-> 2]>>
Agg(f, c) == [Rows EXCEPT !.agg = f, !.on = <<c>>]

MCQueries ==
    {[Rows EXCEPT !.wheres = {Clause(c, op, v)}] :
        c \in {2, 3}, op \in {"!=", "<", "is null"}, v \in {2, Null}}
    \cup {[Rows EXCEPT !.order = <<c>>, !.limit = l, !.cols = <<2>>, !.distinct = d] :
            c \in {0, 1, 2}, l \in {<<>>, <<0>>, <<2>>}, d \in BOOLEAN}
    \cup {[Rows EXCEPT !.near = Near(k), !.order = o] : k \in {0, 1, 2}, o \in {<<>>, <<1>>}}
    \cup {[Agg(f, c) EXCEPT !.distinct = d, !.api = a] :
            f \in {"sum", "avg"}, c \in {1, 2}, d \in BOOLEAN, a \in {"exec", "query"}}
    \cup {Agg(f, c) : f \in {"max", "min"}, c \in {1, 2, 3}}
    \cup {[Agg("count", c) EXCEPT !.distinct = d] : c \in {0, 2, 3}, d \in BOOLEAN}
    \cup {[Rows EXCEPT !.agg = "count", !.distinct = d, !.near = Near(1)] : d \in BOOLEAN}

=============================================================================
