------------------------------- MODULE Select -------------------------------
(***************************************************************************)
(* SELECT: exec_select (src/core/sql/exec_select.c) and db_query           *)
(* (exec_query.c), from the scan of the table to the answer, with the      *)
(* exchange sorts step by step.  `api' tells the two apart: they differ in *)
(* AVG over a TEXT column only.                                            *)
(*                                                                         *)
(* A row is the tuple of its cells (RowFormat's Cells).  A vector is its   *)
(* identity, with Dist its cosine distance from the query's vector; it is  *)
(* short enough for its printed form to tell it from others.  No text of   *)
(* the model begins with a digit.                                          *)
(*                                                                         *)
(* Optional parts of a query are sequences: <<>> when absent.              *)
(***************************************************************************)
EXTENDS RowFormat

CONSTANTS
    Schema,    \* of the table queried
    Tables,    \* the sequences of rows a scan can pass to scan_cb
    Queries,   \* [api, wheres, near, order, agg, on, distinct, cols, limit]
    RowLimit,  \* the rows scan_cb keeps, 256
    IntMax,    \* the largest number
    NullText,  \* the text NULL
    Dist       \* distance of each vector

VARIABLES
    q,     \* the query
    data,  \* the rows of the table
    pc,    \* "check", "scan", "near", "order", "answer", "done"
    at,    \* entries scanned
    rows,  \* ScanCtx.rows
    i, j,  \* loop variables of the sorts
    out    \* return code, rows or value

Operators == {"=", "!=", "<", ">", "<=", ">=", "is null", "is not null"}

ASSUME LimitAssumption == RowLimit \in Nat \ {0} /\ IntMax \in Nat /\ RowLimit <= IntMax

IntMin == -IntMax - 1

\* Rows have the columns of the schema, and their vectors a distance.
CellValue == IntMin .. IntMax \cup {Null}
ASSUME RowsAssumption ==
    /\ \A c \in ColNos(Schema) : Schema.cols[c].type \in {"int", "text", "vector"}
    /\ Null \notin Int
    /\ Dist \in [DOMAIN Dist -> Int] /\ DOMAIN Dist \subseteq Int
    /\ \A t \in Tables : /\ t \in Seq([ColNos(Schema) -> CellValue])
                         /\ \A r \in DOMAIN t, c \in ColNos(Schema) :
                               Schema.cols[c].type = "vector" => t[r][c] \in DOMAIN Dist \cup {Null}

\* What the parser makes: a column for every aggregate but COUNT(*).
ASSUME QueriesAssumption ==
    \A query \in Queries :
        /\ query.wheres \subseteq [col : Int, op : Operators, val : Int \cup {Null}]
        /\ query.near \in Seq([col : Int, th : Int, k : Int, dims : Int])
        /\ query.order \in Seq(Int) /\ query.on \in Seq(Int) /\ query.cols \in Seq(Int)
        /\ query.limit \in Seq(Nat)
        /\ query.agg \in {"rows", "count", "sum", "avg", "max", "min"}
        /\ query.agg \notin {"rows", "count"} => query.on # <<>>
        /\ query.distinct \in BOOLEAN /\ query.api \in {"exec", "query"}

vars == <<q, data, pc, at, rows, i, j, out>>

Type(c) == Schema.cols[c].type
Plain == q.agg = "rows"

Init == /\ q \in Queries
        /\ data \in Tables
        /\ pc = "check"
        /\ at = 0
        /\ rows = <<>>
        /\ i = 1 /\ j = 2
        /\ out = [rc |-> 0, rows |-> <<>>, val |-> Null]

----------------------------------------------------------------------------
(* Numbers and cells. *)

\* 64-bit addition.
Wrap(n) == ((n - IntMin) % (2 * (IntMax + 1))) + IntMin

\* A cell as comparisons and aggregates see it, printed and parsed again: the
\* smallest number prints as "-", which is parsed as 0.
Read(c, v) == IF Type(c) = "int" /\ v = IntMin THEN 0 ELSE v

\* A cell in the answer: NULL looks like the text NULL.
Printed(c, v) == IF v = Null /\ Type(c) = "text" THEN NullText ELSE v

\* Mutant of Quot: division rounds down.
QuotFloor(a, b) == a \div b

\* Division of C: towards zero.
Quot(a, b) == IF a >= 0 THEN a \div b ELSE -((-a) \div b)

\* Mutant of Firsts: only the element before is compared.
FirstsAdjacent(seq) ==
    FoldLeft(LAMBDA seen, x : IF seen # <<>> /\ Last(seen) = x THEN seen ELSE Append(seen, x), <<>>, seq)

\* The dup loops of DISTINCT: each element where it occurs first.
Firsts(seq) == FoldLeft(LAMBDA seen, x : IF Contains(seen, x) THEN seen ELSE Append(seen, x), <<>>, seq)

----------------------------------------------------------------------------
(* The checks before the scan. *)

BadNear(near) == \/ near.col \notin ColNos(Schema)
                 \/ Type(near.col) # "vector"
                 \/ near.th < 0
                 \/ near.dims # Schema.cols[near.col].dims

Refused ==
    \/ Plain /\ ~(ToSet(q.cols) \subseteq ColNos(Schema))
    \/ \E w \in q.wheres : BadClause(Schema, w)
    \/ \E c \in ToSet(q.order) : c \notin ColNos(Schema) \/ Type(c) = "vector"
    \/ \E c \in ToSet(q.on) : c \notin ColNos(Schema) \/ (q.agg # "count" /\ Type(c) = "vector")
    \/ \E near \in ToSet(q.near) : BadNear(near)

Check == /\ pc = "check"
         /\ pc' = IF Refused THEN "done" ELSE "scan"
         /\ out' = IF Refused THEN [out EXCEPT !.rc = -1] ELSE out
         /\ UNCHANGED <<q, data, at, rows, i, j>>

----------------------------------------------------------------------------
(* The scan. *)

\* Mutant of HasSpace: one row more than the array holds.
HasSpaceOneMore == Len(rows) <= RowLimit

HasSpace == Len(rows) < RowLimit

\* eval_cossim_row: a null vector is never near.
IsNear(near, v) == v # Null /\ Dist[v] <= near.th

\* scan_cb's filter
Wanted(row) == /\ \A w \in q.wheres : CellPasses(Read(w.col, row[w.col]), w)
               /\ \A near \in ToSet(q.near) : IsNear(near, row[near.col])

ScanRow == /\ pc = "scan"
           /\ at < Len(data)
           /\ at' = at + 1
           /\ rows' = IF HasSpace /\ Wanted(data[at + 1]) THEN Append(rows, data[at + 1]) ELSE rows
           /\ UNCHANGED <<q, data, pc, i, j, out>>

\* Only a SELECT of rows is cut to the k nearest.
Nearest == Plain /\ q.near # <<>> /\ q.near[1].k > 0

ScanEnd == /\ pc = "scan"
           /\ at = Len(data)
           /\ pc' = IF Nearest THEN "near"
                    ELSE IF q.order # <<>> THEN "order" ELSE "answer"
           /\ UNCHANGED <<q, data, at, rows, i, j, out>>

----------------------------------------------------------------------------
(* The sorts: place i is compared with every later place j. *)

\* Mutant of OrderAfter: nulls are not told from values they sort after.
OrderAfterNullsStay(c, x, y) == x # Null /\ y # Null /\ Read(c, x) > Read(c, y)

\* ORDER BY's comparison: nulls last.
OrderAfter(c, x, y) == IF x = Null \/ y = Null THEN x = Null /\ y # Null
                       ELSE Read(c, x) > Read(c, y)

After(a, b) == IF pc = "near" THEN Dist[a[q.near[1].col]] > Dist[b[q.near[1].col]]
               ELSE OrderAfter(q.order[1], a[q.order[1]], b[q.order[1]])

\* Mutant of Exchange: the later row is copied, not exchanged.
ExchangeCopies == /\ pc \in {"near", "order"}
                  /\ j <= Len(rows)
                  /\ rows' = IF After(rows[i], rows[j]) THEN [rows EXCEPT ![i] = rows[j]] ELSE rows
                  /\ j' = j + 1
                  /\ UNCHANGED <<q, data, pc, at, i, out>>

Exchange == /\ pc \in {"near", "order"}
            /\ j <= Len(rows)
            /\ rows' = IF After(rows[i], rows[j])
                       THEN [rows EXCEPT ![i] = rows[j], ![j] = rows[i]] ELSE rows
            /\ j' = j + 1
            /\ UNCHANGED <<q, data, pc, at, i, out>>

\* Mutant of NextPlace: the outer loop does not advance.
NextPlaceStays == /\ pc \in {"near", "order"}
                  /\ j > Len(rows) /\ i < Len(rows)
                  /\ j' = i + 1
                  /\ UNCHANGED <<q, data, pc, at, rows, i, out>>

NextPlace == /\ pc \in {"near", "order"}
             /\ j > Len(rows) /\ i < Len(rows)
             /\ i' = i + 1 /\ j' = i + 2
             /\ UNCHANGED <<q, data, pc, at, rows, out>>

\* The k nearest stay; ORDER BY starts over on them.
NearEnd == /\ pc = "near"
           /\ i >= Len(rows)
           /\ rows' = IF Len(rows) > q.near[1].k THEN SubSeq(rows, 1, q.near[1].k) ELSE rows
           /\ pc' = IF q.order # <<>> THEN "order" ELSE "answer"
           /\ i' = 1 /\ j' = 2
           /\ UNCHANGED <<q, data, at, out>>

OrderEnd == /\ pc = "order"
            /\ i >= Len(rows)
            /\ pc' = "answer"
            /\ UNCHANGED <<q, data, at, rows, i, j, out>>

----------------------------------------------------------------------------
(* Aggregates. *)

\* The values of a column that are not NULL.
Column(c) == FoldLeft(LAMBDA vs, row : IF row[c] = Null THEN vs ELSE Append(vs, row[c]), <<>>, rows)
Used(c) == IF q.distinct THEN Firsts(Column(c)) ELSE Column(c)

\* parse_int_val makes 0 of a text.
Total(c) == FoldLeft(LAMBDA sum, v : IF Type(c) = "int" THEN Wrap(sum + Read(c, v)) ELSE 0, 0, Used(c))

\* MAX and MIN over every value, DISTINCT or not.
Extremum(c) == FoldLeft(LAMBDA best, v :
                          LET n == Read(c, v)
                          IN  IF best = Null THEN n
                              ELSE IF (q.agg = "max" /\ n > best) \/ (q.agg = "min" /\ n < best) THEN n
                              ELSE best, Null, Column(c))

Count == IF q.on # <<>> THEN Len(Used(q.on[1]))
         ELSE IF q.distinct THEN Len(Firsts(rows)) ELSE Len(rows)

\* SUM takes no TEXT; AVG takes one in db_query.
WrongType == /\ Type(q.on[1]) # "int"
             /\ q.agg = "sum" \/ (q.agg = "avg" /\ q.api = "exec")

Aggregate ==
    LET c == q.on[1]
    IN  /\ pc = "answer" /\ ~Plain
        /\ pc' = "done"
        /\ out' = IF q.agg = "count" THEN [out EXCEPT !.val = Count]
                  ELSE IF WrongType THEN [out EXCEPT !.rc = -1]
                  ELSE IF q.agg \in {"max", "min"} THEN [out EXCEPT !.val = Extremum(c)]
                  ELSE IF Used(c) = <<>> THEN out
                  ELSE [out EXCEPT !.val = IF q.agg = "sum" THEN Total(c)
                                           ELSE Quot(Total(c), Len(Used(c)))]
        /\ UNCHANGED <<q, data, at, rows, i, j>>

----------------------------------------------------------------------------
(* Rows. *)

Projected(row) == [p \in DOMAIN q.cols |-> Printed(q.cols[p], row[q.cols[p]])]

\* Projection, DISTINCT on what is printed, LIMIT.
Project ==
    LET cells == [r \in DOMAIN rows |-> Projected(rows[r])]
        kept  == IF q.distinct THEN Firsts(cells) ELSE cells
    IN  /\ pc = "answer" /\ Plain
        /\ pc' = "done"
        /\ out' = [out EXCEPT !.rows = IF q.limit # <<>> /\ q.limit[1] < Len(kept)
                                       THEN SubSeq(kept, 1, q.limit[1]) ELSE kept]
        /\ UNCHANGED <<q, data, at, rows, i, j>>

Next == \/ Check \/ ScanRow \/ ScanEnd
        \/ Exchange \/ NextPlace \/ NearEnd \/ OrderEnd
        \/ Aggregate \/ Project

\* One thread runs the statement to its end.
Spec == Init /\ [][Next]_vars /\ WF_vars(Next)

----------------------------------------------------------------------------
(* What a query means, said without the algorithm. *)

\* The signs of cell - value a comparison accepts.
Signs == [op \in {"=", "!=", "<", ">", "<=", ">="} |->
            CASE op = "=" -> {0}  [] op = "!=" -> {-1, 1}  [] op = "<" -> {-1}
              [] op = ">" -> {1}  [] op = "<=" -> {-1, 0}  [] OTHER     -> {0, 1}]
Sign(a, b) == IF a < b THEN -1 ELSE IF a > b THEN 1 ELSE 0
Holds(v, w) ==
    \/ w.op = "is null" /\ v = Null
    \/ w.op = "is not null" /\ v # Null
    \/ w.op = "!=" /\ w.val = Null /\ v # Null
    \/ w.op \in DOMAIN Signs /\ w.val # Null /\ v # Null /\ Sign(v, w.val) \in Signs[w.op]

Selects(row) ==
    /\ \A w \in q.wheres : Holds(row[w.col], w)
    /\ \A near \in ToSet(q.near) : row[near.col] # Null /\ Dist[row[near.col]] <= near.th

\* The positions of the rows the clauses select, and of the first RowLimit.
Selected == {p \in DOMAIN data : Selects(data[p])}
Matches == {p \in Selected : Cardinality({o \in Selected : o < p}) < RowLimit}
Found(x) == Cardinality({p \in Matches : data[p] = x})

\* The table is without the smallest number, which does not survive printing.
Sane == \A r \in DOMAIN data : \A c \in ColNos(Schema) : data[r][c] # IntMin
Occurs(seq, x) == Cardinality({p \in DOMAIN seq : seq[p] = x})
Least(a, b) == IF a < b THEN a ELSE b
Answered == pc = "done" /\ out.rc = 0 /\ Sane

----------------------------------------------------------------------------
(* Properties. *)

\* Types of the variables; the arrays of 256 rows are not exceeded, and the
\* loop variables stay within one of them.
TypeOK == /\ q \in Queries /\ data \in Tables
          /\ pc \in {"check", "scan", "near", "order", "answer", "done"}
          /\ at \in 0 .. Len(data)
          /\ Len(rows) <= RowLimit /\ ToSet(rows) \subseteq ToSet(data)
          /\ i \in 1 .. RowLimit /\ j \in 2 .. RowLimit + 1
          /\ out.rc \in {0, -1}
          /\ out.val \in IntMin .. IntMax \cup {Null}

\* When the answer is made the rows are those selected, each as often as it
\* was, or the k nearest of them.
SelectionExact ==
    pc = "answer" /\ Sane =>
        LET k     == IF Nearest THEN q.near[1].k ELSE 0
            on    == IF q.near # <<>> THEN q.near[1].col ELSE 0
            count == Cardinality(Matches)
        IN  /\ \A x \in ToSet(rows) : Occurs(rows, x) <= Found(x)
            /\ Len(rows) = IF k > 0 THEN Least(k, count) ELSE count
            /\ k > 0 => \A p \in Matches, y \in ToSet(rows) :
                           Occurs(rows, data[p]) < Found(data[p]) => Dist[y[on]] <= Dist[data[p][on]]

\* And they are in the order asked for: by the ORDER BY column with nulls last,
\* else by distance when the k nearest were asked for.
NullsLast(x, y) == y = Null \/ (x # Null /\ x <= y)
SelectionInOrder ==
    pc = "answer" /\ Sane =>
        \A a, b \in DOMAIN rows : a < b =>
            IF q.order # <<>> THEN NullsLast(rows[a][q.order[1]], rows[b][q.order[1]])
            ELSE Nearest => Dist[rows[a][q.near[1].col]] <= Dist[rows[b][q.near[1].col]]

\* The rows answered to those with these cells, as they are shown: in their
\* order, for DISTINCT where their cells occur first, cut at LIMIT only.
RightRows(answer, cells, shown, distinct, limit) ==
    LET kept  == {r \in DOMAIN cells : distinct => \A s \in 1 .. r - 1 : cells[s] # cells[r]}
        count == Cardinality(kept)
    IN  /\ Len(answer) = IF limit # <<>> THEN Least(limit[1], count) ELSE count
        /\ \A r \in kept : LET p == Cardinality({s \in kept : s <= r})
                           IN  p <= Len(answer) => answer[p] = shown[r]
Asked(row) == [p \in DOMAIN q.cols |-> row[q.cols[p]]]
RowsRight == RightRows(out.rows, [r \in DOMAIN rows |-> Asked(rows[r])],
                       [r \in DOMAIN rows |-> Projected(rows[r])], q.distinct, q.limit)

\* No column asked for holds both NULL and the text NULL.
NullStandsOut == \A c \in ToSet(q.cols), a, b \in DOMAIN data :
                    Type(c) = "text" /\ data[a][c] = Null => data[b][c] # NullText

\* The rows answered are the selection's, which DISTINCT compares by their
\* cells: it tells NULL from every text but the text NULL, whose rows it may
\* merge with those of NULL (DistinctTellsNull).
RowsAnswered == Answered /\ Plain /\ (q.distinct => NullStandsOut) => RowsRight

\* DISTINCT "removes duplicate rows after projection" (docs/sql.md:151), and
\* "`NULL` is a value, not a string" (docs/sql.md:9).
DistinctTellsNull == Answered /\ Plain => RowsRight

\* The column's cells that are not NULL, with their rows; its values and sum.
Filled == {x \in {<<p, data[p][q.on[1]]>> : p \in Selected} : x[2] # Null}
Values == {x[2] : x \in Filled}
SumOf(numbers) == FoldSet(LAMBDA v, s : v + s, 0, numbers)
SumOfCells(cells) == FoldSet(LAMBDA x, s : x[2] + s, 0, cells)
Sum == IF q.distinct THEN SumOf(Values) ELSE SumOfCells(Filled)
Abs(a) == IF a < 0 THEN -a ELSE a

CountRight ==
    out.val = IF q.on = <<>>
              THEN Cardinality(IF q.distinct THEN {data[p] : p \in Selected} ELSE Selected)
              ELSE Cardinality(IF q.distinct THEN Values ELSE Filled)

\* db_query's AVG takes a TEXT column.
AverageOfText == q.api = "query" /\ q.agg = "avg" /\ Type(q.on[1]) = "text"

\* Aggregates over the rows selected, when the scan keeps them all and the
\* column is not one of AverageOfText (AverageOfNumbers, CountsAllRows): nulls are
\* skipped, but for COUNT(*), and over nothing all but COUNT are NULL; SUM and
\* AVG want an INT column; SUM is right when the sum fits 64 bits, and AVG is
\* the mean cut towards zero then; MAX and MIN bound the values.
AggregateAnswered ==
    Answered /\ ~Plain /\ ~AverageOfText /\ Cardinality(Selected) <= RowLimit =>
        LET n == Cardinality(IF q.distinct THEN Values ELSE Filled)
        IN  IF q.agg = "count" THEN CountRight
            ELSE /\ q.agg \in {"sum", "avg"} => Type(q.on[1]) = "int"
                 /\ IF Filled = {} THEN out.val = Null
                    ELSE CASE q.agg = "max" -> out.val \in Values /\ \A v \in Values : v <= out.val
                           [] q.agg = "min" -> out.val \in Values /\ \A v \in Values : v >= out.val
                           [] q.agg = "sum" -> Sum \in IntMin .. IntMax => out.val = Sum
                           [] OTHER         -> Sum \in IntMin .. IntMax =>
                                                  /\ Abs(out.val) = Abs(Sum) \div n
                                                  /\ Sign(out.val, 0) * Sign(Sum, 0) >= 0

\* "`AVG` and `SUM` require an `INT` column" (docs/sql.md:175-176).
AverageOfNumbers == Answered /\ q.agg \in {"sum", "avg"} => Type(q.on[1]) = "int"

\* "`COUNT(*)` (or bare `COUNT()`) counts rows", COUNT of a column those where it
\* is not NULL (docs/sql.md:174-175).
CountsAllRows == Answered /\ q.agg = "count" => CountRight

\* Every query is answered, whatever the rows: the loops end.
EveryQueryEnds == <>(pc = "done")

=============================================================================
