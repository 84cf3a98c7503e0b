----------------------------- MODULE RowFormat -----------------------------
(***************************************************************************)
(* Rows as src/core/sql/exec_util.c stores, reads, compares and changes    *)
(* them.                                                                   *)
(*                                                                         *)
(* A row is [map, body]: the null bitmap as the set of its columns, and    *)
(* the fields after it in units: IntLen units for an INT, `dims' for a     *)
(* VECTOR, a length and that many units for a TEXT.  Every unit of a field *)
(* holds its value, so that a field read at a wrong offset shows.  A value *)
(* is an integer: a number, the rank of a text under rsc_strcmp (0 is the  *)
(* empty text) or the identity of an encoded vector.  Texts are what a     *)
(* quoted literal yields, at most 63 bytes, and no number is the smallest  *)
(* one of 64 bits: printing and parsing a cell loses nothing then.         *)
(*                                                                         *)
(* A schema is [cols, nullmap].  Columns are numbered from 1; column 0 is  *)
(* a name that find_col does not find.                                     *)
(***************************************************************************)
EXTENDS Integers, Sequences, FiniteSets, SequencesExt

CONSTANTS
    IntLen,   \* units of an INT
    TextLen,  \* units of each text
    RowMax,   \* units row_replace_col accepts in a row
    Null,     \* the literal NULL, and a null cell
    BadVec    \* a vector literal that does not fit its column

ASSUME RowAssumption == /\ IntLen \in Nat \ {0}
                        /\ TextLen \in [DOMAIN TextLen -> Nat]
                        /\ \A text \in DOMAIN TextLen : TextLen[text] = 0 <=> text = 0
                        /\ Null \notin Int

ColNos(sch) == 1 .. Len(sch.cols)

Encodable(lit) == lit # BadVec

\* A schema, and a value of a column.
ColumnOk(col) == /\ col.type \in {"int", "text", "vector"}
                 /\ col.type = "vector" => col.dims \in Nat \ {0}
SchemaOk(sch) == /\ Len(sch.cols) \in Nat /\ sch.nullmap \in BOOLEAN
                 /\ \A c \in ColNos(sch) : ColumnOk(sch.cols[c])
ValueOk(col, v) == v \in Int /\ (col.type \notin {"int", "vector"} => v \in DOMAIN TextLen)

\* One field: the 8 bytes of an INT, the payload of a VECTOR, length and bytes
\* of a TEXT.
Field(col, v) ==
    LET units(n) == [i \in 1 .. n |-> v]
    IN  CASE col.type = "int"    -> units(IntLen)
          [] col.type = "vector" -> units(col.dims)
          [] OTHER               -> <<TextLen[v]>> \o units(TextLen[v])

\* row_is_null: without a bitmap nothing is null.
RowIsNull(sch, row, c) == sch.nullmap /\ c \in row.map

\* The units of column c's field when it starts at `at'.
Width(sch, row, c, at) ==
    LET col == sch.cols[c]
    IN  IF RowIsNull(sch, row, c) THEN 0
        ELSE CASE col.type = "int"    -> IntLen
               [] col.type = "vector" -> col.dims
               [] OTHER               -> 1 + row.body[at]

\* row_col_ptr: the fields before the column are walked, since TEXT has no
\* fixed width and null columns have no field.
RowColPtr(sch, row, c) ==
    LET p[k \in 0 .. c - 1] == IF k = 0 THEN 1 ELSE p[k - 1] + Width(sch, row, k, p[k - 1])
    IN  p[c - 1]

\* row_cell_str
Cell(sch, row, c) ==
    LET at == RowColPtr(sch, row, c)
    IN  IF RowIsNull(sch, row, c) THEN Null
        ELSE IF sch.cols[c].type # "text" THEN row.body[at]
        ELSE IF row.body[at] = 0 THEN 0 ELSE row.body[at + 1]

\* decode_row_all
Cells(sch, row) == [c \in ColNos(sch) |-> Cell(sch, row, c)]

\* encode_row_new, and INSERT's own encoding into a table without a bitmap,
\* where NULL is stored as 0 or the empty text.
EncodeRow(sch, vals) ==
    LET field(c) == IF vals[c] # Null THEN Field(sch.cols[c], vals[c])
                    ELSE IF sch.nullmap THEN <<>> ELSE Field(sch.cols[c], 0)
    IN  [map  |-> IF sch.nullmap THEN {c \in ColNos(sch) : vals[c] = Null} ELSE {},
         body |-> FlattenSeq([c \in ColNos(sch) |-> field(c)])]

\* row_replace_col: the field is cut out and the new one put in its place, and
\* the column's bit is set or cleared.
ReplaceCol(sch, row, c, v) ==
    LET at    == RowColPtr(sch, row, c)
        field == IF v = Null THEN <<>> ELSE Field(sch.cols[c], v)
    IN  [map  |-> IF ~sch.nullmap THEN {} ELSE IF v = Null THEN row.map \cup {c} ELSE row.map \ {c},
         body |-> SubSeq(row.body, 1, at - 1) \o field
                    \o SubSeq(row.body, at + Width(sch, row, c, at), Len(row.body))]

\* The calls row_replace_col answers with -1.
CannotReplace(sch, row, c, v) ==
    \/ ~Encodable(v)
    \/ v = Null /\ ~sch.nullmap
    \/ Len(ReplaceCol(sch, row, c, v).body) > RowMax

\* The comparisons of eval_where; any other operator compares as "=".
Compare(op, a, b) == CASE op = "!=" -> a # b
                       [] op = "<"  -> a < b
                       [] op = ">"  -> a > b
                       [] op = "<=" -> a <= b
                       [] op = ">=" -> a >= b
                       [] OTHER     -> a = b

\* eval_where on the cell of the clause's column.  A null cell passes only IS
\* NULL; a value passes != NULL, and no other comparison with NULL.
CellPasses(cell, w) ==
    IF w.op = "is null" THEN cell = Null
    ELSE /\ cell # Null
         /\ w.op # "is not null" => IF w.val = Null THEN w.op = "!=" ELSE Compare(w.op, cell, w.val)

\* The filter of scan_cb and of the loops of UPDATE and DELETE: all clauses.
RowPasses(sch, row, wheres) == \A w \in wheres : CellPasses(Cell(sch, row, w.col), w)

\* The clauses a statement is refused for: an unknown column or a VECTOR.
BadClause(sch, w) == w.col \notin ColNos(sch) \/ sch.cols[w.col].type = "vector"

=============================================================================
