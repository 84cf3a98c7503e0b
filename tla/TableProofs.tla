---------------------------- MODULE TableProofs ----------------------------
(***************************************************************************)
(* Table for every file size, schema, set of statements and node capacity, *)
(* in histories of at most one split: its types, the pages its statements  *)
(* lose, the uniqueness of keys, and that they mean what SQL says.         *)
(*                                                                         *)
(* The argument goes up in layers.  A row is its fields laid out one after *)
(* another, so that row_col_ptr finds what encode_row_new wrote and        *)
(* row_replace_col makes the row of the changed cells.  A tree is the set  *)
(* of its entries, and a call of btree_insert or btree_delete changes one  *)
(* of them or fails for want of pages (BTreeLemmas).  The loops of UPDATE  *)
(* and DELETE are followed turn by turn.  TableInv says that the trees are *)
(* in order and share no page; the relation of a table is read from its    *)
(* entries, and compared with what SQL makes of it.                        *)
(***************************************************************************)
EXTENDS Table, BTreeLemmas

----------------------------------------------------------------------------
(* Rows: what is read from a row is what was written into it.  A row is the *)
(* fields of its cells joined one after another.                          *)

\* Lists one after another: pre[i] is the first i of them joined.
Joins(pre, fs, n, U) ==
    /\ pre \in [0 .. n -> Seq(U)] /\ pre[0] = <<>>
    /\ \A i \in 1 .. n : pre[i] = pre[i - 1] \o fs[i]

\* FlattenSeq joins its lists one after another.
LEMMA FlattenSteps ==
  ASSUME NEW U, NEW n \in Nat, NEW fs \in [1 .. n -> Seq(U)]
  PROVE  \E pre : Joins(pre, fs, n, U) /\ FlattenSeq(fs) = pre[n]
<1> DEFINE step == [i \in 1 .. n |-> [v \in Seq(U) |-> v \o fs[i]]]
<1>1. step \in [1 .. n -> [Seq(U) -> Seq(U)]] /\ <<>> \in Seq(U)
  OBVIOUS
<1>2. \A i \in 1 .. n : \A v \in Seq(U) : step[i][v] = v \o fs[i]
  OBVIOUS
<1> HIDE DEF step
<1>3. PICK pre \in [0 .. n -> Seq(U)] :
         pre[0] = <<>> /\ \A i \in 1 .. n : pre[i] = step[i][pre[i - 1]]
  <2> DEFINE V == Seq(U)
             b == <<>>
  <2>1. step \in [1 .. n -> [V -> V]] /\ b \in V
    BY <1>1
  <2> HIDE DEF V, b
  <2>2. Recursive(V, b, n, step)
    BY <2>1, Iterates
  <2>3. QED
    BY <2>2 DEF Recursive, V, b
<1>4. \A i \in 1 .. n : pre[i - 1] \in Seq(U) /\ pre[i] = pre[i - 1] \o fs[i]
  <2>1. TAKE i \in 1 .. n
  <2>2. i - 1 \in 0 .. n
    OBVIOUS
  <2>3. QED
    BY <1>2, <1>3, <2>2
<1>5. Joins(pre, fs, n, U)
  BY <1>3, <1>4 DEF Joins
<1>6. Len(fs) = n /\ fs \in Seq(Seq(U))
  BY LenProperties
<1>7. FlattenSeq(fs) = pre[n]
  <2>1. CASE n = 0
    <3>1. fs = <<>>
      BY <1>6, <2>1, EmptySeq
    <3>2. FlattenSeq(fs) = fs
      BY <1>6, <2>1 DEF FlattenSeq
    <3>3. pre[n] = <<>>
      BY <1>3, <2>1
    <3>4. QED
      BY <3>1, <3>2, <3>3
  <2>2. CASE n # 0
    <3>0. pre[1] = fs[1]
      <4>1. 1 \in 1 .. n /\ 1 - 1 = 0
        BY <2>2
      <4>2. pre[1] = <<>> \o fs[1] /\ fs[1] \in Seq(U)
        BY <1>3, <1>4, <4>1
      <4>3. QED
        BY <4>2, ConcatEmptySeq
    <3> DEFINE next(f) == [i \in 1 .. n |-> IF i = 1 THEN fs[i] ELSE f[i - 1] \o fs[i]]
               flatten == CHOOSE f : f = next(f)
               g == [i \in 1 .. n |-> pre[i]]
    <3>1. FlattenSeq(fs) = flatten[n]
      BY <1>6, <2>2 DEF FlattenSeq
    <3>2. \A i \in 1 .. n : g[i] = next(g)[i]
      <4>1. TAKE i \in 1 .. n
      <4>2. CASE i = 1
        BY <4>2, <3>0
      <4>3. CASE i # 1
        <5>1. i - 1 \in 1 .. n /\ g[i - 1] = pre[i - 1] /\ g[i] = pre[i]
          BY <4>3
        <5>2. next(g)[i] = g[i - 1] \o fs[i]
          BY <4>3
        <5>3. pre[i] = pre[i - 1] \o fs[i]
          BY <1>4
        <5>4. QED
          BY <5>1, <5>2, <5>3
      <4>4. QED
        BY <4>2, <4>3
    <3>3. g = next(g)
      BY <3>2
    <3>4. flatten = next(flatten)
      <4> HIDE DEF next, g
      <4>1. QED
        BY <3>3
    <3> HIDE DEF flatten
    <3> DEFINE T == {i \in 0 .. n : i = 0 \/ flatten[i] = pre[i]}
    <3>5. \A i \in 1 .. n : i - 1 \in T => i \in T
      <4>1. TAKE i \in 1 .. n
      <4>2. HAVE i - 1 \in T
      <4>3. next(flatten)[i] = IF i = 1 THEN fs[i] ELSE flatten[i - 1] \o fs[i]
        OBVIOUS
      <4>4. flatten[i] = IF i = 1 THEN fs[i] ELSE flatten[i - 1] \o fs[i]
        <5> HIDE DEF next
        <5>1. QED
          BY <3>4, <4>3
      <4>5. CASE i = 1
        <5>1. flatten[i] = pre[i] /\ i \in 0 .. n
          BY <4>4, <4>5, <3>0
        <5>2. QED
          BY <5>1
      <4>6. CASE i # 1
        <5>1. flatten[i - 1] = pre[i - 1]
          BY <4>2, <4>6
        <5>2. pre[i] = pre[i - 1] \o fs[i] /\ i \in 0 .. n
          BY <1>4
        <5>3. flatten[i] = flatten[i - 1] \o fs[i]
          BY <4>4, <4>6
        <5>4. QED
          BY <5>1, <5>2, <5>3
      <4>7. QED
        BY <4>5, <4>6
    <3>6. n \in 0 .. n /\ 0 \in T
      OBVIOUS
    <3> HIDE DEF T
    <3>7. n \in T
      BY <3>5, <3>6, Upwards
    <3>8. flatten[n] = pre[n]
      BY <3>7, <2>2 DEF T
    <3>9. QED
      BY <3>1, <3>8
  <2>3. QED
    BY <2>1, <2>2
<1>8. QED
  BY <1>5, <1>7

\* The same lists at the end, the same tail.
Tails(f, g, c, m, U) == \E t \in Seq(U) : f[m] = f[c] \o t /\ g[m] = g[c] \o t

\* Lists that agree after the first c of them are joined to the same tail.
LEMMA SameTail ==
  ASSUME NEW U, NEW n \in Nat, NEW fs \in [1 .. n -> Seq(U)], NEW gs \in [1 .. n -> Seq(U)],
         NEW f, Joins(f, fs, n, U), NEW g, Joins(g, gs, n, U),
         NEW c \in 0 .. n, \A i \in c + 1 .. n : fs[i] = gs[i]
  PROVE  \A m \in c .. n : Tails(f, g, c, m, U)
<1> DEFINE T == {i \in 0 .. n : i >= c => Tails(f, g, c, i, U)}
<1>1. \A i \in 0 .. n : f[i] \in Seq(U) /\ g[i] \in Seq(U)
  BY DEF Joins
<1>2. Tails(f, g, c, c, U)
  <2>1. f[c] = f[c] \o <<>> /\ g[c] = g[c] \o <<>> /\ <<>> \in Seq(U)
    BY <1>1, ConcatEmptySeq
  <2>2. QED
    BY <2>1 DEF Tails
<1>3. 0 \in T
  BY <1>2
<1>4. \A i \in 1 .. n : i - 1 \in T => i \in T
  <2>1. TAKE i \in 1 .. n
  <2>2. HAVE i - 1 \in T
  <2>3. CASE i < c
    BY <2>3
  <2>4. CASE i = c
    BY <2>4, <1>2
  <2>5. CASE i > c
    <3>1. i - 1 >= c /\ i - 1 \in 0 .. n /\ i \in c + 1 .. n /\ i \in 0 .. n
      BY <2>5
    <3>2. Tails(f, g, c, i - 1, U)
      BY <2>2, <3>1
    <3>3. PICK t \in Seq(U) : f[i - 1] = f[c] \o t /\ g[i - 1] = g[c] \o t
      BY <3>2 DEF Tails
    <3>4. f[i] = f[i - 1] \o fs[i] /\ g[i] = g[i - 1] \o gs[i] /\ fs[i] = gs[i] /\ fs[i] \in Seq(U)
      BY <3>1 DEF Joins
    <3>5. f[c] \in Seq(U) /\ g[c] \in Seq(U)
      BY <1>1
    <3>6. /\ (f[c] \o t) \o fs[i] = f[c] \o (t \o fs[i])
          /\ (g[c] \o t) \o fs[i] = g[c] \o (t \o fs[i])
          /\ t \o fs[i] \in Seq(U)
      <4> DEFINE a == f[c]
                 b == g[c]
                 u == fs[i]
      <4>1. a \in Seq(U) /\ b \in Seq(U) /\ t \in Seq(U) /\ u \in Seq(U)
        BY <3>3, <3>4, <3>5
      <4> HIDE DEF a, b, u
      <4>2. (a \o t) \o u = a \o (t \o u) /\ (b \o t) \o u = b \o (t \o u)
        <5>1. (a \o t) \o u = a \o (t \o u)
          BY <4>1, ConcatAssociative
        <5>2. (b \o t) \o u = b \o (t \o u)
          BY <4>1, ConcatAssociative
        <5>3. QED
          BY <5>1, <5>2
      <4>3. t \o u \in Seq(U)
        BY <4>1, ConcatProperties
      <4>4. QED
        BY <4>2, <4>3 DEF a, b, u
    <3>7. f[i] = f[c] \o (t \o fs[i]) /\ g[i] = g[c] \o (t \o fs[i])
      BY <3>3, <3>4, <3>6
    <3>8. Tails(f, g, c, i, U)
      BY <3>6, <3>7 DEF Tails
    <3>9. QED
      BY <3>1, <3>8
  <2>6. QED
    BY <2>3, <2>4, <2>5
<1> HIDE DEF T
<1>5. \A i \in 0 .. n : i \in T
  BY <1>3, <1>4, Upwards
<1>6. QED
  BY <1>5 DEF T

\* Units of a row, and the rows a schema allows.
Units == Int
CellOk(sch, c, v) == v # Null => ValueOk(sch.cols[c], v)
CellsOk(sch, cs) ==
    /\ DOMAIN cs = ColNos(sch)
    /\ \A c \in ColNos(sch) : /\ CellOk(sch, c, cs[c])
                              /\ cs[c] = Null => sch.nullmap
NullNoUnit == Null \notin Units

\* One field.
FieldOf(col, v, f) ==
    /\ f \in Seq(Units) /\ f = Field(col, v)
    /\ col.type = "int" => Len(f) = IntLen
    /\ col.type = "vector" => Len(f) = col.dims
    /\ col.type \in {"int", "vector"} => 1 \in 1 .. Len(f) /\ f[1] = v
    /\ col.type \notin {"int", "vector"} =>
          /\ Len(f) = 1 + TextLen[v] /\ f[1] = TextLen[v] /\ TextLen[v] \in Nat
          /\ TextLen[v] = 0 <=> v = 0
          /\ TextLen[v] # 0 => 2 \in 1 .. Len(f) /\ f[2] = v

\* The units of a field, by the type of its column.
LEMMA FieldFacts ==
  ASSUME NEW col, ColumnOk(col), NEW v, ValueOk(col, v)
  PROVE  FieldOf(col, v, Field(col, v))
<1> DEFINE units(n) == [i \in 1 .. n |-> v]
           f == Field(col, v)
<1>1. v \in Units
  BY DEF ValueOk, Units
<1>2. \A n \in Nat : units(n) \in Seq(Units) /\ Len(units(n)) = n /\ \A i \in 1 .. n : units(n)[i] = v
  BY <1>1, LenProperties
<1>3. IntLen \in Nat \ {0} /\ (col.type = "vector" => col.dims \in Nat \ {0})
  BY RowAssumption DEF ColumnOk
<1>4. CASE col.type = "int"
  <2>1. f = units(IntLen)
    BY <1>4 DEF Field
  <2>2. f \in Seq(Units) /\ Len(f) = IntLen /\ 1 \in 1 .. IntLen /\ f[1] = v
    BY <1>2, <1>3, <2>1
  <2> HIDE DEF f
  <2>3. QED
    BY <1>4, <2>2 DEF FieldOf, f
<1>5. CASE col.type = "vector"
  <2>1. f = units(col.dims)
    BY <1>5 DEF Field
  <2>2. f \in Seq(Units) /\ Len(f) = col.dims /\ 1 \in 1 .. col.dims /\ f[1] = v
    <3> DEFINE d == col.dims
               u == units(d)
    <3>1. d \in Nat \ {0}
      BY <1>3, <1>5
    <3> HIDE DEF d
    <3>2. u \in Seq(Units) /\ Len(u) = d /\ (\A i \in 1 .. d : u[i] = v) /\ 1 \in 1 .. d
      BY <1>2, <3>1
    <3> HIDE DEF u
    <3>3. QED
      BY <2>1, <3>2 DEF d, u
  <2> HIDE DEF f
  <2>3. QED
    BY <1>5, <2>2 DEF FieldOf, f
<1>6. CASE col.type \notin {"int", "vector"}
  <2> DEFINE n == TextLen[v]
             one == <<n>>
             rest == units(n)
  <2>1. n \in Nat /\ (n = 0 <=> v = 0)
    BY <1>6, RowAssumption DEF ValueOk
  <2>2. f = one \o rest
    BY <1>6 DEF Field
  <2>3. /\ rest \in Seq(Units) /\ Len(rest) = n /\ \A i \in 1 .. n : rest[i] = v
        /\ one \in Seq(Units) /\ Len(one) = 1 /\ one[1] = n
    <3> HIDE DEF n
    <3>1. rest \in Seq(Units) /\ Len(rest) = n /\ \A i \in 1 .. n : rest[i] = v
      BY <1>2, <2>1
    <3>2. one \in Seq(Units) /\ Len(one) = 1 /\ one[1] = n
      BY <2>1 DEF Units
    <3>3. QED
      BY <3>1, <3>2
  <2> HIDE DEF n, one, rest, f
  <2>4. /\ f \in Seq(Units) /\ Len(f) = 1 + n
        /\ \A i \in 1 .. 1 + n : f[i] = IF i <= 1 THEN one[i] ELSE rest[i - 1]
    BY <2>1, <2>2, <2>3, ConcatProperties
  <2>5. f[1] = n /\ (n # 0 => 2 \in 1 .. 1 + n /\ f[2] = v)
    <3>1. 1 \in 1 .. 1 + n /\ (n # 0 => 2 \in 1 .. 1 + n /\ 1 \in 1 .. n /\ ~(2 <= 1) /\ 2 - 1 = 1)
      BY <2>1
    <3>2. QED
      BY <2>3, <2>4, <3>1
  <2>6. QED
    BY <1>6, <2>1, <2>4, <2>5 DEF FieldOf, f, n
<1>7. QED
  BY <1>4, <1>5, <1>6

\* The fields of a row.
Fields(sch, cs) ==
    [c \in ColNos(sch) |-> IF cs[c] = Null THEN <<>> ELSE Field(sch.cols[c], cs[c])]

\* Every field is a list of units.
LEMMA FieldsType ==
  ASSUME NEW sch, SchemaOk(sch), NEW cs, CellsOk(sch, cs)
  PROVE  Fields(sch, cs) \in [1 .. Len(sch.cols) -> Seq(Units)]
<1>1. <<>> \in Seq(Units)
  BY EmptySeq
<1>2. \A c \in ColNos(sch) : cs[c] # Null => Field(sch.cols[c], cs[c]) \in Seq(Units)
  BY FieldFacts DEF FieldOf, CellsOk, CellOk, SchemaOk
<1>3. \A c \in ColNos(sch) : Fields(sch, cs)[c] \in Seq(Units)
  BY <1>1, <1>2 DEF Fields
<1>4. QED
  BY <1>3 DEF Fields, ColNos

\* encode_row_new joins the fields, and marks the null cells.
LEMMA RowEncoded ==
  ASSUME NEW sch, NEW cs, CellsOk(sch, cs)
  PROVE  /\ EncodeRow(sch, cs).body = FlattenSeq(Fields(sch, cs))
         /\ EncodeRow(sch, cs).map = {c \in ColNos(sch) : cs[c] = Null}
         /\ EncodeRow(sch, cs) = [map |-> EncodeRow(sch, cs).map, body |-> EncodeRow(sch, cs).body]
<1> DEFINE field(c) == IF cs[c] # Null THEN Field(sch.cols[c], cs[c])
                       ELSE IF sch.nullmap THEN <<>> ELSE Field(sch.cols[c], 0)
<1>1. [c \in ColNos(sch) |-> field(c)] = Fields(sch, cs)
  BY DEF Fields, CellsOk
<1>2. (IF sch.nullmap THEN {c \in ColNos(sch) : cs[c] = Null} ELSE {}) = {c \in ColNos(sch) : cs[c] = Null}
  BY DEF CellsOk
<1>3. EncodeRow(sch, cs) = [map |-> {c \in ColNos(sch) : cs[c] = Null}, body |-> FlattenSeq(Fields(sch, cs))]
  BY <1>1, <1>2 DEF EncodeRow
<1>4. QED
  BY <1>3

\* pre is how the row of the cells cs is laid out: field c follows pre[c - 1].
LaidOut(sch, cs, row, pre) ==
    /\ Joins(pre, Fields(sch, cs), Len(sch.cols), Units)
    /\ row.body = pre[Len(sch.cols)]
    /\ \A c \in ColNos(sch) :
          \E t \in Seq(Units) : row.body = pre[c] \o t
Starts(pre, c) == 1 + Len(pre[c - 1])

\* Every row of cells is laid out so.
LEMMA RowLaidOut ==
  ASSUME NEW sch, SchemaOk(sch), NEW cs, CellsOk(sch, cs)
  PROVE  \E pre : LaidOut(sch, cs, EncodeRow(sch, cs), pre)
<1> DEFINE n == Len(sch.cols)
           fs == Fields(sch, cs)
           row == EncodeRow(sch, cs)
<1>1. fs \in [1 .. n -> Seq(Units)] /\ n \in Nat /\ ColNos(sch) = 1 .. n
  BY FieldsType DEF SchemaOk, ColNos
<1>2. row.body = FlattenSeq(fs)
  BY RowEncoded
<1> HIDE DEF n, fs, row
<1>3. PICK pre : Joins(pre, fs, n, Units) /\ FlattenSeq(fs) = pre[n]
  BY <1>1, FlattenSteps
<1>4. ASSUME NEW c \in 1 .. n PROVE \E t \in Seq(Units) : row.body = pre[c] \o t
  <2>1. c \in 0 .. n /\ n \in c .. n
    BY <1>1
  <2>2. Tails(pre, pre, c, n, Units)
    BY <1>1, <1>3, <2>1, SameTail
  <2>3. QED
    BY <1>2, <1>3, <2>2 DEF Tails
<1>5. LaidOut(sch, cs, row, pre)
  BY <1>1, <1>2, <1>3, <1>4 DEF LaidOut, fs, n
<1>6. QED
  BY <1>5 DEF row

\* The units of field f are in the row from where it starts.
FieldIn(row, pre, c, f) ==
    /\ f \in Seq(Units) /\ pre[c - 1] \in Seq(Units) /\ pre[c] = pre[c - 1] \o f
    /\ Len(pre[c]) = Len(pre[c - 1]) + Len(f)
    /\ \A i \in 1 .. Len(f) : row.body[Len(pre[c - 1]) + i] = f[i]

\* A field is where its row's layout has it.
LEMMA FieldPlace ==
  ASSUME NEW sch, SchemaOk(sch), NEW cs, CellsOk(sch, cs), NEW row, NEW pre, LaidOut(sch, cs, row, pre),
         NEW c \in ColNos(sch)
  PROVE  FieldIn(row, pre, c, Fields(sch, cs)[c])
<1> DEFINE n == Len(sch.cols)
           f == Fields(sch, cs)[c]
           p == pre[c - 1]
           q == pre[c]
<1>1. n \in Nat /\ c \in 1 .. n /\ c - 1 \in 0 .. n /\ c \in 0 .. n
  BY DEF SchemaOk, ColNos
<1>2. f \in Seq(Units)
  BY <1>1, FieldsType
<1>3. p \in Seq(Units) /\ q \in Seq(Units) /\ q = p \o f
  BY <1>1 DEF LaidOut, Joins
<1>4. PICK t \in Seq(Units) : row.body = q \o t
  BY DEF LaidOut
<1> HIDE DEF f, p, q, n
<1>5. /\ Len(p) \in Nat /\ Len(f) \in Nat /\ Len(t) \in Nat /\ Len(q) = Len(p) + Len(f)
      /\ \A i \in 1 .. Len(p) + Len(f) : q[i] = IF i <= Len(p) THEN p[i] ELSE f[i - Len(p)]
  BY <1>2, <1>3, <1>4, ConcatProperties, LenProperties
<1>6. \A i \in 1 .. Len(q) + Len(t) : row.body[i] = IF i <= Len(q) THEN q[i] ELSE t[i - Len(q)]
  BY <1>3, <1>4, ConcatProperties
<1>7. ASSUME NEW i \in 1 .. Len(f) PROVE row.body[Len(p) + i] = f[i]
  <2> DEFINE j == Len(p) + i
  <2>1. j \in 1 .. Len(p) + Len(f) /\ j \in 1 .. Len(q) + Len(t) /\ j <= Len(q) /\ ~(j <= Len(p)) /\ j - Len(p) = i
    BY <1>5
  <2> HIDE DEF j
  <2>2. row.body[j] = q[j] /\ q[j] = f[i]
    BY <1>5, <1>6, <2>1
  <2>3. QED
    BY <2>2 DEF j
<1>8. QED
  BY <1>2, <1>3, <1>5, <1>7 DEF FieldIn, f, p, q

\* The row of the cells cs: what the code reads from it.
Reads(sch, cs, row) ==
    /\ row.map = {c \in ColNos(sch) : cs[c] = Null}
    /\ \A c \in ColNos(sch) : RowIsNull(sch, row, c) <=> cs[c] = Null

\* row_is_null finds the null cells of a row.
LEMMA NullsRead ==
  ASSUME NEW sch, NEW cs, CellsOk(sch, cs)
  PROVE  Reads(sch, cs, EncodeRow(sch, cs))
<1> DEFINE row == EncodeRow(sch, cs)
<1>1. row.map = {c \in ColNos(sch) : cs[c] = Null}
  BY RowEncoded
<1> HIDE DEF row
<1>2. \A c \in ColNos(sch) : cs[c] = Null => sch.nullmap
  BY DEF CellsOk
<1>3. QED
  BY <1>1, <1>2 DEF Reads, RowIsNull, row

\* The width of a field read at its place is its length.
LEMMA WidthRead ==
  ASSUME NEW sch, SchemaOk(sch), NEW cs, CellsOk(sch, cs), NEW row, Reads(sch, cs, row),
         NEW pre, LaidOut(sch, cs, row, pre), NEW c \in ColNos(sch)
  PROVE  Width(sch, row, c, Starts(pre, c)) = Len(Fields(sch, cs)[c])
<1> DEFINE col == sch.cols[c]
           f == Fields(sch, cs)[c]
           p == pre[c - 1]
           at == Starts(pre, c)
<1>1. /\ f \in Seq(Units) /\ p \in Seq(Units)
      /\ \A i \in 1 .. Len(f) : row.body[Len(p) + i] = f[i]
  <2>1. FieldIn(row, pre, c, f)
    BY FieldPlace
  <2> HIDE DEF f
  <2>2. QED
    BY <2>1 DEF FieldIn
<1>2. at = Len(p) + 1 /\ Len(p) \in Nat
  BY <1>1, LenProperties DEF Starts
<1>3. RowIsNull(sch, row, c) <=> cs[c] = Null
  BY DEF Reads
<1>4. CASE cs[c] = Null
  <2>1. f = <<>>
    BY <1>4 DEF Fields
  <2>2. Len(f) = 0
    BY <2>1
  <2> HIDE DEF f, at
  <2>3. QED
    BY <1>3, <1>4, <2>2 DEF Width, f, at
<1>5. CASE cs[c] # Null
  <2>1. f = Field(col, cs[c])
    BY <1>5 DEF Fields
  <2>2. FieldOf(col, cs[c], f)
    BY <1>5, <2>1, FieldFacts DEF SchemaOk, CellsOk, CellOk
  <2> HIDE DEF f, p, at, col
  <2>3. CASE col.type = "int"
    <3>1. Width(sch, row, c, at) = IntLen
      BY <1>3, <1>5, <2>3 DEF Width, col
    <3>2. QED
      BY <2>2, <2>3, <3>1 DEF FieldOf, f, at
  <2>4. CASE col.type = "vector"
    <3>1. Width(sch, row, c, at) = col.dims
      BY <1>3, <1>5, <2>4 DEF Width, col
    <3>2. QED
      BY <2>2, <2>4, <3>1 DEF FieldOf, f, at
  <2>5. CASE col.type \notin {"int", "vector"}
    <3>1. Width(sch, row, c, at) = 1 + row.body[at]
      BY <1>3, <1>5, <2>5 DEF Width, col
    <3>2. Len(f) = 1 + TextLen[cs[c]] /\ f[1] = TextLen[cs[c]] /\ TextLen[cs[c]] \in Nat
      BY <2>2, <2>5 DEF FieldOf
    <3>3. 1 \in 1 .. Len(f)
      BY <3>2
    <3>4. row.body[at] = f[1]
      BY <1>1, <1>2, <3>3
    <3>5. QED
      BY <3>1, <3>2, <3>4 DEF f, at
  <2>6. QED
    BY <2>3, <2>4, <2>5
<1>6. QED
  BY <1>4, <1>5

\* row_col_ptr comes to the place of the field.
LEMMA PlaceFound ==
  ASSUME NEW sch, SchemaOk(sch), NEW cs, CellsOk(sch, cs), NEW row, Reads(sch, cs, row),
         NEW pre, LaidOut(sch, cs, row, pre), NEW c \in ColNos(sch)
  PROVE  RowColPtr(sch, row, c) = Starts(pre, c)
<1> DEFINE N == c - 1
           next(f) == [k \in 0 .. N |-> IF k = 0 THEN 1 ELSE f[k - 1] + Width(sch, row, k, f[k - 1])]
           p == CHOOSE f : f = next(f)
           g == [k \in 0 .. N |-> 1 + Len(pre[k])]
<1>1. RowColPtr(sch, row, c) = p[N]
  BY DEF RowColPtr
<1>2. N \in Nat /\ \A k \in 1 .. N : k \in ColNos(sch)
  BY DEF ColNos, SchemaOk
<1>3. pre[0] = <<>> /\ 0 \in 0 .. N
  BY <1>2 DEF LaidOut, Joins
<1>4. ASSUME NEW k \in 1 .. N
      PROVE  /\ Width(sch, row, k, 1 + Len(pre[k - 1])) = Len(Fields(sch, cs)[k])
             /\ Len(pre[k]) = Len(pre[k - 1]) + Len(Fields(sch, cs)[k])
             /\ Len(pre[k - 1]) \in Nat /\ Len(Fields(sch, cs)[k]) \in Nat
  <2> DEFINE f == Fields(sch, cs)[k]
  <2>1. k \in ColNos(sch)
    BY <1>2
  <2>2. FieldIn(row, pre, k, f)
    BY <2>1, FieldPlace
  <2>3. Width(sch, row, k, Starts(pre, k)) = Len(f)
    BY <2>1, WidthRead
  <2> HIDE DEF f
  <2>4. QED
    BY <2>2, <2>3, LenProperties DEF FieldIn, Starts, f
<1>5. g = next(g)
  <2>1. ASSUME NEW k \in 0 .. N PROVE g[k] = next(g)[k]
    <3>1. CASE k = 0
      <4>1. Len(<<>>) = 0
        OBVIOUS
      <4>2. g[k] = 1
        BY <1>3, <3>1, <4>1
      <4>3. QED
        BY <3>1, <4>2
    <3>2. CASE k # 0
      <4>1. k \in 1 .. N /\ k - 1 \in 0 .. N
        <5> HIDE DEF N, g, next
        <5>1. QED
          BY <1>2, <3>2
      <4>2. g[k - 1] = 1 + Len(pre[k - 1]) /\ g[k] = 1 + Len(pre[k])
        BY <4>1
      <4> DEFINE w == Width(sch, row, k, g[k - 1])
      <4>3. next(g)[k] = g[k - 1] + w
        BY <3>2
      <4> HIDE DEF next, g
      <4>4. w = Len(Fields(sch, cs)[k])
        BY <1>4, <4>1, <4>2
      <4> HIDE DEF w
      <4>5. Len(pre[k]) = Len(pre[k - 1]) + w /\ Len(pre[k - 1]) \in Nat /\ w \in Nat
        BY <1>4, <4>1, <4>4
      <4>6. QED
        BY <4>2, <4>3, <4>5
    <3>3. QED
      BY <3>1, <3>2
  <2>2. QED
    BY <2>1
<1>6. p = next(p)
  <2> HIDE DEF next, g
  <2>1. QED
    BY <1>5
<1> HIDE DEF p
<1> DEFINE T == {k \in 0 .. N : p[k] = g[k]}
<1>7. 0 \in T
  <2>1. p[0] = 1 /\ g[0] = 1
    <3>1. p[0] = next(p)[0] /\ g[0] = next(g)[0]
      BY <1>5, <1>6
    <3>2. QED
      BY <1>3, <3>1
  <2>2. QED
    BY <1>3, <2>1
<1>8. ASSUME NEW k \in 1 .. N, k - 1 \in T PROVE k \in T
  <2>1. k \in 0 .. N /\ k # 0 /\ p[k - 1] = g[k - 1]
    BY <1>8
  <2>2. p[k] = next(p)[k] /\ g[k] = next(g)[k]
    BY <1>5, <1>6
  <2>3. p[k] = p[k - 1] + Width(sch, row, k, p[k - 1])
    BY <2>1, <2>2
  <2>4. g[k] = g[k - 1] + Width(sch, row, k, g[k - 1])
    BY <2>1, <2>2
  <2> HIDE DEF g
  <2>5. p[k] = g[k]
    BY <2>1, <2>3, <2>4
  <2>6. QED
    BY <2>1, <2>5
<1> HIDE DEF T
<1>9. N \in T
  <2> HIDE DEF N
  <2>1. N \in 0 .. N
    BY <1>2
  <2>2. QED
    BY <1>2, <1>7, <1>8, <2>1, Upwards
<1>10. p[N] = 1 + Len(pre[N])
  BY <1>9 DEF T
<1>11. QED
  BY <1>1, <1>10 DEF Starts

\* What is read is what was written.
LEMMA CellRead ==
  ASSUME NEW sch, SchemaOk(sch), NEW cs, CellsOk(sch, cs), NEW row, Reads(sch, cs, row),
         NEW pre, LaidOut(sch, cs, row, pre), NEW c \in ColNos(sch)
  PROVE  Cell(sch, row, c) = cs[c]
<1> DEFINE col == sch.cols[c]
           v == cs[c]
           f == Fields(sch, cs)[c]
           p == pre[c - 1]
           at == RowColPtr(sch, row, c)
<1>1. /\ f \in Seq(Units) /\ p \in Seq(Units)
      /\ \A i \in 1 .. Len(f) : row.body[Len(p) + i] = f[i]
  <2>1. FieldIn(row, pre, c, f)
    BY FieldPlace
  <2> HIDE DEF f
  <2>2. QED
    BY <2>1 DEF FieldIn
<1>2. at = 1 + Len(p) /\ Len(p) \in Nat
  BY <1>1, PlaceFound, LenProperties DEF Starts
<1>3. RowIsNull(sch, row, c) <=> v = Null
  BY DEF Reads
<1>4. CASE v = Null
  BY <1>3, <1>4 DEF Cell
<1>5. CASE v # Null
  <2>1. FieldOf(col, v, f)
    BY <1>5, FieldFacts DEF SchemaOk, CellsOk, CellOk, Fields
  <2>2. Cell(sch, row, c) = IF col.type # "text" THEN row.body[at]
                            ELSE IF row.body[at] = 0 THEN 0 ELSE row.body[at + 1]
    BY <1>3, <1>5 DEF Cell
  <2> HIDE DEF f, p, at, col, v
  <2>3. Len(f) \in Nat /\ Len(p) + 1 = at /\ Len(p) + 2 = at + 1
    BY <1>1, <1>2, LenProperties
  <2>4. 1 \in 1 .. Len(f) => row.body[at] = f[1]
    BY <1>1, <2>3
  <2>5. 2 \in 1 .. Len(f) => row.body[at + 1] = f[2]
    BY <1>1, <2>3
  <2>6. CASE col.type \in {"int", "vector"}
    BY <2>1, <2>2, <2>4, <2>6 DEF FieldOf, v
  <2>7. CASE col.type = "text"
    <3>1. /\ Len(f) = 1 + TextLen[v] /\ f[1] = TextLen[v] /\ TextLen[v] \in Nat
          /\ TextLen[v] = 0 <=> v = 0
          /\ TextLen[v] # 0 => 2 \in 1 .. Len(f) /\ f[2] = v
      BY <2>1, <2>7 DEF FieldOf
    <3>2. 1 \in 1 .. Len(f)
      BY <3>1
    <3>3. row.body[at] = TextLen[v]
      BY <2>4, <3>1, <3>2
    <3>4. Cell(sch, row, c) = v
      BY <2>2, <2>5, <2>7, <3>1, <3>3
    <3>5. QED
      BY <3>4 DEF v
  <2>8. QED
    BY <2>6, <2>7 DEF SchemaOk, ColumnOk, col
<1>6. QED
  BY <1>4, <1>5

\* decode_row_all gives back the cells a row was made of.
LEMMA CellsRead ==
  ASSUME NEW sch, SchemaOk(sch), NEW cs, CellsOk(sch, cs), cs = [c \in ColNos(sch) |-> cs[c]]
  PROVE  /\ Cells(sch, EncodeRow(sch, cs)) = cs
         /\ \A c \in ColNos(sch) : Cell(sch, EncodeRow(sch, cs), c) = cs[c]
<1> DEFINE row == EncodeRow(sch, cs)
<1>1. PICK pre : LaidOut(sch, cs, row, pre)
  BY RowLaidOut
<1>2. Reads(sch, cs, row)
  BY NullsRead
<1> HIDE DEF row
<1>3. \A c \in ColNos(sch) : Cell(sch, row, c) = cs[c]
  BY <1>1, <1>2, CellRead
<1>4. Cells(sch, row) = [c \in ColNos(sch) |-> cs[c]]
  BY <1>3 DEF Cells
<1>5. QED
  BY <1>3, <1>4 DEF row

\* One list after another.
LEMMA JoinedTo ==
  ASSUME NEW U, NEW s \in Seq(U), NEW t \in Seq(U), NEW b, b = s \o t
  PROVE  /\ b \in Seq(U) /\ Len(b) = Len(s) + Len(t) /\ Len(s) \in Nat /\ Len(t) \in Nat
         /\ \A i \in 1 .. Len(s) : b[i] = s[i] /\ s[i] \in U
         /\ \A i \in 1 .. Len(t) : b[Len(s) + i] = t[i] /\ t[i] \in U
<1>1. Len(s) \in Nat /\ Len(t) \in Nat
  BY LenProperties
<1>2. /\ b \in Seq(U) /\ Len(b) = Len(s) + Len(t)
      /\ \A i \in 1 .. Len(s) + Len(t) : b[i] = IF i <= Len(s) THEN s[i] ELSE t[i - Len(s)]
  BY ConcatProperties
<1>3. ASSUME NEW i \in 1 .. Len(s) PROVE b[i] = s[i] /\ s[i] \in U
  <2>1. i \in 1 .. Len(s) + Len(t) /\ i <= Len(s)
    BY <1>1
  <2>2. QED
    BY <1>2, <2>1, ElementOfSeq
<1>4. ASSUME NEW i \in 1 .. Len(t) PROVE b[Len(s) + i] = t[i] /\ t[i] \in U
  <2> DEFINE j == Len(s) + i
  <2>1. j \in 1 .. Len(s) + Len(t) /\ ~(j <= Len(s)) /\ j - Len(s) = i
    BY <1>1
  <2> HIDE DEF j
  <2>2. b[j] = t[i]
    BY <1>2, <2>1
  <2>3. t[i] \in U
    BY ElementOfSeq
  <2>4. QED
    BY <2>2, <2>3 DEF j
<1>5. QED
  BY <1>1, <1>2, <1>3, <1>4

\* The part of a list from one place to another.
LEMMA PartOf ==
  ASSUME NEW U, NEW b, NEW from \in Nat \ {0}, NEW s \in Seq(U),
         \A i \in 1 .. Len(s) : b[from - 1 + i] = s[i]
  PROVE  SubSeq(b, from, from - 1 + Len(s)) = s
<1> DEFINE n == Len(s)
           to == from - 1 + n
           u == SubSeq(b, from, to)
<1>1. n \in Nat /\ \A i \in 1 .. n : b[from - 1 + i] = s[i] /\ s[i] \in U
  BY LenProperties, ElementOfSeq
<1> HIDE DEF n
<1>2. from \in Int /\ to \in Int /\ to - from + 1 = n
  BY <1>1
<1>3. \A i \in from .. to : b[i] \in U
  <2>1. TAKE i \in from .. to
  <2>2. i - from + 1 \in 1 .. n /\ from - 1 + (i - from + 1) = i
    BY <1>1
  <2>3. QED
    BY <1>1, <2>2
<1> HIDE DEF to
<1>4. /\ u \in Seq(U) /\ Len(u) = IF from <= to THEN to - from + 1 ELSE 0
      /\ \A i \in 1 .. to - from + 1 : u[i] = b[from + i - 1]
  BY <1>2, <1>3, SubSeqProperties
<1> HIDE DEF u
<1>5. Len(u) = n
  BY <1>1, <1>2, <1>4
<1>6. ASSUME NEW i \in 1 .. n PROVE u[i] = s[i]
  <2>1. from + i - 1 = from - 1 + i
    OBVIOUS
  <2>2. QED
    BY <1>1, <1>2, <1>4, <2>1
<1>7. u = s
  BY <1>4, <1>5, <1>6, SeqEqual DEF n
<1>8. QED
  BY <1>7 DEF u, to, n

\* A list cut out of the middle of another.
LEMMA CutOut ==
  ASSUME NEW U, NEW p \in Seq(U), NEW f \in Seq(U), NEW t \in Seq(U), NEW m, m = p \o f, NEW b, b = m \o t
  PROVE  /\ SubSeq(b, 1, Len(p)) = p
         /\ SubSeq(b, 1 + Len(p) + Len(f), Len(b)) = t
<1> DEFINE P == Len(p)
           F == Len(f)
           T == Len(t)
           from == 1 + P + F
<1>1. /\ m \in Seq(U) /\ Len(m) = P + F /\ P \in Nat /\ F \in Nat
      /\ \A i \in 1 .. P : m[i] = p[i]
  BY JoinedTo
<1>2. /\ Len(b) = P + F + T /\ T \in Nat
      /\ \A i \in 1 .. P + F : b[i] = m[i]
      /\ \A i \in 1 .. T : b[P + F + i] = t[i]
  <2> HIDE DEF P, F, T
  <2>1. m \in Seq(U) /\ t \in Seq(U) /\ b = m \o t
    BY <1>1
  <2>2. /\ Len(b) = Len(m) + Len(t) /\ Len(t) \in Nat
        /\ \A i \in 1 .. Len(m) : b[i] = m[i]
        /\ \A i \in 1 .. Len(t) : b[Len(m) + i] = t[i]
    BY ONLY <2>1, JoinedTo
  <2>3. QED
    BY <1>1, <2>2 DEF T
<1>3. SubSeq(b, 1, P) = p
  <2>1. \A i \in 1 .. P : b[1 - 1 + i] = p[i]
    <3>1. TAKE i \in 1 .. P
    <3>2. 1 - 1 + i = i /\ i \in 1 .. P + F
      BY <1>1
    <3>3. QED
      BY <1>1, <1>2, <3>2
  <2>2. SubSeq(b, 1, 1 - 1 + Len(p)) = p
    BY <2>1, PartOf
  <2>3. 1 - 1 + Len(p) = P
    BY <1>1
  <2>4. QED
    BY <2>2, <2>3
<1>4. SubSeq(b, from, Len(b)) = t
  <2>1. from \in Nat \ {0} /\ from - 1 = P + F /\ from - 1 + Len(t) = Len(b)
    <3> HIDE DEF P, F
    <3>1. QED
      BY <1>1, <1>2
  <2> HIDE DEF from, P, F
  <2>2. \A i \in 1 .. Len(t) : b[from - 1 + i] = t[i]
    BY <1>2, <2>1
  <2>3. QED
    BY <2>1, <2>2, PartOf
<1>5. QED
  BY <1>3, <1>4

----------------------------------------------------------------------------
(* row_replace_col.                                                       *)

\* Lists that agree up to the first c of them are joined to the same.
LEMMA SameHead ==
  ASSUME NEW U, NEW n \in Nat, NEW fs, NEW gs,
         NEW f, Joins(f, fs, n, U), NEW g, Joins(g, gs, n, U),
         NEW c \in 0 .. n, \A i \in 1 .. c : fs[i] = gs[i]
  PROVE  f[c] = g[c]
<1> DEFINE T == {i \in 0 .. c : f[i] = g[i]}
<1>1. c \in Nat /\ c \in 0 .. c /\ 0 \in 0 .. c
  OBVIOUS
<1>2. 0 \in T
  BY <1>1 DEF Joins
<1>3. ASSUME NEW i \in 1 .. c, i - 1 \in T PROVE i \in T
  <2>1. i \in 1 .. n /\ i \in 0 .. c
    OBVIOUS
  <2>2. f[i] = f[i - 1] \o fs[i] /\ g[i] = g[i - 1] \o gs[i]
    BY <2>1 DEF Joins
  <2>3. QED
    BY <1>3, <2>1, <2>2
<1> HIDE DEF T
<1>4. c \in T
  BY <1>1, <1>2, <1>3, Upwards
<1>5. QED
  BY <1>4 DEF T

\* A cell of a row of the schema is changed.
Changed(cs, c, v) == [cs EXCEPT ![c] = v]

\* Only the changed cell's field is another.
LEMMA ChangedCells ==
  ASSUME NEW sch, SchemaOk(sch), NEW cs, CellsOk(sch, cs), NEW c \in ColNos(sch),
         NEW v, CellOk(sch, c, v), v = Null => sch.nullmap
  PROVE  /\ CellsOk(sch, Changed(cs, c, v))
         /\ Fields(sch, Changed(cs, c, v)) \in [1 .. Len(sch.cols) -> Seq(Units)]
         /\ Fields(sch, Changed(cs, c, v))[c] = IF v = Null THEN <<>> ELSE Field(sch.cols[c], v)
         /\ \A d \in ColNos(sch) : d # c => Fields(sch, Changed(cs, c, v))[d] = Fields(sch, cs)[d]
<1> DEFINE new == Changed(cs, c, v)
<1>1. DOMAIN new = ColNos(sch) /\ new[c] = v /\ \A d \in ColNos(sch) : d # c => new[d] = cs[d]
  BY DEF Changed, CellsOk
<1> HIDE DEF new
<1>2. CellsOk(sch, new)
  BY <1>1 DEF CellsOk
<1>3. Fields(sch, new) \in [1 .. Len(sch.cols) -> Seq(Units)]
  BY <1>2, FieldsType
<1>4. \A d \in ColNos(sch) : d # c => Fields(sch, new)[d] = Fields(sch, cs)[d]
  BY <1>1 DEF Fields
<1>5. Fields(sch, new)[c] = IF v = Null THEN <<>> ELSE Field(sch.cols[c], v)
  BY <1>1 DEF Fields
<1>6. QED
  BY <1>2, <1>3, <1>4, <1>5 DEF new

\* row_replace_col makes of the row what encode_row_new makes of the cells.
LEMMA ReplacedRow ==
  ASSUME NEW sch, SchemaOk(sch), NEW cs, CellsOk(sch, cs), NEW c \in ColNos(sch),
         NEW v, CellOk(sch, c, v), v = Null => sch.nullmap
  PROVE  ReplaceCol(sch, EncodeRow(sch, cs), c, v) = EncodeRow(sch, Changed(cs, c, v))
<1> DEFINE n    == Len(sch.cols)
           new  == Changed(cs, c, v)
           row  == EncodeRow(sch, cs)
           row2 == EncodeRow(sch, new)
           fs   == Fields(sch, cs)
           gs   == Fields(sch, new)
           f    == fs[c]
           g    == gs[c]
<1>1. n \in Nat /\ c \in 1 .. n /\ c - 1 \in 0 .. n /\ c \in 0 .. n /\ n \in c .. n /\ ColNos(sch) = 1 .. n
  BY DEF SchemaOk, ColNos
<1>2. /\ CellsOk(sch, new) /\ gs \in [1 .. n -> Seq(Units)] /\ fs \in [1 .. n -> Seq(Units)]
      /\ g = (IF v = Null THEN <<>> ELSE Field(sch.cols[c], v))
      /\ \A d \in 1 .. n : d # c => gs[d] = fs[d]
  BY ChangedCells, FieldsType DEF ColNos
<1>3. Reads(sch, cs, row) /\ Reads(sch, new, row2)
  <2>1. Reads(sch, cs, row)
    BY NullsRead
  <2> HIDE DEF new
  <2>2. Reads(sch, new, row2)
    BY <1>2, NullsRead
  <2>3. QED
    BY <2>1, <2>2
<1>4. PICK pre : LaidOut(sch, cs, row, pre)
  BY RowLaidOut
<1>5. PICK pre2 : LaidOut(sch, new, row2, pre2)
  <2> HIDE DEF new
  <2>1. QED
    BY <1>2, RowLaidOut
<1>6. /\ Joins(pre, fs, n, Units) /\ Joins(pre2, gs, n, Units)
      /\ row.body = pre[n] /\ row2.body = pre2[n]
  BY <1>4, <1>5 DEF LaidOut
<1> DEFINE at == RowColPtr(sch, row, c)
           p  == pre[c - 1]
<1>7. at = 1 + Len(p) /\ Width(sch, row, c, at) = Len(f)
  BY <1>3, <1>4, PlaceFound, WidthRead DEF Starts
<1>8. /\ p \in Seq(Units) /\ f \in Seq(Units) /\ g \in Seq(Units)
      /\ pre[c] = p \o f /\ pre2[c] = pre2[c - 1] \o g
  BY <1>1, <1>2, <1>6 DEF Joins
<1> HIDE DEF fs, gs, f, g, p, at, n, row, row2, new
<1>9. pre2[c - 1] = p
  <2> DEFINE d == c - 1
  <2>1. d \in 0 .. n /\ n \in Nat /\ \A i \in 1 .. d : fs[i] = gs[i]
    BY <1>1, <1>2
  <2> HIDE DEF d
  <2>2. pre[d] = pre2[d]
    BY ONLY <1>6, <2>1, SameHead
  <2>3. QED
    BY <2>2 DEF p, d
<1>10. PICK t \in Seq(Units) : pre[n] = pre[c] \o t /\ pre2[n] = pre2[c] \o t
  <2>1. \A i \in c + 1 .. n : fs[i] = gs[i]
    BY <1>1, <1>2
  <2>2. \A m \in c .. n : Tails(pre, pre2, c, m, Units)
    BY <1>1, <1>2, <1>6, <2>1, SameTail
  <2>3. QED
    BY <1>1, <2>2 DEF Tails
<1>11. /\ SubSeq(row.body, 1, Len(p)) = p
       /\ SubSeq(row.body, 1 + Len(p) + Len(f), Len(row.body)) = t
  <2> DEFINE m == pre[c]
             b == row.body
  <2>1. m = p \o f /\ b = m \o t
    BY <1>6, <1>8, <1>10
  <2> HIDE DEF m, b
  <2>2. SubSeq(b, 1, Len(p)) = p /\ SubSeq(b, 1 + Len(p) + Len(f), Len(b)) = t
    BY <1>8, <2>1, CutOut
  <2>3. QED
    BY <2>2 DEF b
<1>12. row2.body = p \o g \o t
  BY <1>6, <1>8, <1>9, <1>10
<1>13. at - 1 = Len(p) /\ at + Width(sch, row, c, at) = 1 + Len(p) + Len(f)
  <2>1. Len(p) \in Nat /\ Len(f) \in Nat
    BY <1>8, LenProperties
  <2>2. QED
    BY <1>7, <2>1
<1>14. row2.map = IF ~sch.nullmap THEN {} ELSE IF v = Null THEN row.map \cup {c} ELSE row.map \ {c}
  <2>1. row.map = {d \in 1 .. n : cs[d] = Null} /\ row2.map = {d \in 1 .. n : new[d] = Null}
    BY <1>1, <1>3 DEF Reads
  <2>2. new[c] = v /\ \A d \in 1 .. n : d # c => new[d] = cs[d]
    BY <1>1 DEF Changed, CellsOk, new
  <2>3. ~sch.nullmap => \A d \in 1 .. n : new[d] # Null
    BY <1>1, <1>2 DEF CellsOk
  <2>4. QED
    BY <1>1, <2>1, <2>2, <2>3
<1>15. row2 = [map |-> row2.map, body |-> row2.body]
  BY <1>2, RowEncoded DEF row2
<1>16. ReplaceCol(sch, row, c, v) =
         [map  |-> IF ~sch.nullmap THEN {} ELSE IF v = Null THEN row.map \cup {c} ELSE row.map \ {c},
          body |-> SubSeq(row.body, 1, at - 1) \o g
                     \o SubSeq(row.body, at + Width(sch, row, c, at), Len(row.body))]
  BY <1>2 DEF ReplaceCol, at
<1>17. ReplaceCol(sch, row, c, v) = [map |-> row2.map, body |-> p \o g \o t]
  BY <1>11, <1>13, <1>14, <1>16
<1>18. ReplaceCol(sch, row, c, v) = row2
  BY <1>12, <1>15, <1>17
<1>19. QED
  BY <1>18 DEF row, row2, new

\* What a value is stored as: without a bitmap NULL is 0.
Kept0(sch, vals) == [c \in ColNos(sch) |-> IF vals[c] = Null /\ ~sch.nullmap THEN 0 ELSE vals[c]]

\* encode_row_new stores that value.
LEMMA StoredRow ==
  ASSUME NEW sch, NEW vals, NullNoUnit
  PROVE  EncodeRow(sch, vals) = EncodeRow(sch, Kept0(sch, vals))
<1> DEFINE cs == Kept0(sch, vals)
           field(x, c) == IF x[c] # Null THEN Field(sch.cols[c], x[c])
                          ELSE IF sch.nullmap THEN <<>> ELSE Field(sch.cols[c], 0)
<1>1. 0 # Null
  BY DEF NullNoUnit, Units
<1>2. \A c \in ColNos(sch) : cs[c] = IF vals[c] = Null /\ ~sch.nullmap THEN 0 ELSE vals[c]
  BY DEF Kept0
<1> HIDE DEF cs
<1>3. \A c \in ColNos(sch) : field(vals, c) = field(cs, c)
  BY <1>1, <1>2
<1>4. [c \in ColNos(sch) |-> field(vals, c)] = [c \in ColNos(sch) |-> field(cs, c)]
  BY <1>3
<1>5. sch.nullmap => {c \in ColNos(sch) : vals[c] = Null} = {c \in ColNos(sch) : cs[c] = Null}
  BY <1>2
<1>6. QED
  BY <1>4, <1>5 DEF EncodeRow, cs

----------------------------------------------------------------------------
(* When btree_insert and btree_delete fail, by the pages left.            *)

\* Pages that hold no node: the free ones, and those the file may still grow by.
Left(st) == MaxPages - 1 - Cardinality(Used(st))

\* The pages in use are finitely many, fewer than the file may have.
LEMMA OwnedSize ==
  ASSUME NEW st, NEW U, Owned(st, U)
  PROVE  /\ IsFiniteSet(U) /\ Cardinality(U) \in Nat /\ Cardinality(U) <= MaxPages - 1
         /\ U = PageNos(st) /\ Len(st.pages) = MaxPages - 1 => Cardinality(U) = MaxPages - 1
         /\ \A pn : pn \notin U => Cardinality(U \cup {pn}) = Cardinality(U) + 1
<1> DEFINE n == Len(st.pages)
<1>1. n \in Nat /\ n < MaxPages /\ U \subseteq PageNos(st) /\ PageNos(st) = 1 .. n
  BY OwnedTypes
<1> HIDE DEF n
<1>2. IsFiniteSet(1 .. n) /\ Cardinality(1 .. n) = n
  BY <1>1, FS_Interval
<1>3. IsFiniteSet(U) /\ Cardinality(U) <= Cardinality(1 .. n)
  BY <1>1, <1>2, FS_Subset
<1>4. Cardinality(U) \in Nat
  BY <1>3, FS_CardinalityType
<1>5. \A pn : pn \notin U => Cardinality(U \cup {pn}) = Cardinality(U) + 1
  BY <1>3, FS_AddElement
<1>6. QED
  BY <1>1, <1>2, <1>3, <1>4, <1>5, MaxPagesAssumption DEF n

\* A page can be allocated while some are left.
LEMMA AllocLeft ==
  ASSUME NEW st, Good(st)
  PROVE  LET a == PagerAlloc(st)
         IN  /\ Left(st) \in Nat
             /\ a.pn = 0 => Left(st) = 0
             /\ a.pn # 0 => Left(st) >= 1
             /\ a.pn # 0 /\ PagerAlloc(a.st).pn = 0 => Left(st) = 1
<1> DEFINE a == PagerAlloc(st)
           b == PagerAlloc(a.st)
           U == Used(st)
<1>1. Owned(st, U)
  BY GoodOwned
<1>2. Took(st, U, ZeroPage, a)
  BY <1>1, OwnAlloc
<1> HIDE DEF a, U
<1>3. Cardinality(U) \in Nat /\ Cardinality(U) <= MaxPages - 1
  BY <1>1, OwnedSize
<1>4. a.pn = 0 => Cardinality(U) = MaxPages - 1
  BY <1>1, <1>2, OwnedSize DEF Took
<1>5. ASSUME a.pn # 0
      PROVE  /\ Cardinality(U) + 1 <= MaxPages - 1
             /\ b.pn = 0 => Cardinality(U) + 1 = MaxPages - 1
  <2> DEFINE V == U \cup {a.pn}
  <2>1. a.pn \notin U /\ Owned(a.st, V)
    BY <1>2, <1>5 DEF Took
  <2>2. Cardinality(V) = Cardinality(U) + 1
    BY <1>1, <2>1, OwnedSize
  <2> HIDE DEF V
  <2>3. Took(a.st, V, ZeroPage, b)
    BY <2>1, OwnAlloc
  <2> HIDE DEF b
  <2>4. b.pn = 0 => V = PageNos(a.st) /\ Len(a.st.pages) = MaxPages - 1
    BY <2>3 DEF Took
  <2>5. Cardinality(V) <= MaxPages - 1 /\ (b.pn = 0 => Cardinality(V) = MaxPages - 1)
    BY <2>1, <2>4, OwnedSize
  <2>6. QED
    BY <2>2, <2>5
<1>6. MaxPages \in Nat
  BY MaxPagesAssumption
<1> HIDE DEF b
<1>7. Left(st) = MaxPages - 1 - Cardinality(U)
  BY DEF Left, U
<1>8. QED
  <2>1. /\ Left(st) \in Nat
        /\ a.pn = 0 => Left(st) = 0
        /\ a.pn # 0 => Left(st) >= 1
        /\ a.pn # 0 /\ b.pn = 0 => Left(st) = 1
    BY <1>3, <1>4, <1>5, <1>6, <1>7
  <2>2. QED
    BY <2>1 DEF a, b

\* Writing to pages does not change whether there is one to allocate.
Shape(st) ==
    /\ st = [head |-> st.head, pages |-> st.pages]
    /\ Len(st.pages) \in Nat /\ st.pages = [i \in 1 .. Len(st.pages) |-> st.pages[i]]

\* Good stores, and what is allocated from them, have that shape.
LEMMA GoodShape ==
  ASSUME NEW st, Good(st)
  PROVE  Shape(st) /\ Shape(PagerAlloc(st).st)
<1> DEFINE a == PagerAlloc(st)
           U == Used(st)
<1>1. st \in StoresOf(NodePage) /\ a.st \in StoresOf(NodePage)
  <2>1. Owned(st, U)
    BY GoodOwned
  <2>2. Took(st, U, ZeroPage, a)
    BY <2>1, OwnAlloc
  <2> HIDE DEF a, U
  <2>3. Owned(a.st, U) \/ Owned(a.st, U \cup {a.pn})
    BY <2>1, <2>2 DEF Took
  <2>4. QED
    BY <2>1, <2>3, OwnedTypes
<1> HIDE DEF a
<1>2. \A s \in StoresOf(NodePage) : Shape(s)
  <2>1. TAKE s \in StoresOf(NodePage)
  <2>2. s.pages \in Seq(NodePage) /\ s = [head |-> s.head, pages |-> s.pages]
    BY StoreTypes
  <2>3. Len(s.pages) \in Nat /\ s.pages = [i \in 1 .. Len(s.pages) |-> s.pages[i]]
    BY <2>2, LenProperties
  <2>4. QED
    BY <2>2, <2>3 DEF Shape
<1>3. QED
  BY <1>1, <1>2 DEF a

\* A page is written: the store keeps its shape.
LEMMA SetShape ==
  ASSUME NEW st, Shape(st), NEW pn, NEW page
  PROVE  LET s == SetPage(st, pn, page)
         IN  Shape(s) /\ (PagerAlloc(s).pn = 0 <=> PagerAlloc(st).pn = 0)
<1> DEFINE len == Len(st.pages)
           pages == [st.pages EXCEPT ![pn] = page]
           s == SetPage(st, pn, page)
<1>1. /\ st = [head |-> st.head, pages |-> st.pages] /\ len \in Nat
      /\ st.pages = [i \in 1 .. len |-> st.pages[i]]
  BY DEF Shape
<1>2. s = [head |-> st.head, pages |-> pages]
  BY <1>1 DEF SetPage
<1> HIDE DEF len
<1>3. pages = [i \in 1 .. len |-> pages[i]]
  BY <1>1
<1> HIDE DEF pages
<1>4. Len(pages) = len
  BY <1>1, <1>3
<1> HIDE DEF s
<1>5. s.head = st.head /\ s.pages = pages /\ s = [head |-> s.head, pages |-> s.pages]
  BY <1>2
<1>6. Shape(s)
  BY <1>1, <1>3, <1>4, <1>5 DEF Shape
<1>7. PagerAlloc(s).pn = IF s.head # 0 THEN s.head ELSE IF CanGrow(s) THEN Len(s.pages) + 1 ELSE 0
  BY DEF PagerAlloc, Popped, Grown, NoPage
<1>8. PagerAlloc(st).pn = IF st.head # 0 THEN st.head ELSE IF CanGrow(st) THEN Len(st.pages) + 1 ELSE 0
  BY DEF PagerAlloc, Popped, Grown, NoPage
<1>9. CanGrow(s) <=> CanGrow(st)
  BY <1>4, <1>5 DEF CanGrow, len
<1>10. Len(s.pages) = Len(st.pages)
  BY <1>4, <1>5 DEF len
<1>11. QED
  BY <1>6, <1>7, <1>8, <1>9, <1>10, <1>5 DEF s

\* What the parent's copy fails for.
LEMMA SwapFails ==
  ASSUME NEW s, NEW path, NEW new, new # 0, SwapLeaf(s, path, new).pn = 0
  PROVE  Len(path) # 1 /\ PagerAlloc(s).pn = 0
<1> DEFINE c == AllocCopy(s, path[Len(path) - 1])
           up == SwapLeaf(s, path, new)
<1>1. Len(path) = 1 => up.pn = new
  BY DEF SwapLeaf
<1>2. Len(path) # 1 => up.pn = c.pn
  BY DEF SwapLeaf
<1>3. c.pn = PagerAlloc(s).pn
  BY DEF AllocCopy
<1> HIDE DEF c, up
<1>4. QED
  BY <1>1, <1>2, <1>3 DEF up

\* btree_insert fails when there is not a page for the leaf and one for its parent.
LEMMA RebuildFails ==
  ASSUME NEW st, Good(st), NEW r, NEW path, NEW e, ReplaceRebuild(st, r, path, e).rc = -1
  PROVE  Left(st) < 2
<1> DEFINE a    == PagerAlloc(st)
           pos  == SlotOf(Ents(st.pages[Last(path)]), e.k)
           leaf == a.st.pages[Last(path)]
           page == Leaf(leaf.rest.next, Rebuild([Ents(leaf) EXCEPT ![pos] = e]))
           s    == SetPage(a.st, a.pn, page)
           up   == SwapLeaf(s, path, a.pn)
           res  == ReplaceRebuild(st, r, path, e)
<1>1. res = IF a.pn = 0 THEN Result(st, r, -1)
            ELSE IF up.pn = 0 THEN Result(up.st, r, -1) ELSE Result(up.st, up.pn, 0)
  BY DEF ReplaceRebuild
<1>2. Shape(a.st)
  BY GoodShape
<1>3. Left(st) \in Nat /\ (a.pn = 0 => Left(st) = 0)
      /\ (a.pn # 0 /\ PagerAlloc(a.st).pn = 0 => Left(st) = 1)
  BY AllocLeft
<1> HIDE DEF a, page
<1>4. PagerAlloc(s).pn = 0 <=> PagerAlloc(a.st).pn = 0
  BY <1>2, SetShape
<1> HIDE DEF s
<1>5. a.pn # 0 /\ up.pn = 0 => PagerAlloc(s).pn = 0
  BY SwapFails
<1> HIDE DEF up, res
<1>6. a.pn = 0 \/ up.pn = 0
  <2>1. res.rc = -1
    BY DEF res
  <2>2. QED
    BY <1>1, <2>1 DEF Result
<1>7. QED
  BY <1>3, <1>4, <1>5, <1>6

\* An entry that fits its leaf is refused for want of pages only.
LEMMA FitsFails ==
  ASSUME NEW st, Good(st), NEW r, NEW path, NEW e, InsertFits(st, r, path, e).rc = -1
  PROVE  Left(st) < 2 /\ (Len(path) = 1 => Left(st) = 0)
<1> DEFINE b    == PagerAlloc(st)
           a    == AllocCopy(st, Last(path))
           page == [a.st.pages[a.pn] EXCEPT !.rest.ents = InsertAt(@, SlotOf(@, e.k), e)]
           s    == SetPage(a.st, a.pn, page)
           up   == SwapLeaf(s, path, a.pn)
           res  == InsertFits(st, r, path, e)
<1>1. res = IF a.pn = 0 THEN Result(st, r, -1)
            ELSE IF up.pn = 0 THEN Result(PagerFree(up.st, a.pn), r, -1) ELSE Result(up.st, up.pn, 0)
  BY DEF InsertFits
<1>2. Shape(b.st)
  BY GoodShape
<1>3. Left(st) \in Nat /\ (b.pn = 0 => Left(st) = 0)
      /\ (b.pn # 0 /\ PagerAlloc(b.st).pn = 0 => Left(st) = 1)
  BY AllocLeft
<1>4. a.pn = b.pn /\ (b.pn # 0 => a.st = SetPage(b.st, b.pn, st.pages[Last(path)]))
  BY DEF AllocCopy
<1> HIDE DEF a, b
<1>5. b.pn # 0 => Shape(a.st) /\ (PagerAlloc(a.st).pn = 0 <=> PagerAlloc(b.st).pn = 0)
  BY <1>2, <1>4, SetShape
<1> HIDE DEF page
<1>6. b.pn # 0 => (PagerAlloc(s).pn = 0 <=> PagerAlloc(a.st).pn = 0)
  BY <1>5, SetShape
<1> HIDE DEF s
<1>7. a.pn # 0 /\ up.pn = 0 => PagerAlloc(s).pn = 0 /\ Len(path) # 1
  BY SwapFails
<1> HIDE DEF up, res
<1>8. a.pn = 0 \/ up.pn = 0
  <2>1. res.rc = -1
    BY DEF res
  <2>2. QED
    BY <1>1, <2>1 DEF Result
<1>9. QED
  BY <1>3, <1>4, <1>5, <1>6, <1>7, <1>8

\* A split of the root leaf is refused for want of pages only.
LEMMA SplitFails ==
  ASSUME NEW st, Good(st), NEW r, NEW path, NEW e, InsertSplit(st, r, path, e).rc = -1
  PROVE  Left(st) = 0
<1> DEFINE a == PagerAlloc(st)
<1>1. a.pn = 0 => Left(st) = 0
  BY AllocLeft
<1>2. \A s, left, right, key : SplitRoot(s, left, right, key).rc = 0
  BY DEF SplitRoot, Result
<1>3. \A s, left, right, key : SplitBelow(s, path, left, right, key).rc \in {0, Fault}
  BY DEF SplitBelow, Result
<1>4. a.pn # 0 => InsertSplit(st, r, path, e).rc \in {0, Fault}
  BY <1>2, <1>3 DEF InsertSplit, Result
<1>5. QED
  BY <1>1, <1>4 DEF Fault

\* btree_insert fails only when fewer than two pages are left.
LEMMA InsertFails ==
  ASSUME NEW st, Good(st), NEW r, SmallTree(st, r), NEW k \in Keys, NEW v \in Values,
         Insert(st, r, k, v).rc = -1
  PROVE  Left(st) < 2
<1> DEFINE e == [k |-> k, v |-> v]
           res == Insert(st, r, k, v)
<1>1. CASE r = 0
  <2> DEFINE new  == Create(st)
             path == Path(new.st, new.root, k)
  <2>1. /\ Created(st, new)
        /\ Insert(st, 0, k, v) = IF new.root = 0 THEN Result(new.st, 0, Fault)
                                 ELSE InsertFits(new.st, new.root, path, e)
        /\ new.root # 0 => LeafAt(new.st, new.root)
    BY InsertIntoNone
  <2>2. new.root # 0 /\ InsertFits(new.st, new.root, path, e).rc = -1
    <3> HIDE DEF new, path
    <3>1. QED
      BY <1>1, <2>1 DEF Result, Fault
  <2>3. new.root \in Nat \ {0} /\ Good(new.st) /\ Used(new.st) = Used(st) \cup {new.root} /\ new.root \notin Used(st)
    <3> HIDE DEF new
    <3>1. QED
      BY <2>1, <2>2 DEF Created
  <2>4. Len(path) = 1
    <3>1. k \in Nat /\ SmallTree(new.st, new.root)
      BY <2>1, <2>2, KeysAssumption DEF SmallTree
    <3> HIDE DEF new
    <3>2. QED
      BY <2>1, <2>2, <2>3, <3>1, LeafEntsFacts
  <2>5. Left(new.st) = 0
    <3> HIDE DEF new, path
    <3>1. QED
      BY <2>2, <2>3, <2>4, FitsFails
  <2> HIDE DEF new
  <2>6. Cardinality(Used(st)) \in Nat /\ Cardinality(Used(new.st)) = Cardinality(Used(st)) + 1
    BY <2>3, GoodOwned, OwnedSize
  <2>7. QED
    BY <2>5, <2>6, MaxPagesAssumption DEF Left
<1>2. CASE r # 0
  <2> DEFINE path == Path(st, r, k)
  <2>1. \/ res = ReplaceInPlace(st, r, path, e) \/ res = ReplaceRebuild(st, r, path, e)
        \/ res = InsertFits(st, r, path, e) \/ res = InsertSplit(st, r, path, e)
    BY <1>2, InsertCases
  <2>2. ReplaceInPlace(st, r, path, e).rc # -1
    BY DEF ReplaceInPlace, Result
  <2>3. Left(st) \in Nat
    BY AllocLeft
  <2> HIDE DEF res, path, e
  <2>4. res.rc = -1
    BY DEF res
  <2>5. CASE res = ReplaceRebuild(st, r, path, e)
    BY <2>4, <2>5, RebuildFails
  <2>6. CASE res = InsertFits(st, r, path, e)
    BY <2>4, <2>6, FitsFails
  <2>7. CASE res = InsertSplit(st, r, path, e)
    BY <2>3, <2>4, <2>7, SplitFails
  <2>8. QED
    BY <2>1, <2>2, <2>4, <2>5, <2>6, <2>7
<1>3. QED
  BY <1>1, <1>2

\* btree_delete needs one page, and a call that fails does nothing.
LEMMA DeleteFails ==
  ASSUME NEW st, Good(st), NEW r, SmallTree(st, r), NEW k \in Keys
  PROVE  LET res == Delete(st, r, k)
         IN  /\ res.rc # 0 => res.st = st
             /\ res.rc # 0 /\ Holds(LeafEnts(st, r, k), k) => Left(st) = 0
             /\ res.rc = 0 => Left(st) >= 1
<1> DEFINE res == Delete(st, r, k)
           path == Path(st, r, k)
<1>0. k \in Nat
  BY KeysAssumption
<1>1. CASE r = 0
  <2>1. path = <<0>>
    <3>1. st \in StoresOf(NodePage)
      BY DEF Good, Listed
    <3>2. QED
      BY <1>0, <1>1, <3>1, PathOfTree DEF Route
  <2>2. Last(path) \notin PageNos(st)
    <3>1. Last(<<0>>) = 0 /\ 0 \notin PageNos(st)
      BY DEF Last, PageNos
    <3>2. QED
      BY <2>1, <3>1
  <2>3. res = Result(st, r, -1)
    BY <2>2 DEF Delete
  <2>4. LeafEnts(st, r, k) = <<>> /\ ~Holds(<<>>, k)
    BY <1>1 DEF LeafEnts, Holds
  <2>5. QED
    BY <2>3, <2>4 DEF Result
<1>2. CASE r # 0
  <2>1. Standing(st, r, path)
    BY <1>0, <1>2, TreeStanding
  <2>2. LeafEnts(st, r, k) = Ents(st.pages[Last(path)])
    BY <1>0, <1>2, LeafEntsFacts
  <2>3. /\ res.rc = 0 <=> Holds(Ents(st.pages[Last(path)]), k) /\ PagerAlloc(st).pn # 0
        /\ res.rc # 0 => res.st = st
    BY <2>1, DeleteOutcome
  <2> HIDE DEF res, path
  <2>4. (PagerAlloc(st).pn = 0 => Left(st) = 0) /\ (PagerAlloc(st).pn # 0 => Left(st) >= 1)
    BY AllocLeft
  <2>5. QED
    BY <2>2, <2>3, <2>4 DEF res
<1>3. QED
  BY <1>1, <1>2

----------------------------------------------------------------------------
(* A tree as the set of its entries.                                      *)

\* A tree in order in a good store, and its entries.
Stands(st, r) == Good(st) /\ SmallTree(st, r) /\ Ordered(st, r)
Ent(st, r) == ToSet(TreeEnts(st, r))
HasKey(E, k) == \E e \in E : e.k = k
But(E, k) == {e \in E : e.k # k}

\* A tree's entries: each under its key's leaf, each key once.
LEMMA EntFacts ==
  ASSUME NEW st, NEW r, Stands(st, r)
  PROVE  /\ Ent(st, r) \subseteq LeafEntry
         /\ \A e \in LeafEntry : e \in Ent(st, r) <=> e \in ToSet(LeafEnts(st, r, e.k))
         /\ \A e, f \in Ent(st, r) : e.k = f.k => e = f
         /\ \A k \in Keys : Holds(LeafEnts(st, r, k), k) <=> HasKey(Ent(st, r), k)
<1> DEFINE E == Ent(st, r)
<1>1. Good(st) /\ SmallTree(st, r) /\ Ordered(st, r)
  BY DEF Stands
<1>2. E \subseteq LeafEntry /\ \A e \in LeafEntry : e \in E <=> e \in ToSet(LeafEnts(st, r, e.k))
  BY <1>1, TreeEntsFacts DEF Ent
<1> HIDE DEF E
<1>3. \A k \in Keys : LeafEnts(st, r, k) \in Seq(LeafEntry) /\ SortedByKey(LeafEnts(st, r, k))
  BY <1>1, LeafOfOrdered, KeysAssumption DEF LeafOk
<1>4. ASSUME NEW e \in E, NEW f \in E, e.k = f.k PROVE e = f
  <2> DEFINE k == e.k
  <2>1. k \in Keys /\ e \in ToSet(LeafEnts(st, r, k)) /\ f \in ToSet(LeafEnts(st, r, k))
    BY <1>2, <1>4 DEF LeafEntry
  <2>2. LeafEnts(st, r, k) \in Seq(LeafEntry) /\ SortedByKey(LeafEnts(st, r, k))
    BY <1>3, <2>1
  <2> DEFINE ents == LeafEnts(st, r, k)
  <2> HIDE DEF ents
  <2>3. QED
    BY <1>4, <2>1, <2>2, KeysDiffer DEF ents
<1>5. ASSUME NEW k \in Keys PROVE Holds(LeafEnts(st, r, k), k) <=> HasKey(E, k)
  <2> DEFINE ents == LeafEnts(st, r, k)
  <2>1. ents \in Seq(LeafEntry)
    BY <1>3
  <2>2. /\ ToSet(ents) = {ents[i] : i \in 1 .. Len(ents)} /\ ToSet(ents) \subseteq LeafEntry
        /\ Holds(ents, k) <=> \E i \in 1 .. Len(ents) : ents[i].k = k
    <3> HIDE DEF ents
    <3>1. QED
      BY <2>1, SortedFacts
  <2>3. \A e \in LeafEntry : e.k = k => (e \in E <=> e \in ToSet(ents))
    BY <1>2
  <2> HIDE DEF ents
  <2>4. Holds(ents, k) <=> HasKey(E, k)
    BY <1>2, <2>2, <2>3 DEF HasKey
  <2>5. QED
    BY <2>4 DEF ents
<1>6. QED
  BY <1>2, <1>4, <1>5 DEF E

\* What is put under a key takes the place of what was under it.
LEMMA EntPut ==
  ASSUME NEW st, NEW r, Stands(st, r), NEW st2, NEW r2, Stands(st2, r2), NEW k \in Keys,
         NEW put, put \subseteq LeafEntry, \A f \in put : f.k = k, PutUnder(st, r, st2, r2, k, put)
  PROVE  Ent(st2, r2) = But(Ent(st, r), k) \cup put
<1>1. /\ Ent(st, r) \subseteq LeafEntry
      /\ \A e \in LeafEntry : e \in Ent(st, r) <=> e \in ToSet(LeafEnts(st, r, e.k))
  BY EntFacts
<1>2. /\ Ent(st2, r2) \subseteq LeafEntry
      /\ \A e \in LeafEntry : e \in Ent(st2, r2) <=> e \in ToSet(LeafEnts(st2, r2, e.k))
  BY EntFacts
<1>3. ASSUME NEW e \in LeafEntry
      PROVE  e \in Ent(st2, r2) <=> e \in But(Ent(st, r), k) \cup put
  <2>1. e.k \in Keys
    BY DEF LeafEntry
  <2>2. CASE e.k = k
    <3>1. Under(LeafEnts(st2, r2, k), k) = put
      BY DEF PutUnder
    <3>2. e \in ToSet(LeafEnts(st2, r2, k)) <=> e \in put
      BY <2>2, <3>1 DEF Under
    <3>3. QED
      BY <1>2, <2>2, <3>2 DEF But
  <2>3. CASE e.k # k
    <3>1. Under(LeafEnts(st2, r2, e.k), e.k) = Under(LeafEnts(st, r, e.k), e.k)
      BY <2>1, <2>3 DEF PutUnder, SameUnder
    <3>2. e \in ToSet(LeafEnts(st2, r2, e.k)) <=> e \in ToSet(LeafEnts(st, r, e.k))
      BY <3>1 DEF Under
    <3>3. QED
      BY <1>1, <1>2, <2>3, <3>2 DEF But
  <2>4. QED
    BY <2>2, <2>3
<1>4. QED
  BY <1>1, <1>2, <1>3 DEF But

\* A tree that answers as before has the same entries.
LEMMA EntSame ==
  ASSUME NEW st, NEW r, Stands(st, r), NEW st2, NEW r2, Stands(st2, r2), SameEnts(st, r, st2, r2)
  PROVE  Ent(st2, r2) = Ent(st, r)
<1>1. /\ Ent(st, r) \subseteq LeafEntry
      /\ \A e \in LeafEntry : e \in Ent(st, r) <=> e \in ToSet(LeafEnts(st, r, e.k))
  BY EntFacts
<1>2. /\ Ent(st2, r2) \subseteq LeafEntry
      /\ \A e \in LeafEntry : e \in Ent(st2, r2) <=> e \in ToSet(LeafEnts(st2, r2, e.k))
  BY EntFacts
<1>3. \A e \in LeafEntry : LeafEnts(st2, r2, e.k) = LeafEnts(st, r, e.k)
  BY KeysAssumption DEF SameEnts, LeafEntry
<1>4. QED
  BY <1>1, <1>2, <1>3

\* The number of pages of a tree.
LEMMA TreeSize ==
  ASSUME NEW st, Good(st), NEW r, SmallTree(st, r)
  PROVE  /\ IsFiniteSet(TreePages(st, r))
         /\ Cardinality(TreePages(st, r)) = IF r = 0 THEN 0 ELSE IF LeafAt(st, r) THEN 1 ELSE 3
<1>1. CASE r = 0
  BY <1>1, FS_EmptySet DEF TreePages
<1>2. CASE r # 0 /\ LeafAt(st, r)
  <2>1. TreePages(st, r) = {r}
    BY <1>2 DEF TreePages
  <2>2. QED
    BY <1>2, <2>1, FS_Singleton
<1>3. CASE r # 0 /\ ~LeafAt(st, r)
  <2> DEFINE x == Fork(st, r).l
             y == Fork(st, r).r
  <2>1. ForkAt(st, r) /\ st \in StoresOf(NodePage)
    BY <1>3 DEF SmallTree, Good, Listed
  <2>2. x # y /\ r # x /\ r # y
    <3>1. x # y
      BY <2>1 DEF ForkAt
    <3>2. r \notin {x, y}
      BY <2>1, ForkTypes
    <3>3. QED
      BY <3>1, <3>2
  <2>3. TreePages(st, r) = {r, x, y}
    BY <1>3 DEF TreePages
  <2> HIDE DEF x, y
  <2>4. IsFiniteSet({x}) /\ Cardinality({x}) = 1
    BY FS_Singleton
  <2>5. IsFiniteSet({x} \cup {y}) /\ Cardinality({x} \cup {y}) = 2
    BY <2>2, <2>4, FS_AddElement
  <2> DEFINE S == {x} \cup {y}
  <2>6. r \notin S
    BY <2>2
  <2>7. IsFiniteSet(S \cup {r}) /\ Cardinality(S \cup {r}) = 3
    <3>1. IsFiniteSet(S) /\ Cardinality(S) = 2
      BY <2>5
    <3> HIDE DEF S
    <3>2. QED
      BY <2>6, <3>1, FS_AddElement
  <2>8. S \cup {r} = {r, x, y}
    OBVIOUS
  <2>9. QED
    BY <1>3, <2>3, <2>7, <2>8
<1>4. QED
  BY <1>1, <1>2, <1>3

----------------------------------------------------------------------------
(* One call of btree_insert or btree_delete on a table's tree.            *)

Out(st, r) == Used(st) \ TreePages(st, r)
TreeCount(st, r) == Cardinality(TreePages(st, r))

\* Two sound changes after each other are one.
LEMMA SoundTwice ==
  ASSUME NEW st, NEW r, NEW st2, NEW r2, NEW st3, NEW r3, Sound(st, r, st2, r2), Sound(st2, r2, st3, r3)
  PROVE  Sound(st, r, st3, r3)
<1>1. /\ \A pn \in Out(st, r) : pn \in Used(st2) /\ st2.pages[pn] = st.pages[pn]
      /\ TreePages(st2, r2) \cap Out(st, r) = {}
  BY DEF Sound, Out
<1>2. /\ Good(st3) /\ SmallTree(st3, r3)
      /\ \A pn \in Out(st2, r2) : pn \in Used(st3) /\ st3.pages[pn] = st2.pages[pn]
      /\ TreePages(st3, r3) \cap Out(st2, r2) = {}
  BY DEF Sound, Out
<1>3. Out(st, r) \subseteq Out(st2, r2)
  BY <1>1 DEF Out
<1>4. /\ \A pn \in Out(st, r) : pn \in Used(st3) /\ st3.pages[pn] = st.pages[pn]
      /\ TreePages(st3, r3) \cap Out(st, r) = {}
  BY <1>1, <1>2, <1>3
<1>5. QED
  BY <1>2, <1>4 DEF Sound, Out

\* No change is a sound one.
LEMMA SoundSame ==
  ASSUME NEW st, NEW r, Stands(st, r)
  PROVE  Sound(st, r, st, r)
<1>1. Good(st) /\ SmallTree(st, r)
  BY DEF Stands
<1>2. QED
  BY <1>1 DEF Sound

\* An edited leaf leaves the number of the tree's pages as it is.
LEMMA EditedSize ==
  ASSUME NEW st, Good(st), NEW r, SmallTree(st, r), NEW st2, Good(st2), NEW r2, SmallTree(st2, r2), r2 # 0,
         NEW k, NEW ents, Edited(st, r, k, st2, r2, ents)
  PROVE  /\ TreeCount(st, r) \in Nat /\ TreeCount(st, r) <= TreeCount(st2, r2)
         /\ r # 0 => TreeCount(st, r) = TreeCount(st2, r2)
         /\ Whole(st, r) => Whole(st2, r2)
<1>1. TreeCount(st, r) = IF r = 0 THEN 0 ELSE IF LeafAt(st, r) THEN 1 ELSE 3
  BY TreeSize DEF TreeCount
<1>2. TreeCount(st2, r2) = IF LeafAt(st2, r2) THEN 1 ELSE 3
  BY TreeSize DEF TreeCount
<1>3. Whole(st, r) => LeafAt(st2, r2)
  BY DEF Edited
<1>4. ~Whole(st, r) => ForkAt(st2, r2) /\ ~LeafAt(st2, r2)
  BY NotBoth DEF Edited
<1>5. QED
  BY <1>1, <1>2, <1>3, <1>4 DEF Whole

\* btree_insert, on a tree that needs no second split and no larger leaf.
PutDone(st, r, e, res) ==
    /\ res.rc \in {0, -1}
    /\ Stands(res.st, res.root) /\ Sound(st, r, res.st, res.root)
    /\ TreeCount(st, r) <= TreeCount(res.st, res.root)
    /\ r # 0 /\ ~MustSplit(st, r, e.k, e.v) => TreeCount(st, r) = TreeCount(res.st, res.root)
    /\ ~MustSplit(st, r, e.k, e.v) => (Whole(st, r) => Whole(res.st, res.root))
    /\ res.rc = 0 => /\ Ent(res.st, res.root) = But(Ent(st, r), e.k) \cup {e}
                     /\ Out(res.st, res.root) \subseteq Out(st, r)
    /\ res.rc = -1 => Ent(res.st, res.root) = Ent(st, r) /\ Left(st) < 2

\* btree_insert puts the entry, or fails for want of pages and changes no entry.
LEMMA Putting ==
  ASSUME HalvesFit, NEW st, NEW r, Stands(st, r), NEW k \in Keys, NEW v \in Values,
         MustSplit(st, r, k, v) => LeafAt(st, r), ~Overfills(st, r, k, v),
         Insert(st, r, k, v).rc # Fault
  PROVE  PutDone(st, r, [k |-> k, v |-> v], Insert(st, r, k, v))
<1> DEFINE e   == [k |-> k, v |-> v]
           res == Insert(st, r, k, v)
           st2 == res.st
           r2  == res.root
<1>1. Good(st) /\ SmallTree(st, r) /\ Ordered(st, r) /\ k \in Nat /\ e \in LeafEntry /\ e.k = k /\ e.v = v
  BY KeysAssumption DEF Stands, LeafEntry
<1>2. Inserted(st, r, e, res)
  BY <1>1, InsertCall
<1>3. res.rc = -1 => Left(st) < 2
  BY <1>1, InsertFails
<1> HIDE DEF res, e
<1>4. res.rc # Fault
  BY DEF res
<1>5. Ordered(st2, r2)
  <2>1. Inserted(st, r, [k |-> k, v |-> v], res)
    BY <1>2 DEF e
  <2>2. QED
    BY <1>1, <1>4, <2>1, InsertOrdered
<1>6. CASE res.rc = 0
  <2>1. /\ Rewritten(st, r, Path(st, r, k), st2, r2)
        /\ \/ ~MustSplit(st, r, k, v) /\ Edited(st, r, k, st2, r2, Placed(LeafEnts(st, r, k), e))
           \/ /\ MustSplit(st, r, k, v)
              /\ Forked(st, r, st2, r2, Halves(InsertAt(LeafEnts(st, r, k), SlotOf(LeafEnts(st, r, k), k), e)))
    BY <1>1, <1>2, <1>6 DEF Inserted, Fault
  <2>2. Sound(st, r, st2, r2)
    BY <1>1, <2>1, RewrittenSound
  <2>3. Good(st2) /\ SmallTree(st2, r2) /\ r2 # 0 /\ Out(st2, r2) \subseteq Out(st, r)
    BY <2>1 DEF Rewritten, Out
  <2>4. Stands(st2, r2)
    BY <1>5, <2>3 DEF Stands
  <2>5. PutUnder(st, r, st2, r2, k, {e})
    <3>1. Inserted(st, r, [k |-> k, v |-> v], res)
      BY <1>2 DEF e
    <3>2. PutUnder(st, r, res.st, res.root, k, {[k |-> k, v |-> v]})
      BY <1>1, <1>6, <3>1, InsertUnder
    <3>3. QED
      BY <3>2 DEF e
  <2>6. Ent(st2, r2) = But(Ent(st, r), k) \cup {e}
    <3> DEFINE put == {e}
    <3>1. put \subseteq LeafEntry /\ \A f \in put : f.k = k
      BY <1>1
    <3>2. PutUnder(st, r, st2, r2, k, put)
      BY <2>5
    <3> HIDE DEF put, st2, r2
    <3>3. Ent(st2, r2) = But(Ent(st, r), k) \cup put
      BY <2>4, <3>1, <3>2, EntPut
    <3>4. QED
      BY <3>3 DEF put
  <2>7. /\ TreeCount(st, r) <= TreeCount(st2, r2)
        /\ r # 0 /\ ~MustSplit(st, r, k, v) => TreeCount(st, r) = TreeCount(st2, r2)
        /\ ~MustSplit(st, r, k, v) => (Whole(st, r) => Whole(st2, r2))
    <3>1. CASE ~MustSplit(st, r, k, v)
      <4> HIDE DEF st2, r2
      <4>1. Edited(st, r, k, st2, r2, Placed(LeafEnts(st, r, k), e))
        BY <2>1, <3>1
      <4>2. QED
        BY <1>1, <2>3, <4>1, EditedSize
    <3>2. CASE MustSplit(st, r, k, v)
      <4>1. LeafAt(st, r) /\ ForkAt(st2, r2) /\ r # 0
        BY <2>1, <3>2, NotBoth DEF Forked
      <4>2. ~LeafAt(st2, r2)
        BY <4>1, NotBoth
      <4>3. TreeCount(st, r) = 1
        BY <1>1, <4>1, TreeSize DEF TreeCount
      <4> HIDE DEF st2, r2
      <4>4. TreeCount(st2, r2) = 3
        BY <2>3, <4>2, TreeSize DEF TreeCount
      <4>5. QED
        BY <3>2, <4>3, <4>4
    <3>3. QED
      BY <3>1, <3>2
  <2>8. PutDone(st, r, e, res)
    BY <1>1, <1>6, <2>2, <2>3, <2>4, <2>6, <2>7 DEF PutDone
  <2>9. QED
    BY <2>8 DEF res, e
<1>7. CASE res.rc # 0
  <2>1. res.rc = -1 /\ Same(st, r, st2, r2)
    BY <1>2, <1>4, <1>7 DEF Inserted
  <2>2. Sound(st, r, st2, r2) /\ (Whole(st, r) => Whole(st2, r2)) /\ Good(st2) /\ SmallTree(st2, r2)
    BY <1>1, <2>1, SameSound DEF Sound
  <2>3. Stands(st2, r2)
    BY <1>5, <2>2 DEF Stands
  <2>4. Ent(st2, r2) = Ent(st, r)
    <3> HIDE DEF st2, r2
    <3>1. SameEnts(st, r, st2, r2)
      BY <1>1, <2>1, SameOrdered
    <3>2. QED
      BY <2>3, <3>1, EntSame
  <2>5. TreeCount(st, r) <= TreeCount(st2, r2) /\ (r # 0 => TreeCount(st, r) = TreeCount(st2, r2))
    <3> HIDE DEF st2, r2
    <3>1. CASE r = 0
      <4>1. TreeCount(st, r) = 0
        BY <1>1, <3>1, TreeSize DEF TreeCount
      <4>2. TreeCount(st2, r2) \in {0, 1, 3}
        BY <2>2, TreeSize DEF TreeCount
      <4>3. QED
        BY <3>1, <4>1, <4>2
    <3>2. CASE r # 0
      <4>1. r2 = r /\ Kept(st, st2)
        BY <2>1, <3>2 DEF Same
      <4>2. TreePages(st2, r) = TreePages(st, r)
        BY <1>1, <4>1, TreeKept
      <4>3. TreeCount(st, r) \in {1, 3}
        BY <1>1, <3>2, TreeSize DEF TreeCount
      <4>4. QED
        BY <4>1, <4>2, <4>3 DEF TreeCount
    <3>3. QED
      BY <3>1, <3>2
  <2>6. PutDone(st, r, e, res)
    BY <1>1, <1>3, <2>1, <2>2, <2>3, <2>4, <2>5 DEF PutDone
  <2>7. QED
    BY <2>6 DEF res, e
<1>8. QED
  BY <1>6, <1>7

\* btree_delete
DropDone(st, r, k, res) ==
    /\ res.rc \in {0, -1}
    /\ Stands(res.st, res.root) /\ Sound(st, r, res.st, res.root)
    /\ TreeCount(st, r) = TreeCount(res.st, res.root) /\ (Whole(st, r) => Whole(res.st, res.root))
    /\ res.rc = 0 => /\ Ent(res.st, res.root) = But(Ent(st, r), k)
                     /\ Out(res.st, res.root) \subseteq Out(st, r) /\ Left(st) >= 1
    /\ res.rc = -1 => /\ res.st = st /\ res.root = r
                      /\ HasKey(Ent(st, r), k) => Left(st) = 0

\* btree_delete takes the entry out, or fails and changes nothing.
LEMMA Dropping ==
  ASSUME NEW st, NEW r, Stands(st, r), NEW k \in Keys
  PROVE  DropDone(st, r, k, Delete(st, r, k))
<1> DEFINE res == Delete(st, r, k)
           st2 == res.st
           r2  == res.root
<1>1. Good(st) /\ SmallTree(st, r) /\ Ordered(st, r) /\ k \in Nat
  BY KeysAssumption DEF Stands
<1>2. Deleted(st, r, k, res)
  BY <1>1, DeleteCall
<1>3. /\ res.rc # 0 => res.st = st
      /\ res.rc # 0 /\ Holds(LeafEnts(st, r, k), k) => Left(st) = 0
      /\ res.rc = 0 => Left(st) >= 1
  BY <1>1, DeleteFails
<1> HIDE DEF res
<1>4. Ordered(st2, r2)
  BY <1>1, <1>2, DeleteOrdered
<1>5. CASE res.rc = 0
  <2>1. /\ Rewritten(st, r, Path(st, r, k), st2, r2) /\ r # 0
        /\ Edited(st, r, k, st2, r2, RemoveAt(LeafEnts(st, r, k), SlotOf(LeafEnts(st, r, k), k)))
    BY <1>2, <1>5 DEF Deleted
  <2>2. Sound(st, r, st2, r2)
    BY <1>1, <2>1, RewrittenSound
  <2>3. Good(st2) /\ SmallTree(st2, r2) /\ r2 # 0 /\ Out(st2, r2) \subseteq Out(st, r)
    BY <2>1 DEF Rewritten, Out
  <2>4. Stands(st2, r2)
    BY <1>4, <2>3 DEF Stands
  <2>5. PutUnder(st, r, st2, r2, k, {})
    BY <1>1, <1>2, <1>5, DeleteUnder
  <2>6. Ent(st2, r2) = But(Ent(st, r), k)
    <3> DEFINE put == {}
    <3>1. put \subseteq LeafEntry /\ \A f \in put : f.k = k
      OBVIOUS
    <3>2. PutUnder(st, r, st2, r2, k, put)
      BY <2>5
    <3> HIDE DEF put, st2, r2
    <3>3. Ent(st2, r2) = But(Ent(st, r), k) \cup put
      BY <2>4, <3>1, <3>2, EntPut
    <3>4. QED
      BY <3>3 DEF put
  <2>7. TreeCount(st, r) = TreeCount(st2, r2) /\ (Whole(st, r) => Whole(st2, r2))
    <3> HIDE DEF st2, r2
    <3>1. QED
      BY <1>1, <2>1, <2>3, EditedSize
  <2>8. DropDone(st, r, k, res)
    BY <1>3, <1>5, <2>2, <2>3, <2>4, <2>6, <2>7 DEF DropDone
  <2>9. QED
    BY <2>8 DEF res
<1>6. CASE res.rc # 0
  <2>1. res.rc = -1 /\ r2 = r /\ st2 = st
    BY <1>2, <1>3, <1>6 DEF Deleted
  <2>2. Sound(st, r, st, r)
    BY SoundSame
  <2>3. HasKey(Ent(st, r), k) => Left(st) = 0
    BY <1>3, <1>6, EntFacts
  <2>4. DropDone(st, r, k, res)
    BY <2>1, <2>2, <2>3 DEF DropDone
  <2>5. QED
    BY <2>4 DEF res
<1>7. QED
  BY <1>5, <1>6

----------------------------------------------------------------------------
(* The edits of a statement, one after another.                           *)

\* The pages in use are those of the tree and the others.
LEMMA UsedSplit ==
  ASSUME NEW st, NEW r, Good(st), SmallTree(st, r)
  PROVE  /\ Out(st, r) \cap TreePages(st, r) = {} /\ Used(st) = Out(st, r) \cup TreePages(st, r)
         /\ IsFiniteSet(Out(st, r)) /\ IsFiniteSet(Used(st))
         /\ Cardinality(Used(st)) = Cardinality(Out(st, r)) + TreeCount(st, r)
         /\ Cardinality(Out(st, r)) \in Nat /\ TreeCount(st, r) \in Nat /\ Cardinality(Used(st)) \in Nat
         /\ Left(st) \in Nat
<1>1. TreePages(st, r) \subseteq Used(st)
  BY TreeUsed
<1>2. IsFiniteSet(Used(st)) /\ Cardinality(Used(st)) \in Nat
  BY GoodOwned, OwnedSize
<1>3. /\ IsFiniteSet(Out(st, r)) /\ IsFiniteSet(TreePages(st, r))
  BY <1>1, <1>2, FS_Subset DEF Out
<1>4. Cardinality(Out(st, r)) \in Nat /\ TreeCount(st, r) \in Nat
  BY <1>3, FS_CardinalityType DEF TreeCount
<1>5. Out(st, r) \cap TreePages(st, r) = {} /\ Used(st) = Out(st, r) \cup TreePages(st, r)
  BY <1>1 DEF Out
<1>6. Cardinality(Used(st)) = Cardinality(Out(st, r)) + TreeCount(st, r)
  <2>1. Cardinality(Out(st, r) \cup TreePages(st, r))
           = Cardinality(Out(st, r)) + Cardinality(TreePages(st, r)) - Cardinality(Out(st, r) \cap TreePages(st, r))
    BY <1>3, FS_Union
  <2>2. Cardinality({}) = 0
    BY FS_EmptySet
  <2> DEFINE o == Out(st, r)
             t == TreePages(st, r)
  <2>3. /\ Cardinality(o) \in Nat /\ Cardinality(t) \in Nat
        /\ Cardinality(o \cup t) = Cardinality(o) + Cardinality(t) - 0
    BY <1>4, <1>5, <2>1, <2>2 DEF TreeCount
  <2>4. Used(st) = o \cup t
    BY <1>5
  <2> HIDE DEF o, t
  <2>5. Cardinality(Used(st)) = Cardinality(o) + Cardinality(t)
    BY <2>3, <2>4
  <2>6. QED
    BY <2>5 DEF o, t, TreeCount
<1>7. Left(st) \in Nat
  BY AllocLeft
<1>8. QED
  BY <1>2, <1>3, <1>4, <1>5, <1>6, <1>7

\* What a statement has made of a table's tree: rows have been changed, no page
\* outside the tree has been touched, and a page has been lost only when there
\* were not two.
Edits(st, r, st2, r2) ==
    /\ Stands(st2, r2) /\ Sound(st, r, st2, r2)
    /\ TreeCount(st, r) = TreeCount(st2, r2) /\ (Whole(st, r) => Whole(st2, r2))
    /\ Out(st2, r2) \subseteq Out(st, r) \/ Left(st) < 2

\* While two pages are left an edit does not use one up.
LEMMA EditsLeft ==
  ASSUME NEW st, NEW r, Stands(st, r), NEW st2, NEW r2, Edits(st, r, st2, r2)
  PROVE  Left(st) >= 2 => Left(st2) = Left(st)
<1>1. ASSUME Left(st) >= 2 PROVE Out(st2, r2) = Out(st, r)
  <2>1. Left(st) \in Nat /\ 2 \in Nat
    BY UsedSplit DEF Stands
  <2>2. ~(Left(st) < 2)
    BY <1>1, <2>1
  <2>3. Out(st2, r2) \subseteq Out(st, r)
    BY <2>2 DEF Edits
  <2>4. Out(st, r) \subseteq Out(st2, r2)
    BY DEF Edits, Sound, Out
  <2>5. QED
    BY <2>3, <2>4
<1>2. /\ Cardinality(Used(st)) = Cardinality(Out(st, r)) + TreeCount(st, r)
      /\ Cardinality(Used(st2)) = Cardinality(Out(st2, r2)) + TreeCount(st2, r2)
      /\ TreeCount(st, r) = TreeCount(st2, r2)
  BY UsedSplit DEF Stands, Edits
<1>3. QED
  BY <1>1, <1>2 DEF Left

\* Two edits after each other are one.
LEMMA EditsTwice ==
  ASSUME NEW st, NEW r, Stands(st, r), NEW st2, NEW r2, Edits(st, r, st2, r2),
         NEW st3, NEW r3, Edits(st2, r2, st3, r3)
  PROVE  Edits(st, r, st3, r3)
<1>1. Sound(st, r, st3, r3)
  BY SoundTwice DEF Edits
<1>2. Left(st) \in Nat
  BY UsedSplit DEF Stands
<1>3. Out(st3, r3) \subseteq Out(st, r) \/ Left(st) < 2
  <2>1. CASE Left(st) >= 2
    <3>1. Left(st2) = Left(st)
      BY <2>1, EditsLeft
    <3>2. ~(Left(st) < 2)
      BY <1>2, <2>1
    <3>3. QED
      BY <3>1, <3>2 DEF Edits
  <2>2. CASE ~(Left(st) >= 2)
    BY <1>2, <2>2
  <2>3. QED
    BY <2>1, <2>2
<1>4. QED
  BY <1>1, <1>3 DEF Edits

\* No change is an edit.
LEMMA EditsNone ==
  ASSUME NEW st, NEW r, Stands(st, r)
  PROVE  Edits(st, r, st, r)
<1>1. Sound(st, r, st, r)
  BY SoundSame
<1>2. QED
  BY <1>1 DEF Edits

\* An entry of the tree gets another value.
LEMMA SetOne ==
  ASSUME HalvesFit, NEW st, NEW r, Stands(st, r), NEW k \in Keys, NEW v \in Values,
         HasKey(Ent(st, r), k), ~Overfills(st, r, k, v), Insert(st, r, k, v).rc # Fault
  PROVE  LET res == Insert(st, r, k, v)
         IN  /\ res.rc \in {0, -1} /\ Edits(st, r, res.st, res.root)
             /\ res.rc = 0 => Ent(res.st, res.root) = But(Ent(st, r), k) \cup {[k |-> k, v |-> v]}
             /\ res.rc = -1 => Ent(res.st, res.root) = Ent(st, r) /\ Left(st) < 2
<1> DEFINE res == Insert(st, r, k, v)
           e == [k |-> k, v |-> v]
<1>1. Good(st) /\ SmallTree(st, r) /\ k \in Nat
  BY KeysAssumption DEF Stands
<1>2. Holds(LeafEnts(st, r, k), k)
  BY EntFacts
<1>3. r # 0
  BY <1>2 DEF LeafEnts, Holds
<1>4. LeafEnts(st, r, k) = Ents(LeafFor(st, r, k))
  BY <1>1, <1>3, LeafEntsFacts DEF LeafFor
<1>5. ~MustSplit(st, r, k, v)
  BY <1>2, <1>4 DEF MustSplit
<1>6. PutDone(st, r, e, res)
  BY <1>5, Putting
<1>7. e.k = k /\ e.v = v
  OBVIOUS
<1> HIDE DEF res, e
<1>8. /\ res.rc \in {0, -1} /\ Stands(res.st, res.root) /\ Sound(st, r, res.st, res.root)
      /\ TreeCount(st, r) = TreeCount(res.st, res.root) /\ (Whole(st, r) => Whole(res.st, res.root))
      /\ res.rc = 0 => Ent(res.st, res.root) = But(Ent(st, r), k) \cup {e} /\ Out(res.st, res.root) \subseteq Out(st, r)
      /\ res.rc = -1 => Ent(res.st, res.root) = Ent(st, r) /\ Left(st) < 2
  BY <1>3, <1>5, <1>6, <1>7 DEF PutDone
<1>9. QED
  BY <1>8 DEF Edits, res, e

\* An entry of the tree is removed.
LEMMA DropOne ==
  ASSUME NEW st, NEW r, Stands(st, r), NEW k \in Keys
  PROVE  LET res == Delete(st, r, k)
         IN  /\ res.rc \in {0, -1} /\ Edits(st, r, res.st, res.root)
             /\ res.rc = 0 => Ent(res.st, res.root) = But(Ent(st, r), k)
             /\ res.rc = -1 => res.st = st /\ res.root = r
             /\ res.rc = -1 /\ HasKey(Ent(st, r), k) => Left(st) < 1
<1> DEFINE res == Delete(st, r, k)
<1>1. DropDone(st, r, k, res)
  BY Dropping
<1> HIDE DEF res
<1>2. Out(res.st, res.root) \subseteq Out(st, r)
  BY <1>1 DEF DropDone
<1>3. Left(st) = 0 => Left(st) < 1
  OBVIOUS
<1>4. QED
  BY <1>1, <1>2, <1>3 DEF DropDone, Edits, res

----------------------------------------------------------------------------
(* The rows UPDATE and DELETE collect.                                    *)

\* The rows of a leaf that pass, in order.
MatchStep(sch, wheres, got, e) == IF RowPasses(sch, e.v, wheres) THEN Append(got, e) ELSE got
Matched(sch, wheres, ents, m) == {ents[i] : i \in {j \in 1 .. m : RowPasses(sch, ents[j].v, wheres)}}
MatchedSo(sch, wheres, ents, m, got) ==
    /\ got \in Seq(LeafEntry) /\ Len(got) <= m
    /\ ToSet(got) = Matched(sch, wheres, ents, m)
    /\ SortedByKey(ents) => SortedByKey(got)

\* The rows of a leaf that pass, in the leaf's order.
LEMMA MatchesFacts ==
  ASSUME NEW sch, NEW wheres, NEW ents \in Seq(LeafEntry)
  PROVE  MatchedSo(sch, wheres, ents, Len(ents), Matches(sch, ents, wheres))
<1> DEFINE n == Len(ents)
           V == Seq(LeafEntry)
           F(f) == f = [u \in SUBSET (1 .. n) |-> IF u = {} THEN <<>>
                                                  ELSE MatchStep(sch, wheres, f[u \ {Max(u)}], ents[Max(u)])]
           it == CHOOSE f : F(f)
<1>1. n \in Nat /\ DOMAIN ents = 1 .. n /\ \A i \in 1 .. n : ents[i] \in LeafEntry /\ ents[i].k \in Nat
  BY EntryRoom
<1>2. <<>> \in V /\ Len(<<>>) = 0 /\ ToSet(<<>>) = {} /\ SortedByKey(<<>>)
  BY OkEmpty DEF LeafOk
<1>3. Matches(sch, ents, wheres) = it[1 .. n]
  BY <1>1 DEF Matches, FoldLeft, MapThenFoldSet, MatchStep
<1>4. F(it)
  <2> DEFINE step == [p \in 1 .. n |-> [v \in V |-> MatchStep(sch, wheres, v, ents[p])]]
  <2>1. \A p \in 1 .. n : \A v \in V :
           step[p][v] = MatchStep(sch, wheres, v, ents[p]) /\ step[p][v] \in V
    BY <1>1 DEF MatchStep
  <2> HIDE DEF step, n, V
  <2>3. SeqRecursive(n, V, <<>>, step)
    BY <1>1, <1>2, <2>1, OverSequence
  <2>4. PICK f : /\ f \in [SUBSET (1 .. n) -> V]
                 /\ f = [u \in SUBSET (1 .. n) |-> IF u = {} THEN <<>> ELSE step[Max(u)][f[u \ {Max(u)}]]]
    BY <2>3 DEF SeqRecursive
  <2>5. \A u \in SUBSET (1 .. n) :
           u # {} => step[Max(u)][f[u \ {Max(u)}]] = MatchStep(sch, wheres, f[u \ {Max(u)}], ents[Max(u)])
    BY <1>1, <2>1, <2>4, MaxIn
  <2>6. F(f)
    BY <2>4, <2>5
  <2>7. QED
    BY <2>6
<1>5. it[{}] = <<>>
  BY <1>4
<1>6. ASSUME NEW m \in 1 .. n PROVE it[1 .. m] = MatchStep(sch, wheres, it[1 .. m - 1], ents[m])
  <2>1. m \in Nat \ {0} /\ m \in 1 .. m /\ \A u \in 1 .. m : u \in 1 .. n
    BY <1>1
  <2>2. 1 .. m \in SUBSET (1 .. n) /\ 1 .. m # {}
    BY <2>1
  <2>3. QED
    BY <1>4, <2>1, <2>2, MaxUpto
<1> HIDE DEF it
<1> DEFINE T == {m \in 0 .. n : MatchedSo(sch, wheres, ents, m, it[1 .. m])}
<1>7. 0 \in T
  <2>1. 1 .. 0 = {} /\ 0 \in 0 .. n
    BY <1>1
  <2>2. it[1 .. 0] = <<>>
    BY <1>5, <2>1
  <2>3. Matched(sch, wheres, ents, 0) = {}
    BY <2>1 DEF Matched
  <2> DEFINE none == <<>>
  <2>4. MatchedSo(sch, wheres, ents, 0, none)
    <3>1. /\ none \in Seq(LeafEntry) /\ Len(none) = 0 /\ ToSet(none) = {} /\ SortedByKey(none)
          /\ 0 <= 0
      BY <1>2
    <3> HIDE DEF none
    <3>2. QED
      BY <2>3, <3>1 DEF MatchedSo
  <2>5. QED
    BY <2>1, <2>2, <2>4
<1>8. ASSUME NEW m \in 1 .. n, m - 1 \in T PROVE m \in T
  <2> DEFINE r == it[1 .. m - 1]
             s == it[1 .. m]
             e == ents[m]
  <2>1. MatchedSo(sch, wheres, ents, m - 1, r) /\ m \in 0 .. n
    BY <1>1, <1>8
  <2>2. s = MatchStep(sch, wheres, r, e) /\ e \in LeafEntry
    BY <1>1, <1>6
  <2>3. /\ \A p \in 1 .. m : p \in 1 .. m - 1 \/ p = m
        /\ m \notin 1 .. m - 1 /\ m \in 1 .. m /\ \A p \in 1 .. m - 1 : p \in 1 .. m
    BY <1>1
  <2>4. e = ents[m]
    OBVIOUS
  <2> HIDE DEF r, s, T, e
  <2>5. r \in Seq(LeafEntry) /\ Len(r) \in Nat /\ Len(r) <= m - 1 /\ ToSet(r) = Matched(sch, wheres, ents, m - 1)
    BY <2>1, EntryRoom DEF MatchedSo
  <2>6. CASE ~RowPasses(sch, e.v, wheres)
    <3>1. Matched(sch, wheres, ents, m) = Matched(sch, wheres, ents, m - 1)
      BY <2>3, <2>4, <2>6 DEF Matched
    <3>2. s = r /\ Len(r) <= m
      BY <1>1, <2>2, <2>5, <2>6 DEF MatchStep
    <3>3. MatchedSo(sch, wheres, ents, m, s)
      BY <2>1, <3>1, <3>2 DEF MatchedSo
    <3>4. QED
      BY <2>1, <3>3 DEF T, s
  <2>7. CASE RowPasses(sch, e.v, wheres)
    <3>1. Matched(sch, wheres, ents, m) = Matched(sch, wheres, ents, m - 1) \cup {e}
      BY <2>3, <2>4, <2>7 DEF Matched
    <3>2. s = Append(r, e)
      BY <2>2, <2>7 DEF MatchStep
    <3>3. /\ s \in Seq(LeafEntry) /\ Len(s) = Len(r) + 1 /\ ToSet(s) = ToSet(r) \cup {e}
          /\ SortedByKey(r) /\ (\A f \in ToSet(r) : f.k < e.k) => SortedByKey(s)
      BY <2>2, <2>5, <3>2, Appended
    <3>4. ASSUME SortedByKey(ents), NEW f \in ToSet(r) PROVE f.k < e.k
      <4>1. PICK i \in 1 .. m - 1 : f = ents[i]
        BY <2>5, <3>4 DEF Matched
      <4>2. i \in 1 .. n /\ i < m
        BY <1>1, <4>1
      <4>3. ents[i].k < ents[m].k
        BY <3>4, <4>2, SortedFacts
      <4>4. QED
        BY <4>1, <4>3, <2>4
    <3>5. Len(s) <= m
      BY <1>1, <2>5, <3>3
    <3>6. MatchedSo(sch, wheres, ents, m, s)
      BY <2>1, <2>5, <3>1, <3>3, <3>4, <3>5 DEF MatchedSo
    <3>7. QED
      BY <2>1, <3>6 DEF T, s
  <2>8. QED
    BY <2>6, <2>7
<1> HIDE DEF T, n
<1>9. \A m \in 0 .. n : m \in T
  BY <1>1, <1>7, <1>8, Upwards
<1>10. n \in 0 .. n
  BY <1>1
<1>11. QED
  BY <1>3, <1>9, <1>10 DEF T, n

\* A list is not longer than the room its entries take.
LEMMA LenFill ==
  ASSUME NEW ents \in Seq(LeafEntry)
  PROVE  Len(ents) <= Fill(ents)
<1> DEFINE n == Len(ents)
<1>1. n \in Nat /\ \A i \in 1 .. n : Size[ents[i].v] \in Nat \ {0}
  BY EntryRoom
<1>2. PICK used \in [0 .. n -> Nat] : /\ used[0] = 0 /\ Fill(ents) = used[n]
                                      /\ \A i \in 1 .. n : used[i] = used[i - 1] + Size[ents[i].v]
  BY FillSteps
<1> DEFINE T == {m \in 0 .. n : m <= used[m]}
<1>3. 0 \in T
  BY <1>1, <1>2
<1>4. ASSUME NEW m \in 1 .. n, m - 1 \in T PROVE m \in T
  <2>1. m - 1 \in 0 .. n /\ m \in 0 .. n /\ m - 1 <= used[m - 1]
    BY <1>1, <1>4
  <2>2. used[m - 1] \in Nat /\ used[m] = used[m - 1] + Size[ents[m].v] /\ Size[ents[m].v] \in Nat \ {0}
    BY <1>1, <1>2, <2>1
  <2>3. m <= used[m]
    BY <2>1, <2>2
  <2>4. QED
    BY <2>1, <2>3
<1> HIDE DEF T
<1>5. \A m \in 0 .. n : m \in T
  BY <1>1, <1>3, <1>4, Upwards
<1>6. QED
  BY <1>1, <1>2, <1>5 DEF T

\* The rows of a tree are those on its leaves.
LEMMA EntOnLeaves ==
  ASSUME NEW st, NEW r, Stands(st, r)
  PROVE  UNION {ToSet(Ents(st.pages[pn])) : pn \in Leaves(st, r)} = Ent(st, r)
<1>1. st \in StoresOf(NodePage) /\ SmallTree(st, r)
  BY DEF Stands, Good, Listed
<1>2. ToSet(<<>>) = {}
  BY OkEmpty
<1>3. CASE r = 0
  <2>1. Leaves(st, r) = {} /\ TreeEnts(st, r) = <<>>
    BY <1>1, <1>3, LeavesOfTree DEF TreeEnts
  <2>2. QED
    BY <1>2, <2>1 DEF Ent
<1>4. CASE r # 0 /\ LeafAt(st, r)
  <2>1. Leaves(st, r) = {r} /\ TreeEnts(st, r) = Ents(st.pages[r])
    BY <1>1, <1>4, LeavesOfTree DEF TreeEnts
  <2>2. QED
    BY <2>1 DEF Ent
<1>5. CASE r # 0 /\ ~LeafAt(st, r)
  <2> DEFINE low == Low(st, r)
             high == High(st, r)
             sep == Fork(st, r).k
  <2>1. ForkAt(st, r)
    BY <1>1, <1>5 DEF SmallTree
  <2>2. Leaves(st, r) = {Fork(st, r).l, Fork(st, r).r} /\ TreeEnts(st, r) = low \o high
    BY <1>1, <1>5, <2>1, LeavesOfTree DEF TreeEnts
  <2>3. /\ low \in Seq(LeafEntry) /\ high \in Seq(LeafEntry) /\ SortedByKey(low) /\ SortedByKey(high)
        /\ \A f \in ToSet(low) : f.k < sep
        /\ \A f \in ToSet(high) : f.k >= sep
    BY <2>1 DEF Stands, Ordered, LeafOk
  <2>4. sep \in Nat
    <3>1. 0 \in Nat
      OBVIOUS
    <3>2. Fork(st, r) \in BranchEntry
      BY <1>1, <2>1, <3>1, ForkTypes
    <3>3. QED
      BY <3>2, KeysAssumption DEF BranchEntry
  <2>5. UNION {ToSet(Ents(st.pages[pn])) : pn \in Leaves(st, r)} = ToSet(low) \cup ToSet(high)
    BY <2>2 DEF Low, High
  <2> HIDE DEF low, high, sep
  <2>6. ToSet(low \o high) = ToSet(low) \cup ToSet(high)
    BY <2>3, <2>4, ListsJoined
  <2>7. QED
    BY <2>2, <2>5, <2>6 DEF Ent
<1>6. QED
  BY <1>3, <1>4, <1>5

\* The walk of UPDATE and DELETE along the leaves.
CollectStep(st, sch, wheres, got, pn) ==
    IF Len(got) >= MatchMax THEN got ELSE got \o Matches(sch, Ents(st.pages[pn]), wheres)

Collecting(st, sch, r, wheres, f) ==
    LET c == Chain(st, r)
    IN  /\ c \in Seq(PageNos(st)) /\ f \in [0 .. Len(c) -> Seq(LeafEntry)]
        /\ f[0] = <<>> /\ Collect(st, sch, r, wheres) = f[Len(c)]
        /\ \A i \in 1 .. Len(c) : /\ Ents(st.pages[c[i]]) \in Seq(LeafEntry)
                                  /\ f[i] = CollectStep(st, sch, wheres, f[i - 1], c[i])

\* Collect takes these steps.
LEMMA CollectSteps ==
  ASSUME NEW sch, NEW wheres, NEW st \in StoresOf(NodePage), NEW r, SmallTree(st, r), ChainReadable(st, r)
  PROVE  \E f : Collecting(st, sch, r, wheres, f)
<1> DEFINE c == Chain(st, r)
           n == Len(c)
           V == Seq(LeafEntry)
           F(f) == f = [u \in SUBSET (1 .. n) |-> IF u = {} THEN <<>>
                                                  ELSE CollectStep(st, sch, wheres, f[u \ {Max(u)}], c[Max(u)])]
           it == CHOOSE f : F(f)
<1>0. c \in Seq(PageNos(st)) /\ ToSet(c) = {c[i] : i \in 1 .. Len(c)}
  <2>1. c \in Seq(PageNos(st))
    BY ChainFacts DEF Way
  <2> HIDE DEF c
  <2>2. QED
    BY <2>1 DEF ToSet
<1>1. n \in Nat /\ DOMAIN c = 1 .. n /\ \A i \in 1 .. n : Ents(st.pages[c[i]]) \in V
  <2>1. n \in Nat /\ DOMAIN c = 1 .. n /\ \A i \in 1 .. n : c[i] \in PageNos(st)
    <3> HIDE DEF c
    <3>1. QED
      BY <1>0, LenProperties, ElementOfSeq
  <2>2. \A pn \in ToSet(c) : st.pages[pn].word # BranchWord
    BY DEF ChainReadable
  <2>3. ASSUME NEW pn \in PageNos(st), st.pages[pn].word # BranchWord PROVE Ents(st.pages[pn]) \in V
    <3> DEFINE page == st.pages[pn]
    <3>1. page \in NodePage
      BY NodeTypes
    <3> HIDE DEF page
    <3>2. ASSUME page.word = LeafWord PROVE Ents(page) \in V
      BY <3>1, <3>2, LeafFacts
    <3>3. ASSUME page.word # LeafWord PROVE Ents(page) \in V
      <4>1. page.word \in Nat
        BY <2>3, <3>1, <3>3 DEF NodePage, page
      <4>2. ~(page.word < 0)
        BY <4>1
      <4>3. Ents(page) = <<>> /\ <<>> \in Seq(LeafEntry)
        BY <4>2 DEF Ents
      <4>4. QED
        BY <4>3
    <3>4. Ents(page) \in V
      BY <3>2, <3>3
    <3>5. QED
      BY <3>4 DEF page
  <2> HIDE DEF c, n, V
  <2>4. QED
    BY <1>0, <2>1, <2>2, <2>3 DEF n
<1> HIDE DEF c
<1>2. <<>> \in V
  OBVIOUS
<1>3. Collect(st, sch, r, wheres) = it[1 .. n]
  BY <1>1 DEF Collect, FoldLeft, MapThenFoldSet, CollectStep, c
<1>4. F(it)
  <2> DEFINE step == [p \in 1 .. n |-> [v \in V |-> CollectStep(st, sch, wheres, v, c[p])]]
  <2>1. \A p \in 1 .. n : \A v \in V :
           step[p][v] = CollectStep(st, sch, wheres, v, c[p]) /\ step[p][v] \in V
    <3>1. TAKE p \in 1 .. n
    <3>2. Matches(sch, Ents(st.pages[c[p]]), wheres) \in Seq(LeafEntry)
      BY <1>1, MatchesFacts DEF MatchedSo
    <3>3. QED
      BY <3>2 DEF CollectStep
  <2> HIDE DEF step, n, V
  <2>3. SeqRecursive(n, V, <<>>, step)
    BY <1>1, <1>2, <2>1, OverSequence
  <2>4. PICK f : /\ f \in [SUBSET (1 .. n) -> V]
                 /\ f = [u \in SUBSET (1 .. n) |-> IF u = {} THEN <<>> ELSE step[Max(u)][f[u \ {Max(u)}]]]
    BY <2>3 DEF SeqRecursive
  <2>5. \A u \in SUBSET (1 .. n) :
           u # {} => step[Max(u)][f[u \ {Max(u)}]] = CollectStep(st, sch, wheres, f[u \ {Max(u)}], c[Max(u)])
    BY <1>1, <2>1, <2>4, MaxIn
  <2>6. F(f)
    BY <2>4, <2>5
  <2>7. QED
    BY <2>6
<1>5. it[{}] = <<>>
  BY <1>4
<1>6. ASSUME NEW m \in 1 .. n PROVE it[1 .. m] = CollectStep(st, sch, wheres, it[1 .. m - 1], c[m])
  <2>1. m \in Nat \ {0} /\ m \in 1 .. m /\ \A u \in 1 .. m : u \in 1 .. n
    BY <1>1
  <2>2. 1 .. m \in SUBSET (1 .. n) /\ 1 .. m # {}
    BY <2>1
  <2>3. QED
    BY <1>4, <2>1, <2>2, MaxUpto
<1> HIDE DEF it
<1> DEFINE T == {m \in 0 .. n : it[1 .. m] \in V}
<1>7. 0 \in T
  <2>1. 1 .. 0 = {} /\ 0 \in 0 .. n
    BY <1>1
  <2>2. it[1 .. 0] = <<>>
    BY <1>5, <2>1
  <2>3. QED
    BY <1>2, <2>1, <2>2
<1>8. ASSUME NEW m \in 1 .. n, m - 1 \in T PROVE m \in T
  <2>1. it[1 .. m - 1] \in V /\ m \in 0 .. n
    BY <1>1, <1>8
  <2>2. Matches(sch, Ents(st.pages[c[m]]), wheres) \in Seq(LeafEntry)
    BY <1>1, MatchesFacts DEF MatchedSo
  <2> DEFINE got == it[1 .. m - 1]
             more == Matches(sch, Ents(st.pages[c[m]]), wheres)
  <2>3. it[1 .. m] = got \/ it[1 .. m] = got \o more
    BY <1>6 DEF CollectStep
  <2>5. got \in Seq(LeafEntry) /\ more \in Seq(LeafEntry)
    BY <2>1, <2>2
  <2> HIDE DEF got, more
  <2>6. got \o more \in Seq(LeafEntry)
    BY <2>5
  <2>7. it[1 .. m] \in V
    BY <2>3, <2>5, <2>6
  <2>8. QED
    BY <2>1, <2>7
<1> HIDE DEF T, n, V
<1>9. \A m \in 0 .. n : m \in T
  BY <1>1, <1>7, <1>8, Upwards
<1> DEFINE f == [m \in 0 .. n |-> it[1 .. m]]
<1>10. f \in [0 .. n -> V] /\ \A m \in 0 .. n : f[m] = it[1 .. m]
  BY <1>9 DEF T
<1>11. f[0] = <<>>
  <2>1. 1 .. 0 = {} /\ 0 \in 0 .. n
    BY <1>1
  <2>2. QED
    BY <1>5, <1>10, <2>1
<1>12. Collect(st, sch, r, wheres) = f[n]
  <2>1. n \in 0 .. n
    BY <1>1
  <2>2. QED
    BY <1>3, <1>10, <2>1
<1>13. \A i \in 1 .. n : f[i] = CollectStep(st, sch, wheres, f[i - 1], c[i])
  <2>1. TAKE i \in 1 .. n
  <2>2. i \in 0 .. n /\ i - 1 \in 0 .. n
    BY <1>1
  <2>3. QED
    BY <1>6, <1>10, <2>2
<1> HIDE DEF f
<1>14. Collecting(st, sch, r, wheres, f)
  BY <1>0, <1>1, <1>10, <1>11, <1>12, <1>13 DEF Collecting, c, n, V
<1>15. QED
  BY <1>14

\* What is collected are rows of the tree that pass.
LEMMA CollectedRows ==
  ASSUME NEW sch, NEW wheres, NEW st, NEW r, Stands(st, r), ChainReadable(st, r)
  PROVE  /\ Collect(st, sch, r, wheres) \in Seq(LeafEntry)
         /\ ToSet(Collect(st, sch, r, wheres)) \subseteq {e \in Ent(st, r) : RowPasses(sch, e.v, wheres)}
<1> DEFINE c == Chain(st, r)
           n == Len(c)
           hits == {e \in Ent(st, r) : RowPasses(sch, e.v, wheres)}
<1>1. st \in StoresOf(NodePage) /\ SmallTree(st, r)
  BY DEF Stands, Good, Listed
<1>2. PICK f : Collecting(st, sch, r, wheres, f)
  BY <1>1, CollectSteps
<1>3. /\ n \in Nat /\ c \in Seq(PageNos(st)) /\ f \in [0 .. n -> Seq(LeafEntry)]
      /\ f[0] = <<>> /\ Collect(st, sch, r, wheres) = f[n]
      /\ \A i \in 1 .. n : /\ Ents(st.pages[c[i]]) \in Seq(LeafEntry)
                           /\ f[i] = CollectStep(st, sch, wheres, f[i - 1], c[i])
  BY <1>2, LenProperties DEF Collecting
<1>4. \A i \in 1 .. n : c[i] \in ToSet(c)
  <2> HIDE DEF c
  <2>1. QED
    BY <1>3, LenProperties DEF ToSet
<1>5. ASSUME NEW i \in 1 .. n PROVE ToSet(Ents(st.pages[c[i]])) \subseteq Ent(st, r)
  <2>1. Ents(st.pages[c[i]]) # <<>> => c[i] \in Leaves(st, r)
    BY <1>4 DEF ChainReadable
  <2>2. ToSet(<<>>) = {}
    BY OkEmpty
  <2>3. QED
    BY <2>1, <2>2, EntOnLeaves
<1> HIDE DEF c, n, hits
<1> DEFINE T == {m \in 0 .. n : ToSet(f[m]) \subseteq hits}
<1>6. 0 \in T
  BY <1>3, OkEmpty
<1>7. ASSUME NEW m \in 1 .. n, m - 1 \in T PROVE m \in T
  <2> DEFINE ents == Ents(st.pages[c[m]])
             got == f[m - 1]
             more == Matches(sch, ents, wheres)
  <2>1. m - 1 \in 0 .. n /\ m \in 0 .. n
    BY <1>3
  <2>2. /\ got \in Seq(LeafEntry) /\ ToSet(got) \subseteq hits
        /\ ents \in Seq(LeafEntry) /\ f[m] = CollectStep(st, sch, wheres, got, c[m])
    BY <1>3, <1>7, <2>1
  <2>3. ToSet(ents) \subseteq Ent(st, r)
    BY <1>5
  <2>4. f[m] = IF Len(got) >= MatchMax THEN got ELSE got \o more
    BY <2>2 DEF CollectStep
  <2> HIDE DEF ents, got, T
  <2>5. more \in Seq(LeafEntry) /\ ToSet(more) = Matched(sch, wheres, ents, Len(ents))
    BY <2>2, MatchesFacts DEF MatchedSo
  <2>6. ToSet(more) \subseteq hits
    <3>1. ToSet(ents) = {ents[i] : i \in 1 .. Len(ents)}
      BY <2>2, SortedFacts
    <3>2. QED
      BY <2>3, <2>5, <3>1 DEF Matched, hits
  <2> HIDE DEF more
  <2>7. ToSet(got \o more) \subseteq ToSet(got) \cup ToSet(more)
    <3>1. /\ DOMAIN got = 1 .. Len(got) /\ DOMAIN more = 1 .. Len(more) /\ Len(got) \in Nat /\ Len(more) \in Nat
      BY <2>2, <2>5, LenProperties
    <3>2. /\ DOMAIN (got \o more) = 1 .. Len(got) + Len(more)
          /\ \A i \in 1 .. Len(got) + Len(more) :
                (got \o more)[i] = IF i <= Len(got) THEN got[i] ELSE more[i - Len(got)]
      BY <2>2, <2>5, ConcatProperties, LenProperties
    <3>3. ASSUME NEW i \in 1 .. Len(got) + Len(more)
          PROVE  (got \o more)[i] \in ToSet(got) \cup ToSet(more)
      <4>1. CASE i <= Len(got)
        <5>1. i \in DOMAIN got /\ (got \o more)[i] = got[i]
          BY <3>1, <3>2, <4>1
        <5>2. QED
          BY <5>1 DEF ToSet
      <4>2. CASE ~(i <= Len(got))
        <5>1. i - Len(got) \in DOMAIN more /\ (got \o more)[i] = more[i - Len(got)]
          BY <3>1, <3>2, <4>2
        <5>2. QED
          BY <5>1 DEF ToSet
      <4>3. QED
        BY <4>1, <4>2
    <3>4. ToSet(got \o more) = {(got \o more)[i] : i \in 1 .. Len(got) + Len(more)}
      BY <3>2 DEF ToSet
    <3>5. QED
      BY <3>3, <3>4
  <2>8. ToSet(f[m]) \subseteq hits
    BY <2>2, <2>4, <2>6, <2>7
  <2>9. QED
    BY <2>1, <2>8 DEF T
<1> HIDE DEF T
<1>8. \A m \in 0 .. n : m \in T
  BY <1>3, <1>6, <1>7, Upwards
<1>9. n \in 0 .. n
  BY <1>3
<1>10. QED
  BY <1>3, <1>8, <1>9 DEF T, hits

\* Along linked leaves everything that passes is collected, once.
LEMMA CollectedAll ==
  ASSUME LeafCap < MatchMax, NEW sch, NEW wheres, NEW st, NEW r, Stands(st, r), ChainReadable(st, r),
         ToSet(Chain(st, r)) = Leaves(st, r)
  PROVE  LET got == Collect(st, sch, r, wheres)
         IN  /\ got \in Seq(LeafEntry) /\ SortedByKey(got)
             /\ ToSet(got) = {e \in Ent(st, r) : RowPasses(sch, e.v, wheres)}
<1> DEFINE c == Chain(st, r)
           n == Len(c)
           got == Collect(st, sch, r, wheres)
           hits == {e \in Ent(st, r) : RowPasses(sch, e.v, wheres)}
           some(ents) == Matches(sch, ents, wheres)
           Of(ents) == {e \in ToSet(ents) : RowPasses(sch, e.v, wheres)}
<1>1. st \in StoresOf(NodePage) /\ SmallTree(st, r) /\ LeavesLinked(st, r)
  BY DEF Stands, Good, Listed, LeavesLinked, ChainReadable
<1>2. PICK f : Collecting(st, sch, r, wheres, f)
  BY <1>1, CollectSteps
<1>3. /\ n \in Nat /\ c \in Seq(PageNos(st)) /\ f \in [0 .. n -> Seq(LeafEntry)]
      /\ f[0] = <<>> /\ got = f[n]
      /\ \A i \in 1 .. n : /\ Ents(st.pages[c[i]]) \in Seq(LeafEntry)
                           /\ f[i] = CollectStep(st, sch, wheres, f[i - 1], c[i])
  BY <1>2, LenProperties DEF Collecting
<1>4. ASSUME NEW ents \in Seq(LeafEntry), SortedByKey(ents)
      PROVE  /\ some(ents) \in Seq(LeafEntry) /\ SortedByKey(some(ents)) /\ Len(some(ents)) <= Len(ents)
             /\ ToSet(some(ents)) = Of(ents)
  <2>1. ToSet(ents) = {ents[i] : i \in 1 .. Len(ents)}
    BY SortedFacts
  <2>2. /\ some(ents) \in Seq(LeafEntry) /\ SortedByKey(some(ents)) /\ Len(some(ents)) <= Len(ents)
        /\ ToSet(some(ents)) = Matched(sch, wheres, ents, Len(ents))
    BY <1>4, MatchesFacts DEF MatchedSo
  <2>3. QED
    BY <2>1, <2>2 DEF Matched
<1>5. /\ <<>> \in Seq(LeafEntry) /\ ToSet(<<>>) = {} /\ SortedByKey(<<>>) /\ Len(<<>>) = 0
      /\ \A s \in Seq(LeafEntry) : <<>> \o s = s
  BY OkEmpty DEF LeafOk
<1>6. MatchMax \in Nat /\ LeafCap \in Nat /\ ~(0 >= MatchMax)
  BY BoundAssumption, NodeAssumption
<1>7. CASE r = 0
  <2>1. ToSet(c) = {} /\ TreeEnts(st, r) = <<>>
    BY <1>1, <1>7, LeavesOfTree DEF TreeEnts
  <2>2. n = 0
    <3> HIDE DEF c
    <3>1. \A i \in 1 .. n : c[i] \in ToSet(c)
      BY <1>3, LenProperties DEF ToSet
    <3>2. n # 0 => 1 \in 1 .. n
      BY <1>3
    <3>3. QED
      BY <2>1, <3>1, <3>2
  <2>3. got = <<>> /\ hits = {}
    BY <1>3, <1>5, <2>1, <2>2 DEF Ent
  <2> HIDE DEF got, hits
  <2>4. got \in Seq(LeafEntry) /\ SortedByKey(got) /\ ToSet(got) = hits
    BY <1>5, <2>3
  <2>5. QED
    BY <2>4 DEF got, hits
<1>8. CASE r # 0 /\ LeafAt(st, r)
  <2> DEFINE ents == Ents(st.pages[r])
  <2>1. n = 1 /\ c[1] = r /\ TreeEnts(st, r) = ents
    BY <1>1, <1>8, LinkedChain DEF TreeEnts
  <2>2. ents \in Seq(LeafEntry) /\ SortedByKey(ents)
    BY <1>8 DEF Stands, Ordered, LeafOk
  <2>3. f[1] = some(ents)
    <3>1. 1 \in 1 .. n /\ f[1 - 1] = <<>>
      BY <1>3, <2>1
    <3>2. f[1] = CollectStep(st, sch, wheres, <<>>, r)
      BY <1>3, <2>1, <3>1
    <3>3. some(ents) \in Seq(LeafEntry)
      BY <1>4, <2>2
    <3>4. f[1] = <<>> \o some(ents)
      BY <1>5, <1>6, <3>2 DEF CollectStep
    <3> HIDE DEF some, ents
    <3>5. QED
      BY <1>5, <3>3, <3>4
  <2>4. got = some(ents) /\ hits = Of(ents)
    BY <1>3, <2>1, <2>3 DEF Ent
  <2> HIDE DEF got, hits, some, Of, ents
  <2>5. got \in Seq(LeafEntry) /\ SortedByKey(got) /\ ToSet(got) = hits
    BY <1>4, <2>2, <2>4
  <2>6. QED
    BY <2>5 DEF got, hits
<1>9. CASE r # 0 /\ ~LeafAt(st, r)
  <2> DEFINE low == Low(st, r)
             high == High(st, r)
             sep == Fork(st, r).k
             a == some(low)
             b == some(high)
  <2>1. ForkAt(st, r)
    BY <1>1, <1>9 DEF SmallTree
  <2>2. n = 2 /\ c[1] = Fork(st, r).l /\ c[2] = Fork(st, r).r /\ TreeEnts(st, r) = low \o high
    BY <1>1, <1>9, <2>1, LinkedChain DEF TreeEnts
  <2>3. /\ low \in Seq(LeafEntry) /\ high \in Seq(LeafEntry) /\ SortedByKey(low) /\ SortedByKey(high)
        /\ \A e \in ToSet(low) : e.k < sep
        /\ \A e \in ToSet(high) : e.k >= sep
        /\ Fill(low) <= LeafCap
    BY <2>1 DEF Stands, Ordered, LeafOk
  <2>4. sep \in Nat
    <3>1. 0 \in Nat
      OBVIOUS
    <3>2. Fork(st, r) \in BranchEntry
      BY <1>1, <2>1, <3>1, ForkTypes
    <3>3. QED
      BY <3>2, KeysAssumption DEF BranchEntry
  <2>5. low = Ents(st.pages[c[1]]) /\ high = Ents(st.pages[c[2]])
    BY <2>2 DEF Low, High
  <2>6. /\ a \in Seq(LeafEntry) /\ SortedByKey(a) /\ Len(a) <= Len(low) /\ ToSet(a) = Of(low)
        /\ b \in Seq(LeafEntry) /\ SortedByKey(b) /\ ToSet(b) = Of(high)
    BY <1>4, <2>3
  <2>7. f[1] = a
    <3>1. 1 \in 1 .. n /\ f[1 - 1] = <<>>
      BY <1>3, <2>2
    <3>2. f[1] = CollectStep(st, sch, wheres, <<>>, c[1])
      BY <1>3, <3>1
    <3>3. f[1] = <<>> \o a
      BY <1>5, <1>6, <2>5, <3>2 DEF CollectStep
    <3> HIDE DEF a
    <3>4. QED
      BY <1>5, <2>6, <3>3
  <2>8. ~(Len(a) >= MatchMax)
    <3>1. Len(low) <= Fill(low) /\ Len(low) \in Nat /\ Fill(low) \in Nat /\ Len(a) \in Nat
      BY <2>3, <2>6, LenFill, EntryRoom, FillType
    <3>2. QED
      BY <1>6, <2>3, <2>6, <3>1
  <2>9. f[2] = a \o b
    <3>1. 2 \in 1 .. n /\ f[2 - 1] = a
      BY <2>2, <2>7
    <3>2. f[2] = CollectStep(st, sch, wheres, a, c[2])
      BY <1>3, <3>1
    <3>3. QED
      BY <2>5, <2>8, <3>2 DEF CollectStep
  <2>10. got = a \o b
    BY <1>3, <2>2, <2>9
  <2>11. ToSet(low \o high) = ToSet(low) \cup ToSet(high)
    <3> HIDE DEF low, high, sep
    <3>1. QED
      BY <2>3, <2>4, ListsJoined
  <2>12. hits = Of(low) \cup Of(high)
    BY <2>2, <2>11 DEF Ent
  <2> HIDE DEF got, hits, low, high, sep, a, b, some
  <2>13. (\A e \in ToSet(a) : e.k < sep) /\ (\A e \in ToSet(b) : e.k >= sep)
    BY <2>3, <2>6
  <2> HIDE DEF Of
  <2>14. a \o b \in Seq(LeafEntry) /\ SortedByKey(a \o b) /\ ToSet(a \o b) = ToSet(a) \cup ToSet(b)
    BY <2>4, <2>6, <2>13, ListsJoined
  <2>15. got \in Seq(LeafEntry) /\ SortedByKey(got) /\ ToSet(got) = hits
    BY <2>6, <2>10, <2>12, <2>14
  <2>16. QED
    BY <2>15 DEF got, hits
<1>10. QED
  BY <1>7, <1>8, <1>9

----------------------------------------------------------------------------
(* The rows statements make, and INSERT.                                  *)

\* Rows of the cells that statements make.
RowAt(n, v) == \E cs \in RowsOf(n) : v = EncodeRow(Schemas[n], cs)
Rows(n, seq, E) == \A e \in E : e.k < seq /\ RowAt(n, e.v)

CellFacts(n, c, x) == CellOk(Schemas[n], c, x) /\ (x = Null => Schemas[n].nullmap)
\* A cell that statements make fits its column.
LEMMA CellsMade ==
  ASSUME NEW n \in Names, NEW c \in ColNos(Schemas[n]), NEW x \in CellsOf(n, c)
  PROVE  CellFacts(n, c, x)
<1>1. x # Null => ValueOk(Schemas[n].cols[c], x)
  BY LitAssumption
<1>2. PICK lit : x = StoredAs(n, c, lit)
  BY DEF CellsOf
<1>3. Null # 0
  BY RowAssumption
<1>4. x = Null => Schemas[n].nullmap
  BY <1>2, <1>3 DEF StoredAs
<1>5. QED
  BY <1>1, <1>4 DEF CellFacts, CellOk

\* A row of a table, and what the code reads from it.
RowFacts(n, cs) ==
    LET sch == Schemas[n]
        row == EncodeRow(sch, cs)
    IN  /\ SchemaOk(sch) /\ CellsOk(sch, cs)
        /\ DOMAIN cs = ColNos(sch) /\ cs = [c \in ColNos(sch) |-> cs[c]]
        /\ Cells(sch, row) = cs /\ \A c \in ColNos(sch) : Cell(sch, row, c) = cs[c]
        /\ ~BadSchema(sch) => row \in Values

\* A row that statements make reads as its cells.
LEMMA RowIs ==
  ASSUME NEW n \in Names, NEW cs \in RowsOf(n)
  PROVE  RowFacts(n, cs)
<1> DEFINE sch == Schemas[n]
           any == UNION {CellsOf(n, c) : c \in ColNos(Schemas[n])}
<1>1. SchemaOk(sch)
  BY SchemaAssumption
<1>2. cs \in [ColNos(sch) -> any] /\ \A c \in ColNos(sch) : cs[c] \in CellsOf(n, c)
  BY DEF RowsOf
<1>3. DOMAIN cs = ColNos(sch) /\ cs = [c \in ColNos(sch) |-> cs[c]]
  <2> HIDE DEF any
  <2>1. QED
    BY <1>2
<1>4. CellsOk(sch, cs)
  BY <1>2, <1>3, CellsMade DEF CellsOk, CellFacts
<1>5. Cells(sch, EncodeRow(sch, cs)) = cs
  BY <1>1, <1>3, <1>4, CellsRead
<1>6. \A c \in ColNos(sch) : Cell(sch, EncodeRow(sch, cs), c) = cs[c]
  <2>1. TAKE c \in ColNos(sch)
  <2>2. Cells(sch, EncodeRow(sch, cs))[c] = Cell(sch, EncodeRow(sch, cs), c)
    BY DEF Cells
  <2>3. QED
    BY <1>5, <2>2
<1>7. ~BadSchema(sch) => EncodeRow(sch, cs) \in Values
  BY LitAssumption
<1>8. QED
  BY <1>1, <1>3, <1>4, <1>5, <1>6, <1>7 DEF RowFacts

\* A cell of it is changed.
LEMMA RowWith ==
  ASSUME NEW n \in Names, NEW cs \in RowsOf(n), NEW c \in ColNos(Schemas[n]), NEW x \in CellsOf(n, c)
  PROVE  /\ Changed(cs, c, x) \in RowsOf(n)
         /\ ReplaceCol(Schemas[n], EncodeRow(Schemas[n], cs), c, x) = EncodeRow(Schemas[n], Changed(cs, c, x))
<1> DEFINE sch == Schemas[n]
           any == UNION {CellsOf(n, d) : d \in ColNos(Schemas[n])}
           new == Changed(cs, c, x)
<1>1. RowFacts(n, cs) /\ CellFacts(n, c, x)
  BY RowIs, CellsMade
<1>2. SchemaOk(sch) /\ CellsOk(sch, cs) /\ CellOk(sch, c, x) /\ (x = Null => sch.nullmap)
      /\ DOMAIN cs = ColNos(sch)
  BY <1>1 DEF RowFacts, CellFacts
<1>3. ReplaceCol(sch, EncodeRow(sch, cs), c, x) = EncodeRow(sch, new)
  <2> HIDE DEF sch
  <2>1. QED
    BY <1>2, ReplacedRow DEF sch
<1>4. cs \in [ColNos(sch) -> any] /\ \A d \in ColNos(sch) : cs[d] \in CellsOf(n, d)
  BY DEF RowsOf
<1>5. x \in any
  OBVIOUS
<1>6. \A d \in ColNos(sch) : new[d] = IF d = c THEN x ELSE cs[d]
  BY <1>2 DEF Changed
<1>7. new \in [ColNos(sch) -> any]
  <2> HIDE DEF any
  <2>1. QED
    BY <1>4, <1>5 DEF Changed
<1>8. \A d \in ColNos(sch) : new[d] \in CellsOf(n, d)
  BY <1>4, <1>6
<1>9. new \in RowsOf(n)
  BY <1>7, <1>8 DEF RowsOf
<1>10. QED
  BY <1>3, <1>9

\* INSERT's literals make a row.
Accepted(n, lits) ==
    /\ Len(lits) = Len(Schemas[n].cols)
    /\ \A c \in ColNos(Schemas[n]) : ~LitRefused(Schemas[n].cols[c], lits[c])
    /\ Schemas[n].nullmap => \A c \in ColNos(Schemas[n]) : Encodable(Value(Schemas[n].cols[c], lits[c]))
Vals(n, lits) == [c \in DOMAIN lits |-> Value(Schemas[n].cols[c], lits[c])]
Stored(n, lits) == [c \in DOMAIN lits |-> StoredAs(n, c, lits[c])]

\* An accepted tuple of literals makes a row of the table.
LEMMA LitsMake ==
  ASSUME NEW n \in Names, NEW lits \in InsertLits[n], Accepted(n, lits)
  PROVE  /\ DOMAIN lits = ColNos(Schemas[n])
         /\ Stored(n, lits) \in RowsOf(n)
         /\ EncodeRow(Schemas[n], Vals(n, lits)) = EncodeRow(Schemas[n], Stored(n, lits))
         /\ \A c \in ColNos(Schemas[n]) : Encodable(Value(Schemas[n].cols[c], lits[c]))
<1> DEFINE sch == Schemas[n]
           any == UNION {CellsOf(n, c) : c \in ColNos(Schemas[n])}
<1>1. DOMAIN lits = ColNos(sch)
  BY LitAssumption DEF Accepted, ColNos
<1>2. \A c \in ColNos(sch) : lits[c] \in Lits(n, c)
  <2>1. lits \in {l \in InsertLits[n] : Len(l) = Len(Schemas[n].cols)}
    BY DEF Accepted
  <2>2. QED
    BY <2>1 DEF Lits
<1>3. \A c \in ColNos(sch) : Encodable(Value(sch.cols[c], lits[c]))
  <2>1. TAKE c \in ColNos(sch)
  <2>2. CASE sch.nullmap
    BY <2>2 DEF Accepted
  <2>3. CASE ~sch.nullmap
    <3>1. sch.cols[c].type # "vector"
      BY <2>3, SchemaAssumption
    <3>2. QED
      BY <1>2, <3>1, LitAssumption
  <2>4. QED
    BY <2>2, <2>3
<1>4. \A c \in ColNos(sch) : StoredAs(n, c, lits[c]) \in CellsOf(n, c)
  <2>1. TAKE c \in ColNos(sch)
  <2>2. ~LitRefused(sch.cols[c], lits[c])
    BY DEF Accepted
  <2>3. lits[c] \in {l \in Lits(n, c) : /\ ~LitRefused(Schemas[n].cols[c], l)
                                        /\ Encodable(Value(Schemas[n].cols[c], l))}
    BY <1>2, <1>3, <2>2
  <2>4. QED
    BY <2>3 DEF CellsOf
<1>5. Stored(n, lits) \in RowsOf(n)
  <2>1. \A c \in ColNos(sch) : StoredAs(n, c, lits[c]) \in any
    BY <1>4
  <2> HIDE DEF any
  <2>2. Stored(n, lits) \in [ColNos(sch) -> any] /\ \A c \in ColNos(sch) : Stored(n, lits)[c] \in CellsOf(n, c)
    BY <1>1, <1>4, <2>1 DEF Stored
  <2>3. QED
    BY <2>2 DEF RowsOf, any
<1>6. Kept0(sch, Vals(n, lits)) = Stored(n, lits)
  BY <1>1 DEF Kept0, Vals, Stored, StoredAs
<1>7. NullNoUnit
  BY RowAssumption DEF NullNoUnit, Units
<1>8. EncodeRow(sch, Vals(n, lits)) = EncodeRow(sch, Kept0(sch, Vals(n, lits)))
  BY <1>7, StoredRow
<1>9. QED
  BY <1>1, <1>3, <1>5, <1>6, <1>8

\* What INSERT makes of the tree.
InsertDone(n, lits, st, tab, a) ==
    LET e == [k |-> tab.seq, v |-> EncodeRow(Schemas[n], Stored(n, lits))]
        split == MustSplit(st, tab.root, tab.seq, EncodeRow(Schemas[n], Vals(n, lits)))
    IN  /\ a.rc = 0 /\ a.tab = [root |-> a.tab.root, seq |-> tab.seq + 1]
        /\ Stands(a.st, a.tab.root) /\ Sound(st, tab.root, a.st, a.tab.root)
        /\ TreeCount(st, tab.root) <= TreeCount(a.st, a.tab.root)
        /\ ~split => (Whole(st, tab.root) => Whole(a.st, a.tab.root))
        /\ \/ Ent(a.st, a.tab.root) = Ent(st, tab.root) \cup {e} /\ Out(a.st, a.tab.root) \subseteq Out(st, tab.root)
           \/ Ent(a.st, a.tab.root) = Ent(st, tab.root) /\ Left(st) < 2
        /\ Rows(n, tab.seq + 1, Ent(a.st, a.tab.root))

\* exec_insert's end stores the row, or loses it for want of pages.
LEMMA Inserting ==
  ASSUME HalvesFit, NEW n \in Names, ~BadSchema(Schemas[n]), NEW lits \in InsertLits[n], Accepted(n, lits),
         NEW st, NEW tab, Stands(st, tab.root), tab.seq \in Keys, Rows(n, tab.seq, Ent(st, tab.root)),
         MustSplit(st, tab.root, tab.seq, EncodeRow(Schemas[n], Vals(n, lits))) => Whole(st, tab.root),
         InsertRow(st, Schemas[n], tab, Vals(n, lits)).rc # Fault
  PROVE  InsertDone(n, lits, st, tab, InsertRow(st, Schemas[n], tab, Vals(n, lits)))
<1> DEFINE r == tab.root
           k == tab.seq
           v == EncodeRow(Schemas[n], Stored(n, lits))
           i == Insert(st, r, k, v)
           e == [k |-> k, v |-> v]
           a == InsertRow(st, Schemas[n], tab, Vals(n, lits))
<1>1. EncodeRow(Schemas[n], Vals(n, lits)) = v /\ Stored(n, lits) \in RowsOf(n)
  BY LitsMake
<1>2. v \in Values /\ RowAt(n, v)
  BY <1>1, RowIs DEF RowFacts, RowAt
<1>3. /\ a = Answer(i.st, [root |-> i.root, seq |-> k + 1], IF i.rc = Fault THEN Fault ELSE 0)
  BY <1>1 DEF InsertRow
<1>4. Good(st) /\ SmallTree(st, r) /\ k \in Nat /\ k \in Keys
  BY KeysAssumption DEF Stands
<1>5. e.k = k /\ e.v = v
  OBVIOUS
<1> HIDE DEF v, k, r, i, e, a
<1>6. i.rc # Fault
  BY <1>3 DEF Answer, a, i
<1>7. ~HasKey(Ent(st, r), k)
  <2>1. \A f \in Ent(st, r) : f.k < k
    BY DEF Rows, r, k
  <2>2. QED
    BY <1>4, <2>1 DEF HasKey
<1>8. ~Holds(LeafEnts(st, r, k), k)
  BY <1>4, <1>7, EntFacts DEF r
<1>9. ~Overfills(st, r, k, v)
  <2>1. r # 0 => LeafEnts(st, r, k) = Ents(LeafFor(st, r, k))
    BY <1>4, LeafEntsFacts DEF LeafFor
  <2>2. QED
    BY <1>8, <2>1 DEF Overfills, OnLeaf
<1>10. MustSplit(st, r, k, v) => LeafAt(st, r)
  BY <1>1 DEF Whole, MustSplit, OnLeaf, r, k
<1>11. PutDone(st, r, e, i)
  BY <1>2, <1>4, <1>6, <1>9, <1>10, Putting DEF r, i, e
<1>12. a.st = i.st /\ a.tab = [root |-> i.root, seq |-> k + 1] /\ a.rc = 0
  BY <1>3, <1>6 DEF Answer
<1>13. a.tab.root = i.root
  BY <1>12
<1>14. But(Ent(st, r), k) = Ent(st, r)
  BY <1>7 DEF But, HasKey
<1>15. \/ Ent(i.st, i.root) = Ent(st, r) \cup {e} /\ Out(i.st, i.root) \subseteq Out(st, r)
       \/ Ent(i.st, i.root) = Ent(st, r) /\ Left(st) < 2
  BY <1>5, <1>11, <1>14 DEF PutDone
<1>16. Rows(n, k + 1, Ent(i.st, i.root))
  <2>1. \A f \in Ent(st, r) : f.k < k + 1 /\ RowAt(n, f.v)
    <3>1. TAKE f \in Ent(st, r)
    <3>2. f.k < k /\ RowAt(n, f.v)
      BY DEF Rows, r, k
    <3>3. f.k \in Nat
      BY EntFacts, KeysAssumption DEF LeafEntry, r
    <3>4. QED
      BY <1>4, <3>2, <3>3
  <2>2. e.k < k + 1 /\ RowAt(n, e.v)
    BY <1>2, <1>4, <1>5
  <2>3. QED
    BY <1>15, <2>1, <2>2 DEF Rows
<1>17. /\ Stands(i.st, i.root) /\ Sound(st, r, i.st, i.root) /\ TreeCount(st, r) <= TreeCount(i.st, i.root)
       /\ ~MustSplit(st, r, k, v) => (Whole(st, r) => Whole(i.st, i.root))
  BY <1>5, <1>11 DEF PutDone
<1>18. InsertDone(n, lits, st, tab, a)
  BY <1>1, <1>12, <1>13, <1>15, <1>16, <1>17 DEF InsertDone, r, k, v, e
<1>19. QED
  BY <1>18 DEF a

----------------------------------------------------------------------------
(* UPDATE's loop.                                                         *)

\* The rows of a table with those under some keys changed.
With(sch, e, c, x) == [k |-> e.k, v |-> ReplaceCol(sch, e.v, c, x)]
SetOn(sch, E, done, c, x) == {IF e.k \in done THEN With(sch, e, c, x) ELSE e : e \in E}

\* One more row is changed.
LEMMA SetMore ==
  ASSUME NEW sch, NEW c, NEW x, NEW E, \A e, f \in E : e.k = f.k => e = f, NEW done, NEW e \in E
  PROVE  But(SetOn(sch, E, done, c, x), e.k) \cup {With(sch, e, c, x)} = SetOn(sch, E, done \cup {e.k}, c, x)
<1> DEFINE A == SetOn(sch, E, done, c, x)
           B == SetOn(sch, E, done \cup {e.k}, c, x)
           to(f) == IF f.k \in done THEN With(sch, f, c, x) ELSE f
           new(f) == IF f.k \in done \cup {e.k} THEN With(sch, f, c, x) ELSE f
<1>1. A = {to(f) : f \in E} /\ B = {new(f) : f \in E}
  BY DEF SetOn
<1>2. \A f : to(f).k = f.k
  BY DEF With
<1>3. new(e) = With(sch, e, c, x) /\ \A f \in E : f # e => new(f) = to(f) /\ f.k # e.k
  OBVIOUS
<1> HIDE DEF A, B, to, new
<1>4. But(A, e.k) = {to(f) : f \in {g \in E : g # e}}
  <2>1. ASSUME NEW y \in But(A, e.k) PROVE y \in {to(f) : f \in {g \in E : g # e}}
    <3>1. y \in A /\ y.k # e.k
      BY <2>1 DEF But
    <3>2. PICK f \in E : y = to(f)
      BY <1>1, <3>1
    <3>3. f # e
      BY <1>2, <3>1, <3>2
    <3>4. QED
      BY <3>2, <3>3
  <2>2. ASSUME NEW f \in E, f # e PROVE to(f) \in But(A, e.k)
    <3>1. to(f) \in A /\ to(f).k # e.k
      BY <1>1, <1>2, <1>3, <2>2
    <3>2. QED
      BY <3>1 DEF But
  <2>3. QED
    BY <2>1, <2>2
<1>5. B = {new(f) : f \in {g \in E : g # e}} \cup {new(e)}
  BY <1>1
<1>6. QED
  BY <1>3, <1>4, <1>5 DEF A, B

\* Changed rows keep their keys.
LEMMA SetKeys ==
  ASSUME NEW sch, NEW c, NEW x, NEW E, NEW done
  PROVE  /\ \A k : HasKey(SetOn(sch, E, done, c, x), k) <=> HasKey(E, k)
         /\ SetOn(sch, E, {}, c, x) = E
<1> DEFINE A == SetOn(sch, E, done, c, x)
           to(f) == IF f.k \in done THEN With(sch, f, c, x) ELSE f
<1>1. A = {to(f) : f \in E}
  BY DEF SetOn
<1>2. \A f : to(f).k = f.k
  BY DEF With
<1> HIDE DEF A, to
<1>3. \A k : HasKey(A, k) <=> HasKey(E, k)
  <2>1. ASSUME NEW k, HasKey(A, k) PROVE HasKey(E, k)
    <3>1. PICK y \in A : y.k = k
      BY <2>1 DEF HasKey
    <3>2. PICK f \in E : y = to(f)
      BY <1>1
    <3>3. QED
      BY <1>2, <3>1, <3>2 DEF HasKey
  <2>2. ASSUME NEW k, HasKey(E, k) PROVE HasKey(A, k)
    <3>1. PICK f \in E : f.k = k
      BY <2>2 DEF HasKey
    <3>2. to(f) \in A /\ to(f).k = k
      BY <1>1, <1>2, <3>1
    <3>3. QED
      BY <3>2 DEF HasKey
  <2>3. QED
    BY <2>1, <2>2
<1>4. SetOn(sch, E, {}, c, x) = E
  BY DEF SetOn
<1>5. QED
  BY <1>3, <1>4 DEF A

\* Answers, as a set.
Answers(seq) ==
    {Answer(s, [root |-> r, seq |-> seq], rc) : s \in StoresOf(NodePage), r \in Nat, rc \in {0, -1, Fault}}

\* An answer about a tree that stands is in the set.
LEMMA AnswerIn ==
  ASSUME NEW st, NEW r, Stands(st, r), NEW seq, NEW rc \in {0, -1, Fault}
  PROVE  Answer(st, [root |-> r, seq |-> seq], rc) \in Answers(seq)
<1>1. st \in StoresOf(NodePage) /\ SmallTree(st, r)
  BY DEF Stands, Good, Listed
<1>2. r \in Nat
  <2>1. r \in PageNos(st) => r \in Nat
    BY <1>1, NodeTypes
  <2>2. 0 \in Nat
    OBVIOUS
  <2>3. QED
    BY <1>1, <2>1, <2>2 DEF SmallTree, LeafAt, ForkAt
<1>3. QED
  BY <1>1, <1>2 DEF Answers

\* The parts of an answer.
LEMMA AnswerOf ==
  ASSUME NEW seq, NEW a \in Answers(seq)
  PROVE  /\ a = Answer(a.st, a.tab, a.rc) /\ a.tab = [root |-> a.tab.root, seq |-> seq]
         /\ a.rc \in {0, -1, Fault} /\ \A r : [a.tab EXCEPT !.root = r] = [root |-> r, seq |-> seq]
<1>1. PICK s \in StoresOf(NodePage), r \in Nat, rc \in {0, -1, Fault} :
         a = Answer(s, [root |-> r, seq |-> seq], rc)
  BY DEF Answers
<1>2. a.st = s /\ a.tab = [root |-> r, seq |-> seq] /\ a.rc = rc
  BY <1>1 DEF Answer
<1>3. QED
  BY <1>1, <1>2

\* One turn of UPDATE's loop.
UpdateStep(sch, c, v, a, e) ==
    IF a.rc # 0 THEN a
    ELSE IF CannotReplace(sch, e.v, c, v) THEN Answer(a.st, a.tab, -1)
    ELSE LET row == ReplaceCol(sch, e.v, c, v)
             i   == Insert(a.st, a.tab.root, e.k, row)
         IN  IF i.rc = Fault \/ Overfills(a.st, a.tab.root, e.k, row)
             THEN Answer(a.st, a.tab, Fault)
             ELSE Answer(i.st, [a.tab EXCEPT !.root = i.root], 0)

\* A table with its rows in a tree that stands.
Holding(n, st, tab) ==
    /\ n \in Names /\ ~BadSchema(Schemas[n])
    /\ Stands(st, tab.root) /\ tab = [root |-> tab.root, seq |-> tab.seq]
    /\ Rows(n, tab.seq, Ent(st, tab.root))

\* The value UPDATE sets is one of the column's cells, or none that is accepted.
Settable(n, c, v) ==
    /\ c \in ColNos(Schemas[n])
    /\ Encodable(v) /\ (v = Null => Schemas[n].nullmap) => v \in CellsOf(n, c)

\* The rows whose keys are in `done' have been changed.
SetUpto(n, c, v, st, tab, done, a) ==
    /\ Edits(st, tab.root, a.st, a.tab.root) /\ Rows(n, tab.seq, Ent(a.st, a.tab.root))
    /\ Ent(a.st, a.tab.root) = SetOn(Schemas[n], Ent(st, tab.root), done, c, v)

SetTurn(n, c, v, st, tab, done, a, e, b) ==
    \/ a.rc # 0 /\ b = a
    \/ a.rc = 0 /\ CannotReplace(Schemas[n], e.v, c, v) /\ b = Answer(a.st, a.tab, -1)
    \/ a.rc = 0 /\ ~CannotReplace(Schemas[n], e.v, c, v) /\ b = Answer(a.st, a.tab, Fault)
    \/ /\ a.rc = 0 /\ ~CannotReplace(Schemas[n], e.v, c, v) /\ b.rc = 0
       /\ \/ SetUpto(n, c, v, st, tab, done \cup {e.k}, b)
          \/ SetUpto(n, c, v, st, tab, done, b) /\ Left(st) < 2

\* A turn changes one row more, or none, or ends the loop.
LEMMA SetTurns ==
  ASSUME HalvesFit, NEW n, NEW st, NEW tab, Holding(n, st, tab), NEW c, NEW v, Settable(n, c, v),
         NEW done, NEW a \in Answers(tab.seq), SetUpto(n, c, v, st, tab, done, a),
         NEW e \in Ent(st, tab.root)
  PROVE  LET b == UpdateStep(Schemas[n], c, v, a, e)
         IN  b \in Answers(tab.seq) /\ SetTurn(n, c, v, st, tab, done, a, e, b)
<1> DEFINE sch == Schemas[n]
           b == UpdateStep(sch, c, v, a, e)
           r == tab.root
           E == Ent(st, r)
           ra == a.tab.root
<1>1. /\ Stands(st, r) /\ n \in Names /\ ~BadSchema(sch) /\ Rows(n, tab.seq, E)
      /\ Edits(st, r, a.st, ra) /\ Stands(a.st, ra) /\ Ent(a.st, ra) = SetOn(sch, E, done, c, v)
      /\ Rows(n, tab.seq, Ent(a.st, ra))
  BY DEF Holding, SetUpto, Edits
<1>2. /\ a = Answer(a.st, a.tab, a.rc) /\ a.tab = [root |-> ra, seq |-> tab.seq]
      /\ a.rc \in {0, -1, Fault} /\ \A q : [a.tab EXCEPT !.root = q] = [root |-> q, seq |-> tab.seq]
  BY AnswerOf
<1>3. \A rc \in {0, -1, Fault} : Answer(a.st, a.tab, rc) \in Answers(tab.seq)
  BY <1>1, <1>2, AnswerIn
<1>4. CASE a.rc # 0
  <2>1. b = a
    BY <1>4 DEF UpdateStep
  <2>2. QED
    BY <1>4, <2>1 DEF SetTurn
<1>5. CASE a.rc = 0 /\ CannotReplace(sch, e.v, c, v)
  <2>1. b = Answer(a.st, a.tab, -1)
    BY <1>5 DEF UpdateStep
  <2>2. QED
    BY <1>3, <1>5, <2>1 DEF SetTurn
<1>6. CASE a.rc = 0 /\ ~CannotReplace(sch, e.v, c, v)
  <2> DEFINE row == ReplaceCol(sch, e.v, c, v)
             i == Insert(a.st, ra, e.k, row)
             bad == i.rc = Fault \/ Overfills(a.st, ra, e.k, row)
  <2>1. b = IF bad THEN Answer(a.st, a.tab, Fault) ELSE Answer(i.st, [root |-> i.root, seq |-> tab.seq], 0)
    BY <1>2, <1>6 DEF UpdateStep
  <2>2. v \in CellsOf(n, c) /\ c \in ColNos(sch)
    BY <1>6 DEF CannotReplace, Settable
  <2>3. PICK cs \in RowsOf(n) : e.v = EncodeRow(sch, cs)
    BY <1>1 DEF Rows, RowAt
  <2>4. Changed(cs, c, v) \in RowsOf(n) /\ row = EncodeRow(sch, Changed(cs, c, v))
    BY <1>1, <2>2, <2>3, RowWith
  <2>5. row \in Values /\ RowAt(n, row)
    BY <1>1, <2>4, RowIs DEF RowFacts, RowAt
  <2>6. e \in LeafEntry /\ e.k \in Keys /\ \A f, g \in E : f.k = g.k => f = g
    BY <1>1, EntFacts DEF LeafEntry
  <2>7. HasKey(Ent(a.st, ra), e.k)
    <3>1. HasKey(E, e.k)
      BY DEF HasKey
    <3>2. QED
      BY <1>1, <3>1, SetKeys
  <2>8. With(sch, e, c, v) = [k |-> e.k, v |-> row]
    BY DEF With
  <2> DEFINE new == With(sch, e, c, v)
  <2>9. But(SetOn(sch, E, done, c, v), e.k) \cup {new} = SetOn(sch, E, done \cup {e.k}, c, v)
    BY <2>6, SetMore
  <2>10. new.k = e.k /\ new.v = row
    BY <2>8
  <2> HIDE DEF row, i, b, sch, E, ra, r, bad, new
  <2>11. CASE bad
    <3>1. b = Answer(a.st, a.tab, Fault)
      BY <2>1, <2>11
    <3>2. QED
      BY <1>3, <1>6, <3>1 DEF SetTurn, b, sch
  <2>12. CASE ~bad
    <3>1. i.rc # Fault /\ ~Overfills(a.st, ra, e.k, row)
      BY <2>12 DEF bad
    <3>2. /\ i.rc \in {0, -1} /\ Edits(a.st, ra, i.st, i.root)
          /\ i.rc = 0 => Ent(i.st, i.root) = But(Ent(a.st, ra), e.k) \cup {[k |-> e.k, v |-> row]}
          /\ i.rc = -1 => Ent(i.st, i.root) = Ent(a.st, ra) /\ Left(a.st) < 2
      BY <1>1, <2>5, <2>6, <2>7, <3>1, SetOne DEF i
    <3>3. b = Answer(i.st, [root |-> i.root, seq |-> tab.seq], 0) /\ b.st = i.st /\ b.tab.root = i.root /\ b.rc = 0
      BY <2>1, <2>12 DEF Answer
    <3>4. Stands(i.st, i.root)
      BY <3>2 DEF Edits
    <3>5. b \in Answers(tab.seq)
      BY <3>3, <3>4, AnswerIn
    <3>6. Edits(st, r, i.st, i.root)
      BY <1>1, <3>2, EditsTwice
    <3>7. CASE i.rc = 0
      <4>1. Ent(i.st, i.root) = SetOn(sch, E, done \cup {e.k}, c, v)
        BY <1>1, <2>8, <2>9, <3>2, <3>7 DEF new
      <4>2. Ent(i.st, i.root) = But(Ent(a.st, ra), e.k) \cup {new}
        BY <2>8, <3>2, <3>7 DEF new
      <4>3. Rows(n, tab.seq, Ent(i.st, i.root))
        <5>1. \A f \in But(Ent(a.st, ra), e.k) : f.k < tab.seq /\ RowAt(n, f.v)
          BY <1>1 DEF But, Rows
        <5>2. new.k < tab.seq /\ RowAt(n, new.v)
          BY <1>1, <2>5, <2>10 DEF Rows, E, r
        <5>3. QED
          BY <4>2, <5>1, <5>2 DEF Rows
      <4>4. SetUpto(n, c, v, st, tab, done \cup {e.k}, b)
        BY <3>3, <3>6, <4>1, <4>3 DEF SetUpto, sch, E, r
      <4>5. SetTurn(n, c, v, st, tab, done, a, e, b)
        BY <1>6, <3>3, <4>4 DEF SetTurn, sch
      <4>6. QED
        BY <3>5, <4>5 DEF b, sch
    <3>8. CASE i.rc # 0
      <4>1. Ent(i.st, i.root) = Ent(a.st, ra) /\ Left(a.st) < 2
        BY <3>2, <3>8
      <4>2. Left(st) < 2
        <5>1. Left(st) \in Nat /\ Left(a.st) \in Nat
          BY <1>1, UsedSplit DEF Stands
        <5>2. Left(st) >= 2 => Left(a.st) = Left(st)
          BY <1>1, EditsLeft
        <5>3. QED
          BY <4>1, <5>1, <5>2
      <4>3. SetUpto(n, c, v, st, tab, done, b)
        BY <1>1, <3>3, <3>6, <4>1 DEF SetUpto, sch, E, r
      <4>4. SetTurn(n, c, v, st, tab, done, a, e, b)
        BY <1>6, <3>3, <4>2, <4>3 DEF SetTurn, sch
      <4>5. QED
        BY <3>5, <4>4 DEF b, sch
    <3>9. QED
      BY <3>7, <3>8
  <2>13. QED
    BY <2>11, <2>12
<1>7. QED
  BY <1>4, <1>5, <1>6

\* After m turns of UPDATE's loop.
KeysTo(got, m) == {got[i].k : i \in 1 .. m}
SetSo(n, c, v, st, tab, got, m, a) ==
    LET no(i) == CannotReplace(Schemas[n], got[i].v, c, v)
    IN  /\ a \in Answers(tab.seq)
        /\ \E done \in SUBSET KeysTo(got, m) : /\ SetUpto(n, c, v, st, tab, done, a)
                                               /\ a.rc = 0 => done = KeysTo(got, m) \/ Left(st) < 2
        /\ a.rc = 0 => \A i \in 1 .. m : ~no(i)
        /\ a.rc = -1 => \E i \in 1 .. m : no(i)
        /\ m = 0 \/ (a.rc = -1 /\ no(1)) => a.st = st /\ a.tab = tab

\* The whole loop of UPDATE.
LEMMA Setting ==
  ASSUME HalvesFit, NEW n, NEW st, NEW tab, Holding(n, st, tab), NEW c, NEW v, Settable(n, c, v),
         NEW got \in Seq(LeafEntry), ToSet(got) \subseteq Ent(st, tab.root)
  PROVE  SetSo(n, c, v, st, tab, got, Len(got), SetRows(st, Schemas[n], tab, got, c, v))
<1> DEFINE sch == Schemas[n]
           N == Len(got)
           E == Ent(st, tab.root)
           first == Answer(st, tab, 0)
           So(m, a) == SetSo(n, c, v, st, tab, got, m, a)
           V == {a \in Answers(tab.seq) : \E done : SetUpto(n, c, v, st, tab, done, a)}
           F(f) == f = [u \in SUBSET (1 .. N) |-> IF u = {} THEN first
                                                  ELSE UpdateStep(sch, c, v, f[u \ {Max(u)}], got[Max(u)])]
           it == CHOOSE f : F(f)
<1>1. N \in Nat /\ DOMAIN got = 1 .. N /\ \A i \in 1 .. N : got[i] \in E
  <2>1. N \in Nat /\ DOMAIN got = 1 .. N /\ ToSet(got) = {got[i] : i \in 1 .. N}
    BY EntryRoom, SortedFacts
  <2>2. QED
    BY <2>1
<1>2. /\ Stands(st, tab.root) /\ tab = [root |-> tab.root, seq |-> tab.seq]
      /\ Rows(n, tab.seq, E)
  BY DEF Holding
<1>3. /\ first \in Answers(tab.seq) /\ SetUpto(n, c, v, st, tab, {}, first)
      /\ first.st = st /\ first.tab = tab /\ first.rc = 0
  <2>1. first \in Answers(tab.seq)
    <3> DEFINE seq == tab.seq
               root == tab.root
               t == [root |-> root, seq |-> seq]
    <3>1. tab = t /\ Stands(st, root) /\ 0 \in {0, -1, Fault}
      BY <1>2
    <3> HIDE DEF seq, root
    <3>2. Answer(st, t, 0) \in Answers(seq)
      BY <3>1, AnswerIn
    <3>3. QED
      BY <3>1, <3>2 DEF seq
  <2>2. first.st = st /\ first.tab = tab /\ first.rc = 0
    BY DEF Answer
  <2> HIDE DEF first
  <2>3. Edits(st, tab.root, st, tab.root)
    BY <1>2, EditsNone
  <2>4. SetUpto(n, c, v, st, tab, {}, first)
    BY <1>2, <2>2, <2>3, SetKeys DEF SetUpto
  <2>5. QED
    BY <2>1, <2>2, <2>4
<1>4. SetRows(st, sch, tab, got, c, v) = it[1 .. N]
  BY <1>1 DEF SetRows, FoldLeft, MapThenFoldSet, UpdateStep
<1> HIDE DEF first, V, sch, E
<1>5. first \in V
  BY <1>3 DEF V
<1>6. ASSUME NEW a \in V, NEW e \in E
      PROVE  UpdateStep(sch, c, v, a, e) \in V
  <2>1. PICK done : SetUpto(n, c, v, st, tab, done, a)
    BY DEF V
  <2>2. a \in Answers(tab.seq) /\ e \in Ent(st, tab.root)
    BY DEF V, E
  <2> DEFINE b == UpdateStep(sch, c, v, a, e)
  <2>3. b \in Answers(tab.seq) /\ SetTurn(n, c, v, st, tab, done, a, e, b)
    BY <2>1, <2>2, SetTurns DEF sch
  <2> HIDE DEF b
  <2>4. \E d : SetUpto(n, c, v, st, tab, d, b)
    <3>1. \A rc : Answer(a.st, a.tab, rc).st = a.st /\ Answer(a.st, a.tab, rc).tab = a.tab
      BY DEF Answer
    <3>2. \A rc : SetUpto(n, c, v, st, tab, done, Answer(a.st, a.tab, rc))
      BY <2>1, <3>1 DEF SetUpto
    <3>3. QED
      BY <2>1, <2>3, <3>2 DEF SetTurn
  <2>5. QED
    BY <2>3, <2>4 DEF V, b
<1>7. F(it)
  <2> DEFINE step == [p \in 1 .. N |-> [a \in V |-> UpdateStep(sch, c, v, a, got[p])]]
  <2>1. \A p \in 1 .. N : \A a \in V :
           step[p][a] = UpdateStep(sch, c, v, a, got[p]) /\ step[p][a] \in V
    BY <1>1, <1>6
  <2> HIDE DEF step, N
  <2>3. SeqRecursive(N, V, first, step)
    BY <1>1, <1>5, <2>1, OverSequence
  <2>4. PICK f : /\ f \in [SUBSET (1 .. N) -> V]
                 /\ f = [u \in SUBSET (1 .. N) |-> IF u = {} THEN first ELSE step[Max(u)][f[u \ {Max(u)}]]]
    BY <2>3 DEF SeqRecursive
  <2>5. \A u \in SUBSET (1 .. N) :
           u # {} => step[Max(u)][f[u \ {Max(u)}]] = UpdateStep(sch, c, v, f[u \ {Max(u)}], got[Max(u)])
    BY <1>1, <2>1, <2>4, MaxIn
  <2>6. F(f)
    BY <2>4, <2>5
  <2>7. QED
    BY <2>6
<1>8. it[{}] = first
  BY <1>7
<1>9. ASSUME NEW m \in 1 .. N PROVE it[1 .. m] = UpdateStep(sch, c, v, it[1 .. m - 1], got[m])
  <2>1. m \in Nat \ {0} /\ m \in 1 .. m /\ \A u \in 1 .. m : u \in 1 .. N
    BY <1>1
  <2>2. 1 .. m \in SUBSET (1 .. N) /\ 1 .. m # {}
    BY <2>1
  <2>3. QED
    BY <1>7, <2>1, <2>2, MaxUpto
<1> HIDE DEF it, So, N
<1> DEFINE T == {m \in 0 .. N : So(m, it[1 .. m])}
<1>10. 0 \in T
  <2>1. 1 .. 0 = {} /\ 0 \in 0 .. N
    BY <1>1
  <2>2. it[1 .. 0] = first
    BY <1>8, <2>1
  <2>3. KeysTo(got, 0) = {} /\ {} \in SUBSET KeysTo(got, 0)
    BY <2>1 DEF KeysTo
  <2> DEFINE zero == 0
  <2>4. zero = 0 /\ first.rc # -1 /\ (\A i \in 1 .. zero : FALSE) /\ KeysTo(got, zero) = {}
    BY <1>3, <2>1, <2>3
  <2> HIDE DEF zero
  <2>5. So(zero, first)
    BY <1>3, <2>4 DEF So, SetSo
  <2>6. QED
    BY <2>1, <2>2, <2>4, <2>5
<1>11. ASSUME NEW m \in 1 .. N, m - 1 \in T PROVE m \in T
  <2> DEFINE p == m - 1
             a == it[1 .. p]
             b == it[1 .. m]
             e == got[m]
             no(i) == CannotReplace(sch, got[i].v, c, v)
  <2>1. So(p, a) /\ p \in Nat /\ p # m /\ m # 0 /\ m \in 0 .. N
    BY <1>1, <1>11
  <2>2. b = UpdateStep(sch, c, v, a, e) /\ e \in E
    BY <1>1, <1>9
  <2>3. /\ \A i \in 1 .. m : i \in 1 .. p \/ i = m
        /\ m \notin 1 .. p /\ m \in 1 .. m /\ (\A i \in 1 .. p : i \in 1 .. m)
        /\ p # 0 => 1 \in 1 .. p
        /\ p = 0 => m = 1
    BY <1>1
  <2>4. KeysTo(got, m) = KeysTo(got, p) \cup {e.k}
    BY <2>3 DEF KeysTo
  <2>5. no(m) <=> CannotReplace(sch, e.v, c, v)
    OBVIOUS
  <2> HIDE DEF p, a, b, e, no, T
  <2>6. PICK done \in SUBSET KeysTo(got, p) : /\ SetUpto(n, c, v, st, tab, done, a)
                                              /\ a.rc = 0 => done = KeysTo(got, p) \/ Left(st) < 2
    BY <2>1 DEF So, SetSo
  <2>7. /\ a \in Answers(tab.seq)
        /\ a.rc = 0 => \A i \in 1 .. p : ~no(i)
        /\ a.rc = -1 => \E i \in 1 .. p : no(i)
        /\ p = 0 \/ (a.rc = -1 /\ no(1)) => a.st = st /\ a.tab = tab
    BY <2>1 DEF So, SetSo, no, sch
  <2>8. b \in Answers(tab.seq) /\ SetTurn(n, c, v, st, tab, done, a, e, b)
    BY <2>2, <2>6, <2>7, SetTurns DEF E, sch
  <2>9. \A rc : /\ Answer(a.st, a.tab, rc).st = a.st /\ Answer(a.st, a.tab, rc).tab = a.tab
                /\ Answer(a.st, a.tab, rc).rc = rc
    BY DEF Answer
  <2>10. /\ done \in SUBSET KeysTo(got, m) /\ done \cup {e.k} \in SUBSET KeysTo(got, m)
         /\ done = KeysTo(got, p) => done \cup {e.k} = KeysTo(got, m)
    BY <2>4
  <2>11. CASE a.rc # 0 /\ b = a
    <3>1. a.rc = -1 => \E i \in 1 .. m : no(i)
      BY <2>3, <2>7
    <3>2. a.rc = -1 /\ no(1) => a.st = st /\ a.tab = tab
      BY <2>7
    <3>3. So(m, b)
      BY <2>1, <2>6, <2>8, <2>10, <2>11, <3>1, <3>2 DEF So, SetSo, no, sch
    <3>4. QED
      BY <2>1, <3>3 DEF T, b
  <2>12. CASE a.rc = 0 /\ CannotReplace(sch, e.v, c, v) /\ b = Answer(a.st, a.tab, -1)
    <3>1. b.st = a.st /\ b.tab = a.tab /\ b.rc = -1
      BY <2>9, <2>12
    <3>2. SetUpto(n, c, v, st, tab, done, b)
      BY <2>6, <3>1 DEF SetUpto
    <3>3. no(m) /\ \E i \in 1 .. m : no(i)
      BY <2>3, <2>5, <2>12
    <3>4. no(1) => a.st = st /\ a.tab = tab
      BY <2>3, <2>7, <2>12
    <3>5. b.rc # 0
      BY <3>1
    <3>6. So(m, b)
      BY <2>1, <2>8, <2>10, <3>1, <3>2, <3>3, <3>4, <3>5 DEF So, SetSo, no, sch
    <3>7. QED
      BY <2>1, <3>6 DEF T, b
  <2>13. CASE a.rc = 0 /\ ~CannotReplace(sch, e.v, c, v) /\ b = Answer(a.st, a.tab, Fault)
    <3>1. b.st = a.st /\ b.tab = a.tab /\ b.rc # 0 /\ b.rc # -1
      BY <2>9, <2>13 DEF Fault
    <3>2. SetUpto(n, c, v, st, tab, done, b)
      BY <2>6, <3>1 DEF SetUpto
    <3>3. So(m, b)
      BY <2>1, <2>8, <2>10, <3>1, <3>2 DEF So, SetSo
    <3>4. QED
      BY <2>1, <3>3 DEF T, b
  <2>14. CASE /\ a.rc = 0 /\ ~CannotReplace(sch, e.v, c, v) /\ b.rc = 0
              /\ \/ SetUpto(n, c, v, st, tab, done \cup {e.k}, b)
                 \/ SetUpto(n, c, v, st, tab, done, b) /\ Left(st) < 2
    <3>1. b.rc # -1 /\ b.rc = 0
      BY <2>14
    <3>2. \A i \in 1 .. m : ~no(i)
      BY <2>3, <2>5, <2>7, <2>14
    <3>3. \E d \in SUBSET KeysTo(got, m) : /\ SetUpto(n, c, v, st, tab, d, b)
                                           /\ b.rc = 0 => d = KeysTo(got, m) \/ Left(st) < 2
      BY <2>6, <2>10, <2>14
    <3>4. So(m, b)
      BY <2>1, <2>8, <3>1, <3>2, <3>3 DEF So, SetSo, no, sch
    <3>5. QED
      BY <2>1, <3>4 DEF T, b
  <2>15. QED
    BY <2>8, <2>11, <2>12, <2>13, <2>14 DEF SetTurn, sch
<1> HIDE DEF T
<1>12. \A m \in 0 .. N : m \in T
  BY <1>1, <1>10, <1>11, Upwards
<1>13. N \in 0 .. N
  BY <1>1
<1>14. So(N, it[1 .. N])
  BY <1>12, <1>13 DEF T
<1>15. QED
  BY <1>4, <1>14 DEF So, N, sch

----------------------------------------------------------------------------
(* DELETE's loop.                                                         *)

\* A tree that is changed without losing a page leaves as many pages free.
LEMMA EditsKeepLeft ==
  ASSUME NEW st, NEW r, Stands(st, r), NEW st2, NEW r2, Edits(st, r, st2, r2), Out(st2, r2) \subseteq Out(st, r)
  PROVE  Left(st2) = Left(st)
<1>1. Out(st, r) \subseteq Out(st2, r2)
  BY DEF Edits, Sound, Out
<1>2. Out(st2, r2) = Out(st, r)
  BY <1>1
<1>3. /\ Cardinality(Used(st)) = Cardinality(Out(st, r)) + TreeCount(st, r)
      /\ Cardinality(Used(st2)) = Cardinality(Out(st2, r2)) + TreeCount(st2, r2)
      /\ TreeCount(st, r) = TreeCount(st2, r2)
  BY UsedSplit DEF Stands, Edits
<1>4. QED
  BY <1>2, <1>3 DEF Left

\* One turn of DELETE's loop.
DropStep(a, e) ==
    LET d == Delete(a.st, a.tab.root, e.k)
    IN  IF a.rc # 0 THEN a ELSE Answer(d.st, [a.tab EXCEPT !.root = d.root], d.rc)

\* The rows whose keys are not in `keys'.
Lacking(E, keys) == {e \in E : e.k \notin keys}
KeysOnce(got) == \A i, j \in 1 .. Len(got) : got[i].k = got[j].k => i = j

\* The table while its rows are removed, and one more removed.
Dropped(st, tab, a) ==
    /\ Edits(st, tab.root, a.st, a.tab.root) /\ Out(a.st, a.tab.root) \subseteq Out(st, tab.root)
    /\ Ent(a.st, a.tab.root) \subseteq Ent(st, tab.root)

DropTurn(st, tab, a, e, b) ==
    /\ b.rc = 0 => Ent(b.st, b.tab.root) = But(Ent(a.st, a.tab.root), e.k)
    /\ b.rc = -1 => /\ b.st = a.st /\ b.tab = a.tab
                    /\ HasKey(Ent(a.st, a.tab.root), e.k) => Left(st) < 1
    /\ b.rc \in {0, -1} /\ (b.rc = 0 => Left(st) >= 1)

\* A turn removes one row more, or ends the loop for want of pages.
LEMMA DropTurns ==
  ASSUME NEW n, NEW st, NEW tab, Holding(n, st, tab), NEW a \in Answers(tab.seq), Dropped(st, tab, a),
         NEW e, e.k \in Keys
  PROVE  LET b == DropStep(a, e)
         IN  /\ b \in Answers(tab.seq) /\ Dropped(st, tab, b)
             /\ a.rc # 0 => b = a
             /\ a.rc = 0 => DropTurn(st, tab, a, e, b)
<1> DEFINE b == DropStep(a, e)
           r == tab.root
           ra == a.tab.root
           k == e.k
           d == Delete(a.st, ra, k)
<1>1. /\ Stands(st, r) /\ Edits(st, r, a.st, ra) /\ Stands(a.st, ra)
      /\ Out(a.st, ra) \subseteq Out(st, r) /\ Ent(a.st, ra) \subseteq Ent(st, r)
  BY DEF Holding, Dropped, Edits
<1>2. /\ a = Answer(a.st, a.tab, a.rc) /\ a.tab = [root |-> ra, seq |-> tab.seq]
      /\ a.rc \in {0, -1, Fault} /\ \A q : [a.tab EXCEPT !.root = q] = [root |-> q, seq |-> tab.seq]
  BY AnswerOf
<1>3. CASE a.rc # 0
  <2>1. b = a
    BY <1>3 DEF DropStep
  <2>2. QED
    BY <1>3, <2>1
<1>4. CASE a.rc = 0
  <2>1. b = Answer(d.st, [root |-> d.root, seq |-> tab.seq], d.rc)
    BY <1>2, <1>4 DEF DropStep
  <2>2. k \in Keys
    OBVIOUS
  <2> HIDE DEF d, b, k
  <2>3. DropDone(a.st, ra, k, d)
    BY <1>1, <2>2, Dropping DEF d
  <2>4. /\ d.rc \in {0, -1} /\ Edits(a.st, ra, d.st, d.root) /\ Stands(d.st, d.root)
        /\ Out(d.st, d.root) \subseteq Out(a.st, ra)
        /\ d.rc = 0 => Ent(d.st, d.root) = But(Ent(a.st, ra), k) /\ Left(a.st) >= 1
        /\ d.rc = -1 => d.st = a.st /\ d.root = ra /\ (HasKey(Ent(a.st, ra), k) => Left(a.st) = 0)
    BY <2>3 DEF DropDone, Edits
  <2>5. Left(a.st) = Left(st)
    BY <1>1, EditsKeepLeft
  <2>6. b.st = d.st /\ b.tab = [root |-> d.root, seq |-> tab.seq] /\ b.rc = d.rc /\ b.tab.root = d.root
    BY <2>1 DEF Answer
  <2>7. b \in Answers(tab.seq)
    BY <2>1, <2>4, AnswerIn
  <2>8. Edits(st, r, d.st, d.root)
    BY <1>1, <2>4, EditsTwice
  <2>9. Ent(d.st, d.root) \subseteq Ent(a.st, ra)
    BY <2>4 DEF But
  <2>10. Dropped(st, tab, b)
    BY <1>1, <2>4, <2>6, <2>8, <2>9 DEF Dropped, r
  <2>11. DropTurn(st, tab, a, e, b)
    BY <1>2, <2>4, <2>5, <2>6 DEF DropTurn, k, ra
  <2>12. QED
    BY <1>4, <2>7, <2>10, <2>11 DEF b
<1>5. QED
  BY <1>3, <1>4

\* After m turns of DELETE's loop.
DropSo(st, tab, got, m, a) ==
    /\ a \in Answers(tab.seq) /\ Dropped(st, tab, a) /\ a.rc \in {0, -1}
    /\ a.rc = 0 => Ent(a.st, a.tab.root) = Lacking(Ent(st, tab.root), KeysTo(got, m))
    /\ a.rc = 0 => m = 0 \/ Left(st) >= 1
    /\ m = 0 \/ (a.rc = -1 /\ KeysOnce(got)) => a.st = st /\ a.tab = tab
    /\ a.rc = -1 /\ KeysOnce(got) => Left(st) < 1

\* The whole loop of DELETE.
LEMMA DroppingRows ==
  ASSUME NEW n, NEW st, NEW tab, Holding(n, st, tab),
         NEW got \in Seq(LeafEntry), ToSet(got) \subseteq Ent(st, tab.root)
  PROVE  DropSo(st, tab, got, Len(got), DropRows(st, tab, got))
<1> DEFINE N == Len(got)
           E == Ent(st, tab.root)
           first == Answer(st, tab, 0)
           So(m, a) == DropSo(st, tab, got, m, a)
           V == {a \in Answers(tab.seq) : Dropped(st, tab, a)}
           F(f) == f = [u \in SUBSET (1 .. N) |-> IF u = {} THEN first
                                                  ELSE DropStep(f[u \ {Max(u)}], got[Max(u)])]
           it == CHOOSE f : F(f)
<1>1. /\ N \in Nat /\ DOMAIN got = 1 .. N /\ \A i \in 1 .. N : got[i] \in E /\ got[i].k \in Keys
      /\ got \in Seq(LeafEntry)
  <2>1. N \in Nat /\ DOMAIN got = 1 .. N /\ ToSet(got) = {got[i] : i \in 1 .. N}
        /\ ToSet(got) \subseteq LeafEntry
    BY EntryRoom, SortedFacts
  <2>2. QED
    BY <2>1 DEF LeafEntry
<1>2. Stands(st, tab.root) /\ tab = [root |-> tab.root, seq |-> tab.seq]
  BY DEF Holding
<1>3. /\ first \in Answers(tab.seq) /\ Dropped(st, tab, first)
      /\ first.st = st /\ first.tab = tab /\ first.rc = 0
  <2>1. first \in Answers(tab.seq)
    <3> DEFINE seq == tab.seq
               root == tab.root
               t == [root |-> root, seq |-> seq]
    <3>1. tab = t /\ Stands(st, root) /\ 0 \in {0, -1, Fault}
      BY <1>2
    <3> HIDE DEF seq, root
    <3>2. Answer(st, t, 0) \in Answers(seq)
      BY <3>1, AnswerIn
    <3>3. QED
      BY <3>1, <3>2 DEF seq
  <2>2. first.st = st /\ first.tab = tab /\ first.rc = 0
    BY DEF Answer
  <2> HIDE DEF first
  <2>3. Edits(st, tab.root, st, tab.root)
    BY <1>2, EditsNone
  <2>4. Dropped(st, tab, first)
    BY <2>2, <2>3 DEF Dropped
  <2>5. QED
    BY <2>1, <2>2, <2>4
<1>4. DropRows(st, tab, got) = it[1 .. N]
  BY <1>1 DEF DropRows, FoldLeft, MapThenFoldSet, DropStep
<1> HIDE DEF first, V, E
<1>5. first \in V
  BY <1>3 DEF V
<1>6. ASSUME NEW a \in V, NEW e, e.k \in Keys
      PROVE  DropStep(a, e) \in V
  <2>1. a \in Answers(tab.seq) /\ Dropped(st, tab, a)
    BY DEF V
  <2> DEFINE b == DropStep(a, e)
  <2>2. b \in Answers(tab.seq) /\ Dropped(st, tab, b)
    BY <1>6, <2>1, DropTurns
  <2> HIDE DEF b
  <2>3. QED
    BY <2>2 DEF V, b
<1>7. F(it)
  <2> DEFINE step == [p \in 1 .. N |-> [a \in V |-> DropStep(a, got[p])]]
  <2>1. \A p \in 1 .. N : \A a \in V :
           step[p][a] = DropStep(a, got[p]) /\ step[p][a] \in V
    BY <1>1, <1>6
  <2> HIDE DEF step, N
  <2>3. SeqRecursive(N, V, first, step)
    BY <1>1, <1>5, <2>1, OverSequence
  <2>4. PICK f : /\ f \in [SUBSET (1 .. N) -> V]
                 /\ f = [u \in SUBSET (1 .. N) |-> IF u = {} THEN first ELSE step[Max(u)][f[u \ {Max(u)}]]]
    BY <2>3 DEF SeqRecursive
  <2>5. \A u \in SUBSET (1 .. N) :
           u # {} => step[Max(u)][f[u \ {Max(u)}]] = DropStep(f[u \ {Max(u)}], got[Max(u)])
    BY <1>1, <2>1, <2>4, MaxIn
  <2>6. F(f)
    BY <2>4, <2>5
  <2>7. QED
    BY <2>6
<1>8. it[{}] = first
  BY <1>7
<1>9. ASSUME NEW m \in 1 .. N PROVE it[1 .. m] = DropStep(it[1 .. m - 1], got[m])
  <2>1. m \in Nat \ {0} /\ m \in 1 .. m /\ \A u \in 1 .. m : u \in 1 .. N
    BY <1>1
  <2>2. 1 .. m \in SUBSET (1 .. N) /\ 1 .. m # {}
    BY <2>1
  <2>3. QED
    BY <1>7, <2>1, <2>2, MaxUpto
<1> HIDE DEF it, So, N
<1> DEFINE T == {m \in 0 .. N : So(m, it[1 .. m])}
<1>10. 0 \in T
  <2>1. 1 .. 0 = {} /\ 0 \in 0 .. N
    BY <1>1
  <2>2. it[1 .. 0] = first
    BY <1>8, <2>1
  <2>3. KeysTo(got, 0) = {}
    BY <2>1 DEF KeysTo
  <2> DEFINE zero == 0
  <2>4. zero = 0 /\ first.rc # -1 /\ KeysTo(got, zero) = {}
    BY <1>3, <2>3
  <2> HIDE DEF zero
  <2>5. \A X : Lacking(X, {}) = X
    BY DEF Lacking
  <2>6. So(zero, first)
    BY <1>3, <2>4, <2>5 DEF So, DropSo
  <2>7. QED
    BY <2>1, <2>2, <2>4, <2>6
<1>11. ASSUME NEW m \in 1 .. N, m - 1 \in T PROVE m \in T
  <2> DEFINE p == m - 1
             a == it[1 .. p]
             b == it[1 .. m]
             e == got[m]
  <2>1. So(p, a) /\ p \in Nat /\ p # m /\ m # 0 /\ m \in 0 .. N
    BY <1>1, <1>11
  <2>2. b = DropStep(a, e) /\ e \in E /\ e.k \in Keys /\ e = got[m]
    BY <1>1, <1>9
  <2>3. /\ \A i \in 1 .. m : i \in 1 .. p \/ i = m
        /\ m \notin 1 .. p /\ (\A i \in 1 .. p : i \in 1 .. m) /\ m \in 1 .. m
    BY <1>1
  <2>4. KeysTo(got, m) = KeysTo(got, p) \cup {e.k}
    BY <2>3 DEF KeysTo
  <2> HIDE DEF p, a, b, e, T
  <2>5. /\ a \in Answers(tab.seq) /\ Dropped(st, tab, a) /\ a.rc \in {0, -1}
        /\ a.rc = 0 => Ent(a.st, a.tab.root) = Lacking(E, KeysTo(got, p))
        /\ a.rc = 0 => p = 0 \/ Left(st) >= 1
        /\ p = 0 \/ (a.rc = -1 /\ KeysOnce(got)) => a.st = st /\ a.tab = tab
        /\ a.rc = -1 /\ KeysOnce(got) => Left(st) < 1
    BY <2>1 DEF So, DropSo, E
  <2>6. /\ b \in Answers(tab.seq) /\ Dropped(st, tab, b)
        /\ a.rc # 0 => b = a
        /\ a.rc = 0 => DropTurn(st, tab, a, e, b)
    BY <2>2, <2>5, DropTurns
  <2>7. Left(st) \in Nat
    BY <1>2, UsedSplit DEF Stands
  <2>8. ASSUME a.rc # 0 PROVE So(m, b)
    <3>1. b = a /\ a.rc = -1
      BY <2>5, <2>6, <2>8
    <3>2. QED
      BY <2>1, <2>5, <2>6, <3>1 DEF So, DropSo
  <2>9. ASSUME a.rc = 0 PROVE So(m, b)
    <3>1. DropTurn(st, tab, a, e, b)
      BY <2>6, <2>9
    <3>2. b.rc = 0 => Ent(b.st, b.tab.root) = Lacking(E, KeysTo(got, m))
      <4>1. But(Lacking(E, KeysTo(got, p)), e.k) = Lacking(E, KeysTo(got, m))
        BY <2>4 DEF But, Lacking
      <4>2. QED
        BY <2>5, <2>9, <3>1, <4>1 DEF DropTurn
    <3>3. ASSUME b.rc = -1, KeysOnce(got) PROVE b.st = st /\ b.tab = tab /\ Left(st) < 1
      <4>1. e.k \notin KeysTo(got, p)
        <5>1. \A i \in 1 .. p : i \in 1 .. N /\ i # m
          <6>1. \A i \in 1 .. m : i \in 1 .. N
            BY <1>1
          <6>2. QED
            BY <2>3, <6>1
        <5>2. \A i \in 1 .. p : got[i].k # e.k
          BY <2>2, <3>3, <5>1 DEF KeysOnce, N
        <5>3. QED
          BY <5>2 DEF KeysTo
      <4>2. HasKey(Ent(a.st, a.tab.root), e.k)
        BY <2>2, <2>5, <2>9, <4>1 DEF HasKey, Lacking
      <4>3. Left(st) < 1 /\ b.st = a.st /\ b.tab = a.tab
        BY <3>1, <3>3, <4>2 DEF DropTurn
      <4>4. p = 0
        BY <2>5, <2>7, <2>9, <4>3
      <4>5. QED
        BY <2>5, <4>3, <4>4
    <3>4. b.rc \in {0, -1} /\ (b.rc = 0 => Left(st) >= 1)
      BY <3>1 DEF DropTurn
    <3>5. QED
      BY <2>1, <2>6, <3>2, <3>3, <3>4 DEF So, DropSo, E
  <2>10. QED
    BY <2>1, <2>8, <2>9 DEF T, b
<1> HIDE DEF T
<1>12. \A m \in 0 .. N : m \in T
  BY <1>1, <1>10, <1>11, Upwards
<1>13. N \in 0 .. N
  BY <1>1
<1>14. So(N, it[1 .. N])
  BY <1>12, <1>13 DEF T
<1>15. QED
  BY <1>4, <1>14 DEF So, N

----------------------------------------------------------------------------
(* The tables of a database: their trees share no page.                   *)

\* A tree whose pages are left alone is as it was.
LEMMA TreeUntouched ==
  ASSUME NEW st, NEW q, Stands(st, q), NEW st2, Good(st2),
         \A pn \in TreePages(st, q) : pn \in PageNos(st2) /\ st2.pages[pn] = st.pages[pn]
  PROVE  /\ Stands(st2, q) /\ TreePages(st2, q) = TreePages(st, q) /\ Ent(st2, q) = Ent(st, q)
         /\ Whole(st2, q) <=> Whole(st, q)
<1>1. SmallTree(st, q) /\ Ordered(st, q)
  BY DEF Stands
<1>2. CASE q = 0
  <2>1. ~LeafAt(st2, q) /\ ~ForkAt(st2, q)
    BY <1>2, NotBoth
  <2>2. SmallTree(st2, q) /\ Ordered(st2, q) /\ TreePages(st2, q) = TreePages(st, q)
    BY <1>2, <2>1 DEF SmallTree, Ordered, TreePages
  <2>3. TreeEnts(st2, q) = TreeEnts(st, q)
    BY <1>2 DEF TreeEnts
  <2>4. QED
    BY <1>2, <2>2, <2>3 DEF Stands, Ent, Whole
<1>3. CASE q # 0 /\ LeafAt(st, q)
  <2>1. q \in TreePages(st, q) /\ TreePages(st, q) = {q}
    BY <1>3 DEF TreePages
  <2>2. LeafAt(st2, q) /\ st2.pages[q] = st.pages[q]
    BY <1>3, <2>1 DEF LeafAt
  <2>3. ~ForkAt(st2, q)
    BY <2>2, NotBoth
  <2>4. SmallTree(st2, q) /\ Ordered(st2, q) /\ TreePages(st2, q) = TreePages(st, q)
    BY <1>1, <1>3, <2>1, <2>2, <2>3 DEF SmallTree, Ordered, TreePages
  <2>5. TreeEnts(st2, q) = TreeEnts(st, q)
    BY <1>3, <2>2 DEF TreeEnts
  <2>6. QED
    BY <1>3, <2>2, <2>4, <2>5 DEF Stands, Ent, Whole
<1>4. CASE q # 0 /\ ~LeafAt(st, q)
  <2> DEFINE x == Fork(st, q).l
             y == Fork(st, q).r
  <2>1. ForkAt(st, q) /\ TreePages(st, q) = {q, x, y}
    BY <1>1, <1>4 DEF SmallTree, TreePages
  <2>2. /\ q \in PageNos(st2) /\ st2.pages[q] = st.pages[q]
        /\ x \in PageNos(st2) /\ st2.pages[x] = st.pages[x]
        /\ y \in PageNos(st2) /\ st2.pages[y] = st.pages[y]
    BY <2>1
  <2>3. Fork(st2, q) = Fork(st, q)
    BY <2>2 DEF Fork
  <2>4. LeafAt(st, x) /\ LeafAt(st, y)
    BY <2>1 DEF ForkAt
  <2>5. LeafAt(st2, x) /\ LeafAt(st2, y)
    BY <2>2, <2>4 DEF LeafAt
  <2>6. ForkAt(st2, q)
    BY <2>1, <2>2, <2>3, <2>5 DEF ForkAt
  <2>7. ~LeafAt(st2, q)
    BY <2>6, NotBoth
  <2>8. Low(st2, q) = Low(st, q) /\ High(st2, q) = High(st, q)
    BY <2>2, <2>3 DEF Low, High
  <2>9. SmallTree(st2, q) /\ Ordered(st2, q) /\ TreePages(st2, q) = TreePages(st, q)
    BY <1>1, <1>4, <2>1, <2>3, <2>6, <2>7, <2>8 DEF SmallTree, Ordered, TreePages
  <2>10. TreeEnts(st2, q) = TreeEnts(st, q)
    BY <1>4, <2>7, <2>8 DEF TreeEnts
  <2>11. QED
    BY <1>4, <2>7, <2>9, <2>10 DEF Stands, Ent, Whole
<1>5. QED
  BY <1>2, <1>3, <1>4

\* A statement on another tree leaves it alone.
OtherKept(st, st2, r2, q) ==
    /\ Stands(st2, q) /\ TreePages(st2, q) = TreePages(st, q) /\ Ent(st2, q) = Ent(st, q)
    /\ Whole(st2, q) <=> Whole(st, q)
    /\ TreePages(st2, r2) \cap TreePages(st2, q) = {}

\* It is so after every sound change of another tree.
LEMMA OthersKept ==
  ASSUME NEW st, NEW r, NEW st2, NEW r2, Sound(st, r, st2, r2), NEW q, Stands(st, q),
         TreePages(st, r) \cap TreePages(st, q) = {}
  PROVE  OtherKept(st, st2, r2, q)
<1>1. Good(st) /\ SmallTree(st, q) /\ Good(st2)
  BY DEF Stands, Sound
<1>2. TreePages(st, q) \subseteq Used(st) \ TreePages(st, r)
  BY <1>1, TreeUsed
<1>3. \A pn \in TreePages(st, q) : pn \in Used(st2) /\ st2.pages[pn] = st.pages[pn]
  BY <1>2 DEF Sound
<1>4. \A pn \in TreePages(st, q) : pn \in PageNos(st2) /\ st2.pages[pn] = st.pages[pn]
  BY <1>3 DEF Used
<1>5. /\ Stands(st2, q) /\ TreePages(st2, q) = TreePages(st, q) /\ Ent(st2, q) = Ent(st, q)
      /\ Whole(st2, q) <=> Whole(st, q)
  BY <1>1, <1>4, TreeUntouched
<1>6. TreePages(st2, r2) \cap TreePages(st, q) = {}
  BY <1>2 DEF Sound
<1>7. QED
  BY <1>5, <1>6 DEF OtherKept

\* The state of a database whose tables' trees are in order and apart.
Apart(st, ts) == \A m, n \in DOMAIN ts :
                    m # n => TreePages(st, ts[m].root) \cap TreePages(st, ts[n].root) = {}
SeqOk(tab) == tab.seq \in 1 .. Cardinality(Keys) + 1
TabOk(n, st, tab) == Holding(n, st, tab) /\ SeqOk(tab)
AllOk(st, ts) == /\ Good(st) /\ ts = [n \in DOMAIN ts |-> ts[n]]
                 /\ \A n \in DOMAIN ts : TabOk(n, st, ts[n])
                 /\ Apart(st, ts)
AllWhole(st, ts) == \A n \in DOMAIN ts : Whole(st, ts[n].root)

\* A statement on one table.
LEMMA OneChanged ==
  ASSUME NEW st, NEW ts, AllOk(st, ts), NEW n \in DOMAIN ts, NEW st2, NEW tab,
         TabOk(n, st2, tab), Sound(st, ts[n].root, st2, tab.root)
  PROVE  /\ AllOk(st2, [ts EXCEPT ![n] = tab])
         /\ \A m \in DOMAIN ts : m # n => OtherKept(st, st2, tab.root, ts[m].root)
         /\ AllWhole(st, ts) /\ (Whole(st, ts[n].root) => Whole(st2, tab.root)) => AllWhole(st2, [ts EXCEPT ![n] = tab])
<1> DEFINE us == [ts EXCEPT ![n] = tab]
<1>1. DOMAIN us = DOMAIN ts /\ us[n] = tab /\ us = [m \in DOMAIN us |-> us[m]]
      /\ \A m \in DOMAIN ts : m # n => us[m] = ts[m]
  <2>1. ts = [m \in DOMAIN ts |-> ts[m]]
    BY DEF AllOk
  <2>2. QED
    BY <2>1
<1> HIDE DEF us
<1>2. ASSUME NEW m \in DOMAIN ts, m # n PROVE OtherKept(st, st2, tab.root, ts[m].root)
  <2>1. Stands(st, ts[m].root) /\ TreePages(st, ts[n].root) \cap TreePages(st, ts[m].root) = {}
    BY <1>2 DEF AllOk, TabOk, Holding, Apart
  <2>2. QED
    BY <2>1, OthersKept
<1>3. ASSUME NEW m \in DOMAIN ts, m # n PROVE TabOk(m, st2, us[m])
  <2>1. TabOk(m, st, ts[m])
    BY DEF AllOk
  <2>2. QED
    BY <1>1, <1>2, <1>3, <2>1 DEF TabOk, Holding, OtherKept
<1>4. \A m \in DOMAIN us : TabOk(m, st2, us[m])
  BY <1>1, <1>3
<1>5. Apart(st2, us)
  <2>1. SUFFICES ASSUME NEW m \in DOMAIN us, NEW p \in DOMAIN us, m # p
                 PROVE  TreePages(st2, us[m].root) \cap TreePages(st2, us[p].root) = {}
    BY DEF Apart
  <2>2. CASE m = n
    BY <1>1, <1>2, <2>1, <2>2 DEF OtherKept
  <2>3. CASE p = n
    BY <1>1, <1>2, <2>1, <2>3 DEF OtherKept
  <2>4. CASE m # n /\ p # n
    <3>1. TreePages(st, ts[m].root) \cap TreePages(st, ts[p].root) = {}
      BY <1>1, <2>1 DEF AllOk, Apart
    <3>2. QED
      BY <1>1, <1>2, <2>4, <3>1 DEF OtherKept
  <2>5. QED
    BY <2>2, <2>3, <2>4
<1>6. Good(st2)
  BY DEF Sound
<1>7. AllOk(st2, us)
  BY <1>1, <1>4, <1>5, <1>6 DEF AllOk
<1>8. AllWhole(st, ts) /\ (Whole(st, ts[n].root) => Whole(st2, tab.root)) => AllWhole(st2, us)
  BY <1>1, <1>2 DEF AllWhole, OtherKept
<1>9. QED
  BY <1>2, <1>7, <1>8 DEF us

\* A tree created and not yet used.
NewTree(st, new) ==
    /\ Stands(new.st, new.root) /\ Whole(new.st, new.root) /\ Ent(new.st, new.root) = {}
    /\ TreePages(new.st, new.root) \cap Used(st) = {} /\ Kept(st, new.st)
    /\ Used(new.st) = Used(st) \cup TreePages(new.st, new.root)

\* btree_create makes an empty tree of pages that were free.
LEMMA TreeCreated ==
  ASSUME NEW st, Good(st)
  PROVE  NewTree(st, Create(st))
<1> DEFINE new == Create(st)
<1>1. Created(st, new)
  BY CreateOutcome
<1> HIDE DEF new
<1>2. Kept(st, new.st) /\ Good(new.st)
  BY <1>1, CreatedKept DEF Kept
<1>3. CASE new.rc = -1
  <2>1. new.root = 0 /\ new.st = st
    BY <1>1, <1>3 DEF Created
  <2>2. /\ SmallTree(new.st, 0) /\ Ordered(new.st, 0) /\ Whole(new.st, 0)
        /\ TreePages(new.st, 0) = {} /\ Ent(new.st, 0) = {}
    BY NotBoth, OkEmpty DEF SmallTree, Ordered, Whole, TreePages, Ent, TreeEnts
  <2>3. NewTree(st, new)
    BY <1>2, <2>1, <2>2 DEF NewTree, Stands
  <2>4. QED
    BY <2>3 DEF new
<1>4. CASE new.rc # -1
  <2> DEFINE r == new.root
  <2>1. /\ r \in Nat \ {0} /\ r \notin Used(st) /\ Used(new.st) = Used(st) \cup {r}
        /\ new.st.pages[r] = Leaf(0, <<>>)
    BY <1>1, <1>4 DEF Created
  <2>2. LeafAt(new.st, r) /\ Ents(new.st.pages[r]) = <<>> /\ r # 0
    BY <2>1 DEF LeafAt, Used, Leaf, Ents, LeafWord
  <2> HIDE DEF r
  <2>3. ~ForkAt(new.st, r)
    BY <2>2, NotBoth
  <2>4. /\ SmallTree(new.st, r) /\ Ordered(new.st, r) /\ Whole(new.st, r)
        /\ TreePages(new.st, r) = {r} /\ Ent(new.st, r) = {}
    BY <2>2, <2>3, OkEmpty DEF SmallTree, Ordered, Whole, TreePages, Ent, TreeEnts
  <2>5. NewTree(st, new)
    BY <1>2, <2>1, <2>4 DEF NewTree, Stands, r
  <2>6. QED
    BY <2>5 DEF new
<1>5. QED
  BY <1>3, <1>4

\* When no page in use is written, every table is as it was.
TreeSame(st, st2, q) ==
    /\ Stands(st2, q) /\ TreePages(st2, q) = TreePages(st, q) /\ Ent(st2, q) = Ent(st, q)
    /\ Whole(st2, q) <=> Whole(st, q)

\* So every table is kept when no page in use is written.
LEMMA TablesKept ==
  ASSUME NEW st, NEW ts, AllOk(st, ts), NEW st2, Kept(st, st2)
  PROVE  /\ AllOk(st2, ts) /\ (AllWhole(st, ts) => AllWhole(st2, ts))
         /\ \A n \in DOMAIN ts : TreeSame(st, st2, ts[n].root)
<1>1. ASSUME NEW n \in DOMAIN ts PROVE TreeSame(st, st2, ts[n].root)
  <2> DEFINE q == ts[n].root
  <2>1. Stands(st, q) /\ Good(st) /\ SmallTree(st, q)
    BY DEF AllOk, TabOk, Holding, Stands
  <2>2. Good(st2) /\ \A pn \in Used(st) : pn \in Used(st2) /\ st2.pages[pn] = st.pages[pn]
    BY DEF Kept
  <2>3. \A pn \in TreePages(st, q) : pn \in PageNos(st2) /\ st2.pages[pn] = st.pages[pn]
    <3>1. TreePages(st, q) \subseteq Used(st)
      BY <2>1, TreeUsed
    <3>2. QED
      BY <2>2, <3>1 DEF Used
  <2> HIDE DEF q
  <2>4. TreeSame(st, st2, q)
    BY <2>1, <2>2, <2>3, TreeUntouched DEF TreeSame
  <2>5. QED
    BY <2>4 DEF q
<1>2. \A n \in DOMAIN ts : TabOk(n, st2, ts[n])
  BY <1>1 DEF AllOk, TabOk, Holding, TreeSame
<1>3. Apart(st2, ts)
  BY <1>1 DEF AllOk, Apart, TreeSame
<1>4. Good(st2)
  BY DEF Kept
<1>5. AllOk(st2, ts)
  BY <1>2, <1>3, <1>4 DEF AllOk
<1>6. AllWhole(st, ts) => AllWhole(st2, ts)
  BY <1>1 DEF AllWhole, TreeSame
<1>7. QED
  BY <1>1, <1>5, <1>6

\* A table that has just been created.
NewTab(root) == [root |-> root, seq |-> 1]

\* The new table is in order.
LEMMA TabCreated ==
  ASSUME NEW st, Good(st), NEW n \in Names, ~BadSchema(Schemas[n])
  PROVE  TabOk(n, Create(st).st, NewTab(Create(st).root))
<1> DEFINE new == Create(st)
           tab == NewTab(new.root)
<1>1. NewTree(st, new)
  BY TreeCreated
<1> HIDE DEF new
<1>2. tab.root = new.root /\ tab.seq = 1 /\ tab = [root |-> tab.root, seq |-> tab.seq]
  BY DEF NewTab
<1>3. Cardinality(Keys) \in Nat
  BY RowidAssumption, FS_CardinalityType
<1> DEFINE one == 1
<1>4. one = 1 /\ one \in 1 .. Cardinality(Keys) + 1 /\ tab.seq = one
  BY <1>2, <1>3
<1> HIDE DEF tab, one
<1>5. SeqOk(tab)
  BY <1>4 DEF SeqOk
<1>6. Stands(new.st, tab.root) /\ Ent(new.st, tab.root) = {}
  BY <1>1, <1>2 DEF NewTree
<1>7. Rows(n, tab.seq, Ent(new.st, tab.root))
  BY <1>6 DEF Rows
<1>8. Holding(n, new.st, tab)
  BY <1>2, <1>6, <1>7 DEF Holding
<1>9. TabOk(n, new.st, tab)
  BY <1>5, <1>8 DEF TabOk
<1>10. QED
  BY <1>9 DEF tab, new

\* CREATE TABLE.
LEMMA TableAdded ==
  ASSUME NEW st, NEW ts, AllOk(st, ts), NEW n \in Names, n \notin DOMAIN ts, ~BadSchema(Schemas[n])
  PROVE  LET c  == Create(st)
             us == [m \in DOMAIN ts \cup {n} |-> IF m = n THEN [root |-> c.root, seq |-> 1] ELSE ts[m]]
         IN  AllOk(c.st, us) /\ (AllWhole(st, ts) => AllWhole(c.st, us))
<1> DEFINE c  == Create(st)
           us == [m \in DOMAIN ts \cup {n} |-> IF m = n THEN [root |-> c.root, seq |-> 1] ELSE ts[m]]
<1>1. Good(st)
  BY DEF AllOk
<1>2. NewTree(st, c) /\ TabOk(n, c.st, NewTab(c.root))
  BY <1>1, TreeCreated, TabCreated
<1>3. /\ DOMAIN us = DOMAIN ts \cup {n} /\ us[n] = NewTab(c.root) /\ us = [m \in DOMAIN us |-> us[m]]
      /\ \A m \in DOMAIN ts : m # n /\ us[m] = ts[m]
  BY DEF NewTab
<1> HIDE DEF c, us
<1>4. /\ AllOk(c.st, ts) /\ (AllWhole(st, ts) => AllWhole(c.st, ts))
      /\ \A m \in DOMAIN ts : TreeSame(st, c.st, ts[m].root)
  <2>1. Kept(st, c.st)
    BY <1>2 DEF NewTree
  <2>2. QED
    BY <2>1, TablesKept
<1>5. us[n].root = c.root
  BY <1>3 DEF NewTab
<1>6. \A m \in DOMAIN us : TabOk(m, c.st, us[m])
  BY <1>2, <1>3, <1>4 DEF AllOk
<1>7. \A m \in DOMAIN ts : TreePages(c.st, ts[m].root) \cap TreePages(c.st, c.root) = {}
  <2>1. TAKE m \in DOMAIN ts
  <2>2. Good(st) /\ SmallTree(st, ts[m].root)
    BY DEF AllOk, TabOk, Holding, Stands
  <2>3. TreePages(st, ts[m].root) \subseteq Used(st)
    BY <2>2, TreeUsed
  <2>4. QED
    BY <1>2, <1>4, <2>3 DEF NewTree, TreeSame
<1>8. Apart(c.st, us)
  <2>1. SUFFICES ASSUME NEW m \in DOMAIN us, NEW p \in DOMAIN us, m # p
                 PROVE  TreePages(c.st, us[m].root) \cap TreePages(c.st, us[p].root) = {}
    BY DEF Apart
  <2>2. CASE m = n
    BY <1>3, <1>5, <1>7, <2>1, <2>2
  <2>3. CASE p = n
    BY <1>3, <1>5, <1>7, <2>1, <2>3
  <2>4. CASE m # n /\ p # n
    BY <1>3, <1>4, <2>1, <2>4 DEF AllOk, Apart
  <2>5. QED
    BY <2>2, <2>3, <2>4
<1>9. AllOk(c.st, us)
  BY <1>3, <1>4, <1>6, <1>8 DEF AllOk
<1>10. AllWhole(st, ts) => AllWhole(c.st, us)
  BY <1>2, <1>3, <1>4, <1>5 DEF AllWhole, NewTree
<1>11. QED
  BY <1>9, <1>10 DEF c, us

----------------------------------------------------------------------------
(* The invariant.                                                         *)

\* What holds in every state of the write path.
TableInv ==
    /\ AllOk(store, tabs)
    /\ splits \in 0 .. MaxSplits /\ (splits = 0 => AllWhole(store, tabs))
    /\ last.rc \in {0, -1}

\* A set of at most one element.
LEMMA AtMostOne ==
  ASSUME NEW S, IsFiniteSet(S), Cardinality(S) <= 1, NEW x \in S, NEW y \in S
  PROVE  x = y
<1>1. SUFFICES ASSUME x # y PROVE FALSE
  OBVIOUS
<1>2. IsFiniteSet({x}) /\ Cardinality({x}) = 1
  BY FS_Singleton
<1>3. IsFiniteSet({x} \cup {y}) /\ Cardinality({x} \cup {y}) = 2
  <2> DEFINE S1 == {x}
  <2>1. IsFiniteSet(S1) /\ Cardinality(S1) = 1 /\ y \notin S1
    BY <1>1, <1>2
  <2> HIDE DEF S1
  <2>2. IsFiniteSet(S1 \cup {y}) /\ Cardinality(S1 \cup {y}) = 1 + 1
    BY <2>1, FS_AddElement
  <2>3. QED
    BY <2>2 DEF S1
<1>4. Cardinality({x} \cup {y}) <= Cardinality(S)
  <2> DEFINE T == {x} \cup {y}
  <2>1. T \subseteq S
    OBVIOUS
  <2> HIDE DEF T
  <2>2. Cardinality(T) <= Cardinality(S)
    BY <2>1, FS_Subset
  <2>3. QED
    BY <2>2 DEF T
<1>5. Cardinality(S) \in Nat
  BY FS_CardinalityType
<1>6. QED
  BY <1>3, <1>4, <1>5

\* The invariant holds at first.
LEMMA Starting == Init => TableInv
<1>1. SUFFICES ASSUME Init PROVE TableInv
  OBVIOUS
<1> DEFINE fresh == [head  |-> FreshPages,
                     pages |-> [i \in 1 .. FreshPages |-> [ZeroPage EXCEPT !.word = i - 1]]]
           loaded == Create(fresh)
           none == {}
<1>2. PICK old \in {Legacy, {}} :
         /\ Cardinality(old) <= 1
         /\ store = IF old = {} THEN fresh ELSE loaded.st
         /\ tabs = [n \in old |-> [root |-> loaded.root, seq |-> 1]]
         /\ last = NoStmt
         /\ splits = 0
  BY <1>1 DEF Init
<1>3. Good(fresh)
  <2>1. FreshPages \in Nat /\ FreshPages < MaxPages
    BY BoundAssumption
  <2>2. QED
    BY <2>1, FreshGood DEF FreshFile
<1>4. NewTree(fresh, loaded)
  <2> HIDE DEF fresh
  <2>1. QED
    BY <1>3, TreeCreated
<1>5. /\ IsFiniteSet(old)
      /\ \A n \in old : n \in Names /\ ~BadSchema(Schemas[n]) /\ TabOk(n, loaded.st, NewTab(loaded.root))
  <2>1. IsFiniteSet(old) /\ \A n \in old : n \in Names /\ ~BadSchema(Schemas[n])
    BY SchemaAssumption, FS_EmptySet
  <2> HIDE DEF fresh
  <2>2. QED
    BY <1>3, <2>1, TabCreated
<1>6. DOMAIN tabs = old /\ tabs = [n \in DOMAIN tabs |-> tabs[n]] /\ \A n \in DOMAIN tabs : tabs[n] = NewTab(loaded.root)
  BY <1>2 DEF NewTab
<1> HIDE DEF fresh
<1>7. \A m, n \in DOMAIN tabs : m = n
  BY <1>2, <1>5, <1>6, AtMostOne
<1> HIDE DEF loaded
<1>8. store = IF old = {} THEN fresh ELSE loaded.st
  BY <1>2
<1>9. AllOk(store, tabs)
  <2>1. Apart(store, tabs)
    BY <1>7 DEF Apart
  <2>2. Good(store)
    BY <1>3, <1>4, <1>8 DEF NewTree, Stands
  <2>3. \A n \in DOMAIN tabs : TabOk(n, store, tabs[n])
    BY <1>5, <1>6, <1>8
  <2>4. QED
    BY <1>6, <2>1, <2>2, <2>3 DEF AllOk
<1>10. AllWhole(store, tabs)
  <2>1. ASSUME NEW n \in DOMAIN tabs PROVE Whole(store, tabs[n].root)
    <3>1. tabs[n].root = loaded.root
      BY <1>6 DEF NewTab
    <3>2. store = loaded.st
      BY <1>6, <1>8
    <3>3. QED
      BY <1>4, <3>1, <3>2 DEF NewTree
  <2>2. QED
    BY <2>1 DEF AllWhole
<1>11. splits \in 0 .. MaxSplits /\ last.rc = 0
  <2>1. splits = 0 /\ MaxSplits \in Nat /\ last.rc = 0
    BY <1>2, BoundAssumption DEF NoStmt
  <2>2. QED
    BY <2>1
<1>12. QED
  BY <1>9, <1>10, <1>11 DEF TableInv

----------------------------------------------------------------------------
(* Statements, from the first check to the last row.                      *)

\* A statement that is refused leaves everything.
LEMMA Nothing ==
  ASSUME NEW st, NEW tab, NEW rc
  PROVE  LET a == Answer(st, tab, rc) IN a.st = st /\ a.tab = tab /\ a.rc = rc
  BY DEF Answer

\* UPDATE, up to its loop.
UpdateStops(sch, st, tab, c, lit, wheres) ==
    \/ c \notin ColNos(sch)
    \/ \E w \in wheres : BadClause(sch, w)
    \/ LitRefused(sch.cols[c], lit)
    \/ NotUnique(st, sch, tab.root, Collect(st, sch, tab.root, wheres), c, Value(sch.cols[c], lit))

UpdateDone(n, st, tab, c, lit, wheres, a) ==
    LET sch == Schemas[n]
        v   == Value(sch.cols[c], lit)
        got == Collect(st, sch, tab.root, wheres)
    IN  \/ UpdateStops(sch, st, tab, c, lit, wheres) /\ a.st = st /\ a.tab = tab /\ a.rc = -1
        \/ /\ ~UpdateStops(sch, st, tab, c, lit, wheres)
           /\ got \in Seq(LeafEntry) /\ ToSet(got) \subseteq Ent(st, tab.root)
           /\ Settable(n, c, v) /\ SetSo(n, c, v, st, tab, got, Len(got), a)

\* An accepted literal of UPDATE makes a cell of the column.
LEMMA MaySet ==
  ASSUME NEW n \in Names, NEW set \in SetLits[n], set[1] \in ColNos(Schemas[n]),
         ~LitRefused(Schemas[n].cols[set[1]], set[2])
  PROVE  Settable(n, set[1], Value(Schemas[n].cols[set[1]], set[2]))
<1> DEFINE c == set[1]
           lit == set[2]
           col == Schemas[n].cols[c]
           v == Value(col, lit)
<1>1. ASSUME Encodable(v), v = Null => Schemas[n].nullmap PROVE v \in CellsOf(n, c)
  <2>1. lit \in Lits(n, c)
    BY DEF Lits
  <2>2. lit \in {l \in Lits(n, c) : ~LitRefused(Schemas[n].cols[c], l) /\ Encodable(Value(Schemas[n].cols[c], l))}
    BY <1>1, <2>1
  <2>3. StoredAs(n, c, lit) = v
    BY <1>1 DEF StoredAs
  <2>4. QED
    BY <2>2, <2>3 DEF CellsOf
<1>2. c \in ColNos(Schemas[n])
  OBVIOUS
<1>3. QED
  BY <1>1, <1>2 DEF Settable

\* exec_write on UPDATE.
LEMMA Updating ==
  ASSUME HalvesFit, NEW n, NEW st, NEW tab, Holding(n, st, tab), ChainReadable(st, tab.root),
         NEW set \in SetLits[n], NEW wheres
  PROVE  UpdateDone(n, st, tab, set[1], set[2], wheres,
                    ExecUpdate(st, Schemas[n], tab, set[1], set[2], wheres))
<1> DEFINE sch == Schemas[n]
           c   == set[1]
           lit == set[2]
           v   == Value(sch.cols[c], lit)
           got == Collect(st, sch, tab.root, wheres)
           a   == ExecUpdate(st, sch, tab, c, lit, wheres)
           stops == UpdateStops(sch, st, tab, c, lit, wheres)
<1>1. a = IF stops THEN Answer(st, tab, -1) ELSE SetRows(st, sch, tab, got, c, v)
  BY DEF ExecUpdate, UpdateStops
<1>2. n \in Names /\ Stands(st, tab.root)
  BY DEF Holding
<1>3. got \in Seq(LeafEntry) /\ ToSet(got) \subseteq Ent(st, tab.root)
  BY <1>2, CollectedRows
<1>4. ~stops => Settable(n, c, v)
  BY <1>2, MaySet DEF UpdateStops
<1> HIDE DEF a, stops, got, v, c
<1>5. CASE stops
  <2>1. a.st = st /\ a.tab = tab /\ a.rc = -1
    BY <1>1, <1>5, Nothing
  <2>2. UpdateDone(n, st, tab, c, lit, wheres, a)
    BY <1>5, <2>1 DEF UpdateDone, stops
  <2>3. QED
    BY <2>2 DEF a, c
<1>6. CASE ~stops
  <2>1. Settable(n, c, v) /\ a = SetRows(st, sch, tab, got, c, v)
    BY <1>1, <1>4, <1>6
  <2>2. SetSo(n, c, v, st, tab, got, Len(got), a)
    BY <1>3, <2>1, Setting
  <2>3. UpdateDone(n, st, tab, c, lit, wheres, a)
    BY <1>3, <1>6, <2>1, <2>2 DEF UpdateDone, stops, got, v
  <2>4. QED
    BY <2>3 DEF a, c
<1>7. QED
  BY <1>5, <1>6

\* DELETE.
DeleteDone(n, st, tab, wheres, a) ==
    LET sch == Schemas[n]
        got == Collect(st, sch, tab.root, wheres)
    IN  \/ (\E w \in wheres : BadClause(sch, w)) /\ a.st = st /\ a.tab = tab /\ a.rc = -1
        \/ /\ ~\E w \in wheres : BadClause(sch, w)
           /\ got \in Seq(LeafEntry) /\ ToSet(got) \subseteq Ent(st, tab.root)
           /\ DropSo(st, tab, got, Len(got), a)

\* exec_write on DELETE.
LEMMA Deleting ==
  ASSUME NEW n, NEW st, NEW tab, Holding(n, st, tab), ChainReadable(st, tab.root), NEW wheres
  PROVE  DeleteDone(n, st, tab, wheres, ExecDelete(st, Schemas[n], tab, wheres))
<1> DEFINE sch == Schemas[n]
           got == Collect(st, sch, tab.root, wheres)
           a   == ExecDelete(st, sch, tab, wheres)
           bad == \E w \in wheres : BadClause(sch, w)
<1>1. a = IF bad THEN Answer(st, tab, -1) ELSE DropRows(st, tab, got)
  BY DEF ExecDelete
<1>2. Stands(st, tab.root)
  BY DEF Holding
<1>3. got \in Seq(LeafEntry) /\ ToSet(got) \subseteq Ent(st, tab.root)
  BY <1>2, CollectedRows
<1> HIDE DEF a, bad, got
<1>4. CASE bad
  <2>1. a.st = st /\ a.tab = tab /\ a.rc = -1
    BY <1>1, <1>4, Nothing
  <2>2. DeleteDone(n, st, tab, wheres, a)
    BY <1>4, <2>1 DEF DeleteDone, bad
  <2>3. QED
    BY <2>2 DEF a
<1>5. CASE ~bad
  <2>1. DropSo(st, tab, got, Len(got), a)
    BY <1>1, <1>3, <1>5, DroppingRows
  <2>2. DeleteDone(n, st, tab, wheres, a)
    BY <1>3, <1>5, <2>1 DEF DeleteDone, bad, got
  <2>3. QED
    BY <2>2 DEF a
<1>6. QED
  BY <1>4, <1>5

\* INSERT.
InsertStops(sch, st, tab, lits) ==
    LET vals == [c \in DOMAIN lits |-> Value(sch.cols[c], lits[c])]
    IN  \/ Len(lits) # Len(sch.cols)
        \/ \E c \in ColNos(sch) : LitRefused(sch.cols[c], lits[c])
        \/ \E c \in ColNos(sch) : /\ vals[c] # Null
                                  /\ MustBeUnique(sch.cols[c])
                                  /\ ValueExists(st, sch, tab.root, c, vals[c])
        \/ sch.nullmap /\ \E c \in ColNos(sch) : ~Encodable(vals[c])

SplitFor(n, lits, st, tab) == MustSplit(st, tab.root, tab.seq, EncodeRow(Schemas[n], Vals(n, lits)))

\* exec_insert.
LEMMA Filling ==
  ASSUME HalvesFit, NEW n, NEW st, NEW tab, Holding(n, st, tab), tab.seq \in Keys, NEW lits \in InsertLits[n],
         ExecInsert(st, Schemas[n], tab, lits).rc = 0 /\ SplitFor(n, lits, st, tab) => Whole(st, tab.root),
         ExecInsert(st, Schemas[n], tab, lits).rc # Fault
  PROVE  LET a == ExecInsert(st, Schemas[n], tab, lits)
         IN  \/ InsertStops(Schemas[n], st, tab, lits) /\ a.st = st /\ a.tab = tab /\ a.rc = -1
             \/ ~InsertStops(Schemas[n], st, tab, lits) /\ Accepted(n, lits) /\ InsertDone(n, lits, st, tab, a)
<1> DEFINE sch == Schemas[n]
           a   == ExecInsert(st, sch, tab, lits)
           stops == InsertStops(sch, st, tab, lits)
           vals == Vals(n, lits)
<1>1. a = IF stops THEN Answer(st, tab, -1) ELSE InsertRow(st, sch, tab, vals)
  BY DEF ExecInsert, InsertStops, Vals
<1>2. n \in Names /\ Stands(st, tab.root) /\ ~BadSchema(sch) /\ Rows(n, tab.seq, Ent(st, tab.root))
  BY DEF Holding
<1>3. ASSUME ~stops PROVE Accepted(n, lits)
  <2>1. Len(lits) = Len(sch.cols) /\ \A c \in ColNos(sch) : ~LitRefused(sch.cols[c], lits[c])
    BY <1>3 DEF InsertStops
  <2>2. DOMAIN lits = ColNos(sch)
    BY <1>2, <2>1, LitAssumption DEF ColNos
  <2>3. sch.nullmap => \A c \in ColNos(sch) : Encodable(Value(sch.cols[c], lits[c]))
    <3>1. \A c \in ColNos(sch) :
             [d \in DOMAIN lits |-> Value(sch.cols[d], lits[d])][c] = Value(sch.cols[c], lits[c])
      BY <2>2
    <3>2. QED
      BY <1>3, <3>1 DEF InsertStops
  <2>4. QED
    BY <2>1, <2>3 DEF Accepted
<1>4. a.rc # Fault /\ (a.rc = 0 /\ SplitFor(n, lits, st, tab) => Whole(st, tab.root))
  OBVIOUS
<1> HIDE DEF a, stops, vals
<1>5. CASE stops
  <2>1. a.st = st /\ a.tab = tab /\ a.rc = -1
    BY <1>1, <1>5, Nothing
  <2>2. QED
    BY <1>5, <2>1 DEF a, stops
<1>6. CASE ~stops
  <2>1. a = InsertRow(st, sch, tab, vals) /\ Accepted(n, lits)
    BY <1>1, <1>3, <1>6
  <2>2. a.rc = 0
    BY <1>4, <2>1 DEF InsertRow, Answer
  <2>3. InsertDone(n, lits, st, tab, a)
    BY <1>2, <1>4, <2>1, <2>2, Inserting DEF SplitFor, vals
  <2>4. QED
    BY <1>6, <2>1, <2>3 DEF a, stops
<1>7. QED
  BY <1>5, <1>6

\* What every statement on a table does to its tree.
Touched(n, st, tab, a) ==
    /\ a.rc \in {0, -1} /\ TabOk(n, a.st, a.tab)
    /\ Sound(st, tab.root, a.st, a.tab.root) /\ TreeCount(st, tab.root) <= TreeCount(a.st, a.tab.root)
    /\ Out(a.st, a.tab.root) \subseteq Out(st, tab.root) \/ Left(st) < 2

\* A refused statement touches nothing.
LEMMA TouchedNot ==
  ASSUME NEW n, NEW st, NEW tab, TabOk(n, st, tab), NEW a, a.st = st, a.tab = tab, a.rc \in {0, -1}
  PROVE  Touched(n, st, tab, a)
<1>1. Stands(st, tab.root)
  BY DEF TabOk, Holding
<1>2. Sound(st, tab.root, st, tab.root)
  BY <1>1, SoundSame
<1>3. TreeCount(st, tab.root) \in Nat
  BY <1>1, UsedSplit DEF Stands
<1>4. TreeCount(st, tab.root) <= TreeCount(st, tab.root)
  BY <1>3
<1>5. QED
  BY <1>2, <1>4 DEF Touched

\* An edited tree, with rows of the table, is touched so.
LEMMA TouchedBy ==
  ASSUME NEW n, NEW st, NEW tab, TabOk(n, st, tab), NEW a \in Answers(tab.seq), a.rc \in {0, -1},
         Edits(st, tab.root, a.st, a.tab.root), Rows(n, tab.seq, Ent(a.st, a.tab.root))
  PROVE  Touched(n, st, tab, a)
<1>1. Stands(st, tab.root) /\ SeqOk(tab) /\ n \in Names /\ ~BadSchema(Schemas[n])
  BY DEF TabOk, Holding
<1>2. a.tab = [root |-> a.tab.root, seq |-> tab.seq]
  BY AnswerOf
<1> DEFINE seq == tab.seq
           root == a.tab.root
<1>3. a.tab.seq = seq /\ a.tab = [root |-> root, seq |-> seq]
  BY <1>2
<1>4. Stands(a.st, root) /\ Rows(n, seq, Ent(a.st, root))
  BY DEF Edits
<1> HIDE DEF seq, root
<1>5. a.tab.root = root /\ a.tab = [root |-> a.tab.root, seq |-> a.tab.seq]
  BY <1>3
<1>6. SeqOk(a.tab)
  BY <1>1, <1>3 DEF SeqOk, seq
<1>7. TabOk(n, a.st, a.tab)
  BY <1>1, <1>3, <1>4, <1>5, <1>6 DEF TabOk, Holding
<1>8. TreeCount(st, tab.root) \in Nat
  BY <1>1, UsedSplit DEF Stands
<1>9. TreeCount(st, tab.root) <= TreeCount(a.st, a.tab.root)
  BY <1>8 DEF Edits
<1>10. QED
  BY <1>7, <1>9 DEF Touched, Edits

\* UPDATE touches its table only.
LEMMA UpdateTouches ==
  ASSUME NEW n, NEW st, NEW tab, TabOk(n, st, tab), NEW c, NEW lit, NEW wheres,
         NEW a, UpdateDone(n, st, tab, c, lit, wheres, a), a.rc # Fault
  PROVE  Touched(n, st, tab, a) /\ (Whole(st, tab.root) => Whole(a.st, a.tab.root))
<1> DEFINE v   == Value(Schemas[n].cols[c], lit)
           got == Collect(st, Schemas[n], tab.root, wheres)
<1>1. CASE a.st = st /\ a.tab = tab /\ a.rc = -1
  BY <1>1, TouchedNot
<1>2. ASSUME SetSo(n, c, v, st, tab, got, Len(got), a)
      PROVE  Touched(n, st, tab, a) /\ (Whole(st, tab.root) => Whole(a.st, a.tab.root))
  <2> HIDE DEF v, got
  <2>1. a \in Answers(tab.seq) /\ Edits(st, tab.root, a.st, a.tab.root) /\ Rows(n, tab.seq, Ent(a.st, a.tab.root))
    BY <1>2 DEF SetSo, SetUpto
  <2>2. a.rc \in {0, -1}
    BY <2>1, AnswerOf
  <2>3. Touched(n, st, tab, a)
    BY <2>1, <2>2, TouchedBy
  <2>4. QED
    BY <2>1, <2>3 DEF Edits
<1>3. QED
  BY <1>1, <1>2 DEF UpdateDone

\* DELETE touches its table only.
LEMMA DeleteTouches ==
  ASSUME NEW n, NEW st, NEW tab, TabOk(n, st, tab), NEW wheres,
         NEW a, DeleteDone(n, st, tab, wheres, a)
  PROVE  Touched(n, st, tab, a) /\ (Whole(st, tab.root) => Whole(a.st, a.tab.root))
<1> DEFINE got == Collect(st, Schemas[n], tab.root, wheres)
<1>1. CASE a.st = st /\ a.tab = tab /\ a.rc = -1
  BY <1>1, TouchedNot
<1>2. ASSUME DropSo(st, tab, got, Len(got), a)
      PROVE  Touched(n, st, tab, a) /\ (Whole(st, tab.root) => Whole(a.st, a.tab.root))
  <2> HIDE DEF got
  <2>1. /\ a \in Answers(tab.seq) /\ Edits(st, tab.root, a.st, a.tab.root) /\ a.rc \in {0, -1}
        /\ Ent(a.st, a.tab.root) \subseteq Ent(st, tab.root)
    BY <1>2 DEF DropSo, Dropped
  <2>2. Rows(n, tab.seq, Ent(a.st, a.tab.root))
    BY <2>1 DEF TabOk, Holding, Rows
  <2>3. Touched(n, st, tab, a)
    BY <2>1, <2>2, TouchedBy
  <2>4. QED
    BY <2>1, <2>3 DEF Edits
<1>3. QED
  BY <1>1, <1>2 DEF DeleteDone

\* INSERT touches its table only, and splits a leaf only where MustSplit says.
LEMMA InsertTouches ==
  ASSUME NEW n, NEW st, NEW tab, TabOk(n, st, tab), tab.seq \in Keys, NEW lits, NEW a,
         \/ a.st = st /\ a.tab = tab /\ a.rc = -1
         \/ InsertDone(n, lits, st, tab, a)
  PROVE  /\ Touched(n, st, tab, a)
         /\ ~(a.rc = 0 /\ SplitFor(n, lits, st, tab)) => (Whole(st, tab.root) => Whole(a.st, a.tab.root))
<1>1. CASE a.st = st /\ a.tab = tab /\ a.rc = -1
  BY <1>1, TouchedNot
<1>2. CASE InsertDone(n, lits, st, tab, a)
  <2>1. /\ a.rc = 0 /\ a.tab = [root |-> a.tab.root, seq |-> tab.seq + 1]
        /\ Stands(a.st, a.tab.root) /\ Sound(st, tab.root, a.st, a.tab.root)
        /\ TreeCount(st, tab.root) <= TreeCount(a.st, a.tab.root)
        /\ Out(a.st, a.tab.root) \subseteq Out(st, tab.root) \/ Left(st) < 2
        /\ ~SplitFor(n, lits, st, tab) => (Whole(st, tab.root) => Whole(a.st, a.tab.root))
        /\ Rows(n, tab.seq + 1, Ent(a.st, a.tab.root))
    BY <1>2 DEF InsertDone, SplitFor
  <2>2. n \in Names /\ ~BadSchema(Schemas[n])
    BY DEF TabOk, Holding
  <2>3. Cardinality(Keys) \in Nat /\ Keys = 1 .. Cardinality(Keys)
    BY RowidAssumption, FS_CardinalityType
  <2>4. tab.seq + 1 \in 1 .. Cardinality(Keys) + 1
    BY <2>3
  <2> DEFINE seq == tab.seq + 1
             root == a.tab.root
  <2>5. a.tab = [root |-> root, seq |-> seq] /\ a.tab.seq = seq /\ a.tab.root = root
    BY <2>1
  <2> HIDE DEF seq, root
  <2>6. SeqOk(a.tab)
    BY <2>4, <2>5 DEF SeqOk, seq
  <2>7. Holding(n, a.st, a.tab)
    BY <2>1, <2>2, <2>5 DEF Holding, seq, root
  <2>8. Touched(n, st, tab, a)
    BY <2>1, <2>6, <2>7 DEF Touched, TabOk
  <2>9. QED
    BY <2>1, <2>8
<1>3. QED
  BY <1>1, <1>2

----------------------------------------------------------------------------
(* Steps.                                                                 *)

\* A step that leaves all tables, and a step on one of them.
Refusal == store' = store /\ tabs' = tabs /\ last'.rc = -1
OnTable(n, a) ==
    /\ n \in DOMAIN tabs /\ store' = a.st /\ tabs' = [tabs EXCEPT ![n] = a.tab] /\ last'.rc = a.rc
    /\ Touched(n, store, tabs[n], a)
    /\ splits' = 0 => (Whole(store, tabs[n].root) => Whole(a.st, a.tab.root))
SplitsKept == splits' \in 0 .. MaxSplits /\ (splits' = 0 => splits = 0)

\* An UPDATE is a refusal or a step on its table.
LEMMA UpdatesTable ==
  ASSUME HalvesFit, TableInv, NEW n \in Names, NEW set \in SetLits[n], NEW wheres, Update(n, set, wheres)
  PROVE  SplitsKept /\ (Refusal \/ \E a : OnTable(n, a))
<1>1. SplitsKept
  BY DEF Update, TableInv, SplitsKept
<1>2. CASE ~Known(n)
  <2>1. Done(n, "update", set, wheres, Unknown) /\ n \notin DOMAIN tabs
    BY <1>2 DEF Update, Known
  <2>2. Refusal
    BY <2>1, Nothing DEF Done, Refusal, Unknown
  <2>3. QED
    BY <1>1, <2>2
<1>3. CASE Known(n)
  <2> DEFINE a == ExecUpdate(store, Schemas[n], tabs[n], set[1], set[2], wheres)
  <2>1. /\ n \in DOMAIN tabs /\ ChainReadable(store, tabs[n].root)
        /\ a.rc # Fault /\ store' = a.st /\ tabs' = [tabs EXCEPT ![n] = a.tab] /\ last'.rc = a.rc
    BY <1>3 DEF Update, Known, Readable, Done
  <2>2. TabOk(n, store, tabs[n]) /\ Holding(n, store, tabs[n])
    BY <2>1 DEF TableInv, AllOk, TabOk
  <2> DEFINE tab == tabs[n]
  <2> HIDE DEF tab
  <2>3. UpdateDone(n, store, tabs[n], set[1], set[2], wheres, a)
    BY <2>1, <2>2, Updating
  <2> HIDE DEF a
  <2>4. Touched(n, store, tabs[n], a) /\ (Whole(store, tabs[n].root) => Whole(a.st, a.tab.root))
    BY <2>1, <2>2, <2>3, UpdateTouches
  <2>5. OnTable(n, a)
    BY <2>1, <2>4 DEF OnTable
  <2>6. QED
    BY <1>1, <2>5
<1>4. QED
  BY <1>2, <1>3

\* A DELETE is a refusal or a step on its table.
LEMMA DeleteStep ==
  ASSUME TableInv, NEW n \in Names, NEW wheres, DeleteFrom(n, wheres)
  PROVE  SplitsKept /\ (Refusal \/ \E a : OnTable(n, a))
<1>1. SplitsKept
  BY DEF DeleteFrom, TableInv, SplitsKept
<1>2. CASE ~Known(n)
  <2>1. Done(n, "delete", <<>>, wheres, Unknown) /\ n \notin DOMAIN tabs
    BY <1>2 DEF DeleteFrom, Known
  <2>2. Refusal
    BY <2>1, Nothing DEF Done, Refusal, Unknown
  <2>3. QED
    BY <1>1, <2>2
<1>3. CASE Known(n)
  <2> DEFINE a == ExecDelete(store, Schemas[n], tabs[n], wheres)
  <2>1. /\ n \in DOMAIN tabs /\ ChainReadable(store, tabs[n].root)
        /\ store' = a.st /\ tabs' = [tabs EXCEPT ![n] = a.tab] /\ last'.rc = a.rc
    BY <1>3 DEF DeleteFrom, Known, Readable, Done
  <2>2. TabOk(n, store, tabs[n]) /\ Holding(n, store, tabs[n])
    BY <2>1 DEF TableInv, AllOk, TabOk
  <2>3. DeleteDone(n, store, tabs[n], wheres, a)
    BY <2>1, <2>2, Deleting
  <2> HIDE DEF a
  <2>4. Touched(n, store, tabs[n], a) /\ (Whole(store, tabs[n].root) => Whole(a.st, a.tab.root))
    BY <2>2, <2>3, DeleteTouches
  <2>5. OnTable(n, a)
    BY <2>1, <2>4 DEF OnTable
  <2>6. QED
    BY <1>1, <2>5
<1>4. QED
  BY <1>2, <1>3

\* What the statement makes of the table when it is INSERT.
Filled(n, lits, st, tab, a) ==
    \/ InsertStops(Schemas[n], st, tab, lits) /\ a.st = st /\ a.tab = tab /\ a.rc = -1
    \/ ~InsertStops(Schemas[n], st, tab, lits) /\ Accepted(n, lits) /\ InsertDone(n, lits, st, tab, a)

\* INSERT on a table of the database: a split is the history's first.
LEMMA InsertKnown ==
  ASSUME HalvesFit, MaxSplits <= 1, TableInv, NEW n \in Names, NEW lits \in InsertLits[n], InsertInto(n, lits), Known(n)
  PROVE  LET a == ExecInsert(store, Schemas[n], tabs[n], lits)
         IN  /\ n \in DOMAIN tabs /\ store' = a.st /\ tabs' = [tabs EXCEPT ![n] = a.tab] /\ last'.rc = a.rc
             /\ TabOk(n, store, tabs[n]) /\ tabs[n].seq \in Keys
             /\ IF a.rc = 0 /\ SplitFor(n, lits, store, tabs[n]) THEN splits = 0 /\ splits' = 1 /\ 1 <= MaxSplits
                ELSE splits' = splits
             /\ Filled(n, lits, store, tabs[n], a)
<1> DEFINE a == ExecInsert(store, Schemas[n], tabs[n], lits)
           split == last'.rc = 0 /\ SplitFor(n, lits, store, tabs[n])
<1>1. /\ n \in DOMAIN tabs /\ tabs[n].seq \in Keys
      /\ Done(n, "insert", lits, {}, a)
      /\ split => splits < MaxSplits
      /\ splits' = IF split THEN splits + 1 ELSE splits
  BY DEF InsertInto, Known, SplitFor, Vals
<1>2. /\ a.rc # Fault /\ store' = a.st /\ tabs' = [tabs EXCEPT ![n] = a.tab] /\ last'.rc = a.rc
  BY <1>1 DEF Done
<1>3. TabOk(n, store, tabs[n]) /\ Holding(n, store, tabs[n])
  BY <1>1 DEF TableInv, AllOk, TabOk
<1>4. splits \in 0 .. MaxSplits /\ (splits = 0 => AllWhole(store, tabs)) /\ MaxSplits \in Nat
  BY BoundAssumption DEF TableInv
<1>5. split => splits = 0 /\ splits' = 1 /\ 1 <= MaxSplits /\ Whole(store, tabs[n].root)
  <2> HIDE DEF split
  <2>1. split => splits = 0 /\ splits' = 1 /\ 1 <= MaxSplits
    BY <1>1, <1>4
  <2>2. splits = 0 => Whole(store, tabs[n].root)
    BY <1>1, <1>4 DEF AllWhole
  <2>3. QED
    BY <2>1, <2>2
<1>6. a.rc = 0 /\ SplitFor(n, lits, store, tabs[n]) => Whole(store, tabs[n].root)
  BY <1>2, <1>5
<1>7. Filled(n, lits, store, tabs[n], a)
  BY <1>1, <1>2, <1>3, <1>6, Filling DEF Filled
<1> HIDE DEF a
<1>8. IF a.rc = 0 /\ SplitFor(n, lits, store, tabs[n]) THEN splits = 0 /\ splits' = 1 /\ 1 <= MaxSplits
      ELSE splits' = splits
  BY <1>1, <1>2, <1>5
<1>9. QED
  BY <1>1, <1>2, <1>3, <1>7, <1>8 DEF a

\* An INSERT is a refusal or a step on its table.
LEMMA InsertStep ==
  ASSUME HalvesFit, MaxSplits <= 1, TableInv, NEW n \in Names, NEW lits \in InsertLits[n], InsertInto(n, lits)
  PROVE  SplitsKept /\ (Refusal \/ \E a : OnTable(n, a))
<1>1. CASE ~Known(n)
  <2>1. Done(n, "insert", lits, {}, Unknown) /\ n \notin DOMAIN tabs
    BY <1>1 DEF InsertInto, Known
  <2>2. Refusal
    BY <2>1, Nothing DEF Done, Refusal, Unknown
  <2>3. last'.rc # 0
    BY <2>2 DEF Refusal
  <2>4. splits' = splits
    BY <2>3 DEF InsertInto
  <2>5. SplitsKept
    BY <2>4 DEF TableInv, SplitsKept
  <2>6. QED
    BY <2>2, <2>5
<1>2. CASE Known(n)
  <2> DEFINE a == ExecInsert(store, Schemas[n], tabs[n], lits)
  <2>1. /\ n \in DOMAIN tabs /\ store' = a.st /\ tabs' = [tabs EXCEPT ![n] = a.tab] /\ last'.rc = a.rc
        /\ TabOk(n, store, tabs[n]) /\ tabs[n].seq \in Keys
        /\ IF a.rc = 0 /\ SplitFor(n, lits, store, tabs[n]) THEN splits = 0 /\ splits' = 1 /\ 1 <= MaxSplits
           ELSE splits' = splits
        /\ Filled(n, lits, store, tabs[n], a)
    BY <1>2, InsertKnown
  <2> HIDE DEF a
  <2>2. /\ Touched(n, store, tabs[n], a)
        /\ ~(a.rc = 0 /\ SplitFor(n, lits, store, tabs[n])) => (Whole(store, tabs[n].root) => Whole(a.st, a.tab.root))
    BY <2>1, InsertTouches DEF Filled
  <2>3. SplitsKept
    <3>1. splits \in 0 .. MaxSplits /\ MaxSplits \in Nat
      BY BoundAssumption DEF TableInv
    <3>2. QED
      BY <2>1, <3>1 DEF SplitsKept
  <2>4. OnTable(n, a)
    BY <2>1, <2>2 DEF OnTable
  <2>5. QED
    BY <2>3, <2>4
<1>3. QED
  BY <1>1, <1>2

\* A step on one table keeps the invariant.
LEMMA OnTableKeeps ==
  ASSUME TableInv, SplitsKept, NEW n, NEW a, OnTable(n, a)
  PROVE  TableInv'
<1> DEFINE us == [tabs EXCEPT ![n] = a.tab]
<1>1. /\ n \in DOMAIN tabs /\ store' = a.st /\ tabs' = us /\ last'.rc = a.rc
      /\ Touched(n, store, tabs[n], a)
      /\ splits' = 0 => (Whole(store, tabs[n].root) => Whole(a.st, a.tab.root))
  BY DEF OnTable
<1>2. /\ a.rc \in {0, -1} /\ TabOk(n, a.st, a.tab) /\ Sound(store, tabs[n].root, a.st, a.tab.root)
  BY <1>1 DEF Touched
<1>3. AllOk(store, tabs) /\ (splits = 0 => AllWhole(store, tabs))
  BY DEF TableInv
<1>4. /\ AllOk(a.st, us)
      /\ AllWhole(store, tabs) /\ (Whole(store, tabs[n].root) => Whole(a.st, a.tab.root)) => AllWhole(a.st, us)
  BY <1>1, <1>2, <1>3, OneChanged
<1> HIDE DEF us
<1>5. AllOk(store', tabs') /\ (splits' = 0 => AllWhole(store', tabs'))
  BY <1>1, <1>3, <1>4 DEF SplitsKept
<1>6. splits' \in 0 .. MaxSplits /\ last'.rc \in {0, -1}
  BY <1>1, <1>2 DEF SplitsKept
<1>7. QED
  BY <1>5, <1>6 DEF TableInv

\* A refused statement keeps it.
LEMMA RefusalKeeps ==
  ASSUME TableInv, SplitsKept, Refusal
  PROVE  TableInv'
  BY DEF TableInv, SplitsKept, Refusal

\* CREATE TABLE keeps it.
LEMMA CreateKeeps ==
  ASSUME TableInv, NEW n \in Names, CreateTable(n)
  PROVE  TableInv'
<1> DEFINE c == Create(store)
           us == [m \in DOMAIN tabs \cup {n} |-> IF m = n THEN [root |-> c.root, seq |-> 1] ELSE tabs[m]]
           refused == \/ Cardinality(DOMAIN tabs) >= MaxTables
                      \/ Known(n)
                      \/ BadSchema(Schemas[n])
<1>1. /\ store' = IF refused THEN store ELSE c.st
      /\ tabs' = IF refused THEN tabs ELSE us
      /\ last' = [NoStmt EXCEPT !.kind = "create", !.tab = n, !.rc = IF refused THEN -1 ELSE 0]
      /\ splits' = splits
  BY DEF CreateTable
<1>2. last'.rc \in {0, -1}
  BY <1>1 DEF NoStmt
<1>3. AllOk(store, tabs) /\ (splits = 0 => AllWhole(store, tabs)) /\ splits \in 0 .. MaxSplits
  BY DEF TableInv
<1>4. ~refused => AllOk(c.st, us) /\ (AllWhole(store, tabs) => AllWhole(c.st, us))
  <2>1. ~refused => n \notin DOMAIN tabs /\ ~BadSchema(Schemas[n])
    BY DEF Known
  <2>2. QED
    BY <1>3, <2>1, TableAdded
<1> HIDE DEF c, us, refused
<1>5. AllOk(store', tabs') /\ (splits' = 0 => AllWhole(store', tabs')) /\ splits' \in 0 .. MaxSplits
  BY <1>1, <1>3, <1>4
<1>6. QED
  BY <1>2, <1>5 DEF TableInv

\* CREATE INDEX keeps it.
LEMMA IndexKeeps ==
  ASSUME TableInv, NEW n \in Names, CreateIndex(n)
  PROVE  TableInv'
<1> DEFINE c == Create(store)
<1>1. /\ store' = IF Known(n) THEN c.st ELSE store
      /\ last' = [NoStmt EXCEPT !.kind = "index", !.tab = n, !.rc = IF Known(n) THEN 0 ELSE -1]
      /\ tabs' = tabs /\ splits' = splits
  BY DEF CreateIndex
<1>2. last'.rc \in {0, -1}
  BY <1>1 DEF NoStmt
<1>3. AllOk(store, tabs) /\ (splits = 0 => AllWhole(store, tabs)) /\ splits \in 0 .. MaxSplits /\ Good(store)
  BY DEF TableInv, AllOk
<1>4. AllOk(c.st, tabs) /\ (AllWhole(store, tabs) => AllWhole(c.st, tabs))
  <2>1. Kept(store, c.st)
    BY <1>3, TreeCreated DEF NewTree
  <2> HIDE DEF c
  <2>2. QED
    BY <1>3, <2>1, TablesKept
<1> HIDE DEF c
<1>5. AllOk(store', tabs') /\ (splits' = 0 => AllWhole(store', tabs')) /\ splits' \in 0 .. MaxSplits
  BY <1>1, <1>3, <1>4
<1>6. QED
  BY <1>2, <1>5 DEF TableInv

\* Every step keeps it.
LEMMA NextKeeps ==
  ASSUME HalvesFit, MaxSplits <= 1, TableInv, [Next]_vars
  PROVE  TableInv'
<1>1. CASE UNCHANGED vars
  BY <1>1 DEF vars, TableInv
<1>2. ASSUME NEW n \in Names, CreateTable(n) PROVE TableInv'
  BY <1>2, CreateKeeps
<1>3. ASSUME NEW n \in Names, CreateIndex(n) PROVE TableInv'
  BY <1>3, IndexKeeps
<1>4. ASSUME NEW n \in Names, NEW lits \in InsertLits[n], InsertInto(n, lits) PROVE TableInv'
  <2>1. SplitsKept /\ (Refusal \/ \E a : OnTable(n, a))
    BY <1>4, InsertStep
  <2>2. QED
    BY <2>1, OnTableKeeps, RefusalKeeps
<1>5. ASSUME NEW n \in Names, NEW set \in SetLits[n], NEW wheres, Update(n, set, wheres) PROVE TableInv'
  <2>1. SplitsKept /\ (Refusal \/ \E a : OnTable(n, a))
    BY <1>5, UpdatesTable
  <2>2. QED
    BY <2>1, OnTableKeeps, RefusalKeeps
<1>6. ASSUME NEW n \in Names, NEW wheres, DeleteFrom(n, wheres) PROVE TableInv'
  <2>1. SplitsKept /\ (Refusal \/ \E a : OnTable(n, a))
    BY <1>6, DeleteStep
  <2>2. QED
    BY <2>1, OnTableKeeps, RefusalKeeps
<1>7. QED
  BY <1>1, <1>2, <1>3, <1>4, <1>5, <1>6 DEF Next

\* Every statement keeps the tables' trees in order and apart from one another,
\* and leaves only rows that read back as the cells stored: exec_insert,
\* exec_write and exec_ddl on the trees of btree.c.
THEOREM TableInvariant ==
  ASSUME HalvesFit, MaxSplits <= 1
  PROVE  Spec => []TableInv
<1>1. Init => TableInv
  BY Starting
<1>2. TableInv /\ [Next]_vars => TableInv'
  BY NextKeeps
<1>3. QED
  BY <1>1, <1>2, PTL DEF Spec

\* The types follow from it.
LEMMA InvTypes == TableInv => TypeOK
<1>1. SUFFICES ASSUME TableInv PROVE TypeOK
  OBVIOUS
<1>2. Good(store) /\ AllOk(store, tabs)
  BY <1>1 DEF TableInv, AllOk
<1>3. store \in StoresOf(NodePage) /\ Len(store.pages) < MaxPages /\ FreePages(store, Unused(store))
  BY <1>2 DEF Good, Listed
<1>4. /\ Len(store.pages) \in Nat /\ PageNos(store) = 1 .. Len(store.pages)
      /\ store.head \in 0 .. Len(store.pages)
  <2>1. PICK s \in Seq(PageNos(store)) : IsFreeList(store, s)
    BY <1>3 DEF FreePages
  <2>2. store.pages \in Seq(NodePage)
    BY <1>3, StoreTypes
  <2>3. Len(store.pages) \in Nat /\ PageNos(store) = 1 .. Len(store.pages)
    BY <2>2, LenProperties DEF PageNos
  <2>4. store.head = IF s = <<>> THEN 0 ELSE s[Len(s)]
    BY <2>1 DEF IsFreeList
  <2>5. s # <<>> => s[Len(s)] \in PageNos(store)
    <3> DEFINE P == PageNos(store)
    <3>1. s \in Seq(P)
      OBVIOUS
    <3> HIDE DEF P
    <3>2. s # <<>> => s[Len(s)] \in P
      BY <3>1, LenProperties, EmptySeq
    <3>3. QED
      BY <3>2 DEF P
  <2>6. QED
    BY <2>3, <2>4, <2>5
<1>5. ASSUME NEW n \in DOMAIN tabs
      PROVE  /\ n \in Names /\ tabs[n].root \in 0 .. Len(store.pages)
             /\ tabs[n].seq \in 1 .. Cardinality(Keys) + 1
  <2>1. n \in Names /\ SmallTree(store, tabs[n].root) /\ SeqOk(tabs[n])
    BY <1>2 DEF AllOk, TabOk, Holding, Stands
  <2>2. tabs[n].root = 0 \/ tabs[n].root \in PageNos(store)
    BY <2>1 DEF SmallTree, LeafAt, ForkAt
  <2>3. QED
    BY <1>4, <2>1, <2>2 DEF SeqOk
<1>6. last.rc \in {0, -1} /\ splits \in 0 .. MaxSplits
  BY <1>1 DEF TableInv
<1>7. QED
  BY <1>3, <1>4, <1>5, <1>6 DEF TypeOK

\* The types of Table's variables: roots are pages of the file, and rowid_seq
\* stays in its range.
THEOREM TableTypes ==
  ASSUME HalvesFit, MaxSplits <= 1
  PROVE  Spec => []TypeOK
<1>1. TableInv => TypeOK
  BY InvTypes
<1>2. Spec => []TableInv
  BY TableInvariant
<1>3. QED
  BY <1>1, <1>2, PTL

----------------------------------------------------------------------------
(* Pages that are lost.                                                   *)

\* The pages in use that belong to no table.
TreesOf(st, ts) == UNION {TreePages(st, ts[n].root) : n \in DOMAIN ts}
Astray(st, ts) == Used(st) \ TreesOf(st, ts)

\* A page is in use or not.
LEMMA UsedOrNot ==
  ASSUME NEW st, Good(st)
  PROVE  PageNos(st) = Used(st) \cup Unused(st) /\ Used(st) \cap Unused(st) = {}
<1>1. st \in StoresOf(NodePage)
  BY DEF Good, Listed
<1>2. \A pn \in PageNos(st) : st.pages[pn].word \in Nat \cup {LeafWord, BranchWord}
  BY <1>1, NodeTypes
<1>3. LeafWord \notin Nat /\ BranchWord \notin Nat
  BY DEF LeafWord, BranchWord
<1>4. QED
  BY <1>2, <1>3 DEF Used, Unused

\* Lost pages are those in use that belong to no table.
LEMMA LostIs ==
  ASSUME NEW st, NEW ts, AllOk(st, ts)
  PROVE  Lost(st, ts) = Astray(st, ts)
<1>1. Good(st) /\ st \in StoresOf(NodePage) /\ \A n \in DOMAIN ts : SmallTree(st, ts[n].root)
  BY DEF AllOk, TabOk, Holding, Stands, Good, Listed
<1>2. \A n \in DOMAIN ts : Reachable(st, ts[n].root) = TreePages(st, ts[n].root)
  BY <1>1, ReachableOfTree
<1>3. FreeSet(st) = Unused(st)
  BY <1>1, FreeSetOfGood
<1>4. PageNos(st) = Used(st) \cup Unused(st) /\ Used(st) \cap Unused(st) = {}
  BY <1>1, UsedOrNot
<1>5. UNION {Reachable(st, ts[n].root) : n \in DOMAIN ts} = TreesOf(st, ts)
  BY <1>2 DEF TreesOf
<1>6. QED
  BY <1>3, <1>4, <1>5 DEF Lost, Astray

\* PagesLeft counts the pages not in use and the growth left.
LEMMA PagesLeftIs ==
  ASSUME Good(store)
  PROVE  PagesLeft = Left(store)
<1> DEFINE n == Len(store.pages)
           U == Used(store)
           V == Unused(store)
<1>1. FreeSet(store) = V
  BY FreeSetOfGood
<1>2. PageNos(store) = U \cup V /\ U \cap V = {}
  BY UsedOrNot
<1>3. n \in Nat /\ PageNos(store) = 1 .. n
  BY GoodOwned, OwnedTypes
<1> HIDE DEF n, U, V
<1>4. IsFiniteSet(1 .. n) /\ Cardinality(1 .. n) = n
  BY <1>3, FS_Interval
<1>5. IsFiniteSet(U) /\ IsFiniteSet(V)
  BY <1>2, <1>3, <1>4, FS_Subset
<1>6. Cardinality(U \cup V) = Cardinality(U) + Cardinality(V) - Cardinality(U \cap V)
  BY <1>5, FS_Union
<1>7. Cardinality(U) \in Nat /\ Cardinality(V) \in Nat /\ Cardinality(U \cap V) = 0
  BY <1>2, <1>5, FS_CardinalityType, FS_EmptySet
<1>8. n = Cardinality(U) + Cardinality(V)
  <2>1. Cardinality(U \cup V) = n
    BY <1>2, <1>3, <1>4
  <2>2. QED
    BY <1>6, <1>7, <2>1
<1>9. Cardinality(FreeSet(store)) + MaxPages - 1 - n = MaxPages - 1 - Cardinality(U)
  BY <1>1, <1>3, <1>7, <1>8, MaxPagesAssumption
<1>10. QED
  BY <1>9 DEF PagesLeft, Left, n, U

\* A statement on a tree puts at most one page of it out of the tree, and that
\* only when it ran out of pages.
LEMMA StrayBounded ==
  ASSUME NEW st, NEW r, Stands(st, r), NEW st2, NEW r2, Stands(st2, r2), Sound(st, r, st2, r2),
         TreeCount(st, r) <= TreeCount(st2, r2), Out(st2, r2) \subseteq Out(st, r) \/ Left(st) < 2, NEW rest
  PROVE  /\ IsFiniteSet(Out(st, r) \ rest) /\ Cardinality(Out(st, r) \ rest) \in Nat
         /\ Cardinality(Out(st2, r2) \ rest) <= Cardinality(Out(st, r) \ rest) + (IF Left(st) < 2 THEN 1 ELSE 0)
<1> DEFINE o == Out(st, r)
           p == Out(st2, r2)
           a == o \ rest
           b == p \ rest
           d == b \ a
<1>1. /\ IsFiniteSet(o) /\ Cardinality(o) \in Nat /\ TreeCount(st, r) \in Nat /\ Left(st) \in Nat
      /\ Cardinality(Used(st)) = Cardinality(o) + TreeCount(st, r) /\ Cardinality(Used(st)) \in Nat
  BY UsedSplit DEF Stands
<1>2. /\ IsFiniteSet(p) /\ Cardinality(p) \in Nat /\ TreeCount(st2, r2) \in Nat
      /\ Cardinality(Used(st2)) = Cardinality(p) + TreeCount(st2, r2)
  BY UsedSplit DEF Stands
<1>3. Cardinality(Used(st2)) <= MaxPages - 1
  <2>1. Good(st2)
    BY DEF Stands
  <2>2. QED
    BY <2>1, GoodOwned, OwnedSize
<1>4. o \subseteq p
  BY DEF Sound, Out
<1> HIDE DEF o, p
<1>5. IsFiniteSet(a) /\ IsFiniteSet(b) /\ IsFiniteSet(d) /\ IsFiniteSet(p \ o)
  BY <1>1, <1>2, FS_Subset
<1>6. Cardinality(a) \in Nat /\ Cardinality(b) \in Nat /\ Cardinality(d) \in Nat /\ Cardinality(p \ o) \in Nat
  BY <1>5, FS_CardinalityType
<1>7. Cardinality(b) <= Cardinality(a) + Cardinality(d)
  <2>1. b \subseteq a \cup d /\ a \cap d = {} /\ a \subseteq b
    BY <1>4
  <2>2. IsFiniteSet(a \cup d)
    BY <1>5, FS_Union
  <2> HIDE DEF a, b, d
  <2>3. Cardinality(a \cup d) = Cardinality(a) + Cardinality(d) - Cardinality(a \cap d)
    BY <1>5, FS_Union
  <2>4. Cardinality(a \cap d) = 0
    BY <2>1, FS_EmptySet
  <2>5. Cardinality(b) <= Cardinality(a \cup d)
    BY <2>1, <2>2, FS_Subset
  <2>6. QED
    BY <1>6, <2>3, <2>4, <2>5
<1>8. Cardinality(d) <= Cardinality(p \ o)
  <2>1. d \subseteq p \ o
    OBVIOUS
  <2>2. QED
    BY <1>5, <2>1, FS_Subset
<1>9. Cardinality(p) = Cardinality(o) + Cardinality(p \ o)
  <2> DEFINE x == p \ o
  <2>1. p = o \cup x /\ o \cap x = {}
    BY <1>4
  <2>2. IsFiniteSet(x)
    BY <1>5
  <2> HIDE DEF x
  <2>3. Cardinality(o \cup x) = Cardinality(o) + Cardinality(x) - Cardinality(o \cap x)
    BY <1>1, <2>2, FS_Union
  <2>4. Cardinality(o \cap x) = 0
    BY <2>1, FS_EmptySet
  <2>5. Cardinality(x) \in Nat
    BY <2>2, FS_CardinalityType
  <2>6. Cardinality(p) = Cardinality(o) + Cardinality(x)
    BY <1>1, <2>1, <2>3, <2>4, <2>5
  <2>7. QED
    BY <2>6 DEF x
<1>10. CASE Left(st) < 2
  <2>1. Cardinality(Used(st)) >= MaxPages - 2
    BY <1>1, <1>10, MaxPagesAssumption DEF Left
  <2> HIDE DEF a, b, d
  <2>2. Cardinality(p \ o) <= 1
    BY <1>1, <1>2, <1>3, <1>6, <1>9, <2>1, MaxPagesAssumption
  <2>3. Cardinality(b) <= Cardinality(a) + 1
    BY <1>6, <1>7, <1>8, <2>2
  <2>4. QED
    BY <1>5, <1>6, <1>10, <2>3 DEF a, b, o, p
<1>11. CASE ~(Left(st) < 2)
  <2>1. b \subseteq a
    BY <1>11 DEF o, p
  <2> HIDE DEF a, b, d
  <2>2. Cardinality(b) <= Cardinality(a)
    BY <1>5, <2>1, FS_Subset
  <2>3. QED
    BY <1>5, <1>6, <1>11, <2>2 DEF a, b, o, p
<1>12. QED
  BY <1>10, <1>11

\* They are finitely many.
LEMMA AstrayFinite ==
  ASSUME NEW st, NEW ts, AllOk(st, ts)
  PROVE  IsFiniteSet(Astray(st, ts)) /\ Cardinality(Astray(st, ts)) \in Nat
<1>1. IsFiniteSet(Used(st))
  BY GoodOwned, OwnedSize DEF AllOk
<1>2. IsFiniteSet(Astray(st, ts))
  BY <1>1, FS_Subset DEF Astray
<1>3. QED
  BY <1>2, FS_CardinalityType

\* At most so many pages more belong to no table.
MoreAstray(most) == Cardinality(Lost(store', tabs')) <= Cardinality(Lost(store, tabs)) + most

\* A step on one table loses at most a page, and only with fewer than two left.
LEMMA TableLoses ==
  ASSUME TableInv, TableInv', NEW n, NEW a, OnTable(n, a)
  PROVE  MoreAstray(IF Left(store) < 2 THEN 1 ELSE 0)
<1> DEFINE us == [tabs EXCEPT ![n] = a.tab]
           r  == tabs[n].root
           rest == UNION {TreePages(store, tabs[m].root) : m \in DOMAIN tabs \ {n}}
<1>1. /\ n \in DOMAIN tabs /\ store' = a.st /\ tabs' = us /\ Touched(n, store, tabs[n], a)
      /\ AllOk(store, tabs) /\ AllOk(store', tabs')
  BY DEF OnTable, TableInv
<1>2. /\ TabOk(n, a.st, a.tab) /\ Sound(store, r, a.st, a.tab.root) /\ TreeCount(store, r) <= TreeCount(a.st, a.tab.root)
      /\ Out(a.st, a.tab.root) \subseteq Out(store, r) \/ Left(store) < 2
  BY <1>1 DEF Touched
<1>3. Stands(store, r) /\ Stands(a.st, a.tab.root)
  BY <1>1, <1>2 DEF AllOk, TabOk, Holding
<1>4. \A m \in DOMAIN tabs : m # n => TreePages(a.st, tabs[m].root) = TreePages(store, tabs[m].root)
  BY <1>1, <1>2, OneChanged DEF OtherKept
<1>5. DOMAIN us = DOMAIN tabs /\ us[n] = a.tab /\ \A m \in DOMAIN tabs : m # n => us[m] = tabs[m]
  <2>1. tabs = [m \in DOMAIN tabs |-> tabs[m]]
    BY <1>1 DEF AllOk
  <2>2. QED
    BY <1>1, <2>1
<1> HIDE DEF us
<1>6. Astray(store, tabs) = Out(store, r) \ rest
  BY <1>1 DEF Astray, TreesOf, Out
<1>7. Astray(a.st, us) = Out(a.st, a.tab.root) \ rest
  <2>1. TreesOf(a.st, us) = TreePages(a.st, a.tab.root) \cup rest
    BY <1>1, <1>4, <1>5 DEF TreesOf
  <2> HIDE DEF rest
  <2>2. QED
    BY <2>1 DEF Astray, Out
<1> HIDE DEF rest, r
<1>8. Cardinality(Astray(a.st, us)) <= Cardinality(Astray(store, tabs)) + (IF Left(store) < 2 THEN 1 ELSE 0)
  BY <1>2, <1>3, <1>6, <1>7, StrayBounded
<1>9. Lost(store, tabs) = Astray(store, tabs) /\ Lost(store', tabs') = Astray(a.st, us)
  BY <1>1, LostIs
<1>10. QED
  BY <1>8, <1>9 DEF MoreAstray

\* A step that leaves the file and the tables loses nothing.
LEMMA NothingLost ==
  ASSUME TableInv, store' = store, tabs' = tabs, NEW most \in Nat
  PROVE  MoreAstray(most)
<1>1. Cardinality(Lost(store, tabs)) \in Nat
  BY LostIs, AstrayFinite DEF TableInv
<1>2. QED
  BY <1>1 DEF MoreAstray

\* CREATE TABLE loses none: its root is the new table's.
LEMMA CreateLoses ==
  ASSUME TableInv, TableInv', NEW n \in Names, CreateTable(n), NEW most \in Nat
  PROVE  MoreAstray(most)
<1> DEFINE c == Create(store)
           us == [m \in DOMAIN tabs \cup {n} |-> IF m = n THEN [root |-> c.root, seq |-> 1] ELSE tabs[m]]
           refused == \/ Cardinality(DOMAIN tabs) >= MaxTables
                      \/ Known(n)
                      \/ BadSchema(Schemas[n])
<1>1. store' = (IF refused THEN store ELSE c.st) /\ tabs' = IF refused THEN tabs ELSE us
  BY DEF CreateTable
<1>2. CASE refused
  BY <1>1, <1>2, NothingLost
<1>3. CASE ~refused
  <2>1. AllOk(store, tabs) /\ n \notin DOMAIN tabs /\ store' = c.st /\ tabs' = us /\ AllOk(store', tabs')
    BY <1>1, <1>3 DEF TableInv, Known
  <2>2. NewTree(store, c)
    BY <2>1, TreeCreated DEF AllOk
  <2>3. /\ DOMAIN us = DOMAIN tabs \cup {n} /\ us[n].root = c.root
        /\ \A m \in DOMAIN tabs : m # n /\ us[m] = tabs[m]
    BY <2>1
  <2> HIDE DEF c, us, refused
  <2>4. \A m \in DOMAIN tabs : TreePages(c.st, tabs[m].root) = TreePages(store, tabs[m].root)
    BY <2>1, <2>2, TablesKept DEF NewTree, TreeSame
  <2>5. TreesOf(c.st, us) = TreesOf(store, tabs) \cup TreePages(c.st, c.root)
    BY <2>3, <2>4 DEF TreesOf
  <2>6. Used(c.st) = Used(store) \cup TreePages(c.st, c.root) /\ TreePages(c.st, c.root) \cap Used(store) = {}
    BY <2>2 DEF NewTree
  <2>7. Astray(c.st, us) = Astray(store, tabs)
    BY <2>5, <2>6 DEF Astray
  <2>8. Lost(store, tabs) = Astray(store, tabs) /\ Lost(store', tabs') = Astray(store, tabs)
    BY <2>1, <2>7, LostIs
  <2>9. Cardinality(Astray(store, tabs)) \in Nat
    BY <2>1, AstrayFinite
  <2>10. QED
    BY <2>8, <2>9 DEF MoreAstray
<1>4. QED
  BY <1>2, <1>3

\* CREATE INDEX loses at most the root it creates.
LEMMA IndexLoses ==
  ASSUME TableInv, TableInv', NEW n \in Names, CreateIndex(n)
  PROVE  MoreAstray(1)
<1> DEFINE c == Create(store)
<1>1. store' = (IF Known(n) THEN c.st ELSE store) /\ tabs' = tabs
  BY DEF CreateIndex
<1>2. CASE ~Known(n)
  <2> DEFINE one == 1
  <2>1. one \in Nat
    OBVIOUS
  <2> HIDE DEF one
  <2>2. MoreAstray(one)
    BY <1>1, <1>2, <2>1, NothingLost
  <2>3. QED
    BY <2>2 DEF one
<1>3. CASE Known(n)
  <2>1. AllOk(store, tabs) /\ store' = c.st /\ AllOk(store', tabs') /\ Good(store)
    BY <1>1, <1>3 DEF TableInv, AllOk
  <2>2. NewTree(store, c)
    BY <2>1, TreeCreated
  <2> DEFINE new == TreePages(c.st, c.root)
  <2> HIDE DEF c
  <2>3. \A m \in DOMAIN tabs : TreePages(c.st, tabs[m].root) = TreePages(store, tabs[m].root)
    BY <2>1, <2>2, TablesKept DEF NewTree, TreeSame
  <2>4. TreesOf(c.st, tabs) = TreesOf(store, tabs)
    BY <2>3 DEF TreesOf
  <2>5. Used(c.st) = Used(store) \cup new
    BY <2>2 DEF NewTree
  <2>6. Astray(c.st, tabs) \subseteq Astray(store, tabs) \cup new
    BY <2>4, <2>5 DEF Astray
  <2>7. IsFiniteSet(new) /\ Cardinality(new) \in {0, 1}
    <3>1. Good(c.st) /\ SmallTree(c.st, c.root) /\ Whole(c.st, c.root)
      BY <2>2 DEF NewTree, Stands
    <3>2. QED
      BY <3>1, TreeSize DEF Whole
  <2>8. Lost(store, tabs) = Astray(store, tabs) /\ Lost(store', tabs') = Astray(c.st, tabs)
    BY <1>1, <2>1, LostIs
  <2> DEFINE x == Astray(store, tabs)
  <2>9. IsFiniteSet(x) /\ Cardinality(x) \in Nat
    BY <2>1, AstrayFinite
  <2> HIDE DEF new, x
  <2>10. Cardinality(x \cup new) <= Cardinality(x) + 1 /\ IsFiniteSet(x \cup new)
    <3>1. Cardinality(x \cup new) = Cardinality(x) + Cardinality(new) - Cardinality(x \cap new)
      BY <2>7, <2>9, FS_Union
    <3>2. Cardinality(x \cap new) \in Nat
      <4>1. IsFiniteSet(x \cap new)
        BY <2>9, FS_Subset
      <4>2. QED
        BY <4>1, FS_CardinalityType
    <3>3. IsFiniteSet(x \cup new)
      BY <2>7, <2>9, FS_Union
    <3>4. QED
      BY <2>7, <2>9, <3>1, <3>2, <3>3
  <2>11. Cardinality(Astray(c.st, tabs)) <= Cardinality(x \cup new)
    <3>1. Astray(c.st, tabs) \subseteq x \cup new
      BY <2>6 DEF x
    <3>2. QED
      BY <2>10, <3>1, FS_Subset
  <2>12. Cardinality(Astray(c.st, tabs)) \in Nat /\ Cardinality(x \cup new) \in Nat
    <3>1. IsFiniteSet(Astray(c.st, tabs))
      BY <1>1, <2>1, AstrayFinite
    <3>2. QED
      BY <2>10, <3>1, FS_CardinalityType
  <2>13. QED
    BY <2>8, <2>9, <2>10, <2>11, <2>12 DEF MoreAstray, x
<1>4. QED
  BY <1>2, <1>3

\* What each step of the write path does to the pages and the tables.
LEMMA StepKinds ==
  ASSUME HalvesFit, MaxSplits <= 1, TableInv, [Next]_vars
  PROVE  \/ store' = store /\ tabs' = tabs
         \/ \E n \in Names : CreateTable(n)
         \/ (\E n \in Names : CreateIndex(n)) /\ last'.kind = "index"
         \/ \E n, a : OnTable(n, a)
<1>1. CASE UNCHANGED vars
  BY <1>1 DEF vars
<1>2. ASSUME NEW n \in Names, CreateIndex(n) PROVE last'.kind = "index"
  BY <1>2 DEF CreateIndex, NoStmt
<1>3. ASSUME NEW n \in Names, NEW lits \in InsertLits[n], InsertInto(n, lits)
      PROVE  Refusal \/ \E a : OnTable(n, a)
  BY <1>3, InsertStep
<1>4. ASSUME NEW n \in Names, NEW set \in SetLits[n], NEW wheres, Update(n, set, wheres)
      PROVE  Refusal \/ \E a : OnTable(n, a)
  BY <1>4, UpdatesTable
<1>5. ASSUME NEW n \in Names, NEW wheres, DeleteFrom(n, wheres)
      PROVE  Refusal \/ \E a : OnTable(n, a)
  BY <1>5, DeleteStep
<1>6. Refusal => store' = store /\ tabs' = tabs
  BY DEF Refusal
<1>7. CASE Next
  <2>1. PICK n \in Names : \/ CreateTable(n)
                           \/ CreateIndex(n)
                           \/ \E lits \in InsertLits[n] : InsertInto(n, lits)
                           \/ \E set \in SetLits[n], wheres \in WhereSets : Update(n, set, wheres)
                           \/ \E wheres \in WhereSets : DeleteFrom(n, wheres)
    BY <1>7 DEF Next
  <2>2. QED
    BY <1>2, <1>3, <1>4, <1>5, <1>6, <2>1
<1>8. QED
  BY <1>1, <1>7

\* Every step.
LEMMA StepLoses ==
  ASSUME HalvesFit, MaxSplits <= 1, TableInv, [Next]_vars
  PROVE  LosesPages
<1> DEFINE most == IF last'.kind = "index" \/ PagesLeft < 2 THEN 1 ELSE 0
           zero == 0
           one  == 1
<1>1. PagesLeft = Left(store)
  BY PagesLeftIs DEF TableInv, AllOk
<1>2. TableInv'
  BY NextKeeps
<1>3. most \in Nat /\ zero \in Nat /\ zero = 0 /\ one = 1
  OBVIOUS
<1>4. Cardinality(Lost(store, tabs)) \in Nat
  BY LostIs, AstrayFinite DEF TableInv
<1>5. MoreAstray(most) => LosesPages
  BY DEF MoreAstray, LosesPages
<1>6. MoreAstray(zero) => MoreAstray(most)
  <2>1. Cardinality(Lost(store', tabs')) \in Nat
    BY <1>2, LostIs, AstrayFinite DEF TableInv
  <2>2. QED
    BY <1>3, <1>4, <2>1 DEF MoreAstray
<1>7. CASE store' = store /\ tabs' = tabs
  <2> HIDE DEF most
  <2>1. MoreAstray(most)
    BY <1>3, <1>7, NothingLost
  <2>2. QED
    BY <1>5, <2>1
<1>8. ASSUME NEW n \in Names, CreateTable(n) PROVE LosesPages
  <2> HIDE DEF most
  <2>1. MoreAstray(most)
    BY <1>2, <1>3, <1>8, CreateLoses
  <2>2. QED
    BY <1>5, <2>1
<1>9. ASSUME NEW n \in Names, CreateIndex(n), last'.kind = "index" PROVE LosesPages
  <2>1. MoreAstray(1) /\ most = 1
    BY <1>2, <1>9, IndexLoses
  <2> HIDE DEF most
  <2>2. QED
    BY <1>5, <2>1
<1>10. ASSUME NEW n, NEW a, OnTable(n, a) PROVE LosesPages
  <2> DEFINE here == IF Left(store) < 2 THEN 1 ELSE 0
  <2>1. MoreAstray(here)
    BY <1>2, <1>10, TableLoses
  <2>2. here = most \/ here = zero
    BY <1>1
  <2> HIDE DEF most, here, zero
  <2>3. QED
    BY <1>5, <1>6, <2>1, <2>2
<1>11. QED
  BY <1>7, <1>8, <1>9, <1>10, StepKinds

\* OnlyIndexLosesPages: no statement loses a page of the file but CREATE INDEX,
\* which forgets the root it made, and one that ran out of pages.
THEOREM IndexLosesPages ==
  ASSUME HalvesFit, MaxSplits <= 1
  PROVE  Spec => OnlyIndexLosesPages
<1>1. TableInv /\ [Next]_vars => LosesPages
  BY StepLoses
<1>2. Spec => []TableInv
  BY TableInvariant
<1>3. QED
  BY <1>1, <1>2, PTL DEF Spec, OnlyIndexLosesPages

----------------------------------------------------------------------------
(* The relation of a table, and rows that differ.                         *)

\* The relation of a table, from its entries.
RowOf(n, e) == [id |-> e.k, cells |-> Cells(Schemas[n], e.v)]
RelOf(n, E) == {RowOf(n, e) : e \in E}

\* Rel, from the entries of the table's tree.
LEMMA RelIs ==
  ASSUME NEW st, NEW ts, NEW n, Stands(st, ts[n].root)
  PROVE  Rel(st, ts, n) = RelOf(n, Ent(st, ts[n].root))
<1> DEFINE r == ts[n].root
           E == UNION {ToSet(Ents(st.pages[pn])) : pn \in Leaves(st, r)}
<1>1. E = Ent(st, r)
  BY EntOnLeaves
<1>2. Rel(st, ts, n) = {RowOf(n, e) : e \in E}
  BY DEF Rel, RowOf
<1> HIDE DEF E, r
<1>3. QED
  BY <1>1, <1>2 DEF RelOf, r

\* A tree's entries are finitely many.
LEMMA EntFinite ==
  ASSUME NEW st, NEW r, Stands(st, r)
  PROVE  IsFiniteSet(Ent(st, r))
<1> DEFINE ents == TreeEnts(st, r)
           m == Len(ents)
           f == [i \in 1 .. m |-> ents[i]]
<1>1. ents \in Seq(LeafEntry)
  <2>1. CASE r = 0
    BY <2>1, OkEmpty DEF TreeEnts, LeafOk
  <2>2. CASE r # 0 /\ LeafAt(st, r)
    BY <2>2 DEF Stands, Ordered, LeafOk, TreeEnts
  <2>3. CASE r # 0 /\ ~LeafAt(st, r)
    <3> DEFINE low  == Low(st, r)
               high == High(st, r)
    <3>1. ents = low \o high /\ low \in Seq(LeafEntry) /\ high \in Seq(LeafEntry)
      BY <2>3 DEF Stands, SmallTree, Ordered, LeafOk, TreeEnts
    <3> HIDE DEF ents, low, high
    <3>2. QED
      BY <3>1, ConcatProperties
  <2>4. QED
    BY <2>1, <2>2, <2>3
<1> HIDE DEF ents
<1>2. m \in Nat /\ ToSet(ents) = {ents[i] : i \in 1 .. m}
  BY <1>1, SortedFacts, EntryRoom
<1> HIDE DEF m
<1>3. IsFiniteSet(1 .. m)
  BY <1>2, FS_Interval
<1>4. f \in Surjection(1 .. m, ToSet(ents))
  BY <1>2 DEF Surjection
<1>5. IsFiniteSet(ToSet(ents))
  <2> HIDE DEF f
  <2>1. QED
    BY <1>3, <1>4, FS_Surjection
<1>6. QED
  BY <1>5 DEF Ent, ents

\* No two entries hold the same value in column c.
CellAt(n, e, c) == Cell(Schemas[n], e.v, c)
CellsDiffer(n, E, c) == \A e, f \in E : CellAt(n, e, c) = CellAt(n, f, c) /\ CellAt(n, e, c) # Null => e = f

\* RowsDiffer counts; it says that no two entries agree.
LEMMA DifferIs ==
  ASSUME NEW n, NEW E, IsFiniteSet(E), \A e, f \in E : e.k = f.k => e = f, NEW c \in ColNos(Schemas[n])
  PROVE  RowsDiffer(RelOf(n, E), c) <=> CellsDiffer(n, E, c)
<1> DEFINE R == {e \in E : CellAt(n, e, c) # Null}
           S == {row \in RelOf(n, E) : row.cells[c] # Null}
           T == {row.cells[c] : row \in RelOf(n, E)} \ {Null}
           f == [row \in S |-> row.cells[c]]
           g == [e \in R |-> RowOf(n, e)]
<1>1. \A e : RowOf(n, e).id = e.k /\ RowOf(n, e).cells[c] = CellAt(n, e, c)
  BY DEF RowOf, Cells, CellAt
<1>2. S = {RowOf(n, e) : e \in R}
  BY <1>1 DEF RelOf
<1>3. IsFiniteSet(R)
  BY FS_Subset
<1>4. IsFiniteSet(S)
  <2>1. g \in Surjection(R, S)
    BY <1>2 DEF Surjection
  <2> HIDE DEF g, R, S
  <2>2. QED
    BY <1>3, <2>1, FS_Surjection
<1>5. T = {row.cells[c] : row \in S}
  OBVIOUS
<1>6. f \in Surjection(S, T)
  BY <1>5 DEF Surjection
<1>7. RowsDiffer(RelOf(n, E), c) <=> Cardinality(T) = Cardinality(S)
  BY DEF RowsDiffer
<1>8. Cardinality(T) = Cardinality(S) <=> f \in Injection(S, T)
  <2> HIDE DEF S, T, f
  <2>1. QED
    BY <1>4, <1>6, FS_Surjection
<1>9. f \in Injection(S, T) <=> \A x, y \in S : x.cells[c] = y.cells[c] => x = y
  <2>1. f \in [S -> T] /\ \A x \in S : f[x] = x.cells[c]
    BY <1>6 DEF Surjection
  <2> HIDE DEF f, S, T
  <2>2. QED
    BY <2>1 DEF Injection, IsInjective
<1>10. \A x, y \in E : RowOf(n, x) = RowOf(n, y) <=> x = y
  BY <1>1
<1> HIDE DEF S, T, f, g
<1>11. (\A x, y \in S : x.cells[c] = y.cells[c] => x = y) <=> CellsDiffer(n, E, c)
  <2>1. ASSUME \A x, y \in S : x.cells[c] = y.cells[c] => x = y, NEW e \in E, NEW h \in E,
               CellAt(n, e, c) = CellAt(n, h, c), CellAt(n, e, c) # Null
        PROVE  e = h
    <3>1. RowOf(n, e) \in S /\ RowOf(n, h) \in S
      BY <1>2, <2>1
    <3>2. RowOf(n, e) = RowOf(n, h)
      BY <1>1, <2>1, <3>1
    <3>3. QED
      BY <1>10, <3>2
  <2>2. ASSUME CellsDiffer(n, E, c), NEW x \in S, NEW y \in S, x.cells[c] = y.cells[c] PROVE x = y
    <3>1. PICK e \in R : x = RowOf(n, e)
      BY <1>2
    <3>2. PICK h \in R : y = RowOf(n, h)
      BY <1>2
    <3>3. CellAt(n, e, c) = CellAt(n, h, c) /\ CellAt(n, e, c) # Null
      BY <1>1, <2>2, <3>1, <3>2
    <3>4. e = h
      BY <2>2, <3>3 DEF CellsDiffer
    <3>5. QED
      BY <3>1, <3>2, <3>4
  <2>3. QED
    BY <2>1, <2>2 DEF CellsDiffer
<1>12. QED
  BY <1>7, <1>8, <1>9, <1>11

\* KeysUnique, from the entries of the tables.
Alone(n, E) == \A c \in ColNos(Schemas[n]) : MustBeUnique(Schemas[n].cols[c]) => CellsDiffer(n, E, c)
Different(st, ts) ==
    \A n \in DOMAIN ts :
       \A rel \in {Rel(st, ts, n)}, c \in ColNos(Schemas[n]) :
          MustBeUnique(Schemas[n].cols[c]) => RowsDiffer(rel, c)

\* KeysUnique says that of each table.
LEMMA DifferentIs ==
  ASSUME NEW st, NEW ts, AllOk(st, ts)
  PROVE  Different(st, ts) <=> \A n \in DOMAIN ts : Alone(n, Ent(st, ts[n].root))
<1>1. ASSUME NEW n \in DOMAIN ts
      PROVE  (\A rel \in {Rel(st, ts, n)}, c \in ColNos(Schemas[n]) :
                 MustBeUnique(Schemas[n].cols[c]) => RowsDiffer(rel, c))
             <=> Alone(n, Ent(st, ts[n].root))
  <2> DEFINE E == Ent(st, ts[n].root)
  <2>1. Stands(st, ts[n].root)
    BY DEF AllOk, TabOk, Holding
  <2>2. Rel(st, ts, n) = RelOf(n, E)
    BY <2>1, RelIs
  <2>3. IsFiniteSet(E) /\ \A e, f \in E : e.k = f.k => e = f
    BY <2>1, EntFinite, EntFacts
  <2> HIDE DEF E
  <2>4. \A c \in ColNos(Schemas[n]) : RowsDiffer(RelOf(n, E), c) <=> CellsDiffer(n, E, c)
    BY <2>3, DifferIs
  <2>5. QED
    BY <2>2, <2>4 DEF Alone, E
<1>2. QED
  BY <1>1 DEF Different

\* The uniqueness check sees every row while the leaves are linked.
Present(n, E, c, v) == \E e \in E : CellAt(n, e, c) = v

\* ValueExists finds a value in a tree with linked leaves just when an entry has it.
LEMMA ExistsIs ==
  ASSUME NEW n, NEW st, NEW r, Stands(st, r), ChainReadable(st, r), ToSet(Chain(st, r)) = Leaves(st, r),
         NEW c, NEW v
  PROVE  ValueExists(st, Schemas[n], r, c, v) <=> Present(n, Ent(st, r), c, v)
<1>1. st \in StoresOf(NodePage) /\ SmallTree(st, r) /\ LeavesLinked(st, r)
  BY DEF Stands, Good, Listed, LeavesLinked, ChainReadable
<1>2. Scan(st, r) = TreeEnts(st, r)
  BY <1>1, ScanOfTree
<1>3. QED
  BY <1>2 DEF ValueExists, Present, Ent, CellAt

----------------------------------------------------------------------------
(* No statement makes two rows agree on a unique column.                  *)

\* What is read from a row after one of its columns is set.
LEMMA ReadSet ==
  ASSUME NEW n \in Names, NEW e, RowAt(n, e.v), NEW c \in ColNos(Schemas[n]), NEW x \in CellsOf(n, c)
  PROVE  /\ Cells(Schemas[n], With(Schemas[n], e, c, x).v) = Changed(Cells(Schemas[n], e.v), c, x)
         /\ \A d \in ColNos(Schemas[n]) :
               CellAt(n, With(Schemas[n], e, c, x), d) = IF d = c THEN x ELSE CellAt(n, e, d)
<1> DEFINE sch == Schemas[n]
<1>1. PICK cs \in RowsOf(n) : e.v = EncodeRow(sch, cs)
  BY DEF RowAt
<1>2. RowFacts(n, cs)
  BY RowIs
<1>3. /\ Changed(cs, c, x) \in RowsOf(n)
      /\ ReplaceCol(sch, EncodeRow(sch, cs), c, x) = EncodeRow(sch, Changed(cs, c, x))
  BY RowWith
<1>4. RowFacts(n, Changed(cs, c, x))
  BY <1>3, RowIs
<1>5. With(sch, e, c, x).v = EncodeRow(sch, Changed(cs, c, x))
  BY <1>1, <1>3 DEF With
<1>6. \A d \in ColNos(sch) : Changed(cs, c, x)[d] = IF d = c THEN x ELSE cs[d]
  BY <1>2 DEF RowFacts, Changed
<1>7. QED
  BY <1>1, <1>2, <1>4, <1>5, <1>6 DEF RowFacts, CellAt

\* A unique column's accepted value is stored as it is.
LEMMA UniqueStored ==
  ASSUME NEW n \in Names, NEW c \in ColNos(Schemas[n]), MustBeUnique(Schemas[n].cols[c]),
         NEW lit, ~LitRefused(Schemas[n].cols[c], lit)
  PROVE  StoredAs(n, c, lit) = Value(Schemas[n].cols[c], lit)
<1>1. ~Schemas[n].nullmap => ~Schemas[n].cols[c].unique
  BY SchemaAssumption
<1>2. QED
  BY <1>1 DEF MustBeUnique, LitRefused, StoredAs

\* What the statements see of the leaves.
SeesAll(st, r) == ChainReadable(st, r) /\ ToSet(Chain(st, r)) = Leaves(st, r)

\* INSERT.
LEMMA InsertAlone ==
  ASSUME NEW n, NEW lits \in InsertLits[n], NEW st, NEW tab, Holding(n, st, tab), SeesAll(st, tab.root),
         Alone(n, Ent(st, tab.root)), NEW a, Filled(n, lits, st, tab, a)
  PROVE  Alone(n, Ent(a.st, a.tab.root))
<1> DEFINE sch == Schemas[n]
           E   == Ent(st, tab.root)
           E2  == Ent(a.st, a.tab.root)
           row == Stored(n, lits)
           e   == [k |-> tab.seq, v |-> EncodeRow(sch, row)]
<1>1. n \in Names /\ Stands(st, tab.root)
  BY DEF Holding
<1>2. CASE E2 = E
  <2> HIDE DEF E, E2
  <2>1. Alone(n, E)
    BY DEF E
  <2>2. QED
    BY <1>2, <2>1 DEF E2
<1>3. CASE E2 # E
  <2>1. ~InsertStops(sch, st, tab, lits) /\ Accepted(n, lits) /\ E2 = E \cup {e}
    BY <1>3 DEF Filled, InsertDone
  <2>2. DOMAIN lits = ColNos(sch) /\ row \in RowsOf(n)
    BY <1>1, <2>1, LitsMake
  <2>3. \A c \in ColNos(sch) : CellAt(n, e, c) = row[c]
    BY <1>1, <2>2, RowIs DEF RowFacts, CellAt
  <2>4. ASSUME NEW c \in ColNos(sch), MustBeUnique(sch.cols[c])
        PROVE  CellsDiffer(n, E2, c)
    <3>1. row[c] = Value(sch.cols[c], lits[c])
      BY <1>1, <2>1, <2>2, <2>4, UniqueStored DEF Stored, Accepted
    <3>2. row[c] # Null => ~ValueExists(st, sch, tab.root, c, row[c])
      BY <2>1, <2>2, <2>4, <3>1 DEF InsertStops
    <3>3. row[c] # Null => \A f \in E : CellAt(n, f, c) # row[c]
      BY <1>1, <3>2, ExistsIs DEF Present, SeesAll
    <3>4. CellsDiffer(n, E, c)
      BY <2>4 DEF Alone
    <3> HIDE DEF E, E2, e, row
    <3>5. QED
      BY <2>1, <2>3, <3>3, <3>4 DEF CellsDiffer
  <2>5. Alone(n, E2)
    BY <2>4 DEF Alone
  <2>6. QED
    BY <2>5
<1>4. QED
  BY <1>2, <1>3

\* DELETE.
LEMMA DeleteAlone ==
  ASSUME NEW n, NEW st, NEW tab, Alone(n, Ent(st, tab.root)), NEW wheres, NEW a, DeleteDone(n, st, tab, wheres, a)
  PROVE  Alone(n, Ent(a.st, a.tab.root))
<1> DEFINE E  == Ent(st, tab.root)
           E2 == Ent(a.st, a.tab.root)
<1>1. E2 \subseteq E
  BY DEF DeleteDone, DropSo, Dropped
<1>2. Alone(n, E)
  OBVIOUS
<1> HIDE DEF E, E2
<1>3. Alone(n, E2)
  BY <1>1, <1>2 DEF Alone, CellsDiffer
<1>4. QED
  BY <1>3 DEF E2

\* Setting a value that no other row has, or that the one row has already.
LEMMA SetAlone ==
  ASSUME NEW n \in Names, NEW E, \A e, f \in E : e.k = f.k => e = f, \A e \in E : RowAt(n, e.v),
         Alone(n, E), NEW c \in ColNos(Schemas[n]), NEW v \in CellsOf(n, c), NEW done,
         v # Null /\ MustBeUnique(Schemas[n].cols[c]) =>
            /\ \A e, f \in E : e.k \in done /\ f.k \in done => e = f
            /\ \/ \A e \in E : e.k \in done => CellAt(n, e, c) = v
               \/ \A e \in E : CellAt(n, e, c) # v
  PROVE  Alone(n, SetOn(Schemas[n], E, done, c, v))
<1> DEFINE sch == Schemas[n]
           to(e) == IF e.k \in done THEN With(sch, e, c, v) ELSE e
           E2 == SetOn(sch, E, done, c, v)
<1>1. E2 = {to(e) : e \in E}
  BY DEF SetOn
<1>2. \A e \in E, d \in ColNos(sch) :
         CellAt(n, to(e), d) = IF e.k \in done /\ d = c THEN v ELSE CellAt(n, e, d)
  <2>1. TAKE e \in E, d \in ColNos(sch)
  <2>2. CellAt(n, With(sch, e, c, v), d) = IF d = c THEN v ELSE CellAt(n, e, d)
    BY ReadSet
  <2>3. QED
    BY <2>2
<1> HIDE DEF to, E2
<1>3. ASSUME NEW d \in ColNos(sch), MustBeUnique(sch.cols[d]), NEW x \in E, NEW y \in E,
             CellAt(n, to(x), d) = CellAt(n, to(y), d), CellAt(n, to(x), d) # Null
      PROVE  x = y
  <2>1. \A e, f \in E : CellAt(n, e, d) = CellAt(n, f, d) /\ CellAt(n, e, d) # Null => e = f
    BY <1>3 DEF Alone, CellsDiffer
  <2>2. CASE d # c \/ v = Null
    BY <1>2, <1>3, <2>1, <2>2
  <2>3. CASE d = c /\ v # Null
    BY <1>2, <1>3, <2>1, <2>3
  <2>4. QED
    BY <2>2, <2>3
<1>4. \A d \in ColNos(sch) : MustBeUnique(sch.cols[d]) => CellsDiffer(n, E2, d)
  <2>1. SUFFICES ASSUME NEW d \in ColNos(sch), MustBeUnique(sch.cols[d]), NEW e \in E2, NEW f \in E2,
                        CellAt(n, e, d) = CellAt(n, f, d), CellAt(n, e, d) # Null
                 PROVE  e = f
    BY DEF CellsDiffer
  <2>2. PICK x \in E : e = to(x)
    BY <1>1
  <2>3. PICK y \in E : f = to(y)
    BY <1>1
  <2>4. x = y
    BY <1>3, <2>1, <2>2, <2>3
  <2>5. QED
    BY <2>2, <2>3, <2>4
<1>5. QED
  BY <1>4 DEF Alone, E2

\* UPDATE, of one row or of several.
LEMMA UpdateAlone ==
  ASSUME NEW n, NEW st, NEW tab, Holding(n, st, tab), SeesAll(st, tab.root), Alone(n, Ent(st, tab.root)),
         NEW c, NEW lit, NEW wheres, NEW a, UpdateDone(n, st, tab, c, lit, wheres, a), a.rc # Fault
  PROVE  Alone(n, Ent(a.st, a.tab.root))
<1> DEFINE sch == Schemas[n]
           v   == Value(sch.cols[c], lit)
           got == Collect(st, sch, tab.root, wheres)
           m   == Len(got)
           E   == Ent(st, tab.root)
<1>1. n \in Names /\ Stands(st, tab.root) /\ \A e \in E : RowAt(n, e.v)
  BY DEF Holding, Rows
<1>2. CASE a.st = st /\ a.tab = tab
  BY <1>2
<1>3. CASE ~(a.st = st /\ a.tab = tab)
  <2>1. /\ ~UpdateStops(sch, st, tab, c, lit, wheres)
        /\ got \in Seq(LeafEntry) /\ ToSet(got) \subseteq E
        /\ Settable(n, c, v) /\ SetSo(n, c, v, st, tab, got, m, a)
    BY <1>3 DEF UpdateDone
  <2>2. c \in ColNos(sch) /\ ~NotUnique(st, sch, tab.root, got, c, v)
    BY <2>1 DEF UpdateStops
  <2> HIDE DEF got, v, E
  <2>3. m \in Nat /\ m # 0 /\ ToSet(got) = {got[i] : i \in 1 .. m}
    BY <1>3, <2>1, EntryRoom, SortedFacts DEF SetSo
  <2>4. 1 \in 1 .. m /\ got # <<>> /\ \A i \in 1 .. m : got[i] \in E
    BY <2>1, <2>3, EmptySeq
  <2>5. ~CannotReplace(sch, got[1].v, c, v)
    <3>1. a.rc \in {0, -1}
      <4>1. a \in Answers(tab.seq)
        BY <2>1 DEF SetSo
      <4>2. QED
        BY <4>1, AnswerOf
    <3>2. QED
      BY <1>3, <2>1, <2>4, <3>1 DEF SetSo
  <2>6. v \in CellsOf(n, c)
    BY <2>1, <2>5 DEF Settable, CannotReplace
  <2>7. PICK done \in SUBSET KeysTo(got, m) : SetUpto(n, c, v, st, tab, done, a)
    BY <2>1 DEF SetSo
  <2>8. Ent(a.st, a.tab.root) = SetOn(sch, E, done, c, v)
    BY <2>7 DEF SetUpto, E
  <2>9. \A e, f \in E : e.k = f.k => e = f
    BY <1>1, EntFacts DEF E
  <2>10. ASSUME v # Null, MustBeUnique(sch.cols[c])
         PROVE  /\ \A e \in E : e.k \in done => e = got[1]
                /\ CellAt(n, got[1], c) = v \/ \A e \in E : CellAt(n, e, c) # v
    <3>1. /\ ~(m > 1)
          /\ \/ Cell(sch, got[1].v, c) = v
             \/ ~ValueExists(st, sch, tab.root, c, v)
      BY <2>2, <2>4, <2>10 DEF NotUnique
    <3>2. m = 1
      <4>1. m \in Nat /\ m # 0 /\ ~(m > 1)
        BY <2>3, <3>1
      <4> HIDE DEF m
      <4>2. QED
        BY <4>1
    <3>3. \A e \in E : e.k \in done => e = got[1]
      <4>1. done \subseteq {got[1].k}
        BY <2>7, <3>2 DEF KeysTo
      <4>2. QED
        BY <2>4, <2>9, <4>1
    <3>4. ~ValueExists(st, sch, tab.root, c, v) => \A e \in E : CellAt(n, e, c) # v
      BY <1>1, ExistsIs DEF Present, SeesAll, E
    <3>5. QED
      BY <3>1, <3>3, <3>4 DEF CellAt
  <2>11. v # Null /\ MustBeUnique(sch.cols[c]) =>
            /\ \A e, f \in E : e.k \in done /\ f.k \in done => e = f
            /\ \/ \A e \in E : e.k \in done => CellAt(n, e, c) = v
               \/ \A e \in E : CellAt(n, e, c) # v
    BY <2>10
  <2>12. Alone(n, E) /\ \A e \in E : RowAt(n, e.v)
    BY <1>1 DEF E
  <2>13. Alone(n, SetOn(Schemas[n], E, done, c, v))
    BY <1>1, <2>2, <2>6, <2>9, <2>11, <2>12, SetAlone
  <2>14. QED
    BY <2>8, <2>13
<1>4. QED
  BY <1>2, <1>3

\* A statement on a table of the database ended with the answer a.
Ran(n, a) ==
    /\ n \in DOMAIN tabs /\ store' = a.st /\ tabs' = [tabs EXCEPT ![n] = a.tab] /\ last'.rc = a.rc
    /\ TabOk(n, store, tabs[n]) /\ Touched(n, store, tabs[n], a)

\* INSERT on a table of the database.
LEMMA InsertRan ==
  ASSUME HalvesFit, MaxSplits <= 1, TableInv, NEW n \in Names, NEW lits \in InsertLits[n], InsertInto(n, lits), Known(n)
  PROVE  LET a == ExecInsert(store, Schemas[n], tabs[n], lits)
         IN  /\ Ran(n, a) /\ Filled(n, lits, store, tabs[n], a)
             /\ ChainReadable(store, tabs[n].root) /\ tabs[n].seq \in Keys
             /\ last' = [kind |-> "insert", tab |-> n, arg |-> lits, where |-> {}, rc |-> a.rc]
<1> DEFINE a == ExecInsert(store, Schemas[n], tabs[n], lits)
<1>1. /\ n \in DOMAIN tabs /\ store' = a.st /\ tabs' = [tabs EXCEPT ![n] = a.tab] /\ last'.rc = a.rc
      /\ TabOk(n, store, tabs[n]) /\ tabs[n].seq \in Keys
      /\ Filled(n, lits, store, tabs[n], a)
  BY InsertKnown
<1>2. ChainReadable(store, tabs[n].root) /\ Done(n, "insert", lits, {}, a)
  BY DEF InsertInto, Readable, Known
<1>3. last' = [kind |-> "insert", tab |-> n, arg |-> lits, where |-> {}, rc |-> a.rc]
  BY <1>2 DEF Done
<1> HIDE DEF a
<1>4. Touched(n, store, tabs[n], a)
  BY <1>1, InsertTouches DEF Filled
<1>5. Ran(n, a)
  BY <1>1, <1>4 DEF Ran
<1>6. QED
  BY <1>1, <1>2, <1>3, <1>5 DEF a

\* UPDATE on a table of the database.
LEMMA UpdateRan ==
  ASSUME HalvesFit, TableInv, NEW n \in Names, NEW set \in SetLits[n], NEW wheres, Update(n, set, wheres), Known(n)
  PROVE  LET a == ExecUpdate(store, Schemas[n], tabs[n], set[1], set[2], wheres)
         IN  /\ Ran(n, a) /\ UpdateDone(n, store, tabs[n], set[1], set[2], wheres, a)
             /\ ChainReadable(store, tabs[n].root) /\ a.rc # Fault
             /\ last' = [kind |-> "update", tab |-> n, arg |-> set, where |-> wheres, rc |-> a.rc]
<1> DEFINE a == ExecUpdate(store, Schemas[n], tabs[n], set[1], set[2], wheres)
<1>1. n \in DOMAIN tabs /\ ChainReadable(store, tabs[n].root) /\ Done(n, "update", set, wheres, a)
  BY DEF Update, Known, Readable
<1>2. /\ a.rc # Fault /\ store' = a.st /\ tabs' = [tabs EXCEPT ![n] = a.tab] /\ last'.rc = a.rc
      /\ last' = [kind |-> "update", tab |-> n, arg |-> set, where |-> wheres, rc |-> a.rc]
  BY <1>1 DEF Done
<1>3. TabOk(n, store, tabs[n]) /\ Holding(n, store, tabs[n])
  BY <1>1 DEF TableInv, AllOk, TabOk
<1> DEFINE tab == tabs[n]
<1> HIDE DEF tab
<1>4. UpdateDone(n, store, tabs[n], set[1], set[2], wheres, a)
  BY <1>1, <1>3, Updating
<1> HIDE DEF a
<1>5. Touched(n, store, tabs[n], a)
  BY <1>2, <1>3, <1>4, UpdateTouches
<1>6. Ran(n, a)
  BY <1>1, <1>2, <1>3, <1>5 DEF Ran
<1>7. QED
  BY <1>1, <1>2, <1>4, <1>6 DEF a

\* DELETE on a table of the database.
LEMMA DeleteRan ==
  ASSUME TableInv, NEW n \in Names, NEW wheres, DeleteFrom(n, wheres), Known(n)
  PROVE  LET a == ExecDelete(store, Schemas[n], tabs[n], wheres)
         IN  /\ Ran(n, a) /\ DeleteDone(n, store, tabs[n], wheres, a)
             /\ ChainReadable(store, tabs[n].root)
             /\ last' = [kind |-> "delete", tab |-> n, arg |-> <<>>, where |-> wheres, rc |-> a.rc]
<1> DEFINE a == ExecDelete(store, Schemas[n], tabs[n], wheres)
<1>1. n \in DOMAIN tabs /\ ChainReadable(store, tabs[n].root) /\ Done(n, "delete", <<>>, wheres, a)
  BY DEF DeleteFrom, Known, Readable
<1>2. /\ store' = a.st /\ tabs' = [tabs EXCEPT ![n] = a.tab] /\ last'.rc = a.rc
      /\ last' = [kind |-> "delete", tab |-> n, arg |-> <<>>, where |-> wheres, rc |-> a.rc]
  BY <1>1 DEF Done
<1>3. TabOk(n, store, tabs[n]) /\ Holding(n, store, tabs[n])
  BY <1>1 DEF TableInv, AllOk, TabOk
<1>4. DeleteDone(n, store, tabs[n], wheres, a)
  BY <1>1, <1>3, Deleting
<1> HIDE DEF a
<1>5. Touched(n, store, tabs[n], a)
  BY <1>3, <1>4, DeleteTouches
<1>6. Ran(n, a)
  BY <1>1, <1>2, <1>3, <1>5 DEF Ran
<1>7. QED
  BY <1>1, <1>2, <1>4, <1>6 DEF a

\* One of no database table.
LEMMA Unheard ==
  ASSUME NEW n, NEW kind, NEW arg, NEW wheres, ~Known(n), Done(n, kind, arg, wheres, Unknown)
  PROVE  store' = store /\ tabs' = tabs
<1>1. Unknown.st = store
  BY DEF Unknown, Answer
<1>2. QED
  BY <1>1 DEF Known, Done

AllAlone(st, ts) == \A n \in DOMAIN ts : Alone(n, Ent(st, ts[n].root))

\* A step on one table, after which its rows differ.
LEMMA OneAlone ==
  ASSUME TableInv, AllAlone(store, tabs), NEW n, NEW a, Ran(n, a), Alone(n, Ent(a.st, a.tab.root))
  PROVE  AllAlone(store', tabs')
<1> DEFINE us == [tabs EXCEPT ![n] = a.tab]
<1>1. /\ n \in DOMAIN tabs /\ store' = a.st /\ tabs' = us /\ AllOk(store, tabs)
      /\ TabOk(n, a.st, a.tab) /\ Sound(store, tabs[n].root, a.st, a.tab.root)
  BY DEF Ran, Touched, TableInv
<1>2. DOMAIN us = DOMAIN tabs /\ us[n] = a.tab /\ \A m \in DOMAIN tabs : m # n => us[m] = tabs[m]
  <2>1. tabs = [m \in DOMAIN tabs |-> tabs[m]]
    BY <1>1 DEF AllOk
  <2>2. QED
    BY <1>1, <2>1
<1>3. \A m \in DOMAIN tabs : m # n => Ent(a.st, tabs[m].root) = Ent(store, tabs[m].root)
  BY <1>1, OneChanged DEF OtherKept
<1> HIDE DEF us
<1>4. ASSUME NEW m \in DOMAIN us PROVE Alone(m, Ent(a.st, us[m].root))
  <2>1. CASE m = n
    BY <1>2, <2>1
  <2>2. CASE m # n
    <3>1. Alone(m, Ent(store, tabs[m].root)) /\ us[m] = tabs[m]
      BY <1>2, <2>2 DEF AllAlone
    <3>2. QED
      BY <1>2, <1>3, <2>2, <3>1
  <2>3. QED
    BY <2>1, <2>2
<1>5. QED
  BY <1>1, <1>4 DEF AllAlone

\* A new table has no rows.
LEMMA CreateAlone ==
  ASSUME TableInv, AllAlone(store, tabs), NEW n \in Names, CreateTable(n)
  PROVE  AllAlone(store', tabs')
<1> DEFINE c == Create(store)
           us == [m \in DOMAIN tabs \cup {n} |-> IF m = n THEN [root |-> c.root, seq |-> 1] ELSE tabs[m]]
           refused == \/ Cardinality(DOMAIN tabs) >= MaxTables
                      \/ Known(n)
                      \/ BadSchema(Schemas[n])
<1>1. store' = (IF refused THEN store ELSE c.st) /\ tabs' = IF refused THEN tabs ELSE us
  BY DEF CreateTable
<1>2. CASE refused
  BY <1>1, <1>2
<1>3. CASE ~refused
  <2>1. AllOk(store, tabs) /\ n \notin DOMAIN tabs /\ store' = c.st /\ tabs' = us
    BY <1>1, <1>3 DEF TableInv, Known
  <2>2. NewTree(store, c)
    BY <2>1, TreeCreated DEF AllOk
  <2>3. /\ DOMAIN us = DOMAIN tabs \cup {n} /\ us[n].root = c.root
        /\ \A m \in DOMAIN tabs : m # n /\ us[m] = tabs[m]
    BY <2>1
  <2> HIDE DEF c, us, refused
  <2>4. \A m \in DOMAIN tabs : Ent(c.st, tabs[m].root) = Ent(store, tabs[m].root)
    BY <2>1, <2>2, TablesKept DEF NewTree, TreeSame
  <2>5. Alone(n, Ent(c.st, us[n].root))
    BY <2>2, <2>3 DEF NewTree, Alone, CellsDiffer
  <2>6. \A m \in DOMAIN us : Alone(m, Ent(c.st, us[m].root))
    BY <2>3, <2>4, <2>5 DEF AllAlone
  <2>7. QED
    BY <2>1, <2>6 DEF AllAlone
<1>4. QED
  BY <1>2, <1>3

\* CREATE INDEX changes no rows.
LEMMA IndexAlone ==
  ASSUME TableInv, AllAlone(store, tabs), NEW n \in Names, CreateIndex(n)
  PROVE  AllAlone(store', tabs')
<1> DEFINE c == Create(store)
<1>1. store' = (IF Known(n) THEN c.st ELSE store) /\ tabs' = tabs
  BY DEF CreateIndex
<1>2. AllOk(store, tabs) /\ Good(store)
  BY DEF TableInv, AllOk
<1>3. NewTree(store, c)
  BY <1>2, TreeCreated
<1> HIDE DEF c
<1>4. \A m \in DOMAIN tabs : Ent(c.st, tabs[m].root) = Ent(store, tabs[m].root)
  BY <1>2, <1>3, TablesKept DEF NewTree, TreeSame
<1>5. QED
  BY <1>1, <1>4 DEF AllAlone

\* Every step.
LEMMA StepAlone ==
  ASSUME HalvesFit, MaxSplits <= 1, TableInv, Linked, AllAlone(store, tabs), [Next]_vars
  PROVE  AllAlone(store', tabs')
<1>1. store' = store /\ tabs' = tabs => AllAlone(store', tabs')
  OBVIOUS
<1>2. ASSUME NEW n, NEW a, Ran(n, a), ChainReadable(store, tabs[n].root)
      PROVE  /\ Holding(n, store, tabs[n]) /\ SeesAll(store, tabs[n].root) /\ Alone(n, Ent(store, tabs[n].root))
             /\ Alone(n, Ent(a.st, a.tab.root)) => AllAlone(store', tabs')
  <2>1. n \in DOMAIN tabs /\ TabOk(n, store, tabs[n])
    BY <1>2 DEF Ran
  <2>2. Holding(n, store, tabs[n]) /\ SeesAll(store, tabs[n].root) /\ Alone(n, Ent(store, tabs[n].root))
    BY <1>2, <2>1 DEF TabOk, SeesAll, Linked, AllAlone
  <2>3. QED
    BY <1>2, <2>2, OneAlone
<1>3. ASSUME NEW n \in Names, NEW lits \in InsertLits[n], InsertInto(n, lits)
      PROVE  AllAlone(store', tabs')
  <2>1. CASE ~Known(n)
    <3>1. Done(n, "insert", lits, {}, Unknown)
      BY <1>3, <2>1 DEF InsertInto
    <3>2. QED
      BY <1>1, <2>1, <3>1, Unheard
  <2>2. CASE Known(n)
    <3> DEFINE a == ExecInsert(store, Schemas[n], tabs[n], lits)
    <3>1. Ran(n, a) /\ Filled(n, lits, store, tabs[n], a) /\ ChainReadable(store, tabs[n].root)
      BY <1>3, <2>2, InsertRan
    <3> HIDE DEF a
    <3>2. Alone(n, Ent(a.st, a.tab.root))
      BY <1>2, <3>1, InsertAlone
    <3>3. QED
      BY <1>2, <3>1, <3>2
  <2>3. QED
    BY <2>1, <2>2
<1>4. ASSUME NEW n \in Names, NEW set \in SetLits[n], NEW wheres, Update(n, set, wheres)
      PROVE  AllAlone(store', tabs')
  <2>1. CASE ~Known(n)
    <3>1. Done(n, "update", set, wheres, Unknown)
      BY <1>4, <2>1 DEF Update
    <3>2. QED
      BY <1>1, <2>1, <3>1, Unheard
  <2>2. CASE Known(n)
    <3> DEFINE a == ExecUpdate(store, Schemas[n], tabs[n], set[1], set[2], wheres)
    <3>1. /\ Ran(n, a) /\ UpdateDone(n, store, tabs[n], set[1], set[2], wheres, a)
          /\ ChainReadable(store, tabs[n].root) /\ a.rc # Fault
      BY <1>4, <2>2, UpdateRan
    <3> DEFINE c == set[1]
               lit == set[2]
    <3> HIDE DEF a
    <3>2. UpdateDone(n, store, tabs[n], c, lit, wheres, a)
      BY <3>1
    <3> HIDE DEF c, lit
    <3>3. Alone(n, Ent(a.st, a.tab.root))
      BY <1>2, <3>1, <3>2, UpdateAlone
    <3>4. QED
      BY <1>2, <3>1, <3>3
  <2>3. QED
    BY <2>1, <2>2
<1>5. ASSUME NEW n \in Names, NEW wheres, DeleteFrom(n, wheres)
      PROVE  AllAlone(store', tabs')
  <2>1. CASE ~Known(n)
    <3>1. Done(n, "delete", <<>>, wheres, Unknown)
      BY <1>5, <2>1 DEF DeleteFrom
    <3>2. QED
      BY <1>1, <2>1, <3>1, Unheard
  <2>2. CASE Known(n)
    <3> DEFINE a == ExecDelete(store, Schemas[n], tabs[n], wheres)
    <3>1. /\ Ran(n, a) /\ DeleteDone(n, store, tabs[n], wheres, a) /\ ChainReadable(store, tabs[n].root)
      BY <1>5, <2>2, DeleteRan
    <3> HIDE DEF a
    <3>2. Alone(n, Ent(a.st, a.tab.root))
      BY <1>2, <3>1, DeleteAlone
    <3>3. QED
      BY <1>2, <3>1, <3>2
  <2>3. QED
    BY <2>1, <2>2
<1>6. ASSUME NEW n \in Names, CreateTable(n) PROVE AllAlone(store', tabs')
  BY <1>6, CreateAlone
<1>7. ASSUME NEW n \in Names, CreateIndex(n) PROVE AllAlone(store', tabs')
  BY <1>7, IndexAlone
<1>8. CASE UNCHANGED vars
  BY <1>1, <1>8 DEF vars
<1>9. CASE Next
  <2>1. PICK n \in Names : \/ CreateTable(n)
                           \/ CreateIndex(n)
                           \/ \E lits \in InsertLits[n] : InsertInto(n, lits)
                           \/ \E set \in SetLits[n], wheres \in WhereSets : Update(n, set, wheres)
                           \/ \E wheres \in WhereSets : DeleteFrom(n, wheres)
    BY <1>9 DEF Next
  <2>2. QED
    BY <1>3, <1>4, <1>5, <1>6, <1>7, <2>1
<1>10. QED
  BY <1>8, <1>9

\* UniqueKept, of every step.
LEMMA StepUnique ==
  ASSUME HalvesFit, MaxSplits <= 1, TableInv, [Next]_vars
  PROVE  UniqueKept
<1>1. SUFFICES ASSUME Linked, KeysUnique PROVE KeysUnique'
  BY DEF UniqueKept
<1>2. TableInv'
  BY NextKeeps
<1>3. AllOk(store, tabs) /\ AllOk(store', tabs')
  BY <1>2 DEF TableInv
<1>4. Different(store, tabs)
  BY <1>1 DEF KeysUnique, Different
<1>5. AllAlone(store, tabs)
  BY <1>3, <1>4, DifferentIs DEF AllAlone
<1>6. AllAlone(store', tabs')
  BY <1>1, <1>5, StepAlone
<1>7. Different(store', tabs')
  BY <1>3, <1>6, DifferentIs DEF AllAlone
<1>8. QED
  BY <1>7 DEF KeysUnique, Different

\* UniqueKeptWhileLinked: while every leaf is linked, the checks of exec_insert
\* and exec_write let no two rows agree on a key or a UNIQUE column.
THEOREM TableUniqueKept ==
  ASSUME HalvesFit, MaxSplits <= 1
  PROVE  Spec => UniqueKeptWhileLinked
<1>1. TableInv /\ [Next]_vars => [UniqueKept]_store
  BY StepUnique
<1>2. Spec => []TableInv
  BY TableInvariant
<1>3. QED
  BY <1>1, <1>2, PTL DEF Spec, UniqueKeptWhileLinked

----------------------------------------------------------------------------
(* What SQL means, and INSERT and DELETE do.                              *)

\* Rows the code's WHERE lets pass, in the relation.
Hit(n, E, wheres) == {e \in E : RowPasses(Schemas[n], e.v, wheres)}
KeysApart(E) == \A e, f \in E : e.k = f.k => e = f

\* Fewer entries, fewer rows: no two entries make the same row.
LEMMA RelLess ==
  ASSUME NEW n, NEW E, KeysApart(E), NEW H, H \subseteq E, NEW D, D = E \ H
  PROVE  \A row : row \in RelOf(n, D) <=> row \in RelOf(n, E) /\ row \notin RelOf(n, H)
<1>1. \A e, f \in E : RowOf(n, e) = RowOf(n, f) <=> e = f
  <2>1. \A e : RowOf(n, e).id = e.k
    BY DEF RowOf
  <2>2. QED
    BY <2>1 DEF KeysApart
<1>2. \A F : RelOf(n, F) = {RowOf(n, e) : e \in F}
  BY DEF RelOf
<1>3. QED
  BY <1>1, <1>2

\* The WHERE of SQL and of the code let the same rows pass.
LEMMA HitsAre ==
  ASSUME NEW n, NEW E, KeysApart(E), NEW wheres, \A w \in wheres : w.col \in ColNos(Schemas[n])
  PROVE  Passing(RelOf(n, E), wheres) = RelOf(n, Hit(n, E, wheres))
<1>1. \A e, f \in E : RowOf(n, e) = RowOf(n, f) <=> e = f
  <2>1. \A e : RowOf(n, e).id = e.k
    BY DEF RowOf
  <2>2. QED
    BY <2>1 DEF KeysApart
<1>2. \A e \in E, w \in wheres : RowOf(n, e).cells[w.col] = Cell(Schemas[n], e.v, w.col)
  BY DEF RowOf, Cells
<1>3. \A e \in E : (\A w \in wheres : CellPasses(RowOf(n, e).cells[w.col], w)) <=> e \in Hit(n, E, wheres)
  BY <1>2 DEF Hit, RowPasses
<1>4. Passing(RelOf(n, E), wheres) = {RowOf(n, e) : e \in Hit(n, E, wheres)}
  <2>1. Passing(RelOf(n, E), wheres) = {row \in {RowOf(n, e) : e \in E} : \A w \in wheres : CellPasses(row.cells[w.col], w)}
    BY DEF Passing, RelOf
  <2>2. Hit(n, E, wheres) \subseteq E
    BY DEF Hit
  <2>3. QED
    BY <1>3, <2>1, <2>2
<1>5. QED
  BY <1>4 DEF RelOf

\* The code's search for a value.
LEMMA PresentIs ==
  ASSUME NEW n, NEW st, NEW r, Stands(st, r), SeesAll(st, r), NEW c, NEW v
  PROVE  ValueExists(st, Schemas[n], r, c, v) <=> Present(n, Ent(st, r), c, v)
<1>1. ChainReadable(st, r) /\ ToSet(Chain(st, r)) = Leaves(st, r)
  BY DEF SeesAll
<1>2. QED
  BY <1>1, ExistsIs

\* SQL's search for it.
LEMMA TakenIs ==
  ASSUME NEW n, NEW E, NEW c \in ColNos(Schemas[n]), NEW v
  PROVE  Taken(RelOf(n, E), c, v) <=> \E e \in E : CellAt(n, e, c) = v
<1>1. \A e : RowOf(n, e).cells[c] = CellAt(n, e, c)
  BY DEF RowOf, Cells, CellAt
<1>2. QED
  BY <1>1 DEF Taken, RelOf

\* The ids of the rows are the keys of the entries.
LEMMA IdsAre ==
  ASSUME NEW n, NEW E
  PROVE  Ids(RelOf(n, E)) = {e.k : e \in E}
<1>1. \A e : RowOf(n, e).id = e.k
  BY DEF RowOf
<1>2. QED
  BY <1>1 DEF Ids, RelOf

\* RowsAsMeant, of a statement and the relation before and after it: what it
\* answers, and what it makes when it answers OK.
AnswersSo(s, rel, rel2) ==
    /\ Refused(s, rel) => s.rc = -1
    /\ s.rc = -1 => rel2 = rel
    /\ Left(store) >= 2 /\ s.rc = -1 =>
          Refused(s, rel) \/ KeepsVector(s, rel) \/ (s.kind = "update" /\ NullLost(s))
Exactly(rel, rel2, all) ==
    \/ rel2 = all
    \/ /\ Left(store) < 2
       /\ rel2 \subseteq rel \cup all
       /\ Ids(rel) \cap Ids(all) \subseteq Ids(rel2)
ButForNulls(rel, rel2, all) ==
    /\ rel \subseteq rel2
    /\ \A row \in rel2 : \E m \in all : NullsAside(row, m)
MakesSo(s, rel, rel2, all) ==
    /\ Left(store) >= 2 => Ids(rel2) = Ids(all)
    /\ IF NullLost(s) THEN ButForNulls(rel, rel2, all) ELSE Exactly(rel, rel2, all)
AsMeant(s, rel, rel2) ==
    /\ AnswersSo(s, rel, rel2)
    /\ s.rc = 0 /\ ~Refused(s, rel) => MakesSo(s, rel, rel2, Meant(s, rel))

\* A row is itself but for its nulls.
LEMMA RowItself ==
  ASSUME NEW row
  PROVE  NullsAside(row, row)
<1>1. QED
  BY DEF NullsAside

\* INSERT.
LEMMA InsertRefused ==
  ASSUME NEW n, NEW lits \in InsertLits[n], Holding(n, store, tabs[n]), SeesAll(store, tabs[n].root), NEW rc
  PROVE  LET s == [kind |-> "insert", tab |-> n, arg |-> lits, where |-> {}, rc |-> rc]
         IN  Refused(s, RelOf(n, Ent(store, tabs[n].root))) <=> InsertStops(Schemas[n], store, tabs[n], lits)
<1> DEFINE s   == [kind |-> "insert", tab |-> n, arg |-> lits, where |-> {}, rc |-> rc]
           sch == Schemas[n]
           st  == store
           tab == tabs[n]
           E   == Ent(st, tab.root)
           rel == RelOf(n, E)
           v(d) == Value(sch.cols[d], lits[d])
<1>1. n \in Names /\ Stands(st, tab.root)
  BY DEF Holding
<1>6. \A d, x : ValueExists(store, Schemas[n], tabs[n].root, d, x) <=> Present(n, Ent(store, tabs[n].root), d, x)
  <2> DEFINE r == tabs[n].root
  <2> HIDE DEF r
  <2>1. Stands(store, r) /\ SeesAll(store, r)
    BY <1>1 DEF r
  <2>2. \A d, x : ValueExists(store, Schemas[n], r, d, x) <=> Present(n, Ent(store, r), d, x)
    BY <2>1, PresentIs
  <2>3. QED
    BY <2>2 DEF r
<1>2. Refused(s, rel) <=> \/ Len(lits) # Len(sch.cols)
                          \/ \E d \in ColNos(sch) :
                                \/ LitRefused(sch.cols[d], lits[d])
                                \/ v(d) = BadVec
                                \/ v(d) # Null /\ MustBeUnique(sch.cols[d]) /\ Taken(rel, d, v(d))
  BY DEF Refused
<1>3. CASE Len(lits) # Len(sch.cols)
  BY <1>2, <1>3 DEF InsertStops
<1>4. CASE Len(lits) = Len(sch.cols)
  <2>1. DOMAIN lits = ColNos(sch)
    BY <1>1, <1>4, LitAssumption DEF ColNos
  <2>2. \A d \in ColNos(sch) : Taken(rel, d, v(d)) <=> ValueExists(st, sch, tab.root, d, v(d))
    <3>1. TAKE d \in ColNos(sch)
    <3> DEFINE x == v(d)
    <3> HIDE DEF x
    <3>2. Taken(rel, d, x) <=> \E e \in E : CellAt(n, e, d) = x
      BY TakenIs
    <3>3. ValueExists(st, sch, tab.root, d, x) <=> \E e \in E : CellAt(n, e, d) = x
      BY <1>6 DEF Present
    <3>4. QED
      BY <3>2, <3>3 DEF x
  <2>3. InsertStops(sch, st, tab, lits) <=>
           \/ \E d \in ColNos(sch) : LitRefused(sch.cols[d], lits[d])
           \/ \E d \in ColNos(sch) : /\ v(d) # Null /\ MustBeUnique(sch.cols[d])
                                     /\ ValueExists(st, sch, tab.root, d, v(d))
           \/ sch.nullmap /\ \E d \in ColNos(sch) : ~Encodable(v(d))
    <3> DEFINE vals == [c \in DOMAIN lits |-> Value(sch.cols[c], lits[c])]
    <3>1. \A d \in ColNos(sch) : vals[d] = v(d)
      BY <2>1
    <3>2. InsertStops(sch, st, tab, lits) <=>
             \/ \E d \in ColNos(sch) : LitRefused(sch.cols[d], lits[d])
             \/ \E d \in ColNos(sch) : /\ vals[d] # Null /\ MustBeUnique(sch.cols[d])
                                       /\ ValueExists(st, sch, tab.root, d, vals[d])
             \/ sch.nullmap /\ \E d \in ColNos(sch) : ~Encodable(vals[d])
      BY <1>4 DEF InsertStops
    <3> HIDE DEF vals, v
    <3>3. QED
      BY <3>1, <3>2
  <2>4. ~sch.nullmap => \A d \in ColNos(sch) : v(d) # BadVec
    <3>1. SUFFICES ASSUME ~sch.nullmap, NEW d \in ColNos(sch) PROVE v(d) # BadVec
      OBVIOUS
    <3>2. sch.cols[d].type # "vector"
      BY <1>1, <3>1, SchemaAssumption
    <3>3. lits[d] \in Lits(n, d)
      <4>1. lits \in {l \in InsertLits[n] : Len(l) = Len(Schemas[n].cols)}
        BY <1>4
      <4>2. QED
        BY <4>1 DEF Lits
    <3>4. Encodable(Value(sch.cols[d], lits[d]))
      BY <1>1, <3>2, <3>3, LitAssumption
    <3>5. QED
      BY <3>4 DEF Encodable
  <2>5. \A d : ~Encodable(v(d)) <=> v(d) = BadVec
    BY DEF Encodable
  <2> HIDE DEF v, E, rel, s
  <2>6. QED
    BY <1>2, <1>4, <2>2, <2>3, <2>4, <2>5 DEF s, rel, E
<1>5. QED
  BY <1>3, <1>4

\* What INSERT stores is what SQL means.
LEMMA InsertMeans ==
  ASSUME NEW n, NEW lits \in InsertLits[n], Holding(n, store, tabs[n]), SeesAll(store, tabs[n].root),
         NEW a, Filled(n, lits, store, tabs[n], a)
  PROVE  AsMeant([kind |-> "insert", tab |-> n, arg |-> lits, where |-> {}, rc |-> a.rc],
                 RelOf(n, Ent(store, tabs[n].root)), RelOf(n, Ent(a.st, a.tab.root)))
<1> DEFINE s   == [kind |-> "insert", tab |-> n, arg |-> lits, where |-> {}, rc |-> a.rc]
           tab == tabs[n]
           E   == Ent(store, tab.root)
           E2  == Ent(a.st, a.tab.root)
           rel == RelOf(n, E)
           rel2 == RelOf(n, E2)
           stops == InsertStops(Schemas[n], store, tab, lits)
           e   == [k |-> tab.seq, v |-> EncodeRow(Schemas[n], Stored(n, lits))]
<1>1. Refused(s, rel) <=> stops
  <2> DEFINE rc == a.rc
  <2> HIDE DEF rc
  <2>1. LET t == [kind |-> "insert", tab |-> n, arg |-> lits, where |-> {}, rc |-> rc]
        IN  Refused(t, RelOf(n, Ent(store, tabs[n].root))) <=> InsertStops(Schemas[n], store, tabs[n], lits)
    BY InsertRefused
  <2>2. QED
    BY <2>1 DEF rc
<1>2. s.rc = a.rc
  OBVIOUS
<1>5. Left(store) \in Nat
  BY UsedSplit DEF Holding, Stands
<1>3. CASE stops
  <2>1. a.st = store /\ a.tab = tab /\ a.rc = -1
    BY <1>3 DEF Filled
  <2>2. rel2 = rel
    BY <2>1
  <2> HIDE DEF s, rel, rel2, stops
  <2>3. AsMeant(s, rel, rel2)
    BY <1>1, <1>2, <1>3, <2>1, <2>2 DEF AsMeant, AnswersSo
  <2>4. QED
    BY <2>3 DEF s, rel, rel2
<1>4. CASE ~stops
  <2>1. /\ Accepted(n, lits) /\ a.rc = 0
        /\ E2 = E \cup {e} \/ (E2 = E /\ Left(store) < 2)
    BY <1>4 DEF Filled, InsertDone
  <2>2. Stored(n, lits) \in RowsOf(n) /\ n \in Names
    BY <2>1, LitsMake DEF Holding
  <2>3. RowOf(n, e) = [id |-> tab.seq, cells |-> Stored(n, lits)]
    BY <2>2, RowIs DEF RowFacts, RowOf
  <2> DEFINE sch   == Schemas[n]
             given == [id |-> tab.seq, cells |-> [c \in DOMAIN lits |-> Value(sch.cols[c], lits[c])]]
             kept  == RowOf(n, e)
  <2>4. Meant(s, rel) = rel \cup {given}
    BY DEF Meant
  <2>5. E2 = E \cup {e} => rel2 = rel \cup {kept}
    BY DEF RelOf
  <2>6. E2 = E => rel2 = rel
    OBVIOUS
  <2>7. DOMAIN lits = ColNos(sch)
    BY <2>1, <2>2, LitAssumption DEF Accepted, ColNos
  <2>8. \A c \in DOMAIN lits : \/ StoredAs(n, c, lits[c]) = Value(sch.cols[c], lits[c])
                               \/ Value(sch.cols[c], lits[c]) = Null /\ ~sch.nullmap
    BY DEF StoredAs
  <2>9. ~NullLost(s) => kept = given
    <3>1. SUFFICES ASSUME ~NullLost(s) PROVE kept = given
      OBVIOUS
    <3>2. \A c \in DOMAIN lits : ~(Value(sch.cols[c], lits[c]) = Null /\ ~sch.nullmap)
      BY <2>7, <3>1 DEF NullLost
    <3>3. \A c \in DOMAIN lits : StoredAs(n, c, lits[c]) = Value(sch.cols[c], lits[c])
      BY <2>8, <3>2
    <3>4. Stored(n, lits) = given.cells
      BY <3>3 DEF Stored
    <3>5. QED
      BY <2>3, <3>4
  <2>10. NullsAside(kept, given)
    <3>1. \A c \in DOMAIN lits : kept.cells[c] = StoredAs(n, c, lits[c])
      BY <2>3 DEF Stored
    <3> HIDE DEF kept
    <3>2. \A c \in DOMAIN lits : Value(sch.cols[c], lits[c]) \in {kept.cells[c], Null}
      BY <2>8, <3>1
    <3>3. kept.id = tab.seq
      BY <2>3 DEF kept
    <3>4. QED
      BY <3>2, <3>3 DEF NullsAside
  <2>11. kept.id = given.id
    BY <2>3
  <2> HIDE DEF s, rel, rel2, stops, E, E2, e, given, kept
  <2>12. Ids(rel \cup {kept}) = Ids(rel \cup {given})
    BY <2>11 DEF Ids
  <2>13. Ids(rel) \cap Ids(rel \cup {given}) \subseteq Ids(rel)
    OBVIOUS
  <2>14. ASSUME rel2 = rel \cup {kept} PROVE MakesSo(s, rel, rel2, Meant(s, rel))
    <3>1. ButForNulls(rel, rel2, Meant(s, rel))
      BY <2>4, <2>10, <2>14, RowItself DEF ButForNulls
    <3>2. ~NullLost(s) => rel2 = Meant(s, rel)
      BY <2>4, <2>9, <2>14
    <3>3. QED
      BY <2>4, <2>12, <2>14, <3>1, <3>2 DEF MakesSo, Exactly
  <2>15. ASSUME rel2 = rel, Left(store) < 2 PROVE MakesSo(s, rel, rel2, Meant(s, rel))
    <3>1. ButForNulls(rel, rel2, Meant(s, rel)) /\ Exactly(rel, rel2, Meant(s, rel))
      BY <2>4, <2>13, <2>15, RowItself DEF ButForNulls, Exactly
    <3>2. ~(Left(store) >= 2)
      BY <1>5, <2>15
    <3>3. QED
      BY <3>1, <3>2 DEF MakesSo
  <2>16. AsMeant(s, rel, rel2)
    <3>1. MakesSo(s, rel, rel2, Meant(s, rel))
      BY <2>1, <2>5, <2>6, <2>14, <2>15
    <3>2. QED
      BY <1>1, <1>2, <1>4, <2>1, <3>1 DEF AsMeant, AnswersSo
  <2>17. QED
    BY <2>16 DEF s, rel, rel2, E, E2
<1>6. QED
  BY <1>3, <1>4

\* What UPDATE and DELETE collect when they see every leaf.
GotAll(n, E, wheres, got) ==
    /\ got \in Seq(LeafEntry) /\ Len(got) \in Nat /\ KeysOnce(got) /\ KeysApart(E)
    /\ ToSet(got) = Hit(n, E, wheres) /\ ToSet(got) = {got[i] : i \in 1 .. Len(got)}
    /\ \A e \in E : e.k \in KeysTo(got, Len(got)) <=> e \in Hit(n, E, wheres)

\* Along linked leaves all of them are collected.
LEMMA GotIs ==
  ASSUME LeafCap < MatchMax, NEW n, NEW st, NEW r, Stands(st, r), SeesAll(st, r), NEW wheres
  PROVE  GotAll(n, Ent(st, r), wheres, Collect(st, Schemas[n], r, wheres))
<1> DEFINE got == Collect(st, Schemas[n], r, wheres)
           E == Ent(st, r)
           H == Hit(n, E, wheres)
<1>1. got \in Seq(LeafEntry) /\ SortedByKey(got) /\ ToSet(got) = H
  <2>1. ChainReadable(st, r) /\ ToSet(Chain(st, r)) = Leaves(st, r)
    BY DEF SeesAll
  <2> DEFINE sch == Schemas[n]
  <2>2. H = {e \in E : RowPasses(sch, e.v, wheres)}
    BY DEF Hit
  <2> HIDE DEF sch, H
  <2>3. /\ Collect(st, sch, r, wheres) \in Seq(LeafEntry) /\ SortedByKey(Collect(st, sch, r, wheres))
        /\ ToSet(Collect(st, sch, r, wheres)) = {e \in Ent(st, r) : RowPasses(sch, e.v, wheres)}
    BY <2>1, CollectedAll
  <2>4. QED
    BY <2>2, <2>3 DEF sch
<1>2. KeysApart(E)
  BY EntFacts DEF KeysApart
<1> HIDE DEF got, E
<1>3. /\ Len(got) \in Nat /\ ToSet(got) = {got[i] : i \in 1 .. Len(got)}
      /\ \A i, j \in 1 .. Len(got) : i < j => got[i].k < got[j].k
      /\ \A i \in 1 .. Len(got) : got[i].k \in Nat
  BY <1>1, EntryRoom, SortedFacts
<1>4. KeysOnce(got)
  <2> DEFINE m == Len(got)
  <2>1. m \in Nat /\ \A i, j \in 1 .. m : i < j => got[i].k < got[j].k
    BY <1>3
  <2>2. \A i \in 1 .. m : got[i].k \in Nat
    BY <1>3
  <2> HIDE DEF m
  <2>3. \A i, j \in 1 .. m : got[i].k = got[j].k => i = j
    BY <2>1, <2>2
  <2>4. QED
    BY <2>3 DEF KeysOnce, m
<1>5. \A e \in E : e.k \in KeysTo(got, Len(got)) <=> e \in H
  <2>1. H \subseteq E
    BY DEF Hit
  <2> HIDE DEF H
  <2>2. KeysTo(got, Len(got)) = {e.k : e \in H}
    BY <1>1, <1>3 DEF KeysTo
  <2>3. QED
    BY <1>2, <2>1, <2>2 DEF KeysApart
<1>6. QED
  BY <1>1, <1>2, <1>3, <1>4, <1>5 DEF GotAll, got, E

\* What DELETE leaves is what SQL means.
LEMMA DeleteMeans ==
  ASSUME LeafCap < MatchMax, NEW n, Holding(n, store, tabs[n]), SeesAll(store, tabs[n].root), NEW wheres,
         NEW a, DeleteDone(n, store, tabs[n], wheres, a)
  PROVE  AsMeant([kind |-> "delete", tab |-> n, arg |-> <<>>, where |-> wheres, rc |-> a.rc],
                 RelOf(n, Ent(store, tabs[n].root)), RelOf(n, Ent(a.st, a.tab.root)))
<1> DEFINE s   == [kind |-> "delete", tab |-> n, arg |-> <<>>, where |-> wheres, rc |-> a.rc]
           sch == Schemas[n]
           tab == tabs[n]
           r   == tab.root
           E   == Ent(store, r)
           E2  == Ent(a.st, a.tab.root)
           rel == RelOf(n, E)
           rel2 == RelOf(n, E2)
           bad == \E w \in wheres : BadClause(sch, w)
           got == Collect(store, sch, r, wheres)
           m   == Len(got)
           hits == Passing(rel, wheres)
<1>1. Stands(store, r)
  BY DEF Holding
<1>2. Refused(s, rel) <=> bad
  BY DEF Refused
<1>3. Meant(s, rel) = rel \ hits
  BY DEF Meant
<1>4. s.rc = a.rc
  OBVIOUS
<1>5. CASE bad
  <2>1. a.st = store /\ a.tab = tab /\ a.rc = -1
    BY <1>5 DEF DeleteDone
  <2>2. rel2 = rel
    BY <2>1
  <2> HIDE DEF s, rel, rel2, bad
  <2>3. AsMeant(s, rel, rel2)
    BY <1>2, <1>4, <1>5, <2>1, <2>2 DEF AsMeant, AnswersSo
  <2>4. QED
    BY <2>3 DEF s, rel, rel2
<1>6. CASE ~bad
  <2>1. DropSo(store, tab, got, m, a)
    BY <1>6 DEF DeleteDone
  <2>2. GotAll(n, E, wheres, got)
    <3> HIDE DEF r
    <3>1. SeesAll(store, r)
      BY DEF r
    <3>2. QED
      BY <1>1, <3>1, GotIs
  <2>3. \A w \in wheres : w.col \in ColNos(sch)
    BY <1>6 DEF BadClause
  <2>4. Left(store) \in Nat
    BY <1>1, UsedSplit DEF Stands
  <2> HIDE DEF got, bad, E
  <2>5. hits = RelOf(n, Hit(n, E, wheres))
    BY <2>2, <2>3, HitsAre DEF GotAll
  <2>6. a.rc \in {0, -1}
    BY <2>1 DEF DropSo
  <2>7. a.rc = -1 => a.st = store /\ a.tab = tab /\ Left(store) < 2
    BY <2>1, <2>2, <2>4 DEF DropSo, GotAll
  <2>8. a.rc = 0 => E2 = E \ Hit(n, E, wheres)
    <3>1. a.rc = 0 => E2 = Lacking(E, KeysTo(got, m))
      BY <2>1 DEF DropSo, E
    <3>2. Lacking(E, KeysTo(got, m)) = E \ Hit(n, E, wheres)
      BY <2>2 DEF Lacking, GotAll
    <3>3. QED
      BY <3>1, <3>2
  <2>9. rel \ hits = RelOf(n, E \ Hit(n, E, wheres))
    <3> DEFINE H == Hit(n, E, wheres)
               D == E \ H
    <3>1. H \subseteq E /\ KeysApart(E)
      BY <2>2 DEF Hit, GotAll
    <3> HIDE DEF H, hits, D
    <3>2. D = E \ H
      BY DEF D
    <3>3. \A row : row \in RelOf(n, D) <=> row \in RelOf(n, E) /\ row \notin RelOf(n, H)
      BY <3>1, <3>2, RelLess
    <3>4. rel \ RelOf(n, H) = RelOf(n, D)
      BY <3>3
    <3>5. QED
      BY <2>5, <3>4 DEF H, D
  <2>10. a.rc = 0 => rel2 = Meant(s, rel)
    <3> HIDE DEF hits, s
    <3>1. QED
      BY <1>3, <2>8, <2>9
  <2>11. a.rc = -1 => rel2 = rel
    BY <2>7 DEF E
  <2>14. ~NullLost(s)
    BY DEF NullLost
  <2> HIDE DEF s, rel, rel2, hits
  <2>15. a.rc = 0 => MakesSo(s, rel, rel2, Meant(s, rel))
    BY <2>10, <2>14 DEF MakesSo, Exactly
  <2>12. AsMeant(s, rel, rel2)
    BY <1>2, <1>4, <1>6, <2>4, <2>6, <2>7, <2>11, <2>15 DEF AsMeant, AnswersSo
  <2>13. QED
    BY <2>12 DEF s, rel, rel2, E
<1>7. QED
  BY <1>5, <1>6

----------------------------------------------------------------------------
(* What SQL means, and UPDATE does.                                       *)

\* Every row of a table fits the buffer a row is changed in.
RowsFit ==
    \A n \in Names : ~BadSchema(Schemas[n]) =>
       \A cs \in RowsOf(n) : ~(Len(EncodeRow(Schemas[n], cs).body) > RowMax)

\* A value UPDATE cannot set.
Unset(n, v) == v = BadVec \/ (v = Null /\ ~Schemas[n].nullmap)

\* Whether UPDATE can change a row depends on the value only.
LEMMA ReplaceFails ==
  ASSUME RowsFit, NEW n \in Names, ~BadSchema(Schemas[n]), NEW c, NEW v, Settable(n, c, v), NEW row, RowAt(n, row)
  PROVE  /\ CannotReplace(Schemas[n], row, c, v) <=> Unset(n, v)
         /\ ~Unset(n, v) => v \in CellsOf(n, c)
<1> DEFINE sch == Schemas[n]
<1>1. CASE Unset(n, v)
  BY <1>1 DEF Unset, CannotReplace, Encodable
<1>2. CASE ~Unset(n, v)
  <2>1. v \in CellsOf(n, c) /\ c \in ColNos(sch) /\ Encodable(v)
    BY <1>2 DEF Unset, Settable, Encodable
  <2>2. PICK cs \in RowsOf(n) : row = EncodeRow(sch, cs)
    BY DEF RowAt
  <2>3. /\ Changed(cs, c, v) \in RowsOf(n)
        /\ ReplaceCol(sch, EncodeRow(sch, cs), c, v) = EncodeRow(sch, Changed(cs, c, v))
    BY <2>1, RowWith
  <2>4. ~(Len(ReplaceCol(sch, row, c, v).body) > RowMax)
    BY <2>2, <2>3 DEF RowsFit
  <2>5. ~CannotReplace(sch, row, c, v)
    BY <1>2, <2>1, <2>4 DEF CannotReplace, Unset
  <2>6. QED
    BY <1>2, <2>1, <2>5
<1>3. QED
  BY <1>1, <1>2

\* As many rows are collected as the relation has rows that pass.
LEMMA HitsCounted ==
  ASSUME NEW n, NEW E, NEW wheres, NEW got, GotAll(n, E, wheres, got)
  PROVE  /\ Cardinality(RelOf(n, Hit(n, E, wheres))) = Len(got)
         /\ RelOf(n, Hit(n, E, wheres)) = {RowOf(n, got[i]) : i \in 1 .. Len(got)}
<1> DEFINE m == Len(got)
           R == RelOf(n, Hit(n, E, wheres))
           f == [i \in 1 .. m |-> RowOf(n, got[i])]
<1>1. m \in Nat /\ Hit(n, E, wheres) = {got[i] : i \in 1 .. m} /\ KeysOnce(got)
  BY DEF GotAll
<1>2. R = {RowOf(n, got[i]) : i \in 1 .. m}
  BY <1>1 DEF RelOf
<1>3. \A i, j \in 1 .. m : RowOf(n, got[i]) = RowOf(n, got[j]) => i = j
  BY <1>1 DEF KeysOnce, RowOf
<1> HIDE DEF m, R
<1>4. f \in Bijection(1 .. m, R)
  <2>1. f \in [1 .. m -> R] /\ \A r \in R : \E i \in 1 .. m : f[i] = r
    BY <1>2
  <2>2. \A i, j \in 1 .. m : f[i] = f[j] => i = j
    BY <1>3
  <2> HIDE DEF f
  <2>3. f \in Injection(1 .. m, R)
    BY <2>1, <2>2 DEF Injection, IsInjective
  <2>4. f \in Surjection(1 .. m, R)
    BY <2>1 DEF Surjection
  <2>5. QED
    BY <2>3, <2>4 DEF Bijection
<1>5. IsFiniteSet(1 .. m) /\ Cardinality(1 .. m) = m
  <2> DEFINE one == 1
  <2>1. one \in Int /\ m \in Int /\ one = 1
    BY <1>1
  <2> HIDE DEF one
  <2>2. IsFiniteSet(one .. m) /\ Cardinality(one .. m) = IF one > m THEN 0 ELSE m - one + 1
    BY <2>1, FS_Interval
  <2>3. QED
    BY <1>1, <2>1, <2>2
<1>6. Cardinality(R) = m
  <2> DEFINE S == 1 .. m
  <2>1. IsFiniteSet(S) /\ Cardinality(S) = m /\ ExistsBijection(S, R)
    BY <1>4, <1>5 DEF ExistsBijection
  <2> HIDE DEF S
  <2>2. QED
    BY <2>1, FS_Bijection
<1>7. QED
  BY <1>2, <1>6 DEF m, R

\* What UPDATE's check takes for a duplicate, and what is one.
Doubled(n, rel, hits, c, v) ==
    LET other == IF Schemas[n].cols[c].type = "vector" THEN rel ELSE rel \ hits
    IN  v # Null /\ MustBeUnique(Schemas[n].cols[c]) /\ (Cardinality(hits) > 1 \/ Taken(other, c, v))
Clashes(n, rel, hits, c, v) ==
    v # Null /\ MustBeUnique(Schemas[n].cols[c]) /\ (Cardinality(hits) > 1 \/ Taken(rel \ hits, c, v))

\* A duplicate is taken for one; so is a VECTOR one of the rows has already.
LEMMA ClashIs ==
  ASSUME NEW n, NEW rel, NEW hits, hits \subseteq rel, NEW c, NEW v
  PROVE  /\ Clashes(n, rel, hits, c, v) => Doubled(n, rel, hits, c, v)
         /\ Doubled(n, rel, hits, c, v) =>
               \/ Clashes(n, rel, hits, c, v)
               \/ /\ Schemas[n].cols[c].type = "vector" /\ MustBeUnique(Schemas[n].cols[c])
                  /\ \E row \in hits : row.cells[c] = v
<1>1. Taken(rel, c, v) <=> Taken(rel \ hits, c, v) \/ \E row \in hits : row.cells[c] = v
  BY DEF Taken
<1> DEFINE two == Cardinality(hits) > 1
<1>2. Clashes(n, rel, hits, c, v) <=>
        v # Null /\ MustBeUnique(Schemas[n].cols[c]) /\ (two \/ Taken(rel \ hits, c, v))
  BY DEF Clashes
<1>3. Doubled(n, rel, hits, c, v) <=>
        /\ v # Null /\ MustBeUnique(Schemas[n].cols[c])
        /\ two \/ Taken(IF Schemas[n].cols[c].type = "vector" THEN rel ELSE rel \ hits, c, v)
  BY DEF Doubled
<1> HIDE DEF two
<1>4. QED
  BY <1>1, <1>2, <1>3

\* The check finds them while the leaves are linked and the rows differ.
LEMMA UniqueIs ==
  ASSUME NEW n, NEW st, NEW r, Stands(st, r), SeesAll(st, r), Alone(n, Ent(st, r)), NEW wheres, NEW got,
         GotAll(n, Ent(st, r), wheres, got), NEW c \in ColNos(Schemas[n]), NEW v
  PROVE  LET hits == RelOf(n, Hit(n, Ent(st, r), wheres))
         IN  NotUnique(st, Schemas[n], r, got, c, v) <=> got # <<>> /\ Doubled(n, RelOf(n, Ent(st, r)), hits, c, v)
<1> DEFINE sch  == Schemas[n]
           E    == Ent(st, r)
           H    == Hit(n, E, wheres)
           rel  == RelOf(n, E)
           hits == RelOf(n, H)
           m    == Len(got)
<1>1. Cardinality(hits) = m
  BY HitsCounted
<1>2. m \in Nat /\ H = {got[i] : i \in 1 .. m} /\ got \in Seq(LeafEntry) /\ KeysApart(E) /\ H \subseteq E
  BY DEF GotAll, Hit
<1>3. got # <<>> <=> m # 0
  BY <1>2, EmptySeq
<1>4. ValueExists(st, sch, r, c, v) <=> \E e \in E : CellAt(n, e, c) = v
  <2>1. ValueExists(st, sch, r, c, v) <=> Present(n, E, c, v)
    BY PresentIs
  <2>2. QED
    BY <2>1 DEF Present
<1>5. Taken(rel, c, v) <=> \E e \in E : CellAt(n, e, c) = v
  BY TakenIs
<1> DEFINE D == E \ H
<1>6. Taken(rel \ hits, c, v) <=> \E e \in D : CellAt(n, e, c) = v
  <2>1. D = E \ H /\ H \subseteq E /\ KeysApart(E)
    BY <1>2
  <2> HIDE DEF E, D, H
  <2>2. \A row : row \in RelOf(n, D) <=> row \in RelOf(n, E) /\ row \notin RelOf(n, H)
    BY <2>1, RelLess
  <2>3. rel \ hits = RelOf(n, D)
    BY <2>2
  <2>4. Taken(RelOf(n, D), c, v) <=> \E e \in D : CellAt(n, e, c) = v
    BY TakenIs
  <2>5. QED
    BY <2>3, <2>4
<1>7. Alone(n, E)
  OBVIOUS
<1>8. NotUnique(st, sch, r, got, c, v) <=>
        /\ v # Null /\ MustBeUnique(sch.cols[c]) /\ m # 0
        /\ \/ m > 1
           \/ /\ CellAt(n, got[1], c) # v \/ sch.cols[c].type = "vector"
              /\ \E e \in E : CellAt(n, e, c) = v
  <2> HIDE DEF E, m
  <2>1. QED
    BY <1>3, <1>4 DEF NotUnique, CellAt, m
<1>9. (m # 0 /\ Doubled(n, rel, hits, c, v)) <=>
        /\ v # Null /\ MustBeUnique(sch.cols[c]) /\ m # 0
        /\ \/ m > 1
           \/ sch.cols[c].type = "vector" /\ \E e \in E : CellAt(n, e, c) = v
           \/ sch.cols[c].type # "vector" /\ \E e \in D : CellAt(n, e, c) = v
  <2> DEFINE k == Cardinality(hits)
  <2>1. k = m
    BY <1>1
  <2>2. Doubled(n, rel, hits, c, v) <=>
           /\ v # Null /\ MustBeUnique(sch.cols[c])
           /\ k > 1 \/ Taken(IF sch.cols[c].type = "vector" THEN rel ELSE rel \ hits, c, v)
    BY DEF Doubled
  <2> HIDE DEF k, rel, hits, E, D, m
  <2>3. QED
    BY <1>5, <1>6, <2>1, <2>2
<1>10. ASSUME m = 1, v # Null, MustBeUnique(sch.cols[c])
       PROVE  (\E e \in D : CellAt(n, e, c) = v) <=> CellAt(n, got[1], c) # v /\ \E e \in E : CellAt(n, e, c) = v
  <2>1. H = {got[1]}
    <3> HIDE DEF H, m
    <3>1. 1 .. m = {1}
      BY <1>10
    <3>2. QED
      BY <1>2, <3>1
  <2>2. CellsDiffer(n, E, c)
    BY <1>7, <1>10 DEF Alone
  <2>3. got[1] \in E
    BY <1>2, <2>1
  <2> HIDE DEF E, H
  <2>4. QED
    BY <1>10, <2>1, <2>2, <2>3 DEF CellsDiffer
<1>11. m # 0 /\ ~(m > 1) => m = 1
  <2> HIDE DEF m
  <2>1. QED
    BY <1>2
<1> HIDE DEF m, rel, hits, E, D, H
<1>12. NotUnique(st, sch, r, got, c, v) <=> m # 0 /\ Doubled(n, rel, hits, c, v)
  BY <1>8, <1>9, <1>10, <1>11
<1>13. QED
  BY <1>3, <1>12 DEF m, rel, hits, E, H

\* A row with one cell changed.
RowSet(row, c, x) == [row EXCEPT !.cells[c] = x]

\* The row read after row_replace_col.
LEMMA RowChanged ==
  ASSUME NEW n \in Names, NEW e, RowAt(n, e.v), NEW c \in ColNos(Schemas[n]), NEW x \in CellsOf(n, c)
  PROVE  RowOf(n, With(Schemas[n], e, c, x)) = RowSet(RowOf(n, e), c, x)
<1> DEFINE sch == Schemas[n]
           cs  == Cells(sch, e.v)
<1>1. Cells(sch, With(sch, e, c, x).v) = [cs EXCEPT ![c] = x]
  BY ReadSet DEF Changed
<1>2. With(sch, e, c, x).k = e.k
  BY DEF With
<1>3. RowOf(n, With(sch, e, c, x)) = [id |-> e.k, cells |-> [cs EXCEPT ![c] = x]]
  BY <1>1, <1>2 DEF RowOf
<1>4. RowOf(n, e) = [id |-> e.k, cells |-> cs]
  BY DEF RowOf
<1> HIDE DEF cs
<1>5. QED
  BY <1>3, <1>4 DEF RowSet

\* The relation after the rows of some keys were changed.
\* The relation meant when the rows H of the rows E are changed.
MeantBy(n, E, H, c, x, meant) ==
    \A row : row \in meant <=> \/ row \in RelOf(n, E) /\ row \notin RelOf(n, H)
                               \/ \E h \in RelOf(n, H) : row = RowSet(h, c, x)
KeysOf(E, H, keys) == H \subseteq E /\ \A e \in E : e.k \in keys <=> e \in H
SetAll(n, E, F, keys, done, meant) ==
    /\ done = keys => RelOf(n, F) = meant
    /\ RelOf(n, F) \subseteq RelOf(n, E) \cup meant
    /\ Ids(RelOf(n, F)) = Ids(RelOf(n, E))

\* The changed entries make the relation that is meant, once all are changed.
LEMMA SetMeans ==
  ASSUME NEW n \in Names, NEW E, KeysApart(E), \A e \in E : RowAt(n, e.v),
         NEW H, NEW keys, KeysOf(E, H, keys), NEW done, done \subseteq keys,
         NEW c \in ColNos(Schemas[n]), NEW x \in CellsOf(n, c), NEW meant, MeantBy(n, E, H, c, x, meant),
         NEW F, F = SetOn(Schemas[n], E, done, c, x)
  PROVE  SetAll(n, E, F, keys, done, meant)
<1> DEFINE to(e) == IF e.k \in done THEN With(Schemas[n], e, c, x) ELSE e
           now(e) == IF e.k \in done THEN RowSet(RowOf(n, e), c, x) ELSE RowOf(n, e)
<1>0. /\ \A row : row \in meant <=> \/ row \in RelOf(n, E) /\ row \notin RelOf(n, H)
                                    \/ \E h \in RelOf(n, H) : row = RowSet(h, c, x)
      /\ H \subseteq E /\ \A e \in E : e.k \in keys <=> e \in H
  BY DEF MeantBy, KeysOf
<1>1. \A e \in E : RowOf(n, to(e)) = now(e)
  <2>1. TAKE e \in E
  <2>2. RowOf(n, With(Schemas[n], e, c, x)) = RowSet(RowOf(n, e), c, x)
    BY RowChanged
  <2>3. QED
    BY <2>2
<1>2. F = {to(e) : e \in E}
  BY DEF SetOn
<1>3. \A e \in E : to(e).k = e.k
  BY DEF With
<1> HIDE DEF to
<1>4. RelOf(n, F) = {now(e) : e \in E}
  BY <1>1, <1>2 DEF RelOf
<1>5. RelOf(n, E) = {RowOf(n, e) : e \in E} /\ RelOf(n, H) = {RowOf(n, e) : e \in H}
  BY DEF RelOf
<1>6. \A e, f \in E : RowOf(n, e) = RowOf(n, f) <=> e = f
  <2>1. \A e : RowOf(n, e).id = e.k
    BY DEF RowOf
  <2>2. QED
    BY <2>1 DEF KeysApart
<1>7. \A e \in E : RowOf(n, e) \in RelOf(n, H) <=> e \in H
  BY <1>0, <1>5, <1>6
<1>8. \A e \in H : RowSet(RowOf(n, e), c, x) \in meant
  BY <1>0, <1>5
<1>9. \A e \in E : e \notin H => RowOf(n, e) \in meant
  BY <1>0, <1>5, <1>7
<1>10. \A e \in E : now(e) \in RelOf(n, E) \cup meant
  BY <1>0, <1>5, <1>8
<1>11. ASSUME done = keys, NEW row \in meant PROVE row \in RelOf(n, F)
  <2>1. CASE row \in RelOf(n, E) /\ row \notin RelOf(n, H)
    <3>1. PICK e \in E : row = RowOf(n, e)
      BY <1>5, <2>1
    <3>2. now(e) = row
      BY <1>0, <1>7, <1>11, <2>1, <3>1
    <3>3. QED
      BY <1>4, <3>2
  <2>2. CASE ~(row \in RelOf(n, E) /\ row \notin RelOf(n, H))
    <3>1. PICK h \in RelOf(n, H) : row = RowSet(h, c, x)
      BY <1>0, <1>11, <2>2
    <3>2. PICK e \in H : h = RowOf(n, e)
      BY <1>5, <3>1
    <3>3. e \in E /\ now(e) = row
      BY <1>0, <1>11, <3>1, <3>2
    <3>4. QED
      BY <1>4, <3>3
  <2>3. QED
    BY <2>1, <2>2
<1>12. ASSUME done = keys PROVE \A e \in E : now(e) \in meant
  BY <1>0, <1>8, <1>9, <1>12
<1>13. Ids(RelOf(n, F)) = Ids(RelOf(n, E))
  <2>1. Ids(RelOf(n, F)) = {e.k : e \in F} /\ Ids(RelOf(n, E)) = {e.k : e \in E}
    BY IdsAre
  <2>2. QED
    BY <1>2, <1>3, <2>1
<1> HIDE DEF now
<1>14. done = keys => RelOf(n, F) = meant
  BY <1>4, <1>11, <1>12
<1>15. RelOf(n, F) \subseteq RelOf(n, E) \cup meant
  BY <1>4, <1>10
<1>16. QED
  BY <1>13, <1>14, <1>15 DEF SetAll

\* What makes SQL refuse an UPDATE, by the rows that pass.
LEMMA UpdateRefused ==
  ASSUME NEW n, NEW set, NEW wheres, NEW rc, NEW rel
  PROVE  LET s    == [kind |-> "update", tab |-> n, arg |-> set, where |-> wheres, rc |-> rc]
             sch  == Schemas[n]
             hits == Passing(rel, wheres)
             v    == Value(sch.cols[set[1]], set[2])
         IN  /\ Refused(s, rel) <=> \/ set[1] \notin ColNos(sch)
                                    \/ \E w \in wheres : BadClause(sch, w)
                                    \/ LitRefused(sch.cols[set[1]], set[2])
                                    \/ hits # {} /\ (v = BadVec \/ Clashes(n, rel, hits, set[1], v))
             /\ Meant(s, rel) = (rel \ hits) \cup {RowSet(row, set[1], v) : row \in hits}
<1> DEFINE s    == [kind |-> "update", tab |-> n, arg |-> set, where |-> wheres, rc |-> rc]
           sch  == Schemas[n]
           hits == Passing(rel, wheres)
           v    == Value(sch.cols[set[1]], set[2])
<1>1. Refused(s, rel) <=> \/ set[1] \notin ColNos(sch)
                          \/ \E w \in wheres : BadClause(sch, w)
                          \/ LitRefused(sch.cols[set[1]], set[2])
                          \/ hits # {} /\ (v = BadVec \/ Clashes(n, rel, hits, set[1], v))
  BY DEF Refused, Clashes
<1>2. Meant(s, rel) = (rel \ hits) \cup {RowSet(row, set[1], v) : row \in hits}
  BY DEF Meant, RowSet
<1>3. QED
  BY <1>1, <1>2

\* What the loop answers for the relations before and after it, and the one meant.
LoopAnswer(n, v, got, rc, rel, rel2, meant) ==
    /\ rc \in {0, -1} /\ (rc = -1 <=> Len(got) # 0 /\ Unset(n, v))
    /\ rc = -1 \/ Len(got) = 0 => rel2 = rel
    /\ rc = 0 => \/ rel2 = meant
                 \/ /\ Left(store) < 2
                    /\ rel2 \subseteq rel \cup meant
                    /\ Ids(rel2) = Ids(rel)

\* UPDATE, once its clauses and its literal are accepted: the loop's answer.
LEMMA LoopMeans ==
  ASSUME RowsFit, NEW n, NEW st, st = store, NEW tab, Holding(n, st, tab), NEW wheres, NEW c, NEW v, Settable(n, c, v),
         NEW got, GotAll(n, Ent(st, tab.root), wheres, got),
         NEW a, SetSo(n, c, v, st, tab, got, Len(got), a), a.rc # Fault,
         NEW meant, MeantBy(n, Ent(st, tab.root), Hit(n, Ent(st, tab.root), wheres), c, v, meant)
  PROVE  LoopAnswer(n, v, got, a.rc, RelOf(n, Ent(st, tab.root)), RelOf(n, Ent(a.st, a.tab.root)), meant)
<1> DEFINE sch == Schemas[n]
           E   == Ent(st, tab.root)
           H   == Hit(n, E, wheres)
           E2  == Ent(a.st, a.tab.root)
           m   == Len(got)
           keys == KeysTo(got, m)
           bad == Unset(n, v)
           no(i) == CannotReplace(sch, got[i].v, c, v)
<1>1. n \in Names /\ ~BadSchema(sch) /\ Stands(st, tab.root) /\ \A e \in E : RowAt(n, e.v)
  BY DEF Holding, Rows
<1>2. /\ m \in Nat /\ H = {got[i] : i \in 1 .. m} /\ KeysApart(E) /\ H \subseteq E
      /\ \A e \in E : e.k \in keys <=> e \in H
  BY DEF GotAll, Hit
<1>3. a.rc \in {0, -1}
  <2>1. a \in Answers(tab.seq)
    BY DEF SetSo
  <2>2. QED
    BY <2>1, AnswerOf
<1>4. /\ \E done \in SUBSET keys : E2 = SetOn(sch, E, done, c, v) /\ (a.rc = 0 => done = keys \/ Left(st) < 2)
      /\ a.rc = 0 => \A i \in 1 .. m : ~no(i)
      /\ a.rc = -1 => \E i \in 1 .. m : no(i)
      /\ m = 0 \/ (a.rc = -1 /\ no(1)) => a.st = st /\ a.tab = tab
  BY DEF SetSo, SetUpto
<1>5. c \in ColNos(sch)
  BY DEF Settable
<1>6. \A i \in 1 .. m : (no(i) <=> bad) /\ (~bad => v \in CellsOf(n, c))
  <2>1. TAKE i \in 1 .. m
  <2>2. RowAt(n, got[i].v)
    <3> HIDE DEF H, E, m
    <3>1. got[i] \in E
      BY <1>2
    <3>2. QED
      BY <1>1, <3>1
  <2> DEFINE row == got[i].v
  <2>3. RowAt(n, row)
    BY <2>2
  <2> HIDE DEF row
  <2>4. (CannotReplace(sch, row, c, v) <=> bad) /\ (~bad => v \in CellsOf(n, c))
    BY <1>1, <2>3, ReplaceFails
  <2>5. QED
    BY <2>4 DEF row
<1>7. m # 0 => 1 \in 1 .. m
  <2> HIDE DEF m
  <2>1. QED
    BY <1>2
<1>8. m = 0 => 1 .. m = {}
  <2> HIDE DEF m
  <2>1. QED
    OBVIOUS
<1> HIDE DEF no, bad, E, E2, H, m, keys
<1>9. a.rc = -1 <=> m # 0 /\ bad
  BY <1>3, <1>4, <1>6, <1>7, <1>8
<1>10. a.rc = -1 \/ m = 0 => E2 = E
  BY <1>4, <1>6, <1>7, <1>9 DEF E, E2
<1>11. a.rc = 0 /\ m = 0 => RelOf(n, E2) = meant
  <2>1. SUFFICES ASSUME a.rc = 0, m = 0 PROVE RelOf(n, E2) = meant
    OBVIOUS
  <2>2. E2 = E
    BY <1>4, <2>1 DEF E, E2
  <2>3. H = {}
    BY <1>2, <1>8, <2>1
  <2>4. RelOf(n, H) = {}
    BY <2>3 DEF RelOf
  <2>5. \A row : row \in meant <=> \/ row \in RelOf(n, E) /\ row \notin RelOf(n, H)
                                   \/ \E h \in RelOf(n, H) : row = RowSet(h, c, v)
    BY DEF E, H, MeantBy
  <2>6. QED
    BY <2>2, <2>4, <2>5
<1>12. a.rc = 0 /\ m # 0 => \/ RelOf(n, E2) = meant
                            \/ /\ Left(st) < 2 /\ RelOf(n, E2) \subseteq RelOf(n, E) \cup meant
                               /\ Ids(RelOf(n, E2)) = Ids(RelOf(n, E))
  <2>1. SUFFICES ASSUME a.rc = 0, m # 0
                 PROVE  \/ RelOf(n, E2) = meant
                        \/ /\ Left(st) < 2 /\ RelOf(n, E2) \subseteq RelOf(n, E) \cup meant
                           /\ Ids(RelOf(n, E2)) = Ids(RelOf(n, E))
    OBVIOUS
  <2>2. ~bad
    BY <1>9, <2>1
  <2>3. v \in CellsOf(n, c)
    BY <1>6, <1>7, <2>1, <2>2
  <2>4. PICK done \in SUBSET keys : E2 = SetOn(sch, E, done, c, v) /\ (done = keys \/ Left(st) < 2)
    BY <1>4, <2>1
  <2>5. MeantBy(n, E, H, c, v, meant)
    BY DEF E, H
  <2>6. SetAll(n, E, E2, keys, done, meant)
    <3>1. done \subseteq keys /\ E2 = SetOn(Schemas[n], E, done, c, v)
      BY <2>4
    <3>2. KeysApart(E) /\ (\A e \in E : RowAt(n, e.v)) /\ KeysOf(E, H, keys)
      BY <1>1, <1>2 DEF KeysOf
    <3> HIDE DEF sch
    <3>3. c \in ColNos(Schemas[n]) /\ v \in CellsOf(n, c) /\ n \in Names
      BY <1>1, <1>5, <2>3 DEF sch
    <3>4. QED
      BY <2>5, <3>1, <3>2, <3>3, SetMeans
  <2>7. QED
    BY <2>4, <2>6 DEF SetAll
<1>13. QED
  <2>1. LoopAnswer(n, v, got, a.rc, RelOf(n, E), RelOf(n, E2), meant)
    BY <1>3, <1>9, <1>10, <1>11, <1>12 DEF LoopAnswer, m, bad
  <2>2. QED
    BY <2>1 DEF E, E2

\* What UPDATE makes of the rows is what SQL means.
LEMMA UpdateMeans ==
  ASSUME RowsFit, LeafCap < MatchMax, NEW n, Holding(n, store, tabs[n]), SeesAll(store, tabs[n].root),
         Alone(n, Ent(store, tabs[n].root)), NEW set, NEW wheres,
         NEW a, UpdateDone(n, store, tabs[n], set[1], set[2], wheres, a), a.rc # Fault
  PROVE  AsMeant([kind |-> "update", tab |-> n, arg |-> set, where |-> wheres, rc |-> a.rc],
                 RelOf(n, Ent(store, tabs[n].root)), RelOf(n, Ent(a.st, a.tab.root)))
<1> DEFINE s    == [kind |-> "update", tab |-> n, arg |-> set, where |-> wheres, rc |-> a.rc]
           sch  == Schemas[n]
           c    == set[1]
           lit  == set[2]
           v    == Value(sch.cols[c], lit)
           r    == tabs[n].root
           E    == Ent(store, r)
           E2   == Ent(a.st, a.tab.root)
           H    == Hit(n, E, wheres)
           rel  == RelOf(n, E)
           rel2 == RelOf(n, E2)
           hits == Passing(rel, wheres)
           got  == Collect(store, sch, r, wheres)
           stops == UpdateStops(sch, store, tabs[n], c, lit, wheres)
           barred == c \notin ColNos(sch) \/ (\E w \in wheres : BadClause(sch, w)) \/ LitRefused(sch.cols[c], lit)
<1>1. n \in Names /\ Stands(store, r)
  BY DEF Holding
<1>2. Left(store) \in Nat
  BY <1>1, UsedSplit DEF Stands
<1>3. s.rc = a.rc
  OBVIOUS
<1>4. /\ Refused(s, rel) <=> barred \/ (hits # {} /\ (v = BadVec \/ Clashes(n, rel, hits, c, v)))
      /\ Meant(s, rel) = (rel \ hits) \cup {RowSet(row, c, v) : row \in hits}
  <2> DEFINE rc == a.rc
  <2> HIDE DEF rc, rel
  <2>1. LET t == [kind |-> "update", tab |-> n, arg |-> set, where |-> wheres, rc |-> rc]
        IN  /\ Refused(t, rel) <=> barred \/ (hits # {} /\ (v = BadVec \/ Clashes(n, rel, hits, c, v)))
            /\ Meant(t, rel) = (rel \ hits) \cup {RowSet(row, c, v) : row \in hits}
    BY UpdateRefused
  <2>2. QED
    BY <2>1 DEF rc
<1>5. stops <=> barred \/ NotUnique(store, sch, r, got, c, v)
  BY DEF UpdateStops
<1>6. stops => a.st = store /\ a.tab = tabs[n] /\ a.rc = -1
  BY DEF UpdateDone
<1>7. ~stops => Settable(n, c, v) /\ SetSo(n, c, v, store, tabs[n], got, Len(got), a)
  BY DEF UpdateDone
<1>8. stops => rel2 = rel
  BY <1>6
<1>9. ASSUME ~barred
      PROVE  /\ GotAll(n, E, wheres, got) /\ hits = RelOf(n, H) /\ (Len(got) # 0 <=> hits # {})
             /\ NotUnique(store, sch, r, got, c, v) <=> hits # {} /\ Doubled(n, rel, hits, c, v)
  <2>1. GotAll(n, E, wheres, got)
    <3> HIDE DEF r
    <3>1. SeesAll(store, r)
      BY DEF r
    <3>2. QED
      BY <1>1, <3>1, GotIs
  <2>2. \A w \in wheres : w.col \in ColNos(sch)
    BY <1>9 DEF BadClause
  <2>3. SeesAll(store, r) /\ Alone(n, E) /\ c \in ColNos(sch)
    BY <1>9
  <2> HIDE DEF got, c, v, r, barred
  <2>4. hits = RelOf(n, H)
    <3> HIDE DEF E
    <3>1. KeysApart(E)
      BY <2>1 DEF GotAll
    <3>2. QED
      BY <2>2, <3>1, HitsAre
  <2>5. NotUnique(store, sch, r, got, c, v) <=> got # <<>> /\ Doubled(n, rel, RelOf(n, H), c, v)
    BY <1>1, <2>1, <2>3, UniqueIs
  <2>6. got # <<>> <=> Len(got) # 0
    BY <2>1, EmptySeq DEF GotAll
  <2>7. Len(got) # 0 <=> hits # {}
    <3> DEFINE m == Len(got)
    <3>1. m \in Nat /\ hits = {RowOf(n, got[i]) : i \in 1 .. m}
      BY <2>1, <2>4, HitsCounted DEF GotAll
    <3> HIDE DEF m, hits
    <3>2. m # 0 => 1 \in 1 .. m
      BY <3>1
    <3>3. m = 0 => 1 .. m = {}
      OBVIOUS
    <3>4. QED
      BY <3>1, <3>2, <3>3 DEF m
  <2> HIDE DEF hits, rel, H, E
  <2>8. QED
    BY <2>1, <2>4, <2>5, <2>6, <2>7
<1>10. hits \subseteq rel
  BY DEF Passing
<1>11. Clashes(n, rel, hits, c, v) => Doubled(n, rel, hits, c, v)
  <2> HIDE DEF hits, rel, v, c
  <2>1. QED
    BY <1>10, ClashIs
<1>12. NullLost(s) <=> ~sch.nullmap /\ c \in ColNos(sch) /\ v = Null
  BY DEF NullLost
<1>13. ~barred /\ hits # {} /\ Doubled(n, rel, hits, c, v) => Clashes(n, rel, hits, c, v) \/ KeepsVector(s, rel)
  <2>1. SUFFICES ASSUME ~barred, Doubled(n, rel, hits, c, v), ~Clashes(n, rel, hits, c, v)
                 PROVE  KeepsVector(s, rel)
    OBVIOUS
  <2>2. c \in ColNos(sch)
    BY <2>1
  <2>3. sch.cols[c].type = "vector" /\ MustBeUnique(sch.cols[c]) /\ \E row \in hits : row.cells[c] = v
    <3> HIDE DEF hits, rel, v, c
    <3>1. QED
      BY <1>10, <2>1, ClashIs
  <2>4. sch.cols[c].unique
    BY <2>2, <2>3 DEF Holding, BadSchema, MustBeUnique
  <2>5. QED
    BY <2>2, <2>3, <2>4 DEF KeepsVector
<1>14. CASE stops
  <2>1. Refused(s, rel) \/ KeepsVector(s, rel)
    <3> HIDE DEF stops, barred, s, rel, hits, got, v
    <3>1. QED
      BY <1>4, <1>5, <1>9, <1>14, <1>13
  <2> HIDE DEF s, rel, rel2, stops
  <2>2. AsMeant(s, rel, rel2)
    BY <1>3, <1>6, <1>8, <1>14, <2>1 DEF AsMeant, AnswersSo
  <2>3. QED
    BY <2>2 DEF s, rel, rel2
<1>15. CASE ~stops
  <2> DEFINE meant == (rel \ hits) \cup {RowSet(row, c, v) : row \in hits}
  <2>1. ~barred /\ ~NotUnique(store, sch, r, got, c, v) /\ Settable(n, c, v)
        /\ SetSo(n, c, v, store, tabs[n], got, Len(got), a)
    BY <1>5, <1>7, <1>15
  <2>2. /\ GotAll(n, E, wheres, got) /\ hits = RelOf(n, H) /\ (Len(got) # 0 <=> hits # {})
        /\ ~(hits # {} /\ Doubled(n, rel, hits, c, v))
    BY <1>9, <2>1
  <2>3. Refused(s, rel) <=> hits # {} /\ v = BadVec
    <3> HIDE DEF stops, barred, s, rel, hits, got, v
    <3>1. QED
      BY <1>4, <1>11, <2>1, <2>2
  <2>4. LoopAnswer(n, v, got, a.rc, rel, rel2, meant)
    <3> DEFINE tab == tabs[n]
    <3>1. Holding(n, store, tab) /\ Settable(n, c, v) /\ SetSo(n, c, v, store, tab, got, Len(got), a)
          /\ GotAll(n, Ent(store, tab.root), wheres, got)
      BY <2>1, <2>2
    <3>2. MeantBy(n, E, H, c, v, meant)
      <4> HIDE DEF hits, rel, H, v, c
      <4>1. \A row : row \in meant <=> \/ row \in rel /\ row \notin RelOf(n, H)
                                       \/ \E h \in RelOf(n, H) : row = RowSet(h, c, v)
        BY <2>2
      <4>2. QED
        BY <4>1 DEF rel, MeantBy
    <3> HIDE DEF meant, tab, got, c, v
    <3> DEFINE st == store
    <3>3. st = store
      OBVIOUS
    <3> HIDE DEF st
    <3>4. /\ Holding(n, st, tab) /\ SetSo(n, c, v, st, tab, got, Len(got), a)
          /\ GotAll(n, Ent(st, tab.root), wheres, got)
          /\ MeantBy(n, Ent(st, tab.root), Hit(n, Ent(st, tab.root), wheres), c, v, meant)
      BY <3>1, <3>2, <3>3 DEF tab
    <3>5. LoopAnswer(n, v, got, a.rc, RelOf(n, Ent(st, tab.root)), RelOf(n, Ent(a.st, a.tab.root)), meant)
      BY <3>1, <3>3, <3>4, LoopMeans
    <3>6. QED
      BY <3>3, <3>5 DEF tab
  <2>5. Meant(s, rel) = meant
    BY <1>4
  <2>6. Unset(n, v) <=> v = BadVec \/ (v = Null /\ ~sch.nullmap)
    BY DEF Unset
  <2>7. s.kind = "update"
    OBVIOUS
  <2>8. hits = {} => meant = rel
    OBVIOUS
  <2>9. c \in ColNos(sch)
    BY <2>1
  <2> HIDE DEF s, rel, rel2, stops, barred, meant, hits, E, E2, v, c, got, sch
  <2>10. a.rc \in {0, -1} /\ (a.rc = -1 <=> hits # {} /\ Unset(n, v)) /\ (a.rc = -1 \/ hits = {} => rel2 = rel)
    BY <2>2, <2>4 DEF LoopAnswer
  <2>11. AnswersSo(s, rel, rel2)
    BY <1>3, <1>12, <2>3, <2>6, <2>7, <2>9, <2>10 DEF AnswersSo
  <2>12. a.rc = 0 => Exactly(rel, rel2, meant) /\ (Left(store) >= 2 => Ids(rel2) = Ids(meant))
    <3>1. a.rc = 0 => \/ rel2 = meant
                      \/ Left(store) < 2 /\ rel2 \subseteq rel \cup meant /\ Ids(rel2) = Ids(rel)
      BY <2>4 DEF LoopAnswer
    <3>2. ~(Left(store) < 2 /\ Left(store) >= 2)
      BY <1>2
    <3>3. QED
      BY <3>1, <3>2 DEF Exactly
  <2>13. a.rc = 0 /\ NullLost(s) => ButForNulls(rel, rel2, meant)
    <3>1. SUFFICES ASSUME a.rc = 0, NullLost(s) PROVE ButForNulls(rel, rel2, meant)
      OBVIOUS
    <3>2. hits = {}
      BY <1>12, <2>6, <2>10, <3>1
    <3>3. rel2 = rel /\ meant = rel
      BY <2>8, <2>10, <3>2
    <3>4. QED
      BY <3>3, RowItself DEF ButForNulls
  <2>14. AsMeant(s, rel, rel2)
    BY <1>3, <2>5, <2>11, <2>12, <2>13 DEF AsMeant, MakesSo
  <2>15. QED
    BY <2>14 DEF s, rel, rel2, E, E2, r
<1>16. QED
  BY <1>14, <1>15

----------------------------------------------------------------------------
(* Every statement does what SQL says.                                    *)

\* What the statement on table n sees while the leaves are linked and the keys differ.
LEMMA Seen ==
  ASSUME TableInv, Linked, KeysUnique, NEW n, NEW a, Ran(n, a), ChainReadable(store, tabs[n].root)
  PROVE  Holding(n, store, tabs[n]) /\ SeesAll(store, tabs[n].root) /\ Alone(n, Ent(store, tabs[n].root))
<1>1. n \in DOMAIN tabs /\ TabOk(n, store, tabs[n]) /\ AllOk(store, tabs)
  BY DEF Ran, TableInv
<1>2. Different(store, tabs)
  BY DEF KeysUnique, Different
<1>3. Alone(n, Ent(store, tabs[n].root))
  BY <1>1, <1>2, DifferentIs
<1>4. QED
  BY <1>1, <1>3 DEF TabOk, SeesAll, Linked

\* RowsAsMeant, of a statement on a table of the database.
LEMMA RanMeans ==
  ASSUME TableInv, NEW n, NEW a, Ran(n, a), last'.tab = n,
         Linked /\ KeysUnique => AsMeant(last', RelOf(n, Ent(store, tabs[n].root)), RelOf(n, Ent(a.st, a.tab.root)))
  PROVE  RowsAsMeant
<1> DEFINE s    == last'
           rel  == Rel(store, tabs, s.tab)
           rel2 == Rel(store', tabs', s.tab)
           us   == [tabs EXCEPT ![n] = a.tab]
<1>1. /\ n \in DOMAIN tabs /\ store' = a.st /\ tabs' = us /\ AllOk(store, tabs)
      /\ TabOk(n, store, tabs[n]) /\ TabOk(n, a.st, a.tab)
  BY DEF Ran, Touched, TableInv
<1>2. us[n] = a.tab
  <2>1. tabs = [m \in DOMAIN tabs |-> tabs[m]]
    BY <1>1 DEF AllOk
  <2>2. QED
    BY <1>1, <2>1
<1>3. Stands(store, tabs[n].root) /\ Stands(a.st, us[n].root) /\ Good(store)
  BY <1>1, <1>2 DEF TabOk, Holding, AllOk
<1>4. rel = RelOf(n, Ent(store, tabs[n].root))
  BY <1>3, RelIs
<1>5. rel2 = RelOf(n, Ent(a.st, a.tab.root))
  <2> HIDE DEF us
  <2>1. Rel(a.st, us, n) = RelOf(n, Ent(a.st, us[n].root))
    BY <1>3, RelIs
  <2>2. QED
    BY <1>1, <1>2, <2>1
<1>6. PagesLeft = Left(store)
  BY <1>3, PagesLeftIs
<1>7. Linked /\ KeysUnique => AsMeant(s, rel, rel2)
  BY <1>4, <1>5
<1> HIDE DEF s, rel, rel2
<1>8. Linked /\ KeysUnique =>
         IF Refused(s, rel) THEN s.rc = -1 /\ rel2 = rel
         ELSE /\ PagesLeft >= 2 /\ s.rc = -1 => KeepsVector(s, rel) \/ (s.kind = "update" /\ NullLost(s))
              /\ s.rc = -1 => rel2 = rel
              /\ s.rc = 0 => MakesSo(s, rel, rel2, Meant(s, rel))
  BY <1>6, <1>7 DEF AsMeant, AnswersSo
<1>9. s = last' /\ rel = RelBefore /\ rel2 = RelAfter
  BY DEF s, rel, rel2, RelBefore, RelAfter
<1> DEFINE all == Meant(s, rel)
<1>10. MakesSo(s, rel, rel2, all) =>
         /\ PagesLeft >= 2 => Ids(rel2) = Ids(all)
         /\ IF NullLost(s)
            THEN rel \subseteq rel2 /\ \A row \in rel2 : \E m \in all : NullsAside(row, m)
            ELSE \/ rel2 = all
                 \/ /\ PagesLeft < 2
                    /\ rel2 \subseteq rel \cup all /\ Ids(rel) \cap Ids(all) \subseteq Ids(rel2)
  <2> HIDE DEF all
  <2>1. QED
    BY <1>6 DEF MakesSo, Exactly, ButForNulls
<1>11. QED
  BY <1>8, <1>9, <1>10 DEF RowsAsMeant, OnRows

\* A statement on a table the database does not have says nothing of rows.
LEMMA UnheardMeans ==
  ASSUME NEW n, NEW kind, NEW arg, NEW wheres, ~Known(n), Done(n, kind, arg, wheres, Unknown)
  PROVE  RowsAsMeant
<1>1. last'.tab = n
  BY DEF Done
<1>2. ~Known(last'.tab)
  BY <1>1
<1>3. QED
  BY <1>2 DEF RowsAsMeant, OnRows

\* Every step means what SQL says.
LEMMA StepMeans ==
  ASSUME HalvesFit, MaxSplits <= 1, RowsFit, LeafCap < MatchMax, TableInv, Next
  PROVE  RowsAsMeant
<1>1. ASSUME NEW n \in Names, NEW lits \in InsertLits[n], InsertInto(n, lits)
      PROVE  RowsAsMeant
  <2>1. CASE ~Known(n)
    <3>1. Done(n, "insert", lits, {}, Unknown)
      BY <1>1, <2>1 DEF InsertInto
    <3>2. QED
      BY <2>1, <3>1, UnheardMeans
  <2>2. CASE Known(n)
    <3> DEFINE a == ExecInsert(store, Schemas[n], tabs[n], lits)
    <3>1. /\ Ran(n, a) /\ Filled(n, lits, store, tabs[n], a) /\ ChainReadable(store, tabs[n].root)
          /\ last' = [kind |-> "insert", tab |-> n, arg |-> lits, where |-> {}, rc |-> a.rc]
      BY <1>1, <2>2, InsertRan
    <3> HIDE DEF a
    <3>2. Linked /\ KeysUnique =>
             AsMeant(last', RelOf(n, Ent(store, tabs[n].root)), RelOf(n, Ent(a.st, a.tab.root)))
      <4>1. SUFFICES ASSUME Linked, KeysUnique
                     PROVE  AsMeant(last', RelOf(n, Ent(store, tabs[n].root)), RelOf(n, Ent(a.st, a.tab.root)))
        OBVIOUS
      <4>2. Holding(n, store, tabs[n]) /\ SeesAll(store, tabs[n].root)
        BY <3>1, <4>1, Seen
      <4>3. AsMeant([kind |-> "insert", tab |-> n, arg |-> lits, where |-> {}, rc |-> a.rc],
                    RelOf(n, Ent(store, tabs[n].root)), RelOf(n, Ent(a.st, a.tab.root)))
        BY <1>1, <3>1, <4>2, InsertMeans
      <4>4. QED
        BY <3>1, <4>3
    <3>3. QED
      BY <3>1, <3>2, RanMeans
  <2>3. QED
    BY <2>1, <2>2
<1>2. ASSUME NEW n \in Names, NEW set \in SetLits[n], NEW wheres, Update(n, set, wheres)
      PROVE  RowsAsMeant
  <2>1. CASE ~Known(n)
    <3>1. Done(n, "update", set, wheres, Unknown)
      BY <1>2, <2>1 DEF Update
    <3>2. QED
      BY <2>1, <3>1, UnheardMeans
  <2>2. CASE Known(n)
    <3> DEFINE a == ExecUpdate(store, Schemas[n], tabs[n], set[1], set[2], wheres)
    <3>1. /\ Ran(n, a) /\ UpdateDone(n, store, tabs[n], set[1], set[2], wheres, a)
          /\ ChainReadable(store, tabs[n].root) /\ a.rc # Fault
          /\ last' = [kind |-> "update", tab |-> n, arg |-> set, where |-> wheres, rc |-> a.rc]
      BY <1>2, <2>2, UpdateRan
    <3> HIDE DEF a
    <3>2. Linked /\ KeysUnique =>
             AsMeant(last', RelOf(n, Ent(store, tabs[n].root)), RelOf(n, Ent(a.st, a.tab.root)))
      <4>1. SUFFICES ASSUME Linked, KeysUnique
                     PROVE  AsMeant(last', RelOf(n, Ent(store, tabs[n].root)), RelOf(n, Ent(a.st, a.tab.root)))
        OBVIOUS
      <4>2. Holding(n, store, tabs[n]) /\ SeesAll(store, tabs[n].root) /\ Alone(n, Ent(store, tabs[n].root))
        BY <3>1, <4>1, Seen
      <4>3. AsMeant([kind |-> "update", tab |-> n, arg |-> set, where |-> wheres, rc |-> a.rc],
                    RelOf(n, Ent(store, tabs[n].root)), RelOf(n, Ent(a.st, a.tab.root)))
        BY <3>1, <4>2, UpdateMeans
      <4>4. QED
        BY <3>1, <4>3
    <3>3. QED
      BY <3>1, <3>2, RanMeans
  <2>3. QED
    BY <2>1, <2>2
<1>3. ASSUME NEW n \in Names, NEW wheres, DeleteFrom(n, wheres)
      PROVE  RowsAsMeant
  <2>1. CASE ~Known(n)
    <3>1. Done(n, "delete", <<>>, wheres, Unknown)
      BY <1>3, <2>1 DEF DeleteFrom
    <3>2. QED
      BY <2>1, <3>1, UnheardMeans
  <2>2. CASE Known(n)
    <3> DEFINE a == ExecDelete(store, Schemas[n], tabs[n], wheres)
    <3>1. /\ Ran(n, a) /\ DeleteDone(n, store, tabs[n], wheres, a) /\ ChainReadable(store, tabs[n].root)
          /\ last' = [kind |-> "delete", tab |-> n, arg |-> <<>>, where |-> wheres, rc |-> a.rc]
      BY <1>3, <2>2, DeleteRan
    <3> HIDE DEF a
    <3>2. Linked /\ KeysUnique =>
             AsMeant(last', RelOf(n, Ent(store, tabs[n].root)), RelOf(n, Ent(a.st, a.tab.root)))
      <4>1. SUFFICES ASSUME Linked, KeysUnique
                     PROVE  AsMeant(last', RelOf(n, Ent(store, tabs[n].root)), RelOf(n, Ent(a.st, a.tab.root)))
        OBVIOUS
      <4>2. Holding(n, store, tabs[n]) /\ SeesAll(store, tabs[n].root)
        BY <3>1, <4>1, Seen
      <4>3. AsMeant([kind |-> "delete", tab |-> n, arg |-> <<>>, where |-> wheres, rc |-> a.rc],
                    RelOf(n, Ent(store, tabs[n].root)), RelOf(n, Ent(a.st, a.tab.root)))
        BY <3>1, <4>2, DeleteMeans
      <4>4. QED
        BY <3>1, <4>3
    <3>3. QED
      BY <3>1, <3>2, RanMeans
  <2>3. QED
    BY <2>1, <2>2
<1>4. ASSUME NEW n \in Names, CreateTable(n) \/ CreateIndex(n) PROVE RowsAsMeant
  <2>1. last'.kind \notin {"insert", "update", "delete"}
    BY <1>4 DEF CreateTable, CreateIndex, NoStmt
  <2>2. QED
    BY <2>1 DEF RowsAsMeant, OnRows
<1>5. PICK n \in Names : \/ CreateTable(n)
                         \/ CreateIndex(n)
                         \/ \E lits \in InsertLits[n] : InsertInto(n, lits)
                         \/ \E set \in SetLits[n], wheres \in WhereSets : Update(n, set, wheres)
                         \/ \E wheres \in WhereSets : DeleteFrom(n, wheres)
  BY DEF Next
<1>6. QED
  BY <1>1, <1>2, <1>3, <1>4, <1>5

\* StatementsMeanWhatSqlSays: while every leaf is linked, INSERT, UPDATE and
\* DELETE refuse what SQL refuses and else make of the relation what SQL means,
\* but for a UNIQUE VECTOR set to the value it has, a NULL a table without a
\* bitmap cannot keep, and a file that runs full.
THEOREM TableMeaning ==
  ASSUME HalvesFit, MaxSplits <= 1, RowsFit, LeafCap < MatchMax
  PROVE  Spec => StatementsMeanWhatSqlSays
<1>1. TableInv /\ [Next]_vars => [RowsAsMeant]_vars
  BY StepMeans
<1>2. Spec => []TableInv
  BY TableInvariant
<1>3. QED
  BY <1>1, <1>2, PTL DEF Spec, StatementsMeanWhatSqlSays

=============================================================================
