---------------------------- MODULE SelectProofs ----------------------------
(***************************************************************************)
(* Select, for every schema, table, query, limit and table of distances:   *)
(* every safety property of it.                                            *)
(*                                                                         *)
(* The sorts.  The argument is that of a selection sort.  Places before i  *)
(* never precede a row they sort after, and place i has been compared with *)
(* the places before j.  An exchange keeps the second part because the     *)
(* comparison is a strict weak order: a row that was not after i's old row *)
(* is not after the new one, which sorts before it.  NULL in ORDER BY, and *)
(* the smallest number read as 0, do not disturb that.                     *)
(*                                                                         *)
(* The selection.  The rows in the array are dealt from the table: each    *)
(* place holds the row of one position of the table and no two places the  *)
(* same one.  The positions are those the scan chose, the first RowLimit   *)
(* that pass, until the k nearest are cut from them (PickInv).             *)
(*                                                                         *)
(* The answer.  The model's folds over rows and over subsets are unfolded  *)
(* into their steps (PageStoreProofs) and followed along the rows          *)
(* (AnswerInv).                                                            *)
(***************************************************************************)
EXTENDS Select, PageStoreProofs

NearCol == q.near[1].col
OrderCol == q.order[1]

\* The rows scan_cb may keep: of the table, and with a vector when NEAR asks for one.
Kept == {row \in [ColNos(Schema) -> CellValue] :
           /\ \E r \in DOMAIN data : row = data[r]
           /\ q.near # <<>> => row[NearCol] \in DOMAIN Dist}

\* The comparisons of the two sorts, as relations.
ByDistance == {p \in Kept \X Kept : Dist[p[1][NearCol]] > Dist[p[2][NearCol]]}
ByOrder == {p \in Kept \X Kept : OrderAfter(OrderCol, p[1][OrderCol], p[2][OrderCol])}
Afters == IF pc = "near" THEN ByDistance ELSE ByOrder

StrictWeakOrder(S, R) ==
    /\ \A x, y \in S : <<x, y>> \in R => <<y, x>> \notin R
    /\ \A x, y, z \in S : <<x, y>> \notin R /\ <<y, z>> \notin R => <<x, z>> \notin R

\* The places before m are final, and place m precedes those before n.
PlacedUpTo(R, s, m, n) ==
    /\ \A a, b \in DOMAIN s : a < b /\ a < m => <<s[a], s[b]>> \notin R
    /\ \A b \in DOMAIN s : m < b /\ b < n => <<s[m], s[b]>> \notin R

Ordered(R, s) == \A a, b \in DOMAIN s : a < b => <<s[a], s[b]>> \notin R

(***************************************************************************)
(* Facts about sequences and relations alone.                              *)
(***************************************************************************)

\* One comparison, with the exchange it may make, places one row more.
LEMMA ExchangePlaces ==
  ASSUME NEW S, NEW R, StrictWeakOrder(S, R),
         NEW s \in Seq(S), NEW m \in Nat \ {0}, NEW n \in Nat,
         m < n, n <= Len(s),
         PlacedUpTo(R, s, m, n),
         NEW t, t = IF <<s[m], s[n]>> \in R THEN [s EXCEPT ![m] = s[n], ![n] = s[m]] ELSE s
  PROVE  /\ t \in Seq(S) /\ Len(t) = Len(s)
         /\ PlacedUpTo(R, t, m, n + 1)
<1>1. /\ Len(s) \in Nat /\ DOMAIN s = 1 .. Len(s)
      /\ m \in DOMAIN s /\ n \in DOMAIN s
      /\ \A a \in DOMAIN s : s[a] \in S
  OBVIOUS
<1>2. CASE <<s[m], s[n]>> \notin R
  <2>1. t = s
    BY <1>2
  <2>2. \A b \in DOMAIN s : m < b /\ b < n + 1 => <<s[m], s[b]>> \notin R
    BY <1>1, <1>2 DEF PlacedUpTo
  <2>3. QED
    BY <2>1, <2>2 DEF PlacedUpTo
<1>3. CASE <<s[m], s[n]>> \in R
  <2>1. t = [s EXCEPT ![m] = s[n], ![n] = s[m]]
    BY <1>3
  <2>2. t \in Seq(S) /\ Len(t) = Len(s) /\ DOMAIN t = DOMAIN s
    BY <2>1, <1>1
  <2>3. /\ t[m] = s[n] /\ t[n] = s[m]
        /\ \A a \in DOMAIN s : a # m /\ a # n => t[a] = s[a]
    BY <2>1, <1>1
  <2>4. <<s[n], s[m]>> \notin R
    BY <1>1, <1>3 DEF StrictWeakOrder
  <2>5. \A a, b \in DOMAIN s : a < b /\ a < m => <<t[a], t[b]>> \notin R
    <3>1. TAKE a, b \in DOMAIN s
    <3>2. HAVE a < b /\ a < m
    <3>3. t[a] = s[a] /\ t[b] \in {s[b], s[m], s[n]}
      BY <3>1, <3>2, <2>3, <1>1
    <3>4. QED
      BY <3>1, <3>2, <3>3, <1>1 DEF PlacedUpTo
  <2>6. \A b \in DOMAIN s : m < b /\ b < n + 1 => <<t[m], t[b]>> \notin R
    <3>1. TAKE b \in DOMAIN s
    <3>2. HAVE m < b /\ b < n + 1
    <3>3. CASE b = n
      BY <3>3, <2>3, <2>4
    <3>4. CASE b # n
      <4>1. t[b] = s[b] /\ b < n
        BY <3>1, <3>2, <3>4, <2>3, <1>1
      <4>2. <<s[m], s[b]>> \notin R
        BY <4>1, <3>1, <3>2 DEF PlacedUpTo
      <4>3. <<s[n], s[b]>> \notin R
        BY <4>2, <2>4, <1>1, <3>1 DEF StrictWeakOrder
      <4>4. QED
        BY <4>1, <4>3, <2>3
    <3>5. QED
      BY <3>3, <3>4
  <2>7. QED
    BY <2>2, <2>5, <2>6 DEF PlacedUpTo
<1>4. QED
  BY <1>2, <1>3

LEMMA FirstElement ==
  ASSUME NEW S, NEW s \in Seq(S), s # <<>>
  PROVE  s[1] \in S
  BY EmptySeq, ElementOfSeq

\* A beginning of an ordered sequence is ordered.
LEMMA BeginningOrdered ==
  ASSUME NEW S, NEW R, NEW s \in Seq(S), Ordered(R, s), NEW k \in Nat, k <= Len(s)
  PROVE  /\ SubSeq(s, 1, k) \in Seq(S) /\ Len(SubSeq(s, 1, k)) = k
         /\ Ordered(R, SubSeq(s, 1, k))
<1>1. /\ SubSeq(s, 1, k) \in Seq(S) /\ Len(SubSeq(s, 1, k)) = k
      /\ DOMAIN SubSeq(s, 1, k) = 1 .. k
      /\ \A a \in 1 .. k : SubSeq(s, 1, k)[a] = s[a]
      /\ 1 .. k \subseteq DOMAIN s
  OBVIOUS
<1>2. QED
  BY <1>1 DEF Ordered

(***************************************************************************)
(* The invariant.                                                          *)
(***************************************************************************)

\* What the checks before the scan establish of the columns the sorts read.
ColumnsChecked ==
    /\ q.order # <<>> => OrderCol \in ColNos(Schema)
    /\ q.near # <<>> => NearCol \in ColNos(Schema) /\ Type(NearCol) = "vector"

TypeInv == /\ q \in Queries /\ data \in Tables
           /\ pc \in {"check", "scan", "near", "order", "answer", "done"}
           /\ at \in 0 .. Len(data)
           /\ rows \in Seq(Kept)

\* The rows and both loop variables are within the array.
InArrays == /\ Len(rows) <= RowLimit
            /\ i \in 1 .. RowLimit
            /\ j \in 2 .. RowLimit + 1

SortInv ==
    /\ pc = "near" => Nearest
    /\ pc = "order" => q.order # <<>>
    /\ pc \in {"check", "scan"} => i = 1 /\ j = 2
    /\ pc \in {"near", "order"} => i < j /\ PlacedUpTo(Afters, rows, i, j)
    /\ pc = "answer" => /\ q.order # <<>> => Ordered(ByOrder, rows)
                        /\ q.order = <<>> /\ Nearest => Ordered(ByDistance, rows)

SelectInv == /\ TypeInv
             /\ pc \notin {"check", "done"} => ColumnsChecked
             /\ InArrays
             /\ SortInv

(***************************************************************************)
(* The comparisons.                                                        *)
(***************************************************************************)

LEMMA NumbersType == IntMin \in Int /\ \A c : \A v \in Int : Read(c, v) \in Int
  BY LimitAssumption DEF IntMin, Read

\* ORDER BY's comparison, NULL and the smallest number included.
LEMMA OrderAfterWeak ==
  ASSUME NEW c, NEW x \in CellValue, NEW y \in CellValue, NEW z \in CellValue
  PROVE  /\ OrderAfter(c, x, y) => ~OrderAfter(c, y, x)
         /\ ~OrderAfter(c, x, y) /\ ~OrderAfter(c, y, z) => ~OrderAfter(c, x, z)
<1>1. \A v \in CellValue : v # Null => Read(c, v) \in Int
  BY NumbersType DEF CellValue
<1>2. QED
  BY <1>1 DEF OrderAfter

LEMMA ByOrderWeak ==
  ASSUME q.order # <<>>, ColumnsChecked
  PROVE  StrictWeakOrder(Kept, ByOrder)
<1>1. \A x \in Kept : x[OrderCol] \in CellValue
  BY DEF ColumnsChecked, Kept
<1>2. \A x, y \in Kept : <<x, y>> \in ByOrder <=> OrderAfter(OrderCol, x[OrderCol], y[OrderCol])
  BY DEF ByOrder
<1>3. QED
  BY <1>1, <1>2, OrderAfterWeak DEF StrictWeakOrder

LEMMA ByDistanceWeak ==
  ASSUME q.near # <<>>
  PROVE  StrictWeakOrder(Kept, ByDistance)
<1>1. \A x \in Kept : Dist[x[NearCol]] \in Int
  BY RowsAssumption DEF Kept
<1>2. \A x, y \in Kept : <<x, y>> \in ByDistance <=> Dist[x[NearCol]] > Dist[y[NearCol]]
  BY DEF ByDistance
<1>3. QED
  BY <1>1, <1>2 DEF StrictWeakOrder

LEMMA AftersWeak ==
  ASSUME SelectInv, pc \in {"near", "order"}
  PROVE  StrictWeakOrder(Kept, Afters)
  BY ByOrderWeak, ByDistanceWeak DEF SelectInv, SortInv, Afters, Nearest

LEMMA AfterIsAfters ==
  ASSUME SelectInv, pc \in {"near", "order"}, NEW a \in Kept, NEW b \in Kept
  PROVE  After(a, b) <=> <<a, b>> \in Afters
  BY DEF After, Afters, ByDistance, ByOrder, NearCol, OrderCol

(***************************************************************************)
(* The invariant holds initially and is kept by every action.              *)
(***************************************************************************)

LEMMA InitInv == Init => SelectInv
<1> SUFFICES ASSUME Init PROVE SelectInv
  OBVIOUS
<1>1. data \in Seq([ColNos(Schema) -> CellValue])
  BY RowsAssumption DEF Init
<1>2. QED
  BY <1>1, LimitAssumption DEF Init, SelectInv, TypeInv, InArrays, SortInv

LEMMA CheckKeeps == SelectInv /\ Check => SelectInv'
<1> SUFFICES ASSUME SelectInv, Check PROVE SelectInv'
  OBVIOUS
<1> USE DEF Check
<1>1. Kept' = Kept
  BY DEF Kept, NearCol
<1>2. pc' = "scan" => ColumnsChecked'
  <2>1. SUFFICES ASSUME ~Refused PROVE ColumnsChecked
    BY DEF ColumnsChecked, OrderCol, NearCol
  <2>2. /\ q.order \in Seq(Int)
        /\ q.near \in Seq([col : Int, th : Int, k : Int, dims : Int])
    BY QueriesAssumption DEF SelectInv, TypeInv
  <2>3. q.order # <<>> => OrderCol \in ToSet(q.order)
    BY <2>2 DEF ToSet, OrderCol
  <2>4. q.near # <<>> => q.near[1] \in ToSet(q.near)
    BY <2>2 DEF ToSet
  <2>5. q.order # <<>> => OrderCol \in ColNos(Schema)
    BY <2>1, <2>3 DEF Refused
  <2>6. q.near # <<>> => NearCol \in ColNos(Schema) /\ Type(NearCol) = "vector"
    BY <2>1, <2>4 DEF Refused, BadNear, NearCol
  <2>7. QED
    BY <2>5, <2>6 DEF ColumnsChecked
<1>3. QED
  BY <1>1, <1>2 DEF SelectInv, TypeInv, InArrays, SortInv

LEMMA ScanRowKeeps == SelectInv /\ ScanRow => SelectInv'
<1> SUFFICES ASSUME SelectInv, ScanRow PROVE SelectInv'
  OBVIOUS
<1> USE DEF ScanRow
<1>1. Kept' = Kept /\ (ColumnsChecked => ColumnsChecked')
  BY DEF Kept, ColumnsChecked, NearCol, OrderCol
<1>2. /\ data \in Seq([ColNos(Schema) -> CellValue])
      /\ q.near \in Seq([col : Int, th : Int, k : Int, dims : Int])
      /\ at \in Nat /\ Len(data) \in Nat
      /\ at + 1 \in DOMAIN data
  BY RowsAssumption, QueriesAssumption DEF SelectInv, TypeInv
<1>3. ASSUME Wanted(data[at + 1]) PROVE data[at + 1] \in Kept
  <2>1. q.near # <<>> => data[at + 1][NearCol] # Null
    <3>1. q.near # <<>> => q.near[1] \in ToSet(q.near)
      BY <1>2 DEF ToSet
    <3>2. QED
      BY <1>3, <3>1 DEF Wanted, IsNear, NearCol
  <2>2. q.near # <<>> => data[at + 1][NearCol] \in DOMAIN Dist \cup {Null}
    BY <1>2, RowsAssumption DEF SelectInv, TypeInv, ColumnsChecked, Type
  <2>3. data[at + 1] \in [ColNos(Schema) -> CellValue]
    BY <1>2
  <2>4. QED
    BY <2>1, <2>2, <2>3, <1>2 DEF Kept
<1>4. rows' \in Seq(Kept) /\ Len(rows') <= RowLimit
  <2>1. rows \in Seq(Kept) /\ Len(rows) <= RowLimit
    BY DEF SelectInv, TypeInv, InArrays
  <2>2. CASE HasSpace /\ Wanted(data[at + 1])
    BY <2>1, <2>2, <1>3, LimitAssumption DEF HasSpace
  <2>3. CASE ~(HasSpace /\ Wanted(data[at + 1]))
    BY <2>1, <2>3
  <2>4. QED
    BY <2>2, <2>3
<1>5. TypeInv'
  BY <1>1, <1>2, <1>4 DEF SelectInv, TypeInv
<1>6. QED
  BY <1>1, <1>4, <1>5 DEF SelectInv, InArrays, SortInv

LEMMA ScanEndKeeps == SelectInv /\ ScanEnd => SelectInv'
<1> SUFFICES ASSUME SelectInv, ScanEnd PROVE SelectInv'
  OBVIOUS
<1> USE DEF ScanEnd
<1>1. Kept' = Kept /\ (ColumnsChecked => ColumnsChecked') /\ (Nearest' <=> Nearest)
  BY DEF Kept, ColumnsChecked, NearCol, OrderCol, Nearest, Plain
<1>2. i = 1 /\ j = 2
  BY DEF SelectInv, SortInv
<1>3. rows \in Seq(Kept)
  BY DEF SelectInv, TypeInv
<1>4. \A R : PlacedUpTo(R, rows, 1, 2)
  BY <1>3 DEF PlacedUpTo
<1>5. pc' = "answer" => q.order = <<>> /\ ~Nearest
  OBVIOUS
<1>6. SortInv'
  BY <1>1, <1>2, <1>4, <1>5 DEF SortInv
<1>7. QED
  BY <1>1, <1>6 DEF SelectInv, TypeInv, InArrays

LEMMA ExchangeKeeps == SelectInv /\ Exchange => SelectInv'
<1> SUFFICES ASSUME SelectInv, Exchange PROVE SelectInv'
  OBVIOUS
<1> USE DEF Exchange
<1>1. /\ Kept' = Kept /\ (ColumnsChecked => ColumnsChecked') /\ (Nearest' <=> Nearest)
      /\ Afters' = Afters
  BY DEF Kept, ColumnsChecked, NearCol, OrderCol, Nearest, Plain,
         Afters, ByDistance, ByOrder
<1>2. /\ rows \in Seq(Kept) /\ Len(rows) <= RowLimit
      /\ i \in 1 .. RowLimit /\ j \in 2 .. RowLimit + 1
      /\ i < j /\ PlacedUpTo(Afters, rows, i, j)
  BY DEF SelectInv, TypeInv, InArrays, SortInv
<1>3. StrictWeakOrder(Kept, Afters)
  BY AftersWeak
<1>4. /\ Len(rows) \in Nat /\ i \in DOMAIN rows /\ j \in DOMAIN rows
      /\ rows[i] \in Kept /\ rows[j] \in Kept
  BY <1>2
<1>5. After(rows[i], rows[j]) <=> <<rows[i], rows[j]>> \in Afters
  BY <1>4, AfterIsAfters
<1>6. /\ rows' \in Seq(Kept) /\ Len(rows') = Len(rows)
      /\ PlacedUpTo(Afters, rows', i, j + 1)
  <2>1. rows' = IF <<rows[i], rows[j]>> \in Afters
                THEN [rows EXCEPT ![i] = rows[j], ![j] = rows[i]] ELSE rows
    BY <1>5
  <2>2. i \in Nat \ {0} /\ j \in Nat /\ j <= Len(rows)
    BY <1>2
  <2>3. QED
    BY <1>2, <1>3, <2>1, <2>2, ExchangePlaces
<1>7. InArrays'
  BY <1>2, <1>4, <1>6, LimitAssumption DEF InArrays
<1>8. SortInv'
  BY <1>1, <1>2, <1>6 DEF SelectInv, SortInv
<1>9. QED
  BY <1>1, <1>6, <1>7, <1>8 DEF SelectInv, TypeInv

LEMMA NextPlaceKeeps == SelectInv /\ NextPlace => SelectInv'
<1> SUFFICES ASSUME SelectInv, NextPlace PROVE SelectInv'
  OBVIOUS
<1> USE DEF NextPlace
<1>1. /\ Kept' = Kept /\ (ColumnsChecked => ColumnsChecked') /\ (Nearest' <=> Nearest)
      /\ Afters' = Afters
  BY DEF Kept, ColumnsChecked, NearCol, OrderCol, Nearest, Plain,
         Afters, ByDistance, ByOrder
<1>2. /\ rows \in Seq(Kept) /\ Len(rows) <= RowLimit
      /\ i \in 1 .. RowLimit /\ j \in 2 .. RowLimit + 1
      /\ PlacedUpTo(Afters, rows, i, j)
  BY DEF SelectInv, TypeInv, InArrays, SortInv
<1>3. Len(rows) \in Nat /\ DOMAIN rows = 1 .. Len(rows)
  BY <1>2
<1>4. PlacedUpTo(Afters, rows, i + 1, i + 2)
  <2>1. \A a, b \in DOMAIN rows : a < b /\ a < i + 1 => <<rows[a], rows[b]>> \notin Afters
    <3>1. TAKE a, b \in DOMAIN rows
    <3>2. HAVE a < b /\ a < i + 1
    <3>3. CASE a < i
      BY <1>2, <3>1, <3>2, <3>3 DEF PlacedUpTo
    <3>4. CASE a = i
      BY <1>2, <1>3, <3>1, <3>2, <3>4 DEF PlacedUpTo
    <3>5. QED
      BY <1>2, <1>3, <3>1, <3>2, <3>3, <3>4
  <2>2. QED
    BY <1>2, <1>3, <2>1 DEF PlacedUpTo
<1>5. InArrays'
  BY <1>2, <1>3, LimitAssumption DEF InArrays
<1>6. SortInv'
  BY <1>1, <1>2, <1>4 DEF SelectInv, SortInv
<1>7. QED
  BY <1>1, <1>5, <1>6 DEF SelectInv, TypeInv

\* A sort that has come to the last place has ordered the rows.
LEMMA PlacedAll ==
  ASSUME NEW S, NEW R, NEW s \in Seq(S), NEW m \in Nat, NEW n, m >= Len(s), PlacedUpTo(R, s, m, n)
  PROVE  Ordered(R, s)
<1>1. Len(s) \in Nat /\ DOMAIN s = 1 .. Len(s)
  OBVIOUS
<1>2. QED
  BY <1>1 DEF PlacedUpTo, Ordered

LEMMA NearEndKeeps == SelectInv /\ NearEnd => SelectInv'
<1> SUFFICES ASSUME SelectInv, NearEnd PROVE SelectInv'
  OBVIOUS
<1> USE DEF NearEnd
<1>1. /\ Kept' = Kept /\ (ColumnsChecked => ColumnsChecked') /\ (Nearest' <=> Nearest)
      /\ ByDistance' = ByDistance
  BY DEF Kept, ColumnsChecked, NearCol, OrderCol, Nearest, Plain, ByDistance
<1>2. /\ rows \in Seq(Kept) /\ Len(rows) <= RowLimit
      /\ i \in 1 .. RowLimit /\ j \in 2 .. RowLimit + 1
      /\ PlacedUpTo(ByDistance, rows, i, j)
      /\ q.near # <<>> /\ q.near[1].k > 0
  BY DEF SelectInv, TypeInv, InArrays, SortInv, Afters, Nearest
<1>3. q.near[1].k \in Int
  <2>1. q.near \in Seq([col : Int, th : Int, k : Int, dims : Int])
    BY QueriesAssumption DEF SelectInv, TypeInv
  <2>2. q.near[1] \in [col : Int, th : Int, k : Int, dims : Int]
    BY <1>2, <2>1, FirstElement
  <2>3. QED
    BY <2>2
<1>4. Ordered(ByDistance, rows)
  BY <1>2, LimitAssumption, PlacedAll
<1>5. rows' \in Seq(Kept) /\ Len(rows') <= RowLimit /\ Ordered(ByDistance, rows')
  <2>1. CASE Len(rows) > q.near[1].k
    <3>1. q.near[1].k \in Nat /\ q.near[1].k <= Len(rows)
      BY <1>2, <1>3, <2>1
    <3>2. rows' = SubSeq(rows, 1, q.near[1].k)
      BY <2>1
    <3>3. rows' \in Seq(Kept) /\ Len(rows') = q.near[1].k /\ Ordered(ByDistance, rows')
      BY <1>2, <1>4, <3>1, <3>2, BeginningOrdered
    <3>4. QED
      BY <1>2, <1>3, <3>1, <3>3, LimitAssumption
  <2>2. CASE ~(Len(rows) > q.near[1].k)
    BY <1>2, <1>4, <2>2
  <2>3. QED
    BY <2>1, <2>2
<1>6. \A R : PlacedUpTo(R, rows', 1, 2)
  BY <1>5 DEF PlacedUpTo
<1>7. SortInv'
  BY <1>1, <1>5, <1>6 DEF SortInv
<1>8. InArrays'
  BY <1>5, LimitAssumption DEF InArrays
<1>9. QED
  BY <1>1, <1>5, <1>7, <1>8 DEF SelectInv, TypeInv

LEMMA OrderEndKeeps == SelectInv /\ OrderEnd => SelectInv'
<1> SUFFICES ASSUME SelectInv, OrderEnd PROVE SelectInv'
  OBVIOUS
<1> USE DEF OrderEnd
<1>1. /\ Kept' = Kept /\ (ColumnsChecked => ColumnsChecked')
      /\ ByOrder' = ByOrder
  BY DEF Kept, ColumnsChecked, NearCol, OrderCol, ByOrder
<1>2. /\ rows \in Seq(Kept)
      /\ i \in 1 .. RowLimit
      /\ PlacedUpTo(ByOrder, rows, i, j)
      /\ q.order # <<>>
  BY DEF SelectInv, TypeInv, InArrays, SortInv, Afters
<1>3. Ordered(ByOrder, rows)
  BY <1>2, LimitAssumption, PlacedAll
<1>4. SortInv'
  BY <1>1, <1>2, <1>3 DEF SortInv
<1>5. QED
  BY <1>1, <1>4 DEF SelectInv, TypeInv, InArrays

LEMMA AnswerKeeps == SelectInv /\ (Aggregate \/ Project) => SelectInv'
<1> SUFFICES ASSUME SelectInv, Aggregate \/ Project PROVE SelectInv'
  OBVIOUS
<1>1. pc' = "done" /\ UNCHANGED <<q, data, at, rows, i, j>>
  BY DEF Aggregate, Project
<1>2. Kept' = Kept
  BY <1>1 DEF Kept, NearCol
<1>3. QED
  BY <1>1, <1>2 DEF SelectInv, TypeInv, InArrays, SortInv

LEMMA StutterKeeps == SelectInv /\ UNCHANGED vars => SelectInv'
<1> SUFFICES ASSUME SelectInv, UNCHANGED vars PROVE SelectInv'
  OBVIOUS
<1>1. /\ Kept' = Kept /\ (ColumnsChecked' <=> ColumnsChecked) /\ (Nearest' <=> Nearest)
      /\ Afters' = Afters /\ ByDistance' = ByDistance /\ ByOrder' = ByOrder
  BY DEF vars, Kept, ColumnsChecked, NearCol, OrderCol, Nearest, Plain,
         Afters, ByDistance, ByOrder
<1>2. QED
  BY <1>1 DEF vars, SelectInv, TypeInv, InArrays, SortInv

\* SelectInv, the strengthening of what follows, is inductive.
THEOREM SelectInvariant == Spec => []SelectInv
<1>1. Init => SelectInv
  BY InitInv
<1>2. SelectInv /\ [Next]_vars => SelectInv'
  <2> SUFFICES ASSUME SelectInv, [Next]_vars PROVE SelectInv'
    OBVIOUS
  <2>1. CASE Check
    BY <2>1, CheckKeeps
  <2>2. CASE ScanRow
    BY <2>2, ScanRowKeeps
  <2>3. CASE ScanEnd
    BY <2>3, ScanEndKeeps
  <2>4. CASE Exchange
    BY <2>4, ExchangeKeeps
  <2>5. CASE NextPlace
    BY <2>5, NextPlaceKeeps
  <2>6. CASE NearEnd
    BY <2>6, NearEndKeeps
  <2>7. CASE OrderEnd
    BY <2>7, OrderEndKeeps
  <2>8. CASE Aggregate \/ Project
    BY <2>8, AnswerKeeps
  <2>9. CASE UNCHANGED vars
    BY <2>9, StutterKeeps
  <2>10. QED
    BY <2>1, <2>2, <2>3, <2>4, <2>5, <2>6, <2>7, <2>8, <2>9 DEF Next
<1>3. QED
  BY <1>1, <1>2, PTL DEF Spec

(***************************************************************************)
(* What the invariant says.                                                *)
(***************************************************************************)

\* ScanCtx holds at most RowLimit rows and the loops of the sorts index only
\* those places, however the k nearest cut the array under them.
THEOREM SortsStayInArrays == Spec => []InArrays
<1>1. SelectInv => InArrays
  BY DEF SelectInv
<1>2. QED
  BY <1>1, SelectInvariant, PTL

\* The rows reach the answer in the order asked for, nulls last, or nearest
\* first when only NEAR was given (exec_select.c:61-102, exec_query.c:35-72).
THEOREM SelectionComesInOrder == Spec => []SelectionInOrder
<1>1. SelectInv => SelectionInOrder
  <2>1. SUFFICES ASSUME SelectInv, pc = "answer", Sane,
                        NEW a \in DOMAIN rows, NEW b \in DOMAIN rows, a < b
                 PROVE  IF q.order # <<>>
                        THEN NullsLast(rows[a][q.order[1]], rows[b][q.order[1]])
                        ELSE Nearest => Dist[rows[a][q.near[1].col]] <= Dist[rows[b][q.near[1].col]]
    BY DEF SelectionInOrder
  <2>2. /\ ColumnsChecked /\ rows[a] \in Kept /\ rows[b] \in Kept
        /\ q.order # <<>> => Ordered(ByOrder, rows)
        /\ q.order = <<>> /\ Nearest => Ordered(ByDistance, rows)
    BY <2>1 DEF SelectInv, TypeInv, SortInv
  <2>3. CASE q.order # <<>>
    <3> DEFINE x == rows[a][OrderCol]
               y == rows[b][OrderCol]
    <3>1. ~OrderAfter(OrderCol, x, y)
      BY <2>1, <2>2, <2>3 DEF Ordered, ByOrder
    <3>2. /\ x \in CellValue /\ y \in CellValue
          /\ Read(OrderCol, x) = x /\ Read(OrderCol, y) = y
      <4>1. OrderCol \in ColNos(Schema)
        BY <2>2, <2>3 DEF ColumnsChecked
      <4>2. \A row \in Kept : row[OrderCol] \in CellValue /\ row[OrderCol] # IntMin
        BY <2>1, <4>1 DEF Kept, Sane
      <4>3. QED
        BY <2>2, <4>2 DEF Read
    <3>3. NullsLast(x, y)
      BY <3>1, <3>2 DEF OrderAfter, NullsLast, CellValue
    <3>4. QED
      BY <2>3, <3>3 DEF OrderCol
  <2>4. CASE q.order = <<>>
    <3>1. SUFFICES ASSUME Nearest
                   PROVE  Dist[rows[a][NearCol]] <= Dist[rows[b][NearCol]]
      BY <2>4 DEF NearCol
    <3>2. ~(Dist[rows[a][NearCol]] > Dist[rows[b][NearCol]])
      BY <2>1, <2>2, <2>4, <3>1 DEF Ordered, ByDistance
    <3>3. Dist[rows[a][NearCol]] \in Int /\ Dist[rows[b][NearCol]] \in Int
      BY <2>2, <3>1, RowsAssumption DEF Kept, Nearest
    <3>4. QED
      BY <3>2, <3>3
  <2>5. QED
    BY <2>3, <2>4
<1>2. QED
  BY <1>1, SelectInvariant, PTL

(***************************************************************************)
(* Rows of a table and the positions they come from.                       *)
(***************************************************************************)

\* The sequence s consists of the elements of d at the positions C, in some order.
Dealt(s, d, C) == \E f : Enumerates(f, Len(s), C) /\ \A a \in 1 .. Len(s) : s[a] = d[f[a]]

\* The first of F, up to L of them.
FirstOf(F, L) == {p \in F : Cardinality({o \in F : o < p}) < L}

\* Position m + 1 is among the first when it is one and there is room.
LEMMA FirstNext ==
  ASSUME NEW n \in Nat, NEW F \in SUBSET (1 .. n), NEW L \in Nat, NEW m \in 0 .. n - 1
  PROVE  m + 1 \in FirstOf(F, L) <=>
            m + 1 \in F /\ Cardinality(FirstOf(F, L) \cap (1 .. m)) < L
<1> DEFINE C == FirstOf(F, L)
           before(p) == {o \in F : o < p}
<1>1. /\ C \subseteq F /\ \A p \in F : p \in C <=> Cardinality(before(p)) < L
      /\ IsFiniteSet(F)
  <2>1. IsFiniteSet(1 .. n)
    BY FS_Interval
  <2>2. QED
    BY <2>1, FS_Subset DEF FirstOf
<1> HIDE DEF C
<1>2. \A p : IsFiniteSet(before(p)) /\ Cardinality(before(p)) \in Nat
  <2>1. \A p : before(p) \in SUBSET F
    OBVIOUS
  <2> HIDE DEF before
  <2>2. QED
    BY <1>1, <2>1, FS_Subset, FS_CardinalityType
<1>3. C \cap (1 .. m) \in SUBSET before(m + 1)
  BY <1>1
<1>4. Cardinality(C \cap (1 .. m)) \in Nat /\ Cardinality(C \cap (1 .. m)) <= Cardinality(before(m + 1))
      /\ IsFiniteSet(C \cap (1 .. m))
  <2> DEFINE c == C \cap (1 .. m)
             b == before(m + 1)
  <2>1. IsFiniteSet(b) /\ c \in SUBSET b
    BY <1>2, <1>3
  <2> HIDE DEF c, b
  <2>2. QED
    BY <2>1, FS_Subset, FS_CardinalityType DEF c, b
<1>5. \A o \in before(m + 1) : o \in 1 .. m /\ o \in Nat
  OBVIOUS
<1>6. ASSUME m + 1 \in F, Cardinality(C \cap (1 .. m)) < L
      PROVE  Cardinality(before(m + 1)) < L
  <2> DEFINE left == before(m + 1) \ C
  <2>1. CASE left = {}
    <3>1. before(m + 1) = C \cap (1 .. m)
      BY <2>1, <1>5, <1>3
    <3>2. QED
      BY <3>1, <1>6
  <2>2. CASE left # {}
    <3>1. left \subseteq Nat
      BY <1>5
    <3>2. PICK p \in left : \A o \in left : p <= o
      <4> HIDE DEF left
      <4>1. QED
        BY <2>2, <3>1, LeastNat
    <3>3. p \in F /\ p \notin C /\ p < m + 1 /\ p \in 1 .. n
      BY <3>2
    <3>4. \A o \in before(p) : o \in C /\ o \in 1 .. m
      <4>1. ASSUME NEW o \in F, o < p PROVE o \in C /\ o \in 1 .. m
        <5>1. o \in 1 .. n /\ o < m + 1
          BY <3>3, <4>1
        <5>2. o \notin left
          <6> HIDE DEF left
          <6>1. QED
            BY <3>2, <3>3, <4>1, <5>1
        <5>3. QED
          BY <4>1, <5>1, <5>2
      <4>2. QED
        BY <4>1
    <3>5. Cardinality(before(p)) <= Cardinality(C \cap (1 .. m))
      <4> DEFINE c == C \cap (1 .. m)
                 b == before(p)
      <4>1. b \in SUBSET c /\ IsFiniteSet(c)
        BY <3>4, <1>4
      <4> HIDE DEF b, c
      <4>2. QED
        BY <4>1, FS_Subset DEF b, c
    <3>6. ~(Cardinality(before(p)) < L)
      BY <3>3, <1>1
    <3>7. QED
      <4> HIDE DEF before
      <4>1. QED
        BY <3>5, <3>6, <1>2, <1>4, <1>6
  <2>3. QED
    BY <2>1, <2>2
<1>7. QED
  <2> HIDE DEF before
  <2>1. m + 1 \in F => (m + 1 \in C <=> Cardinality(before(m + 1)) < L)
    BY <1>1
  <2>2. QED
    BY <2>1, <1>1, <1>2, <1>4, <1>6 DEF C

LEMMA DealtSize ==
  ASSUME NEW s, NEW d, NEW C, Dealt(s, d, C)
  PROVE  IsFiniteSet(C) /\ Cardinality(C) = Len(s)
  BY ListedSize DEF Dealt

\* One more position.
LEMMA DealtAppend ==
  ASSUME NEW S, NEW s \in Seq(S), NEW d, NEW C, Dealt(s, d, C), NEW p, p \notin C, d[p] \in S
  PROVE  Dealt(Append(s, d[p]), d, C \cup {p})
<1> DEFINE t == Append(s, d[p])
<1>1. /\ Len(s) \in Nat /\ t \in Seq(S) /\ Len(t) = Len(s) + 1 /\ t[Len(s) + 1] = d[p]
      /\ \A a \in 1 .. Len(s) : t[a] = s[a]
  OBVIOUS
<1> HIDE DEF t
<1>2. PICK f : Enumerates(f, Len(s), C) /\ \A a \in 1 .. Len(s) : s[a] = d[f[a]]
  BY DEF Dealt
<1> DEFINE g == [a \in 1 .. Len(s) + 1 |-> IF a \in 1 .. Len(s) THEN f[a] ELSE p]
<1>3. /\ \A a \in 1 .. Len(s) : g[a] = f[a] /\ a \in 1 .. Len(s) + 1
      /\ g[Len(s) + 1] = p
      /\ \A a \in 1 .. Len(s) + 1 : a \in 1 .. Len(s) \/ a = Len(s) + 1
      /\ Len(s) + 1 \in 1 .. Len(s) + 1
  BY <1>1
<1> HIDE DEF g
<1>4. Enumerates(g, Len(t), C \cup {p})
  <2>1. \A a \in 1 .. Len(s) : f[a] \in C /\ f[a] # p
    BY <1>2 DEF Enumerates
  <2>2. \A a, b \in 1 .. Len(s) + 1 : g[a] = g[b] => a = b
    BY <1>2, <1>3, <2>1 DEF Enumerates
  <2>3. \A x \in C : \E a \in 1 .. Len(s) : g[a] = x
    BY <1>2, <1>3 DEF Enumerates
  <2>4. QED
    BY <1>1, <1>3, <2>1, <2>2, <2>3 DEF Enumerates
<1>5. \A a \in 1 .. Len(t) : t[a] = d[g[a]]
  BY <1>1, <1>2, <1>3
<1>6. QED
  BY <1>4, <1>5 DEF Dealt, t

\* An exchange deals the same positions.
Redealt(t, s, d, C) == /\ Len(t) = Len(s) /\ Dealt(t, d, C)
                       /\ \A a \in 1 .. Len(t) : \E b \in 1 .. Len(s) : t[a] = s[b]

LEMMA DealtSwap ==
  ASSUME NEW S, NEW s \in Seq(S), NEW d, NEW C, Dealt(s, d, C), NEW m \in DOMAIN s, NEW n \in DOMAIN s,
         NEW t, t = [s EXCEPT ![m] = s[n], ![n] = s[m]]
  PROVE  Redealt(t, s, d, C)
<1>1. /\ Len(s) \in Nat /\ DOMAIN s = 1 .. Len(s) /\ t \in Seq(S) /\ Len(t) = Len(s)
      /\ \A a \in 1 .. Len(s) : t[a] = IF a = n THEN s[m] ELSE IF a = m THEN s[n] ELSE s[a]
  OBVIOUS
<1>2. PICK f : Enumerates(f, Len(s), C) /\ \A a \in 1 .. Len(s) : s[a] = d[f[a]]
  BY DEF Dealt
<1> DEFINE g == [a \in 1 .. Len(s) |-> IF a = n THEN f[m] ELSE IF a = m THEN f[n] ELSE f[a]]
<1>3. \A a \in 1 .. Len(s) : g[a] = IF a = n THEN f[m] ELSE IF a = m THEN f[n] ELSE f[a]
  OBVIOUS
<1>4. \A x \in C : \E a \in 1 .. Len(s) : g[a] = x
  <2> HIDE DEF g
  <2>1. TAKE x \in C
  <2>2. PICK a \in 1 .. Len(s) : f[a] = x
    BY <1>2 DEF Enumerates
  <2>3. CASE a = n
    BY <2>2, <2>3, <1>1, <1>3
  <2>4. CASE a = m /\ a # n
    BY <2>2, <2>4, <1>1, <1>3
  <2>5. CASE a # m /\ a # n
    BY <2>2, <2>5, <1>3
  <2>6. QED
    BY <2>3, <2>4, <2>5
<1> HIDE DEF g
<1>5. \A a, b \in 1 .. Len(s) : g[a] = g[b] => a = b
  BY <1>1, <1>2, <1>3 DEF Enumerates
<1>6. \A a \in 1 .. Len(s) : g[a] \in C
  BY <1>1, <1>2, <1>3 DEF Enumerates
<1>7. Enumerates(g, Len(t), C)
  BY <1>1, <1>4, <1>5, <1>6 DEF Enumerates
<1>8. \A a \in 1 .. Len(t) : t[a] = d[g[a]]
  BY <1>1, <1>2, <1>3
<1>9. QED
  BY <1>1, <1>7, <1>8 DEF Dealt, Redealt

\* The beginning of a deal takes that many of the positions.
LEMMA DealtCut ==
  ASSUME NEW S, NEW s \in Seq(S), NEW d, NEW C, Dealt(s, d, C), NEW k \in Nat, k <= Len(s)
  PROVE  \E D \in SUBSET C :
            /\ Dealt(SubSeq(s, 1, k), d, D)
            /\ \A p \in C \ D : \E b \in DOMAIN s : b > k /\ s[b] = d[p]
<1> DEFINE t == SubSeq(s, 1, k)
<1>1. /\ Len(s) \in Nat /\ DOMAIN s = 1 .. Len(s) /\ Len(t) = k
      /\ \A a \in 1 .. k : t[a] = s[a] /\ a \in 1 .. Len(s)
  OBVIOUS
<1> HIDE DEF t
<1>2. PICK f : Enumerates(f, Len(s), C) /\ \A a \in 1 .. Len(s) : s[a] = d[f[a]]
  BY DEF Dealt
<1> DEFINE D == {f[a] : a \in 1 .. k}
<1>3. D \in SUBSET C
  BY <1>1, <1>2 DEF Enumerates
<1>4. Enumerates(f, k, D)
  BY <1>1, <1>2 DEF Enumerates
<1>5. Dealt(t, d, D)
  <2> HIDE DEF D
  <2>1. Enumerates(f, Len(t), D) /\ \A a \in 1 .. Len(t) : t[a] = d[f[a]]
    BY <1>1, <1>2, <1>4
  <2>2. QED
    BY <2>1 DEF Dealt
<1>6. ASSUME NEW p \in C \ D PROVE \E b \in DOMAIN s : b > k /\ s[b] = d[p]
  <2>1. PICK b \in 1 .. Len(s) : f[b] = p
    BY <1>2 DEF Enumerates
  <2>2. b > k
    BY <2>1, <1>1
  <2>3. QED
    BY <1>1, <1>2, <2>1, <2>2
<1> HIDE DEF D
<1>7. QED
  BY <1>3, <1>5, <1>6 DEF t

\* A deal from M has no row more often than M has it, and when it has it less
\* often one of its positions was left out.
Sparing(s, d, C, M, x) ==
    LET all == {p \in M : d[p] = x}
    IN  /\ Occurs(s, x) <= Cardinality(all)
        /\ Occurs(s, x) < Cardinality(all) => \E p \in M \ C : d[p] = x

LEMMA DealtSparing ==
  ASSUME NEW S, NEW s \in Seq(S), NEW d, NEW C, Dealt(s, d, C),
         NEW M, IsFiniteSet(M), C \subseteq M, NEW x
  PROVE  Sparing(s, d, C, M, x)
<1> DEFINE A == {a \in DOMAIN s : s[a] = x}
           B == {p \in M : d[p] = x}
<1>1. PICK f : Enumerates(f, Len(s), C) /\ \A a \in 1 .. Len(s) : s[a] = d[f[a]]
  BY DEF Dealt
<1>2. DOMAIN s = 1 .. Len(s)
  OBVIOUS
<1>3. \A a \in A : f[a] \in B
  BY <1>1, <1>2 DEF Enumerates
<1>4. \A a, b \in A : f[a] = f[b] => a = b
  BY <1>1, <1>2 DEF Enumerates
<1>5. IsFiniteSet(B)
  BY FS_Subset
<1>6. (\A z \in B : z \in C) => \A z \in B : \E a \in A : f[a] = z
  <2>1. ASSUME NEW z \in B, z \in C PROVE \E a \in A : f[a] = z
    <3>1. PICK a \in 1 .. Len(s) : f[a] = z
      BY <1>1, <2>1 DEF Enumerates
    <3>2. s[a] = x
      BY <1>1, <2>1, <3>1
    <3>3. QED
      BY <1>2, <3>1, <3>2
  <2>2. QED
    BY <2>1
<1>7. (\A z \in B : z \in C) \/ \E p \in M \ C : d[p] = x
  OBVIOUS
<1>8. Occurs(s, x) = Cardinality(A)
  BY DEF Occurs
<1> HIDE DEF A, B
<1>9. /\ Cardinality(A) \in Nat /\ Cardinality(B) \in Nat /\ Cardinality(A) <= Cardinality(B)
      /\ Cardinality(A) = Cardinality(B) <=> \A z \in B : \E a \in A : f[a] = z
  BY <1>3, <1>4, <1>5, Places
<1>10. /\ Occurs(s, x) <= Cardinality(B)
       /\ Occurs(s, x) < Cardinality(B) => \E p \in M \ C : d[p] = x
  BY <1>6, <1>7, <1>8, <1>9
<1>11. QED
  BY <1>10 DEF Sparing, B

(***************************************************************************)
(* Which rows the answer is made from: with the positions they come from,  *)
(* the first RowLimit that pass the filter, or the nearest of those.       *)
(***************************************************************************)

\* The positions of the rows that pass scan_cb's filter, and those it keeps.
Filtered == {p \in DOMAIN data : Wanted(data[p])}
Chosen == FirstOf(Filtered, RowLimit)

\* The rows kept are not farther than those of Chosen that are not in C.
Nearer(C) == \A p \in Chosen \ C, a \in DOMAIN rows : Dist[rows[a][NearCol]] <= Dist[data[p][NearCol]]

\* The k nearest of Chosen.
CutRows == \E C \in SUBSET Chosen :
              /\ Dealt(rows, data, C) /\ Nearer(C)
              /\ Cardinality(C) = Least(q.near[1].k, Cardinality(Chosen))

PickInv ==
    /\ pc \notin {"check", "done"} => ~Refused
    /\ pc # "done" => out = [rc |-> 0, rows |-> <<>>, val |-> Null]
    /\ pc \in {"check", "scan"} => Dealt(rows, data, Chosen \cap (1 .. at))
    /\ pc = "near" => Dealt(rows, data, Chosen)
    /\ pc \in {"order", "answer"} => IF Nearest THEN CutRows ELSE Dealt(rows, data, Chosen)

\* What a query and its table fix does not change while it is answered.
LEMMA QueryFixed ==
  ASSUME UNCHANGED <<q, data>>
  PROVE  /\ Refused' = Refused /\ Nearest' = Nearest /\ Filtered' = Filtered /\ Chosen' = Chosen
         /\ NearCol' = NearCol
         /\ rows' = rows => CutRows' = CutRows
<1>1. Refused' = Refused /\ Nearest' = Nearest
  BY DEF Refused, Plain, Nearest
<1>2. Filtered' = Filtered
  BY DEF Filtered, Wanted
<1>3. Chosen' = Chosen
  BY <1>2 DEF Chosen
<1>4. QED
  BY <1>1, <1>2, <1>3 DEF CutRows, Nearer, NearCol

LEMMA ChosenTypes ==
  ASSUME TypeInv
  PROVE  /\ data \in Seq([ColNos(Schema) -> CellValue]) /\ Len(data) \in Nat
         /\ DOMAIN data = 1 .. Len(data)
         /\ \A p \in DOMAIN data : data[p] \in [ColNos(Schema) -> CellValue]
         /\ q \in Queries
         /\ Filtered \in SUBSET (1 .. Len(data)) /\ Chosen \in SUBSET Filtered
         /\ IsFiniteSet(Chosen) /\ Cardinality(Chosen) \in Nat
<1>1. /\ data \in Seq([ColNos(Schema) -> CellValue]) /\ Len(data) \in Nat
      /\ DOMAIN data = 1 .. Len(data)
      /\ \A p \in DOMAIN data : data[p] \in [ColNos(Schema) -> CellValue]
  BY RowsAssumption DEF TypeInv
<1>2. Filtered \in SUBSET (1 .. Len(data)) /\ Chosen \in SUBSET Filtered
  BY <1>1 DEF Filtered, Chosen, FirstOf
<1>3. IsFiniteSet(1 .. Len(data))
  BY <1>1, FS_Interval
<1>4. IsFiniteSet(Filtered)
  BY <1>2, <1>3, FS_Subset
<1>5. IsFiniteSet(Chosen) /\ Cardinality(Chosen) \in Nat
  BY <1>2, <1>4, FS_Subset, FS_CardinalityType
<1>6. QED
  BY <1>1, <1>2, <1>5 DEF TypeInv

LEMMA PickInit == Init => PickInv
<1> SUFFICES ASSUME Init PROVE PickInv
  OBVIOUS
<1>1. rows = <<>> /\ at = 0 /\ pc = "check" /\ out = [rc |-> 0, rows |-> <<>>, val |-> Null]
  BY DEF Init
<1>2. Enumerates(<<>>, Len(rows), Chosen \cap (1 .. at))
  BY <1>1 DEF Enumerates
<1>3. Dealt(rows, data, Chosen \cap (1 .. at))
  BY <1>1, <1>2 DEF Dealt
<1>4. QED
  BY <1>1, <1>3 DEF PickInv

LEMMA PickScanRow == SelectInv /\ PickInv /\ ScanRow => PickInv'
<1> SUFFICES ASSUME SelectInv, PickInv, ScanRow PROVE PickInv'
  OBVIOUS
<1>1. /\ pc = "scan" /\ at < Len(data) /\ at' = at + 1
      /\ rows' = IF HasSpace /\ Wanted(data[at + 1]) THEN Append(rows, data[at + 1]) ELSE rows
      /\ UNCHANGED <<q, data>> /\ pc' = "scan" /\ out' = out
  BY DEF ScanRow
<1>2. /\ data \in Seq([ColNos(Schema) -> CellValue]) /\ Len(data) \in Nat
      /\ DOMAIN data = 1 .. Len(data) /\ Filtered \in SUBSET (1 .. Len(data))
      /\ Chosen \in SUBSET Filtered /\ at \in Nat
      /\ \A p \in DOMAIN data : data[p] \in [ColNos(Schema) -> CellValue]
  BY ChosenTypes DEF SelectInv, TypeInv
<1>3. Chosen' = Chosen /\ ~Refused'
  BY <1>1, QueryFixed DEF PickInv
<1>4. Dealt(rows, data, Chosen \cap (1 .. at))
  BY <1>1 DEF PickInv
<1>5. Cardinality(Chosen \cap (1 .. at)) = Len(rows)
  BY <1>4, DealtSize
<1>6. at + 1 \in 1 .. Len(data) /\ at \in 0 .. Len(data) - 1
  BY <1>1, <1>2
<1>7. at + 1 \in Filtered <=> Wanted(data[at + 1])
  BY <1>2, <1>6 DEF Filtered
<1>8. at + 1 \in Chosen <=> HasSpace /\ Wanted(data[at + 1])
  <2>1. at + 1 \in Chosen <=> at + 1 \in Filtered /\ Cardinality(Chosen \cap (1 .. at)) < RowLimit
    BY <1>2, <1>6, FirstNext, LimitAssumption DEF Chosen
  <2>2. QED
    BY <2>1, <1>5, <1>7 DEF HasSpace
<1>9. CASE at + 1 \in Chosen
  <2>1. rows' = Append(rows, data[at + 1])
    BY <1>1, <1>8, <1>9
  <2>2. Chosen \cap (1 .. at + 1) = (Chosen \cap (1 .. at)) \cup {at + 1}
    BY <1>2, <1>9
  <2>3. at + 1 \notin Chosen \cap (1 .. at)
    BY <1>2
  <2>4. rows \in Seq([ColNos(Schema) -> CellValue]) /\ data[at + 1] \in [ColNos(Schema) -> CellValue]
    <3>1. rows \in Seq(Kept) /\ Kept \subseteq [ColNos(Schema) -> CellValue]
      BY DEF SelectInv, TypeInv, Kept
    <3>2. QED
      BY <3>1, <1>2, <1>6
  <2>5. Dealt(rows', data, Chosen \cap (1 .. at + 1))
    <3> DEFINE C == Chosen \cap (1 .. at)
               S == [ColNos(Schema) -> CellValue]
               p == at + 1
    <3>1. rows \in Seq(S) /\ Dealt(rows, data, C) /\ p \notin C /\ data[p] \in S
      BY <1>4, <2>3, <2>4
    <3>2. Dealt(Append(rows, data[p]), data, C \cup {p})
      <4> HIDE DEF C, S, p
      <4>1. QED
        BY <3>1, DealtAppend
    <3>3. Append(rows, data[p]) = rows' /\ C \cup {p} = Chosen \cap (1 .. at + 1)
      BY <2>1, <2>2
    <3> HIDE DEF C, S, p
    <3>4. QED
      BY <3>2, <3>3
  <2>6. QED
    BY <1>1, <1>3, <2>5 DEF PickInv
<1>10. CASE at + 1 \notin Chosen
  <2>1. rows' = rows
    BY <1>1, <1>8, <1>10
  <2>2. Chosen \cap (1 .. at + 1) = Chosen \cap (1 .. at)
    BY <1>2, <1>10
  <2>3. QED
    BY <1>1, <1>3, <1>4, <2>1, <2>2 DEF PickInv
<1>11. QED
  BY <1>9, <1>10

LEMMA PickScanEnd == SelectInv /\ PickInv /\ ScanEnd => PickInv'
<1> SUFFICES ASSUME SelectInv, PickInv, ScanEnd PROVE PickInv'
  OBVIOUS
<1>1. /\ pc = "scan" /\ at = Len(data) /\ UNCHANGED <<q, data>> /\ rows' = rows /\ out' = out
      /\ pc' = IF Nearest THEN "near" ELSE IF q.order # <<>> THEN "order" ELSE "answer"
  BY DEF ScanEnd
<1>2. Chosen' = Chosen /\ ~Refused' /\ (Nearest' <=> Nearest)
  BY <1>1, QueryFixed DEF PickInv
<1>3. Chosen \cap (1 .. at) = Chosen
  BY <1>1, ChosenTypes DEF SelectInv
<1>4. Dealt(rows', data', Chosen')
  BY <1>1, <1>2, <1>3 DEF PickInv
<1>5. QED
  BY <1>1, <1>2, <1>4 DEF PickInv

LEMMA PickExchange == SelectInv /\ PickInv /\ Exchange => PickInv'
<1> SUFFICES ASSUME SelectInv, PickInv, Exchange PROVE PickInv'
  OBVIOUS
<1>1. /\ pc \in {"near", "order"} /\ j <= Len(rows) /\ UNCHANGED <<q, data>> /\ pc' = pc /\ out' = out
      /\ \/ rows' = [rows EXCEPT ![i] = rows[j], ![j] = rows[i]]
         \/ rows' = rows
  BY DEF Exchange
<1>2. Chosen' = Chosen /\ ~Refused' /\ (Nearest' <=> Nearest) /\ NearCol' = NearCol
  BY <1>1, QueryFixed DEF PickInv
<1>3. rows \in Seq(Kept) /\ i \in DOMAIN rows /\ j \in DOMAIN rows /\ DOMAIN rows = 1 .. Len(rows)
  BY <1>1 DEF SelectInv, TypeInv, InArrays, SortInv
<1>4. ASSUME NEW C, Dealt(rows, data, C)
      PROVE  /\ Len(rows') = Len(rows) /\ Dealt(rows', data, C)
             /\ \A a \in 1 .. Len(rows') : \E b \in 1 .. Len(rows) : rows'[a] = rows[b]
  <2>1. CASE rows' = rows
    BY <2>1, <1>4
  <2>2. CASE rows' = [rows EXCEPT ![i] = rows[j], ![j] = rows[i]]
    <3> DEFINE t == [rows EXCEPT ![i] = rows[j], ![j] = rows[i]]
    <3>2. t = [rows EXCEPT ![i] = rows[j], ![j] = rows[i]] /\ rows' = t
      BY <2>2
    <3> HIDE DEF t
    <3>1. /\ Len(t) = Len(rows) /\ Dealt(t, data, C)
          /\ \A a \in 1 .. Len(t) : \E b \in 1 .. Len(rows) : t[a] = rows[b]
      <4>1. rows \in Seq(Kept) /\ i \in DOMAIN rows /\ j \in DOMAIN rows /\ Dealt(rows, data, C)
        BY <1>3, <1>4
      <4>2. QED
        <5>1. Redealt(t, rows, data, C)
          BY <4>1, <3>2, DealtSwap
        <5>2. QED
          BY <5>1 DEF Redealt
    <3>3. QED
      BY <3>1, <3>2
  <2>3. QED
    BY <1>1, <2>1, <2>2
<1>5. rows' \in Seq(Kept) /\ DOMAIN rows' = 1 .. Len(rows')
  BY <1>1, <1>3
<1>6. CASE pc = "near"
  BY <1>1, <1>2, <1>4, <1>6 DEF PickInv
<1>7. CASE pc = "order" /\ ~Nearest
  BY <1>1, <1>2, <1>4, <1>7 DEF PickInv
<1>8. CASE pc = "order" /\ Nearest
  <2>1. PICK C \in SUBSET Chosen : /\ Dealt(rows, data, C) /\ Nearer(C)
                                   /\ Cardinality(C) = Least(q.near[1].k, Cardinality(Chosen))
    BY <1>8 DEF PickInv, CutRows
  <2>2. \A p \in Chosen \ C, a \in DOMAIN rows' : Dist[rows'[a][NearCol]] <= Dist[data[p][NearCol]]
    <3>1. TAKE p \in Chosen \ C, a \in DOMAIN rows'
    <3>2. PICK b \in 1 .. Len(rows) : rows'[a] = rows[b]
      BY <1>4, <1>5, <2>1
    <3>3. QED
      BY <3>2, <2>1, <1>3 DEF Nearer
  <2>3. Nearer(C)'
    BY <1>1, <1>2, <2>2 DEF Nearer
  <2>4. CutRows'
    BY <1>1, <1>2, <1>4, <2>1, <2>3 DEF CutRows
  <2>5. QED
    BY <1>1, <1>2, <1>8, <2>4 DEF PickInv
<1>9. QED
  BY <1>1, <1>6, <1>7, <1>8

LEMMA PickNearEnd == SelectInv /\ PickInv /\ NearEnd => PickInv'
<1> SUFFICES ASSUME SelectInv, PickInv, NearEnd PROVE PickInv'
  OBVIOUS
<1> DEFINE k == q.near[1].k
<1>1. /\ pc = "near" /\ i >= Len(rows) /\ UNCHANGED <<q, data>> /\ out' = out
      /\ rows' = IF Len(rows) > k THEN SubSeq(rows, 1, k) ELSE rows
      /\ pc' \in {"order", "answer"}
  BY DEF NearEnd
<1>2. Chosen' = Chosen /\ ~Refused' /\ (Nearest' <=> Nearest) /\ NearCol' = NearCol
  BY <1>1, QueryFixed DEF PickInv
<1>3. /\ rows \in Seq(Kept) /\ Len(rows) \in Nat /\ DOMAIN rows = 1 .. Len(rows)
      /\ PlacedUpTo(ByDistance, rows, i, j) /\ i \in Nat
      /\ Nearest /\ q.near # <<>> /\ k > 0
  BY <1>1, LimitAssumption DEF SelectInv, TypeInv, InArrays, SortInv, Afters, Nearest
<1>4. k \in Nat
  <2>1. q.near \in Seq([col : Int, th : Int, k : Int, dims : Int])
    BY QueriesAssumption DEF SelectInv, TypeInv
  <2>2. q.near[1] \in [col : Int, th : Int, k : Int, dims : Int]
    BY <1>3, <2>1, FirstElement
  <2>3. QED
    BY <2>2, <1>3
<1>5. Ordered(ByDistance, rows)
  BY <1>1, <1>3, PlacedAll
<1>6. Dealt(rows, data, Chosen) /\ Cardinality(Chosen) = Len(rows)
  BY <1>1, DealtSize DEF PickInv
<1> HIDE DEF k
<1>7. \A a, b \in DOMAIN rows : a < b => Dist[rows[a][NearCol]] <= Dist[rows[b][NearCol]]
  <2>1. TAKE a, b \in DOMAIN rows
  <2>2. HAVE a < b
  <2>3. rows[a] \in Kept /\ rows[b] \in Kept
    BY <1>3
  <2>4. ~(Dist[rows[a][NearCol]] > Dist[rows[b][NearCol]])
    BY <1>5, <2>2, <2>3 DEF Ordered, ByDistance
  <2>5. Dist[rows[a][NearCol]] \in Int /\ Dist[rows[b][NearCol]] \in Int
    BY <1>3, <2>3, RowsAssumption DEF Kept
  <2>6. QED
    BY <2>4, <2>5
<1>8. CASE Len(rows) > k
  <2>1. rows' = SubSeq(rows, 1, k) /\ k <= Len(rows)
    BY <1>1, <1>3, <1>4, <1>8 DEF k
  <2>2. PICK C \in SUBSET Chosen :
           /\ Dealt(rows', data, C)
           /\ \A p \in Chosen \ C : \E b \in DOMAIN rows : b > k /\ rows[b] = data[p]
    BY <1>3, <1>4, <1>6, <2>1, DealtCut
  <2>3. Len(rows') = k /\ DOMAIN rows' = 1 .. k /\ \A a \in 1 .. k : rows'[a] = rows[a]
    BY <1>3, <1>4, <2>1
  <2>4. Cardinality(C) = k
    BY <2>2, <2>3, DealtSize
  <2>5. \A p \in Chosen \ C, a \in DOMAIN rows' : Dist[rows'[a][NearCol]] <= Dist[data[p][NearCol]]
    <3>1. TAKE p \in Chosen \ C, a \in DOMAIN rows'
    <3>2. PICK b \in DOMAIN rows : b > k /\ rows[b] = data[p]
      BY <2>2
    <3>3. a \in DOMAIN rows /\ a < b /\ rows'[a] = rows[a]
      BY <1>3, <1>4, <1>8, <2>3, <3>2
    <3>4. QED
      BY <1>7, <3>2, <3>3
  <2>6. Least(k, Cardinality(Chosen)) = k
    BY <1>6, <1>8 DEF Least
  <2>7. Nearer(C)'
    BY <1>1, <1>2, <2>5 DEF Nearer
  <2>8. CutRows'
    BY <1>1, <1>2, <2>2, <2>4, <2>6, <2>7 DEF CutRows, k
  <2>9. QED
    BY <1>1, <1>2, <1>3, <2>8 DEF PickInv
<1>9. CASE ~(Len(rows) > k)
  <2>1. rows' = rows
    BY <1>1, <1>9 DEF k
  <2>2. Least(k, Cardinality(Chosen)) = Cardinality(Chosen)
    BY <1>3, <1>4, <1>6, <1>9 DEF Least
  <2>3. Nearer(Chosen)'
    BY <1>2 DEF Nearer
  <2>4. CutRows'
    BY <1>1, <1>2, <1>6, <2>1, <2>2, <2>3 DEF CutRows, k
  <2>5. QED
    BY <1>1, <1>2, <1>3, <2>4 DEF PickInv
<1>10. QED
  BY <1>8, <1>9

\* The other steps leave the rows alone.
LEMMA PickSame ==
  SelectInv /\ PickInv /\ (Check \/ NextPlace \/ OrderEnd \/ Aggregate \/ Project \/ UNCHANGED vars)
    => PickInv'
<1> SUFFICES ASSUME SelectInv, PickInv,
                    Check \/ NextPlace \/ OrderEnd \/ Aggregate \/ Project \/ UNCHANGED vars
             PROVE  PickInv'
  OBVIOUS
<1>1. UNCHANGED <<q, data>> /\ rows' = rows /\ at' = at
  BY DEF Check, NextPlace, OrderEnd, Aggregate, Project, vars
<1>2. Chosen' = Chosen /\ (Refused' <=> Refused) /\ (Nearest' <=> Nearest) /\ (CutRows' <=> CutRows)
  BY <1>1, QueryFixed
<1>3. CASE Check
  BY <1>1, <1>2, <1>3 DEF PickInv, Check
<1>4. CASE NextPlace
  BY <1>1, <1>2, <1>4 DEF PickInv, NextPlace
<1>5. CASE OrderEnd
  BY <1>1, <1>2, <1>5 DEF PickInv, OrderEnd
<1>6. CASE Aggregate \/ Project
  <2>1. pc' = "done"
    BY <1>6 DEF Aggregate, Project
  <2>2. QED
    BY <2>1 DEF PickInv
<1>7. CASE UNCHANGED vars
  BY <1>1, <1>2, <1>7 DEF PickInv, vars
<1>8. QED
  BY <1>3, <1>4, <1>5, <1>6, <1>7

\* Until it is answered the rows are those chosen, whatever the sorts did.
THEOREM PickInvariant == Spec => [](SelectInv /\ PickInv)
<1>1. Init => PickInv
  BY PickInit
<1>2. SelectInv /\ PickInv /\ [Next]_vars => PickInv'
  BY PickScanRow, PickScanEnd, PickExchange, PickNearEnd, PickSame DEF Next
<1>3. QED
  BY <1>1, <1>2, SelectInvariant, PTL DEF Spec

(***************************************************************************)
(* The selection is exact.                                                 *)
(***************************************************************************)

\* The clauses mean what the scan tests, on a table without the smallest number.
LEMMA ClauseHolds ==
  ASSUME NEW v \in CellValue, NEW w \in [col : Int, op : Operators, val : Int \cup {Null}]
  PROVE  CellPasses(v, w) <=> Holds(v, w)
<1>1. v \in Int \cup {Null} /\ w.val \in Int \cup {Null} /\ w.op \in Operators /\ Null \notin Int
  BY RowsAssumption, NumbersType DEF CellValue
<1> DEFINE x == w.val
           op == w.op
<1>2. op \in {"=", "!=", "<", ">", "<=", ">=", "is null", "is not null"}
  BY <1>1 DEF Operators
<1>3. Holds(v, w) <=> \/ op = "is null" /\ v = Null
                      \/ op = "is not null" /\ v # Null
                      \/ op = "!=" /\ x = Null /\ v # Null
                      \/ op \in DOMAIN Signs /\ x # Null /\ v # Null /\ Sign(v, x) \in Signs[op]
  BY DEF Holds
<1>5. DOMAIN Signs = {"=", "!=", "<", ">", "<=", ">="}
  BY DEF Signs
<1>6. x # Null /\ v # Null => \A o \in DOMAIN Signs : Compare(o, v, x) <=> Sign(v, x) \in Signs[o]
  <2>1. x # Null /\ v # Null => x \in Int /\ v \in Int
    BY <1>1
  <2> HIDE DEF x
  <2>2. QED
    BY <2>1 DEF Compare, Sign, Signs
<1> HIDE DEF x, op
<1>7. CASE op = "is null"
  <2>1. op \notin DOMAIN Signs
    BY <1>5, <1>7
  <2>2. CellPasses(v, w) <=> v = Null
    BY <1>7 DEF CellPasses, op
  <2>3. QED
    BY <1>3, <1>7, <2>1, <2>2
<1>8. CASE op = "is not null"
  <2>1. op \notin DOMAIN Signs
    BY <1>5, <1>8
  <2>2. CellPasses(v, w) <=> v # Null
    BY <1>8 DEF CellPasses, op
  <2>3. QED
    BY <1>3, <1>8, <2>1, <2>2
<1>9. CASE op \in DOMAIN Signs
  <2>1. op # "is null" /\ op # "is not null"
    BY <1>5, <1>9
  <2>2. CellPasses(v, w) <=> v # Null /\ (IF x = Null THEN op = "!=" ELSE Compare(op, v, x))
    BY <2>1 DEF CellPasses, op, x
  <2>3. Holds(v, w) <=> v # Null /\ (IF x = Null THEN op = "!=" ELSE Sign(v, x) \in Signs[op])
    BY <2>1, <1>3, <1>9
  <2>4. QED
    BY <1>6, <1>9, <2>2, <2>3
<1>10. QED
  BY <1>2, <1>5, <1>7, <1>8, <1>9

LEMMA ChosenIsMatches ==
  ASSUME SelectInv, ~Refused, Sane
  PROVE  Chosen = Matches
<1>1. /\ DOMAIN data = 1 .. Len(data) /\ q \in Queries
      /\ \A p \in DOMAIN data : data[p] \in [ColNos(Schema) -> CellValue]
  BY ChosenTypes DEF SelectInv
<1>2. ASSUME NEW p \in DOMAIN data PROVE Wanted(data[p]) <=> Selects(data[p])
  <2>1. ASSUME NEW w \in q.wheres
        PROVE  CellPasses(Read(w.col, data[p][w.col]), w) <=> Holds(data[p][w.col], w)
    <3>1. w \in [col : Int, op : Operators, val : Int \cup {Null}]
      BY <1>1, QueriesAssumption
    <3>2. w.col \in ColNos(Schema)
      BY DEF Refused, BadClause
    <3>3. data[p][w.col] \in CellValue /\ data[p][w.col] # IntMin
      BY <1>1, <3>2 DEF Sane
    <3>4. Read(w.col, data[p][w.col]) = data[p][w.col]
      BY <3>3 DEF Read
    <3>5. QED
      BY <3>1, <3>3, <3>4, ClauseHolds
  <2>2. QED
    BY <2>1 DEF Wanted, Selects, IsNear
<1>3. Filtered = Selected
  BY <1>2 DEF Filtered, Selected
<1>4. QED
  BY <1>3 DEF Chosen, FirstOf, Matches

\* The scan keeps every row selected when there are no more than RowLimit.
LEMMA AllMatch ==
  ASSUME SelectInv, Cardinality(Selected) <= RowLimit
  PROVE  Matches = Selected
<1> DEFINE m == Cardinality(Selected)
<1>1. DOMAIN data = 1 .. Len(data) /\ Len(data) \in Nat
  BY ChosenTypes DEF SelectInv
<1>2. Selected \subseteq 1 .. Len(data)
  BY <1>1 DEF Selected
<1>3. IsFiniteSet(1 .. Len(data))
  BY <1>1, FS_Interval
<1>4. IsFiniteSet(Selected) /\ m \in Nat
  BY <1>2, <1>3, FS_Subset, FS_CardinalityType
<1>5. ASSUME NEW p \in Selected PROVE Cardinality({o \in Selected : o < p}) < RowLimit
  <2> DEFINE A == {o \in Selected : o < p}
             B == Selected \ {p}
             a == Cardinality(A)
             b == Cardinality(B)
  <2>1. IsFiniteSet(B) /\ b = m - 1
    BY <1>4, FS_RemoveElement
  <2>2. A \subseteq B
    <3>1. \A o \in Selected : o \in Int
      BY <1>2
    <3>2. QED
      BY <3>1
  <2> HIDE DEF A, B
  <2>3. a \in Nat /\ a <= b
    BY <2>1, <2>2, FS_Subset, FS_CardinalityType
  <2> HIDE DEF a, b, m
  <2>4. m <= RowLimit /\ RowLimit \in Nat
    BY LimitAssumption DEF m
  <2>5. a < RowLimit
    BY <1>4, <2>1, <2>3, <2>4
  <2>6. QED
    BY <2>5 DEF a, A
<1>6. QED
  BY <1>5 DEF Matches

\* The rows the answer is made from are those the clauses select, in the order
\* of the table up to RowLimit of them, each as often as the table has it; the
\* k nearest of them when NEAR asks for k (exec_util.c:256-270,
\* exec_select.c:57-102, exec_query.c:34-72).
THEOREM SelectionIsExact == Spec => []SelectionExact
<1>1. SelectInv /\ PickInv => SelectionExact
  <2> SUFFICES ASSUME SelectInv, PickInv, pc = "answer", Sane PROVE SelectionExact
    BY DEF SelectionExact
  <2>1. ~Refused /\ Chosen = Matches
    BY ChosenIsMatches DEF PickInv
  <2>2. /\ IsFiniteSet(Matches) /\ Cardinality(Matches) \in Nat
        /\ rows \in Seq(Kept) /\ DOMAIN rows = 1 .. Len(rows)
        /\ \A p \in DOMAIN data : data[p] \in [ColNos(Schema) -> CellValue]
    BY <2>1, ChosenTypes DEF SelectInv, TypeInv
  <2>3. ASSUME NEW C \in SUBSET Matches, Dealt(rows, data, C), NEW x
        PROVE  /\ Occurs(rows, x) <= Found(x)
               /\ Occurs(rows, x) < Found(x) => \E p \in Matches \ C : data[p] = x
    <3>1. Sparing(rows, data, C, Matches, x)
      BY <2>2, <2>3, DealtSparing
    <3>2. QED
      BY <3>1 DEF Sparing, Found
  <2>4. CASE ~Nearest
    <3>1. Dealt(rows, data, Matches)
      BY <2>1, <2>4 DEF PickInv
    <3>2. Len(rows) = Cardinality(Matches)
      BY <3>1, DealtSize
    <3>3. \A x : Occurs(rows, x) <= Found(x)
      BY <2>3, <3>1
    <3>4. QED
      BY <2>4, <3>2, <3>3 DEF SelectionExact
  <2>5. CASE Nearest
    <3>1. PICK C \in SUBSET Matches : /\ Dealt(rows, data, C) /\ Nearer(C)
                                      /\ Cardinality(C) = Least(q.near[1].k, Cardinality(Matches))
      BY <2>1, <2>5 DEF PickInv, CutRows
    <3>2. q.near # <<>> /\ q.near[1].k > 0
      BY <2>5 DEF Nearest
    <3>3. Len(rows) = Least(q.near[1].k, Cardinality(Matches))
      BY <3>1, DealtSize
    <3>4. \A x : Occurs(rows, x) <= Found(x)
      BY <2>3, <3>1
    <3>5. ASSUME NEW p \in Matches, NEW y \in ToSet(rows), Occurs(rows, data[p]) < Found(data[p])
          PROVE  Dist[y[NearCol]] <= Dist[data[p][NearCol]]
      <4>1. PICK o \in Matches \ C : data[o] = data[p]
        BY <2>3, <3>1, <3>5
      <4>2. PICK a \in DOMAIN rows : rows[a] = y
        BY DEF ToSet
      <4>3. QED
        BY <4>1, <4>2, <3>1, <2>1 DEF Nearer
    <3>6. QED
      BY <2>5, <3>2, <3>3, <3>4, <3>5 DEF SelectionExact, NearCol
  <2>6. QED
    BY <2>4, <2>5
<1>2. QED
  BY <1>1, PickInvariant, PTL

(***************************************************************************)
(* What the loops of the answer compute: DISTINCT, the values of a column, *)
(* their sum in 64 bits, MAX and MIN.  The folds of the model are unfolded *)
(* by OverSequence and followed from one place to the next.                *)
(***************************************************************************)

\* r has the elements of the first m places of s, each where it occurs first.
Different(r, s, m) ==
    \E e : /\ \A a \in 1 .. Len(r) : /\ e[a] \in 1 .. m /\ s[e[a]] = r[a]
                                     /\ \A o \in 1 .. e[a] - 1 : s[o] # r[a]
           /\ \A a, b \in 1 .. Len(r) : a < b => e[a] < e[b]
           /\ \A p \in 1 .. m : \E a \in 1 .. Len(r) : r[a] = s[p]

FirstsStep(r, x) == IF Contains(r, x) THEN r ELSE Append(r, x)

LEMMA OneMoreDifferent ==
  ASSUME NEW S, NEW s \in Seq(S), NEW m \in 1 .. Len(s), NEW r \in Seq(S), Different(r, s, m - 1)
  PROVE  FirstsStep(r, s[m]) \in Seq(S) /\ Different(FirstsStep(r, s[m]), s, m)
<1>1. m \in Nat /\ Len(r) \in Nat /\ s[m] \in S /\ DOMAIN r = 1 .. Len(r)
  OBVIOUS
<1>2. PICK e : /\ \A a \in 1 .. Len(r) : /\ e[a] \in 1 .. m - 1 /\ s[e[a]] = r[a]
                                         /\ \A o \in 1 .. e[a] - 1 : s[o] # r[a]
               /\ \A a, b \in 1 .. Len(r) : a < b => e[a] < e[b]
               /\ \A p \in 1 .. m - 1 : \E a \in 1 .. Len(r) : r[a] = s[p]
  BY DEF Different
<1>3. \A p \in 1 .. m : p \in 1 .. m - 1 \/ p = m
  BY <1>1
<1>4. CASE \E a \in 1 .. Len(r) : r[a] = s[m]
  <2>1. FirstsStep(r, s[m]) = r
    BY <1>1, <1>4 DEF FirstsStep, Contains
  <2>2. \A a \in 1 .. Len(r) : e[a] \in 1 .. m
    BY <1>1, <1>2
  <2>3. \A p \in 1 .. m : \E a \in 1 .. Len(r) : r[a] = s[p]
    BY <1>2, <1>3, <1>4
  <2>4. Different(r, s, m)
    BY <1>2, <2>2, <2>3 DEF Different
  <2>5. QED
    BY <2>1, <2>4
<1>5. CASE ~\E a \in 1 .. Len(r) : r[a] = s[m]
  <2> DEFINE t == Append(r, s[m])
  <2>1. FirstsStep(r, s[m]) = t
    BY <1>1, <1>5 DEF FirstsStep, Contains
  <2>2. /\ t \in Seq(S) /\ Len(t) = Len(r) + 1 /\ t[Len(r) + 1] = s[m]
        /\ \A a \in 1 .. Len(r) : t[a] = r[a]
    BY <1>1
  <2> HIDE DEF t
  <2> DEFINE g == [a \in 1 .. Len(r) + 1 |-> IF a \in 1 .. Len(r) THEN e[a] ELSE m]
  <2>3. /\ \A a \in 1 .. Len(r) : g[a] = e[a] /\ a \in 1 .. Len(r) + 1
        /\ g[Len(r) + 1] = m
        /\ \A a \in 1 .. Len(r) + 1 : a \in 1 .. Len(r) \/ a = Len(r) + 1
        /\ Len(r) + 1 \in 1 .. Len(r) + 1
    BY <1>1
  <2> HIDE DEF g
  <2>4. ASSUME NEW a \in 1 .. Len(t)
        PROVE  /\ g[a] \in 1 .. m /\ s[g[a]] = t[a]
               /\ \A o \in 1 .. g[a] - 1 : s[o] # t[a]
    <3>1. CASE a \in 1 .. Len(r)
      <4>1. e[a] \in 1 .. m - 1 /\ s[e[a]] = r[a] /\ \A o \in 1 .. e[a] - 1 : s[o] # r[a]
        BY <1>2, <3>1
      <4>2. g[a] = e[a] /\ t[a] = r[a] /\ e[a] \in 1 .. m
        BY <1>1, <2>2, <2>3, <3>1, <4>1
      <4>3. QED
        BY <4>1, <4>2
    <3>2. CASE a = Len(r) + 1
      <4>1. \A o \in 1 .. m - 1 : s[o] # s[m]
        BY <1>2, <1>5
      <4>2. g[a] = m /\ t[a] = s[m] /\ m \in 1 .. m
        BY <1>1, <2>2, <2>3, <3>2
      <4>3. QED
        BY <4>1, <4>2
    <3>3. QED
      BY <2>2, <2>3, <3>1, <3>2
  <2>5. \A a, b \in 1 .. Len(t) : a < b => g[a] < g[b]
    <3>1. TAKE a, b \in 1 .. Len(t)
    <3>2. HAVE a < b
    <3>3. a \in 1 .. Len(r) /\ g[a] = e[a] /\ e[a] \in 1 .. m - 1
      BY <1>1, <1>2, <2>2, <2>3, <3>2
    <3>4. CASE b \in 1 .. Len(r)
      BY <1>2, <2>3, <3>2, <3>3, <3>4
    <3>5. CASE b = Len(r) + 1
      BY <1>1, <2>3, <3>3, <3>5
    <3>6. QED
      BY <2>2, <2>3, <3>4, <3>5
  <2>6. \A p \in 1 .. m : \E a \in 1 .. Len(t) : t[a] = s[p]
    <3>1. TAKE p \in 1 .. m
    <3>2. CASE p = m
      BY <2>2, <2>3, <3>2
    <3>3. CASE p \in 1 .. m - 1
      <4>1. PICK a \in 1 .. Len(r) : r[a] = s[p]
        BY <1>2, <3>3
      <4>2. a \in 1 .. Len(t) /\ t[a] = s[p]
        BY <2>2, <2>3, <4>1
      <4>3. QED
        BY <4>2
    <3>4. QED
      BY <1>3, <3>2, <3>3
  <2>7. Different(t, s, m)
    BY <2>4, <2>5, <2>6 DEF Different
  <2>8. QED
    BY <2>1, <2>2, <2>7
<1>6. QED
  BY <1>4, <1>5

\* Firsts is what its name says.
LEMMA FirstsResult ==
  ASSUME NEW S, NEW s \in Seq(S)
  PROVE  Firsts(s) \in Seq(S) /\ Different(Firsts(s), s, Len(s))
<1> DEFINE n == Len(s)
           F(f) == f = [u \in SUBSET (1 .. n) |-> IF u = {} THEN <<>>
                                                  ELSE FirstsStep(f[u \ {Max(u)}], s[Max(u)])]
           it == CHOOSE f : F(f)
<1>1. n \in Nat /\ DOMAIN s = 1 .. n
  OBVIOUS
<1>2. Firsts(s) = it[1 .. n]
  BY <1>1 DEF Firsts, FoldLeft, MapThenFoldSet, FirstsStep
<1>3. F(it)
  <2> DEFINE step == [p \in 1 .. n |-> [v \in Seq(S) |-> FirstsStep(v, s[p])]]
  <2>1. \A p \in 1 .. n : \A v \in Seq(S) : step[p][v] = FirstsStep(v, s[p]) /\ step[p][v] \in Seq(S)
    BY DEF FirstsStep
  <2>2. <<>> \in Seq(S)
    OBVIOUS
  <2> HIDE DEF step, n
  <2>3. SeqRecursive(n, Seq(S), <<>>, step)
    BY <1>1, <2>1, <2>2, OverSequence
  <2>4. PICK f : /\ f \in [SUBSET (1 .. n) -> Seq(S)]
                 /\ f = [u \in SUBSET (1 .. n) |-> IF u = {} THEN <<>> ELSE step[Max(u)][f[u \ {Max(u)}]]]
    BY <2>3 DEF SeqRecursive
  <2>5. \A u \in SUBSET (1 .. n) : u # {} => step[Max(u)][f[u \ {Max(u)}]] = FirstsStep(f[u \ {Max(u)}], s[Max(u)])
    BY <1>1, <2>1, <2>4, MaxIn
  <2>6. F(f)
    BY <2>4, <2>5
  <2>7. QED
    BY <2>6
<1>4. it[{}] = <<>>
  BY <1>3
<1>5. ASSUME NEW m \in 1 .. n PROVE it[1 .. m] = FirstsStep(it[1 .. m - 1], s[m])
  <2>1. m \in Nat \ {0} /\ \A u \in 1 .. m : u \in 1 .. n
    BY <1>1
  <2>2. 1 .. m \in SUBSET (1 .. n) /\ 1 .. m # {}
    BY <2>1
  <2>3. QED
    BY <1>3, <2>1, <2>2, MaxUpto
<1> HIDE DEF it
<1> DEFINE T == {m \in 0 .. n : it[1 .. m] \in Seq(S) /\ Different(it[1 .. m], s, m)}
<1>6. 0 \in T
  <2>1. 1 .. 0 = {}
    OBVIOUS
  <2>2. Different(<<>>, s, 0)
    BY DEF Different
  <2>3. 0 \in 0 .. n /\ it[1 .. 0] = <<>> /\ <<>> \in Seq(S)
    BY <1>1, <1>4, <2>1
  <2>4. QED
    BY <2>2, <2>3
<1>7. ASSUME NEW m \in 1 .. n, m - 1 \in T PROVE m \in T
  BY <1>1, <1>5, <1>7, OneMoreDifferent
<1>8. \A m \in 0 .. n : m \in T
  <2> HIDE DEF T, n
  <2>1. QED
    BY <1>1, <1>6, <1>7, Upwards
<1>9. n \in 0 .. n
  BY <1>1
<1>10. QED
  BY <1>2, <1>8, <1>9

LEMMA DifferentLists ==
  ASSUME NEW r, Len(r) \in Nat, NEW s, NEW m \in Nat, Different(r, s, m)
  PROVE  Enumerates(r, Len(r), {s[p] : p \in 1 .. m})
<1>1. PICK e : /\ \A a \in 1 .. Len(r) : /\ e[a] \in 1 .. m /\ s[e[a]] = r[a]
                                         /\ \A o \in 1 .. e[a] - 1 : s[o] # r[a]
               /\ \A a, b \in 1 .. Len(r) : a < b => e[a] < e[b]
               /\ \A p \in 1 .. m : \E a \in 1 .. Len(r) : r[a] = s[p]
  BY DEF Different
<1>2. ASSUME NEW a \in 1 .. Len(r), NEW b \in 1 .. Len(r), a < b PROVE r[a] # r[b]
  <2>1. e[a] \in 1 .. e[b] - 1
    BY <1>1, <1>2
  <2>2. QED
    BY <1>1, <2>1
<1>3. \A a, b \in 1 .. Len(r) : r[a] = r[b] => a = b
  BY <1>2
<1>4. QED
  BY <1>1, <1>3 DEF Enumerates

Number == IntMin .. IntMax

LEMMA CellNumbers == /\ IntMin \in Int /\ IntMax \in Int /\ IntMin <= 0 /\ 0 <= IntMax
                    /\ 0 \in Number /\ Number \subseteq Int /\ Null \notin Number
                    /\ CellValue = Number \cup {Null}
                    /\ \A c : \A v \in Number : Read(c, v) \in Number
<1>1. IntMin \in Int /\ IntMax \in Int /\ IntMin <= 0 /\ 0 <= IntMax
  BY LimitAssumption DEF IntMin
<1>2. 0 \in Number /\ Number \subseteq Int /\ CellValue = Number \cup {Null}
  BY <1>1 DEF Number, CellValue
<1>3. Null \notin Number
  BY <1>2, RowsAssumption
<1>4. QED
  BY <1>1, <1>2, <1>3 DEF Read

\* The rows' cells of column c, and which of them are not NULL.
CellsOf(s, c) == [p \in 1 .. Len(s) |-> s[p][c]]
Set(w, n) == {p \in 1 .. n : w[p] # Null}
SetIn(d, C, c) == {p \in C : d[p][c] # Null}

ColumnStep(vs, x) == IF x = Null THEN vs ELSE Append(vs, x)

LEMMA ColumnResult ==
  ASSUME NEW c, rows \in Seq([ColNos(Schema) -> CellValue]), c \in ColNos(Schema)
  PROVE  /\ Column(c) \in Seq(Number)
         /\ Dealt(Column(c), CellsOf(rows, c), Set(CellsOf(rows, c), Len(rows)))
<1> DEFINE n == Len(rows)
           F(f) == f = [u \in SUBSET (1 .. n) |-> IF u = {} THEN <<>>
                                                  ELSE ColumnStep(f[u \ {Max(u)}], rows[Max(u)][c])]
           it == CHOOSE f : F(f)
           w == CellsOf(rows, c)
<1>1. n \in Nat /\ DOMAIN rows = 1 .. n
  OBVIOUS
<1>2. \A p \in 1 .. n : rows[p][c] \in Number \cup {Null} /\ w[p] = rows[p][c]
  BY <1>1, CellNumbers DEF CellsOf
<1>3. Column(c) = it[1 .. n]
  BY <1>1 DEF Column, FoldLeft, MapThenFoldSet, ColumnStep
<1>4. F(it)
  <2> DEFINE step == [p \in 1 .. n |-> [v \in Seq(Number) |-> ColumnStep(v, rows[p][c])]]
  <2>1. \A p \in 1 .. n : \A v \in Seq(Number) :
           step[p][v] = ColumnStep(v, rows[p][c]) /\ step[p][v] \in Seq(Number)
    BY <1>2 DEF ColumnStep
  <2>2. <<>> \in Seq(Number)
    OBVIOUS
  <2> HIDE DEF step, n
  <2>3. SeqRecursive(n, Seq(Number), <<>>, step)
    BY <1>1, <2>1, <2>2, OverSequence
  <2>4. PICK f : /\ f \in [SUBSET (1 .. n) -> Seq(Number)]
                 /\ f = [u \in SUBSET (1 .. n) |-> IF u = {} THEN <<>> ELSE step[Max(u)][f[u \ {Max(u)}]]]
    BY <2>3 DEF SeqRecursive
  <2>5. \A u \in SUBSET (1 .. n) :
           u # {} => step[Max(u)][f[u \ {Max(u)}]] = ColumnStep(f[u \ {Max(u)}], rows[Max(u)][c])
    BY <1>1, <2>1, <2>4, MaxIn
  <2>6. F(f)
    BY <2>4, <2>5
  <2>7. QED
    BY <2>6
<1>5. it[{}] = <<>>
  BY <1>4
<1>6. ASSUME NEW m \in 1 .. n PROVE it[1 .. m] = ColumnStep(it[1 .. m - 1], rows[m][c])
  <2>1. m \in Nat \ {0} /\ m \in 1 .. m /\ \A u \in 1 .. m : u \in 1 .. n
    BY <1>1
  <2>2. 1 .. m \in SUBSET (1 .. n) /\ 1 .. m # {}
    BY <2>1
  <2>3. QED
    BY <1>4, <2>1, <2>2, MaxUpto
<1> HIDE DEF it, w
<1> DEFINE T == {m \in 0 .. n : it[1 .. m] \in Seq(Number) /\ Dealt(it[1 .. m], w, Set(w, m))}
<1>7. 0 \in T
  <2>1. 1 .. 0 = {} /\ Set(w, 0) = {}
    BY DEF Set
  <2>2. Enumerates(<<>>, Len(<<>>), {})
    BY DEF Enumerates
  <2>3. Dealt(<<>>, w, {})
    BY <2>2 DEF Dealt
  <2>4. 0 \in 0 .. n /\ it[1 .. 0] = <<>> /\ <<>> \in Seq(Number)
    BY <1>1, <1>5, <2>1
  <2>5. QED
    BY <2>1, <2>3, <2>4
<1>8. ASSUME NEW m \in 1 .. n, m - 1 \in T PROVE m \in T
  <2> DEFINE r == it[1 .. m - 1]
  <2>1. r \in Seq(Number) /\ Dealt(r, w, Set(w, m - 1)) /\ m \in 0 .. n
    BY <1>1, <1>8
  <2>2. \A p \in 1 .. m : p \in 1 .. m - 1 \/ p = m
    BY <1>1
  <2>3. m \notin 1 .. m - 1 /\ m \in 1 .. m /\ \A p \in 1 .. m - 1 : p \in 1 .. m
    BY <1>1
  <2>4. it[1 .. m] = ColumnStep(r, w[m]) /\ w[m] \in Number \cup {Null}
    BY <1>2, <1>6
  <2> HIDE DEF r, T
  <2>5. CASE w[m] = Null
    <3>1. Set(w, m) = Set(w, m - 1)
      BY <2>2, <2>3, <2>5 DEF Set
    <3>2. it[1 .. m] = r
      BY <2>4, <2>5 DEF ColumnStep
    <3>3. QED
      BY <2>1, <3>1, <3>2 DEF T
  <2>6. CASE w[m] # Null
    <3>1. Set(w, m) = Set(w, m - 1) \cup {m} /\ m \notin Set(w, m - 1)
      BY <2>2, <2>3, <2>6 DEF Set
    <3>2. it[1 .. m] = Append(r, w[m]) /\ w[m] \in Number
      BY <2>4, <2>6 DEF ColumnStep
    <3>3. Dealt(Append(r, w[m]), w, Set(w, m - 1) \cup {m})
      BY <2>1, <3>1, <3>2, DealtAppend
    <3>4. it[1 .. m] \in Seq(Number)
      BY <2>1, <3>2
    <3>5. QED
      BY <2>1, <3>1, <3>2, <3>3, <3>4 DEF T
  <2>7. QED
    BY <2>5, <2>6
<1>9. \A m \in 0 .. n : m \in T
  <2> HIDE DEF T, n
  <2>1. QED
    BY <1>1, <1>7, <1>8, Upwards
<1>10. n \in 0 .. n
  BY <1>1
<1>11. QED
  BY <1>3, <1>9, <1>10 DEF w

\* The column of a deal is a deal of the column.
LEMMA DealtThrough ==
  ASSUME NEW d, NEW C, C \subseteq 1 .. Len(d), NEW s, Dealt(s, d, C), Len(s) \in Nat, NEW c,
         NEW r, Dealt(r, CellsOf(s, c), Set(CellsOf(s, c), Len(s)))
  PROVE  Dealt(r, CellsOf(d, c), SetIn(d, C, c))
<1> DEFINE w == CellsOf(s, c)
           D == {p \in C : d[p][c] # Null}
<1>1. PICK f : Enumerates(f, Len(s), C) /\ \A a \in 1 .. Len(s) : s[a] = d[f[a]]
  BY DEF Dealt
<1>2. PICK g : Enumerates(g, Len(r), Set(w, Len(s))) /\ \A a \in 1 .. Len(r) : r[a] = w[g[a]]
  BY DEF Dealt
<1>3. \A a \in 1 .. Len(s) : w[a] = s[a][c] /\ f[a] \in C /\ s[a] = d[f[a]]
  BY <1>1 DEF CellsOf, Enumerates
<1>4. \A p \in C : CellsOf(d, c)[p] = d[p][c]
  BY DEF CellsOf
<1> DEFINE h == [a \in 1 .. Len(r) |-> f[g[a]]]
<1>5. \A a \in 1 .. Len(r) : h[a] = f[g[a]] /\ g[a] \in 1 .. Len(s) /\ w[g[a]] # Null
  BY <1>2 DEF Enumerates, Set
<1> HIDE DEF h, w
<1>6. \A a \in 1 .. Len(r) : h[a] \in D /\ r[a] = CellsOf(d, c)[h[a]]
  <2>1. TAKE a \in 1 .. Len(r)
  <2>2. r[a] = w[g[a]] /\ h[a] = f[g[a]] /\ g[a] \in 1 .. Len(s) /\ w[g[a]] # Null
    BY <1>2, <1>5
  <2>3. w[g[a]] = d[h[a]][c] /\ h[a] \in C
    BY <1>3, <2>2
  <2>4. QED
    BY <1>4, <2>2, <2>3
<1>7. \A a, b \in 1 .. Len(r) : h[a] = h[b] => a = b
  <2>1. TAKE a, b \in 1 .. Len(r)
  <2>2. HAVE h[a] = h[b]
  <2>3. f[g[a]] = f[g[b]] /\ g[a] \in 1 .. Len(s) /\ g[b] \in 1 .. Len(s)
    BY <1>5, <2>2
  <2>4. g[a] = g[b]
    <3>1. \A m, n \in 1 .. Len(s) : f[m] = f[n] => m = n
      BY <1>1 DEF Enumerates
    <3>2. QED
      BY <2>3, <3>1
  <2>5. QED
    BY <1>2, <2>4 DEF Enumerates
<1>8. ASSUME NEW p \in D PROVE \E a \in 1 .. Len(r) : h[a] = p
  <2>1. PICK b \in 1 .. Len(s) : f[b] = p
    BY <1>1 DEF Enumerates
  <2>2. b \in Set(w, Len(s))
    BY <2>1, <1>3 DEF Set
  <2>3. PICK a \in 1 .. Len(r) : g[a] = b
    BY <1>2, <2>2 DEF Enumerates
  <2>4. QED
    BY <1>5, <2>1, <2>3
<1>9. Len(r) \in Nat
  BY <1>2 DEF Enumerates
<1>10. Enumerates(h, Len(r), D)
  <2> HIDE DEF D
  <2>1. QED
    BY <1>6, <1>7, <1>8, <1>9 DEF Enumerates
<1>11. QED
  <2> HIDE DEF D
  <2>1. Dealt(r, CellsOf(d, c), D)
    BY <1>6, <1>10 DEF Dealt
  <2>2. QED
    BY <2>1 DEF D, SetIn

Modulus == 2 * (IntMax + 1)

LEMMA WrapMod ==
  ASSUME NEW n \in Int
  PROVE  Wrap(n) \in Number /\ \E k \in Int : Wrap(n) = n + k * Modulus
<1> DEFINE x == n - IntMin
           M == Modulus
<1>1. x \in Int /\ M \in Nat \ {0}
  BY CellNumbers, LimitAssumption DEF Modulus
<1>2. x % M \in 0 .. M - 1 /\ x = M * (x \div M) + (x % M) /\ x \div M \in Int
  <2> HIDE DEF x, M
  <2>1. QED
    BY <1>1
<1>3. Wrap(n) = (x % M) + IntMin
  BY DEF Wrap, Modulus
<1>4. Wrap(n) \in Number
  <2>1. IntMin + M - 1 = IntMax
    BY LimitAssumption DEF IntMin, Modulus
  <2> HIDE DEF x, M
  <2>2. QED
    BY <1>1, <1>2, <1>3, <2>1, CellNumbers DEF Number
<1>5. Wrap(n) = n - M * (x \div M)
  <2> DEFINE z == M * (x \div M)
             r == x % M
  <2>1. z \in Int /\ r \in Int /\ x = z + r
    <3> HIDE DEF x, M
    <3>1. QED
      BY <1>1, <1>2
  <2>2. Wrap(n) = r + IntMin /\ n - IntMin = z + r
    BY <1>3, <2>1
  <2> HIDE DEF z, r
  <2>3. Wrap(n) = n - z
    BY <2>1, <2>2, CellNumbers
  <2>4. QED
    BY <2>3 DEF z
<1>6. PICK k \in Int : k = -(x \div M)
  BY <1>2
<1>7. Wrap(n) = n + k * M
  <2> DEFINE e == x \div M
  <2>1. Wrap(n) = n - M * e /\ e \in Int /\ k = -e
    BY <1>2, <1>5, <1>6
  <2> HIDE DEF e, M
  <2>2. QED
    BY <1>1, <2>1
<1>8. QED
  BY <1>4, <1>7

\* Numbers that differ by a multiple of the modulus are the same.
LEMMA SameNumber ==
  ASSUME NEW a \in Number, NEW b \in Number, NEW k \in Int, a = b + k * Modulus
  PROVE  a = b
<1>1. /\ a \in Int /\ b \in Int /\ Modulus \in Nat \ {0}
      /\ a - b < Modulus /\ b - a < Modulus
  BY LimitAssumption, CellNumbers DEF Number, IntMin, Modulus
<1>2. CASE k = 0
  BY <1>1, <1>2
<1>3. CASE k >= 1
  <2>1. k * Modulus >= Modulus
    BY <1>1, <1>3
  <2>2. QED
    BY <1>1, <2>1
<1>4. CASE k <= -1
  <2>1. k * Modulus <= -Modulus
    BY <1>1, <1>4
  <2>2. QED
    BY <1>1, <2>1
<1>5. QED
  BY <1>2, <1>3, <1>4

LEMMA WrapSame ==
  ASSUME NEW n \in Number
  PROVE  Wrap(n) = n
<1>1. n \in Int
  BY CellNumbers
<1>2. PICK k \in Int : Wrap(n) = n + k * Modulus
  BY <1>1, WrapMod
<1>3. QED
  BY <1>1, <1>2, WrapMod, SameNumber

\* A sum may be wrapped as it grows.
LEMMA WrapAdds ==
  ASSUME NEW t \in Int, NEW v \in Int
  PROVE  Wrap(Wrap(t) + v) = Wrap(t + v)
<1>1. Modulus \in Int
  BY LimitAssumption DEF Modulus
<1>2. PICK k \in Int : Wrap(t) = t + k * Modulus
  BY WrapMod
<1>3. Wrap(t) + v \in Int
  BY <1>1, <1>2
<1>4. PICK l \in Int : Wrap(Wrap(t) + v) = Wrap(t) + v + l * Modulus
  BY <1>3, WrapMod
<1>5. PICK m \in Int : Wrap(t + v) = t + v + m * Modulus
  BY WrapMod
<1>6. k + l - m \in Int /\ Wrap(Wrap(t) + v) = Wrap(t + v) + (k + l - m) * Modulus
  BY <1>1, <1>2, <1>4, <1>5
<1>7. Wrap(Wrap(t) + v) \in Number /\ Wrap(t + v) \in Number
  BY <1>3, WrapMod
<1>8. QED
  BY <1>6, <1>7, SameNumber

TotalStep(c, sum, v) == IF Type(c) = "int" THEN Wrap(sum + Read(c, v)) ELSE 0

Totals(g, c, u) == /\ g[0] = 0 /\ \A m \in 1 .. Len(u) : g[m] = TotalStep(c, g[m - 1], u[m])
                   /\ \A m \in 0 .. Len(u) : g[m] \in Number
                   /\ Total(c) = g[Len(u)]

LEMMA TotalResult ==
  ASSUME NEW c, Used(c) \in Seq(Number)
  PROVE  \E g : Totals(g, c, Used(c))
<1> DEFINE s == Used(c)
           n == Len(s)
           F(f) == f = [u \in SUBSET (1 .. n) |-> IF u = {} THEN 0
                                                  ELSE TotalStep(c, f[u \ {Max(u)}], s[Max(u)])]
           it == CHOOSE f : F(f)
<1>1. n \in Nat /\ DOMAIN s = 1 .. n /\ \A p \in 1 .. n : s[p] \in Number
  OBVIOUS
<1>2. Total(c) = it[1 .. n]
  BY <1>1 DEF Total, FoldLeft, MapThenFoldSet, TotalStep
<1>3. \A v \in Number : \A x \in Number : TotalStep(c, v, x) \in Number
  <2>1. ASSUME NEW v \in Number, NEW x \in Number PROVE v + Read(c, x) \in Int
    <3>1. v \in Int /\ Read(c, x) \in Int
      BY CellNumbers
    <3>2. QED
      BY <3>1
  <2>2. QED
    BY <2>1, WrapMod, CellNumbers DEF TotalStep
<1> HIDE DEF s
<1>4. F(it)
  <2> DEFINE step == [p \in 1 .. n |-> [v \in Number |-> TotalStep(c, v, s[p])]]
  <2>1. \A p \in 1 .. n : \A v \in Number : step[p][v] = TotalStep(c, v, s[p]) /\ step[p][v] \in Number
    BY <1>1, <1>3
  <2> HIDE DEF step, n
  <2>3. SeqRecursive(n, Number, 0, step)
    BY <1>1, <2>1, CellNumbers, OverSequence
  <2>4. PICK f : /\ f \in [SUBSET (1 .. n) -> Number]
                 /\ f = [u \in SUBSET (1 .. n) |-> IF u = {} THEN 0 ELSE step[Max(u)][f[u \ {Max(u)}]]]
    BY <2>3 DEF SeqRecursive
  <2>5. \A u \in SUBSET (1 .. n) :
           u # {} => step[Max(u)][f[u \ {Max(u)}]] = TotalStep(c, f[u \ {Max(u)}], s[Max(u)])
    BY <1>1, <2>1, <2>4, MaxIn
  <2>6. F(f)
    BY <2>4, <2>5
  <2>7. QED
    BY <2>6
<1>5. it[{}] = 0
  BY <1>4
<1>6. ASSUME NEW m \in 1 .. n PROVE it[1 .. m] = TotalStep(c, it[1 .. m - 1], s[m])
  <2>1. m \in Nat \ {0} /\ m \in 1 .. m /\ \A u \in 1 .. m : u \in 1 .. n
    BY <1>1
  <2>2. 1 .. m \in SUBSET (1 .. n) /\ 1 .. m # {}
    BY <2>1
  <2>3. QED
    BY <1>4, <2>1, <2>2, MaxUpto
<1> HIDE DEF it
<1> DEFINE g == [m \in 0 .. n |-> it[1 .. m]]
           T == {m \in 0 .. n : g[m] \in Number}
<1>7. g[0] = 0 /\ g[n] = Total(c)
  <2>1. 1 .. 0 = {} /\ 0 \in 0 .. n /\ n \in 0 .. n
    BY <1>1
  <2>2. QED
    BY <1>2, <1>5, <2>1
<1>8. ASSUME NEW m \in 1 .. n PROVE g[m] = TotalStep(c, g[m - 1], s[m])
  <2>1. m \in 0 .. n /\ m - 1 \in 0 .. n
    BY <1>1
  <2>2. QED
    BY <1>6, <2>1
<1> HIDE DEF g
<1>9. \A m \in 0 .. n : m \in T
  <2>1. 0 \in T
    BY <1>1, <1>7, CellNumbers
  <2>2. ASSUME NEW m \in 1 .. n, m - 1 \in T PROVE m \in T
    BY <1>1, <1>3, <1>8, <2>2
  <2> HIDE DEF T, n
  <2>3. QED
    BY <1>1, <2>1, <2>2, Upwards
<1>10. Totals(g, c, s)
  BY <1>7, <1>8, <1>9 DEF Totals
<1>11. QED
  BY <1>10 DEF s

\* The wrapped sum is that of the true sum t.
LEMMA TotalIsWrapped ==
  ASSUME NEW c, Type(c) = "int", Used(c) \in Seq(Number), \A p \in DOMAIN Used(c) : Used(c)[p] # IntMin,
         NEW t, t[0] = 0, \A m \in 1 .. Len(Used(c)) : t[m] = t[m - 1] + Used(c)[m],
         \A m \in 0 .. Len(Used(c)) : t[m] \in Int
  PROVE  Total(c) = Wrap(t[Len(Used(c))])
<1> DEFINE s == Used(c)
           n == Len(s)
<1>1. n \in Nat /\ DOMAIN s = 1 .. n /\ \A p \in 1 .. n : s[p] \in Number /\ s[p] # IntMin
  OBVIOUS
<1>2. PICK g : Totals(g, c, s)
  BY TotalResult
<1>3. /\ t[0] = 0 /\ \A m \in 1 .. n : t[m] = t[m - 1] + s[m]
      /\ \A m \in 0 .. n : t[m] \in Int
  OBVIOUS
<1> HIDE DEF s, n
<1> DEFINE T == {m \in 0 .. n : g[m] = Wrap(t[m])}
<1>4. 0 \in T
  <2>1. Wrap(0) = 0
    BY CellNumbers, WrapSame
  <2>2. QED
    BY <1>1, <1>2, <1>3, <2>1 DEF Totals
<1>5. ASSUME NEW m \in 1 .. n, m - 1 \in T PROVE m \in T
  <2>1. m \in 0 .. n /\ m - 1 \in 0 .. n /\ g[m - 1] = Wrap(t[m - 1])
    BY <1>1, <1>5
  <2>2. g[m] = Wrap(g[m - 1] + s[m])
    BY <1>1, <1>2 DEF Totals, TotalStep, Read, n
  <2>3. t[m - 1] \in Int /\ s[m] \in Int /\ t[m] = t[m - 1] + s[m]
    BY <1>1, <1>3, <2>1, CellNumbers
  <2>4. g[m] = Wrap(t[m])
    BY <2>1, <2>2, <2>3, WrapAdds
  <2>5. QED
    BY <2>1, <2>4
<1>6. \A m \in 0 .. n : m \in T
  <2> HIDE DEF T
  <2>1. QED
    BY <1>1, <1>4, <1>5, Upwards
<1>7. n \in 0 .. n
  BY <1>1
<1>8. QED
  BY <1>2, <1>6, <1>7 DEF Totals, s, n

Better(n, best) == (q.agg = "max" /\ n > best) \/ (q.agg = "min" /\ n < best)
ExtremumStep(c, best, v) == LET n == Read(c, v)
                            IN  IF best = Null THEN n
                                ELSE IF (q.agg = "max" /\ n > best) \/ (q.agg = "min" /\ n < best) THEN n
                                ELSE best

\* b is one of the first m numbers of s, and none of them is better.
BestOf(b, s, m) == \/ m = 0 /\ b = Null
                   \/ /\ \E p \in 1 .. m : s[p] = b
                      /\ \A p \in 1 .. m : ~Better(s[p], b)

ExtremumIs(c, s) == /\ Extremum(c) \in Number \cup {Null}
                    /\ (\A p \in 1 .. Len(s) : Read(c, s[p]) = s[p]) => BestOf(Extremum(c), s, Len(s))

LEMMA ExtremumResult ==
  ASSUME NEW c, Column(c) \in Seq(Number)
  PROVE  ExtremumIs(c, Column(c))
<1> DEFINE s == Column(c)
           n == Len(s)
           V == Number \cup {Null}
           F(f) == f = [u \in SUBSET (1 .. n) |-> IF u = {} THEN Null
                                                  ELSE ExtremumStep(c, f[u \ {Max(u)}], s[Max(u)])]
           it == CHOOSE f : F(f)
<1>1. n \in Nat /\ DOMAIN s = 1 .. n /\ \A p \in 1 .. n : s[p] \in Number
  OBVIOUS
<1>14. \A p \in 1 .. n : s[p] \in Int /\ s[p] # Null
  BY <1>1, CellNumbers
<1>2. \A v \in V : \A x \in Number : ExtremumStep(c, v, x) \in V
  BY CellNumbers DEF ExtremumStep
<1>3. Extremum(c) = it[1 .. n]
  BY <1>1 DEF Extremum, FoldLeft, MapThenFoldSet, ExtremumStep
<1> HIDE DEF s
<1>4. F(it)
  <2> DEFINE step == [p \in 1 .. n |-> [v \in V |-> ExtremumStep(c, v, s[p])]]
  <2>1. \A p \in 1 .. n : \A v \in V : step[p][v] = ExtremumStep(c, v, s[p]) /\ step[p][v] \in V
    BY <1>1, <1>2
  <2>2. Null \in V
    OBVIOUS
  <2> HIDE DEF step, n, V
  <2>3. SeqRecursive(n, V, Null, step)
    BY <1>1, <2>1, <2>2, OverSequence
  <2>4. PICK f : /\ f \in [SUBSET (1 .. n) -> V]
                 /\ f = [u \in SUBSET (1 .. n) |-> IF u = {} THEN Null ELSE step[Max(u)][f[u \ {Max(u)}]]]
    BY <2>3 DEF SeqRecursive
  <2>5. \A u \in SUBSET (1 .. n) :
           u # {} => step[Max(u)][f[u \ {Max(u)}]] = ExtremumStep(c, f[u \ {Max(u)}], s[Max(u)])
    BY <1>1, <2>1, <2>4, MaxIn
  <2>6. F(f)
    BY <2>4, <2>5
  <2>7. QED
    BY <2>6
<1>5. it[{}] = Null
  BY <1>4
<1>6. ASSUME NEW m \in 1 .. n PROVE it[1 .. m] = ExtremumStep(c, it[1 .. m - 1], s[m])
  <2>1. m \in Nat \ {0} /\ m \in 1 .. m /\ \A u \in 1 .. m : u \in 1 .. n
    BY <1>1
  <2>2. 1 .. m \in SUBSET (1 .. n) /\ 1 .. m # {}
    BY <2>1
  <2>3. QED
    BY <1>4, <2>1, <2>2, MaxUpto
<1> HIDE DEF it, n
<1>7. 0 \in 0 .. n /\ n \in 0 .. n /\ 1 .. 0 = {} /\ it[1 .. 0] = Null
  BY <1>1, <1>5
<1> DEFINE T == {m \in 0 .. n : it[1 .. m] \in V}
           B == {m \in 0 .. n : it[1 .. m] \in V /\ BestOf(it[1 .. m], s, m)}
<1>8. \A m \in 0 .. n : m \in T
  <2>1. 0 \in T
    BY <1>7
  <2>2. ASSUME NEW m \in 1 .. n, m - 1 \in T PROVE m \in T
    <3>1. m \in 0 .. n /\ m - 1 \in 0 .. n /\ it[1 .. m - 1] \in V /\ s[m] \in Number
      BY <1>1, <2>2
    <3>2. it[1 .. m] = ExtremumStep(c, it[1 .. m - 1], s[m])
      BY <1>6
    <3> HIDE DEF V
    <3>3. it[1 .. m] \in V
      BY <1>2, <3>1, <3>2
    <3>4. QED
      BY <3>1, <3>3
  <2> HIDE DEF T
  <2>3. QED
    BY <1>1, <2>1, <2>2, Upwards
<1>9. ASSUME \A p \in 1 .. n : Read(c, s[p]) = s[p] PROVE \A m \in 0 .. n : m \in B
  <2>1. 0 \in B
    BY <1>7 DEF BestOf
  <2>2. ASSUME NEW m \in 1 .. n, m - 1 \in B PROVE m \in B
    <3> DEFINE b == it[1 .. m - 1]
               x == s[m]
    <3>1. m \in 0 .. n /\ m \in 1 .. m /\ m - 1 \in 0 .. n /\ x \in Number /\ x \in Int
          /\ \A p \in 1 .. m - 1 : p \in 1 .. m /\ s[p] \in Int /\ s[p] # Null
      BY <1>1, <1>14
    <3>2. \A p \in 1 .. m : p \in 1 .. m - 1 \/ p = m
      BY <1>1
    <3>3. b \in V /\ BestOf(b, s, m - 1) /\ it[1 .. m] \in V
      BY <1>8, <2>2, <3>1
    <3>4. it[1 .. m] = IF b = Null \/ Better(x, b) THEN x ELSE b
      BY <1>6, <1>9 DEF ExtremumStep, Better
    <3> HIDE DEF b, x
    <3>5. CASE b = Null
      <4>1. m - 1 = 0
        <5>1. \A p \in 1 .. m - 1 : s[p] # b
          BY <3>1, <3>5
        <5>2. QED
          BY <3>3, <5>1 DEF BestOf
      <4>2. \A p \in 1 .. m : p = m
        BY <3>1, <4>1
      <4>3. it[1 .. m] = x /\ ~Better(x, x)
        BY <3>1, <3>4, <3>5 DEF Better
      <4>4. BestOf(it[1 .. m], s, m)
        BY <3>1, <4>2, <4>3 DEF BestOf, x
      <4>5. QED
        BY <3>1, <3>3, <4>4
    <3>6. CASE b # Null
      <4>1. PICK o \in 1 .. m - 1 : s[o] = b
        BY <3>3, <3>6 DEF BestOf
      <4>2. b \in Int /\ \A p \in 1 .. m - 1 : ~Better(s[p], b)
        BY <3>1, <3>3, <3>6, <4>1 DEF BestOf
      <4>3. CASE Better(x, b)
        <5>1. it[1 .. m] = x
          BY <3>4, <4>3
        <5>2. \A p \in 1 .. m - 1 : ~Better(s[p], x)
          BY <3>1, <4>2, <4>3 DEF Better
        <5>3. ~Better(x, x)
          BY <3>1 DEF Better
        <5>4. BestOf(x, s, m)
          BY <3>1, <3>2, <5>2, <5>3 DEF BestOf, x
        <5>5. QED
          BY <3>1, <3>3, <5>1, <5>4
      <4>4. CASE ~Better(x, b)
        <5>1. it[1 .. m] = b
          BY <3>4, <3>6, <4>4
        <5>2. BestOf(b, s, m)
          BY <3>1, <3>2, <4>1, <4>2, <4>4 DEF BestOf, x
        <5>3. QED
          BY <3>1, <3>3, <5>1, <5>2
      <4>5. QED
        BY <4>3, <4>4
    <3>7. QED
      BY <3>5, <3>6
  <2> HIDE DEF B
  <2>3. QED
    BY <1>1, <2>1, <2>2, Upwards
<1>10. Extremum(c) \in V
  BY <1>3, <1>7, <1>8 DEF n
<1>11. (\A p \in 1 .. n : Read(c, s[p]) = s[p]) => BestOf(Extremum(c), s, n)
  BY <1>3, <1>7, <1>9 DEF n
<1>12. ExtremumIs(c, s)
  BY <1>10, <1>11 DEF ExtremumIs, n
<1>13. QED
  BY <1>12 DEF s

(***************************************************************************)
(* The sums a query means, over sets in no order, are those of a list.     *)
(***************************************************************************)

\* t adds up u.
Adding(t, u) == /\ t[0] = 0 /\ \A m \in 1 .. Len(u) : t[m] = t[m - 1] + u[m]
                /\ \A m \in 0 .. Len(u) : t[m] \in Int

LEMMA SumExists ==
  ASSUME NEW u \in Seq(Int)
  PROVE  \E t : Adding(t, u)
<1> DEFINE n == Len(u)
           step == [m \in 1 .. n |-> [v \in Int |-> v + u[m]]]
           Z == Int
<1>1. n \in Nat /\ \A m \in 1 .. n : u[m] \in Int
  OBVIOUS
<1>2. step \in [1 .. n -> [Int -> Int]]
  BY <1>1
<1>3. \A m \in 1 .. n : \A v \in Int : step[m][v] = v + u[m]
  OBVIOUS
<1> HIDE DEF step, n
<1>4. Recursive(Z, 0, n, step)
  <2>1. 0 \in Z /\ step \in [1 .. n -> [Z -> Z]]
    BY <1>2
  <2> HIDE DEF Z
  <2>2. QED
    BY <1>1, <2>1, Iterates
<1>5. PICK t \in [0 .. n -> Int] : t[0] = 0 /\ \A m \in 1 .. n : t[m] = step[m][t[m - 1]]
  BY <1>4 DEF Recursive
<1>6. \A m \in 1 .. n : m - 1 \in 0 .. n
  BY <1>1
<1>7. \A m \in 1 .. n : t[m] = t[m - 1] + u[m]
  BY <1>3, <1>5, <1>6
<1>8. \A m \in 0 .. n : t[m] \in Int
  BY <1>5
<1>9. Adding(t, u)
  BY <1>5, <1>7, <1>8 DEF Adding, n
<1>10. QED
  BY <1>9

\* The sum over a set, of weights w, is that of any list of it.
WeightFold(f, D, w) ==
    f = [s \in SUBSET D |-> IF s = {} THEN 0
                            ELSE w[CHOOSE x \in s : TRUE] + f[s \ {CHOOSE x \in s : TRUE}]]

LEMMA WeightFoldExists ==
  ASSUME NEW D, IsFiniteSet(D), NEW w, \A x \in D : w[x] \in Int
  PROVE  \E f : WeightFold(f, D, w)
<1> DEFINE pick == [s \in SUBSET D |-> CHOOSE x \in s : TRUE]
           step == [x \in D |-> [v \in Int |-> w[x] + v]]
           Z == Int
<1>1. /\ \A s \in SUBSET D : pick[s] = (CHOOSE x \in s : TRUE) /\ (s # {} => pick[s] \in s)
      /\ \A x \in D : \A v \in Z : step[x][v] = w[x] + v /\ step[x][v] \in Z
      /\ 0 \in Z
  OBVIOUS
<1> HIDE DEF pick, step, Z
<1>2. SetRecursive(D, Z, 0, pick, step)
  BY <1>1, OverSubsets
<1>3. PICK f : f \in [SUBSET D -> Z] /\ f = SetStep(f, D, 0, pick, step)
  BY <1>2 DEF SetRecursive
<1>4. ASSUME NEW s \in SUBSET D, s # {}
      PROVE  step[pick[s]][f[s \ {pick[s]}]] = w[CHOOSE x \in s : TRUE] + f[s \ {CHOOSE x \in s : TRUE}]
  <2>1. pick[s] \in D /\ f[s \ {pick[s]}] \in Z /\ pick[s] = (CHOOSE x \in s : TRUE)
    BY <1>1, <1>3, <1>4
  <2>2. step[pick[s]][f[s \ {pick[s]}]] = w[pick[s]] + f[s \ {pick[s]}]
    BY <1>1, <2>1
  <2>3. QED
    BY <2>1, <2>2
<1>5. f = [s \in SUBSET D |-> IF s = {} THEN 0
                              ELSE w[CHOOSE x \in s : TRUE] + f[s \ {CHOOSE x \in s : TRUE}]]
  BY <1>3, <1>4 DEF SetStep
<1>6. QED
  BY <1>5 DEF WeightFold

LEMMA WeightFoldAdds ==
  ASSUME NEW D, IsFiniteSet(D), NEW w, \A x \in D : w[x] \in Int, NEW f, WeightFold(f, D, w),
         NEW e, NEW u, Enumerates(e, Len(u), D), \A m \in 1 .. Len(u) : u[m] = w[e[m]],
         NEW t, Adding(t, u)
  PROVE  f[D] = t[Len(u)]
<1>1. f[{}] = 0
  BY DEF WeightFold
<1>2. ASSUME NEW s \in SUBSET D, s # {} PROVE \E x \in s : f[s] = w[x] + f[s \ {x}]
  <2>1. PICK y : y = (CHOOSE x \in s : TRUE)
    OBVIOUS
  <2>2. y \in s
    BY <1>2, <2>1
  <2>3. f[s] = w[y] + f[s \ {y}]
    BY <1>2, <2>1 DEF WeightFold
  <2>4. QED
    BY <2>2, <2>3
<1>3. Sums(f, D, w)
  BY <1>1, <1>2, AddsUp
<1>4. t[0] = 0 /\ \A m \in 1 .. Len(u) : t[m] = t[m - 1] + w[e[m]]
  BY DEF Adding
<1> DEFINE n == Len(u)
<1> HIDE DEF n
<1>5. Enumerates(e, n, D) /\ t[0] = 0 /\ \A m \in 1 .. n : t[m] = t[m - 1] + w[e[m]]
  BY <1>4 DEF n
<1>6. t[n] = f[D]
  BY <1>1, <1>3, <1>5, RunningSum
<1>7. QED
  BY <1>6 DEF n

LEMMA SumIsAdded ==
  ASSUME NEW D, IsFiniteSet(D), D \subseteq Int, NEW u, Enumerates(u, Len(u), D), NEW t, Adding(t, u)
  PROVE  SumOf(D) = t[Len(u)]
<1> DEFINE F(f) == f = [s \in SUBSET D |-> IF s = {} THEN 0
                                           ELSE (CHOOSE x \in s : TRUE) + f[s \ {CHOOSE x \in s : TRUE}]]
           it == CHOOSE f : F(f)
           w == [x \in D |-> x]
<1>1. SumOf(D) = it[D]
  BY DEF SumOf, FoldSet, MapThenFoldSet
<1>2. \A x \in D : w[x] = x /\ w[x] \in Int
  OBVIOUS
<1> HIDE DEF w
<1>3. \A s \in SUBSET D : s # {} => w[CHOOSE x \in s : TRUE] = (CHOOSE x \in s : TRUE)
  <2>1. \A s \in SUBSET D : s # {} => (CHOOSE x \in s : TRUE) \in D
    OBVIOUS
  <2>2. QED
    BY <1>2, <2>1
<1>4. \A f : WeightFold(f, D, w) <=> F(f)
  BY <1>3 DEF WeightFold
<1>5. WeightFold(it, D, w)
  <2>1. \E f : WeightFold(f, D, w)
    BY <1>2, WeightFoldExists
  <2> HIDE DEF F
  <2>2. F(it)
    BY <1>4, <2>1
  <2>3. QED
    BY <1>4, <2>2
<1> HIDE DEF it
<1>6. \A m \in 1 .. Len(u) : u[m] = w[u[m]]
  BY <1>2 DEF Enumerates
<1>7. it[D] = t[Len(u)]
  BY <1>2, <1>5, <1>6, WeightFoldAdds
<1>8. QED
  BY <1>1, <1>7

LEMMA SecondIsAdded ==
  ASSUME NEW D, IsFiniteSet(D), \A x \in D : x[2] \in Int, NEW e, NEW u, Enumerates(e, Len(u), D),
         \A m \in 1 .. Len(u) : u[m] = e[m][2], NEW t, Adding(t, u)
  PROVE  SumOfCells(D) = t[Len(u)]
<1> DEFINE F(f) == f = [s \in SUBSET D |-> IF s = {} THEN 0
                                           ELSE (CHOOSE x \in s : TRUE)[2] + f[s \ {CHOOSE x \in s : TRUE}]]
           it == CHOOSE f : F(f)
           w == [x \in D |-> x[2]]
<1>1. SumOfCells(D) = it[D]
  BY DEF SumOfCells, FoldSet, MapThenFoldSet
<1>2. \A x \in D : w[x] = x[2] /\ w[x] \in Int
  OBVIOUS
<1> HIDE DEF w
<1>3. \A s \in SUBSET D : s # {} => w[CHOOSE x \in s : TRUE] = (CHOOSE x \in s : TRUE)[2]
  <2>1. \A s \in SUBSET D : s # {} => (CHOOSE x \in s : TRUE) \in D
    OBVIOUS
  <2>2. QED
    BY <1>2, <2>1
<1>4. \A f : WeightFold(f, D, w) <=> F(f)
  BY <1>3 DEF WeightFold
<1>5. WeightFold(it, D, w)
  <2>1. \E f : WeightFold(f, D, w)
    BY <1>2, WeightFoldExists
  <2> HIDE DEF F
  <2>2. F(it)
    BY <1>4, <2>1
  <2>3. QED
    BY <1>4, <2>2
<1> HIDE DEF it
<1>6. \A m \in 1 .. Len(u) : u[m] = w[e[m]]
  BY <1>2 DEF Enumerates
<1>7. it[D] = t[Len(u)]
  BY <1>2, <1>5, <1>6, WeightFoldAdds
<1>8. QED
  BY <1>1, <1>7

(***************************************************************************)
(* The rows answered.                                                      *)
(***************************************************************************)

Cut(kept, limit) == IF limit # <<>> /\ limit[1] < Len(kept) THEN SubSeq(kept, 1, limit[1]) ELSE kept

LEMMA UptoSize ==
  ASSUME NEW n \in Nat
  PROVE  IsFiniteSet(1 .. n) /\ Cardinality(1 .. n) = n
  BY FS_Interval

LEMMA CutPlaces ==
  ASSUME NEW S, NEW kept \in Seq(S), NEW limit \in Seq(Nat)
  PROVE  /\ DOMAIN Cut(kept, limit) = 1 .. Len(Cut(kept, limit))
         /\ Len(Cut(kept, limit)) \in 0 .. Len(kept)
         /\ Len(Cut(kept, limit)) = IF limit # <<>> THEN Least(limit[1], Len(kept)) ELSE Len(kept)
         /\ \A p \in 1 .. Len(Cut(kept, limit)) : Cut(kept, limit)[p] = kept[p]
<1>1. Len(kept) \in Nat /\ DOMAIN kept = 1 .. Len(kept)
  OBVIOUS
<1>2. CASE limit # <<>> /\ limit[1] < Len(kept)
  <2>1. limit[1] \in Nat
    BY <1>2, FirstElement
  <2>2. Cut(kept, limit) = SubSeq(kept, 1, limit[1])
    BY <1>2 DEF Cut
  <2>3. QED
    BY <1>1, <1>2, <2>1, <2>2 DEF Least
<1>3. CASE ~(limit # <<>> /\ limit[1] < Len(kept))
  BY <1>1, <1>3 DEF Cut, Least
<1>4. QED
  BY <1>2, <1>3

\* Rows with these cells, shown so: alike as cells when they are shown alike.
Shows(cells, shown) ==
    /\ DOMAIN cells = DOMAIN shown
    /\ \A r, t \in DOMAIN shown : shown[r] = shown[t] <=> cells[r] = cells[t]

\* Without DISTINCT the rows shown are cut.
LEMMA CutAll ==
  ASSUME NEW S, NEW shown \in Seq(S), NEW cells, DOMAIN cells = DOMAIN shown, NEW limit \in Seq(Nat)
  PROVE  RightRows(Cut(shown, limit), cells, shown, FALSE, limit)
<1> DEFINE n == Len(shown)
           a == Cut(shown, limit)
           K == {r \in DOMAIN cells : FALSE => \A t \in 1 .. r - 1 : cells[t] # cells[r]}
<1>1. n \in Nat /\ DOMAIN shown = 1 .. n /\ K = 1 .. n
  OBVIOUS
<1>2. /\ Len(a) \in 0 .. n
      /\ Len(a) = IF limit # <<>> THEN Least(limit[1], n) ELSE n
      /\ \A p \in 1 .. Len(a) : a[p] = shown[p]
  BY CutPlaces
<1> HIDE DEF n, a, K
<1>3. Cardinality(K) = n
  BY <1>1, UptoSize
<1>4. ASSUME NEW r \in K PROVE Cardinality({t \in K : t <= r}) = r /\ r \in Nat \ {0}
  <2>1. r \in Nat \ {0} /\ {t \in K : t <= r} = 1 .. r
    BY <1>1
  <2>2. QED
    BY <2>1, UptoSize
<1>5. ASSUME NEW r \in K, r <= Len(a) PROVE a[r] = shown[r]
  <2>1. r \in 1 .. Len(a)
    BY <1>1, <1>2, <1>4, <1>5
  <2>2. QED
    BY <1>2, <2>1
<1>6. QED
  BY <1>2, <1>3, <1>4, <1>5 DEF RightRows, K, a

\* With DISTINCT those are cut whose cells occur first.
LEMMA CutFirsts ==
  ASSUME NEW S, NEW shown \in Seq(S), NEW cells, Shows(cells, shown), NEW limit \in Seq(Nat)
  PROVE  RightRows(Cut(Firsts(shown), limit), cells, shown, TRUE, limit)
<1> DEFINE n    == Len(shown)
           kept == Firsts(shown)
           a    == Cut(kept, limit)
           K    == {r \in DOMAIN cells : TRUE => \A t \in 1 .. r - 1 : cells[t] # cells[r]}
<1>1. n \in Nat /\ DOMAIN shown = 1 .. n /\ DOMAIN cells = 1 .. n
  BY DEF Shows
<1>2. kept \in Seq(S) /\ Different(kept, shown, n)
  BY FirstsResult
<1> HIDE DEF kept
<1>3. /\ Len(a) \in 0 .. Len(kept) /\ Len(kept) \in Nat
      /\ Len(a) = IF limit # <<>> THEN Least(limit[1], Len(kept)) ELSE Len(kept)
      /\ \A p \in 1 .. Len(a) : a[p] = kept[p]
  BY <1>2, CutPlaces
<1> DEFINE m == Len(kept)
<1>4. PICK e : /\ \A b \in 1 .. m : /\ e[b] \in 1 .. n /\ shown[e[b]] = kept[b]
                                    /\ \A o \in 1 .. e[b] - 1 : shown[o] # kept[b]
               /\ \A b, c \in 1 .. m : b < c => e[b] < e[c]
               /\ \A p \in 1 .. n : \E b \in 1 .. m : kept[b] = shown[p]
  BY <1>2 DEF Different
<1>5. K = {r \in 1 .. n : \A t \in 1 .. r - 1 : shown[t] # shown[r]}
  <2>1. \A r \in 1 .. n : \A t \in 1 .. r - 1 : t \in 1 .. n
    BY <1>1
  <2> HIDE DEF n
  <2>2. \A r \in 1 .. n : \A t \in 1 .. r - 1 : shown[t] # shown[r] <=> cells[t] # cells[r]
    BY <1>1, <2>1 DEF Shows
  <2>3. QED
    BY <1>1, <2>2
<1> HIDE DEF n, a, K, m
<1>6. ASSUME NEW b \in 1 .. m PROVE e[b] \in K /\ e[b] \in Nat
  <2>1. e[b] \in 1 .. n /\ shown[e[b]] = kept[b] /\ \A o \in 1 .. e[b] - 1 : shown[o] # kept[b]
    BY <1>4
  <2>2. e[b] \in Nat
    BY <1>1, <2>1
  <2>3. QED
    BY <1>5, <2>1, <2>2
<1>7. \A b, c \in 1 .. m : (e[b] = e[c] => b = c) /\ (e[c] <= e[b] => c <= b)
  <2>1. TAKE b, c \in 1 .. m
  <2>2. b \in Nat /\ c \in Nat /\ e[b] \in Nat /\ e[c] \in Nat
    BY <1>3, <1>6 DEF m
  <2>3. (b < c => e[b] < e[c]) /\ (c < b => e[c] < e[b])
    BY <1>4
  <2>4. QED
    BY <2>2, <2>3
<1>8. ASSUME NEW r \in K PROVE \E b \in 1 .. m : e[b] = r
  <2>1. r \in 1 .. n /\ \A t \in 1 .. r - 1 : shown[t] # shown[r]
    BY <1>5
  <2>2. PICK b \in 1 .. m : kept[b] = shown[r]
    BY <1>4, <2>1
  <2>3. /\ e[b] \in 1 .. n /\ shown[e[b]] = shown[r]
        /\ \A o \in 1 .. e[b] - 1 : shown[o] # shown[r]
    BY <1>4, <2>2
  <2>4. ~(e[b] < r)
    <3>1. e[b] < r => e[b] \in 1 .. r - 1
      BY <1>1, <2>1, <2>3
    <3>2. QED
      BY <2>1, <2>3, <3>1
  <2>5. ~(r < e[b])
    <3>1. r < e[b] => r \in 1 .. e[b] - 1
      BY <1>1, <2>1, <2>3
    <3>2. QED
      BY <2>3, <3>1
  <2>6. QED
    BY <1>1, <2>1, <2>3, <2>4, <2>5
<1>9. Cardinality(K) = m
  <2>1. Enumerates(e, m, K)
    BY <1>3, <1>6, <1>7, <1>8 DEF Enumerates, m
  <2>2. QED
    BY <2>1, ListedSize
<1>10. ASSUME NEW b \in 1 .. m PROVE Cardinality({t \in K : t <= e[b]}) = b
  <2> DEFINE D == {t \in K : t <= e[b]}
  <2>1. b \in Nat /\ m \in Nat /\ \A c \in 1 .. b : c \in 1 .. m /\ (c < b \/ c = b)
    BY <1>3 DEF m
  <2>2. ASSUME NEW c \in 1 .. b PROVE e[c] \in D
    <3>1. c < b => e[c] < e[b]
      BY <1>4, <2>1
    <3>2. e[c] <= e[b]
      BY <1>6, <2>1, <3>1
    <3>3. QED
      BY <1>6, <2>1, <3>2
  <2>3. ASSUME NEW t \in D PROVE \E c \in 1 .. b : e[c] = t
    <3>1. PICK c \in 1 .. m : e[c] = t
      BY <1>8
    <3>2. c <= b
      BY <1>7, <3>1
    <3>3. QED
      BY <2>1, <3>1, <3>2
  <2> HIDE DEF D
  <2>4. Enumerates(e, b, D)
    BY <1>7, <2>1, <2>2, <2>3 DEF Enumerates
  <2>5. QED
    BY <2>4, ListedSize DEF D
<1>11. ASSUME NEW r \in K, Cardinality({t \in K : t <= r}) <= Len(a)
       PROVE  a[Cardinality({t \in K : t <= r})] = shown[r]
  <2>1. PICK b \in 1 .. m : e[b] = r
    BY <1>8
  <2>2. Cardinality({t \in K : t <= r}) = b
    BY <1>10, <2>1
  <2>3. b \in 1 .. Len(a)
    BY <1>3, <1>11, <2>2 DEF m
  <2>4. a[b] = kept[b] /\ shown[e[b]] = kept[b]
    BY <1>3, <1>4, <2>3
  <2>5. QED
    BY <2>1, <2>2, <2>4
<1>12. Len(a) = IF limit # <<>> THEN Least(limit[1], m) ELSE m
  BY <1>3 DEF m
<1>13. RightRows(a, cells, shown, TRUE, limit)
  BY <1>9, <1>11, <1>12 DEF RightRows, K
<1>14. QED
  BY <1>13 DEF a, kept

\* Rows are shown alike when the cells asked for are alike, if NULL stands out.
LEMMA ShownAlike ==
  ASSUME SelectInv, NullStandsOut
  PROVE  Shows([r \in DOMAIN rows |-> Asked(rows[r])], [r \in DOMAIN rows |-> Projected(rows[r])])
<1>1. q.cols \in Seq(Int)
  BY QueriesAssumption DEF SelectInv, TypeInv
<1>2. \A r \in DOMAIN rows : \E d \in DOMAIN data : rows[r] = data[d]
  BY DEF SelectInv, TypeInv, Kept
<1>3. \A p \in DOMAIN q.cols : q.cols[p] \in ToSet(q.cols)
  BY <1>1 DEF ToSet
<1>4. ASSUME NEW r \in DOMAIN rows, NEW t \in DOMAIN rows
      PROVE  Projected(rows[r]) = Projected(rows[t]) <=> Asked(rows[r]) = Asked(rows[t])
  <2>1. PICK d \in DOMAIN data : rows[r] = data[d]
    BY <1>2
  <2>2. PICK f \in DOMAIN data : rows[t] = data[f]
    BY <1>2
  <2>3. ASSUME NEW p \in DOMAIN q.cols
        PROVE  Printed(q.cols[p], data[d][q.cols[p]]) = Printed(q.cols[p], data[f][q.cols[p]])
                  <=> data[d][q.cols[p]] = data[f][q.cols[p]]
    <3> DEFINE c == q.cols[p]
    <3>1. /\ Type(c) = "text" /\ data[d][c] = Null => data[f][c] # NullText
          /\ Type(c) = "text" /\ data[f][c] = Null => data[d][c] # NullText
      BY <1>3 DEF NullStandsOut
    <3> HIDE DEF c
    <3>2. Printed(c, data[d][c]) = Printed(c, data[f][c]) <=> data[d][c] = data[f][c]
      BY <3>1 DEF Printed
    <3>3. QED
      BY <3>2 DEF c
  <2>4. Projected(data[d]) = Projected(data[f]) <=>
           \A p \in DOMAIN q.cols :
              Printed(q.cols[p], data[d][q.cols[p]]) = Printed(q.cols[p], data[f][q.cols[p]])
    BY DEF Projected
  <2>5. Asked(data[d]) = Asked(data[f]) <=>
           \A p \in DOMAIN q.cols : data[d][q.cols[p]] = data[f][q.cols[p]]
    BY DEF Asked
  <2>6. QED
    BY <2>1, <2>2, <2>3, <2>4, <2>5
<1>5. QED
  BY <1>4 DEF Shows

LEMMA ProjectAnswers == SelectInv /\ PickInv /\ Project => RowsAnswered'
<1> SUFFICES ASSUME SelectInv, PickInv, Project PROVE RowsAnswered'
  OBVIOUS
<1> DEFINE cells == [r \in DOMAIN rows |-> Asked(rows[r])]
           shown == [r \in DOMAIN rows |-> Projected(rows[r])]
           S == {shown[r] : r \in DOMAIN rows}
           kept == IF q.distinct THEN Firsts(shown) ELSE shown
<1>1. /\ pc = "answer" /\ UNCHANGED <<q, data, rows>>
      /\ out' = [out EXCEPT !.rows = Cut(kept, q.limit)]
  BY DEF Project, Cut
<1>2. out = [rc |-> 0, rows |-> <<>>, val |-> Null]
  BY <1>1 DEF PickInv
<1>3. out'.rows = Cut(kept, q.limit)
  BY <1>1, <1>2
<1>4. shown \in Seq(S) /\ DOMAIN cells = DOMAIN shown
  <2>1. Len(rows) \in Nat /\ DOMAIN rows = 1 .. Len(rows)
    BY DEF SelectInv, TypeInv
  <2>2. QED
    BY <2>1
<1>5. q.limit \in Seq(Nat) /\ q.distinct \in BOOLEAN
  BY QueriesAssumption DEF SelectInv, TypeInv
<1>6. (q.distinct => NullStandsOut) => RightRows(Cut(kept, q.limit), cells, shown, q.distinct, q.limit)
  <2>1. NullStandsOut => Shows(cells, shown)
    BY ShownAlike
  <2> HIDE DEF cells, shown, S
  <2>2. RightRows(Cut(shown, q.limit), cells, shown, FALSE, q.limit)
    BY <1>4, <1>5, CutAll
  <2>3. NullStandsOut => RightRows(Cut(Firsts(shown), q.limit), cells, shown, TRUE, q.limit)
    BY <1>4, <1>5, <2>1, CutFirsts
  <2>4. CASE q.distinct = TRUE
    BY <2>3, <2>4
  <2>5. CASE q.distinct = FALSE
    BY <2>2, <2>5
  <2>6. QED
    BY <1>5, <2>4, <2>5
<1>7. /\ [r \in DOMAIN rows' |-> Asked(rows[r])'] = cells
      /\ [r \in DOMAIN rows' |-> Projected(rows[r])'] = shown
  BY <1>1 DEF Asked, Projected
<1>8. NullStandsOut' = NullStandsOut
  BY <1>1 DEF NullStandsOut, Type
<1> HIDE DEF cells, shown, kept
<1>9. QED
  BY <1>1, <1>3, <1>6, <1>7, <1>8 DEF RowsAnswered, RowsRight

(***************************************************************************)
(* The aggregates.                                                         *)
(***************************************************************************)

OnCol == q.on[1]

\* The positions of the chosen rows whose cell is not NULL.
Given == SetIn(data, Chosen, OnCol)

\* What an aggregate is made from.
UsedRight ==
    /\ OnCol \in ColNos(Schema) /\ (q.agg # "count" => Type(OnCol) \in {"int", "text"})
    /\ Column(OnCol) \in Seq(Number) /\ Used(OnCol) \in Seq(Number) /\ Len(Used(OnCol)) <= RowLimit
    /\ Dealt(Column(OnCol), CellsOf(data, OnCol), Given)
    /\ IF q.distinct THEN Enumerates(Used(OnCol), Len(Used(OnCol)), ToSet(Column(OnCol)))
       ELSE Used(OnCol) = Column(OnCol)

LEMMA FirstsListed ==
  ASSUME NEW S, NEW s \in Seq(S)
  PROVE  /\ Firsts(s) \in Seq(S) /\ Enumerates(Firsts(s), Len(Firsts(s)), ToSet(s))
         /\ Len(Firsts(s)) <= Len(s)
<1>1. Firsts(s) \in Seq(S) /\ Different(Firsts(s), s, Len(s))
  BY FirstsResult
<1>2. Len(s) \in Nat /\ Len(Firsts(s)) \in Nat /\ ToSet(s) = {s[p] : p \in 1 .. Len(s)}
  BY <1>1 DEF ToSet
<1>3. Enumerates(Firsts(s), Len(Firsts(s)), {s[p] : p \in 1 .. Len(s)})
  BY <1>1, <1>2, DifferentLists
<1>4. Len(Firsts(s)) <= Len(s)
  <2> DEFINE m == Len(Firsts(s))
             A == 1 .. m
             B == 1 .. Len(s)
  <2>1. PICK e : /\ \A a \in 1 .. m : e[a] \in 1 .. Len(s)
                 /\ \A a, b \in 1 .. m : a < b => e[a] < e[b]
    BY <1>1 DEF Different
  <2>2. \A a \in A : e[a] \in B
    BY <2>1
  <2>3. \A a, b \in A : e[a] = e[b] => a = b
    <3>1. TAKE a, b \in A
    <3>2. a \in Nat /\ b \in Nat /\ e[a] \in Nat /\ e[b] \in Nat
      BY <1>2, <2>1
    <3>3. QED
      BY <2>1, <3>2
  <2>4. IsFiniteSet(B) /\ Cardinality(B) = Len(s) /\ Cardinality(A) = m
    BY <1>2, UptoSize
  <2> HIDE DEF A, B, m
  <2>5. Cardinality(A) <= Cardinality(B)
    BY <2>2, <2>3, <2>4, Places
  <2>6. QED
    BY <2>4, <2>5 DEF m
<1>5. QED
  BY <1>1, <1>2, <1>3, <1>4

LEMMA AnswerColumn ==
  ASSUME SelectInv, PickInv, pc = "answer", ~Plain, q.on # <<>>
  PROVE  UsedRight
<1> DEFINE c == OnCol
<1>1. /\ q \in Queries /\ DOMAIN data = 1 .. Len(data) /\ Chosen \subseteq 1 .. Len(data)
      /\ rows \in Seq([ColNos(Schema) -> CellValue]) /\ Len(rows) \in Nat /\ Len(rows) <= RowLimit
  <2>1. rows \in Seq(Kept) /\ Kept \subseteq [ColNos(Schema) -> CellValue]
    BY DEF SelectInv, TypeInv, Kept
  <2>2. rows \in Seq([ColNos(Schema) -> CellValue])
    BY <2>1
  <2>3. QED
    BY <2>2, ChosenTypes DEF SelectInv, InArrays
<1>2. Dealt(rows, data, Chosen)
  BY DEF PickInv, Nearest
<1>3. c \in ColNos(Schema) /\ (q.agg # "count" => Type(c) \in {"int", "text"})
  <2>1. q.on \in Seq(Int)
    BY <1>1, QueriesAssumption
  <2>2. c \in ToSet(q.on)
    BY <2>1 DEF ToSet, OnCol
  <2>3. c \in ColNos(Schema) /\ (q.agg # "count" => Type(c) # "vector")
    BY <2>2 DEF PickInv, Refused
  <2>4. QED
    BY <2>3, RowsAssumption DEF Type
<1> HIDE DEF c
<1>4. /\ Column(c) \in Seq(Number)
      /\ Dealt(Column(c), CellsOf(rows, c), Set(CellsOf(rows, c), Len(rows)))
  BY <1>1, <1>3, ColumnResult
<1>5. Dealt(Column(c), CellsOf(data, c), SetIn(data, Chosen, c))
  BY <1>1, <1>2, <1>4, DealtThrough
<1>6. Len(Column(c)) <= Len(rows) /\ Len(Column(c)) \in Nat
  <2> DEFINE A == Set(CellsOf(rows, c), Len(rows))
             B == 1 .. Len(rows)
  <2>1. A \subseteq B /\ IsFiniteSet(B) /\ Cardinality(B) = Len(rows)
    BY <1>1, UptoSize DEF Set
  <2>2. Cardinality(A) = Len(Column(c))
    BY <1>4, DealtSize
  <2> HIDE DEF A, B
  <2>3. Cardinality(A) <= Cardinality(B)
    BY <2>1, FS_Subset
  <2>4. QED
    BY <1>4, <2>1, <2>2, <2>3
<1>7. CASE q.distinct
  <2>1. Used(c) = Firsts(Column(c))
    BY <1>7 DEF Used
  <2>2. /\ Used(c) \in Seq(Number) /\ Enumerates(Used(c), Len(Used(c)), ToSet(Column(c)))
        /\ Len(Used(c)) <= Len(Column(c)) /\ Len(Used(c)) \in Nat
    BY <1>4, <2>1, FirstsListed
  <2>3. Len(Used(c)) <= RowLimit
    BY <1>1, <1>6, <2>2, LimitAssumption
  <2>4. QED
    BY <1>3, <1>4, <1>5, <1>7, <2>2, <2>3 DEF UsedRight, Given, c
<1>8. CASE ~q.distinct
  <2>1. Used(c) = Column(c)
    BY <1>8 DEF Used
  <2>2. Len(Used(c)) <= RowLimit
    BY <1>1, <1>6, <2>1, LimitAssumption
  <2>3. QED
    BY <1>3, <1>4, <1>5, <1>8, <2>1, <2>2 DEF UsedRight, Given, c
<1>9. QED
  BY <1>7, <1>8

\* The table is without the smallest number and the scan keeps every row selected.
Whole == Sane /\ Cardinality(Selected) <= RowLimit

\* What the aggregate is made from is what the query means then.
UsedMeans(t) ==
    LET u == Used(OnCol)
    IN  /\ Adding(t, u) /\ Sum = t[Len(u)]
        /\ Len(u) = Cardinality(IF q.distinct THEN Values ELSE Filled)
        /\ Filled = {} <=> u = <<>>
        /\ Values = ToSet(Column(OnCol)) /\ (Filled = {} <=> Column(OnCol) = <<>>)
        /\ \A p \in DOMAIN u : u[p] # IntMin
        /\ \A p \in DOMAIN Column(OnCol) : Column(OnCol)[p] # IntMin

LEMMA MeansUsed ==
  ASSUME SelectInv, PickInv, pc = "answer", ~Plain, q.on # <<>>, Whole
  PROVE  \E t : UsedMeans(t)
<1> DEFINE c == OnCol
           u == Used(c)
           v == Column(c)
           pair(p) == <<p, data[p][c]>>
<1>1. UsedRight
  BY AnswerColumn
<1>2. /\ DOMAIN data = 1 .. Len(data) /\ Chosen \subseteq 1 .. Len(data) /\ IsFiniteSet(Chosen)
      /\ \A p \in DOMAIN data : data[p] \in [ColNos(Schema) -> CellValue]
      /\ Chosen = Selected /\ Sane
  BY ChosenTypes, ChosenIsMatches, AllMatch DEF SelectInv, PickInv, Whole
<1>3. /\ v \in Seq(Number) /\ u \in Seq(Number) /\ c \in ColNos(Schema)
      /\ DOMAIN v = 1 .. Len(v) /\ DOMAIN u = 1 .. Len(u) /\ Len(v) \in Nat /\ Len(u) \in Nat
      /\ Dealt(v, CellsOf(data, c), Given)
      /\ IF q.distinct THEN Enumerates(u, Len(u), ToSet(v)) ELSE u = v
  BY <1>1 DEF UsedRight
<1>4. Filled = {pair(p) : p \in Given}
  <2>1. Filled = {x \in {pair(p) : p \in Selected} : x[2] # Null}
    BY DEF Filled, OnCol
  <2>2. Given = {p \in Selected : data[p][c] # Null}
    BY <1>2 DEF Given, SetIn
  <2>3. \A p \in Selected : pair(p)[2] = data[p][c]
    OBVIOUS
  <2> HIDE DEF pair, c
  <2>4. QED
    BY <2>1, <2>2, <2>3
<1>5. Values = {data[p][c] : p \in Given}
  <2>1. \A p \in Given : pair(p)[2] = data[p][c]
    OBVIOUS
  <2>2. Values = {x[2] : x \in {pair(p) : p \in Given}}
    BY <1>4 DEF Values
  <2> HIDE DEF pair, c
  <2>3. {x[2] : x \in {pair(p) : p \in Given}} = {data[p][c] : p \in Given}
    BY <2>1
  <2>4. QED
    BY <2>2, <2>3
<1> HIDE DEF u, v, c
<1>6. PICK f : Enumerates(f, Len(v), Given) /\ \A a \in 1 .. Len(v) : v[a] = CellsOf(data, c)[f[a]]
  BY <1>3 DEF Dealt
<1>7. \A a \in 1 .. Len(v) : f[a] \in Given /\ f[a] \in Chosen /\ v[a] = data[f[a]][c]
  BY <1>2, <1>6 DEF Enumerates, Given, SetIn, CellsOf, c
<1>8. Values = ToSet(v)
  <2>1. \A p \in Given : \E a \in 1 .. Len(v) : f[a] = p
    BY <1>6 DEF Enumerates
  <2>2. QED
    BY <1>3, <1>5, <1>7, <2>1 DEF ToSet
<1>9. Given = {} <=> Len(v) = 0
  <2>1. IsFiniteSet(Given) /\ Cardinality(Given) = Len(v)
    BY <1>6, ListedSize
  <2>2. QED
    BY <2>1, FS_EmptySet
<1>10. Filled = {} <=> Len(v) = 0
  BY <1>4, <1>9
<1>11. \A a \in 1 .. Len(v) : v[a] \in Number /\ v[a] \in Int /\ v[a] # IntMin
  <2>1. \A a \in 1 .. Len(v) : v[a] \in Number
    BY <1>3
  <2>2. \A a \in 1 .. Len(v) : v[a] # IntMin
    BY <1>2, <1>3, <1>7 DEF Sane
  <2>3. QED
    BY <2>1, <2>2, CellNumbers
<1> DEFINE e == [a \in 1 .. Len(v) |-> pair(f[a])]
<1>12. Enumerates(e, Len(v), Filled)
  <2>1. \A a \in 1 .. Len(v) : e[a] = pair(f[a])
    OBVIOUS
  <2> HIDE DEF e
  <2>2. \A a \in 1 .. Len(v) : e[a] \in Filled
    BY <1>4, <1>7, <2>1
  <2>3. \A a, b \in 1 .. Len(v) : e[a] = e[b] => a = b
    BY <1>6, <2>1 DEF Enumerates
  <2>4. \A x \in Filled : \E a \in 1 .. Len(v) : e[a] = x
    <3>1. TAKE x \in Filled
    <3>2. PICK p \in Given : x = pair(p)
      BY <1>4
    <3>3. PICK a \in 1 .. Len(v) : f[a] = p
      BY <1>6 DEF Enumerates
    <3>4. QED
      BY <2>1, <3>2, <3>3
  <2>5. QED
    BY <1>3, <2>2, <2>3, <2>4 DEF Enumerates
<1>13. IsFiniteSet(Filled) /\ Cardinality(Filled) = Len(v)
  BY <1>12, ListedSize
<1>14. \A x \in Filled : x[2] \in Int
  <2>1. ASSUME NEW a \in 1 .. Len(v) PROVE e[a][2] \in Int
    BY <1>7, <1>11
  <2> HIDE DEF e
  <2>2. \A x \in Filled : \E a \in 1 .. Len(v) : e[a] = x
    BY <1>12 DEF Enumerates
  <2>3. QED
    BY <2>1, <2>2
<1>15. \A a \in 1 .. Len(v) : v[a] = e[a][2]
  BY <1>7
<1> HIDE DEF e
<1>16. CASE ~q.distinct
  <2>1. u = v
    BY <1>3, <1>16
  <2>2. PICK t : Adding(t, v)
    <3>1. v \in Seq(Int)
      BY <1>3, <1>11
    <3>2. QED
      BY <3>1, SumExists
  <2>3. SumOfCells(Filled) = t[Len(v)]
    BY <1>12, <1>13, <1>14, <1>15, <2>2, SecondIsAdded
  <2>4. UsedMeans(t)
    <3>1. Sum = t[Len(u)]
      BY <1>16, <2>1, <2>3 DEF Sum
    <3>2. v = <<>> <=> Len(v) = 0
      BY <1>3
    <3>3. QED
      BY <1>3, <1>8, <1>10, <1>11, <1>13, <1>16, <2>1, <2>2, <3>1, <3>2 DEF UsedMeans, u, v, c
  <2>5. QED
    BY <2>4
<1>17. CASE q.distinct
  <2>1. Enumerates(u, Len(u), Values)
    BY <1>3, <1>8, <1>17
  <2>2. IsFiniteSet(Values) /\ Cardinality(Values) = Len(u)
    BY <2>1, ListedSize
  <2>3. Values \subseteq Int
    BY <1>3, <1>8, <1>11 DEF ToSet
  <2>4. PICK t : Adding(t, u)
    <3>1. \A p \in 1 .. Len(u) : u[p] \in Int
      BY <2>1, <2>3 DEF Enumerates
    <3>2. u \in Seq(Int)
      BY <1>3, <3>1
    <3>3. QED
      BY <3>2, SumExists
  <2>5. SumOf(Values) = t[Len(u)]
    BY <2>1, <2>2, <2>3, <2>4, SumIsAdded
  <2>6. Filled = {} <=> u = <<>>
    <3>1. Filled = {} <=> Values = {}
      BY <1>4, <1>5
    <3>2. Values = {} <=> Len(u) = 0
      BY <2>2, FS_EmptySet
    <3>3. QED
      BY <1>3, <3>1, <3>2
  <2>7. \A p \in 1 .. Len(u) : u[p] # IntMin
    <3>1. \A x \in Values : x # IntMin
      BY <1>3, <1>8, <1>11 DEF ToSet
    <3>2. QED
      BY <2>1, <3>1 DEF Enumerates
  <2>8. v = <<>> <=> Len(v) = 0
    BY <1>3
  <2>9. Sum = t[Len(u)]
    BY <1>17, <2>5 DEF Sum
  <2>10. UsedMeans(t)
    BY <1>3, <1>8, <1>10, <1>11, <1>17, <2>2, <2>4, <2>6, <2>7, <2>8, <2>9 DEF UsedMeans, u, v, c
  <2>11. QED
    BY <2>10
<1>18. QED
  BY <1>16, <1>17

LEMMA QuotRight ==
  ASSUME NEW a \in Int, NEW n \in Nat \ {0}
  PROVE  /\ Quot(a, n) \in Int /\ Abs(Quot(a, n)) = Abs(a) \div n
         /\ Abs(Quot(a, n)) <= Abs(a) /\ Sign(Quot(a, n), 0) * Sign(a, 0) >= 0
         /\ (a >= 0 => Quot(a, n) >= 0) /\ (a <= 0 => Quot(a, n) <= 0)
<1>1. \A x \in Nat : x \div n \in Nat /\ x \div n <= x
  OBVIOUS
<1>2. CASE a >= 0
  <2> DEFINE d == a \div n
  <2>1. d \in Nat /\ d <= a /\ Quot(a, n) = d
    BY <1>1, <1>2 DEF Quot
  <2>2. Abs(a) = a /\ Abs(d) = d
    BY <1>2, <2>1 DEF Abs
  <2>3. Abs(a) \div n = d
    BY <2>2
  <2>4. a = 0 => d = 0
    BY <2>1
  <2> HIDE DEF d
  <2>5. Sign(d, 0) * Sign(a, 0) >= 0
    BY <1>2, <2>1 DEF Sign
  <2>6. QED
    BY <1>2, <2>1, <2>2, <2>3, <2>4, <2>5
<1>3. CASE a < 0
  <2> DEFINE d == (-a) \div n
  <2>1. -a \in Nat /\ d \in Nat /\ d <= -a /\ Quot(a, n) = -d
    BY <1>1, <1>3 DEF Quot
  <2>2. Abs(a) = -a /\ Abs(-d) = d
    BY <1>3, <2>1 DEF Abs
  <2>3. Abs(a) \div n = d
    BY <2>2
  <2> HIDE DEF d
  <2>4. Sign(-d, 0) * Sign(a, 0) >= 0
    BY <1>3, <2>1 DEF Sign
  <2>5. QED
    BY <1>3, <2>1, <2>2, <2>3, <2>4
<1>4. QED
  BY <1>2, <1>3

LEMMA QuotNumber ==
  ASSUME NEW a \in Number, NEW n \in Nat \ {0}
  PROVE  Quot(a, n) \in Number
<1>1. a \in Int /\ IntMin <= a /\ a <= IntMax
  BY CellNumbers DEF Number
<1>2. Quot(a, n) \in Int /\ Abs(Quot(a, n)) <= Abs(a)
      /\ (a >= 0 => Quot(a, n) >= 0) /\ (a <= 0 => Quot(a, n) <= 0)
  BY <1>1, QuotRight
<1>3. QED
  BY <1>1, <1>2, CellNumbers DEF Abs, Number

\* COUNT counts what is in the array.
LEMMA CountSmall ==
  ASSUME SelectInv, PickInv, pc = "answer", ~Plain
  PROVE  Count \in Number
<1>1. rows \in Seq(Kept) /\ Len(rows) \in Nat /\ Len(rows) <= RowLimit
  BY DEF SelectInv, TypeInv, InArrays
<1>2. Count \in Nat /\ Count <= RowLimit
  <2>1. CASE q.on # <<>>
    <3>1. Used(OnCol) \in Seq(Number) /\ Len(Used(OnCol)) <= RowLimit
      BY <2>1, AnswerColumn DEF UsedRight
    <3>2. Count = Len(Used(OnCol))
      BY <2>1 DEF Count, OnCol
    <3>3. QED
      BY <3>1, <3>2
  <2>2. CASE q.on = <<>>
    <3>1. Firsts(rows) \in Seq(Kept) /\ Len(Firsts(rows)) <= Len(rows)
      BY <1>1, FirstsListed
    <3>2. Len(Firsts(rows)) \in Nat /\ Len(Firsts(rows)) <= RowLimit
      BY <1>1, <3>1, LimitAssumption
    <3>3. QED
      BY <1>1, <2>2, <3>2 DEF Count
  <2>3. QED
    BY <2>1, <2>2
<1>3. QED
  BY <1>2, LimitAssumption, CellNumbers DEF Number

OutType == out.rc \in {0, -1} /\ out.val \in CellValue

LEMMA AggregateStep ==
  ASSUME SelectInv, PickInv, Aggregate
  PROVE  /\ pc = "answer" /\ ~Plain /\ pc' = "done" /\ UNCHANGED <<q, data, rows>>
         /\ out = [rc |-> 0, rows |-> <<>>, val |-> Null]
         /\ q.on = <<>> => q.agg = "count"
         /\ IF q.agg = "count" THEN out'.rc = 0 /\ out'.val = Count
            ELSE IF WrongType THEN out'.rc = -1 /\ out'.val = Null
            ELSE /\ out'.rc = 0
                 /\ out'.val = IF q.agg \in {"max", "min"} THEN Extremum(OnCol)
                               ELSE IF Used(OnCol) = <<>> THEN Null
                               ELSE IF q.agg = "sum" THEN Total(OnCol)
                               ELSE Quot(Total(OnCol), Len(Used(OnCol)))
<1>1. pc = "answer" /\ ~Plain /\ pc' = "done" /\ UNCHANGED <<q, data, rows>>
  BY DEF Aggregate
<1>2. out = [rc |-> 0, rows |-> <<>>, val |-> Null]
  BY <1>1 DEF PickInv
<1>3. q.on = <<>> => q.agg = "count"
  BY <1>1, QueriesAssumption DEF SelectInv, TypeInv, Plain
<1>4. QED
  BY <1>1, <1>2, <1>3 DEF Aggregate, OnCol

LEMMA AggregateType ==
  ASSUME SelectInv, PickInv, Aggregate
  PROVE  OutType'
<1>1. CASE q.agg = "count" \/ WrongType
  <2>1. Count \in CellValue
    BY AggregateStep, CountSmall, CellNumbers
  <2>2. Null \in CellValue
    BY CellNumbers
  <2>3. QED
    BY <1>1, <2>1, <2>2, AggregateStep DEF OutType
<1>2. CASE ~(q.agg = "count" \/ WrongType)
  <2> DEFINE c == OnCol
  <2>1. UsedRight
    BY <1>2, AggregateStep, AnswerColumn
  <2>2. Column(c) \in Seq(Number) /\ Used(c) \in Seq(Number)
    BY <2>1 DEF UsedRight
  <2>3. Extremum(c) \in CellValue
    BY <2>2, ExtremumResult, CellNumbers DEF ExtremumIs
  <2>4. Total(c) \in Number
    <3>1. Len(Used(c)) \in 0 .. Len(Used(c))
      BY <2>2
    <3>2. PICK g : Totals(g, c, Used(c))
      BY <2>2, TotalResult
    <3>3. QED
      BY <3>1, <3>2 DEF Totals
  <2>5. Used(c) # <<>> => Quot(Total(c), Len(Used(c))) \in Number
    <3>1. Used(c) # <<>> => Len(Used(c)) \in Nat \ {0}
      BY <2>2
    <3>2. QED
      BY <2>4, <3>1, QuotNumber
  <2>6. out'.rc = 0 /\ out'.val \in {Extremum(c), Null, Total(c)} \cup
           (IF Used(c) # <<>> THEN {Quot(Total(c), Len(Used(c)))} ELSE {})
    BY <1>2, AggregateStep
  <2> HIDE DEF c
  <2>7. out'.rc = 0 /\ out'.val \in CellValue
    BY <2>3, <2>4, <2>5, <2>6, CellNumbers
  <2>8. QED
    BY <2>7 DEF OutType
<1>3. QED
  BY <1>1, <1>2

\* What a query means does not change while it is answered.
LEMMA MeaningFixed ==
  ASSUME UNCHANGED <<q, data>>
  PROVE  /\ Selected' = Selected /\ Filled' = Filled /\ Values' = Values /\ Sum' = Sum
         /\ Sane' = Sane /\ Plain' = Plain
<1>1. Selected' = Selected
  BY DEF Selected, Selects
<1>2. Filled' = Filled
  BY <1>1 DEF Filled
<1>3. Values' = Values
  BY <1>2 DEF Values
<1>4. Sum' = Sum
  BY <1>2, <1>3 DEF Sum
<1>5. QED
  BY <1>1, <1>2, <1>3, <1>4 DEF Sane, Plain

LEMMA CountMeans ==
  ASSUME SelectInv, PickInv, pc = "answer", ~Plain, Whole
  PROVE  Count = IF q.on = <<>> THEN Cardinality(IF q.distinct THEN {data[p] : p \in Selected} ELSE Selected)
                 ELSE Cardinality(IF q.distinct THEN Values ELSE Filled)
<1>1. CASE q.on # <<>>
  <2>1. PICK t : UsedMeans(t)
    BY <1>1, MeansUsed
  <2>2. QED
    BY <1>1, <2>1 DEF UsedMeans, Count, OnCol
<1>2. CASE q.on = <<>>
  <2>1. Dealt(rows, data, Selected) /\ rows \in Seq(Kept)
    BY ChosenIsMatches, AllMatch DEF PickInv, Nearest, SelectInv, TypeInv, Whole
  <2>2. CASE ~q.distinct
    BY <1>2, <2>1, <2>2, DealtSize DEF Count
  <2>3. CASE q.distinct
    <3>1. PICK f : Enumerates(f, Len(rows), Selected) /\ \A a \in 1 .. Len(rows) : rows[a] = data[f[a]]
      BY <2>1 DEF Dealt
    <3>2. ToSet(rows) = {data[p] : p \in Selected}
      <4>1. DOMAIN rows = 1 .. Len(rows)
        BY <2>1
      <4>2. \A a \in DOMAIN rows : f[a] \in Selected /\ rows[a] = data[f[a]]
        BY <3>1, <4>1 DEF Enumerates
      <4>3. \A p \in Selected : \E a \in DOMAIN rows : rows[a] = data[p]
        BY <3>1, <4>1 DEF Enumerates
      <4>4. QED
        BY <4>2, <4>3 DEF ToSet
    <3>3. Enumerates(Firsts(rows), Len(Firsts(rows)), ToSet(rows))
      BY <2>1, FirstsListed
    <3>4. Len(Firsts(rows)) = Cardinality(ToSet(rows))
      BY <3>3, ListedSize
    <3>5. QED
      BY <1>2, <2>3, <3>2, <3>4 DEF Count
  <2>4. QED
    BY <2>2, <2>3
<1>3. QED
  BY <1>1, <1>2

\* MAX and MIN.
LEMMA ExtremumMeans ==
  ASSUME SelectInv, PickInv, pc = "answer", ~Plain, Whole, q.on # <<>>
  PROVE  IF Filled = {} THEN Extremum(OnCol) = Null
         ELSE /\ q.agg = "max" => Extremum(OnCol) \in Values /\ \A v \in Values : v <= Extremum(OnCol)
              /\ q.agg = "min" => Extremum(OnCol) \in Values /\ \A v \in Values : v >= Extremum(OnCol)
<1> DEFINE v == Column(OnCol)
           b == Extremum(OnCol)
<1>1. v \in Seq(Number)
  BY AnswerColumn DEF UsedRight
<1>2. /\ Values = ToSet(v) /\ (Filled = {} <=> v = <<>>)
      /\ \A p \in DOMAIN v : v[p] # IntMin
  BY MeansUsed DEF UsedMeans
<1>3. Len(v) \in Nat /\ DOMAIN v = 1 .. Len(v) /\ (v = <<>> <=> Len(v) = 0)
  BY <1>1
<1>4. ExtremumIs(OnCol, v)
  BY <1>1, ExtremumResult
<1> HIDE DEF v, b
<1>5. BestOf(b, v, Len(v))
  BY <1>2, <1>3, <1>4 DEF ExtremumIs, Read, b
<1>6. CASE Filled = {}
  BY <1>2, <1>3, <1>5, <1>6 DEF BestOf, b
<1>7. CASE Filled # {}
  <2>1. (\E p \in 1 .. Len(v) : v[p] = b) /\ \A p \in 1 .. Len(v) : ~Better(v[p], b)
    BY <1>2, <1>3, <1>5, <1>7 DEF BestOf
  <2>2. \A p \in 1 .. Len(v) : v[p] \in Int
    <3>1. \A p \in 1 .. Len(v) : v[p] \in Number
      BY <1>1, <1>3
    <3>2. QED
      BY <3>1, CellNumbers
  <2>3. b \in Values /\ b \in Int
    BY <1>2, <1>3, <2>1, <2>2 DEF ToSet
  <2>4. \A x \in Values : x \in Int /\ ~Better(x, b)
    BY <1>2, <1>3, <2>1, <2>2 DEF ToSet
  <2>5. QED
    BY <1>7, <2>3, <2>4 DEF Better, b
<1>8. QED
  BY <1>6, <1>7

\* SUM and AVG.
LEMMA TotalMeans ==
  ASSUME SelectInv, PickInv, pc = "answer", ~Plain, Whole, q.on # <<>>
  PROVE  /\ Type(OnCol) = "int" /\ Sum \in Number => Total(OnCol) = Sum
         /\ Filled = {} <=> Used(OnCol) = <<>>
         /\ Len(Used(OnCol)) = Cardinality(IF q.distinct THEN Values ELSE Filled)
         /\ Used(OnCol) # <<>> => Len(Used(OnCol)) \in Nat \ {0}
         /\ Sum \in Int
<1> DEFINE u == Used(OnCol)
           n == Len(u)
<1>1. u \in Seq(Number)
  BY AnswerColumn DEF UsedRight
<1>2. PICK t : UsedMeans(t)
  BY MeansUsed
<1>3. /\ Adding(t, u) /\ Sum = t[n] /\ \A p \in DOMAIN u : u[p] # IntMin
      /\ (Filled = {} <=> u = <<>>)
      /\ n = Cardinality(IF q.distinct THEN Values ELSE Filled)
  BY <1>2 DEF UsedMeans
<1>4. n \in Nat /\ n \in 0 .. n /\ (u # <<>> => n \in Nat \ {0} /\ n \in 1 .. n)
  BY <1>1
<1>5. Sum \in Int
  BY <1>3, <1>4 DEF Adding
<1>6. Type(OnCol) = "int" /\ Sum \in Number => Total(OnCol) = Sum
  <2>1. SUFFICES ASSUME Type(OnCol) = "int", Sum \in Number PROVE Total(OnCol) = Sum
    OBVIOUS
  <2>2. Total(OnCol) = Wrap(t[n])
    BY <1>1, <1>3, <2>1, TotalIsWrapped DEF Adding
  <2>3. QED
    BY <1>3, <2>1, <2>2, WrapSame
<1>7. QED
  BY <1>3, <1>4, <1>5, <1>6

LEMMA AggregateMeans ==
  ASSUME SelectInv, PickInv, Aggregate
  PROVE  AggregateAnswered'
<1>1. /\ Selected' = Selected /\ Filled' = Filled /\ Values' = Values /\ Sum' = Sum
      /\ Sane' = Sane /\ q' = q /\ data' = data
  BY AggregateStep, MeaningFixed
<1> DEFINE n == Cardinality(IF q.distinct THEN Values ELSE Filled)
           v == out'.val
           counted == IF q.on = <<>>
                      THEN Cardinality(IF q.distinct THEN {data[p] : p \in Selected} ELSE Selected)
                      ELSE n
<1>2. SUFFICES ASSUME Whole, out'.rc = 0, ~AverageOfText
               PROVE  IF q.agg = "count" THEN v = counted
                      ELSE /\ q.agg \in {"sum", "avg"} => Type(OnCol) = "int"
                           /\ IF Filled = {} THEN v = Null
                              ELSE CASE q.agg = "max" -> v \in Values /\ \A x \in Values : x <= v
                                     [] q.agg = "min" -> v \in Values /\ \A x \in Values : x >= v
                                     [] q.agg = "sum" -> Sum \in Number => v = Sum
                                     [] OTHER         -> Sum \in Number =>
                                                            /\ Abs(v) = Abs(Sum) \div n
                                                            /\ Sign(v, 0) * Sign(Sum, 0) >= 0
  BY <1>1 DEF AggregateAnswered, Answered, Number, OnCol, Type, Whole, AverageOfText, CountRight
<1>3. pc = "answer" /\ ~Plain
  BY AggregateStep
<1>4. CASE q.agg = "count"
  BY <1>2, <1>3, <1>4, AggregateStep, CountMeans
<1>5. CASE q.agg # "count"
  <2>1. q.on # <<>> /\ ~WrongType
    BY <1>2, <1>5, AggregateStep
  <2>2. q.agg \in {"sum", "avg", "max", "min"} /\ q.api \in {"exec", "query"}
    BY <1>3, <1>5, QueriesAssumption DEF SelectInv, TypeInv, Plain
  <2>3. Type(OnCol) \in {"int", "text"}
    BY <1>3, <1>5, <2>1, AnswerColumn DEF UsedRight
  <2>4. q.agg \in {"sum", "avg"} => Type(OnCol) = "int"
    BY <1>2, <2>1, <2>2, <2>3 DEF WrongType, AverageOfText, OnCol
  <2>5. CASE q.agg \in {"max", "min"}
    <3>1. v = Extremum(OnCol)
      BY <1>2, <1>5, <2>1, <2>5, AggregateStep
    <3>2. CASE Filled = {}
      BY <1>2, <1>3, <1>5, <2>1, <2>5, <3>1, <3>2, ExtremumMeans
    <3>3. CASE Filled # {}
      BY <1>2, <1>3, <2>1, <2>5, <3>1, <3>3, ExtremumMeans
    <3>4. QED
      BY <3>2, <3>3
  <2>6. CASE q.agg \in {"sum", "avg"}
    <3>1. /\ Filled = {} <=> Used(OnCol) = <<>>
          /\ Used(OnCol) # <<>> => Len(Used(OnCol)) \in Nat \ {0}
          /\ Len(Used(OnCol)) = n /\ Sum \in Int
      BY <1>2, <1>3, <2>1, TotalMeans
    <3>2. v = IF Used(OnCol) = <<>> THEN Null
              ELSE IF q.agg = "sum" THEN Total(OnCol) ELSE Quot(Total(OnCol), Len(Used(OnCol)))
      BY <1>2, <1>5, <2>1, <2>6, AggregateStep
    <3>3. CASE Filled = {}
      BY <1>5, <2>6, <2>4, <3>1, <3>2, <3>3
    <3>4. CASE Filled # {} /\ q.agg = "sum"
      <4>1. Type(OnCol) = "int"
        BY <2>4, <3>4
      <4>2. v = Total(OnCol)
        BY <3>1, <3>2, <3>4
      <4>3. Sum \in Number => v = Sum
        BY <1>2, <1>3, <2>1, <4>1, <4>2, TotalMeans
      <4>4. QED
        BY <3>4, <4>1, <4>3
    <3>5. CASE Filled # {} /\ q.agg = "avg"
      <4>1. v = Quot(Total(OnCol), n) /\ n \in Nat \ {0}
        BY <3>1, <3>2, <3>5
      <4>2. Sum \in Number => v = Quot(Sum, n)
        BY <1>2, <1>3, <2>1, <2>4, <3>5, <4>1, TotalMeans
      <4>3. Abs(Quot(Sum, n)) = Abs(Sum) \div n /\ Sign(Quot(Sum, n), 0) * Sign(Sum, 0) >= 0
        <5> HIDE DEF n
        <5>1. QED
          BY <3>1, <4>1, QuotRight
      <4>4. Sum \in Number => Abs(v) = Abs(Sum) \div n /\ Sign(v, 0) * Sign(Sum, 0) >= 0
        <5> HIDE DEF n, v
        <5>1. QED
          BY <4>2, <4>3
      <4>5. QED
        BY <2>4, <3>5, <4>4
    <3>6. QED
      BY <2>6, <3>3, <3>4, <3>5
  <2>7. QED
    BY <2>2, <2>5, <2>6
<1>6. QED
  BY <1>4, <1>5

(***************************************************************************)
(* The answer, and the types of all variables.                             *)
(***************************************************************************)

AnswerInv == RowsAnswered /\ AggregateAnswered /\ OutType

LEMMA AnswerInit == Init => AnswerInv
<1> SUFFICES ASSUME Init PROVE AnswerInv
  OBVIOUS
<1>1. pc = "check" /\ out = [rc |-> 0, rows |-> <<>>, val |-> Null]
  BY DEF Init
<1>2. QED
  BY <1>1, CellNumbers DEF AnswerInv, RowsAnswered, AggregateAnswered, Answered, OutType

LEMMA AnswerStutter == AnswerInv /\ UNCHANGED vars => AnswerInv'
<1> SUFFICES ASSUME AnswerInv, UNCHANGED vars PROVE AnswerInv'
  OBVIOUS
<1>1. UNCHANGED <<q, data>> /\ rows' = rows /\ pc' = pc /\ out' = out
  BY DEF vars
<1>2. /\ Selected' = Selected /\ Filled' = Filled /\ Values' = Values /\ Sum' = Sum
      /\ Sane' = Sane /\ Plain' = Plain
  BY <1>1, MeaningFixed
<1>3. Answered' <=> Answered
  BY <1>1, <1>2 DEF Answered
<1>4. AggregateAnswered'
  BY <1>1, <1>2, <1>3 DEF AnswerInv, AggregateAnswered, AverageOfText, CountRight, Type
<1>5. RowsAnswered'
  <2>1. /\ [r \in DOMAIN rows' |-> Projected(rows[r])'] = [r \in DOMAIN rows |-> Projected(rows[r])]
        /\ [r \in DOMAIN rows' |-> Asked(rows[r])'] = [r \in DOMAIN rows |-> Asked(rows[r])]
    BY <1>1 DEF Projected, Asked
  <2>2. NullStandsOut' = NullStandsOut
    BY <1>1 DEF NullStandsOut, Type
  <2>3. RowsRight' = RowsRight
    BY <1>1, <2>1 DEF RowsRight
  <2>4. QED
    BY <1>1, <1>2, <1>3, <2>2, <2>3 DEF AnswerInv, RowsAnswered
<1>6. QED
  BY <1>1, <1>4, <1>5 DEF AnswerInv, OutType

LEMMA AnswerStep == SelectInv /\ PickInv /\ AnswerInv /\ Next => AnswerInv'
<1> SUFFICES ASSUME SelectInv, PickInv, AnswerInv, Next PROVE AnswerInv'
  OBVIOUS
<1>1. CASE Aggregate
  <2>1. ~Plain'
    BY <1>1, AggregateStep, MeaningFixed
  <2>2. QED
    BY <1>1, <2>1, AggregateMeans, AggregateType DEF AnswerInv, RowsAnswered
<1>2. CASE Project
  <2>1. /\ Plain /\ pc = "answer" /\ UNCHANGED <<q, data>>
        /\ \E r : out' = [out EXCEPT !.rows = r]
    BY <1>2 DEF Project
  <2>2. Plain'
    BY <2>1, MeaningFixed
  <2>3. out = [rc |-> 0, rows |-> <<>>, val |-> Null]
    BY <2>1 DEF PickInv
  <2>4. OutType'
    BY <2>1, <2>3, CellNumbers DEF OutType
  <2>5. QED
    BY <1>2, <2>2, <2>4, ProjectAnswers DEF AnswerInv, AggregateAnswered
<1>3. CASE Check \/ ScanRow \/ ScanEnd \/ Exchange \/ NextPlace \/ NearEnd \/ OrderEnd
  <2>1. /\ pc' # "done" \/ out'.rc = -1
        /\ out' = out \/ out' = [out EXCEPT !.rc = -1]
        /\ pc # "done"
    <3>1. pc # "done"
      BY <1>3 DEF Check, ScanRow, ScanEnd, Exchange, NextPlace, NearEnd, OrderEnd
    <3>2. out = [rc |-> 0, rows |-> <<>>, val |-> Null]
      BY <3>1 DEF PickInv
    <3>3. QED
      BY <1>3, <3>1, <3>2 DEF Check, ScanRow, ScanEnd, Exchange, NextPlace, NearEnd, OrderEnd
  <2>2. out = [rc |-> 0, rows |-> <<>>, val |-> Null]
    BY <2>1 DEF PickInv
  <2>3. OutType'
    BY <2>1, <2>2, CellNumbers DEF OutType
  <2>4. ~Answered'
    BY <2>1 DEF Answered
  <2>5. QED
    BY <2>3, <2>4 DEF AnswerInv, RowsAnswered, AggregateAnswered
<1>4. QED
  BY <1>1, <1>2, <1>3 DEF Next

\* The answer stays right once it is made.
THEOREM AnswerInvariant == Spec => [](SelectInv /\ PickInv /\ AnswerInv)
<1>1. Init => AnswerInv
  BY AnswerInit
<1>2. SelectInv /\ PickInv /\ AnswerInv /\ [Next]_vars => AnswerInv'
  BY AnswerStep, AnswerStutter
<1>3. QED
  BY <1>1, <1>2, PickInvariant, PTL DEF Spec

\* The rows answered are the selection's, in its order; DISTINCT keeps a row
\* where its cells occur first, unless a column holds both NULL and the text
\* NULL, and LIMIT cuts the end only (exec_select.c:254-289,
\* exec_query.c:197-231).
THEOREM RowsAreAnswered == Spec => []RowsAnswered
<1>1. AnswerInv => RowsAnswered
  BY DEF AnswerInv
<1>2. QED
  BY <1>1, AnswerInvariant, PTL

\* When the scan keeps every row selected and db_query is not asked for the AVG
\* of a TEXT column: aggregates skip nulls; SUM and AVG take an INT column and
\* are right when the sum fits 64 bits even if a part of it does not; MAX, MIN
\* and COUNT are those of the rows selected (exec_select.c:105-253,
\* exec_query.c:75-195).
THEOREM AggregatesAreAnswered == Spec => []AggregateAnswered
<1>1. AnswerInv => AggregateAnswered
  BY DEF AnswerInv
<1>2. QED
  BY <1>1, AnswerInvariant, PTL

\* The variables have their types, the answer's value included: no aggregate
\* leaves 64 bits.
THEOREM TypesHold == Spec => []TypeOK
<1>1. SelectInv /\ AnswerInv => TypeOK
  <2> SUFFICES ASSUME SelectInv, AnswerInv PROVE TypeOK
    OBVIOUS
  <2>1. ToSet(rows) \subseteq ToSet(data)
    <3>1. rows \in Seq(Kept)
      BY DEF SelectInv, TypeInv
    <3>2. \A a \in DOMAIN rows : \E r \in DOMAIN data : rows[a] = data[r]
      BY <3>1 DEF Kept
    <3>3. QED
      BY <3>2 DEF ToSet
  <2>2. QED
    BY <2>1, CellNumbers DEF TypeOK, SelectInv, TypeInv, InArrays, AnswerInv, OutType, CellValue
<1>2. QED
  BY <1>1, AnswerInvariant, PTL

=============================================================================
