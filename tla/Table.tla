------------------------------- MODULE Table -------------------------------
(***************************************************************************)
(* The SQL write path: CREATE TABLE, CREATE INDEX, INSERT, UPDATE and      *)
(* DELETE of src/core/sql/exec_ddl.c, exec_insert.c and exec_write.c, one  *)
(* action per statement, on the trees of BTreeOps.  The values in a tree   *)
(* are rows (RowFormat), its keys rowids.                                  *)
(*                                                                         *)
(* Bounds on histories: MaxSplits leaf splits, no row that outgrows its    *)
(* leaf when it is replaced, and no statement after the leaves' chain has  *)
(* come to lead through a branch page, rows of another tree or a cycle     *)
(* (ChainReadable), or that faults (BTreeOps).  MatchMax is never reached  *)
(* inside a leaf.                                                          *)
(***************************************************************************)
EXTENDS BTreeView, RowFormat

CONSTANTS
    Dflt,       \* the literal DEFAULT
    Schemas,    \* the schema each table name is created with
    Legacy,     \* tables loaded, empty, from an image older than version 3
    InsertLits, \* the tuples of literals inserted, by table
    SetLits,    \* the <<column, literal>> pairs of UPDATE, by table
    WhereSets,  \* the sets of WHERE clauses
    MaxTables,  \* SQL_MAX_TABLES
    MatchMax,   \* matches after which UPDATE and DELETE read no further leaf
    FreshPages, \* free pages at the start
    MaxSplits   \* leaf splits in a history

VARIABLES
    store,   \* the page file
    tabs,    \* root and rowid_seq of each table, by name
    last,    \* the last statement and its answer
    splits   \* number of leaf splits

vars == <<store, tabs, last, splits>>

Names == DOMAIN Schemas
NoStmt == [kind |-> "none", tab |-> "", arg |-> <<>>, where |-> {}, rc |-> 0]

\* An empty database, or one loaded with an empty table of an old version.
Init == \E old \in {Legacy, {}} :
          LET fresh  == [head  |-> FreshPages,
                         pages |-> [i \in 1 .. FreshPages |-> [ZeroPage EXCEPT !.word = i - 1]]]
              loaded == Create(fresh)
          IN  /\ Cardinality(old) <= 1
              /\ store = IF old = {} THEN fresh ELSE loaded.st
              /\ tabs = [n \in old |-> [root |-> loaded.root, seq |-> 1]]
              /\ last = NoStmt
              /\ splits = 0

----------------------------------------------------------------------------
(* Reading a table. *)

\* No leaf walk of the table meets a branch page, rows of a page that is not
\* the table's, or goes in circles.
ChainReadable(st, root) ==
    /\ ScanEnds(st, root)
    /\ \A pn \in ToSet(Chain(st, root)) :
          /\ st.pages[pn].word # BranchWord
          /\ Ents(st.pages[pn]) # <<>> => pn \in Leaves(st, root)

\* Mutant of ValueExists: the check stops after the first leaf.
ValueExistsFirstLeaf(st, sch, root, c, v) ==
    \E pn \in {Leftmost(st, root)} \cap PageNos(st) :
        \E e \in ToSet(Ents(st.pages[pn])) : Cell(sch, e.v, c) = v

\* col_value_exists and pk_value_exists: along next_leaf from the leftmost leaf.
ValueExists(st, sch, root, c, v) ==
    \E e \in ToSet(Scan(st, root)) : Cell(sch, e.v, c) = v

\* The rows of a leaf that pass.
Matches(sch, ents, wheres) ==
    FoldLeft(LAMBDA got, e : IF RowPasses(sch, e.v, wheres) THEN Append(got, e) ELSE got, <<>>, ents)

\* Mutant of Collect: the walk ends when a leaf has no match.
CollectOneLeaf(st, sch, root, wheres) == Matches(sch, Ents(st.pages[Leftmost(st, root)]), wheres)

\* The entries UPDATE and DELETE collect; the limit is tested before each leaf.
Collect(st, sch, root, wheres) ==
    FoldLeft(LAMBDA got, pn : IF Len(got) >= MatchMax THEN got
                              ELSE got \o Matches(sch, Ents(st.pages[pn]), wheres),
             <<>>, Chain(st, root))

----------------------------------------------------------------------------
(* Constraints. *)

\* Two keys, or a VECTOR as the key or with a default.
BadSchema(sch) ==
    \/ Cardinality({c \in ColNos(sch) : sch.cols[c].pk}) > 1
    \/ \E c \in ColNos(sch) : /\ sch.cols[c].type = "vector"
                              /\ sch.cols[c].pk \/ sch.cols[c].hasDefault

Value(col, lit) == IF lit = Dflt THEN col.def ELSE lit

\* DEFAULT without a default, or NULL where it is not allowed.
LitRefused(col, lit) ==
    \/ lit = Dflt /\ ~col.hasDefault
    \/ Value(col, lit) = Null /\ (col.notNull \/ col.pk)

MustBeUnique(col) == col.pk \/ col.unique

\* What an accepted literal is stored as: without a bitmap NULL is not kept.
StoredAs(n, c, lit) ==
    LET v == Value(Schemas[n].cols[c], lit)
    IN  IF v = Null /\ ~Schemas[n].nullmap THEN 0 ELSE v

----------------------------------------------------------------------------
(* What the constants are. *)

ASSUME RowidAssumption == IsFiniteSet(Keys) /\ Keys = 1 .. Cardinality(Keys)
ASSUME BoundAssumption == /\ FreshPages \in Nat /\ FreshPages < MaxPages
                          /\ MaxSplits \in Nat /\ MatchMax \in Nat

\* A loaded table was created once.  Images older than version 3 keep no
\* UNIQUE, those older than version 4 no VECTOR.
ASSUME SchemaAssumption ==
    /\ IsFiniteSet(Legacy) /\ Legacy \subseteq {n \in Names : ~BadSchema(Schemas[n])}
    /\ \A n \in Names :
          /\ SchemaOk(Schemas[n])
          /\ ~Schemas[n].nullmap => \A c \in ColNos(Schemas[n]) :
                ~Schemas[n].cols[c].unique /\ Schemas[n].cols[c].type # "vector"

\* The cells accepted literals make in a column, and the rows of such cells.
Lits(n, c) == {lits[c] : lits \in {l \in InsertLits[n] : Len(l) = Len(Schemas[n].cols)}}
              \cup {set[2] : set \in {s \in SetLits[n] : s[1] = c}}
CellsOf(n, c) ==
    {StoredAs(n, c, lit) : lit \in {l \in Lits(n, c) : /\ ~LitRefused(Schemas[n].cols[c], l)
                                                      /\ Encodable(Value(Schemas[n].cols[c], l))}}
RowsOf(n) == LET any == UNION {CellsOf(n, c) : c \in ColNos(Schemas[n])}
             IN  {cs \in [ColNos(Schemas[n]) -> any] : \A c \in ColNos(Schemas[n]) : cs[c] \in CellsOf(n, c)}

\* A vector that cannot be encoded is meant for a VECTOR.
ASSUME LitAssumption ==
    \A n \in Names :
       /\ \A lits \in InsertLits[n] : DOMAIN lits = 1 .. Len(lits)
       /\ \A c \in ColNos(Schemas[n]) :
             /\ \A cell \in CellsOf(n, c) : cell # Null => ValueOk(Schemas[n].cols[c], cell)
             /\ \A lit \in Lits(n, c) :
                   Schemas[n].cols[c].type # "vector" => Encodable(Value(Schemas[n].cols[c], lit))
       /\ ~BadSchema(Schemas[n]) => {EncodeRow(Schemas[n], cs) : cs \in RowsOf(n)} \subseteq Values

----------------------------------------------------------------------------
(* Statements.  Each gives the store, the table's entry and the return      *)
(* code; a page fault in a tree call shows as rc = Fault.                   *)

Answer(st, tab, rc) == [st |-> st, tab |-> tab, rc |-> rc]

\* The end of exec_insert: the rowid is taken and the result of btree_insert
\* is not looked at.
InsertRow(st, sch, tab, vals) ==
    LET i == Insert(st, tab.root, tab.seq, EncodeRow(sch, vals))
    IN  Answer(i.st, [root |-> i.root, seq |-> tab.seq + 1], IF i.rc = Fault THEN Fault ELSE 0)

\* exec_insert
ExecInsert(st, sch, tab, lits) ==
    LET vals == [c \in DOMAIN lits |-> Value(sch.cols[c], lits[c])]
    IN  IF \/ Len(lits) # Len(sch.cols)
           \/ \E c \in ColNos(sch) : LitRefused(sch.cols[c], lits[c])
           \/ \E c \in ColNos(sch) : /\ vals[c] # Null
                                     /\ MustBeUnique(sch.cols[c])
                                     /\ ValueExists(st, sch, tab.root, c, vals[c])
           \/ sch.nullmap /\ \E c \in ColNos(sch) : ~Encodable(vals[c])
        THEN Answer(st, tab, -1)
        ELSE InsertRow(st, sch, tab, vals)

\* UPDATE's check.  One row may keep its value; a VECTOR's printed form never
\* equals the literal, so keeping it is taken for a duplicate.
NotUnique(st, sch, root, got, c, v) ==
    /\ v # Null
    /\ MustBeUnique(sch.cols[c])
    /\ got # <<>>
    /\ \/ Len(got) > 1
       \/ /\ Cell(sch, got[1].v, c) # v \/ sch.cols[c].type = "vector"
          /\ ValueExists(st, sch, root, c, v)

\* UPDATE's loop over the rows collected: it stops at a row that cannot be
\* changed and does not look at the result of btree_insert.
SetRows(st, sch, tab, got, c, v) ==
    FoldLeft(LAMBDA a, e :
               IF a.rc # 0 THEN a
               ELSE IF CannotReplace(sch, e.v, c, v) THEN Answer(a.st, a.tab, -1)
               ELSE LET row == ReplaceCol(sch, e.v, c, v)
                        i   == Insert(a.st, a.tab.root, e.k, row)
                    IN  IF i.rc = Fault \/ Overfills(a.st, a.tab.root, e.k, row)
                        THEN Answer(a.st, a.tab, Fault)
                        ELSE Answer(i.st, [a.tab EXCEPT !.root = i.root], 0),
             Answer(st, tab, 0), got)

\* exec_write, UPDATE
ExecUpdate(st, sch, tab, c, lit, wheres) ==
    LET v   == Value(sch.cols[c], lit)
        got == Collect(st, sch, tab.root, wheres)
    IN  IF \/ c \notin ColNos(sch)
           \/ \E w \in wheres : BadClause(sch, w)
           \/ LitRefused(sch.cols[c], lit)
           \/ NotUnique(st, sch, tab.root, got, c, v)
        THEN Answer(st, tab, -1)
        ELSE SetRows(st, sch, tab, got, c, v)

\* DELETE's loop: it stops at the first key btree_delete fails for.
DropRows(st, tab, got) ==
    FoldLeft(LAMBDA a, e :
               LET d == Delete(a.st, a.tab.root, e.k)
               IN  IF a.rc # 0 THEN a ELSE Answer(d.st, [a.tab EXCEPT !.root = d.root], d.rc),
             Answer(st, tab, 0), got)

\* exec_write, DELETE
ExecDelete(st, sch, tab, wheres) ==
    IF \E w \in wheres : BadClause(sch, w) THEN Answer(st, tab, -1)
    ELSE DropRows(st, tab, Collect(st, sch, tab.root, wheres))

----------------------------------------------------------------------------
(* Actions. *)

\* A statement on table n ends with an answer; one that names no table of the
\* database is refused.
Done(n, kind, arg, wheres, answer) ==
    \E a \in {answer} :
        /\ a.rc # Fault
        /\ store' = a.st
        /\ tabs' = IF n \in DOMAIN tabs THEN [tabs EXCEPT ![n] = a.tab] ELSE tabs
        /\ last' = [kind |-> kind, tab |-> n, arg |-> arg, where |-> wheres, rc |-> a.rc]

Known(n) == n \in DOMAIN tabs
Readable(n) == Known(n) => ChainReadable(store, tabs[n].root)
Unknown == Answer(store, <<>>, -1)

\* The result of btree_create is ignored: root 0 stands for an empty tree.
CreateTable(n) ==
    LET refused == \/ Cardinality(DOMAIN tabs) >= MaxTables
                   \/ Known(n)
                   \/ BadSchema(Schemas[n])
        c       == Create(store)
    IN  /\ n \in Legacy => Known(n)
        /\ store' = IF refused THEN store ELSE c.st
        /\ tabs' = IF refused THEN tabs
                   ELSE [m \in DOMAIN tabs \cup {n} |->
                           IF m = n THEN [root |-> c.root, seq |-> 1] ELSE tabs[m]]
        /\ last' = [NoStmt EXCEPT !.kind = "create", !.tab = n, !.rc = IF refused THEN -1 ELSE 0]
        /\ UNCHANGED splits

\* The new tree's root is not kept anywhere.
CreateIndex(n) ==
    /\ store' = IF Known(n) THEN Create(store).st ELSE store
    /\ last' = [NoStmt EXCEPT !.kind = "index", !.tab = n, !.rc = IF Known(n) THEN 0 ELSE -1]
    /\ UNCHANGED <<tabs, splits>>

InsertInto(n, lits) ==
    LET split == /\ last'.rc = 0
                 /\ MustSplit(store, tabs[n].root, tabs[n].seq,
                              EncodeRow(Schemas[n], [c \in DOMAIN lits |-> Value(Schemas[n].cols[c], lits[c])]))
    IN  /\ Readable(n)
        /\ Known(n) => tabs[n].seq \in Keys
        /\ Done(n, "insert", lits, {},
                IF Known(n) THEN ExecInsert(store, Schemas[n], tabs[n], lits) ELSE Unknown)
        /\ split => splits < MaxSplits
        /\ splits' = IF split THEN splits + 1 ELSE splits

Update(n, set, wheres) ==
    /\ Readable(n)
    /\ Done(n, "update", set, wheres,
            IF Known(n) THEN ExecUpdate(store, Schemas[n], tabs[n], set[1], set[2], wheres)
            ELSE Unknown)
    /\ UNCHANGED splits

DeleteFrom(n, wheres) ==
    /\ Readable(n)
    /\ Done(n, "delete", <<>>, wheres,
            IF Known(n) THEN ExecDelete(store, Schemas[n], tabs[n], wheres) ELSE Unknown)
    /\ UNCHANGED splits

Next == \E n \in Names :
          \/ CreateTable(n)
          \/ CreateIndex(n)
          \/ \E lits \in InsertLits[n] : InsertInto(n, lits)
          \/ \E set \in SetLits[n], wheres \in WhereSets : Update(n, set, wheres)
          \/ \E wheres \in WhereSets : DeleteFrom(n, wheres)

Spec == Init /\ [][Next]_vars

----------------------------------------------------------------------------
(* What a table stands for: the set of rows [id, cells] on its tree's       *)
(* leaves, whatever the layout of rows and the links of leaves.             *)

Rel(st, ts, n) ==
    {[id |-> e.k, cells |-> Cells(Schemas[n], e.v)] :
        e \in UNION {ToSet(Ents(st.pages[pn])) : pn \in Leaves(st, ts[n].root)}}
Ids(rel) == {row.id : row \in rel}

\* The tables' leaves are linked (BTree shows which calls break the links).
Linked == \A n \in DOMAIN tabs :
             ToSet(Chain(store, tabs[n].root)) = Leaves(store, tabs[n].root)
PagesLeft == Cardinality(FreeSet(store)) + MaxPages - 1 - Len(store.pages)

Passing(rel, wheres) == {row \in rel : \A w \in wheres : CellPasses(row.cells[w.col], w)}
Taken(rel, c, v) == \E row \in rel : row.cells[c] = v

\* The statements SQL refuses, in terms of the relation.
Refused(s, rel) ==
    LET sch  == Schemas[s.tab]
        hits == Passing(rel, s.where)
        c    == s.arg[1]
    IN  CASE s.kind = "insert" ->
               \/ Len(s.arg) # Len(sch.cols)
               \/ \E d \in ColNos(sch) :
                     LET v == Value(sch.cols[d], s.arg[d])
                     IN  \/ LitRefused(sch.cols[d], s.arg[d])
                         \/ v = BadVec
                         \/ v # Null /\ MustBeUnique(sch.cols[d]) /\ Taken(rel, d, v)
          [] s.kind = "update" ->
               \/ c \notin ColNos(sch)
               \/ \E w \in s.where : BadClause(sch, w)
               \/ LitRefused(sch.cols[c], s.arg[2])
               \/ /\ hits # {}
                  /\ LET v == Value(sch.cols[c], s.arg[2])
                     IN  \/ v = BadVec
                         \/ /\ v # Null /\ MustBeUnique(sch.cols[c])
                            /\ Cardinality(hits) > 1 \/ Taken(rel \ hits, c, v)
          [] OTHER -> \E w \in s.where : BadClause(sch, w)

\* What a statement that is not refused makes of the relation.
Meant(s, rel) ==
    LET cols == Schemas[s.tab].cols
        hits == Passing(rel, s.where)
    IN  CASE s.kind = "insert" ->
               rel \cup {[id |-> tabs[s.tab].seq,
                         cells |-> [c \in DOMAIN s.arg |-> Value(cols[c], s.arg[c])]]}
          [] s.kind = "update" ->
               (rel \ hits) \cup
               {[row EXCEPT !.cells[s.arg[1]] = Value(cols[s.arg[1]], s.arg[2])] : row \in hits}
          [] OTHER -> rel \ hits

\* NULL for a column of a table without a null bitmap.
NullLost(s) ==
    LET sch == Schemas[s.tab]
    IN  /\ ~sch.nullmap
        /\ \E c \in ColNos(sch) :
              \/ s.kind = "insert" /\ c \in DOMAIN s.arg /\ Value(sch.cols[c], s.arg[c]) = Null
              \/ s.kind = "update" /\ c = s.arg[1] /\ Value(sch.cols[c], s.arg[2]) = Null

\* An UPDATE that leaves a row the UNIQUE VECTOR it has.
KeepsVector(s, rel) ==
    LET sch == Schemas[s.tab]
    IN  /\ s.kind = "update"
        /\ \E c \in ColNos(sch) :
              /\ c = s.arg[1] /\ sch.cols[c].type = "vector" /\ sch.cols[c].unique
              /\ \E row \in Passing(rel, s.where) : row.cells[c] = Value(sch.cols[c], s.arg[2])

\* Row `row' is `meant' but for its nulls.
NullsAside(row, meant) ==
    /\ row.id = meant.id
    /\ \A c \in DOMAIN meant.cells : meant.cells[c] \in {row.cells[c], Null}

----------------------------------------------------------------------------
(* Properties. *)

\* Types of the variables: roots are 0 or pages of the file, tables have the
\* names they were created with, rowids do not run backwards past 1.
TypeOK == /\ store.head \in 0 .. Len(store.pages)
          /\ Len(store.pages) < MaxPages
          /\ DOMAIN tabs \subseteq Names
          /\ \A n \in DOMAIN tabs : /\ tabs[n].root \in 0 .. Len(store.pages)
                                     /\ tabs[n].seq \in 1 .. Cardinality(Keys) + 1
          /\ last.rc \in {0, -1}
          /\ splits \in 0 .. MaxSplits

\* No two rows of a table agree on its key or on a UNIQUE column: what
\* docs/sql.md says of "ERR duplicate primary key".  It fails after a split,
\* when the check no longer reaches every leaf.
RowsDiffer(rel, c) ==
    LET vals == {row.cells[c] : row \in rel} \ {Null}
    IN  Cardinality(vals) = Cardinality({row \in rel : row.cells[c] # Null})
KeysUnique ==
    \A n \in DOMAIN tabs :
       \A rel \in {Rel(store, tabs, n)}, c \in ColNos(Schemas[n]) :
          MustBeUnique(Schemas[n].cols[c]) => RowsDiffer(rel, c)

\* While every leaf is linked, no statement makes two rows agree on a unique
\* column: not an insert, not an update of one row or of several.
UniqueKept == Linked /\ KeysUnique => KeysUnique'
UniqueKeptWhileLinked == [][UniqueKept]_store

\* A statement on the rows of a table whose leaves are linked.
OnRows == /\ last'.kind \in {"insert", "update", "delete"} /\ Known(last'.tab)
          /\ Linked /\ KeysUnique
RelBefore == Rel(store, tabs, last'.tab)
RelAfter == Rel(store', tabs', last'.tab)

\* While the leaves are linked, INSERT, UPDATE and DELETE refuse what SQL
\* refuses, change no row then, and else do to the relation what SQL says, with
\* three exceptions.  Setting a UNIQUE VECTOR to the value it has may be refused
\* (KeptVectorIsAccepted).  NULL for a column without a bitmap is refused by
\* UPDATE, and INSERT may store another value for it, in the row it adds
\* (NullIsKept).  Without two pages left a statement answers OK for rows it
\* could not store, and DELETE fails, but each row is then as it was or as it
\* was meant to be.
RowsAsMeant ==
    OnRows =>
        LET s    == last'
            rel  == RelBefore
            rel2 == RelAfter
            all  == Meant(s, rel)
        IN  IF Refused(s, rel) THEN s.rc = -1 /\ rel2 = rel
            ELSE /\ PagesLeft >= 2 /\ s.rc = -1 => KeepsVector(s, rel) \/ (s.kind = "update" /\ NullLost(s))
                 /\ s.rc = -1 => rel2 = rel
                 /\ s.rc = 0 /\ PagesLeft >= 2 => Ids(rel2) = Ids(all)
                 /\ s.rc = 0 =>
                       IF NullLost(s)
                       THEN rel \subseteq rel2 /\ \A row \in rel2 : \E m \in all : NullsAside(row, m)
                       ELSE \/ rel2 = all
                            \/ /\ PagesLeft < 2
                               /\ rel2 \subseteq rel \cup all /\ Ids(rel) \cap Ids(all) \subseteq Ids(rel2)
StatementsMeanWhatSqlSays == [][RowsAsMeant]_vars

\* Setting a UNIQUE column of a row to the value it has is no duplicate
\* (exec_write.c:84 "nk==1: check if new value differs from current and already
\* exists elsewhere").
KeptVectorIsAccepted ==
    [][OnRows /\ PagesLeft >= 2 /\ ~Refused(last', RelBefore) /\ KeepsVector(last', RelBefore)
           => last'.rc = 0]_vars

\* NULL inserted is NULL in the row (docs/sql.md:9-10 "`NULL` is a value, not a
\* string", "unquoted `NULL` means null").
NullIsKept ==
    [][OnRows /\ PagesLeft >= 2 /\ last'.kind = "insert" /\ last'.rc = 0
           => RelAfter = Meant(last', RelBefore)]_vars

\* A page is lost only by CREATE INDEX, which throws away the root of the tree
\* it creates, one page a call, or by a statement that ran out of pages.
Lost(st, ts) == PageNos(st) \ (FreeSet(st) \cup UNION {Reachable(st, ts[n].root) : n \in DOMAIN ts})
LosesPages ==
    Cardinality(Lost(store', tabs')) <=
        Cardinality(Lost(store, tabs)) + IF last'.kind = "index" \/ PagesLeft < 2 THEN 1 ELSE 0
OnlyIndexLosesPages == [][LosesPages]_vars

=============================================================================
