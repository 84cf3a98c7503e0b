# ReScaleDB in TLA+

Specifications of ReScaleDB (an embedded SQL database: mmap-backed pager, B+Tree,
transactions, SQL executor), model-checked with TLC and, where it pays, proved with
TLAPS. Source paths below are relative to the repository; the sources are
`src/core/*.c` and `src/core/sql/*.c`.

## The system

| component | state | operations | interacts with |
|---|---|---|---|
| Pager (`pager.c`) | one mapping: header (page_count, freelist_head, root_pageno, txn_id) and pages; free pages are linked through their first 8 bytes | open, open_mem, close, get, alloc, free, sync | everyone shares the one `Pager` of a process |
| B+Tree (`btree.c`) | nodes in pages; a tree is a root page number kept by its caller | create, search, insert, delete, scan | pager_alloc and pager_free on every write; leaves linked by next_leaf |
| Transactions (`txn.c`) | a root page number per handle, root_pageno in the header | begin_read, begin_write, commit, abort | B+Tree through `Txn.root`; the SQL layer does not use them |
| Database, catalog (`sql/db.c`) | tables with root, rowid_seq and columns; a copy from offset 64 of page 0 | open, init, exec, close | saves the catalog after a statement that succeeded, then syncs |
| DDL, INSERT, UPDATE, DELETE (`sql/exec_ddl.c`, `exec_insert.c`, `exec_write.c`) | the tables of `Db` | one statement each | tree operations and leaf-chain walks of their own |
| SELECT, aggregates, results (`sql/exec_select.c`, `exec_query.c`) | buffers of one call | one statement each | btree_scan |
| Row format, predicates, vectors (`sql/exec_util.c`) | none | encode, decode, compare, replace a column | used by the executors |
| Dump and load (`dump.c`) | files | pager_save, pager_load | replaces the pager's mapping |
| Parser (`sql/parser.c`) | none | text to statement | db_exec |
| Debug, libs, arch, shell, bindings | none that others read | | |

The program is single-threaded C called through a library: there is no scheduler, no message
and no retry. What is hard here is of another kind: allocation that fails in the middle of an
operation, pages freed by hand on every path, page numbers kept across a free (parent entries,
next_leaf, a reader's root, a catalog on disk), long legal call sequences, and crashes between a
tree operation and the catalog that names its result. PROJECT.json lists each hazard at its line.

What makes each component correct:

- Pager: every page is free or in use and only one of the two; the linked list is exactly
  the free pages; a page in use is changed by nobody else.
- B+Tree: it is a map; no page is in a tree and on the free list; no page is lost; a call
  changes the path to its leaf only; scans yield what searches find.
- Transactions: a reader sees one committed state, a writer its own changes, an abort
  nothing.
- Database: after a crash the catalog leads to whole trees; a failed statement is undone or
  at least leaves the tables readable; uniqueness holds.
- Statements: each does to the rows what SQL says or refuses and changes nothing.
- Row format and queries: they agree with their SQL reading, and every query ends.

## Modules

    PageStore      the page file as a value; pager_alloc, pager_free as operators
     |- Pager      formatting, alloc, free, client writes     -- implements --> PageAllocator
     |   |- PagerProofs   theorems (TLAPS)
     |   `- MCPager       bounds
     |- PageStoreProofs   lemmas about recursion, folds, sets and sums, then about stores (TLAPS)
     `- BTreeOps   btree.c as operators on a store
         `- BTreeView     contents, reachable pages, free list; what a history may leave out
             |- BTreeLemmas   what the operators do to pages, order and map, with PageStoreProofs (TLAPS)
             |- BTree     histories of tree calls             -- implements --> KVMap
             |   |- BTreeProofs   theorems, with BTreeLemmas (TLAPS)
             |   `- MCBTree
             |- Txn       transactions around the tree
             |   |- TxnProofs     theorems, with BTreeLemmas (TLAPS)
             |   `- MCTxn
             `- Table     SQL statements on trees of rows (with RowFormat)
                 |- TableProofs   theorems, with BTreeLemmas (TLAPS)
                 `- MCTable
    RowFormat      rows: encoding, cells, replacing a column, comparison
     |- Table
     `- Select     exec_select and db_query, step by step
         |- SelectProofs  theorems, with PageStoreProofs' lemmas on recursion (TLAPS)
         `- MCSelect
    FileDb         the database and its file: catalog, sync, crash, DUMP, LOAD (on PageStore)
     |- FileDbProofs   theorems, with PageStoreProofs (TLAPS)
     `- MCFileDb

**PageStore.** A store is `[head, pages]`; positions of `pages` are page numbers, page 0 is
the header. A page is `[word, rest]`: `word` is its first 8 bytes, which pager.c reads as the
link of a free page and btree.c as is_leaf, nkeys and free_off, so both readings of one page
are in the model. `PagerAlloc` pops the list, else grows, else (at `MaxPages`, standing for a
refused ftruncate or mmap) returns page 0.

**Pager.** The variables `store` and `fmt` (the formatting loop of pager_open and
pager_open_mem) are the code's; `owned` and `stack` are auxiliary. A client frees only pages it
holds and may write any word into them. `PageAllocator` is the promise without a linked list: a
stack of free pages, a set of pages held, growth as the last resort.

**BTreeOps.** One operator per function, and one per branch of btree_insert: `ReplaceInPlace`,
`ReplaceRebuild`, `InsertFits`, `InsertSplit` with `SplitRoot` and `SplitBelow`. The order of
allocations and frees is the code's, because a page freed is the next one allocated. Sizes are
abstract (`Size`, `LeafCap`, `BranchCap`); the entry order of a node is kept, its byte layout
is not. A free page read as a node has no entries, and is a leaf or a branch by the lowest byte
of its link, as in the code. `Fault` marks what has no defined outcome: a page number that is
no page, and the header initialised as a node. `leaf_search` appears as its result (`SlotOf`).
The copy of a page into a smaller local `BNode` (btree.c:189) is taken to touch dead storage
only, as it does in the builds of the Makefile.

**BTree.** One tree (`root`) in a file other trees share (`other`), `op` the last call and its
answer. One action per call, each the whole call. `KVMap` is the promise: a map, calls that put
or remove one key, failing calls that change nothing. The refinement maps `map` to the contents
by btree_search.

**Txn.** A handle is `[active, isWrite, root]`; the actions are the four calls of txn.c and the
tree's insert and delete on a writer's root, so that calls of different transactions interleave
in every order. `seen`, `wrote`, `overtaken` and `committed` are auxiliary and say what a
transaction should see.

**RowFormat.** A row is `[map, body]`: the null bitmap and the fields, in units (an INT is
`IntLen` units, a TEXT its length and its units, a VECTOR one per dimension), so that finding a
column means walking the fields before it, as in row_col_ptr (`RowColPtr`). Values are numbers whose order is the
order of the comparisons. There are two formats: tables of images older than version 3 have no
bitmap.

**Table.** One action per statement, each the whole of exec_insert, exec_write or exec_ddl's
branch, with btree calls from BTreeOps and the leaf walks of exec_util.c and exec_write.c along
next_leaf. `last` is the statement and its answer. Four assumptions say what schemas and literals are:
rowids count from 1, tables of old images have no UNIQUE and no VECTOR (their formats had none), a
literal gives its column a value the column can store, and the rows such literals make are values of
the trees. The properties compare the tables' relations,
the rows on the leaves of a tree however they are linked, before and after. `Refused` and `Meant` are
what SQL says, not what the code does: a value a row already has is no duplicate, NULL is NULL. Where the
code differs, StatementsMeanWhatSqlSays names the exception (`KeepsVector`, `NullLost`), a
property without it stands beside (KeptVectorIsAccepted, NullIsKept), and only what the exception
concerns is left open.

**Select.** The scan, both exchange sorts, the aggregates and the projection of one query, a step
per row scanned or pair compared. `api` tells exec_select and db_query apart. Cells are read by
comparisons and aggregates as the code reads them, printed and parsed again (`Read`), sums wrap in
the width of numbers (`Wrap`), division is C's (`Quot`). Three named assumptions say what tables and
queries are: rows over the schema's columns, vectors with a distance, column numbers that are
integers; none says that a column exists, which the checks before the scan find out. RowsAnswered compares the cells asked for, not their printed form, so a DISTINCT that merges
different rows is wrong in it; the code's printing NULL as a text is excepted where a text NULL meets a
NULL (`NullStandsOut`), db_query's AVG of a TEXT (`AverageOfText`) and tables with more matches than the
scan keeps are excepted from AggregateAnswered, and each
exception has a property without it beside (DistinctTellsNull, AverageOfNumbers, CountsAllRows).

**FileDb.** An image is page 0 with its catalog, and the pages mapped, of which there may be more
than page_count says. A table's tree is one leaf holding the number of changes. A statement is the
copy of the leaf, the free of the old one, btree's msync, the catalog and db_exec's msync; a crash
can come between any two, and a power failure keeps any subset of the dirty pages. `told` is what SQL
last answered for each table (rows, columns, row format); it goes with the mapping into the file
(`WriteFile`) and the dump, and never forgets an answer because the code did: when a detached mapping
is dropped (`LeaveMapping`), what SQL said stays and the tables the file has otherwise are hurt.
`mishaps` records what a history has been through: a crash, a statement that failed half way, a
detached mapping dropped. `hurt` names the tables one of these may have damaged, worked out from
`touched` (changed since the last msync) and `unsaved` (tree not in the catalog); TablesAsTold says that
without a mishap it is empty. `wild` ends a history whose mapping is no longer what the Pager says (a
dump cut short is loaded, a catalog runs into page 1, a detached or over-long mapping grows): what
follows is undefined in the code.

## Runs

| run | question | bounds | result |
|---|---|---|---|
| Pager | is the linked list a stack of exactly the free pages, and does it implement PageAllocator? | stores of 3 or 4 pages growing to 6; client words: a node header, a link, the end of the list | holds |
| BTree | is the tree a map, with pages freed once and lost only by failing calls? | 5 pages, 3 keys, values of size 1, 1 and 2 in leaves of 4, one other tree, one split | holds |
| BTreeSecondSplit | is a page always a node or free, not both? | 7 pages, 4 keys, two splits | fails |
| BTreeOverfill | does a replacement leave other keys alone? | as BTree, with replacements that overfill | fails |
| Txn | do readers and writers see what they should while calls do not overlap? | 2 handles, 3 keys, one value, leaves of 2, 5 pages, one split | holds |
| TxnSnapshot | does a reader keep its snapshot? | as Txn, with two values | fails |
| TxnAbort | does an abort keep the committed data? | as TxnSnapshot, with aborts of writers that wrote | fails |
| Table | do statements refuse and do what SQL says (but for a vector set to the value it has, and NULL without a bitmap), and keep unique columns unique? | 3 schemas, 1 table a history, 4 rowids, leaves of 2 or 3 rows, 6 pages, one split | holds |
| TableUnique | is a key ever in two rows? | as Table | fails |
| Select | are the rows kept, their order, the answer and the aggregates over them right (but for NULL and 'NULL' under DISTINCT, and AVG of a TEXT), and does every query end? | tables of up to 4 rows of 4 kinds, 3 rows kept, numbers of 3 bits | holds |
| FileDb | without a mishap, is every table as SQL last said (but for the columns of a table of 16); with crashes, statements failed half way and dropped mappings, is every table they did not touch? | 5 statements, 2 tables and one of an old dump, 5 pages | holds |
| FileDbDetached | is what was answered on a file in the file, after LOAD too? | as FileDb | fails |

Why the bounds are enough. Pager: the list is empty, has one page and several; the file grows
twice and then refuses. BTree: five pages are two more than a split tree of three pages needs,
so a call finds two, one or no free page depending on the other tree and on pages lost before,
and every allocation of every call fails in some history; three keys give a leaf with a key on
each side of the one that changes; size 2 in leaves of 4 makes replacement, insertion with room
and split all happen, and no half of a split overflows. Txn: leaves of two make the third
key split, after which every change copies a leaf and its parent; lost root pages of aborted
writers use up the file, so that calls fail half way, also on leaves a reader still needs. One
value is enough there, since what is written over a value matters to the two failing runs only.
Depth is bounded by MaxDepth = 3; trees
reach depth 2.

Table: four rows in leaves of two or three split a leaf and refill both halves, six pages make
INSERT and UPDATE run out of pages half way, the WHERE sets select no row, some, and all, and the
literals include NULL, DEFAULT, a duplicate, a wrong number of values and a vector that does not
fit. MaxTables = 1 separates the three schemas, whose trees do not touch each other (BTree's
OtherTreesUntouched). Select: four rows of a table against three kept make the limit bite; a row
kind has a null in each column and one equals another up to its null; the smallest number has a
table of its own. FileDb: two tables of 14 and 16 columns fill the catalog, the second with as many
columns as a table may have, and the old dump's third table overflows it; five statements are enough to
grow the file, load a shorter or a longer dump and go on. A power failure takes pages as a whole; the
length of the file and the dump survive it.

Fairness. Only Select states any: `WF_vars(Next)`. A query is one call on one thread, nothing else
runs and every step is the call's own, so the only assumption is that a running call goes on.
The other modules make no liveness claim: nothing in the library must eventually be called.

Two restrictions keep histories inside what the tree supports, and each is lifted by a
violation run: at most `MaxSplits` leaf splits, and no replacement that overfills a leaf.
Txn has both and a third, `AbortWritten`. Table has both and ends a history whose leaf chain leads
through a branch page, to rows on a page that is not the table's, or in a cycle (`ChainReadable`): after
a split the chain can keep a freed page, and what a walk reads once that page is used again belongs to
another tree or to no row. Histories that fault (`Fault`) end there.

`MCView` drops the entries left on free pages and the last call, which no action reads;
symmetry is over values of one size (BTree) and over handles (Txn), which the operations do not tell apart.
The runs of BTree, Txn, Table and FileDb set CHECK_DEADLOCK FALSE because a history may end in a
fault, in a wild mapping, or with nothing allowed by the bounds; that of Select because an answered
query is the end.

### What the failing runs show

- **Second split** (btree.c:300, 313, 339). The divided leaf is freed, the copy of its parent is
  allocated on that very page, and then the leaf is freed again: the new root is on the free
  list. docs/file-format.md:22 says pages are nodes *or* free pages.
- **Overfilling replacement** (btree.c:199-207). The rebuilt leaf silently drops entries.
- **Readers** (txn.c:3-5 with btree.c). README.md:15 promises MVCC; an uncommitted insert empties a
  reader's root by freeing it, or overwrites it in place, and later calls reuse it.
- **Duplicate keys** (exec_util.c:146 with btree.c:240). After a split, a change of the right leaf
  takes it off the next_leaf chain; the uniqueness check no longer sees its rows, and INSERT accepts
  their keys again, where docs/sql.md:125 promises an error.
- **Abort** (txn.c:20). Nothing is restored: root_pageno leads to a page that is free or reused.
- **Detached mapping** (dump.c:51). LOAD of a dump longer than the file replaces its shared mapping by an
  anonymous one; nothing answered from then on, the LOAD included, is in the file, where
  docs/file-format.md:40-41 says every statement is synced.

### Exceptions of the properties

Where the code does otherwise than the docs say in a way that ends a history (`wild`) or that a property
has to leave out, the module states what the docs say as a property of its own. It holds of no run above.
Each has a configuration that shows it fail (`tlc -config TableVector.cfg MCTable`, and so on), so that
the exception can be tried and, when the code is mended, dropped.

| configuration | property | what the code does |
|---|---|---|
| TableVector | KeptVectorIsAccepted | UPDATE compares printed cells, and no literal is a printed vector: a UNIQUE VECTOR set to the value it has is refused as a duplicate of itself (exec_write.c:91, against its comment at 84) |
| TableNull | NullIsKept | in a table of an old image INSERT of NULL answers OK and stores 0 or the empty text (exec_insert.c:67; docs/sql.md:9-10) |
| SelectDistinct | DistinctTellsNull | rows are compared as printed: NULL and 'NULL' are one row (exec_select.c:265; docs/sql.md:9, 151) |
| SelectAverage | AverageOfNumbers | db_query checks the column's type for SUM only, and answers AVG of a TEXT (exec_query.c:123; docs/sql.md:175-176) |
| SelectCount | CountsAllRows | COUNT counts what the scan kept, 256 rows at most (exec_util.c:258; docs/sql.md:174) |
| FileDbFailed | RootsAreTrees | when a statement fails half way the tree has moved and its old root is free; the pages are synced, the catalog is not saved, not by db_close either: on opening, the root is a free page (db.c:98-106; docs/file-format.md:37) |
| FileDbPageCount | PageCountIsMapped | LOAD of a dump made before the database grew leaves the mapping longer than page_count; pager_alloc then grows by page_count and copies by the mapping's length (dump.c:63; docs/file-format.md:17) |
| FileDbShortDump | DumpIsWhole | a write that fails ends pager_save, which returns 0 (dump.c:38; docs/file-format.md:5) |
| FileDbCatalog | CatalogInHeader | nothing keeps the catalog from running over the end of page 0 into page 1 (db.c:6; docs/file-format.md:22, 27) |
| FileDbColumns | ColumnsAreKept | clearing the last of 16 columns when the catalog is read also clears the number of columns (db.c:46; docs/file-format.md:30) |

## Proofs

PagerProofs proves, for every `MaxPages`, every set of initial page counts above 1 and every set
of words clients write (the three named assumptions are all it uses):

- `PagerInvariant`: `Spec => []PagerInv`, where `PagerInv` is `TypeOK`, `FreeListLinksStack` and
  `PagesPartitioned` together. None of the three is inductive alone: that a link leads to a page
  needs the list to be the stack, that the list stays the stack under a client's write needs the
  partition, and the partition after a pop needs the list. The three are stated as theorems of
  their own from it.
- `PagerImplementsAllocator`: the step simulation onto PageAllocator, one case per action.
- `PagerKeepsClientPages` and `PagerGrowsLast`: the two action properties.

The proof has one lemma per action (`FormatStep`, `FreeStep`, `AllocStep`, `WriteStep`) over two
lemmas about the list: freeing keeps the links (`FreeKeepsLinks`), popping keeps them
(`PopKeepsLinks`).

SelectProofs proves, for every schema, set of tables, set of queries, `RowLimit`, `IntMax` and
`Dist` (assumptions `LimitAssumption`: the limit is positive and no larger than the largest number;
`RowsAssumption`: tables are sequences of rows over the schema's columns, with a distance for each
vector; `QueriesAssumption`: the parts of a query have their types, and an aggregate other than COUNT
has a column), every safety property its run checks:

- `SelectInvariant`: `Spec => []SelectInv`, the conjunction of types (`TypeInv`: the rows kept are
  rows of the table, with a vector when NEAR asks for one), what the checks establish
  (`ColumnsChecked`), the array bounds (`InArrays`) and `SortInv`. SelectionInOrder speaks of the
  moment of the answer only; `SortInv` says how far a sort has come: the places before `i` are final,
  and place `i` precedes those it has been compared with (`PlacedUpTo`).
- `SelectionComesInOrder`: SelectionInOrder, from it.
- `SortsStayInArrays`: at most `RowLimit` rows, and loop variables that index only those.
- `PickInvariant` and `SelectionIsExact`: SelectionExact. `PickInv` says that the rows in the array
  are dealt from positions of the table (`Dealt`: each place holds the row of one position, no two
  places the same one), so that an exchange changes the deal and not the positions. The positions are
  those chosen, the first `RowLimit` of the ones that pass (`Chosen`), until the k nearest are cut
  from a sorted array; then what was cut is not nearer than what is left.
- `AnswerInvariant`, with `RowsAreAnswered` and `AggregatesAreAnswered`: RowsAnswered and
  AggregateAnswered. That the code compares printed cells for DISTINCT and the property the cells
  themselves takes a lemma (`ShownAlike`): printing tells cells apart unless a text NULL meets a NULL. Over the rows
  kept, aggregates are proved always; they are those of the rows selected as long as the scan keeps all.
- `TypesHold`: TypeOK, the value answered included.

The heart of the sorts is `ExchangePlaces`, about sequences alone: one comparison with its exchange
places one row more, for any strict weak order. That both comparisons are one (`ByOrderWeak`,
`ByDistanceWeak`) is where nulls and the smallest number come in, and where the checks before the scan
are needed. The answer is made by folds, over rows and over finite sets of positions. PageStoreProofs unfolds
them into steps (`OverSequence`, `OverSubsets`, on `Iterates`: recursion up to a number, with a function
for the step); DISTINCT is followed with what is kept of the first m rows (`Different`), MAX and MIN
with the rows seen, and sums by congruence: a wrapped sum differs from the sum by a multiple of the
modulus (`WrapMod`), so it is the sum when that fits.

The proofs found the model ambiguous in one place. TLA+'s CASE picks any arm whose guard holds; TLC
takes the first. The arms of Width, Cell and CellPasses (RowFormat) and of Select's aggregates
overlapped with different values, so the runs checked one reading and the formula allowed others.
They are nested conditions now, in the order of the code's tests.

FileDbProofs proves, for every `MaxPages`, number of new pages, set of table names and of columns,
size of the catalog, number of statements and set of dumps of older versions (assumptions
`MaxPagesAssumption`, `ColsAssumption`, `FileAssumption` and `DumpAssumption`: an old dump is whole,
has a table, and has a free list and a leaf of its own for each table):

- `FileDbInvariant`: `Spec => []FileDbInv`.
- `TablesStayAsTold`: TablesAsTold. Between statements every table that is not hurt is as SQL last said,
  and as long as there was no crash, no statement failed half way and no detached mapping dropped, none
  is hurt. Tables of 16 columns are included, with what the code keeps of them: all but their columns.
- `NoPageIsTwice`: unless a table is hurt, the free list ends, and no page is on it and in a table, or in
  two tables.
- `FileDbTypes`: TypeOK.

TablesAsTold speaks of the mapping between statements, but four things become the mapping: the file,
the dump, the mapping itself after the end of the process, and a mixture of the mapping and the file
after the machine's. `FileDbInv` has a conjunct for each. `MapInv` says it of the mapping, also inside
a statement; `FileInv` and `DumpInv` say that what SQL was told when the file was synced or the dump
written can be restored from it (`Restorable`); `MixInv` says how far the file and the mapping agree,
so that any mixture can be restored: on every table no running statement has changed (`FileAgrees`),
and wholly but for the free list of an empty database when there is none (`FilesAlike`). An empty
database is apart because a power failure while it is formatted leaves page links of any mixture; only
pages of the formatting can then be free (`Bare`). `StepInv` says where a statement is. A table read
back has lost its columns when it had all 16, so mapping, file and dump are compared with `told` up to
those (`SameCols`, `AllTold`, `ReadBack`). `HarmInv` is the part about mishaps: while there was none, no
table of the mapping or the dump is hurt, nor of the file between statements, and every table's tree is
in the catalog once a statement has saved it. The lemmas the
actions rest on are `TableChanged` (a statement that changes one table keeps the others' pages, and the
free list), `PageWritten` (the same, before the tree is the table's), `MappingRestorable` and the
lemmas on mixtures; the walk of the free list is tied to a sequence of pages by `WalkFacts`. The
library's induction theorems cannot be used (their parameter is an operator): induction over a list
takes the least position that fails.

BTreeProofs, on BTreeLemmas, proves, for every `MaxPages`, number of free pages at the start, set of keys
and of values, sizes, node capacities, depth and number of other trees (assumptions
`MaxPagesAssumption`, `NodeAssumption`, `KeysAssumption`, `SizeAssumption` and `StartAssumption`), and
for histories of at most one leaf split (`MaxSplits <= 1`: with the second the page file breaks, which
the run BTreeSecondSplit shows, so nothing more could be proved of the code as it is):

- `TreeInvariant`: `Spec => []TreeInv`.
- `TypeCorrect`, `LiveOrFree`: TypeOK and NoPageLiveAndFree.
- `OthersUntouched`, `PathOnly`, `LeakOnlyWhenFailed`, `FaultOnlyIfFull`: the action properties on
  other trees, pages off the path, lost pages and faults.
- `SearchTreeKept`: SearchTree, also after replacements that overfill a leaf.
- `ScanExact`: ScanIsExact, a scan yields what searches find while the leaves are linked.
- `LinksBreakOnRightLeaf`: LinksBreakOnlyOnRightLeaf, so a scan goes wrong only after a call on the
  second leaf.
- `TreeImplementsMap`: the step simulation onto KVMap, when no replacement overfills a leaf (the run
  BTreeOverfill shows it fails otherwise) and `HalvesFit`. A split divides entries by number, so a half
  of large values can exceed a page and lose entries (hazard at btree.c:296); `HalvesFit` says that
  Size and LeafCap leave no such leaf, and `EqualSizesFit` proves it for values of one size.

NoPageLiveAndFree is not inductive: a page off the free list may hold anything, and a walk from the
root may then go anywhere. `TreeInv` says that the pages in use are those that hold a node and the
free list is made of exactly the others (`Good`), and that the tree is empty, a leaf, or a root over two
leaves with pages of its own (`SmallTree`). A call allocates, writes and frees several pages with the
store in between in no such state, so the operators are followed with a set of pages in use,
`Owned(st, U)`, that is not read off the pages: `OwnAlloc`, `OwnSet`, `OwnFree` and `OwnCopy` say
what each primitive does to it. From these come one lemma per branch of the code (`InsertFitsOutcome`,
`InsertSplitOutcome`, `DeleteOutcome`, ...), what it means for the pages of the tree (`Rewritten`) and for
its entries (`Edited`, `Forked`), and one lemma per action. `FreeSetOfGood`, `PathOfTree` and
`ReachableOfTree` compute the recursive walks of such a store.

`SearchInv` adds to `TreeInv` that the entries are in order (`Ordered`). Its lemmas are about lists of
entries: `InsertSorted`, `OverwriteSorted`, `RemoveSorted`, `RebuildSorted` and `HalvesSorted` say
what becomes of the order, the set and the room (`Fill`, a recursive sum) of a sorted leaf. The
refinement looks at the entries under one key (`Under`), which `EditedUnder` and `ForkedUnder` follow
through a call and `SearchUnder` ties to btree_search. For scans, `ChainFacts` says that the chain is a
walk along next_leaf from the leftmost leaf that ends, and `LinkedChain` that a chain whose pages are
the leaves takes them in key order. That the last leaf has no next leaf is invariant (`LastHasNone`),
and then the leaves are linked exactly when the first leads to the second (`ChainOfLinks`).

TxnProofs proves, for every `MaxPages`, number of free pages at the start, set of handles, of keys and
of values, sizes and node capacities (assumptions `MaxPagesAssumption`, `NodeAssumption`,
`KeysAssumption`, `SizeAssumption` and `TxnAssumption`), for histories of at most one leaf split whose
halves fit (`HalvesFit`, as above; the values of the run have one size) and in which no writer that
changed the tree aborts (`~AbortWritten`, which the run also sets; TxnAbort shows what such an abort
does to the committed tree):

- `TxnInvariant`: `Spec => []TxnInv`.
- `TxnTypes`: TypeOK, with the roots of ended handles: it rests on the file never getting shorter,
  whatever a call returns (`FileAlloc` to `FileDelete`).
- `CommittedIsVisible`, `OwnWritesSeen`: while nothing is uncommitted the header leads to what was
  committed, and a writer sees that with its own changes.
- `ReadersKept`: a reader sees what was committed when it began until a writer's call succeeds.
- `LostOnlyByAbortOrFailure`: PagesLostOnlyByAbortOrFailure.

`TxnInv` says of each root that somebody may still read that it is a small, ordered tree with the map
it should stand for (`TreeAs`): the writer's (`WriterTree`), the header's while nothing is uncommitted
(`CommittedTree`), and that of a reader no write has overtaken (`ReaderTree`). These are one tree until
the writer's first successful call, or two, one of them empty, when btree_create has made a root for a
writer on an empty database (`UnchangedRoot`). The call that succeeds frees pages that the header and
the readers still lead to, and that is when their conjuncts stop to speak. Calls that fail are the
hard case: an insert that runs out of pages has allocated and written some already. It leaves the
pages in use and the tree as they were (`Kept` and `Same` in BTreeLemmas), hence the map (`SameAs`), and
`BeginWriteInv`, `InsertCalled` and `DeleteCalled` carry this to each handle. For lost pages, nobody has the pages that hold nodes but are
not in the tree in use (`LostOutside`), and `LostPages` computes Lost so in every state of the
invariant.

PageStoreProofs holds what these share: `Iterates` and `Upwards`, recursion and induction
up to a number by the least one that fails, with a function for the step where the library has an
operator; folds, finite sets and sums; the walk of a free list (`WalkFacts`); and what pager_alloc and pager_free do to a store
of pages of any kind.

TableProofs, on BTreeLemmas, proves, for every `MaxPages`, number of free pages at the start, set of
rowids, of schemas, of literals and of WHERE clauses, row and node sizes, `MaxTables` and `MatchMax`
(assumptions `MaxPagesAssumption`, `NodeAssumption`, `KeysAssumption`, `SizeAssumption`,
`RowAssumption`, `RowidAssumption`, `BoundAssumption`, `SchemaAssumption` and `LitAssumption`), for
histories of at most one leaf split whose halves fit (`MaxSplits <= 1`, `HalvesFit`), every property
its run checks:

- `TableInvariant`: `Spec => []TableInv`.
- `TableTypes`: TypeOK.
- `IndexLosesPages`: OnlyIndexLosesPages.
- `TableUniqueKept`: UniqueKeptWhileLinked.
- `TableMeaning`: StatementsMeanWhatSqlSays, under two hypotheses more, which the run's constants
  satisfy too. `RowsFit`: every row the literals make fits the 1024 bytes a row is changed in. A row
  that does not fit is refused by row_replace_col in the middle of UPDATE's loop, after rows before it
  were changed, and exec_insert writes past its array (hazard at exec_insert.c:57). `LeafCap <
  MatchMax`: in histories of one split, two leaves then never hold more matches than the walk reads;
  the bound is tested between leaves only (hazard at exec_write.c:34).

The argument goes up in layers. *Rows*: a row is laid out as the joined fields of its cells
(`LaidOut`, on the library's FlattenSeq followed piece by piece), so that row_col_ptr, which adds up
widths it reads on the way, finds every field (`CellsRead`) and row_replace_col makes exactly the row
of the changed cells (`ReplacedRow`). *Trees*: a tree in order (`Stands`) is the set of its entries
(`Ent`); `PutDone` and `DropDone` say that btree_insert and btree_delete change one of them, or fail
and change none: an insert only with fewer than two pages left (`Left`), whatever it had allocated and
written by then, a delete only when none is left or the key is not there. *Loops*: UPDATE and DELETE
collect entries along next_leaf and then call the tree once for each, on a root that moves under them;
`SetSo` and `DropSo` say what the first m turns have made of the entries, also when one of them found
no page. *Tables*: `TableInv` says that each table's tree is in order, with keys that are rowids
already given out and rows that encode cells the literals can make, that no two tables share a page
(`AllOk`), and, before any split, that each tree is one leaf at most (`AllWhole`). TypeOK follows. Lost
pages are those that hold nodes outside all trees (`Astray`), and are counted through each statement.
*Relations*: `RelOf` reads a table's relation from its entries; a unique column is one in which entries
that agree are one (`Alone`), and while the leaves are linked the walk of col_value_exists sees
every entry (`SeesAll`). Uniqueness is not an invariant (TableUnique shows it fails once a leaf leaves the chain),
so it is proved of each step from a linked state. `AsMeant` compares relations before and after with
`Refused` and `Meant`, one lemma per statement.

The proofs changed the model in three places. RowColPtr is a recursive function instead of a fold over
positions; what a walk keeps of a leaf is an operator of its own (`Matches`); and ChainReadable leaves
out histories in which a walk reads rows of a page that is not the table's, where the uniqueness check
answers by rows of another tree.

Every property a passing run checks is proved, except one. Liveness (Select's EveryQueryEnds) is out of
the prover's reach and only model-checked. What the recursive walks compute is proved for trees of
depth two only, as deep as the code builds them before the page file breaks.

## Plan

Done: PageStore, PageAllocator, Pager, PagerProofs, PageStoreProofs, BTreeOps, BTreeView, KVMap,
BTree, BTreeLemmas, BTreeProofs, Txn, TxnProofs, RowFormat, Table, TableProofs, Select, SelectProofs,
FileDb, FileDbProofs.

1. `LeafSearch`: the binary search of leaf_search as a state machine, proved correct for every
   sorted leaf.
2. Table with two tables in one file, and with MatchMax reached between leaves.

## Not modelled

The parser (a pure function; statements are the inputs of the modules), debug output, string and
memory helpers, system-call wrappers beyond "may fail", the shell and the bindings (marshalling),
the quantised vector encodings, the cosine and the printing of floats (floating point; a vector is
its identity, with a distance), the layout of printed tables, cossim conditions of UPDATE and
DELETE, several databases in one process (db_init and db_open share one static Pager), the limits
of sql.h on names and literals, and code without callers: pager_grow, btree_new_root_cow, lexer.c,
rsc_dump_all, rsc_load_all, rsc_dump_db, rsc_load_db. Byte layout inside a node is abstracted to
sizes. Hazards below this grain are listed without a property.
