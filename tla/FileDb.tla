------------------------------- MODULE FileDb ------------------------------
(***************************************************************************)
(* A database and its file: opening and formatting (pager_open), the steps *)
(* of a statement (db_exec: tree, catalog, msync), DUMP and LOAD           *)
(* (pager_save, pager_load), CREATE DATABASE, closing, and crashes between *)
(* any two of these steps.                                                 *)
(*                                                                         *)
(* An image is page 0, `hdr', with the catalog at offset 64 in it, and the *)
(* pages after it; there may be more of them than page_count says.  A      *)
(* table's tree is one leaf: its page holds <<table, number of changes>>.  *)
(*                                                                         *)
(* What SQL answered (told) is kept apart from what the code keeps, and    *)
(* what went wrong in a history is written down (mishaps).                 *)
(*                                                                         *)
(* Bounds: Budget statements; no statement while a table is hurt, and none *)
(* once the mapping is unreliable (wild); the length of the file and the   *)
(* dump survive a power failure, and pages do as a whole.                  *)
(***************************************************************************)
EXTENDS PageStore, FiniteSets, SequencesExt

CONSTANTS
    Names,     \* of tables a statement may create
    Cols,      \* columns of each of them
    MaxCols,   \* SQL_MAX_COLS
    CatRoom,   \* bytes of page 0 for the tables of the catalog
    NewPages,  \* pages of a new file after the header, 3 in the code
    OldDumps,  \* dump files of older versions that may exist
    Version,   \* RSC_VERSION
    Budget     \* statements in a history

ASSUME ColsAssumption == MaxCols \in Nat /\ Cols \in [Names -> 1 .. MaxCols]
ASSUME FileAssumption == /\ NewPages \in Nat \ {0} /\ NewPages < MaxPages
                         /\ Version \in Nat /\ Version >= 3
                         /\ Budget \in Nat

VARIABLES
    mode,    \* "closed", or what the mapping is: "file" (shared), "mem", or
             \* "detached" (anonymous although a file is open)
    img,     \* the mapping
    synced,  \* the file as it was last written back
    tables,  \* Db.tables
    dump,    \* the dump file: <<>> or <<image>>
    pc,      \* "idle", or inside an operation: "format", "leaf" (the copy is
             \* made), "written" (the tree), "done", "saved" (the catalog)
    cur,     \* [tab, pn] of the statement, or the next page to format
    wild,    \* the mapping is not what the Pager says
    left,    \* statements left
    told,    \* what SQL said: rows and schema of each table
    touched, \* tables changed since the last msync
    unsaved, \* tables whose tree is not in the catalog
    hurt,    \* tables that a mishap may have damaged
    mishaps, \* "crash", "failed" (a statement half way) and "detached" (such
             \* a mapping was dropped), those there were in the history
    onFile,  \* told and hurt for the file, while it is not the mapping
    inDump   \* told and hurt for the dump

conf == <<mode, img, synced, tables, dump, pc, cur, wild, left>>
ghost == <<told, touched, unsaved, hurt, mishaps, onFile, inDump>>
vars == <<conf, ghost>>

LeafWord == -1
NoImage == [hdr |-> [magic |-> FALSE, ver |-> 0, count |-> 0, head |-> 0, cat |-> <<>>], pages |-> <<>>]
NoTab == [tab |-> "", pn |-> 0]
Nothing == [told |-> <<>>, hurt |-> {}]

----------------------------------------------------------------------------
(* Images. *)

\* The page store within an image, and the image with a changed store in it.
Store(im) == [head |-> im.hdr.head, pages |-> SubSeq(im.pages, 1, im.hdr.count - 1)]
Extra(im) == SubSeq(im.pages, im.hdr.count, Len(im.pages))
Within(im, st) ==
    [hdr   |-> [im.hdr EXCEPT !.head = st.head, !.count = Len(st.pages) + 1],
     pages |-> st.pages \o IF Len(st.pages) + 1 = im.hdr.count THEN Extra(im) ELSE <<>>]

\* The header written by pager_open and pager_open_mem over n pages.
Header(n) == [magic |-> TRUE, ver |-> Version, count |-> n + 1, head |-> 0, cat |-> <<>>]

LeafOf(rows) == [word |-> LeafWord, rest |-> rows]

\* Mutant of Saved: the version of the header stays.
SavedSameVersion(im, ts) == [im EXCEPT !.hdr.cat = ts]

\* db_save_catalog
Saved(im, ts) == [im EXCEPT !.hdr = [@ EXCEPT !.cat = ts, !.ver = Version]]
CatSize(ts) == FoldSet(LAMBDA n, sum : sum + 60 + 128 * ts[n].ncols, 0, DOMAIN ts)

\* db_load_catalog: rows have a null bitmap since version 3; the last column of
\* MaxCols is cleared beyond its end, where ncols is.
Loaded(im) ==
    [n \in DOMAIN im.hdr.cat |->
        [root    |-> im.hdr.cat[n].root,
         ncols   |-> IF im.hdr.cat[n].ncols = MaxCols THEN 0 ELSE im.hdr.cat[n].ncols,
         nullmap |-> im.hdr.ver >= 3 /\ im.hdr.cat[n].nullmap]]

\* What a table of a mapping holds; root 0 is a tree not created yet.
Contents(im, ts, n) ==
    [rows    |-> IF ts[n].root = 0 THEN <<n, 0>>
                 ELSE IF ts[n].root \in 1 .. im.hdr.count - 1 /\ im.pages[ts[n].root].word = LeafWord
                 THEN im.pages[ts[n].root].rest ELSE <<>>,
     ncols   |-> ts[n].ncols,
     nullmap |-> ts[n].nullmap]

\* Every table's name, and what pages and catalogs hold.
Tabs == Names \cup UNION {DOMAIN old.hdr.cat : old \in OldDumps}
Page == [word : Int, rest : {ZeroRest} \cup (Tabs \X Nat)]
TabEntry == [root : 0 .. MaxPages - 1, ncols : 0 .. MaxCols, nullmap : BOOLEAN]
IsCatalog(ts) == DOMAIN ts \subseteq Tabs /\ ts \in [DOMAIN ts -> TabEntry]
IsImage(im) ==
    /\ im.hdr \in [magic : BOOLEAN, ver : 0 .. Version, count : 0 .. MaxPages,
                   head : 0 .. MaxPages - 1, cat : {im.hdr.cat}]
    /\ im \in [hdr : {im.hdr}, pages : Seq(Page)]
    /\ IsCatalog(im.hdr.cat)
    /\ Len(im.pages) < MaxPages

\* A dump of an older version is whole, and has a table: one without tables has
\* the pages of a new database.
ASSUME DumpAssumption ==
    \A old \in OldDumps :
        /\ IsImage(old) /\ old.hdr.magic
        /\ old.hdr.count = Len(old.pages) + 1 /\ old.pages # <<>>
        /\ DOMAIN old.hdr.cat # {}
        /\ \A n \in DOMAIN old.hdr.cat :
              LET root == old.hdr.cat[n].root
              IN  root # 0 => /\ root \in 1 .. Len(old.pages)
                              /\ old.pages[root].word = LeafWord
                              /\ old.pages[root].rest = <<n, old.pages[root].rest[2]>>
                              /\ old.pages[root].rest[2] \in Nat
        /\ \E k \in 0 .. Len(old.pages) : \E s \in [1 .. k -> 1 .. Len(old.pages)] :
              IsFreeList(Store(old), s)

\* Page pn (0 is the header) of a file as last synced, zero where it grew.
SyncedPage(pn) == IF pn = 0 THEN synced.hdr
                  ELSE IF pn <= Len(synced.pages) THEN synced.pages[pn] ELSE ZeroPage
Dirty == IF mode # "file" THEN {}
         ELSE {pn \in 1 .. Len(img.pages) : img.pages[pn] # SyncedPage(pn)}
              \cup IF img.hdr # synced.hdr THEN {0} ELSE {}

\* The file after a crash that loses some dirty pages.
Without(lost) ==
    [hdr   |-> IF 0 \in lost THEN synced.hdr ELSE img.hdr,
     pages |-> [pn \in 1 .. Len(img.pages) |->
                  IF pn \in lost THEN SyncedPage(pn) ELSE img.pages[pn]]]

----------------------------------------------------------------------------
(* Opening and closing. *)

Init == /\ mode = "closed" /\ img = NoImage /\ synced = NoImage /\ tables = <<>>
        /\ pc = "idle" /\ cur = NoTab /\ wild = FALSE /\ left = Budget
        /\ told = <<>> /\ touched = {} /\ unsaved = {} /\ hurt = {} /\ onFile = Nothing
        /\ mishaps = {}
        /\ \/ dump = <<>> /\ inDump = Nothing
           \/ \E old \in OldDumps :
                 /\ dump = <<old>>
                 /\ inDump = [told |-> [n \in DOMAIN old.hdr.cat |-> Contents(old, Loaded(old), n)],
                              hurt |-> {}]

\* A mapping of a database without tables.
Fresh(m, im) == /\ mode' = m /\ img' = im /\ tables' = <<>>
                /\ told' = <<>> /\ touched' = {} /\ unsaved' = {} /\ hurt' = {}

\* db_init
OpenMem == /\ mode = "closed"
           /\ Fresh("mem", [hdr   |-> [Header(NewPages) EXCEPT !.head = NewPages],
                            pages |-> [pn \in 1 .. NewPages |-> [ZeroPage EXCEPT !.word = pn - 1]]])
           /\ UNCHANGED <<synced, dump, pc, cur, wild, left, mishaps, onFile, inDump>>

\* pager_open of a file without the magic number, made NewPages long when
\* empty: the header; the pages follow.
OpenNew ==
    LET pages == IF synced.pages = <<>> THEN [pn \in 1 .. NewPages |-> ZeroPage] ELSE synced.pages
    IN  /\ mode = "closed" /\ ~synced.hdr.magic
        /\ Fresh("file", [hdr |-> Header(Len(pages)), pages |-> pages])
        /\ pc' = "format" /\ cur' = [NoTab EXCEPT !.pn = 1]
        /\ UNCHANGED <<synced, dump, wild, left, mishaps, onFile, inDump>>

Format == /\ pc = "format" /\ cur.pn < img.hdr.count
          /\ img' = Within(img, PagerFree(Store(img), cur.pn))
          /\ cur' = [cur EXCEPT !.pn = @ + 1]
          /\ UNCHANGED <<mode, synced, tables, dump, pc, wild, left, ghost>>

\* pager_sync ends the formatting.
Formatted == /\ pc = "format" /\ cur.pn = img.hdr.count
             /\ pc' = "idle" /\ cur' = NoTab
             /\ synced' = img /\ onFile' = Nothing
             /\ UNCHANGED <<mode, img, tables, dump, wild, left, told, touched, unsaved, hurt, mishaps,
                        inDump>>

\* db_open of a file with the magic number; the file is mapped to its end.
OpenOld == /\ mode = "closed" /\ synced.hdr.magic
           /\ mode' = "file" /\ img' = synced /\ tables' = Loaded(synced)
           /\ told' = onFile.told /\ hurt' = onFile.hurt /\ touched' = {} /\ unsaved' = {}
           /\ UNCHANGED <<synced, dump, pc, cur, wild, left, mishaps, onFile, inDump>>

\* The tables on which two accounts of what SQL said differ.
Differ(a, b) == {n \in DOMAIN a \cup DOMAIN b :
                    ~(n \in DOMAIN a /\ n \in DOMAIN b /\ a[n] = b[n])}

\* The file when it holds the mapping `im'.
WriteFile(im, harm) == /\ synced' = im
                       /\ onFile' = [told |-> told, hurt |-> hurt \cup harm]

\* The mapping goes away: a file's is in the file, `im'; a detached one is
\* dropped, and with it what SQL said of its tables and the file has not.
LeaveMapping(im, harm, mishap) ==
    \/ /\ mode = "file" /\ WriteFile(im, harm)
       /\ mishaps' = mishaps \cup mishap
    \/ /\ mode = "detached" /\ UNCHANGED synced
       /\ onFile' = [told |-> told, hurt |-> onFile.hurt \cup Differ(told, onFile.told)]
       /\ mishaps' = mishaps \cup mishap \cup {"detached"}
    \/ /\ mode = "mem" /\ UNCHANGED <<synced, onFile>>
       /\ mishaps' = mishaps \cup mishap

\* pager_close writes a shared mapping back; any other is dropped.
Close == /\ mode # "closed" /\ pc = "idle" /\ ~wild
         /\ LeaveMapping(img, unsaved, {})
         /\ Fresh("closed", NoImage)
         /\ UNCHANGED <<dump, pc, cur, wild, left, inDump>>

\* The process ends between two steps, and the mapping is the file; or the
\* machine does, and loses pages.
Crash(lost) ==
    /\ mode # "closed" /\ ~wild
    /\ LeaveMapping(Without(lost), IF lost = {} THEN unsaved ELSE unsaved \cup touched, {"crash"})
    /\ Fresh("closed", NoImage)
    /\ pc' = "idle" /\ cur' = NoTab
    /\ UNCHANGED <<dump, wild, left, inDump>>

----------------------------------------------------------------------------
(* Statements: a change to a tree or to the mapping, then the end of db_exec. *)

Ready == mode # "closed" /\ pc = "idle" /\ ~wild /\ left > 0

\* A growing mapping that is not as long, or not of the file, as pager_alloc
\* takes it to be: the copy of an anonymous one overruns the new mapping, and a
\* detached one is replaced by the file's pages.
BadGrowth(a) == /\ Len(a.st.pages) + 1 > img.hdr.count
                /\ mode = "detached" \/ (mode = "mem" /\ Len(Extra(img)) > 1)

\* A table put first in a list of them, in the place of one of its name.
Put(ts, n, e) == [o \in DOMAIN ts \cup {n} |-> IF o = n THEN e ELSE ts[o]]

\* The mapping and the tables after a change of table n, of which SQL is told e.
Changed(n, im, ts, e) ==
    /\ img' = im /\ tables' = ts
    /\ told' = Put(told, n, e)
    /\ touched' = touched \cup {n}
    /\ UNCHANGED <<mode, synced, dump, hurt, mishaps, onFile, inDump>>

\* The rows of table n after one change more.
OneMore(n) == <<n, told[n].rows[2] + 1>>

\* CREATE TABLE
CreateTable(n) ==
    LET a  == PagerAlloc(Store(img))
        im == IF a.pn = 0 THEN img ELSE Within(img, SetPage(a.st, a.pn, LeafOf(<<n, 0>>)))
    IN  /\ Ready /\ hurt = {} /\ n \notin DOMAIN tables
        /\ Changed(n, im, Put(tables, n, [root |-> a.pn, ncols |-> Cols[n], nullmap |-> TRUE]),
                   [rows |-> <<n, 0>>, ncols |-> Cols[n], nullmap |-> TRUE])
        /\ unsaved' = unsaved \cup {n}
        /\ wild' = BadGrowth(a) /\ left' = left - 1 /\ pc' = "done" /\ UNCHANGED cur

\* A statement changes a row of table n; its tree then exists.
Writable(n) == n \in DOMAIN tables /\ tables[n].root # 0
OneRowMore(n) == [told[n] EXCEPT !.rows = OneMore(n)]

\* INSERT, DELETE, and what else copies the leaf: the copy is written before
\* the old page is freed.  A full file takes no row.
CopyLeaf(n) ==
    LET a == PagerAlloc(Store(img))
    IN  /\ Ready /\ hurt = {} /\ Writable(n) /\ a.pn # 0
        /\ img' = Within(img, SetPage(a.st, a.pn, LeafOf(OneMore(n))))
        /\ wild' = BadGrowth(a) /\ left' = left - 1
        /\ pc' = "leaf" /\ cur' = [tab |-> n, pn |-> a.pn]
        /\ touched' = touched \cup {n}
        /\ UNCHANGED <<mode, synced, tables, dump, told, unsaved, hurt, mishaps, onFile, inDump>>

FreeOld == /\ pc = "leaf" /\ ~wild
           /\ Changed(cur.tab, Within(img, PagerFree(Store(img), tables[cur.tab].root)),
                      [tables EXCEPT ![cur.tab].root = cur.pn], OneRowMore(cur.tab))
           /\ unsaved' = unsaved \cup {cur.tab}
           /\ pc' = "written" /\ UNCHANGED <<wild, left, cur>>

\* UPDATE to values of the same size
WriteInPlace(n) ==
    /\ Ready /\ hurt = {} /\ Writable(n) /\ tables[n].ncols > 0
    /\ Changed(n, [img EXCEPT !.pages[tables[n].root] = LeafOf(OneMore(n))], tables, OneRowMore(n))
    /\ left' = left - 1 /\ pc' = "written" /\ cur' = [tab |-> n, pn |-> 0]
    /\ UNCHANGED <<unsaved, wild>>

\* pager_sync, a file's msync.
PagerSync == /\ IF mode = "file" THEN WriteFile(img, unsaved) ELSE UNCHANGED <<synced, onFile>>
             /\ touched' = {}
             /\ UNCHANGED <<mode, img, tables, dump, wild, left, told, unsaved, hurt, mishaps, inDump>>

\* The end of btree_insert and btree_delete.
SyncTree == /\ pc = "written" /\ pc' = "done"
            /\ PagerSync /\ UNCHANGED cur

\* DUMP ALL, all that is mapped or, when a write fails, less.
Dump == /\ Ready
        /\ \E len \in {Len(img.pages), 1} :
              /\ dump' = <<[img EXCEPT !.pages = SubSeq(img.pages, 1, len)]>>
              /\ inDump' = [told |-> told,
                            hurt |-> hurt \cup unsaved]
        /\ pc' = "done" /\ left' = left - 1
        /\ UNCHANGED <<mode, img, synced, tables, cur, wild, told, touched, unsaved, hurt,
                       mishaps, onFile>>

\* LOAD ALL.  A longer dump replaces the mapping, a shorter one its beginning.
Load ==
    LET d      == dump[1]
        longer == Len(d.pages) > Len(img.pages)
        im     == [hdr   |-> [d.hdr EXCEPT !.count = Len(d.pages) + 1],
                   pages |-> d.pages \o SubSeq(img.pages, Len(d.pages) + 1, Len(img.pages))]
    IN  /\ Ready /\ dump # <<>>
        /\ mode' = IF longer /\ mode = "file" THEN "detached" ELSE mode
        /\ img' = im /\ tables' = Loaded(im)
        /\ told' = inDump.told /\ hurt' = inDump.hurt /\ unsaved' = {}
        /\ touched' = DOMAIN told \cup DOMAIN inDump.told \cup hurt
        /\ wild' = (Len(d.pages) + 1 < d.hdr.count)
        /\ pc' = "done" /\ left' = left - 1
        /\ UNCHANGED <<synced, dump, cur, mishaps, onFile, inDump>>

\* CREATE DATABASE closes the file for good.
CreateDatabase ==
    /\ Ready
    /\ LeaveMapping(img, unsaved, {})
    /\ Fresh("mem", [hdr   |-> [Header(NewPages) EXCEPT !.head = NewPages],
                     pages |-> [pn \in 1 .. NewPages |-> [ZeroPage EXCEPT !.word = pn - 1]]])
    /\ pc' = "done" /\ left' = left - 1
    /\ UNCHANGED <<dump, cur, wild, inDump>>

\* The catalog is saved after a statement that succeeded; one too long runs
\* into page 1.
Save == /\ pc = "done" /\ pc' = "saved"
        /\ img' = Saved(img, tables)
        /\ wild' = (wild \/ CatSize(tables) > CatRoom)
        /\ touched' = touched \cup unsaved /\ unsaved' = {}
        /\ UNCHANGED <<mode, synced, tables, dump, cur, left, told, hurt, mishaps, onFile, inDump>>

\* An UPDATE or DELETE of several rows fails after some: no catalog.
FailHalfWay == /\ pc = "done" /\ cur # NoTab
               /\ pc' = "saved" /\ mishaps' = mishaps \cup {"failed"}
               /\ UNCHANGED <<mode, img, synced, tables, dump, cur, wild, left,
                              told, touched, unsaved, hurt, onFile, inDump>>

\* The end of db_exec.
Sync == /\ pc = "saved" /\ ~wild /\ pc' = "idle" /\ cur' = NoTab
        /\ PagerSync

Next == \/ OpenMem \/ OpenNew \/ Format \/ Formatted \/ OpenOld \/ Close
        \/ \E lost \in SUBSET Dirty : Crash(lost)
        \/ \E n \in Names : CreateTable(n) \/ CopyLeaf(n) \/ WriteInPlace(n)
        \/ FreeOld \/ SyncTree \/ Dump \/ Load \/ CreateDatabase
        \/ Save \/ FailHalfWay \/ Sync

Spec == Init /\ [][Next]_vars

----------------------------------------------------------------------------
(* Properties. *)

\* The pages of an image, page_count and the page numbers kept in it stay
\* within the limit of the mapping, and a step is only pending while open.
TypeOK ==
    /\ mode \in {"closed", "file", "mem", "detached"}
    /\ pc \in {"idle", "format", "leaf", "written", "done", "saved"}
    /\ mode = "closed" => pc = "idle"
    /\ \A im \in {img, synced} \cup Range(dump) :
          /\ im.hdr.count <= MaxPages /\ Len(im.pages) < MaxPages
          /\ im.hdr.head \in 0 .. MaxPages - 1 /\ im.hdr.ver \in 0 .. Version
    /\ \A n \in DOMAIN tables : tables[n].root \in 0 .. MaxPages - 1
    /\ left \in 0 .. Budget

Quiet == mode # "closed" /\ pc = "idle" /\ ~wild

\* Table n is what SQL said of it: the rows of its last statement, the format of
\* rows, and the columns, which only a table of MaxCols of them may have lost.
AsTold(n) ==
    /\ n \in DOMAIN told /\ n \in DOMAIN tables
    /\ LET t == Contents(img, tables, n)
       IN  /\ t = [told[n] EXCEPT !.ncols = t.ncols]
           /\ t.ncols = told[n].ncols \/ (told[n].ncols = MaxCols /\ t.ncols = 0)

\* Between statements a table that is not hurt is what SQL said of it, and there
\* is no other table: a statement on one table spares the others, and when a
\* crash cuts it short, loses pages of it or a detached mapping is dropped, the
\* tables it did not touch are all there.  Without a crash, a statement that
\* failed half way and a detached mapping that was dropped no table is hurt:
\* DUMP, LOAD (of an older version too), CREATE DATABASE, closing and opening
\* lose nothing that was answered.
TablesAsTold ==
    Quiet => /\ mishaps = {} => hurt = {}
             /\ \A n \in (DOMAIN told \cup DOMAIN tables) \ hurt : AsTold(n)

\* Between statements, unless a table is hurt, the free list ends, and no
\* page of it is a table's: what is restored from a file or a dump can be
\* allocated from.
NoPageTwice ==
    Quiet /\ hurt = {} =>
        LET list == FreeWalk(Store(img))
        IN  /\ FreeListEnds(Store(img))
            /\ \A n \in DOMAIN tables : tables[n].root # 0 =>
                  /\ tables[n].root \in 1 .. img.hdr.count - 1
                  /\ \A i \in 1 .. MaxPages : list[i] # tables[n].root
                  /\ \A o \in DOMAIN tables \ {n} : tables[o].root # tables[n].root

\* page_count is the number of mapped pages of a database in memory
\* (docs/file-format.md:17 "number of mapped pages").
PageCountIsMapped == mode = "mem" /\ ~wild => img.hdr.count = 1 + Len(img.pages)

\* What was answered on a file is in it, whatever was loaded into its mapping
\* (docs/file-format.md:40-41 "The catalog is rewritten on every successful
\* statement and `msync`ed for file-backed databases.").
AnsweredIsOnFile ==
    Quiet /\ mishaps \subseteq {"detached"} =>
        \A n \in DOMAIN told \cup DOMAIN tables : AsTold(n)

\* The root of a table leads to its tree, also after statements that failed
\* half way (docs/file-format.md:37 "`u64 root` (B+Tree root page)").
RootsAreTrees ==
    Quiet /\ mishaps \subseteq {"failed"} =>
        \A n \in DOMAIN tables : tables[n].root # 0 =>
            /\ tables[n].root \in 1 .. img.hdr.count - 1
            /\ img.pages[tables[n].root].word = LeafWord

\* A dump that was answered has the pages its header counts (docs/file-format.md:5
\* "a byte-for-byte image of the pager mapping").
DumpIsWhole == \A d \in Range(dump) : d.hdr.count <= Len(d.pages) + 1

\* The catalog that was saved is within page 0 (docs/file-format.md:27 "at byte
\* offset 64 of page 0", of which "The rest of page 0 is padding").
CatalogInHeader == pc = "saved" => CatSize(img.hdr.cat) <= CatRoom

\* A table keeps its columns when it is read back (docs/file-format.md:30 "per
\* table: `name[32]`, `u32 ncols`").
ColumnsAreKept ==
    Quiet /\ mishaps = {} =>
        \A n \in DOMAIN told \cap DOMAIN tables : tables[n].ncols = told[n].ncols

=============================================================================
