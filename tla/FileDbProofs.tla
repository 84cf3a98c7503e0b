---------------------------- MODULE FileDbProofs ----------------------------
(***************************************************************************)
(* FileDb for every file limit, every set of tables and of old dumps, and  *)
(* every number of statements: between statements each table is as SQL was *)
(* told unless it is hurt, none is hurt before the first mishap, and no    *)
(* page is in a table and on the free list.                                *)
(*                                                                         *)
(* An image can become the mapping in four ways: it is the file, the dump, *)
(* the mapping itself after the process ended, or a mixture of the mapping *)
(* and the file after the machine did.  The invariant says what the first  *)
(* three hold (AllTold, FreeListOK), and of the fourth that file and       *)
(* mapping agree on every table no running statement has changed           *)
(* (FileAgrees), and altogether when there is none (FilesAlike).           *)
(***************************************************************************)
EXTENDS FileDb, PageStoreProofs

----------------------------------------------------------------------------
(* Images and tables. *)

FreeListOK(st) == \E s \in Seq(PageNos(st)) : IsFreeList(st, s)

\* Columns that were told as k are still k, or were read as none from a catalog
\* in which they were MaxCols.
SameCols(c, k) == c = k \/ (k = MaxCols /\ c = 0)

\* The tables of an image are what SQL was told, except those that are hurt.
AllTold(im, ts, tl, hu) ==
    \A n \in (DOMAIN tl \cup DOMAIN ts) \ hu :
        /\ n \in DOMAIN tl /\ n \in DOMAIN ts
        /\ Contents(im, ts, n) = [tl[n] EXCEPT !.ncols = Contents(im, ts, n).ncols]
        /\ SameCols(Contents(im, ts, n).ncols, tl[n].ncols)

\* The entry e of the tables as db_load_catalog reads it once it is saved.
ReadBack(l, e) == /\ l.root = e.root /\ l.nullmap = e.nullmap
                  /\ SameCols(l.ncols, e.ncols)

\* Pages as formatting leaves them, also when a crash loses some of them.
Formatting(pages) ==
    /\ Len(pages) >= NewPages
    /\ \A pn \in 1 .. NewPages : pages[pn].word \in {0, pn - 1}

\* An image without tables: only pages of the formatting can be free.
Bare(im) == /\ im.hdr.count > NewPages /\ im.hdr.head \in 0 .. NewPages
            /\ Formatting(im.pages)

\* What is restored from an image that SQL was told `tl' of.
Restorable(im, tl, hu) ==
    /\ im.hdr.count \in 1 .. Len(im.pages) + 1
    /\ AllTold(im, Loaded(im), tl, hu)
    /\ hu = {} => FreeListOK(Store(im)) /\ (DOMAIN tl = {} => Bare(im))

ToldEntry == [rows : Tabs \X Nat, ncols : 0 .. MaxCols, nullmap : BOOLEAN]
IsTold(tl) == /\ DOMAIN tl \subseteq Tabs /\ tl \in [DOMAIN tl -> ToldEntry]
              /\ \A n \in DOMAIN tl : tl[n].rows[1] = n

\* The same, table by table: the catalog's entry e leads to what SQL was told
\* of n, to t.
Holds(im, e, t, n) ==
    /\ SameCols(e.ncols, t.ncols) /\ e.nullmap = t.nullmap
    /\ \/ e.root = 0 /\ t.rows = <<n, 0>>
       \/ e.root \in 1 .. im.hdr.count - 1 /\ im.pages[e.root] = LeafOf(t.rows)
Kept(im, ts, tl, hu) ==
    \A n \in (DOMAIN tl \cup DOMAIN ts) \ hu :
        n \in DOMAIN tl /\ n \in DOMAIN ts /\ Holds(im, ts[n], tl[n], n)

(***************************************************************************)
(* Lemmas about images.                                                    *)
(***************************************************************************)

\* s laid over the beginning of t.
Over(s, t) == s \o SubSeq(t, Len(s) + 1, Len(t))

LEMMA LaidOver ==
  ASSUME NEW S, NEW s \in Seq(S), NEW t \in Seq(S)
  PROVE  LET r == Over(s, t)
         IN  /\ r \in Seq(S) /\ Len(r) = IF Len(s) <= Len(t) THEN Len(t) ELSE Len(s)
             /\ \A a \in 1 .. Len(s) : r[a] = s[a]
             /\ \A a \in 1 .. Len(r) : a > Len(s) => a \in 1 .. Len(t) /\ r[a] = t[a]
<1> DEFINE u == SubSeq(t, Len(s) + 1, Len(t))
           r == s \o u
<1>1. Len(s) \in Nat /\ Len(t) \in Nat
  BY LenProperties
<1>2. \A i \in Len(s) + 1 .. Len(t) : t[i] \in S
  BY <1>1, ElementOfSeq
<1>3. /\ u \in Seq(S) /\ Len(u) = IF Len(s) < Len(t) THEN Len(t) - Len(s) ELSE 0
      /\ \A a \in 1 .. Len(t) - Len(s) : u[a] = t[Len(s) + a]
  <2>1. /\ u \in Seq(S)
        /\ Len(u) = IF Len(s) + 1 <= Len(t) THEN Len(t) - (Len(s) + 1) + 1 ELSE 0
        /\ \A a \in 1 .. Len(t) - (Len(s) + 1) + 1 : u[a] = t[(Len(s) + 1) + a - 1]
    BY <1>1, <1>2, SubSeqProperties
  <2> HIDE DEF u
  <2>2. QED
    BY <1>1, <2>1
<1> HIDE DEF u
<1>4. /\ r \in Seq(S) /\ Len(r) = Len(s) + Len(u)
      /\ \A i \in 1 .. Len(s) + Len(u) : r[i] = IF i <= Len(s) THEN s[i] ELSE u[i - Len(s)]
  BY <1>3, ConcatProperties
<1> HIDE DEF r
<1>5. \A a \in 1 .. Len(r) : a > Len(s) => a \in 1 .. Len(t) /\ r[a] = t[a]
  <2>1. TAKE a \in 1 .. Len(r)
  <2>2. HAVE a > Len(s)
  <2>3. a - Len(s) \in 1 .. Len(t) - Len(s) /\ Len(s) + (a - Len(s)) = a
    BY <1>1, <1>3, <1>4, <2>1, <2>2
  <2>4. r[a] = u[a - Len(s)]
    BY <1>1, <1>4, <2>1, <2>2
  <2>5. u[a - Len(s)] = t[a]
    BY <1>3, <2>3
  <2>6. QED
    BY <2>3, <2>4, <2>5, <1>1
<1>6. Len(r) = IF Len(s) <= Len(t) THEN Len(t) ELSE Len(s)
  BY <1>1, <1>3, <1>4
<1>7. \A a \in 1 .. Len(s) : r[a] = s[a]
  BY <1>1, <1>3, <1>4
<1>8. QED
  BY <1>4, <1>5, <1>6, <1>7 DEF Over, r, u

Stores == [head : 0 .. MaxPages - 1, pages : Seq(Page)]

LEMMA ConstantTypes ==
    /\ MaxPages \in Nat /\ NewPages \in Nat \ {0} /\ NewPages < MaxPages
    /\ MaxCols \in Nat /\ Version \in Nat /\ Version >= 3 /\ Budget \in Nat
  BY MaxPagesAssumption, ColsAssumption, FileAssumption

LEMMA PageTypes ==
    /\ ZeroPage \in Page /\ ZeroPage.word = 0
    /\ \A page \in Page : /\ page.word \in Int
                          /\ \A w \in Int : [page EXCEPT !.word = w] \in Page
                          /\ \A w \in Int : [page EXCEPT !.word = w].word = w
    /\ \A rows \in Tabs \X Nat : LeafOf(rows) \in Page /\ LeafOf(rows).word = LeafWord
                                 /\ LeafOf(rows).rest = rows
  BY DEF ZeroPage, Page, LeafOf, LeafWord

\* An image's fields.
LEMMA ImageTypes ==
  ASSUME NEW im, IsImage(im)
  PROVE  /\ im.pages \in Seq(Page) /\ Len(im.pages) \in Nat /\ Len(im.pages) < MaxPages
         /\ im.hdr.count \in 0 .. MaxPages /\ im.hdr.head \in 0 .. MaxPages - 1
         /\ im.hdr.ver \in 0 .. Version /\ im.hdr.magic \in BOOLEAN
         /\ IsCatalog(im.hdr.cat)
         /\ im = [hdr |-> im.hdr, pages |-> im.pages]
         /\ im.hdr \in [magic : BOOLEAN, ver : 0 .. Version, count : 0 .. MaxPages,
                       head : 0 .. MaxPages - 1, cat : {im.hdr.cat}]
  BY DEF IsImage

LEMMA StoreFacts ==
  ASSUME NEW im, IsImage(im), im.hdr.count \in 1 .. Len(im.pages) + 1
  PROVE  /\ Store(im) \in Stores /\ Store(im).head = im.hdr.head
         /\ Len(Store(im).pages) = im.hdr.count - 1
         /\ PageNos(Store(im)) = 1 .. im.hdr.count - 1
         /\ \A pn \in 1 .. im.hdr.count - 1 : Store(im).pages[pn] = im.pages[pn]
<1>1. /\ im.pages \in Seq(Page) /\ Len(im.pages) \in Nat
      /\ im.hdr.head \in 0 .. MaxPages - 1
  BY ImageTypes
<1>2. /\ SubSeq(im.pages, 1, im.hdr.count - 1) \in Seq(Page)
      /\ Len(SubSeq(im.pages, 1, im.hdr.count - 1)) = im.hdr.count - 1
      /\ \A pn \in 1 .. im.hdr.count - 1 : SubSeq(im.pages, 1, im.hdr.count - 1)[pn] = im.pages[pn]
  BY <1>1
<1>3. QED
  BY <1>1, <1>2 DEF Store, Stores, PageNos

LEMMA WithinFacts ==
  ASSUME NEW im, IsImage(im), im.hdr.count \in 1 .. Len(im.pages) + 1,
         NEW st \in Stores, Len(st.pages) < MaxPages, im.hdr.count <= Len(st.pages) + 1
  PROVE  LET w == Within(im, st)
         IN  /\ IsImage(w)
             /\ w.hdr.count = Len(st.pages) + 1 /\ w.hdr.head = st.head
             /\ w.hdr.magic = im.hdr.magic /\ w.hdr.ver = im.hdr.ver /\ w.hdr.cat = im.hdr.cat
             /\ Len(w.pages) >= Len(st.pages)
             /\ im.hdr.count <= Len(w.pages) + 1
             /\ \A pn \in 1 .. Len(st.pages) : w.pages[pn] = st.pages[pn]
             /\ Len(st.pages) + 1 = im.hdr.count =>
                   Len(w.pages) = Len(im.pages)
             /\ Store(w) = st
<1> DEFINE w == Within(im, st)
<1>1. /\ im.pages \in Seq(Page) /\ Len(im.pages) \in Nat /\ Len(im.pages) < MaxPages
      /\ st.pages \in Seq(Page) /\ Len(st.pages) \in Nat /\ st.head \in 0 .. MaxPages - 1
      /\ im.hdr.count \in Nat
  BY ImageTypes DEF Stores
<1>2. /\ w.pages = st.pages \o IF Len(st.pages) + 1 = im.hdr.count THEN Extra(im) ELSE <<>>
      /\ w.hdr = [im.hdr EXCEPT !.head = st.head, !.count = Len(st.pages) + 1]
      /\ w = [hdr |-> w.hdr, pages |-> w.pages]
  BY DEF Within
<1> HIDE DEF w
<1>3. /\ w.pages \in Seq(Page)
      /\ Len(w.pages) = IF Len(st.pages) + 1 = im.hdr.count THEN Len(im.pages) ELSE Len(st.pages)
      /\ \A pn \in 1 .. Len(st.pages) : w.pages[pn] = st.pages[pn]
  <2>1. CASE Len(st.pages) + 1 = im.hdr.count
    <3>1. w.pages = Over(st.pages, im.pages)
      BY <1>2, <2>1 DEF Extra, Over
    <3>2. Len(st.pages) <= Len(im.pages)
      BY <1>1, <2>1
    <3>3. QED
      BY <1>1, <2>1, <3>1, <3>2, LaidOver
  <2>2. CASE Len(st.pages) + 1 # im.hdr.count
    <3>1. w.pages = st.pages
      BY <1>1, <1>2, <2>2, ConcatEmptySeq
    <3>2. QED
      BY <3>1, <2>2, <1>1
  <2>3. QED
    BY <2>1, <2>2
<1>4. /\ w.hdr.count = Len(st.pages) + 1 /\ w.hdr.head = st.head
      /\ w.hdr.magic = im.hdr.magic /\ w.hdr.ver = im.hdr.ver /\ w.hdr.cat = im.hdr.cat
      /\ w.hdr \in [magic : BOOLEAN, ver : 0 .. Version, count : 0 .. MaxPages,
                    head : 0 .. MaxPages - 1, cat : {w.hdr.cat}]
  <2>1. Len(st.pages) + 1 \in 0 .. MaxPages
    BY <1>1, ConstantTypes
  <2>2. QED
    BY <2>1, <1>1, <1>2, ImageTypes
<1>5. IsImage(w)
  <2>1. Len(w.pages) < MaxPages
    BY <1>1, <1>3
  <2>2. IsCatalog(w.hdr.cat)
    BY <1>4, ImageTypes
  <2>3. QED
    BY <2>1, <2>2, <1>2, <1>3, <1>4 DEF IsImage
<1>6. Store(w) = st
  <2> DEFINE part == SubSeq(w.pages, 1, Len(st.pages))
  <2>1. /\ part \in Seq(Page) /\ Len(part) = Len(st.pages)
        /\ \A pn \in 1 .. Len(st.pages) : part[pn] = w.pages[pn]
    BY <1>1, <1>3
  <2> HIDE DEF part
  <2>2. part = st.pages
    BY <2>1, <1>1, <1>3, SeqEqual
  <2>3. Store(w) = [head |-> st.head, pages |-> part]
    BY <1>1, <1>4 DEF Store, part
  <2>4. QED
    BY <2>2, <2>3 DEF Stores
<1>7. QED
  BY <1>1, <1>3, <1>4, <1>5, <1>6 DEF w

(***************************************************************************)
(* Free lists.                                                             *)
(***************************************************************************)

LEMMA StoresOfPages == Stores = StoresOf(Page) /\ IsPageSet(Page)
<1>1. ZeroPage \in Page
  BY PageTypes
<1>2. \A page \in Page : /\ page.word \in Int
                         /\ \A w \in Nat : /\ [page EXCEPT !.word = w] \in Page
                                           /\ [page EXCEPT !.word = w].word = w
  BY PageTypes
<1>3. QED
  BY <1>1, <1>2 DEF Stores, StoresOf, IsPageSet

LEMMA ListedPages ==
  ASSUME NEW st \in Stores, Len(st.pages) < MaxPages
  PROVE  FreeListOK(st) <=> \E F : Listed(Page, st, F)
<1>1. st \in StoresOf(Page)
  BY StoresOfPages
<1>2. FreeListOK(st) <=> \E F : FreePages(st, F)
  BY DEF FreeListOK, FreePages
<1>3. QED
  BY <1>1, <1>2 DEF Listed

LEMMA FreeListWords ==
  ASSUME NEW st \in Stores, NEW s \in Seq(PageNos(st)), IsFreeList(st, s)
  PROVE  /\ Len(s) \in Nat /\ DOMAIN s = 1 .. Len(s)
         /\ \A a \in 1 .. Len(s) : s[a] \in PageNos(st) /\ st.pages[s[a]].word \in 0 .. Len(st.pages)
         /\ st.head \in 0 .. Len(st.pages)
         /\ st.head # 0 => Len(s) >= 1 /\ st.head = s[Len(s)]
         /\ st.head = 0 => s = <<>>
  BY StoresOfPages, ListLinks

\* A free list is left alone by what writes no page that holds a link.
LEMMA SameFreeList ==
  ASSUME NEW st \in Stores, NEW st2 \in Stores, FreeListOK(st),
         st2.head = st.head, Len(st.pages) <= Len(st2.pages),
         \A pn \in PageNos(st) :
            st.pages[pn].word >= 0 => st2.pages[pn].word = st.pages[pn].word
  PROVE  FreeListOK(st2)
<1>1. PICK s \in Seq(PageNos(st)) : IsFreeList(st, s)
  BY DEF FreeListOK
<1>2. \A a \in DOMAIN s : s[a] \in PageNos(st) /\ st.pages[s[a]].word >= 0
  BY <1>1, FreeListWords
<1>3. \A a \in DOMAIN s : st2.pages[s[a]].word = st.pages[s[a]].word
  BY <1>2
<1>4. s \in Seq(PageNos(st2)) /\ IsFreeList(st2, s)
  BY <1>1, <1>3, StoresOfPages, SameList
<1>5. QED
  BY <1>4 DEF FreeListOK

\* pager_alloc, and a page written where it says: the page is none that holds
\* anything but a link, the others stay, and the list is one without it.
LEMMA AllocFacts ==
  ASSUME NEW st \in Stores, Len(st.pages) < MaxPages, FreeListOK(st), NEW page \in Page
  PROVE  LET a   == PagerAlloc(st)
             st2 == SetPage(a.st, a.pn, page)
         IN  /\ a.pn \in 0 .. MaxPages - 1
             /\ a.pn = 0 => a.st = st
             /\ a.pn # 0 =>
                   /\ st2 \in Stores /\ Len(st2.pages) < MaxPages
                   /\ Len(st.pages) <= Len(st2.pages)
                   /\ a.pn \in PageNos(st2) /\ st2.pages[a.pn] = page
                   /\ a.pn \in PageNos(st) => st.pages[a.pn].word >= 0
                   /\ \A pn \in PageNos(st) \ {a.pn} : st2.pages[pn] = st.pages[pn]
                   /\ FreeListOK(st2)
<1> DEFINE a   == PagerAlloc(st)
           st2 == SetPage(a.st, a.pn, page)
<1>1. PICK F : Listed(Page, st, F)
  BY ListedPages
<1>2. /\ a.pn \in 0 .. MaxPages - 1
      /\ a.pn = 0 => a.st = st
      /\ a.pn # 0 =>
            /\ Listed(Page, a.st, F \ {a.pn})
            /\ a.pn \in PageNos(a.st) /\ PageNos(a.st) = PageNos(st) \cup {a.pn}
            /\ \/ a.pn \in F /\ Len(a.st.pages) = Len(st.pages)
               \/ a.pn \notin PageNos(st) /\ F = {} /\ Len(a.st.pages) = Len(st.pages) + 1
            /\ \A pn \in PageNos(st) \ {a.pn} : a.st.pages[pn] = st.pages[pn]
  BY <1>1, StoresOfPages, PageTaken
<1> HIDE DEF a
<1>3. ASSUME a.pn # 0
      PROVE  /\ st2 \in Stores /\ Len(st2.pages) < MaxPages
             /\ Len(st2.pages) = Len(a.st.pages)
             /\ a.pn \in PageNos(st2) /\ st2.pages[a.pn] = page
             /\ \A pn \in PageNos(a.st) \ {a.pn} : st2.pages[pn] = a.st.pages[pn]
             /\ FreeListOK(st2)
  <2>1. Listed(Page, a.st, F \ {a.pn}) /\ a.pn \in PageNos(a.st) \ (F \ {a.pn})
    BY <1>2, <1>3
  <2>2. /\ Listed(Page, st2, F \ {a.pn}) /\ PageNos(st2) = PageNos(a.st)
        /\ Len(st2.pages) = Len(a.st.pages) /\ st2.pages[a.pn] = page
        /\ \A o \in PageNos(a.st) \ {a.pn} : st2.pages[o] = a.st.pages[o]
    BY <2>1, PageSet
  <2> HIDE DEF st2
  <2>3. st2 \in Stores /\ Len(st2.pages) < MaxPages
    BY <2>2, StoresOfPages DEF Listed
  <2>4. FreeListOK(st2)
    BY <2>2, <2>3, ListedPages
  <2>5. QED
    BY <2>1, <2>2, <2>3, <2>4
<1>4. a.pn # 0 /\ a.pn \in PageNos(st) => st.pages[a.pn].word >= 0
  <2>1. \A pn \in F : st.pages[pn].word \in Nat
    BY <1>1, FreePagesFacts DEF Listed
  <2>2. QED
    BY <1>2, <2>1
<1>5. a.pn # 0 => \A pn \in PageNos(st) \ {a.pn} : st2.pages[pn] = st.pages[pn]
  BY <1>2, <1>3
<1>6. a.pn # 0 => Len(st.pages) <= Len(st2.pages)
  <2>1. Len(st.pages) \in Nat
    BY LenProperties DEF Stores
  <2>2. QED
    BY <1>2, <1>3, <2>1
<1>7. QED
  BY <1>2, <1>3, <1>4, <1>5, <1>6 DEF a

\* pager_free: the page is the head of the list, and it may only be one that
\* was not on it.
LEMMA FreeFacts ==
  ASSUME NEW st \in Stores, Len(st.pages) < MaxPages, NEW pn \in PageNos(st)
  PROVE  LET st2 == PagerFree(st, pn)
         IN  /\ st2 \in Stores /\ Len(st2.pages) = Len(st.pages) /\ st2.head = pn
             /\ st2.pages[pn].word = st.head
             /\ \A o \in PageNos(st) \ {pn} : st2.pages[o] = st.pages[o]
             /\ FreeListOK(st) /\ st.pages[pn].word < 0 => FreeListOK(st2)
<1> DEFINE st2 == PagerFree(st, pn)
<1>1. /\ st2 \in Stores /\ Len(st2.pages) = Len(st.pages) /\ st2.head = pn
      /\ st2.pages[pn].word = st.head
      /\ \A o \in PageNos(st) \ {pn} : st2.pages[o] = st.pages[o]
  <2>1. st \in StoresOf(Page) /\ IsPageSet(Page) /\ Stores = StoresOf(Page)
    BY StoresOfPages
  <2>2. QED
    BY <2>1, LinkWritten
<1>2. ASSUME FreeListOK(st), st.pages[pn].word < 0
      PROVE  FreeListOK(st2)
  <2>1. PICK F : Listed(Page, st, F)
    BY <1>2, ListedPages
  <2>2. st \in StoresOf(Page) /\ IsPageSet(Page) /\ Len(st.pages) \in Nat /\ st.pages[pn] \in Page
    BY StoresOfPages, StoreTypes
  <2>3. pn \notin F
    <3>1. \A o \in F : st.pages[o].word \in Nat
      BY <2>1, <2>2, FreePagesFacts DEF Listed
    <3>2. QED
      BY <3>1, <1>2
  <2>4. Listed(Page, st2, F \cup {pn})
    BY <2>1, <2>2, <2>3, PageFreed
  <2> HIDE DEF st2
  <2>5. QED
    BY <2>4, <1>1, ListedPages
<1>3. QED
  BY <1>1, <1>2

\* Below the head of an image without tables each page links to the one before
\* it or ends the list.
LEMMA BareFree ==
  ASSUME NEW im, IsImage(im), im.hdr.count \in 1 .. Len(im.pages) + 1, Bare(im)
  PROVE  FreeListOK(Store(im))
<1> DEFINE h == im.hdr.head
           word == [pn \in 1 .. h |-> im.pages[pn].word]
           T == {d \in 0 .. h - 1 : word[h - d] = 0}
<1>1. /\ h \in Nat /\ h < im.hdr.count /\ im.hdr.count \in Nat
      /\ \A pn \in 1 .. h : word[pn] \in {0, pn - 1}
  BY ImageTypes, ConstantTypes DEF Bare, Formatting
<1>2. /\ Store(im).head = h /\ PageNos(Store(im)) = 1 .. im.hdr.count - 1
      /\ \A pn \in 1 .. h : pn \in 1 .. im.hdr.count - 1 /\ Store(im).pages[pn].word = word[pn]
  <2>1. \A pn \in 1 .. h : pn \in 1 .. im.hdr.count - 1 /\ word[pn] = im.pages[pn].word
    BY <1>1
  <2> HIDE DEF word
  <2>2. QED
    BY <2>1, StoreFacts
<1> HIDE DEF word, h
<1>3. CASE h = 0
  <2>1. IsFreeList(Store(im), <<>>)
    BY <1>2, <1>3 DEF IsFreeList
  <2>2. QED
    BY <2>1, EmptySeq DEF FreeListOK
<1>4. CASE h # 0
  <2>1. h - 1 \in T
    BY <1>1, <1>4
  <2>2. T \subseteq Nat /\ T # {}
    <3>1. 0 .. h - 1 \subseteq Nat
      BY <1>1
    <3>2. QED
      BY <2>1, <3>1
  <2> HIDE DEF T
  <2>9. PICK d \in T : \A e \in T : d <= e
    BY <2>2, LeastNat
  <2> DEFINE z == h - d
             s == [a \in 1 .. d + 1 |-> z + a - 1]
  <2>3. d \in Nat /\ z \in 1 .. h /\ word[z] = 0
    BY <1>1 DEF T
  <2>4. ASSUME NEW pn \in 1 .. h, pn > z PROVE word[pn] = pn - 1
    <3>1. h - pn \in 0 .. h - 1 /\ h - pn < d /\ h - (h - pn) = pn
      BY <2>3, <2>4, <1>1
    <3>2. word[pn] # 0
      BY <3>1, <2>9, <2>3 DEF T
    <3>3. QED
      BY <3>2, <1>1
  <2>5. /\ s \in Seq(1 .. im.hdr.count - 1) /\ Len(s) = d + 1 /\ DOMAIN s = 1 .. d + 1 /\ s # <<>>
        /\ \A a \in 1 .. d + 1 : s[a] = z + a - 1
    <3>1. \A a \in 1 .. d + 1 : z + a - 1 \in 1 .. im.hdr.count - 1
      BY <2>3, <1>1
    <3>2. s \in [1 .. d + 1 -> 1 .. im.hdr.count - 1] /\ \A a \in 1 .. d + 1 : s[a] = z + a - 1
      BY <3>1
    <3> HIDE DEF s
    <3>3. d + 1 \in Nat /\ d + 1 # 0
      BY <2>3
    <3>4. s \in Seq(1 .. im.hdr.count - 1) /\ Len(s) = d + 1 /\ DOMAIN s = 1 .. d + 1
      BY <3>2, <3>3
    <3>5. QED
      BY <3>2, <3>3, <3>4, EmptySeq
  <2> HIDE DEF s
  <2>6. IsFreeList(Store(im), s)
    <3>1. \A a, b \in DOMAIN s : s[a] = s[b] => a = b
      BY <2>3, <2>5, <1>1
    <3>2. s[Len(s)] = h
      BY <2>3, <2>5, <1>1
    <3>3. ASSUME NEW a \in DOMAIN s
          PROVE  Store(im).pages[s[a]].word = IF a = 1 THEN 0 ELSE s[a - 1]
      <4>1. s[a] \in 1 .. h /\ s[a] = z + a - 1
        BY <2>3, <2>5, <1>1
      <4>2. Store(im).pages[s[a]].word = word[s[a]]
        BY <4>1, <1>2
      <4>3. CASE a = 1
        BY <4>1, <4>2, <4>3, <2>3, <1>1
      <4>4. CASE a # 1
        <5>1. a - 1 \in 1 .. d + 1 /\ a > 1
          <6>1. a \in 1 .. d + 1
            BY <2>5
          <6>2. QED
            BY <6>1, <4>4, <2>3
        <5>2. s[a - 1] = z + (a - 1) - 1
          BY <5>1, <2>5
        <5>3. s[a] > z /\ s[a - 1] = s[a] - 1
          BY <4>1, <5>1, <5>2, <2>3, <1>1
        <5>4. QED
          BY <4>1, <4>2, <4>4, <5>3, <2>4
      <4>5. QED
        BY <4>3, <4>4
    <3>4. QED
      BY <3>1, <3>2, <3>3, <2>5, <1>2 DEF IsFreeList
  <2>7. QED
    BY <2>5, <2>6, <1>2 DEF FreeListOK
<1>5. QED
  BY <1>3, <1>4

(***************************************************************************)
(* Catalogs and tables.                                                    *)
(***************************************************************************)

LEMMA CatalogEntry ==
  ASSUME NEW ts, IsCatalog(ts), NEW n \in DOMAIN ts
  PROVE  /\ ts[n] = [root |-> ts[n].root, ncols |-> ts[n].ncols, nullmap |-> ts[n].nullmap]
         /\ ts[n] \in TabEntry /\ n \in Tabs
         /\ ts[n].root \in 0 .. MaxPages - 1 /\ ts[n].ncols \in 0 .. MaxCols
         /\ ts[n].nullmap \in BOOLEAN
<1>1. ts[n] \in TabEntry /\ n \in Tabs
  BY DEF IsCatalog
<1>2. QED
  BY <1>1 DEF TabEntry

LEMMA ToldFacts ==
  ASSUME NEW tl, IsTold(tl), NEW n \in DOMAIN tl
  PROVE  /\ tl[n] = [rows |-> tl[n].rows, ncols |-> tl[n].ncols, nullmap |-> tl[n].nullmap]
         /\ n \in Tabs /\ tl[n] \in ToldEntry
         /\ tl[n].rows \in Tabs \X Nat /\ tl[n].rows = <<n, tl[n].rows[2]>>
         /\ tl[n].rows[2] \in Nat /\ tl[n].rows # <<>>
<1>1. tl[n] \in ToldEntry /\ n \in Tabs /\ tl[n].rows[1] = n
  BY DEF IsTold
<1>2. tl[n].rows \in Tabs \X Nat
  BY <1>1 DEF ToldEntry
<1>3. QED
  BY <1>1, <1>2 DEF ToldEntry

\* db_load_catalog reads the header only.
LEMMA LoadedFacts ==
  ASSUME NEW im, IsImage(im)
  PROVE  /\ DOMAIN Loaded(im) = DOMAIN im.hdr.cat /\ IsCatalog(Loaded(im))
         /\ \A n \in DOMAIN im.hdr.cat :
               /\ Loaded(im)[n].root = im.hdr.cat[n].root
               /\ Loaded(im)[n].nullmap = (im.hdr.ver >= 3 /\ im.hdr.cat[n].nullmap)
               /\ SameCols(Loaded(im)[n].ncols, im.hdr.cat[n].ncols)
<1>1. IsCatalog(im.hdr.cat) /\ MaxCols \in Nat
  BY ImageTypes, ConstantTypes
<1>2. DOMAIN Loaded(im) = DOMAIN im.hdr.cat
  BY DEF Loaded
<1>3. ASSUME NEW n \in DOMAIN im.hdr.cat
      PROVE  /\ Loaded(im)[n].root = im.hdr.cat[n].root
             /\ Loaded(im)[n].nullmap = (im.hdr.ver >= 3 /\ im.hdr.cat[n].nullmap)
             /\ SameCols(Loaded(im)[n].ncols, im.hdr.cat[n].ncols)
             /\ Loaded(im)[n] \in TabEntry
  <2>1. /\ im.hdr.cat[n].root \in 0 .. MaxPages - 1 /\ im.hdr.cat[n].ncols \in 0 .. MaxCols
        /\ im.hdr.cat[n].nullmap \in BOOLEAN
    BY <1>1, CatalogEntry
  <2> DEFINE k == IF im.hdr.cat[n].ncols = MaxCols THEN 0 ELSE im.hdr.cat[n].ncols
             b == im.hdr.ver >= 3 /\ im.hdr.cat[n].nullmap
  <2>2. Loaded(im)[n] = [root |-> im.hdr.cat[n].root, ncols |-> k, nullmap |-> b]
    BY DEF Loaded
  <2>3. k \in 0 .. MaxCols /\ SameCols(k, im.hdr.cat[n].ncols)
    BY <1>1, <2>1 DEF SameCols
  <2>4. b \in BOOLEAN
    BY <2>1
  <2> HIDE DEF k
  <2>5. QED
    BY <2>1, <2>2, <2>3, <2>4 DEF TabEntry
<1>4. Loaded(im) \in [DOMAIN im.hdr.cat -> TabEntry]
  BY <1>3 DEF Loaded
<1>5. QED
  BY <1>1, <1>2, <1>3, <1>4 DEF IsCatalog

LEMMA LoadedSame ==
  ASSUME NEW im, NEW im2, im2.hdr.cat = im.hdr.cat, im2.hdr.ver = im.hdr.ver
  PROVE  Loaded(im2) = Loaded(im)
  BY DEF Loaded

\* db_save_catalog writes the header only, what db_load_catalog reads again.
LEMMA SavedFacts ==
  ASSUME NEW im, IsImage(im), NEW ts, IsCatalog(ts)
  PROVE  LET w == Saved(im, ts)
         IN  /\ IsImage(w) /\ w.pages = im.pages /\ w.hdr.cat = ts
             /\ w.hdr.count = im.hdr.count /\ w.hdr.head = im.hdr.head
             /\ w.hdr.magic = im.hdr.magic
             /\ DOMAIN Loaded(w) = DOMAIN ts
             /\ \A n \in DOMAIN ts : ReadBack(Loaded(w)[n], ts[n])
<1> DEFINE w == Saved(im, ts)
<1>1. /\ w.pages = im.pages
      /\ w.hdr = [im.hdr EXCEPT !.cat = ts, !.ver = Version]
      /\ w = [hdr |-> w.hdr, pages |-> w.pages]
  BY ImageTypes DEF Saved
<1> HIDE DEF w
<1>2. /\ w.hdr.cat = ts /\ w.hdr.ver = Version /\ w.hdr.count = im.hdr.count
      /\ w.hdr.head = im.hdr.head /\ w.hdr.magic = im.hdr.magic
      /\ w.hdr \in [magic : BOOLEAN, ver : 0 .. Version, count : 0 .. MaxPages,
                    head : 0 .. MaxPages - 1, cat : {w.hdr.cat}]
  <2>1. Version \in 0 .. Version
    BY ConstantTypes
  <2>2. QED
    BY <1>1, <2>1, ImageTypes
<1>3. IsImage(w)
  BY <1>1, <1>2, ImageTypes DEF IsImage
<1>4. DOMAIN Loaded(w) = DOMAIN ts
  BY <1>2, <1>3, LoadedFacts
<1>5. ASSUME NEW n \in DOMAIN ts PROVE ReadBack(Loaded(w)[n], ts[n])
  <2>1. /\ Loaded(w)[n].root = ts[n].root /\ SameCols(Loaded(w)[n].ncols, ts[n].ncols)
        /\ Loaded(w)[n].nullmap = (Version >= 3 /\ ts[n].nullmap)
    BY <1>2, <1>3, LoadedFacts
  <2>2. ts[n].nullmap \in BOOLEAN
    BY CatalogEntry
  <2>3. (Version >= 3 /\ ts[n].nullmap) = ts[n].nullmap
    BY <2>2, ConstantTypes
  <2>4. QED
    BY <2>1, <2>3 DEF ReadBack
<1>6. QED
  BY <1>1, <1>2, <1>3, <1>4, <1>5 DEF w

LEMMA ContentsHeld ==
  ASSUME NEW im, IsImage(im), im.hdr.count \in 1 .. Len(im.pages) + 1,
         NEW ts, IsCatalog(ts), NEW tl, IsTold(tl), NEW n \in DOMAIN tl, n \in DOMAIN ts
  PROVE  /\ Contents(im, ts, n) = [tl[n] EXCEPT !.ncols = Contents(im, ts, n).ncols]
         /\ SameCols(Contents(im, ts, n).ncols, tl[n].ncols)
         <=> Holds(im, ts[n], tl[n], n)
<1> DEFINE e == ts[n]
           t == tl[n]
           rows == IF e.root = 0 THEN <<n, 0>>
                   ELSE IF e.root \in 1 .. im.hdr.count - 1 /\ im.pages[e.root].word = LeafWord
                   THEN im.pages[e.root].rest ELSE <<>>
<1>1. Contents(im, ts, n) = [rows |-> rows, ncols |-> e.ncols, nullmap |-> e.nullmap]
  BY DEF Contents
<1>2. t = [rows |-> t.rows, ncols |-> t.ncols, nullmap |-> t.nullmap] /\ t.rows # <<>>
  BY ToldFacts
<1>3. rows = t.rows <=> \/ e.root = 0 /\ t.rows = <<n, 0>>
                        \/ e.root \in 1 .. im.hdr.count - 1 /\ im.pages[e.root] = LeafOf(t.rows)
  <2>1. CASE e.root = 0
    <3>1. e.root \notin 1 .. im.hdr.count - 1 /\ rows = <<n, 0>>
      BY <2>1
    <3>2. QED
      BY <2>1, <3>1
  <2>2. CASE e.root # 0 /\ e.root \in 1 .. im.hdr.count - 1
    <3>1. im.pages[e.root] \in Page
      <4>1. im.pages \in Seq(Page) /\ e.root \in 1 .. Len(im.pages)
        BY <2>2, ImageTypes
      <4>2. QED
        BY <4>1, ElementOfSeq
    <3>2. im.pages[e.root] = [word |-> im.pages[e.root].word, rest |-> im.pages[e.root].rest]
      BY <3>1 DEF Page
    <3>3. im.pages[e.root] = LeafOf(t.rows) <=> /\ im.pages[e.root].word = LeafWord
                                               /\ im.pages[e.root].rest = t.rows
      BY <3>2 DEF LeafOf
    <3>4. rows = IF im.pages[e.root].word = LeafWord THEN im.pages[e.root].rest ELSE <<>>
      BY <2>2
    <3> HIDE DEF rows, e, t
    <3>5. QED
      BY <2>2, <3>3, <3>4, <1>2
  <2>3. CASE e.root # 0 /\ e.root \notin 1 .. im.hdr.count - 1
    <3>1. rows = <<>>
      BY <2>3
    <3>2. QED
      BY <2>3, <3>1, <1>2
  <2>4. QED
    BY <2>1, <2>2, <2>3
<1> HIDE DEF rows
<1>4. Contents(im, ts, n) = [t EXCEPT !.ncols = e.ncols] <=> rows = t.rows /\ e.nullmap = t.nullmap
  <2>1. [t EXCEPT !.ncols = e.ncols] = [rows |-> t.rows, ncols |-> e.ncols, nullmap |-> t.nullmap]
    BY <1>2
  <2>2. QED
    BY <1>1, <2>1
<1>5. Contents(im, ts, n).ncols = e.ncols
  BY <1>1
<1>6. QED
  BY <1>3, <1>4, <1>5 DEF Holds

LEMMA ToldIsKept ==
  ASSUME NEW im, IsImage(im), im.hdr.count \in 1 .. Len(im.pages) + 1,
         NEW ts, IsCatalog(ts), NEW tl, IsTold(tl), NEW hu
  PROVE  AllTold(im, ts, tl, hu) <=> Kept(im, ts, tl, hu)
  BY ContentsHeld DEF AllTold, Kept

\* A table that holds what SQL was told is a leaf of its own, no page of which
\* links to another; two such tables have two leaves.
LEMMA RootFacts ==
  ASSUME NEW im, IsImage(im), NEW ts, NEW tl, IsTold(tl), NEW hu,
         Kept(im, ts, tl, hu), NEW n \in DOMAIN ts \ hu, ts[n].root # 0
  PROVE  /\ n \in DOMAIN tl /\ ts[n].root \in 1 .. im.hdr.count - 1
         /\ im.pages[ts[n].root] = LeafOf(tl[n].rows)
         /\ im.pages[ts[n].root].word = LeafWord
         /\ im.pages[ts[n].root].rest = <<n, tl[n].rows[2]>>
<1>1. n \in DOMAIN tl /\ Holds(im, ts[n], tl[n], n)
  BY DEF Kept
<1>2. ts[n].root \in 1 .. im.hdr.count - 1 /\ im.pages[ts[n].root] = LeafOf(tl[n].rows)
  BY <1>1 DEF Holds
<1>3. tl[n].rows = <<n, tl[n].rows[2]>>
  BY <1>1, ToldFacts
<1>4. /\ LeafOf(tl[n].rows).word = LeafWord
      /\ LeafOf(tl[n].rows).rest = tl[n].rows
  BY DEF LeafOf
<1>5. QED
  BY <1>1, <1>2, <1>3, <1>4

LEMMA RootsApart ==
  ASSUME NEW im, IsImage(im), NEW ts, NEW tl, IsTold(tl), NEW hu,
         Kept(im, ts, tl, hu), NEW n \in DOMAIN ts \ hu, NEW o \in DOMAIN ts \ hu,
         ts[n].root # 0, ts[o].root = ts[n].root
  PROVE  o = n
<1>1. im.pages[ts[n].root].rest = <<n, tl[n].rows[2]>>
  BY RootFacts
<1>2. im.pages[ts[o].root].rest = <<o, tl[o].rows[2]>>
  BY RootFacts
<1>3. QED
  BY <1>1, <1>2

\* Another image, of which the store begins as this one's does, holds what this
\* one holds.
LEMMA HoldsElsewhere ==
  ASSUME NEW im, NEW im2, NEW e, NEW t, NEW n, Holds(im, e, t, n),
         e.root # 0 => e.root \in 1 .. im2.hdr.count - 1 /\ im2.pages[e.root] = im.pages[e.root]
  PROVE  Holds(im2, e, t, n)
<1>1. CASE e.root = 0 /\ t.rows = <<n, 0>>
  BY <1>1 DEF Holds
<1>2. CASE e.root \in 1 .. im.hdr.count - 1 /\ im.pages[e.root] = LeafOf(t.rows)
  <2>1. e.root # 0
    BY <1>2
  <2>2. QED
    BY <1>2, <2>1 DEF Holds
<1>3. QED
  BY <1>1, <1>2 DEF Holds

\* What a table holds it holds when its entry is read back.
LEMMA HoldsReadBack ==
  ASSUME NEW im, NEW e, NEW l, NEW t, NEW n, Holds(im, e, t, n), ReadBack(l, e)
  PROVE  Holds(im, l, t, n)
  BY DEF Holds, ReadBack, SameCols

\* What is restored from an image may be told differently: the tables on which
\* the accounts differ are hurt.
LEMMA Retold ==
  ASSUME NEW im, NEW tl, NEW tl2, NEW hu, Restorable(im, tl, hu)
  PROVE  Restorable(im, tl2, hu \cup Differ(tl2, tl))
<1> DEFINE hu2 == hu \cup Differ(tl2, tl)
<1>1. ASSUME NEW n \in (DOMAIN tl2 \cup DOMAIN Loaded(im)) \ hu2
      PROVE  n \in (DOMAIN tl \cup DOMAIN Loaded(im)) \ hu /\ n \in DOMAIN tl2 /\ tl2[n] = tl[n]
  BY DEF Restorable, AllTold, Differ
<1>2. AllTold(im, Loaded(im), tl2, hu2)
  BY <1>1 DEF Restorable, AllTold
<1>3. hu2 = {} => hu = {} /\ (DOMAIN tl2 = {} => DOMAIN tl = {})
  BY DEF Differ
<1>4. QED
  BY <1>2, <1>3 DEF Restorable

\* What is restored from an image is restored from another one with the same
\* catalog, the same pages and perhaps more.
LEMMA RestorableAs ==
  ASSUME NEW im, IsImage(im), NEW im2, IsImage(im2),
         NEW tl, IsTold(tl), NEW hu, Restorable(im, tl, hu),
         im2.hdr.cat = im.hdr.cat, im2.hdr.ver = im.hdr.ver, im2.hdr.head = im.hdr.head,
         im2.hdr.count \in im.hdr.count .. Len(im2.pages) + 1,
         \A pn \in 1 .. im.hdr.count - 1 : im2.pages[pn] = im.pages[pn]
  PROVE  Restorable(im2, tl, hu)
<1>1. /\ im.hdr.count \in Nat /\ Len(im.pages) \in Nat /\ Len(im2.pages) \in Nat
      /\ im2.hdr.count \in Nat /\ im.hdr.head \in Nat
  BY ImageTypes
<1>2. im.hdr.count \in 1 .. Len(im.pages) + 1 /\ AllTold(im, Loaded(im), tl, hu)
  BY DEF Restorable
<1>3. im2.hdr.count \in 1 .. Len(im2.pages) + 1 /\ im.hdr.count <= im2.hdr.count
  BY <1>1, <1>2
<1>4. AllTold(im2, Loaded(im2), tl, hu)
  <2>1. Loaded(im2) = Loaded(im) /\ IsCatalog(Loaded(im))
    BY LoadedSame, LoadedFacts
  <2>2. Kept(im, Loaded(im), tl, hu)
    BY <1>2, <2>1, ToldIsKept
  <2>3. ASSUME NEW n, NEW e, NEW t, Holds(im, e, t, n)
        PROVE  Holds(im2, e, t, n)
    <3>1. e.root # 0 => e.root \in 1 .. im.hdr.count - 1
      BY <2>3 DEF Holds
    <3>2. e.root # 0 => e.root \in 1 .. im2.hdr.count - 1 /\ im2.pages[e.root] = im.pages[e.root]
      BY <3>1, <1>1, <1>3
    <3>3. QED
      BY <3>2, <2>3, HoldsElsewhere
  <2>4. Kept(im2, Loaded(im), tl, hu)
    BY <2>2, <2>3 DEF Kept
  <2>5. QED
    BY <1>3, <2>1, <2>4, ToldIsKept
<1>5. ASSUME hu = {} PROVE FreeListOK(Store(im2))
  <2>1. FreeListOK(Store(im))
    BY <1>5 DEF Restorable
  <2>2. /\ Store(im) \in Stores /\ Store(im2) \in Stores
        /\ Store(im).head = im.hdr.head /\ Store(im2).head = im2.hdr.head
        /\ Len(Store(im).pages) = im.hdr.count - 1 /\ Len(Store(im2).pages) = im2.hdr.count - 1
        /\ PageNos(Store(im)) = 1 .. im.hdr.count - 1
    BY <1>2, <1>3, StoreFacts
  <2>3. ASSUME NEW pn \in 1 .. im.hdr.count - 1
        PROVE  Store(im2).pages[pn] = Store(im).pages[pn]
    <3>1. pn \in 1 .. im2.hdr.count - 1
      BY <1>1, <1>3
    <3>2. QED
      BY <3>1, <1>2, <1>3, StoreFacts
  <2>4. Len(Store(im).pages) <= Len(Store(im2).pages)
    BY <2>2, <1>1, <1>3
  <2>5. QED
    BY <2>1, <2>2, <2>3, <2>4, SameFreeList
<1>6. ASSUME hu = {}, DOMAIN tl = {} PROVE Bare(im2)
  <2>1. /\ NewPages < im.hdr.count /\ NewPages \in Nat
        /\ im.hdr.head \in 0 .. NewPages
        /\ \A pn \in 1 .. NewPages : im.pages[pn].word \in {0, pn - 1}
    BY <1>6, ConstantTypes DEF Restorable, Bare, Formatting
  <2>2. \A pn \in 1 .. NewPages : im2.pages[pn] = im.pages[pn]
    BY <2>1, <1>1
  <2>3. Len(im2.pages) >= NewPages /\ im2.hdr.count > NewPages
    BY <2>1, <1>1, <1>3
  <2>4. QED
    BY <2>1, <2>2, <2>3 DEF Bare, Formatting
<1>7. QED
  BY <1>3, <1>4, <1>5, <1>6 DEF Restorable

\* What a new database maps, formatted.
NewImage == [hdr   |-> [Header(NewPages) EXCEPT !.head = NewPages],
             pages |-> [pn \in 1 .. NewPages |-> [ZeroPage EXCEPT !.word = pn - 1]]]

LEMMA EmptyTables ==
  /\ DOMAIN <<>> = {} /\ IsCatalog(<<>>) /\ IsTold(<<>>)
  /\ \A im, hu : AllTold(im, <<>>, <<>>, hu)
<1>1. DOMAIN <<>> = {} /\ \A S : <<>> \in [{} -> S]
  OBVIOUS
<1>2. QED
  BY <1>1 DEF IsCatalog, IsTold, AllTold

LEMMA HeaderFacts ==
  ASSUME NEW n \in 0 .. MaxPages - 1
  PROVE  LET h == Header(n)
         IN  /\ h.count = n + 1 /\ h.head = 0 /\ h.cat = <<>> /\ h.magic
             /\ \A k \in 0 .. MaxPages - 1 :
                   LET g == [h EXCEPT !.head = k]
                   IN  /\ g.count = n + 1 /\ g.head = k /\ g.cat = <<>> /\ g.magic
                       /\ g \in [magic : BOOLEAN, ver : 0 .. Version, count : 0 .. MaxPages,
                                 head : 0 .. MaxPages - 1, cat : {<<>>}]
             /\ h \in [magic : BOOLEAN, ver : 0 .. Version, count : 0 .. MaxPages,
                       head : 0 .. MaxPages - 1, cat : {<<>>}]
<1>1. n + 1 \in 0 .. MaxPages /\ 0 \in 0 .. MaxPages - 1 /\ Version \in 0 .. Version
  BY ConstantTypes
<1>2. QED
  BY <1>1 DEF Header

LEMMA NewImageFacts ==
  /\ IsImage(NewImage) /\ NewImage.hdr.magic /\ NewImage.hdr.cat = <<>>
  /\ NewImage.hdr.count = NewPages + 1 /\ Len(NewImage.pages) = NewPages
  /\ Bare(NewImage) /\ FreeListOK(Store(NewImage))
<1>1. NewPages \in 0 .. MaxPages - 1 /\ NewPages \in Nat /\ NewPages < MaxPages
  BY ConstantTypes
<1>2. /\ NewImage.hdr.count = NewPages + 1 /\ NewImage.hdr.head = NewPages
      /\ NewImage.hdr.cat = <<>> /\ NewImage.hdr.magic
      /\ NewImage.hdr \in [magic : BOOLEAN, ver : 0 .. Version, count : 0 .. MaxPages,
                           head : 0 .. MaxPages - 1, cat : {<<>>}]
      /\ NewImage = [hdr |-> NewImage.hdr, pages |-> NewImage.pages]
  BY <1>1, HeaderFacts DEF NewImage
<1>3. /\ NewImage.pages \in Seq(Page) /\ Len(NewImage.pages) = NewPages
      /\ \A pn \in 1 .. NewPages : NewImage.pages[pn].word = pn - 1
  <2>1. \A pn \in 1 .. NewPages : pn - 1 \in Int
    BY <1>1
  <2>2. \A pn \in 1 .. NewPages : /\ [ZeroPage EXCEPT !.word = pn - 1] \in Page
                                  /\ [ZeroPage EXCEPT !.word = pn - 1].word = pn - 1
    BY <2>1, PageTypes
  <2>3. NewImage.pages = [pn \in 1 .. NewPages |-> [ZeroPage EXCEPT !.word = pn - 1]]
    BY DEF NewImage
  <2>4. NewImage.pages \in [1 .. NewPages -> Page]
    BY <2>2, <2>3
  <2>5. NewImage.pages \in Seq(Page) /\ Len(NewImage.pages) = NewPages
    BY <1>1, <2>4
  <2>6. QED
    BY <2>2, <2>3, <2>5
<1>4. IsImage(NewImage)
  BY <1>1, <1>2, <1>3, EmptyTables DEF IsImage
<1>5. Bare(NewImage)
  BY <1>1, <1>2, <1>3 DEF Bare, Formatting
<1>6. NewImage.hdr.count \in 1 .. Len(NewImage.pages) + 1
  BY <1>1, <1>2, <1>3
<1>7. QED
  BY <1>2, <1>3, <1>4, <1>5, <1>6, BareFree

LEMMA PutFacts ==
  ASSUME NEW n, NEW e, NEW g
  PROVE  LET f == Put(g, n, e)
         IN  /\ DOMAIN f = {n} \cup DOMAIN g /\ f[n] = e
             /\ \A o \in DOMAIN g \ {n} : f[o] = g[o]
             /\ f = [o \in {n} \cup DOMAIN g |-> f[o]]
  BY DEF Put

LEMMA CatalogPut ==
  ASSUME NEW ts, IsCatalog(ts), NEW n \in Tabs, NEW e \in TabEntry
  PROVE  IsCatalog(Put(ts, n, e))
<1> DEFINE f == Put(ts, n, e)
<1>1. /\ DOMAIN f = {n} \cup DOMAIN ts /\ f[n] = e
      /\ \A o \in DOMAIN ts \ {n} : f[o] = ts[o]
      /\ f = [o \in {n} \cup DOMAIN ts |-> f[o]]
  BY PutFacts
<1> HIDE DEF f
<1>2. \A o \in DOMAIN f : f[o] \in TabEntry
  BY <1>1 DEF IsCatalog
<1>3. IsCatalog(f)
  BY <1>1, <1>2 DEF IsCatalog
<1>4. QED
  BY <1>3 DEF f

LEMMA ToldPut ==
  ASSUME NEW tl, IsTold(tl), NEW n \in Tabs, NEW t \in ToldEntry, t.rows[1] = n
  PROVE  IsTold(Put(tl, n, t))
<1> DEFINE f == Put(tl, n, t)
<1>1. /\ DOMAIN f = {n} \cup DOMAIN tl /\ f[n] = t
      /\ \A o \in DOMAIN tl \ {n} : f[o] = tl[o]
      /\ f = [o \in {n} \cup DOMAIN tl |-> f[o]]
  BY DEF Put
<1> HIDE DEF f
<1>2. \A o \in DOMAIN f : f[o] \in ToldEntry /\ f[o].rows[1] = o
  BY <1>1 DEF IsTold
<1>3. IsTold(f)
  BY <1>1, <1>2 DEF IsTold
<1>4. QED
  BY <1>3 DEF f

LEMMA NoImageFacts == IsImage(NoImage) /\ ~NoImage.hdr.magic /\ NoImage.pages = <<>>
<1>1. /\ NoImage.hdr \in [magic : BOOLEAN, ver : 0 .. Version, count : 0 .. MaxPages,
                          head : 0 .. MaxPages - 1, cat : {<<>>}]
      /\ NoImage.hdr.cat = <<>> /\ NoImage.pages = <<>>
      /\ NoImage = [hdr |-> NoImage.hdr, pages |-> NoImage.pages]
      /\ ~NoImage.hdr.magic
  BY ConstantTypes DEF NoImage
<1>2. <<>> \in Seq(Page) /\ Len(<<>>) < MaxPages
  BY EmptySeq, ConstantTypes
<1>3. QED
  BY <1>1, <1>2, EmptyTables DEF IsImage

\* An image in which a page was allocated and written: no page in use changed.
LEMMA Allocated ==
  ASSUME NEW im, IsImage(im), im.hdr.count \in 1 .. Len(im.pages) + 1,
         FreeListOK(Store(im)), NEW page \in Page
  PROVE  LET a == PagerAlloc(Store(im))
             w == Within(im, SetPage(a.st, a.pn, page))
         IN  /\ a.pn \in 0 .. MaxPages - 1
             /\ a.pn # 0 =>
                  /\ IsImage(w) /\ w.hdr.magic = im.hdr.magic /\ w.hdr.cat = im.hdr.cat
                  /\ w.hdr.ver = im.hdr.ver
                  /\ w.hdr.count \in 1 .. Len(w.pages) + 1 /\ im.hdr.count <= w.hdr.count
                  /\ Len(w.pages) >= 1
                  /\ a.pn \in 1 .. w.hdr.count - 1 /\ w.pages[a.pn] = page
                  /\ a.pn \in 1 .. im.hdr.count - 1 => im.pages[a.pn].word >= 0
                  /\ \A r \in 1 .. im.hdr.count - 1 :
                        r # a.pn => w.pages[r] = im.pages[r]
                  /\ FreeListOK(Store(w))
<1> DEFINE st == Store(im)
           a == PagerAlloc(st)
           st2 == SetPage(a.st, a.pn, page)
           w == Within(im, st2)
<1>1. /\ st \in Stores /\ Len(st.pages) = im.hdr.count - 1 /\ PageNos(st) = 1 .. im.hdr.count - 1
      /\ \A pn \in 1 .. im.hdr.count - 1 : st.pages[pn] = im.pages[pn]
      /\ im.hdr.count \in Nat /\ Len(im.pages) \in Nat /\ Len(im.pages) < MaxPages
  BY StoreFacts, ImageTypes
<1>2. Len(st.pages) < MaxPages
  BY <1>1, ConstantTypes
<1> HIDE DEF st
<1>3. /\ a.pn \in 0 .. MaxPages - 1
      /\ a.pn # 0 =>
            /\ st2 \in Stores /\ Len(st2.pages) < MaxPages
            /\ Len(st.pages) <= Len(st2.pages)
            /\ a.pn \in PageNos(st2) /\ st2.pages[a.pn] = page
            /\ a.pn \in PageNos(st) => st.pages[a.pn].word >= 0
            /\ \A pn \in PageNos(st) \ {a.pn} : st2.pages[pn] = st.pages[pn]
            /\ FreeListOK(st2)
  <2>1. FreeListOK(st)
    BY DEF st
  <2>2. QED
    BY <1>1, <1>2, <2>1, AllocFacts
<1> HIDE DEF a, st2
<1>4. SUFFICES ASSUME a.pn # 0
               PROVE  /\ IsImage(w) /\ w.hdr.magic = im.hdr.magic /\ w.hdr.cat = im.hdr.cat
                      /\ w.hdr.ver = im.hdr.ver
                      /\ w.hdr.count \in 1 .. Len(w.pages) + 1 /\ im.hdr.count <= w.hdr.count
                      /\ Len(w.pages) >= 1
                      /\ a.pn \in 1 .. w.hdr.count - 1 /\ w.pages[a.pn] = page
                      /\ a.pn \in 1 .. im.hdr.count - 1 => im.pages[a.pn].word >= 0
                      /\ \A r \in 1 .. im.hdr.count - 1 :
                            r # a.pn => w.pages[r] = im.pages[r]
                      /\ FreeListOK(Store(w))
  BY <1>3 DEF st, a, st2
<1>5. /\ Len(st2.pages) \in Nat /\ PageNos(st2) = 1 .. Len(st2.pages)
      /\ im.hdr.count <= Len(st2.pages) + 1
  BY <1>1, <1>3, <1>4, LenProperties DEF Stores, PageNos
<1>6. /\ IsImage(w) /\ w.hdr.count = Len(st2.pages) + 1
      /\ w.hdr.magic = im.hdr.magic /\ w.hdr.ver = im.hdr.ver /\ w.hdr.cat = im.hdr.cat
      /\ Len(w.pages) >= Len(st2.pages)
      /\ \A pn \in 1 .. Len(st2.pages) : w.pages[pn] = st2.pages[pn]
      /\ Store(w) = st2
  BY <1>3, <1>4, <1>5, WithinFacts
<1> HIDE DEF w
<1>7. Len(w.pages) \in Nat
  BY <1>6, ImageTypes
<1>8. \A r \in 1 .. im.hdr.count - 1 : r # a.pn => w.pages[r] = im.pages[r]
  <2>1. TAKE r \in 1 .. im.hdr.count - 1
  <2>2. HAVE r # a.pn
  <2>3. r \in 1 .. Len(st2.pages)
    BY <2>1, <1>1, <1>5
  <2>4. w.pages[r] = st2.pages[r] /\ st2.pages[r] = st.pages[r] /\ st.pages[r] = im.pages[r]
    BY <2>1, <2>2, <2>3, <1>1, <1>3, <1>4, <1>6
  <2>5. QED
    BY <2>4
<1>9. a.pn \in 1 .. w.hdr.count - 1 /\ w.pages[a.pn] = page /\ Len(w.pages) >= 1
  BY <1>3, <1>4, <1>5, <1>6, <1>7
<1>10. w.hdr.count \in 1 .. Len(w.pages) + 1 /\ im.hdr.count <= w.hdr.count
  BY <1>5, <1>6, <1>7
<1>11. a.pn \in 1 .. im.hdr.count - 1 => im.pages[a.pn].word >= 0
  BY <1>1, <1>3, <1>4
<1>12. QED
  BY <1>3, <1>4, <1>6, <1>8, <1>9, <1>10, <1>11

\* An image in which a page that is not on the free list was written.
LEMMA Rewritten ==
  ASSUME NEW im, IsImage(im), im.hdr.count \in 1 .. Len(im.pages) + 1,
         FreeListOK(Store(im)), NEW page \in Page,
         NEW r \in 1 .. im.hdr.count - 1, im.pages[r].word < 0
  PROVE  LET w == [im EXCEPT !.pages[r] = page]
         IN  /\ IsImage(w) /\ w.hdr = im.hdr /\ Len(w.pages) = Len(im.pages)
             /\ w.pages[r] = page
             /\ \A o \in 1 .. im.hdr.count - 1 : o # r => w.pages[o] = im.pages[o]
             /\ FreeListOK(Store(w))
<1> DEFINE w == [im EXCEPT !.pages[r] = page]
<1>1. /\ im.pages \in Seq(Page) /\ Len(im.pages) \in Nat /\ Len(im.pages) < MaxPages
      /\ im.hdr.count \in Nat /\ im = [hdr |-> im.hdr, pages |-> im.pages]
      /\ IsCatalog(im.hdr.cat)
      /\ im.hdr \in [magic : BOOLEAN, ver : 0 .. Version, count : 0 .. MaxPages,
                    head : 0 .. MaxPages - 1, cat : {im.hdr.cat}]
  BY ImageTypes
<1>2. DOMAIN im.pages = 1 .. Len(im.pages) /\ r \in 1 .. Len(im.pages)
      /\ im.pages[r].word \in Int /\ im \in [hdr : {im.hdr}, pages : Seq(Page)]
  <2>1. DOMAIN im.pages = 1 .. Len(im.pages) /\ r \in 1 .. Len(im.pages)
    BY <1>1, LenProperties
  <2>2. im.pages[r] \in Page
    BY <1>1, <2>1, ElementOfSeq
  <2>3. QED
    BY <2>1, <2>2, PageTypes DEF IsImage
<1>3. /\ w.hdr = im.hdr /\ w.pages = [im.pages EXCEPT ![r] = page]
      /\ w = [hdr |-> w.hdr, pages |-> w.pages]
  BY <1>2
<1> HIDE DEF w
<1>4. w.pages \in Seq(Page) /\ Len(w.pages) = Len(im.pages)
  BY <1>1, <1>2, <1>3, ExceptSeq
<1>5. w.pages[r] = page /\ \A o \in 1 .. im.hdr.count - 1 : o # r => w.pages[o] = im.pages[o]
  BY <1>1, <1>2, <1>3
<1>6. IsImage(w)
  BY <1>1, <1>3, <1>4 DEF IsImage
<1>7. /\ Store(im) \in Stores /\ Store(im).head = im.hdr.head
      /\ Len(Store(im).pages) = im.hdr.count - 1
      /\ PageNos(Store(im)) = 1 .. im.hdr.count - 1
      /\ \A pn \in 1 .. im.hdr.count - 1 : Store(im).pages[pn] = im.pages[pn]
  BY StoreFacts
<1>8. /\ Store(w) \in Stores /\ Store(w).head = im.hdr.head
      /\ Len(Store(w).pages) = im.hdr.count - 1
      /\ \A pn \in 1 .. im.hdr.count - 1 : Store(w).pages[pn] = w.pages[pn]
  BY <1>3, <1>4, <1>6, StoreFacts
<1>9. \A pn \in PageNos(Store(im)) :
         Store(im).pages[pn].word >= 0 => Store(w).pages[pn].word = Store(im).pages[pn].word
  <2>1. TAKE pn \in PageNos(Store(im))
  <2>2. HAVE Store(im).pages[pn].word >= 0
  <2>3. pn \in 1 .. im.hdr.count - 1 /\ pn # r
    BY <2>1, <2>2, <1>2, <1>7
  <2>4. QED
    BY <2>3, <1>5, <1>7, <1>8
<1>10. FreeListOK(Store(w))
  <2>1. Len(Store(im).pages) <= Len(Store(w).pages)
    BY <1>1, <1>7, <1>8
  <2>2. QED
    BY <2>1, <1>7, <1>8, <1>9, SameFreeList
<1>11. QED
  BY <1>3, <1>4, <1>5, <1>6, <1>10 DEF w

\* An image in which a page that was not on the free list was freed.
LEMMA Freed ==
  ASSUME NEW im, IsImage(im), im.hdr.count \in 1 .. Len(im.pages) + 1,
         FreeListOK(Store(im)), NEW r \in 1 .. im.hdr.count - 1, im.pages[r].word < 0
  PROVE  LET w == Within(im, PagerFree(Store(im), r))
         IN  /\ IsImage(w) /\ w.hdr.magic = im.hdr.magic /\ w.hdr.cat = im.hdr.cat
             /\ w.hdr.ver = im.hdr.ver /\ w.hdr.count = im.hdr.count
             /\ Len(w.pages) = Len(im.pages)
             /\ \A o \in 1 .. im.hdr.count - 1 : o # r => w.pages[o] = im.pages[o]
             /\ FreeListOK(Store(w))
<1> DEFINE st == Store(im)
           st2 == PagerFree(st, r)
           w == Within(im, st2)
<1>1. /\ st \in Stores /\ Len(st.pages) = im.hdr.count - 1 /\ PageNos(st) = 1 .. im.hdr.count - 1
      /\ \A pn \in 1 .. im.hdr.count - 1 : st.pages[pn] = im.pages[pn]
      /\ im.hdr.count \in Nat /\ Len(im.pages) \in Nat /\ Len(im.pages) < MaxPages
      /\ FreeListOK(st)
  BY StoreFacts, ImageTypes
<1>2. Len(st.pages) < MaxPages /\ r \in PageNos(st) /\ st.pages[r].word < 0
  BY <1>1, ConstantTypes
<1> HIDE DEF st
<1>3. /\ st2 \in Stores /\ Len(st2.pages) = Len(st.pages)
      /\ \A o \in PageNos(st) \ {r} : st2.pages[o] = st.pages[o]
      /\ FreeListOK(st2)
  BY <1>1, <1>2, FreeFacts
<1> HIDE DEF st2
<1>4. /\ Len(st2.pages) < MaxPages /\ im.hdr.count = Len(st2.pages) + 1
      /\ im.hdr.count <= Len(st2.pages) + 1
  BY <1>1, <1>2, <1>3
<1>5. /\ IsImage(w) /\ w.hdr.count = Len(st2.pages) + 1
      /\ w.hdr.magic = im.hdr.magic /\ w.hdr.ver = im.hdr.ver /\ w.hdr.cat = im.hdr.cat
      /\ \A pn \in 1 .. Len(st2.pages) : w.pages[pn] = st2.pages[pn]
      /\ Len(st2.pages) + 1 = im.hdr.count => Len(w.pages) = Len(im.pages)
      /\ Store(w) = st2
  BY <1>3, <1>4, WithinFacts
<1> HIDE DEF w
<1>6. \A o \in 1 .. im.hdr.count - 1 : o # r => w.pages[o] = im.pages[o]
  BY <1>1, <1>3, <1>4, <1>5
<1>7. Len(w.pages) = Len(im.pages) /\ w.hdr.count = im.hdr.count /\ FreeListOK(Store(w))
  BY <1>3, <1>4, <1>5
<1>8. QED
  BY <1>5, <1>6, <1>7 DEF w, st2, st

----------------------------------------------------------------------------
(* The invariant. *)

Open == mode # "closed"

TypeInv ==
    /\ mode \in {"closed", "file", "mem", "detached"}
    /\ pc \in {"idle", "format", "leaf", "written", "done", "saved"}
    /\ IsImage(img) /\ IsImage(synced)
    /\ IsCatalog(tables) /\ IsTold(told)
    /\ \/ dump = <<>>
       \/ dump = <<dump[1]>> /\ IsImage(dump[1])
    /\ inDump = [told |-> inDump.told, hurt |-> inDump.hurt]
    /\ IsTold(inDump.told)
    /\ inDump.hurt \subseteq Tabs
    /\ onFile = [told |-> onFile.told, hurt |-> onFile.hurt]
    /\ IsTold(onFile.told) /\ onFile.hurt \subseteq Tabs
    /\ cur = [tab |-> cur.tab, pn |-> cur.pn]
    /\ wild \in BOOLEAN /\ left \in 0 .. Budget
    /\ touched \subseteq Tabs /\ hurt \subseteq Tabs
    /\ unsaved \subseteq DOMAIN told

\* Where the statement is.
StepInv ==
    /\ ~Open => pc = "idle"
    /\ Open => img.hdr.magic /\ img.hdr.count \in 1 .. Len(img.pages) + 1
               /\ Len(img.pages) >= 1
    /\ pc \in {"format", "written", "idle"} => ~wild
    /\ pc \in {"leaf", "written"} => hurt = {} /\ cur.tab \in DOMAIN tables
    /\ pc = "leaf" /\ ~wild =>
          /\ tables[cur.tab].root # 0
          /\ cur.tab \in DOMAIN told /\ cur.tab \in touched
          /\ cur.pn \in 1 .. img.hdr.count - 1
          /\ img.pages[cur.pn] = LeafOf(OneMore(cur.tab))
    /\ pc = "format" =>
          /\ mode = "file" /\ ~synced.hdr.magic
          /\ tables = <<>> /\ told = <<>> /\ img.hdr.cat = <<>>
          /\ touched = {} /\ hurt = {}
          /\ Len(img.pages) = NewPages /\ img.hdr.count = NewPages + 1
          /\ cur.pn \in 1 .. NewPages + 1 /\ img.hdr.head = cur.pn - 1

\* The mapping.
MapInv ==
    Open /\ ~wild =>
        /\ AllTold(img, tables, told, hurt)
        /\ hurt = {} => FreeListOK(Store(img)) /\ (DOMAIN told = {} => Bare(img))
        /\ \A n \in (DOMAIN tables \cup DOMAIN img.hdr.cat) \ unsaved :
              /\ n \in DOMAIN tables /\ n \in DOMAIN img.hdr.cat
              /\ ReadBack(Loaded(img)[n], tables[n])

\* The file, and the dump unless it was cut short.
FileInv ==
    /\ synced.hdr.magic => /\ Restorable(synced, onFile.told, onFile.hurt)
                           /\ synced.pages # <<>>
    /\ ~synced.hdr.magic => /\ synced.hdr = NoImage.hdr
                            /\ synced.pages = <<>> \/ Formatting(synced.pages)
                            /\ Len(synced.pages) \in {0, NewPages}
                            /\ mode = "file" => pc = "format"
DumpInv ==
    dump # <<>> => /\ dump[1].hdr.magic /\ dump[1].pages # <<>>
                   /\ dump[1].hdr.count >= 1
                   /\ dump[1].hdr.count <= Len(dump[1].pages) + 1 =>
                         Restorable(dump[1], inDump.told, inDump.hurt)

\* What the mapping and its file have in common.
FileAgrees ==
    \A n \in (DOMAIN tables \cup DOMAIN synced.hdr.cat) \ (touched \cup unsaved \cup hurt) :
        /\ n \in DOMAIN tables /\ n \in DOMAIN synced.hdr.cat
        /\ ReadBack(Loaded(synced)[n], tables[n])
        /\ LET root == tables[n].root
           IN  root # 0 => /\ root \in 1 .. synced.hdr.count - 1
                           /\ synced.pages[root] = img.pages[root]
FilesAlike ==
    hurt \cup touched \cup unsaved = {} =>
        \/ DOMAIN told = {} /\ (synced.hdr.magic => Bare(synced))
        \/ /\ synced.hdr.magic /\ synced.pages = img.pages
           /\ synced.hdr.head = img.hdr.head /\ synced.hdr.count = img.hdr.count
MixInv ==
    mode = "file" /\ ~wild =>
        /\ synced.hdr.count <= Len(img.pages) + 1
        /\ FileAgrees /\ FilesAlike
        /\ pc = "idle" => /\ synced = img /\ touched = {}
                          /\ onFile.told = told /\ onFile.hurt = hurt \cup unsaved

FileDbInv == TypeInv /\ StepInv /\ MapInv /\ FileInv /\ DumpInv /\ MixInv

(***************************************************************************)
(* Opening and closing.                                                    *)
(***************************************************************************)

\* What an open and reliable mapping would be restored as.
LEMMA MappingRestorable ==
  ASSUME FileDbInv, Open, ~wild
  PROVE  /\ Restorable(img, told, hurt \cup unsaved) /\ IsImage(img)
         /\ Kept(img, tables, told, hurt)
         /\ img.hdr.count \in 1 .. Len(img.pages) + 1
<1>1. /\ IsImage(img) /\ IsCatalog(tables) /\ IsTold(told)
      /\ img.hdr.count \in 1 .. Len(img.pages) + 1
      /\ AllTold(img, tables, told, hurt)
      /\ hurt = {} => FreeListOK(Store(img)) /\ (DOMAIN told = {} => Bare(img))
      /\ \A n \in (DOMAIN tables \cup DOMAIN img.hdr.cat) \ unsaved :
            n \in DOMAIN tables /\ n \in DOMAIN img.hdr.cat /\ ReadBack(Loaded(img)[n], tables[n])
      /\ unsaved \subseteq DOMAIN told
  BY DEF FileDbInv, TypeInv, StepInv, MapInv
<1>2. Kept(img, tables, told, hurt)
  BY <1>1, ToldIsKept
<1>3. DOMAIN Loaded(img) = DOMAIN img.hdr.cat /\ IsCatalog(Loaded(img))
  BY <1>1, LoadedFacts
<1>4. Kept(img, Loaded(img), told, hurt \cup unsaved)
  <2>1. ASSUME NEW n \in (DOMAIN told \cup DOMAIN Loaded(img)) \ (hurt \cup unsaved)
        PROVE  n \in DOMAIN told /\ n \in DOMAIN Loaded(img) /\ Holds(img, Loaded(img)[n], told[n], n)
    <3>1. n \in DOMAIN tables
      BY <1>1, <1>2, <1>3 DEF Kept
    <3>2. n \in DOMAIN told /\ Holds(img, tables[n], told[n], n)
      BY <3>1, <1>2 DEF Kept
    <3>3. n \in DOMAIN Loaded(img) /\ ReadBack(Loaded(img)[n], tables[n])
      BY <3>1, <1>1, <1>3
    <3>4. QED
      BY <3>2, <3>3, HoldsReadBack
  <2>2. QED
    BY <2>1 DEF Kept
<1>5. AllTold(img, Loaded(img), told, hurt \cup unsaved)
  BY <1>1, <1>3, <1>4, ToldIsKept
<1>6. hurt \cup unsaved = {} => hurt = {}
  OBVIOUS
<1>7. QED
  BY <1>1, <1>2, <1>5, <1>6 DEF Restorable

LEMMA InitInv == Init => FileDbInv
<1> SUFFICES ASSUME Init PROVE FileDbInv
  OBVIOUS
<1>1. /\ mode = "closed" /\ img = NoImage /\ synced = NoImage /\ tables = <<>>
      /\ pc = "idle" /\ cur = NoTab /\ wild = FALSE /\ left = Budget
      /\ told = <<>> /\ touched = {} /\ unsaved = {} /\ hurt = {} /\ onFile = Nothing
  BY DEF Init
<1>2. IsImage(NoImage) /\ ~NoImage.hdr.magic /\ NoImage.pages = <<>>
  BY NoImageFacts
<1>3. \/ dump = <<>> /\ inDump = Nothing
      \/ /\ dump = <<dump[1]>> /\ dump # <<>> /\ IsImage(dump[1]) /\ dump[1].hdr.magic
         /\ dump[1].pages # <<>> /\ dump[1].hdr.count >= 1
         /\ inDump = [told |-> inDump.told, hurt |-> inDump.hurt] /\ inDump.hurt = {}
         /\ IsTold(inDump.told) /\ Restorable(dump[1], inDump.told, {})
  <2>1. CASE dump = <<>> /\ inDump = Nothing
    BY <2>1
  <2>2. ASSUME NEW old \in OldDumps, dump = <<old>>,
               inDump = [told |-> [n \in DOMAIN old.hdr.cat |-> Contents(old, Loaded(old), n)],
                         hurt |-> {}]
        PROVE  /\ dump = <<dump[1]>> /\ dump # <<>> /\ IsImage(dump[1]) /\ dump[1].hdr.magic
               /\ dump[1].pages # <<>> /\ dump[1].hdr.count >= 1
               /\ inDump = [told |-> inDump.told, hurt |-> inDump.hurt] /\ inDump.hurt = {}
               /\ IsTold(inDump.told) /\ Restorable(dump[1], inDump.told, {})
    <3> DEFINE tl == [n \in DOMAIN old.hdr.cat |-> Contents(old, Loaded(old), n)]
    <3>1. /\ IsImage(old) /\ old.hdr.magic /\ old.hdr.count = Len(old.pages) + 1
          /\ old.pages # <<>> /\ DOMAIN old.hdr.cat # {}
          /\ \A n \in DOMAIN old.hdr.cat : old.hdr.cat[n].root # 0 =>
                /\ old.hdr.cat[n].root \in 1 .. Len(old.pages)
                /\ old.pages[old.hdr.cat[n].root].word = LeafWord
                /\ old.pages[old.hdr.cat[n].root].rest = <<n, old.pages[old.hdr.cat[n].root].rest[2]>>
                /\ old.pages[old.hdr.cat[n].root].rest[2] \in Nat
          /\ \E k \in 0 .. Len(old.pages) : \E s \in [1 .. k -> 1 .. Len(old.pages)] :
                IsFreeList(Store(old), s)
      BY DumpAssumption
    <3>2. Len(old.pages) \in Nat /\ old.hdr.count \in 1 .. Len(old.pages) + 1
      BY <3>1, ImageTypes
    <3>3. /\ DOMAIN Loaded(old) = DOMAIN old.hdr.cat /\ IsCatalog(Loaded(old))
          /\ \A n \in DOMAIN old.hdr.cat : Loaded(old)[n].root = old.hdr.cat[n].root
      BY <3>1, LoadedFacts
    <3>4. ASSUME NEW n \in DOMAIN old.hdr.cat
          PROVE  /\ Contents(old, Loaded(old), n) \in ToldEntry
                 /\ Contents(old, Loaded(old), n).rows[1] = n
      <4> DEFINE c == Contents(old, Loaded(old), n)
      <4>1. /\ Loaded(old)[n].ncols \in 0 .. MaxCols /\ Loaded(old)[n].nullmap \in BOOLEAN
            /\ n \in Tabs
        BY <3>3, CatalogEntry
      <4>2. c = [rows |-> c.rows, ncols |-> Loaded(old)[n].ncols, nullmap |-> Loaded(old)[n].nullmap]
        BY DEF Contents
      <4>3. c.rows \in Tabs \X Nat /\ c.rows[1] = n
        <5>1. CASE old.hdr.cat[n].root = 0
          <6>1. c.rows = <<n, 0>>
            BY <5>1, <3>3 DEF Contents
          <6>2. QED
            BY <6>1, <4>1
        <5>2. CASE old.hdr.cat[n].root # 0
          <6>1. old.hdr.cat[n].root \in 1 .. old.hdr.count - 1
            BY <5>2, <3>1, <3>2
          <6>2. c.rows = old.pages[old.hdr.cat[n].root].rest
            BY <5>2, <6>1, <3>1, <3>3 DEF Contents
          <6> HIDE DEF c
          <6> DEFINE k == old.pages[old.hdr.cat[n].root].rest[2]
          <6>3. k \in Nat /\ c.rows = <<n, k>>
            BY <5>2, <6>2, <3>1
          <6> HIDE DEF k
          <6>4. QED
            BY <6>3, <4>1
        <5> HIDE DEF c
        <5>3. QED
          BY <5>1, <5>2
      <4> HIDE DEF c
      <4>4. c \in ToldEntry
        BY <4>1, <4>2, <4>3 DEF ToldEntry
      <4>5. QED
        BY <4>3, <4>4 DEF c
    <3>5. /\ DOMAIN tl = DOMAIN old.hdr.cat
          /\ \A n \in DOMAIN tl : tl[n] = Contents(old, Loaded(old), n)
          /\ tl = [n \in DOMAIN tl |-> tl[n]]
      OBVIOUS
    <3>6. inDump.told = tl /\ inDump.hurt = {}
      BY <2>2
    <3> HIDE DEF tl
    <3>7. IsTold(tl)
      <4>1. DOMAIN tl \subseteq Tabs
        BY <3>3, <3>5 DEF IsCatalog
      <4>2. tl \in [DOMAIN tl -> ToldEntry] /\ \A n \in DOMAIN tl : tl[n].rows[1] = n
        BY <3>4, <3>5
      <4>3. QED
        BY <4>1, <4>2 DEF IsTold
    <3>8. AllTold(old, Loaded(old), tl, {})
      <4>1. \A n \in DOMAIN tl : tl[n] = [tl[n] EXCEPT !.ncols = tl[n].ncols]
        BY <3>7, ToldFacts
      <4>2. QED
        BY <4>1, <3>3, <3>5 DEF AllTold, SameCols
    <3>9. FreeListOK(Store(old))
      <4>0. PICK k \in 0 .. Len(old.pages) :
               \E s \in [1 .. k -> 1 .. Len(old.pages)] : IsFreeList(Store(old), s)
        BY <3>1
      <4>1. PICK s \in [1 .. k -> 1 .. Len(old.pages)] : IsFreeList(Store(old), s)
        BY <4>0
      <4>2. PageNos(Store(old)) = 1 .. Len(old.pages)
        BY <3>1, <3>2, StoreFacts
      <4>3. s \in Seq(PageNos(Store(old)))
        BY <4>1, <4>2, <3>2
      <4>4. QED
        BY <4>1, <4>3 DEF FreeListOK
    <3>10. Restorable(old, tl, {})
      BY <3>1, <3>2, <3>5, <3>8, <3>9 DEF Restorable
    <3>11. dump[1] = old /\ dump # <<>>
      BY <2>2
    <3>12. QED
      BY <2>2, <3>1, <3>2, <3>6, <3>7, <3>10, <3>11
  <2>3. QED
    BY <2>1, <2>2 DEF Init
<1>4. Nothing.told = <<>> /\ Nothing.hurt = {} /\ Nothing = [told |-> <<>>, hurt |-> {}]
  BY DEF Nothing
<1>5. NoTab = [tab |-> NoTab.tab, pn |-> NoTab.pn]
  BY DEF NoTab
<1>6. TypeInv
  <2>1. Budget \in 0 .. Budget
    BY ConstantTypes
  <2>2. inDump = [told |-> inDump.told, hurt |-> inDump.hurt] /\ IsTold(inDump.told)
        /\ inDump.hurt \subseteq Tabs
        /\ \/ dump = <<>>
           \/ dump = <<dump[1]>> /\ IsImage(dump[1])
    BY <1>3, <1>4, EmptyTables
  <2>3. QED
    BY <1>1, <1>2, <1>4, <1>5, <2>1, <2>2, EmptyTables DEF TypeInv
<1>7. StepInv /\ MapInv /\ MixInv
  BY <1>1 DEF StepInv, MapInv, MixInv, Open
<1>8. FileInv
  BY <1>1, <1>2 DEF FileInv, NoImage
<1>9. DumpInv
  BY <1>3 DEF DumpInv
<1>10. QED
  BY <1>6, <1>7, <1>8, <1>9 DEF FileDbInv

\* A new database in memory.
LEMMA FreshInMemory ==
  ASSUME mode' = "mem", img' = NewImage, tables' = <<>>, told' = <<>>,
         touched' = {}, unsaved' = {}, hurt' = {}, wild' = FALSE, pc' \in {"idle", "done"}
  PROVE  /\ IsImage(img') /\ IsCatalog(tables') /\ IsTold(told')
         /\ StepInv' /\ MapInv' /\ MixInv'
<1>1. /\ IsImage(img') /\ img'.hdr.magic /\ img'.hdr.cat = <<>>
      /\ img'.hdr.count = NewPages + 1 /\ Len(img'.pages) = NewPages
      /\ Bare(img') /\ FreeListOK(Store(img'))
  BY NewImageFacts
<1>2. StepInv'
  BY <1>1, ConstantTypes DEF StepInv, Open
<1>3. MapInv'
  BY <1>1, EmptyTables DEF MapInv, Open
<1>4. MixInv'
  BY DEF MixInv
<1>5. QED
  BY <1>1, <1>2, <1>3, <1>4, EmptyTables

LEMMA OpenMemKeeps == FileDbInv /\ OpenMem => FileDbInv'
<1> SUFFICES ASSUME FileDbInv, OpenMem PROVE FileDbInv'
  OBVIOUS
<1>1. TypeInv /\ StepInv /\ MapInv /\ FileInv /\ DumpInv /\ MixInv
  BY DEF FileDbInv
<1>2. /\ mode = "closed" /\ mode' = "mem" /\ img' = NewImage /\ tables' = <<>> /\ told' = <<>>
      /\ touched' = {} /\ unsaved' = {} /\ hurt' = {}
      /\ synced' = synced /\ dump' = dump /\ pc' = pc /\ cur' = cur /\ wild' = wild
      /\ left' = left /\ onFile' = onFile /\ inDump' = inDump
  BY DEF OpenMem, Fresh, NewImage
<1>3. pc = "idle" /\ wild = FALSE
  BY <1>1, <1>2 DEF StepInv, Open, TypeInv
<1>4. /\ IsImage(img') /\ IsCatalog(tables') /\ IsTold(told')
      /\ StepInv' /\ MapInv' /\ MixInv'
  BY <1>2, <1>3, FreshInMemory
<1>5. TypeInv'
  BY <1>1, <1>2, <1>4 DEF TypeInv
<1>6. FileInv' /\ DumpInv'
  BY <1>1, <1>2 DEF FileInv, DumpInv
<1>7. QED
  BY <1>4, <1>5, <1>6 DEF FileDbInv

LEMMA OpenNewKeeps == FileDbInv /\ OpenNew => FileDbInv'
<1> SUFFICES ASSUME FileDbInv, OpenNew PROVE FileDbInv'
  OBVIOUS
<1> DEFINE pages == IF synced.pages = <<>> THEN [pn \in 1 .. NewPages |-> ZeroPage] ELSE synced.pages
<1>1. TypeInv /\ StepInv /\ MapInv /\ FileInv /\ DumpInv /\ MixInv
  BY DEF FileDbInv
<1>2. /\ mode = "closed" /\ ~synced.hdr.magic
      /\ mode' = "file" /\ img' = [hdr |-> Header(Len(pages)), pages |-> pages]
      /\ tables' = <<>> /\ told' = <<>> /\ touched' = {} /\ unsaved' = {} /\ hurt' = {}
      /\ pc' = "format" /\ cur' = [NoTab EXCEPT !.pn = 1]
      /\ synced' = synced /\ dump' = dump /\ wild' = wild
      /\ left' = left /\ onFile' = onFile /\ inDump' = inDump
  BY DEF OpenNew, Fresh
<1>3. pc = "idle" /\ wild = FALSE
  BY <1>1, <1>2 DEF StepInv, Open, TypeInv
<1>4. /\ pages \in Seq(Page) /\ Len(pages) = NewPages
      /\ \A pn \in 1 .. NewPages : pages[pn].word \in {0, pn - 1}
  <2>1. CASE synced.pages = <<>>
    <3>1. pages = [pn \in 1 .. NewPages |-> ZeroPage]
      BY <2>1
    <3> HIDE DEF pages
    <3>2. pages \in [1 .. NewPages -> Page] /\ NewPages \in Nat
      BY <3>1, PageTypes, ConstantTypes
    <3>3. pages \in Seq(Page) /\ Len(pages) = NewPages
      BY <3>2
    <3>4. QED
      BY <3>1, <3>3, PageTypes
  <2>2. CASE synced.pages # <<>>
    <3>1. pages = synced.pages
      BY <2>2
    <3>2. Formatting(synced.pages) /\ Len(synced.pages) \in {0, NewPages} /\ NewPages \in Nat \ {0}
      BY <1>1, <1>2, <2>2, ConstantTypes DEF FileInv
    <3>3. synced.pages \in Seq(Page)
      BY <1>1, ImageTypes DEF TypeInv
    <3> HIDE DEF pages
    <3>4. QED
      BY <3>1, <3>2, <3>3 DEF Formatting
  <2> HIDE DEF pages
  <2>3. QED
    BY <2>1, <2>2
<1> HIDE DEF pages
<1>5. /\ img'.pages = pages /\ img'.hdr.count = NewPages + 1 /\ img'.hdr.head = 0
      /\ img'.hdr.cat = <<>> /\ img'.hdr.magic /\ IsImage(img')
  <2>1. NewPages \in 0 .. MaxPages - 1 /\ NewPages < MaxPages
    BY ConstantTypes
  <2>2. /\ img'.hdr = Header(NewPages) /\ img'.pages = pages
        /\ img' = [hdr |-> img'.hdr, pages |-> img'.pages]
    BY <1>2, <1>4
  <2>3. /\ img'.hdr.count = NewPages + 1 /\ img'.hdr.head = 0 /\ img'.hdr.cat = <<>> /\ img'.hdr.magic
        /\ img'.hdr \in [magic : BOOLEAN, ver : 0 .. Version, count : 0 .. MaxPages,
                         head : 0 .. MaxPages - 1, cat : {<<>>}]
    BY <2>1, <2>2, HeaderFacts
  <2>4. IsImage(img')
    BY <2>1, <2>2, <2>3, <1>4, EmptyTables DEF IsImage
  <2>5. QED
    BY <2>2, <2>3, <2>4
<1>6. Bare(img') /\ FreeListOK(Store(img')) /\ img'.hdr.count \in 1 .. Len(img'.pages) + 1
  <2>1. Bare(img') /\ img'.hdr.count \in 1 .. Len(img'.pages) + 1
    BY <1>4, <1>5, ConstantTypes DEF Bare, Formatting
  <2>2. QED
    BY <2>1, <1>5, BareFree
<1>7. TypeInv'
  <2>1. cur' = [tab |-> cur'.tab, pn |-> cur'.pn] /\ cur'.pn = 1
    BY <1>2 DEF NoTab
  <2>2. QED
    BY <1>1, <1>2, <1>3, <1>5, <2>1, EmptyTables DEF TypeInv
<1>8. StepInv'
  <2>1. cur'.pn = 1 /\ NewPages \in Nat \ {0}
    BY <1>2, ConstantTypes DEF NoTab
  <2>2. QED
    BY <1>2, <1>3, <1>4, <1>5, <1>6, <2>1 DEF StepInv, Open
<1>9. MapInv'
  BY <1>2, <1>5, <1>6, EmptyTables DEF MapInv
<1>10. FileInv' /\ DumpInv'
  BY <1>1, <1>2 DEF FileInv, DumpInv
<1>11. MixInv'
  <2>1. synced.hdr.count = 0 /\ synced.hdr.cat = <<>>
    BY <1>1, <1>2 DEF FileInv, NoImage
  <2>2. synced'.hdr.count <= Len(img'.pages) + 1
    BY <1>2, <1>4, <1>5, <2>1, ConstantTypes
  <2>3. FileAgrees'
    BY <1>2, <2>1, EmptyTables DEF FileAgrees
  <2>4. FilesAlike'
    BY <1>2, EmptyTables DEF FilesAlike
  <2>5. QED
    BY <1>2, <2>2, <2>3, <2>4 DEF MixInv
<1>12. QED
  BY <1>7, <1>8, <1>9, <1>10, <1>11 DEF FileDbInv

\* The loop that frees the pages of a new file: the pages freed link downwards.
LEMMA FormatKeeps == FileDbInv /\ Format => FileDbInv'
<1> SUFFICES ASSUME FileDbInv, Format PROVE FileDbInv'
  OBVIOUS
<1> DEFINE st == PagerFree(Store(img), cur.pn)
<1>1. TypeInv /\ StepInv /\ MapInv /\ FileInv /\ DumpInv /\ MixInv
  BY DEF FileDbInv
<1>2. /\ pc = "format" /\ cur.pn < img.hdr.count
      /\ img' = Within(img, st) /\ cur' = [cur EXCEPT !.pn = cur.pn + 1]
      /\ mode' = mode /\ synced' = synced /\ tables' = tables /\ dump' = dump /\ pc' = pc
      /\ wild' = wild /\ left' = left /\ told' = told /\ touched' = touched
      /\ unsaved' = unsaved /\ hurt' = hurt /\ onFile' = onFile /\ inDump' = inDump
  BY DEF Format, ghost
<1>3. /\ Open /\ wild = FALSE /\ mode = "file" /\ ~synced.hdr.magic
      /\ tables = <<>> /\ told = <<>> /\ img.hdr.cat = <<>> /\ touched = {} /\ hurt = {}
      /\ Len(img.pages) = NewPages /\ img.hdr.count = NewPages + 1 /\ img.hdr.magic
      /\ cur.pn \in 1 .. NewPages /\ img.hdr.head = cur.pn - 1 /\ NewPages \in Nat \ {0}
      /\ NewPages < MaxPages /\ IsImage(img)
  <2>1. /\ Open /\ wild = FALSE /\ mode = "file" /\ ~synced.hdr.magic
        /\ tables = <<>> /\ told = <<>> /\ img.hdr.cat = <<>> /\ touched = {} /\ hurt = {}
        /\ Len(img.pages) = NewPages /\ img.hdr.count = NewPages + 1
        /\ cur.pn \in 1 .. NewPages + 1 /\ img.hdr.head = cur.pn - 1
        /\ IsImage(img) /\ img.hdr.magic
    BY <1>1, <1>2 DEF StepInv, TypeInv, Open
  <2>2. QED
    BY <2>1, <1>2, ConstantTypes
<1>4. /\ Store(img) \in Stores /\ Len(Store(img).pages) = NewPages
      /\ PageNos(Store(img)) = 1 .. NewPages
      /\ \A pn \in 1 .. NewPages : Store(img).pages[pn] = img.pages[pn]
      /\ Store(img).head = img.hdr.head
  <2>1. img.hdr.count \in 1 .. Len(img.pages) + 1 /\ img.hdr.count - 1 = NewPages
    BY <1>3
  <2>2. QED
    BY <2>1, <1>3, StoreFacts
<1>5. /\ st \in Stores /\ Len(st.pages) = NewPages /\ st.head = cur.pn
      /\ st.pages[cur.pn].word = cur.pn - 1
      /\ \A o \in 1 .. NewPages \ {cur.pn} : st.pages[o] = img.pages[o]
  BY <1>3, <1>4, FreeFacts
<1> HIDE DEF st
<1>6. /\ IsImage(img') /\ img'.hdr.count = NewPages + 1 /\ img'.hdr.head = cur.pn
      /\ img'.hdr.magic /\ img'.hdr.cat = <<>> /\ img'.hdr.ver = img.hdr.ver
      /\ Len(img'.pages) = NewPages
      /\ \A pn \in 1 .. NewPages : img'.pages[pn] = st.pages[pn]
  <2>1. /\ img.hdr.count \in 1 .. Len(img.pages) + 1 /\ img.hdr.count <= Len(st.pages) + 1
        /\ Len(st.pages) + 1 = img.hdr.count
    BY <1>3, <1>5
  <2>2. QED
    BY <2>1, <1>2, <1>3, <1>5, WithinFacts
<1>7. Bare(img') /\ FreeListOK(Store(img')) /\ img'.hdr.count \in 1 .. Len(img'.pages) + 1
  <2>1. \A pn \in 1 .. NewPages : img.pages[pn].word \in {0, pn - 1}
    BY <1>1, <1>3, EmptyTables DEF MapInv, Bare, Formatting
  <2>2. \A pn \in 1 .. NewPages : img'.pages[pn].word \in {0, pn - 1}
    BY <2>1, <1>5, <1>6
  <2>3. Bare(img') /\ img'.hdr.count \in 1 .. Len(img'.pages) + 1
    BY <1>3, <1>6, <2>2 DEF Bare, Formatting
  <2>4. QED
    BY <2>3, <1>6, BareFree
<1>8. /\ cur'.pn = cur.pn + 1 /\ cur' = [tab |-> cur'.tab, pn |-> cur'.pn]
  BY <1>1, <1>2 DEF TypeInv
<1>9. TypeInv'
  BY <1>1, <1>2, <1>6, <1>8 DEF TypeInv
<1>10. StepInv'
  BY <1>2, <1>3, <1>6, <1>7, <1>8 DEF StepInv, Open
<1>11. MapInv'
  BY <1>2, <1>3, <1>6, <1>7, EmptyTables DEF MapInv
<1>12. FileInv' /\ DumpInv'
  BY <1>1, <1>2 DEF FileInv, DumpInv
<1>13. MixInv'
  <2>1. synced.hdr.count = 0 /\ synced.hdr.cat = <<>>
    BY <1>1, <1>3 DEF FileInv, NoImage
  <2>2. synced'.hdr.count <= Len(img'.pages) + 1
    BY <1>2, <1>3, <1>6, <2>1
  <2>3. FileAgrees'
    BY <1>2, <1>3, <2>1, EmptyTables DEF FileAgrees
  <2>4. FilesAlike'
    BY <1>2, <1>3, EmptyTables DEF FilesAlike
  <2>5. QED
    BY <1>2, <2>2, <2>3, <2>4 DEF MixInv
<1>14. QED
  BY <1>9, <1>10, <1>11, <1>12, <1>13 DEF FileDbInv

\* The mapping becomes the file.
LEMMA FileLeft ==
  ASSUME FileDbInv, Open, ~wild, synced' = img,
         onFile' = [told |-> told, hurt |-> hurt \cup unsaved]
  PROVE  /\ FileInv' /\ IsImage(synced')
         /\ onFile' = [told |-> onFile'.told, hurt |-> onFile'.hurt]
         /\ IsTold(onFile'.told) /\ onFile'.hurt \subseteq Tabs
<1>1. /\ IsImage(img) /\ IsTold(told) /\ hurt \subseteq Tabs /\ unsaved \subseteq DOMAIN told
      /\ img.hdr.magic /\ Len(img.pages) >= 1
  BY DEF FileDbInv, TypeInv, StepInv
<1>2. onFile'.told = told /\ onFile'.hurt = hurt \cup unsaved
  OBVIOUS
<1>3. unsaved \subseteq Tabs
  BY <1>1 DEF IsTold
<1>4. img.pages # <<>>
  BY <1>1, ImageTypes, EmptySeq
<1>5. Restorable(img, told, hurt \cup unsaved)
  BY MappingRestorable
<1>6. FileInv'
  BY <1>1, <1>2, <1>4, <1>5 DEF FileInv
<1>7. QED
  BY <1>1, <1>2, <1>3, <1>6

\* pager_sync, wherever it is called.
LEMMA PagerSyncKeeps ==
  ASSUME FileDbInv, Open, ~wild, PagerSync, pc' \in {"idle", "done"},
         cur' = [tab |-> cur'.tab, pn |-> cur'.pn]
  PROVE  FileDbInv'
<1>1. TypeInv /\ StepInv /\ MapInv /\ FileInv /\ DumpInv /\ MixInv
  BY DEF FileDbInv
<1>2. /\ mode = "file" => /\ synced' = img
                          /\ onFile' = [told |-> told, hurt |-> hurt \cup unsaved]
      /\ mode # "file" => synced' = synced /\ onFile' = onFile
      /\ touched' = {} /\ mode' = mode /\ img' = img /\ tables' = tables /\ dump' = dump
      /\ wild' = wild /\ left' = left /\ told' = told /\ unsaved' = unsaved /\ hurt' = hurt
      /\ inDump' = inDump
  BY DEF PagerSync, WriteFile
<1>3. TypeInv'
  <2>1. CASE mode = "file"
    BY <1>1, <1>2, <2>1, FileLeft DEF TypeInv
  <2>2. CASE mode # "file"
    BY <1>1, <1>2, <2>2 DEF TypeInv
  <2>3. QED
    BY <2>1, <2>2
<1>4. StepInv'
  BY <1>1, <1>2 DEF StepInv, Open
<1>5. MapInv'
  BY <1>1, <1>2 DEF MapInv, Open
<1>6. FileInv'
  <2>1. CASE mode = "file"
    BY <1>2, <2>1, FileLeft
  <2>2. CASE mode # "file"
    BY <1>1, <1>2, <2>2 DEF FileInv
  <2>3. QED
    BY <2>1, <2>2
<1>7. DumpInv'
  BY <1>1, <1>2 DEF DumpInv
<1>8. MixInv'
  <2>1. SUFFICES ASSUME mode = "file" PROVE MixInv'
    BY <1>2 DEF MixInv
  <2>2. synced' = img /\ onFile'.told = told /\ onFile'.hurt = hurt \cup unsaved
    BY <1>2, <2>1
  <2>3. synced'.hdr.count <= Len(img'.pages) + 1
    BY <1>2, <2>2, MappingRestorable, ImageTypes
  <2>4. FileAgrees'
    <3>1. ASSUME NEW n \in (DOMAIN tables \cup DOMAIN img.hdr.cat) \ (unsaved \cup hurt)
          PROVE  /\ n \in DOMAIN tables /\ n \in DOMAIN img.hdr.cat
                 /\ ReadBack(Loaded(img)[n], tables[n])
                 /\ tables[n].root # 0 => tables[n].root \in 1 .. img.hdr.count - 1
      <4>1. n \in DOMAIN tables /\ n \in DOMAIN img.hdr.cat /\ ReadBack(Loaded(img)[n], tables[n])
        BY <1>1 DEF MapInv
      <4>2. IsTold(told) /\ IsImage(img) /\ Kept(img, tables, told, hurt)
        BY <1>1, MappingRestorable DEF TypeInv
      <4>3. QED
        BY <4>1, <4>2, RootFacts
    <3>2. QED
      BY <1>2, <2>2, <3>1 DEF FileAgrees
  <2>5. FilesAlike'
    <3>1. img.hdr.magic
      BY <1>1 DEF StepInv
    <3>2. QED
      BY <1>2, <2>2, <3>1 DEF FilesAlike
  <2>6. QED
    BY <1>2, <2>2, <2>3, <2>4, <2>5 DEF MixInv
<1>9. QED
  BY <1>3, <1>4, <1>5, <1>6, <1>7, <1>8 DEF FileDbInv

LEMMA FormattedKeeps == FileDbInv /\ Formatted => FileDbInv'
<1> SUFFICES ASSUME FileDbInv, Formatted PROVE FileDbInv'
  OBVIOUS
<1>1. TypeInv /\ StepInv
  BY DEF FileDbInv
<1>2. /\ Open /\ ~wild /\ mode = "file" /\ told = <<>> /\ touched = {} /\ hurt = {} /\ unsaved = {}
  BY <1>1, EmptyTables DEF Formatted, StepInv, TypeInv, Open
<1>3. pc' = "idle" /\ cur' = [tab |-> cur'.tab, pn |-> cur'.pn]
  BY DEF Formatted, NoTab
<1>4. Nothing = [told |-> told, hurt |-> hurt \cup unsaved]
  BY <1>2 DEF Nothing
<1>5. PagerSync
  BY <1>2, <1>4 DEF Formatted, PagerSync, WriteFile
<1>6. QED
  BY <1>2, <1>3, <1>5, PagerSyncKeeps

LEMMA SyncTreeKeeps == FileDbInv /\ SyncTree => FileDbInv'
<1> SUFFICES ASSUME FileDbInv, SyncTree PROVE FileDbInv'
  OBVIOUS
<1>1. Open /\ ~wild /\ cur = [tab |-> cur.tab, pn |-> cur.pn]
  BY DEF FileDbInv, TypeInv, StepInv, SyncTree, Open
<1>2. pc' = "done" /\ PagerSync /\ cur' = cur
  BY DEF SyncTree
<1>3. QED
  BY <1>1, <1>2, PagerSyncKeeps

LEMMA SyncKeeps == FileDbInv /\ Sync => FileDbInv'
<1> SUFFICES ASSUME FileDbInv, Sync PROVE FileDbInv'
  OBVIOUS
<1>1. Open /\ ~wild
  BY DEF FileDbInv, StepInv, Sync, Open
<1>2. pc' = "idle" /\ PagerSync /\ cur' = [tab |-> cur'.tab, pn |-> cur'.pn]
  BY DEF Sync, NoTab
<1>3. QED
  BY <1>1, <1>2, PagerSyncKeeps

LEMMA OpenOldKeeps == FileDbInv /\ OpenOld => FileDbInv'
<1> SUFFICES ASSUME FileDbInv, OpenOld PROVE FileDbInv'
  OBVIOUS
<1>1. TypeInv /\ StepInv /\ MapInv /\ FileInv /\ DumpInv /\ MixInv
  BY DEF FileDbInv
<1>2. /\ mode = "closed" /\ synced.hdr.magic /\ mode' = "file" /\ img' = synced
      /\ tables' = Loaded(synced) /\ told' = onFile.told /\ hurt' = onFile.hurt
      /\ touched' = {} /\ unsaved' = {} /\ synced' = synced /\ dump' = dump /\ pc' = pc
      /\ cur' = cur /\ wild' = wild /\ left' = left /\ onFile' = onFile /\ inDump' = inDump
  BY DEF OpenOld
<1>3. pc = "idle" /\ wild = FALSE
  BY <1>1, <1>2 DEF StepInv, Open, TypeInv
<1>4. /\ IsImage(synced) /\ IsTold(onFile.told)
      /\ Restorable(synced, onFile.told, onFile.hurt) /\ synced.pages # <<>>
  BY <1>1, <1>2 DEF TypeInv, FileInv
<1>5. /\ synced.hdr.count \in 1 .. Len(synced.pages) + 1
      /\ AllTold(synced, Loaded(synced), onFile.told, onFile.hurt)
      /\ onFile.hurt = {} => /\ FreeListOK(Store(synced))
                             /\ DOMAIN onFile.told = {} => Bare(synced)
  BY <1>4 DEF Restorable
<1>6. DOMAIN Loaded(synced) = DOMAIN synced.hdr.cat /\ IsCatalog(Loaded(synced))
  BY <1>4, LoadedFacts
<1>7. Len(synced.pages) \in Nat /\ Len(synced.pages) >= 1
  BY <1>4, ImageTypes, EmptySeq
<1>8. TypeInv'
  BY <1>1, <1>2, <1>6 DEF TypeInv
<1>9. StepInv'
  BY <1>2, <1>3, <1>5, <1>7 DEF StepInv, Open
<1>10. MapInv'
  BY <1>2, <1>5, <1>6 DEF MapInv, ReadBack, SameCols
<1>11. FileInv' /\ DumpInv'
  BY <1>1, <1>2 DEF FileInv, DumpInv
<1>12. MixInv'
  <2>1. Kept(synced, Loaded(synced), onFile.told, onFile.hurt)
    BY <1>4, <1>5, <1>6, ToldIsKept
  <2>2. \A n \in DOMAIN Loaded(synced) \ onFile.hurt :
           Loaded(synced)[n].root # 0 => Loaded(synced)[n].root \in 1 .. synced.hdr.count - 1
    BY <2>1, <1>4, RootFacts
  <2>3. FileAgrees'
    BY <1>2, <1>6, <2>2 DEF FileAgrees, ReadBack, SameCols
  <2>4. FilesAlike'
    BY <1>2 DEF FilesAlike
  <2>5. synced.hdr.count <= Len(synced.pages) + 1
    BY <1>5, <1>7
  <2>6. onFile'.told = told' /\ onFile'.hurt = hurt' \cup unsaved'
    BY <1>2
  <2>7. QED
    BY <1>2, <2>3, <2>4, <2>5, <2>6 DEF MixInv
<1>13. QED
  BY <1>8, <1>9, <1>10, <1>11, <1>12 DEF FileDbInv

\* A mapping that was never the file's goes away: the file stays, and is told of
\* what SQL said while it was not the mapping.
LEMMA MappingLeft ==
  ASSUME FileDbInv, Open, ~wild, mode # "file", synced' = synced,
         \/ onFile' = onFile
         \/ onFile' = [told |-> told, hurt |-> onFile.hurt \cup Differ(told, onFile.told)],
         mode' # "file"
  PROVE  /\ FileInv' /\ IsImage(synced')
         /\ onFile' = [told |-> onFile'.told, hurt |-> onFile'.hurt]
         /\ IsTold(onFile'.told) /\ onFile'.hurt \subseteq Tabs
<1>1. TypeInv /\ FileInv
  BY DEF FileDbInv
<1>2. CASE onFile' = onFile
  BY <1>1, <1>2 DEF FileInv, TypeInv
<1>3. CASE onFile' = [told |-> told, hurt |-> onFile.hurt \cup Differ(told, onFile.told)]
  <2>1. onFile'.told = told /\ onFile'.hurt = onFile.hurt \cup Differ(told, onFile.told)
    BY <1>3
  <2>2. onFile'.hurt \subseteq Tabs /\ IsTold(told) /\ IsImage(synced)
    BY <1>1, <2>1 DEF TypeInv, IsTold, Differ
  <2>3. synced.hdr.magic => Restorable(synced, onFile'.told, onFile'.hurt)
    BY <1>1, <2>1, Retold DEF FileInv
  <2>4. FileInv'
    BY <1>1, <2>3 DEF FileInv
  <2>5. QED
    BY <1>3, <2>1, <2>2, <2>4
<1>4. QED
  BY <1>2, <1>3

\* The mapping goes away, and leaves what can be restored.
LEMMA Closed ==
  ASSUME FileDbInv, mode' = "closed", img' = NoImage, tables' = <<>>, told' = <<>>,
         touched' = {}, unsaved' = {}, hurt' = {}, pc' = "idle",
         cur' = [tab |-> cur'.tab, pn |-> cur'.pn],
         dump' = dump, wild' = FALSE, left' = left, inDump' = inDump,
         FileInv', IsImage(synced'), onFile' = [told |-> onFile'.told, hurt |-> onFile'.hurt],
         IsTold(onFile'.told), onFile'.hurt \subseteq Tabs
  PROVE  FileDbInv'
<1>1. TypeInv /\ DumpInv
  BY DEF FileDbInv
<1>2. IsImage(NoImage)
  BY NoImageFacts
<1>3. TypeInv'
  BY <1>1, <1>2, EmptyTables DEF TypeInv
<1>4. StepInv' /\ MapInv' /\ MixInv'
  BY DEF StepInv, MapInv, MixInv, Open
<1>5. DumpInv'
  BY <1>1 DEF DumpInv
<1>6. QED
  BY <1>3, <1>4, <1>5 DEF FileDbInv

LEMMA CloseKeeps == FileDbInv /\ Close => FileDbInv'
<1> SUFFICES ASSUME FileDbInv, Close PROVE FileDbInv'
  OBVIOUS
<1> DEFINE Dropped ==
             /\ synced' = synced
             /\ \/ onFile' = onFile
                \/ onFile' = [told |-> told, hurt |-> onFile.hurt \cup Differ(told, onFile.told)]
<1>1. TypeInv /\ FileInv
  BY DEF FileDbInv
<1>2. /\ Open /\ pc = "idle" /\ wild = FALSE
      /\ mode = "file" => /\ synced' = img
                          /\ onFile' = [told |-> told, hurt |-> hurt \cup unsaved]
      /\ mode # "file" => Dropped
      /\ mode' = "closed" /\ img' = NoImage /\ tables' = <<>> /\ told' = <<>>
      /\ touched' = {} /\ unsaved' = {} /\ hurt' = {}
      /\ dump' = dump /\ pc' = pc /\ cur' = cur /\ wild' = wild /\ left' = left
      /\ inDump' = inDump
  BY <1>1 DEF Close, Fresh, LeaveMapping, WriteFile, Open, TypeInv
<1>3. /\ FileInv' /\ IsImage(synced') /\ IsTold(onFile'.told) /\ onFile'.hurt \subseteq Tabs
      /\ onFile' = [told |-> onFile'.told, hurt |-> onFile'.hurt]
  <2>1. CASE mode = "file"
    BY <1>2, <2>1, FileLeft
  <2>2. CASE mode # "file"
    BY <1>2, <2>2, MappingLeft
  <2>3. QED
    BY <2>1, <2>2
<1>4. cur' = [tab |-> cur'.tab, pn |-> cur'.pn]
  BY <1>1, <1>2 DEF TypeInv
<1>5. QED
  BY <1>2, <1>3, <1>4, Closed

(***************************************************************************)
(* A crash of the machine: the file becomes a mixture.                     *)
(***************************************************************************)

\* Page pn of the mixture is the mapping's, or else the file's or zero.
LEMMA MixedPages ==
  ASSUME TypeInv, NEW lost
  PROVE  LET w == Without(lost)
         IN  /\ w.pages \in Seq(Page) /\ Len(w.pages) = Len(img.pages)
             /\ w.hdr \in {img.hdr, synced.hdr} /\ w = [hdr |-> w.hdr, pages |-> w.pages]
             /\ \A pn \in 1 .. Len(img.pages) :
                   \/ w.pages[pn] = img.pages[pn]
                   \/ pn \in 1 .. Len(synced.pages) /\ w.pages[pn] = synced.pages[pn]
                   \/ pn > Len(synced.pages) /\ w.pages[pn] = ZeroPage
<1> DEFINE w == Without(lost)
<1>1. /\ img.pages \in Seq(Page) /\ synced.pages \in Seq(Page)
      /\ Len(img.pages) \in Nat /\ Len(synced.pages) \in Nat
  BY ImageTypes DEF TypeInv
<1>2. /\ w.hdr = IF 0 \in lost THEN synced.hdr ELSE img.hdr
      /\ w.pages = [pn \in 1 .. Len(img.pages) |-> IF pn \in lost THEN SyncedPage(pn) ELSE img.pages[pn]]
      /\ w = [hdr |-> w.hdr, pages |-> w.pages]
  BY DEF Without
<1> HIDE DEF w
<1>3. \A pn \in 1 .. Len(img.pages) :
         \/ w.pages[pn] = img.pages[pn]
         \/ pn \in 1 .. Len(synced.pages) /\ w.pages[pn] = synced.pages[pn]
         \/ pn > Len(synced.pages) /\ w.pages[pn] = ZeroPage
  BY <1>1, <1>2 DEF SyncedPage
<1>4. \A pn \in 1 .. Len(img.pages) : w.pages[pn] \in Page
  BY <1>1, <1>3, ElementOfSeq, PageTypes
<1>5. w.pages \in [1 .. Len(img.pages) -> Page]
  BY <1>2, <1>4
<1>6. w.pages \in Seq(Page) /\ Len(w.pages) = Len(img.pages)
  BY <1>1, <1>5
<1>7. QED
  BY <1>2, <1>3, <1>6 DEF w

\* The mixture is an image, whichever pages are lost.
LEMMA MixedImage ==
  ASSUME TypeInv, NEW lost
  PROVE  IsImage(Without(lost))
<1> DEFINE w == Without(lost)
<1>1. /\ w.pages \in Seq(Page) /\ Len(w.pages) = Len(img.pages)
      /\ w.hdr \in {img.hdr, synced.hdr} /\ w = [hdr |-> w.hdr, pages |-> w.pages]
  BY MixedPages
<1> HIDE DEF w
<1>2. /\ IsCatalog(w.hdr.cat) /\ Len(img.pages) < MaxPages
      /\ w.hdr \in [magic : BOOLEAN, ver : 0 .. Version, count : 0 .. MaxPages,
                    head : 0 .. MaxPages - 1, cat : {w.hdr.cat}]
  <2>1. IsImage(img) /\ IsImage(synced)
    BY DEF TypeInv
  <2>2. CASE w.hdr = img.hdr
    BY <2>1, <2>2, ImageTypes
  <2>3. CASE w.hdr = synced.hdr
    BY <2>1, <2>3, ImageTypes
  <2>4. QED
    BY <1>1, <2>1, <2>2, <2>3, ImageTypes
<1>3. IsImage(w)
  BY <1>1, <1>2 DEF IsImage
<1>4. QED
  BY <1>3 DEF w

\* Nothing lost: the file is the mapping, as when the process ends.
LEMMA NothingLost ==
  ASSUME TypeInv
  PROVE  Without({}) = img
<1>1. img.pages \in Seq(Page) /\ img = [hdr |-> img.hdr, pages |-> img.pages]
  BY ImageTypes DEF TypeInv
<1>2. Without({}) = [hdr |-> img.hdr, pages |-> [pn \in 1 .. Len(img.pages) |-> img.pages[pn]]]
  BY DEF Without
<1>3. img.pages = [pn \in 1 .. Len(img.pages) |-> img.pages[pn]]
  BY <1>1
<1>4. QED
  BY <1>1, <1>2, <1>3

\* A page that the file and the mapping agree on is in the mixture.
LEMMA MixedSame ==
  ASSUME TypeInv, NEW lost, NEW pn \in 1 .. Len(img.pages), pn \in 1 .. Len(synced.pages),
         synced.pages[pn] = img.pages[pn]
  PROVE  Without(lost).pages[pn] = img.pages[pn]
<1>1. Len(synced.pages) \in Nat /\ ~(pn > Len(synced.pages))
  BY ImageTypes DEF TypeInv
<1>2. QED
  BY <1>1, MixedPages

\* The tables no running statement has changed are restored from the mixture.
LEMMA MixedTables ==
  ASSUME FileDbInv, mode = "file", ~wild, NEW lost, Without(lost).hdr.magic
  PROVE  LET w == Without(lost)
         IN  /\ w.hdr.count \in 1 .. Len(w.pages) + 1
             /\ Kept(w, Loaded(w), told, hurt \cup unsaved \cup touched)
<1> DEFINE w == Without(lost)
           harm == hurt \cup unsaved \cup touched
<1>1. TypeInv /\ StepInv /\ MapInv /\ FileInv /\ MixInv /\ Open
  BY DEF FileDbInv, Open
<1>2. /\ IsImage(img) /\ IsImage(synced) /\ IsTold(told) /\ IsImage(w)
      /\ Kept(img, tables, told, hurt) /\ img.hdr.count \in 1 .. Len(img.pages) + 1
      /\ Len(img.pages) \in Nat /\ Len(synced.pages) \in Nat
      /\ synced.hdr.count \in Nat /\ img.hdr.count \in Nat
  BY <1>1, MappingRestorable, MixedImage, ImageTypes DEF TypeInv
<1>3. Len(w.pages) = Len(img.pages) /\ w.hdr \in {img.hdr, synced.hdr} /\ w.hdr.magic
  BY <1>1, MixedPages
<1> HIDE DEF w
<1>4. /\ synced.hdr.magic => synced.hdr.count \in 1 .. Len(synced.pages) + 1
      /\ synced.hdr.count <= Len(img.pages) + 1
  BY <1>1 DEF FileInv, MixInv, Restorable
<1>5. w.hdr.count \in 1 .. Len(w.pages) + 1
  <2>1. CASE w.hdr = img.hdr
    BY <2>1, <1>2, <1>3
  <2>2. CASE w.hdr = synced.hdr
    BY <2>2, <1>2, <1>3, <1>4
  <2>3. QED
    BY <2>1, <2>2, <1>3
<1>6. ASSUME NEW n \in (DOMAIN told \cup DOMAIN tables \cup DOMAIN img.hdr.cat \cup DOMAIN synced.hdr.cat) \ harm
      PROVE  /\ n \in DOMAIN told /\ n \in DOMAIN tables
             /\ n \in DOMAIN img.hdr.cat /\ n \in DOMAIN synced.hdr.cat
             /\ ReadBack(Loaded(img)[n], tables[n]) /\ ReadBack(Loaded(synced)[n], tables[n])
             /\ tables[n].root # 0 =>
                   /\ tables[n].root \in 1 .. img.hdr.count - 1
                   /\ tables[n].root \in 1 .. synced.hdr.count - 1
                   /\ synced.pages[tables[n].root] = img.pages[tables[n].root]
  <2>1. n \in DOMAIN tables
    BY <1>1, <1>2 DEF Kept, MapInv, MixInv, FileAgrees
  <2>2. n \in DOMAIN told
    BY <2>1, <1>2 DEF Kept
  <2>3. n \in DOMAIN img.hdr.cat /\ ReadBack(Loaded(img)[n], tables[n])
    BY <1>1, <2>1 DEF MapInv
  <2>4. /\ n \in DOMAIN synced.hdr.cat /\ ReadBack(Loaded(synced)[n], tables[n])
        /\ tables[n].root # 0 => /\ tables[n].root \in 1 .. synced.hdr.count - 1
                                 /\ synced.pages[tables[n].root] = img.pages[tables[n].root]
    BY <1>1, <2>1 DEF MixInv, FileAgrees
  <2>5. tables[n].root # 0 => tables[n].root \in 1 .. img.hdr.count - 1
    BY <2>1, <1>2, RootFacts
  <2>6. QED
    BY <2>1, <2>2, <2>3, <2>4, <2>5
<1>7. /\ DOMAIN Loaded(w) = DOMAIN w.hdr.cat
      /\ w.hdr = img.hdr => Loaded(w) = Loaded(img)
      /\ w.hdr = synced.hdr => Loaded(w) = Loaded(synced)
  BY <1>2, LoadedFacts, LoadedSame
<1>8. ASSUME NEW n \in (DOMAIN told \cup DOMAIN Loaded(w)) \ harm
      PROVE  n \in DOMAIN told /\ n \in DOMAIN Loaded(w) /\ Holds(w, Loaded(w)[n], told[n], n)
  <2>1. n \in (DOMAIN told \cup DOMAIN tables \cup DOMAIN img.hdr.cat \cup DOMAIN synced.hdr.cat) \ harm
    BY <1>3, <1>7
  <2>2. n \in DOMAIN told /\ n \in DOMAIN Loaded(w) /\ ReadBack(Loaded(w)[n], tables[n])
    BY <2>1, <1>3, <1>6, <1>7
  <2>3. Holds(img, tables[n], told[n], n)
    BY <2>1, <1>2, <1>6 DEF Kept
  <2>4. ASSUME tables[n].root # 0
        PROVE  tables[n].root \in 1 .. w.hdr.count - 1
               /\ w.pages[tables[n].root] = img.pages[tables[n].root]
    <3>1. /\ tables[n].root \in 1 .. img.hdr.count - 1
          /\ tables[n].root \in 1 .. synced.hdr.count - 1
          /\ synced.pages[tables[n].root] = img.pages[tables[n].root]
      BY <2>1, <2>4, <1>6
    <3>2. synced.hdr.magic
      BY <1>1, <3>1 DEF FileInv, NoImage
    <3>3. tables[n].root \in 1 .. Len(img.pages) /\ tables[n].root \in 1 .. Len(synced.pages)
      BY <3>1, <3>2, <1>2, <1>4
    <3>4. w.pages[tables[n].root] = img.pages[tables[n].root]
      BY <3>1, <3>3, <1>1, MixedSame DEF w
    <3>5. QED
      BY <3>1, <3>4, <1>3
  <2>5. Holds(w, tables[n], told[n], n)
    BY <2>3, <2>4, HoldsElsewhere
  <2>6. QED
    BY <2>2, <2>5, HoldsReadBack
<1>9. Kept(w, Loaded(w), told, harm)
  BY <1>8 DEF Kept
<1>10. QED
  BY <1>5, <1>9 DEF w

\* While no statement has changed anything the file and the mapping are so alike
\* that the free list of the mixture is one.
LEMMA MixedFreeList ==
  ASSUME FileDbInv, mode = "file", ~wild, NEW lost, Without(lost).hdr.magic,
         hurt \cup unsaved \cup touched = {}
  PROVE  LET w == Without(lost)
         IN  FreeListOK(Store(w)) /\ (DOMAIN told = {} => Bare(w))
<1> DEFINE w == Without(lost)
<1>1. TypeInv /\ StepInv /\ MapInv /\ FileInv /\ MixInv /\ Open
  BY DEF FileDbInv, Open
<1>2. /\ IsImage(img) /\ IsImage(synced) /\ IsImage(w)
      /\ img.hdr.count \in 1 .. Len(img.pages) + 1
      /\ Len(img.pages) \in Nat /\ Len(synced.pages) \in Nat
      /\ img.pages \in Seq(Page) /\ synced.pages \in Seq(Page)
  BY <1>1, MappingRestorable, MixedImage, ImageTypes DEF TypeInv
<1>3. /\ w.pages \in Seq(Page) /\ Len(w.pages) = Len(img.pages)
      /\ w.hdr \in {img.hdr, synced.hdr} /\ w.hdr.magic
      /\ \A pn \in 1 .. Len(img.pages) :
            \/ w.pages[pn] = img.pages[pn]
            \/ pn \in 1 .. Len(synced.pages) /\ w.pages[pn] = synced.pages[pn]
            \/ pn > Len(synced.pages) /\ w.pages[pn] = ZeroPage
  BY <1>1, MixedPages
<1>4. w.hdr.count \in 1 .. Len(w.pages) + 1
  BY MixedTables
<1> HIDE DEF w
<1>5. hurt = {} /\ FreeListOK(Store(img)) /\ (DOMAIN told = {} => Bare(img))
  BY <1>1 DEF MapInv
<1>6. \/ DOMAIN told = {} /\ (synced.hdr.magic => Bare(synced))
      \/ /\ synced.hdr.magic /\ synced.pages = img.pages
         /\ synced.hdr.head = img.hdr.head /\ synced.hdr.count = img.hdr.count
  <2>1. FilesAlike
    BY <1>1 DEF MixInv
  <2>2. hurt \cup touched \cup unsaved = {}
    OBVIOUS
  <2>3. QED
    BY <2>1, <2>2 DEF FilesAlike
<1>7. CASE DOMAIN told = {} /\ (synced.hdr.magic => Bare(synced))
  <2>1. Bare(img)
    BY <1>5, <1>7
  <2>2. \A pn \in 1 .. Len(synced.pages) : pn <= NewPages => synced.pages[pn].word \in {0, pn - 1}
    <3>1. CASE synced.pages = <<>>
      BY <3>1, <1>2
    <3>2. CASE synced.pages # <<>>
      <4>1. Formatting(synced.pages)
        BY <3>2, <1>1, <1>7 DEF FileInv, Bare
      <4>2. QED
        BY <4>1, <1>2, ConstantTypes DEF Formatting
    <3>3. QED
      BY <3>1, <3>2
  <2>3. \A pn \in 1 .. NewPages : w.pages[pn].word \in {0, pn - 1}
    <3>1. TAKE pn \in 1 .. NewPages
    <3>2. NewPages \in Nat /\ Len(img.pages) >= NewPages /\ img.pages[pn].word \in {0, pn - 1}
      BY <2>1, ConstantTypes DEF Bare, Formatting
    <3>3. pn \in 1 .. Len(img.pages) /\ pn <= NewPages
      BY <3>1, <3>2, <1>2
    <3>4. QED
      BY <3>2, <3>3, <2>2, <1>3, PageTypes
  <2>4. w.hdr.count > NewPages /\ w.hdr.head \in 0 .. NewPages
    <3>1. CASE w.hdr = img.hdr
      BY <3>1, <2>1 DEF Bare
    <3>2. CASE w.hdr = synced.hdr
      BY <3>2, <1>3, <1>7 DEF Bare
    <3>3. QED
      BY <3>1, <3>2, <1>3
  <2>5. Len(w.pages) >= NewPages
    BY <2>1, <1>3 DEF Bare, Formatting
  <2>6. Bare(w)
    BY <2>3, <2>4, <2>5 DEF Bare, Formatting
  <2>7. QED
    BY <2>6, <1>2, <1>4, BareFree DEF w
<1>8. CASE /\ synced.hdr.magic /\ synced.pages = img.pages
           /\ synced.hdr.head = img.hdr.head /\ synced.hdr.count = img.hdr.count
  <2>1. \A pn \in 1 .. Len(img.pages) : w.pages[pn] = img.pages[pn]
    BY <1>2, <1>3, <1>8
  <2>2. w.pages = img.pages
    BY <2>1, <1>2, <1>3, SeqEqual
  <2>3. w.hdr.head = img.hdr.head /\ w.hdr.count = img.hdr.count
    BY <1>3, <1>8
  <2>4. Store(w) = Store(img) /\ (Bare(img) => Bare(w))
    BY <2>2, <2>3 DEF Store, Bare
  <2>5. QED
    BY <2>4, <1>5 DEF w
<1>9. QED
  BY <1>6, <1>7, <1>8

LEMMA CrashKeeps == ASSUME NEW lost PROVE FileDbInv /\ Crash(lost) => FileDbInv'
<1> SUFFICES ASSUME FileDbInv, Crash(lost) PROVE FileDbInv'
  OBVIOUS
<1> DEFINE Dropped ==
             /\ synced' = synced
             /\ \/ onFile' = onFile
                \/ onFile' = [told |-> told, hurt |-> onFile.hurt \cup Differ(told, onFile.told)]
<1> DEFINE harm == IF lost = {} THEN unsaved ELSE unsaved \cup touched
           w == Without(lost)
<1>1. TypeInv /\ StepInv /\ MapInv /\ FileInv /\ MixInv
  BY DEF FileDbInv
<1>2. /\ Open /\ wild = FALSE
      /\ mode = "file" => /\ synced' = w
                          /\ onFile' = [told |-> told, hurt |-> hurt \cup harm]
      /\ mode # "file" => Dropped
      /\ mode' = "closed" /\ img' = NoImage /\ tables' = <<>> /\ told' = <<>>
      /\ touched' = {} /\ unsaved' = {} /\ hurt' = {}
      /\ pc' = "idle" /\ cur' = [tab |-> cur'.tab, pn |-> cur'.pn]
      /\ dump' = dump /\ wild' = FALSE /\ left' = left /\ inDump' = inDump
  BY <1>1 DEF Crash, Fresh, LeaveMapping, WriteFile, Open, TypeInv, NoTab
<1>3. /\ FileInv' /\ IsImage(synced') /\ IsTold(onFile'.told) /\ onFile'.hurt \subseteq Tabs
      /\ onFile' = [told |-> onFile'.told, hurt |-> onFile'.hurt]
  <2>1. CASE mode # "file"
    BY <1>2, <2>1, MappingLeft
  <2>2. CASE mode = "file" /\ lost = {}
    <3>1. synced' = img /\ onFile' = [told |-> told, hurt |-> hurt \cup unsaved]
      BY <1>1, <1>2, <2>2, NothingLost
    <3>2. QED
      BY <1>2, <3>1, FileLeft
  <2>3. CASE mode = "file" /\ lost # {}
    <3>1. /\ synced' = w /\ onFile'.told = told /\ onFile'.hurt = hurt \cup unsaved \cup touched
          /\ onFile' = [told |-> onFile'.told, hurt |-> onFile'.hurt]
      BY <1>2, <2>3
    <3>2. IsImage(w) /\ IsTold(told) /\ hurt \cup unsaved \cup touched \subseteq Tabs
      BY <1>1, MixedImage DEF TypeInv, IsTold
    <3>3. /\ w.pages \in Seq(Page) /\ Len(w.pages) = Len(img.pages)
          /\ w.hdr \in {img.hdr, synced.hdr}
          /\ \A pn \in 1 .. Len(img.pages) :
                \/ w.pages[pn] = img.pages[pn]
                \/ pn \in 1 .. Len(synced.pages) /\ w.pages[pn] = synced.pages[pn]
                \/ pn > Len(synced.pages) /\ w.pages[pn] = ZeroPage
      BY <1>1, MixedPages
    <3>4. img.hdr.magic /\ Len(img.pages) >= 1
      BY <1>1, <1>2 DEF StepInv
    <3>5. w.pages # <<>>
      BY <3>3, <3>4, EmptySeq
    <3>6. ASSUME w.hdr.magic
          PROVE  Restorable(w, told, hurt \cup unsaved \cup touched)
      <4>1. /\ w.hdr.count \in 1 .. Len(w.pages) + 1
            /\ Kept(w, Loaded(w), told, hurt \cup unsaved \cup touched)
        BY <1>2, <2>3, <3>6, MixedTables
      <4>2. AllTold(w, Loaded(w), told, hurt \cup unsaved \cup touched)
        BY <3>2, <4>1, LoadedFacts, ToldIsKept
      <4>3. hurt \cup unsaved \cup touched = {} =>
               FreeListOK(Store(w)) /\ (DOMAIN told = {} => Bare(w))
        BY <1>2, <2>3, <3>6, MixedFreeList
      <4> HIDE DEF w
      <4>4. QED
        BY <4>1, <4>2, <4>3 DEF Restorable
    <3>7. ASSUME ~w.hdr.magic
          PROVE  /\ w.hdr = NoImage.hdr /\ Len(w.pages) \in {0, NewPages} /\ Formatting(w.pages)
      <4>1. w.hdr = synced.hdr /\ ~synced.hdr.magic
        BY <3>3, <3>4, <3>7
      <4> HIDE DEF w
      <4>2. pc = "format" /\ synced.hdr = NoImage.hdr
            /\ (synced.pages = <<>> \/ Formatting(synced.pages))
        BY <1>1, <2>3, <4>1 DEF FileInv
      <4>3. Len(img.pages) = NewPages /\ told = <<>> /\ hurt = {}
        BY <1>1, <4>2 DEF StepInv
      <4>4. \A pn \in 1 .. NewPages : img.pages[pn].word \in {0, pn - 1}
        BY <1>1, <1>2, <4>3, EmptyTables DEF MapInv, Bare, Formatting
      <4>5. Len(synced.pages) \in Nat /\ NewPages \in Nat
        BY <1>1, ImageTypes, ConstantTypes DEF TypeInv
      <4>6. \A pn \in 1 .. NewPages : w.pages[pn].word \in {0, pn - 1}
        <5>1. CASE synced.pages = <<>>
          BY <5>1, <4>3, <4>4, <3>3, PageTypes
        <5>2. CASE Formatting(synced.pages)
          BY <5>2, <4>3, <4>4, <3>3, PageTypes DEF Formatting
        <5>3. QED
          BY <5>1, <5>2, <4>2
      <4>7. QED
        BY <3>3, <4>1, <4>2, <4>3, <4>5, <4>6 DEF Formatting
    <3> HIDE DEF w
    <3>8. FileInv'
      BY <1>2, <3>1, <3>5, <3>6, <3>7 DEF FileInv
    <3>9. QED
      BY <3>1, <3>2, <3>8
  <2>4. QED
    BY <2>1, <2>2, <2>3
<1>4. QED
  BY <1>2, <1>3, Closed

(***************************************************************************)
(* Statements that change no table.                                        *)
(***************************************************************************)

LEMMA CreateDatabaseKeeps == FileDbInv /\ CreateDatabase => FileDbInv'
<1> SUFFICES ASSUME FileDbInv, CreateDatabase PROVE FileDbInv'
  OBVIOUS
<1> DEFINE Dropped ==
             /\ synced' = synced
             /\ \/ onFile' = onFile
                \/ onFile' = [told |-> told, hurt |-> onFile.hurt \cup Differ(told, onFile.told)]
<1>1. TypeInv /\ StepInv /\ FileInv /\ DumpInv
  BY DEF FileDbInv
<1>2. /\ Open /\ pc = "idle" /\ wild = FALSE /\ left > 0
      /\ mode = "file" => /\ synced' = img
                          /\ onFile' = [told |-> told, hurt |-> hurt \cup unsaved]
      /\ mode # "file" => Dropped
      /\ mode' = "mem" /\ img' = NewImage /\ tables' = <<>> /\ told' = <<>>
      /\ touched' = {} /\ unsaved' = {} /\ hurt' = {}
      /\ pc' = "done" /\ left' = left - 1
      /\ dump' = dump /\ cur' = cur /\ wild' = FALSE /\ inDump' = inDump
  BY <1>1 DEF CreateDatabase, Ready, Fresh, LeaveMapping, WriteFile, Open, TypeInv, NewImage
<1>3. /\ IsImage(img') /\ IsCatalog(tables') /\ IsTold(told')
      /\ StepInv' /\ MapInv' /\ MixInv'
  BY <1>2, FreshInMemory
<1>4. /\ FileInv' /\ IsImage(synced') /\ IsTold(onFile'.told) /\ onFile'.hurt \subseteq Tabs
      /\ onFile' = [told |-> onFile'.told, hurt |-> onFile'.hurt]
  <2>1. CASE mode = "file"
    BY <1>2, <2>1, FileLeft
  <2>2. CASE mode # "file"
    BY <1>2, <2>2, MappingLeft
  <2>3. QED
    BY <2>1, <2>2
<1>5. left' \in 0 .. Budget
  BY <1>1, <1>2, ConstantTypes DEF TypeInv
<1>6. TypeInv'
  BY <1>1, <1>2, <1>3, <1>4, <1>5 DEF TypeInv
<1>7. DumpInv'
  BY <1>1, <1>2 DEF DumpInv
<1>8. QED
  BY <1>3, <1>4, <1>6, <1>7 DEF FileDbInv

LEMMA SaveKeeps == FileDbInv /\ Save => FileDbInv'
<1> SUFFICES ASSUME FileDbInv, Save PROVE FileDbInv'
  OBVIOUS
<1>1. TypeInv /\ StepInv /\ MapInv /\ FileInv /\ DumpInv /\ MixInv
  BY DEF FileDbInv
<1>2. /\ pc = "done" /\ pc' = "saved" /\ img' = Saved(img, tables)
      /\ wild' = (wild \/ CatSize(tables) > CatRoom)
      /\ touched' = touched \cup unsaved /\ unsaved' = {}
      /\ mode' = mode /\ synced' = synced /\ tables' = tables /\ dump' = dump /\ cur' = cur
      /\ left' = left /\ told' = told /\ hurt' = hurt /\ onFile' = onFile /\ inDump' = inDump
  BY DEF Save
<1>3. /\ IsImage(img) /\ IsCatalog(tables) /\ IsTold(told) /\ Open /\ Open'
      /\ img.hdr.magic /\ img.hdr.count \in 1 .. Len(img.pages) + 1 /\ Len(img.pages) >= 1
  BY <1>1, <1>2 DEF TypeInv, StepInv, Open
<1>4. /\ IsImage(img') /\ img'.pages = img.pages /\ img'.hdr.cat = tables
      /\ img'.hdr.count = img.hdr.count /\ img'.hdr.head = img.hdr.head /\ img'.hdr.magic
      /\ DOMAIN Loaded(img') = DOMAIN tables
      /\ \A n \in DOMAIN tables : ReadBack(Loaded(img')[n], tables[n])
  BY <1>2, <1>3, SavedFacts
<1>5. wild' \in BOOLEAN /\ (~wild' => ~wild)
  BY <1>2
<1>6. TypeInv'
  <2>1. touched' \subseteq Tabs
    BY <1>1, <1>2 DEF TypeInv, IsTold
  <2>2. QED
    BY <1>1, <1>2, <1>4, <1>5, <2>1 DEF TypeInv
<1>7. StepInv'
  BY <1>2, <1>3, <1>4 DEF StepInv
<1>8. MapInv'
  <2>1. SUFFICES ASSUME ~wild' PROVE MapInv'
    BY DEF MapInv
  <2>2. /\ AllTold(img, tables, told, hurt)
        /\ hurt = {} => FreeListOK(Store(img)) /\ (DOMAIN told = {} => Bare(img))
    BY <1>1, <1>3, <1>5, <2>1 DEF MapInv
  <2>3. Store(img') = Store(img) /\ (Bare(img) => Bare(img'))
    BY <1>4 DEF Store, Bare
  <2>4. AllTold(img', tables, told, hurt)
    BY <2>2, <1>4 DEF AllTold, Contents
  <2>5. QED
    BY <1>2, <1>4, <2>2, <2>3, <2>4 DEF MapInv
<1>9. FileInv' /\ DumpInv'
  BY <1>1, <1>2 DEF FileInv, DumpInv
<1>10. MixInv'
  <2>1. SUFFICES ASSUME mode = "file", ~wild' PROVE MixInv'
    BY <1>2 DEF MixInv
  <2>2. synced.hdr.count <= Len(img.pages) + 1 /\ FileAgrees /\ FilesAlike
    BY <1>1, <1>5, <2>1 DEF MixInv
  <2>3. FileAgrees'
    BY <1>2, <1>4, <2>2 DEF FileAgrees
  <2>4. FilesAlike'
    BY <1>2, <1>4, <2>2 DEF FilesAlike
  <2>5. QED
    BY <1>2, <1>4, <2>2, <2>3, <2>4 DEF MixInv
<1>11. QED
  BY <1>6, <1>7, <1>8, <1>9, <1>10 DEF FileDbInv

\* A statement that fails after some rows, and steps that change nothing.
LEMMA OtherStepsKeep == FileDbInv /\ (FailHalfWay \/ UNCHANGED vars) => FileDbInv'
<1>1. FileDbInv /\ UNCHANGED vars => FileDbInv'
  BY DEF vars, conf, ghost, FileDbInv, TypeInv, StepInv, MapInv, FileInv, DumpInv, MixInv,
         FileAgrees, FilesAlike, Open, OneMore
<1>2. FileDbInv /\ FailHalfWay => FileDbInv'
  <2> SUFFICES ASSUME FileDbInv, FailHalfWay PROVE FileDbInv'
    OBVIOUS
  <2>1. TypeInv /\ StepInv /\ MapInv /\ FileInv /\ DumpInv /\ MixInv
    BY DEF FileDbInv
  <2>2. /\ pc = "done" /\ pc' = "saved" /\ mode' = mode /\ img' = img /\ synced' = synced
        /\ tables' = tables /\ dump' = dump /\ cur' = cur /\ wild' = wild /\ left' = left
        /\ told' = told /\ touched' = touched /\ unsaved' = unsaved /\ hurt' = hurt
        /\ onFile' = onFile /\ inDump' = inDump
    BY DEF FailHalfWay
  <2>3. TypeInv'
    BY <2>1, <2>2 DEF TypeInv
  <2>4. StepInv'
    BY <2>1, <2>2 DEF StepInv, Open
  <2>5. MapInv' /\ FileInv' /\ DumpInv'
    BY <2>1, <2>2 DEF MapInv, FileInv, DumpInv, Open
  <2>6. MixInv'
    BY <2>1, <2>2 DEF MixInv, FileAgrees, FilesAlike
  <2>7. QED
    BY <2>3, <2>4, <2>5, <2>6 DEF FileDbInv
<1>3. QED
  BY <1>1, <1>2

LEMMA DumpKeeps == FileDbInv /\ Dump => FileDbInv'
<1> SUFFICES ASSUME FileDbInv, Dump PROVE FileDbInv'
  OBVIOUS
<1>1. TypeInv /\ StepInv /\ MapInv /\ FileInv /\ DumpInv /\ MixInv
  BY DEF FileDbInv
<1>2. PICK len \in {Len(img.pages), 1} : dump' = <<[img EXCEPT !.pages = SubSeq(img.pages, 1, len)]>>
  BY DEF Dump
<1>3. /\ Open /\ pc = "idle" /\ wild = FALSE /\ left > 0
      /\ inDump' = [told |-> told, hurt |-> hurt \cup unsaved]
      /\ pc' = "done" /\ left' = left - 1
      /\ mode' = mode /\ img' = img /\ synced' = synced /\ tables' = tables /\ cur' = cur
      /\ wild' = wild /\ told' = told /\ touched' = touched /\ unsaved' = unsaved
      /\ hurt' = hurt /\ onFile' = onFile
  BY <1>1 DEF Dump, Ready, Open, TypeInv
<1> DEFINE part == SubSeq(img.pages, 1, len)
           d == [img EXCEPT !.pages = part]
<1>4. /\ IsImage(img) /\ img.pages \in Seq(Page) /\ Len(img.pages) \in Nat
      /\ Len(img.pages) >= 1 /\ Len(img.pages) < MaxPages
      /\ img.hdr.magic /\ img.hdr.count \in 1 .. Len(img.pages) + 1
      /\ img = [hdr |-> img.hdr, pages |-> img.pages]
  BY <1>1, <1>3, ImageTypes DEF TypeInv, StepInv
<1>5. len \in 1 .. Len(img.pages)
  BY <1>2, <1>4
<1>6. /\ part \in Seq(Page) /\ Len(part) = len
      /\ \A pn \in 1 .. len : part[pn] = img.pages[pn]
  BY <1>4, <1>5
<1>7. dump' = <<d>> /\ dump'[1] = d /\ dump' # <<>>
  BY <1>2
<1> HIDE DEF part
<1>8. d = [hdr |-> img.hdr, pages |-> part] /\ d.hdr = img.hdr /\ d.pages = part
  BY <1>4
<1> HIDE DEF d
<1>9. IsImage(d)
  <2>1. /\ IsCatalog(img.hdr.cat)
        /\ img.hdr \in [magic : BOOLEAN, ver : 0 .. Version, count : 0 .. MaxPages,
                        head : 0 .. MaxPages - 1, cat : {img.hdr.cat}]
    BY <1>4, ImageTypes
  <2>2. Len(d.pages) < MaxPages
    BY <1>4, <1>5, <1>6, <1>8, ConstantTypes
  <2>3. d \in [hdr : {d.hdr}, pages : Seq(Page)]
    BY <1>6, <1>8
  <2>4. QED
    BY <2>1, <2>2, <2>3, <1>8 DEF IsImage
<1>10. ASSUME d.hdr.count <= Len(d.pages) + 1
       PROVE  Restorable(d, told, hurt \cup unsaved)
  <2>1. Restorable(img, told, hurt \cup unsaved) /\ IsTold(told)
    BY <1>1, <1>3, MappingRestorable DEF TypeInv
  <2>2. /\ d.hdr.count \in img.hdr.count .. Len(d.pages) + 1
        /\ \A pn \in 1 .. img.hdr.count - 1 : d.pages[pn] = img.pages[pn]
    BY <1>4, <1>5, <1>6, <1>8, <1>10
  <2>3. d.hdr.cat = img.hdr.cat /\ d.hdr.ver = img.hdr.ver /\ d.hdr.head = img.hdr.head
    BY <1>8
  <2>4. QED
    BY <1>4, <1>9, <2>1, <2>2, <2>3, RestorableAs
<1>11. inDump'.told = told /\ inDump'.hurt = hurt \cup unsaved
  BY <1>3
<1>12. DumpInv'
  <2>1. d.pages # <<>>
    BY <1>5, <1>6, <1>8, EmptySeq
  <2>2. QED
    BY <1>4, <1>8, <1>7, <1>10, <1>11, <2>1 DEF DumpInv
<1>13. TypeInv'
  <2>1. left' \in 0 .. Budget
    BY <1>1, <1>3, ConstantTypes DEF TypeInv
  <2>2. hurt \cup unsaved \subseteq Tabs
    BY <1>1 DEF TypeInv, IsTold
  <2>3. QED
    BY <1>1, <1>3, <1>7, <1>9, <1>11, <2>1, <2>2 DEF TypeInv
<1>14. StepInv' /\ MapInv' /\ FileInv'
  BY <1>1, <1>3 DEF StepInv, MapInv, FileInv, Open
<1>15. MixInv'
  BY <1>1, <1>3 DEF MixInv, FileAgrees, FilesAlike
<1>16. QED
  BY <1>12, <1>13, <1>14, <1>15 DEF FileDbInv

LEMMA LoadKeeps == FileDbInv /\ Load => FileDbInv'
<1> SUFFICES ASSUME FileDbInv, Load PROVE FileDbInv'
  OBVIOUS
<1> DEFINE d == dump[1]
           im == [hdr   |-> [d.hdr EXCEPT !.count = Len(d.pages) + 1],
                  pages |-> Over(d.pages, img.pages)]
<1>1. TypeInv /\ StepInv /\ MapInv /\ FileInv /\ DumpInv /\ MixInv
  BY DEF FileDbInv
<1>2. /\ Open /\ pc = "idle" /\ wild = FALSE /\ left > 0 /\ dump # <<>>
      /\ mode' \in {mode, "detached"} /\ img' = im /\ tables' = Loaded(im)
      /\ told' = inDump.told /\ hurt' = inDump.hurt /\ unsaved' = {}
      /\ touched' = DOMAIN told \cup DOMAIN inDump.told \cup hurt
      /\ wild' = (Len(d.pages) + 1 < d.hdr.count)
      /\ pc' = "done" /\ left' = left - 1
      /\ synced' = synced /\ dump' = dump /\ cur' = cur /\ onFile' = onFile /\ inDump' = inDump
  BY <1>1 DEF Load, Ready, Open, TypeInv, Over
<1> HIDE DEF d
<1>3. /\ IsImage(d) /\ d.hdr.magic /\ d.pages # <<>> /\ d.hdr.count >= 1 /\ IsImage(img)
      /\ d.hdr.count <= Len(d.pages) + 1 => Restorable(d, inDump.told, inDump.hurt)
      /\ IsTold(inDump.told) /\ inDump.hurt \subseteq Tabs /\ IsTold(told)
  BY <1>1, <1>2 DEF TypeInv, DumpInv, d
<1>4. /\ d.pages \in Seq(Page) /\ img.pages \in Seq(Page) /\ d.hdr.count \in Nat
      /\ Len(d.pages) \in Nat /\ Len(img.pages) \in Nat /\ Len(d.pages) >= 1
      /\ Len(d.pages) < MaxPages /\ Len(img.pages) < MaxPages
  BY <1>3, ImageTypes, EmptySeq
<1>5. /\ im.pages \in Seq(Page)
      /\ Len(im.pages) = IF Len(d.pages) <= Len(img.pages) THEN Len(img.pages) ELSE Len(d.pages)
      /\ \A pn \in 1 .. Len(d.pages) : im.pages[pn] = d.pages[pn]
  <2>1. im.pages = Over(d.pages, img.pages)
    OBVIOUS
  <2> HIDE DEF im
  <2>2. QED
    BY <1>4, <2>1, LaidOver
<1>6. /\ im.hdr.count = Len(d.pages) + 1 /\ im.hdr.magic /\ im.hdr.cat = d.hdr.cat
      /\ im.hdr.ver = d.hdr.ver /\ im.hdr.head = d.hdr.head
      /\ im = [hdr |-> im.hdr, pages |-> im.pages]
      /\ im.hdr \in [magic : BOOLEAN, ver : 0 .. Version, count : 0 .. MaxPages,
                     head : 0 .. MaxPages - 1, cat : {im.hdr.cat}]
  <2>1. Len(d.pages) + 1 \in 0 .. MaxPages
    BY <1>4, ConstantTypes
  <2>2. QED
    BY <2>1, <1>3, ImageTypes
<1> HIDE DEF im
<1>7. /\ IsImage(im) /\ im.hdr.count \in 1 .. Len(im.pages) + 1 /\ Len(im.pages) \in Nat
      /\ Len(im.pages) >= 1 /\ Len(im.pages) >= Len(img.pages)
  <2>1. Len(im.pages) < MaxPages
    BY <1>4, <1>5
  <2>2. IsImage(im)
    BY <2>1, <1>3, <1>5, <1>6, ImageTypes DEF IsImage
  <2>3. QED
    BY <2>2, <1>4, <1>5, <1>6
<1>8. ASSUME ~wild' PROVE Restorable(im, inDump.told, inDump.hurt)
  <2>0. ~(Len(d.pages) + 1 < d.hdr.count)
    BY <1>2, <1>8
  <2>1. d.hdr.count <= Len(d.pages) + 1 /\ Restorable(d, inDump.told, inDump.hurt)
    BY <2>0, <1>3, <1>4
  <2>2. im.hdr.count \in d.hdr.count .. Len(im.pages) + 1
    BY <2>1, <1>3, <1>4, <1>6, <1>7
  <2>3. \A pn \in 1 .. d.hdr.count - 1 : im.pages[pn] = d.pages[pn]
    BY <2>1, <1>4, <1>5
  <2>4. QED
    BY <2>1, <2>2, <2>3, <1>3, <1>6, <1>7, RestorableAs
<1>9. DOMAIN Loaded(im) = DOMAIN im.hdr.cat /\ IsCatalog(Loaded(im))
  BY <1>7, LoadedFacts
<1>10. TypeInv'
  <2>1. left' \in 0 .. Budget
    BY <1>1, <1>2, ConstantTypes DEF TypeInv
  <2>2. touched' \subseteq Tabs
    BY <1>1, <1>2 DEF TypeInv, IsTold
  <2>3. wild' \in BOOLEAN /\ mode' \in {"closed", "file", "mem", "detached"}
    BY <1>1, <1>2 DEF TypeInv
  <2>4. unsaved' \subseteq DOMAIN told'
    BY <1>2
  <2>5. QED
    BY <1>1, <1>2, <1>3, <1>7, <1>9, <2>1, <2>2, <2>3, <2>4 DEF TypeInv
<1>11. StepInv'
  BY <1>2, <1>6, <1>7 DEF StepInv, Open
<1>12. MapInv'
  <2>1. SUFFICES ASSUME ~wild' PROVE MapInv'
    BY DEF MapInv
  <2>2. /\ AllTold(im, Loaded(im), inDump.told, inDump.hurt)
        /\ inDump.hurt = {} => FreeListOK(Store(im)) /\ (DOMAIN inDump.told = {} => Bare(im))
    BY <1>8, <2>1 DEF Restorable
  <2>3. QED
    BY <1>2, <1>9, <2>2 DEF MapInv, ReadBack, SameCols
<1>13. FileInv' /\ DumpInv'
  <2>1. DumpInv'
    BY <1>1, <1>2 DEF DumpInv
  <2>2. FileInv'
    BY <1>1, <1>2 DEF FileInv
  <2>3. QED
    BY <2>1, <2>2
<1>14. MixInv'
  <2>1. SUFFICES ASSUME mode' = "file", ~wild' PROVE MixInv'
    BY DEF MixInv
  <2>2. mode = "file" /\ synced = img
    BY <1>1, <1>2, <2>1 DEF MixInv
  <2>3. img.hdr.count \in 1 .. Len(img.pages) + 1 /\ Kept(img, tables, told, hurt)
    BY <1>2, MappingRestorable
  <2>4. synced'.hdr.count <= Len(img'.pages) + 1
    BY <1>2, <1>4, <1>7, <2>2, <2>3
  <2>5. FileAgrees'
    <3>1. Kept(im, Loaded(im), inDump.told, inDump.hurt)
      BY <1>3, <1>7, <1>8, <1>9, <2>1, ToldIsKept DEF Restorable
    <3>2. DOMAIN Loaded(im) \ (DOMAIN inDump.told \cup inDump.hurt) = {}
      BY <3>1 DEF Kept
    <3>3. DOMAIN img.hdr.cat \ (DOMAIN told \cup hurt) = {}
      <4>1. \A n \in DOMAIN img.hdr.cat \ unsaved : n \in DOMAIN tables
        BY <1>1, <1>2 DEF MapInv
      <4>2. \A n \in DOMAIN tables \ hurt : n \in DOMAIN told
        BY <2>3 DEF Kept
      <4>3. unsaved \subseteq DOMAIN told
        BY <1>1 DEF TypeInv
      <4>4. QED
        BY <4>1, <4>2, <4>3
    <3>4. QED
      BY <1>2, <2>2, <3>2, <3>3 DEF FileAgrees
  <2>6. FilesAlike'
    <3>1. hurt = {} /\ DOMAIN told = {} => Bare(img)
      BY <1>1, <1>2 DEF MapInv
    <3>2. QED
      BY <1>2, <2>2, <3>1 DEF FilesAlike
  <2>7. QED
    BY <1>2, <2>4, <2>5, <2>6 DEF MixInv
<1>15. QED
  BY <1>10, <1>11, <1>12, <1>13, <1>14 DEF FileDbInv

(***************************************************************************)
(* Statements that change a table.                                         *)
(***************************************************************************)

\* A step that changes no table but n, and leaves the file alone.
LEMMA TableChanged ==
  ASSUME FileDbInv, Open, ~wild, hurt = {}, pc # "format", NEW n,
         IsImage(img'), img'.hdr.count \in 1 .. Len(img'.pages) + 1,
         img'.hdr.cat = img.hdr.cat, img'.hdr.ver = img.hdr.ver, FreeListOK(Store(img')),
         mode = "file" => synced.hdr.count <= Len(img'.pages) + 1,
         IsCatalog(tables'), DOMAIN tables' = {n} \cup DOMAIN tables,
         \A o \in DOMAIN tables \ {n} :
            /\ tables'[o] = tables[o]
            /\ tables[o].root # 0 => /\ tables[o].root \in 1 .. img'.hdr.count - 1
                                     /\ img'.pages[tables[o].root] = img.pages[tables[o].root],
         IsTold(told'), DOMAIN told' = {n} \cup DOMAIN told,
         \A o \in DOMAIN told \ {n} : told'[o] = told[o],
         Holds(img', tables'[n], told'[n], n),
         unsaved \subseteq unsaved', tables' = tables \/ n \in unsaved',
         touched' = touched \cup {n}, hurt' = {}, pc' # "idle",
         mode' = mode, synced' = synced, onFile' = onFile, dump' = dump, inDump' = inDump
  PROVE  MapInv' /\ FileInv' /\ DumpInv' /\ MixInv'
<1>1. TypeInv /\ StepInv /\ MapInv /\ FileInv /\ DumpInv /\ MixInv
  BY DEF FileDbInv
<1>2. Kept(img, tables, told, hurt) /\ IsImage(img)
  BY MappingRestorable
<1>3. Kept(img', tables', told', hurt')
  <2>1. ASSUME NEW o \in (DOMAIN told' \cup DOMAIN tables') \ hurt'
        PROVE  o \in DOMAIN told' /\ o \in DOMAIN tables' /\ Holds(img', tables'[o], told'[o], o)
    <3>1. CASE o = n
      BY <3>1
    <3>2. CASE o # n
      <4>1. o \in DOMAIN told /\ o \in DOMAIN tables /\ Holds(img, tables[o], told[o], o)
        BY <3>2, <1>2 DEF Kept
      <4>2. tables'[o] = tables[o] /\ told'[o] = told[o]
        BY <3>2, <4>1
      <4>3. Holds(img', tables[o], told[o], o)
        BY <3>2, <4>1, HoldsElsewhere
      <4>4. QED
        BY <4>1, <4>2, <4>3
    <3>3. QED
      BY <3>1, <3>2
  <2>2. QED
    BY <2>1 DEF Kept
<1>4. MapInv'
  <2>1. AllTold(img', tables', told', hurt')
    BY <1>3, ToldIsKept
  <2>2. DOMAIN told' # {}
    OBVIOUS
  <2>3. Loaded(img') = Loaded(img)
    BY LoadedSame
  <2>4. ASSUME NEW o \in (DOMAIN tables' \cup DOMAIN img'.hdr.cat) \ unsaved'
        PROVE  /\ o \in DOMAIN tables' /\ o \in DOMAIN img'.hdr.cat
               /\ ReadBack(Loaded(img')[o], tables'[o])
    <3>1. o \in (DOMAIN tables \cup DOMAIN img.hdr.cat) \ unsaved
      <4>1. o = n => tables' = tables
        BY <2>4
      <4>2. QED
        BY <4>1
    <3>2. /\ o \in DOMAIN tables /\ o \in DOMAIN img.hdr.cat
          /\ ReadBack(Loaded(img)[o], tables[o]) /\ tables'[o] = tables[o]
      <4>1. o \in DOMAIN tables /\ o \in DOMAIN img.hdr.cat /\ ReadBack(Loaded(img)[o], tables[o])
        BY <3>1, <1>1 DEF MapInv
      <4>2. tables'[o] = tables[o]
        BY <4>1
      <4>3. QED
        BY <4>1, <4>2
    <3>3. QED
      BY <2>3, <3>2
  <2>5. QED
    BY <2>1, <2>2, <2>4 DEF MapInv
<1>5. FileInv' /\ DumpInv'
  <2>1. FileInv'
    BY <1>1 DEF FileInv
  <2>2. DumpInv'
    BY <1>1 DEF DumpInv
  <2>3. QED
    BY <2>1, <2>2
<1>6. MixInv'
  <2>1. SUFFICES ASSUME mode = "file" PROVE MixInv'
    BY DEF MixInv
  <2>2. FileAgrees
    BY <1>1, <2>1 DEF MixInv
  <2>3. FileAgrees'
    <3>1. ASSUME NEW o \in (DOMAIN tables' \cup DOMAIN synced.hdr.cat) \ (touched' \cup unsaved')
          PROVE  /\ o \in DOMAIN tables' /\ o \in DOMAIN synced.hdr.cat
                 /\ ReadBack(Loaded(synced)[o], tables'[o])
                 /\ tables'[o].root # 0 =>
                       /\ tables'[o].root \in 1 .. synced.hdr.count - 1
                       /\ synced.pages[tables'[o].root] = img'.pages[tables'[o].root]
      <4>1. o # n /\ o \in (DOMAIN tables \cup DOMAIN synced.hdr.cat) \ (touched \cup unsaved \cup hurt)
        OBVIOUS
      <4>2. /\ o \in DOMAIN tables /\ o \in DOMAIN synced.hdr.cat
            /\ ReadBack(Loaded(synced)[o], tables[o])
            /\ tables[o].root # 0 =>
                  /\ tables[o].root \in 1 .. synced.hdr.count - 1
                  /\ synced.pages[tables[o].root] = img.pages[tables[o].root]
        BY <4>1, <2>2 DEF FileAgrees
      <4>3. QED
        BY <4>1, <4>2
    <3>2. QED
      BY <3>1 DEF FileAgrees
  <2>4. FilesAlike'
    BY DEF FilesAlike
  <2>5. QED
    BY <2>1, <2>3, <2>4 DEF MixInv
<1>7. QED
  BY <1>4, <1>5, <1>6

\* A page allocated and written between statements is no table's.
LEMMA PageWritten ==
  ASSUME FileDbInv, Open, ~wild, pc = "idle", hurt = {}, NEW page \in Page
  PROVE  LET a == PagerAlloc(Store(img))
             w == Within(img, SetPage(a.st, a.pn, page))
         IN  /\ a.pn \in 0 .. MaxPages - 1
             /\ a.pn # 0 =>
                  /\ IsImage(w) /\ w.hdr.magic /\ w.hdr.cat = img.hdr.cat
                  /\ w.hdr.ver = img.hdr.ver
                  /\ w.hdr.count \in 1 .. Len(w.pages) + 1 /\ Len(w.pages) >= 1
                  /\ mode = "file" => synced.hdr.count <= Len(w.pages) + 1
                  /\ a.pn \in 1 .. w.hdr.count - 1 /\ w.pages[a.pn] = page
                  /\ \A o \in DOMAIN tables : tables[o].root # 0 =>
                        /\ tables[o].root \in 1 .. w.hdr.count - 1
                        /\ w.pages[tables[o].root] = img.pages[tables[o].root]
                  /\ FreeListOK(Store(w))
<1> DEFINE a == PagerAlloc(Store(img))
           w == Within(img, SetPage(a.st, a.pn, page))
<1>1. TypeInv /\ StepInv /\ MapInv /\ MixInv
  BY DEF FileDbInv
<1>2. /\ IsImage(img) /\ Kept(img, tables, told, hurt) /\ img.hdr.count \in 1 .. Len(img.pages) + 1
      /\ IsTold(told) /\ IsCatalog(tables)
  BY <1>1, MappingRestorable DEF TypeInv
<1>3. FreeListOK(Store(img)) /\ img.hdr.magic
  BY <1>1 DEF MapInv, StepInv
<1>4. /\ a.pn \in 0 .. MaxPages - 1
      /\ a.pn # 0 =>
           /\ IsImage(w) /\ w.hdr.magic = img.hdr.magic /\ w.hdr.cat = img.hdr.cat
           /\ w.hdr.ver = img.hdr.ver
           /\ w.hdr.count \in 1 .. Len(w.pages) + 1 /\ img.hdr.count <= w.hdr.count
           /\ Len(w.pages) >= 1
           /\ a.pn \in 1 .. w.hdr.count - 1 /\ w.pages[a.pn] = page
           /\ a.pn \in 1 .. img.hdr.count - 1 => img.pages[a.pn].word >= 0
           /\ \A r \in 1 .. img.hdr.count - 1 : r # a.pn => w.pages[r] = img.pages[r]
           /\ FreeListOK(Store(w))
  BY <1>2, <1>3, Allocated
<1> HIDE DEF a, w
<1>5. ASSUME a.pn # 0, NEW o \in DOMAIN tables, tables[o].root # 0
      PROVE  /\ tables[o].root \in 1 .. w.hdr.count - 1
             /\ w.pages[tables[o].root] = img.pages[tables[o].root]
  <2>1. tables[o].root \in 1 .. img.hdr.count - 1 /\ img.pages[tables[o].root].word = LeafWord
    BY <1>2, <1>5, RootFacts
  <2>2. tables[o].root # a.pn
    BY <2>1, <1>4, <1>5 DEF LeafWord
  <2>3. img.hdr.count \in Nat /\ w.hdr.count \in Nat
    BY <1>2, <1>4, <1>5, ImageTypes
  <2>4. QED
    BY <2>1, <2>2, <2>3, <1>4, <1>5
<1>6. a.pn # 0 /\ mode = "file" => synced.hdr.count <= Len(w.pages) + 1
  <2>1. mode = "file" => synced = img
    BY <1>1 DEF MixInv
  <2>2. a.pn # 0 => Len(w.pages) \in Nat /\ w.hdr.count \in Nat /\ img.hdr.count \in Nat
    BY <1>2, <1>4, ImageTypes
  <2>3. QED
    BY <2>1, <2>2, <1>4
<1>7. QED
  BY <1>3, <1>4, <1>5, <1>6 DEF a, w

LEMMA CreateTableKeeps ==
  ASSUME NEW n \in Names PROVE FileDbInv /\ CreateTable(n) => FileDbInv'
<1> SUFFICES ASSUME FileDbInv, CreateTable(n) PROVE FileDbInv'
  OBVIOUS
<1> DEFINE page == LeafOf(<<n, 0>>)
           a == PagerAlloc(Store(img))
           w == Within(img, SetPage(a.st, a.pn, page))
           e == [root |-> a.pn, ncols |-> Cols[n], nullmap |-> TRUE]
           t == [rows |-> <<n, 0>>, ncols |-> Cols[n], nullmap |-> TRUE]
<1>1. TypeInv /\ StepInv /\ MapInv /\ MixInv
  BY DEF FileDbInv
<1>2. /\ Open /\ pc = "idle" /\ ~wild /\ left > 0 /\ hurt = {} /\ n \notin DOMAIN tables
      /\ img' = (IF a.pn = 0 THEN img ELSE w) /\ tables' = Put(tables, n, e)
      /\ touched' = touched \cup {n} /\ unsaved' = unsaved \cup {n}
      /\ wild' \in BOOLEAN /\ left' = left - 1 /\ pc' = "done" /\ cur' = cur
      /\ mode' = mode /\ synced' = synced /\ dump' = dump /\ hurt' = hurt
      /\ onFile' = onFile /\ inDump' = inDump
  BY DEF CreateTable, Changed, Ready, Open, BadGrowth
<1>3. told' = Put(told, n, t)
  BY DEF CreateTable, Changed
<1>4. n \in Tabs /\ page \in Page /\ <<n, 0>> \in Tabs \X Nat
  BY PageTypes DEF Tabs
<1>5. /\ a.pn \in 0 .. MaxPages - 1
      /\ a.pn # 0 =>
           /\ IsImage(w) /\ w.hdr.magic /\ w.hdr.cat = img.hdr.cat
           /\ w.hdr.ver = img.hdr.ver
           /\ w.hdr.count \in 1 .. Len(w.pages) + 1 /\ Len(w.pages) >= 1
           /\ mode = "file" => synced.hdr.count <= Len(w.pages) + 1
           /\ a.pn \in 1 .. w.hdr.count - 1 /\ w.pages[a.pn] = page
           /\ \A o \in DOMAIN tables : tables[o].root # 0 =>
                 /\ tables[o].root \in 1 .. w.hdr.count - 1
                 /\ w.pages[tables[o].root] = img.pages[tables[o].root]
           /\ FreeListOK(Store(w))
  BY <1>2, <1>4, PageWritten
<1>6. /\ e \in TabEntry /\ e.root = a.pn /\ e.ncols = Cols[n] /\ e.nullmap = TRUE
      /\ t \in ToldEntry /\ t.rows = <<n, 0>> /\ t.ncols = Cols[n] /\ t.nullmap = TRUE
      /\ t.rows[1] = n
  <2>1. Cols[n] \in 0 .. MaxCols
    BY ColsAssumption, ConstantTypes
  <2>2. QED
    BY <1>4, <1>5, <2>1 DEF TabEntry, ToldEntry
<1> HIDE DEF a, w, e, t
<1>7. /\ IsImage(img') /\ img'.hdr.magic /\ img'.hdr.cat = img.hdr.cat
      /\ img'.hdr.ver = img.hdr.ver /\ FreeListOK(Store(img'))
      /\ img'.hdr.count \in 1 .. Len(img'.pages) + 1 /\ Len(img'.pages) >= 1
      /\ mode = "file" => synced.hdr.count <= Len(img'.pages) + 1
      /\ \A o \in DOMAIN tables : tables[o].root # 0 =>
            /\ tables[o].root \in 1 .. img'.hdr.count - 1
            /\ img'.pages[tables[o].root] = img.pages[tables[o].root]
      /\ Holds(img', e, t, n)
  <2>1. CASE a.pn = 0
    <3>1. img' = img /\ IsImage(img) /\ IsTold(told)
      BY <1>1, <1>2, <2>1 DEF TypeInv
    <3>2. /\ img.hdr.magic /\ img.hdr.count \in 1 .. Len(img.pages) + 1 /\ Len(img.pages) >= 1
          /\ FreeListOK(Store(img)) /\ (mode = "file" => synced.hdr.count <= Len(img.pages) + 1)
      BY <1>1, <1>2 DEF StepInv, MapInv, MixInv
    <3>3. \A o \in DOMAIN tables : tables[o].root # 0 => tables[o].root \in 1 .. img.hdr.count - 1
      <4>1. Kept(img, tables, told, hurt)
        BY <1>2, MappingRestorable
      <4>2. QED
        BY <1>2, <3>1, <4>1, RootFacts
    <3>4. Holds(img, e, t, n)
      BY <2>1, <1>6 DEF Holds, SameCols
    <3>5. QED
      BY <3>1, <3>2, <3>3, <3>4
  <2>2. CASE a.pn # 0
    <3>1. img' = w
      BY <1>2, <2>2
    <3>2. Holds(w, e, t, n)
      BY <1>5, <1>6, <2>2 DEF Holds, SameCols
    <3>3. QED
      BY <1>5, <2>2, <3>1, <3>2
  <2>3. QED
    BY <2>1, <2>2
<1>8. /\ IsCatalog(tables') /\ DOMAIN tables' = {n} \cup DOMAIN tables /\ tables'[n] = e
      /\ \A o \in DOMAIN tables \ {n} : tables'[o] = tables[o]
  <2>1. IsCatalog(Put(tables, n, e))
    BY <1>1, <1>4, <1>6, CatalogPut DEF TypeInv
  <2> DEFINE p == Put(tables, n, e)
  <2>2. /\ DOMAIN p = {n} \cup DOMAIN tables /\ p[n] = e
        /\ \A o \in DOMAIN tables \ {n} : p[o] = tables[o]
    BY DEF Put
  <2>3. tables' = p
    BY <1>2
  <2> HIDE DEF p
  <2>4. QED
    BY <2>1, <2>2, <2>3 DEF p
<1>9. /\ IsTold(told') /\ DOMAIN told' = {n} \cup DOMAIN told /\ told'[n] = t
      /\ \A o \in DOMAIN told \ {n} : told'[o] = told[o]
  <2>1. IsTold(Put(told, n, t))
    BY <1>1, <1>4, <1>6, ToldPut DEF TypeInv
  <2> DEFINE p == Put(told, n, t)
  <2>2. /\ DOMAIN p = {n} \cup DOMAIN told /\ p[n] = t
        /\ \A o \in DOMAIN told \ {n} : p[o] = told[o]
    BY DEF Put
  <2>3. told' = p
    BY <1>3
  <2> HIDE DEF p
  <2>4. QED
    BY <2>1, <2>2, <2>3 DEF p
<1>10. MapInv' /\ FileInv' /\ DumpInv' /\ MixInv'
  <2>1. unsaved \subseteq unsaved' /\ n \in unsaved' /\ hurt' = {} /\ pc # "format" /\ pc' # "idle"
    BY <1>2
  <2>2. QED
    BY <1>2, <1>7, <1>8, <1>9, <2>1, TableChanged
<1>11. TypeInv'
  <2>1. left' \in 0 .. Budget
    BY <1>1, <1>2, ConstantTypes DEF TypeInv
  <2>2. touched' \subseteq Tabs /\ unsaved' \subseteq DOMAIN told'
    BY <1>1, <1>2, <1>4, <1>9 DEF TypeInv
  <2>3. QED
    BY <1>1, <1>2, <1>7, <1>8, <1>9, <2>1, <2>2 DEF TypeInv
<1>12. StepInv'
  BY <1>2, <1>7 DEF StepInv, Open
<1>13. QED
  BY <1>10, <1>11, <1>12 DEF FileDbInv

\* A table that takes a row, between statements.
LEMMA WritableFacts ==
  ASSUME FileDbInv, Open, ~wild, hurt = {}, NEW n \in DOMAIN tables, tables[n].root # 0
  PROVE  /\ n \in DOMAIN told /\ n \in Tabs /\ tables[n].root \in 1 .. img.hdr.count - 1
         /\ img.pages[tables[n].root] = LeafOf(told[n].rows)
         /\ img.pages[tables[n].root].word = LeafWord
         /\ told[n].rows[2] \in Nat /\ Holds(img, tables[n], told[n], n)
         /\ OneMore(n) \in Tabs \X Nat /\ OneMore(n)[1] = n
         /\ LeafOf(OneMore(n)) \in Page /\ LeafOf(OneMore(n)).word = LeafWord
<1>1. IsImage(img) /\ IsTold(told) /\ Kept(img, tables, told, hurt)
  BY MappingRestorable DEF FileDbInv, TypeInv
<1>2. /\ n \in DOMAIN told /\ tables[n].root \in 1 .. img.hdr.count - 1
      /\ img.pages[tables[n].root] = LeafOf(told[n].rows)
      /\ img.pages[tables[n].root].word = LeafWord
  BY <1>1, RootFacts
<1>3. Holds(img, tables[n], told[n], n)
  BY <1>1, <1>2 DEF Kept
<1>4. n \in Tabs /\ told[n].rows[2] \in Nat
  BY <1>1, <1>2, ToldFacts
<1> DEFINE k == told[n].rows[2]
<1>5. OneMore(n) = <<n, k + 1>>
  BY DEF OneMore
<1>6. OneMore(n) \in Tabs \X Nat /\ OneMore(n)[1] = n
  <2>1. k \in Nat
    BY <1>4
  <2> HIDE DEF k
  <2>2. QED
    BY <2>1, <1>4, <1>5
<1>7. LeafOf(OneMore(n)) \in Page /\ LeafOf(OneMore(n)).word = LeafWord
  BY <1>6, PageTypes
<1>8. QED
  BY <1>2, <1>3, <1>4, <1>6, <1>7

\* What SQL says of a table after one more change.
LEMMA RowToldFacts ==
  ASSUME IsTold(told), NEW n \in DOMAIN told,
         OneMore(n) \in Tabs \X Nat, OneMore(n)[1] = n
  PROVE  LET t == OneRowMore(n)
         IN  /\ t \in ToldEntry /\ t.rows = OneMore(n) /\ t.rows[1] = n
             /\ t.ncols = told[n].ncols /\ t.nullmap = told[n].nullmap
<1> DEFINE rows == OneMore(n)
<1>1. /\ told[n] = [rows |-> told[n].rows, ncols |-> told[n].ncols, nullmap |-> told[n].nullmap]
      /\ told[n] \in ToldEntry
  BY ToldFacts
<1>2. OneRowMore(n) = [told[n] EXCEPT !.rows = rows]
  BY DEF OneRowMore
<1>3. rows \in Tabs \X Nat /\ rows[1] = n
  OBVIOUS
<1> HIDE DEF rows
<1>4. OneRowMore(n) = [rows |-> rows, ncols |-> told[n].ncols, nullmap |-> told[n].nullmap]
  BY <1>1, <1>2
<1>5. QED
  BY <1>1, <1>3, <1>4 DEF ToldEntry, rows

LEMMA CopyLeafKeeps ==
  ASSUME NEW n \in Names PROVE FileDbInv /\ CopyLeaf(n) => FileDbInv'
<1> SUFFICES ASSUME FileDbInv, CopyLeaf(n) PROVE FileDbInv'
  OBVIOUS
<1> DEFINE page == LeafOf(OneMore(n))
           a == PagerAlloc(Store(img))
           w == Within(img, SetPage(a.st, a.pn, page))
<1>1. TypeInv /\ StepInv
  BY DEF FileDbInv
<1>2. /\ Open /\ pc = "idle" /\ ~wild /\ left > 0 /\ hurt = {}
      /\ n \in DOMAIN tables /\ tables[n].root # 0 /\ a.pn # 0
      /\ img' = w /\ wild' \in BOOLEAN /\ left' = left - 1
      /\ pc' = "leaf" /\ cur' = [tab |-> n, pn |-> a.pn] /\ touched' = touched \cup {n}
      /\ mode' = mode /\ synced' = synced /\ tables' = tables /\ dump' = dump /\ told' = told
      /\ unsaved' = unsaved /\ hurt' = hurt /\ onFile' = onFile /\ inDump' = inDump
  BY DEF CopyLeaf, Ready, Writable, Open, BadGrowth
<1>3. /\ n \in DOMAIN told /\ n \in Tabs /\ page \in Page
      /\ Holds(img, tables[n], told[n], n)
  BY <1>2, WritableFacts
<1>4. /\ IsImage(w) /\ w.hdr.magic /\ w.hdr.cat = img.hdr.cat /\ w.hdr.ver = img.hdr.ver
      /\ w.hdr.count \in 1 .. Len(w.pages) + 1 /\ Len(w.pages) >= 1
      /\ mode = "file" => synced.hdr.count <= Len(w.pages) + 1
      /\ a.pn \in 1 .. w.hdr.count - 1 /\ w.pages[a.pn] = page
      /\ \A o \in DOMAIN tables : tables[o].root # 0 =>
            /\ tables[o].root \in 1 .. w.hdr.count - 1
            /\ w.pages[tables[o].root] = img.pages[tables[o].root]
      /\ FreeListOK(Store(w))
  BY <1>2, <1>3, PageWritten
<1> HIDE DEF a, w
<1>5. Holds(w, tables[n], told[n], n)
  BY <1>2, <1>3, <1>4, HoldsElsewhere
<1>6. IsCatalog(tables) /\ IsTold(told)
  BY <1>1 DEF TypeInv
<1>7. MapInv' /\ FileInv' /\ DumpInv' /\ MixInv'
  <2>1. DOMAIN tables' = {n} \cup DOMAIN tables /\ DOMAIN told' = {n} \cup DOMAIN told
    BY <1>2, <1>3
  <2>2. /\ IsImage(img') /\ img'.hdr.cat = img.hdr.cat /\ img'.hdr.ver = img.hdr.ver
        /\ img'.hdr.count \in 1 .. Len(img'.pages) + 1 /\ FreeListOK(Store(img'))
        /\ mode = "file" => synced.hdr.count <= Len(img'.pages) + 1
        /\ Holds(img', tables'[n], told'[n], n)
        /\ \A o \in DOMAIN tables \ {n} :
              /\ tables'[o] = tables[o]
              /\ tables[o].root # 0 => /\ tables[o].root \in 1 .. img'.hdr.count - 1
                                       /\ img'.pages[tables[o].root] = img.pages[tables[o].root]
    BY <1>2, <1>4, <1>5
  <2>3. IsCatalog(tables') /\ IsTold(told') /\ \A o \in DOMAIN told \ {n} : told'[o] = told[o]
    BY <1>2, <1>6
  <2>4. unsaved \subseteq unsaved' /\ hurt' = {} /\ pc # "format" /\ pc' # "idle"
    BY <1>2
  <2>5. QED
    BY <1>2, <2>1, <2>2, <2>3, <2>4, TableChanged
<1>8. TypeInv'
  <2>1. left' \in 0 .. Budget
    BY <1>1, <1>2, ConstantTypes DEF TypeInv
  <2>2. touched' \subseteq Tabs /\ cur' = [tab |-> cur'.tab, pn |-> cur'.pn]
    BY <1>1, <1>2, <1>3 DEF TypeInv
  <2>3. QED
    BY <1>1, <1>2, <1>4, <2>1, <2>2 DEF TypeInv
<1>9. StepInv'
  <2>1. cur'.tab = n /\ cur'.pn = a.pn /\ hurt' = {}
    BY <1>2
  <2>2. OneMore(n)' = OneMore(n)
    BY <1>2 DEF OneMore
  <2>3. OneMore(cur.tab)' = OneMore(n)
    BY <2>1, <2>2 DEF OneMore
  <2>4. QED
    BY <1>2, <1>3, <1>4, <2>1, <2>3 DEF StepInv, Open
<1>10. QED
  BY <1>7, <1>8, <1>9 DEF FileDbInv

LEMMA FreeOldKeeps == FileDbInv /\ FreeOld => FileDbInv'
<1> SUFFICES ASSUME FileDbInv, FreeOld PROVE FileDbInv'
  OBVIOUS
<1> DEFINE n == cur.tab
           root == tables[n].root
           w == Within(img, PagerFree(Store(img), root))
           t == OneRowMore(n)
<1>1. TypeInv /\ StepInv /\ MapInv /\ MixInv
  BY DEF FileDbInv
<1>2. /\ pc = "leaf" /\ ~wild /\ img' = w /\ tables' = [tables EXCEPT ![n].root = cur.pn]
      /\ touched' = touched \cup {n} /\ unsaved' = unsaved \cup {n}
      /\ pc' = "written" /\ wild' = wild /\ left' = left /\ cur' = cur
      /\ mode' = mode /\ synced' = synced /\ dump' = dump /\ hurt' = hurt
      /\ onFile' = onFile /\ inDump' = inDump
  BY DEF FreeOld, Changed
<1>3. told' = Put(told, n, t)
  BY DEF FreeOld, Changed
<1>4. /\ Open /\ img.hdr.magic /\ Len(img.pages) >= 1 /\ hurt = {}
      /\ img.hdr.count \in 1 .. Len(img.pages) + 1
      /\ n \in DOMAIN tables /\ root # 0 /\ n \in DOMAIN told
      /\ cur.pn \in 1 .. img.hdr.count - 1 /\ img.pages[cur.pn] = LeafOf(OneMore(n))
  BY <1>1, <1>2 DEF StepInv
<1>5. /\ IsImage(img) /\ IsCatalog(tables) /\ IsTold(told) /\ FreeListOK(Store(img))
      /\ Kept(img, tables, told, hurt)
  BY <1>1, <1>2, <1>4, MappingRestorable DEF TypeInv, MapInv
<1>6. /\ n \in Tabs /\ root \in 1 .. img.hdr.count - 1 /\ Holds(img, tables[n], told[n], n)
      /\ img.pages[root] = LeafOf(told[n].rows) /\ img.pages[root].word = LeafWord
      /\ told[n].rows[2] \in Nat /\ OneMore(n) \in Tabs \X Nat /\ OneMore(n)[1] = n
  BY <1>2, <1>4, WritableFacts
<1>7. /\ IsImage(w) /\ w.hdr.magic = img.hdr.magic /\ w.hdr.cat = img.hdr.cat
      /\ w.hdr.ver = img.hdr.ver /\ w.hdr.count = img.hdr.count
      /\ Len(w.pages) = Len(img.pages)
      /\ \A o \in 1 .. img.hdr.count - 1 : o # root => w.pages[o] = img.pages[o]
      /\ FreeListOK(Store(w))
  <2>1. img.pages[root].word < 0
    BY <1>6 DEF LeafWord
  <2>2. QED
    BY <1>4, <1>5, <1>6, <2>1, Freed
<1> HIDE DEF w
<1>8. cur.pn # root
  <2>1. LeafOf(OneMore(n)).rest = OneMore(n) /\ LeafOf(told[n].rows).rest = told[n].rows
    BY DEF LeafOf
  <2>2. OneMore(n)[2] = told[n].rows[2] + 1
    BY DEF OneMore
  <2>3. OneMore(n) # told[n].rows
    BY <1>6, <2>2
  <2>4. /\ img.pages[cur.pn].rest = OneMore(n)
        /\ img.pages[root].rest = told[n].rows
    BY <1>4, <1>6, <2>1
  <2>5. QED
    BY <2>3, <2>4
<1>9. w.pages[cur.pn] = LeafOf(OneMore(n))
  BY <1>4, <1>7, <1>8
<1>10. ASSUME NEW o \in DOMAIN tables \ {n}, tables[o].root # 0
       PROVE  /\ tables[o].root \in 1 .. w.hdr.count - 1
              /\ w.pages[tables[o].root] = img.pages[tables[o].root]
  <2>1. tables[o].root \in 1 .. img.hdr.count - 1
    BY <1>4, <1>5, <1>10, RootFacts
  <2>2. tables[o].root # root
    BY <1>4, <1>5, <1>10, RootsApart
  <2>3. QED
    BY <1>7, <2>1, <2>2
<1>11. /\ tables'[n].root = cur.pn /\ tables'[n] \in TabEntry
       /\ tables'[n].ncols = tables[n].ncols /\ tables'[n].nullmap = tables[n].nullmap
       /\ DOMAIN tables' = DOMAIN tables /\ IsCatalog(tables')
       /\ \A o \in DOMAIN tables \ {n} : tables'[o] = tables[o]
  <2>1. /\ tables[n] = [root |-> root, ncols |-> tables[n].ncols, nullmap |-> tables[n].nullmap]
        /\ tables[n].ncols \in 0 .. MaxCols /\ tables[n].nullmap \in BOOLEAN
    BY <1>4, <1>5, CatalogEntry
  <2>2. cur.pn \in 0 .. MaxPages - 1
    BY <1>4, <1>5, ImageTypes, ConstantTypes
  <2> DEFINE e == [tables[n] EXCEPT !.root = cur.pn]
  <2>3. e = [root |-> cur.pn, ncols |-> tables[n].ncols, nullmap |-> tables[n].nullmap]
    BY <2>1
  <2>4. tables' = [tables EXCEPT ![n] = e]
    BY <1>2
  <2> HIDE DEF e
  <2>5. e \in TabEntry /\ e.root = cur.pn /\ e.ncols = tables[n].ncols /\ e.nullmap = tables[n].nullmap
    BY <2>1, <2>2, <2>3 DEF TabEntry
  <2>6. /\ DOMAIN tables' = DOMAIN tables /\ tables'[n] = e
        /\ \A o \in DOMAIN tables \ {n} : tables'[o] = tables[o]
        /\ tables' = [o \in DOMAIN tables |-> tables'[o]]
    BY <1>4, <2>4
  <2>7. \A o \in DOMAIN tables : tables'[o] \in TabEntry
    BY <1>5, <2>5, <2>6 DEF IsCatalog
  <2>8. IsCatalog(tables')
    BY <1>5, <2>6, <2>7 DEF IsCatalog
  <2>9. QED
    BY <2>1, <2>5, <2>6, <2>8
<1>12. t \in ToldEntry /\ t.rows = OneMore(n) /\ t.rows[1] = n
       /\ t.ncols = told[n].ncols /\ t.nullmap = told[n].nullmap
  BY <1>4, <1>5, <1>6, RowToldFacts
<1> HIDE DEF t
<1>13. /\ IsTold(told') /\ DOMAIN told' = {n} \cup DOMAIN told /\ told'[n] = t
       /\ \A o \in DOMAIN told \ {n} : told'[o] = told[o]
  <2>1. IsTold(Put(told, n, t))
    BY <1>5, <1>6, <1>12, ToldPut
  <2>2. QED
    BY <2>1, <1>3 DEF Put
<1>14. Holds(w, tables'[n], told'[n], n)
  BY <1>4, <1>6, <1>7, <1>9, <1>11, <1>12, <1>13 DEF Holds
<1>15. MapInv' /\ FileInv' /\ DumpInv' /\ MixInv'
  <2>1. DOMAIN tables' = {n} \cup DOMAIN tables
    BY <1>4, <1>11
  <2>2. /\ IsImage(img') /\ img'.hdr.cat = img.hdr.cat /\ img'.hdr.ver = img.hdr.ver
        /\ img'.hdr.count \in 1 .. Len(img'.pages) + 1 /\ FreeListOK(Store(img'))
        /\ Holds(img', tables'[n], told'[n], n)
    BY <1>2, <1>4, <1>7, <1>14
  <2>3. \A o \in DOMAIN tables \ {n} :
           /\ tables'[o] = tables[o]
           /\ tables[o].root # 0 => /\ tables[o].root \in 1 .. img'.hdr.count - 1
                                    /\ img'.pages[tables[o].root] = img.pages[tables[o].root]
    BY <1>2, <1>10, <1>11
  <2>4. mode = "file" => synced.hdr.count <= Len(img'.pages) + 1
    BY <1>1, <1>2, <1>7 DEF MixInv
  <2>5. /\ unsaved \subseteq unsaved' /\ n \in unsaved' /\ hurt' = {} /\ pc # "format"
        /\ pc' # "idle"
    BY <1>2, <1>4
  <2> HIDE DEF n
  <2>6. QED
    BY <1>2, <1>4, <1>11, <1>13, <2>1, <2>2, <2>3, <2>4, <2>5, TableChanged
<1>16. TypeInv'
  <2>1. touched' \subseteq Tabs /\ unsaved' \subseteq DOMAIN told'
    BY <1>1, <1>2, <1>6, <1>13 DEF TypeInv
  <2>2. QED
    BY <1>1, <1>2, <1>7, <1>11, <1>13, <2>1 DEF TypeInv
<1>17. StepInv'
  BY <1>2, <1>4, <1>7, <1>11 DEF StepInv, Open
<1>18. QED
  BY <1>15, <1>16, <1>17 DEF FileDbInv

LEMMA WriteInPlaceKeeps ==
  ASSUME NEW n \in Names PROVE FileDbInv /\ WriteInPlace(n) => FileDbInv'
<1> SUFFICES ASSUME FileDbInv, WriteInPlace(n) PROVE FileDbInv'
  OBVIOUS
<1> DEFINE root == tables[n].root
           page == LeafOf(OneMore(n))
           w == [img EXCEPT !.pages[root] = page]
           t == OneRowMore(n)
<1>1. TypeInv /\ StepInv /\ MapInv /\ MixInv
  BY DEF FileDbInv
<1>2. /\ Open /\ pc = "idle" /\ ~wild /\ left > 0 /\ hurt = {}
      /\ n \in DOMAIN tables /\ root # 0
      /\ img' = w /\ tables' = tables /\ told' = Put(told, n, t)
      /\ touched' = touched \cup {n} /\ unsaved' = unsaved
      /\ left' = left - 1 /\ pc' = "written" /\ cur' = [tab |-> n, pn |-> 0] /\ wild' = wild
      /\ mode' = mode /\ synced' = synced /\ dump' = dump /\ hurt' = hurt
      /\ onFile' = onFile /\ inDump' = inDump
  BY DEF WriteInPlace, Changed, Ready, Writable, Open
<1>3. /\ IsImage(img) /\ IsCatalog(tables) /\ IsTold(told) /\ FreeListOK(Store(img))
      /\ Kept(img, tables, told, hurt) /\ img.hdr.magic
      /\ img.hdr.count \in 1 .. Len(img.pages) + 1 /\ Len(img.pages) >= 1
  BY <1>1, <1>2, MappingRestorable DEF TypeInv, MapInv, StepInv
<1>4. /\ n \in DOMAIN told /\ n \in Tabs /\ root \in 1 .. img.hdr.count - 1
      /\ img.pages[root].word = LeafWord
      /\ OneMore(n) \in Tabs \X Nat /\ OneMore(n)[1] = n /\ page \in Page
      /\ Holds(img, tables[n], told[n], n)
  BY <1>2, WritableFacts
<1>5. /\ IsImage(w) /\ w.hdr = img.hdr /\ Len(w.pages) = Len(img.pages)
      /\ w.pages[root] = page
      /\ \A o \in 1 .. img.hdr.count - 1 : o # root => w.pages[o] = img.pages[o]
      /\ FreeListOK(Store(w))
  <2>1. img.pages[root].word < 0
    BY <1>4 DEF LeafWord
  <2>2. QED
    BY <1>3, <1>4, <2>1, Rewritten
<1> HIDE DEF w
<1>6. ASSUME NEW o \in DOMAIN tables \ {n}, tables[o].root # 0
      PROVE  /\ tables[o].root \in 1 .. w.hdr.count - 1
             /\ w.pages[tables[o].root] = img.pages[tables[o].root]
  <2>1. tables[o].root \in 1 .. img.hdr.count - 1
    BY <1>2, <1>3, <1>6, RootFacts
  <2>2. tables[o].root # root
    BY <1>2, <1>3, <1>6, RootsApart
  <2>3. QED
    BY <1>5, <2>1, <2>2
<1>7. t \in ToldEntry /\ t.rows = OneMore(n) /\ t.rows[1] = n
      /\ t.ncols = told[n].ncols /\ t.nullmap = told[n].nullmap
  BY <1>3, <1>4, RowToldFacts
<1> HIDE DEF t
<1>8. /\ IsTold(told') /\ DOMAIN told' = {n} \cup DOMAIN told /\ told'[n] = t
      /\ \A o \in DOMAIN told \ {n} : told'[o] = told[o]
  <2>1. IsTold(Put(told, n, t))
    BY <1>3, <1>4, <1>7, ToldPut
  <2>2. told' = Put(told, n, t)
    BY <1>2
  <2>3. QED
    BY <2>1, <2>2 DEF Put
<1>9. Holds(w, tables[n], told'[n], n)
  BY <1>4, <1>5, <1>7, <1>8 DEF Holds
<1>10. MapInv' /\ FileInv' /\ DumpInv' /\ MixInv'
  <2>1. DOMAIN tables' = {n} \cup DOMAIN tables /\ IsCatalog(tables')
    BY <1>2, <1>3
  <2>2. /\ IsImage(img') /\ img'.hdr.cat = img.hdr.cat /\ img'.hdr.ver = img.hdr.ver
        /\ img'.hdr.count \in 1 .. Len(img'.pages) + 1 /\ FreeListOK(Store(img'))
        /\ Holds(img', tables'[n], told'[n], n)
    BY <1>2, <1>3, <1>5, <1>9
  <2>3. \A o \in DOMAIN tables \ {n} :
           /\ tables'[o] = tables[o]
           /\ tables[o].root # 0 => /\ tables[o].root \in 1 .. img'.hdr.count - 1
                                    /\ img'.pages[tables[o].root] = img.pages[tables[o].root]
    BY <1>2, <1>6
  <2>4. mode = "file" => synced.hdr.count <= Len(img'.pages) + 1
    BY <1>1, <1>2, <1>5 DEF MixInv
  <2>5. unsaved \subseteq unsaved' /\ hurt' = {} /\ pc # "format" /\ pc' # "idle"
    BY <1>2
  <2>6. QED
    BY <1>2, <1>8, <2>1, <2>2, <2>3, <2>4, <2>5, TableChanged
<1>11. TypeInv'
  <2>1. left' \in 0 .. Budget
    BY <1>1, <1>2, ConstantTypes DEF TypeInv
  <2>2. /\ touched' \subseteq Tabs /\ cur' = [tab |-> cur'.tab, pn |-> cur'.pn]
        /\ unsaved' \subseteq DOMAIN told'
    BY <1>1, <1>2, <1>4, <1>8 DEF TypeInv
  <2>3. QED
    BY <1>1, <1>2, <1>5, <1>8, <2>1, <2>2 DEF TypeInv
<1>12. StepInv'
  <2>1. cur'.tab = n /\ hurt' = {}
    BY <1>2
  <2>2. QED
    BY <1>2, <1>3, <1>5, <2>1 DEF StepInv, Open
<1>13. QED
  BY <1>10, <1>11, <1>12 DEF FileDbInv

(***************************************************************************)
(* The specification.                                                      *)
(***************************************************************************)

LEMMA NextKeeps == FileDbInv /\ [Next]_vars => FileDbInv'
<1> SUFFICES ASSUME FileDbInv, [Next]_vars PROVE FileDbInv'
  OBVIOUS
<1>1. CASE OpenMem
  BY <1>1, OpenMemKeeps
<1>2. CASE OpenNew
  BY <1>2, OpenNewKeeps
<1>3. CASE Format
  BY <1>3, FormatKeeps
<1>4. CASE Formatted
  BY <1>4, FormattedKeeps
<1>5. CASE OpenOld
  BY <1>5, OpenOldKeeps
<1>6. CASE Close
  BY <1>6, CloseKeeps
<1>7. ASSUME NEW lost \in SUBSET Dirty, Crash(lost) PROVE FileDbInv'
  BY <1>7, CrashKeeps
<1>8. ASSUME NEW n \in Names, CreateTable(n) \/ CopyLeaf(n) \/ WriteInPlace(n) PROVE FileDbInv'
  BY <1>8, CreateTableKeeps, CopyLeafKeeps, WriteInPlaceKeeps
<1>9. CASE FreeOld
  BY <1>9, FreeOldKeeps
<1>10. CASE SyncTree
  BY <1>10, SyncTreeKeeps
<1>11. CASE Dump
  BY <1>11, DumpKeeps
<1>12. CASE Load
  BY <1>12, LoadKeeps
<1>13. CASE CreateDatabase
  BY <1>13, CreateDatabaseKeeps
<1>14. CASE Save
  BY <1>14, SaveKeeps
<1>15. CASE FailHalfWay \/ UNCHANGED vars
  BY <1>15, OtherStepsKeep
<1>16. CASE Sync
  BY <1>16, SyncKeeps
<1>17. QED
  BY <1>1, <1>2, <1>3, <1>4, <1>5, <1>6, <1>7, <1>8, <1>9, <1>10, <1>11, <1>12, <1>13,
     <1>14, <1>15, <1>16 DEF Next

\* The invariant holds of every state of every history.
THEOREM FileDbInvariant == Spec => []FileDbInv
<1>1. Init => FileDbInv
  BY InitInv
<1>2. FileDbInv /\ [Next]_vars => FileDbInv'
  BY NextKeeps
<1>3. QED
  BY <1>1, <1>2, PTL DEF Spec

\* page_count, the head of the free list, the roots of the tables and the length
\* of the mapping stay within the limit of the file, in the mapping, in the file
\* and in the dump.
THEOREM FileDbTypes == Spec => []TypeOK
<1>1. FileDbInv => TypeOK
  <2> SUFFICES ASSUME FileDbInv PROVE TypeOK
    OBVIOUS
  <2>1. TypeInv /\ StepInv
    BY DEF FileDbInv
  <2>2. ASSUME NEW im, IsImage(im)
        PROVE  /\ im.hdr.count <= MaxPages /\ Len(im.pages) < MaxPages
               /\ im.hdr.head \in 0 .. MaxPages - 1 /\ im.hdr.ver \in 0 .. Version
    BY <2>2, ImageTypes, ConstantTypes
  <2>3. ASSUME NEW im \in {img, synced} \cup Range(dump) PROVE IsImage(im)
    <3>1. CASE im \in {img, synced}
      BY <3>1, <2>1 DEF TypeInv
    <3>2. CASE im \in Range(dump)
      <4>1. PICK i \in DOMAIN dump : im = dump[i]
        BY <3>2 DEF Range
      <4>2. dump = <<dump[1]>> /\ IsImage(dump[1])
        BY <4>1, <2>1, EmptyTables DEF TypeInv
      <4>3. DOMAIN dump = {1}
        BY <4>2
      <4>4. QED
        BY <4>1, <4>2, <4>3
    <3>3. QED
      BY <3>1, <3>2
  <2>4. \A n \in DOMAIN tables : tables[n].root \in 0 .. MaxPages - 1
    BY <2>1, CatalogEntry DEF TypeInv
  <2>5. mode = "closed" => pc = "idle"
    BY <2>1 DEF StepInv, Open
  <2>6. /\ mode \in {"closed", "file", "mem", "detached"}
        /\ pc \in {"idle", "format", "leaf", "written", "done", "saved"}
        /\ left \in 0 .. Budget
    BY <2>1 DEF TypeInv
  <2>7. QED
    BY <2>2, <2>3, <2>4, <2>5, <2>6 DEF TypeOK
<1>2. QED
  BY <1>1, FileDbInvariant, PTL

(***************************************************************************)
(* Without a mishap no table is hurt.                                      *)
(***************************************************************************)

\* Until the first crash, statement that failed half way and detached mapping
\* that was dropped, a table is only unsaved while its statement runs, and the
\* file may hold such a table only then.
HarmInv ==
    mishaps = {} => /\ hurt = {} /\ inDump.hurt = {}
                    /\ pc \in {"idle", "format", "saved"} => unsaved = {}
                    /\ mode # "file" \/ pc = "idle" => onFile.hurt = {}

LEMMA HarmKept == FileDbInv /\ HarmInv /\ [Next]_vars => HarmInv'
<1> SUFFICES ASSUME FileDbInv, HarmInv, [Next]_vars, mishaps' = {} PROVE HarmInv'
  BY DEF HarmInv
<1>1. mode = "closed" => pc = "idle"
  BY DEF FileDbInv, StepInv, Open
<1>2. CASE OpenMem \/ OpenNew \/ OpenOld
  BY <1>1, <1>2 DEF OpenMem, OpenNew, OpenOld, Fresh, HarmInv
<1>3. CASE Format \/ Formatted
  BY <1>3 DEF Format, Formatted, ghost, HarmInv, Nothing
<1>4. CASE Close
  BY <1>4 DEF Close, LeaveMapping, WriteFile, Fresh, HarmInv
<1>5. ASSUME NEW lost \in SUBSET Dirty, Crash(lost) PROVE FALSE
  BY <1>5 DEF Crash, LeaveMapping
<1>6. ASSUME NEW n \in Names, CreateTable(n) \/ CopyLeaf(n) \/ WriteInPlace(n) PROVE HarmInv'
  BY <1>6 DEF CreateTable, CopyLeaf, WriteInPlace, Changed, Ready, HarmInv
<1>7. CASE FreeOld
  BY <1>7 DEF FreeOld, Changed, HarmInv
<1>8. CASE SyncTree \/ Sync
  BY <1>8 DEF SyncTree, Sync, PagerSync, WriteFile, HarmInv
<1>9. CASE Dump
  BY <1>9 DEF Dump, Ready, HarmInv
<1>10. CASE Load
  BY <1>10 DEF Load, Ready, HarmInv
<1>11. CASE CreateDatabase
  BY <1>11 DEF CreateDatabase, Ready, LeaveMapping, WriteFile, Fresh, HarmInv
<1>12. CASE Save
  BY <1>12 DEF Save, HarmInv
<1>13. CASE FailHalfWay
  BY <1>13 DEF FailHalfWay
<1>14. CASE UNCHANGED vars
  BY <1>14 DEF vars, conf, ghost, HarmInv
<1>15. QED
  BY <1>2, <1>3, <1>4, <1>5, <1>6, <1>7, <1>8, <1>9, <1>10, <1>11, <1>12, <1>13, <1>14 DEF Next

\* Between statements every table that is not hurt is what SQL said of it (but
\* for the columns of one of MaxCols), and there is no other; and none is hurt
\* in a history without a crash, a statement that failed half way and a detached
\* mapping that was dropped, whatever was dumped, loaded, closed and opened.
THEOREM TablesStayAsTold == Spec => []TablesAsTold
<1>1. Init => HarmInv
  BY DEF Init, HarmInv, Nothing
<1>2. FileDbInv /\ HarmInv => TablesAsTold
  <2>1. FileDbInv /\ Quiet => \A n \in (DOMAIN told \cup DOMAIN tables) \ hurt : AsTold(n)
    BY DEF FileDbInv, MapInv, AllTold, SameCols, AsTold, Quiet, Open
  <2>2. HarmInv => (mishaps = {} => hurt = {})
    BY DEF HarmInv
  <2>3. QED
    BY <2>1, <2>2 DEF TablesAsTold
<1>3. FileDbInv /\ HarmInv /\ [Next]_vars => HarmInv'
  BY HarmKept
<1>4. QED
  BY <1>1, <1>2, <1>3, FileDbInvariant, PTL DEF Spec

\* Between statements, unless a table is hurt, the walk of the free list
\* ends, and the leaf of a table is on it for no table and in no other table.
THEOREM NoPageIsTwice == Spec => []NoPageTwice
<1>1. FileDbInv => NoPageTwice
  <2> SUFFICES ASSUME FileDbInv, Quiet, hurt = {}
               PROVE  /\ FreeListEnds(Store(img))
                      /\ \A n \in DOMAIN tables : tables[n].root # 0 =>
                            /\ tables[n].root \in 1 .. img.hdr.count - 1
                            /\ \A i \in 1 .. MaxPages : FreeWalk(Store(img))[i] # tables[n].root
                            /\ \A o \in DOMAIN tables \ {n} : tables[o].root # tables[n].root
    BY DEF NoPageTwice
  <2> DEFINE st == Store(img)
  <2>1. /\ IsImage(img) /\ IsTold(told) /\ Kept(img, tables, told, hurt)
        /\ img.hdr.count \in 1 .. Len(img.pages) + 1 /\ FreeListOK(st)
    BY MappingRestorable DEF FileDbInv, TypeInv, MapInv, Quiet, Open
  <2>2. /\ st \in Stores /\ Len(st.pages) = img.hdr.count - 1
        /\ PageNos(st) = 1 .. img.hdr.count - 1
        /\ \A pn \in 1 .. img.hdr.count - 1 : st.pages[pn] = img.pages[pn]
    BY <2>1, StoreFacts
  <2>3. Len(st.pages) < MaxPages /\ MaxPages \in 1 .. MaxPages /\ img.hdr.count \in Nat
    BY <2>1, <2>2, ImageTypes, ConstantTypes
  <2> HIDE DEF st
  <2>4. PICK s \in Seq(PageNos(st)) : IsFreeList(st, s)
    BY <2>1 DEF FreeListOK
  <2>5. /\ Len(s) \in Nat /\ Len(s) < MaxPages
        /\ \A i \in 1 .. MaxPages :
              FreeWalk(st)[i] = IF i <= Len(s) THEN s[Len(s) - i + 1] ELSE 0
    BY <2>2, <2>3, <2>4, StoresOfPages, WalkFacts
  <2>6. FreeWalk(st)[MaxPages] = 0
    BY <2>3, <2>5
  <2>7. ASSUME NEW n \in DOMAIN tables, tables[n].root # 0
        PROVE  /\ tables[n].root \in 1 .. img.hdr.count - 1
               /\ \A i \in 1 .. MaxPages : FreeWalk(st)[i] # tables[n].root
               /\ \A o \in DOMAIN tables \ {n} : tables[o].root # tables[n].root
    <3>1. /\ tables[n].root \in 1 .. img.hdr.count - 1
          /\ img.pages[tables[n].root].word = LeafWord
      BY <2>1, <2>7, RootFacts
    <3>2. ASSUME NEW i \in 1 .. MaxPages, FreeWalk(st)[i] = tables[n].root PROVE FALSE
      <4>1. i <= Len(s) /\ tables[n].root = s[Len(s) - i + 1]
        BY <2>5, <2>7, <3>2
      <4>2. Len(s) - i + 1 \in 1 .. Len(s)
        BY <4>1, <2>5
      <4>3. \A a \in 1 .. Len(s) : st.pages[s[a]].word >= 0
        BY <2>2, <2>4, FreeListWords
      <4>4. st.pages[tables[n].root].word = LeafWord
        BY <3>1, <2>2
      <4>5. QED
        BY <4>1, <4>2, <4>3, <4>4 DEF LeafWord
    <3>3. \A o \in DOMAIN tables \ {n} : tables[o].root # tables[n].root
      BY <2>1, <2>7, RootsApart
    <3>4. QED
      BY <3>1, <3>2, <3>3
  <2>8. QED
    BY <2>6, <2>7 DEF st, FreeListEnds
<1>2. QED
  BY <1>1, FileDbInvariant, PTL

=============================================================================
