----------------------------- MODULE TxnProofs -----------------------------
(***************************************************************************)
(* Txn for every file size, set of handles, keys and values, and node      *)
(* capacity, in histories of at most one split and without an abort of a   *)
(* writer that changed the tree.                                           *)
(***************************************************************************)
EXTENDS Txn, BTreeLemmas

----------------------------------------------------------------------------
(* The file never gets shorter, whatever a call returns.                   *)

\* A store of n pages or more.
File(st, n) ==
    /\ st = [head |-> st.head, pages |-> st.pages]
    /\ Len(st.pages) \in Nat /\ n <= Len(st.pages)
    /\ st.pages = [i \in 1 .. Len(st.pages) |-> st.pages[i]]

LEMMA FileSet ==
  ASSUME NEW n \in Nat, NEW st, File(st, n), NEW pn, NEW page
  PROVE  File(SetPage(st, pn, page), n)
<1> DEFINE len == Len(st.pages)
           pages == [st.pages EXCEPT ![pn] = page]
<1>1. st = [head |-> st.head, pages |-> st.pages] /\ len \in Nat /\ n <= len
      /\ st.pages = [i \in 1 .. len |-> st.pages[i]]
  BY DEF File
<1>2. SetPage(st, pn, page) = [head |-> st.head, pages |-> pages]
  BY <1>1 DEF SetPage
<1> HIDE DEF len
<1>3. pages = [i \in 1 .. len |-> pages[i]]
  BY <1>1
<1> HIDE DEF pages
<1>4. Len(pages) = len
  BY <1>1, <1>3
<1>5. QED
  BY <1>1, <1>2, <1>3, <1>4 DEF File

LEMMA FileFree ==
  ASSUME NEW n \in Nat, NEW st, File(st, n), NEW pn
  PROVE  File(PagerFree(st, pn), n)
<1> DEFINE len == Len(st.pages)
           pages == [st.pages EXCEPT ![pn].word = st.head]
<1>1. st = [head |-> st.head, pages |-> st.pages] /\ len \in Nat /\ n <= len
      /\ st.pages = [i \in 1 .. len |-> st.pages[i]]
  BY DEF File
<1> HIDE DEF len
<1>2. pages = [i \in 1 .. len |-> pages[i]]
  BY <1>1
<1>3. PagerFree(st, pn) = IF pn = 0 THEN st ELSE [head |-> pn, pages |-> pages]
  BY DEF PagerFree
<1> HIDE DEF pages
<1>4. Len(pages) = len
  BY <1>1, <1>2
<1>5. File([head |-> pn, pages |-> pages], n)
  BY <1>1, <1>2, <1>4 DEF File
<1>6. QED
  BY <1>3, <1>5

LEMMA FileAlloc ==
  ASSUME NEW n \in Nat, NEW st, File(st, n)
  PROVE  File(PagerAlloc(st).st, n)
<1> DEFINE len == Len(st.pages)
           head == st.pages[st.head].word
           popped == [st.pages EXCEPT ![st.head] = ZeroPage]
           longer == Append(st.pages, ZeroPage)
<1>1. st = [head |-> st.head, pages |-> st.pages] /\ len \in Nat /\ n <= len
      /\ st.pages = [i \in 1 .. len |-> st.pages[i]]
  BY DEF File
<1>2. PagerAlloc(st).st \in {st, [head |-> head, pages |-> popped], [head |-> st.head, pages |-> longer]}
  <2> HIDE DEF longer
  <2>1. [st EXCEPT !.pages = longer] = [head |-> st.head, pages |-> longer]
    <3> DEFINE h == st.head
               p == st.pages
    <3>1. st = [head |-> h, pages |-> p]
      BY <1>1
    <3> HIDE DEF p
    <3> HIDE DEF h
    <3>2. [st EXCEPT !.pages = longer] = [head |-> h, pages |-> longer]
      BY <3>1
    <3>3. QED
      BY <3>2 DEF h
  <2>2. Grown(st).st = [head |-> st.head, pages |-> longer]
    BY <2>1 DEF Grown, longer
  <2>3. Popped(st).st = [head |-> head, pages |-> popped] /\ NoPage(st).st = st
    BY DEF Popped, NoPage
  <2>4. QED
    BY <2>2, <2>3 DEF PagerAlloc
<1>3. popped = [i \in 1 .. len |-> popped[i]] /\ Len(popped) = len
  <2> HIDE DEF len
  <2>1. popped = [i \in 1 .. len |-> popped[i]]
    BY <1>1
  <2> HIDE DEF popped
  <2>2. QED
    BY <1>1, <2>1
<1>4. longer = [i \in 1 .. len + 1 |-> longer[i]] /\ Len(longer) = len + 1
  <2> DEFINE P == {st.pages[i] : i \in 1 .. len} \cup {ZeroPage}
  <2>1. st.pages \in Seq(P)
    <3> HIDE DEF len
    <3>1. [i \in 1 .. len |-> st.pages[i]] \in Seq(P)
      BY <1>1
    <3>2. QED
      BY <1>1, <3>1
  <2> HIDE DEF P
  <2>2. ZeroPage \in P
    BY DEF P
  <2>3. longer \in Seq(P) /\ Len(longer) = len + 1
    BY <2>1, <2>2, AppendProperties
  <2> HIDE DEF longer, len
  <2>4. QED
    BY <2>3
<1> HIDE DEF head, popped, longer, len
<1>5. File([head |-> head, pages |-> popped], n)
  BY <1>1, <1>3 DEF File
<1>6. n <= len + 1 /\ len + 1 \in Nat
  BY <1>1
<1>7. File([head |-> st.head, pages |-> longer], n)
  BY <1>4, <1>6 DEF File
<1>8. QED
  BY <1>2, <1>5, <1>7

LEMMA FileCopy ==
  ASSUME NEW n \in Nat, NEW st, File(st, n), NEW src
  PROVE  File(AllocCopy(st, src).st, n)
<1> DEFINE a == PagerAlloc(st)
           s == SetPage(a.st, a.pn, st.pages[src])
<1>1. File(a.st, n)
  BY FileAlloc
<1> HIDE DEF a
<1>2. File(s, n)
  BY <1>1, FileSet
<1> HIDE DEF s
<1>3. AllocCopy(st, src) = IF a.pn = 0 THEN a ELSE [pn |-> a.pn, st |-> s]
  BY DEF AllocCopy, a, s
<1>4. QED
  BY <1>1, <1>2, <1>3

LEMMA FileSwap ==
  ASSUME NEW n \in Nat, NEW st, File(st, n), NEW path, NEW new
  PROVE  File(SwapLeaf(st, path, new).st, n)
<1> DEFINE old    == Last(path)
           parent == path[Len(path) - 1]
           c      == AllocCopy(st, parent)
           s      == SetPage(c.st, c.pn, Retarget(c.st.pages[c.pn], old, new))
           one    == PagerFree(st, old)
           two    == PagerFree(s, old)
           three  == PagerFree(two, parent)
<1>1. SwapLeaf(st, path, new) = IF Len(path) = 1 THEN [pn |-> new, st |-> one]
                                ELSE IF c.pn = 0 THEN c ELSE [pn |-> c.pn, st |-> three]
  BY DEF SwapLeaf
<1>2. File(c.st, n) /\ File(one, n)
  BY FileCopy, FileFree
<1> HIDE DEF c, one
<1>3. File(s, n)
  BY <1>2, FileSet
<1> HIDE DEF s
<1>4. File(two, n)
  BY <1>3, FileFree
<1> HIDE DEF two
<1>5. File(three, n)
  BY <1>4, FileFree
<1> HIDE DEF three
<1>6. QED
  BY <1>1, <1>2, <1>5

LEMMA FileCreate ==
  ASSUME NEW n \in Nat, NEW st, File(st, n)
  PROVE  File(Create(st).st, n)
<1> DEFINE a == PagerAlloc(st)
           s == SetPage(a.st, a.pn, Leaf(0, <<>>))
<1>1. Create(st) = IF a.pn = 0 THEN Result(st, 0, -1) ELSE Result(s, a.pn, 0)
  BY DEF Create
<1>2. File(a.st, n)
  BY FileAlloc
<1> HIDE DEF a
<1>3. File(s, n)
  BY <1>2, FileSet
<1> HIDE DEF s
<1>4. QED
  BY <1>1, <1>3 DEF Result

LEMMA FileReplace ==
  ASSUME NEW n \in Nat, NEW st, File(st, n), NEW r, NEW path, NEW e
  PROVE  File(ReplaceInPlace(st, r, path, e).st, n) /\ File(ReplaceRebuild(st, r, path, e).st, n)
<1>1. File(ReplaceInPlace(st, r, path, e).st, n)
  <2> DEFINE leaf == st.pages[Last(path)]
             page == [leaf EXCEPT !.rest.ents[SlotOf(Ents(leaf), e.k)] = e]
             s    == SetPage(st, Last(path), page)
  <2>1. ReplaceInPlace(st, r, path, e) = Result(s, r, 0)
    BY DEF ReplaceInPlace
  <2> HIDE DEF page
  <2>2. File(s, n)
    BY FileSet
  <2> HIDE DEF s
  <2>3. QED
    BY <2>1, <2>2 DEF Result
<1>2. File(ReplaceRebuild(st, r, path, e).st, n)
  <2> DEFINE pos  == SlotOf(Ents(st.pages[Last(path)]), e.k)
             a    == PagerAlloc(st)
             leaf == a.st.pages[Last(path)]
             page == Leaf(leaf.rest.next, Rebuild([Ents(leaf) EXCEPT ![pos] = e]))
             s    == SetPage(a.st, a.pn, page)
             up   == SwapLeaf(s, path, a.pn)
  <2>1. ReplaceRebuild(st, r, path, e) = IF a.pn = 0 THEN Result(st, r, -1)
                                         ELSE IF up.pn = 0 THEN Result(up.st, r, -1)
                                         ELSE Result(up.st, up.pn, 0)
    BY DEF ReplaceRebuild
  <2> HIDE DEF page
  <2>2. File(a.st, n)
    BY FileAlloc
  <2> HIDE DEF a
  <2>3. File(s, n)
    BY <2>2, FileSet
  <2> HIDE DEF s
  <2>4. File(up.st, n)
    BY <2>3, FileSwap
  <2> HIDE DEF up
  <2>5. QED
    BY <2>1, <2>4 DEF Result
<1>3. QED
  BY <1>1, <1>2

LEMMA FileFits ==
  ASSUME NEW n \in Nat, NEW st, File(st, n), NEW r, NEW path, NEW e
  PROVE  File(InsertFits(st, r, path, e).st, n)
<1> DEFINE a    == AllocCopy(st, Last(path))
           page == [a.st.pages[a.pn] EXCEPT !.rest.ents = InsertAt(@, SlotOf(@, e.k), e)]
           s    == SetPage(a.st, a.pn, page)
           up   == SwapLeaf(s, path, a.pn)
           back == PagerFree(up.st, a.pn)
<1>1. InsertFits(st, r, path, e) = IF a.pn = 0 THEN Result(st, r, -1)
                                   ELSE IF up.pn = 0 THEN Result(back, r, -1)
                                   ELSE Result(up.st, up.pn, 0)
  BY DEF InsertFits
<1> HIDE DEF page
<1>2. File(a.st, n)
  BY FileCopy
<1> HIDE DEF a
<1>3. File(s, n)
  BY <1>2, FileSet
<1> HIDE DEF s
<1>4. File(up.st, n)
  BY <1>3, FileSwap
<1> HIDE DEF up
<1>5. File(back, n)
  BY <1>4, FileFree
<1> HIDE DEF back
<1>6. QED
  BY <1>1, <1>4, <1>5 DEF Result

LEMMA FileSplitBelow ==
  ASSUME NEW n \in Nat, NEW st, File(st, n), NEW path, NEW left, NEW right, NEW key
  PROVE  File(SplitBelow(st, path, left, right, key).st, n)
<1> DEFINE leafPn == Last(path)
           parent == path[Len(path) - 1]
           c      == AllocCopy(st, parent)
           ents   == Retarget(c.st.pages[c.pn], leafPn, left).rest.ents
           at     == {i \in DOMAIN ents : left \in {ents[i].l, ents[i].r}}
           pos    == IF at = {} THEN Len(ents) + 1
                     ELSE 1 + CHOOSE i \in at : \A j \in at : j <= i
           page   == Branch(InsertAt(ents, pos, [k |-> key, l |-> left, r |-> right]))
           s      == SetPage(c.st, c.pn, page)
           d      == PagerAlloc(c.st)
           m      == PagerAlloc(d.st)
           u      == SetPage(m.st, d.pn, Branch(<<>>))
           t      == SetPage(u, m.pn, Branch(<<>>))
           s1     == PagerFree(s, leafPn)
           s2     == PagerFree(s1, parent)
           t1     == PagerFree(t, parent)
           t2     == PagerFree(t1, leafPn)
<1>1. SplitBelow(st, path, left, right, key) =
        IF Len(ents) < BranchCap THEN Result(s2, c.pn, 0)
        ELSE IF m.pn = 0 THEN Result(st, 0, Fault)
        ELSE Result(t2, m.pn, 0)
  BY DEF SplitBelow
<1> HIDE DEF page, ents
<1>2. File(c.st, n)
  BY FileCopy
<1> HIDE DEF c
<1>3. File(d.st, n)
  BY <1>2, FileAlloc
<1> HIDE DEF d
<1>4. File(m.st, n)
  BY <1>3, FileAlloc
<1> HIDE DEF m
<1>5. File(s, n) /\ File(u, n)
  BY <1>2, <1>4, FileSet
<1> HIDE DEF s, u
<1>6. File(t, n)
  BY <1>5, FileSet
<1> HIDE DEF t
<1>7. File(s1, n) /\ File(t1, n)
  BY <1>5, <1>6, FileFree
<1> HIDE DEF s1, t1
<1>8. File(s2, n) /\ File(t2, n)
  BY <1>7, FileFree
<1> HIDE DEF s2, t2
<1>9. QED
  BY <1>1, <1>8 DEF Result

LEMMA FileSplit ==
  ASSUME NEW n \in Nat, NEW st, File(st, n), NEW r, NEW path, NEW e
  PROVE  File(InsertSplit(st, r, path, e).st, n)
<1> DEFINE leafPn == Last(path)
           pos    == SlotOf(Ents(st.pages[leafPn]), e.k)
           a      == PagerAlloc(st)
           half   == Halves(InsertAt(Ents(a.st.pages[leafPn]), pos, e))
           b      == AllocCopy(a.st, leafPn)
           low    == Leaf(a.pn, Rebuild(half.left))
           high   == Leaf(b.st.pages[leafPn].rest.next, Rebuild(half.right))
           s1     == SetPage(b.st, b.pn, low)
           s      == SetPage(s1, a.pn, high)
           freed  == PagerFree(s, leafPn)
           top    == SplitRoot(freed, b.pn, a.pn, half.key)
           below  == SplitBelow(freed, path, b.pn, a.pn, half.key)
<1>1. InsertSplit(st, r, path, e) = IF a.pn = 0 THEN Result(st, r, -1)
                                    ELSE IF b.pn = 0 THEN Result(st, r, Fault)
                                    ELSE IF Len(path) = 1 THEN top ELSE below
  BY DEF InsertSplit
<1> HIDE DEF half, low, high
<1>2. File(a.st, n)
  BY FileAlloc
<1> HIDE DEF a
<1>3. File(b.st, n)
  BY <1>2, FileCopy
<1> HIDE DEF b
<1>4. File(s1, n)
  BY <1>3, FileSet
<1> HIDE DEF s1
<1>5. File(s, n)
  BY <1>4, FileSet
<1> HIDE DEF s
<1>6. File(freed, n)
  BY <1>5, FileFree
<1> HIDE DEF freed
<1>7. File(top.st, n)
  <2> DEFINE p == PagerAlloc(freed)
             page == Branch(<<[k |-> half.key, l |-> b.pn, r |-> a.pn]>>)
             up == SetPage(p.st, p.pn, page)
  <2>1. top = Result(up, p.pn, 0)
    BY DEF SplitRoot
  <2> HIDE DEF page
  <2>2. File(p.st, n)
    BY <1>6, FileAlloc
  <2> HIDE DEF p
  <2>3. File(up, n)
    BY <2>2, FileSet
  <2> HIDE DEF up, top
  <2>4. QED
    BY <2>1, <2>3 DEF Result
<1>8. File(below.st, n)
  BY <1>6, FileSplitBelow
<1> HIDE DEF top, below
<1>9. QED
  BY <1>1, <1>7, <1>8 DEF Result

LEMMA FileInsert ==
  ASSUME NEW n \in Nat, NEW st, File(st, n), NEW r, NEW k, NEW v
  PROVE  File(Insert(st, r, k, v).st, n)
<1> DEFINE new   == Create(st)
           s     == IF r = 0 THEN new.st ELSE st
           top   == IF r = 0 THEN new.root ELSE r
           path  == Path(s, top, k)
           e     == [k |-> k, v |-> v]
<1>1. File(s, n)
  BY FileCreate
<1>2. Insert(st, r, k, v) \in {Result(s, top, Fault), Result(s, top, -1),
                              ReplaceInPlace(s, top, path, e), ReplaceRebuild(s, top, path, e),
                              InsertFits(s, top, path, e), InsertSplit(s, top, path, e)}
  <2> DEFINE leaf == s.pages[Last(path)]
  <2>1. Insert(st, r, k, v) =
          CASE Last(path) \notin PageNos(s) -> Result(s, top, Fault)
            [] Last(path) \in PageNos(s) /\ ~IsLeaf(leaf) -> Result(s, top, -1)
            [] OTHER ->
                 IF Holds(Ents(leaf), k)
                 THEN IF Size[Ents(leaf)[SlotOf(Ents(leaf), k)].v] = Size[v]
                      THEN ReplaceInPlace(s, top, path, e)
                      ELSE ReplaceRebuild(s, top, path, e)
                 ELSE IF HasRoom(leaf, e) THEN InsertFits(s, top, path, e)
                      ELSE InsertSplit(s, top, path, e)
    BY DEF Insert
  <2> HIDE DEF leaf, path, top, s, e
  <2>2. QED
    BY <2>1
<1> HIDE DEF s, top, path, e
<1>3. /\ File(ReplaceInPlace(s, top, path, e).st, n) /\ File(ReplaceRebuild(s, top, path, e).st, n)
      /\ File(InsertFits(s, top, path, e).st, n) /\ File(InsertSplit(s, top, path, e).st, n)
  BY <1>1, FileReplace, FileFits, FileSplit
<1>4. File(Result(s, top, Fault).st, n) /\ File(Result(s, top, -1).st, n)
  BY <1>1 DEF Result
<1>5. QED
  BY <1>2, <1>3, <1>4

LEMMA FileDelete ==
  ASSUME NEW n \in Nat, NEW st, File(st, n), NEW r, NEW k, Len(Path(st, r, k)) \in {1, 2}
  PROVE  File(Delete(st, r, k).st, n)
<1> DEFINE path == Path(st, r, k)
           at   == Last(path)
           a    == PagerAlloc(st)
           leaf == a.st.pages[at]
           page == Leaf(leaf.rest.next, RemoveAt(Ents(leaf), SlotOf(Ents(leaf), k)))
           s    == SetPage(a.st, a.pn, page)
           up   == CopyParents(s, path, a.pn)
<1>1. Delete(st, r, k) \in {Result(st, r, -1), Result(up.st, r, -1), Result(up.st, up.pn, 0)}
  <2>1. Delete(st, r, k) = IF \/ at \notin PageNos(st)
                              \/ ~IsLeaf(st.pages[at])
                              \/ ~Holds(Ents(st.pages[at]), k)
                              \/ a.pn = 0
                           THEN Result(st, r, -1)
                           ELSE IF up.pn = 0 THEN Result(up.st, r, -1)
                           ELSE Result(up.st, up.pn, 0)
    BY DEF Delete
  <2> HIDE DEF at, a, up
  <2>2. QED
    BY <2>1
<1> HIDE DEF page
<1>2. File(a.st, n)
  BY FileAlloc
<1> HIDE DEF a
<1>3. File(s, n)
  BY <1>2, FileSet
<1> HIDE DEF s
<1>4. File(up.st, n)
  <2> DEFINE bottom == LeafFreed(s, path, a.pn)
             c == AllocCopy(bottom.st, path[1])
             copy == Retarget(c.st.pages[c.pn], bottom.old, bottom.pn)
             t == SetPage(c.st, c.pn, copy)
             t1 == PagerFree(t, path[1])
             above == ParentCopied(path, bottom)
  <2>1. up = IF Len(path) = 1 THEN bottom ELSE above
    BY ParentsWalk
  <2>2. File(bottom.st, n)
    BY <1>3, FileFree DEF LeafFreed
  <2>3. bottom = [st |-> bottom.st, old |-> bottom.old, pn |-> bottom.pn]
    BY DEF LeafFreed
  <2>4. above = IF bottom.pn = 0 \/ c.pn = 0 THEN [bottom EXCEPT !.pn = 0]
                ELSE [st |-> t1, old |-> path[1], pn |-> c.pn]
    <3> HIDE DEF bottom
    <3>1. QED
      BY DEF ParentCopied
  <2> HIDE DEF bottom, copy, above, up
  <2>5. [bottom EXCEPT !.pn = 0].st = bottom.st
    BY <2>3
  <2>6. File(c.st, n)
    BY <2>2, FileCopy
  <2> HIDE DEF c
  <2>7. File(t, n)
    BY <2>6, FileSet
  <2> HIDE DEF t
  <2>8. File(t1, n)
    BY <2>7, FileFree
  <2> HIDE DEF t1
  <2>9. File(above.st, n)
    BY <2>2, <2>4, <2>5, <2>8
  <2>10. QED
    BY <2>1, <2>2, <2>9
<1> HIDE DEF up
<1>5. QED
  BY <1>1, <1>4 DEF Result

----------------------------------------------------------------------------
(* The invariant: the tree of the writer, the one the header leads to while *)
(* nothing is uncommitted, and those of the readers that no write has       *)
(* overtaken, each with the map it stands for.                              *)

TreeAs(st, r, m) == SmallTree(st, r) /\ Ordered(st, r) /\ Contents(st, r) = m

OneWriter == \A t, u \in Writers : t = u
WriterTree == \A t \in Writers : /\ TreeAs(store, txn[t].root, seen[t])
                                 /\ splits = 0 => Whole(store, txn[t].root)
CommittedTree == wrote = {} => /\ TreeAs(store, hdrRoot, committed)
                               /\ splits = 0 => Whole(store, hdrRoot)
\* A writer that changed nothing has the committed tree, or one made for it.
UnchangedRoot == \A t \in Writers \ wrote : hdrRoot \in {0, txn[t].root}
ReaderTree == \A t \in Readers \ overtaken : TreeAs(store, txn[t].root, seen[t])

TxnInv == /\ TypeOK /\ Good(store)
          /\ OneWriter /\ WriterTree /\ CommittedTree /\ UnchangedRoot /\ ReaderTree

Maps == [Keys -> Values \cup {None}]
Handles(st) == [active : BOOLEAN, isWrite : BOOLEAN, root : 0 .. Len(st.pages)]

\* The types that a good store gives.
LEMMA GoodTypes ==
  ASSUME NEW st, Good(st)
  PROVE  /\ Len(st.pages) \in Nat /\ Len(st.pages) < MaxPages /\ st.head \in 0 .. Len(st.pages)
         /\ File(st, Len(st.pages))
         /\ \A r : SmallTree(st, r) => r \in 0 .. Len(st.pages)
<1>1. st \in StoresOf(NodePage) /\ Len(st.pages) < MaxPages /\ FreePages(st, Unused(st))
  BY DEF Good, Listed
<1>2. /\ st.pages \in Seq(NodePage) /\ Len(st.pages) \in Nat /\ PageNos(st) = 1 .. Len(st.pages)
      /\ DOMAIN st.pages = 1 .. Len(st.pages)
      /\ st.head \in Nat /\ st = [head |-> st.head, pages |-> st.pages]
  BY <1>1, StoreTypes
<1>3. st.head # 0 => st.head \in PageNos(st)
  BY <1>1, FreePagesFacts
<1>4. st.pages = [i \in 1 .. Len(st.pages) |-> st.pages[i]]
  BY <1>2
<1>5. File(st, Len(st.pages))
  BY <1>2, <1>4 DEF File
<1>6. \A r : SmallTree(st, r) => r \in 0 .. Len(st.pages)
  BY <1>2 DEF SmallTree, LeafAt, ForkAt
<1>7. QED
  BY <1>1, <1>2, <1>3, <1>5, <1>6

\* Handles stay handles in a longer file.
LEMMA LongerHandles ==
  ASSUME NEW st, NEW st2, Len(st.pages) \in Nat, Len(st2.pages) \in Nat,
         Len(st.pages) <= Len(st2.pages), NEW f \in [Txns -> Handles(st)]
  PROVE  f \in [Txns -> Handles(st2)] /\ 0 .. Len(st.pages) \subseteq 0 .. Len(st2.pages)
<1>1. 0 .. Len(st.pages) \subseteq 0 .. Len(st2.pages)
  OBVIOUS
<1>2. Handles(st) \subseteq Handles(st2)
  BY <1>1 DEF Handles
<1>3. QED
  BY <1>1, <1>2

\* A tree that a call leaves alone stands for the same map.
LEMMA SameAs ==
  ASSUME NEW st, Good(st), NEW r, NEW m, TreeAs(st, r, m), NEW st2, NEW r2, Same(st, r, st2, r2)
  PROVE  Good(st2) /\ TreeAs(st2, r2, m) /\ (Whole(st, r) => Whole(st2, r2))
<1>1. SmallTree(st, r) /\ Ordered(st, r) /\ Contents(st, r) = m
  BY DEF TreeAs
<1>2. Good(st2) /\ SmallTree(st2, r2) /\ (Whole(st, r) => Whole(st2, r2))
  BY <1>1, SameSound DEF Sound
<1>3. Ordered(st2, r2) /\ SameEnts(st, r, st2, r2)
  BY <1>1, SameOrdered
<1>4. Contents(st2, r2) = Contents(st, r)
  BY <1>1, <1>2, <1>3, MapSame
<1>5. QED
  BY <1>1, <1>2, <1>3, <1>4 DEF TreeAs

\* What leaves one tree alone leaves every tree alone.
LEMMA SameAll ==
  ASSUME NEW st, Good(st), NEW r, NEW st2, NEW r2, Same(st, r, st2, r2)
  PROVE  \A q : Same(st, q, st2, q)
<1>1. Kept(st, st2)
  BY DEF Same, Kept
<1>2. QED
  BY <1>1 DEF Same

\* What a call that succeeds makes of the writer's tree.
LEMMA InsertAs ==
  ASSUME HalvesFit, NEW st, Good(st), NEW r, NEW m, TreeAs(st, r, m), NEW k \in Keys, NEW v \in Values,
         MustSplit(st, r, k, v) => LeafAt(st, r), ~Overfills(st, r, k, v)
  PROVE  LET res == Insert(st, r, k, v)
         IN  \/ /\ res.rc = 0 /\ Good(res.st) /\ TreeAs(res.st, res.root, [m EXCEPT ![k] = v])
                /\ ~MustSplit(st, r, k, v) /\ Whole(st, r) => Whole(res.st, res.root)
                /\ Rewritten(st, r, Path(st, r, k), res.st, res.root)
             \/ res.rc = -1 /\ Same(st, r, res.st, res.root)
             \/ res.rc = Fault
<1> DEFINE res == Insert(st, r, k, v)
           e == [k |-> k, v |-> v]
<1>1. SmallTree(st, r) /\ Ordered(st, r) /\ Contents(st, r) = m /\ e.k = k /\ e.v = v
  BY DEF TreeAs
<1>2. Inserted(st, r, e, res)
  BY <1>1, InsertCall
<1>3. CASE res.rc = 0
  <2>1. /\ Rewritten(st, r, Path(st, r, k), res.st, res.root)
        /\ ~MustSplit(st, r, k, v) /\ Whole(st, r) => Whole(res.st, res.root)
    <3> HIDE DEF res, e
    <3>1. QED
      BY <1>1, <1>2, <1>3 DEF Inserted, Edited, Whole, Fault
  <2>2. Ordered(res.st, res.root)
    <3>1. res.rc # Fault
      BY <1>3 DEF Fault
    <3> HIDE DEF res
    <3>2. QED
      BY <1>1, <1>2, <3>1, InsertOrdered
  <2>3. PutUnder(st, r, res.st, res.root, k, {e})
    <3> HIDE DEF res
    <3>1. QED
      BY <1>1, <1>2, <1>3, InsertUnder
  <2> HIDE DEF res
  <2>4. Good(res.st) /\ SmallTree(res.st, res.root)
    BY <2>1 DEF Rewritten
  <2> DEFINE put == {e}
  <2>5. Got(put) = v
    BY GotOne, <1>1
  <2>6. PutUnder(st, r, res.st, res.root, k, put)
    BY <2>3
  <2> HIDE DEF put
  <2>7. Contents(res.st, res.root) = [m EXCEPT ![k] = v]
    BY <1>1, <2>4, <2>5, <2>6, MapPut
  <2>8. QED
    BY <1>3, <2>1, <2>2, <2>4, <2>7 DEF TreeAs, res
<1>4. QED
  BY <1>2, <1>3 DEF Inserted

LEMMA DeleteAs ==
  ASSUME NEW st, Good(st), NEW r, NEW m, TreeAs(st, r, m), NEW k \in Keys
  PROVE  LET res == Delete(st, r, k)
         IN  \/ /\ res.rc = 0 /\ Good(res.st) /\ TreeAs(res.st, res.root, [m EXCEPT ![k] = None])
                /\ Whole(st, r) => Whole(res.st, res.root)
                /\ Rewritten(st, r, Path(st, r, k), res.st, res.root)
             \/ res.rc = -1 /\ res.root = r /\ Same(st, r, res.st, res.root)
<1> DEFINE res == Delete(st, r, k)
<1>1. SmallTree(st, r) /\ Ordered(st, r) /\ Contents(st, r) = m
  BY DEF TreeAs
<1>2. Deleted(st, r, k, res)
  BY <1>1, DeleteCall
<1> HIDE DEF res
<1>3. CASE res.rc = 0
  <2>1. /\ Rewritten(st, r, Path(st, r, k), res.st, res.root)
        /\ Whole(st, r) => Whole(res.st, res.root)
    BY <1>2, <1>3 DEF Deleted, Edited, Whole
  <2>2. Ordered(res.st, res.root) /\ PutUnder(st, r, res.st, res.root, k, {})
    BY <1>1, <1>2, <1>3, DeleteOrdered, DeleteUnder
  <2>3. Good(res.st) /\ SmallTree(res.st, res.root)
    BY <2>1 DEF Rewritten
  <2> DEFINE put == {}
  <2>4. PutUnder(st, r, res.st, res.root, k, put) /\ Got(put) = None
    BY <2>2 DEF Got
  <2> HIDE DEF put
  <2>5. Contents(res.st, res.root) = [m EXCEPT ![k] = None]
    BY <1>1, <2>3, <2>4, MapPut
  <2>6. QED
    BY <1>3, <2>1, <2>2, <2>3, <2>5 DEF TreeAs, res
<1>4. QED
  BY <1>2, <1>3 DEF Deleted, Same, res

----------------------------------------------------------------------------
(* Who reads and who writes, after each kind of step. *)

LEMMA Roles ==
  ASSUME TypeOK
  PROVE  /\ txn \in [Txns -> Handles(store)] /\ seen \in [Txns -> Maps]
         /\ Writers \subseteq Txns /\ Readers \subseteq Txns /\ Writers \cap Readers = {}
         /\ \A t \in Txns : /\ t \in Active <=> txn[t].active
                            /\ t \in Writers <=> (txn[t].active /\ txn[t].isWrite)
                            /\ t \in Readers <=> (txn[t].active /\ ~txn[t].isWrite)
BY DEF TypeOK, Handles, Maps, Active, Writers, Readers

\* The same handles are active, for the same purpose.
LEMMA RolesKept ==
  ASSUME \A u \in Txns : txn'[u].active = txn[u].active /\ txn'[u].isWrite = txn[u].isWrite
  PROVE  Active' = Active /\ Writers' = Writers /\ Readers' = Readers
<1>1. Active' = Active
  BY DEF Active
<1>2. Writers' = Writers
  BY <1>1 DEF Writers, Active
<1>3. QED
  BY <1>1, <1>2 DEF Readers

LEMMA Rerooted ==
  ASSUME TypeOK, NEW t \in Txns, NEW r, txn' = [txn EXCEPT ![t].root = r]
  PROVE  /\ Active' = Active /\ Writers' = Writers /\ Readers' = Readers
         /\ txn'[t] = [active |-> txn[t].active, isWrite |-> txn[t].isWrite, root |-> r]
         /\ \A u \in Txns \ {t} : txn'[u] = txn[u]
<1>1. txn \in [Txns -> Handles(store)]
  BY Roles
<1>2. /\ txn'[t] = [active |-> txn[t].active, isWrite |-> txn[t].isWrite, root |-> r]
      /\ \A u \in Txns \ {t} : txn'[u] = txn[u]
  <2>1. txn[t] \in Handles(store)
    BY <1>1
  <2>2. [txn[t] EXCEPT !.root = r] = [active |-> txn[t].active, isWrite |-> txn[t].isWrite, root |-> r]
    BY <2>1 DEF Handles
  <2>3. txn'[t] = [txn[t] EXCEPT !.root = r]
    BY <1>1
  <2>4. QED
    BY <1>1, <2>2, <2>3
<1>3. QED
  BY <1>2, RolesKept

LEMMA Begun ==
  ASSUME TypeOK, NEW t \in Txns, t \notin Active, NEW w \in BOOLEAN, NEW r,
         txn' = [txn EXCEPT ![t] = [active |-> TRUE, isWrite |-> w, root |-> r]]
  PROVE  /\ Writers' = (IF w THEN Writers \cup {t} ELSE Writers)
         /\ Readers' = (IF w THEN Readers ELSE Readers \cup {t})
         /\ txn'[t] = [active |-> TRUE, isWrite |-> w, root |-> r]
         /\ \A u \in Txns \ {t} : txn'[u] = txn[u]
         /\ t \notin Writers /\ t \notin Readers
<1>1. /\ txn'[t] = [active |-> TRUE, isWrite |-> w, root |-> r]
      /\ \A u \in Txns \ {t} : txn'[u] = txn[u]
  BY Roles
<1>2. Active' = Active \cup {t}
  BY <1>1 DEF Active
<1>3. Writers' = IF w THEN Writers \cup {t} ELSE Writers
  BY <1>1, <1>2 DEF Writers, Active
<1>4. t \notin Writers /\ t \notin Readers
  BY DEF Writers, Readers
<1>5. QED
  BY <1>1, <1>2, <1>3, <1>4 DEF Readers

LEMMA Ended ==
  ASSUME TypeOK, NEW t \in Txns, txn' = [txn EXCEPT ![t].active = FALSE]
  PROVE  /\ Writers' = Writers \ {t} /\ Readers' = Readers \ {t}
         /\ txn' \in [Txns -> Handles(store)]
         /\ \A u \in Txns \ {t} : txn'[u] = txn[u]
<1>1. txn \in [Txns -> Handles(store)]
  BY Roles
<1>2. /\ txn'[t].active = FALSE /\ txn'[t].isWrite = txn[t].isWrite
      /\ txn' \in [Txns -> Handles(store)]
      /\ \A u \in Txns \ {t} : txn'[u] = txn[u]
  <2> DEFINE handle == txn[t]
             ended == [handle EXCEPT !.active = FALSE]
  <2>1. handle \in [active : BOOLEAN, isWrite : BOOLEAN, root : 0 .. Len(store.pages)]
    BY <1>1 DEF Handles
  <2> HIDE DEF handle
  <2>2. ended.active = FALSE /\ ended.isWrite = handle.isWrite
    BY <2>1
  <2>3. ended \in [active : BOOLEAN, isWrite : BOOLEAN, root : 0 .. Len(store.pages)]
    BY <2>1
  <2>4. txn' = [txn EXCEPT ![t] = ended]
    BY DEF handle
  <2> HIDE DEF ended
  <2>5. txn'[t] = ended /\ \A u \in Txns \ {t} : txn'[u] = txn[u]
    BY <1>1, <2>4
  <2>6. txn' \in [Txns -> Handles(store)]
    BY <1>1, <2>3, <2>4 DEF Handles
  <2>7. QED
    BY <2>2, <2>5, <2>6 DEF handle
<1>3. Active' = Active \ {t}
  BY <1>2 DEF Active
<1>4. Writers' = Writers \ {t}
  BY <1>2, <1>3 DEF Writers, Active
<1>5. QED
  BY <1>2, <1>3, <1>4 DEF Readers

----------------------------------------------------------------------------
(* The actions. *)

LEMMA TxnInitInv ==
  ASSUME Init
  PROVE  TxnInv
<1>1. store = FreshFile(FreshPages)
  BY DEF Init, FreshFile
<1>2. Good(store)
  BY <1>1, FreshGood, TxnAssumption
<1>3. /\ hdrRoot = 0 /\ txn = [t \in Txns |-> NoTxn] /\ splits = 0
      /\ seen = [t \in Txns |-> Empty] /\ wrote = {} /\ overtaken = {} /\ committed = Empty
  BY DEF Init
<1>4. Writers = {} /\ Readers = {}
  BY <1>3 DEF NoTxn, Active, Writers, Readers
<1>5. TypeOK
  <2>1. /\ store.head \in 0 .. Len(store.pages) /\ Len(store.pages) < MaxPages
        /\ Len(store.pages) \in Nat
    BY <1>2, GoodTypes
  <2>2. Empty \in [Keys -> Values \cup {None}]
    BY DEF Empty
  <2>3. NoTxn \in [active : BOOLEAN, isWrite : BOOLEAN, root : 0 .. Len(store.pages)]
    BY <2>1 DEF NoTxn
  <2>4. splits \in 0 .. MaxSplits
    BY <1>3, TxnAssumption
  <2>5. QED
    BY <1>3, <1>4, <2>1, <2>2, <2>3, <2>4 DEF TypeOK
<1>6. TreeAs(store, 0, Empty) /\ Whole(store, 0)
  <2>1. SmallTree(store, 0) /\ Whole(store, 0)
    BY DEF SmallTree, Whole
  <2>2. Ordered(store, 0)
    BY NotBoth DEF Ordered
  <2>3. \A k \in Keys : Search(store, 0, k) = None
    BY DEF Search
  <2>4. QED
    BY <2>1, <2>2, <2>3 DEF TreeAs, Contents, Empty
<1>7. OneWriter /\ WriterTree /\ UnchangedRoot /\ ReaderTree
  BY <1>4 DEF OneWriter, WriterTree, UnchangedRoot, ReaderTree
<1>8. CommittedTree
  BY <1>3, <1>6 DEF CommittedTree
<1>9. QED
  BY <1>2, <1>5, <1>7, <1>8 DEF TxnInv

\* The types, after a step that does not make the file shorter.
LEMMA TypeMoves ==
  ASSUME TypeOK, Good(store'), Len(store.pages) \in Nat, Len(store.pages) <= Len(store'.pages),
         SmallTree(store', hdrRoot') \/ hdrRoot' = hdrRoot,
         txn' \in [Txns -> Handles(store')], splits' \in 0 .. MaxSplits,
         seen' \in [Txns -> Maps], wrote' \subseteq Writers', overtaken' \subseteq Readers',
         committed' \in Maps
  PROVE  TypeOK'
<1>1. /\ store'.head \in 0 .. Len(store'.pages) /\ Len(store'.pages) < MaxPages
      /\ Len(store'.pages) \in Nat
      /\ SmallTree(store', hdrRoot') => hdrRoot' \in 0 .. Len(store'.pages)
  BY GoodTypes
<1>2. hdrRoot' \in 0 .. Len(store'.pages)
  BY <1>1 DEF TypeOK
<1>3. QED
  BY <1>1, <1>2 DEF TypeOK, Handles, Maps

LEMMA BeginReadInv ==
  ASSUME TxnInv, NEW t \in Txns, BeginRead(t)
  PROVE  TxnInv'
<1>1. /\ t \notin Active /\ txn' = [txn EXCEPT ![t] = [active |-> TRUE, isWrite |-> FALSE, root |-> hdrRoot]]
      /\ seen' = [seen EXCEPT ![t] = committed]
      /\ overtaken' = (IF wrote = {} THEN overtaken ELSE overtaken \cup {t})
      /\ store' = store /\ hdrRoot' = hdrRoot /\ splits' = splits /\ wrote' = wrote /\ committed' = committed
  BY DEF BeginRead
<1>2. TypeOK /\ Good(store) /\ OneWriter /\ WriterTree /\ CommittedTree /\ UnchangedRoot /\ ReaderTree
  BY DEF TxnInv
<1>3. /\ Writers' = Writers /\ Readers' = Readers \cup {t}
      /\ txn'[t] = [active |-> TRUE, isWrite |-> FALSE, root |-> hdrRoot]
      /\ \A u \in Txns \ {t} : txn'[u] = txn[u]
      /\ t \notin Writers /\ t \notin Readers
  BY <1>1, <1>2, Begun
<1>4. /\ txn \in [Txns -> Handles(store)] /\ seen \in [Txns -> Maps]
      /\ Writers \subseteq Txns /\ Readers \subseteq Txns
  BY <1>2, Roles
<1>5. /\ committed \in Maps /\ hdrRoot \in 0 .. Len(store.pages) /\ splits \in 0 .. MaxSplits
      /\ wrote \subseteq Writers /\ overtaken \subseteq Readers /\ Len(store.pages) \in Nat
  BY <1>2, GoodTypes DEF TypeOK, Maps
<1>6. seen' \in [Txns -> Maps] /\ seen'[t] = committed /\ \A u \in Txns \ {t} : seen'[u] = seen[u]
  BY <1>1, <1>4, <1>5
<1>7. TypeOK'
  <2>1. txn' \in [Txns -> Handles(store')]
    <3>1. [active |-> TRUE, isWrite |-> FALSE, root |-> hdrRoot] \in Handles(store)
      BY <1>5 DEF Handles
    <3>2. QED
      BY <1>1, <1>4, <3>1
  <2>2. wrote' \subseteq Writers' /\ overtaken' \subseteq Readers'
    BY <1>1, <1>3, <1>5
  <2>3. Len(store.pages) <= Len(store'.pages) /\ Good(store') /\ committed' \in Maps /\ splits' \in 0 .. MaxSplits
    BY <1>1, <1>2, <1>5
  <2>4. QED
    BY <1>1, <1>2, <1>5, <1>6, <2>1, <2>2, <2>3, TypeMoves
<1>8. OneWriter' /\ WriterTree' /\ UnchangedRoot'
  <2>1. \A u \in Writers : txn'[u] = txn[u] /\ seen'[u] = seen[u]
    BY <1>3, <1>4, <1>6
  <2>2. QED
    BY <1>1, <1>2, <1>3, <2>1 DEF OneWriter, WriterTree, UnchangedRoot
<1>9. CommittedTree'
  BY <1>1, <1>2 DEF CommittedTree
<1>10. ReaderTree'
  <2>1. ASSUME NEW u \in Readers' \ overtaken'
        PROVE  TreeAs(store, txn'[u].root, seen'[u])
    <3>1. CASE u = t
      <4>1. wrote = {}
        BY <1>1, <2>1, <3>1
      <4>2. TreeAs(store, hdrRoot, committed)
        BY <1>2, <4>1 DEF CommittedTree
      <4>3. QED
        BY <1>3, <1>6, <3>1, <4>2
    <3>2. CASE u # t
      <4>1. u \in Readers \ overtaken /\ u \in Txns \ {t}
        BY <1>1, <1>3, <1>4, <2>1, <3>2
      <4>2. QED
        BY <1>2, <1>3, <1>6, <4>1 DEF ReaderTree
    <3>3. QED
      BY <3>1, <3>2
  <2>2. QED
    BY <1>1, <2>1 DEF ReaderTree
<1>11. QED
  BY <1>1, <1>2, <1>7, <1>8, <1>9, <1>10 DEF TxnInv

LEMMA BeginWriteInv ==
  ASSUME TxnInv, NEW t \in Txns, BeginWrite(t)
  PROVE  TxnInv'
<1> DEFINE new == IF hdrRoot = 0 THEN Create(store) ELSE Result(store, hdrRoot, 0)
           r == new.root
<1>1. /\ t \notin Active /\ Writers = {}
      /\ store' = new.st /\ txn' = [txn EXCEPT ![t] = [active |-> TRUE, isWrite |-> TRUE, root |-> r]]
      /\ seen' = [seen EXCEPT ![t] = committed]
      /\ hdrRoot' = hdrRoot /\ splits' = splits /\ wrote' = wrote /\ overtaken' = overtaken /\ committed' = committed
  BY DEF BeginWrite
<1>2. TypeOK /\ Good(store) /\ CommittedTree /\ ReaderTree
  BY DEF TxnInv
<1>3. /\ committed \in Maps /\ hdrRoot \in 0 .. Len(store.pages) /\ splits \in 0 .. MaxSplits
      /\ wrote = {} /\ overtaken \subseteq Readers /\ Len(store.pages) \in Nat
  BY <1>1, <1>2, GoodTypes DEF TypeOK, Maps
<1>4. TreeAs(store, hdrRoot, committed) /\ (splits = 0 => Whole(store, hdrRoot))
  BY <1>2, <1>3 DEF CommittedTree
<1>5. /\ Same(store, hdrRoot, store', r) /\ \A q : Same(store, q, store', q)
      /\ hdrRoot \in {0, r}
  <2>1. CASE hdrRoot = 0
    <3>1. Created(store, Create(store))
      BY <1>2, CreateOutcome
    <3>2. Same(store, 0, Create(store).st, Create(store).root)
      BY <1>2, <3>1, CreatedSame
    <3>3. QED
      BY <1>1, <1>2, <2>1, <3>2, SameAll
  <2>2. CASE hdrRoot # 0
    <3>1. store' = store /\ r = hdrRoot
      BY <1>1, <2>2 DEF Result
    <3>2. \A q : Same(store, q, store, q)
      BY <1>2, KeptSame DEF Same
    <3>3. QED
      BY <3>1, <3>2
  <2>3. QED
    BY <2>1, <2>2
<1>6. Len(store.pages) <= Len(store'.pages)
  <2>1. File(store, Len(store.pages))
    BY <1>2, GoodTypes
  <2>2. File(Create(store).st, Len(store.pages))
    BY <1>3, <2>1, FileCreate
  <2>3. File(store', Len(store.pages))
    BY <1>1, <2>1, <2>2 DEF Result
  <2>4. QED
    BY <2>3 DEF File
<1> HIDE DEF new, r
<1>7. /\ Writers' = {t} /\ Readers' = Readers
      /\ txn'[t] = [active |-> TRUE, isWrite |-> TRUE, root |-> r]
      /\ \A u \in Txns \ {t} : txn'[u] = txn[u]
      /\ t \notin Readers
  BY <1>1, <1>2, Begun
<1>8. txn \in [Txns -> Handles(store)] /\ seen \in [Txns -> Maps] /\ Readers \subseteq Txns
  BY <1>2, Roles
<1>9. seen' \in [Txns -> Maps] /\ seen'[t] = committed /\ \A u \in Txns \ {t} : seen'[u] = seen[u]
  BY <1>1, <1>3, <1>8
<1>10. Good(store') /\ TreeAs(store', r, committed) /\ (splits = 0 => Whole(store', r))
  BY <1>2, <1>4, <1>5, SameAs
<1>11. TreeAs(store', hdrRoot, committed) /\ (splits = 0 => Whole(store', hdrRoot))
  BY <1>2, <1>4, <1>5, SameAs
<1>12. TypeOK'
  <2>1. Len(store'.pages) \in Nat /\ r \in 0 .. Len(store'.pages)
    BY <1>10, GoodTypes DEF TreeAs
  <2>2. txn' \in [Txns -> Handles(store')]
    <3>1. [active |-> TRUE, isWrite |-> TRUE, root |-> r] \in Handles(store')
      BY <2>1 DEF Handles
    <3>2. txn \in [Txns -> Handles(store')]
      BY <1>3, <1>6, <1>8, <2>1, LongerHandles
    <3>3. QED
      BY <1>1, <3>1, <3>2
  <2>3. wrote' \subseteq Writers' /\ overtaken' \subseteq Readers' /\ committed' \in Maps /\ splits' \in 0 .. MaxSplits
    BY <1>1, <1>3, <1>7
  <2>4. QED
    BY <1>1, <1>2, <1>3, <1>6, <1>9, <1>10, <2>2, <2>3, TypeMoves
<1>13. OneWriter' /\ WriterTree' /\ UnchangedRoot'
  BY <1>1, <1>5, <1>7, <1>9, <1>10 DEF OneWriter, WriterTree, UnchangedRoot
<1>14. CommittedTree'
  BY <1>1, <1>11 DEF CommittedTree
<1>15. ReaderTree'
  <2>1. ASSUME NEW u \in Readers \ overtaken
        PROVE  TreeAs(store', txn'[u].root, seen'[u])
    <3>1. txn'[u] = txn[u] /\ seen'[u] = seen[u]
      BY <1>7, <1>8, <1>9
    <3>2. TreeAs(store, txn[u].root, seen[u])
      BY <1>2 DEF ReaderTree
    <3>3. QED
      BY <1>2, <1>5, <3>1, <3>2, SameAs
  <2>2. QED
    BY <1>1, <1>7, <2>1 DEF ReaderTree
<1>16. QED
  BY <1>10, <1>12, <1>13, <1>14, <1>15 DEF TxnInv

\* A call of writer t that returned res; m is what the writer should see when
\* the call succeeded.
Called(t, res, m) ==
    /\ Apply(t, res, m) /\ m \in Maps
    /\ splits' \in 0 .. MaxSplits /\ (splits' = 0 => splits = 0)
    /\ Len(store.pages) <= Len(res.st.pages)
    /\ \/ /\ res.rc = 0 /\ Good(res.st) /\ TreeAs(res.st, res.root, m)
          /\ splits' = 0 => Whole(res.st, res.root)
       \/ res.rc = -1 /\ Same(store, txn[t].root, res.st, res.root)

LEMMA CallInv ==
  ASSUME TxnInv, NEW t \in Writers, NEW res, NEW m, Called(t, res, m)
  PROVE  TxnInv'
<1> DEFINE r == res.root
<1>1. /\ store' = res.st /\ txn' = [txn EXCEPT ![t].root = r]
      /\ seen' = (IF res.rc = 0 THEN [seen EXCEPT ![t] = m] ELSE seen)
      /\ wrote' = (IF res.rc = 0 THEN wrote \cup {t} ELSE wrote)
      /\ overtaken' = (IF res.rc = 0 THEN overtaken \cup Readers ELSE overtaken)
      /\ hdrRoot' = hdrRoot /\ committed' = committed
  BY DEF Called, Apply
<1>2. TypeOK /\ Good(store) /\ OneWriter /\ WriterTree /\ CommittedTree /\ UnchangedRoot /\ ReaderTree
  BY DEF TxnInv
<1>3. /\ m \in Maps /\ splits' \in 0 .. MaxSplits /\ (splits' = 0 => splits = 0)
      /\ Len(store.pages) <= Len(store'.pages)
      /\ \/ /\ res.rc = 0 /\ Good(store') /\ TreeAs(store', r, m)
            /\ splits' = 0 => Whole(store', r)
         \/ res.rc = -1 /\ Same(store, txn[t].root, store', r)
  BY <1>1 DEF Called
<1> HIDE DEF r
<1>4. /\ txn \in [Txns -> Handles(store)] /\ seen \in [Txns -> Maps]
      /\ Writers \subseteq Txns /\ Readers \subseteq Txns /\ Writers \cap Readers = {} /\ t \in Txns
  BY <1>2, Roles
<1>5. /\ committed \in Maps /\ hdrRoot \in 0 .. Len(store.pages)
      /\ wrote \subseteq Writers /\ overtaken \subseteq Readers /\ Len(store.pages) \in Nat
  BY <1>2, GoodTypes DEF TypeOK, Maps
<1>6. /\ Writers' = Writers /\ Readers' = Readers
      /\ txn'[t] = [active |-> txn[t].active, isWrite |-> txn[t].isWrite, root |-> r]
      /\ \A u \in Txns \ {t} : txn'[u] = txn[u]
  BY <1>1, <1>2, <1>4, Rerooted
<1>7. Writers = {t}
  BY <1>2 DEF OneWriter
<1>8. TreeAs(store, txn[t].root, seen[t]) /\ (splits = 0 => Whole(store, txn[t].root))
  BY <1>2 DEF WriterTree
<1>9. CASE res.rc = 0
  <2>1. Good(store') /\ TreeAs(store', r, m) /\ (splits' = 0 => Whole(store', r))
    BY <1>3, <1>9
  <2>2. /\ seen' \in [Txns -> Maps] /\ seen'[t] = m
        /\ wrote' = wrote \cup {t} /\ overtaken' = overtaken \cup Readers
    BY <1>1, <1>3, <1>4, <1>9
  <2>3. Len(store'.pages) \in Nat /\ r \in 0 .. Len(store'.pages)
    BY <2>1, GoodTypes DEF TreeAs
  <2>4. txn' \in [Txns -> Handles(store')]
    <3>1. txn \in [Txns -> Handles(store')]
      BY <1>3, <1>4, <1>5, <2>3, LongerHandles
    <3>2. txn'[t] \in Handles(store')
      BY <1>4, <1>6, <2>3 DEF Handles
    <3>3. txn' = [txn EXCEPT ![t] = txn'[t]]
      BY <1>1, <1>4
    <3>4. QED
      BY <3>1, <3>2, <3>3
  <2>5. wrote' \subseteq Writers' /\ overtaken' \subseteq Readers' /\ committed' \in Maps
    BY <1>1, <1>5, <1>6, <2>2
  <2>6. TypeOK'
    BY <1>1, <1>2, <1>3, <1>5, <2>1, <2>2, <2>4, <2>5, TypeMoves
  <2>7. OneWriter' /\ WriterTree' /\ UnchangedRoot'
    BY <1>6, <1>7, <2>1, <2>2 DEF OneWriter, WriterTree, UnchangedRoot
  <2>8. CommittedTree' /\ ReaderTree'
    BY <1>6, <2>2 DEF CommittedTree, ReaderTree
  <2>9. QED
    BY <2>1, <2>6, <2>7, <2>8 DEF TxnInv
<1>10. CASE res.rc # 0
  <2>1. Same(store, txn[t].root, store', r)
    BY <1>3, <1>10
  <2>2. \A q : Same(store, q, store', q)
    BY <1>2, <2>1, SameAll
  <2>3. Good(store') /\ TreeAs(store', r, seen[t]) /\ (splits = 0 => Whole(store', r))
    BY <1>2, <1>8, <2>1, SameAs
  <2>4. seen' = seen /\ wrote' = wrote /\ overtaken' = overtaken
    BY <1>1, <1>10
  <2>5. Len(store'.pages) \in Nat /\ r \in 0 .. Len(store'.pages)
    BY <2>3, GoodTypes DEF TreeAs
  <2>6. txn' \in [Txns -> Handles(store')]
    <3>1. txn \in [Txns -> Handles(store')]
      BY <1>3, <1>4, <1>5, <2>5, LongerHandles
    <3>2. txn'[t] \in Handles(store')
      BY <1>4, <1>6, <2>5 DEF Handles
    <3>3. txn' = [txn EXCEPT ![t] = txn'[t]]
      BY <1>1, <1>4
    <3>4. QED
      BY <3>1, <3>2, <3>3
  <2>7. wrote' \subseteq Writers' /\ overtaken' \subseteq Readers' /\ committed' \in Maps /\ seen' \in [Txns -> Maps]
    BY <1>1, <1>4, <1>5, <1>6, <2>4
  <2>8. TypeOK'
    BY <1>1, <1>2, <1>3, <1>5, <2>3, <2>6, <2>7, TypeMoves
  <2>9. OneWriter' /\ WriterTree'
    BY <1>3, <1>6, <1>7, <2>3, <2>4 DEF OneWriter, WriterTree
  <2>10. UnchangedRoot'
    <3>1. hdrRoot # 0 => r = txn[t].root \/ txn[t].root = 0
      BY <2>1 DEF Same
    <3>2. t \notin wrote => hdrRoot \in {0, txn[t].root}
      BY <1>2 DEF UnchangedRoot
    <3>3. t \notin wrote => hdrRoot \in {0, r}
      BY <3>1, <3>2
    <3>4. QED
      BY <1>1, <1>6, <1>7, <2>4, <3>3 DEF UnchangedRoot
  <2>11. CommittedTree'
    <3>1. ASSUME wrote = {}
          PROVE  TreeAs(store', hdrRoot, committed) /\ (splits' = 0 => Whole(store', hdrRoot))
      <4>1. TreeAs(store, hdrRoot, committed) /\ (splits = 0 => Whole(store, hdrRoot))
        BY <1>2, <3>1 DEF CommittedTree
      <4>2. QED
        BY <1>2, <1>3, <2>2, <4>1, SameAs
    <3>2. QED
      BY <1>1, <2>4, <3>1 DEF CommittedTree
  <2>12. ReaderTree'
    <3>1. ASSUME NEW u \in Readers \ overtaken
          PROVE  TreeAs(store', txn'[u].root, seen[u])
      <4>1. txn'[u] = txn[u]
        BY <1>4, <1>6
      <4>2. TreeAs(store, txn[u].root, seen[u])
        BY <1>2, <3>1 DEF ReaderTree
      <4>3. QED
        BY <1>2, <2>2, <4>1, <4>2, SameAs
    <3>2. QED
      BY <1>6, <2>4, <3>1 DEF ReaderTree
  <2>13. QED
    BY <2>3, <2>8, <2>9, <2>10, <2>11, <2>12 DEF TxnInv
<1>11. QED
  BY <1>9, <1>10

LEMMA InsertCalled ==
  ASSUME MaxSplits <= 1, HalvesFit, TxnInv, NEW t \in Txns, NEW k \in Keys, NEW v \in Values, TxnInsert(t, k, v)
  PROVE  /\ t \in Writers
         /\ Called(t, Insert(store, txn[t].root, k, v), [seen[t] EXCEPT ![k] = v])
         /\ MustSplit(store, txn[t].root, k, v) => LeafAt(store, txn[t].root)
         /\ ~Overfills(store, txn[t].root, k, v)
<1> DEFINE r    == txn[t].root
           res  == Insert(store, r, k, v)
           must == MustSplit(store, r, k, v)
           m    == [seen[t] EXCEPT ![k] = v]
<1>1. /\ t \in Writers /\ (must => splits < MaxSplits) /\ ~Overfills(store, r, k, v)
      /\ Apply(t, res, m) /\ splits' = splits + (IF must /\ res.rc = 0 THEN 1 ELSE 0)
  BY DEF TxnInsert
<1>2. TypeOK /\ Good(store) /\ WriterTree
  BY DEF TxnInv
<1>3. TreeAs(store, r, seen[t]) /\ (splits = 0 => Whole(store, r))
  BY <1>1, <1>2 DEF WriterTree
<1>4. splits \in 0 .. MaxSplits /\ MaxSplits \in Nat
  BY <1>2, TxnAssumption DEF TypeOK
<1>5. must => splits = 0 /\ splits < MaxSplits
  BY <1>1, <1>4
<1>6. must => LeafAt(store, r)
  <2>1. must => r # 0
    BY DEF MustSplit, OnLeaf
  <2> HIDE DEF r, must
  <2>2. QED
    BY <1>3, <1>5, <2>1 DEF Whole
<1>7. \/ /\ res.rc = 0 /\ Good(res.st) /\ TreeAs(res.st, res.root, m)
         /\ ~must /\ Whole(store, r) => Whole(res.st, res.root)
      \/ res.rc = -1 /\ Same(store, r, res.st, res.root)
      \/ res.rc = Fault
  <2> DEFINE old == seen[t]
  <2>1. TreeAs(store, r, old) /\ (must => LeafAt(store, r)) /\ ~Overfills(store, r, k, v)
    BY <1>1, <1>3, <1>6
  <2>2. m = [old EXCEPT ![k] = v]
    OBVIOUS
  <2> HIDE DEF old, m
  <2> HIDE DEF r
  <2>3. QED
    BY <1>2, <2>1, <2>2, InsertAs
<1>8. m \in Maps
  <2>1. seen[t] \in Maps /\ v \in Values \cup {None}
    BY <1>2, Roles
  <2>2. QED
    BY <2>1 DEF Maps
<1>9. Len(store.pages) <= Len(res.st.pages)
  <2>1. File(store, Len(store.pages)) /\ Len(store.pages) \in Nat
    BY <1>2, GoodTypes
  <2>2. File(res.st, Len(store.pages))
    BY <2>1, FileInsert
  <2>3. QED
    BY <2>2 DEF File
<1>10. res.rc # Fault
  BY <1>1 DEF Apply
<1> HIDE DEF r, res, must, m
<1>11. splits' \in 0 .. MaxSplits /\ (splits' = 0 => splits = 0 /\ ~(must /\ res.rc = 0))
  BY <1>1, <1>4, <1>5
<1>12. res.rc = 0 => (splits' = 0 => Whole(res.st, res.root))
  BY <1>3, <1>7, <1>11 DEF Fault
<1>13. Called(t, res, m)
  BY <1>1, <1>7, <1>8, <1>9, <1>10, <1>11, <1>12 DEF Called, r
<1>14. QED
  BY <1>1, <1>6, <1>13 DEF r, res, must, m

LEMMA DeleteCalled ==
  ASSUME TxnInv, NEW t \in Txns, NEW k \in Keys, TxnDelete(t, k)
  PROVE  /\ t \in Writers
         /\ Called(t, Delete(store, txn[t].root, k), [seen[t] EXCEPT ![k] = None])
<1> DEFINE r    == txn[t].root
           res  == Delete(store, r, k)
           m    == [seen[t] EXCEPT ![k] = None]
<1>1. t \in Writers /\ Apply(t, res, m) /\ splits' = splits
  BY DEF TxnDelete
<1>2. TypeOK /\ Good(store) /\ WriterTree
  BY DEF TxnInv
<1>3. TreeAs(store, r, seen[t]) /\ (splits = 0 => Whole(store, r))
  BY <1>1, <1>2 DEF WriterTree
<1>4. splits \in 0 .. MaxSplits
  BY <1>2 DEF TypeOK
<1>5. \/ /\ res.rc = 0 /\ Good(res.st) /\ TreeAs(res.st, res.root, m)
         /\ Whole(store, r) => Whole(res.st, res.root)
      \/ res.rc = -1 /\ Same(store, r, res.st, res.root)
  <2> DEFINE old == seen[t]
  <2>1. TreeAs(store, r, old) /\ m = [old EXCEPT ![k] = None]
    BY <1>3
  <2> HIDE DEF old, m
  <2> HIDE DEF r
  <2>2. QED
    BY <1>2, <2>1, DeleteAs
<1>6. m \in Maps
  <2>1. seen[t] \in Maps
    BY <1>2, Roles
  <2>2. QED
    BY <2>1 DEF Maps
<1>7. Len(store.pages) <= Len(res.st.pages)
  <2>1. File(store, Len(store.pages)) /\ Len(store.pages) \in Nat
    BY <1>2, GoodTypes
  <2>2. Len(Path(store, r, k)) \in {1, 2}
    <3>1. store \in StoresOf(NodePage) /\ SmallTree(store, r) /\ k \in Nat
      BY <1>2, <1>3, KeysAssumption DEF Good, Listed, TreeAs
    <3> HIDE DEF r
    <3>2. Path(store, r, k) = Route(store, r, k)
      BY <3>1, PathOfTree
    <3>3. QED
      BY <3>2 DEF Route
  <2>3. File(res.st, Len(store.pages))
    BY <2>1, <2>2, FileDelete
  <2>4. QED
    BY <2>3 DEF File
<1> HIDE DEF r, res, m
<1>8. Called(t, res, m)
  BY <1>1, <1>3, <1>4, <1>5, <1>6, <1>7 DEF Called, r
<1>9. QED
  BY <1>1, <1>8 DEF r, res, m

\* A transaction ends and the header keeps its root, or gets the writer's.
LEMMA EndInv ==
  ASSUME TxnInv, NEW t \in Active, txn' = [txn EXCEPT ![t].active = FALSE],
         wrote' = wrote \ {t}, overtaken' = overtaken \ {t}, store' = store, splits' = splits, seen' = seen,
         \/ t \in Writers /\ hdrRoot' = txn[t].root /\ committed' = seen[t]
         \/ t \notin wrote /\ hdrRoot' = hdrRoot /\ committed' = committed
  PROVE  TxnInv'
<1>1. TypeOK /\ Good(store) /\ OneWriter /\ WriterTree /\ CommittedTree /\ UnchangedRoot /\ ReaderTree
  BY DEF TxnInv
<1>2. t \in Txns
  BY DEF Active
<1>3. /\ Writers' = Writers \ {t} /\ Readers' = Readers \ {t}
      /\ txn' \in [Txns -> Handles(store)]
      /\ \A u \in Txns \ {t} : txn'[u] = txn[u]
  BY <1>1, <1>2, Ended
<1>4. /\ seen \in [Txns -> Maps] /\ Writers \subseteq Txns /\ Readers \subseteq Txns
  BY <1>1, Roles
<1>5. /\ committed \in Maps /\ splits \in 0 .. MaxSplits
      /\ wrote \subseteq Writers /\ overtaken \subseteq Readers /\ Len(store.pages) \in Nat
  BY <1>1, GoodTypes DEF TypeOK, Maps
<1>6. wrote' = {} => /\ TreeAs(store, hdrRoot', committed')
                     /\ splits = 0 => Whole(store, hdrRoot')
  <2>1. CASE t \in Writers /\ hdrRoot' = txn[t].root /\ committed' = seen[t]
    BY <1>1, <2>1 DEF WriterTree
  <2>2. CASE t \notin wrote /\ hdrRoot' = hdrRoot /\ committed' = committed
    BY <1>1, <2>2 DEF CommittedTree
  <2>3. QED
    BY <2>1, <2>2
<1>7. TypeOK'
  <2>1. SmallTree(store', hdrRoot') \/ hdrRoot' = hdrRoot
    BY <1>1 DEF WriterTree, TreeAs
  <2>2. committed' \in Maps
    BY <1>2, <1>4, <1>5
  <2>3. /\ txn' \in [Txns -> Handles(store')] /\ wrote' \subseteq Writers' /\ overtaken' \subseteq Readers'
        /\ Len(store.pages) <= Len(store'.pages) /\ Good(store') /\ seen' \in [Txns -> Maps]
        /\ splits' \in 0 .. MaxSplits
    BY <1>1, <1>3, <1>4, <1>5
  <2>4. QED
    BY <1>1, <1>5, <2>1, <2>2, <2>3, TypeMoves
<1>8. OneWriter' /\ WriterTree'
  <2>1. \A u \in Writers \ {t} : txn'[u] = txn[u]
    BY <1>3, <1>4
  <2>2. QED
    BY <1>1, <1>3, <2>1 DEF OneWriter, WriterTree
<1>9. UnchangedRoot'
  <2>1. t \in Writers => Writers' = {}
    BY <1>1, <1>3 DEF OneWriter
  <2>2. t \notin Writers => hdrRoot' = hdrRoot
    OBVIOUS
  <2>3. \A u \in Writers \ {t} : txn'[u] = txn[u]
    BY <1>3, <1>4
  <2>4. t \notin Writers => wrote' = wrote
    BY <1>5
  <2>5. QED
    BY <1>1, <1>3, <2>1, <2>2, <2>3, <2>4 DEF UnchangedRoot
<1>10. CommittedTree'
  BY <1>6 DEF CommittedTree
<1>11. ReaderTree'
  <2>1. \A u \in Readers \ {t} : txn'[u] = txn[u]
    BY <1>3, <1>4
  <2>2. QED
    BY <1>1, <1>3, <2>1 DEF ReaderTree
<1>12. QED
  BY <1>1, <1>7, <1>8, <1>9, <1>10, <1>11 DEF TxnInv

LEMMA CommitInv ==
  ASSUME TxnInv, NEW t \in Txns, Commit(t)
  PROVE  TxnInv'
<1>1. /\ t \in Active /\ txn' = [txn EXCEPT ![t].active = FALSE]
      /\ hdrRoot' = (IF txn[t].isWrite THEN txn[t].root ELSE hdrRoot)
      /\ committed' = (IF txn[t].isWrite THEN seen[t] ELSE committed)
      /\ wrote' = wrote \ {t} /\ overtaken' = overtaken \ {t}
      /\ store' = store /\ splits' = splits /\ seen' = seen
  BY DEF Commit, PublishedRoot
<1>2. wrote \subseteq Writers
  BY DEF TxnInv, TypeOK
<1>3. CASE txn[t].isWrite
  <2>1. t \in Writers /\ hdrRoot' = txn[t].root /\ committed' = seen[t]
    BY <1>1, <1>3 DEF Writers
  <2>2. QED
    BY <1>1, <2>1, EndInv
<1>4. CASE ~txn[t].isWrite
  <2>1. t \notin wrote /\ hdrRoot' = hdrRoot /\ committed' = committed
    BY <1>1, <1>2, <1>4 DEF Writers
  <2>2. QED
    BY <1>1, <2>1, EndInv
<1>5. QED
  BY <1>3, <1>4

LEMMA AbortInv ==
  ASSUME ~AbortWritten, TxnInv, NEW t \in Txns, Abort(t)
  PROVE  TxnInv'
<1>1. /\ t \in Active /\ t \notin wrote /\ txn' = [txn EXCEPT ![t].active = FALSE]
      /\ hdrRoot' = hdrRoot /\ committed' = committed
      /\ wrote' = wrote \ {t} /\ overtaken' = overtaken \ {t}
      /\ store' = store /\ splits' = splits /\ seen' = seen
  BY DEF Abort
<1>2. QED
  BY <1>1, EndInv

LEMMA TxnNextInv ==
  ASSUME MaxSplits <= 1, HalvesFit, ~AbortWritten, TxnInv, [Next]_vars
  PROVE  TxnInv'
<1>1. CASE UNCHANGED vars
  BY <1>1 DEF vars, TxnInv, TypeOK, OneWriter, WriterTree, CommittedTree, UnchangedRoot, ReaderTree,
              Active, Writers, Readers
<1>2. ASSUME NEW t \in Txns, BeginRead(t) PROVE TxnInv'
  BY <1>2, BeginReadInv
<1>3. ASSUME NEW t \in Txns, BeginWrite(t) PROVE TxnInv'
  BY <1>3, BeginWriteInv
<1>4. ASSUME NEW t \in Txns, NEW k \in Keys, NEW v \in Values, TxnInsert(t, k, v) PROVE TxnInv'
  BY <1>4, InsertCalled, CallInv
<1>5. ASSUME NEW t \in Txns, NEW k \in Keys, TxnDelete(t, k) PROVE TxnInv'
  BY <1>5, DeleteCalled, CallInv
<1>6. ASSUME NEW t \in Txns, Commit(t) PROVE TxnInv'
  BY <1>6, CommitInv
<1>7. ASSUME NEW t \in Txns, Abort(t) PROVE TxnInv'
  BY <1>7, AbortInv
<1>8. QED
  BY <1>1, <1>2, <1>3, <1>4, <1>5, <1>6, <1>7 DEF Next

\* Whatever transactions do and however full the file is, the writer, the
\* header while nothing is uncommitted, and the readers that no write has
\* overtaken each have a tree with the map they should see.
THEOREM TxnInvariant ==
  ASSUME MaxSplits <= 1, HalvesFit, ~AbortWritten
  PROVE  Spec => []TxnInv
<1>1. Init => TxnInv
  BY TxnInitInv
<1>2. TxnInv /\ [Next]_vars => TxnInv'
  BY TxnNextInv
<1>3. QED
  BY <1>1, <1>2, PTL DEF Spec

\* The root page numbers in the header and in every handle, also one that has
\* ended, stay within the file, and the file within its limit.
THEOREM TxnTypes ==
  ASSUME MaxSplits <= 1, HalvesFit, ~AbortWritten
  PROVE  Spec => []TypeOK
<1>1. TxnInv => TypeOK
  BY DEF TxnInv
<1>2. QED
  BY <1>1, TxnInvariant, PTL

\* Beginning, ending and aborting transactions never makes the header lead to
\* anything but what was last committed.
THEOREM CommittedIsVisible ==
  ASSUME MaxSplits <= 1, HalvesFit, ~AbortWritten
  PROVE  Spec => []CommittedVisible
<1>1. TxnInv => CommittedVisible
  BY DEF TxnInv, CommittedTree, TreeAs, CommittedVisible
<1>2. QED
  BY <1>1, TxnInvariant, PTL

\* A writer sees what was committed when it began with its own changes,
\* whichever of its calls failed for want of pages.
THEOREM OwnWritesSeen ==
  ASSUME MaxSplits <= 1, HalvesFit, ~AbortWritten
  PROVE  Spec => []WriterSeesOwnWrites
<1>1. TxnInv => WriterSeesOwnWrites
  BY DEF TxnInv, WriterTree, TreeAs, WriterSeesOwnWrites
<1>2. QED
  BY <1>1, TxnInvariant, PTL

\* Until a writer's call succeeds a reader sees what was committed when it
\* began: a write begun, and calls that fail half way, do not touch its pages.
THEOREM ReadersKept ==
  ASSUME MaxSplits <= 1, HalvesFit, ~AbortWritten
  PROVE  Spec => []ReaderKeptUntilWrite
<1>1. TxnInv => ReaderKeptUntilWrite
  BY DEF TxnInv, ReaderTree, TreeAs, ReaderKeptUntilWrite
<1>2. QED
  BY <1>1, TxnInvariant, PTL

----------------------------------------------------------------------------
(* The pages that nobody has. *)

\* The root in use: the writer's when there is one.
RootInUse == IF Writers = {} THEN hdrRoot ELSE txn[CHOOSE t \in Writers : TRUE].root

\* Nobody has the pages that hold nodes but are not in the tree in use.
LostOutside == Lost = Used(store) \ TreePages(store, RootInUse)

LEMMA RootOf ==
  ASSUME TxnInv
  PROVE  /\ \A t \in Writers : Writers = {t} /\ RootInUse = txn[t].root
         /\ Writers = {} => RootInUse = hdrRoot
         /\ SmallTree(store, RootInUse)
<1>1. wrote \subseteq Writers /\ OneWriter /\ WriterTree /\ CommittedTree
  BY DEF TxnInv, TypeOK
<1>2. ASSUME NEW t \in Writers
      PROVE  Writers = {t} /\ RootInUse = txn[t].root
  <2>1. Writers = {t}
    BY <1>1 DEF OneWriter
  <2>2. QED
    BY <2>1 DEF RootInUse
<1>3. Writers = {} => RootInUse = hdrRoot
  BY DEF RootInUse
<1>4. CASE Writers = {}
  BY <1>1, <1>3, <1>4 DEF CommittedTree, TreeAs
<1>5. CASE Writers # {}
  BY <1>1, <1>2, <1>5 DEF WriterTree, TreeAs
<1>6. QED
  BY <1>2, <1>3, <1>4, <1>5

LEMMA LostPages ==
  ASSUME TxnInv
  PROVE  LostOutside
<1> DEFINE r == RootInUse
<1>1. Good(store) /\ store \in StoresOf(NodePage)
  BY DEF TxnInv, Good, Listed
<1>2. SmallTree(store, r) /\ \A t \in Writers : Writers = {t} /\ r = txn[t].root
  BY RootOf
<1>3. Writers = {} => r = hdrRoot
  BY RootOf
<1> HIDE DEF r
<1>4. FreeSet(store) = Unused(store)
  BY <1>1, FreeSetOfGood
<1>5. Reachable(store, r) = TreePages(store, r)
  BY <1>1, <1>2, ReachableOfTree
<1>6. PageNos(store) \ Unused(store) = Used(store)
  BY <1>1, NodeTypes DEF Used, Unused, LeafWord, BranchWord
<1>7. (IF Writers = {} THEN Reachable(store, hdrRoot)
       ELSE UNION {Reachable(store, txn[t].root) : t \in Writers}) = Reachable(store, r)
  <2>1. CASE Writers = {}
    BY <1>3, <2>1
  <2>2. CASE Writers # {}
    <3>1. {Reachable(store, txn[t].root) : t \in Writers} = {Reachable(store, r)}
      BY <1>2, <2>2
    <3>2. UNION {Reachable(store, r)} = Reachable(store, r)
      OBVIOUS
    <3>3. QED
      BY <2>2, <3>1, <3>2
  <2>3. QED
    BY <2>1, <2>2
<1>8. Lost = PageNos(store) \ (Unused(store) \cup TreePages(store, r))
  BY <1>4, <1>5, <1>7 DEF Lost
<1>9. Lost = Used(store) \ TreePages(store, r)
  BY <1>6, <1>8
<1>10. QED
  BY <1>9 DEF LostOutside, r

\* A call on a root page made for it leaves no page outside: when there is no
\* room for the copy of that page, it is the empty tree that stays.
LEMMA FirstInsertFails ==
  ASSUME NEW st, Good(st), NEW k \in Keys, NEW v \in Values, Insert(st, 0, k, v).rc = -1
  PROVE  LET res == Insert(st, 0, k, v)
         IN  Used(res.st) \ TreePages(res.st, res.root) \subseteq Used(st)
<1> DEFINE new  == Create(st)
           e    == [k |-> k, v |-> v]
           path == Path(new.st, new.root, k)
           res  == Insert(st, 0, k, v)
<1>1. /\ Created(st, new)
      /\ res = IF new.root = 0 THEN Result(new.st, 0, Fault) ELSE InsertFits(new.st, new.root, path, e)
      /\ new.root # 0 => LeafAt(new.st, new.root)
  BY InsertIntoNone
<1>2. new.root # 0 /\ res = InsertFits(new.st, new.root, path, e) /\ LeafAt(new.st, new.root)
  <2> HIDE DEF res
  <2>1. new.root # 0
    BY <1>1 DEF Result, Fault, res
  <2>2. QED
    BY <1>1, <2>1
<1>3. /\ new.root \in Nat \ {0} /\ Good(new.st) /\ Used(new.st) = Used(st) \cup {new.root}
  <2> HIDE DEF new
  <2>1. QED
    BY <1>1, <1>2 DEF Created
<1>4. Len(path) = 1
  <2>1. k \in Nat /\ SmallTree(new.st, new.root)
    BY <1>2, KeysAssumption DEF SmallTree
  <2> HIDE DEF new
  <2>2. QED
    BY <1>2, <1>3, <2>1, LeafEntsFacts
<1>5. res = Result(new.st, new.root, -1)
  <2> DEFINE a    == AllocCopy(new.st, Last(path))
             page == [a.st.pages[a.pn] EXCEPT !.rest.ents = InsertAt(@, SlotOf(@, e.k), e)]
             s    == SetPage(a.st, a.pn, page)
             up   == SwapLeaf(s, path, a.pn)
  <2>1. res = IF a.pn = 0 THEN Result(new.st, new.root, -1)
              ELSE IF up.pn = 0 THEN Result(PagerFree(up.st, a.pn), new.root, -1)
              ELSE Result(up.st, up.pn, 0)
    BY <1>2 DEF InsertFits
  <2> HIDE DEF s, a, path
  <2>2. up.pn = a.pn
    BY <1>4 DEF SwapLeaf
  <2>3. res.rc = -1
    OBVIOUS
  <2> HIDE DEF up, res, new
  <2>4. a.pn = 0
    BY <2>1, <2>2, <2>3 DEF Result
  <2>5. QED
    BY <2>1, <2>4
<1> HIDE DEF res, new
<1>6. res.st = new.st /\ res.root = new.root
  BY <1>5 DEF Result
<1>7. TreePages(new.st, new.root) = {new.root}
  BY <1>2, <1>3 DEF TreePages
<1>8. QED
  BY <1>3, <1>6, <1>7 DEF res

\* A call of the writer.
LEMMA CallLoses ==
  ASSUME TxnInv, TxnInv', LostOutside, LostOutside', NEW t \in Writers, NEW res, NEW m, Apply(t, res, m),
         \/ Used(res.st) \ TreePages(res.st, res.root) \subseteq Used(store) \ TreePages(store, txn[t].root)
         \/ res.rc = -1 /\ res.root = txn[t].root
  PROVE  LostByAbortOrFailure
<1>1. /\ store' = res.st /\ txn' = [txn EXCEPT ![t].root = res.root]
      /\ seen' = (IF res.rc = 0 THEN [seen EXCEPT ![t] = m] ELSE seen)
      /\ wrote' = (IF res.rc = 0 THEN wrote \cup {t} ELSE wrote)
      /\ hdrRoot' = hdrRoot
  BY DEF Apply
<1>2. TypeOK
  BY DEF TxnInv
<1>3. t \in Txns /\ txn \in [Txns -> Handles(store)]
  BY <1>2, Roles
<1>4. Writers = {t} /\ RootInUse = txn[t].root
  BY RootOf
<1> DEFINE r == res.root
<1>5. txn' = [txn EXCEPT ![t].root = r]
  BY <1>1
<1> HIDE DEF r
<1>6. Writers' = Writers /\ txn'[t] = [active |-> txn[t].active, isWrite |-> txn[t].isWrite, root |-> r]
  BY <1>2, <1>3, <1>5, Rerooted
<1>7. RootInUse' = r
  <2>1. Writers' = {t} /\ txn'[t].root = r
    BY <1>4, <1>6
  <2>2. (CHOOSE u \in {t} : TRUE) = t
    OBVIOUS
  <2>3. QED
    BY <2>1, <2>2 DEF RootInUse
<1>8. CASE Used(res.st) \ TreePages(res.st, r) \subseteq Used(store) \ TreePages(store, txn[t].root)
  BY <1>1, <1>4, <1>7, <1>8 DEF LostByAbortOrFailure, LostOutside
<1>9. CASE res.rc = -1 /\ r = txn[t].root
  <2>1. txn[t] = [active |-> txn[t].active, isWrite |-> txn[t].isWrite, root |-> txn[t].root]
    BY <1>3 DEF Handles
  <2>2. txn'[t] = txn[t]
    BY <1>6, <1>9, <2>1
  <2>3. txn' = [txn EXCEPT ![t] = txn'[t]]
    BY <1>3, <1>5
  <2>4. txn' = txn
    BY <1>3, <2>2, <2>3
  <2>5. seen' = seen /\ wrote' = wrote
    BY <1>1, <1>9
  <2>6. store' = store => Lost' = Lost
    BY <1>1, <1>6, <2>4 DEF Lost
  <2>7. QED
    BY <2>4, <2>5, <2>6 DEF LostByAbortOrFailure
<1>10. QED
  BY <1>8, <1>9 DEF r

LEMMA InsertLoses ==
  ASSUME MaxSplits <= 1, HalvesFit, TxnInv, TxnInv', LostOutside, LostOutside',
         NEW t \in Txns, NEW k \in Keys, NEW v \in Values, TxnInsert(t, k, v)
  PROVE  LostByAbortOrFailure
<1> DEFINE r   == txn[t].root
           res == Insert(store, r, k, v)
<1>1. /\ t \in Writers /\ Apply(t, res, [seen[t] EXCEPT ![k] = v])
      /\ MustSplit(store, r, k, v) => LeafAt(store, r)
  BY InsertCalled DEF TxnInsert
<1>2. Good(store) /\ SmallTree(store, r) /\ res.rc # Fault
  BY <1>1 DEF TxnInv, WriterTree, TreeAs, Apply
<1>3. Inserted(store, r, [k |-> k, v |-> v], res)
  <2> HIDE DEF r
  <2>1. QED
    BY <1>1, <1>2, InsertCall
<1>4. \/ Used(res.st) \ TreePages(res.st, res.root) \subseteq Used(store) \ TreePages(store, r)
      \/ res.rc = -1 /\ Same(store, r, res.st, res.root)
  <2> HIDE DEF res, r
  <2>1. QED
    BY <1>2, <1>3 DEF Inserted, Rewritten
<1>5. CASE res.rc = -1 /\ r = 0
  <2>1. Used(res.st) \ TreePages(res.st, res.root) \subseteq Used(store)
    BY <1>2, <1>5, FirstInsertFails
  <2>2. TreePages(store, r) = {}
    BY <1>5 DEF TreePages
  <2> HIDE DEF res
  <2>3. QED
    BY <1>1, <2>1, <2>2, CallLoses
<1>6. CASE res.rc = -1 /\ r # 0
  <2> HIDE DEF res
  <2>1. res.root = r
    BY <1>4, <1>6, <1>2, <1>3 DEF Inserted, Same, Fault
  <2>2. QED
    BY <1>1, <1>6, <2>1, CallLoses
<1>7. CASE res.rc # -1
  <2> HIDE DEF res
  <2>1. QED
    BY <1>1, <1>4, <1>7, CallLoses
<1>8. QED
  BY <1>5, <1>6, <1>7

LEMMA DeleteLoses ==
  ASSUME TxnInv, TxnInv', LostOutside, LostOutside', NEW t \in Txns, NEW k \in Keys, TxnDelete(t, k)
  PROVE  LostByAbortOrFailure
<1> DEFINE r   == txn[t].root
           res == Delete(store, r, k)
<1>1. t \in Writers /\ Apply(t, res, [seen[t] EXCEPT ![k] = None])
  BY DEF TxnDelete
<1>2. Good(store) /\ SmallTree(store, r)
  BY <1>1 DEF TxnInv, WriterTree, TreeAs
<1>3. Deleted(store, r, k, res)
  <2> HIDE DEF r
  <2>1. QED
    BY <1>2, DeleteCall
<1>4. \/ Used(res.st) \ TreePages(res.st, res.root) \subseteq Used(store) \ TreePages(store, r)
      \/ res.rc = -1 /\ res.root = r
  <2> HIDE DEF res, r
  <2>1. QED
    BY <1>3 DEF Deleted, Rewritten
<1> HIDE DEF res
<1>5. QED
  BY <1>1, <1>4, CallLoses

\* The beginning of a transaction.
LEMMA BeginLoses ==
  ASSUME TxnInv, TxnInv', LostOutside, LostOutside', NEW t \in Txns, BeginRead(t) \/ BeginWrite(t)
  PROVE  Lost' = Lost
<1>1. TypeOK /\ Good(store)
  BY DEF TxnInv
<1>2. CASE BeginRead(t)
  <2>1. /\ t \notin Active /\ txn' = [txn EXCEPT ![t] = [active |-> TRUE, isWrite |-> FALSE, root |-> hdrRoot]]
        /\ store' = store /\ hdrRoot' = hdrRoot
    BY <1>2 DEF BeginRead
  <2>2. Writers' = Writers /\ t \notin Writers /\ (\A u \in Txns \ {t} : txn'[u] = txn[u]) /\ Writers \subseteq Txns
    BY <1>1, <2>1, Begun, Roles
  <2>3. \A u \in Writers : txn'[u] = txn[u]
    BY <2>2
  <2>4. RootInUse' = RootInUse
    <3>1. CASE Writers = {}
      BY <2>1, <2>2, <3>1 DEF RootInUse
    <3>2. CASE Writers # {}
      <4>1. PICK u \in Writers : TRUE
        BY <3>2
      <4>2. Writers = {u} /\ RootInUse = txn[u].root
        BY RootOf
      <4>3. Writers' = {u} /\ txn'[u] = txn[u] /\ (CHOOSE w \in {u} : TRUE) = u
        BY <2>2, <2>3, <4>2
      <4>4. QED
        BY <4>2, <4>3 DEF RootInUse
    <3>3. QED
      BY <3>1, <3>2
  <2>5. QED
    BY <2>1, <2>4 DEF LostOutside
<1>3. CASE BeginWrite(t)
  <2> DEFINE new == IF hdrRoot = 0 THEN Create(store) ELSE Result(store, hdrRoot, 0)
             r == new.root
  <2>1. /\ t \notin Active /\ Writers = {}
        /\ store' = new.st /\ txn' = [txn EXCEPT ![t] = [active |-> TRUE, isWrite |-> TRUE, root |-> r]]
    BY <1>3 DEF BeginWrite
  <2>2. RootInUse = hdrRoot
    BY <2>1, RootOf
  <2>3. Used(store') \ TreePages(store', r) = Used(store) \ TreePages(store, hdrRoot)
    <3>1. CASE hdrRoot = 0
      <4> DEFINE made == Create(store)
      <4>1. Created(store, made)
        BY <1>1, CreateOutcome
      <4>2. store' = made.st /\ r = made.root
        BY <2>1, <3>1
      <4> HIDE DEF made, r
      <4>3. TreePages(store, 0) = {} /\ TreePages(store', 0) = {}
        BY DEF TreePages
      <4>4. CASE r = 0
        <5>1. store' = store
          BY <4>1, <4>2, <4>4 DEF Created
        <5>2. QED
          BY <3>1, <4>3, <4>4, <5>1
      <4>5. CASE r # 0
        <5>1. /\ r \notin Used(store) /\ Used(store') = Used(store) \cup {r}
              /\ store'.pages[r] = Leaf(0, <<>>)
          BY <4>1, <4>2, <4>5 DEF Created
        <5>2. LeafAt(store', r)
          BY <5>1 DEF LeafAt, Used, Leaf
        <5>3. TreePages(store', r) = {r}
          BY <4>5, <5>2 DEF TreePages
        <5>4. QED
          BY <3>1, <4>3, <5>1, <5>3
      <4>6. QED
        BY <4>4, <4>5
    <3>2. CASE hdrRoot # 0
      BY <2>1, <3>2 DEF Result
    <3>3. QED
      BY <3>1, <3>2
  <2> HIDE DEF new, r
  <2>4. Writers' = {t} /\ txn'[t] = [active |-> TRUE, isWrite |-> TRUE, root |-> r]
    BY <1>1, <2>1, Begun
  <2>5. (CHOOSE u \in {t} : TRUE) = t
    OBVIOUS
  <2>6. RootInUse' = r
    BY <2>4, <2>5 DEF RootInUse
  <2>7. QED
    BY <2>2, <2>3, <2>6 DEF LostOutside
<1>4. QED
  BY <1>2, <1>3

\* The end of a transaction, by commit or abort.
LEMMA EndLoses ==
  ASSUME TxnInv, TxnInv', LostOutside, LostOutside', NEW t \in Active, txn' = [txn EXCEPT ![t].active = FALSE],
         store' = store,
         \/ t \in Writers /\ hdrRoot' = txn[t].root
         \/ t \notin wrote /\ hdrRoot' = hdrRoot
  PROVE  LostByAbortOrFailure
<1>1. TypeOK /\ t \in Txns /\ UnchangedRoot
  BY DEF TxnInv, Active
<1>2. Writers' = Writers \ {t} /\ (\A u \in Txns \ {t} : txn'[u] = txn[u]) /\ Writers \subseteq Txns
  BY <1>1, Ended, Roles
<1>3. CASE t \in Writers
  <2>1. RootInUse = txn[t].root /\ Writers' = {}
    BY <1>2, <1>3, RootOf
  <2>2. RootInUse' = hdrRoot'
    BY <2>1 DEF RootInUse
  <2>3. CASE hdrRoot' = txn[t].root
    BY <2>1, <2>2, <2>3 DEF LostOutside, LostByAbortOrFailure
  <2>4. CASE hdrRoot' # txn[t].root
    <3>1. t \notin wrote /\ hdrRoot' = hdrRoot
      BY <2>4
    <3>2. hdrRoot = 0
      BY <1>1, <1>3, <2>4, <3>1 DEF UnchangedRoot
    <3>3. QED
      BY <1>3, <2>1, <3>1, <3>2 DEF LostByAbortOrFailure
  <2>5. QED
    BY <2>3, <2>4
<1>4. CASE t \notin Writers
  <2>1. Writers' = Writers /\ (\A u \in Writers : txn'[u] = txn[u]) /\ hdrRoot' = hdrRoot
    BY <1>2, <1>4
  <2>2. RootInUse' = RootInUse
    <3>1. CASE Writers = {}
      BY <2>1, <3>1 DEF RootInUse
    <3>2. CASE Writers # {}
      <4>1. PICK u \in Writers : TRUE
        BY <3>2
      <4>2. Writers = {u} /\ RootInUse = txn[u].root
        BY RootOf
      <4>3. Writers' = {u} /\ txn'[u] = txn[u] /\ (CHOOSE w \in {u} : TRUE) = u
        BY <2>1, <4>2
      <4>4. QED
        BY <4>2, <4>3 DEF RootInUse
    <3>3. QED
      BY <3>1, <3>2
  <2>3. QED
    BY <2>2 DEF LostOutside, LostByAbortOrFailure
<1>5. QED
  BY <1>3, <1>4

\* A page is lost to everybody only when a writer aborts whose root was made
\* for it, or when a call fails half way: no call that succeeds, no beginning
\* and no commit loses one.
THEOREM LostOnlyByAbortOrFailure ==
  ASSUME MaxSplits <= 1, HalvesFit, ~AbortWritten
  PROVE  Spec => PagesLostOnlyByAbortOrFailure
<1>1. TxnInv => LostOutside
  BY LostPages
<1>2. TxnInv /\ TxnInv' /\ LostOutside /\ LostOutside' /\ [Next]_vars => [LostByAbortOrFailure]_vars
  <2>1. SUFFICES ASSUME TxnInv, TxnInv', LostOutside, LostOutside', Next PROVE LostByAbortOrFailure
    OBVIOUS
  <2>2. ASSUME NEW t \in Txns, BeginRead(t) \/ BeginWrite(t) PROVE LostByAbortOrFailure
    <3>1. Lost' = Lost
      BY <2>1, <2>2, BeginLoses
    <3>2. QED
      BY <3>1 DEF LostByAbortOrFailure
  <2>3. ASSUME NEW t \in Txns, NEW k \in Keys, NEW v \in Values, TxnInsert(t, k, v) PROVE LostByAbortOrFailure
    BY <2>1, <2>3, InsertLoses
  <2>4. ASSUME NEW t \in Txns, NEW k \in Keys, TxnDelete(t, k) PROVE LostByAbortOrFailure
    BY <2>1, <2>4, DeleteLoses
  <2>5. ASSUME NEW t \in Txns, Commit(t) PROVE LostByAbortOrFailure
    <3>1. /\ t \in Active /\ txn' = [txn EXCEPT ![t].active = FALSE] /\ store' = store
          /\ hdrRoot' = (IF txn[t].isWrite THEN txn[t].root ELSE hdrRoot)
      BY <2>5 DEF Commit, PublishedRoot
    <3>2. wrote \subseteq Writers
      BY <2>1 DEF TxnInv, TypeOK
    <3>3. \/ t \in Writers /\ hdrRoot' = txn[t].root
          \/ t \notin wrote /\ hdrRoot' = hdrRoot
      BY <3>1, <3>2 DEF Writers
    <3>4. QED
      BY <2>1, <3>1, <3>3, EndLoses
  <2>6. ASSUME NEW t \in Txns, Abort(t) PROVE LostByAbortOrFailure
    <3>1. /\ t \in Active /\ t \notin wrote /\ hdrRoot' = hdrRoot
          /\ txn' = [txn EXCEPT ![t].active = FALSE] /\ store' = store
      BY <2>6 DEF Abort
    <3>2. QED
      BY <2>1, <3>1, EndLoses
  <2>7. QED
    BY <2>1, <2>2, <2>3, <2>4, <2>5, <2>6 DEF Next
<1>3. QED
  BY <1>1, <1>2, TxnInvariant, PTL DEF Spec, PagesLostOnlyByAbortOrFailure

=============================================================================
