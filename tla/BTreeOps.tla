----------------------------- MODULE BTreeOps ------------------------------
(***************************************************************************)
(* The B+Tree of src/core/btree.c as operators on a page store.            *)
(*                                                                         *)
(* A node keeps its header in the first bytes of the page (`word') and, in *)
(* `rest', the link to the next leaf and its entries in slot order:        *)
(* [k, v] in a leaf, [k, l, r] (key, left child, right child) in a branch. *)
(* Keys are integers for byte strings under key_cmp; the bytes a value     *)
(* takes are Size[v], and LeafCap and BranchCap stand for the 4080 bytes   *)
(* after the node header.                                                  *)
(*                                                                         *)
(* Every operation returns [st, root, rc] with rc 0 or -1 as in the code,  *)
(* or Fault where the code reads or writes through a page that does not    *)
(* exist, or initialises the header page as a node.  The state after a     *)
(* fault is not modelled.                                                  *)
(***************************************************************************)
EXTENDS PageStore, FiniteSets, SequencesExt

CONSTANTS
    LeafCap,    \* room for entries in a leaf
    BranchCap,  \* entries a branch has room for
    MaxDepth,   \* the length of the path array
    Size,       \* room an entry takes, by its value
    None        \* the result of a search that finds nothing

LeafWord == -1
BranchWord == -2
Fault == -2

\* The rest of a zeroed page, read as a node.
ZeroBody == [next |-> 0, ents |-> <<>>]

ASSUME NodeAssumption == /\ ZeroRest = ZeroBody
                         /\ MaxDepth \in Nat /\ MaxDepth >= 2
                         /\ LeafCap \in Nat /\ BranchCap \in Nat

----------------------------------------------------------------------------
(* Nodes.  pager_free overwrites is_leaf, nkeys and free_off by the link:  *)
(* as a node a free page has no entries and no room, and it is a leaf when *)
(* the lowest byte of the link is not 0 (page numbers stay below 256).     *)

\* Mutant of Leaf: a new leaf does not get its link.
LeafNoLink(next, ents) == [word |-> LeafWord, rest |-> [next |-> 0, ents |-> ents]]

Leaf(next, ents) == [word |-> LeafWord, rest |-> [next |-> next, ents |-> ents]]
Branch(ents) == [word |-> BranchWord, rest |-> [next |-> 0, ents |-> ents]]

IsLeaf(page) == page.word = LeafWord \/ page.word > 0
Ents(page) == IF page.word < 0 THEN page.rest.ents ELSE <<>>

\* The room the entries of a leaf take.
Fill(ents) ==
    LET used[n \in 0 .. Len(ents)] == IF n = 0 THEN 0 ELSE used[n - 1] + Size[ents[n].v]
    IN  used[Len(ents)]

\* node_insert_leaf's test (node_free < sz+2).
HasRoom(page, e) == page.word < 0 /\ Fill(Ents(page)) + Size[e.v] <= LeafCap

\* Filling an empty leaf entry by entry: node_insert_leaf refuses the entries
\* that no longer fit, and the callers that rebuild a leaf ignore its answer.
Rebuild(list) ==
    LET kept[n \in 0 .. Len(list)] ==
          IF n = 0 THEN <<>>
          ELSE LET ents == kept[n - 1]
               IN  IF Fill(ents) + Size[list[n].v] <= LeafCap THEN Append(ents, list[n]) ELSE ents
    IN  kept[Len(list)]

\* Mutant of SlotOf: the search does not advance.
SlotOfFirst(ents, k) == 1

\* leaf_search by its result: the slot of the key, or the one it would be
\* inserted at.
SlotOf(ents, k) == 1 + Cardinality({i \in DOMAIN ents : ents[i].k < k})
Holds(ents, k) == \E i \in DOMAIN ents : ents[i].k = k

\* Mutant of ChildFor: a key equal to the separator goes left.
ChildForLeftBias(ents, k) ==
    LET above == {i \in DOMAIN ents : k <= ents[i].k}
    IN  IF above # {} THEN ents[CHOOSE i \in above : \A j \in above : i <= j].l
        ELSE IF ents = <<>> THEN 0 ELSE ents[Len(ents)].r

\* The child whose range holds the key: the left child of the first entry
\* with a larger key, else the right child of the last entry.  A branch
\* without entries has none; the code then reads bytes that are no child.
ChildFor(ents, k) ==
    LET above == {i \in DOMAIN ents : k < ents[i].k}
    IN  IF above # {} THEN ents[CHOOSE i \in above : \A j \in above : i <= j].l
        ELSE IF ents = <<>> THEN 0 ELSE ents[Len(ents)].r

\* A walk down ends at a leaf or at a page that does not exist.
EndsWalk(st, pn) == pn \notin PageNos(st) \/ IsLeaf(st.pages[pn])

\* Pages from the root to the leaf for a key, at most as many as the path array
\* takes.
Path(st, root, k) ==
    LET from[way \in Seq(Nat)] ==
          IF Len(way) >= MaxDepth \/ EndsWalk(st, Last(way)) THEN way
          ELSE from[Append(way, ChildFor(Ents(st.pages[Last(way)]), k))]
    IN  from[<<root>>]

\* btree_search
Search(st, root, k) ==
    LET leaf  == {pn \in {Last(Path(st, root, k))} \cap PageNos(st) : IsLeaf(st.pages[pn])}
        found == UNION {{e \in ToSet(Ents(st.pages[pn])) : e.k = k} : pn \in leaf}
    IN  IF root = 0 \/ found = {} THEN None ELSE (CHOOSE e \in found : TRUE).v

----------------------------------------------------------------------------
(* Scans. *)

\* What a branch entry looks like to a scan that takes the page for a leaf.
Junk == [k |-> 0, v |-> None]
AsLeafEntries(page) ==
    IF page.word = BranchWord THEN [i \in DOMAIN Ents(page) |-> Junk] ELSE Ents(page)

\* The leftmost leaf: down the left child of the first entry.  0 when a branch
\* without entries is met.
Leftmost(st, root) ==
    LET down[d \in 1 .. MaxDepth] ==
          IF d = 1 THEN root
          ELSE LET pn == down[d - 1]
               IN  IF EndsWalk(st, pn) THEN pn
                   ELSE IF Ents(st.pages[pn]) = <<>> THEN 0
                   ELSE Ents(st.pages[pn])[1].l
    IN  down[MaxDepth]

\* The pages a scan visits, leaf after leaf along next_leaf; one page more than
\* the store has means that the chain is a cycle.
Chain(st, root) ==
    LET visited[n \in 0 .. Len(st.pages)] ==
          LET before == IF n = 0 THEN <<>> ELSE visited[n - 1]
              pn     == IF n = 0 THEN Leftmost(st, root)
                        ELSE IF before = <<>> THEN 0 ELSE st.pages[Last(before)].rest.next
          IN  IF pn \in PageNos(st) THEN Append(before, pn) ELSE before
    IN  visited[Len(st.pages)]

ScanEnds(st, root) == Len(Chain(st, root)) <= Len(st.pages)

\* btree_scan: the entries passed to the callback, in order.
Scan(st, root) ==
    LET chain == Chain(st, root)
    IN  FlattenSeq([i \in DOMAIN chain |-> AsLeafEntries(st.pages[chain[i]])])

----------------------------------------------------------------------------
(* Copy on write. *)

\* alloc_copy
AllocCopy(st, src) ==
    LET a == PagerAlloc(st)
    IN  IF a.pn = 0 THEN a
        ELSE [pn |-> a.pn, st |-> SetPage(a.st, a.pn, st.pages[src])]

\* Mutant of Retarget: the child is not compared.
RetargetAll(page, old, new) ==
    [page EXCEPT !.rest.ents = [i \in DOMAIN @ |-> [@[i] EXCEPT !.l = new, !.r = new]]]

\* The loops over a parent's entries that replace one child by another.
Retarget(page, old, new) ==
    LET ents     == page.rest.ents
        child(c) == IF c = old THEN new ELSE c
    IN  [page EXCEPT !.rest.ents =
           [i \in DOMAIN ents |-> [ents[i] EXCEPT !.l = child(@), !.r = child(@)]]]

Result(st, root, rc) == [st |-> st, root |-> root, rc |-> rc]

\* Mutant of SwapLeaf: the old parent is not freed.
SwapLeafKeepsParent(st, path, new) ==
    LET old    == Last(path)
        parent == path[Len(path) - 1]
        c      == AllocCopy(st, parent)
        s      == SetPage(c.st, c.pn, Retarget(c.st.pages[c.pn], old, new))
    IN  IF Len(path) = 1 THEN [pn |-> new, st |-> PagerFree(st, old)]
        ELSE IF c.pn = 0 THEN c
        ELSE [pn |-> c.pn, st |-> PagerFree(s, old)]

\* Mutant of SwapLeaf: the copied parent keeps pointing to the old leaf.
SwapLeafNoRetarget(st, path, new) ==
    LET c == AllocCopy(st, path[Len(path) - 1])
    IN  IF Len(path) = 1 THEN [pn |-> new, st |-> PagerFree(st, Last(path))]
        ELSE IF c.pn = 0 THEN c
        ELSE [pn |-> c.pn, st |-> PagerFree(PagerFree(c.st, Last(path)),
                                            path[Len(path) - 1])]

\* Mutant of SwapLeaf: the old leaf is freed also when the parent cannot be
\* copied.
SwapLeafFreesOnFailure(st, path, new) ==
    LET old    == Last(path)
        parent == path[Len(path) - 1]
        c      == AllocCopy(st, parent)
        s      == SetPage(c.st, c.pn, Retarget(c.st.pages[c.pn], old, new))
    IN  IF Len(path) = 1 THEN [pn |-> new, st |-> PagerFree(st, old)]
        ELSE IF c.pn = 0 THEN [c EXCEPT !.st = PagerFree(@, old)]
        ELSE [pn |-> c.pn, st |-> PagerFree(PagerFree(s, old), parent)]

\* Putting page `new' in the place of the leaf at the end of `path': it is the
\* new root, or the parent (and no page above it) is copied and becomes the
\* root.  The pages replaced are freed.  pn is the new root, 0 when there is
\* no page for the copy.
SwapLeaf(st, path, new) ==
    LET old    == Last(path)
        parent == path[Len(path) - 1]
        c      == AllocCopy(st, parent)
        s      == SetPage(c.st, c.pn, Retarget(c.st.pages[c.pn], old, new))
    IN  IF Len(path) = 1 THEN [pn |-> new, st |-> PagerFree(st, old)]
        ELSE IF c.pn = 0 THEN c
        ELSE [pn |-> c.pn, st |-> PagerFree(PagerFree(s, old), parent)]

----------------------------------------------------------------------------
(* btree_create, btree_insert, btree_delete *)

Create(st) ==
    LET a == PagerAlloc(st)
    IN  IF a.pn = 0 THEN Result(st, 0, -1)
        ELSE Result(SetPage(a.st, a.pn, Leaf(0, <<>>)), a.pn, 0)

\* The key is there with a value of the same size: overwritten in place.
ReplaceInPlace(st, root, path, e) ==
    LET leaf == st.pages[Last(path)]
    IN  Result(SetPage(st, Last(path),
                       [leaf EXCEPT !.rest.ents[SlotOf(Ents(leaf), e.k)] = e]),
               root, 0)

\* The key is there with a value of another size: the leaf is rebuilt on a new
\* page.  When the parent cannot be copied the new page is not given back.
ReplaceRebuild(st, root, path, e) ==
    LET pos  == SlotOf(Ents(st.pages[Last(path)]), e.k)
        a    == PagerAlloc(st)
        leaf == a.st.pages[Last(path)]
        s    == SetPage(a.st, a.pn,
                        Leaf(leaf.rest.next, Rebuild([Ents(leaf) EXCEPT ![pos] = e])))
        up   == SwapLeaf(s, path, a.pn)
    IN  IF a.pn = 0 THEN Result(st, root, -1)
        ELSE IF up.pn = 0 THEN Result(up.st, root, -1)
        ELSE Result(up.st, up.pn, 0)

\* The key is new and the leaf has room: inserted into a copy of the leaf.
InsertFits(st, root, path, e) ==
    LET a  == AllocCopy(st, Last(path))
        s  == SetPage(a.st, a.pn,
                      [a.st.pages[a.pn] EXCEPT !.rest.ents = InsertAt(@, SlotOf(@, e.k), e)])
        up == SwapLeaf(s, path, a.pn)
    IN  IF a.pn = 0 THEN Result(st, root, -1)
        ELSE IF up.pn = 0 THEN Result(PagerFree(up.st, a.pn), root, -1)
        ELSE Result(up.st, up.pn, 0)

\* The two halves of a full leaf in a new parent, at depth 1.
SplitRoot(st, left, right, key) ==
    LET r == PagerAlloc(st)
    IN  Result(SetPage(r.st, r.pn, Branch(<<[k |-> key, l |-> left, r |-> right]>>)),
               r.pn, 0)

\* The separator goes into a copy of the parent, which becomes the root; the
\* leaf, freed by the caller, is freed here again.  A parent without room is
\* replaced by a root without entries.
SplitBelow(st, path, left, right, key) ==
    LET leafPn == Last(path)
        parent == path[Len(path) - 1]
        c      == AllocCopy(st, parent)
        ents   == Retarget(c.st.pages[c.pn], leafPn, left).rest.ents
        at     == {i \in DOMAIN ents : left \in {ents[i].l, ents[i].r}}
        pos    == IF at = {} THEN Len(ents) + 1
                  ELSE 1 + CHOOSE i \in at : \A j \in at : j <= i
        s      == SetPage(c.st, c.pn,
                     Branch(InsertAt(ents, pos, [k |-> key, l |-> left, r |-> right])))
        d      == PagerAlloc(c.st)
        n      == PagerAlloc(d.st)
        t      == SetPage(SetPage(n.st, d.pn, Branch(<<>>)), n.pn, Branch(<<>>))
    IN  IF Len(ents) < BranchCap
        THEN Result(PagerFree(PagerFree(s, leafPn), parent), c.pn, 0)
        ELSE IF n.pn = 0 THEN Result(st, 0, Fault)
        ELSE Result(PagerFree(PagerFree(t, parent), leafPn), n.pn, 0)

\* Mutant of Halves: the right half starts one entry late.
HalvesDropMiddle(all) ==
    LET mid == Len(all) \div 2
    IN  [left |-> SubSeq(all, 1, mid), right |-> SubSeq(all, mid + 2, Len(all)),
         key |-> all[mid + 1].k]

\* How a split divides the entries, by number; the separator is the first key
\* of the right half.
Halves(all) ==
    LET mid == Len(all) \div 2
    IN  [left |-> SubSeq(all, 1, mid), right |-> SubSeq(all, mid + 1, Len(all)),
         key |-> all[mid + 1].k]

\* The key is new and the leaf is full: its entries and the new one are divided
\* between two new leaves.  There is no check that the page for the left half
\* was found: without it the header page is initialised as a node.
InsertSplit(st, root, path, e) ==
    LET leafPn == Last(path)
        pos    == SlotOf(Ents(st.pages[leafPn]), e.k)
        a      == PagerAlloc(st)
        half   == Halves(InsertAt(Ents(a.st.pages[leafPn]), pos, e))
        b      == AllocCopy(a.st, leafPn)
        s      == SetPage(SetPage(b.st, b.pn, Leaf(a.pn, Rebuild(half.left))),
                     a.pn, Leaf(b.st.pages[leafPn].rest.next, Rebuild(half.right)))
        freed  == PagerFree(s, leafPn)
    IN  IF a.pn = 0 THEN Result(st, root, -1)
        ELSE IF b.pn = 0 THEN Result(st, root, Fault)
        ELSE IF Len(path) = 1 THEN SplitRoot(freed, b.pn, a.pn, half.key)
        ELSE SplitBelow(freed, path, b.pn, a.pn, half.key)

\* btree_insert.  An empty tree is created first; when that fails the code goes
\* on with page 0 as the root.
Insert(st0, root0, k, v) ==
    LET new  == Create(st0)
        st   == IF root0 = 0 THEN new.st ELSE st0
        root == IF root0 = 0 THEN new.root ELSE root0
        path == Path(st, root, k)
        leaf == st.pages[Last(path)]
        e    == [k |-> k, v |-> v]
    IN  CASE Last(path) \notin PageNos(st) -> Result(st, root, Fault)
          [] Last(path) \in PageNos(st) /\ ~IsLeaf(leaf) -> Result(st, root, -1)
          [] OTHER ->
               IF Holds(Ents(leaf), k)
               THEN IF Size[Ents(leaf)[SlotOf(Ents(leaf), k)].v] = Size[v]
                    THEN ReplaceInPlace(st, root, path, e)
                    ELSE ReplaceRebuild(st, root, path, e)
               ELSE IF HasRoom(leaf, e) THEN InsertFits(st, root, path, e)
                    ELSE InsertSplit(st, root, path, e)

\* The copies of the parents, from the leaf's parent up to the root, each with
\* the new page in the place of the old one and each old page freed.
CopyParents(st, path, new) ==
    LET up[i \in 0 .. Len(path) - 1] ==
          IF i = 0 THEN [st |-> PagerFree(st, Last(path)), old |-> Last(path), pn |-> new]
          ELSE LET u   == up[i - 1]
                   src == path[Len(path) - i]
                   c   == AllocCopy(u.st, src)
                   s   == SetPage(c.st, c.pn, Retarget(c.st.pages[c.pn], u.old, u.pn))
               IN  IF u.pn = 0 \/ c.pn = 0 THEN [u EXCEPT !.pn = 0]
                   ELSE [st |-> PagerFree(s, src), old |-> src, pn |-> c.pn]
    IN  up[Len(path) - 1]

\* btree_delete
Delete(st, root, k) ==
    LET path == Path(st, root, k)
        at   == Last(path)
        a    == PagerAlloc(st)
        leaf == a.st.pages[at]
        s    == SetPage(a.st, a.pn,
                   Leaf(leaf.rest.next, RemoveAt(Ents(leaf), SlotOf(Ents(leaf), k))))
        up   == CopyParents(s, path, a.pn)
    IN  IF \/ at \notin PageNos(st)
           \/ ~IsLeaf(st.pages[at])
           \/ ~Holds(Ents(st.pages[at]), k)
           \/ a.pn = 0
        THEN Result(st, root, -1)
        ELSE IF up.pn = 0 THEN Result(up.st, root, -1)
        ELSE Result(up.st, up.pn, 0)

=============================================================================
