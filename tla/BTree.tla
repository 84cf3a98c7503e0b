------------------------------- MODULE BTree -------------------------------
(***************************************************************************)
(* One B+Tree in a page file that other trees share: every sequence of     *)
(* btree_create, btree_insert and btree_delete calls, with the page file   *)
(* running full while other trees take pages.  The operators are in        *)
(* BTreeOps.                                                               *)
(*                                                                         *)
(* Two bounds keep histories inside what the tree supports, so that what   *)
(* it does guarantee can be stated: MaxSplits leaf splits, and, unless     *)
(* Overfill, no replacement by a longer value that no longer fits its leaf.*)
(* The violation runs lift one of them each.                               *)
(***************************************************************************)
EXTENDS BTreeView

CONSTANTS
    FreshPages,  \* free pages of the store at the start
    MaxOther,    \* pages other trees take
    MaxSplits,   \* leaf splits in a history
    Overfill     \* whether a replacement may overfill its leaf

ASSUME StartAssumption == /\ FreshPages \in Nat /\ FreshPages < MaxPages
                          /\ MaxSplits \in Nat

VARIABLES
    store,   \* the page file
    root,    \* the caller's root page, 0 before the first insert
    op,      \* the last call and what it returned
    other,   \* the roots of other trees
    splits,  \* number of leaf splits
    fault    \* a page that does not exist was used

vars == <<store, root, op, other, splits, fault>>

Init == /\ store = [head  |-> FreshPages,
                    pages |-> [i \in 1 .. FreshPages |-> [ZeroPage EXCEPT !.word = i - 1]]]
        /\ root = 0
        /\ op = [kind |-> "none", k |-> 0, v |-> None, rc |-> 0]
        /\ other = {}
        /\ splits = 0
        /\ fault = FALSE

\* btree_create by CREATE TABLE; a failure leaves the root 0.
CreateTree == /\ ~fault
              /\ root = 0
              /\ store' = Create(store).st
              /\ root' = Create(store).root
              /\ UNCHANGED <<op, other, splits, fault>>

InsertKey(k, v) ==
    LET r == Insert(store, root, k, v)
    IN  /\ ~fault
        /\ MustSplit(store, root, k, v) => splits < MaxSplits
        /\ Overfills(store, root, k, v) => Overfill
        /\ IF r.rc = Fault
           THEN /\ fault' = TRUE
                /\ UNCHANGED <<store, root, op, other, splits>>
           ELSE /\ store' = r.st
                /\ root' = r.root
                /\ op' = [kind |-> "insert", k |-> k, v |-> v, rc |-> r.rc]
                /\ splits' = splits + IF MustSplit(store, root, k, v) /\ r.rc = 0 THEN 1 ELSE 0
                /\ UNCHANGED <<other, fault>>

DeleteKey(k) ==
    LET r == Delete(store, root, k)
    IN  /\ ~fault
        /\ store' = r.st
        /\ root' = r.root
        /\ op' = [kind |-> "delete", k |-> k, v |-> None, rc |-> r.rc]
        /\ UNCHANGED <<other, splits, fault>>

\* Another table's tree is created in the same file.
OtherCreate == LET r == Create(store)
               IN  /\ ~fault
                   /\ Cardinality(other) < MaxOther
                   /\ r.rc = 0
                   /\ store' = r.st
                   /\ other' = other \cup {r.root}
                   /\ UNCHANGED <<root, op, splits, fault>>

Next == \/ CreateTree
        \/ \E k \in Keys, v \in Values : InsertKey(k, v)
        \/ \E k \in Keys : DeleteKey(k)
        \/ OtherCreate

Spec == Init /\ [][Next]_vars

----------------------------------------------------------------------------
(* Properties. *)

Node == [word : Int, rest : [next : Nat, ents : Seq([k : Keys, v : Values]
                                        \cup [k : Keys, l : Nat, r : Nat])]]

\* Types of the variables.
TypeOK == /\ store \in [head : Nat, pages : Seq(Node)]
          /\ Len(store.pages) < MaxPages
          /\ root \in 0 .. Len(store.pages)
          /\ op.rc \in {0, -1}
          /\ other \subseteq PageNos(store)
          /\ splits \in 0 .. MaxSplits
          /\ fault \in BOOLEAN

\* No page is part of the tree (or of another tree) and on the free list, and
\* the free list ends: pages are freed once, after the last use (btree.c frees
\* each replaced page by hand on every path).
NoPageLiveAndFree ==
    /\ FreeListEnds(store)
    /\ FreeSet(store) \cap (Reachable(store, root) \cup other) = {}
    /\ Reachable(store, root) \cap other = {}

\* The tree is a search tree: leaves are sorted and hold what their range in
\* the parent allows, no leaf exceeds a page, a branch has entries.
SearchTree ==
    \A pn \in Reachable(store, root) :
       LET page == store.pages[pn]
           ents == Ents(page)
       IN  /\ page.word \in {LeafWord, BranchWord}
           /\ SortedByKey(ents)
           /\ page.word = LeafWord => Fill(ents) <= LeafCap
           /\ page.word = BranchWord =>
                /\ ents # <<>>
                /\ \A e \in ToSet(ents) :
                      /\ \A f \in ToSet(Ents(store.pages[e.l])) : f.k < e.k
                      /\ \A f \in ToSet(Ents(store.pages[e.r])) : f.k >= e.k

\* The tree implements a map: whatever is inserted is found with the value last
\* inserted, what is deleted is gone, no other key is affected, and a call that
\* returns -1 has changed nothing the caller can see.
Map == INSTANCE KVMap WITH map <- Contents(store, root)
ImplementsMap == Map!Spec

\* A call leaks a page only when it fails: after a call that returned 0 every
\* page is in a tree or free unless it was lost before.
LeaksOnlyOnFailure ==
    op'.rc = 0 =>
        Leaked(store', root', other') \subseteq Leaked(store, root, other)
LeakOnlyOnFailure == [][LeaksOnlyOnFailure]_vars

\* A call rewrites only the pages on the path from the root to the leaf of its
\* key: every other page of the tree stays in it as it was.
OffPathKept ==
    op'.rc = 0 =>
        \A pn \in Reachable(store, root) \ ToSet(Path(store, root, op'.k)) :
            pn \in Reachable(store', root') /\ store'.pages[pn] = store.pages[pn]
OnlyPathRewritten == [][OffPathKept]_vars

\* The trees of other tables keep their pages and what is on them.
OthersKept == \A pn \in other : pn \in other' /\ store'.pages[pn] = store.pages[pn]
OtherTreesUntouched == [][OthersKept]_vars

\* A page that does not exist is used only when the file is full: when the tree
\* has no page yet and none is to be had, or when a leaf must be split and
\* there is one page for the two halves.
PagesLeft == Cardinality(FreeSet(store)) + MaxPages - 1 - Len(store.pages)
FaultsWhenFull ==
    fault' /\ ~fault => \/ root = 0 /\ PagesLeft = 0
                        \/ root # 0 /\ PagesLeft = 1
FaultOnlyWhenFull == [][FaultsWhenFull]_vars

\* A page of the file is a node of some tree or a free page, never both and
\* never one twice: the layout docs/file-format.md states.  It fails with the
\* second split of a history (btree.c frees the divided leaf twice).
PageHasOneUse ==
    /\ FreeListEnds(store)
    /\ FreeSet(store) \cap (Reachable(store, root) \cup other) = {}

\* Replacing the value of a key leaves every other key alone ("remove old then
\* insert", btree.c:181).  It fails when the new value no longer fits: the
\* rebuilt leaf drops what does not fit and the call returns 0.
OnlyItsKeyReplaced ==
    op'.kind = "insert" /\ op'.rc = 0 /\ Search(store, root, op'.k) # None =>
        \A k \in Keys \ {op'.k} :
            Search(store', root', k) = Search(store, root, k)
ReplaceKeepsOtherKeys == [][OnlyItsKeyReplaced]_vars

\* As long as the leaves are linked, a scan yields exactly what searches find,
\* in key order.
ScanIsExact ==
    LeavesLinked(store, root) =>
        /\ SortedByKey(Scan(store, root))
        /\ ToSet(Scan(store, root)) =
              {e \in [k : Keys, v : Values] : Search(store, root, e.k) = e.v}

\* The links break only when a leaf that has a leaf before it is replaced: no
\* operation updates next_leaf of the leaf before.
BrokenByRightLeaf ==
    LeavesLinked(store, root) /\ ~LeavesLinked(store', root')
    => Last(Path(store, root, op'.k)) # Leftmost(store, root)
LinksBreakOnlyOnRightLeaf == [][BrokenByRightLeaf]_vars

=============================================================================
