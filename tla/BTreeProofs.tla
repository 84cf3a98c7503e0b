---------------------------- MODULE BTreeProofs ----------------------------
(***************************************************************************)
(* BTree for every file size, set of keys and values, and node capacity,   *)
(* in histories of at most one split: its pages, the order of its entries  *)
(* and the map it stands for, the chain of leaves, what a scan along it    *)
(* yields and when its links break.                                        *)
(***************************************************************************)
EXTENDS BTree, BTreeLemmas

----------------------------------------------------------------------------
(* The invariant: pages that hold nodes are not on the free list, and the    *)
(* tree has pages of its own.  Until the first split it is a leaf.           *)

TreeInv ==
    /\ Good(store) /\ SmallTree(store, root)
    /\ \A pn \in other : LeafAt(store, pn)
    /\ TreePages(store, root) \cap other = {}
    /\ op.rc \in {0, -1}
    /\ splits \in 0 .. MaxSplits
    /\ splits = 0 => Whole(store, root)
    /\ fault \in BOOLEAN

\* What the other trees keep.
LEMMA OthersSound ==
  ASSUME TreeInv, NEW st2, NEW r2, Sound(store, root, st2, r2)
  PROVE  /\ \A pn \in other : LeafAt(st2, pn) /\ st2.pages[pn] = store.pages[pn]
         /\ TreePages(st2, r2) \cap other = {}
<1>1. other \subseteq Used(store) \ TreePages(store, root)
  BY DEF TreeInv, LeafAt, Used
<1>2. \A pn \in other : pn \in Used(st2) /\ st2.pages[pn] = store.pages[pn]
  BY <1>1 DEF Sound
<1>3. \A pn \in other : LeafAt(st2, pn)
  BY <1>2 DEF TreeInv, LeafAt, Used
<1>4. QED
  BY <1>1, <1>2, <1>3 DEF Sound

\* The actions.
LEMMA InsertStep ==
  ASSUME MaxSplits <= 1, TreeInv, NEW k \in Keys, NEW v \in Values, InsertKey(k, v)
  PROVE  LET res == Insert(store, root, k, v)
         IN  /\ Inserted(store, root, [k |-> k, v |-> v], res)
             /\ MustSplit(store, root, k, v) => splits = 0 /\ splits < MaxSplits
<1>1. MustSplit(store, root, k, v) => splits < MaxSplits
  BY DEF InsertKey
<1>2. MustSplit(store, root, k, v) => splits = 0 /\ splits < MaxSplits
  BY <1>1, StartAssumption DEF TreeInv
<1>3. MustSplit(store, root, k, v) => LeafAt(store, root)
  <2>1. MustSplit(store, root, k, v) => root # 0
    BY DEF MustSplit, OnLeaf
  <2>2. QED
    BY <1>2, <2>1 DEF TreeInv, Whole
<1>4. QED
  BY <1>2, <1>3, InsertCall DEF TreeInv

LEMMA InitInv ==
  ASSUME Init
  PROVE  TreeInv
<1>1. store = FreshFile(FreshPages)
  BY DEF Init, FreshFile
<1>2. Good(store)
  BY <1>1, FreshGood, StartAssumption
<1>3. root = 0 /\ op.rc = 0 /\ other = {} /\ splits = 0 /\ fault = FALSE
  BY DEF Init
<1>4. MaxSplits \in Nat
  BY StartAssumption
<1>5. SmallTree(store, root) /\ Whole(store, root) /\ splits \in 0 .. MaxSplits
  BY <1>3, <1>4 DEF SmallTree, Whole
<1>6. /\ \A pn \in other : LeafAt(store, pn)
       /\ TreePages(store, root) \cap other = {}
  BY <1>3
<1>7. QED
  BY <1>2, <1>3, <1>5, <1>6 DEF TreeInv

\* A step of the tree's own calls, by what it makes of the tree.
LEMMA TreeMoves ==
  ASSUME TreeInv, Sound(store, root, store', root'), other' = other, fault' \in BOOLEAN,
         op'.rc \in {0, -1}, splits' \in 0 .. MaxSplits, splits' = 0 => Whole(store', root')
  PROVE  TreeInv'
<1>1. /\ \A pn \in other' : LeafAt(store', pn)
      /\ TreePages(store', root') \cap other' = {}
  BY OthersSound
<1>2. QED
  BY <1>1 DEF TreeInv, Sound

LEMMA InsertInv ==
  ASSUME MaxSplits <= 1, TreeInv, NEW k \in Keys, NEW v \in Values, InsertKey(k, v)
  PROVE  TreeInv'
<1> DEFINE res == Insert(store, root, k, v)
           e   == [k |-> k, v |-> v]
           must == MustSplit(store, root, k, v)
<1>1. Inserted(store, root, e, res) /\ (must => splits = 0 /\ splits < MaxSplits)
  BY InsertStep
<1>2. k \in Nat /\ e.k = k /\ e.v = v
  BY KeysAssumption
<1>3. Good(store) /\ SmallTree(store, root)
  BY DEF TreeInv
<1>4. IF res.rc = Fault
      THEN fault' = TRUE /\ UNCHANGED <<store, root, op, other, splits>>
      ELSE /\ store' = res.st /\ root' = res.root
           /\ op' = [kind |-> "insert", k |-> k, v |-> v, rc |-> res.rc]
           /\ splits' = splits + IF must /\ res.rc = 0 THEN 1 ELSE 0
           /\ UNCHANGED <<other, fault>>
  BY DEF InsertKey
<1>5. \/ /\ res.rc = 0 /\ Rewritten(store, root, Path(store, root, k), res.st, res.root)
         /\ must \/ (Whole(store, root) => Whole(res.st, res.root))
      \/ res.rc = -1 /\ Same(store, root, res.st, res.root)
      \/ res.rc = Fault
  BY <1>1, <1>2 DEF Inserted, Edited, Whole
<1>6. MaxSplits \in Nat
  BY StartAssumption
<1> HIDE DEF res, e, must
<1>7. CASE res.rc = Fault
  <2>1. fault' = TRUE /\ UNCHANGED <<store, root, op, other, splits>>
    BY <1>4, <1>7
  <2>2. QED
    BY <2>1 DEF TreeInv
<1>8. CASE res.rc # Fault
  <2>1. /\ store' = res.st /\ root' = res.root /\ op'.rc = res.rc
        /\ splits' = splits + IF must /\ res.rc = 0 THEN 1 ELSE 0
        /\ other' = other /\ fault' = fault
    BY <1>4, <1>8
  <2>2. splits' \in 0 .. MaxSplits /\ fault' \in BOOLEAN /\ op'.rc \in {0, -1}
    BY <1>1, <1>5, <1>6, <1>8, <2>1 DEF TreeInv
  <2>3. Sound(store, root, store', root')
    BY <1>2, <1>3, <1>5, <1>8, <2>1, RewrittenSound, SameSound
  <2>4. splits' = 0 => Whole(store', root')
    <3>1. splits' = 0 => splits = 0 /\ ~(must /\ res.rc = 0)
      BY <1>1, <1>6, <2>1 DEF TreeInv
    <3>2. splits = 0 => Whole(store, root)
      BY DEF TreeInv
    <3>3. QED
      BY <1>3, <1>5, <1>8, <2>1, <3>1, <3>2, SameSound
  <2>5. QED
    BY <2>1, <2>2, <2>3, <2>4, TreeMoves
<1>9. QED
  BY <1>7, <1>8

LEMMA DeleteInv ==
  ASSUME TreeInv, NEW k \in Keys, DeleteKey(k)
  PROVE  TreeInv'
<1> DEFINE res == Delete(store, root, k)
<1>1. Good(store) /\ SmallTree(store, root) /\ k \in Nat
  BY KeysAssumption DEF TreeInv
<1>2. Deleted(store, root, k, res)
  BY <1>1, DeleteCall
<1>3. /\ store' = res.st /\ root' = res.root /\ op'.rc = res.rc
      /\ other' = other /\ splits' = splits /\ fault' = fault
  BY DEF DeleteKey
<1> HIDE DEF res
<1>4. \/ /\ res.rc = 0 /\ Rewritten(store, root, Path(store, root, k), res.st, res.root)
         /\ Whole(store, root) => Whole(res.st, res.root)
      \/ res.rc = -1 /\ Same(store, root, res.st, res.root)
  BY <1>2 DEF Deleted, Edited, Whole, Same
<1>5. Sound(store, root, store', root') /\ (Whole(store, root) => Whole(store', root'))
  BY <1>1, <1>3, <1>4, RewrittenSound, SameSound
<1>6. QED
  BY <1>3, <1>4, <1>5, TreeMoves DEF TreeInv

LEMMA CreateInv ==
  ASSUME TreeInv, CreateTree
  PROVE  TreeInv'
<1> DEFINE new == Create(store)
<1>1. Good(store) /\ Created(store, new)
  BY CreateOutcome DEF TreeInv
<1>2. root = 0 /\ store' = new.st /\ root' = new.root /\ UNCHANGED <<op, other, splits, fault>>
  BY DEF CreateTree
<1> HIDE DEF new
<1>3. Same(store, root, store', root')
  <2>1. CASE new.root = 0
    BY <1>1, <1>2, <2>1, CreatedKept DEF Same
  <2>2. CASE new.root # 0
    <3>1. /\ new.root \notin Used(store) /\ Good(new.st) /\ Used(new.st) = Used(store) \cup {new.root}
          /\ new.st.pages[new.root] = Leaf(0, <<>>)
          /\ \A pn \in Used(store) : new.st.pages[pn] = store.pages[pn]
      BY <1>1, <2>2 DEF Created
    <3>2. LeafAt(new.st, new.root) /\ Ents(new.st.pages[new.root]) = <<>> /\ NextOf(new.st, new.root) = 0
      BY <3>1 DEF LeafAt, Used, Leaf, Ents, LeafWord, NextOf
    <3>3. QED
      BY <1>2, <3>1, <3>2 DEF Same
  <2>3. QED
    BY <2>1, <2>2
<1>4. Sound(store, root, store', root') /\ (Whole(store, root) => Whole(store', root'))
  BY <1>1, <1>3, SameSound DEF TreeInv
<1>5. op' = op /\ other' = other /\ splits' = splits /\ fault' = fault
  BY <1>2
<1>6. QED
  BY <1>4, <1>5, TreeMoves DEF TreeInv

LEMMA OtherInv ==
  ASSUME TreeInv, OtherCreate
  PROVE  TreeInv'
<1> DEFINE new == Create(store)
<1>1. Good(store) /\ SmallTree(store, root) /\ Created(store, new)
  BY CreateOutcome DEF TreeInv
<1>2. /\ new.rc = 0 /\ store' = new.st /\ other' = other \cup {new.root}
      /\ UNCHANGED <<root, op, splits, fault>>
  BY DEF OtherCreate
<1> HIDE DEF new
<1>3. /\ new.root \notin Used(store) /\ Used(new.st) = Used(store) \cup {new.root}
      /\ new.st.pages[new.root] = Leaf(0, <<>>)
  BY <1>1, <1>2 DEF Created
<1>4. Kept(store, new.st)
  BY <1>1, CreatedKept
<1>5. /\ SmallTree(new.st, root) /\ TreePages(new.st, root) = TreePages(store, root)
      /\ LeafAt(store, root) <=> LeafAt(new.st, root)
      /\ \A pn : LeafAt(store, pn) => LeafAt(new.st, pn)
  BY <1>1, <1>4, TreeKept
<1>6. LeafAt(new.st, new.root)
  BY <1>3 DEF LeafAt, Used, Leaf
<1>7. TreePages(store, root) \subseteq Used(store)
  BY <1>1, TreeUsed
<1>8. Good(new.st)
  BY <1>4 DEF Kept
<1>9. QED
  BY <1>2, <1>3, <1>5, <1>6, <1>7, <1>8 DEF TreeInv, Whole

LEMMA NextInv ==
  ASSUME MaxSplits <= 1, TreeInv, [Next]_vars
  PROVE  TreeInv'
<1>1. CASE UNCHANGED vars
  BY <1>1 DEF vars, TreeInv
<1>2. CASE CreateTree
  BY <1>2, CreateInv
<1>3. ASSUME NEW k \in Keys, NEW v \in Values, InsertKey(k, v) PROVE TreeInv'
  BY <1>3, InsertInv
<1>4. ASSUME NEW k \in Keys, DeleteKey(k) PROVE TreeInv'
  BY <1>4, DeleteInv
<1>5. CASE OtherCreate
  BY <1>5, OtherInv
<1>6. QED
  BY <1>1, <1>2, <1>3, <1>4, <1>5 DEF Next

\* In a history of at most one split, whatever the file holds and however full
\* it is, the pages in use are those that hold nodes.
THEOREM TreeInvariant ==
  ASSUME MaxSplits <= 1
  PROVE  Spec => []TreeInv
<1>1. Init => TreeInv
  BY InitInv
<1>2. TreeInv /\ [Next]_vars => TreeInv'
  BY NextInv
<1>3. QED
  BY <1>1, <1>2, PTL DEF Spec

----------------------------------------------------------------------------
(* What the invariant says in terms of the free list and of the pages that   *)
(* can be reached.                                                           *)

LEMMA InUse ==
  ASSUME TreeInv
  PROVE  /\ FreeListEnds(store) /\ FreeSet(store) = Unused(store)
         /\ Reachable(store, root) = TreePages(store, root)
         /\ Used(store) \cap Unused(store) = {} /\ Used(store) \cup Unused(store) = PageNos(store)
         /\ TreePages(store, root) \subseteq Used(store)
         /\ other \subseteq Used(store)
         /\ Leaked(store, root, other) = Used(store) \ (TreePages(store, root) \cup other)
<1>1. Good(store) /\ SmallTree(store, root) /\ store \in StoresOf(NodePage)
  BY DEF TreeInv, Good, Listed
<1>2. FreeListEnds(store) /\ FreeSet(store) = Unused(store)
  BY <1>1, FreeSetOfGood
<1>3. Reachable(store, root) = TreePages(store, root)
  BY <1>1, ReachableOfTree
<1>4. Used(store) \cap Unused(store) = {} /\ Used(store) \cup Unused(store) = PageNos(store)
  BY <1>1, NodeTypes DEF Used, Unused, LeafWord, BranchWord
<1>5. TreePages(store, root) \subseteq Used(store)
  BY <1>1, TreeUsed
<1>6. other \subseteq Used(store)
  BY DEF TreeInv, LeafAt, Used
<1>7. QED
  BY <1>2, <1>3, <1>4, <1>5, <1>6 DEF Leaked

\* Every variable keeps its type: page numbers stay within the file, which
\* stays within its limit.
THEOREM TypeCorrect ==
  ASSUME MaxSplits <= 1
  PROVE  Spec => []TypeOK
<1>1. TreeInv => TypeOK
  <2>1. HAVE TreeInv
  <2>2. /\ store \in StoresOf(NodePage) /\ Len(store.pages) < MaxPages /\ SmallTree(store, root)
    BY <2>1 DEF TreeInv, Good, Listed
  <2>3. /\ store.pages \in Seq(NodePage) /\ store.head \in Nat /\ Len(store.pages) \in Nat
        /\ PageNos(store) = 1 .. Len(store.pages)
        /\ store = [head |-> store.head, pages |-> store.pages]
    BY <2>2, StoreTypes
  <2>4. NodePage \subseteq Node
    <3> DEFINE Both == [k : Keys, v : Values] \cup [k : Keys, l : Nat, r : Nat]
    <3>1. Seq(LeafEntry) \subseteq Seq(Both) /\ Seq(BranchEntry) \subseteq Seq(Both)
      <4>1. LeafEntry \subseteq Both /\ BranchEntry \subseteq Both
        BY DEF LeafEntry, BranchEntry
      <4> HIDE DEF Both
      <4>2. QED
        BY <4>1, SeqMonotonic
    <3> HIDE DEF Both
    <3>2. Nat \cup {LeafWord, BranchWord} \subseteq Int
      BY DEF LeafWord, BranchWord
    <3> DEFINE Words == Nat \cup {LeafWord, BranchWord}
               Lists == Seq(LeafEntry) \cup Seq(BranchEntry)
    <3>3. Words \subseteq Int /\ Lists \subseteq Seq(Both)
      BY <3>1, <3>2
    <3>4. ASSUME NEW page \in NodePage
          PROVE  page \in [word : Int, rest : [next : Nat, ents : Seq(Both)]]
      <4>1. page \in [word : Words, rest : [next : Nat, ents : Lists]]
        BY DEF NodePage
      <4> HIDE DEF Words, Lists
      <4>2. QED
        BY <3>3, <4>1
    <3>5. QED
      BY <3>4 DEF Node, Both
  <2>5. store.pages \in Seq(Node)
    BY <2>3, <2>4, SeqMonotonic
  <2>6. root \in 0 .. Len(store.pages)
    BY <2>2, <2>3 DEF SmallTree, LeafAt, ForkAt
  <2>7. other \subseteq PageNos(store)
    BY <2>1 DEF TreeInv, LeafAt
  <2>8. store \in [head : Nat, pages : Seq(Node)]
    BY <2>3, <2>5
  <2>9. op.rc \in {0, -1} /\ splits \in 0 .. MaxSplits /\ fault \in BOOLEAN
    BY <2>1 DEF TreeInv
  <2>10. QED
    BY <2>2, <2>6, <2>7, <2>8, <2>9 DEF TypeOK
<1>2. QED
  BY <1>1, TreeInvariant, PTL

\* The pages freed by hand on every path of btree_insert and btree_delete are
\* those that no tree uses any more, and each is freed once.
THEOREM LiveOrFree ==
  ASSUME MaxSplits <= 1
  PROVE  Spec => []NoPageLiveAndFree
<1>1. TreeInv => NoPageLiveAndFree
  <2>1. HAVE TreeInv
  <2>2. /\ FreeListEnds(store) /\ FreeSet(store) = Unused(store)
        /\ Reachable(store, root) = TreePages(store, root)
        /\ Used(store) \cap Unused(store) = {}
        /\ TreePages(store, root) \subseteq Used(store) /\ other \subseteq Used(store)
    BY <2>1, InUse
  <2>3. TreePages(store, root) \cap other = {}
    BY <2>1 DEF TreeInv
  <2>4. QED
    BY <2>2, <2>3 DEF NoPageLiveAndFree
<1>2. QED
  BY <1>1, TreeInvariant, PTL

----------------------------------------------------------------------------
(* What a step may do, by kind: a call that finds no page, one that returns  *)
(* 0, one that returns -1, the creation of the tree and that of another.     *)

Faulted == /\ fault' = TRUE /\ Full(store, root)
           /\ UNCHANGED <<store, root, op, other, splits>>
Called == /\ op'.rc = 0 /\ op'.k \in Nat
          /\ Rewritten(store, root, Path(store, root, op'.k), store', root')
          /\ other' = other /\ fault' = fault
Failed == /\ op'.rc = -1 /\ Same(store, root, store', root')
          /\ other' = other /\ fault' = fault
Began == /\ root = 0 /\ Same(store, root, store', root')
         /\ \/ store' = store /\ root' = 0
            \/ root' # 0 /\ Used(store') = Used(store) \cup {root'}
         /\ other' = other /\ fault' = fault
Joined == \E new : /\ new \notin Used(store) /\ Used(store') = Used(store) \cup {new}
                   /\ Kept(store, store') /\ root' = root
                   /\ other' = other \cup {new} /\ fault' = fault

LEMMA NextMoves ==
  ASSUME MaxSplits <= 1, TreeInv, Next
  PROVE  Faulted \/ Called \/ Failed \/ Began \/ Joined
<1>0. Good(store) /\ SmallTree(store, root)
  BY DEF TreeInv
<1>1. CASE CreateTree
  <2> DEFINE new == Create(store)
  <2>1. Created(store, new)
    BY <1>0, CreateOutcome
  <2>2. root = 0 /\ store' = new.st /\ root' = new.root /\ other' = other /\ fault' = fault
    BY <1>1 DEF CreateTree
  <2> HIDE DEF new
  <2>3. CASE new.root = 0
    <3>1. new.st = store
      BY <2>1, <2>3 DEF Created
    <3>2. Began
      BY <1>0, <2>2, <2>3, <3>1, KeptSame DEF Began, Same
    <3>3. QED
      BY <3>2
  <2>4. CASE new.root # 0
    <3>1. /\ new.root \notin Used(store) /\ Good(new.st) /\ Used(new.st) = Used(store) \cup {new.root}
          /\ new.st.pages[new.root] = Leaf(0, <<>>)
          /\ \A pn \in Used(store) : new.st.pages[pn] = store.pages[pn]
      BY <2>1, <2>4 DEF Created
    <3>2. LeafAt(new.st, new.root) /\ Ents(new.st.pages[new.root]) = <<>> /\ NextOf(new.st, new.root) = 0
      BY <3>1 DEF LeafAt, Used, Leaf, Ents, LeafWord, NextOf
    <3>3. Same(store, root, store', root')
      BY <2>2, <3>1, <3>2 DEF Same
    <3>4. QED
      BY <2>2, <2>4, <3>1, <3>3 DEF Began
  <2>5. QED
    BY <2>3, <2>4
<1>2. ASSUME NEW k \in Keys, NEW v \in Values, InsertKey(k, v)
      PROVE  Faulted \/ Called \/ Failed
  <2> DEFINE res == Insert(store, root, k, v)
             e   == [k |-> k, v |-> v]
  <2>1. Inserted(store, root, e, res)
    BY <1>2, InsertStep
  <2>2. e.k = k /\ k \in Nat
    BY KeysAssumption
  <2>3. IF res.rc = Fault
        THEN fault' = TRUE /\ UNCHANGED <<store, root, op, other, splits>>
        ELSE /\ store' = res.st /\ root' = res.root
             /\ op' = [kind |-> "insert", k |-> k, v |-> v, rc |-> res.rc]
             /\ UNCHANGED <<other, fault>>
    BY <1>2 DEF InsertKey
  <2>4. res.rc # Fault => /\ store' = res.st /\ root' = res.root /\ op'.k = k /\ op'.rc = res.rc
                          /\ other' = other /\ fault' = fault
    BY <2>3
  <2> HIDE DEF res, e
  <2>5. \/ res.rc = 0 /\ Rewritten(store, root, Path(store, root, k), res.st, res.root)
        \/ res.rc = -1 /\ Same(store, root, res.st, res.root)
        \/ res.rc = Fault /\ Full(store, root)
    BY <2>1, <2>2 DEF Inserted
  <2>6. CASE res.rc = Fault
    BY <2>3, <2>5, <2>6 DEF Faulted, Fault
  <2>7. CASE res.rc # Fault
    BY <2>2, <2>4, <2>5, <2>7 DEF Called, Failed
  <2>8. QED
    BY <2>6, <2>7
<1>3. ASSUME NEW k \in Keys, DeleteKey(k)
      PROVE  Called \/ Failed
  <2> DEFINE res == Delete(store, root, k)
  <2>1. Deleted(store, root, k, res)
    BY <1>0, DeleteCall
  <2>2. /\ store' = res.st /\ root' = res.root /\ op'.k = k /\ op'.rc = res.rc
        /\ other' = other /\ fault' = fault
    BY <1>3 DEF DeleteKey
  <2>3. k \in Nat
    BY KeysAssumption
  <2> HIDE DEF res
  <2>4. QED
    BY <2>1, <2>2, <2>3 DEF Deleted, Called, Failed, Same
<1>4. CASE OtherCreate
  <2> DEFINE new == Create(store)
  <2>1. Created(store, new)
    BY <1>0, CreateOutcome
  <2>2. /\ new.rc = 0 /\ store' = new.st /\ other' = other \cup {new.root}
        /\ root' = root /\ fault' = fault
    BY <1>4 DEF OtherCreate
  <2> HIDE DEF new
  <2>3. new.root \notin Used(store) /\ Used(new.st) = Used(store) \cup {new.root}
    BY <2>1, <2>2 DEF Created
  <2>4. Kept(store, new.st)
    BY <1>0, <2>1, CreatedKept
  <2>5. QED
    BY <2>2, <2>3, <2>4 DEF Joined
<1>5. QED
  BY <1>1, <1>2, <1>3, <1>4 DEF Next

\* No step of a tree, nor the creation of another, touches the trees of other
\* tables.
THEOREM OthersUntouched ==
  ASSUME MaxSplits <= 1
  PROVE  Spec => OtherTreesUntouched
<1>1. TreeInv /\ [Next]_vars => [OthersKept]_vars
  <2>1. SUFFICES ASSUME TreeInv, Next PROVE OthersKept
    OBVIOUS
  <2>2. Good(store) /\ SmallTree(store, root) /\ other \subseteq Used(store)
    BY <2>1, InUse DEF TreeInv
  <2>3. ASSUME Sound(store, root, store', root'), other' = other
        PROVE  OthersKept
    BY <2>1, <2>3, OthersSound DEF OthersKept
  <2>4. Faulted => OthersKept
    BY DEF Faulted, OthersKept
  <2>5. Called => OthersKept
    BY <2>2, <2>3, RewrittenSound DEF Called
  <2>6. Failed \/ Began => OthersKept
    BY <2>2, <2>3, SameSound DEF Failed, Began
  <2>7. Joined => OthersKept
    BY <2>2 DEF Joined, Kept, OthersKept
  <2>8. QED
    BY <2>1, <2>4, <2>5, <2>6, <2>7, NextMoves
<1>2. QED
  BY <1>1, TreeInvariant, PTL DEF Spec, OtherTreesUntouched

\* A call that returns 0 has rewritten pages of the path of its key only.
THEOREM PathOnly ==
  ASSUME MaxSplits <= 1
  PROVE  Spec => OnlyPathRewritten
<1>1. TreeInv /\ TreeInv' /\ [Next]_vars => [OffPathKept]_vars
  <2>1. SUFFICES ASSUME TreeInv, TreeInv', Next PROVE OffPathKept
    OBVIOUS
  <2>2. /\ Reachable(store, root) = TreePages(store, root)
        /\ TreePages(store, root) \subseteq Used(store)
        /\ Good(store) /\ SmallTree(store, root)
    BY <2>1, InUse DEF TreeInv
  <2>3. Reachable(store', root') = TreePages(store', root')
    <3>1. store' \in StoresOf(NodePage) /\ SmallTree(store', root')
      BY <2>1 DEF TreeInv, Good, Listed
    <3>2. QED
      BY <3>1, ReachableOfTree
  <2>4. Faulted => OffPathKept
    BY DEF Faulted, OffPathKept
  <2>5. Called => OffPathKept
    BY <2>2, <2>3 DEF Called, Rewritten, OffPathKept
  <2>6. Failed => OffPathKept
    BY DEF Failed, OffPathKept
  <2>7. Began => OffPathKept
    <3>1. Began => TreePages(store, root) = {}
      BY DEF Began, TreePages
    <3>2. QED
      BY <2>2, <3>1 DEF OffPathKept
  <2>8. Joined => OffPathKept
    <3>1. ASSUME Kept(store, store'), root' = root PROVE OffPathKept
      <4>1. TreePages(store', root') = TreePages(store, root)
        BY <2>2, <3>1, TreeKept
      <4>2. QED
        BY <2>2, <2>3, <3>1, <4>1 DEF Kept, OffPathKept
    <3>2. QED
      BY <3>1 DEF Joined
  <2>9. QED
    BY <2>1, <2>4, <2>5, <2>6, <2>7, <2>8, NextMoves
<1>2. QED
  BY <1>1, TreeInvariant, PTL DEF Spec, OnlyPathRewritten

\* A page is lost only by a call that returned -1.
THEOREM LeakOnlyWhenFailed ==
  ASSUME MaxSplits <= 1
  PROVE  Spec => LeakOnlyOnFailure
<1>1. TreeInv /\ TreeInv' /\ [Next]_vars => [LeaksOnlyOnFailure]_vars
  <2>1. SUFFICES ASSUME TreeInv, TreeInv', Next PROVE LeaksOnlyOnFailure
    OBVIOUS
  <2> DEFINE lost  == Used(store) \ (TreePages(store, root) \cup other)
             lost2 == Used(store') \ (TreePages(store', root') \cup other')
  <2>2. Leaked(store, root, other) = lost /\ Good(store) /\ SmallTree(store, root)
    BY <2>1, InUse DEF TreeInv
  <2>3. Leaked(store', root', other') = lost2
    <3>1. /\ store' \in StoresOf(NodePage) /\ Good(store') /\ SmallTree(store', root')
      BY <2>1 DEF TreeInv, Good, Listed
    <3>2. FreeSet(store') = Unused(store') /\ Reachable(store', root') = TreePages(store', root')
      BY <3>1, FreeSetOfGood, ReachableOfTree
    <3>3. Used(store') \cap Unused(store') = {} /\ Used(store') \cup Unused(store') = PageNos(store')
      BY <3>1, NodeTypes DEF Used, Unused, LeafWord, BranchWord
    <3>4. QED
      BY <3>2, <3>3 DEF Leaked
  <2>4. Faulted => lost2 \subseteq lost
    BY DEF Faulted
  <2>5. Called => lost2 \subseteq lost
    BY DEF Called, Rewritten
  <2>6. Began => lost2 \subseteq lost
    <3>1. TreePages(store, 0) = {} /\ TreePages(store', 0) = {}
      BY DEF TreePages
    <3>2. Began /\ root' # 0 => root' \in TreePages(store', root')
      BY DEF TreePages
    <3>3. QED
      BY <3>1, <3>2 DEF Began
  <2>7. Joined => lost2 \subseteq lost
    <3>1. Joined => TreePages(store', root') = TreePages(store, root)
      BY <2>2, TreeKept DEF Joined
    <3>2. QED
      BY <3>1 DEF Joined
  <2> HIDE DEF lost, lost2
  <2>8. QED
    BY <2>1, <2>2, <2>3, <2>4, <2>5, <2>6, <2>7, NextMoves DEF LeaksOnlyOnFailure, Failed
<1>2. QED
  BY <1>1, TreeInvariant, PTL DEF Spec, LeakOnlyOnFailure

\* A page that does not exist is used only when the file is full.
THEOREM FaultOnlyIfFull ==
  ASSUME MaxSplits <= 1
  PROVE  Spec => FaultOnlyWhenFull
<1>1. TreeInv /\ [Next]_vars => [FaultsWhenFull]_vars
  <2>1. SUFFICES ASSUME TreeInv, Next, fault', ~fault
                 PROVE  (root = 0 /\ PagesLeft = 0) \/ (root # 0 /\ PagesLeft = 1)
    BY DEF FaultsWhenFull
  <2>2. Full(store, root)
    BY <2>1, NextMoves DEF Faulted, Called, Failed, Began, Joined
  <2>3. /\ FreeSet(store) = Unused(store) /\ Used(store) \cap Unused(store) = {}
        /\ Used(store) \cup Unused(store) = PageNos(store)
        /\ PageNos(store) = 1 .. Len(store.pages) /\ Len(store.pages) \in Nat /\ MaxPages \in Nat
    <3>1. store \in StoresOf(NodePage)
      BY <2>1 DEF TreeInv, Good, Listed
    <3>2. QED
      BY <2>1, <3>1, InUse, StoreTypes, MaxPagesAssumption
  <2>4. CASE root = 0
    <3>1. Used(store) = PageNos(store) /\ Len(store.pages) = MaxPages - 1
      BY <2>2, <2>4 DEF Full
    <3>2. FreeSet(store) = {}
      BY <2>3, <3>1
    <3>3. Cardinality(FreeSet(store)) = 0
      BY <3>2, FS_EmptySet
    <3>4. QED
      BY <2>3, <2>4, <3>1, <3>3 DEF PagesLeft
  <2>5. CASE root # 0
    <3> DEFINE M == MaxPages - 1
               L == Len(store.pages)
    <3>1. PICK x : /\ x \notin Used(store) /\ M \in Nat
                   /\ 1 .. M = PageNos(store) \cup {x}
                   /\ 1 .. M = Used(store) \cup {x}
      BY <2>2, <2>5 DEF Full, OnePageLeft, PageNos
    <3>2. CASE x \in PageNos(store)
      <4>1. 1 .. M = 1 .. L
        BY <2>3, <3>1, <3>2
      <4>2. L = M
        BY <2>3, <3>1, <4>1
      <4>3. FreeSet(store) = {x}
        BY <2>3, <3>1, <3>2
      <4>4. Cardinality(FreeSet(store)) = 1
        BY <4>3, FS_Singleton
      <4>5. QED
        BY <2>3, <2>5, <4>2, <4>4 DEF PagesLeft
    <3>3. CASE x \notin PageNos(store)
      <4>1. /\ x \in 1 .. M /\ x \notin 1 .. L
            /\ \A i \in 1 .. M : i \in 1 .. L \/ i = x
            /\ \A i \in 1 .. L : i \in 1 .. M
        BY <2>3, <3>1, <3>3
      <4>2. L = M - 1
        <5>1. L <= M
          BY <2>3, <3>1, <4>1
        <5>2. L # M
          BY <4>1
        <5>3. ~(L + 2 <= M)
          <6>1. L + 2 <= M => L + 1 \in 1 .. M /\ L + 2 \in 1 .. M
            BY <2>3, <3>1
          <6>2. L + 1 \notin 1 .. L /\ L + 2 \notin 1 .. L
            BY <2>3
          <6>3. QED
            BY <2>3, <4>1, <6>1, <6>2
        <5>4. QED
          BY <2>3, <3>1, <5>1, <5>2, <5>3
      <4>3. FreeSet(store) = {}
        BY <2>3, <3>1, <3>3
      <4>4. Cardinality(FreeSet(store)) = 0
        BY <4>3, FS_EmptySet
      <4>5. QED
        BY <2>3, <2>5, <4>2, <4>4 DEF PagesLeft
    <3>4. QED
      BY <3>2, <3>3
  <2>6. QED
    BY <2>4, <2>5
<1>2. QED
  BY <1>1, TreeInvariant, PTL DEF Spec, FaultOnlyWhenFull

----------------------------------------------------------------------------
(* The tree is a search tree. *)

SearchInv == TreeInv /\ Ordered(store, root)

\* A create, of this tree or of another, leaves the entries as they are.
LEMMA CreateSame ==
  ASSUME TreeInv, CreateTree \/ OtherCreate
  PROVE  Same(store, root, store', root')
<1> DEFINE new == Create(store)
<1>1. Good(store) /\ Created(store, new)
  BY CreateOutcome DEF TreeInv
<1>2. Kept(store, new.st)
  BY <1>1, CreatedKept
<1>3. \/ root = 0 /\ store' = new.st /\ root' = new.root
      \/ store' = new.st /\ root' = root
  BY DEF CreateTree, OtherCreate
<1> HIDE DEF new
<1>4. CASE store' = new.st /\ root' = root
  BY <1>2, <1>4 DEF Same
<1>5. CASE root = 0 /\ store' = new.st /\ root' = new.root
  <2>1. CASE new.root = 0
    BY <1>2, <1>5, <2>1 DEF Same
  <2>2. CASE new.root # 0
    <3>1. /\ new.root \notin Used(store) /\ Good(new.st) /\ Used(new.st) = Used(store) \cup {new.root}
          /\ new.st.pages[new.root] = Leaf(0, <<>>)
          /\ \A pn \in Used(store) : new.st.pages[pn] = store.pages[pn]
      BY <1>1, <2>2 DEF Created
    <3>2. LeafAt(new.st, new.root) /\ Ents(new.st.pages[new.root]) = <<>> /\ NextOf(new.st, new.root) = 0
      BY <3>1 DEF LeafAt, Used, Leaf, Ents, LeafWord, NextOf
    <3>3. QED
      BY <1>5, <3>1, <3>2 DEF Same
  <2>3. QED
    BY <2>1, <2>2
<1>6. QED
  BY <1>3, <1>4, <1>5

LEMMA SearchNext ==
  ASSUME MaxSplits <= 1, SearchInv, [Next]_vars
  PROVE  SearchInv'
<1>1. Good(store) /\ SmallTree(store, root) /\ Ordered(store, root) /\ TreeInv
  BY DEF SearchInv, TreeInv
<1>2. TreeInv'
  BY <1>1, NextInv
<1>3. ASSUME Same(store, root, store', root') PROVE Ordered(store', root')
  BY <1>1, <1>3, SameOrdered
<1>4. CASE UNCHANGED vars
  <2>1. Same(store, root, store', root')
    BY <1>1, <1>4, KeptSame DEF vars, Same
  <2>2. QED
    BY <1>2, <1>3, <2>1 DEF SearchInv
<1>5. ASSUME NEW k \in Keys, NEW v \in Values, InsertKey(k, v)
      PROVE  Ordered(store', root')
  <2> DEFINE res == Insert(store, root, k, v)
  <2>1. Inserted(store, root, [k |-> k, v |-> v], res)
    BY <1>1, <1>5, InsertStep
  <2>2. /\ res.rc = Fault => UNCHANGED <<store, root>>
        /\ res.rc # Fault => store' = res.st /\ root' = res.root
    BY <1>5 DEF InsertKey
  <2> HIDE DEF res
  <2>3. CASE res.rc = Fault
    BY <1>1, <2>2, <2>3
  <2>4. CASE res.rc # Fault
    <3>1. Ordered(res.st, res.root)
      BY <1>1, <2>1, <2>4, InsertOrdered
    <3>2. QED
      BY <2>2, <2>4, <3>1
  <2>5. QED
    BY <2>3, <2>4
<1>6. ASSUME NEW k \in Keys, DeleteKey(k)
      PROVE  Ordered(store', root')
  <2> DEFINE res == Delete(store, root, k)
  <2>1. Deleted(store, root, k, res)
    BY <1>1, DeleteCall
  <2>2. store' = res.st /\ root' = res.root
    BY <1>6 DEF DeleteKey
  <2> HIDE DEF res
  <2>3. Ordered(res.st, res.root)
    BY <1>1, <2>1, DeleteOrdered
  <2>4. QED
    BY <2>2, <2>3
<1>7. ASSUME CreateTree \/ OtherCreate
      PROVE  Ordered(store', root')
  BY <1>1, <1>3, <1>7, CreateSame
<1>8. SearchInv' <=> TreeInv' /\ Ordered(store', root')
  BY DEF SearchInv
<1> QED
  BY <1>2, <1>4, <1>5, <1>6, <1>7, <1>8 DEF Next

LEMMA SearchInit ==
  ASSUME Init
  PROVE  SearchInv
<1>1. TreeInv /\ root = 0
  BY InitInv DEF Init
<1>2. QED
  BY <1>1, NotBoth DEF SearchInv, Ordered

\* Every leaf is sorted and fits its page, and the separator of a branch
\* divides the keys below it, whatever calls were made: also after calls that
\* failed, and after replacements that overfilled a leaf.
THEOREM SearchTreeKept ==
  ASSUME MaxSplits <= 1
  PROVE  Spec => []SearchTree
<1>1. Init => SearchInv
  BY SearchInit
<1>2. SearchInv /\ [Next]_vars => SearchInv'
  BY SearchNext
<1>3. SearchInv => SearchTree
  <2>1. SUFFICES ASSUME SearchInv, NEW pn \in Reachable(store, root)
                 PROVE  LET page == store.pages[pn]
                            ents == Ents(page)
                        IN  /\ page.word \in {LeafWord, BranchWord}
                            /\ SortedByKey(ents)
                            /\ page.word = LeafWord => Fill(ents) <= LeafCap
                            /\ page.word = BranchWord =>
                                 /\ ents # <<>>
                                 /\ \A e \in ToSet(ents) :
                                       /\ \A f \in ToSet(Ents(store.pages[e.l])) : f.k < e.k
                                       /\ \A f \in ToSet(Ents(store.pages[e.r])) : f.k >= e.k
    BY DEF SearchTree
  <2> DEFINE page == store.pages[pn]
             ents == Ents(page)
  <2>2. TreeInv /\ Ordered(store, root) /\ SmallTree(store, root) /\ store \in StoresOf(NodePage)
    BY <2>1 DEF SearchInv, TreeInv, Good, Listed
  <2>3. pn \in TreePages(store, root) /\ root # 0
    BY <2>1, <2>2, InUse DEF TreePages
  <2>4. ASSUME LeafOk(ents), page.word = LeafWord
        PROVE  SortedByKey(ents) /\ Fill(ents) <= LeafCap /\ page.word # BranchWord
    BY <2>4 DEF LeafOk, LeafWord, BranchWord
  <2>5. CASE LeafAt(store, root)
    <3>1. pn = root
      BY <2>3, <2>5 DEF TreePages
    <3>2. LeafOk(ents) /\ page.word = LeafWord
      BY <2>2, <2>5, <3>1 DEF Ordered, LeafAt
    <3>3. QED
      BY <2>4, <3>2
  <2>6. CASE ~LeafAt(store, root)
    <3> DEFINE fork == Fork(store, root)
    <3>1. ForkAt(store, root)
      BY <2>2, <2>3, <2>6 DEF SmallTree
    <3>2. /\ LeafOk(Low(store, root)) /\ LeafOk(High(store, root))
          /\ \A f \in ToSet(Low(store, root)) : f.k < fork.k
          /\ \A f \in ToSet(High(store, root)) : f.k >= fork.k
      BY <2>2, <3>1 DEF Ordered
    <3>3. /\ store.pages[fork.l].word = LeafWord /\ Ents(store.pages[fork.l]) = Low(store, root)
          /\ store.pages[fork.r].word = LeafWord /\ Ents(store.pages[fork.r]) = High(store, root)
      BY <3>1 DEF ForkAt, LeafAt, Low, High
    <3>4. pn = root \/ pn = fork.l \/ pn = fork.r
      BY <2>3, <2>6 DEF TreePages
    <3>5. CASE pn = root
      <4>1. /\ page.word = BranchWord /\ Len(ents) = 1 /\ ents \in Seq(BranchEntry) /\ fork = ents[1]
        <5>1. 1 \in Nat
          OBVIOUS
        <5>2. QED
          BY <2>2, <3>1, <3>5, <5>1, ForkTypes DEF ForkAt
      <4> HIDE DEF ents, page, fork
      <4>2. DOMAIN ents = {1} /\ ents # <<>> /\ ToSet(ents) = {fork}
        <5>1. DOMAIN ents = 1 .. Len(ents)
          BY <4>1, LenProperties
        <5>2. DOMAIN ents = {1}
          BY <4>1, <5>1
        <5>3. ents # <<>>
          <6>1. Len(<<>>) = 0
            OBVIOUS
          <6>2. QED
            BY <4>1, <6>1
        <5>4. QED
          BY <4>1, <5>2, <5>3 DEF ToSet
      <4>3. SortedByKey(ents) /\ page.word # LeafWord
        BY <4>1, <4>2 DEF SortedByKey, LeafWord, BranchWord
      <4>4. /\ \A f \in ToSet(Ents(store.pages[fork.l])) : f.k < fork.k
            /\ \A f \in ToSet(Ents(store.pages[fork.r])) : f.k >= fork.k
        BY <3>2, <3>3 DEF fork
      <4>5. QED
        BY <4>1, <4>2, <4>3, <4>4 DEF ents, page
    <3>6. CASE pn = fork.l
      BY <2>4, <3>2, <3>3, <3>6
    <3>7. CASE pn = fork.r
      BY <2>4, <3>2, <3>3, <3>7
    <3>8. QED
      BY <3>4, <3>5, <3>6, <3>7
  <2>7. QED
    BY <2>5, <2>6
<1>4. QED
  BY <1>1, <1>2, <1>3, PTL DEF Spec

----------------------------------------------------------------------------
(* The tree implements a map. *)

LEMMA MapInit ==
  ASSUME Init
  PROVE  Map!Init
<1>1. root = 0 /\ op = [kind |-> "none", k |-> 0, v |-> None, rc |-> 0]
  BY DEF Init
<1>2. Contents(store, root) = [k \in Keys |-> None]
  BY <1>1 DEF Contents, Search
<1>3. QED
  BY <1>1, <1>2 DEF Map!Init

LEMMA MapStep ==
  ASSUME MaxSplits <= 1, ~Overfill, HalvesFit, SearchInv, [Next]_vars
  PROVE  [Map!Next]_(Map!vars)
<1> DEFINE before == Contents(store, root)
           after == Contents(store', root')
<1>1. /\ Good(store) /\ SmallTree(store, root) /\ Ordered(store, root) /\ TreeInv
      /\ Good(store') /\ SmallTree(store', root')
  BY SearchNext DEF SearchInv, TreeInv
<1>2. CASE UNCHANGED vars
  BY <1>2 DEF vars, Map!vars
<1>3. CASE CreateTree \/ OtherCreate
  <2>1. Same(store, root, store', root')
    BY <1>1, <1>3, CreateSame
  <2>2. SameEnts(store, root, store', root')
    BY <1>1, <2>1, SameOrdered
  <2>3. after = before
    BY <1>1, <2>2, MapSame
  <2>4. op' = op
    BY <1>3 DEF CreateTree, OtherCreate
  <2>5. QED
    BY <2>3, <2>4 DEF Map!vars
<1>4. ASSUME NEW k \in Keys, NEW v \in Values, InsertKey(k, v)
      PROVE  [Map!Next]_(Map!vars)
  <2> DEFINE res == Insert(store, root, k, v)
             put == {[k |-> k, v |-> v]}
  <2>1. Inserted(store, root, [k |-> k, v |-> v], res)
    BY <1>1, <1>4, InsertStep
  <2>2. /\ ~Overfills(store, root, k, v)
        /\ res.rc = Fault => UNCHANGED <<store, root, op>>
        /\ res.rc # Fault =>
             /\ store' = res.st /\ root' = res.root
             /\ op' = [kind |-> "insert", k |-> k, v |-> v, rc |-> res.rc]
    BY <1>4 DEF InsertKey
  <2>3. Got(put) = v
    <3> DEFINE e == [k |-> k, v |-> v]
    <3>1. e.v = v
      OBVIOUS
    <3> HIDE DEF e
    <3>2. Got({e}) = v
      BY <3>1, GotOne
    <3>3. QED
      BY <3>2 DEF e
  <2> HIDE DEF res
  <2>4. CASE res.rc = Fault
    BY <2>2, <2>4 DEF Map!vars
  <2>5. CASE res.rc = 0
    <3>1. PutUnder(store, root, res.st, res.root, k, put)
      BY <1>1, <2>1, <2>2, <2>5, InsertUnder
    <3>2. store' = res.st /\ root' = res.root /\ op' = [kind |-> "insert", k |-> k, v |-> v, rc |-> 0]
      BY <2>2, <2>5 DEF Fault
    <3> HIDE DEF put
    <3>3. after = [before EXCEPT ![k] = Got(put)]
      BY <1>1, <3>1, <3>2, MapPut
    <3>4. Map!Put
      BY <2>3, <3>2, <3>3 DEF Map!Put
    <3>5. QED
      BY <3>4 DEF Map!Next
  <2>6. CASE res.rc = -1 /\ Same(store, root, res.st, res.root)
    <3>1. store' = res.st /\ root' = res.root /\ op' = [kind |-> "insert", k |-> k, v |-> v, rc |-> -1]
      BY <2>2, <2>6 DEF Fault
    <3>2. SameEnts(store, root, store', root')
      BY <1>1, <2>6, <3>1, SameOrdered
    <3>3. after = before
      BY <1>1, <3>2, MapSame
    <3>4. Map!Fail
      BY <3>1, <3>3 DEF Map!Fail
    <3>5. QED
      BY <3>4 DEF Map!Next
  <2>7. QED
    BY <2>1, <2>4, <2>5, <2>6 DEF Inserted
<1>5. ASSUME NEW k \in Keys, DeleteKey(k)
      PROVE  [Map!Next]_(Map!vars)
  <2> DEFINE res == Delete(store, root, k)
             none == {}
  <2>1. Deleted(store, root, k, res)
    BY <1>1, DeleteCall
  <2>2. /\ store' = res.st /\ root' = res.root
        /\ op' = [kind |-> "delete", k |-> k, v |-> None, rc |-> res.rc]
    BY <1>5 DEF DeleteKey
  <2>3. Got(none) = None
    BY GotOne
  <2> HIDE DEF res
  <2>4. CASE res.rc = 0
    <3>1. PutUnder(store, root, res.st, res.root, k, none) /\ Got(Under(LeafEnts(store, root, k), k)) # None
      BY <1>1, <2>1, <2>4, DeleteUnder
    <3> HIDE DEF none
    <3>2. after = [before EXCEPT ![k] = Got(none)]
      BY <1>1, <2>2, <3>1, MapPut
    <3>3. before[k] # None
      BY <1>1, <3>1, SearchUnder DEF Contents
    <3>4. Map!Remove
      BY <2>2, <2>3, <2>4, <3>2, <3>3 DEF Map!Remove
    <3>5. QED
      BY <3>4 DEF Map!Next
  <2>5. CASE res.rc = -1 /\ res.root = root /\ Kept(store, res.st)
    <3>1. SameEnts(store, root, store', root')
      BY <1>1, <2>2, <2>5, SameOrdered DEF Same
    <3>2. after = before
      BY <1>1, <3>1, MapSame
    <3>3. Map!Fail
      BY <2>2, <2>5, <3>2 DEF Map!Fail
    <3>4. QED
      BY <3>3 DEF Map!Next
  <2>6. QED
    BY <2>1, <2>4, <2>5 DEF Deleted
<1>6. QED
  BY <1>2, <1>3, <1>4, <1>5 DEF Next

\* The tree is a map: an insert or a delete that returns 0 changes what is
\* found under its key and under no other, and one that returns -1 changes
\* nothing, whatever the file holds and however full it is, in histories of at
\* most one split whose halves fit, and without replacements that overfill a leaf.
THEOREM TreeImplementsMap ==
  ASSUME MaxSplits <= 1, ~Overfill, HalvesFit
  PROVE  Spec => ImplementsMap
<1>1. Init => SearchInv
  BY SearchInit
<1>2. SearchInv /\ [Next]_vars => SearchInv'
  BY SearchNext
<1>3. Init => Map!Init
  BY MapInit
<1>4. SearchInv /\ [Next]_vars => [Map!Next]_(Map!vars)
  BY MapStep
<1>5. QED
  BY <1>1, <1>2, <1>3, <1>4, PTL DEF Spec, ImplementsMap, Map!Spec

----------------------------------------------------------------------------
(* The leaf chain. *)

\* As long as the leaves are linked, a scan passes exactly the entries that
\* searches find to the callback, in key order, whatever calls were made.
THEOREM ScanExact ==
  ASSUME MaxSplits <= 1
  PROVE  Spec => []ScanIsExact
<1>1. Init => SearchInv
  BY SearchInit
<1>2. SearchInv /\ [Next]_vars => SearchInv'
  BY SearchNext
<1>3. SearchInv => ScanIsExact
  <2>1. SUFFICES ASSUME SearchInv, LeavesLinked(store, root)
                 PROVE  /\ SortedByKey(Scan(store, root))
                        /\ ToSet(Scan(store, root)) = {e \in LeafEntry : Search(store, root, e.k) = e.v}
    BY DEF ScanIsExact, LeafEntry
  <2>2. /\ Good(store) /\ SmallTree(store, root) /\ Ordered(store, root)
        /\ store \in StoresOf(NodePage)
    BY <2>1 DEF SearchInv, TreeInv, Good, Listed
  <2> DEFINE all == TreeEnts(store, root)
  <2>3. Scan(store, root) = all
    BY <2>1, <2>2, ScanOfTree
  <2>4. /\ SortedByKey(all) /\ ToSet(all) \subseteq LeafEntry
        /\ \A e \in LeafEntry : e \in ToSet(all) <=> e \in ToSet(LeafEnts(store, root, e.k))
    BY <2>2, TreeEntsFacts
  <2> HIDE DEF all
  <2>5. ASSUME NEW e \in LeafEntry
        PROVE  e \in ToSet(all) <=> Search(store, root, e.k) = e.v
    <3> DEFINE ents == LeafEnts(store, root, e.k)
    <3>1. e.k \in Keys /\ e.k \in Nat /\ e.v \in Values
      BY KeysAssumption DEF LeafEntry
    <3>2. LeafOk(ents) /\ Search(store, root, e.k) = Got(Under(ents, e.k))
      BY <2>2, <3>1, LeafOfOrdered, SearchUnder
    <3> HIDE DEF ents
    <3>3. ents \in Seq(LeafEntry) /\ SortedByKey(ents) /\ ToSet(ents) \subseteq LeafEntry
      BY <3>2, SortedFacts DEF LeafOk
    <3>4. ASSUME e \in ToSet(ents) PROVE Got(Under(ents, e.k)) = e.v
      <4>1. Under(ents, e.k) = {e}
        BY <3>3, <3>4, KeysDiffer DEF Under
      <4>2. QED
        BY <4>1, GotOne
    <3>5. ASSUME Got(Under(ents, e.k)) = e.v PROVE e \in ToSet(ents)
      <4>1. Under(ents, e.k) # {}
        BY <3>1, <3>5, GotOne, SizeAssumption
      <4>2. PICK f \in ToSet(ents) : f.k = e.k
        BY <4>1 DEF Under
      <4>3. Under(ents, e.k) = {f}
        BY <3>3, <4>2, KeysDiffer DEF Under
      <4>4. f.v = e.v
        BY <3>5, <4>3, GotOne
      <4>5. f = e
        BY <3>3, <4>2, <4>4 DEF LeafEntry
      <4>6. QED
        BY <4>2, <4>5
    <3>6. QED
      BY <2>4, <3>2, <3>4, <3>5 DEF ents
  <2>6. QED
    BY <2>3, <2>4, <2>5
<1>4. QED
  BY <1>1, <1>2, <1>3, PTL DEF Spec

----------------------------------------------------------------------------
(* When the links break. *)

\* The last leaf of the tree has no next leaf; with a branch, the first leads
\* to the second.
LastHasNone(st, r) == /\ LeafAt(st, r) => NextOf(st, r) = 0
                      /\ ForkAt(st, r) => NextOf(st, Fork(st, r).r) = 0
FirstLeads(st, r) == ForkAt(st, r) => NextOf(st, Fork(st, r).l) = Fork(st, r).r

LEMMA NoNext ==
  ASSUME NEW st \in StoresOf(NodePage), NEW r, NEW c, Way(st, r, c), NEW n \in Nat \ {0},
         n \in 1 .. Len(c), NextOf(st, c[n]) = 0
  PROVE  Len(c) = n
<1>1. c \in Seq(PageNos(st)) /\ Len(c) \in Nat
  BY LenProperties DEF Way
<1>2. SUFFICES ASSUME Len(c) # n PROVE FALSE
  OBVIOUS
<1>3. n \in 1 .. Len(c) - 1 /\ n + 1 \in 1 .. Len(c)
  BY <1>1, <1>2
<1>4. c[n + 1] = 0
  BY <1>3 DEF Way
<1>5. c[n + 1] \in PageNos(st)
  BY <1>1, <1>3, ElementOfSeq
<1>6. QED
  BY <1>4, <1>5 DEF PageNos

\* The converse of LinkedChain.
LEMMA ChainOfLinks ==
  ASSUME NEW st \in StoresOf(NodePage), NEW r, SmallTree(st, r), LastHasNone(st, r), FirstLeads(st, r)
  PROVE  LeavesLinked(st, r)
<1> DEFINE c == Chain(st, r)
           N == Len(st.pages)
           first == FirstLeaf(st, r)
<1>1. /\ Way(st, r, c) /\ (Len(c) <= N => ChainStops(st, c))
      /\ (LeavesLinked(st, r) <=> Len(c) <= N /\ ToSet(c) = Leaves(st, r))
  BY ChainFacts DEF LeavesLinked, ScanEnds
<1>2. N \in Nat /\ PageNos(st) = 1 .. N
  BY DEF StoresOf, PageNos
<1> HIDE DEF c, N
<1>3. /\ c \in Seq(PageNos(st)) /\ Len(c) \in Nat /\ ToSet(c) = {c[i] : i \in 1 .. Len(c)}
      /\ c # <<>> => Len(c) >= 1 /\ c[1] = first
      /\ c = <<>> => first \notin PageNos(st) /\ Len(c) = 0
  <2>1. /\ c \in Seq(PageNos(st)) /\ (c # <<>> => c[1] = first) /\ (c = <<>> => first \notin PageNos(st))
    BY <1>1 DEF Way
  <2> HIDE DEF first
  <2>2. Len(c) \in Nat /\ DOMAIN c = 1 .. Len(c) /\ (c # <<>> => Len(c) >= 1)
    BY <2>1, LenProperties, EmptySeq
  <2>3. Len(<<>>) = 0
    OBVIOUS
  <2>4. QED
    BY <2>1, <2>2, <2>3 DEF ToSet
<1>4. CASE r = 0
  <2>1. first \notin PageNos(st) /\ Leaves(st, r) = {}
    BY <1>4, LeavesOfTree DEF FirstLeaf, PageNos
  <2>2. c = <<>>
    <3>1. c # <<>> => c[1] \in PageNos(st)
      BY <1>3, ElementOfSeq
    <3>2. QED
      BY <1>3, <2>1, <3>1
  <2>3. Len(c) = 0 /\ ToSet(c) = {}
    BY <1>3, <2>2
  <2>4. QED
    BY <1>1, <1>2, <2>1, <2>3
<1>5. CASE LeafAt(st, r)
  <2>1. /\ first = r /\ r \in 1 .. N /\ Leaves(st, r) = {r} /\ NextOf(st, r) = 0
    BY <1>2, <1>5, LeavesOfTree DEF FirstLeaf, LeafAt, LastHasNone
  <2>2. c # <<>> /\ Len(c) >= 1 /\ c[1] = r
    BY <1>2, <1>3, <2>1
  <2>3. Len(c) = 1
    <3>1. 1 \in Nat \ {0} /\ 1 \in 1 .. Len(c) /\ NextOf(st, c[1]) = 0 /\ Way(st, r, c)
      BY <1>1, <1>3, <2>1, <2>2
    <3>2. QED
      BY <3>1, NoNext
  <2>4. ToSet(c) = {r}
    BY <1>3, <2>2, <2>3
  <2>5. QED
    BY <1>1, <1>2, <2>1, <2>3, <2>4
<1>6. CASE ForkAt(st, r)
  <2> DEFINE low == Fork(st, r).l
             high == Fork(st, r).r
  <2>1. /\ first = low /\ low \in 1 .. N /\ high \in 1 .. N /\ low # high
        /\ Leaves(st, r) = {low, high} /\ NextOf(st, low) = high /\ NextOf(st, high) = 0
    BY <1>2, <1>6, LeavesOfTree, NotBoth DEF FirstLeaf, ForkAt, LeafAt, LastHasNone, FirstLeads
  <2> HIDE DEF low, high, first
  <2>2. c # <<>> /\ Len(c) >= 1 /\ c[1] = low
    BY <1>2, <1>3, <2>1
  <2>3. N >= 2
    BY <1>2, <2>1
  <2>4. Len(c) # 1
    <3>1. SUFFICES ASSUME Len(c) = 1 PROVE FALSE
      OBVIOUS
    <3>2. ChainStops(st, c) /\ c[Len(c)] = low
      BY <1>1, <1>2, <2>2, <2>3, <3>1
    <3>3. QED
      BY <1>2, <2>1, <2>2, <3>2 DEF ChainStops
  <2>5. 1 \in 1 .. Len(c) - 1 /\ 2 \in 1 .. Len(c)
    <3> DEFINE n == Len(c)
    <3>1. n \in Nat /\ n >= 1 /\ n # 1
      BY <1>3, <2>2, <2>4
    <3> HIDE DEF n
    <3>2. 1 \in 1 .. n - 1 /\ 2 \in 1 .. n
      BY <3>1
    <3>3. QED
      BY <3>2 DEF n
  <2>6. c[2] = high
    <3>1. c[1 + 1] = NextOf(st, c[1])
      BY <1>1, <2>5 DEF Way
    <3>2. QED
      BY <2>1, <2>2, <3>1
  <2>7. Len(c) = 2
    <3>1. 2 \in Nat \ {0} /\ 2 \in 1 .. Len(c) /\ NextOf(st, c[2]) = 0 /\ Way(st, r, c)
      BY <1>1, <2>1, <2>5, <2>6
    <3>2. QED
      BY <3>1, NoNext
  <2>8. ToSet(c) = {low, high}
    BY <1>3, <2>2, <2>6, <2>7
  <2>9. QED
    BY <1>1, <2>1, <2>3, <2>7, <2>8
<1>7. QED
  BY <1>4, <1>5, <1>6 DEF SmallTree

\* What a call makes of the links: they are as they were, or the leaf for the
\* key is the second of two.
LinksAfter(st, r, k, st2, r2) ==
    /\ LastHasNone(st2, r2)
    /\ \/ FirstLeads(st, r) => FirstLeads(st2, r2)
       \/ ForkAt(st, r) /\ ~(k < Fork(st, r).k)

LEMMA SameLinked ==
  ASSUME NEW st, Good(st), NEW r, SmallTree(st, r), LastHasNone(st, r), NEW st2, NEW r2, Same(st, r, st2, r2)
  PROVE  LastHasNone(st2, r2) /\ (FirstLeads(st, r) => FirstLeads(st2, r2))
<1>1. CASE r2 = r /\ Kept(st, st2)
  <2>1. /\ LeafAt(st2, r) <=> LeafAt(st, r)
        /\ ForkAt(st2, r) <=> ForkAt(st, r)
        /\ ForkAt(st, r) => Fork(st2, r) = Fork(st, r)
    BY <1>1, KeptEnts
  <2>2. \A pn \in Used(st) : NextOf(st2, pn) = NextOf(st, pn)
    BY <1>1 DEF Kept, NextOf
  <2>3. /\ LeafAt(st, r) => r \in Used(st)
        /\ ForkAt(st, r) => Fork(st, r).l \in Used(st) /\ Fork(st, r).r \in Used(st)
    BY DEF ForkAt, LeafAt, Used
  <2>4. QED
    BY <1>1, <2>1, <2>2, <2>3 DEF LastHasNone, FirstLeads
<1>2. CASE ~(r2 = r /\ Kept(st, st2))
  <2>1. LeafAt(st2, r2) /\ NextOf(st2, r2) = 0
    BY <1>2 DEF Same
  <2>2. QED
    BY <2>1, NotBoth DEF LastHasNone, FirstLeads
<1>3. QED
  BY <1>1, <1>2

LEMMA EditedLinked ==
  ASSUME NEW st, Good(st), NEW r, SmallTree(st, r), LastHasNone(st, r), NEW k \in Nat,
         NEW st2, NEW r2, NEW ents, Edited(st, r, k, st2, r2, ents)
  PROVE  LinksAfter(st, r, k, st2, r2)
<1>1. CASE Whole(st, r)
  <2>1. LeafAt(st2, r2) /\ NextOf(st2, r2) = 0
    BY <1>1 DEF Edited, SameLinks, Whole, LastHasNone
  <2>2. LastHasNone(st2, r2) /\ FirstLeads(st2, r2)
    BY <2>1, NotBoth DEF LastHasNone, FirstLeads
  <2>3. QED
    BY <2>2 DEF LinksAfter
<1>2. CASE ~Whole(st, r)
  <2>1. /\ ForkAt(st2, r2) /\ ForkAt(st, r) /\ ~LeafAt(st2, r2)
        /\ NextOf(st2, Fork(st2, r2).l) = NextOf(st, Fork(st, r).l)
        /\ NextOf(st2, Fork(st2, r2).r) = NextOf(st, Fork(st, r).r)
        /\ k < Fork(st, r).k => Fork(st2, r2).r = Fork(st, r).r
    BY <1>2, NotBoth DEF Edited, SameLinks, Whole, SmallTree
  <2>2. LastHasNone(st2, r2)
    BY <2>1 DEF LastHasNone
  <2>3. FirstLeads(st, r) /\ k < Fork(st, r).k => FirstLeads(st2, r2)
    BY <2>1 DEF FirstLeads
  <2>4. QED
    BY <2>1, <2>2, <2>3 DEF LinksAfter
<1>3. QED
  BY <1>1, <1>2

\* By kind of step: the links are not affected, or a call has returned 0.
Relinked == /\ LastHasNone(store', root')
            /\ \/ FirstLeads(store, root) => FirstLeads(store', root')
               \/ op'.k \in Nat /\ LinksAfter(store, root, op'.k, store', root')

LEMMA LinksStep ==
  ASSUME MaxSplits <= 1, TreeInv, LastHasNone(store, root), Next
  PROVE  Relinked
<1>1. Good(store) /\ SmallTree(store, root)
  BY DEF TreeInv
<1>2. Same(store, root, store', root') => Relinked
  BY <1>1, SameLinked DEF Relinked
<1>3. ASSUME NEW k \in Keys, NEW v \in Values, InsertKey(k, v)
      PROVE  Relinked
  <2> DEFINE res == Insert(store, root, k, v)
             e == [k |-> k, v |-> v]
             ents == LeafEnts(store, root, e.k)
  <2>1. Inserted(store, root, e, res)
    BY <1>3, InsertStep
  <2>2. e.k = k /\ k \in Nat
    BY KeysAssumption
  <2>3. /\ res.rc = Fault => UNCHANGED <<store, root>>
        /\ res.rc # Fault => store' = res.st /\ root' = res.root /\ op'.k = k
    BY <1>3 DEF InsertKey
  <2> HIDE DEF res, e
  <2>4. CASE res.rc = Fault
    BY <2>3, <2>4, <1>1, KeptSame, <1>2 DEF Same
  <2>5. CASE res.rc = -1 /\ Same(store, root, res.st, res.root)
    BY <2>3, <2>5, <1>2 DEF Fault
  <2>6. CASE res.rc = 0 /\ Edited(store, root, k, res.st, res.root, Placed(ents, e))
    <3> DEFINE placed == Placed(ents, e)
    <3> HIDE DEF placed, ents
    <3>1. Edited(store, root, k, res.st, res.root, placed)
      BY <2>6 DEF placed
    <3>2. LinksAfter(store, root, k, res.st, res.root)
      BY <1>1, <2>2, <3>1, EditedLinked
    <3>3. QED
      BY <2>2, <2>3, <2>6, <3>2 DEF Relinked, LinksAfter, Fault
  <2>7. ASSUME NEW half, res.rc = 0, Forked(store, root, res.st, res.root, half)
        PROVE  Relinked
    <3>1. /\ LeafAt(store, root) /\ ForkAt(res.st, res.root) /\ ~LeafAt(res.st, res.root)
          /\ NextOf(res.st, Fork(res.st, res.root).l) = Fork(res.st, res.root).r
          /\ NextOf(res.st, Fork(res.st, res.root).r) = NextOf(store, root)
      BY <2>7, NotBoth DEF Forked
    <3>2. LastHasNone(res.st, res.root) /\ FirstLeads(res.st, res.root)
      BY <3>1 DEF LastHasNone, FirstLeads
    <3>3. store' = res.st /\ root' = res.root
      BY <2>3, <2>7 DEF Fault
    <3>4. QED
      BY <3>2, <3>3 DEF Relinked
  <2>8. QED
    BY <2>1, <2>2, <2>4, <2>5, <2>6, <2>7 DEF Inserted
<1>4. ASSUME NEW k \in Keys, DeleteKey(k)
      PROVE  Relinked
  <2> DEFINE res == Delete(store, root, k)
             ents == LeafEnts(store, root, k)
             left == RemoveAt(ents, SlotOf(ents, k))
  <2>1. Deleted(store, root, k, res)
    BY <1>1, DeleteCall
  <2>2. store' = res.st /\ root' = res.root /\ op'.k = k
    BY <1>4 DEF DeleteKey
  <2>3. k \in Nat
    BY KeysAssumption
  <2> HIDE DEF res
  <2>4. CASE res.root = root /\ Kept(store, res.st)
    BY <1>2, <2>2, <2>4 DEF Same
  <2>5. CASE Edited(store, root, k, res.st, res.root, left)
    <3> HIDE DEF left
    <3>1. LinksAfter(store, root, k, res.st, res.root)
      BY <1>1, <2>3, <2>5, EditedLinked
    <3>2. QED
      BY <2>2, <2>3, <3>1 DEF Relinked, LinksAfter
  <2>6. QED
    BY <2>1, <2>4, <2>5 DEF Deleted
<1>5. ASSUME CreateTree \/ OtherCreate
      PROVE  Relinked
  BY <1>2, <1>5, CreateSame
<1>6. QED
  BY <1>3, <1>4, <1>5 DEF Next

\* The leaf links of a tree break only when a call replaces a leaf that has a
\* leaf before it: as long as calls end at the leftmost leaf, or split the only
\* one, a scan keeps seeing every leaf.
THEOREM LinksBreakOnRightLeaf ==
  ASSUME MaxSplits <= 1
  PROVE  Spec => LinksBreakOnlyOnRightLeaf
<1> DEFINE Inv == TreeInv /\ LastHasNone(store, root)
<1>1. Init => Inv
  <2>1. Init => TreeInv /\ root = 0
    BY InitInv DEF Init
  <2>2. QED
    BY <2>1, NotBoth DEF LastHasNone
<1>2. Inv /\ [Next]_vars => Inv'
  <2>1. SUFFICES ASSUME Inv, [Next]_vars PROVE Inv'
    OBVIOUS
  <2>2. TreeInv'
    BY <2>1, NextInv
  <2>3. LastHasNone(store', root')
    <3>1. CASE Next
      BY <2>1, <3>1, LinksStep DEF Relinked
    <3>2. CASE UNCHANGED vars
      BY <2>1, <3>2 DEF vars
    <3>3. QED
      BY <2>1, <3>1, <3>2
  <2>4. QED
    BY <2>2, <2>3
<1>3. Inv /\ Inv' /\ [Next]_vars => [BrokenByRightLeaf]_vars
  <2>1. SUFFICES ASSUME TreeInv, LastHasNone(store, root), TreeInv', LastHasNone(store', root'), Next,
                        LeavesLinked(store, root), ~LeavesLinked(store', root')
                 PROVE  Last(Path(store, root, op'.k)) # Leftmost(store, root)
    BY DEF BrokenByRightLeaf
  <2>2. /\ store \in StoresOf(NodePage) /\ SmallTree(store, root) /\ Good(store)
        /\ store' \in StoresOf(NodePage) /\ SmallTree(store', root')
    BY <2>1 DEF TreeInv, Good, Listed
  <2>3. FirstLeads(store, root)
    BY <2>1, <2>2, LinkedChain, NotBoth DEF FirstLeads
  <2>4. ~FirstLeads(store', root')
    BY <2>1, <2>2, ChainOfLinks
  <2>5. Relinked
    BY <2>1, LinksStep
  <2>6. ForkAt(store, root) /\ ~(op'.k < Fork(store, root).k) /\ op'.k \in Nat
    BY <2>3, <2>4, <2>5 DEF Relinked, LinksAfter
  <2>7. Leftmost(store, root) = Fork(store, root).l /\ Fork(store, root).l # Fork(store, root).r
    BY <2>2, <2>6, LeftmostOfTree, NotBoth DEF FirstLeaf, ForkAt
  <2>8. Last(Path(store, root, op'.k)) = Fork(store, root).r
    <3>1. Path(store, root, op'.k) = <<root, Fork(store, root).r>>
      BY <2>2, <2>6, PathOfTree, NotBoth DEF Route, ForkChild
    <3>2. QED
      BY <3>1 DEF Last
  <2>9. QED
    BY <2>7, <2>8
<1>4. QED
  BY <1>1, <1>2, <1>3, PTL DEF Spec, LinksBreakOnlyOnRightLeaf

=============================================================================
