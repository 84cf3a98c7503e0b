----------------------------- MODULE BTreeView -----------------------------
(***************************************************************************)
(* What a page store and a root look like from outside: the map a tree     *)
(* stands for, the pages it uses, the free list.  The modules that run     *)
(* histories of tree operations (BTree, Txn) state their properties with   *)
(* these, and bound their histories with MustSplit and Overfills.          *)
(***************************************************************************)
EXTENDS BTreeOps

CONSTANTS
    Keys,   \* integers greater than 0
    Values

ASSUME KeysAssumption == Keys \subseteq Nat \ {0}
ASSUME SizeAssumption == /\ Size \in [Values -> Nat \ {0}]
                         /\ None \notin Values
                         /\ \A v \in Values : Size[v] <= LeafCap

\* The pages of the free list.
FreeSet(st) == Range(FreeWalk(st)) \cap PageNos(st)

ChildrenOf(st, pn) ==
    IF st.pages[pn].word = BranchWord
    THEN {e.l : e \in ToSet(Ents(st.pages[pn]))} \cup {e.r : e \in ToSet(Ents(st.pages[pn]))}
    ELSE {}

\* The pages of the tree.
Reachable(st, r) ==
    LET down[d \in 1 .. MaxDepth] ==
          IF d = 1 THEN {r} \cap PageNos(st)
          ELSE LET above == down[d - 1]
               IN  above \cup
                   ((UNION {ChildrenOf(st, pn) : pn \in above}) \cap PageNos(st))
    IN  down[MaxDepth]

\* Its leaves, and whether the scan's chain is made of them.
Leaves(st, r) == {pn \in Reachable(st, r) : IsLeaf(st.pages[pn])}
LeavesLinked(st, r) == /\ ScanEnds(st, r)
                       /\ ToSet(Chain(st, r)) = Leaves(st, r)

Leaked(st, r, oth) == PageNos(st) \ (FreeSet(st) \cup Reachable(st, r) \cup oth)

\* The map the tree stands for.
Contents(st, r) == [k \in Keys |-> Search(st, r, k)]

SortedByKey(ents) == \A i, j \in DOMAIN ents : i < j => ents[i].k < ents[j].k

----------------------------------------------------------------------------
(* Calls a history may have to leave out. *)

\* The leaf a call with this key ends at.
LeafFor(st, r, k) == st.pages[Last(Path(st, r, k))]
OnLeaf(st, r, k) == /\ r # 0
                    /\ Last(Path(st, r, k)) \in PageNos(st)
                    /\ IsLeaf(LeafFor(st, r, k))

\* btree_insert will divide the leaf.
MustSplit(st, r, k, v) == /\ OnLeaf(st, r, k)
                          /\ ~Holds(Ents(LeafFor(st, r, k)), k)
                          /\ ~HasRoom(LeafFor(st, r, k), [k |-> k, v |-> v])

\* Replacing the value makes the leaf larger than a page.
Overfills(st, r, k, v) ==
    /\ OnLeaf(st, r, k)
    /\ LET ents == Ents(LeafFor(st, r, k))
       IN  /\ Holds(ents, k)
           /\ Fill(ents) - Size[ents[SlotOf(ents, k)].v] + Size[v] > LeafCap

=============================================================================
