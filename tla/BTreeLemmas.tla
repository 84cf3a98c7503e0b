---------------------------- MODULE BTreeLemmas ----------------------------
(***************************************************************************)
(* Trees of one leaf, or of a root over two leaves: all that a history of  *)
(* at most one split builds.  What the operators of BTreeOps compute for   *)
(* such a tree, in a store of any size, and what they leave alone: first   *)
(* the pages, then, in the second part, the sorted map the tree is.        *)
(***************************************************************************)
EXTENDS BTreeView, PageStoreProofs

----------------------------------------------------------------------------
(* Nodes, trees and stores of nodes. *)

LeafEntry == [k : Keys, v : Values]
BranchEntry == [k : Keys, l : Nat, r : Nat]

\* What a page of the file holds: a node, or a link over the rest of one.
NodePage ==
    {page \in [word : Nat \cup {LeafWord, BranchWord},
               rest : [next : Nat, ents : Seq(LeafEntry) \cup Seq(BranchEntry)]] :
        /\ page.word = LeafWord => page.rest.ents \in Seq(LeafEntry)
        /\ page.word = BranchWord => page.rest.ents \in Seq(BranchEntry)}

\* Pages that hold a node, and pages that hold a link.
Used(st) == {pn \in PageNos(st) : st.pages[pn].word \in {LeafWord, BranchWord}}
Unused(st) == {pn \in PageNos(st) : st.pages[pn].word \in Nat}

\* A store in which the pages that hold a link are the free ones.
Good(st) == Listed(NodePage, st, Unused(st))

LeafAt(st, pn) == pn \in PageNos(st) /\ st.pages[pn].word = LeafWord

\* A root with one entry over two leaves.
Fork(st, r) == st.pages[r].rest.ents[1]
ForkAt(st, r) ==
    /\ r \in PageNos(st) /\ st.pages[r].word = BranchWord
    /\ Len(st.pages[r].rest.ents) = 1
    /\ LeafAt(st, Fork(st, r).l) /\ LeafAt(st, Fork(st, r).r)
    /\ Fork(st, r).l # Fork(st, r).r

SmallTree(st, r) == r = 0 \/ LeafAt(st, r) \/ ForkAt(st, r)
TreePages(st, r) ==
    IF r = 0 THEN {}
    ELSE IF LeafAt(st, r) THEN {r} ELSE {r, Fork(st, r).l, Fork(st, r).r}

----------------------------------------------------------------------------
(* Walks from the root. *)

LEMMA NodeTypes ==
  ASSUME NEW st \in StoresOf(NodePage), NEW pn \in PageNos(st)
  PROVE  /\ pn \in Nat \ {0}
         /\ st.pages[pn] \in NodePage
         /\ st.pages[pn].word \in Nat \cup {LeafWord, BranchWord}
         /\ ~IsLeaf(st.pages[pn]) => Ents(st.pages[pn]) \in Seq(BranchEntry)
<1>1. st.pages[pn] \in NodePage /\ pn \in Nat \ {0}
  BY StoreTypes
<1>2. QED
  BY <1>1, EmptySeq DEF NodePage, IsLeaf, Ents, LeafWord, BranchWord

LEMMA ChildIsNumber ==
  ASSUME NEW ents \in Seq(BranchEntry), NEW k \in Nat
  PROVE  ChildFor(ents, k) \in Nat
<1> DEFINE above == {i \in DOMAIN ents : k < ents[i].k}
<1>1. /\ DOMAIN ents = 1 .. Len(ents) /\ Len(ents) \in Nat
      /\ \A i \in DOMAIN ents : ents[i].l \in Nat /\ ents[i].r \in Nat
  <2>1. DOMAIN ents = 1 .. Len(ents) /\ Len(ents) \in Nat
    BY LenProperties
  <2>2. \A i \in DOMAIN ents : ents[i] \in BranchEntry
    BY <2>1, ElementOfSeq
  <2>3. QED
    BY <2>1, <2>2 DEF BranchEntry
<1>2. CASE above # {}
  <2>1. above \subseteq Nat
    BY <1>1
  <2>2. \E i \in above : \A j \in above : i <= j
    <3> HIDE DEF above
    <3>1. QED
      BY <1>2, <2>1, LeastNat
  <2>3. (CHOOSE i \in above : \A j \in above : i <= j) \in DOMAIN ents
    <3>1. (CHOOSE i \in above : \A j \in above : i <= j) \in above
      <4> HIDE DEF above
      <4>1. QED
        BY <2>2
    <3>2. QED
      BY <3>1
  <2>4. ChildFor(ents, k) = ents[CHOOSE i \in above : \A j \in above : i <= j].l
    BY <1>2 DEF ChildFor
  <2> HIDE DEF above
  <2>5. QED
    BY <1>1, <2>3, <2>4
<1>3. CASE above = {}
  <2>1. ChildFor(ents, k) = IF ents = <<>> THEN 0 ELSE ents[Len(ents)].r
    BY <1>3 DEF ChildFor
  <2>2. ents # <<>> => Len(ents) \in DOMAIN ents
    BY <1>1, EmptySeq
  <2>3. QED
    BY <1>1, <2>1, <2>2
<1>4. QED
  BY <1>2, <1>3

\* The equation of Path's recursion.
LEMMA PathWalk ==
  ASSUME NEW st \in StoresOf(NodePage), NEW root, NEW k \in Nat
  PROVE  \E from :
            /\ Path(st, root, k) = from[<<root>>]
            /\ \A way \in Seq(Nat) :
                  from[way] = IF Len(way) >= MaxDepth \/ EndsWalk(st, Last(way)) THEN way
                              ELSE from[Append(way, ChildFor(Ents(st.pages[Last(way)]), k))]
<1> DEFINE V == [Seq(Nat) -> Seq(Nat)]
           Stop(way) == EndsWalk(st, Last(way))
           Longer(way) == Append(way, ChildFor(Ents(st.pages[Last(way)]), k))
           same == [way \in Seq(Nat) |-> way]
           walk == [g \in V |-> [way \in Seq(Nat) |-> IF Stop(way) THEN way ELSE g[Longer(way)]]]
           next(f) == [way \in Seq(Nat) |-> IF Len(way) >= MaxDepth \/ Stop(way) THEN way
                                            ELSE f[Longer(way)]]
<1>1. \A way \in Seq(Nat) : ~Stop(way) => Longer(way) \in Seq(Nat) /\ Len(Longer(way)) = Len(way) + 1
  <2>1. TAKE way \in Seq(Nat)
  <2>2. HAVE ~Stop(way)
  <2>3. Ents(st.pages[Last(way)]) \in Seq(BranchEntry)
    BY <2>2, NodeTypes DEF EndsWalk
  <2>4. ChildFor(Ents(st.pages[Last(way)]), k) \in Nat
    BY <2>3, ChildIsNumber
  <2>5. QED
    BY <2>4, AppendProperties
<1>2. same \in V /\ walk \in [V -> V] /\ MaxDepth \in Nat
  <2>1. \A g \in V, way \in Seq(Nat) : (IF Stop(way) THEN way ELSE g[Longer(way)]) \in Seq(Nat)
    <3> HIDE DEF Stop, Longer
    <3>1. QED
      BY <1>1
  <2>2. MaxDepth \in Nat
    BY NodeAssumption
  <2> HIDE DEF Stop, Longer
  <2>3. QED
    BY <2>1, <2>2
<1>3. PICK f \in [0 .. MaxDepth -> V] :
         f[0] = same /\ \A i \in 1 .. MaxDepth : f[i] = walk[f[i - 1]]
  <2> HIDE DEF same, walk, V
  <2>1. QED
    BY <1>2, Repeats
<1> DEFINE left(way) == IF Len(way) >= MaxDepth THEN 0 ELSE MaxDepth - Len(way)
           from == [way \in Seq(Nat) |-> f[left(way)][way]]
<1>4. from = next(from)
  <2>1. ASSUME NEW way \in Seq(Nat)
        PROVE  f[left(way)][way] = IF Len(way) >= MaxDepth \/ Stop(way) THEN way ELSE from[Longer(way)]
    <3>0. Len(way) \in Nat /\ MaxDepth \in Nat
      BY <1>2
    <3>1. CASE Len(way) >= MaxDepth
      BY <3>1, <1>3
    <3>2. CASE ~(Len(way) >= MaxDepth)
      <4> DEFINE n == MaxDepth - Len(way)
      <4>1. n \in 1 .. MaxDepth /\ n - 1 \in 0 .. MaxDepth /\ left(way) = n
        BY <3>0, <3>2
      <4>2. ASSUME ~Stop(way) PROVE Longer(way) \in Seq(Nat) /\ left(Longer(way)) = n - 1
        <5> DEFINE len == Len(Longer(way))
        <5>1. Longer(way) \in Seq(Nat) /\ len = Len(way) + 1
          BY <4>2, <1>1
        <5>2. left(Longer(way)) = IF len >= MaxDepth THEN 0 ELSE MaxDepth - len
          OBVIOUS
        <5> HIDE DEF Stop, Longer, len, left
        <5>3. QED
          BY <5>1, <5>2, <3>0, <3>2
      <4> HIDE DEF n, left
      <4>3. f[n] = walk[f[n - 1]] /\ f[n - 1] \in V
        BY <4>1, <1>3
      <4>4. f[n][way] = IF Stop(way) THEN way ELSE f[n - 1][Longer(way)]
        <5> HIDE DEF Stop, Longer
        <5>1. QED
          BY <4>3
      <4>5. ~Stop(way) => from[Longer(way)] = f[n - 1][Longer(way)]
        <5> HIDE DEF Stop, Longer
        <5>1. QED
          BY <4>2
      <4> HIDE DEF Stop, Longer, from
      <4>6. QED
        BY <3>2, <4>1, <4>4, <4>5
    <3>3. QED
      BY <3>1, <3>2
  <2> HIDE DEF Stop, Longer, left
  <2>2. QED
    BY <2>1
<1>5. \E g : g = next(g) /\ Path(st, root, k) = g[<<root>>]
  <2> DEFINE g == CHOOSE g : g = next(g)
  <2>1. Path(st, root, k) = g[<<root>>]
    BY DEF Path
  <2> HIDE DEF next, from
  <2>2. g = next(g)
    BY <1>4
  <2>3. QED
    BY <2>1, <2>2
<1>6. PICK g : g = next(g) /\ Path(st, root, k) = g[<<root>>]
  BY <1>5
<1>7. \A way \in Seq(Nat) : g[way] = IF Len(way) >= MaxDepth \/ Stop(way) THEN way ELSE g[Longer(way)]
  <2> HIDE DEF Stop, Longer
  <2>1. QED
    BY <1>6
<1>8. QED
  BY <1>6, <1>7

LEMMA TwoLong ==
  ASSUME NEW a \in Nat, NEW b \in Nat, NEW s \in Seq(Nat), Len(s) = 2, s[1] = a, s[2] = b
  PROVE  s = <<a, b>>
<1>1. <<a, b>> \in Seq(Nat) /\ Len(<<a, b>>) = 2 /\ <<a, b>>[1] = a /\ <<a, b>>[2] = b
  OBVIOUS
<1> DEFINE t == <<a, b>>
<1>2. t \in Seq(Nat) /\ Len(t) = 2 /\ t[1] = a /\ t[2] = b
  BY <1>1
<1> HIDE DEF t
<1>3. s = t
  <2>1. \A i \in 1 .. Len(s) : s[i] = t[i]
    <3>1. \A i \in 1 .. Len(s) : i = 1 \/ i = 2
      OBVIOUS
    <3>2. QED
      BY <3>1, <1>2
  <2>2. QED
    BY <2>1, <1>2, SeqEqual
<1>4. QED
  BY <1>3 DEF t

\* The walk in a tree of one leaf, in one of a root over two leaves, and in none.
ForkChild(st, r, k) == IF k < Fork(st, r).k THEN Fork(st, r).l ELSE Fork(st, r).r
Route(st, r, k) == IF r = 0 \/ LeafAt(st, r) THEN <<r>> ELSE <<r, ForkChild(st, r, k)>>

LEMMA ForkTypes ==
  ASSUME NEW st \in StoresOf(NodePage), NEW r, ForkAt(st, r), NEW k \in Nat
  PROVE  /\ r \in PageNos(st) /\ r \in Nat \ {0} /\ ~IsLeaf(st.pages[r]) /\ ~LeafAt(st, r)
         /\ st.pages[r] \in NodePage
         /\ Ents(st.pages[r]) \in Seq(BranchEntry) /\ Len(Ents(st.pages[r])) = 1
         /\ Fork(st, r) = Ents(st.pages[r])[1] /\ Fork(st, r) \in BranchEntry
         /\ r \notin {Fork(st, r).l, Fork(st, r).r}
         /\ ChildFor(Ents(st.pages[r]), k) = ForkChild(st, r, k)
         /\ LeafAt(st, ForkChild(st, r, k)) /\ ForkChild(st, r, k) \in Nat \ {0}
<1> DEFINE ents == Ents(st.pages[r])
<1>1. /\ r \in PageNos(st) /\ r \in Nat \ {0} /\ st.pages[r].word = BranchWord
      /\ ents = st.pages[r].rest.ents /\ Len(ents) = 1 /\ ~IsLeaf(st.pages[r])
      /\ st.pages[r] \in NodePage
  BY NodeTypes DEF ForkAt, Ents, IsLeaf, BranchWord, LeafWord
<1>2. ents \in Seq(BranchEntry) /\ DOMAIN ents = 1 .. 1
  BY <1>1, NodeTypes, LenProperties
<1> HIDE DEF ents
<1>3. Fork(st, r) = ents[1] /\ ents[1] \in BranchEntry /\ ents # <<>>
  <2>1. Fork(st, r) = ents[1]
    BY <1>1 DEF Fork
  <2>2. ents[1] \in BranchEntry
    BY <1>1, <1>2, ElementOfSeq
  <2>3. ents # <<>>
    <3>1. ents = <<>> => Len(ents) = 0
      OBVIOUS
    <3>2. QED
      BY <3>1, <1>1
  <2>4. QED
    BY <2>1, <2>2, <2>3
<1>4. LeafAt(st, Fork(st, r).l) /\ LeafAt(st, Fork(st, r).r) /\ ~LeafAt(st, r)
  BY <1>1 DEF ForkAt, LeafAt, LeafWord, BranchWord
<1>5. ChildFor(ents, k) = ForkChild(st, r, k)
  <2> DEFINE above == {i \in DOMAIN ents : k < ents[i].k}
  <2>1. ChildFor(ents, k) = IF above # {} THEN ents[CHOOSE i \in above : \A j \in above : i <= j].l
                            ELSE ents[Len(ents)].r
    BY <1>3 DEF ChildFor
  <2>2. CASE k < ents[1].k
    <3>1. above = {1}
      BY <1>2, <2>2
    <3>2. (CHOOSE i \in above : \A j \in above : i <= j) = 1
      BY <3>1
    <3>3. QED
      BY <3>1, <3>2, <2>1, <2>2, <1>3 DEF ForkChild
  <2>3. CASE ~(k < ents[1].k)
    <3>1. above = {}
      BY <1>2, <2>3
    <3>2. QED
      BY <3>1, <2>1, <2>3, <1>1, <1>3 DEF ForkChild
  <2>4. QED
    BY <2>2, <2>3
<1>6. LeafAt(st, ForkChild(st, r, k)) /\ ForkChild(st, r, k) \in Nat \ {0}
  BY <1>4, NodeTypes DEF ForkChild, LeafAt
<1>7. QED
  BY <1>1, <1>2, <1>3, <1>4, <1>5, <1>6 DEF ents

LEMMA PathOfTree ==
  ASSUME NEW st \in StoresOf(NodePage), NEW r, SmallTree(st, r), NEW k \in Nat
  PROVE  Path(st, r, k) = Route(st, r, k)
<1>1. PICK from : /\ Path(st, r, k) = from[<<r>>]
                  /\ \A way \in Seq(Nat) :
                        from[way] = IF Len(way) >= MaxDepth \/ EndsWalk(st, Last(way)) THEN way
                                    ELSE from[Append(way, ChildFor(Ents(st.pages[Last(way)]), k))]
  BY PathWalk
<1>2. MaxDepth \in Nat /\ MaxDepth >= 2
  BY NodeAssumption
<1>3. CASE r = 0 \/ LeafAt(st, r)
  <2>1. r \in Nat /\ EndsWalk(st, r)
    BY <1>3, NodeTypes DEF EndsWalk, LeafAt, IsLeaf, PageNos
  <2>2. <<r>> \in Seq(Nat) /\ Last(<<r>>) = r
    BY <2>1 DEF Last
  <2>3. QED
    BY <1>1, <1>3, <2>1, <2>2 DEF Route
<1>4. CASE ~(r = 0 \/ LeafAt(st, r))
  <2> DEFINE child == ForkChild(st, r, k)
  <2>1. /\ r \in PageNos(st) /\ r \in Nat \ {0} /\ ~IsLeaf(st.pages[r])
        /\ ChildFor(Ents(st.pages[r]), k) = child
        /\ LeafAt(st, child) /\ child \in Nat \ {0}
    BY <1>4, ForkTypes DEF SmallTree
  <2> HIDE DEF child
  <2>2. <<r>> \in Seq(Nat) /\ Last(<<r>>) = r /\ Len(<<r>>) = 1
    BY <2>1 DEF Last
  <2>3. <<r, child>> \in Seq(Nat) /\ Last(<<r, child>>) = child /\ Len(<<r, child>>) = 2
    BY <2>1 DEF Last
  <2>4. ~EndsWalk(st, r) /\ EndsWalk(st, child)
    BY <2>1 DEF EndsWalk, LeafAt, IsLeaf
  <2>5. from[<<r>>] = from[<<r, child>>]
    <3>1. from[<<r>>] = from[Append(<<r>>, child)]
      <4> DEFINE start == <<r>>
      <4>1. start \in Seq(Nat) /\ Last(start) = r /\ ~(Len(start) >= MaxDepth)
        BY <1>2, <2>2
      <4> HIDE DEF start
      <4>2. from[start] = from[Append(start, child)]
        BY <1>1, <2>1, <2>4, <4>1
      <4>3. QED
        BY <4>2 DEF start
    <3>2. Append(<<r>>, child) = <<r, child>>
      <4>1. /\ Append(<<r>>, child) \in Seq(Nat) /\ Len(Append(<<r>>, child)) = 2
            /\ Append(<<r>>, child)[1] = r /\ Append(<<r>>, child)[2] = child
        BY <2>1, <2>2, AppendProperties
      <4>2. QED
        BY <2>1, <4>1, TwoLong, Zenon
    <3>3. QED
      BY <3>1, <3>2
  <2>6. from[<<r, child>>] = <<r, child>>
    BY <1>1, <2>3, <2>4
  <2>7. QED
    BY <1>1, <1>4, <2>5, <2>6 DEF Route, child
<1>5. QED
  BY <1>3, <1>4

----------------------------------------------------------------------------
(* Pages in use and pages that are free. *)

LEMMA NodePages == IsPageSet(NodePage)
<1> DEFINE Words == Nat \cup {LeafWord, BranchWord}
           Rests == [next : Nat, ents : Seq(LeafEntry) \cup Seq(BranchEntry)]
<1>1. ZeroPage \in NodePage
  <2>1. ZeroBody \in Rests
    BY EmptySeq DEF ZeroBody
  <2>2. ZeroPage = [word |-> 0, rest |-> ZeroBody]
    BY NodeAssumption DEF ZeroPage
  <2> HIDE DEF Rests
  <2>3. ZeroPage \in [word : Words, rest : Rests]
    BY <2>1, <2>2
  <2>4. ZeroPage.word # LeafWord /\ ZeroPage.word # BranchWord
    BY <2>2 DEF LeafWord, BranchWord
  <2>5. QED
    BY <2>3, <2>4 DEF NodePage, Rests
<1>2. ASSUME NEW page \in NodePage, NEW w \in Nat
      PROVE  /\ page.word \in Int
             /\ [page EXCEPT !.word = w] \in NodePage /\ [page EXCEPT !.word = w].word = w
  <2> DEFINE new == [page EXCEPT !.word = w]
  <2>1. page \in [word : Words, rest : Rests]
    BY DEF NodePage
  <2> HIDE DEF Rests
  <2>2. page.word \in Int
    BY <2>1 DEF LeafWord, BranchWord
  <2>3. new \in [word : Words, rest : Rests] /\ new.word = w
    BY <2>1
  <2>4. new.word # LeafWord /\ new.word # BranchWord
    BY <2>3 DEF LeafWord, BranchWord
  <2>5. QED
    BY <2>2, <2>3, <2>4 DEF NodePage, Rests
<1>3. QED
  BY <1>1, <1>2 DEF IsPageSet

LEMMA MakeNodes ==
  ASSUME NEW next \in Nat
  PROVE  /\ \A ents \in Seq(LeafEntry) : Leaf(next, ents) \in NodePage /\ Leaf(next, ents).word = LeafWord
         /\ \A ents \in Seq(BranchEntry) : Branch(ents) \in NodePage /\ Branch(ents).word = BranchWord
<1> DEFINE Words == Nat \cup {LeafWord, BranchWord}
           Lists == Seq(LeafEntry) \cup Seq(BranchEntry)
<1>1. LeafWord # BranchWord /\ LeafWord \in Words /\ BranchWord \in Words
  BY DEF LeafWord, BranchWord
<1>2. ASSUME NEW ents \in Seq(LeafEntry)
      PROVE  Leaf(next, ents) \in NodePage /\ Leaf(next, ents).word = LeafWord
  <2>1. ents \in Lists
    OBVIOUS
  <2> HIDE DEF Lists
  <2>2. /\ Leaf(next, ents) \in [word : Words, rest : [next : Nat, ents : Lists]]
        /\ Leaf(next, ents).word = LeafWord /\ Leaf(next, ents).rest.ents = ents
    BY <1>1, <2>1 DEF Leaf
  <2>3. QED
    BY <1>1, <2>2 DEF NodePage, Lists
<1>3. ASSUME NEW ents \in Seq(BranchEntry)
      PROVE  Branch(ents) \in NodePage /\ Branch(ents).word = BranchWord
  <2>1. ents \in Lists /\ 0 \in Nat
    OBVIOUS
  <2> HIDE DEF Lists
  <2>2. /\ Branch(ents) \in [word : Words, rest : [next : Nat, ents : Lists]]
        /\ Branch(ents).word = BranchWord /\ Branch(ents).rest.ents = ents
    BY <1>1, <2>1 DEF Branch
  <2>3. QED
    BY <1>1, <2>2 DEF NodePage, Lists
<1>4. QED
  BY <1>2, <1>3

\* The pages outside U are the free ones.
Owned(st, U) == U \subseteq PageNos(st) /\ Listed(NodePage, st, PageNos(st) \ U)

LEMMA OwnedTypes ==
  ASSUME NEW st, NEW U, Owned(st, U)
  PROVE  /\ st \in StoresOf(NodePage) /\ Len(st.pages) \in Nat /\ Len(st.pages) < MaxPages
         /\ U \subseteq PageNos(st) /\ PageNos(st) = 1 .. Len(st.pages)
         /\ \A pn \in PageNos(st) : pn \in Nat \ {0} /\ st.pages[pn] \in NodePage
  BY StoreTypes, NodeTypes DEF Owned, Listed

LEMMA GoodOwned ==
  ASSUME NEW st, Good(st)
  PROVE  Owned(st, Used(st))
<1>1. st \in StoresOf(NodePage)
  BY DEF Good, Listed
<1>2. Unused(st) = PageNos(st) \ Used(st)
  BY <1>1, NodeTypes DEF Used, Unused, LeafWord, BranchWord
<1>3. QED
  BY <1>2 DEF Good, Owned, Used

LEMMA OwnedGood ==
  ASSUME NEW st, NEW U, Owned(st, U), \A pn \in U : st.pages[pn].word \in {LeafWord, BranchWord}
  PROVE  Good(st) /\ Used(st) = U
<1>1. st \in StoresOf(NodePage)
  BY DEF Owned, Listed
<1>2. \A pn \in PageNos(st) \ U : st.pages[pn].word \in Nat
  BY <1>1, FreePagesFacts DEF Owned, Listed
<1>3. Used(st) = U
  BY <1>2 DEF Owned, Used, LeafWord, BranchWord
<1>4. Unused(st) = PageNos(st) \ U
  BY <1>2 DEF Unused, LeafWord, BranchWord
<1>5. QED
  BY <1>3, <1>4 DEF Good, Owned

\* a is the answer of an allocation: a page not in use yet, with `page' on it,
\* or page 0 when there is none.
Took(st, U, page, a) ==
    /\ a.pn \in Nat
    /\ a.pn = 0 => a.st = st /\ U = PageNos(st) /\ Len(st.pages) = MaxPages - 1
    /\ a.pn # 0 => /\ a.pn \notin U /\ Owned(a.st, U \cup {a.pn})
                   /\ a.st.pages[a.pn] = page
                   /\ \A pn \in U : a.st.pages[pn] = st.pages[pn]
                   /\ PageNos(a.st) = PageNos(st) \cup {a.pn}

\* st2 is st after a write to, or the release of, a page in use.
Wrote(st, U, pn, page, st2) ==
    /\ Owned(st2, U) /\ st2.pages[pn] = page /\ PageNos(st2) = PageNos(st)
    /\ \A o \in PageNos(st) \ {pn} : st2.pages[o] = st.pages[o]

Released(st, U, pn, st2) ==
    /\ Owned(st2, U \ {pn}) /\ PageNos(st2) = PageNos(st)
    /\ \A o \in PageNos(st) \ {pn} : st2.pages[o] = st.pages[o]

\* pager_alloc
LEMMA OwnAlloc ==
  ASSUME NEW st, NEW U, Owned(st, U)
  PROVE  Took(st, U, ZeroPage, PagerAlloc(st))
<1> DEFINE F == PageNos(st) \ U
           a == PagerAlloc(st)
<1>1. Listed(NodePage, st, F) /\ U \subseteq PageNos(st)
  BY DEF Owned
<1>2. MaxPages \in Nat
  BY MaxPagesAssumption
<1> HIDE DEF F
<1>3. /\ a.pn \in 0 .. MaxPages - 1
      /\ a.pn = 0 => a.st = st /\ F = {} /\ Len(st.pages) = MaxPages - 1
      /\ a.pn # 0 =>
            /\ Listed(NodePage, a.st, F \ {a.pn})
            /\ a.pn \in PageNos(a.st) /\ PageNos(a.st) = PageNos(st) \cup {a.pn}
            /\ \/ a.pn \in F /\ Len(a.st.pages) = Len(st.pages)
               \/ a.pn \notin PageNos(st) /\ F = {} /\ Len(a.st.pages) = Len(st.pages) + 1
            /\ a.st.pages[a.pn] = ZeroPage
            /\ \A pn \in PageNos(st) \ {a.pn} : a.st.pages[pn] = st.pages[pn]
  BY <1>1, NodePages, PageTaken
<1> HIDE DEF a
<1>4. a.pn = 0 => U = PageNos(st)
  BY <1>1, <1>3 DEF F
<1>5. ASSUME a.pn # 0
      PROVE  /\ a.pn \notin U /\ Owned(a.st, U \cup {a.pn})
             /\ \A pn \in U : a.st.pages[pn] = st.pages[pn]
  <2>1. a.pn \notin U
    BY <1>1, <1>3, <1>5 DEF F
  <2>2. PageNos(a.st) \ (U \cup {a.pn}) = F \ {a.pn}
    BY <1>3, <1>5 DEF F
  <2>3. U \cup {a.pn} \subseteq PageNos(a.st)
    BY <1>1, <1>3, <1>5
  <2>4. QED
    BY <1>1, <1>3, <1>5, <2>1, <2>2, <2>3 DEF Owned
<1>6. a.pn \in Nat
  BY <1>2, <1>3
<1>7. QED
  BY <1>3, <1>4, <1>5, <1>6 DEF a, Took

\* A write to a page in use.
LEMMA OwnSet ==
  ASSUME NEW st, NEW U, Owned(st, U), NEW pn \in U, NEW page \in NodePage
  PROVE  Wrote(st, U, pn, page, SetPage(st, pn, page))
<1> DEFINE F == PageNos(st) \ U
<1>1. Listed(NodePage, st, F) /\ pn \in PageNos(st) \ F
  BY DEF Owned
<1> HIDE DEF F
<1>2. LET st2 == SetPage(st, pn, page)
      IN  /\ Listed(NodePage, st2, F) /\ PageNos(st2) = PageNos(st)
          /\ Len(st2.pages) = Len(st.pages) /\ st2.head = st.head
          /\ st2.pages[pn] = page
          /\ \A o \in PageNos(st) \ {pn} : st2.pages[o] = st.pages[o]
  BY <1>1, PageSet
<1>3. QED
  BY <1>2 DEF Owned, F, Wrote

\* pager_free of a page in use.
LEMMA OwnFree ==
  ASSUME NEW st, NEW U, Owned(st, U), NEW pn \in U
  PROVE  Released(st, U, pn, PagerFree(st, pn))
<1> DEFINE F == PageNos(st) \ U
<1>1. Listed(NodePage, st, F) /\ pn \in PageNos(st) \ F
  BY DEF Owned
<1> HIDE DEF F
<1>2. LET st2 == PagerFree(st, pn)
      IN  /\ Listed(NodePage, st2, F \cup {pn}) /\ PageNos(st2) = PageNos(st)
          /\ Len(st2.pages) = Len(st.pages) /\ st2.head = pn
          /\ st2.pages[pn].word = st.head
          /\ \A o \in PageNos(st) \ {pn} : st2.pages[o] = st.pages[o]
  BY <1>1, NodePages, PageFreed
<1>3. PageNos(st) \ (U \ {pn}) = F \cup {pn} /\ U \ {pn} \subseteq PageNos(st)
  BY <1>1 DEF F, Owned
<1>4. QED
  BY <1>2, <1>3 DEF Owned, Released

\* alloc_copy
LEMMA OwnCopy ==
  ASSUME NEW st, NEW U, Owned(st, U), NEW src \in U
  PROVE  Took(st, U, st.pages[src], AllocCopy(st, src))
<1> DEFINE a == PagerAlloc(st)
           c == AllocCopy(st, src)
           page == st.pages[src]
           st2 == SetPage(a.st, a.pn, page)
<1>1. Took(st, U, ZeroPage, a)
  BY OwnAlloc
<1>2. c = IF a.pn = 0 THEN a ELSE [pn |-> a.pn, st |-> st2]
  BY DEF AllocCopy
<1>3. page \in NodePage /\ U \subseteq PageNos(st)
  BY OwnedTypes
<1> HIDE DEF a, c, page
<1>4. CASE a.pn = 0
  BY <1>1, <1>2, <1>4 DEF Took, c, page
<1>5. CASE a.pn # 0
  <2>1. Owned(a.st, U \cup {a.pn}) /\ a.pn \in U \cup {a.pn}
    BY <1>1, <1>5 DEF Took
  <2>2. Wrote(a.st, U \cup {a.pn}, a.pn, page, st2)
    BY <1>3, <2>1, OwnSet
  <2>3. c.pn = a.pn /\ c.st = st2
    BY <1>2, <1>5
  <2> HIDE DEF st2
  <2>4. Took(st, U, page, c)
    BY <1>1, <1>3, <1>5, <2>2, <2>3 DEF Took, Wrote
  <2>5. QED
    BY <2>4 DEF c, page
<1>6. QED
  BY <1>4, <1>5

\* The walk of the free list passes the pages that hold a link.
LEMMA FreeSetOfGood ==
  ASSUME NEW st, Good(st)
  PROVE  FreeListEnds(st) /\ FreeSet(st) = Unused(st)
<1>1. st \in StoresOf(NodePage) /\ Len(st.pages) < MaxPages /\ FreePages(st, Unused(st))
  BY DEF Good, Listed
<1>2. PICK s \in Seq(PageNos(st)) : IsFreeList(st, s) /\ Unused(st) = {s[a] : a \in DOMAIN s}
  BY <1>1 DEF FreePages
<1> DEFINE walk == FreeWalk(st)
<1>3. /\ Len(s) \in Nat /\ Len(s) < MaxPages /\ MaxPages \in Nat
      /\ DOMAIN walk = 1 .. MaxPages
      /\ \A i \in 1 .. MaxPages : walk[i] = IF i <= Len(s) THEN s[Len(s) - i + 1] ELSE 0
  BY <1>1, <1>2, WalkFacts, MaxPagesAssumption
<1>4. DOMAIN s = 1 .. Len(s) /\ \A a \in 1 .. Len(s) : s[a] \in PageNos(st)
  BY <1>1, <1>2, ListLinks
<1> HIDE DEF walk
<1>5. Range(walk) = {walk[i] : i \in 1 .. MaxPages}
  BY <1>3 DEF Range
<1>6. \A pn \in Unused(st) : pn \in Range(walk) /\ pn \in PageNos(st)
  <2>1. TAKE pn \in Unused(st)
  <2>2. PICK a \in 1 .. Len(s) : pn = s[a]
    BY <1>2, <1>4
  <2>3. Len(s) - a + 1 \in 1 .. MaxPages /\ Len(s) - a + 1 <= Len(s) /\ Len(s) - (Len(s) - a + 1) + 1 = a
    BY <1>3
  <2>4. walk[Len(s) - a + 1] = s[a]
    BY <1>3, <2>3
  <2>5. QED
    BY <1>4, <1>5, <2>2, <2>3, <2>4
<1>7. \A pn \in Range(walk) \cap PageNos(st) : pn \in Unused(st)
  <2>1. TAKE pn \in Range(walk) \cap PageNos(st)
  <2>2. PICK i \in 1 .. MaxPages : pn = walk[i]
    BY <1>5
  <2>3. pn # 0
    BY DEF PageNos
  <2>4. i <= Len(s) /\ pn = s[Len(s) - i + 1]
    BY <1>3, <2>2, <2>3
  <2>5. Len(s) - i + 1 \in DOMAIN s
    BY <1>3, <1>4, <2>4
  <2>6. QED
    BY <1>2, <2>4, <2>5
<1>8. walk[MaxPages] = 0
  BY <1>3
<1>9. QED
  BY <1>6, <1>7, <1>8 DEF FreeListEnds, FreeSet, walk

\* The pages that can be reached from a root are those of its tree.
LEMMA ReachableOfTree ==
  ASSUME NEW st \in StoresOf(NodePage), NEW r, SmallTree(st, r)
  PROVE  Reachable(st, r) = TreePages(st, r)
<1> DEFINE Down(above) == above \cup ((UNION {ChildrenOf(st, pn) : pn \in above}) \cap PageNos(st))
           next(f) == [d \in 1 .. MaxDepth |-> IF d = 1 THEN {r} \cap PageNos(st) ELSE Down(f[d - 1])]
           g == [d \in 1 .. MaxDepth |-> IF d = 1 THEN {r} \cap PageNos(st) ELSE TreePages(st, r)]
<1>1. MaxDepth \in Nat /\ MaxDepth >= 2
  BY NodeAssumption
<1>2. \A pn \in PageNos(st) : LeafAt(st, pn) => ChildrenOf(st, pn) = {}
  BY DEF LeafAt, ChildrenOf, LeafWord, BranchWord
<1>3. Down({r} \cap PageNos(st)) = TreePages(st, r) /\ Down(TreePages(st, r)) = TreePages(st, r)
  <2>1. CASE r = 0
    BY <2>1 DEF TreePages, PageNos
  <2>2. CASE LeafAt(st, r)
    <3>1. r \in PageNos(st) /\ r # 0 /\ ChildrenOf(st, r) = {}
      BY <1>2, <2>2 DEF LeafAt, PageNos
    <3>2. {r} \cap PageNos(st) = {r} /\ TreePages(st, r) = {r}
      BY <2>2, <3>1 DEF TreePages
    <3>3. UNION {ChildrenOf(st, pn) : pn \in {r}} = {}
      BY <3>1
    <3>4. Down({r}) = {r}
      BY <3>3
    <3> DEFINE start == {r} \cap PageNos(st)
               tree == TreePages(st, r)
    <3>5. start = {r} /\ tree = {r}
      BY <3>2
    <3> HIDE DEF Down, start, tree
    <3>6. Down(start) = tree /\ Down(tree) = tree
      BY <3>4, <3>5
    <3>7. QED
      BY <3>6 DEF start, tree
  <2>3. CASE ~(r = 0 \/ LeafAt(st, r))
    <3> DEFINE left == Fork(st, r).l
               right == Fork(st, r).r
    <3>1. ForkAt(st, r)
      BY <2>3 DEF SmallTree
    <3>2. r \in PageNos(st) /\ LeafAt(st, left) /\ LeafAt(st, right) /\ st.pages[r].word = BranchWord
      BY <3>1 DEF ForkAt
    <3>3. left \in PageNos(st) /\ right \in PageNos(st) /\ ChildrenOf(st, left) = {} /\ ChildrenOf(st, right) = {}
      BY <1>2, <3>2 DEF LeafAt
    <3>4. ChildrenOf(st, r) = {left, right}
      <4> DEFINE ents == Ents(st.pages[r])
      <4>1. ents \in Seq(BranchEntry) /\ Len(ents) = 1 /\ Fork(st, r) = ents[1]
        BY <3>1, ForkTypes
      <4> HIDE DEF ents
      <4>2. DOMAIN ents = 1 .. 1
        BY <4>1, LenProperties
      <4>3. ToSet(ents) = {Fork(st, r)}
        BY <4>1, <4>2 DEF ToSet
      <4>4. ChildrenOf(st, r) = {e.l : e \in ToSet(ents)} \cup {e.r : e \in ToSet(ents)}
        BY <3>2 DEF ChildrenOf, ents
      <4>5. QED
        BY <4>3, <4>4
    <3>5. TreePages(st, r) = {r, left, right}
      BY <2>3 DEF TreePages
    <3> HIDE DEF left, right
    <3>6. {r} \cap PageNos(st) = {r}
      BY <3>2
    <3>7. UNION {ChildrenOf(st, pn) : pn \in {r}} = {left, right}
      BY <3>4
    <3>8. UNION {ChildrenOf(st, pn) : pn \in {r, left, right}} = {left, right}
      BY <3>3, <3>4
    <3> DEFINE start == {r} \cap PageNos(st)
               tree == TreePages(st, r)
               all == {r, left, right}
    <3>9. start = {r} /\ tree = all
      BY <3>5, <3>6
    <3>10. Down({r}) = all
      <4>1. {left, right} \cap PageNos(st) = {left, right} /\ {r} \cup {left, right} = all
        BY <3>3
      <4> DEFINE kids == UNION {ChildrenOf(st, pn) : pn \in {r}}
      <4>2. kids = {left, right}
        BY <3>7
      <4>3. Down({r}) = {r} \cup (kids \cap PageNos(st))
        OBVIOUS
      <4> HIDE DEF Down, all, kids
      <4>4. QED
        BY <4>1, <4>2, <4>3
    <3>11. Down(all) = all
      BY <3>3, <3>8
    <3> HIDE DEF Down, start, tree, all
    <3>12. Down(start) = tree /\ Down(tree) = tree
      BY <3>9, <3>10, <3>11
    <3>13. QED
      BY <3>12 DEF start, tree
  <2>4. QED
    BY <2>1, <2>2, <2>3
<1> DEFINE down == CHOOSE f : f = next(f)
<1>4. Reachable(st, r) = down[MaxDepth]
  BY DEF Reachable
<1> HIDE DEF Down
<1>5. g = next(g)
  <2>1. \A d \in 1 .. MaxDepth : d # 1 => Down(g[d - 1]) = TreePages(st, r)
    <3>1. TAKE d \in 1 .. MaxDepth
    <3>2. d # 1 => d - 1 \in 1 .. MaxDepth
      BY <1>1
    <3>3. QED
      BY <3>2, <1>3
  <2>2. \A d \in 1 .. MaxDepth : g[d] = next(g)[d]
    BY <2>1
  <2>3. QED
    BY <2>2
<1>6. down = next(down)
  <2> HIDE DEF next, g
  <2>1. QED
    BY <1>5
<1> HIDE DEF down
<1>7. \A d \in 1 .. MaxDepth : down[d] = g[d]
  <2> DEFINE wrong == {d \in 1 .. MaxDepth : down[d] # g[d]}
  <2>1. SUFFICES ASSUME wrong # {} PROVE FALSE
    OBVIOUS
  <2>2. wrong \subseteq Nat
    OBVIOUS
  <2>3. PICK d \in wrong : \A j \in wrong : d <= j
    <3> HIDE DEF wrong
    <3>1. QED
      BY <2>1, <2>2, LeastNat
  <2>4. d \in 1 .. MaxDepth /\ down[d] # g[d]
    BY <2>3
  <2>5. d # 1 => d - 1 \in 1 .. MaxDepth /\ down[d - 1] = g[d - 1]
    <3>1. d # 1 => d - 1 \in 1 .. MaxDepth /\ d - 1 < d
      BY <2>4, <1>1
    <3>2. QED
      BY <3>1, <2>3, <1>1
  <2>6. down[d] = next(down)[d] /\ g[d] = next(g)[d]
    BY <1>5, <1>6
  <2> HIDE DEF wrong, g
  <2>7. QED
    BY <2>4, <2>5, <2>6
<1>8. MaxDepth \in 1 .. MaxDepth /\ g[MaxDepth] = TreePages(st, r)
  BY <1>1
<1>9. QED
  BY <1>4, <1>7, <1>8

----------------------------------------------------------------------------
(* The entries of a leaf. *)

LEMMA FillSteps ==
  ASSUME NEW ents \in Seq(LeafEntry)
  PROVE  \E used \in [0 .. Len(ents) -> Nat] :
            /\ used[0] = 0 /\ Fill(ents) = used[Len(ents)]
            /\ \A i \in 1 .. Len(ents) : used[i] = used[i - 1] + Size[ents[i].v]
<1> DEFINE N == Len(ents)
           step == [i \in 1 .. N |-> [n \in Nat |-> n + Size[ents[i].v]]]
           next(f) == [n \in 0 .. N |-> IF n = 0 THEN 0 ELSE f[n - 1] + Size[ents[n].v]]
           used == CHOOSE f : f = next(f)
<1>1. N \in Nat /\ \A i \in 1 .. N : Size[ents[i].v] \in Nat
  <2>1. N \in Nat /\ \A i \in 1 .. N : ents[i] \in LeafEntry
    BY LenProperties, ElementOfSeq
  <2>2. QED
    BY <2>1, SizeAssumption DEF LeafEntry
<1>2. Fill(ents) = used[N]
  BY DEF Fill
<1> HIDE DEF N
<1>3. PICK f \in [0 .. N -> Nat] : f[0] = 0 /\ \A i \in 1 .. N : f[i] = f[i - 1] + Size[ents[i].v]
  <2>1. step \in [1 .. N -> [Nat -> Nat]]
    BY <1>1
  <2>2. \A i \in 1 .. N, n \in Nat : step[i][n] = n + Size[ents[i].v]
    OBVIOUS
  <2> HIDE DEF step
  <2>3. PICK f \in [0 .. N -> Nat] : f[0] = 0 /\ \A i \in 1 .. N : f[i] = step[i][f[i - 1]]
    <3>1. N \in Nat /\ 0 \in Nat
      BY <1>1
    <3>2. Recursive(Nat, 0, N, step)
      BY <2>1, <3>1, Iterates
    <3>3. QED
      BY <3>2 DEF Recursive
  <2>4. \A i \in 1 .. N : f[i - 1] \in Nat
    BY <1>1
  <2>5. QED
    BY <2>2, <2>3, <2>4
<1>4. f = next(f)
  <2>1. \A n \in 0 .. N : n # 0 => n \in 1 .. N
    BY <1>1
  <2>2. QED
    BY <1>3, <2>1
<1>5. used = next(used)
  <2> HIDE DEF next
  <2>1. QED
    BY <1>4
<1> HIDE DEF used
<1>6. /\ used[0] = 0
      /\ \A i \in 1 .. N : used[i] = used[i - 1] + Size[ents[i].v]
  BY <1>1, <1>5
<1>7. \A i \in 0 .. N : used[i] \in Nat
  <2> DEFINE T == {i \in 0 .. N : used[i] \in Nat}
  <2>1. 0 \in T
    BY <1>1, <1>6
  <2>2. ASSUME NEW i \in 1 .. N, i - 1 \in T PROVE i \in T
    <3>1. used[i - 1] \in Nat /\ Size[ents[i].v] \in Nat /\ i \in 0 .. N
      BY <1>1, <2>2
    <3>2. used[i] = used[i - 1] + Size[ents[i].v]
      BY <1>6
    <3>3. QED
      BY <3>1, <3>2
  <2> HIDE DEF T
  <2>3. \A i \in 0 .. N : i \in T
    BY <1>1, <2>1, <2>2, Upwards
  <2>4. QED
    BY <2>3 DEF T
<1>8. used \in [0 .. N -> Nat]
  <2>1. used = [i \in 0 .. N |-> used[i]]
    BY <1>5
  <2> HIDE DEF next
  <2>2. QED
    BY <1>7, <2>1
<1>9. QED
  BY <1>2, <1>6, <1>8 DEF N

LEMMA FillEmpty == Fill(<<>>) = 0
<1>1. <<>> \in Seq(LeafEntry) /\ Len(<<>>) = 0
  BY EmptySeq
<1> DEFINE none == <<>>
<1>2. none \in Seq(LeafEntry) /\ Len(none) = 0
  BY <1>1
<1> HIDE DEF none
<1>3. Fill(none) = 0
  BY <1>2, FillSteps
<1>4. QED
  BY <1>3 DEF none

\* What node_insert_leaf leaves of a list of entries is a list of entries.
LEMMA RebuildSteps ==
  ASSUME NEW list \in Seq(LeafEntry)
  PROVE  \E kept \in [0 .. Len(list) -> Seq(LeafEntry)] :
            /\ kept[0] = <<>> /\ Rebuild(list) = kept[Len(list)]
            /\ \A i \in 1 .. Len(list) :
                  kept[i] = IF Fill(kept[i - 1]) + Size[list[i].v] <= LeafCap
                            THEN Append(kept[i - 1], list[i]) ELSE kept[i - 1]
<1> DEFINE N == Len(list)
           V == Seq(LeafEntry)
           More(i, ents) == IF Fill(ents) + Size[list[i].v] <= LeafCap THEN Append(ents, list[i]) ELSE ents
           step == [i \in 1 .. N |-> [ents \in V |-> More(i, ents)]]
           next(f) == [n \in 0 .. N |-> IF n = 0 THEN <<>> ELSE More(n, f[n - 1])]
           kept == CHOOSE f : f = next(f)
<1>1. N \in Nat /\ <<>> \in V /\ \A i \in 1 .. N : list[i] \in LeafEntry
  BY LenProperties, ElementOfSeq, EmptySeq
<1>2. Rebuild(list) = kept[N]
  BY DEF Rebuild
<1>3. \A i \in 1 .. N, ents \in V : More(i, ents) \in V
  BY <1>1, AppendProperties
<1> HIDE DEF N, V, More
<1>4. PICK f \in [0 .. N -> V] : f[0] = <<>> /\ \A i \in 1 .. N : f[i] = More(i, f[i - 1])
  <2>1. step \in [1 .. N -> [V -> V]]
    BY <1>3
  <2>2. \A i \in 1 .. N, ents \in V : step[i][ents] = More(i, ents)
    OBVIOUS
  <2> HIDE DEF step
  <2>3. PICK f \in [0 .. N -> V] : f[0] = <<>> /\ \A i \in 1 .. N : f[i] = step[i][f[i - 1]]
    <3>1. N \in Nat /\ <<>> \in V
      BY <1>1
    <3>2. Recursive(V, <<>>, N, step)
      BY <2>1, <3>1, Iterates
    <3>3. QED
      BY <3>2 DEF Recursive
  <2>4. \A i \in 1 .. N : f[i - 1] \in V
    BY <1>1
  <2>5. QED
    BY <2>2, <2>3, <2>4
<1>5. f = next(f)
  <2>1. \A n \in 0 .. N : n # 0 => n \in 1 .. N
    BY <1>1
  <2>2. QED
    BY <1>4, <2>1
<1>6. kept = next(kept)
  <2> HIDE DEF next
  <2>1. QED
    BY <1>5
<1> HIDE DEF kept
<1>7. kept[0] = <<>> /\ \A i \in 1 .. N : kept[i] = More(i, kept[i - 1])
  BY <1>1, <1>6
<1>8. \A i \in 0 .. N : kept[i] \in V
  <2> DEFINE T == {i \in 0 .. N : kept[i] \in V}
  <2>1. 0 \in T
    BY <1>1, <1>7
  <2>2. ASSUME NEW i \in 1 .. N, i - 1 \in T PROVE i \in T
    BY <1>1, <1>3, <1>7, <2>2
  <2> HIDE DEF T
  <2>3. \A i \in 0 .. N : i \in T
    BY <1>1, <2>1, <2>2, Upwards
  <2>4. QED
    BY <2>3 DEF T
<1>9. kept \in [0 .. N -> V]
  <2>1. kept = [i \in 0 .. N |-> kept[i]]
    BY <1>6
  <2> HIDE DEF next
  <2>2. QED
    BY <1>8, <2>1
<1>10. QED
  BY <1>2, <1>7, <1>9 DEF N, V, More

LEMMA RebuildType ==
  ASSUME NEW list \in Seq(LeafEntry)
  PROVE  Rebuild(list) \in Seq(LeafEntry)
<1>1. Len(list) \in Nat
  BY LenProperties
<1>2. Len(list) \in 0 .. Len(list)
  BY <1>1
<1>3. QED
  BY <1>2, RebuildSteps

\* Slots, and what is done at them.
LEMMA SlotRange ==
  ASSUME NEW ents \in Seq(LeafEntry), NEW k \in Keys
  PROVE  SlotOf(ents, k) \in 1 .. Len(ents) + 1
<1> DEFINE below == {i \in DOMAIN ents : ents[i].k < k}
           N == Len(ents)
<1>1. N \in Nat /\ DOMAIN ents = 1 .. N
  BY LenProperties
<1>2. IsFiniteSet(1 .. N) /\ Cardinality(1 .. N) = N
  <2>1. IsFiniteSet(1 .. N) /\ Cardinality(1 .. N) = IF 1 > N THEN 0 ELSE N - 1 + 1
    BY <1>1, FS_Interval
  <2>2. QED
    BY <1>1, <2>1
<1>3. below \subseteq 1 .. N
  BY <1>1
<1>4. SlotOf(ents, k) = 1 + Cardinality(below)
  BY DEF SlotOf
<1> HIDE DEF below, N
<1>5. IsFiniteSet(below) /\ Cardinality(below) \in Nat /\ Cardinality(below) <= N
  BY <1>2, <1>3, FS_Subset, FS_CardinalityType
<1>6. QED
  BY <1>1, <1>4, <1>5 DEF N

LEMMA EntryRemoved ==
  ASSUME NEW ents \in Seq(LeafEntry), NEW i \in 1 .. Len(ents) + 1
  PROVE  RemoveAt(ents, i) \in Seq(LeafEntry)
<1> DEFINE pre == SubSeq(ents, 1, i - 1)
           after == SubSeq(ents, i + 1, Len(ents))
<1>1. /\ Len(ents) \in Nat /\ \A j \in 1 .. Len(ents) : ents[j] \in LeafEntry
  BY LenProperties, ElementOfSeq
<1>2. pre \in Seq(LeafEntry)
  <2>1. \A j \in 1 .. i - 1 : ents[j] \in LeafEntry
    BY <1>1
  <2>2. i - 1 \in Int
    BY <1>1
  <2>3. QED
    BY <2>1, <2>2, SubSeqProperties
<1>3. after \in Seq(LeafEntry)
  <2>1. \A j \in i + 1 .. Len(ents) : ents[j] \in LeafEntry
    BY <1>1
  <2>2. i + 1 \in Int /\ Len(ents) \in Int
    BY <1>1
  <2>3. QED
    BY <2>1, <2>2, SubSeqProperties
<1>4. RemoveAt(ents, i) = pre \o after
  BY DEF RemoveAt
<1> HIDE DEF pre, after
<1>5. QED
  BY <1>2, <1>3, <1>4, ConcatProperties

LEMMA EntriesChanged ==
  ASSUME NEW ents \in Seq(LeafEntry), NEW i \in 1 .. Len(ents) + 1, NEW e \in LeafEntry
  PROVE  /\ InsertAt(ents, i, e) \in Seq(LeafEntry) /\ Len(InsertAt(ents, i, e)) = Len(ents) + 1
         /\ [ents EXCEPT ![i] = e] \in Seq(LeafEntry)
<1>1. /\ Len(ents) \in Nat /\ DOMAIN ents = 1 .. Len(ents)
      /\ \A j \in 1 .. Len(ents) : ents[j] \in LeafEntry
  BY LenProperties, ElementOfSeq
<1> DEFINE pre == SubSeq(ents, 1, i - 1)
           from == SubSeq(ents, i, Len(ents))
           one == <<e>>
<1>2. pre \in Seq(LeafEntry) /\ Len(pre) = i - 1
  <2>1. \A j \in 1 .. i - 1 : ents[j] \in LeafEntry
    BY <1>1
  <2>2. pre \in Seq(LeafEntry) /\ Len(pre) = IF 1 <= i - 1 THEN i - 1 - 1 + 1 ELSE 0
    BY <1>1, <2>1, SubSeqProperties
  <2>3. QED
    BY <1>1, <2>2
<1>3. from \in Seq(LeafEntry) /\ Len(from) = Len(ents) - i + 1
  <2>1. \A j \in i .. Len(ents) : ents[j] \in LeafEntry
    BY <1>1
  <2>2. from \in Seq(LeafEntry) /\ Len(from) = IF i <= Len(ents) THEN Len(ents) - i + 1 ELSE 0
    BY <1>1, <2>1, SubSeqProperties
  <2>3. QED
    BY <1>1, <2>2
<1>4. one \in Seq(LeafEntry) /\ Len(one) = 1
  OBVIOUS
<1>5. InsertAt(ents, i, e) = pre \o one \o from
  BY DEF InsertAt
<1> HIDE DEF pre, from, one
<1>6. pre \o one \in Seq(LeafEntry) /\ Len(pre \o one) = i
  <2>1. pre \o one \in Seq(LeafEntry) /\ Len(pre \o one) = Len(pre) + Len(one)
    BY <1>2, <1>4, ConcatProperties
  <2>2. QED
    BY <1>1, <1>2, <1>4, <2>1
<1>7. InsertAt(ents, i, e) \in Seq(LeafEntry) /\ Len(InsertAt(ents, i, e)) = Len(ents) + 1
  <2> DEFINE front == pre \o one
  <2>1. front \in Seq(LeafEntry) /\ Len(front) = i /\ InsertAt(ents, i, e) = front \o from
    BY <1>5, <1>6
  <2> HIDE DEF front
  <2>2. front \o from \in Seq(LeafEntry) /\ Len(front \o from) = Len(front) + Len(from)
    BY <1>3, <2>1, ConcatProperties
  <2>3. QED
    BY <1>1, <1>3, <2>1, <2>2
<1>8. [ents EXCEPT ![i] = e] \in Seq(LeafEntry)
  <2>1. CASE i \in 1 .. Len(ents)
    BY <2>1, ExceptSeq
  <2>2. CASE i \notin 1 .. Len(ents)
    <3>1. [ents EXCEPT ![i] = e] = ents
      BY <2>2, <1>1
    <3>2. QED
      BY <3>1
  <2>3. QED
    BY <2>1, <2>2
<1>9. QED
  BY <1>7, <1>8

LEMMA HalvesTypes ==
  ASSUME NEW all \in Seq(LeafEntry), Len(all) >= 1
  PROVE  /\ Halves(all).left \in Seq(LeafEntry) /\ Halves(all).right \in Seq(LeafEntry)
         /\ Halves(all).key \in Keys
<1> DEFINE mid == Len(all) \div 2
<1>1. Len(all) \in Nat /\ mid \in Nat /\ mid + 1 <= Len(all) /\ mid + 1 >= 1
  <2>1. Len(all) \in Nat
    BY LenProperties
  <2>2. QED
    BY <2>1
<1>2. \A j \in 1 .. Len(all) : all[j] \in LeafEntry
  BY ElementOfSeq
<1>3. Halves(all) = [left |-> SubSeq(all, 1, mid), right |-> SubSeq(all, mid + 1, Len(all)),
                     key |-> all[mid + 1].k]
  BY DEF Halves
<1> HIDE DEF mid
<1>4. SubSeq(all, 1, mid) \in Seq(LeafEntry)
  <2>1. \A j \in 1 .. mid : all[j] \in LeafEntry
    BY <1>1, <1>2
  <2>2. QED
    BY <1>1, <2>1, SubSeqProperties
<1>5. SubSeq(all, mid + 1, Len(all)) \in Seq(LeafEntry)
  <2>1. \A j \in mid + 1 .. Len(all) : all[j] \in LeafEntry
    BY <1>1, <1>2
  <2>2. mid + 1 \in Int /\ Len(all) \in Int
    BY <1>1
  <2>3. QED
    BY <2>1, <2>2, SubSeqProperties
<1>6. all[mid + 1].k \in Keys
  <2>1. all[mid + 1] \in LeafEntry
    BY <1>1, <1>2
  <2>2. QED
    BY <2>1 DEF LeafEntry
<1>7. QED
  BY <1>3, <1>4, <1>5, <1>6

----------------------------------------------------------------------------
(* A leaf is replaced. *)

\* path leads from the page r to the page old: they are the same or r is the parent.
Leads(path, r, old) ==
    /\ Last(path) = old
    /\ \/ Len(path) = 1 /\ r = old /\ ToSet(path) = {old}
       \/ Len(path) = 2 /\ r # old /\ path[1] = r /\ path[2] = old /\ ToSet(path) = {r, old}

LEMMA PathLeads ==
  ASSUME NEW st \in StoresOf(NodePage), NEW r, SmallTree(st, r), r # 0, NEW k \in Nat
  PROVE  LET path == Path(st, r, k)
         IN  /\ Leads(path, r, Last(path)) /\ Len(path) \in {1, 2}
             /\ LeafAt(st, Last(path)) /\ Last(path) \in Nat \ {0} /\ r \in Nat \ {0}
             /\ r \in TreePages(st, r) /\ Last(path) \in TreePages(st, r)
             /\ Len(path) = 1 => LeafAt(st, r) /\ Last(path) = r
             /\ Len(path) = 2 => ForkAt(st, r) /\ Last(path) = ForkChild(st, r, k)
<1> DEFINE path == Path(st, r, k)
<1>1. path = Route(st, r, k)
  BY PathOfTree
<1>2. CASE LeafAt(st, r)
  <2>1. path = <<r>> /\ r \in Nat \ {0} /\ TreePages(st, r) = {r}
    BY <1>1, <1>2, NodeTypes DEF Route, LeafAt, TreePages, PageNos
  <2>2. Len(<<r>>) = 1 /\ Last(<<r>>) = r /\ ToSet(<<r>>) = {r}
    BY DEF Last, ToSet
  <2> HIDE DEF path
  <2>3. Len(path) = 1 /\ Last(path) = r /\ ToSet(path) = {r}
    BY <2>1, <2>2
  <2>4. QED
    BY <1>2, <2>1, <2>3 DEF Leads, path
<1>3. CASE ~LeafAt(st, r)
  <2> DEFINE child == ForkChild(st, r, k)
  <2>1. ForkAt(st, r) /\ path = <<r, child>> /\ TreePages(st, r) = {r, Fork(st, r).l, Fork(st, r).r}
    BY <1>1, <1>3 DEF SmallTree, Route, TreePages
  <2>2. /\ LeafAt(st, child) /\ child \in Nat \ {0} /\ r \in Nat \ {0}
        /\ child \in {Fork(st, r).l, Fork(st, r).r} /\ r \notin {Fork(st, r).l, Fork(st, r).r}
    BY <2>1, ForkTypes DEF ForkChild
  <2> HIDE DEF child
  <2>3. /\ Len(<<r, child>>) = 2 /\ Last(<<r, child>>) = child
        /\ ToSet(<<r, child>>) = {r, child}
        /\ <<r, child>>[1] = r /\ <<r, child>>[2] = child
    BY DEF Last, ToSet
  <2> HIDE DEF path
  <2>4. /\ Len(path) = 2 /\ Last(path) = child /\ ToSet(path) = {r, child}
        /\ path[1] = r /\ path[2] = child
    BY <2>1, <2>3
  <2>5. Leads(path, r, child)
    BY <2>2, <2>4 DEF Leads
  <2>6. QED
    BY <2>1, <2>2, <2>4, <2>5 DEF path, child
<1>4. QED
  BY <1>2, <1>3

\* A parent with one child exchanged.
LEMMA RetargetFacts ==
  ASSUME NEW page \in NodePage, page.word = BranchWord, NEW old, NEW new \in Nat
  PROVE  LET p == Retarget(page, old, new)
         IN  /\ p \in NodePage /\ p.word = BranchWord
             /\ p.rest.ents \in Seq(BranchEntry) /\ Len(p.rest.ents) = Len(page.rest.ents)
             /\ \A i \in 1 .. Len(page.rest.ents) :
                   /\ p.rest.ents[i].k = page.rest.ents[i].k
                   /\ p.rest.ents[i].l = IF page.rest.ents[i].l = old THEN new ELSE page.rest.ents[i].l
                   /\ p.rest.ents[i].r = IF page.rest.ents[i].r = old THEN new ELSE page.rest.ents[i].r
<1> DEFINE ents == page.rest.ents
           child(c) == IF c = old THEN new ELSE c
           Changed(e) == [e EXCEPT !.l = child(@), !.r = child(@)]
           news == [i \in DOMAIN ents |-> Changed(ents[i])]
           p == Retarget(page, old, new)
           Lists == Seq(LeafEntry) \cup Seq(BranchEntry)
<1>1. /\ page \in [word : Nat \cup {LeafWord, BranchWord}, rest : [next : Nat, ents : Lists]]
      /\ ents \in Seq(BranchEntry)
  BY DEF NodePage
<1>2. p = [page EXCEPT !.rest.ents = news]
  BY DEF Retarget
<1>3. Len(ents) \in Nat /\ DOMAIN ents = 1 .. Len(ents) /\ \A i \in 1 .. Len(ents) : ents[i] \in BranchEntry
  BY <1>1, LenProperties, ElementOfSeq
<1> HIDE DEF ents, Lists, p
<1>4. \A e \in BranchEntry : /\ Changed(e) \in BranchEntry /\ Changed(e).k = e.k
                             /\ Changed(e).l = child(e.l) /\ Changed(e).r = child(e.r)
  BY DEF BranchEntry
<1> HIDE DEF Changed
<1>5. /\ news \in Seq(BranchEntry) /\ Len(news) = Len(ents)
      /\ \A i \in 1 .. Len(ents) : news[i] = Changed(ents[i])
  <2>1. news \in [1 .. Len(ents) -> BranchEntry]
    BY <1>3, <1>4
  <2>2. QED
    BY <1>3, <2>1
<1> HIDE DEF news
<1>6. news \in Lists
  BY <1>5 DEF Lists
<1>7. /\ p \in [word : Nat \cup {LeafWord, BranchWord}, rest : [next : Nat, ents : Lists]]
      /\ p.word = page.word /\ p.rest.ents = news
  BY <1>1, <1>2, <1>6
<1>8. p \in NodePage
  BY <1>5, <1>7 DEF NodePage, Lists, LeafWord, BranchWord
<1>9. QED
  BY <1>3, <1>4, <1>5, <1>7, <1>8 DEF p, ents

\* Page new has taken the place of the last page of the path, in a store with
\* the pages U in use.
LeafReplaced(st, U, path, new, up) ==
    /\ Owned(up.st, (U \ ToSet(path)) \cup {up.pn})
    /\ \A pn \in U \ ToSet(path) : up.st.pages[pn] = st.pages[pn]
    /\ \/ Len(path) = 1 /\ up.pn = new
       \/ /\ Len(path) = 2 /\ up.pn \notin U \ ToSet(path)
          /\ up.st.pages[up.pn] = Retarget(st.pages[path[1]], path[2], new)

LEMMA LeafSwapped ==
  ASSUME NEW st, NEW U, Owned(st, U), NEW path, NEW r \in U, NEW old \in U, Leads(path, r, old),
         NEW new \in U \ {r, old}, Len(path) = 2 => st.pages[r].word = BranchWord
  PROVE  LET up == SwapLeaf(st, path, new)
         IN  /\ up.pn \in Nat
             /\ up.pn = 0 => up.st = st /\ U = PageNos(st)
             /\ up.pn # 0 => LeafReplaced(st, U, path, new, up)
<1> DEFINE up == SwapLeaf(st, path, new)
<1>1. /\ U \subseteq PageNos(st) /\ \A pn \in U : pn \in Nat \ {0} /\ st.pages[pn] \in NodePage
  BY OwnedTypes
<1>2. CASE Len(path) = 1
  <2>1. up = [pn |-> new, st |-> PagerFree(st, old)] /\ ToSet(path) = {old}
    BY <1>2 DEF SwapLeaf, Leads
  <2>2. Released(st, U, old, PagerFree(st, old))
    BY OwnFree
  <2> HIDE DEF up
  <2>3. up.pn = new /\ up.st = PagerFree(st, old) /\ (U \ {old}) \cup {new} = U \ {old}
    BY <2>1
  <2>4. LeafReplaced(st, U, path, new, up)
    BY <1>1, <1>2, <2>1, <2>2, <2>3 DEF LeafReplaced, Released
  <2>5. QED
    BY <1>1, <2>3, <2>4 DEF up
<1>3. CASE Len(path) = 2
  <2> DEFINE c == AllocCopy(st, r)
             page == Retarget(st.pages[r], old, new)
             s == SetPage(c.st, c.pn, page)
  <2>1. path[1] = r /\ path[2] = old /\ Last(path) = old /\ ToSet(path) = {r, old} /\ r # old
    BY <1>3 DEF Leads
  <2>0. Took(st, U, st.pages[r], c)
    BY OwnCopy
  <2>2. /\ c.pn \in Nat
        /\ c.pn = 0 => c.st = st /\ U = PageNos(st)
        /\ c.pn # 0 => /\ c.pn \notin U /\ Owned(c.st, U \cup {c.pn})
                       /\ c.st.pages[c.pn] = st.pages[r]
                       /\ \A pn \in U : c.st.pages[pn] = st.pages[pn]
    <3> HIDE DEF c
    <3>1. QED
      BY <2>0 DEF Took
  <2>3. up = IF c.pn = 0 THEN c
             ELSE [pn |-> c.pn,
                   st |-> PagerFree(PagerFree(SetPage(c.st, c.pn, Retarget(c.st.pages[c.pn], old, new)), old), r)]
    <3>1. path[Len(path) - 1] = r /\ Len(path) # 1
      BY <1>3, <2>1
    <3>2. QED
      BY <2>1, <3>1 DEF SwapLeaf
  <2> HIDE DEF c, up
  <2>4. CASE c.pn = 0
    BY <2>2, <2>3, <2>4 DEF up
  <2>5. CASE c.pn # 0
    <3>1. page \in NodePage
      BY <1>1, <1>3, RetargetFacts
    <3>2. up.pn = c.pn /\ up.st = PagerFree(PagerFree(s, old), r)
      BY <2>2, <2>3, <2>5
    <3> HIDE DEF page
    <3>3. Wrote(c.st, U \cup {c.pn}, c.pn, page, s)
      BY <2>2, <2>5, <3>1, OwnSet
    <3> HIDE DEF s
    <3> DEFINE U1 == U \cup {c.pn}
               s1 == PagerFree(s, old)
               s2 == PagerFree(s1, r)
    <3>4. Released(s, U1, old, s1)
      BY <3>3, OwnFree DEF Wrote
    <3>5. r \in U1 \ {old}
      BY <2>1
    <3>6. up.st = s2
      BY <3>2
    <3> HIDE DEF s1
    <3>7. Released(s1, U1 \ {old}, r, s2)
      <4>1. Owned(s1, U1 \ {old})
        BY <3>4 DEF Released
      <4> HIDE DEF U1
      <4>2. QED
        BY <3>5, <4>1, OwnFree
    <3> HIDE DEF s2
    <3>8. (U1 \ {old}) \ {r} = (U \ ToSet(path)) \cup {c.pn}
      BY <2>1, <2>2, <2>5
    <3>9. U \subseteq PageNos(c.st) /\ c.pn \in PageNos(c.st)
      BY <2>2, <2>5, OwnedTypes
    <3>10. \A pn \in U \ ToSet(path) : s2.pages[pn] = st.pages[pn]
      BY <2>1, <2>2, <2>5, <3>3, <3>4, <3>7, <3>9 DEF Wrote, Released
    <3>11. s2.pages[c.pn] = page
      BY <2>2, <2>5, <3>3, <3>4, <3>7, <3>9 DEF Wrote, Released
    <3>12. LeafReplaced(st, U, path, new, up)
      BY <1>3, <2>1, <2>2, <2>5, <3>2, <3>6, <3>7, <3>8, <3>10, <3>11 DEF LeafReplaced, Released, page
    <3>13. QED
      BY <2>2, <2>5, <3>2, <3>12 DEF up
  <2>6. QED
    BY <2>4, <2>5
<1>4. QED
  BY <1>2, <1>3 DEF Leads

----------------------------------------------------------------------------
(* The calls on a tree whose leaf for the key is at the end of the path. *)

Standing(st, r, path) ==
    /\ Good(st) /\ r \in Used(st) /\ LeafAt(st, Last(path)) /\ Leads(path, r, Last(path))
    /\ Len(path) = 2 => st.pages[r].word = BranchWord

\* The call has put page n, with `leaf' on it, in the place of the leaf at the
\* end of the path; with a parent there is a copy of it as the new root.
Replaced(st, path, res, n, leaf) ==
    /\ Good(res.st) /\ n \notin Used(st)
    /\ Used(res.st) = (Used(st) \ ToSet(path)) \cup {n, res.root}
    /\ res.st.pages[n] = leaf /\ leaf.word = LeafWord
    /\ \A pn \in Used(st) \ ToSet(path) : res.st.pages[pn] = st.pages[pn]
    /\ \/ Len(path) = 1 /\ res.root = n
       \/ /\ Len(path) = 2 /\ res.root \notin (Used(st) \ ToSet(path)) \cup {n}
          /\ res.st.pages[res.root] = Retarget(st.pages[path[1]], path[2], n)

\* The pages in use are left alone.
Kept(st, st2) ==
    /\ Good(st2) /\ Used(st) \subseteq Used(st2)
    /\ \A pn \in Used(st) : st2.pages[pn] = st.pages[pn]

Outcome(st, r, path, res, leaf) ==
    \/ res.rc = 0 /\ \E n : Replaced(st, path, res, n, leaf)
    \/ res.rc = -1 /\ res.root = r /\ Kept(st, res.st)

LEMMA LeafFacts ==
  ASSUME NEW page \in NodePage, page.word = LeafWord
  PROVE  /\ Ents(page) \in Seq(LeafEntry) /\ Ents(page) = page.rest.ents /\ page.rest.next \in Nat
         /\ page = Leaf(page.rest.next, Ents(page))
         /\ \A ents : [page EXCEPT !.rest.ents = ents] = Leaf(page.rest.next, ents)
<1> DEFINE Lists == Seq(LeafEntry) \cup Seq(BranchEntry)
<1>1. /\ page \in [word : Nat \cup {LeafWord, BranchWord}, rest : [next : Nat, ents : Lists]]
      /\ page.rest.ents \in Seq(LeafEntry)
  BY DEF NodePage
<1>2. Ents(page) = page.rest.ents
  BY DEF Ents, LeafWord
<1> HIDE DEF Lists
<1>3. page = [word |-> page.word, rest |-> [next |-> page.rest.next, ents |-> page.rest.ents]]
  BY <1>1
<1>4. ASSUME NEW ents
      PROVE  [page EXCEPT !.rest.ents = ents] = [word |-> page.word, rest |-> [next |-> page.rest.next, ents |-> ents]]
  BY <1>1
<1>5. page.rest.next \in Nat
  BY <1>1
<1>6. QED
  BY <1>1, <1>2, <1>3, <1>4, <1>5 DEF Leaf

LEMMA StandingFacts ==
  ASSUME NEW st, NEW r, NEW path, Standing(st, r, path)
  PROVE  /\ Owned(st, Used(st)) /\ Last(path) \in Used(st) /\ r \in Used(st)
         /\ ToSet(path) = {r, Last(path)} /\ st.pages[Last(path)] \in NodePage
         /\ Len(path) \in {1, 2} /\ Last(path) \in Nat \ {0} /\ r \in Nat \ {0}
         /\ IsLeaf(st.pages[Last(path)]) /\ Last(path) \in PageNos(st)
         /\ Ents(st.pages[Last(path)]) \in Seq(LeafEntry)
         /\ Ents(st.pages[Last(path)]) = st.pages[Last(path)].rest.ents
         /\ st.pages[Last(path)].rest.next \in Nat
<1>1. /\ Good(st) /\ r \in Used(st) /\ LeafAt(st, Last(path)) /\ Leads(path, r, Last(path))
  BY DEF Standing
<1>2. Owned(st, Used(st))
  BY <1>1, GoodOwned
<1>3. Last(path) \in Used(st) /\ Last(path) \in PageNos(st) /\ st.pages[Last(path)].word = LeafWord
  BY <1>1 DEF LeafAt, Used
<1>4. /\ st.pages[Last(path)] \in NodePage /\ Last(path) \in Nat \ {0} /\ r \in Nat \ {0}
  BY <1>1, <1>2, <1>3, OwnedTypes DEF Used
<1>5. IsLeaf(st.pages[Last(path)])
  BY <1>3 DEF IsLeaf
<1>6. ToSet(path) = {r, Last(path)} /\ Len(path) \in {1, 2}
  BY <1>1 DEF Leads
<1>7. QED
  BY <1>1, <1>2, <1>3, <1>4, <1>5, <1>6, LeafFacts

\* A page has been allocated for the new leaf and filled.
LEMMA ReplacedBy ==
  ASSUME NEW st, NEW r, NEW path, Standing(st, r, path), NEW s, NEW n, NEW leaf,
         n \notin Used(st), leaf.word = LeafWord,
         s.pages[n] = leaf, \A pn \in Used(st) : s.pages[pn] = st.pages[pn],
         NEW up, LeafReplaced(s, Used(st) \cup {n}, path, n, up),
         NEW res, res.st = up.st, res.root = up.pn, res.rc = 0
  PROVE  Outcome(st, r, path, res, leaf)
<1> DEFINE U == Used(st) \cup {n}
           V == (U \ ToSet(path)) \cup {up.pn}
<1>1. /\ ToSet(path) \subseteq Used(st) /\ ToSet(path) = {r, Last(path)}
      /\ st.pages[r] \in NodePage /\ n \notin ToSet(path)
      /\ Len(path) = 2 => st.pages[r].word = BranchWord /\ path[1] = r
  <2>1. /\ Owned(st, Used(st)) /\ Last(path) \in Used(st) /\ r \in Used(st)
        /\ ToSet(path) = {r, Last(path)}
    BY StandingFacts
  <2>2. st.pages[r] \in NodePage
    BY <2>1, OwnedTypes
  <2>3. Len(path) = 2 => st.pages[r].word = BranchWord /\ path[1] = r
    BY DEF Standing, Leads
  <2>4. QED
    BY <2>1, <2>2, <2>3
<1>2. Owned(up.st, V) /\ \A pn \in U \ ToSet(path) : up.st.pages[pn] = s.pages[pn]
  BY DEF LeafReplaced
<1>3. V = (Used(st) \ ToSet(path)) \cup {n, up.pn}
  BY <1>1
<1>4. \A pn \in Used(st) \ ToSet(path) : up.st.pages[pn] = st.pages[pn]
  BY <1>2
<1>5. up.st.pages[n] = leaf
  BY <1>1, <1>2
<1>6. CASE Len(path) = 1
  <2>1. up.pn = n
    BY <1>6 DEF LeafReplaced
  <2>2. \A pn \in V : up.st.pages[pn].word \in {LeafWord, BranchWord}
    BY <1>3, <1>4, <1>5, <2>1 DEF Used
  <2> HIDE DEF V
  <2>3. Good(up.st) /\ Used(up.st) = V
    BY <1>2, <2>2, OwnedGood
  <2>4. Replaced(st, path, res, n, leaf)
    BY <1>3, <1>4, <1>5, <1>6, <2>1, <2>3 DEF Replaced
  <2>5. QED
    BY <2>4 DEF Outcome
<1>7. CASE Len(path) = 2
  <2> DEFINE page == Retarget(st.pages[r], path[2], n)
  <2>1. up.pn \notin U \ ToSet(path) /\ up.st.pages[up.pn] = page
    <3>1. up.pn \notin U \ ToSet(path) /\ up.st.pages[up.pn] = Retarget(s.pages[path[1]], path[2], n)
      BY <1>7 DEF LeafReplaced
    <3>2. s.pages[path[1]] = st.pages[r]
      BY <1>1, <1>7
    <3>3. QED
      BY <3>1, <3>2
  <2>2. page.word = BranchWord
    <3>1. n \in Nat
      BY <1>1, <1>2, OwnedTypes
    <3>2. QED
      BY <3>1, <1>1, <1>7, RetargetFacts
  <2>3. \A pn \in V : up.st.pages[pn].word \in {LeafWord, BranchWord}
    <3> HIDE DEF page
    <3>1. QED
      BY <1>3, <1>4, <1>5, <2>1, <2>2 DEF Used
  <2>4. page = Retarget(st.pages[path[1]], path[2], n)
    BY <1>1, <1>7
  <2> HIDE DEF V, page
  <2>5. Good(up.st) /\ Used(up.st) = V
    BY <1>2, <2>3, OwnedGood
  <2>6. Replaced(st, path, res, n, leaf)
    BY <1>1, <1>3, <1>4, <1>5, <1>7, <2>1, <2>4, <2>5 DEF Replaced
  <2>7. QED
    BY <2>6 DEF Outcome
<1>8. QED
  BY <1>6, <1>7, StandingFacts

LEMMA KeptBy ==
  ASSUME NEW st, Good(st), NEW s, NEW U, Owned(s, U), Used(st) \subseteq U,
         \A pn \in Used(st) : s.pages[pn] = st.pages[pn],
         \A pn \in U \ Used(st) : s.pages[pn].word \in {LeafWord, BranchWord}
  PROVE  Kept(st, s)
<1>1. \A pn \in U : s.pages[pn].word \in {LeafWord, BranchWord}
  BY DEF Used
<1>2. Good(s) /\ Used(s) = U
  BY <1>1, OwnedGood
<1>3. QED
  BY <1>2 DEF Kept

LEMMA KeptSame ==
  ASSUME NEW st, Good(st)
  PROVE  Kept(st, st)
  BY DEF Kept

LEMMA ReplaceRebuildOutcome ==
  ASSUME NEW st, NEW r, NEW path, Standing(st, r, path), NEW e \in LeafEntry
  PROVE  LET leaf == st.pages[Last(path)]
         IN  Outcome(st, r, path, ReplaceRebuild(st, r, path, e),
                     Leaf(leaf.rest.next, Rebuild([Ents(leaf) EXCEPT ![SlotOf(Ents(leaf), e.k)] = e])))
<1> DEFINE U    == Used(st)
           old  == Last(path)
           page == st.pages[old]
           ents == Rebuild([Ents(page) EXCEPT ![SlotOf(Ents(page), e.k)] = e])
           leaf == Leaf(page.rest.next, ents)
           a    == PagerAlloc(st)
           res  == ReplaceRebuild(st, r, path, e)
<1>1. /\ Owned(st, U) /\ old \in U /\ r \in U /\ page \in NodePage /\ Good(st)
      /\ Ents(page) \in Seq(LeafEntry) /\ page.rest.next \in Nat /\ Leads(path, r, old)
      /\ Len(path) = 2 => st.pages[r].word = BranchWord
  BY StandingFacts DEF Standing
<1>2. leaf \in NodePage /\ leaf.word = LeafWord
  <2> DEFINE slot == SlotOf(Ents(page), e.k)
             list == [Ents(page) EXCEPT ![slot] = e]
  <2>1. slot \in 1 .. Len(Ents(page)) + 1
    BY <1>1, SlotRange DEF LeafEntry
  <2> HIDE DEF slot
  <2>2. list \in Seq(LeafEntry)
    BY <1>1, <2>1, EntriesChanged
  <2> HIDE DEF list
  <2>3. Rebuild(list) \in Seq(LeafEntry)
    BY <2>2, RebuildType
  <2>4. ents \in Seq(LeafEntry)
    BY <2>3 DEF list, slot
  <2> HIDE DEF ents
  <2>5. QED
    BY <1>1, <2>4, MakeNodes
<1>3. Took(st, U, ZeroPage, a)
  BY <1>1, OwnAlloc
<1> DEFINE s  == SetPage(a.st, a.pn, leaf)
           up == SwapLeaf(s, path, a.pn)
<1>4. a.pn # 0 => a.st.pages[old] = page
  BY <1>1, <1>3 DEF Took
<1>5. res = IF a.pn = 0 THEN Result(st, r, -1)
            ELSE IF up.pn = 0 THEN Result(up.st, r, -1) ELSE Result(up.st, up.pn, 0)
  <2> DEFINE leaf1 == a.st.pages[old]
             s1  == SetPage(a.st, a.pn,
                        Leaf(leaf1.rest.next, Rebuild([Ents(leaf1) EXCEPT ![SlotOf(Ents(page), e.k)] = e])))
             up1 == SwapLeaf(s1, path, a.pn)
  <2>1. res = IF a.pn = 0 THEN Result(st, r, -1)
              ELSE IF up1.pn = 0 THEN Result(up1.st, r, -1) ELSE Result(up1.st, up1.pn, 0)
    BY DEF ReplaceRebuild
  <2>2. a.pn # 0 => up1 = up
    <3> HIDE DEF a
    <3>1. QED
      BY <1>4
  <2> HIDE DEF a, up, up1, res
  <2>3. QED
    BY <2>1, <2>2
<1> HIDE DEF a, leaf, page, res
<1>6. CASE a.pn = 0
  <2>1. Kept(st, st)
    BY <1>1, KeptSame
  <2>2. res.rc = -1 /\ res.root = r /\ res.st = st
    BY <1>5, <1>6 DEF Result
  <2>3. Outcome(st, r, path, res, leaf)
    BY <2>1, <2>2 DEF Outcome
  <2>4. QED
    BY <2>3 DEF res, leaf, page
<1>7. CASE a.pn # 0
  <2> DEFINE U1 == U \cup {a.pn}
  <2>1. /\ Owned(a.st, U1) /\ a.pn \notin U /\ U1 \subseteq PageNos(a.st)
        /\ \A pn \in U : a.st.pages[pn] = st.pages[pn]
    BY <1>3, <1>7, OwnedTypes DEF Took
  <2>2. Wrote(a.st, U1, a.pn, leaf, s)
    BY <1>2, <2>1, OwnSet
  <2> HIDE DEF s
  <2>3. /\ Owned(s, U1) /\ s.pages[a.pn] = leaf
        /\ \A pn \in U : s.pages[pn] = st.pages[pn]
    BY <2>1, <2>2 DEF Wrote
  <2>4. /\ up.pn = 0 => up.st = s
        /\ up.pn # 0 => LeafReplaced(s, U1, path, a.pn, up)
    <3>1. a.pn \in U1 \ {r, old} /\ r \in U1 /\ old \in U1
      BY <1>1, <2>1
    <3>2. Len(path) = 2 => s.pages[r].word = BranchWord
      BY <1>1, <2>3
    <3> HIDE DEF U1, old
    <3>3. QED
      BY <1>1, <2>3, <3>1, <3>2, LeafSwapped
  <2> HIDE DEF up
  <2>5. CASE up.pn = 0
    <3>1. Kept(st, s)
      BY <1>1, <1>2, <2>1, <2>3, KeptBy
    <3>2. res.rc = -1 /\ res.root = r /\ res.st = s
      BY <1>5, <1>7, <2>4, <2>5 DEF Result
    <3>3. Outcome(st, r, path, res, leaf)
      BY <3>1, <3>2 DEF Outcome
    <3>4. QED
      BY <3>3 DEF res, leaf, page
  <2>6. CASE up.pn # 0
    <3>1. res.st = up.st /\ res.root = up.pn /\ res.rc = 0
      BY <1>5, <1>7, <2>6 DEF Result
    <3>2. Outcome(st, r, path, res, leaf)
      BY <1>2, <2>1, <2>3, <2>4, <2>6, <3>1, ReplacedBy
    <3>3. QED
      BY <3>2 DEF res, leaf, page
  <2>7. QED
    BY <2>5, <2>6
<1>8. QED
  BY <1>6, <1>7

LEMMA InsertFitsOutcome ==
  ASSUME NEW st, NEW r, NEW path, Standing(st, r, path), NEW e \in LeafEntry
  PROVE  LET leaf == st.pages[Last(path)]
         IN  Outcome(st, r, path, InsertFits(st, r, path, e),
                     Leaf(leaf.rest.next, InsertAt(Ents(leaf), SlotOf(Ents(leaf), e.k), e)))
<1> DEFINE U    == Used(st)
           old  == Last(path)
           page == st.pages[old]
           ents == InsertAt(Ents(page), SlotOf(Ents(page), e.k), e)
           leaf == Leaf(page.rest.next, ents)
           a    == AllocCopy(st, old)
           res  == InsertFits(st, r, path, e)
<1>1. /\ Owned(st, U) /\ old \in U /\ r \in U /\ page \in NodePage /\ Good(st) /\ page.word = LeafWord
      /\ Ents(page) \in Seq(LeafEntry) /\ page.rest.next \in Nat /\ Leads(path, r, old)
      /\ Len(path) = 2 => st.pages[r].word = BranchWord
  BY StandingFacts DEF Standing, LeafAt
<1>2. leaf \in NodePage /\ leaf.word = LeafWord
  <2> DEFINE slot == SlotOf(Ents(page), e.k)
  <2>1. slot \in 1 .. Len(Ents(page)) + 1
    BY <1>1, SlotRange DEF LeafEntry
  <2> HIDE DEF slot
  <2>2. InsertAt(Ents(page), slot, e) \in Seq(LeafEntry)
    BY <1>1, <2>1, EntriesChanged
  <2>3. ents \in Seq(LeafEntry)
    BY <2>2 DEF slot
  <2> HIDE DEF ents
  <2>4. QED
    BY <1>1, <2>3, MakeNodes
<1>3. Took(st, U, page, a)
  BY <1>1, OwnCopy
<1> DEFINE s  == SetPage(a.st, a.pn, leaf)
           up == SwapLeaf(s, path, a.pn)
<1>4. a.pn # 0 => a.st.pages[a.pn] = page
  BY <1>3 DEF Took
<1>5. [page EXCEPT !.rest.ents = ents] = leaf /\ page.rest.ents = Ents(page)
  BY <1>1, LeafFacts
<1>6. res = IF a.pn = 0 THEN Result(st, r, -1)
            ELSE IF up.pn = 0 THEN Result(PagerFree(up.st, a.pn), r, -1) ELSE Result(up.st, up.pn, 0)
  <2> DEFINE page1 == a.st.pages[a.pn]
             s1  == SetPage(a.st, a.pn,
                      [page1 EXCEPT !.rest.ents =
                         InsertAt(page1.rest.ents, SlotOf(page1.rest.ents, e.k), e)])
             up1 == SwapLeaf(s1, path, a.pn)
  <2>1. res = IF a.pn = 0 THEN Result(st, r, -1)
              ELSE IF up1.pn = 0 THEN Result(PagerFree(up1.st, a.pn), r, -1) ELSE Result(up1.st, up1.pn, 0)
    BY DEF InsertFits
  <2>2. a.pn # 0 => up1 = up
    <3>1. a.pn # 0 => page1 = page
      BY <1>4
    <3>2. [page EXCEPT !.rest.ents = InsertAt(page.rest.ents, SlotOf(page.rest.ents, e.k), e)] = leaf
      <4>1. InsertAt(page.rest.ents, SlotOf(page.rest.ents, e.k), e) = ents
        BY <1>5
      <4> HIDE DEF ents, page
      <4>2. QED
        BY <1>5, <4>1
    <3> DEFINE changed == [page1 EXCEPT !.rest.ents =
                             InsertAt(page1.rest.ents, SlotOf(page1.rest.ents, e.k), e)]
    <3> HIDE DEF a, page, leaf, page1
    <3>3. a.pn # 0 => changed = leaf
      BY <3>1, <3>2
    <3> HIDE DEF changed
    <3>4. QED
      BY <3>3 DEF changed
  <2> HIDE DEF a, up, up1, res
  <2>3. QED
    BY <2>1, <2>2
<1> HIDE DEF a, leaf, page, res
<1>7. CASE a.pn = 0
  <2>1. Kept(st, st)
    BY <1>1, KeptSame
  <2>2. res.rc = -1 /\ res.root = r /\ res.st = st
    BY <1>6, <1>7 DEF Result
  <2>3. Outcome(st, r, path, res, leaf)
    BY <2>1, <2>2 DEF Outcome
  <2>4. QED
    BY <2>3 DEF res, leaf, page
<1>8. CASE a.pn # 0
  <2> DEFINE U1 == U \cup {a.pn}
  <2>1. /\ Owned(a.st, U1) /\ a.pn \notin U /\ U1 \subseteq PageNos(a.st)
        /\ \A pn \in U : a.st.pages[pn] = st.pages[pn]
    BY <1>3, <1>8, OwnedTypes DEF Took
  <2>2. Wrote(a.st, U1, a.pn, leaf, s)
    BY <1>2, <2>1, OwnSet
  <2> HIDE DEF s
  <2>3. /\ Owned(s, U1) /\ s.pages[a.pn] = leaf
        /\ \A pn \in U : s.pages[pn] = st.pages[pn]
    BY <2>1, <2>2 DEF Wrote
  <2>4. /\ up.pn = 0 => up.st = s
        /\ up.pn # 0 => LeafReplaced(s, U1, path, a.pn, up)
    <3>1. a.pn \in U1 \ {r, old} /\ r \in U1 /\ old \in U1
      BY <1>1, <2>1
    <3>2. Len(path) = 2 => s.pages[r].word = BranchWord
      BY <1>1, <2>3
    <3> HIDE DEF U1, old
    <3>3. QED
      BY <1>1, <2>3, <3>1, <3>2, LeafSwapped
  <2> HIDE DEF up
  <2>5. CASE up.pn = 0
    <3> DEFINE s2 == PagerFree(s, a.pn)
    <3>1. Released(s, U1, a.pn, s2)
      BY <2>3, OwnFree
    <3> HIDE DEF s2
    <3>2. Owned(s2, U) /\ \A pn \in U : s2.pages[pn] = st.pages[pn]
      <4>1. U1 \ {a.pn} = U
        BY <2>1
      <4>2. U \subseteq PageNos(s)
        BY <2>3, OwnedTypes
      <4>3. QED
        BY <2>1, <2>3, <3>1, <4>1, <4>2 DEF Released
    <3>3. Kept(st, s2)
      BY <1>1, <3>2, KeptBy
    <3>4. res.rc = -1 /\ res.root = r /\ res.st = s2
      BY <1>6, <1>8, <2>4, <2>5 DEF Result, s2
    <3>5. Outcome(st, r, path, res, leaf)
      BY <3>3, <3>4 DEF Outcome
    <3>6. QED
      BY <3>5 DEF res, leaf, page
  <2>6. CASE up.pn # 0
    <3>1. res.st = up.st /\ res.root = up.pn /\ res.rc = 0
      BY <1>6, <1>8, <2>6 DEF Result
    <3>2. Outcome(st, r, path, res, leaf)
      BY <1>2, <2>1, <2>3, <2>4, <2>6, <3>1, ReplacedBy
    <3>3. QED
      BY <3>2 DEF res, leaf, page
  <2>7. QED
    BY <2>5, <2>6
<1>9. QED
  BY <1>7, <1>8

\* The value is overwritten in place.
LEMMA ReplaceInPlaceOutcome ==
  ASSUME NEW st, NEW r, NEW path, Standing(st, r, path), NEW e \in LeafEntry
  PROVE  LET leaf == st.pages[Last(path)]
             res  == ReplaceInPlace(st, r, path, e)
         IN  /\ res.rc = 0 /\ res.root = r /\ Good(res.st) /\ Used(res.st) = Used(st)
             /\ res.st.pages[Last(path)] =
                   Leaf(leaf.rest.next, [Ents(leaf) EXCEPT ![SlotOf(Ents(leaf), e.k)] = e])
             /\ \A pn \in Used(st) \ {Last(path)} : res.st.pages[pn] = st.pages[pn]
<1> DEFINE U    == Used(st)
           old  == Last(path)
           page == st.pages[old]
           slot == SlotOf(Ents(page), e.k)
           ents == [Ents(page) EXCEPT ![slot] = e]
           leaf == Leaf(page.rest.next, ents)
           s    == SetPage(st, old, leaf)
           res  == ReplaceInPlace(st, r, path, e)
<1>1. /\ Owned(st, U) /\ old \in U /\ page \in NodePage /\ Good(st) /\ page.word = LeafWord
      /\ Ents(page) \in Seq(LeafEntry) /\ page.rest.next \in Nat
      /\ Ents(page) = page.rest.ents
  BY StandingFacts DEF Standing, LeafAt
<1>2. slot \in 1 .. Len(Ents(page)) + 1
  BY <1>1, SlotRange DEF LeafEntry
<1>3. ents \in Seq(LeafEntry)
  <2> HIDE DEF slot
  <2>1. QED
    BY <1>1, <1>2, EntriesChanged
<1>4. leaf \in NodePage /\ leaf.word = LeafWord
  <2> HIDE DEF ents
  <2>1. QED
    BY <1>1, <1>3, MakeNodes
<1>5. [page EXCEPT !.rest.ents[slot] = e] = leaf
  <2> HIDE DEF slot
  <2>1. [page EXCEPT !.rest.ents = [page.rest.ents EXCEPT ![slot] = e]] = leaf
    <3> DEFINE new == [page.rest.ents EXCEPT ![slot] = e]
    <3>1. new = ents
      BY <1>1
    <3> HIDE DEF new, ents, page
    <3>2. [page EXCEPT !.rest.ents = ents] = leaf
      BY <1>1, LeafFacts
    <3>3. [page EXCEPT !.rest.ents = new] = leaf
      BY <3>1, <3>2
    <3>4. QED
      BY <3>3 DEF new
  <2> HIDE DEF leaf, ents, page
  <2>2. QED
    BY <2>1
<1>6. res = Result(s, r, 0)
  <2>1. res = Result(SetPage(st, old, [page EXCEPT !.rest.ents[slot] = e]), r, 0)
    BY DEF ReplaceInPlace
  <2> HIDE DEF leaf, res, page, slot
  <2>2. QED
    BY <1>5, <2>1
<1>7. Wrote(st, U, old, leaf, s)
  <2> HIDE DEF leaf
  <2>1. QED
    BY <1>1, <1>4, OwnSet
<1> HIDE DEF leaf, s, res
<1>8. Owned(s, U) /\ s.pages[old] = leaf /\ \A pn \in U \ {old} : s.pages[pn] = st.pages[pn]
  BY <1>1, <1>7, OwnedTypes DEF Wrote
<1>9. Good(s) /\ Used(s) = U
  <2>1. \A pn \in U : s.pages[pn].word \in {LeafWord, BranchWord}
    BY <1>4, <1>8 DEF Used
  <2>2. QED
    BY <1>8, <2>1, OwnedGood
<1>10. res.st = s /\ res.root = r /\ res.rc = 0
  BY <1>6 DEF Result
<1>11. QED
  BY <1>8, <1>9, <1>10 DEF res, leaf

\* The parents copied by btree_delete: with one parent there is one copy.
LeafFreed(st, path, new) == [st |-> PagerFree(st, Last(path)), old |-> Last(path), pn |-> new]
ParentCopied(path, u) ==
    LET src == path[1]
        c   == AllocCopy(u.st, src)
        s   == SetPage(c.st, c.pn, Retarget(c.st.pages[c.pn], u.old, u.pn))
    IN  IF u.pn = 0 \/ c.pn = 0 THEN [u EXCEPT !.pn = 0]
        ELSE [st |-> PagerFree(s, src), old |-> src, pn |-> c.pn]

LEMMA ParentsWalk ==
  ASSUME NEW st, NEW path, Len(path) \in {1, 2}, NEW new
  PROVE  CopyParents(st, path, new) = IF Len(path) = 1 THEN LeafFreed(st, path, new)
                                      ELSE ParentCopied(path, LeafFreed(st, path, new))
<1> DEFINE N == Len(path) - 1
           bottom == [st |-> PagerFree(st, Last(path)), old |-> Last(path), pn |-> new]
           Above(i, u) ==
              LET src == path[Len(path) - i]
                  c   == AllocCopy(u.st, src)
                  s   == SetPage(c.st, c.pn, Retarget(c.st.pages[c.pn], u.old, u.pn))
              IN  IF u.pn = 0 \/ c.pn = 0 THEN [u EXCEPT !.pn = 0]
                  ELSE [st |-> PagerFree(s, src), old |-> src, pn |-> c.pn]
           next(f) == [i \in 0 .. N |-> IF i = 0 THEN bottom ELSE Above(i, f[i - 1])]
           up == CHOOSE f : f = next(f)
           g == [i \in 0 .. N |-> IF i = 0 THEN bottom ELSE Above(1, bottom)]
<1>1. N \in {0, 1}
  OBVIOUS
<1>2. CopyParents(st, path, new) = up[N]
  BY DEF CopyParents
<1>3. LeafFreed(st, path, new) = bottom
  BY DEF LeafFreed
<1>4. Len(path) = 2 => ParentCopied(path, bottom) = Above(1, bottom)
  <2>1. Len(path) = 2 => path[Len(path) - 1] = path[1]
    OBVIOUS
  <2> HIDE DEF bottom
  <2>2. QED
    BY <2>1 DEF ParentCopied
<1> HIDE DEF bottom, Above
<1>5. g = next(g)
  <2> HIDE DEF N
  <2>1. \A i \in 0 .. N : i = 0 \/ i = 1
    BY <1>1
  <2>2. \A i \in 0 .. N : i # 0 => g[i - 1] = bottom /\ i = 1
    BY <1>1
  <2>3. QED
    BY <2>1, <2>2
<1>6. up = next(up)
  <2> HIDE DEF next, g
  <2>1. QED
    BY <1>5
<1> HIDE DEF up
<1>7. up[0] = bottom /\ (N = 1 => up[1] = Above(1, bottom))
  <2> HIDE DEF N
  <2>1. up[0] = bottom
    BY <1>1, <1>6
  <2>2. N = 1 => up[1] = Above(1, up[1 - 1])
    BY <1>6
  <2>3. QED
    BY <2>1, <2>2
<1> HIDE DEF next
<1>8. Len(path) = 1 => N = 0
  OBVIOUS
<1>9. Len(path) = 2 => N = 1
  OBVIOUS
<1> HIDE DEF N
<1>10. CASE Len(path) = 1
  BY <1>2, <1>3, <1>7, <1>8, <1>10
<1>11. CASE Len(path) = 2
  BY <1>2, <1>3, <1>4, <1>7, <1>9, <1>11
<1>12. QED
  BY <1>10, <1>11

\* The leaf is freed first, so that there is always a page for the copy.
LEMMA ParentsCopied ==
  ASSUME NEW st, NEW U, Owned(st, U), NEW path, NEW r \in U, NEW old \in U, Leads(path, r, old),
         NEW new \in U \ {r, old}, Len(path) = 2 => st.pages[r].word = BranchWord
  PROVE  LET up == CopyParents(st, path, new)
         IN  up.pn \in Nat \ {0} /\ LeafReplaced(st, U, path, new, up)
<1> DEFINE res == CopyParents(st, path, new)
           s1 == PagerFree(st, old)
           bottom == [st |-> s1, old |-> old, pn |-> new]
<1>1. /\ U \subseteq PageNos(st) /\ \A pn \in U : pn \in Nat \ {0} /\ st.pages[pn] \in NodePage
  BY OwnedTypes
<1>2. Last(path) = old /\ Len(path) \in {1, 2}
  BY DEF Leads
<1>3. res = IF Len(path) = 1 THEN bottom ELSE ParentCopied(path, bottom)
  BY <1>2, ParentsWalk DEF LeafFreed
<1> HIDE DEF bottom, res
<1>7. Released(st, U, old, s1)
  BY OwnFree
<1>8. bottom.pn = new /\ bottom.st = s1 /\ bottom.old = old
  BY DEF bottom
<1>9. CASE Len(path) = 1
  <2>1. res = bottom /\ ToSet(path) = {old}
    BY <1>3, <1>9 DEF Leads
  <2> HIDE DEF s1
  <2>2. res.pn = new /\ res.st = s1 /\ (U \ {old}) \cup {new} = U \ {old}
    BY <2>1, <1>8
  <2>3. LeafReplaced(st, U, path, new, res)
    BY <1>1, <1>9, <2>1, <2>2, <1>7 DEF LeafReplaced, Released
  <2>4. QED
    BY <1>1, <2>2, <2>3 DEF res
<1>10. CASE Len(path) = 2
  <2> DEFINE U1 == U \ {old}
             c == AllocCopy(s1, r)
             page == Retarget(st.pages[r], old, new)
             s2 == SetPage(c.st, c.pn, page)
             s3 == PagerFree(s2, r)
  <2>1. path[1] = r /\ path[2] = old /\ ToSet(path) = {r, old} /\ r # old
    BY <1>10 DEF Leads
  <2> HIDE DEF s1
  <2>2. Owned(s1, U1) /\ PageNos(s1) = PageNos(st) /\ \A pn \in U1 : s1.pages[pn] = st.pages[pn]
    BY <1>1, <1>7 DEF Released
  <2>3. r \in U1 /\ new \in U1 /\ r # new
    BY <2>1
  <2>4. Took(s1, U1, s1.pages[r], c)
    <3> HIDE DEF U1
    <3>1. QED
      BY <2>2, <2>3, OwnCopy
  <2>5. res = IF new = 0 \/ c.pn = 0 THEN [bottom EXCEPT !.pn = 0]
              ELSE [st |-> PagerFree(SetPage(c.st, c.pn, Retarget(c.st.pages[c.pn], old, new)), r),
                    old |-> r, pn |-> c.pn]
    <3>1. res = ParentCopied(path, bottom)
      BY <1>3, <1>10
    <3>2. QED
      BY <3>1, <1>8, <2>1 DEF ParentCopied
  <2> HIDE DEF c
  <2>6. /\ c.pn \in Nat \ {0} /\ c.pn \notin U1 /\ Owned(c.st, U1 \cup {c.pn})
        /\ c.st.pages[c.pn] = st.pages[r]
        /\ \A pn \in U1 : c.st.pages[pn] = st.pages[pn]
    <3>1. U1 # PageNos(s1)
      BY <1>1, <2>2
    <3>2. QED
      BY <2>2, <2>3, <2>4, <3>1 DEF Took
  <2>7. new # 0 /\ page \in NodePage
    BY <1>1, <1>10, RetargetFacts
  <2>8. res.pn = c.pn /\ res.st = s3
    <3>1. c.st.pages[c.pn] = st.pages[r] /\ c.pn # 0 /\ new # 0
      BY <2>6, <2>7
    <3>2. QED
      BY <2>5, <3>1
  <2> HIDE DEF page
  <2>9. Wrote(c.st, U1 \cup {c.pn}, c.pn, page, s2)
    BY <2>6, <2>7, OwnSet
  <2> HIDE DEF s2
  <2> DEFINE U2 == U1 \cup {c.pn}
  <2>10. Released(s2, U2, r, s3)
    <3>1. Owned(s2, U2) /\ r \in U2
      BY <2>3, <2>9 DEF Wrote
    <3> HIDE DEF U2
    <3>2. QED
      BY <3>1, OwnFree
  <2> HIDE DEF s3
  <2>11. U2 \ {r} = (U \ ToSet(path)) \cup {c.pn}
    BY <2>1, <2>3, <2>6
  <2>12. U2 \subseteq PageNos(c.st)
    BY <2>6, OwnedTypes
  <2>13. \A pn \in U \ ToSet(path) : s3.pages[pn] = st.pages[pn]
    BY <2>1, <2>6, <2>9, <2>10, <2>12 DEF Wrote, Released
  <2>14. s3.pages[c.pn] = page
    BY <2>3, <2>6, <2>9, <2>10, <2>12 DEF Wrote, Released
  <2>15. LeafReplaced(st, U, path, new, res)
    BY <1>10, <2>1, <2>6, <2>8, <2>10, <2>11, <2>13, <2>14 DEF LeafReplaced, Released, page
  <2>16. QED
    BY <2>6, <2>8, <2>15 DEF res
<1>11. QED
  BY <1>9, <1>10 DEF Leads

LEMMA DeleteOutcome ==
  ASSUME NEW st, NEW r, NEW k \in Keys, Standing(st, r, Path(st, r, k))
  PROVE  LET path == Path(st, r, k)
             leaf == st.pages[Last(path)]
             res  == Delete(st, r, k)
         IN  /\ Outcome(st, r, path, res,
                        Leaf(leaf.rest.next, RemoveAt(Ents(leaf), SlotOf(Ents(leaf), k))))
             /\ res.rc = 0 <=> Holds(Ents(leaf), k) /\ PagerAlloc(st).pn # 0
             /\ res.rc # 0 => res.st = st
<1> DEFINE path == Path(st, r, k)
           U    == Used(st)
           old  == Last(path)
           page == st.pages[old]
           slot == SlotOf(Ents(page), k)
           ents == RemoveAt(Ents(page), slot)
           leaf == Leaf(page.rest.next, ents)
           a    == PagerAlloc(st)
           s    == SetPage(a.st, a.pn, leaf)
           up   == CopyParents(s, path, a.pn)
           res  == Delete(st, r, k)
<1>1. /\ Owned(st, U) /\ old \in U /\ r \in U /\ page \in NodePage /\ Good(st)
      /\ Ents(page) \in Seq(LeafEntry) /\ page.rest.next \in Nat /\ Leads(path, r, old)
      /\ Len(path) = 2 => st.pages[r].word = BranchWord
      /\ old \in PageNos(st) /\ IsLeaf(page)
  BY StandingFacts DEF Standing
<1>2. leaf \in NodePage /\ leaf.word = LeafWord
  <2>1. slot \in 1 .. Len(Ents(page)) + 1
    BY <1>1, SlotRange
  <2> HIDE DEF slot, page
  <2>2. ents \in Seq(LeafEntry)
    BY <1>1, <2>1, EntryRemoved
  <2> HIDE DEF ents
  <2>3. QED
    BY <1>1, <2>2, MakeNodes
<1>3. Took(st, U, ZeroPage, a)
  BY <1>1, OwnAlloc
<1>4. a.pn # 0 => a.st.pages[old] = page
  BY <1>1, <1>3 DEF Took
<1>5. res = IF ~Holds(Ents(page), k) \/ a.pn = 0 THEN Result(st, r, -1)
            ELSE IF up.pn = 0 THEN Result(up.st, r, -1) ELSE Result(up.st, up.pn, 0)
  <2> DEFINE page1 == a.st.pages[old]
             s1  == SetPage(a.st, a.pn,
                      Leaf(page1.rest.next, RemoveAt(Ents(page1), SlotOf(Ents(page1), k))))
             up1 == CopyParents(s1, path, a.pn)
  <2>1. res = IF \/ old \notin PageNos(st)
                 \/ ~IsLeaf(st.pages[old])
                 \/ ~Holds(Ents(st.pages[old]), k)
                 \/ a.pn = 0
              THEN Result(st, r, -1)
              ELSE IF up1.pn = 0 THEN Result(up1.st, r, -1) ELSE Result(up1.st, up1.pn, 0)
    BY DEF Delete
  <2>2. a.pn # 0 => up1 = up
    <3> HIDE DEF a
    <3>1. QED
      BY <1>4
  <2> HIDE DEF a, up, up1, res
  <2>3. QED
    BY <1>1, <2>1, <2>2
<1> HIDE DEF a, leaf, page, res, path
<1>6. CASE ~Holds(Ents(page), k) \/ a.pn = 0
  <2>1. Kept(st, st)
    BY <1>1, KeptSame
  <2>2. res.rc = -1 /\ res.root = r /\ res.st = st
    BY <1>5, <1>6 DEF Result
  <2>3. Outcome(st, r, path, res, leaf)
    BY <2>1, <2>2 DEF Outcome
  <2>4. QED
    BY <1>6, <2>2, <2>3 DEF a, res, leaf, page, path
<1>7. CASE ~(~Holds(Ents(page), k) \/ a.pn = 0)
  <2> DEFINE U1 == U \cup {a.pn}
  <2>1. /\ Owned(a.st, U1) /\ a.pn \notin U /\ U1 \subseteq PageNos(a.st)
        /\ \A pn \in U : a.st.pages[pn] = st.pages[pn]
    BY <1>3, <1>7, OwnedTypes DEF Took
  <2>2. Wrote(a.st, U1, a.pn, leaf, s)
    BY <1>2, <2>1, OwnSet
  <2> HIDE DEF s
  <2>3. /\ Owned(s, U1) /\ s.pages[a.pn] = leaf
        /\ \A pn \in U : s.pages[pn] = st.pages[pn]
    BY <2>1, <2>2 DEF Wrote
  <2>4. up.pn # 0 /\ LeafReplaced(s, U1, path, a.pn, up)
    <3>1. a.pn \in U1 \ {r, old} /\ r \in U1 /\ old \in U1
      BY <1>1, <2>1
    <3>2. Len(path) = 2 => s.pages[r].word = BranchWord
      BY <1>1, <2>3
    <3> HIDE DEF U1, old
    <3>3. QED
      BY <1>1, <2>3, <3>1, <3>2, ParentsCopied
  <2> HIDE DEF up
  <2>5. res.st = up.st /\ res.root = up.pn /\ res.rc = 0
    BY <1>5, <1>7, <2>4 DEF Result
  <2>6. Standing(st, r, path)
    BY DEF path
  <2>7. Outcome(st, r, path, res, leaf)
    BY <1>2, <2>1, <2>3, <2>4, <2>5, <2>6, ReplacedBy
  <2>8. QED
    BY <1>7, <2>5, <2>7 DEF a, res, leaf, page, path
<1>8. QED
  BY <1>6, <1>7

\* btree_create
Created(st, res) ==
    \/ res.rc = -1 /\ res.root = 0 /\ res.st = st /\ Used(st) = PageNos(st) /\ Len(st.pages) = MaxPages - 1
    \/ /\ res.rc = 0 /\ res.root \in Nat \ {0} /\ res.root \notin Used(st)
       /\ Good(res.st) /\ Used(res.st) = Used(st) \cup {res.root}
       /\ res.st.pages[res.root] = Leaf(0, <<>>)
       /\ \A pn \in Used(st) : res.st.pages[pn] = st.pages[pn]

LEMMA CreateOutcome ==
  ASSUME NEW st, Good(st)
  PROVE  Created(st, Create(st))
<1> DEFINE U == Used(st)
           a == PagerAlloc(st)
           leaf == Leaf(0, <<>>)
           s == SetPage(a.st, a.pn, leaf)
           res == Create(st)
<1>1. Owned(st, U) /\ Took(st, U, ZeroPage, a)
  BY GoodOwned, OwnAlloc
<1>2. leaf \in NodePage /\ leaf.word = LeafWord
  BY MakeNodes, EmptySeq
<1>3. res = IF a.pn = 0 THEN Result(st, 0, -1) ELSE Result(s, a.pn, 0)
  BY DEF Create
<1> HIDE DEF a, leaf, res
<1>4. CASE a.pn = 0
  <2>1. res.rc = -1 /\ res.root = 0 /\ res.st = st
    BY <1>3, <1>4 DEF Result
  <2>2. Created(st, res)
    BY <1>1, <1>4, <2>1 DEF Took, Created
  <2>3. QED
    BY <2>2 DEF res
<1>5. CASE a.pn # 0
  <2> DEFINE U1 == U \cup {a.pn}
  <2>1. /\ Owned(a.st, U1) /\ a.pn \notin U /\ U1 \subseteq PageNos(a.st) /\ a.pn \in Nat \ {0}
        /\ \A pn \in U : a.st.pages[pn] = st.pages[pn]
    BY <1>1, <1>5, OwnedTypes DEF Took
  <2>2. Wrote(a.st, U1, a.pn, leaf, s)
    BY <1>2, <2>1, OwnSet
  <2> HIDE DEF s
  <2>3. Owned(s, U1) /\ s.pages[a.pn] = leaf /\ \A pn \in U : s.pages[pn] = st.pages[pn]
    BY <2>1, <2>2 DEF Wrote
  <2>4. \A pn \in U1 : s.pages[pn].word \in {LeafWord, BranchWord}
    BY <1>2, <2>3 DEF Used
  <2>5. Good(s) /\ Used(s) = U1
    BY <2>3, <2>4, OwnedGood
  <2>6. res.rc = 0 /\ res.root = a.pn /\ res.st = s
    BY <1>3, <1>5 DEF Result
  <2>7. Created(st, res)
    BY <2>1, <2>3, <2>5, <2>6 DEF Created, leaf
  <2>8. QED
    BY <2>7 DEF res
<1>6. QED
  BY <1>4, <1>5

\* A root that is a leaf has been divided: its entries and the new one are on
\* two new leaves under a new root.
Divided(st, r, res, left, right, half) ==
    /\ Good(res.st) /\ left \notin Used(st) /\ right \notin Used(st) /\ left # right
    /\ res.root \notin (Used(st) \ {r}) \cup {left, right}
    /\ Used(res.st) = (Used(st) \ {r}) \cup {left, right, res.root}
    /\ \A pn \in Used(st) \ {r} : res.st.pages[pn] = st.pages[pn]
    /\ res.st.pages[left] = Leaf(right, Rebuild(half.left))
    /\ res.st.pages[right] = Leaf(st.pages[r].rest.next, Rebuild(half.right))
    /\ res.st.pages[res.root] = Branch(<<[k |-> half.key, l |-> left, r |-> right]>>)

\* One page more and there is none left.
OnePageLeft(st) ==
    \E a : /\ a.pn \notin Used(st) /\ Len(a.st.pages) = MaxPages - 1 /\ Len(a.st.pages) \in Nat
           /\ PageNos(a.st) = PageNos(st) \cup {a.pn} /\ PageNos(a.st) = Used(st) \cup {a.pn}

LEMMA InsertSplitOutcome ==
  ASSUME NEW st, NEW r, NEW path, Standing(st, r, path), Len(path) = 1, NEW e \in LeafEntry
  PROVE  LET ents == Ents(st.pages[r])
             res  == InsertSplit(st, r, path, e)
         IN  \/ res.rc = 0 /\ \E left, right : Divided(st, r, res, left, right,
                                                       Halves(InsertAt(ents, SlotOf(ents, e.k), e)))
             \/ res.rc = -1 /\ res.root = r /\ Kept(st, res.st)
             \/ res.rc = Fault /\ OnePageLeft(st)
<1> DEFINE U    == Used(st)
           page == st.pages[r]
           ents == Ents(page)
           all  == InsertAt(ents, SlotOf(ents, e.k), e)
           half == Halves(all)
           a    == PagerAlloc(st)
           b    == AllocCopy(a.st, r)
           low  == Leaf(a.pn, Rebuild(half.left))
           high == Leaf(page.rest.next, Rebuild(half.right))
           s1   == SetPage(b.st, b.pn, low)
           s2   == SetPage(s1, a.pn, high)
           s3   == PagerFree(s2, r)
           up   == SplitRoot(s3, b.pn, a.pn, half.key)
           res  == InsertSplit(st, r, path, e)
<1>1. /\ Owned(st, U) /\ r \in U /\ page \in NodePage /\ Good(st) /\ Last(path) = r
      /\ ents \in Seq(LeafEntry) /\ page.rest.next \in Nat /\ r \in Nat \ {0}
  BY StandingFacts DEF Standing, Leads
<1>2. half.left \in Seq(LeafEntry) /\ half.right \in Seq(LeafEntry) /\ half.key \in Keys
  <2> DEFINE slot == SlotOf(ents, e.k)
  <2>1. slot \in 1 .. Len(ents) + 1 /\ Len(ents) \in Nat
    BY <1>1, SlotRange, LenProperties DEF LeafEntry
  <2> HIDE DEF slot, ents
  <2>2. InsertAt(ents, slot, e) \in Seq(LeafEntry) /\ Len(InsertAt(ents, slot, e)) >= 1
    BY <1>1, <2>1, EntriesChanged
  <2>3. all \in Seq(LeafEntry) /\ Len(all) >= 1
    BY <2>2 DEF slot, ents
  <2> HIDE DEF all
  <2>4. QED
    BY <2>3, HalvesTypes
<1>3. Took(st, U, ZeroPage, a)
  BY <1>1, OwnAlloc
<1> DEFINE U1 == U \cup {a.pn}
<1>4. a.pn # 0 => /\ Owned(a.st, U1) /\ a.pn \notin U /\ a.pn \in Nat \ {0}
                  /\ PageNos(a.st) = PageNos(st) \cup {a.pn}
                  /\ \A pn \in U : a.st.pages[pn] = st.pages[pn]
  <2> HIDE DEF a
  <2>1. QED
    BY <1>3 DEF Took
<1>5. a.pn # 0 => Took(a.st, U1, a.st.pages[r], b)
  <2>1. SUFFICES ASSUME a.pn # 0 PROVE Took(a.st, U1, a.st.pages[r], b)
    OBVIOUS
  <2>2. Owned(a.st, U1) /\ r \in U1
    BY <1>1, <1>4, <2>1
  <2> HIDE DEF a, U1
  <2>3. QED
    BY <2>2, OwnCopy
<1>6. a.pn # 0 => a.st.pages[r] = page
  <2> HIDE DEF a
  <2>1. QED
    BY <1>1, <1>4
<1>7. a.pn # 0 /\ b.pn # 0 => b.st.pages[r] = page
  <2> HIDE DEF a, b
  <2>1. QED
    BY <1>1, <1>5, <1>6 DEF Took
<1>8. res = IF a.pn = 0 THEN Result(st, r, -1)
            ELSE IF b.pn = 0 THEN Result(st, r, Fault) ELSE up
  <2> DEFINE half1 == Halves(InsertAt(Ents(a.st.pages[r]), SlotOf(ents, e.k), e))
             t == PagerFree(SetPage(SetPage(b.st, b.pn, Leaf(a.pn, Rebuild(half1.left))),
                              a.pn, Leaf(b.st.pages[r].rest.next, Rebuild(half1.right))), r)
             up1 == SplitRoot(t, b.pn, a.pn, half1.key)
  <2>1. res = IF a.pn = 0 THEN Result(st, r, -1)
              ELSE IF b.pn = 0 THEN Result(st, r, Fault) ELSE up1
    BY <1>1 DEF InsertSplit
  <2>2. a.pn # 0 /\ b.pn # 0 => up1 = up
    <3> HIDE DEF a, b
    <3>1. QED
      BY <1>6, <1>7
  <2> HIDE DEF a, b, up, up1, res
  <2>3. QED
    BY <2>1, <2>2
<1> HIDE DEF a, b, half, page, res
<1>9. CASE a.pn = 0
  <2>1. Kept(st, st)
    BY <1>1, KeptSame
  <2>2. res.rc = -1 /\ res.root = r /\ res.st = st
    BY <1>8, <1>9 DEF Result
  <2>3. QED
    BY <2>1, <2>2 DEF res
<1>10. CASE a.pn # 0 /\ b.pn = 0
  <2>1. res.rc = Fault
    BY <1>8, <1>10 DEF Result
  <2>2. U1 = PageNos(a.st) /\ Len(a.st.pages) = MaxPages - 1 /\ Len(a.st.pages) \in Nat
    <3>1. Owned(a.st, U1)
      BY <1>4, <1>10
    <3>2. Len(a.st.pages) \in Nat
      BY <3>1, OwnedTypes
    <3>3. QED
      BY <1>5, <1>10, <3>2 DEF Took
  <2>3. OnePageLeft(st)
    BY <1>4, <1>10, <2>2 DEF OnePageLeft
  <2>4. QED
    BY <2>1, <2>3 DEF res
<1>11. CASE a.pn # 0 /\ b.pn # 0
  <2> DEFINE U2 == U1 \cup {b.pn}
  <2>1. /\ Owned(b.st, U2) /\ b.pn \notin U1 /\ U2 \subseteq PageNos(b.st) /\ b.pn \in Nat \ {0}
        /\ \A pn \in U : b.st.pages[pn] = st.pages[pn]
    <3>1. Owned(b.st, U2) /\ b.pn \notin U1 /\ b.pn \in Nat \ {0}
      BY <1>5, <1>11 DEF Took
    <3>2. \A pn \in U1 : b.st.pages[pn] = a.st.pages[pn]
      BY <1>5, <1>11 DEF Took
    <3>3. U2 \subseteq PageNos(b.st)
      BY <3>1, OwnedTypes
    <3>4. QED
      BY <1>4, <1>11, <3>1, <3>2, <3>3
  <2>2. low \in NodePage /\ low.word = LeafWord /\ high \in NodePage /\ high.word = LeafWord
    <3> DEFINE le == Rebuild(half.left)
               he == Rebuild(half.right)
    <3>1. le \in Seq(LeafEntry) /\ he \in Seq(LeafEntry)
      BY <1>2, RebuildType
    <3>2. a.pn \in Nat /\ page.rest.next \in Nat
      BY <1>1, <1>4, <1>11
    <3>3. low = Leaf(a.pn, le) /\ high = Leaf(page.rest.next, he)
      OBVIOUS
    <3> HIDE DEF le, he, low, high
    <3>4. Leaf(a.pn, le) \in NodePage /\ Leaf(a.pn, le).word = LeafWord
      BY <3>1, <3>2, MakeNodes
    <3>5. Leaf(page.rest.next, he) \in NodePage /\ Leaf(page.rest.next, he).word = LeafWord
      BY <3>1, <3>2, MakeNodes
    <3>6. QED
      BY <3>3, <3>4, <3>5
  <2> HIDE DEF low, high
  <2>3. Wrote(b.st, U2, b.pn, low, s1)
    BY <2>1, <2>2, OwnSet
  <2> HIDE DEF s1
  <2>4. Wrote(s1, U2, a.pn, high, s2)
    <3>1. Owned(s1, U2) /\ a.pn \in U2
      BY <2>3 DEF Wrote
    <3> HIDE DEF U2
    <3>2. QED
      BY <2>2, <3>1, OwnSet
  <2> HIDE DEF s2
  <2>5. Released(s2, U2, r, s3)
    <3>1. Owned(s2, U2) /\ r \in U2
      BY <1>1, <2>4 DEF Wrote
    <3> HIDE DEF U2
    <3>2. QED
      BY <3>1, OwnFree
  <2> HIDE DEF s3
  <2> DEFINE U3 == U2 \ {r}
  <2>6. /\ Owned(s3, U3) /\ r \in PageNos(s3) /\ r \notin U3
        /\ a.pn \in U3 /\ b.pn \in U3 /\ a.pn # b.pn
        /\ s3.pages[b.pn] = low /\ s3.pages[a.pn] = high
        /\ \A pn \in U \ {r} : s3.pages[pn] = st.pages[pn]
    <3>1. a.pn # r /\ b.pn # r /\ a.pn # b.pn /\ a.pn \notin U /\ b.pn \notin U
      BY <1>1, <1>4, <1>11, <2>1
    <3>2. PageNos(s1) = PageNos(b.st) /\ PageNos(s2) = PageNos(b.st) /\ PageNos(s3) = PageNos(b.st)
      BY <2>3, <2>4, <2>5 DEF Wrote, Released
    <3>3. /\ a.pn \in PageNos(b.st) /\ b.pn \in PageNos(b.st) /\ r \in PageNos(b.st)
          /\ U \subseteq PageNos(b.st)
      BY <1>1, <2>1
    <3>4. s1.pages[b.pn] = low /\ \A o \in PageNos(b.st) \ {b.pn} : s1.pages[o] = b.st.pages[o]
      BY <2>3 DEF Wrote
    <3>5. s2.pages[a.pn] = high /\ \A o \in PageNos(b.st) \ {a.pn} : s2.pages[o] = s1.pages[o]
      BY <2>4, <3>2 DEF Wrote
    <3>6. \A o \in PageNos(b.st) \ {r} : s3.pages[o] = s2.pages[o]
      BY <2>5, <3>2 DEF Released
    <3>7. s3.pages[b.pn] = low /\ s3.pages[a.pn] = high
      BY <3>1, <3>3, <3>4, <3>5, <3>6
    <3>8. \A pn \in U \ {r} : s3.pages[pn] = st.pages[pn]
      BY <2>1, <3>1, <3>3, <3>4, <3>5, <3>6
    <3>9. Owned(s3, U3)
      BY <2>5 DEF Released
    <3>10. QED
      BY <3>1, <3>2, <3>3, <3>7, <3>8, <3>9
  <2> DEFINE d == PagerAlloc(s3)
             fork == <<[k |-> half.key, l |-> b.pn, r |-> a.pn]>>
             top == Branch(fork)
             s4 == SetPage(d.st, d.pn, top)
  <2>7. up = Result(s4, d.pn, 0)
    BY DEF SplitRoot
  <2>8. Took(s3, U3, ZeroPage, d)
    <3> HIDE DEF U3
    <3>1. QED
      BY <2>6, OwnAlloc
  <2> HIDE DEF d
  <2> DEFINE U4 == U3 \cup {d.pn}
  <2>9. /\ d.pn \in Nat \ {0} /\ d.pn \notin U3 /\ Owned(d.st, U4) /\ U4 \subseteq PageNos(d.st)
        /\ \A pn \in U3 : d.st.pages[pn] = s3.pages[pn]
    <3>1. U3 # PageNos(s3)
      BY <2>6
    <3> HIDE DEF U3
    <3>2. /\ d.pn \in Nat \ {0} /\ d.pn \notin U3 /\ Owned(d.st, U4)
          /\ \A pn \in U3 : d.st.pages[pn] = s3.pages[pn]
      BY <2>8, <3>1 DEF Took
    <3>3. QED
      BY <3>2, OwnedTypes
  <2>10. top \in NodePage /\ top.word = BranchWord
    <3>1. fork \in Seq(BranchEntry)
      <4>1. [k |-> half.key, l |-> b.pn, r |-> a.pn] \in BranchEntry
        BY <1>2, <1>4, <1>11, <2>1 DEF BranchEntry
      <4>2. QED
        BY <4>1
    <3> HIDE DEF fork
    <3>2. QED
      BY <3>1, MakeNodes
  <2> HIDE DEF top
  <2>11. Wrote(d.st, U4, d.pn, top, s4)
    <3>1. d.pn \in U4
      OBVIOUS
    <3> HIDE DEF U4
    <3>2. QED
      BY <2>9, <2>10, <3>1, OwnSet
  <2> HIDE DEF s4
  <2>12. /\ Owned(s4, U4) /\ s4.pages[d.pn] = top
         /\ \A pn \in U3 : s4.pages[pn] = s3.pages[pn]
    BY <2>9, <2>11 DEF Wrote
  <2>13. U4 = (U \ {r}) \cup {b.pn, a.pn, d.pn} /\ U3 = (U \ {r}) \cup {b.pn, a.pn}
    BY <2>6
  <2>14. /\ s4.pages[b.pn] = low /\ s4.pages[a.pn] = high
         /\ \A pn \in U \ {r} : s4.pages[pn] = st.pages[pn]
    BY <2>6, <2>12, <2>13
  <2>15. \A pn \in U4 : s4.pages[pn].word \in {LeafWord, BranchWord}
    <3>1. \A pn \in U \ {r} : st.pages[pn].word \in {LeafWord, BranchWord}
      BY DEF Used
    <3> HIDE DEF U4
    <3>2. QED
      BY <2>2, <2>10, <2>12, <2>13, <2>14, <3>1
  <2>16. Good(s4) /\ Used(s4) = U4
    <3> HIDE DEF U4
    <3>1. QED
      BY <2>12, <2>15, OwnedGood
  <2>17. res.st = s4 /\ res.root = d.pn /\ res.rc = 0
    BY <1>8, <1>11, <2>7 DEF Result
  <2>18. a.pn \notin U /\ b.pn \notin U /\ b.pn # a.pn
    BY <1>4, <1>11, <2>1
  <2>19. d.pn \notin (U \ {r}) \cup {b.pn, a.pn}
    BY <2>9, <2>13
  <2>20. Divided(st, r, res, b.pn, a.pn, half)
    <3> HIDE DEF U4, U3
    <3>1. QED
      BY <2>12, <2>13, <2>14, <2>16, <2>17, <2>18, <2>19 DEF Divided, low, high, top, page
  <2>21. QED
    BY <2>17, <2>20 DEF res, half, page
<1>12. QED
  BY <1>9, <1>10, <1>11

----------------------------------------------------------------------------
(* What the calls make of the tree. *)

\* The call has rewritten pages of the path only: the rest of the tree is in
\* the new tree, no page in use outside the tree has become part of it, and
\* no page has been lost.
Rewritten(st, r, path, st2, r2) ==
    /\ Good(st2) /\ SmallTree(st2, r2) /\ r2 \in Nat \ {0}
    /\ \A pn \in Used(st) \ ToSet(path) : pn \in Used(st2) /\ st2.pages[pn] = st.pages[pn]
    /\ TreePages(st, r) \ ToSet(path) \subseteq TreePages(st2, r2)
    /\ TreePages(st2, r2) \cap (Used(st) \ TreePages(st, r)) = {}
    /\ Used(st2) \ TreePages(st2, r2) \subseteq Used(st) \ TreePages(st, r)

ForkSibling(st, r, k) == IF k < Fork(st, r).k THEN Fork(st, r).r ELSE Fork(st, r).l

LEMMA TreeUsed ==
  ASSUME NEW st, Good(st), NEW r, SmallTree(st, r)
  PROVE  TreePages(st, r) \subseteq Used(st) /\ (r # 0 => r \in Used(st))
  BY DEF SmallTree, TreePages, LeafAt, ForkAt, Used

\* The last page of the path of a tree that is there.
LEMMA TreeStanding ==
  ASSUME NEW st, Good(st), NEW r, SmallTree(st, r), r # 0, NEW k \in Nat
  PROVE  Standing(st, r, Path(st, r, k)) /\ ToSet(Path(st, r, k)) \subseteq TreePages(st, r)
<1> DEFINE path == Path(st, r, k)
<1>1. st \in StoresOf(NodePage)
  BY DEF Good, Listed
<1>2. /\ Leads(path, r, Last(path)) /\ LeafAt(st, Last(path))
      /\ r \in TreePages(st, r) /\ Last(path) \in TreePages(st, r)
      /\ Len(path) = 2 => ForkAt(st, r)
  BY <1>1, PathLeads
<1> HIDE DEF path
<1>3. r \in Used(st)
  BY TreeUsed
<1>4. Len(path) = 2 => st.pages[r].word = BranchWord
  BY <1>2 DEF ForkAt
<1>5. ToSet(path) \subseteq {r, Last(path)}
  BY <1>2 DEF Leads
<1>6. QED
  BY <1>2, <1>3, <1>4, <1>5 DEF Standing, path

\* The tree after a leaf of it has been replaced by page n.
LEMMA TreeReplaced ==
  ASSUME NEW st, Good(st), NEW r, SmallTree(st, r), r # 0, NEW k \in Nat,
         NEW res, NEW n, NEW leaf, Replaced(st, Path(st, r, k), res, n, leaf)
  PROVE  /\ Rewritten(st, r, Path(st, r, k), res.st, res.root)
         /\ LeafAt(st, r) => /\ LeafAt(res.st, res.root) /\ res.root = n
         /\ ~LeafAt(st, r) =>
               /\ ForkAt(res.st, res.root) /\ Fork(res.st, res.root).k = Fork(st, r).k
               /\ Fork(res.st, res.root).l = IF k < Fork(st, r).k THEN n ELSE Fork(st, r).l
               /\ Fork(res.st, res.root).r = IF k < Fork(st, r).k THEN Fork(st, r).r ELSE n
<1> DEFINE path == Path(st, r, k)
           st2 == res.st
           r2 == res.root
<1>1. st \in StoresOf(NodePage) /\ st2 \in StoresOf(NodePage)
  BY DEF Good, Listed, Replaced
<1>2. /\ Leads(path, r, Last(path)) /\ LeafAt(st, Last(path))
      /\ r \in TreePages(st, r) /\ Last(path) \in TreePages(st, r)
      /\ Len(path) = 1 => LeafAt(st, r) /\ Last(path) = r
      /\ Len(path) = 2 => ForkAt(st, r) /\ Last(path) = ForkChild(st, r, k)
  BY <1>1, PathLeads
<1>3. TreePages(st, r) \subseteq Used(st) /\ r \in Used(st)
  BY TreeUsed
<1> HIDE DEF path
<1>4. /\ Good(st2) /\ n \notin Used(st)
      /\ Used(st2) = (Used(st) \ ToSet(path)) \cup {n, r2}
      /\ st2.pages[n] = leaf /\ leaf.word = LeafWord
      /\ \A pn \in Used(st) \ ToSet(path) : st2.pages[pn] = st.pages[pn]
      /\ \/ Len(path) = 1 /\ r2 = n
         \/ /\ Len(path) = 2 /\ r2 \notin (Used(st) \ ToSet(path)) \cup {n}
            /\ st2.pages[r2] = Retarget(st.pages[path[1]], path[2], n)
  BY DEF Replaced, path
<1> HIDE DEF st2, r2
<1>5. n \in PageNos(st2) /\ r2 \in PageNos(st2) /\ n \in Nat \ {0} /\ r2 \in Nat \ {0}
  <2>1. n \in PageNos(st2) /\ r2 \in PageNos(st2)
    BY <1>4 DEF Used
  <2>2. QED
    BY <1>1, <2>1, NodeTypes
<1>6. LeafAt(st2, n)
  BY <1>4, <1>5 DEF LeafAt
<1>7. CASE Len(path) = 1
  <2>1. r2 = n /\ ToSet(path) = {r} /\ LeafAt(st, r)
    BY <1>2, <1>4, <1>7 DEF Leads
  <2>2. LeafAt(st2, r2) /\ SmallTree(st2, r2)
    BY <1>6, <2>1 DEF SmallTree
  <2>3. TreePages(st, r) = {r} /\ TreePages(st2, r2) = {n}
    BY <1>5, <2>1, <2>2 DEF TreePages
  <2>4. Rewritten(st, r, path, st2, r2)
    BY <1>3, <1>4, <1>5, <2>1, <2>2, <2>3 DEF Rewritten
  <2>5. QED
    BY <2>1, <2>2, <2>4 DEF path, st2, r2
<1>8. CASE Len(path) = 2
  <2> DEFINE child == ForkChild(st, r, k)
             other == ForkSibling(st, r, k)
             entry == Fork(st, r)
             fork  == Fork(st2, r2)
  <2>1. /\ ForkAt(st, r) /\ path[1] = r /\ path[2] = child /\ ToSet(path) = {r, child}
        /\ r2 \notin (Used(st) \ ToSet(path)) \cup {n}
        /\ st2.pages[r2] = Retarget(st.pages[r], child, n)
    <3>1. ForkAt(st, r) /\ path[1] = r /\ path[2] = child /\ ToSet(path) = {r, child}
      BY <1>2, <1>8 DEF Leads
    <3>2. QED
      BY <3>1, <1>4, <1>8
  <2>2. /\ ~LeafAt(st, r) /\ st.pages[r] \in NodePage /\ st.pages[r].word = BranchWord
        /\ st.pages[r].rest.ents[1] = entry /\ Len(st.pages[r].rest.ents) = 1
        /\ r \notin {entry.l, entry.r} /\ entry.l # entry.r
        /\ LeafAt(st, entry.l) /\ LeafAt(st, entry.r)
    BY <1>1, <2>1, ForkTypes DEF ForkAt, Fork
  <2>3. /\ st2.pages[r2].word = BranchWord /\ Len(st2.pages[r2].rest.ents) = 1
        /\ fork.k = entry.k
        /\ fork.l = IF entry.l = child THEN n ELSE entry.l
        /\ fork.r = IF entry.r = child THEN n ELSE entry.r
    <3> DEFINE page == st.pages[r]
               p == Retarget(page, child, n)
    <3>1. page \in NodePage /\ page.word = BranchWord /\ n \in Nat /\ 1 \in 1 .. Len(page.rest.ents)
      BY <1>5, <2>2
    <3>2. page.rest.ents[1] = entry /\ Len(page.rest.ents) = 1
      BY <2>2
    <3> HIDE DEF page, child
    <3>3. /\ p.word = BranchWord /\ Len(p.rest.ents) = Len(page.rest.ents)
          /\ p.rest.ents[1].k = page.rest.ents[1].k
          /\ p.rest.ents[1].l = IF page.rest.ents[1].l = child THEN n ELSE page.rest.ents[1].l
          /\ p.rest.ents[1].r = IF page.rest.ents[1].r = child THEN n ELSE page.rest.ents[1].r
      BY <3>1, RetargetFacts
    <3>4. st2.pages[r2] = p
      BY <2>1 DEF page
    <3> HIDE DEF p, entry
    <3>5. QED
      BY <3>2, <3>3, <3>4 DEF Fork
  <2>4. /\ child \in {entry.l, entry.r} /\ other \in {entry.l, entry.r} /\ child # other
        /\ {entry.l, entry.r} = {child, other}
        /\ child = IF k < entry.k THEN entry.l ELSE entry.r
    BY <2>2 DEF ForkChild, ForkSibling
  <2>5. TreePages(st, r) = {r, child, other}
    BY <1>5, <2>1, <2>2, <2>4 DEF TreePages, ForkAt, PageNos
  <2>6. other \in Used(st) \ ToSet(path) /\ LeafAt(st, other)
    BY <1>3, <2>1, <2>2, <2>4, <2>5
  <2> HIDE DEF child, other, entry
  <2>7. LeafAt(st2, other) /\ other # n
    <3>1. other \in PageNos(st2) /\ st2.pages[other] = st.pages[other]
      BY <1>4, <2>6 DEF Used
    <3>2. QED
      BY <1>4, <2>6, <3>1 DEF LeafAt
  <2>8. {fork.l, fork.r} = {n, other} /\ fork.l # fork.r
    BY <2>2, <2>3, <2>4, <2>7
  <2> HIDE DEF fork
  <2>9. ForkAt(st2, r2) /\ SmallTree(st2, r2)
    BY <1>5, <1>6, <2>3, <2>7, <2>8 DEF ForkAt, SmallTree, fork
  <2>10. TreePages(st2, r2) = {r2, n, other}
    <3>1. ~LeafAt(st2, r2)
      BY <2>3 DEF LeafAt, LeafWord, BranchWord
    <3>2. TreePages(st2, r2) = {r2, fork.l, fork.r}
      BY <1>5, <3>1 DEF TreePages, fork
    <3>3. QED
      BY <2>8, <3>2
  <2>11. Rewritten(st, r, path, st2, r2)
    BY <1>3, <1>4, <1>5, <2>1, <2>5, <2>6, <2>9, <2>10 DEF Rewritten
  <2>12. /\ fork.l = IF k < entry.k THEN n ELSE entry.l
         /\ fork.r = IF k < entry.k THEN entry.r ELSE n
    BY <2>2, <2>3, <2>4
  <2>13. QED
    BY <2>2, <2>3, <2>9, <2>11, <2>12 DEF path, st2, r2, entry, fork
<1>9. QED
  BY <1>2, <1>7, <1>8 DEF Leads

LEMMA TreeDivided ==
  ASSUME NEW st, Good(st), NEW r, LeafAt(st, r), NEW path, ToSet(path) = {r},
         NEW res, NEW left, NEW right, NEW half, Divided(st, r, res, left, right, half)
  PROVE  /\ Rewritten(st, r, path, res.st, res.root)
         /\ ForkAt(res.st, res.root)
         /\ Fork(res.st, res.root) = [k |-> half.key, l |-> left, r |-> right]
<1> DEFINE st2 == res.st
           r2 == res.root
           entry == [k |-> half.key, l |-> left, r |-> right]
<1>1. /\ Good(st2) /\ left \notin Used(st) /\ right \notin Used(st) /\ left # right
      /\ r2 \notin (Used(st) \ {r}) \cup {left, right}
      /\ Used(st2) = (Used(st) \ {r}) \cup {left, right, r2}
      /\ \A pn \in Used(st) \ {r} : st2.pages[pn] = st.pages[pn]
      /\ st2.pages[left] = Leaf(right, Rebuild(half.left))
      /\ st2.pages[right] = Leaf(st.pages[r].rest.next, Rebuild(half.right))
      /\ st2.pages[r2] = Branch(<<entry>>)
  BY DEF Divided
<1> HIDE DEF st2, r2
<1>2. st2 \in StoresOf(NodePage)
  BY <1>1 DEF Good, Listed
<1>3. \A pn \in {left, right, r2} : pn \in PageNos(st2) /\ pn \in Nat \ {0}
  <2>1. \A pn \in {left, right, r2} : pn \in PageNos(st2)
    BY <1>1 DEF Used
  <2>2. QED
    BY <1>2, <2>1, NodeTypes
<1>4. LeafAt(st2, left) /\ LeafAt(st2, right)
  BY <1>1, <1>3 DEF LeafAt, Leaf
<1>5. /\ st2.pages[r2].word = BranchWord /\ Len(st2.pages[r2].rest.ents) = 1
      /\ Fork(st2, r2) = entry
  <2>1. st2.pages[r2].word = BranchWord /\ st2.pages[r2].rest.ents = <<entry>>
    BY <1>1 DEF Branch
  <2> HIDE DEF entry
  <2>2. QED
    BY <2>1 DEF Fork
<1>6. entry.l = left /\ entry.r = right
  OBVIOUS
<1> HIDE DEF entry
<1>7. ForkAt(st2, r2) /\ SmallTree(st2, r2)
  BY <1>1, <1>3, <1>4, <1>5, <1>6 DEF ForkAt, SmallTree
<1>8. TreePages(st2, r2) = {r2, left, right}
  <2>1. ~LeafAt(st2, r2)
    BY <1>5 DEF LeafAt, LeafWord, BranchWord
  <2>2. QED
    BY <1>3, <1>5, <1>6, <2>1 DEF TreePages
<1>9. TreePages(st, r) = {r} /\ r \in Used(st)
  BY DEF TreePages, LeafAt, Used, PageNos
<1>10. Rewritten(st, r, path, st2, r2)
  BY <1>1, <1>3, <1>7, <1>8, <1>9 DEF Rewritten
<1>11. QED
  BY <1>5, <1>7, <1>10 DEF st2, r2, entry

\* A leaf has been rewritten in place.
LEMMA TreeEdited ==
  ASSUME NEW st, Good(st), NEW r, SmallTree(st, r), r # 0, NEW k \in Nat,
         NEW st2, Good(st2), Used(st2) = Used(st),
         st2.pages[Last(Path(st, r, k))].word = LeafWord,
         \A pn \in Used(st) \ {Last(Path(st, r, k))} : st2.pages[pn] = st.pages[pn]
  PROVE  /\ Rewritten(st, r, Path(st, r, k), st2, r)
         /\ LeafAt(st, r) => LeafAt(st2, r)
         /\ ~LeafAt(st, r) => ForkAt(st2, r) /\ Fork(st2, r) = Fork(st, r)
<1> DEFINE path == Path(st, r, k)
           old == Last(path)
<1>1. st \in StoresOf(NodePage)
  BY DEF Good, Listed
<1>2. /\ Leads(path, r, old) /\ LeafAt(st, old) /\ r \in Nat \ {0} /\ old \in TreePages(st, r)
      /\ Len(path) = 1 => LeafAt(st, r) /\ old = r
      /\ Len(path) = 2 => ForkAt(st, r)
  BY <1>1, PathLeads
<1>3. TreePages(st, r) \subseteq Used(st) /\ r \in Used(st)
  BY TreeUsed
<1> HIDE DEF path
<1>4. Used(st) \subseteq PageNos(st2)
  BY DEF Used
<1>5. \A pn \in TreePages(st, r) : LeafAt(st, pn) => LeafAt(st2, pn)
  BY <1>3, <1>4 DEF LeafAt, path
<1>6. CASE Len(path) = 1
  <2>1. LeafAt(st, r) /\ LeafAt(st2, r) /\ TreePages(st, r) = {r} /\ TreePages(st2, r) = {r}
    BY <1>2, <1>5, <1>6 DEF TreePages
  <2>2. ToSet(path) = {r} /\ SmallTree(st2, r) /\ old = r
    BY <1>2, <1>6, <2>1 DEF Leads, SmallTree
  <2>3. Rewritten(st, r, path, st2, r)
    BY <1>2, <1>3, <2>1, <2>2 DEF Rewritten, path
  <2>4. QED
    BY <2>1, <2>3 DEF path
<1>7. CASE Len(path) = 2
  <2>1. ForkAt(st, r) /\ ToSet(path) = {r, old} /\ r # old /\ ~LeafAt(st, r)
    BY <1>1, <1>2, <1>7, ForkTypes DEF Leads
  <2>2. r \in PageNos(st2) /\ st2.pages[r] = st.pages[r]
    BY <1>3, <1>4, <2>1 DEF path
  <2>3. Fork(st2, r) = Fork(st, r) /\ ~LeafAt(st2, r)
    BY <2>1, <2>2 DEF Fork, LeafAt, ForkAt
  <2>4. TreePages(st, r) = {r, Fork(st, r).l, Fork(st, r).r} /\ TreePages(st2, r) = TreePages(st, r)
    BY <1>2, <2>1, <2>3 DEF TreePages
  <2>5. ForkAt(st2, r) /\ SmallTree(st2, r)
    BY <1>5, <2>1, <2>2, <2>3, <2>4 DEF ForkAt, SmallTree
  <2>6. Rewritten(st, r, path, st2, r)
    BY <1>2, <1>3, <2>1, <2>4, <2>5 DEF Rewritten, path
  <2>7. QED
    BY <2>1, <2>3, <2>5, <2>6 DEF path
<1>8. QED
  BY <1>2, <1>6, <1>7 DEF Leads

LEMMA TreeKept ==
  ASSUME NEW st, Good(st), NEW r, SmallTree(st, r), NEW st2, Kept(st, st2)
  PROVE  /\ SmallTree(st2, r) /\ TreePages(st2, r) = TreePages(st, r)
         /\ LeafAt(st, r) <=> LeafAt(st2, r)
         /\ ForkAt(st, r) => ForkAt(st2, r) /\ Fork(st2, r) = Fork(st, r)
         /\ \A pn : LeafAt(st, pn) => LeafAt(st2, pn)
<1>1. Used(st) \subseteq PageNos(st2) /\ \A pn \in Used(st) : st2.pages[pn] = st.pages[pn]
  BY DEF Kept, Used
<1>2. \A pn : LeafAt(st, pn) => LeafAt(st2, pn)
  BY <1>1 DEF LeafAt, Used
<1>3. CASE r = 0 \/ LeafAt(st, r)
  <2>1. 0 \notin PageNos(st) /\ 0 \notin PageNos(st2)
    BY DEF PageNos
  <2>2. ~ForkAt(st, r)
    BY <1>3, <2>1 DEF ForkAt, LeafAt, LeafWord, BranchWord
  <2>3. QED
    BY <1>2, <1>3, <2>1, <2>2 DEF SmallTree, TreePages, LeafAt
<1>4. CASE ~(r = 0 \/ LeafAt(st, r))
  <2>1. ForkAt(st, r) /\ r \in Used(st)
    BY <1>4 DEF SmallTree, ForkAt, Used
  <2>2. r \in PageNos(st2) /\ st2.pages[r] = st.pages[r]
    BY <1>1, <2>1
  <2>3. Fork(st2, r) = Fork(st, r) /\ ~LeafAt(st2, r)
    BY <2>1, <2>2 DEF Fork, LeafAt, ForkAt, LeafWord, BranchWord
  <2>4. ForkAt(st2, r)
    BY <1>2, <2>1, <2>2, <2>3 DEF ForkAt
  <2>5. TreePages(st2, r) = TreePages(st, r)
    BY <1>4, <2>3 DEF TreePages
  <2>6. QED
    BY <1>2, <1>4, <2>3, <2>4, <2>5 DEF SmallTree
<1>5. QED
  BY <1>3, <1>4

----------------------------------------------------------------------------
(* What btree_insert and btree_delete do, case by case. *)

\* The tree's root is there: the test that btree_insert ends at.
LEMMA InsertCases ==
  ASSUME NEW st, Good(st), NEW r, SmallTree(st, r), r # 0, NEW k \in Keys, NEW v \in Values
  PROVE  LET path == Path(st, r, k)
             leaf == st.pages[Last(path)]
             ents == Ents(leaf)
             e    == [k |-> k, v |-> v]
         IN  /\ Insert(st, r, k, v) =
                  IF Holds(ents, k)
                  THEN IF Size[ents[SlotOf(ents, k)].v] = Size[v]
                       THEN ReplaceInPlace(st, r, path, e)
                       ELSE ReplaceRebuild(st, r, path, e)
                  ELSE IF HasRoom(leaf, e) THEN InsertFits(st, r, path, e)
                       ELSE InsertSplit(st, r, path, e)
             /\ MustSplit(st, r, k, v) <=> ~Holds(ents, k) /\ ~HasRoom(leaf, e)
             /\ Overfills(st, r, k, v) <=>
                   Holds(ents, k) /\ Fill(ents) - Size[ents[SlotOf(ents, k)].v] + Size[v] > LeafCap
<1> DEFINE path == Path(st, r, k)
           leaf == st.pages[Last(path)]
           ents == Ents(leaf)
           e    == [k |-> k, v |-> v]
<1>1. k \in Nat
  BY KeysAssumption
<1>2. Last(path) \in PageNos(st) /\ IsLeaf(leaf)
  <2>1. Standing(st, r, path)
    BY <1>1, TreeStanding
  <2>2. QED
    BY <2>1, StandingFacts
<1>3. Insert(st, r, k, v) =
        CASE Last(path) \notin PageNos(st) -> Result(st, r, Fault)
          [] Last(path) \in PageNos(st) /\ ~IsLeaf(leaf) -> Result(st, r, -1)
          [] OTHER ->
               IF Holds(ents, k)
               THEN IF Size[ents[SlotOf(ents, k)].v] = Size[v]
                    THEN ReplaceInPlace(st, r, path, e)
                    ELSE ReplaceRebuild(st, r, path, e)
               ELSE IF HasRoom(leaf, e) THEN InsertFits(st, r, path, e)
                    ELSE InsertSplit(st, r, path, e)
  BY DEF Insert
<1>4. OnLeaf(st, r, k) /\ LeafFor(st, r, k) = leaf
  BY <1>2 DEF OnLeaf, LeafFor
<1>5. /\ MustSplit(st, r, k, v) <=> ~Holds(ents, k) /\ ~HasRoom(leaf, e)
      /\ Overfills(st, r, k, v) <=>
            Holds(ents, k) /\ Fill(ents) - Size[ents[SlotOf(ents, k)].v] + Size[v] > LeafCap
  BY <1>4 DEF MustSplit, Overfills
<1> HIDE DEF path, leaf, ents, e
<1>6. Insert(st, r, k, v) =
         IF Holds(ents, k)
         THEN IF Size[ents[SlotOf(ents, k)].v] = Size[v]
              THEN ReplaceInPlace(st, r, path, e)
              ELSE ReplaceRebuild(st, r, path, e)
         ELSE IF HasRoom(leaf, e) THEN InsertFits(st, r, path, e)
              ELSE InsertSplit(st, r, path, e)
  BY <1>2, <1>3
<1>7. QED
  BY <1>5, <1>6 DEF path, leaf, ents, e

\* The tree is empty: it is created first, and then there is room in its leaf.
LEMMA InsertIntoNone ==
  ASSUME NEW st, Good(st), NEW k \in Keys, NEW v \in Values
  PROVE  LET new == Create(st)
             e   == [k |-> k, v |-> v]
         IN  /\ Created(st, new)
             /\ Insert(st, 0, k, v) =
                  IF new.root = 0 THEN Result(new.st, 0, Fault)
                  ELSE InsertFits(new.st, new.root, Path(new.st, new.root, k), e)
             /\ new.root # 0 =>
                  /\ new.rc = 0 /\ LeafAt(new.st, new.root)
                  /\ Standing(new.st, new.root, Path(new.st, new.root, k))
                  /\ ToSet(Path(new.st, new.root, k)) = {new.root}
                  /\ Last(Path(new.st, new.root, k)) = new.root
             /\ ~MustSplit(st, 0, k, v) /\ ~Overfills(st, 0, k, v)
<1> DEFINE new == Create(st)
           e   == [k |-> k, v |-> v]
<1>1. k \in Nat /\ Created(st, new)
  BY KeysAssumption, CreateOutcome
<1>2. ~MustSplit(st, 0, k, v) /\ ~Overfills(st, 0, k, v)
  BY DEF MustSplit, Overfills, OnLeaf
<1> HIDE DEF new
<1>3. CASE new.root = 0
  <2>1. new.st = st
    BY <1>1, <1>3 DEF Created
  <2>2. st \in StoresOf(NodePage) /\ SmallTree(st, 0)
    BY DEF Good, Listed, SmallTree
  <2>3. Path(st, 0, k) = <<0>>
    BY <1>1, <2>2, PathOfTree DEF Route
  <2>4. Last(Path(st, 0, k)) \notin PageNos(st)
    <3>1. Last(<<0>>) = 0
      BY DEF Last
    <3>2. 0 \notin PageNos(st)
      BY DEF PageNos
    <3>3. QED
      BY <2>3, <3>1, <3>2
  <2>5. Insert(st, 0, k, v) = Result(new.st, 0, Fault)
    BY <1>3, <2>1, <2>4 DEF Insert, new
  <2>6. QED
    BY <1>1, <1>2, <1>3, <2>5 DEF new
<1>4. CASE new.root # 0
  <2> DEFINE st1 == new.st
             r1 == new.root
             path == Path(st1, r1, k)
  <2>1. /\ new.rc = 0 /\ r1 \in Nat \ {0} /\ Good(st1) /\ Used(st1) = Used(st) \cup {r1}
        /\ st1.pages[r1] = Leaf(0, <<>>)
    BY <1>1, <1>4 DEF Created
  <2>2. LeafAt(st1, r1) /\ SmallTree(st1, r1) /\ Ents(st1.pages[r1]) = <<>>
    BY <2>1 DEF LeafAt, SmallTree, Used, Leaf, Ents, LeafWord
  <2>3. st1 \in StoresOf(NodePage)
    BY <2>1 DEF Good, Listed
  <2>4. path = <<r1>>
    BY <1>1, <2>2, <2>3, PathOfTree DEF Route
  <2>5. Last(path) = r1 /\ ToSet(path) = {r1}
    BY <2>4 DEF Last, ToSet
  <2>6. Standing(st1, r1, path)
    BY <1>1, <2>1, <2>2, TreeStanding
  <2>7. ~Holds(<<>>, k)
    BY DEF Holds
  <2>8. HasRoom(st1.pages[r1], e)
    <3>1. st1.pages[r1].word < 0
      BY <2>2 DEF LeafAt, LeafWord
    <3>2. Size[v] \in Nat /\ Size[v] <= LeafCap /\ LeafCap \in Nat
      BY SizeAssumption, NodeAssumption
    <3>3. QED
      BY <2>2, <3>1, <3>2, FillEmpty DEF HasRoom
  <2>9. Insert(st1, r1, k, v) = InsertFits(st1, r1, path, e)
    <3> DEFINE leaf == st1.pages[Last(path)]
    <3>1. leaf = st1.pages[r1]
      BY <2>5
    <3>2. Insert(st1, r1, k, v) =
             IF Holds(Ents(leaf), k)
             THEN IF Size[Ents(leaf)[SlotOf(Ents(leaf), k)].v] = Size[v]
                  THEN ReplaceInPlace(st1, r1, path, e)
                  ELSE ReplaceRebuild(st1, r1, path, e)
             ELSE IF HasRoom(leaf, e) THEN InsertFits(st1, r1, path, e)
                  ELSE InsertSplit(st1, r1, path, e)
      BY <1>4, <2>1, <2>2, InsertCases
    <3> HIDE DEF leaf, path, e
    <3>3. QED
      BY <2>2, <2>7, <2>8, <3>1, <3>2
  <2>10. Insert(st, 0, k, v) = Insert(st1, r1, k, v)
    BY <1>4 DEF Insert, new
  <2>11. QED
    BY <1>1, <1>2, <1>4, <2>1, <2>2, <2>5, <2>6, <2>9, <2>10 DEF new
<1>5. QED
  BY <1>3, <1>4

----------------------------------------------------------------------------
(* What a call makes of the tree. *)

\* A tree without a branch, and the entries of the leaves of one with a branch.
Whole(st, r) == r = 0 \/ LeafAt(st, r)
Low(st, r) == Ents(st.pages[Fork(st, r).l])
High(st, r) == Ents(st.pages[Fork(st, r).r])

\* The entries of the leaf for a key.
LeafEnts(st, r, k) ==
    IF r = 0 THEN <<>>
    ELSE IF LeafAt(st, r) THEN Ents(st.pages[r])
    ELSE IF k < Fork(st, r).k THEN Low(st, r) ELSE High(st, r)

\* next_leaf of a page.
NextOf(st, pn) == st.pages[pn].rest.next

\* Every leaf keeps its next_leaf; with a branch, the leaf the key is not for
\* keeps its page.
SameLinks(st, r, k, st2, r2) ==
    /\ Whole(st, r) => NextOf(st2, r2) = IF r = 0 THEN 0 ELSE NextOf(st, r)
    /\ ~Whole(st, r) => /\ NextOf(st2, Fork(st2, r2).l) = NextOf(st, Fork(st, r).l)
                        /\ NextOf(st2, Fork(st2, r2).r) = NextOf(st, Fork(st, r).r)
                        /\ IF k < Fork(st, r).k THEN Fork(st2, r2).r = Fork(st, r).r
                           ELSE Fork(st2, r2).l = Fork(st, r).l

\* The leaf for the key has other entries now; nothing else is different.
Edited(st, r, k, st2, r2, ents) ==
    /\ Whole(st, r) => LeafAt(st2, r2) /\ Ents(st2.pages[r2]) = ents
    /\ ~Whole(st, r) => /\ ForkAt(st2, r2) /\ Fork(st2, r2).k = Fork(st, r).k
                        /\ Low(st2, r2) = IF k < Fork(st, r).k THEN ents ELSE Low(st, r)
                        /\ High(st2, r2) = IF k < Fork(st, r).k THEN High(st, r) ELSE ents
    /\ SameLinks(st, r, k, st2, r2)

\* The tree is as it was, or is now a leaf without entries.
Same(st, r, st2, r2) ==
    \/ r2 = r /\ Kept(st, st2)
    \/ /\ r = 0 /\ LeafAt(st2, r2) /\ Ents(st2.pages[r2]) = <<>> /\ NextOf(st2, r2) = 0
       /\ Good(st2) /\ r2 \notin Used(st)
       /\ \A pn \in Used(st) : pn \in Used(st2) /\ st2.pages[pn] = st.pages[pn]

LEMMA LeafEntsFacts ==
  ASSUME NEW st, Good(st), NEW r, SmallTree(st, r), r # 0, NEW k \in Nat
  PROVE  /\ LeafEnts(st, r, k) = Ents(st.pages[Last(Path(st, r, k))])
         /\ LeafEnts(st, r, k) \in Seq(LeafEntry)
         /\ st.pages[Last(Path(st, r, k))] \in NodePage
         /\ st.pages[Last(Path(st, r, k))].word = LeafWord
         /\ Len(Path(st, r, k)) = 1 <=> LeafAt(st, r)
<1> DEFINE path == Path(st, r, k)
<1>1. st \in StoresOf(NodePage)
  BY DEF Good, Listed
<1>2. Standing(st, r, path)
  BY TreeStanding
<1>3. /\ LeafAt(st, Last(path)) /\ Len(path) \in {1, 2}
      /\ Len(path) = 1 => LeafAt(st, r) /\ Last(path) = r
      /\ Len(path) = 2 => ForkAt(st, r) /\ Last(path) = ForkChild(st, r, k)
  BY <1>1, PathLeads
<1> HIDE DEF path
<1>4. Len(path) = 2 => ~LeafAt(st, r)
  BY <1>3 DEF ForkAt, LeafAt, LeafWord, BranchWord
<1>5. LeafEnts(st, r, k) = Ents(st.pages[Last(path)])
  BY <1>3, <1>4 DEF LeafEnts, Low, High, ForkChild
<1>6. Ents(st.pages[Last(path)]) \in Seq(LeafEntry) /\ st.pages[Last(path)] \in NodePage
  BY <1>2, StandingFacts
<1>7. st.pages[Last(path)].word = LeafWord
  BY <1>3 DEF LeafAt
<1>8. QED
  BY <1>3, <1>4, <1>5, <1>6, <1>7 DEF path

\* A leaf replaced by a new page, or written in place.
LEMMA ReplacedEdits ==
  ASSUME NEW st, Good(st), NEW r, SmallTree(st, r), r # 0, NEW k \in Nat,
         NEW res, NEW n, NEW ents,
         Replaced(st, Path(st, r, k), res, n, Leaf(NextOf(st, Last(Path(st, r, k))), ents))
  PROVE  Edited(st, r, k, res.st, res.root, ents)
<1> DEFINE path == Path(st, r, k)
           st2 == res.st
           r2 == res.root
           next == NextOf(st, Last(path))
<1>1. /\ LeafAt(st, r) => LeafAt(st2, r2) /\ r2 = n
      /\ ~LeafAt(st, r) =>
            /\ ForkAt(st2, r2) /\ Fork(st2, r2).k = Fork(st, r).k
            /\ Fork(st2, r2).l = IF k < Fork(st, r).k THEN n ELSE Fork(st, r).l
            /\ Fork(st2, r2).r = IF k < Fork(st, r).k THEN Fork(st, r).r ELSE n
  BY TreeReplaced
<1>2. /\ st2.pages[n] = Leaf(next, ents)
      /\ \A pn \in Used(st) \ ToSet(path) : st2.pages[pn] = st.pages[pn]
  BY DEF Replaced
<1>3. Ents(st2.pages[n]) = ents /\ NextOf(st2, n) = next
  BY <1>2 DEF Leaf, Ents, LeafWord, NextOf
<1>4. CASE LeafAt(st, r)
  <2>1. Last(path) = r
    <3>1. st \in StoresOf(NodePage)
      BY DEF Good, Listed
    <3>2. path = <<r>>
      BY <1>4, <3>1, PathOfTree DEF Route
    <3>3. QED
      BY <3>2 DEF Last
  <2> HIDE DEF path, st2, r2
  <2>2. LeafAt(st2, r2) /\ Ents(st2.pages[r2]) = ents /\ NextOf(st2, r2) = NextOf(st, r)
    BY <1>1, <1>3, <1>4, <2>1
  <2>3. Edited(st, r, k, st2, r2, ents)
    BY <1>4, <2>2 DEF Edited, Whole, SameLinks
  <2>4. QED
    BY <2>3 DEF st2, r2
<1>5. CASE ~LeafAt(st, r)
  <2> DEFINE entry == Fork(st, r)
  <2>1. st \in StoresOf(NodePage)
    BY DEF Good, Listed
  <2>2. ForkAt(st, r)
    BY <1>5 DEF SmallTree
  <2>3. path = <<r, ForkChild(st, r, k)>>
    BY <1>5, <2>1, PathOfTree DEF Route
  <2>4. ToSet(path) = {r, ForkChild(st, r, k)} /\ Last(path) = ForkChild(st, r, k)
    <3>1. Leads(path, r, Last(path)) /\ (Len(path) = 2 => Last(path) = ForkChild(st, r, k))
          /\ (Len(path) = 1 => LeafAt(st, r))
      BY <2>1, PathLeads
    <3> HIDE DEF path
    <3>2. QED
      BY <1>5, <3>1 DEF Leads
  <2>5. /\ r \notin {entry.l, entry.r} /\ entry.l # entry.r
        /\ entry.l \in Used(st) /\ entry.r \in Used(st)
    BY <2>1, <2>2, ForkTypes DEF ForkAt, LeafAt, Used
  <2>9. next = NextOf(st, IF k < entry.k THEN entry.l ELSE entry.r)
    BY <2>4 DEF ForkChild
  <2> HIDE DEF path, st2, r2, entry, next
  <2>6. k < entry.k => st2.pages[entry.r] = st.pages[entry.r]
    BY <1>2, <2>4, <2>5 DEF ForkChild, entry
  <2>7. ~(k < entry.k) => st2.pages[entry.l] = st.pages[entry.l]
    BY <1>2, <2>4, <2>5 DEF ForkChild, entry
  <2>8. /\ ForkAt(st2, r2) /\ Fork(st2, r2).k = entry.k
        /\ Low(st2, r2) = IF k < entry.k THEN ents ELSE Low(st, r)
        /\ High(st2, r2) = IF k < entry.k THEN High(st, r) ELSE ents
    BY <1>1, <1>3, <1>5, <2>6, <2>7 DEF Low, High, entry
  <2>10. SameLinks(st, r, k, st2, r2)
    <3>1. CASE k < entry.k
      BY <1>1, <1>3, <1>5, <2>2, <2>6, <2>9, <3>1 DEF SameLinks, NextOf, Whole, entry
    <3>2. CASE ~(k < entry.k)
      BY <1>1, <1>3, <1>5, <2>2, <2>7, <2>9, <3>2 DEF SameLinks, NextOf, Whole, entry
    <3>3. QED
      BY <3>1, <3>2
  <2>11. Edited(st, r, k, st2, r2, ents)
    BY <1>5, <2>8, <2>10 DEF Edited, Whole, entry
  <2>12. QED
    BY <2>11 DEF st2, r2
<1>6. QED
  BY <1>4, <1>5

LEMMA WrittenEdits ==
  ASSUME NEW st, Good(st), NEW r, SmallTree(st, r), r # 0, NEW k \in Nat,
         NEW st2, Good(st2), Used(st2) = Used(st), NEW ents,
         st2.pages[Last(Path(st, r, k))] = Leaf(NextOf(st, Last(Path(st, r, k))), ents),
         \A pn \in Used(st) \ {Last(Path(st, r, k))} : st2.pages[pn] = st.pages[pn]
  PROVE  Edited(st, r, k, st2, r, ents)
<1> DEFINE old == Last(Path(st, r, k))
<1>1. /\ LeafAt(st, r) => LeafAt(st2, r)
      /\ ~LeafAt(st, r) => ForkAt(st2, r) /\ Fork(st2, r) = Fork(st, r)
  <2>1. st2.pages[old].word = LeafWord
    BY DEF Leaf
  <2>2. QED
    BY <2>1, TreeEdited
<1>2. Ents(st2.pages[old]) = ents /\ NextOf(st2, old) = NextOf(st, old)
  BY DEF Leaf, Ents, LeafWord, NextOf
<1>3. st \in StoresOf(NodePage)
  BY DEF Good, Listed
<1>4. LeafAt(st, r) => old = r
  <2>1. Last(<<r>>) = r
    BY DEF Last
  <2>2. QED
    BY <1>3, <2>1, PathOfTree DEF Route
<1>5. CASE LeafAt(st, r)
  <2>1. LeafAt(st2, r) /\ Ents(st2.pages[r]) = ents /\ NextOf(st2, r) = NextOf(st, r)
    BY <1>1, <1>2, <1>4, <1>5
  <2>2. QED
    BY <1>5, <2>1 DEF Edited, Whole, SameLinks
<1>6. CASE ~LeafAt(st, r)
  <2> DEFINE entry == Fork(st, r)
  <2>1. ForkAt(st, r)
    BY <1>6 DEF SmallTree
  <2>2. old = ForkChild(st, r, k)
    <3>1. Leads(Path(st, r, k), r, old) /\ (Len(Path(st, r, k)) = 2 => old = ForkChild(st, r, k))
          /\ (Len(Path(st, r, k)) = 1 => LeafAt(st, r))
      BY <1>3, PathLeads
    <3>2. QED
      BY <1>6, <3>1 DEF Leads
  <2>3. entry.l # entry.r /\ entry.l \in Used(st) /\ entry.r \in Used(st)
    BY <2>1 DEF ForkAt, LeafAt, Used
  <2>4. k < entry.k => st2.pages[entry.r] = st.pages[entry.r]
    BY <2>2, <2>3 DEF ForkChild
  <2>5. ~(k < entry.k) => st2.pages[entry.l] = st.pages[entry.l]
    BY <2>2, <2>3 DEF ForkChild
  <2>6. k < entry.k => Ents(st2.pages[entry.l]) = ents
    BY <1>2, <2>2 DEF ForkChild
  <2>7. ~(k < entry.k) => Ents(st2.pages[entry.r]) = ents
    BY <1>2, <2>2 DEF ForkChild
  <2> HIDE DEF entry
  <2>8. SameLinks(st, r, k, st2, r)
    <3>1. CASE k < entry.k
      <4>1. old = entry.l
        BY <2>2, <3>1 DEF ForkChild, entry
      <4>2. QED
        BY <1>1, <1>2, <1>6, <2>4, <3>1, <4>1 DEF SameLinks, NextOf, Whole, entry
    <3>2. CASE ~(k < entry.k)
      <4>1. old = entry.r
        BY <2>2, <3>2 DEF ForkChild, entry
      <4>2. QED
        BY <1>1, <1>2, <1>6, <2>5, <3>2, <4>1 DEF SameLinks, NextOf, Whole, entry
    <3>3. QED
      BY <3>1, <3>2
  <2>9. QED
    BY <1>1, <1>6, <2>4, <2>5, <2>6, <2>7, <2>8 DEF Edited, Whole, Low, High, entry
<1>7. QED
  BY <1>5, <1>6

\* The entries of a leaf with an entry put into it.
Placed(ents, e) ==
    LET pos == SlotOf(ents, e.k)
    IN  IF ~Holds(ents, e.k) THEN InsertAt(ents, pos, e)
        ELSE IF Size[ents[pos].v] = Size[e.v] THEN [ents EXCEPT ![pos] = e]
        ELSE Rebuild([ents EXCEPT ![pos] = e])

\* A leaf has been divided between two.
Forked(st, r, st2, r2, half) ==
    /\ LeafAt(st, r) /\ ForkAt(st2, r2) /\ Fork(st2, r2).k = half.key
    /\ Low(st2, r2) = Rebuild(half.left) /\ High(st2, r2) = Rebuild(half.right)
    /\ NextOf(st2, Fork(st2, r2).l) = Fork(st2, r2).r
    /\ NextOf(st2, Fork(st2, r2).r) = NextOf(st, r)

\* There is no page for the first leaf, or one for two halves.
Full(st, r) ==
    \/ r = 0 /\ Used(st) = PageNos(st) /\ Len(st.pages) = MaxPages - 1
    \/ r # 0 /\ OnePageLeft(st)

Inserted(st, r, e, res) ==
    LET ents == LeafEnts(st, r, e.k)
    IN  \/ /\ res.rc = 0 /\ Rewritten(st, r, Path(st, r, e.k), res.st, res.root)
           /\ \/ ~MustSplit(st, r, e.k, e.v) /\ Edited(st, r, e.k, res.st, res.root, Placed(ents, e))
              \/ /\ MustSplit(st, r, e.k, e.v)
                 /\ Forked(st, r, res.st, res.root, Halves(InsertAt(ents, SlotOf(ents, e.k), e)))
        \/ res.rc = -1 /\ Same(st, r, res.st, res.root)
        \/ res.rc = Fault /\ Full(st, r)

Deleted(st, r, k, res) ==
    LET ents == LeafEnts(st, r, k)
    IN  \/ /\ res.rc = 0 /\ r # 0 /\ Rewritten(st, r, Path(st, r, k), res.st, res.root)
           /\ Holds(ents, k) /\ Edited(st, r, k, res.st, res.root, RemoveAt(ents, SlotOf(ents, k)))
        \/ res.rc = -1 /\ res.root = r /\ Kept(st, res.st)

\* What an Outcome means for the tree.
LEMMA OutcomeOnTree ==
  ASSUME NEW st, Good(st), NEW r, SmallTree(st, r), r # 0, NEW k \in Nat,
         NEW res, NEW ents,
         Outcome(st, r, Path(st, r, k), res, Leaf(NextOf(st, Last(Path(st, r, k))), ents))
  PROVE  \/ /\ res.rc = 0 /\ Rewritten(st, r, Path(st, r, k), res.st, res.root)
            /\ Edited(st, r, k, res.st, res.root, ents)
         \/ res.rc = -1 /\ res.root = r /\ Kept(st, res.st)
<1>1. ASSUME NEW n, Replaced(st, Path(st, r, k), res, n, Leaf(NextOf(st, Last(Path(st, r, k))), ents))
      PROVE  /\ Rewritten(st, r, Path(st, r, k), res.st, res.root)
             /\ Edited(st, r, k, res.st, res.root, ents)
  BY <1>1, TreeReplaced, ReplacedEdits
<1>2. QED
  BY <1>1 DEF Outcome

LEMMA DeleteCall ==
  ASSUME NEW st, Good(st), NEW r, SmallTree(st, r), NEW k \in Keys
  PROVE  Deleted(st, r, k, Delete(st, r, k))
<1> DEFINE path == Path(st, r, k)
           res  == Delete(st, r, k)
<1>1. k \in Nat
  BY KeysAssumption
<1>2. CASE r = 0
  <2>1. st \in StoresOf(NodePage)
    BY DEF Good, Listed
  <2>2. path = <<0>>
    BY <1>1, <1>2, <2>1, PathOfTree DEF Route
  <2>3. Last(<<0>>) = 0 /\ 0 \notin PageNos(st)
    BY DEF Last, PageNos
  <2>4. Last(path) \notin PageNos(st)
    BY <2>2, <2>3
  <2>5. res = Result(st, r, -1)
    BY <2>4 DEF Delete
  <2>6. QED
    BY <2>5, KeptSame DEF Deleted, Result
<1>3. CASE r # 0
  <2> DEFINE leaf == st.pages[Last(path)]
  <2>1. Standing(st, r, path)
    BY <1>1, <1>3, TreeStanding
  <2>2. LeafEnts(st, r, k) = Ents(leaf)
    BY <1>1, <1>3, LeafEntsFacts
  <2>3. /\ Outcome(st, r, path, res, Leaf(leaf.rest.next, RemoveAt(Ents(leaf), SlotOf(Ents(leaf), k))))
        /\ res.rc = 0 => Holds(Ents(leaf), k)
    BY <2>1, DeleteOutcome
  <2>7. leaf.rest.next = NextOf(st, Last(Path(st, r, k)))
    BY DEF NextOf
  <2> HIDE DEF res, leaf
  <2>4. \/ /\ res.rc = 0 /\ Rewritten(st, r, path, res.st, res.root)
           /\ Edited(st, r, k, res.st, res.root, RemoveAt(Ents(leaf), SlotOf(Ents(leaf), k)))
        \/ res.rc = -1 /\ res.root = r /\ Kept(st, res.st)
    BY <1>1, <1>3, <2>3, <2>7, OutcomeOnTree
  <2>5. Deleted(st, r, k, res)
    BY <1>3, <2>2, <2>3, <2>4 DEF Deleted
  <2>6. QED
    BY <2>5 DEF res
<1>4. QED
  BY <1>2, <1>3

\* What becomes of a tree that is created by the call is what becomes of none.
LEMMA CreatedThen ==
  ASSUME NEW st, Good(st), NEW new, Created(st, new), new.root # 0, NEW k \in Nat,
         NEW path, ToSet(path) = {new.root}, NEW st2, NEW r2
  PROVE  /\ Rewritten(new.st, new.root, path, st2, r2) => Rewritten(st, 0, Path(st, 0, k), st2, r2)
         /\ Kept(new.st, st2) => Same(st, 0, st2, new.root)
<1> DEFINE st1 == new.st
           r1 == new.root
<1>1. /\ r1 \in Nat \ {0} /\ r1 \notin Used(st) /\ Good(st1) /\ Used(st1) = Used(st) \cup {r1}
      /\ st1.pages[r1] = Leaf(0, <<>>)
      /\ \A pn \in Used(st) : st1.pages[pn] = st.pages[pn]
  BY DEF Created
<1>2. st \in StoresOf(NodePage) /\ SmallTree(st, 0)
  BY DEF Good, Listed, SmallTree
<1>3. ToSet(Path(st, 0, k)) = {0} /\ 0 \notin Used(st)
  <2>1. Path(st, 0, k) = <<0>>
    BY <1>2, PathOfTree DEF Route
  <2>2. ToSet(<<0>>) = {0} /\ 0 \notin PageNos(st)
    BY DEF ToSet, PageNos
  <2>3. QED
    BY <2>1, <2>2 DEF Used
<1>4. /\ LeafAt(st1, r1) /\ r1 \in PageNos(st1) /\ TreePages(st1, r1) = {r1}
      /\ TreePages(st, 0) = {} /\ Ents(st1.pages[r1]) = <<>> /\ NextOf(st1, r1) = 0
  BY <1>1 DEF LeafAt, Used, Leaf, TreePages, Ents, LeafWord, NextOf
<1> HIDE DEF st1, r1
<1>5. ASSUME Rewritten(st1, r1, path, st2, r2)
      PROVE  Rewritten(st, 0, Path(st, 0, k), st2, r2)
  <2>1. ToSet(path) = {r1}
    BY DEF r1
  <2>2. /\ Good(st2) /\ SmallTree(st2, r2) /\ r2 \in Nat \ {0}
        /\ \A pn \in Used(st1) \ {r1} : pn \in Used(st2) /\ st2.pages[pn] = st1.pages[pn]
        /\ TreePages(st2, r2) \cap (Used(st1) \ {r1}) = {}
        /\ Used(st2) \ TreePages(st2, r2) \subseteq Used(st1) \ {r1}
    BY <1>4, <1>5, <2>1 DEF Rewritten
  <2>3. Used(st1) \ {r1} = Used(st)
    BY <1>1
  <2>4. QED
    BY <1>1, <1>3, <1>4, <2>2, <2>3 DEF Rewritten
<1>6. ASSUME Kept(st1, st2)
      PROVE  Same(st, 0, st2, r1)
  <2>1. Good(st2) /\ Used(st1) \subseteq Used(st2) /\ \A pn \in Used(st1) : st2.pages[pn] = st1.pages[pn]
    BY <1>6 DEF Kept
  <2>2. r1 \in Used(st1) /\ r1 \in Used(st2)
    BY <1>1, <2>1
  <2>3. LeafAt(st2, r1) /\ st2.pages[r1] = st1.pages[r1]
    BY <1>1, <1>4, <2>1, <2>2 DEF LeafAt, Used
  <2>4. Same(st, 0, st2, r1)
    BY <1>1, <1>4, <2>1, <2>3 DEF Same, NextOf
  <2>5. QED
    BY <2>4
<1>7. QED
  BY <1>5, <1>6 DEF st1, r1

LEMMA InsertCall ==
  ASSUME NEW st, Good(st), NEW r, SmallTree(st, r), NEW k \in Keys, NEW v \in Values,
         MustSplit(st, r, k, v) => LeafAt(st, r)
  PROVE  Inserted(st, r, [k |-> k, v |-> v], Insert(st, r, k, v))
<1> DEFINE e == [k |-> k, v |-> v]
           res == Insert(st, r, k, v)
           ents == LeafEnts(st, r, k)
           pos == SlotOf(ents, k)
           must == MustSplit(st, r, k, v)
<1>1. k \in Nat /\ e \in LeafEntry /\ e.k = k /\ e.v = v
  BY KeysAssumption DEF LeafEntry
<1>2. CASE r = 0
  <2> DEFINE new == Create(st)
             st1 == new.st
             r1 == new.root
             path == Path(st1, r1, k)
  <2>1. /\ Created(st, new) /\ ~must
        /\ res = IF r1 = 0 THEN Result(st1, 0, Fault) ELSE InsertFits(st1, r1, path, e)
        /\ r1 # 0 => /\ LeafAt(st1, r1) /\ Standing(st1, r1, path)
                     /\ ToSet(path) = {r1} /\ Last(path) = r1
    BY <1>2, InsertIntoNone
  <2> HIDE DEF new, res, must, e
  <2>2. CASE r1 = 0
    <3>1. res.rc = Fault
      BY <2>1, <2>2 DEF Result
    <3>2. Full(st, r)
      BY <1>2, <2>1, <2>2 DEF Created, Full
    <3>3. QED
      BY <3>1, <3>2 DEF Inserted, res, e
  <2>3. CASE r1 # 0
    <3> DEFINE leaf == st1.pages[r1]
               pos1 == SlotOf(Ents(leaf), k)
    <3>1. Good(st1) /\ SmallTree(st1, r1)
      BY <2>1, <2>3 DEF Standing, SmallTree
    <3>2. Ents(leaf) = <<>> /\ ents = <<>> /\ leaf.rest.next = 0
      BY <1>2, <2>1, <2>3 DEF Created, Leaf, Ents, LeafWord, LeafEnts
    <3>3. Outcome(st1, r1, path, res, Leaf(leaf.rest.next, InsertAt(Ents(leaf), pos1, e)))
      BY <1>1, <2>1, <2>3, InsertFitsOutcome
    <3>4. InsertAt(Ents(leaf), pos1, e) = Placed(ents, e)
      <4>1. ~Holds(ents, k)
        BY <3>2 DEF Holds
      <4>2. QED
        BY <1>1, <3>2, <4>1 DEF Placed
    <3>12. leaf.rest.next = NextOf(st1, Last(Path(st1, r1, k))) /\ NextOf(st1, r1) = 0
      BY <2>1, <2>3, <3>2 DEF NextOf
    <3> HIDE DEF leaf, pos1, ents, path
    <3>5. \/ /\ res.rc = 0 /\ Rewritten(st1, r1, Path(st1, r1, k), res.st, res.root)
             /\ Edited(st1, r1, k, res.st, res.root, Placed(ents, e))
          \/ res.rc = -1 /\ res.root = r1 /\ Kept(st1, res.st)
      BY <1>1, <2>3, <3>1, <3>3, <3>4, <3>12, OutcomeOnTree DEF path
    <3>6. /\ Rewritten(st1, r1, path, res.st, res.root) => Rewritten(st, 0, Path(st, 0, k), res.st, res.root)
          /\ Kept(st1, res.st) => Same(st, 0, res.st, r1)
      BY <1>1, <2>1, <2>3, CreatedThen
    <3>7. Edited(st1, r1, k, res.st, res.root, Placed(ents, e)) =>
             Edited(st, 0, k, res.st, res.root, Placed(ents, e))
      BY <2>1, <2>3, <3>12 DEF Edited, Whole, SameLinks
    <3>8. \/ /\ res.rc = 0 /\ Rewritten(st, 0, Path(st, 0, k), res.st, res.root)
             /\ Edited(st, 0, k, res.st, res.root, Placed(ents, e))
          \/ res.rc = -1 /\ Same(st, 0, res.st, res.root)
      BY <3>5, <3>6, <3>7 DEF path
    <3>9. ~MustSplit(st, r, e.k, e.v) /\ ents = LeafEnts(st, r, e.k)
      BY <1>1, <2>1 DEF must, ents
    <3>10. Inserted(st, r, e, res)
      BY <1>1, <1>2, <3>8, <3>9 DEF Inserted
    <3>11. QED
      BY <3>10 DEF res, e
  <2>4. QED
    BY <2>2, <2>3
<1>3. CASE r # 0
  <2> DEFINE path == Path(st, r, k)
             leaf == st.pages[Last(path)]
             next == leaf.rest.next
             put == [ents EXCEPT ![pos] = e]
  <2>1. Standing(st, r, path)
    BY <1>1, <1>3, TreeStanding
  <2>2. /\ ents = Ents(leaf) /\ ents \in Seq(LeafEntry) /\ (Len(path) = 1 <=> LeafAt(st, r))
    BY <1>1, <1>3, LeafEntsFacts
  <2>3. /\ res = IF Holds(ents, k)
                 THEN IF Size[ents[pos].v] = Size[v] THEN ReplaceInPlace(st, r, path, e)
                      ELSE ReplaceRebuild(st, r, path, e)
                 ELSE IF HasRoom(leaf, e) THEN InsertFits(st, r, path, e)
                      ELSE InsertSplit(st, r, path, e)
        /\ must <=> ~Holds(ents, k) /\ ~HasRoom(leaf, e)
    BY <1>3, <2>2, InsertCases
  <2>4. Placed(ents, e) = IF ~Holds(ents, k) THEN InsertAt(ents, pos, e)
                          ELSE IF Size[ents[pos].v] = Size[v] THEN put ELSE Rebuild(put)
    BY <1>1 DEF Placed
  <2>5. ents = LeafEnts(st, r, e.k) /\ path = Path(st, r, e.k) /\ must = MustSplit(st, r, e.k, e.v)
        /\ pos = SlotOf(ents, e.k)
    BY <1>1
  <2>12. next = NextOf(st, Last(Path(st, r, k)))
    BY DEF NextOf
  <2>6. pos = SlotOf(Ents(leaf), e.k)
    BY <2>2, <2>5
  <2> HIDE DEF ents, leaf, res, must, pos, e
  <2>7. CASE Holds(ents, k) /\ Size[ents[pos].v] = Size[v]
    <3>1. /\ res.rc = 0 /\ res.root = r /\ Good(res.st) /\ Used(res.st) = Used(st)
          /\ res.st.pages[Last(path)] = Leaf(next, put)
          /\ \A pn \in Used(st) \ {Last(path)} : res.st.pages[pn] = st.pages[pn]
      <4>1. res = ReplaceInPlace(st, r, path, e)
        BY <2>3, <2>7
      <4>2. /\ res.rc = 0 /\ res.root = r /\ Good(res.st) /\ Used(res.st) = Used(st)
            /\ res.st.pages[Last(path)] = Leaf(next, [Ents(leaf) EXCEPT ![SlotOf(Ents(leaf), e.k)] = e])
            /\ \A pn \in Used(st) \ {Last(path)} : res.st.pages[pn] = st.pages[pn]
        BY <1>1, <2>1, <4>1, ReplaceInPlaceOutcome DEF leaf
      <4>3. QED
        BY <2>2, <2>6, <4>2
    <3> HIDE DEF put, next
    <3>8. res.st.pages[Last(path)] = Leaf(NextOf(st, Last(Path(st, r, k))), put)
      BY <2>12, <3>1
    <3>2. res.st.pages[Last(path)].word = LeafWord
      BY <3>1 DEF Leaf
    <3>3. Rewritten(st, r, path, res.st, r)
      BY <1>1, <1>3, <3>1, <3>2, TreeEdited
    <3>4. Edited(st, r, k, res.st, r, put)
      BY <1>1, <1>3, <3>1, <3>8, WrittenEdits
    <3>5. ~must /\ Placed(ents, e) = put
      BY <2>3, <2>4, <2>7
    <3>6. Inserted(st, r, e, res)
      BY <1>1, <2>5, <3>1, <3>3, <3>4, <3>5 DEF Inserted
    <3>7. QED
      BY <3>6 DEF res, e
  <2>8. CASE Holds(ents, k) /\ Size[ents[pos].v] # Size[v]
    <3>1. Outcome(st, r, path, res, Leaf(next, Rebuild(put)))
      <4>1. res = ReplaceRebuild(st, r, path, e)
        BY <2>3, <2>8
      <4>2. Outcome(st, r, path, res, Leaf(next, Rebuild([Ents(leaf) EXCEPT ![SlotOf(Ents(leaf), e.k)] = e])))
        BY <1>1, <2>1, <4>1, ReplaceRebuildOutcome DEF leaf
      <4>3. QED
        BY <2>2, <2>6, <4>2
    <3>2. ~must /\ Placed(ents, e) = Rebuild(put)
      BY <2>3, <2>4, <2>8
    <3> HIDE DEF put, next
    <3>3. \/ /\ res.rc = 0 /\ Rewritten(st, r, Path(st, r, k), res.st, res.root)
             /\ Edited(st, r, k, res.st, res.root, Rebuild(put))
          \/ res.rc = -1 /\ res.root = r /\ Kept(st, res.st)
      BY <1>1, <1>3, <2>12, <3>1, OutcomeOnTree
    <3>4. Inserted(st, r, e, res)
      BY <1>1, <2>5, <3>2, <3>3 DEF Inserted, Same
    <3>5. QED
      BY <3>4 DEF res, e
  <2>9. CASE ~Holds(ents, k) /\ HasRoom(leaf, e)
    <3>1. Outcome(st, r, path, res, Leaf(next, InsertAt(ents, pos, e)))
      <4>1. res = InsertFits(st, r, path, e)
        BY <2>3, <2>9
      <4>2. Outcome(st, r, path, res, Leaf(next, InsertAt(Ents(leaf), SlotOf(Ents(leaf), e.k), e)))
        BY <1>1, <2>1, <4>1, InsertFitsOutcome DEF leaf
      <4>3. QED
        BY <2>2, <2>6, <4>2
    <3>2. ~must /\ Placed(ents, e) = InsertAt(ents, pos, e)
      BY <2>3, <2>4, <2>9
    <3> HIDE DEF put, next
    <3>3. \/ /\ res.rc = 0 /\ Rewritten(st, r, Path(st, r, k), res.st, res.root)
             /\ Edited(st, r, k, res.st, res.root, InsertAt(ents, pos, e))
          \/ res.rc = -1 /\ res.root = r /\ Kept(st, res.st)
      BY <1>1, <1>3, <2>12, <3>1, OutcomeOnTree
    <3>4. Inserted(st, r, e, res)
      BY <1>1, <2>5, <3>2, <3>3 DEF Inserted, Same
    <3>5. QED
      BY <3>4 DEF res, e
  <2>10. CASE ~Holds(ents, k) /\ ~HasRoom(leaf, e)
    <3> DEFINE half == Halves(InsertAt(ents, pos, e))
    <3>1. must /\ res = InsertSplit(st, r, path, e)
      BY <2>3, <2>10
    <3>2. LeafAt(st, r) /\ Len(path) = 1
      BY <2>2, <3>1 DEF must
    <3>3. Last(path) = r /\ ToSet(path) = {r}
      BY <2>1, <3>2 DEF Standing, Leads
    <3>4. \/ res.rc = 0 /\ \E left, right : Divided(st, r, res, left, right, half)
          \/ res.rc = -1 /\ res.root = r /\ Kept(st, res.st)
          \/ res.rc = Fault /\ OnePageLeft(st)
      <4> HIDE DEF path
      <4>1. Ents(st.pages[r]) = ents
        BY <2>2, <3>3 DEF leaf
      <4>2. \/ res.rc = 0 /\ \E left, right : Divided(st, r, res, left, right,
                          Halves(InsertAt(Ents(st.pages[r]), SlotOf(Ents(st.pages[r]), e.k), e)))
            \/ res.rc = -1 /\ res.root = r /\ Kept(st, res.st)
            \/ res.rc = Fault /\ OnePageLeft(st)
        BY <1>1, <2>1, <3>1, <3>2, InsertSplitOutcome
      <4>3. QED
        BY <2>5, <4>1, <4>2
    <3> HIDE DEF half
    <3>5. ASSUME NEW left, NEW right, Divided(st, r, res, left, right, half)
          PROVE  Rewritten(st, r, path, res.st, res.root) /\ Forked(st, r, res.st, res.root, half)
      <4> HIDE DEF path
      <4>1. /\ Rewritten(st, r, path, res.st, res.root) /\ ForkAt(res.st, res.root)
            /\ Fork(res.st, res.root) = [k |-> half.key, l |-> left, r |-> right]
        BY <3>2, <3>3, <3>5, TreeDivided
      <4>2. /\ res.st.pages[left] = Leaf(right, Rebuild(half.left))
            /\ res.st.pages[right] = Leaf(st.pages[r].rest.next, Rebuild(half.right))
        BY <3>5 DEF Divided
      <4>3. /\ Ents(res.st.pages[left]) = Rebuild(half.left) /\ Ents(res.st.pages[right]) = Rebuild(half.right)
            /\ NextOf(res.st, left) = right /\ NextOf(res.st, right) = NextOf(st, r)
        BY <4>2 DEF Leaf, Ents, LeafWord, NextOf
      <4>4. QED
        BY <3>2, <4>1, <4>3 DEF Forked, Low, High
    <3>6. Inserted(st, r, e, res)
      BY <1>1, <1>3, <2>5, <3>1, <3>4, <3>5 DEF Inserted, Same, Full, half
    <3>7. QED
      BY <3>6 DEF res, e
  <2>11. QED
    BY <2>7, <2>8, <2>9, <2>10
<1>4. QED
  BY <1>2, <1>3

----------------------------------------------------------------------------
(* What any of them leaves alone, and a new file. *)

\* Pages in use outside the tree are kept, and stay outside of it.
Sound(st, r, st2, r2) ==
    /\ Good(st2) /\ SmallTree(st2, r2)
    /\ \A pn \in Used(st) \ TreePages(st, r) : pn \in Used(st2) /\ st2.pages[pn] = st.pages[pn]
    /\ TreePages(st2, r2) \cap (Used(st) \ TreePages(st, r)) = {}

LEMMA RewrittenSound ==
  ASSUME NEW st, Good(st), NEW r, SmallTree(st, r), NEW k \in Nat, NEW st2, NEW r2,
         Rewritten(st, r, Path(st, r, k), st2, r2)
  PROVE  Sound(st, r, st2, r2)
<1>1. ToSet(Path(st, r, k)) \cap Used(st) \subseteq TreePages(st, r)
  <2>1. CASE r = 0
    <3>1. st \in StoresOf(NodePage)
      BY DEF Good, Listed
    <3>2. Path(st, r, k) = <<0>>
      BY <2>1, <3>1, PathOfTree DEF Route
    <3>3. ToSet(<<0>>) = {0} /\ 0 \notin Used(st)
      BY DEF ToSet, Used, PageNos
    <3>4. QED
      BY <3>2, <3>3
  <2>2. CASE r # 0
    BY <2>2, TreeStanding
  <2>3. QED
    BY <2>1, <2>2
<1>2. QED
  BY <1>1 DEF Rewritten, Sound

LEMMA KeptSound ==
  ASSUME NEW st, Good(st), NEW r, SmallTree(st, r), NEW st2, Kept(st, st2)
  PROVE  Sound(st, r, st2, r)
<1>1. SmallTree(st2, r) /\ TreePages(st2, r) = TreePages(st, r)
  BY TreeKept
<1>2. QED
  BY <1>1 DEF Kept, Sound

LEMMA SameSound ==
  ASSUME NEW st, Good(st), NEW r, SmallTree(st, r), NEW st2, NEW r2, Same(st, r, st2, r2)
  PROVE  Sound(st, r, st2, r2) /\ (Whole(st, r) => Whole(st2, r2))
<1>1. CASE r2 = r /\ Kept(st, st2)
  BY <1>1, KeptSound, TreeKept DEF Whole
<1>2. CASE ~(r2 = r /\ Kept(st, st2))
  <2>1. /\ r = 0 /\ LeafAt(st2, r2) /\ Good(st2) /\ r2 \notin Used(st)
        /\ \A pn \in Used(st) : pn \in Used(st2) /\ st2.pages[pn] = st.pages[pn]
    BY <1>2 DEF Same
  <2>2. SmallTree(st2, r2) /\ TreePages(st2, r2) = {r2} /\ TreePages(st, r) = {}
    BY <2>1 DEF SmallTree, TreePages, LeafAt, PageNos
  <2>3. QED
    BY <2>1, <2>2 DEF Sound, Whole
<1>3. QED
  BY <1>1, <1>2

\* A create leaves the tree alone.
LEMMA CreatedKept ==
  ASSUME NEW st, Good(st), NEW new, Created(st, new)
  PROVE  Kept(st, new.st)
  BY KeptSame DEF Created, Kept

\* A create leaves every tree alone, and puts a leaf in the place of none.
LEMMA CreatedSame ==
  ASSUME NEW st, Good(st), NEW r, NEW new, Created(st, new)
  PROVE  Same(st, r, new.st, r) /\ Same(st, 0, new.st, new.root)
<1>1. Kept(st, new.st)
  BY CreatedKept
<1>2. CASE new.root = 0
  BY <1>1, <1>2 DEF Same
<1>3. CASE new.root # 0
  <2>1. /\ new.root \notin Used(st) /\ Good(new.st) /\ Used(new.st) = Used(st) \cup {new.root}
        /\ new.st.pages[new.root] = Leaf(0, <<>>)
        /\ \A pn \in Used(st) : new.st.pages[pn] = st.pages[pn]
    BY <1>3 DEF Created
  <2>2. LeafAt(new.st, new.root) /\ Ents(new.st.pages[new.root]) = <<>> /\ NextOf(new.st, new.root) = 0
    BY <2>1 DEF LeafAt, Used, Leaf, Ents, LeafWord, NextOf
  <2>3. QED
    BY <1>1, <2>1, <2>2 DEF Same
<1>4. QED
  BY <1>2, <1>3

\* A new file: a list of free pages.
FreshFile(n) == [head |-> n, pages |-> [i \in 1 .. n |-> [ZeroPage EXCEPT !.word = i - 1]]]

LEMMA FreshGood ==
  ASSUME NEW N \in Nat, N < MaxPages
  PROVE  Good(FreshFile(N))
<1> DEFINE store == FreshFile(N)
           page(i) == [ZeroPage EXCEPT !.word = i - 1]
           s == [i \in 1 .. N |-> i]
<1>1. N \in Nat /\ N < MaxPages /\ MaxPages \in Nat
  BY MaxPagesAssumption
<1>2. \A i \in 1 .. N : page(i) \in NodePage /\ page(i).word = i - 1
  <2>1. TAKE i \in 1 .. N
  <2>2. i - 1 \in Nat
    BY <1>1
  <2>3. QED
    BY <2>2, NodePages DEF IsPageSet
<1>3. store.head = N /\ store.pages = [i \in 1 .. N |-> page(i)] /\ store = [head |-> store.head, pages |-> store.pages]
  BY DEF FreshFile
<1> HIDE DEF page, store
<1>4. /\ store.pages \in Seq(NodePage) /\ Len(store.pages) = N /\ PageNos(store) = 1 .. N
      /\ \A i \in 1 .. N : store.pages[i].word = i - 1
  <2>1. [i \in 1 .. N |-> page(i)] \in Seq(NodePage) /\ Len([i \in 1 .. N |-> page(i)]) = N
    BY <1>1, <1>2
  <2>2. QED
    BY <1>2, <1>3, <2>1 DEF PageNos
<1>5. store \in StoresOf(NodePage)
  <2>1. store.head \in 0 .. MaxPages - 1 /\ store.pages \in Seq(NodePage)
    BY <1>1, <1>3, <1>4
  <2> DEFINE head == store.head
             pages == store.pages
  <2>2. store = [head |-> head, pages |-> pages] /\ head \in 0 .. MaxPages - 1 /\ pages \in Seq(NodePage)
    BY <1>3, <2>1
  <2> HIDE DEF head, pages
  <2>3. QED
    BY <2>2 DEF StoresOf
<1>6. Unused(store) = 1 .. N
  BY <1>1, <1>4 DEF Unused
<1>7. /\ s \in Seq(PageNos(store)) /\ Len(s) = N /\ DOMAIN s = 1 .. N
      /\ \A i \in 1 .. N : s[i] = i
  <2>1. s \in Seq(1 .. N) /\ Len(s) = N
    BY <1>1
  <2>2. QED
    BY <1>4, <2>1
<1> HIDE DEF s
<1>8. IsFreeList(store, s)
  <2>1. s = <<>> => N = 0
    BY <1>7
  <2>2. s # <<>> => N \in 1 .. N
    BY <1>1, <1>7, EmptySeq
  <2>3. \A a \in 1 .. N : a # 1 => a - 1 \in 1 .. N
    BY <1>1
  <2>4. store.head = IF s = <<>> THEN 0 ELSE s[Len(s)]
    BY <1>3, <1>7, <2>1, <2>2
  <2>5. \A a \in 1 .. N : store.pages[s[a]].word = IF a = 1 THEN 0 ELSE s[a - 1]
    BY <1>4, <1>7, <2>3
  <2>6. QED
    BY <1>7, <2>4, <2>5 DEF IsFreeList
<1>9. Good(store)
  <2>1. Unused(store) = {s[a] : a \in DOMAIN s}
    BY <1>6, <1>7
  <2>2. QED
    BY <1>1, <1>4, <1>5, <1>7, <1>8, <2>1 DEF Good, Listed, FreePages
<1>10. QED
  BY <1>9 DEF store

(***************************************************************************)
(* The tree as a sorted map: the room the entries of a leaf take, what     *)
(* inserting, overwriting, removing and dividing them does to their order  *)
(* and to what is found among them, and from that the order of the tree    *)
(* and the map it stands for.                                              *)
(***************************************************************************)

(* Room. *)

LEMMA EntryRoom ==
  ASSUME NEW ents \in Seq(LeafEntry)
  PROVE  /\ Len(ents) \in Nat /\ DOMAIN ents = 1 .. Len(ents)
         /\ \A i \in 1 .. Len(ents) : /\ ents[i] \in LeafEntry /\ ents[i].k \in Nat \ {0}
                                      /\ ents[i].k \in Keys /\ ents[i].v \in Values
                                      /\ Size[ents[i].v] \in Nat \ {0}
<1>1. /\ Len(ents) \in Nat /\ DOMAIN ents = 1 .. Len(ents)
      /\ \A i \in 1 .. Len(ents) : ents[i] \in LeafEntry
  BY LenProperties, ElementOfSeq
<1>2. QED
  BY <1>1, KeysAssumption, SizeAssumption DEF LeafEntry

LEMMA FillType ==
  ASSUME NEW ents \in Seq(LeafEntry)
  PROVE  Fill(ents) \in Nat
<1>1. Len(ents) \in 0 .. Len(ents)
  BY EntryRoom
<1>2. QED
  BY <1>1, FillSteps

LEMMA FillConcat ==
  ASSUME NEW s \in Seq(LeafEntry), NEW t \in Seq(LeafEntry)
  PROVE  Fill(s \o t) = Fill(s) + Fill(t)
<1> DEFINE M == Len(s)
           N == Len(t)
           st == s \o t
<1>1. M \in Nat /\ N \in Nat
  BY EntryRoom
<1>2. /\ st \in Seq(LeafEntry) /\ Len(st) = M + N
      /\ \A i \in 1 .. M + N : st[i] = IF i <= M THEN s[i] ELSE t[i - M]
  BY ConcatProperties
<1> HIDE DEF st
<1>3. PICK a \in [0 .. M -> Nat] :
         a[0] = 0 /\ Fill(s) = a[M] /\ \A i \in 1 .. M : a[i] = a[i - 1] + Size[s[i].v]
  BY FillSteps
<1>4. PICK b \in [0 .. N -> Nat] :
         b[0] = 0 /\ Fill(t) = b[N] /\ \A i \in 1 .. N : b[i] = b[i - 1] + Size[t[i].v]
  BY FillSteps
<1> HIDE DEF M, N
<1>5. PICK c \in [0 .. M + N -> Nat] :
         c[0] = 0 /\ Fill(st) = c[M + N] /\ \A i \in 1 .. M + N : c[i] = c[i - 1] + Size[st[i].v]
  <2>1. PICK c \in [0 .. Len(st) -> Nat] :
           /\ c[0] = 0 /\ Fill(st) = c[Len(st)]
           /\ \A i \in 1 .. Len(st) : c[i] = c[i - 1] + Size[st[i].v]
    BY <1>2, FillSteps
  <2>2. QED
    BY <1>2, <2>1
<1>6. \A i \in 0 .. M : c[i] = a[i]
  <2> DEFINE T == {i \in 0 .. M : c[i] = a[i]}
  <2>1. 0 \in T
    BY <1>1, <1>3, <1>5
  <2>2. ASSUME NEW i \in 1 .. M, i - 1 \in T PROVE i \in T
    <3>1. i \in 1 .. M + N /\ i <= M /\ i \in 0 .. M /\ c[i - 1] = a[i - 1]
      BY <1>1, <2>2
    <3>2. c[i] = c[i - 1] + Size[st[i].v] /\ st[i] = s[i] /\ a[i] = a[i - 1] + Size[s[i].v]
      BY <1>2, <1>3, <1>5, <3>1
    <3>3. QED
      BY <3>1, <3>2
  <2> HIDE DEF T
  <2>3. \A i \in 0 .. M : i \in T
    BY <1>1, <2>1, <2>2, Upwards
  <2>4. QED
    BY <2>3 DEF T
<1>7. \A j \in 0 .. N : c[M + j] = a[M] + b[j]
  <2> DEFINE T == {j \in 0 .. N : c[M + j] = a[M] + b[j]}
  <2>1. 0 \in T
    BY <1>1, <1>3, <1>4, <1>6
  <2>2. ASSUME NEW j \in 1 .. N, j - 1 \in T PROVE j \in T
    <3>1. /\ M + j \in 1 .. M + N /\ ~(M + j <= M) /\ (M + j) - M = j /\ (M + j) - 1 = M + (j - 1)
          /\ j \in 0 .. N /\ c[M + (j - 1)] = a[M] + b[j - 1]
      BY <1>1, <2>2
    <3>2. st[M + j] = t[j]
      BY <1>2, <3>1
    <3>3. c[M + j] = c[M + (j - 1)] + Size[t[j].v]
      BY <1>5, <3>1, <3>2
    <3>4. b[j] = b[j - 1] + Size[t[j].v]
      BY <1>4
    <3>5. Size[t[j].v] \in Nat /\ a[M] \in Nat /\ b[j - 1] \in Nat
      <4>1. Size[t[j].v] \in Nat
        BY EntryRoom DEF N
      <4>2. M \in 0 .. M /\ j - 1 \in 0 .. N
        BY <1>1
      <4>3. QED
        BY <1>3, <1>4, <4>1, <4>2
    <3>6. QED
      BY <3>1, <3>3, <3>4, <3>5
  <2> HIDE DEF T
  <2>3. \A j \in 0 .. N : j \in T
    BY <1>1, <2>1, <2>2, Upwards
  <2>4. QED
    BY <2>3 DEF T
<1>8. c[M + N] = a[M] + b[N]
  BY <1>1, <1>7
<1>9. QED
  BY <1>3, <1>4, <1>5, <1>8 DEF st

LEMMA FillOne ==
  ASSUME NEW e \in LeafEntry
  PROVE  <<e>> \in Seq(LeafEntry) /\ Len(<<e>>) = 1 /\ <<e>>[1] = e /\ Fill(<<e>>) = Size[e.v]
<1> DEFINE one == <<e>>
<1>1. one \in Seq(LeafEntry) /\ Len(one) = 1 /\ one[1] = e
  OBVIOUS
<1> HIDE DEF one
<1>2. Fill(one) = Size[e.v]
  <2>1. PICK a \in [0 .. 1 -> Nat] :
           a[0] = 0 /\ Fill(one) = a[1] /\ \A i \in 1 .. 1 : a[i] = a[i - 1] + Size[one[i].v]
    BY <1>1, FillSteps
  <2>2. Size[e.v] \in Nat
    BY SizeAssumption DEF LeafEntry
  <2>3. a[1] = a[0] + Size[e.v]
    BY <1>1, <2>1
  <2>4. QED
    BY <2>1, <2>2, <2>3
<1>3. QED
  BY <1>1, <1>2 DEF one

\* A list cut before and after a place.
LEMMA Cut ==
  ASSUME NEW ents \in Seq(LeafEntry), NEW i \in 1 .. Len(ents) + 1
  PROVE  LET pre == SubSeq(ents, 1, i - 1)
             suf == SubSeq(ents, i, Len(ents))
         IN  /\ pre \in Seq(LeafEntry) /\ Len(pre) = i - 1
             /\ \A j \in 1 .. i - 1 : pre[j] = ents[j]
             /\ suf \in Seq(LeafEntry) /\ Len(suf) = Len(ents) - i + 1
             /\ \A j \in 1 .. Len(ents) - i + 1 : suf[j] = ents[i + j - 1]
             /\ ents = pre \o suf
<1> DEFINE N == Len(ents)
           pre == SubSeq(ents, 1, i - 1)
           suf == SubSeq(ents, i, N)
<1>1. N \in Nat /\ \A j \in 1 .. N : ents[j] \in LeafEntry
  BY EntryRoom
<1>2. /\ pre \in Seq(LeafEntry) /\ Len(pre) = i - 1 /\ \A j \in 1 .. i - 1 : pre[j] = ents[j]
  <2>1. i - 1 \in Int /\ \A j \in 1 .. i - 1 : ents[j] \in LeafEntry
    BY <1>1
  <2>2. /\ pre \in Seq(LeafEntry) /\ Len(pre) = IF 1 <= i - 1 THEN i - 1 - 1 + 1 ELSE 0
        /\ \A j \in 1 .. i - 1 - 1 + 1 : pre[j] = ents[1 + j - 1]
    BY <2>1, SubSeqProperties
  <2> HIDE DEF pre
  <2>3. QED
    BY <1>1, <2>2
<1>3. /\ suf \in Seq(LeafEntry) /\ Len(suf) = N - i + 1 /\ \A j \in 1 .. N - i + 1 : suf[j] = ents[i + j - 1]
  <2>1. i \in Int /\ N \in Int /\ \A j \in i .. N : ents[j] \in LeafEntry
    BY <1>1
  <2>2. /\ suf \in Seq(LeafEntry) /\ Len(suf) = IF i <= N THEN N - i + 1 ELSE 0
        /\ \A j \in 1 .. N - i + 1 : suf[j] = ents[i + j - 1]
    BY <2>1, SubSeqProperties
  <2> HIDE DEF suf, N
  <2>3. QED
    BY <1>1, <2>2 DEF N
<1>4. ents = pre \o suf
  <2>1. pre \o suf \in Seq(LeafEntry) /\ Len(pre \o suf) = Len(pre) + Len(suf)
        /\ \A j \in 1 .. Len(pre) + Len(suf) : (pre \o suf)[j] = IF j <= Len(pre) THEN pre[j] ELSE suf[j - Len(pre)]
    BY <1>2, <1>3, ConcatProperties
  <2> HIDE DEF pre, suf, N
  <2>2. Len(pre) + Len(suf) = N
    BY <1>1, <1>2, <1>3 DEF N
  <2> DEFINE both == pre \o suf
  <2>3. \A j \in 1 .. N : ents[j] = both[j]
    <3>1. TAKE j \in 1 .. N
    <3>2. CASE j <= i - 1
      BY <1>1, <1>2, <2>1, <2>2, <3>2
    <3>3. CASE ~(j <= i - 1)
      <4>1. j - (i - 1) \in 1 .. N - i + 1 /\ i + (j - (i - 1)) - 1 = j
        BY <1>1, <3>3 DEF N
      <4>2. suf[j - (i - 1)] = ents[j]
        BY <1>3, <4>1
      <4>3. QED
        BY <1>2, <2>1, <2>2, <3>3, <4>2
    <3>4. QED
      BY <3>2, <3>3
  <2>4. both \in Seq(LeafEntry) /\ Len(both) = N /\ Len(ents) = N
    BY <2>1, <2>2 DEF N
  <2> HIDE DEF both
  <2>5. ents = both
    BY <2>3, <2>4, SeqEqual
  <2>6. QED
    BY <2>5 DEF both
<1>5. QED
  BY <1>2, <1>3, <1>4

\* What InsertAt, RemoveAt and EXCEPT do to a list, place by place, and to the
\* room it takes.
LEMMA InsertedAt ==
  ASSUME NEW ents \in Seq(LeafEntry), NEW i \in 1 .. Len(ents) + 1, NEW e \in LeafEntry
  PROVE  LET new == InsertAt(ents, i, e)
         IN  /\ new \in Seq(LeafEntry) /\ Len(new) = Len(ents) + 1
             /\ \A j \in 1 .. Len(ents) + 1 :
                   new[j] = IF j < i THEN ents[j] ELSE IF j = i THEN e ELSE ents[j - 1]
             /\ Fill(new) = Fill(ents) + Size[e.v]
<1> DEFINE N == Len(ents)
           pre == SubSeq(ents, 1, i - 1)
           suf == SubSeq(ents, i, N)
           one == <<e>>
           new == InsertAt(ents, i, e)
           head == pre \o one
<1>1. N \in Nat /\ i \in Nat /\ i >= 1 /\ i <= N + 1
  BY EntryRoom
<1>2. /\ pre \in Seq(LeafEntry) /\ Len(pre) = i - 1 /\ \A j \in 1 .. i - 1 : pre[j] = ents[j]
      /\ suf \in Seq(LeafEntry) /\ Len(suf) = N - i + 1
      /\ \A j \in 1 .. N - i + 1 : suf[j] = ents[i + j - 1]
      /\ ents = pre \o suf
  BY Cut
<1>3. one \in Seq(LeafEntry) /\ Len(one) = 1 /\ one[1] = e /\ Fill(one) = Size[e.v]
  BY FillOne
<1>4. new = head \o suf
  BY DEF InsertAt
<1> HIDE DEF new, one, pre, suf, N
<1>5. /\ head \in Seq(LeafEntry) /\ Len(head) = i
      /\ \A j \in 1 .. i : head[j] = IF j <= i - 1 THEN pre[j] ELSE one[j - (i - 1)]
  <2>1. /\ head \in Seq(LeafEntry) /\ Len(head) = Len(pre) + Len(one)
        /\ \A j \in 1 .. Len(pre) + Len(one) : head[j] = IF j <= Len(pre) THEN pre[j] ELSE one[j - Len(pre)]
    BY <1>2, <1>3, ConcatProperties
  <2>2. Len(pre) + Len(one) = i
    BY <1>1, <1>2, <1>3
  <2> HIDE DEF head
  <2>3. QED
    BY <1>2, <2>1, <2>2
<1>6. Fill(head) = Fill(pre) + Size[e.v]
  BY <1>2, <1>3, FillConcat
<1> HIDE DEF head
<1>7. /\ new \in Seq(LeafEntry) /\ Len(new) = N + 1
      /\ \A j \in 1 .. N + 1 : new[j] = IF j <= i THEN head[j] ELSE suf[j - i]
  <2>1. /\ new \in Seq(LeafEntry) /\ Len(new) = Len(head) + Len(suf)
        /\ \A j \in 1 .. Len(head) + Len(suf) : new[j] = IF j <= Len(head) THEN head[j] ELSE suf[j - Len(head)]
    BY <1>2, <1>4, <1>5, ConcatProperties
  <2>2. Len(head) + Len(suf) = N + 1
    BY <1>1, <1>2, <1>5
  <2>3. QED
    BY <1>5, <2>1, <2>2
<1>8. Fill(new) = Fill(ents) + Size[e.v]
  <2>1. Fill(new) = Fill(head) + Fill(suf) /\ Fill(ents) = Fill(pre) + Fill(suf)
    BY <1>2, <1>4, <1>5, FillConcat
  <2>2. Fill(pre) \in Nat /\ Fill(suf) \in Nat /\ Size[e.v] \in Nat
    BY <1>2, FillType, SizeAssumption DEF LeafEntry
  <2>3. QED
    BY <1>6, <2>1, <2>2
<1>9. ASSUME NEW j \in 1 .. N + 1
      PROVE  new[j] = IF j < i THEN ents[j] ELSE IF j = i THEN e ELSE ents[j - 1]
  <2>1. CASE j < i
    BY <1>1, <1>2, <1>5, <1>7, <2>1
  <2>2. CASE j = i
    <3>1. j \in 1 .. i /\ j <= i /\ ~(j <= i - 1) /\ j - (i - 1) = 1
      BY <1>1, <2>2
    <3>2. QED
      BY <1>3, <1>5, <1>7, <2>2, <3>1
  <2>3. CASE i < j
    <3>1. j - i \in 1 .. N - i + 1 /\ i + (j - i) - 1 = j - 1 /\ ~(j <= i) /\ ~(j < i) /\ j # i
      BY <1>1, <2>3
    <3>2. new[j] = suf[j - i] /\ suf[j - i] = ents[i + (j - i) - 1]
      BY <1>2, <1>7, <3>1
    <3>3. QED
      BY <3>1, <3>2
  <2>4. QED
    BY <1>1, <2>1, <2>2, <2>3
<1>10. QED
  BY <1>7, <1>8, <1>9 DEF new, N

LEMMA RemovedAt ==
  ASSUME NEW ents \in Seq(LeafEntry), NEW i \in 1 .. Len(ents)
  PROVE  LET new == RemoveAt(ents, i)
         IN  /\ new \in Seq(LeafEntry) /\ Len(new) = Len(ents) - 1
             /\ \A j \in 1 .. Len(ents) - 1 : new[j] = IF j < i THEN ents[j] ELSE ents[j + 1]
             /\ Fill(new) + Size[ents[i].v] = Fill(ents)
<1> DEFINE N == Len(ents)
           pre == SubSeq(ents, 1, i - 1)
           after == SubSeq(ents, i + 1, N)
           new == RemoveAt(ents, i)
           back == InsertAt(new, i, ents[i])
<1>1. N \in Nat /\ i \in Nat /\ i >= 1 /\ i <= N /\ i + 1 \in 1 .. N + 1 /\ i \in 1 .. N + 1
      /\ ents[i] \in LeafEntry
  BY EntryRoom
<1>2. /\ pre \in Seq(LeafEntry) /\ Len(pre) = i - 1 /\ \A j \in 1 .. i - 1 : pre[j] = ents[j]
  BY <1>1, Cut
<1>3. /\ after \in Seq(LeafEntry) /\ Len(after) = N - i
      /\ \A j \in 1 .. N - i : after[j] = ents[i + j]
  <2>1. /\ after \in Seq(LeafEntry) /\ Len(after) = N - (i + 1) + 1
        /\ \A j \in 1 .. N - (i + 1) + 1 : after[j] = ents[(i + 1) + j - 1]
    BY <1>1, Cut
  <2> HIDE DEF after, N
  <2>2. N - (i + 1) + 1 = N - i
    BY <1>1
  <2>3. \A j \in 1 .. N - i : (i + 1) + j - 1 = i + j
    BY <1>1
  <2>4. QED
    BY <2>1, <2>2, <2>3
<1>4. new = pre \o after
  BY DEF RemoveAt
<1> HIDE DEF new, pre, after, N
<1>5. /\ new \in Seq(LeafEntry) /\ Len(new) = N - 1
      /\ \A j \in 1 .. N - 1 : new[j] = IF j <= i - 1 THEN pre[j] ELSE after[j - (i - 1)]
  <2>1. /\ new \in Seq(LeafEntry) /\ Len(new) = Len(pre) + Len(after)
        /\ \A j \in 1 .. Len(pre) + Len(after) : new[j] = IF j <= Len(pre) THEN pre[j] ELSE after[j - Len(pre)]
    BY <1>2, <1>3, <1>4, ConcatProperties
  <2>2. Len(pre) + Len(after) = N - 1
    BY <1>1, <1>2, <1>3
  <2>3. QED
    BY <1>2, <2>1, <2>2
<1>6. ASSUME NEW j \in 1 .. N - 1
      PROVE  new[j] = IF j < i THEN ents[j] ELSE ents[j + 1]
  <2>1. CASE j < i
    BY <1>1, <1>2, <1>5, <2>1
  <2>2. CASE ~(j < i)
    <3>1. j - (i - 1) \in 1 .. N - i /\ i + (j - (i - 1)) = j + 1 /\ ~(j <= i - 1)
      BY <1>1, <2>2
    <3>2. QED
      BY <1>3, <1>5, <2>2, <3>1
  <2>3. QED
    BY <2>1, <2>2
<1>7. Fill(new) + Size[ents[i].v] = Fill(ents)
  <2>1. i \in 1 .. Len(new) + 1
    BY <1>1, <1>5
  <2>2. /\ back \in Seq(LeafEntry) /\ Len(back) = Len(new) + 1
        /\ \A j \in 1 .. Len(new) + 1 :
              back[j] = IF j < i THEN new[j] ELSE IF j = i THEN ents[i] ELSE new[j - 1]
        /\ Fill(back) = Fill(new) + Size[ents[i].v]
    BY <1>1, <1>5, <2>1, InsertedAt
  <2>3. Len(new) + 1 = N
    BY <1>1, <1>5
  <2> HIDE DEF back
  <2>4. \A j \in 1 .. N : ents[j] = back[j]
    <3>1. TAKE j \in 1 .. N
    <3>2. CASE j < i
      BY <1>1, <1>6, <2>2, <2>3, <3>2
    <3>3. CASE j = i
      BY <1>1, <2>2, <2>3, <3>3
    <3>4. CASE i < j
      <4>1. j - 1 \in 1 .. N - 1 /\ ~(j - 1 < i) /\ (j - 1) + 1 = j /\ ~(j < i) /\ j # i
        BY <1>1, <3>4
      <4>2. new[j - 1] = ents[j]
        BY <1>6, <4>1
      <4>3. QED
        BY <2>2, <2>3, <4>1, <4>2
    <3>5. QED
      BY <1>1, <3>2, <3>3, <3>4
  <2>5. ents = back
    BY <2>2, <2>3, <2>4, SeqEqual DEF N
  <2>6. QED
    BY <2>2, <2>5
<1>8. QED
  BY <1>5, <1>6, <1>7 DEF new, N

LEMMA OverwrittenAt ==
  ASSUME NEW ents \in Seq(LeafEntry), NEW i \in 1 .. Len(ents), NEW e \in LeafEntry
  PROVE  LET new == [ents EXCEPT ![i] = e]
         IN  /\ new \in Seq(LeafEntry) /\ Len(new) = Len(ents)
             /\ \A j \in 1 .. Len(ents) : new[j] = IF j = i THEN e ELSE ents[j]
             /\ Fill(new) + Size[ents[i].v] = Fill(ents) + Size[e.v]
<1> DEFINE N == Len(ents)
           new == [ents EXCEPT ![i] = e]
           less == RemoveAt(ents, i)
           back == InsertAt(less, i, e)
<1>1. N \in Nat /\ i \in Nat /\ i >= 1 /\ i <= N /\ ents[i] \in LeafEntry
  BY EntryRoom
<1>2. /\ new \in Seq(LeafEntry) /\ Len(new) = N
      /\ \A j \in 1 .. N : new[j] = IF j = i THEN e ELSE ents[j]
  BY ExceptSeq
<1>3. /\ less \in Seq(LeafEntry) /\ Len(less) = N - 1
      /\ \A j \in 1 .. N - 1 : less[j] = IF j < i THEN ents[j] ELSE ents[j + 1]
      /\ Fill(less) + Size[ents[i].v] = Fill(ents)
  BY RemovedAt
<1> HIDE DEF new, less, N
<1>4. i \in 1 .. Len(less) + 1 /\ Len(less) + 1 = N
  BY <1>1, <1>3
<1>5. /\ back \in Seq(LeafEntry) /\ Len(back) = Len(less) + 1
      /\ \A j \in 1 .. Len(less) + 1 :
            back[j] = IF j < i THEN less[j] ELSE IF j = i THEN e ELSE less[j - 1]
      /\ Fill(back) = Fill(less) + Size[e.v]
  BY <1>3, <1>4, InsertedAt
<1> HIDE DEF back
<1>6. \A j \in 1 .. N : new[j] = back[j]
  <2>1. TAKE j \in 1 .. N
  <2>2. CASE j < i
    BY <1>1, <1>2, <1>3, <1>4, <1>5, <2>2
  <2>3. CASE j = i
    BY <1>1, <1>2, <1>4, <1>5, <2>3
  <2>4. CASE i < j
    <3>1. j - 1 \in 1 .. N - 1 /\ ~(j - 1 < i) /\ (j - 1) + 1 = j /\ ~(j < i) /\ j # i
      BY <1>1, <2>4
    <3>2. less[j - 1] = ents[j]
      BY <1>3, <3>1
    <3>3. QED
      BY <1>2, <1>4, <1>5, <3>1, <3>2
  <2>5. QED
    BY <1>1, <2>2, <2>3, <2>4
<1>7. new = back
  BY <1>2, <1>4, <1>5, <1>6, SeqEqual
<1>8. Fill(new) + Size[ents[i].v] = Fill(ents) + Size[e.v]
  <2>1. /\ Fill(less) \in Nat /\ Size[ents[i].v] \in Nat /\ Size[e.v] \in Nat
    BY <1>1, <1>3, FillType, SizeAssumption DEF LeafEntry
  <2>2. QED
    BY <1>3, <1>5, <1>7, <2>1
<1>9. QED
  BY <1>2, <1>8 DEF new, N

----------------------------------------------------------------------------
(* Order. *)

LEMMA SortedFacts ==
  ASSUME NEW ents \in Seq(LeafEntry)
  PROVE  /\ SortedByKey(ents) <=> \A i, j \in 1 .. Len(ents) : i < j => ents[i].k < ents[j].k
         /\ ToSet(ents) = {ents[i] : i \in 1 .. Len(ents)}
         /\ ToSet(ents) \subseteq LeafEntry
         /\ \A k : Holds(ents, k) <=> \E i \in 1 .. Len(ents) : ents[i].k = k
<1>1. DOMAIN ents = 1 .. Len(ents) /\ \A i \in 1 .. Len(ents) : ents[i] \in LeafEntry
  BY EntryRoom
<1>2. QED
  BY <1>1 DEF SortedByKey, ToSet, Holds

\* The slot of a key is the first whose key is not smaller.
LEMMA SlotFacts ==
  ASSUME NEW ents \in Seq(LeafEntry), SortedByKey(ents), NEW k \in Nat
  PROVE  LET p == SlotOf(ents, k)
         IN  /\ p \in 1 .. Len(ents) + 1
             /\ \A i \in 1 .. Len(ents) : ents[i].k < k <=> i < p
             /\ Holds(ents, k) => p \in 1 .. Len(ents) /\ ents[p].k = k
<1> DEFINE N == Len(ents)
           below == {i \in DOMAIN ents : ents[i].k < k}
           above == {i \in 1 .. N : ~(ents[i].k < k)}
           p == SlotOf(ents, k)
<1>1. N \in Nat /\ DOMAIN ents = 1 .. N /\ \A i \in 1 .. N : ents[i].k \in Nat
  BY EntryRoom
<1>2. \A i, j \in 1 .. N : i < j => ents[i].k < ents[j].k
  BY SortedFacts
<1>3. \A m \in Nat : IsFiniteSet(1 .. m) /\ Cardinality(1 .. m) = m
  <2>1. TAKE m \in Nat
  <2>2. IsFiniteSet(1 .. m) /\ Cardinality(1 .. m) = IF 1 > m THEN 0 ELSE m - 1 + 1
    BY FS_Interval
  <2>3. QED
    BY <2>2
<1>4. p = 1 + Cardinality(below)
  BY DEF SlotOf
<1> HIDE DEF p
<1>5. p \in 1 .. N + 1 /\ \A i \in 1 .. N : ents[i].k < k <=> i < p
  <2>1. CASE above = {}
    <3>1. below = 1 .. N
      BY <1>1, <2>1
    <3>2. p = 1 + N
      BY <1>1, <1>3, <1>4, <3>1
    <3>3. QED
      BY <1>1, <2>1, <3>2
  <2>2. CASE above # {}
    <3>1. above \subseteq Nat
      BY <1>1
    <3>2. PICK m \in above : \A j \in above : m <= j
      <4> HIDE DEF above
      <4>1. QED
        BY <2>2, <3>1, LeastNat
    <3>3. m \in 1 .. N /\ m - 1 \in Nat /\ \A i \in 1 .. N : ents[i].k < k <=> i < m
      <4>1. m \in 1 .. N /\ ~(ents[m].k < k)
        BY <3>2
      <4>2. ASSUME NEW i \in 1 .. N, i < m PROVE ents[i].k < k
        <5>1. ~(m <= i)
          BY <1>1, <4>1, <4>2
        <5>2. QED
          BY <3>2, <5>1
      <4>3. ASSUME NEW i \in 1 .. N, ents[i].k < k PROVE i < m
        <5>1. i # m
          BY <4>1, <4>3
        <5>2. ~(m < i)
          <6>1. m < i => ents[m].k < ents[i].k
            BY <1>2, <4>1
          <6>2. ents[m].k \in Nat /\ ents[i].k \in Nat
            BY <1>1, <4>1
          <6>3. QED
            BY <4>1, <4>3, <6>1, <6>2
        <5>3. QED
          BY <1>1, <4>1, <5>1, <5>2
      <4>4. QED
        BY <1>1, <4>1, <4>2, <4>3
    <3>4. below = 1 .. m - 1
      BY <1>1, <3>3
    <3>5. p = m
      <4>1. Cardinality(1 .. m - 1) = m - 1
        BY <1>3, <3>3
      <4>2. Cardinality(below) = m - 1
        BY <3>4, <4>1
      <4>3. m \in Nat
        BY <1>1, <3>3
      <4> HIDE DEF below
      <4>4. QED
        BY <1>4, <4>2, <4>3
    <3>6. QED
      BY <1>1, <3>3, <3>5
  <2>3. QED
    BY <2>1, <2>2
<1>6. Holds(ents, k) => p \in 1 .. N /\ ents[p].k = k
  <2>1. SUFFICES ASSUME Holds(ents, k) PROVE p \in 1 .. N /\ ents[p].k = k
    OBVIOUS
  <2>2. PICK i \in 1 .. N : ents[i].k = k
    BY <2>1, SortedFacts
  <2>3. ~(i < p)
    BY <1>5, <2>2
  <2>4. i = p
    <3>1. p \in 1 .. N
      BY <1>1, <1>5, <2>3
    <3>2. ~(ents[p].k < k)
      BY <1>5, <3>1
    <3>3. p < i => ents[p].k < ents[i].k
      BY <1>2, <3>1
    <3>4. QED
      BY <1>1, <2>2, <2>3, <3>1, <3>2, <3>3
  <2>5. QED
    BY <2>2, <2>4
<1>7. QED
  BY <1>5, <1>6 DEF N, p

LEMMA InsertSorted ==
  ASSUME NEW ents \in Seq(LeafEntry), SortedByKey(ents), NEW e \in LeafEntry, ~Holds(ents, e.k)
  PROVE  LET new == InsertAt(ents, SlotOf(ents, e.k), e)
         IN  /\ new \in Seq(LeafEntry) /\ Len(new) = Len(ents) + 1 /\ SortedByKey(new)
             /\ ToSet(new) = ToSet(ents) \cup {e} /\ Fill(new) = Fill(ents) + Size[e.v]
<1> DEFINE N == Len(ents)
           p == SlotOf(ents, e.k)
           new == InsertAt(ents, p, e)
<1>1. /\ N \in Nat /\ \A i \in 1 .. N : ents[i].k \in Nat
      /\ e.k \in Nat
  BY EntryRoom, KeysAssumption DEF LeafEntry
<1>2. /\ p \in 1 .. N + 1 /\ \A i \in 1 .. N : ents[i].k < e.k <=> i < p
  BY <1>1, SlotFacts
<1>3. /\ \A i, j \in 1 .. N : i < j => ents[i].k < ents[j].k
      /\ \A i \in 1 .. N : ents[i].k # e.k
      /\ ToSet(ents) = {ents[i] : i \in 1 .. N}
  BY SortedFacts
<1> HIDE DEF p
<1>4. /\ new \in Seq(LeafEntry) /\ Len(new) = N + 1
      /\ \A j \in 1 .. N + 1 : new[j] = IF j < p THEN ents[j] ELSE IF j = p THEN e ELSE ents[j - 1]
      /\ Fill(new) = Fill(ents) + Size[e.v]
  BY <1>2, InsertedAt
<1> HIDE DEF new, N
<1>5. \A i \in 1 .. N : p <= i => e.k < ents[i].k
  BY <1>1, <1>2, <1>3
<1>6. ASSUME NEW i \in 1 .. N + 1, NEW j \in 1 .. N + 1, i < j
      PROVE  new[i].k < new[j].k
  <2>1. CASE j < p
    <3>1. i \in 1 .. N /\ j \in 1 .. N /\ i < p
      BY <1>1, <1>2, <1>6, <2>1
    <3>2. QED
      BY <1>3, <1>4, <1>6, <2>1, <3>1
  <2>2. CASE j = p
    <3>1. i \in 1 .. N /\ i < p
      BY <1>1, <1>2, <1>6, <2>2
    <3>2. QED
      BY <1>2, <1>4, <2>2, <3>1
  <2>3. CASE p < j
    <3>1. j - 1 \in 1 .. N /\ p <= j - 1 /\ ~(j < p) /\ j # p
      BY <1>1, <1>2, <2>3
    <3>2. new[j] = ents[j - 1]
      BY <1>4, <3>1
    <3>3. CASE i < p
      <4>1. i \in 1 .. N /\ i < j - 1
        BY <1>1, <1>2, <3>1, <3>3
      <4>2. new[i] = ents[i]
        BY <1>4, <3>3
      <4>3. QED
        BY <1>3, <3>1, <3>2, <4>1, <4>2
    <3>4. CASE i = p
      <4>1. new[i] = e
        BY <1>1, <1>2, <1>4, <3>4
      <4>2. QED
        BY <1>5, <3>1, <3>2, <4>1
    <3>5. CASE p < i
      <4>1. i - 1 \in 1 .. N /\ i - 1 < j - 1 /\ ~(i < p) /\ i # p
        BY <1>1, <1>2, <1>6, <3>5
      <4>2. new[i] = ents[i - 1]
        BY <1>4, <4>1
      <4>3. QED
        BY <1>3, <3>1, <3>2, <4>1, <4>2
    <3>6. QED
      BY <1>2, <3>3, <3>4, <3>5
  <2>4. QED
    BY <1>2, <2>1, <2>2, <2>3
<1>7. ToSet(new) = {new[i] : i \in 1 .. N + 1} /\ SortedByKey(new)
  BY <1>4, <1>6, SortedFacts
<1>8. \A j \in 1 .. N + 1 : new[j] = e \/ \E i \in 1 .. N : new[j] = ents[i]
  <2>1. TAKE j \in 1 .. N + 1
  <2>2. j < p => j \in 1 .. N
    BY <1>1, <1>2
  <2>3. ~(j < p) /\ j # p => j - 1 \in 1 .. N
    BY <1>1, <1>2
  <2>4. QED
    BY <1>4, <2>2, <2>3
<1>9. \A i \in 1 .. N : \E j \in 1 .. N + 1 : new[j] = ents[i]
  <2>1. TAKE i \in 1 .. N
  <2>2. CASE i < p
    <3>1. i \in 1 .. N + 1
      BY <1>1
    <3>2. QED
      BY <1>4, <2>2, <3>1
  <2>3. CASE ~(i < p)
    <3>1. i + 1 \in 1 .. N + 1 /\ ~(i + 1 < p) /\ i + 1 # p /\ (i + 1) - 1 = i
      BY <1>1, <1>2, <2>3
    <3>2. new[i + 1] = ents[i]
      BY <1>4, <3>1
    <3>3. QED
      BY <3>1, <3>2
  <2>4. QED
    BY <2>2, <2>3
<1>10. \E j \in 1 .. N + 1 : new[j] = e
  <2>1. ~(p < p)
    BY <1>1, <1>2
  <2>2. new[p] = e
    BY <1>2, <1>4, <2>1
  <2>3. QED
    BY <1>2, <2>2
<1>11. ToSet(new) = ToSet(ents) \cup {e}
  BY <1>3, <1>7, <1>8, <1>9, <1>10
<1>12. QED
  BY <1>4, <1>7, <1>11 DEF new, N, p

LEMMA OverwriteSorted ==
  ASSUME NEW ents \in Seq(LeafEntry), SortedByKey(ents), NEW e \in LeafEntry, Holds(ents, e.k)
  PROVE  LET p   == SlotOf(ents, e.k)
             new == [ents EXCEPT ![p] = e]
         IN  /\ new \in Seq(LeafEntry) /\ SortedByKey(new)
             /\ p \in 1 .. Len(ents) /\ ents[p].k = e.k
             /\ ToSet(new) = (ToSet(ents) \ {ents[p]}) \cup {e}
             /\ Fill(new) + Size[ents[p].v] = Fill(ents) + Size[e.v]
<1> DEFINE N == Len(ents)
           p == SlotOf(ents, e.k)
           new == [ents EXCEPT ![p] = e]
<1>1. /\ N \in Nat /\ \A i \in 1 .. N : ents[i].k \in Nat
      /\ e.k \in Nat
  BY EntryRoom, KeysAssumption DEF LeafEntry
<1>2. p \in 1 .. N /\ ents[p].k = e.k
  BY <1>1, SlotFacts
<1>3. /\ \A i, j \in 1 .. N : i < j => ents[i].k < ents[j].k
      /\ ToSet(ents) = {ents[i] : i \in 1 .. N}
  BY SortedFacts
<1> HIDE DEF p
<1>4. /\ new \in Seq(LeafEntry) /\ Len(new) = N
      /\ \A j \in 1 .. N : new[j] = IF j = p THEN e ELSE ents[j]
      /\ Fill(new) + Size[ents[p].v] = Fill(ents) + Size[e.v]
  BY <1>2, OverwrittenAt
<1> HIDE DEF new, N
<1>5. \A j \in 1 .. N : new[j].k = ents[j].k
  BY <1>2, <1>4
<1>6. SortedByKey(new) /\ ToSet(new) = {new[i] : i \in 1 .. N}
  BY <1>3, <1>4, <1>5, SortedFacts
<1>7. \A i \in 1 .. N : i # p => ents[i] # ents[p]
  <2>1. TAKE i \in 1 .. N
  <2>2. i < p \/ p < i \/ i = p
    BY <1>1, <1>2
  <2>3. i # p => ents[i].k # ents[p].k
    BY <1>1, <1>2, <1>3, <2>2
  <2>4. QED
    BY <2>3
<1>8. ToSet(new) = (ToSet(ents) \ {ents[p]}) \cup {e}
  BY <1>2, <1>3, <1>4, <1>6, <1>7
<1>9. QED
  BY <1>2, <1>4, <1>6, <1>8 DEF new, N, p

LEMMA RemoveSorted ==
  ASSUME NEW ents \in Seq(LeafEntry), SortedByKey(ents), NEW k \in Nat, Holds(ents, k)
  PROVE  LET p   == SlotOf(ents, k)
             new == RemoveAt(ents, p)
         IN  /\ new \in Seq(LeafEntry) /\ SortedByKey(new)
             /\ p \in 1 .. Len(ents) /\ ents[p].k = k
             /\ ToSet(new) = ToSet(ents) \ {ents[p]} /\ Fill(new) <= Fill(ents)
<1> DEFINE N == Len(ents)
           p == SlotOf(ents, k)
           new == RemoveAt(ents, p)
<1>1. /\ N \in Nat /\ \A i \in 1 .. N : ents[i].k \in Nat /\ Size[ents[i].v] \in Nat
  BY EntryRoom
<1>2. p \in 1 .. N /\ ents[p].k = k
  BY <1>1, SlotFacts
<1>3. /\ \A i, j \in 1 .. N : i < j => ents[i].k < ents[j].k
      /\ ToSet(ents) = {ents[i] : i \in 1 .. N}
  BY SortedFacts
<1> HIDE DEF p
<1>4. /\ new \in Seq(LeafEntry) /\ Len(new) = N - 1
      /\ \A j \in 1 .. N - 1 : new[j] = IF j < p THEN ents[j] ELSE ents[j + 1]
      /\ Fill(new) + Size[ents[p].v] = Fill(ents)
  BY <1>2, RemovedAt
<1> HIDE DEF new, N
<1>5. ASSUME NEW i \in 1 .. N - 1, NEW j \in 1 .. N - 1, i < j
      PROVE  new[i].k < new[j].k
  <2>1. i \in 1 .. N /\ j \in 1 .. N /\ i + 1 \in 1 .. N /\ j + 1 \in 1 .. N
        /\ i < j /\ i < j + 1 /\ i + 1 < j + 1 /\ (j < p => i < p)
    BY <1>1, <1>2, <1>5
  <2>2. QED
    BY <1>3, <1>4, <2>1
<1>6. SortedByKey(new) /\ ToSet(new) = {new[i] : i \in 1 .. N - 1}
  BY <1>4, <1>5, SortedFacts
<1>7. \A i \in 1 .. N : i # p => ents[i] # ents[p]
  <2>1. TAKE i \in 1 .. N
  <2>2. i < p \/ p < i \/ i = p
    BY <1>1, <1>2
  <2>3. i # p => ents[i].k # ents[p].k
    BY <1>1, <1>2, <1>3, <2>2
  <2>4. QED
    BY <2>3
<1>8. \A j \in 1 .. N - 1 : \E i \in 1 .. N : i # p /\ new[j] = ents[i]
  <2>1. TAKE j \in 1 .. N - 1
  <2>2. j \in 1 .. N /\ j + 1 \in 1 .. N /\ (j < p => j # p) /\ (~(j < p) => j + 1 # p)
    BY <1>1, <1>2
  <2>3. QED
    BY <1>4, <2>2
<1>9. \A i \in 1 .. N : i # p => \E j \in 1 .. N - 1 : new[j] = ents[i]
  <2>1. TAKE i \in 1 .. N
  <2>2. CASE i < p
    <3>1. i \in 1 .. N - 1
      BY <1>1, <1>2, <2>2
    <3>2. QED
      BY <1>4, <2>2, <3>1
  <2>3. CASE p < i
    <3>1. i - 1 \in 1 .. N - 1 /\ ~(i - 1 < p) /\ (i - 1) + 1 = i
      BY <1>1, <1>2, <2>3
    <3>2. new[i - 1] = ents[i]
      BY <1>4, <3>1
    <3>3. QED
      BY <3>1, <3>2
  <2>4. QED
    BY <1>1, <1>2, <2>2, <2>3
<1>10. ToSet(new) = ToSet(ents) \ {ents[p]}
  BY <1>2, <1>3, <1>6, <1>7, <1>8, <1>9
<1>11. Fill(new) <= Fill(ents)
  BY <1>1, <1>2, <1>4, FillType
<1>12. QED
  BY <1>2, <1>4, <1>6, <1>10, <1>11 DEF new, N, p

LEMMA Appended ==
  ASSUME NEW s \in Seq(LeafEntry), NEW e \in LeafEntry
  PROVE  LET new == Append(s, e)
         IN  /\ new \in Seq(LeafEntry) /\ Len(new) = Len(s) + 1
             /\ \A i \in 1 .. Len(s) : new[i] = s[i]
             /\ new[Len(s) + 1] = e
             /\ ToSet(new) = ToSet(s) \cup {e}
             /\ Fill(new) = Fill(s) + Size[e.v]
             /\ SortedByKey(s) /\ (\A f \in ToSet(s) : f.k < e.k) => SortedByKey(new)
<1> DEFINE N == Len(s)
           new == Append(s, e)
           one == <<e>>
<1>1. N \in Nat
  BY EntryRoom
<1>2. /\ new \in Seq(LeafEntry) /\ Len(new) = N + 1 /\ new[N + 1] = e
      /\ \A i \in 1 .. N : new[i] = s[i]
  BY AppendProperties
<1>3. new = s \o one
  OBVIOUS
<1>4. one \in Seq(LeafEntry) /\ Fill(one) = Size[e.v]
  BY FillOne
<1> HIDE DEF new, one, N
<1>5. Fill(new) = Fill(s) + Size[e.v]
  BY <1>3, <1>4, FillConcat
<1>6. /\ ToSet(s) = {s[i] : i \in 1 .. N} /\ ToSet(new) = {new[i] : i \in 1 .. N + 1}
      /\ SortedByKey(s) => \A i, j \in 1 .. N : i < j => s[i].k < s[j].k
      /\ SortedByKey(new) <=> \A i, j \in 1 .. N + 1 : i < j => new[i].k < new[j].k
  BY <1>2, SortedFacts DEF N
<1>7. \A i \in 1 .. N + 1 : i \in 1 .. N \/ i = N + 1
  BY <1>1
<1>8. N + 1 \in 1 .. N + 1 /\ \A i \in 1 .. N : i \in 1 .. N + 1
  BY <1>1
<1>9. ToSet(new) = ToSet(s) \cup {e}
  BY <1>2, <1>6, <1>7, <1>8
<1>10. ASSUME SortedByKey(s), \A f \in ToSet(s) : f.k < e.k
       PROVE  SortedByKey(new)
  <2>1. ASSUME NEW i \in 1 .. N + 1, NEW j \in 1 .. N + 1, i < j
        PROVE  new[i].k < new[j].k
    <3>1. i \in 1 .. N
      BY <1>1, <2>1
    <3>2. CASE j \in 1 .. N
      BY <1>2, <1>6, <1>10, <2>1, <3>1, <3>2
    <3>3. CASE j = N + 1
      <4>1. s[i] \in ToSet(s) /\ new[i] = s[i] /\ new[j] = e
        BY <1>2, <1>6, <3>1, <3>3
      <4>2. QED
        BY <1>10, <4>1
    <3>4. QED
      BY <1>7, <3>2, <3>3
  <2>2. QED
    BY <1>6, <2>1
<1>11. QED
  BY <1>2, <1>5, <1>9, <1>10 DEF new, N

\* What node_insert_leaf leaves of a sorted list fits and is sorted.
LEMMA RebuildSorted ==
  ASSUME NEW list \in Seq(LeafEntry), SortedByKey(list)
  PROVE  /\ Rebuild(list) \in Seq(LeafEntry) /\ SortedByKey(Rebuild(list))
         /\ ToSet(Rebuild(list)) \subseteq ToSet(list) /\ Fill(Rebuild(list)) <= LeafCap
<1> DEFINE N == Len(list)
<1>1. /\ N \in Nat /\ LeafCap \in Nat
      /\ \A i \in 1 .. N : list[i] \in LeafEntry /\ list[i].k \in Nat /\ Size[list[i].v] \in Nat
  BY EntryRoom, NodeAssumption
<1>2. PICK kept \in [0 .. N -> Seq(LeafEntry)] :
         /\ kept[0] = <<>> /\ Rebuild(list) = kept[N]
         /\ \A i \in 1 .. N :
               kept[i] = IF Fill(kept[i - 1]) + Size[list[i].v] <= LeafCap
                         THEN Append(kept[i - 1], list[i]) ELSE kept[i - 1]
  BY RebuildSteps
<1>3. /\ ToSet(list) = {list[i] : i \in 1 .. N}
      /\ \A i, j \in 1 .. N : i < j => list[i].k < list[j].k
  BY SortedFacts
<1> HIDE DEF N
<1> DEFINE Fine(n) == /\ SortedByKey(kept[n]) /\ Fill(kept[n]) <= LeafCap
                      /\ \A f \in ToSet(kept[n]) : \E i \in 1 .. n : f = list[i]
           T == {n \in 0 .. N : Fine(n)}
<1>4. 0 \in T
  <2>1. SortedByKey(<<>>) /\ ToSet(<<>>) = {}
    BY DEF SortedByKey, ToSet
  <2>2. Fill(<<>>) <= LeafCap
    BY <1>1, FillEmpty
  <2>3. QED
    BY <1>1, <1>2, <2>1, <2>2
<1>5. ASSUME NEW n \in 1 .. N, n - 1 \in T
      PROVE  n \in T
  <2> DEFINE before == kept[n - 1]
             e == list[n]
  <2>1. /\ n - 1 \in 0 .. N /\ n \in 0 .. N /\ before \in Seq(LeafEntry) /\ e \in LeafEntry
        /\ Size[e.v] \in Nat /\ Fine(n - 1)
        /\ kept[n] = IF Fill(before) + Size[e.v] <= LeafCap THEN Append(before, e) ELSE before
    BY <1>1, <1>2, <1>5
  <2>2. \A i \in 1 .. n - 1 : i \in 1 .. N /\ i \in 1 .. n /\ i < n
    BY <1>1
  <2>3. \A f \in ToSet(before) : f.k < e.k /\ \E i \in 1 .. n : f = list[i]
    BY <1>3, <2>1, <2>2
  <2>4. n \in 1 .. n
    BY <1>1
  <2>5. CASE Fill(before) + Size[e.v] <= LeafCap
    <3> HIDE DEF before, e, Fine
    <3>1. kept[n] = Append(before, e)
      BY <2>1, <2>5
    <3>2. SortedByKey(before)
      BY <2>1 DEF Fine, before
    <3>3. /\ ToSet(Append(before, e)) = ToSet(before) \cup {e}
          /\ Fill(Append(before, e)) = Fill(before) + Size[e.v]
          /\ SortedByKey(Append(before, e))
      BY <2>1, <2>3, <3>2, Appended
    <3>4. Fine(n)
      BY <2>3, <2>4, <2>5, <3>1, <3>3 DEF Fine, e
    <3>5. QED
      BY <2>1, <3>4
  <2>6. CASE ~(Fill(before) + Size[e.v] <= LeafCap)
    <3>1. kept[n] = before
      BY <2>1, <2>6
    <3>2. QED
      BY <2>1, <2>3, <3>1
  <2>7. QED
    BY <2>5, <2>6
<1> HIDE DEF T
<1>6. \A n \in 0 .. N : n \in T
  BY <1>1, <1>4, <1>5, Upwards
<1>7. Fine(N) /\ kept[N] \in Seq(LeafEntry)
  BY <1>1, <1>2, <1>6 DEF T
<1>8. QED
  BY <1>2, <1>3, <1>7

\* The start of a list.
LEMMA Started ==
  ASSUME NEW list \in Seq(LeafEntry), NEW n \in 0 .. Len(list)
  PROVE  /\ SubSeq(list, 1, n) \in Seq(LeafEntry) /\ Len(SubSeq(list, 1, n)) = n
         /\ \A i \in 1 .. n : SubSeq(list, 1, n)[i] = list[i]
         /\ Fill(SubSeq(list, 1, n)) <= Fill(list)
<1> DEFINE m == n + 1
           pre == SubSeq(list, 1, m - 1)
           suf == SubSeq(list, m, Len(list))
<1>1. Len(list) \in Nat /\ m \in 1 .. Len(list) + 1 /\ m - 1 = n
  BY EntryRoom
<1> HIDE DEF m
<1>2. /\ pre \in Seq(LeafEntry) /\ Len(pre) = m - 1 /\ \A i \in 1 .. m - 1 : pre[i] = list[i]
      /\ suf \in Seq(LeafEntry) /\ list = pre \o suf
  BY <1>1, Cut
<1> HIDE DEF pre, suf
<1>3. Fill(pre \o suf) = Fill(pre) + Fill(suf) /\ Fill(pre) \in Nat /\ Fill(suf) \in Nat
  BY <1>2, FillConcat, FillType
<1>4. Fill(pre) <= Fill(list)
  BY <1>2, <1>3
<1>5. QED
  BY <1>1, <1>2, <1>4 DEF pre

\* A list that fits is left as it is.
LEMMA RebuildAll ==
  ASSUME NEW list \in Seq(LeafEntry), Fill(list) <= LeafCap
  PROVE  Rebuild(list) = list
<1> DEFINE N == Len(list)
           start(n) == SubSeq(list, 1, n)
<1>1. /\ N \in Nat /\ LeafCap \in Nat /\ Fill(list) \in Nat
      /\ \A i \in 1 .. N : list[i] \in LeafEntry /\ Size[list[i].v] \in Nat
  BY EntryRoom, NodeAssumption, FillType
<1>2. PICK kept \in [0 .. N -> Seq(LeafEntry)] :
         /\ kept[0] = <<>> /\ Rebuild(list) = kept[N]
         /\ \A i \in 1 .. N :
               kept[i] = IF Fill(kept[i - 1]) + Size[list[i].v] <= LeafCap
                         THEN Append(kept[i - 1], list[i]) ELSE kept[i - 1]
  BY RebuildSteps
<1>3. \A n \in 0 .. N : /\ start(n) \in Seq(LeafEntry) /\ Len(start(n)) = n
                        /\ \A i \in 1 .. n : start(n)[i] = list[i]
                        /\ Fill(start(n)) <= Fill(list) /\ Fill(start(n)) \in Nat
  BY Started, FillType
<1> HIDE DEF N, start
<1> DEFINE T == {n \in 0 .. N : kept[n] = start(n)}
<1>4. 0 \in T
  <2>1. 0 \in 0 .. N
    BY <1>1
  <2>2. start(0) \in Seq(LeafEntry) /\ Len(start(0)) = 0
    BY <1>3, <2>1
  <2>3. start(0) = <<>>
    BY <2>2, EmptySeq
  <2>4. QED
    BY <1>2, <2>1, <2>3
<1>5. ASSUME NEW n \in 1 .. N, n - 1 \in T
      PROVE  n \in T
  <2> DEFINE before == start(n - 1)
             e == list[n]
             new == Append(before, e)
  <2>1. /\ n - 1 \in 0 .. N /\ n \in 0 .. N /\ e \in LeafEntry /\ Size[e.v] \in Nat
        /\ kept[n - 1] = before /\ (n - 1) + 1 = n
    BY <1>1, <1>5
  <2>2. /\ before \in Seq(LeafEntry) /\ Len(before) = n - 1 /\ \A i \in 1 .. n - 1 : before[i] = list[i]
        /\ start(n) \in Seq(LeafEntry) /\ Len(start(n)) = n /\ \A i \in 1 .. n : start(n)[i] = list[i]
        /\ Fill(start(n)) <= Fill(list) /\ Fill(start(n)) \in Nat
    BY <1>3, <2>1
  <2> HIDE DEF before, e
  <2>3. /\ new \in Seq(LeafEntry) /\ Len(new) = Len(before) + 1
        /\ \A i \in 1 .. Len(before) : new[i] = before[i]
        /\ new[Len(before) + 1] = e /\ Fill(new) = Fill(before) + Size[e.v]
    BY <2>1, <2>2, Appended
  <2> HIDE DEF new
  <2>4. \A i \in 1 .. n : new[i] = start(n)[i]
    <3>1. TAKE i \in 1 .. n
    <3>2. i \in 1 .. n - 1 \/ i = n
      BY <1>1
    <3>3. i = n => new[i] = list[n]
      BY <2>1, <2>2, <2>3 DEF e
    <3>4. i \in 1 .. n - 1 => new[i] = list[i]
      BY <2>2, <2>3
    <3>5. QED
      BY <2>2, <3>2, <3>3, <3>4
  <2>5. new = start(n)
    <3>1. Len(new) = n
      BY <2>1, <2>2, <2>3
    <3>2. QED
      BY <2>2, <2>3, <2>4, <3>1, SeqEqual
  <2>6. Fill(before) + Size[e.v] <= LeafCap
    BY <1>1, <2>2, <2>3, <2>5
  <2>7. kept[n] = new
    <3>1. kept[n] = IF Fill(before) + Size[e.v] <= LeafCap THEN new ELSE before
      BY <1>2, <2>1 DEF e, new
    <3>2. QED
      BY <2>6, <3>1
  <2>8. QED
    BY <2>1, <2>5, <2>7
<1> HIDE DEF T
<1>6. \A n \in 0 .. N : n \in T
  BY <1>1, <1>4, <1>5, Upwards
<1>7. kept[N] = start(N)
  BY <1>1, <1>6 DEF T
<1>8. start(N) = list
  <2>1. N \in 0 .. N
    BY <1>1
  <2>2. start(N) \in Seq(LeafEntry) /\ Len(start(N)) = N /\ \A i \in 1 .. N : start(N)[i] = list[i]
    BY <1>3, <2>1
  <2>3. QED
    BY <2>2, SeqEqual DEF N
<1>9. QED
  BY <1>2, <1>7, <1>8

\* The two halves of a sorted list.
LEMMA HalvesSorted ==
  ASSUME NEW all \in Seq(LeafEntry), SortedByKey(all), Len(all) >= 1
  PROVE  LET half == Halves(all)
         IN  /\ half.left \in Seq(LeafEntry) /\ SortedByKey(half.left)
             /\ half.right \in Seq(LeafEntry) /\ SortedByKey(half.right)
             /\ ToSet(all) = ToSet(half.left) \cup ToSet(half.right)
             /\ \A f \in ToSet(half.left) : f.k < half.key
             /\ \A f \in ToSet(half.right) : f.k >= half.key
             /\ Fill(all) = Fill(half.left) + Fill(half.right)
             /\ Len(half.right) >= 1 /\ (Len(all) >= 2 => Len(half.left) >= 1)
<1> DEFINE N == Len(all)
           mid == N \div 2
           m == mid + 1
           left == SubSeq(all, 1, m - 1)
           right == SubSeq(all, m, N)
           R == N - m + 1
<1>1. /\ N \in Nat /\ mid \in Nat /\ m \in 1 .. N /\ (N >= 2 => mid >= 1)
      /\ \A i \in 1 .. N : all[i].k \in Nat
  <2>1. N \in Nat /\ \A i \in 1 .. N : all[i].k \in Nat
    BY EntryRoom
  <2>2. QED
    BY <2>1
<1>2. Halves(all) = [left |-> SubSeq(all, 1, mid), right |-> SubSeq(all, mid + 1, Len(all)),
                     key |-> all[mid + 1].k]
  BY DEF Halves
<1> HIDE DEF mid
<1>3. mid = m - 1 /\ m - 1 \in 0 .. N /\ R \in Nat /\ R >= 1 /\ m \in 1 .. N + 1
  BY <1>1
<1>4. Halves(all) = [left |-> left, right |-> right, key |-> all[m].k]
  BY <1>2, <1>3
<1> HIDE DEF m
<1>5. /\ left \in Seq(LeafEntry) /\ Len(left) = m - 1 /\ \A j \in 1 .. m - 1 : left[j] = all[j]
      /\ right \in Seq(LeafEntry) /\ Len(right) = R
      /\ \A j \in 1 .. R : right[j] = all[m + j - 1]
      /\ all = left \o right
  BY <1>3, Cut
<1> HIDE DEF left, right, R
<1>6. Fill(all) = Fill(left) + Fill(right)
  BY <1>5, FillConcat
<1>7. /\ ToSet(all) = {all[i] : i \in 1 .. N} /\ \A i, j \in 1 .. N : i < j => all[i].k < all[j].k
      /\ ToSet(left) = {left[i] : i \in 1 .. m - 1} /\ ToSet(right) = {right[i] : i \in 1 .. R}
      /\ SortedByKey(left) <=> \A i, j \in 1 .. m - 1 : i < j => left[i].k < left[j].k
      /\ SortedByKey(right) <=> \A i, j \in 1 .. R : i < j => right[i].k < right[j].k
  BY <1>5, SortedFacts DEF N
<1> HIDE DEF N
<1>8. \A j \in 1 .. R : m + j - 1 \in 1 .. N /\ m <= m + j - 1
  BY <1>1 DEF R
<1>9. \A j \in 1 .. m - 1 : j \in 1 .. N /\ j < m
  BY <1>1
<1>10. SortedByKey(left) /\ \A f \in ToSet(left) : f.k < all[m].k
  BY <1>1, <1>5, <1>7, <1>9
<1>11. SortedByKey(right)
  <2>1. ASSUME NEW i \in 1 .. R, NEW j \in 1 .. R, i < j
        PROVE  right[i].k < right[j].k
    <3>1. m + i - 1 < m + j - 1
      BY <1>1, <2>1
    <3>2. QED
      BY <1>5, <1>7, <1>8, <3>1
  <2>2. QED
    BY <1>7, <2>1
<1>12. \A f \in ToSet(right) : f.k >= all[m].k
  <2>1. TAKE f \in ToSet(right)
  <2>2. PICK j \in 1 .. R : f = all[m + j - 1]
    BY <1>5, <1>7
  <2>3. m + j - 1 \in 1 .. N /\ (m = m + j - 1 \/ m < m + j - 1)
    BY <1>1, <1>8
  <2>4. m < m + j - 1 => all[m].k < all[m + j - 1].k
    BY <1>1, <1>7, <2>3
  <2>5. all[m].k \in Nat /\ all[m + j - 1].k \in Nat
    BY <1>1, <2>3
  <2>6. QED
    BY <2>2, <2>3, <2>4, <2>5
<1>13. ToSet(all) = ToSet(left) \cup ToSet(right)
  <2>1. ToSet(left) \subseteq ToSet(all) /\ ToSet(right) \subseteq ToSet(all)
    BY <1>5, <1>7, <1>8, <1>9
  <2>2. ASSUME NEW i \in 1 .. N
        PROVE  all[i] \in ToSet(left) \cup ToSet(right)
    <3>1. CASE i < m
      <4>1. i \in 1 .. m - 1
        BY <1>1, <3>1
      <4>2. QED
        BY <1>5, <1>7, <4>1
    <3>2. CASE ~(i < m)
      <4>1. i - m + 1 \in 1 .. R /\ m + (i - m + 1) - 1 = i
        BY <1>1, <3>2 DEF R
      <4>2. right[i - m + 1] = all[i]
        BY <1>5, <4>1
      <4>3. QED
        BY <1>7, <4>1, <4>2
    <3>3. QED
      BY <3>1, <3>2
  <2>3. QED
    BY <1>7, <2>1, <2>2
<1>14. Len(right) >= 1 /\ (N >= 2 => Len(left) >= 1)
  BY <1>1, <1>3, <1>5
<1> DEFINE half == Halves(all)
<1>15. half.left = left /\ half.right = right /\ half.key = all[m].k
  BY <1>4
<1> HIDE DEF half
<1>16. /\ half.left \in Seq(LeafEntry) /\ SortedByKey(half.left)
       /\ half.right \in Seq(LeafEntry) /\ SortedByKey(half.right)
       /\ ToSet(all) = ToSet(half.left) \cup ToSet(half.right)
       /\ \A f \in ToSet(half.left) : f.k < half.key
       /\ \A f \in ToSet(half.right) : f.k >= half.key
       /\ Fill(all) = Fill(half.left) + Fill(half.right)
       /\ Len(half.right) >= 1 /\ (Len(all) >= 2 => Len(half.left) >= 1)
  BY <1>5, <1>6, <1>10, <1>11, <1>12, <1>13, <1>14, <1>15 DEF N
<1>17. QED
  BY <1>16 DEF half

----------------------------------------------------------------------------
(* A tree in order. *)

\* The entries of a leaf: sorted, and no more than a page takes.
LeafOk(ents) == ents \in Seq(LeafEntry) /\ SortedByKey(ents) /\ Fill(ents) <= LeafCap

Ordered(st, r) ==
    /\ LeafAt(st, r) => LeafOk(Ents(st.pages[r]))
    /\ ForkAt(st, r) => /\ LeafOk(Low(st, r)) /\ LeafOk(High(st, r))
                        /\ \A f \in ToSet(Low(st, r)) : f.k < Fork(st, r).k
                        /\ \A f \in ToSet(High(st, r)) : f.k >= Fork(st, r).k

\* Without the entry of a key, and with it.
Without(ents, k) == {f \in ToSet(ents) : f.k # k}

LEMMA KeysDiffer ==
  ASSUME NEW ents \in Seq(LeafEntry), SortedByKey(ents),
         NEW f \in ToSet(ents), NEW g \in ToSet(ents), f.k = g.k
  PROVE  f = g
<1>1. /\ \A i, j \in 1 .. Len(ents) : i < j => ents[i].k < ents[j].k
      /\ ToSet(ents) = {ents[i] : i \in 1 .. Len(ents)}
  BY SortedFacts
<1>2. Len(ents) \in Nat /\ \A i \in 1 .. Len(ents) : ents[i].k \in Nat
  BY EntryRoom
<1>3. PICK i \in 1 .. Len(ents), j \in 1 .. Len(ents) : f = ents[i] /\ g = ents[j]
  BY <1>1
<1>4. i = j
  <2>1. ~(i < j) /\ ~(j < i)
    BY <1>1, <1>2, <1>3
  <2>2. QED
    BY <1>2, <2>1
<1>5. QED
  BY <1>3, <1>4

LEMMA OkEmpty == LeafOk(<<>>) /\ ToSet(<<>>) = {}
<1>1. <<>> \in Seq(LeafEntry) /\ SortedByKey(<<>>) /\ ToSet(<<>>) = {}
  BY EmptySeq DEF SortedByKey, ToSet
<1>2. QED
  BY <1>1, FillEmpty, NodeAssumption DEF LeafOk

\* A leaf into which an entry has been put.
LEMMA PlacedOk ==
  ASSUME NEW ents, LeafOk(ents), NEW e \in LeafEntry,
         ~Holds(ents, e.k) => Fill(ents) + Size[e.v] <= LeafCap
  PROVE  /\ LeafOk(Placed(ents, e)) /\ ToSet(Placed(ents, e)) \subseteq ToSet(ents) \cup {e}
         /\ (Holds(ents, e.k) => Fill(ents) - Size[ents[SlotOf(ents, e.k)].v] + Size[e.v] <= LeafCap)
               => ToSet(Placed(ents, e)) = Without(ents, e.k) \cup {e}
<1> DEFINE p == SlotOf(ents, e.k)
           put == [ents EXCEPT ![p] = e]
           placed == Placed(ents, e)
<1>1. /\ ents \in Seq(LeafEntry) /\ SortedByKey(ents) /\ Fill(ents) <= LeafCap /\ Fill(ents) \in Nat
      /\ Size[e.v] \in Nat /\ LeafCap \in Nat
  BY FillType, SizeAssumption, NodeAssumption DEF LeafOk, LeafEntry
<1>2. placed = IF ~Holds(ents, e.k) THEN InsertAt(ents, p, e)
               ELSE IF Size[ents[p].v] = Size[e.v] THEN put ELSE Rebuild(put)
  BY DEF Placed
<1>3. CASE ~Holds(ents, e.k)
  <2> DEFINE new == InsertAt(ents, p, e)
  <2>1. /\ new \in Seq(LeafEntry) /\ SortedByKey(new)
        /\ ToSet(new) = ToSet(ents) \cup {e} /\ Fill(new) = Fill(ents) + Size[e.v]
    BY <1>1, <1>3, InsertSorted
  <2>2. placed = new
    BY <1>2, <1>3
  <2> HIDE DEF new, placed, p
  <2>3. ToSet(ents) = Without(ents, e.k)
    <3>1. \A f \in ToSet(ents) : f.k # e.k
      BY <1>1, <1>3, SortedFacts
    <3>2. QED
      BY <3>1 DEF Without
  <2>4. QED
    BY <1>3, <2>1, <2>2, <2>3 DEF LeafOk, placed
<1>4. CASE Holds(ents, e.k)
  <2>1. /\ put \in Seq(LeafEntry) /\ SortedByKey(put)
        /\ p \in 1 .. Len(ents) /\ ents[p].k = e.k
        /\ ToSet(put) = (ToSet(ents) \ {ents[p]}) \cup {e}
        /\ Fill(put) + Size[ents[p].v] = Fill(ents) + Size[e.v]
    BY <1>1, <1>4, OverwriteSorted
  <2> HIDE DEF put, placed, p
  <2>2. Size[ents[p].v] \in Nat /\ Fill(put) \in Nat /\ ents[p] \in ToSet(ents)
    <3>1. ents[p] \in ToSet(ents)
      BY <1>1, <2>1, SortedFacts
    <3>2. QED
      BY <1>1, <2>1, <3>1, EntryRoom, FillType
  <2>3. ToSet(put) = Without(ents, e.k) \cup {e}
    <3>1. \A f \in ToSet(ents) : f.k = e.k <=> f = ents[p]
      BY <1>1, <2>1, <2>2, KeysDiffer
    <3>2. QED
      BY <2>1, <3>1 DEF Without
  <2>4. ToSet(put) \subseteq ToSet(ents) \cup {e}
    BY <2>1
  <2>5. CASE Size[ents[p].v] = Size[e.v]
    <3>1. placed = put
      BY <1>2, <1>4, <2>5
    <3>2. Fill(put) <= LeafCap
      BY <1>1, <2>1, <2>2, <2>5
    <3>3. QED
      BY <2>1, <2>3, <2>4, <3>1, <3>2 DEF LeafOk, placed
  <2>6. CASE Size[ents[p].v] # Size[e.v]
    <3>1. placed = Rebuild(put)
      BY <1>2, <1>4, <2>6
    <3>2. /\ placed \in Seq(LeafEntry) /\ SortedByKey(placed)
          /\ ToSet(placed) \subseteq ToSet(put) /\ Fill(placed) <= LeafCap
      BY <2>1, <3>1, RebuildSorted
    <3>3. Fill(ents) - Size[ents[p].v] + Size[e.v] <= LeafCap => placed = put
      <4>1. SUFFICES ASSUME Fill(ents) - Size[ents[p].v] + Size[e.v] <= LeafCap
                     PROVE  placed = put
        OBVIOUS
      <4>2. Fill(put) <= LeafCap
        BY <1>1, <2>1, <2>2, <4>1
      <4>3. QED
        BY <2>1, <3>1, <4>2, RebuildAll
    <3>4. QED
      BY <1>4, <2>3, <2>4, <3>2, <3>3 DEF LeafOk, placed, p
  <2>7. QED
    BY <2>5, <2>6
<1>5. QED
  BY <1>3, <1>4

LEMMA RemovedOk ==
  ASSUME NEW ents, LeafOk(ents), NEW k \in Nat, Holds(ents, k)
  PROVE  /\ LeafOk(RemoveAt(ents, SlotOf(ents, k)))
         /\ ToSet(RemoveAt(ents, SlotOf(ents, k))) = Without(ents, k)
<1> DEFINE p == SlotOf(ents, k)
           new == RemoveAt(ents, p)
<1>1. /\ ents \in Seq(LeafEntry) /\ SortedByKey(ents) /\ Fill(ents) <= LeafCap /\ Fill(ents) \in Nat
      /\ LeafCap \in Nat
  BY FillType, NodeAssumption DEF LeafOk
<1>2. /\ new \in Seq(LeafEntry) /\ SortedByKey(new)
      /\ p \in 1 .. Len(ents) /\ ents[p].k = k
      /\ ToSet(new) = ToSet(ents) \ {ents[p]} /\ Fill(new) <= Fill(ents)
  BY <1>1, RemoveSorted
<1>3. ents[p] \in ToSet(ents) /\ Fill(new) \in Nat
  BY <1>1, <1>2, SortedFacts, FillType
<1> HIDE DEF new, p
<1>4. \A f \in ToSet(ents) : f.k = k <=> f = ents[p]
  BY <1>1, <1>2, <1>3, KeysDiffer
<1>5. Fill(new) <= LeafCap
  BY <1>1, <1>2, <1>3
<1>6. LeafOk(new) /\ ToSet(new) = Without(ents, k)
  BY <1>2, <1>4, <1>5 DEF LeafOk, Without
<1>7. QED
  BY <1>6 DEF new, p

\* The leaf for a key, and the room in it.
LEMMA LeafOfOrdered ==
  ASSUME NEW st, Good(st), NEW r, SmallTree(st, r), Ordered(st, r), NEW k \in Nat
  PROVE  LeafOk(LeafEnts(st, r, k))
<1>1. r # 0 => LeafAt(st, r) \/ ForkAt(st, r)
  BY DEF SmallTree
<1>2. QED
  BY <1>1, OkEmpty DEF Ordered, LeafEnts

LEMMA RoomFor ==
  ASSUME NEW st, Good(st), NEW r, SmallTree(st, r), Ordered(st, r), NEW k \in Keys, NEW v \in Values
  PROVE  LET ents == LeafEnts(st, r, k)
         IN  /\ ~MustSplit(st, r, k, v) /\ ~Holds(ents, k) => Fill(ents) + Size[v] <= LeafCap
             /\ MustSplit(st, r, k, v) =>
                   r # 0 /\ ~Holds(ents, k) /\ ~(Fill(ents) + Size[v] <= LeafCap)
             /\ ~Overfills(st, r, k, v) /\ Holds(ents, k) =>
                   Fill(ents) - Size[ents[SlotOf(ents, k)].v] + Size[v] <= LeafCap
<1> DEFINE ents == LeafEnts(st, r, k)
           path == Path(st, r, k)
           leaf == st.pages[Last(path)]
           e == [k |-> k, v |-> v]
           before == Fill(ents) - Size[ents[SlotOf(ents, k)].v] + Size[v]
<1>1. k \in Nat /\ Size[v] \in Nat /\ LeafCap \in Nat /\ Size[v] <= LeafCap
  BY KeysAssumption, SizeAssumption, NodeAssumption
<1>2. CASE r = 0
  <2>1. ents = <<>>
    BY <1>2 DEF LeafEnts
  <2>2. ~Holds(ents, k)
    BY <2>1 DEF Holds
  <2>3. Fill(ents) + Size[v] <= LeafCap
    BY <1>1, <2>1, FillEmpty
  <2>4. ~MustSplit(st, r, k, v)
    BY <1>2 DEF MustSplit, OnLeaf
  <2>5. QED
    BY <2>2, <2>3, <2>4
<1>3. CASE r # 0
  <2>1. ents = Ents(leaf) /\ leaf.word = LeafWord /\ ents \in Seq(LeafEntry)
    BY <1>1, <1>3, LeafEntsFacts
  <2>2. /\ MustSplit(st, r, k, v) <=> ~Holds(Ents(leaf), k) /\ ~HasRoom(leaf, e)
        /\ Overfills(st, r, k, v) <=>
              Holds(Ents(leaf), k)
              /\ Fill(Ents(leaf)) - Size[Ents(leaf)[SlotOf(Ents(leaf), k)].v] + Size[v] > LeafCap
    BY <1>3, InsertCases
  <2>3. HasRoom(leaf, e) <=> Fill(Ents(leaf)) + Size[v] <= LeafCap
    BY <2>1 DEF HasRoom, LeafWord
  <2> HIDE DEF ents, leaf, path, e
  <2>4. /\ MustSplit(st, r, k, v) <=> ~Holds(ents, k) /\ ~(Fill(ents) + Size[v] <= LeafCap)
        /\ Overfills(st, r, k, v) <=> Holds(ents, k) /\ before > LeafCap
    BY <2>1, <2>2, <2>3
  <2>5. Holds(ents, k) => before \in Int
    <3>1. SUFFICES ASSUME Holds(ents, k) PROVE before \in Int
      OBVIOUS
    <3>2. Fill(ents) \in Nat
      BY <2>1, FillType
    <3>3. SlotOf(ents, k) \in 1 .. Len(ents)
      BY <1>1, <2>1, <3>1, LeafOfOrdered, SlotFacts DEF LeafOk, ents
    <3>4. Size[ents[SlotOf(ents, k)].v] \in Nat
      BY <2>1, <3>3, EntryRoom
    <3>5. QED
      BY <1>1, <3>2, <3>4
  <2>6. ~(before > LeafCap) /\ before \in Int => before <= LeafCap
    BY <1>1
  <2>7. QED
    BY <1>3, <2>4, <2>5, <2>6 DEF ents
<1>4. QED
  BY <1>2, <1>3

----------------------------------------------------------------------------
(* What a call makes of the order. *)

LEMMA NotBoth ==
  ASSUME NEW st, NEW r
  PROVE  ~(LeafAt(st, r) /\ ForkAt(st, r)) /\ ~LeafAt(st, 0) /\ ~ForkAt(st, 0)
  BY DEF LeafAt, ForkAt, LeafWord, BranchWord, PageNos

\* Pages in use are as they were.
LEMMA KeptEnts ==
  ASSUME NEW st, Good(st), NEW r, SmallTree(st, r), NEW st2, Kept(st, st2)
  PROVE  /\ LeafAt(st2, r) <=> LeafAt(st, r)
         /\ ForkAt(st2, r) <=> ForkAt(st, r)
         /\ ForkAt(st, r) => Fork(st2, r) = Fork(st, r) /\ Low(st2, r) = Low(st, r) /\ High(st2, r) = High(st, r)
         /\ LeafAt(st, r) => Ents(st2.pages[r]) = Ents(st.pages[r])
<1>1. /\ LeafAt(st, r) <=> LeafAt(st2, r)
      /\ ForkAt(st, r) => ForkAt(st2, r) /\ Fork(st2, r) = Fork(st, r)
  BY TreeKept
<1>2. ForkAt(st2, r) => ForkAt(st, r)
  <2>1. ForkAt(st2, r) => ~LeafAt(st2, r) /\ r # 0
    BY NotBoth
  <2>2. QED
    BY <1>1, <2>1 DEF SmallTree
<1>3. \A pn \in Used(st) : st2.pages[pn] = st.pages[pn]
  BY DEF Kept
<1>4. LeafAt(st, r) => r \in Used(st)
  BY DEF LeafAt, Used
<1>5. ForkAt(st, r) => Fork(st, r).l \in Used(st) /\ Fork(st, r).r \in Used(st)
  BY DEF ForkAt, LeafAt, Used
<1>6. ForkAt(st, r) => Low(st2, r) = Low(st, r) /\ High(st2, r) = High(st, r)
  BY <1>1, <1>3, <1>5 DEF Low, High
<1>7. QED
  BY <1>1, <1>2, <1>3, <1>4, <1>6

\* The tree stands for the same entries under every key.
SameEnts(st, r, st2, r2) == \A k \in Nat : LeafEnts(st2, r2, k) = LeafEnts(st, r, k)

LEMMA SameOrdered ==
  ASSUME NEW st, Good(st), NEW r, SmallTree(st, r), Ordered(st, r), NEW st2, NEW r2, Same(st, r, st2, r2)
  PROVE  Ordered(st2, r2) /\ SameEnts(st, r, st2, r2)
<1>1. CASE r2 = r /\ Kept(st, st2)
  <2>1. /\ LeafAt(st2, r) <=> LeafAt(st, r)
        /\ ForkAt(st2, r) <=> ForkAt(st, r)
        /\ ForkAt(st, r) => Fork(st2, r) = Fork(st, r) /\ Low(st2, r) = Low(st, r) /\ High(st2, r) = High(st, r)
        /\ LeafAt(st, r) => Ents(st2.pages[r]) = Ents(st.pages[r])
        /\ r = 0 \/ LeafAt(st, r) \/ ForkAt(st, r)
    BY <1>1, KeptEnts DEF SmallTree
  <2>2. Ordered(st2, r)
    BY <2>1 DEF Ordered
  <2>3. SameEnts(st, r, st2, r)
    BY <2>1, NotBoth DEF SameEnts, LeafEnts
  <2>4. QED
    BY <1>1, <2>2, <2>3
<1>2. CASE ~(r2 = r /\ Kept(st, st2))
  <2>1. r = 0 /\ LeafAt(st2, r2) /\ Ents(st2.pages[r2]) = <<>>
    BY <1>2 DEF Same
  <2>2. ~ForkAt(st2, r2) /\ r2 # 0
    BY <2>1, NotBoth
  <2>3. QED
    BY <2>1, <2>2, OkEmpty DEF Ordered, SameEnts, LeafEnts
<1>3. QED
  BY <1>1, <1>2

\* A tree with the entries ents under the keys that share a leaf with k.
LEMMA EditedOrdered ==
  ASSUME NEW st, Good(st), NEW r, SmallTree(st, r), Ordered(st, r), NEW k \in Nat,
         NEW st2, NEW r2, NEW ents, LeafOk(ents), Edited(st, r, k, st2, r2, ents),
         \A f \in ToSet(ents) : f.k = k \/ f \in ToSet(LeafEnts(st, r, k))
  PROVE  Ordered(st2, r2)
<1>1. CASE Whole(st, r)
  <2>1. LeafAt(st2, r2) /\ Ents(st2.pages[r2]) = ents
    BY <1>1 DEF Edited
  <2>2. ~ForkAt(st2, r2)
    BY <2>1, NotBoth
  <2>3. QED
    BY <2>1, <2>2 DEF Ordered
<1>2. CASE ~Whole(st, r)
  <2> DEFINE sep == Fork(st, r).k
  <2>1. /\ ForkAt(st2, r2) /\ Fork(st2, r2).k = sep
        /\ Low(st2, r2) = IF k < sep THEN ents ELSE Low(st, r)
        /\ High(st2, r2) = IF k < sep THEN High(st, r) ELSE ents
    BY <1>2 DEF Edited
  <2>2. ForkAt(st, r) /\ r # 0 /\ ~LeafAt(st, r) /\ ~LeafAt(st2, r2)
    BY <1>2, <2>1, NotBoth DEF SmallTree, Whole
  <2>3. /\ LeafOk(Low(st, r)) /\ LeafOk(High(st, r))
        /\ \A f \in ToSet(Low(st, r)) : f.k < sep
        /\ \A f \in ToSet(High(st, r)) : f.k >= sep
    BY <2>2 DEF Ordered
  <2>4. LeafEnts(st, r, k) = IF k < sep THEN Low(st, r) ELSE High(st, r)
    BY <2>2 DEF LeafEnts
  <2>5. sep \in Nat
    <3>1. st \in StoresOf(NodePage)
      BY DEF Good, Listed
    <3>2. Fork(st, r) \in BranchEntry
      BY <2>2, <3>1, ForkTypes
    <3>3. QED
      BY <3>2, KeysAssumption DEF BranchEntry
  <2> HIDE DEF sep
  <2>6. CASE k < sep
    <3>1. Low(st2, r2) = ents /\ High(st2, r2) = High(st, r)
      BY <2>1, <2>6
    <3>2. \A f \in ToSet(ents) : f.k < sep
      BY <2>3, <2>4, <2>6
    <3>3. QED
      BY <2>1, <2>2, <2>3, <3>1, <3>2 DEF Ordered
  <2>7. CASE ~(k < sep)
    <3>1. Low(st2, r2) = Low(st, r) /\ High(st2, r2) = ents
      BY <2>1, <2>7
    <3>2. \A f \in ToSet(ents) : f.k >= sep
      BY <2>3, <2>4, <2>5, <2>7
    <3>3. QED
      BY <2>1, <2>2, <2>3, <3>1, <3>2 DEF Ordered
  <2>8. QED
    BY <2>6, <2>7
<1>3. QED
  BY <1>1, <1>2

LEMMA ForkedOrdered ==
  ASSUME NEW st, NEW r, NEW st2, NEW r2, NEW all \in Seq(LeafEntry), SortedByKey(all), Len(all) >= 1,
         Forked(st, r, st2, r2, Halves(all))
  PROVE  Ordered(st2, r2)
<1> DEFINE half == Halves(all)
<1>1. /\ half.left \in Seq(LeafEntry) /\ SortedByKey(half.left)
      /\ half.right \in Seq(LeafEntry) /\ SortedByKey(half.right)
      /\ \A f \in ToSet(half.left) : f.k < half.key
      /\ \A f \in ToSet(half.right) : f.k >= half.key
  BY HalvesSorted
<1>2. /\ ForkAt(st2, r2) /\ Fork(st2, r2).k = half.key
      /\ Low(st2, r2) = Rebuild(half.left) /\ High(st2, r2) = Rebuild(half.right)
  BY DEF Forked
<1> HIDE DEF half
<1>3. /\ LeafOk(Rebuild(half.left)) /\ ToSet(Rebuild(half.left)) \subseteq ToSet(half.left)
      /\ LeafOk(Rebuild(half.right)) /\ ToSet(Rebuild(half.right)) \subseteq ToSet(half.right)
  BY <1>1, RebuildSorted DEF LeafOk
<1>4. ~LeafAt(st2, r2)
  BY <1>2, NotBoth
<1>5. QED
  BY <1>1, <1>2, <1>3, <1>4 DEF Ordered

\* The entries of a leaf that is divided, with the new one.
LEMMA Overfull ==
  ASSUME NEW ents, LeafOk(ents), NEW e \in LeafEntry, ~Holds(ents, e.k)
  PROVE  LET all == InsertAt(ents, SlotOf(ents, e.k), e)
         IN  /\ all \in Seq(LeafEntry) /\ SortedByKey(all) /\ Len(all) = Len(ents) + 1 /\ Len(all) >= 1
             /\ ToSet(all) = ToSet(ents) \cup {e} /\ Fill(all) = Fill(ents) + Size[e.v]
<1> DEFINE all == InsertAt(ents, SlotOf(ents, e.k), e)
<1>1. ents \in Seq(LeafEntry) /\ SortedByKey(ents) /\ Len(ents) \in Nat
  BY EntryRoom DEF LeafOk
<1>2. /\ all \in Seq(LeafEntry) /\ SortedByKey(all) /\ Len(all) = Len(ents) + 1
      /\ ToSet(all) = ToSet(ents) \cup {e} /\ Fill(all) = Fill(ents) + Size[e.v]
  BY <1>1, InsertSorted
<1> HIDE DEF all
<1>3. Len(all) >= 1
  BY <1>1, <1>2
<1>4. QED
  BY <1>2, <1>3 DEF all

LEMMA InsertOrdered ==
  ASSUME NEW st, Good(st), NEW r, SmallTree(st, r), Ordered(st, r), NEW k \in Keys, NEW v \in Values,
         NEW res, Inserted(st, r, [k |-> k, v |-> v], res), res.rc # Fault
  PROVE  Ordered(res.st, res.root)
<1> DEFINE e == [k |-> k, v |-> v]
           ents == LeafEnts(st, r, k)
<1>1. k \in Nat /\ e \in LeafEntry /\ e.k = k /\ e.v = v
  BY KeysAssumption DEF LeafEntry
<1>2. LeafOk(ents)
  BY <1>1, LeafOfOrdered
<1>3. /\ ~MustSplit(st, r, k, v) /\ ~Holds(ents, k) => Fill(ents) + Size[v] <= LeafCap
      /\ MustSplit(st, r, k, v) => ~Holds(ents, k)
  BY RoomFor
<1> HIDE DEF e, ents
<1>4. \/ /\ ~MustSplit(st, r, k, v) /\ Edited(st, r, k, res.st, res.root, Placed(ents, e))
      \/ /\ MustSplit(st, r, k, v)
         /\ Forked(st, r, res.st, res.root, Halves(InsertAt(ents, SlotOf(ents, k), e)))
      \/ Same(st, r, res.st, res.root)
  BY <1>1 DEF Inserted, e, ents
<1>5. CASE Same(st, r, res.st, res.root)
  BY <1>5, SameOrdered
<1>6. CASE ~MustSplit(st, r, k, v) /\ Edited(st, r, k, res.st, res.root, Placed(ents, e))
  <2>1. LeafOk(Placed(ents, e)) /\ ToSet(Placed(ents, e)) \subseteq ToSet(ents) \cup {e}
    BY <1>1, <1>2, <1>3, <1>6, PlacedOk
  <2>2. \A f \in ToSet(Placed(ents, e)) : f.k = k \/ f \in ToSet(ents)
    BY <1>1, <2>1
  <2> DEFINE placed == Placed(ents, e)
  <2> HIDE DEF placed
  <2>3. LeafOk(placed) /\ Edited(st, r, k, res.st, res.root, placed)
        /\ \A f \in ToSet(placed) : f.k = k \/ f \in ToSet(LeafEnts(st, r, k))
    BY <1>6, <2>1, <2>2 DEF placed, ents
  <2>4. QED
    BY <1>1, <2>3, EditedOrdered
<1>7. CASE MustSplit(st, r, k, v)
           /\ Forked(st, r, res.st, res.root, Halves(InsertAt(ents, SlotOf(ents, k), e)))
  <2> DEFINE all == InsertAt(ents, SlotOf(ents, e.k), e)
  <2>1. all \in Seq(LeafEntry) /\ SortedByKey(all) /\ Len(all) >= 1
    BY <1>1, <1>2, <1>3, <1>7, Overfull
  <2>2. Forked(st, r, res.st, res.root, Halves(all))
    BY <1>1, <1>7
  <2> HIDE DEF all
  <2>3. QED
    BY <2>1, <2>2, ForkedOrdered
<1>8. QED
  BY <1>4, <1>5, <1>6, <1>7

LEMMA DeleteOrdered ==
  ASSUME NEW st, Good(st), NEW r, SmallTree(st, r), Ordered(st, r), NEW k \in Keys,
         NEW res, Deleted(st, r, k, res)
  PROVE  Ordered(res.st, res.root)
<1> DEFINE ents == LeafEnts(st, r, k)
           left == RemoveAt(ents, SlotOf(ents, k))
<1>1. k \in Nat /\ LeafOk(ents)
  BY KeysAssumption, LeafOfOrdered
<1>2. CASE Same(st, r, res.st, res.root)
  BY <1>2, SameOrdered
<1>3. CASE Holds(ents, k) /\ Edited(st, r, k, res.st, res.root, left)
  <2>1. LeafOk(left) /\ ToSet(left) = Without(ents, k)
    BY <1>1, <1>3, RemovedOk
  <2> HIDE DEF left
  <2>2. \A f \in ToSet(left) : f.k = k \/ f \in ToSet(LeafEnts(st, r, k))
    BY <2>1 DEF Without
  <2>3. QED
    BY <1>1, <1>3, <2>1, <2>2, EditedOrdered
<1>4. QED
  BY <1>2, <1>3 DEF Deleted, Same

----------------------------------------------------------------------------
(* The map.  What a search finds is the value of the entry under its key.   *)

Under(ents, x) == {f \in ToSet(ents) : f.k = x}
Got(found) == IF found = {} THEN None ELSE (CHOOSE f \in found : TRUE).v

\* The two trees hold the same under every key; all the keys but one; the
\* second holds only what is in `put' under k.
SameUnder(st, r, st2, r2, x) ==
    Under(LeafEnts(st2, r2, x), x) = Under(LeafEnts(st, r, x), x)
PutUnder(st, r, st2, r2, k, put) ==
    \A x \in Keys : IF x = k THEN Under(LeafEnts(st2, r2, x), x) = put
                    ELSE SameUnder(st, r, st2, r2, x)

LEMMA SearchUnder ==
  ASSUME NEW st, Good(st), NEW r, SmallTree(st, r), NEW k \in Keys
  PROVE  Search(st, r, k) = Got(Under(LeafEnts(st, r, k), k))
<1>1. k \in Nat /\ st \in StoresOf(NodePage)
  BY KeysAssumption DEF Good, Listed
<1>2. CASE r = 0
  <2>1. Under(LeafEnts(st, r, k), k) = {}
    BY <1>2, OkEmpty DEF LeafEnts, Under
  <2>2. Search(st, r, k) = None
    BY <1>2 DEF Search
  <2>3. QED
    BY <2>1, <2>2 DEF Got
<1>3. CASE r # 0
  <2> DEFINE pn == Last(Path(st, r, k))
  <2>1. LeafEnts(st, r, k) = Ents(st.pages[pn])
    BY <1>1, <1>3, LeafEntsFacts
  <2>2. pn \in PageNos(st) /\ IsLeaf(st.pages[pn])
    BY <1>1, <1>3, PathLeads DEF LeafAt, IsLeaf
  <2> DEFINE leaf  == {p \in {pn} \cap PageNos(st) : IsLeaf(st.pages[p])}
             found == UNION {{e \in ToSet(Ents(st.pages[p])) : e.k = k} : p \in leaf}
  <2>3. Search(st, r, k) = Got(found)
    BY <1>3 DEF Search, Got
  <2> HIDE DEF pn
  <2>4. leaf = {pn}
    BY <2>2
  <2> HIDE DEF leaf
  <2>5. found = Under(Ents(st.pages[pn]), k)
    BY <2>4 DEF Under
  <2>6. QED
    BY <2>1, <2>3, <2>5 DEF pn
<1>4. QED
  BY <1>2, <1>3

LEMMA GotOne ==
  ASSUME NEW e
  PROVE  Got({e}) = e.v /\ Got({}) = None
BY DEF Got

\* What is under a key that is held is a value.
LEMMA GotHeld ==
  ASSUME NEW ents \in Seq(LeafEntry), NEW k, Holds(ents, k)
  PROVE  Got(Under(ents, k)) \in Values /\ Got(Under(ents, k)) # None
<1>1. ToSet(ents) \subseteq LeafEntry /\ ToSet(ents) = {ents[i] : i \in 1 .. Len(ents)}
  BY SortedFacts
<1>2. PICK i \in 1 .. Len(ents) : ents[i].k = k
  BY SortedFacts
<1>3. Under(ents, k) # {} /\ Under(ents, k) \subseteq LeafEntry
  BY <1>1, <1>2 DEF Under
<1>4. (CHOOSE f \in Under(ents, k) : TRUE) \in LeafEntry
  BY <1>3
<1>5. Got(Under(ents, k)) \in Values
  BY <1>3, <1>4 DEF Got, LeafEntry
<1>6. QED
  BY <1>5, SizeAssumption

\* The leaf for the key k has other entries: what the leaves for the other keys
\* have.
LEMMA EditedLeaf ==
  ASSUME NEW st, NEW r, SmallTree(st, r), NEW k, NEW st2, NEW r2, NEW ents,
         Edited(st, r, k, st2, r2, ents), NEW x
  PROVE  \/ LeafEnts(st2, r2, x) = ents /\ LeafEnts(st, r, x) = LeafEnts(st, r, k)
         \/ LeafEnts(st2, r2, x) = LeafEnts(st, r, x) /\ x # k
<1>1. CASE Whole(st, r)
  <2>1. LeafAt(st2, r2) /\ Ents(st2.pages[r2]) = ents /\ r2 # 0
    BY <1>1, NotBoth DEF Edited
  <2>2. QED
    BY <1>1, <2>1 DEF LeafEnts, Whole
<1>2. CASE ~Whole(st, r)
  <2>1. /\ ForkAt(st2, r2) /\ Fork(st2, r2).k = Fork(st, r).k
        /\ Low(st2, r2) = IF k < Fork(st, r).k THEN ents ELSE Low(st, r)
        /\ High(st2, r2) = IF k < Fork(st, r).k THEN High(st, r) ELSE ents
    BY <1>2 DEF Edited
  <2>2. r2 # 0 /\ ~LeafAt(st2, r2) /\ r # 0 /\ ~LeafAt(st, r)
    BY <1>2, <2>1, NotBoth DEF Whole
  <2>3. /\ LeafEnts(st2, r2, x) = IF x < Fork(st, r).k THEN Low(st2, r2) ELSE High(st2, r2)
        /\ LeafEnts(st, r, x) = IF x < Fork(st, r).k THEN Low(st, r) ELSE High(st, r)
        /\ LeafEnts(st, r, k) = IF k < Fork(st, r).k THEN Low(st, r) ELSE High(st, r)
    BY <2>1, <2>2 DEF LeafEnts
  <2> DEFINE lowX == x < Fork(st, r).k
             lowK == k < Fork(st, r).k
  <2>4. /\ Low(st2, r2) = IF lowK THEN ents ELSE Low(st, r)
        /\ High(st2, r2) = IF lowK THEN High(st, r) ELSE ents
        /\ LeafEnts(st2, r2, x) = IF lowX THEN Low(st2, r2) ELSE High(st2, r2)
        /\ LeafEnts(st, r, x) = IF lowX THEN Low(st, r) ELSE High(st, r)
        /\ LeafEnts(st, r, k) = IF lowK THEN Low(st, r) ELSE High(st, r)
        /\ x = k => (lowX <=> lowK)
    BY <2>1, <2>3
  <2> HIDE DEF lowX, lowK
  <2>5. CASE lowX
    <3>1. CASE lowK
      BY <2>4, <2>5, <3>1
    <3>2. CASE ~lowK
      BY <2>4, <2>5, <3>2
    <3>3. QED
      BY <3>1, <3>2
  <2>6. CASE ~lowX
    <3>1. CASE lowK
      BY <2>4, <2>6, <3>1
    <3>2. CASE ~lowK
      BY <2>4, <2>6, <3>2
    <3>3. QED
      BY <3>1, <3>2
  <2>7. QED
    BY <2>5, <2>6
<1>3. QED
  BY <1>1, <1>2

LEMMA EditedUnder ==
  ASSUME NEW st, NEW r, SmallTree(st, r), NEW k \in Keys, NEW st2, NEW r2, NEW ents,
         Edited(st, r, k, st2, r2, ents), NEW put, \A f \in put : f.k = k,
         ToSet(ents) = Without(LeafEnts(st, r, k), k) \cup put
  PROVE  PutUnder(st, r, st2, r2, k, put)
<1>1. SUFFICES ASSUME NEW x \in Keys
               PROVE  IF x = k THEN Under(LeafEnts(st2, r2, x), x) = put
                      ELSE SameUnder(st, r, st2, r2, x)
  BY DEF PutUnder
<1>2. \/ LeafEnts(st2, r2, x) = ents /\ LeafEnts(st, r, x) = LeafEnts(st, r, k)
      \/ LeafEnts(st2, r2, x) = LeafEnts(st, r, x) /\ x # k
  BY EditedLeaf
<1>3. CASE LeafEnts(st2, r2, x) = LeafEnts(st, r, x) /\ x # k
  BY <1>3 DEF SameUnder
<1>4. CASE LeafEnts(st2, r2, x) = ents /\ LeafEnts(st, r, x) = LeafEnts(st, r, k)
  <2>1. Under(LeafEnts(st2, r2, x), x) = {f \in Without(LeafEnts(st, r, x), k) \cup put : f.k = x}
    BY <1>4 DEF Under
  <2>2. CASE x = k
    BY <2>1, <2>2 DEF Without
  <2>3. CASE x # k
    BY <2>1, <2>3 DEF Without, SameUnder, Under
  <2>4. QED
    BY <2>2, <2>3
<1>5. QED
  BY <1>2, <1>3, <1>4

\* No leaf is divided in a way that leaves more on one side than a page takes:
\* a split divides the entries by number, and rebuilds both halves.
HalvesFit ==
    \A ents \in Seq(LeafEntry), e \in LeafEntry :
        LET half == Halves(InsertAt(ents, SlotOf(ents, e.k), e))
        IN  LeafOk(ents) /\ ~Holds(ents, e.k) /\ Fill(ents) + Size[e.v] > LeafCap
            => Fill(half.left) <= LeafCap /\ Fill(half.right) <= LeafCap

\* It is so when all values have the same size.
LEMMA EqualSizesFit ==
  ASSUME \A v, w \in Values : Size[v] = Size[w]
  PROVE  HalvesFit
<1>1. SUFFICES ASSUME NEW ents \in Seq(LeafEntry), NEW e \in LeafEntry, LeafOk(ents),
                      ~Holds(ents, e.k), Fill(ents) + Size[e.v] > LeafCap
               PROVE  LET half == Halves(InsertAt(ents, SlotOf(ents, e.k), e))
                      IN  Fill(half.left) <= LeafCap /\ Fill(half.right) <= LeafCap
  BY DEF HalvesFit
<1> DEFINE all == InsertAt(ents, SlotOf(ents, e.k), e)
           left == Halves(all).left
           right == Halves(all).right
<1>2. /\ all \in Seq(LeafEntry) /\ SortedByKey(all) /\ Len(all) = Len(ents) + 1 /\ Len(all) >= 1
      /\ Fill(all) = Fill(ents) + Size[e.v] /\ Fill(ents) <= LeafCap /\ Len(ents) \in Nat
  BY <1>1, Overfull, EntryRoom DEF LeafOk
<1>3. Size[e.v] \in Nat /\ Size[e.v] <= LeafCap /\ LeafCap \in Nat /\ e.v \in Values
  BY SizeAssumption, NodeAssumption DEF LeafEntry
<1>4. Len(ents) # 0
  <2>1. SUFFICES ASSUME Len(ents) = 0 PROVE FALSE
    OBVIOUS
  <2>2. ents = <<>>
    BY <2>1, EmptySeq
  <2>3. Fill(ents) = 0
    BY <2>2, FillEmpty
  <2>4. QED
    BY <1>1, <1>3, <2>3
<1> HIDE DEF all
<1>5. /\ left \in Seq(LeafEntry) /\ right \in Seq(LeafEntry)
      /\ Fill(all) = Fill(left) + Fill(right) /\ Len(right) >= 1 /\ (Len(all) >= 2 => Len(left) >= 1)
  BY <1>2, HalvesSorted
<1> HIDE DEF left, right
<1>6. ASSUME NEW s \in Seq(LeafEntry), Len(s) >= 1
      PROVE  Fill(s) >= Size[e.v] /\ Fill(s) \in Nat
  <2>1. /\ SubSeq(s, 1, 1) \in Seq(LeafEntry) /\ Len(SubSeq(s, 1, 1)) = 1
        /\ SubSeq(s, 1, 1)[1] = s[1] /\ Fill(SubSeq(s, 1, 1)) <= Fill(s)
    <3>1. 1 \in 0 .. Len(s) /\ 1 \in 1 .. 1
      BY <1>6, EntryRoom
    <3>2. QED
      BY <3>1, Started
  <2>2. s[1] \in LeafEntry /\ s[1].v \in Values
    BY <1>6, EntryRoom
  <2>3. <<s[1]>> \in Seq(LeafEntry) /\ Len(<<s[1]>>) = 1 /\ <<s[1]>>[1] = s[1]
        /\ Fill(<<s[1]>>) = Size[s[1].v]
    BY <2>2, FillOne
  <2>4. SubSeq(s, 1, 1) = <<s[1]>>
    <3> DEFINE a == SubSeq(s, 1, 1)
               b == <<s[1]>>
    <3>1. /\ a \in Seq(LeafEntry) /\ b \in Seq(LeafEntry)
          /\ Len(a) = 1 /\ Len(b) = 1 /\ a[1] = b[1]
      BY <2>1, <2>3
    <3> HIDE DEF a, b
    <3>2. \A i \in 1 .. Len(a) : a[i] = b[i]
      BY <3>1
    <3>3. a = b
      BY <3>1, <3>2, SeqEqual
    <3>4. QED
      BY <3>3 DEF a, b
  <2>5. Size[s[1].v] = Size[e.v]
    BY <1>3, <2>2
  <2>6. QED
    BY <2>1, <2>3, <2>4, <2>5, FillType
<1>7. Fill(left) >= Size[e.v] /\ Fill(left) \in Nat
  BY <1>2, <1>4, <1>5, <1>6
<1>8. Fill(right) >= Size[e.v] /\ Fill(right) \in Nat
  BY <1>5, <1>6
<1>9. Fill(ents) \in Nat
  BY <1>1, FillType
<1>10. Fill(left) <= LeafCap /\ Fill(right) <= LeafCap
  BY <1>2, <1>3, <1>5, <1>7, <1>8, <1>9
<1>11. QED
  BY <1>10 DEF left, right, all

LEMMA ForkedUnder ==
  ASSUME NEW st, NEW r, NEW k \in Keys, NEW v \in Values, HalvesFit, LeafOk(LeafEnts(st, r, k)),
         ~Holds(LeafEnts(st, r, k), k), Fill(LeafEnts(st, r, k)) + Size[v] > LeafCap,
         NEW st2, NEW r2,
         Forked(st, r, st2, r2, Halves(InsertAt(LeafEnts(st, r, k), SlotOf(LeafEnts(st, r, k), k),
                                                [k |-> k, v |-> v])))
  PROVE  PutUnder(st, r, st2, r2, k, {[k |-> k, v |-> v]})
<1> DEFINE ents == LeafEnts(st, r, k)
           e == [k |-> k, v |-> v]
           all == InsertAt(ents, SlotOf(ents, e.k), e)
           half == Halves(all)
<1>1. k \in Nat /\ e \in LeafEntry /\ e.k = k /\ e.v = v /\ ents \in Seq(LeafEntry)
  BY KeysAssumption DEF LeafEntry, LeafOk
<1>2. /\ Forked(st, r, st2, r2, half) /\ ~Holds(ents, e.k) /\ LeafOk(ents)
      /\ Fill(ents) + Size[e.v] > LeafCap
  BY <1>1
<1>3. Fill(half.left) <= LeafCap /\ Fill(half.right) <= LeafCap
  BY <1>1, <1>2 DEF HalvesFit
<1>4. \A x : LeafEnts(st, r, x) = ents
  BY <1>2, NotBoth DEF Forked, LeafEnts
<1> HIDE DEF e, ents
<1>5. all \in Seq(LeafEntry) /\ SortedByKey(all) /\ Len(all) >= 1 /\ ToSet(all) = ToSet(ents) \cup {e}
  BY <1>1, <1>2, Overfull
<1> HIDE DEF all
<1>6. /\ half.left \in Seq(LeafEntry) /\ half.right \in Seq(LeafEntry)
      /\ ToSet(all) = ToSet(half.left) \cup ToSet(half.right)
      /\ \A f \in ToSet(half.left) : f.k < half.key
      /\ \A f \in ToSet(half.right) : f.k >= half.key
  BY <1>5, HalvesSorted
<1>7. half.key \in Nat
  BY <1>5, HalvesTypes, KeysAssumption
<1>8. /\ ForkAt(st2, r2) /\ Fork(st2, r2).k = half.key
      /\ Low(st2, r2) = Rebuild(half.left) /\ High(st2, r2) = Rebuild(half.right)
  BY <1>2 DEF Forked
<1> HIDE DEF half
<1>9. Low(st2, r2) = half.left /\ High(st2, r2) = half.right
  BY <1>3, <1>6, <1>8, RebuildAll
<1>10. \A x : LeafEnts(st2, r2, x) = IF x < half.key THEN half.left ELSE half.right
  BY <1>8, <1>9, NotBoth DEF LeafEnts
<1>11. ASSUME NEW x \in Keys
       PROVE  IF x = k THEN Under(LeafEnts(st2, r2, x), x) = {e}
              ELSE SameUnder(st, r, st2, r2, x)
  <2>1. x \in Nat
    BY KeysAssumption
  <2>2. Under(LeafEnts(st2, r2, x), x) = {f \in ToSet(all) : f.k = x}
    <3>1. CASE x < half.key
      <4>1. \A f \in ToSet(half.right) : f.k # x
        BY <1>6, <1>7, <2>1, <3>1
      <4>2. QED
        BY <1>6, <1>10, <3>1, <4>1 DEF Under
    <3>2. CASE ~(x < half.key)
      <4>1. \A f \in ToSet(half.left) : f.k # x
        BY <1>6, <1>7, <2>1, <3>2
      <4>2. QED
        BY <1>6, <1>10, <3>2, <4>1 DEF Under
    <3>3. QED
      BY <3>1, <3>2
  <2>3. CASE x = k
    <3>1. \A f \in ToSet(ents) : f.k # k
      BY <1>1, <1>2, SortedFacts
    <3>2. QED
      BY <1>1, <1>5, <2>2, <2>3, <3>1
  <2>4. CASE x # k
    BY <1>1, <1>4, <1>5, <2>2, <2>4 DEF SameUnder, Under
  <2>5. QED
    BY <2>3, <2>4
<1>12. QED
  BY <1>11 DEF PutUnder, e

\* What a call that returns 0 makes of the map, and what the other calls do.
LEMMA InsertUnder ==
  ASSUME HalvesFit, NEW st, Good(st), NEW r, SmallTree(st, r), Ordered(st, r),
         NEW k \in Keys, NEW v \in Values, ~Overfills(st, r, k, v),
         NEW res, Inserted(st, r, [k |-> k, v |-> v], res), res.rc = 0
  PROVE  PutUnder(st, r, res.st, res.root, k, {[k |-> k, v |-> v]})
<1> DEFINE e == [k |-> k, v |-> v]
           ents == LeafEnts(st, r, k)
<1>1. k \in Nat /\ e \in LeafEntry /\ e.k = k /\ e.v = v
  BY KeysAssumption DEF LeafEntry
<1>2. LeafOk(ents)
  BY <1>1, LeafOfOrdered
<1>3. /\ ~MustSplit(st, r, k, v) /\ ~Holds(ents, k) => Fill(ents) + Size[v] <= LeafCap
      /\ MustSplit(st, r, k, v) => ~Holds(ents, k) /\ ~(Fill(ents) + Size[v] <= LeafCap)
      /\ Holds(ents, k) => Fill(ents) - Size[ents[SlotOf(ents, k)].v] + Size[v] <= LeafCap
  BY RoomFor
<1> HIDE DEF e, ents
<1>4. \/ /\ ~MustSplit(st, r, k, v) /\ Edited(st, r, k, res.st, res.root, Placed(ents, e))
      \/ /\ MustSplit(st, r, k, v)
         /\ Forked(st, r, res.st, res.root, Halves(InsertAt(ents, SlotOf(ents, k), e)))
  BY <1>1 DEF Inserted, Fault, e, ents
<1>5. CASE ~MustSplit(st, r, k, v) /\ Edited(st, r, k, res.st, res.root, Placed(ents, e))
  <2>1. ToSet(Placed(ents, e)) = Without(ents, k) \cup {e}
    BY <1>1, <1>2, <1>3, <1>5, PlacedOk
  <2> DEFINE placed == Placed(ents, e)
             put == {e}
  <2>2. \A f \in put : f.k = k
    BY <1>1
  <2> HIDE DEF placed, put
  <2>3. /\ Edited(st, r, k, res.st, res.root, placed)
        /\ ToSet(placed) = Without(LeafEnts(st, r, k), k) \cup put
    BY <1>5, <2>1 DEF placed, put, ents
  <2>4. PutUnder(st, r, res.st, res.root, k, put)
    BY <2>2, <2>3, EditedUnder
  <2>5. QED
    BY <2>4 DEF put, e
<1>6. CASE MustSplit(st, r, k, v)
           /\ Forked(st, r, res.st, res.root, Halves(InsertAt(ents, SlotOf(ents, k), e)))
  <2>1. ~Holds(ents, k) /\ Fill(ents) + Size[v] > LeafCap
    <3>1. Fill(ents) \in Nat /\ Size[v] \in Nat /\ LeafCap \in Nat
      BY <1>2, FillType, SizeAssumption, NodeAssumption DEF LeafOk
    <3>2. QED
      BY <1>3, <1>6, <3>1
  <2>2. QED
    BY <1>2, <1>6, <2>1, ForkedUnder DEF ents, e
<1>7. QED
  BY <1>4, <1>5, <1>6

LEMMA DeleteUnder ==
  ASSUME NEW st, Good(st), NEW r, SmallTree(st, r), Ordered(st, r), NEW k \in Keys,
         NEW res, Deleted(st, r, k, res), res.rc = 0
  PROVE  /\ PutUnder(st, r, res.st, res.root, k, {})
         /\ Got(Under(LeafEnts(st, r, k), k)) # None
<1> DEFINE ents == LeafEnts(st, r, k)
           left == RemoveAt(ents, SlotOf(ents, k))
           none == {}
<1>1. k \in Nat /\ LeafOk(ents)
  BY KeysAssumption, LeafOfOrdered
<1>2. Holds(ents, k) /\ Edited(st, r, k, res.st, res.root, left)
  BY DEF Deleted
<1>3. LeafOk(left) /\ ToSet(left) = Without(ents, k) \cup none
  BY <1>1, <1>2, RemovedOk
<1>4. \A f \in none : f.k = k
  OBVIOUS
<1> HIDE DEF left, none
<1>5. PutUnder(st, r, res.st, res.root, k, none)
  BY <1>2, <1>3, <1>4, EditedUnder
<1> HIDE DEF ents
<1>6. Got(Under(ents, k)) # None
  BY <1>1, <1>2, GotHeld DEF LeafOk
<1>7. QED
  BY <1>5, <1>6 DEF none, ents

\* What the map is after a step that puts something under one key, or nothing.
LEMMA MapPut ==
  ASSUME NEW st, Good(st), NEW r, SmallTree(st, r), NEW st2, Good(st2), NEW r2, SmallTree(st2, r2),
         NEW k \in Keys, NEW put, PutUnder(st, r, st2, r2, k, put)
  PROVE  Contents(st2, r2) = [Contents(st, r) EXCEPT ![k] = Got(put)]
<1>1. ASSUME NEW x \in Keys
      PROVE  Search(st2, r2, x) = IF x = k THEN Got(put) ELSE Search(st, r, x)
  <2>1. /\ Search(st2, r2, x) = Got(Under(LeafEnts(st2, r2, x), x))
        /\ Search(st, r, x) = Got(Under(LeafEnts(st, r, x), x))
    BY SearchUnder
  <2>2. QED
    BY <2>1 DEF PutUnder, SameUnder
<1>2. QED
  BY <1>1 DEF Contents

LEMMA MapSame ==
  ASSUME NEW st, Good(st), NEW r, SmallTree(st, r), NEW st2, Good(st2), NEW r2, SmallTree(st2, r2),
         SameEnts(st, r, st2, r2)
  PROVE  Contents(st2, r2) = Contents(st, r)
<1>1. ASSUME NEW x \in Keys
      PROVE  Search(st2, r2, x) = Search(st, r, x)
  <2>1. /\ Search(st2, r2, x) = Got(Under(LeafEnts(st2, r2, x), x))
        /\ Search(st, r, x) = Got(Under(LeafEnts(st, r, x), x))
    BY SearchUnder
  <2>2. LeafEnts(st2, r2, x) = LeafEnts(st, r, x)
    BY KeysAssumption DEF SameEnts
  <2>3. QED
    BY <2>1, <2>2
<1>2. QED
  BY <1>1 DEF Contents

----------------------------------------------------------------------------
(* The leaf chain. *)

FirstLeaf(st, r) == IF r = 0 \/ LeafAt(st, r) THEN r ELSE Fork(st, r).l

LEMMA LeftmostOfTree ==
  ASSUME NEW st \in StoresOf(NodePage), NEW r, SmallTree(st, r)
  PROVE  Leftmost(st, r) = FirstLeaf(st, r)
<1> DEFINE Walk(pn) == IF EndsWalk(st, pn) THEN pn
                       ELSE IF Ents(st.pages[pn]) = <<>> THEN 0
                       ELSE Ents(st.pages[pn])[1].l
           next(f) == [d \in 1 .. MaxDepth |-> IF d = 1 THEN r ELSE Walk(f[d - 1])]
           first == FirstLeaf(st, r)
           g == [d \in 1 .. MaxDepth |-> IF d = 1 THEN r ELSE first]
<1>1. MaxDepth \in Nat /\ MaxDepth >= 2
  BY NodeAssumption
<1>2. \A pn : pn = 0 \/ LeafAt(st, pn) => EndsWalk(st, pn)
  BY DEF LeafAt, EndsWalk, IsLeaf, PageNos
<1>3. Walk(r) = first /\ Walk(first) = first
  <2>1. CASE r = 0 \/ LeafAt(st, r)
    <3>1. EndsWalk(st, r) /\ first = r
      BY <1>2, <2>1 DEF FirstLeaf
    <3> HIDE DEF first
    <3>2. QED
      BY <3>1
  <2>2. CASE ~(r = 0 \/ LeafAt(st, r))
    <3>1. ForkAt(st, r) /\ first = Fork(st, r).l /\ 0 \in Nat
      BY <2>2 DEF SmallTree, FirstLeaf
    <3>2. /\ r \in PageNos(st) /\ ~IsLeaf(st.pages[r]) /\ Len(Ents(st.pages[r])) = 1
          /\ Fork(st, r) = Ents(st.pages[r])[1] /\ Ents(st.pages[r]) \in Seq(BranchEntry)
      BY <3>1, ForkTypes
    <3>3. Ents(st.pages[r]) # <<>>
      <4>1. Len(<<>>) = 0
        OBVIOUS
      <4>2. QED
        BY <3>2, <4>1
    <3>4. LeafAt(st, first)
      BY <3>1 DEF ForkAt
    <3>5. EndsWalk(st, first) /\ ~EndsWalk(st, r)
      BY <1>2, <3>2, <3>4 DEF EndsWalk
    <3> HIDE DEF first
    <3>6. QED
      BY <3>1, <3>2, <3>3, <3>5
  <2>3. QED
    BY <2>1, <2>2
<1> DEFINE down == CHOOSE f : f = next(f)
<1>4. Leftmost(st, r) = down[MaxDepth]
  BY DEF Leftmost
<1> HIDE DEF Walk, first
<1>5. g = next(g)
  <2>1. \A d \in 1 .. MaxDepth : d # 1 => Walk(g[d - 1]) = first
    <3>1. TAKE d \in 1 .. MaxDepth
    <3>2. d # 1 => d - 1 \in 1 .. MaxDepth
      BY <1>1
    <3>3. QED
      BY <3>2, <1>3
  <2>2. \A d \in 1 .. MaxDepth : g[d] = next(g)[d]
    BY <2>1
  <2>3. QED
    BY <2>2
<1>6. down = next(down)
  <2> HIDE DEF next, g
  <2>1. QED
    BY <1>5
<1> HIDE DEF down
<1>7. \A d \in 1 .. MaxDepth : down[d] = g[d]
  <2> DEFINE wrong == {d \in 1 .. MaxDepth : down[d] # g[d]}
  <2>1. SUFFICES ASSUME wrong # {} PROVE FALSE
    OBVIOUS
  <2>2. wrong \subseteq Nat
    OBVIOUS
  <2>3. PICK d \in wrong : \A j \in wrong : d <= j
    <3> HIDE DEF wrong
    <3>1. QED
      BY <2>1, <2>2, LeastNat
  <2>4. d \in 1 .. MaxDepth /\ down[d] # g[d]
    BY <2>3
  <2>5. d # 1 => d - 1 \in 1 .. MaxDepth /\ down[d - 1] = g[d - 1]
    <3>1. d # 1 => d - 1 \in 1 .. MaxDepth /\ d - 1 < d
      BY <2>4, <1>1
    <3>2. QED
      BY <3>1, <2>3, <1>1
  <2>6. down[d] = next(down)[d] /\ g[d] = next(g)[d]
    BY <1>5, <1>6
  <2> HIDE DEF wrong, g
  <2>7. QED
    BY <2>4, <2>5, <2>6
<1>8. MaxDepth \in 1 .. MaxDepth /\ g[MaxDepth] = first
  BY <1>1
<1>9. QED
  BY <1>4, <1>7, <1>8 DEF first

\* What a scan goes on to after the pages before: one page more, or no more.
Onward(st, r, before) ==
    LET pn == IF before = <<>> THEN 0 ELSE NextOf(st, Last(before))
    IN  IF pn \in PageNos(st) THEN Append(before, pn) ELSE before
Begin(st, r) == IF FirstLeaf(st, r) \in PageNos(st) THEN <<FirstLeaf(st, r)>> ELSE <<>>

LEMMA ChainSteps ==
  ASSUME NEW st \in StoresOf(NodePage), NEW r, SmallTree(st, r)
  PROVE  \E visited \in [0 .. Len(st.pages) -> Seq(PageNos(st))] :
            /\ visited[0] = Begin(st, r) /\ Chain(st, r) = visited[Len(st.pages)]
            /\ \A i \in 1 .. Len(st.pages) : visited[i] = Onward(st, r, visited[i - 1])
<1> DEFINE N == Len(st.pages)
           V == Seq(PageNos(st))
           More(before) == Onward(st, r, before)
           Pn(n, before) == IF n = 0 THEN Leftmost(st, r)
                            ELSE IF before = <<>> THEN 0 ELSE st.pages[Last(before)].rest.next
           Step(n, before) == IF Pn(n, before) \in PageNos(st) THEN Append(before, Pn(n, before)) ELSE before
           next(f) == [n \in 0 .. N |-> Step(n, IF n = 0 THEN <<>> ELSE f[n - 1])]
           visited == CHOOSE f : f = next(f)
<1>1. N \in Nat /\ <<>> \in V
  BY EmptySeq DEF StoresOf
<1>2. Chain(st, r) = visited[N]
  BY DEF Chain
<1>3. Step(0, <<>>) = Begin(st, r) /\ \A n \in 1 .. N : \A before : Step(n, before) = More(before)
  <2>1. Leftmost(st, r) = FirstLeaf(st, r)
    BY LeftmostOfTree
  <2> DEFINE first == FirstLeaf(st, r)
  <2>2. Append(<<>>, first) = <<first>>
    OBVIOUS
  <2>3. Pn(0, <<>>) = first
    BY <2>1
  <2>4. Step(0, <<>>) = Begin(st, r)
    <3> HIDE DEF first, Pn
    <3>1. QED
      BY <2>2, <2>3 DEF Begin, first
  <2>5. ASSUME NEW n \in 1 .. N, NEW before PROVE Step(n, before) = More(before)
    <3>1. n # 0
      BY <1>1
    <3>2. Pn(n, before) = IF before = <<>> THEN 0 ELSE NextOf(st, Last(before))
      BY <3>1 DEF NextOf
    <3> HIDE DEF Pn
    <3>3. QED
      BY <3>2 DEF Onward
  <2>6. QED
    BY <2>4, <2>5
<1>4. \A before \in V : More(before) \in V
  BY AppendProperties DEF Onward
<1>5. Begin(st, r) \in V
  <2>1. FirstLeaf(st, r) \in PageNos(st) => <<FirstLeaf(st, r)>> \in V
    OBVIOUS
  <2>2. QED
    BY <1>1, <2>1 DEF Begin
<1> HIDE DEF V, More, Step
<1>6. PICK f \in [0 .. N -> V] : f[0] = Begin(st, r) /\ \A i \in 1 .. N : f[i] = More(f[i - 1])
  <2> DEFINE walk == [before \in V |-> More(before)]
  <2>1. walk \in [V -> V]
    BY <1>4
  <2>3. \A before \in V : walk[before] = More(before)
    OBVIOUS
  <2> HIDE DEF walk
  <2> DEFINE b == Begin(st, r)
  <2>2. PICK f \in [0 .. N -> V] : f[0] = b /\ \A i \in 1 .. N : f[i] = walk[f[i - 1]]
    <3>1. b \in V
      BY <1>5
    <3> HIDE DEF b, N
    <3>2. N \in Nat
      BY <1>1 DEF N
    <3>3. QED
      BY <2>1, <3>1, <3>2, Repeats
  <2>4. \A i \in 1 .. N : i - 1 \in 0 .. N /\ f[i - 1] \in V
    BY <1>1
  <2>5. QED
    BY <2>2, <2>3, <2>4
<1> HIDE DEF N
<1>7. f = next(f)
  <2>1. \A n \in 0 .. N : f[n] = next(f)[n]
    <3>1. TAKE n \in 0 .. N
    <3>2. CASE n = 0
      BY <1>3, <1>6, <3>2
    <3>3. CASE n # 0
      <4>1. n \in 1 .. N
        BY <1>1, <3>3
      <4>2. QED
        BY <1>3, <1>6, <3>3, <4>1
    <3>4. QED
      BY <3>2, <3>3
  <2>2. QED
    BY <2>1
<1>8. visited = next(visited)
  <2> HIDE DEF next
  <2>1. QED
    BY <1>7
<1> HIDE DEF visited
<1>9. visited[0] = Begin(st, r) /\ \A i \in 1 .. N : visited[i] = More(visited[i - 1])
  <2>1. 0 \in 0 .. N /\ \A i \in 1 .. N : i \in 0 .. N /\ i # 0
    BY <1>1
  <2>2. QED
    BY <1>3, <1>8, <2>1
<1>10. \A i \in 0 .. N : visited[i] \in V
  <2> DEFINE T == {i \in 0 .. N : visited[i] \in V}
  <2>1. 0 \in T
    BY <1>1, <1>5, <1>9
  <2>2. ASSUME NEW i \in 1 .. N, i - 1 \in T PROVE i \in T
    BY <1>1, <1>4, <1>9, <2>2
  <2> HIDE DEF T
  <2>3. \A i \in 0 .. N : i \in T
    BY <1>1, <2>1, <2>2, Upwards
  <2>4. QED
    BY <2>3 DEF T
<1>11. visited \in [0 .. N -> V]
  <2>1. visited = [n \in 0 .. N |-> visited[n]]
    BY <1>8
  <2> HIDE DEF next
  <2>2. QED
    BY <1>10, <2>1
<1>12. QED
  BY <1>2, <1>9, <1>11 DEF N, V, More

\* c leads from the first leaf along next_leaf; it has come to the end.
Way(st, r, c) ==
    /\ c \in Seq(PageNos(st))
    /\ c = <<>> => FirstLeaf(st, r) \notin PageNos(st)
    /\ c # <<>> => c[1] = FirstLeaf(st, r)
    /\ \A i \in 1 .. Len(c) - 1 : c[i + 1] = NextOf(st, c[i])
ChainStops(st, c) == c = <<>> \/ NextOf(st, c[Len(c)]) \notin PageNos(st)

LEMMA OnwardFacts ==
  ASSUME NEW st \in StoresOf(NodePage), NEW r, NEW c, Way(st, r, c)
  PROVE  /\ Way(st, r, Onward(st, r, c))
         /\ ChainStops(st, c) => Onward(st, r, c) = c
         /\ ~ChainStops(st, c) => Len(Onward(st, r, c)) = Len(c) + 1
<1>1. c \in Seq(PageNos(st)) /\ Len(c) \in Nat
  BY LenProperties DEF Way
<1>2. CASE ChainStops(st, c)
  <2>1. CASE c = <<>>
    BY <1>2, <2>1 DEF Onward, PageNos
  <2>2. CASE c # <<>>
    <3>1. Last(c) = c[Len(c)] /\ NextOf(st, c[Len(c)]) \notin PageNos(st)
      BY <1>2, <2>2 DEF Last, ChainStops
    <3>2. Onward(st, r, c) = c
      BY <2>2, <3>1 DEF Onward
    <3>3. QED
      BY <1>2, <3>2
  <2>3. QED
    BY <1>2, <2>1, <2>2
<1>3. CASE ~ChainStops(st, c)
  <2> DEFINE pn == NextOf(st, c[Len(c)])
             d == Append(c, pn)
  <2>1. c # <<>> /\ pn \in PageNos(st) /\ Last(c) = c[Len(c)]
    BY <1>3 DEF ChainStops, Last
  <2>2. Onward(st, r, c) = d
    BY <2>1 DEF Onward
  <2>3. Len(c) >= 1
    BY <1>1, <2>1, EmptySeq
  <2> HIDE DEF pn
  <2>4. d \in Seq(PageNos(st)) /\ Len(d) = Len(c) + 1
        /\ \A i \in 1 .. Len(c) : d[i] = c[i]
        /\ d[Len(c) + 1] = pn
    BY <1>1, <2>1, AppendProperties
  <2> HIDE DEF d
  <2>5. d # <<>> /\ d[1] = FirstLeaf(st, r)
    <3>1. d # <<>>
      <4>1. Len(<<>>) = 0
        OBVIOUS
      <4>2. QED
        BY <1>1, <2>4, <4>1
    <3>2. c[1] = FirstLeaf(st, r)
      BY <2>1 DEF Way
    <3>3. QED
      BY <1>1, <2>3, <2>4, <3>1, <3>2
  <2>6. ASSUME NEW i \in 1 .. Len(d) - 1 PROVE d[i + 1] = NextOf(st, d[i])
    <3>1. i \in 1 .. Len(c) /\ d[i] = c[i]
      BY <1>1, <2>4
    <3>2. CASE i = Len(c)
      BY <2>4, <3>1, <3>2 DEF pn
    <3>3. CASE i # Len(c)
      <4>1. i \in 1 .. Len(c) - 1 /\ i + 1 \in 1 .. Len(c)
        BY <1>1, <3>1, <3>3
      <4>2. c[i + 1] = NextOf(st, c[i])
        BY <4>1 DEF Way
      <4>3. QED
        BY <2>4, <3>1, <4>1, <4>2
    <3>4. QED
      BY <3>2, <3>3
  <2>7. Way(st, r, d)
    BY <2>4, <2>5, <2>6 DEF Way
  <2>8. QED
    BY <1>3, <2>2, <2>4, <2>7
<1>4. QED
  BY <1>2, <1>3

LEMMA ChainFacts ==
  ASSUME NEW st \in StoresOf(NodePage), NEW r, SmallTree(st, r)
  PROVE  /\ Way(st, r, Chain(st, r))
         /\ ScanEnds(st, r) => ChainStops(st, Chain(st, r))
<1> DEFINE N == Len(st.pages)
<1>1. N \in Nat
  BY DEF StoresOf
<1>2. PICK visited \in [0 .. N -> Seq(PageNos(st))] :
         /\ visited[0] = Begin(st, r) /\ Chain(st, r) = visited[N]
         /\ \A i \in 1 .. N : visited[i] = Onward(st, r, visited[i - 1])
  BY ChainSteps
<1> DEFINE So(n) == Way(st, r, visited[n]) /\ (ChainStops(st, visited[n]) \/ Len(visited[n]) = n + 1)
           T == {n \in 0 .. N : So(n)}
<1>3. So(0)
  <2> DEFINE first == FirstLeaf(st, r)
  <2>1. CASE first \in PageNos(st)
    <3>1. visited[0] = <<first>>
      BY <1>2, <2>1 DEF Begin
    <3> HIDE DEF first
    <3>2. /\ <<first>> \in Seq(PageNos(st)) /\ Len(<<first>>) = 1 /\ <<first>> # <<>> /\ <<first>>[1] = first
      BY <2>1
    <3> DEFINE c == <<first>>
    <3> HIDE DEF c
    <3>3. /\ c \in Seq(PageNos(st)) /\ Len(c) = 1 /\ c # <<>> /\ c[1] = FirstLeaf(st, r)
      BY <3>2 DEF c, first
    <3>4. Way(st, r, c)
      BY <3>3 DEF Way
    <3>5. Len(c) = 0 + 1
      BY <3>3
    <3>6. QED
      BY <3>1, <3>4, <3>5 DEF c
  <2>2. CASE first \notin PageNos(st)
    <3>1. visited[0] = <<>>
      BY <1>2, <2>2 DEF Begin
    <3>2. <<>> \in Seq(PageNos(st)) /\ Len(<<>>) = 0
      OBVIOUS
    <3> DEFINE c == <<>>
    <3>3. c \in Seq(PageNos(st)) /\ Len(c) = 0 /\ c = <<>>
      BY <3>2
    <3> HIDE DEF c, first
    <3>4. Way(st, r, c)
      BY <2>2, <3>3 DEF Way, first
    <3>5. ChainStops(st, c)
      BY <3>3 DEF ChainStops
    <3>6. QED
      BY <3>1, <3>4, <3>5 DEF c
  <2>3. QED
    BY <2>1, <2>2
<1>4. ASSUME NEW i \in 1 .. N, So(i - 1) PROVE So(i)
  <2> DEFINE c == visited[i - 1]
             d == visited[i]
  <2>1. d = Onward(st, r, c) /\ Way(st, r, c) /\ (ChainStops(st, c) \/ Len(c) = (i - 1) + 1)
    BY <1>2, <1>4
  <2> HIDE DEF c, d
  <2>2. /\ Way(st, r, d) /\ (ChainStops(st, c) => d = c) /\ (~ChainStops(st, c) => Len(d) = Len(c) + 1)
    BY <2>1, OnwardFacts
  <2>3. ChainStops(st, d) \/ Len(d) = i + 1
    <3>1. CASE ChainStops(st, c)
      BY <2>2, <3>1
    <3>2. CASE ~ChainStops(st, c)
      BY <1>1, <2>1, <2>2, <3>2
    <3>3. QED
      BY <3>1, <3>2
  <2>4. QED
    BY <2>2, <2>3 DEF d
<1> HIDE DEF So
<1>5. 0 \in T /\ \A i \in 1 .. N : i - 1 \in T => i \in T
  BY <1>1, <1>3, <1>4
<1> HIDE DEF T, N
<1>6. \A i \in 0 .. N : i \in T
  <2>1. N \in Nat
    BY <1>1 DEF N
  <2>2. QED
    BY <1>5, <2>1, Upwards
<1>7. So(N)
  BY <1>1, <1>6 DEF T
<1>8. Way(st, r, Chain(st, r)) /\ (ChainStops(st, Chain(st, r)) \/ Len(Chain(st, r)) = N + 1)
  BY <1>2, <1>7 DEF So
<1>9. Len(Chain(st, r)) <= N => ChainStops(st, Chain(st, r))
  BY <1>1, <1>8
<1>10. QED
  BY <1>8, <1>9 DEF ScanEnds, N

LEMMA LeavesOfTree ==
  ASSUME NEW st \in StoresOf(NodePage), NEW r, SmallTree(st, r)
  PROVE  /\ r = 0 => Leaves(st, r) = {}
         /\ LeafAt(st, r) => Leaves(st, r) = {r}
         /\ ForkAt(st, r) => Leaves(st, r) = {Fork(st, r).l, Fork(st, r).r}
<1>1. Leaves(st, r) = {pn \in TreePages(st, r) : IsLeaf(st.pages[pn])}
  BY ReachableOfTree DEF Leaves
<1>2. \A pn : LeafAt(st, pn) => IsLeaf(st.pages[pn])
  BY DEF LeafAt, IsLeaf
<1>3. r = 0 => Leaves(st, r) = {}
  BY <1>1 DEF TreePages
<1>4. LeafAt(st, r) => Leaves(st, r) = {r}
  BY <1>1, <1>2, NotBoth DEF TreePages
<1>5. ASSUME ForkAt(st, r) PROVE Leaves(st, r) = {Fork(st, r).l, Fork(st, r).r}
  <2>1. 0 \in Nat
    OBVIOUS
  <2>2. ~IsLeaf(st.pages[r]) /\ ~LeafAt(st, r) /\ r # 0
    BY <1>5, <2>1, ForkTypes
  <2>3. LeafAt(st, Fork(st, r).l) /\ LeafAt(st, Fork(st, r).r)
    BY <1>5 DEF ForkAt
  <2>4. TreePages(st, r) = {r, Fork(st, r).l, Fork(st, r).r}
    BY <2>2 DEF TreePages
  <2>5. QED
    BY <1>1, <1>2, <2>2, <2>3, <2>4
<1>6. QED
  BY <1>3, <1>4, <1>5

LEMMA LinkedChain ==
  ASSUME NEW st \in StoresOf(NodePage), NEW r, SmallTree(st, r), r # 0, LeavesLinked(st, r)
  PROVE  LET c == Chain(st, r)
         IN  /\ LeafAt(st, r) => /\ Len(c) = 1 /\ c[1] = r /\ NextOf(st, r) \notin PageNos(st)
             /\ ForkAt(st, r) => /\ Len(c) = 2 /\ c[1] = Fork(st, r).l /\ c[2] = Fork(st, r).r
                                 /\ NextOf(st, Fork(st, r).l) = Fork(st, r).r
                                 /\ NextOf(st, Fork(st, r).r) \notin PageNos(st)
             /\ c \in Seq(Nat)
<1> DEFINE c == Chain(st, r)
<1>1. Way(st, r, c) /\ ChainStops(st, c) /\ ToSet(c) = Leaves(st, r)
  BY ChainFacts DEF LeavesLinked
<1> HIDE DEF c
<1>2. /\ c \in Seq(PageNos(st)) /\ Len(c) \in Nat /\ DOMAIN c = 1 .. Len(c)
      /\ \A i \in 1 .. Len(c) : c[i] \in PageNos(st)
  <2>1. c \in Seq(PageNos(st))
    BY <1>1 DEF Way
  <2>2. QED
    BY <2>1, LenProperties, ElementOfSeq
<1>3. ToSet(c) = {c[i] : i \in 1 .. Len(c)}
  BY <1>2 DEF ToSet
<1>4. c \in Seq(Nat)
  <2>1. PageNos(st) \subseteq Nat
    BY DEF PageNos
  <2>2. \A i \in 1 .. Len(c) : c[i] \in Nat
    BY <1>2, <2>1
  <2>3. QED
    BY <1>2, <2>2, SeqDef
<1>5. c # <<>> => Len(c) >= 1
  BY <1>2, EmptySeq
<1>6. CASE LeafAt(st, r)
  <2>1. {c[i] : i \in 1 .. Len(c)} = {r}
    BY <1>1, <1>3, <1>6, LeavesOfTree
  <2>2. \A i \in 1 .. Len(c) : c[i] = r
    BY <2>1
  <2>3. c # <<>>
    <3>1. c = <<>> => Len(c) = 0
      OBVIOUS
    <3>2. QED
      BY <1>2, <2>1, <3>1
  <2>4. NextOf(st, r) \notin PageNos(st)
    <3>1. Len(c) \in 1 .. Len(c)
      BY <1>2, <1>5, <2>3
    <3>2. QED
      BY <1>1, <2>2, <2>3, <3>1 DEF ChainStops
  <2>5. Len(c) = 1
    <3>1. SUFFICES ASSUME Len(c) # 1 PROVE FALSE
      OBVIOUS
    <3>2. 1 \in 1 .. Len(c) - 1 /\ 1 \in 1 .. Len(c) /\ 2 \in 1 .. Len(c)
      BY <1>2, <1>5, <2>3, <3>1
    <3>3. c[1 + 1] = NextOf(st, c[1])
      BY <1>1, <3>2 DEF Way
    <3>4. c[2] = NextOf(st, r) /\ c[2] \in PageNos(st)
      BY <1>2, <2>2, <3>2, <3>3
    <3>5. QED
      BY <2>4, <3>4
  <2>6. c[1] = r
    BY <2>2, <2>5
  <2>7. QED
    BY <1>4, <1>6, <2>4, <2>5, <2>6, NotBoth DEF c
<1>7. CASE ForkAt(st, r)
  <2> DEFINE left == Fork(st, r).l
             right == Fork(st, r).r
  <2>1. {c[i] : i \in 1 .. Len(c)} = {left, right}
    BY <1>1, <1>3, <1>7, LeavesOfTree
  <2>2. left # right /\ FirstLeaf(st, r) = left /\ ~LeafAt(st, r)
    BY <1>7, NotBoth DEF ForkAt, FirstLeaf
  <2> HIDE DEF left, right
  <2>3. PICK j \in 1 .. Len(c) : c[j] = right
    BY <2>1
  <2>4. c # <<>> /\ Len(c) >= 1
    <3>1. c = <<>> => Len(c) = 0
      OBVIOUS
    <3>2. QED
      BY <1>2, <1>5, <2>3, <3>1
  <2>5. c[1] = left
    BY <1>1, <2>2, <2>4 DEF Way
  <2>6. Len(c) >= 2
    <3>1. j # 1
      BY <2>2, <2>3, <2>5
    <3>2. QED
      BY <1>2, <2>3, <3>1
  <2>7. \A i \in 1 .. Len(c) - 1 : /\ i \in 1 .. Len(c) /\ i + 1 \in 1 .. Len(c)
                                   /\ c[i + 1] = NextOf(st, c[i]) /\ NextOf(st, c[i]) \in PageNos(st)
    <3>1. TAKE i \in 1 .. Len(c) - 1
    <3>2. i \in 1 .. Len(c) /\ i + 1 \in 1 .. Len(c)
      BY <1>2
    <3>3. c[i + 1] = NextOf(st, c[i])
      BY <1>1 DEF Way
    <3>4. QED
      BY <1>2, <3>2, <3>3
  <2>8. NextOf(st, c[Len(c)]) \notin PageNos(st) /\ Len(c) \in 1 .. Len(c)
    BY <1>1, <1>2, <2>4 DEF ChainStops
  <2>9. c[Len(c)] \in {left, right}
    BY <2>1, <2>8
  <2>10. NextOf(st, left) \in PageNos(st)
    <3>1. 1 \in 1 .. Len(c) - 1
      BY <1>2, <2>6
    <3>2. QED
      BY <2>5, <2>7, <3>1
  <2>11. c[Len(c)] = right /\ NextOf(st, right) \notin PageNos(st)
    BY <2>8, <2>9, <2>10
  <2>12. \A i \in 1 .. Len(c) - 1 : c[i] = left
    <3>1. TAKE i \in 1 .. Len(c) - 1
    <3>2. c[i] \in {left, right} /\ NextOf(st, c[i]) \in PageNos(st)
      BY <2>1, <2>7
    <3>3. QED
      BY <2>11, <3>2
  <2>13. Len(c) = 2
    <3>1. SUFFICES ASSUME Len(c) # 2 PROVE FALSE
      OBVIOUS
    <3>2. Len(c) - 1 \in 1 .. Len(c) - 1 /\ Len(c) - 2 \in 1 .. Len(c) - 1
          /\ Len(c) - 2 + 1 = Len(c) - 1 /\ Len(c) - 1 + 1 = Len(c)
      BY <1>2, <2>6, <3>1
    <3>3. c[Len(c) - 2 + 1] = NextOf(st, c[Len(c) - 2]) /\ c[Len(c) - 1 + 1] = NextOf(st, c[Len(c) - 1])
      BY <2>7, <3>2
    <3>4. c[Len(c) - 1] = left /\ c[Len(c) - 2] = left
      BY <2>12, <3>2
    <3>5. left = NextOf(st, left) /\ right = NextOf(st, left)
      BY <2>11, <3>2, <3>3, <3>4
    <3>6. QED
      BY <2>2, <3>5
  <2>14. NextOf(st, left) = right /\ c[2] = right
    <3>1. 1 \in 1 .. Len(c) - 1 /\ 1 + 1 = 2
      BY <2>13
    <3>2. c[1 + 1] = NextOf(st, c[1])
      BY <2>7, <3>1
    <3>3. QED
      BY <2>5, <2>11, <2>13, <3>1, <3>2
  <2>15. QED
    BY <1>4, <2>2, <2>5, <2>11, <2>13, <2>14 DEF c, left, right
<1>8. QED
  BY <1>6, <1>7 DEF SmallTree

----------------------------------------------------------------------------
(* What a scan yields. *)

\* One list, or two one after the other.
FlatTwo(seqs) == FlattenSeq(seqs) = IF Len(seqs) = 1 THEN seqs[1] ELSE seqs[1] \o seqs[2]

LEMMA FlattenTwo ==
  ASSUME NEW seqs, Len(seqs) \in {1, 2}
  PROVE  FlatTwo(seqs)
<1> DEFINE N == Len(seqs)
           next(f) == [i \in 1 .. N |-> IF i = 1 THEN seqs[i] ELSE f[i - 1] \o seqs[i]]
           flatten == CHOOSE f : f = next(f)
           g == [i \in 1 .. N |-> IF i = 1 THEN seqs[1] ELSE seqs[1] \o seqs[2]]
<1>1. FlattenSeq(seqs) = flatten[N]
  BY DEF FlattenSeq
<1> HIDE DEF N
<1>2. N \in {1, 2}
  BY DEF N
<1>3. g = next(g)
  <2>1. \A i \in 1 .. N : g[i] = next(g)[i]
    <3>1. TAKE i \in 1 .. N
    <3>2. CASE i = 1
      BY <3>2
    <3>3. CASE i # 1
      <4>1. i = 2 /\ i - 1 = 1 /\ 1 \in 1 .. N
        BY <1>2, <3>3
      <4>2. QED
        BY <3>3, <4>1
    <3>4. QED
      BY <3>2, <3>3
  <2>2. QED
    BY <2>1
<1>4. flatten = next(flatten)
  <2> HIDE DEF next, g
  <2>1. QED
    BY <1>3
<1> HIDE DEF flatten
<1>5. flatten[1] = seqs[1]
  BY <1>2, <1>4
<1>6. N = 2 => flatten[2] = flatten[1] \o seqs[2]
  <2>1. N = 2 => 2 \in 1 .. N /\ 2 # 1 /\ 2 - 1 = 1
    OBVIOUS
  <2>2. QED
    BY <1>4, <2>1
<1>7. QED
  BY <1>1, <1>2, <1>5, <1>6 DEF N, FlatTwo

\* The entries of a tree, leaf after leaf.
TreeEnts(st, r) ==
    IF r = 0 THEN <<>> ELSE IF LeafAt(st, r) THEN Ents(st.pages[r]) ELSE Low(st, r) \o High(st, r)

LEMMA ScanOfTree ==
  ASSUME NEW st \in StoresOf(NodePage), NEW r, SmallTree(st, r), LeavesLinked(st, r)
  PROVE  Scan(st, r) = TreeEnts(st, r)
<1> DEFINE c == Chain(st, r)
           seqs == [i \in DOMAIN c |-> AsLeafEntries(st.pages[c[i]])]
<1>1. Scan(st, r) = FlattenSeq(seqs)
  BY DEF Scan
<1>2. \A pn : LeafAt(st, pn) => AsLeafEntries(st.pages[pn]) = Ents(st.pages[pn])
  BY DEF LeafAt, AsLeafEntries, LeafWord, BranchWord
<1>3. CASE r = 0
  <2>1. c = <<>>
    <3>1. c \in Seq(PageNos(st)) /\ ToSet(c) = {}
      BY <1>3, ChainFacts, LeavesOfTree DEF Way, LeavesLinked
    <3> HIDE DEF c
    <3>2. DOMAIN c = 1 .. Len(c) /\ Len(c) \in Nat
      BY <3>1, LenProperties
    <3>3. DOMAIN c = {}
      BY <3>1 DEF ToSet
    <3>4. Len(c) = 0
      BY <3>2, <3>3
    <3>5. QED
      BY <3>1, <3>4, EmptySeq
  <2>2. DOMAIN c = {}
    BY <2>1
  <2> HIDE DEF c
  <2>3. seqs = <<>>
    BY <2>2
  <2>4. Len(seqs) = 0
    BY <2>3
  <2>5. FlattenSeq(seqs) = seqs
    BY <2>4 DEF FlattenSeq
  <2>6. QED
    BY <1>1, <1>3, <2>3, <2>5 DEF TreeEnts
<1>4. CASE r # 0
  <2>1. /\ LeafAt(st, r) => Len(c) = 1 /\ c[1] = r
        /\ ForkAt(st, r) => Len(c) = 2 /\ c[1] = Fork(st, r).l /\ c[2] = Fork(st, r).r
        /\ c \in Seq(Nat)
    BY <1>4, LinkedChain
  <2> HIDE DEF c
  <2>2. DOMAIN c = 1 .. Len(c)
    BY <2>1, LenProperties
  <2>3. LeafAt(st, r) \/ ForkAt(st, r)
    BY <1>4 DEF SmallTree
  <2>4. Len(c) \in {1, 2}
    BY <2>1, <2>3
  <2>5. Len(seqs) = Len(c)
    <3>1. seqs = [i \in 1 .. Len(c) |-> AsLeafEntries(st.pages[c[i]])]
      BY <2>2
    <3>2. QED
      BY <2>4, <3>1
  <2>6. \A i \in 1 .. Len(c) : seqs[i] = AsLeafEntries(st.pages[c[i]])
    BY <2>2
  <2> HIDE DEF seqs
  <2>7. FlattenSeq(seqs) = IF Len(seqs) = 1 THEN seqs[1] ELSE seqs[1] \o seqs[2]
    <3>1. Len(seqs) \in {1, 2}
      BY <2>4, <2>5
    <3>2. FlatTwo(seqs)
      BY <3>1, FlattenTwo
    <3>3. QED
      BY <3>2 DEF FlatTwo
  <2>8. CASE LeafAt(st, r)
    <3>1. Len(c) = 1 /\ seqs[1] = Ents(st.pages[r])
      BY <1>2, <2>1, <2>6, <2>8
    <3>2. QED
      BY <1>1, <1>4, <2>5, <2>7, <2>8, <3>1 DEF TreeEnts
  <2>9. CASE ForkAt(st, r)
    <3>1. LeafAt(st, Fork(st, r).l) /\ LeafAt(st, Fork(st, r).r) /\ ~LeafAt(st, r)
      BY <2>9, NotBoth DEF ForkAt
    <3>2. Len(c) = 2 /\ seqs[1] = AsLeafEntries(st.pages[Fork(st, r).l])
          /\ seqs[2] = AsLeafEntries(st.pages[Fork(st, r).r])
      <4>1. Len(c) = 2 /\ c[1] = Fork(st, r).l /\ c[2] = Fork(st, r).r
        BY <2>1, <2>9
      <4>2. 1 \in 1 .. Len(c) /\ 2 \in 1 .. Len(c)
        BY <4>1
      <4>3. QED
        BY <2>6, <4>1, <4>2
    <3>3. seqs[1] = Low(st, r) /\ seqs[2] = High(st, r)
      BY <1>2, <3>1, <3>2 DEF Low, High
    <3>4. QED
      BY <1>1, <1>4, <2>5, <2>7, <3>1, <3>2, <3>3 DEF TreeEnts
  <2>10. QED
    BY <2>3, <2>8, <2>9
<1>5. QED
  BY <1>3, <1>4

\* One list after another.
LEMMA ListsJoined ==
  ASSUME NEW s \in Seq(LeafEntry), NEW t \in Seq(LeafEntry), SortedByKey(s), SortedByKey(t),
         NEW k \in Nat, \A f \in ToSet(s) : f.k < k, \A f \in ToSet(t) : f.k >= k
  PROVE  s \o t \in Seq(LeafEntry) /\ SortedByKey(s \o t) /\ ToSet(s \o t) = ToSet(s) \cup ToSet(t)
<1> DEFINE M == Len(s)
           N == Len(t)
           st == s \o t
<1>1. M \in Nat /\ N \in Nat
  BY EntryRoom
<1>2. /\ st \in Seq(LeafEntry) /\ Len(st) = M + N
      /\ \A i \in 1 .. M + N : st[i] = IF i <= M THEN s[i] ELSE t[i - M]
  BY ConcatProperties
<1> HIDE DEF st
<1>3. /\ \A i \in 1 .. M : s[i].k \in Nat /\ s[i].k < k
      /\ \A i \in 1 .. N : t[i].k \in Nat /\ t[i].k >= k
  BY EntryRoom, SortedFacts
<1>4. ASSUME NEW i \in 1 .. M + N, NEW j \in 1 .. M + N, i < j
      PROVE  st[i].k < st[j].k
  <2>1. CASE j <= M
    <3>1. i \in 1 .. M /\ j \in 1 .. M
      BY <1>1, <1>4, <2>1
    <3>2. st[i] = s[i] /\ st[j] = s[j]
      BY <1>1, <1>2, <1>4, <2>1, <3>1
    <3>3. QED
      BY <1>4, <3>1, <3>2, SortedFacts
  <2>2. CASE i <= M /\ ~(j <= M)
    <3>1. i \in 1 .. M /\ j - M \in 1 .. N
      BY <1>1, <2>2
    <3>2. st[i] = s[i] /\ st[j] = t[j - M]
      BY <1>2, <2>2
    <3>3. s[i].k < k /\ t[j - M].k >= k /\ s[i].k \in Nat /\ t[j - M].k \in Nat
      BY <1>3, <3>1
    <3>4. QED
      BY <3>2, <3>3
  <2>3. CASE ~(i <= M)
    <3>1. i - M \in 1 .. N /\ j - M \in 1 .. N /\ i - M < j - M /\ ~(j <= M)
      BY <1>1, <1>4, <2>3
    <3>2. st[i] = t[i - M] /\ st[j] = t[j - M]
      BY <1>2, <2>3, <3>1
    <3>3. t[i - M].k < t[j - M].k
      BY <3>1, SortedFacts
    <3>4. QED
      BY <3>2, <3>3
  <2>4. QED
    BY <1>1, <2>1, <2>2, <2>3
<1>5. SortedByKey(st)
  <2>1. \A i, j \in 1 .. Len(st) : i < j => st[i].k < st[j].k
    BY <1>2, <1>4
  <2>2. QED
    BY <1>2, <2>1, SortedFacts
<1>6. ToSet(st) = ToSet(s) \cup ToSet(t)
  <2>1. /\ ToSet(st) = {st[i] : i \in 1 .. M + N}
        /\ ToSet(s) = {s[i] : i \in 1 .. M} /\ ToSet(t) = {t[i] : i \in 1 .. N}
    BY <1>2, SortedFacts
  <2>2. ASSUME NEW i \in 1 .. M + N PROVE st[i] \in ToSet(s) \cup ToSet(t)
    <3>1. CASE i <= M
      BY <1>1, <1>2, <2>1, <3>1
    <3>2. CASE ~(i <= M)
      <4>1. i - M \in 1 .. N /\ st[i] = t[i - M]
        BY <1>1, <1>2, <3>2
      <4>2. QED
        BY <2>1, <4>1
    <3>3. QED
      BY <3>1, <3>2
  <2>3. ASSUME NEW i \in 1 .. M PROVE s[i] \in ToSet(st)
    <3>1. i \in 1 .. M + N /\ st[i] = s[i]
      BY <1>1, <1>2
    <3>2. QED
      BY <2>1, <3>1
  <2>4. ASSUME NEW i \in 1 .. N PROVE t[i] \in ToSet(st)
    <3>1. i + M \in 1 .. M + N /\ ~(i + M <= M) /\ (i + M) - M = i
      BY <1>1
    <3>2. st[i + M] = t[i]
      BY <1>2, <3>1
    <3>3. QED
      BY <2>1, <3>1, <3>2
  <2>5. QED
    BY <2>1, <2>2, <2>3, <2>4
<1>7. QED
  BY <1>2, <1>5, <1>6 DEF st

LEMMA TreeEntsFacts ==
  ASSUME NEW st, Good(st), NEW r, SmallTree(st, r), Ordered(st, r)
  PROVE  /\ SortedByKey(TreeEnts(st, r)) /\ ToSet(TreeEnts(st, r)) \subseteq LeafEntry
         /\ \A e \in LeafEntry : e \in ToSet(TreeEnts(st, r)) <=> e \in ToSet(LeafEnts(st, r, e.k))
<1>1. CASE Whole(st, r)
  <2>1. TreeEnts(st, r) = LeafEnts(st, r, 0) /\ \A x : LeafEnts(st, r, x) = LeafEnts(st, r, 0)
    BY <1>1 DEF Whole, TreeEnts, LeafEnts
  <2>2. LeafOk(LeafEnts(st, r, 0))
    <3>1. 0 \in Nat
      OBVIOUS
    <3>2. QED
      BY <3>1, LeafOfOrdered
  <2>3. QED
    BY <2>1, <2>2, SortedFacts DEF LeafOk
<1>2. CASE ~Whole(st, r)
  <2> DEFINE low == Low(st, r)
             high == High(st, r)
             sep == Fork(st, r).k
  <2>1. ForkAt(st, r) /\ ~LeafAt(st, r) /\ r # 0 /\ TreeEnts(st, r) = low \o high
    BY <1>2 DEF Whole, SmallTree, TreeEnts
  <2>2. /\ low \in Seq(LeafEntry) /\ high \in Seq(LeafEntry) /\ SortedByKey(low) /\ SortedByKey(high)
        /\ \A f \in ToSet(low) : f.k < sep
        /\ \A f \in ToSet(high) : f.k >= sep
    BY <2>1 DEF Ordered, LeafOk
  <2>3. sep \in Nat
    <3>1. st \in StoresOf(NodePage) /\ 0 \in Nat
      BY DEF Good, Listed
    <3>2. Fork(st, r) \in BranchEntry
      BY <2>1, <3>1, ForkTypes
    <3>3. QED
      BY <3>2, KeysAssumption DEF BranchEntry
  <2>4. \A x : LeafEnts(st, r, x) = IF x < sep THEN low ELSE high
    BY <2>1 DEF LeafEnts
  <2> HIDE DEF low, high, sep
  <2>5. SortedByKey(low \o high) /\ ToSet(low \o high) = ToSet(low) \cup ToSet(high)
    BY <2>2, <2>3, ListsJoined
  <2>6. ToSet(low) \subseteq LeafEntry /\ ToSet(high) \subseteq LeafEntry
    BY <2>2, SortedFacts
  <2>7. ASSUME NEW e \in LeafEntry
        PROVE  e \in ToSet(low) \cup ToSet(high) <=> e \in ToSet(LeafEnts(st, r, e.k))
    <3>1. e.k \in Nat
      BY KeysAssumption DEF LeafEntry
    <3>2. CASE e.k < sep
      <4>1. LeafEnts(st, r, e.k) = low /\ e \notin ToSet(high)
        BY <2>2, <2>3, <2>4, <3>1, <3>2
      <4>2. QED
        BY <4>1
    <3>3. CASE ~(e.k < sep)
      <4>1. LeafEnts(st, r, e.k) = high /\ e \notin ToSet(low)
        BY <2>2, <2>4, <3>3
      <4>2. QED
        BY <4>1
    <3>4. QED
      BY <3>2, <3>3
  <2>8. QED
    BY <2>1, <2>5, <2>6, <2>7
<1>3. QED
  BY <1>1, <1>2

=============================================================================
