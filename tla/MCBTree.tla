------------------------------ MODULE MCBTree ------------------------------
\* Bounds for checking BTree: two values of size 1 and one of size 2.
EXTENDS BTree

CONSTANTS v1, v2, wide

MCValues == {v1, v2, wide}
MCSize == [v \in MCValues |-> IF v = wide THEN 2 ELSE 1]

\* Values of one size are interchangeable: the operations only look at sizes.
MCSymmetry == Permutations({v1, v2})

\* States that differ only in the entries left behind on free pages, which no
\* operation can read (nkeys is overwritten by the link and the page is zeroed
\* when it is handed out), or in the last call, which no action reads.
MCView ==
    <<store.head, root, other, splits, fault,
      [i \in PageNos(store) |->
          <<store.pages[i].word, store.pages[i].rest.next, Ents(store.pages[i])>>]>>

=============================================================================
