------------------------------- MODULE MCTxn -------------------------------
\* Bounds for checking Txn: two handles, three keys and leaves of two entries.
\* The third key splits the leaf; later calls copy a leaf and its parent, and
\* fail half way, on leaves that are not empty, when the pages run out.  Values
\* have one size, and MCTxn.cfg gives one: which value a key has matters to the
\* two runs about what writers overwrite, which take two.
EXTENDS Txn

CONSTANTS t1, t2, v1, v2

MCTxns == {t1, t2}
MCSize == [v \in Values |-> 1]

\* Handles are interchangeable.
MCSymmetry == Permutations({t1, t2})

\* States that differ only in entries left on free pages, in what a handle that
\* is not active holds, or in what an overtaken reader holds: no action reads
\* these and no invariant of MCTxn.cfg is about them.
MCView ==
    <<store.head, hdrRoot, splits, wrote, overtaken, committed,
      [t \in Txns |-> IF t \in Active \ overtaken THEN <<txn[t], seen[t]>> ELSE <<>>],
      [i \in PageNos(store) |->
          <<store.pages[i].word, store.pages[i].rest.next, Ents(store.pages[i])>>]>>

=============================================================================
