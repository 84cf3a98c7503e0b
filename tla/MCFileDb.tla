----------------------------- MODULE MCFileDb ------------------------------
\* Bounds for checking FileDb: two tables, one of as many columns as there may
\* be, fit the catalog; a third one from an old dump does not fit with them.
EXTENDS FileDb

MCCols == [n \in {"a", "b"} |-> IF n = "a" THEN 14 ELSE 16]
MCZero == <<>>

\* A file of version 2: in the place of has_nullmap are other bytes.
MCOld == [hdr   |-> [magic |-> TRUE, ver |-> 2, count |-> 3, head |-> 1,
                     cat |-> [n \in {"old"} |-> [root |-> 2, ncols |-> 1, nullmap |-> TRUE]]],
          pages |-> <<[word |-> 0, rest |-> <<>>], LeafOf(<<"old", 1>>)>>]

MCOldDumps == {MCOld}

=============================================================================
