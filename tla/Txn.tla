-------------------------------- MODULE Txn --------------------------------
(***************************************************************************)
(* The transactions of src/core/txn.c around the B+Tree: a transaction is  *)
(* a copy of the root page number, a commit stores the writer's root in    *)
(* the header.  Nothing else separates transactions; the tree's operations *)
(* free the pages they replace at once.                                    *)
(*                                                                         *)
(* Clients keep to the single-writer rule of the README, and, unless       *)
(* AbortWritten, abort only writers that changed nothing: txn_abort does   *)
(* not restore what a writer freed.  Readers come and go at any time.  As  *)
(* in BTree, MaxSplits and the absence of overfilled leaves and of page    *)
(* faults bound the histories.                                             *)
(*                                                                         *)
(* `seen', `wrote', `overtaken' and `committed' are auxiliary.             *)
(***************************************************************************)
EXTENDS BTreeView

CONSTANTS
    Txns,        \* transaction handles
    FreshPages,  \* free pages of the store at the start
    MaxSplits,   \* leaf splits in a history
    AbortWritten \* whether a writer that changed the tree may abort

ASSUME TxnAssumption == /\ FreshPages \in Nat /\ FreshPages < MaxPages
                        /\ MaxSplits \in Nat

VARIABLES
    store,      \* the page file
    hdrRoot,    \* root_pageno in the header
    txn,        \* the transaction handles
    splits,     \* number of leaf splits
    seen,       \* the map a transaction should see: what was committed when it
                \* began, with its own changes
    wrote,      \* transactions that changed the tree
    overtaken,  \* readers active when the tree changed, or begun before the
                \* change was committed
    committed   \* the map last committed

vars == <<store, hdrRoot, txn, splits, seen, wrote, overtaken, committed>>

Empty == [k \in Keys |-> None]
NoTxn == [active |-> FALSE, isWrite |-> FALSE, root |-> 0]

Active == {t \in Txns : txn[t].active}
Writers == {t \in Active : txn[t].isWrite}
Readers == Active \ Writers

Init == /\ store = [head  |-> FreshPages,
                    pages |-> [i \in 1 .. FreshPages |-> [ZeroPage EXCEPT !.word = i - 1]]]
        /\ hdrRoot = 0
        /\ txn = [t \in Txns |-> NoTxn]
        /\ splits = 0
        /\ seen = [t \in Txns |-> Empty]
        /\ wrote = {}
        /\ overtaken = {}
        /\ committed = Empty

BeginRead(t) == /\ t \notin Active
                /\ txn' = [txn EXCEPT ![t] = [active |-> TRUE, isWrite |-> FALSE,
                                              root |-> hdrRoot]]
                /\ seen' = [seen EXCEPT ![t] = committed]
                /\ overtaken' = IF wrote = {} THEN overtaken ELSE overtaken \cup {t}
                /\ UNCHANGED <<store, hdrRoot, splits, wrote, committed>>

\* A tree without a root gets one now; when that fails the root stays 0.
BeginWrite(t) ==
    LET new == IF hdrRoot = 0 THEN Create(store) ELSE Result(store, hdrRoot, 0)
    IN  /\ t \notin Active
        /\ Writers = {}
        /\ store' = new.st
        /\ txn' = [txn EXCEPT ![t] = [active |-> TRUE, isWrite |-> TRUE,
                                      root |-> new.root]]
        /\ seen' = [seen EXCEPT ![t] = committed]
        /\ UNCHANGED <<hdrRoot, splits, wrote, overtaken, committed>>

\* What a call of the tree that returned r does to the store and to its writer;
\* the map it should see becomes m when the call succeeds.
Apply(t, r, m) ==
    /\ r.rc # Fault
    /\ store' = r.st
    /\ txn' = [txn EXCEPT ![t].root = r.root]
    /\ seen' = IF r.rc = 0 THEN [seen EXCEPT ![t] = m] ELSE seen
    /\ wrote' = IF r.rc = 0 THEN wrote \cup {t} ELSE wrote
    /\ overtaken' = IF r.rc = 0 THEN overtaken \cup Readers ELSE overtaken
    /\ UNCHANGED <<hdrRoot, committed>>

TxnInsert(t, k, v) ==
    LET split == MustSplit(store, txn[t].root, k, v)
        r     == Insert(store, txn[t].root, k, v)
    IN  /\ t \in Writers
        /\ split => splits < MaxSplits
        /\ ~Overfills(store, txn[t].root, k, v)
        /\ Apply(t, r, [seen[t] EXCEPT ![k] = v])
        /\ splits' = splits + IF split /\ r.rc = 0 THEN 1 ELSE 0

TxnDelete(t, k) == /\ t \in Writers
                /\ Apply(t, Delete(store, txn[t].root, k), [seen[t] EXCEPT ![k] = None])
                /\ UNCHANGED splits

\* Mutant of PublishedRoot: a commit leaves the header alone.
PublishedRootOld(t) == hdrRoot

PublishedRoot(t) == IF txn[t].isWrite THEN txn[t].root ELSE hdrRoot

Commit(t) == /\ t \in Active
             /\ hdrRoot' = PublishedRoot(t)
             /\ txn' = [txn EXCEPT ![t].active = FALSE]
             /\ committed' = IF txn[t].isWrite THEN seen[t] ELSE committed
             /\ wrote' = wrote \ {t}
             /\ overtaken' = overtaken \ {t}
             /\ UNCHANGED <<store, splits, seen>>

Abort(t) == /\ t \in Active
            /\ t \in wrote => AbortWritten
            /\ txn' = [txn EXCEPT ![t].active = FALSE]
            /\ wrote' = wrote \ {t}
            /\ overtaken' = overtaken \ {t}
            /\ UNCHANGED <<store, hdrRoot, splits, seen, committed>>

Next == \E t \in Txns :
           \/ BeginRead(t)
           \/ BeginWrite(t)
           \/ \E k \in Keys, v \in Values : TxnInsert(t, k, v)
           \/ \E k \in Keys : TxnDelete(t, k)
           \/ Commit(t)
           \/ Abort(t)

Spec == Init /\ [][Next]_vars

----------------------------------------------------------------------------
(* Properties. *)

\* Types of the variables.
TypeOK == /\ store.head \in 0 .. Len(store.pages)
          /\ Len(store.pages) < MaxPages
          /\ hdrRoot \in 0 .. Len(store.pages)
          /\ txn \in [Txns -> [active : BOOLEAN, isWrite : BOOLEAN,
                               root : 0 .. Len(store.pages)]]
          /\ splits \in 0 .. MaxSplits
          /\ seen \in [Txns -> [Keys -> Values \cup {None}]]
          /\ wrote \subseteq Writers
          /\ overtaken \subseteq Readers
          /\ committed \in [Keys -> Values \cup {None}]

\* Whenever no writer has uncommitted changes, the root in the header leads to
\* the map last committed: nothing a writer did after its commit, and no root
\* page created for a writer that then aborts, is visible or destroys it.  With
\* AbortWritten it fails: the tree is not copied on write down from a root the
\* header keeps ("copy-on-write", README line 15), so an abort loses data.
CommittedVisible == wrote = {} => Contents(store, hdrRoot) = committed

\* A writer sees what was committed when it began with its own changes, also
\* while readers begin and end.
WriterSeesOwnWrites == \A t \in Writers : Contents(store, txn[t].root) = seen[t]

\* A reader sees what was committed when it began for as long as no call of a
\* writer succeeds: beginning a write, and calls that fail half way for want of
\* pages, leave its pages alone.
ReaderKeptUntilWrite ==
    \A t \in Readers \ overtaken : Contents(store, txn[t].root) = seen[t]

\* Pages in nobody's hands: neither free nor in the tree, which is the writer's
\* when there is one.
Lost == PageNos(store) \
          (FreeSet(store) \cup
             (IF Writers = {} THEN Reachable(store, hdrRoot)
              ELSE UNION {Reachable(store, txn[t].root) : t \in Writers}))

\* A page is lost only when a writer aborts whose root was created for it by
\* txn_begin_write, or when a call fails half way.
LostByAbortOrFailure ==
    Lost' \ Lost # {} =>
        \/ hdrRoot = 0 /\ hdrRoot' = 0 /\ Writers # {} /\ Writers' = {}
        \/ store' # store /\ txn' = txn /\ seen' = seen /\ wrote' = wrote
PagesLostOnlyByAbortOrFailure == [][LostByAbortOrFailure]_vars

\* Every reader sees what was committed when it began, whatever writers do: the
\* promise "MVCC single-writer / multi-reader" and "copy-on-write" of the README
\* (line 15).  It fails: a value of the same size is overwritten in place, and
\* the pages a call replaces are free, and reused, before the reader ends.
ReaderSeesSnapshot == \A t \in Readers : Contents(store, txn[t].root) = seen[t]

=============================================================================
