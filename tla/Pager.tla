------------------------------- MODULE Pager -------------------------------
(***************************************************************************)
(* The page allocator of src/core/pager.c and one disciplined client.      *)
(*                                                                         *)
(* The free pages form a linked list threaded through their own first      *)
(* bytes, which a live page uses for its B+Tree node header.  The client   *)
(* is any caller that frees only pages it was given and writes only to     *)
(* pages it holds; it may write any value, one that looks like a link      *)
(* included.  BTree.tla shows which operations of the tree keep to that    *)
(* discipline and which do not.                                            *)
(*                                                                         *)
(* `stack' and `owned' are auxiliary: no action of the code reads them.    *)
(***************************************************************************)
EXTENDS PageStore

CONSTANTS
    InitialPages,  \* the page counts a new store may be opened with
    Words          \* values a client writes over the first bytes of a page

ASSUME InitialPagesAssumption == InitialPages \subseteq Nat \ {0, 1}
ASSUME WordsAssumption == Words \subseteq Int

VARIABLES
    store,   \* the page file
    fmt,     \* the loop variable of the formatting loop, 0 when it has ended
    ret,     \* what the last pager_alloc returned
    owned,   \* auxiliary: the pages the client holds
    stack    \* auxiliary: the free pages, most recently freed last

vars == <<store, fmt, ret, owned, stack>>

\* pager_open(_mem) on a new store: the header is filled in, every other page
\* is zero and the loop that frees pages 1..page_count-1 is about to start.
Init == /\ \E n \in InitialPages :
              store = [head |-> 0, pages |-> [i \in 1 .. n - 1 |-> ZeroPage]]
        /\ fmt = 1
        /\ ret = 0
        /\ owned = {}
        /\ stack = <<>>

\* One turn of the formatting loop.
Format == /\ fmt # 0
          /\ store' = PagerFree(store, fmt)
          /\ stack' = Append(stack, fmt)
          /\ fmt' = IF fmt = Len(store.pages) THEN 0 ELSE fmt + 1
          /\ UNCHANGED <<ret, owned>>

Alloc == /\ fmt = 0
         /\ store' = PagerAlloc(store).st
         /\ ret' = PagerAlloc(store).pn
         /\ owned' = owned \cup ({ret'} \ {0})
         /\ stack' = IF stack = <<>> THEN stack
                     ELSE SubSeq(stack, 1, Len(stack) - 1)
         /\ UNCHANGED fmt

Free(pn) == /\ fmt = 0
            /\ pn \in owned
            /\ store' = PagerFree(store, pn)
            /\ owned' = owned \ {pn}
            /\ stack' = Append(stack, pn)
            /\ UNCHANGED <<fmt, ret>>

\* A client that has no tree yet frees root 0: nothing happens.
FreeNone == /\ fmt = 0
            /\ store' = PagerFree(store, 0)
            /\ UNCHANGED <<fmt, ret, owned, stack>>

\* The client fills a page it holds.
Write(pn, w) == /\ fmt = 0
                /\ pn \in owned
                /\ store' = SetPage(store, pn, [store.pages[pn] EXCEPT !.word = w])
                /\ UNCHANGED <<fmt, ret, owned, stack>>

Next == \/ Format
        \/ Alloc
        \/ FreeNone
        \/ \E pn \in owned : Free(pn)
        \/ \E pn \in owned, w \in Words : Write(pn, w)

Spec == Init /\ [][Next]_vars

----------------------------------------------------------------------------

\* Pages the formatting loop has not reached.
Unformatted == IF fmt = 0 THEN {} ELSE fmt .. Len(store.pages)

FreePages == {stack[i] : i \in DOMAIN stack}

Page == [word : Int, rest : {ZeroRest}]

\* Types of the variables; the head of the list is 0 or a page that exists
\* (pager.c reads through it unchecked).
TypeOK == /\ store \in [head : Nat, pages : Seq(Page)]
          /\ store.head \in PageNos(store) \cup {0}
          /\ fmt \in PageNos(store) \cup {0}
          /\ ret \in PageNos(store) \cup {0}
          /\ owned \subseteq PageNos(store)
          /\ stack \in Seq(PageNos(store))

\* The linked list in the pages is the stack of free pages: the head is the
\* page freed last, each link leads to the page freed before it and the
\* oldest one ends the list.  So the list has no cycle, reaches every free
\* page and no other, whatever clients write to their own pages.
FreeListLinksStack ==
    /\ store.head = IF stack = <<>> THEN 0 ELSE stack[Len(stack)]
    /\ \A i \in DOMAIN stack :
          store.pages[stack[i]].word = IF i = 1 THEN 0 ELSE stack[i - 1]

\* Every page is free, held by the client or still to be formatted, and only
\* one of the three: no page is handed out twice and none is lost.
PagesPartitioned ==
    /\ PageNos(store) = FreePages \cup owned \cup Unformatted
    /\ FreePages \cap owned = {}
    /\ Unformatted \cap (FreePages \cup owned) = {}
    /\ \A i, j \in DOMAIN stack : stack[i] = stack[j] => i = j

\* Allocating and freeing never change a page the client keeps (pager_alloc
\* zeroes and pager_free links other pages only), and a page it is given is
\* all zeroes.
ClientPagesKept ==
    /\ \A pn \in owned' \ owned : store'.pages[pn] = ZeroPage
    /\ owned' # owned =>
          \A pn \in owned \cap owned' : store'.pages[pn] = store.pages[pn]
ClientPagesAreKept == [][ClientPagesKept]_vars

\* The file grows only when no page is free, by the one page then returned.
GrowsOnlyWhenExhausted ==
    Len(store'.pages) # Len(store.pages) =>
        /\ owned = PageNos(store)
        /\ Len(store'.pages) = Len(store.pages) + 1
        /\ ret' = Len(store'.pages)
GrowthIsLastResort == [][GrowsOnlyWhenExhausted]_vars

\* The linked list in the file implements the allocator its clients see.
Allocator == INSTANCE PageAllocator WITH size <- Len(store.pages)
ImplementsAllocator == Allocator!Spec

=============================================================================
