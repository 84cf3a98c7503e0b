----------------------------- MODULE PageStore -----------------------------
(***************************************************************************)
(* The page file of src/core/pager.c as a value, and the three operations  *)
(* every other component performs on it.                                   *)
(*                                                                         *)
(* A store is a record: `head' is the header's freelist_head and `pages'   *)
(* the pages 1..page_count-1.  Page 0 is the header itself, so the         *)
(* positions of the sequence are the page numbers and page_count is        *)
(* Len(pages)+1.  The code reads a page through two types: as a free-list  *)
(* link (its first 8 bytes) and as a B+Tree node, whose is_leaf, nkeys and *)
(* free_off are in those same 8 bytes.  `word' is these 8 bytes and `rest' *)
(* the remainder of the page, which pager_free leaves alone.               *)
(*                                                                         *)
(* A mapping cannot be grown past MaxPages pages: the bound stands for the *)
(* disk or address-space limit at which ftruncate or mmap fails.           *)
(***************************************************************************)
EXTENDS Integers, Sequences

CONSTANTS
    MaxPages,   \* the page count at which growing the mapping fails
    ZeroRest    \* the remainder of a zeroed page

ASSUME MaxPagesAssumption == MaxPages \in Nat

ZeroPage == [word |-> 0, rest |-> ZeroRest]

\* Page numbers pager_get resolves to a page other than the header.
PageNos(st) == 1 .. Len(st.pages)

SetPage(st, pn, page) == [st EXCEPT !.pages[pn] = page]

\* s is the free list of a store, its last page first.
IsFreeList(st, s) ==
    /\ \A a, b \in DOMAIN s : s[a] = s[b] => a = b
    /\ st.head = IF s = <<>> THEN 0 ELSE s[Len(s)]
    /\ \A a \in DOMAIN s : st.pages[s[a]].word = IF a = 1 THEN 0 ELSE s[a - 1]

\* The free list as it is walked from its head: pages, then 0.
FreeWalk(st) ==
    LET list[i \in 1 .. MaxPages] ==
            IF i = 1 THEN st.head
            ELSE LET pn == list[i - 1]
                 IN  IF pn \in PageNos(st) THEN st.pages[pn].word ELSE 0
    IN  list

\* The walk comes to an end.
FreeListEnds(st) == FreeWalk(st)[MaxPages] = 0

\* Mutant of PagerFree: the head is stored before the link is read from it.
PagerFreeHeadFirst(st, pn) ==
    IF pn = 0 THEN st
    ELSE [head |-> pn, pages |-> [st.pages EXCEPT ![pn].word = pn]]

\* pager_free: page 0 is ignored, any other page becomes the head of the
\* list.  Nothing checks that the page was in use.
PagerFree(st, pn) ==
    IF pn = 0 THEN st
    ELSE [head  |-> pn,
          pages |-> [st.pages EXCEPT ![pn].word = st.head]]

\* Mutant of CanGrow: the limit is off by one.
CanGrowOneMore(st) == Len(st.pages) + 1 <= MaxPages

CanGrow(st) == Len(st.pages) + 1 < MaxPages

\* Mutants of Popped: the head is not advanced; the page keeps its old bytes.
PoppedSameHead(st) ==
    [pn |-> st.head, st |-> SetPage(st, st.head, ZeroPage)]
PoppedDirty(st) ==
    [pn |-> st.head, st |-> [st EXCEPT !.head = st.pages[st.head].word]]

\* The first page of the free list, unlinked and zeroed.
Popped(st) ==
    [pn |-> st.head,
     st |-> [head  |-> st.pages[st.head].word,
             pages |-> [st.pages EXCEPT ![st.head] = ZeroPage]]]

\* Mutant of Grown: page_count is not raised.
GrownNoCount(st) == [pn |-> Len(st.pages) + 1, st |-> st]

\* One zeroed page more at the end of the file.
Grown(st) ==
    [pn |-> Len(st.pages) + 1,
     st |-> [st EXCEPT !.pages = Append(@, ZeroPage)]]

NoPage(st) == [pn |-> 0, st |-> st]

\* Mutant of PagerAlloc: free pages are reused only when the file cannot grow.
PagerAllocGrowsFirst(st) ==
    IF CanGrow(st) THEN Grown(st)
    ELSE IF st.head # 0 THEN Popped(st) ELSE NoPage(st)

\* Mutant of PagerAlloc: the file never grows.
PagerAllocNoGrow(st) == IF st.head # 0 THEN Popped(st) ELSE NoPage(st)

\* pager_alloc: pop the free list, else grow by one page, else (the mapping
\* cannot grow) return page number 0.
PagerAlloc(st) ==
    IF st.head # 0 THEN Popped(st)
    ELSE IF CanGrow(st) THEN Grown(st) ELSE NoPage(st)

=============================================================================
