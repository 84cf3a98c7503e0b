---------------------------- MODULE PagerProofs ----------------------------
(***************************************************************************)
(* Proofs about Pager, for every page limit, every initial page count and  *)
(* every value clients write.  The inductive invariant is PagerInv, the    *)
(* conjunction of the three invariants the run of MCPager checks: the link *)
(* structure alone is not inductive, because a client could then write     *)
(* over a page of the list, and the partition alone is not, because what   *)
(* pager_alloc returns is read from the links.                             *)
(***************************************************************************)
EXTENDS Pager, TLAPS, SequenceTheorems

PagerInv == /\ TypeOK
            /\ FreeListLinksStack
            /\ PagesPartitioned

LEMMA ZeroPageType == ZeroPage \in Page
  BY DEF ZeroPage, Page

(***************************************************************************)
(* The two changes of the free list, as facts about the list alone.        *)
(***************************************************************************)

\* A sequence of distinct elements stays one when a new element is appended.
LEMMA AppendKeepsDistinct ==
  ASSUME NEW S, NEW s \in Seq(S), NEW e \in S,
         \A i, j \in DOMAIN s : s[i] = s[j] => i = j,
         e \notin {s[i] : i \in DOMAIN s}
  PROVE  \A i, j \in DOMAIN Append(s, e) : Append(s, e)[i] = Append(s, e)[j] => i = j
<1>1. /\ DOMAIN s = 1 .. Len(s)
      /\ DOMAIN Append(s, e) = 1 .. Len(s) + 1
      /\ Len(s) \in Nat
      /\ \A i \in 1 .. Len(s) : Append(s, e)[i] = s[i]
      /\ Append(s, e)[Len(s) + 1] = e
  OBVIOUS
<1>2. QED
  BY <1>1

\* Freeing a page that is not on the list puts it in front of the list.
LEMMA FreeKeepsLinks ==
  ASSUME TypeOK, FreeListLinksStack,
         NEW pn \in PageNos(store),
         pn \notin FreePages,
         store' = PagerFree(store, pn),
         stack' = Append(stack, pn)
  PROVE  /\ FreeListLinksStack'
         /\ store' \in [head : Nat, pages : Seq(Page)]
         /\ Len(store'.pages) = Len(store.pages)
         /\ store'.head = pn
         /\ stack' \in Seq(PageNos(store))
         /\ FreePages' = FreePages \cup {pn}
         /\ \A p \in PageNos(store) \ {pn} : store'.pages[p] = store.pages[p]
<1> USE DEF PageNos
<1>1. pn # 0 /\ pn \in Nat
  BY DEF TypeOK
<1>2. store' = [head |-> pn, pages |-> [store.pages EXCEPT ![pn].word = store.head]]
  BY <1>1 DEF PagerFree
<1>3. /\ store.pages \in Seq(Page)
      /\ store.head \in Nat
      /\ Len(store.pages) \in Nat
      /\ stack \in Seq(1 .. Len(store.pages))
  BY DEF TypeOK
<1>4. /\ store'.pages \in Seq(Page)
      /\ Len(store'.pages) = Len(store.pages)
      /\ store'.pages[pn].word = store.head
      /\ \A p \in PageNos(store) \ {pn} : store'.pages[p] = store.pages[p]
  <2> DEFINE page == [store.pages[pn] EXCEPT !.word = store.head]
  <2>1. store'.pages = [store.pages EXCEPT ![pn] = page]
    BY <1>2
  <2>2. page \in Page /\ page.word = store.head
    <3>1. store.pages[pn] \in Page
      BY <1>3
    <3>2. \A q \in Page, h \in Int :
             [q EXCEPT !.word = h] \in Page /\ [q EXCEPT !.word = h].word = h
      BY DEF Page
    <3>3. QED
      BY <3>1, <3>2, <1>3
  <2>3. DOMAIN store.pages = 1 .. Len(store.pages)
    BY <1>3
  <2>4. store'.pages \in Seq(Page) /\ Len(store'.pages) = Len(store.pages)
    BY <2>1, <2>2, <1>3, ExceptSeq
  <2> HIDE DEF page
  <2>5. store'.pages[pn] = page
    BY <2>1, <2>3
  <2>6. \A p \in PageNos(store) \ {pn} : store'.pages[p] = store.pages[p]
    BY <2>1, <2>3
  <2>7. QED
    BY <2>2, <2>4, <2>5, <2>6
<1>5. /\ stack' \in Seq(PageNos(store))
      /\ Len(stack') = Len(stack) + 1
      /\ stack'[Len(stack')] = pn
      /\ \A i \in 1 .. Len(stack) : stack'[i] = stack[i]
      /\ DOMAIN stack = 1 .. Len(stack)
      /\ DOMAIN stack' = 1 .. Len(stack) + 1
      /\ Len(stack) \in Nat
  BY <1>3
<1>6. FreePages' = FreePages \cup {pn}
  BY <1>5 DEF FreePages
<1>7. FreeListLinksStack'
  <2>1. store'.head = stack'[Len(stack')] /\ stack' # <<>>
    BY <1>2, <1>5
  <2>2. ASSUME NEW i \in 1 .. Len(stack) + 1
        PROVE  store'.pages[stack'[i]].word = IF i = 1 THEN 0 ELSE stack'[i - 1]
    <3>1. CASE i = Len(stack) + 1
      <4>1. store'.pages[stack'[i]].word = store.head
        BY <3>1, <1>4, <1>5
      <4>2. CASE Len(stack) = 0
        BY <4>1, <4>2, <3>1, <1>3 DEF FreeListLinksStack
      <4>3. CASE Len(stack) # 0
        <5>1. store.head = stack[Len(stack)]
          BY <4>3, <1>3 DEF FreeListLinksStack
        <5>2. i - 1 = Len(stack) /\ Len(stack) \in 1 .. Len(stack) /\ i # 1
          BY <4>3, <3>1, <1>3, <1>5
        <5>3. stack'[i - 1] = stack[Len(stack)]
          BY <5>2, <1>5
        <5>4. QED
          BY <4>1, <5>1, <5>2, <5>3
      <4>4. QED
        BY <4>2, <4>3
    <3>2. CASE i \in 1 .. Len(stack)
      <4>1. stack[i] \in PageNos(store) \ {pn}
        BY <3>2, <1>3, <1>5 DEF FreePages
      <4>2. store.pages[stack[i]].word = IF i = 1 THEN 0 ELSE stack[i - 1]
        BY <3>2, <1>5 DEF FreeListLinksStack
      <4>3. QED
        BY <3>2, <4>1, <4>2, <1>4, <1>5
    <3>3. QED
      BY <3>1, <3>2, <1>5
  <2>3. QED
    BY <2>1, <2>2, <1>5 DEF FreeListLinksStack
<1>8. QED
  BY <1>1, <1>2, <1>4, <1>5, <1>6, <1>7

\* Taking the page at the head leaves a list of the others in their order.
LEMMA PopKeepsLinks ==
  ASSUME TypeOK, FreeListLinksStack,
         \A i, j \in DOMAIN stack : stack[i] = stack[j] => i = j,
         store.head # 0,
         store' = Popped(store).st,
         stack' = SubSeq(stack, 1, Len(stack) - 1)
  PROVE  /\ stack # <<>>
         /\ store.head = stack[Len(stack)]
         /\ FreeListLinksStack'
         /\ store' \in [head : Nat, pages : Seq(Page)]
         /\ Len(store'.pages) = Len(store.pages)
         /\ store'.head \in PageNos(store) \cup {0}
         /\ stack' \in Seq(PageNos(store))
         /\ FreePages' = FreePages \ {store.head}
         /\ \A i, j \in DOMAIN stack' : stack'[i] = stack'[j] => i = j
         /\ store'.pages[store.head] = ZeroPage
         /\ \A p \in PageNos(store) \ {store.head} : store'.pages[p] = store.pages[p]
<1> USE DEF PageNos
<1> DEFINE h == store.head
           n == Len(stack)
<1>1. /\ store.pages \in Seq(Page)
      /\ Len(store.pages) \in Nat
      /\ h \in 1 .. Len(store.pages)
      /\ stack \in Seq(1 .. Len(store.pages))
      /\ DOMAIN stack = 1 .. n
      /\ n \in Nat
  BY DEF TypeOK
<1>2. stack # <<>> /\ h = stack[n] /\ n >= 1
  BY <1>1 DEF FreeListLinksStack
<1>3. store' = [head |-> store.pages[h].word,
                pages |-> [store.pages EXCEPT ![h] = ZeroPage]]
  BY DEF Popped
<1>4. /\ store'.pages \in Seq(Page)
      /\ Len(store'.pages) = Len(store.pages)
      /\ store'.pages[h] = ZeroPage
      /\ \A p \in PageNos(store) \ {h} : store'.pages[p] = store.pages[p]
  <2>1. DOMAIN store.pages = 1 .. Len(store.pages)
    BY <1>1
  <2>2. store'.pages = [store.pages EXCEPT ![h] = ZeroPage]
    BY <1>3
  <2>3. store'.pages \in Seq(Page) /\ Len(store'.pages) = Len(store.pages)
    BY <2>2, <1>1, ExceptSeq, ZeroPageType
  <2>4. QED
    BY <2>1, <2>2, <2>3, <1>1
<1>5. /\ stack' \in Seq(PageNos(store))
      /\ Len(stack') = n - 1
      /\ DOMAIN stack' = 1 .. n - 1
      /\ \A i \in 1 .. n - 1 : stack'[i] = stack[i]
  BY <1>1, <1>2
<1>6. store'.head = IF n = 1 THEN 0 ELSE stack[n - 1]
  <2>1. n \in DOMAIN stack
    BY <1>1, <1>2
  <2>2. store.pages[stack[n]].word = IF n = 1 THEN 0 ELSE stack[n - 1]
    BY <2>1 DEF FreeListLinksStack
  <2>3. QED
    BY <2>2, <1>2, <1>3
<1>7. store'.head \in PageNos(store) \cup {0}
  BY <1>1, <1>2, <1>6
<1>8. FreePages' = FreePages \ {h}
  <2>1. FreePages' = {stack[i] : i \in 1 .. n - 1}
    BY <1>5 DEF FreePages
  <2>2. \A i \in 1 .. n - 1 : stack[i] # h
    BY <1>1, <1>2
  <2>3. 1 .. n = (1 .. n - 1) \cup {n}
    BY <1>1, <1>2
  <2>4. FreePages = {stack[i] : i \in 1 .. n}
    BY <1>1 DEF FreePages
  <2>5. FreePages = {stack[i] : i \in 1 .. n - 1} \cup {stack[n]}
    BY <2>3, <2>4
  <2>6. QED
    BY <2>1, <2>2, <2>5, <1>2
<1>9. \A i, j \in DOMAIN stack' : stack'[i] = stack'[j] => i = j
  BY <1>1, <1>5
<1>10. FreeListLinksStack'
  <2>1. store'.head = IF stack' = <<>> THEN 0 ELSE stack'[Len(stack')]
    <3>1. stack' = <<>> <=> Len(stack') = 0
      BY <1>5, EmptySeq
    <3>2. QED
      BY <3>1, <1>1, <1>2, <1>5, <1>6
  <2>2. ASSUME NEW i \in 1 .. n - 1
        PROVE  store'.pages[stack'[i]].word = IF i = 1 THEN 0 ELSE stack'[i - 1]
    <3>1. n \in Nat /\ n >= 1
      BY <1>1, <1>2
    <3>2. i \in 1 .. n /\ i # n /\ n \in 1 .. n
      BY <3>1
    <3>3. stack[i] \in PageNos(store)
      BY <3>2, <1>1, ElementOfSeq
    <3>4. stack[i] # h
      BY <3>2, <1>1, <1>2
    <3>5. store.pages[stack[i]].word = IF i = 1 THEN 0 ELSE stack[i - 1]
      BY <3>2, <1>1 DEF FreeListLinksStack
    <3>6. i = 1 \/ i - 1 \in 1 .. n - 1
      BY <3>1
    <3>7. QED
      BY <3>3, <3>4, <3>5, <3>6, <1>4, <1>5
  <2>3. QED
    BY <2>1, <2>2, <1>5 DEF FreeListLinksStack
<1>11. store' \in [head : Nat, pages : Seq(Page)]
  BY <1>1, <1>3, <1>4, <1>7
<1>12. QED
  BY <1>2, <1>4, <1>5, <1>7, <1>8, <1>9, <1>10, <1>11

THEOREM PagerInit == Init => PagerInv
<1> SUFFICES ASSUME Init PROVE PagerInv
  OBVIOUS
<1> USE DEF Init, PageNos
<1>1. PICK n \in InitialPages :
         store = [head |-> 0, pages |-> [i \in 1 .. n - 1 |-> ZeroPage]]
  OBVIOUS
<1>2. n \in Nat /\ n >= 2
  BY InitialPagesAssumption
<1>4. store.pages \in Seq(Page) /\ Len(store.pages) = n - 1 /\ store.head = 0
  BY <1>1, <1>2, ZeroPageType
<1>5. TypeOK
  BY <1>1, <1>2, <1>4 DEF TypeOK
<1>6. FreeListLinksStack
  BY <1>4 DEF FreeListLinksStack
<1>7. PagesPartitioned
  <2>1. FreePages = {} /\ DOMAIN stack = {}
    BY DEF FreePages
  <2>2. Unformatted = PageNos(store)
    BY DEF Unformatted
  <2>3. QED
    BY <2>1, <2>2 DEF PagesPartitioned
<1>8. QED
  BY <1>5, <1>6, <1>7 DEF PagerInv

(***************************************************************************)
(* One step per action.                                                    *)
(***************************************************************************)

LEMMA FormatStep == PagerInv /\ Format => PagerInv'
<1> SUFFICES ASSUME PagerInv, Format PROVE PagerInv'
  OBVIOUS
<1> USE DEF PageNos
<1>1. TypeOK /\ FreeListLinksStack /\ PagesPartitioned
  BY DEF PagerInv
<1>2. /\ fmt \in PageNos(store)
      /\ store' = PagerFree(store, fmt)
      /\ stack' = Append(stack, fmt)
      /\ fmt' = IF fmt = Len(store.pages) THEN 0 ELSE fmt + 1
      /\ ret' = ret /\ owned' = owned
  BY <1>1 DEF Format, TypeOK
<1>3. fmt \in Unformatted /\ Len(store.pages) \in Nat
  BY <1>1, <1>2 DEF Unformatted, TypeOK
<1>4. fmt \notin FreePages /\ fmt \notin owned
  BY <1>1, <1>3 DEF PagesPartitioned
<1>5. /\ FreeListLinksStack'
      /\ store' \in [head : Nat, pages : Seq(Page)]
      /\ Len(store'.pages) = Len(store.pages)
      /\ store'.head = fmt
      /\ stack' \in Seq(PageNos(store))
      /\ FreePages' = FreePages \cup {fmt}
  BY <1>1, <1>2, <1>4, FreeKeepsLinks
<1>6. Unformatted' = Unformatted \ {fmt}
  BY <1>2, <1>3, <1>5 DEF Unformatted
<1>7. TypeOK'
  BY <1>1, <1>2, <1>3, <1>5 DEF TypeOK
<1>8. \A i, j \in DOMAIN stack' : stack'[i] = stack'[j] => i = j
  <2>1. /\ stack \in Seq(PageNos(store))
        /\ \A i, j \in DOMAIN stack : stack[i] = stack[j] => i = j
    BY <1>1 DEF TypeOK, PagesPartitioned
  <2>2. fmt \notin {stack[i] : i \in DOMAIN stack}
    BY <1>4 DEF FreePages
  <2> HIDE DEF PageNos
  <2>3. QED
    BY <1>2, <2>1, <2>2, AppendKeepsDistinct
<1>9. PagesPartitioned'
  BY <1>1, <1>2, <1>3, <1>4, <1>5, <1>6, <1>8 DEF PagesPartitioned
<1>10. QED
  BY <1>5, <1>7, <1>9 DEF PagerInv

LEMMA FreeStep == ASSUME NEW pn \in owned PROVE PagerInv /\ Free(pn) => PagerInv'
<1> SUFFICES ASSUME PagerInv, Free(pn) PROVE PagerInv'
  OBVIOUS
<1> USE DEF PageNos
<1>1. TypeOK /\ FreeListLinksStack /\ PagesPartitioned
  BY DEF PagerInv
<1>2. /\ pn \in PageNos(store)
      /\ fmt = 0 /\ fmt' = 0
      /\ store' = PagerFree(store, pn)
      /\ stack' = Append(stack, pn)
      /\ ret' = ret /\ owned' = owned \ {pn}
  BY <1>1 DEF Free, TypeOK
<1>3. pn \notin FreePages
  BY <1>1 DEF PagesPartitioned
<1>4. /\ FreeListLinksStack'
      /\ store' \in [head : Nat, pages : Seq(Page)]
      /\ Len(store'.pages) = Len(store.pages)
      /\ store'.head = pn
      /\ stack' \in Seq(PageNos(store))
      /\ FreePages' = FreePages \cup {pn}
  BY <1>1, <1>2, <1>3, FreeKeepsLinks
<1>5. TypeOK'
  BY <1>1, <1>2, <1>4 DEF TypeOK
<1>6. Unformatted = {} /\ Unformatted' = {}
  BY <1>2 DEF Unformatted
<1>7. \A i, j \in DOMAIN stack' : stack'[i] = stack'[j] => i = j
  <2>1. /\ stack \in Seq(PageNos(store))
        /\ \A i, j \in DOMAIN stack : stack[i] = stack[j] => i = j
    BY <1>1 DEF TypeOK, PagesPartitioned
  <2>2. pn \notin {stack[i] : i \in DOMAIN stack}
    BY <1>3 DEF FreePages
  <2> HIDE DEF PageNos
  <2>3. QED
    BY <1>2, <2>1, <2>2, AppendKeepsDistinct
<1>8. PagesPartitioned'
  BY <1>1, <1>2, <1>3, <1>4, <1>6, <1>7 DEF PagesPartitioned
<1>9. QED
  BY <1>4, <1>5, <1>8 DEF PagerInv

\* What pager_alloc does, case by case.
LEMMA AllocCases ==
  ASSUME TypeOK, FreeListLinksStack, PagesPartitioned, Alloc
  PROVE  \/ /\ store.head # 0
            /\ store' = Popped(store).st
            /\ ret' = store.head
            /\ stack # <<>>
            /\ stack' = SubSeq(stack, 1, Len(stack) - 1)
            /\ owned' = owned \cup {store.head}
         \/ /\ store.head = 0 /\ CanGrow(store)
            /\ store' = Grown(store).st
            /\ ret' = Len(store.pages) + 1
            /\ stack = <<>> /\ stack' = <<>>
            /\ owned' = owned \cup {Len(store.pages) + 1}
         \/ /\ store.head = 0 /\ ~CanGrow(store)
            /\ store' = store
            /\ ret' = 0
            /\ stack = <<>> /\ stack' = <<>>
            /\ owned' = owned
<1>1. store.head = 0 <=> stack = <<>>
  <2>1. stack # <<>> => Len(stack) \in 1 .. Len(stack)
    BY EmptySeq DEF TypeOK
  <2>2. stack # <<>> => stack[Len(stack)] \in PageNos(store)
    BY <2>1, ElementOfSeq DEF TypeOK
  <2>3. QED
    BY <2>2 DEF FreeListLinksStack, PageNos
<1>2. CASE store.head # 0
  BY <1>1, <1>2 DEF Alloc, PagerAlloc, Popped
<1>3. CASE store.head = 0 /\ CanGrow(store)
  <2>1. PagerAlloc(store) = Grown(store)
    BY <1>3 DEF PagerAlloc
  <2>2. Len(store.pages) + 1 # 0
    BY DEF TypeOK
  <2>3. QED
    BY <1>1, <1>3, <2>1, <2>2 DEF Alloc, Grown
<1>4. CASE store.head = 0 /\ ~CanGrow(store)
  BY <1>1, <1>4 DEF Alloc, PagerAlloc, NoPage
<1>5. QED
  BY <1>2, <1>3, <1>4

LEMMA AllocStep == PagerInv /\ Alloc => PagerInv'
<1> SUFFICES ASSUME PagerInv, Alloc PROVE PagerInv'
  OBVIOUS
<1> USE DEF PageNos
<1>1. TypeOK /\ FreeListLinksStack /\ PagesPartitioned
  BY DEF PagerInv
<1>2. fmt = 0 /\ fmt' = 0
  BY DEF Alloc
<1>3. Unformatted = {} /\ Unformatted' = {}
  BY <1>2 DEF Unformatted
<1>4. CASE store.head # 0
  <2>1. /\ store' = Popped(store).st
        /\ ret' = store.head
        /\ stack' = SubSeq(stack, 1, Len(stack) - 1)
        /\ owned' = owned \cup {store.head}
    BY <1>1, <1>4, AllocCases
  <2>2. \A i, j \in DOMAIN stack : stack[i] = stack[j] => i = j
    BY <1>1 DEF PagesPartitioned
  <2>3. /\ FreeListLinksStack'
        /\ store' \in [head : Nat, pages : Seq(Page)]
        /\ Len(store'.pages) = Len(store.pages)
        /\ store'.head \in PageNos(store) \cup {0}
        /\ stack' \in Seq(PageNos(store))
        /\ FreePages' = FreePages \ {store.head}
        /\ \A i, j \in DOMAIN stack' : stack'[i] = stack'[j] => i = j
    BY <1>1, <1>4, <2>1, <2>2, PopKeepsLinks
  <2>4. store.head \in FreePages
    <3>1. stack # <<>> /\ store.head = stack[Len(stack)]
      BY <1>1, <1>4, <2>1, <2>2, PopKeepsLinks
    <3>2. Len(stack) \in DOMAIN stack
      BY <3>1, <1>1, EmptySeq, LenProperties DEF TypeOK
    <3>3. QED
      BY <3>1, <3>2 DEF FreePages
  <2>5. TypeOK'
    BY <1>1, <1>2, <1>4, <2>1, <2>3 DEF TypeOK
  <2>6. PagesPartitioned'
    BY <1>1, <1>3, <2>1, <2>3, <2>4 DEF PagesPartitioned
  <2>7. QED
    BY <2>3, <2>5, <2>6 DEF PagerInv
<1>5. CASE store.head = 0 /\ CanGrow(store)
  <2> DEFINE new == Len(store.pages) + 1
  <2>1. /\ store' = [store EXCEPT !.pages = Append(@, ZeroPage)]
        /\ ret' = new
        /\ stack = <<>> /\ stack' = <<>>
        /\ owned' = owned \cup {new}
    BY <1>1, <1>5, AllocCases DEF Grown
  <2>2. /\ store.pages \in Seq(Page)
        /\ Len(store.pages) \in Nat
    BY <1>1 DEF TypeOK
  <2>3. /\ store'.pages = Append(store.pages, ZeroPage)
        /\ store'.head = 0
        /\ store' = [head |-> 0, pages |-> Append(store.pages, ZeroPage)]
    BY <2>1, <1>1, <1>5 DEF TypeOK
  <2>4. store'.pages \in Seq(Page) /\ Len(store'.pages) = new
    BY <2>2, <2>3, ZeroPageType, AppendProperties
  <2>5. FreePages = {} /\ FreePages' = {}
    BY <2>1 DEF FreePages
  <2>6. PageNos(store)' = PageNos(store) \cup {new} /\ new \notin PageNos(store)
    BY <2>2, <2>4
  <2>7. TypeOK'
    <3>1. store' \in [head : Nat, pages : Seq(Page)]
      BY <2>3, <2>4
    <3>2. owned \subseteq PageNos(store) /\ stack' \in Seq(PageNos(store)')
      BY <1>1, <2>1 DEF TypeOK
    <3>3. QED
      BY <3>1, <3>2, <1>2, <2>1, <2>3, <2>6 DEF TypeOK
  <2>8. FreeListLinksStack'
    BY <2>1, <2>3 DEF FreeListLinksStack
  <2> HIDE DEF new
  <2>9. PagesPartitioned'
    BY <1>1, <1>3, <2>1, <2>5, <2>6 DEF PagesPartitioned
  <2>10. QED
    BY <2>7, <2>8, <2>9 DEF PagerInv
<1>6. CASE store.head = 0 /\ ~CanGrow(store)
  <2>1. store' = store /\ ret' = 0 /\ stack' = stack /\ owned' = owned
    BY <1>1, <1>6, AllocCases
  <2>2. QED
    BY <1>1, <1>2, <2>1 DEF PagerInv, TypeOK, FreeListLinksStack,
       PagesPartitioned, FreePages, Unformatted
<1>7. QED
  BY <1>4, <1>5, <1>6

LEMMA WriteStep ==
  ASSUME NEW pn \in owned, NEW w \in Words
  PROVE  PagerInv /\ Write(pn, w) => PagerInv'
<1> SUFFICES ASSUME PagerInv, Write(pn, w) PROVE PagerInv'
  OBVIOUS
<1> USE DEF PageNos
<1> DEFINE page == [store.pages[pn] EXCEPT !.word = w]
<1>1. TypeOK /\ FreeListLinksStack /\ PagesPartitioned
  BY DEF PagerInv
<1>2. /\ store' = [store EXCEPT !.pages[pn] = page]
      /\ fmt' = fmt /\ ret' = ret /\ owned' = owned /\ stack' = stack
  BY DEF Write, SetPage
<1>3. /\ pn \in 1 .. Len(store.pages)
      /\ store.pages \in Seq(Page)
      /\ store.head \in Nat
      /\ w \in Int
      /\ DOMAIN store.pages = 1 .. Len(store.pages)
  BY <1>1, WordsAssumption DEF TypeOK
<1>4. page \in Page
  <2>1. store.pages[pn] \in Page
    BY <1>3
  <2>2. QED
    BY <2>1, <1>3 DEF Page
<1> HIDE DEF page
<1>5. /\ store' = [head |-> store.head, pages |-> [store.pages EXCEPT ![pn] = page]]
      /\ store'.pages = [store.pages EXCEPT ![pn] = page]
  BY <1>1, <1>2 DEF TypeOK
<1>6. /\ store'.pages \in Seq(Page)
      /\ Len(store'.pages) = Len(store.pages)
      /\ \A p \in PageNos(store) \ {pn} : store'.pages[p] = store.pages[p]
  BY <1>3, <1>4, <1>5, ExceptSeq
<1>7. TypeOK'
  BY <1>1, <1>2, <1>3, <1>5, <1>6 DEF TypeOK
<1>8. FreeListLinksStack'
  <2>1. \A i \in DOMAIN stack : stack[i] \in PageNos(store) \ {pn}
    BY <1>1 DEF TypeOK, PagesPartitioned, FreePages
  <2>2. QED
    BY <1>1, <1>2, <1>5, <1>6, <2>1 DEF FreeListLinksStack
<1>9. PagesPartitioned'
  BY <1>1, <1>2, <1>6 DEF PagesPartitioned, FreePages, Unformatted
<1>10. QED
  BY <1>7, <1>8, <1>9 DEF PagerInv

LEMMA OtherSteps == PagerInv /\ (FreeNone \/ UNCHANGED vars) => PagerInv'
  BY DEF PagerInv, FreeNone, PagerFree, vars, TypeOK, FreeListLinksStack,
         PagesPartitioned, FreePages, Unformatted, PageNos

THEOREM PagerStep == PagerInv /\ [Next]_vars => PagerInv'
  BY FormatStep, FreeStep, AllocStep, WriteStep, OtherSteps DEF Next

\* The invariants of MCPager's run, for every value of the constants.
THEOREM PagerInvariant == Spec => []PagerInv
  BY PagerInit, PagerStep, PTL DEF Spec

THEOREM PagerTypeOK == Spec => []TypeOK
  BY PagerInvariant, PTL DEF PagerInv

THEOREM PagerFreeListLinksStack == Spec => []FreeListLinksStack
  BY PagerInvariant, PTL DEF PagerInv

THEOREM PagerPagesPartitioned == Spec => []PagesPartitioned
  BY PagerInvariant, PTL DEF PagerInv

(***************************************************************************)
(* The links implement the allocator of PageAllocator: the page read from  *)
(* the header is the one the abstract stack has on top.                    *)
(***************************************************************************)

LEMMA RefinesInit == Init => Allocator!Init
<1> SUFFICES ASSUME Init PROVE Allocator!Init
  OBVIOUS
<1>1. PICK n \in InitialPages :
         store = [head |-> 0, pages |-> [i \in 1 .. n - 1 |-> ZeroPage]]
  BY DEF Init
<1>2. Len(store.pages) = n - 1 /\ n - 1 \in Nat
  BY <1>1, InitialPagesAssumption
<1>3. QED
  BY <1>2 DEF Init, Allocator!Init

LEMMA RefinesStep == PagerInv /\ [Next]_vars => [Allocator!Next]_Allocator!vars
<1> SUFFICES ASSUME PagerInv, [Next]_vars PROVE [Allocator!Next]_Allocator!vars
  OBVIOUS
<1> USE DEF PageNos, Allocator!vars
<1>1. TypeOK /\ FreeListLinksStack /\ PagesPartitioned
  BY DEF PagerInv
<1>2. ASSUME Format PROVE Allocator!AddFree(fmt) /\ fmt \in PageNos(store)
  <2>1. /\ fmt \in PageNos(store)
        /\ store' = PagerFree(store, fmt)
        /\ stack' = Append(stack, fmt)
        /\ ret' = ret /\ owned' = owned
    BY <1>1, <1>2 DEF Format, TypeOK
  <2>2. fmt \in Unformatted
    BY <2>1, <1>1 DEF Unformatted, TypeOK
  <2>3. fmt \notin FreePages /\ fmt \notin owned
    BY <1>1, <2>2 DEF PagesPartitioned
  <2>4. Len(store'.pages) = Len(store.pages)
    BY <1>1, <2>1, <2>3, FreeKeepsLinks
  <2>5. QED
    BY <2>1, <2>3, <2>4 DEF Allocator!AddFree, FreePages
<1>3. ASSUME NEW pn \in owned, Free(pn) PROVE Allocator!Free(pn)
  <2>1. pn \in PageNos(store) /\ pn \notin FreePages
    BY <1>1 DEF TypeOK, PagesPartitioned
  <2>2. Len(store'.pages) = Len(store.pages)
    BY <1>1, <1>3, <2>1, FreeKeepsLinks DEF Free
  <2>3. QED
    BY <1>3, <2>2 DEF Free, Allocator!Free
<1>4. ASSUME Alloc
      PROVE  Allocator!AllocFree \/ Allocator!AllocNew \/ Allocator!AllocFail
  <2>1. CASE store.head # 0
    <3>1. /\ store' = Popped(store).st
          /\ ret' = store.head
          /\ stack' = SubSeq(stack, 1, Len(stack) - 1)
          /\ owned' = owned \cup {store.head}
      BY <1>1, <1>4, <2>1, AllocCases
    <3>2. /\ stack # <<>>
          /\ store.head = stack[Len(stack)]
          /\ Len(store'.pages) = Len(store.pages)
      BY <1>1, <2>1, <3>1, PopKeepsLinks DEF PagesPartitioned
    <3>3. QED
      BY <3>1, <3>2 DEF Allocator!AllocFree
  <2>2. CASE store.head = 0 /\ CanGrow(store)
    <3>1. /\ store' = Grown(store).st
          /\ ret' = Len(store.pages) + 1
          /\ stack = <<>> /\ stack' = <<>>
          /\ owned' = owned \cup {Len(store.pages) + 1}
      BY <1>1, <1>4, <2>2, AllocCases
    <3>2. store'.pages = Append(store.pages, ZeroPage)
      BY <3>1, <1>1 DEF Grown, TypeOK
    <3>3. Len(store'.pages) = Len(store.pages) + 1
      BY <3>2, <1>1, ZeroPageType, AppendProperties DEF TypeOK
    <3>4. QED
      BY <2>2, <3>1, <3>3 DEF Allocator!AllocNew, CanGrow
  <2>3. CASE store.head = 0 /\ ~CanGrow(store)
    <3>1. store' = store /\ ret' = 0 /\ stack = <<>> /\ stack' = <<>> /\ owned' = owned
      BY <1>1, <1>4, <2>3, AllocCases
    <3>2. Len(store.pages) + 1 >= MaxPages
      BY <2>3, <1>1, MaxPagesAssumption DEF CanGrow, TypeOK
    <3>3. QED
      BY <3>1, <3>2 DEF Allocator!AllocFail
  <2>4. QED
    BY <2>1, <2>2, <2>3
<1>5. ASSUME NEW pn \in owned, NEW w \in Words, Write(pn, w)
      PROVE  UNCHANGED Allocator!vars
  <2>1. /\ store' = SetPage(store, pn, [store.pages[pn] EXCEPT !.word = w])
        /\ ret' = ret /\ owned' = owned /\ stack' = stack
    BY <1>5 DEF Write
  <2>2. Len(store'.pages) = Len(store.pages)
    BY <2>1, <1>1 DEF SetPage, TypeOK
  <2>3. QED
    BY <2>1, <2>2
<1>6. ASSUME FreeNone \/ UNCHANGED vars PROVE UNCHANGED Allocator!vars
  BY <1>6 DEF FreeNone, PagerFree, vars
<1>7. owned \subseteq 1 .. Len(store.pages)
  BY <1>1 DEF TypeOK
<1>8. QED
  BY <1>2, <1>3, <1>4, <1>5, <1>6, <1>7 DEF Next, Allocator!Next

THEOREM PagerImplementsAllocator == Spec => ImplementsAllocator
  BY RefinesInit, RefinesStep, PagerInvariant, PTL
  DEF Spec, ImplementsAllocator, Allocator!Spec

(***************************************************************************)
(* The action properties.                                                  *)
(***************************************************************************)

LEMMA StepKeepsClientPages == PagerInv /\ [Next]_vars => ClientPagesKept
<1> SUFFICES ASSUME PagerInv, [Next]_vars PROVE ClientPagesKept
  OBVIOUS
<1> USE DEF PageNos
<1>1. TypeOK /\ FreeListLinksStack /\ PagesPartitioned
  BY DEF PagerInv
<1>2. ASSUME NEW pn \in owned, Free(pn) PROVE ClientPagesKept
  <2>1. pn \in PageNos(store) /\ pn \notin FreePages
    BY <1>1 DEF TypeOK, PagesPartitioned
  <2>2. \A p \in PageNos(store) \ {pn} : store'.pages[p] = store.pages[p]
    BY <1>1, <1>2, <2>1, FreeKeepsLinks DEF Free
  <2>3. owned' = owned \ {pn} /\ owned \subseteq PageNos(store)
    BY <1>1, <1>2 DEF Free, TypeOK
  <2>4. QED
    BY <2>2, <2>3 DEF ClientPagesKept
<1>3. ASSUME Alloc PROVE ClientPagesKept
  <2>1. CASE store.head # 0
    <3>1. /\ store' = Popped(store).st
          /\ stack' = SubSeq(stack, 1, Len(stack) - 1)
          /\ owned' = owned \cup {store.head}
      BY <1>1, <1>3, <2>1, AllocCases
    <3>2. /\ store'.pages[store.head] = ZeroPage
          /\ \A p \in PageNos(store) \ {store.head} : store'.pages[p] = store.pages[p]
          /\ stack # <<>>
          /\ store.head = stack[Len(stack)]
      BY <1>1, <2>1, <3>1, PopKeepsLinks DEF PagesPartitioned
    <3>3. Len(stack) \in DOMAIN stack
      BY <3>2, <1>1, EmptySeq, LenProperties DEF TypeOK
    <3>4. store.head \notin owned
      BY <3>2, <3>3, <1>1 DEF PagesPartitioned, FreePages
    <3>5. owned \subseteq PageNos(store) \ {store.head}
      BY <3>4, <1>1 DEF TypeOK
    <3>6. QED
      BY <3>1, <3>2, <3>5 DEF ClientPagesKept
  <2>2. CASE store.head = 0 /\ CanGrow(store)
    <3>1. /\ store' = Grown(store).st
          /\ owned' = owned \cup {Len(store.pages) + 1}
      BY <1>1, <1>3, <2>2, AllocCases
    <3>2. store'.pages = Append(store.pages, ZeroPage)
      BY <3>1, <1>1 DEF Grown, TypeOK
    <3>3. /\ store'.pages[Len(store.pages) + 1] = ZeroPage
          /\ \A p \in PageNos(store) : store'.pages[p] = store.pages[p]
      BY <3>2, <1>1, ZeroPageType, AppendProperties DEF TypeOK
    <3>4. owned \subseteq PageNos(store)
      BY <1>1 DEF TypeOK
    <3>5. QED
      BY <3>1, <3>3, <3>4 DEF ClientPagesKept
  <2>3. CASE store.head = 0 /\ ~CanGrow(store)
    BY <1>1, <1>3, <2>3, AllocCases DEF ClientPagesKept
  <2>4. QED
    BY <2>1, <2>2, <2>3
<1>4. ASSUME owned' = owned PROVE ClientPagesKept
  BY <1>4 DEF ClientPagesKept
<1>5. QED
  BY <1>2, <1>3, <1>4 DEF Next, Format, Write, FreeNone, vars

LEMMA StepGrowsLast == PagerInv /\ [Next]_vars => GrowsOnlyWhenExhausted
<1> SUFFICES ASSUME PagerInv, [Next]_vars PROVE GrowsOnlyWhenExhausted
  OBVIOUS
<1> USE DEF PageNos
<1>1. TypeOK /\ FreeListLinksStack /\ PagesPartitioned
  BY DEF PagerInv
<1>2. [Allocator!Next]_Allocator!vars
  BY RefinesStep
<1>3. ASSUME Alloc, Len(store'.pages) # Len(store.pages)
      PROVE  /\ owned = PageNos(store)
             /\ Len(store'.pages) = Len(store.pages) + 1
             /\ ret' = Len(store'.pages)
  <2>1. fmt = 0 /\ Unformatted = {}
    BY <1>3 DEF Alloc, Unformatted
  <2>2. Allocator!AllocNew
    BY <1>2, <1>3 DEF Allocator!Next, Allocator!vars, Allocator!AddFree,
       Allocator!AllocFree, Allocator!AllocFail, Allocator!Free
  <2>3. FreePages = {}
    BY <2>2 DEF Allocator!AllocNew, FreePages
  <2>4. QED
    BY <1>1, <2>1, <2>2, <2>3 DEF PagesPartitioned, Allocator!AllocNew
<1>4. ASSUME ~Alloc PROVE Len(store'.pages) = Len(store.pages)
  <2>1. ~Allocator!AllocNew
    <3>1. owned' \subseteq owned
      BY <1>4 DEF Next, Format, Free, FreeNone, Write, vars
    <3>2. Len(store.pages) \in Nat /\ owned \subseteq 1 .. Len(store.pages)
      BY <1>1 DEF TypeOK
    <3>3. Len(store.pages) + 1 \notin owned
      BY <3>2
    <3>4. QED
      BY <3>1, <3>3 DEF Allocator!AllocNew
  <2>2. QED
    BY <1>2, <2>1 DEF Allocator!Next, Allocator!vars, Allocator!AddFree,
       Allocator!AllocFree, Allocator!AllocFail, Allocator!Free
<1>5. QED
  BY <1>3, <1>4 DEF GrowsOnlyWhenExhausted

\* Clients keep their pages and are given zeroed ones, on every step.
THEOREM PagerKeepsClientPages == Spec => ClientPagesAreKept
  BY PagerInvariant, StepKeepsClientPages, PTL DEF Spec, ClientPagesAreKept

\* The file grows only when every page is held.
THEOREM PagerGrowsLast == Spec => GrowthIsLastResort
  BY PagerInvariant, StepGrowsLast, PTL DEF Spec, GrowthIsLastResort

=============================================================================
