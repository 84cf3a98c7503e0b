--------------------------- MODULE PageAllocator ---------------------------
(***************************************************************************)
(* What the pager promises its clients, with no linked list: `stack' holds *)
(* the free pages, most recently freed last, `owned' the pages handed out  *)
(* and not yet given back, `size' the number of pages.  `ret' is the page  *)
(* the last allocation returned, 0 when it failed.                         *)
(***************************************************************************)
EXTENDS Integers, Sequences

CONSTANT MaxPages

VARIABLES stack, owned, size, ret

vars == <<stack, owned, size, ret>>

Init == /\ stack = <<>>
        /\ owned = {}
        /\ size \in Nat
        /\ ret = 0

\* Formatting puts pages on the free list that nobody holds.
AddFree(pn) == /\ pn \in 1..size
               /\ pn \notin owned
               /\ \A i \in DOMAIN stack : stack[i] # pn
               /\ stack' = Append(stack, pn)
               /\ UNCHANGED <<owned, size, ret>>

\* The page freed last is the one handed out next.
AllocFree == /\ stack # <<>>
             /\ ret' = stack[Len(stack)]
             /\ stack' = SubSeq(stack, 1, Len(stack) - 1)
             /\ owned' = owned \cup {ret'}
             /\ UNCHANGED size

\* The file grows only when nothing is free, and by the page returned.
AllocNew == /\ stack = <<>>
            /\ size + 1 < MaxPages
            /\ size' = size + 1
            /\ ret' = size'
            /\ owned' = owned \cup {ret'}
            /\ UNCHANGED stack

\* Allocation fails only when nothing is free and the file is at its limit.
AllocFail == /\ stack = <<>>
             /\ size + 1 >= MaxPages
             /\ ret' = 0
             /\ UNCHANGED <<stack, owned, size>>

Free(pn) == /\ pn \in owned
            /\ owned' = owned \ {pn}
            /\ stack' = Append(stack, pn)
            /\ UNCHANGED <<size, ret>>

Next == \/ \E pn \in 1..size : AddFree(pn)
        \/ AllocFree
        \/ AllocNew
        \/ AllocFail
        \/ \E pn \in owned : Free(pn)

Spec == Init /\ [][Next]_vars

=============================================================================
