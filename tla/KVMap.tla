------------------------------- MODULE KVMap -------------------------------
(***************************************************************************)
(* What a B+Tree promises: a finite map from keys to values.  `op' is the  *)
(* last operation and the code it returned; an operation that returns -1   *)
(* has changed nothing.                                                    *)
(***************************************************************************)
EXTENDS Integers

CONSTANTS Keys, Values, None

VARIABLES map, op

vars == <<map, op>>

Init == /\ map = [k \in Keys |-> None]
        /\ op = [kind |-> "none", k |-> 0, v |-> None, rc |-> 0]

Put == /\ op' \in [kind : {"insert"}, k : Keys, v : Values, rc : {0}]
       /\ map' = [map EXCEPT ![op'.k] = op'.v]

Remove == /\ op' \in [kind : {"delete"}, k : Keys, v : {None}, rc : {0}]
          /\ map[op'.k] # None
          /\ map' = [map EXCEPT ![op'.k] = None]

Fail == /\ op' \in [kind : {"insert", "delete"}, k : Keys, v : Values \cup {None}, rc : {-1}]
        /\ UNCHANGED map

Next == Put \/ Remove \/ Fail

Spec == Init /\ [][Next]_vars

=============================================================================
