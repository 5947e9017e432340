--------------------------- MODULE MCSharedLsmABA ---------------------------
(* SharedLsm with arrays that are aligned too little. *)
EXTENDS SharedLsm

Inserts == [t \in Threads |-> {"insert"}]
Single  == {<<1, 1>>}            \* insert(key, val)
=============================================================================
