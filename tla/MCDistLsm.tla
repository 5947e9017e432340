----------------------------- MODULE MCDistLsm -----------------------------
(* Small instances of DistLsm: the owner of each item and the number of    *)
(* insert() calls of each thread.                                          *)
EXTENDS DistLsm, TLC

OwnedByOne   == [i \in Items |-> 1]
ThreeInserts == [t \in Threads |-> IF t = 1 THEN 3 ELSE 0]
FiveInserts  == [t \in Threads |-> IF t = 1 THEN 5 ELSE 0]
DeleteMin    == [t \in Threads |-> {"delete_min"}]
AllOps       == [t \in Threads |-> {"delete_min", "find_min", "spy"}]

(* The items of one owner are interchangeable. *)
SymItems == Permutations(Items)
=============================================================================
