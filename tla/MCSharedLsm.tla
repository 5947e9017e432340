---------------------------- MODULE MCSharedLsm ----------------------------
(***************************************************************************)
(* Small instances of SharedLsm.  A behaviour follows one scenario, chosen *)
(* at the start: the calls of each thread, the blocks that are inserted    *)
(* and how many elements there are.                                        *)
(***************************************************************************)
EXTENDS SharedLsm

VARIABLE scenario

Single    == {<<1, 1>>}            \* insert(key, val)
Handed    == {<<0, 1>>, <<1, 2>>}  \* insert(block) by the k-LSM
Sparse    == {<<0, 1>>, <<1, 1>>}  \* the same, when items were taken meanwhile
AllLoads  == Single \union Handed
AllOps    == [t \in Threads |-> {"insert", "delete_min", "find_min", "take_dist"}]
Calling(others) == [t \in Threads |-> IF t = 1 THEN {"insert"} ELSE others]

Scenarios ==
    [writers |-> [ops |-> Calling({"insert", "delete_min"}), loads |-> Handed, elements |-> 3],
     pool    |-> [ops |-> Calling({"take_dist"}), loads |-> Sparse, elements |-> 4],
     reader  |-> [ops |-> Calling({"delete_min", "find_min"}), loads |-> Single, elements |-> 4]]

MCInit == Init /\ scenario \in DOMAIN Scenarios

MCNext ==
    /\ ~fault
    /\ \E t \in Threads :
           Step(t) \/ Calls(t, Scenarios[scenario].ops[t], Scenarios[scenario].loads)
    /\ Cardinality(inserted') <= Scenarios[scenario].elements
    /\ UNCHANGED scenario

MCSpec == MCInit /\ [][MCNext]_<<vars, scenario>>
=============================================================================
