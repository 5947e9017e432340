--------------------------- MODULE PriorityQueue ---------------------------
(***************************************************************************)
(* What a sequential priority queue promises: delete_min removes a         *)
(* smallest key and returns it, or finds the queue empty.                  *)
(***************************************************************************)
EXTENDS Naturals

CONSTANTS Keys, Nothing   \* Nothing: no key was returned

VARIABLES bag,   \* how often each key is in the queue
          out    \* what the last call returned

Init == bag = [k \in Keys |-> 0] /\ out = Nothing

Insert ==
    /\ \E k \in Keys : bag' = [bag EXCEPT ![k] = @ + 1]
    /\ out' = Nothing
DeleteMin ==
    \E k \in Keys :
        /\ bag[k] > 0
        /\ \A j \in Keys : j < k => bag[j] = 0
        /\ bag' = [bag EXCEPT ![k] = @ - 1]
        /\ out' = k
Empty ==
    /\ \A k \in Keys : bag[k] = 0
    /\ out' = Nothing
    /\ UNCHANGED bag
Clear == bag' = [k \in Keys |-> 0] /\ out' = Nothing

Next == Empty \/ Insert \/ DeleteMin \/ Clear
QueueSpec == Init /\ [][Next]_<<bag, out>>
=============================================================================
