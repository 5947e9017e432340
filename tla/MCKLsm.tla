------------------------------- MODULE MCKLsm -------------------------------
(* Small instances of KLsm and, beside it, of a distributed LSM that       *)
(* stands alone and of MultiLsm with one list per thread: "part" says      *)
(* which of them a behaviour is of.  Only the first has to choose between  *)
(* elements by their keys; the last inserts one item over and over.        *)
EXTENDS KLsm

VARIABLE part

OwnedByOne == [i \in Items |-> 1]
TwoInserts == [t \in Threads |-> IF t = 1 THEN 2 ELSE 0]
FirstOfOne == LET first == CHOOSE i \in Items : TRUE
              IN  [i \in Items |-> IF i = first THEN 1 ELSE 2]
AllOps     == [t \in Threads |-> {"delete_min", "find_min", "spy"}]

Alone == INSTANCE DistLsm WITH
              Shared <- FALSE, Keys <- {1}, Ops <- [t \in Threads |-> {"delete_min"}]
Multi == INSTANCE MultiLsm WITH
              Shared <- FALSE, Keys <- {1}, Owner <- FirstOfOne,
              ThreadOf <- [t \in Threads |-> t], mpc <- kpc, mloc <- kbest

MCInit ==
    \/ part \in {"klsm", "dist"} /\ KInit
    \/ part = "multi" /\ Multi!MInit
MCNext ==
    \/ part = "klsm" /\ KNext /\ UNCHANGED part
    \/ part = "dist" /\ Alone!Next /\ UNCHANGED <<kpc, kbest, part>>
    \/ part = "multi" /\ Multi!MNext /\ UNCHANGED part

MCvars == <<kvars, part>>
MCSpec ==
    /\ MCInit /\ [][MCNext]_MCvars
    /\ \A t \in Threads :
           /\ WF_MCvars(part = "klsm" /\ KStep(t) /\ UNCHANGED part)
           /\ WF_MCvars(part = "klsm" /\ k_delete_min(t) /\ UNCHANGED part)
           /\ WF_MCvars(part = "dist" /\ Alone!Step(t) /\ UNCHANGED <<kpc, kbest, part>>)
           /\ WF_MCvars(part = "dist" /\ Alone!delete_min(t) /\ UNCHANGED <<kpc, kbest, part>>)

(* Repeated calls of delete_min empty a k-LSM and a distributed LSM: the   *)
(* multi-LSM is checked for safety only.                                   *)
ListsDrain == part # "multi" => Drains
=============================================================================
