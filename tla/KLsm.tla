-------------------------------- MODULE KLsm --------------------------------
(***************************************************************************)
(* k_lsm (k_lsm/k_lsm_inl.h): the composition of the distributed LSM and   *)
(* the shared LSM.  insert() is the distributed LSM's, which hands large   *)
(* blocks over to the shared LSM; delete_min() looks at both, one after    *)
(* the other, takes the better of what it saw, and spies while there is    *)
(* nothing in either.  Of the shared LSM this module uses what SharedLsm   *)
(* shows: the elements handed over are published together, and find_min    *)
(* returns one of those nobody has taken, EMPTY only if there is none.     *)
(***************************************************************************)
EXTENDS DistLsm

VARIABLES kpc,   \* where each thread is in k_lsm's delete_min
          kbest  \* best_dist and best_shared

kvars == <<vars, kpc, kbest>>

NoBest == [dist |-> EMPTY, shared |-> EMPTY]

KInit ==
    /\ Init
    /\ kpc = [t \in Threads |-> "idle"]
    /\ kbest = [t \in Threads |-> NoBest]

KGoto(t, p, b) ==
    /\ kpc' = [kpc EXCEPT ![t] = p]
    /\ kbest' = [kbest EXCEPT ![t] = b]

k_insert(t) ==
    /\ kpc[t] = "idle"
    /\ \E i \in Items, k \in Keys : insert(t, i, k)
    /\ UNCHANGED <<kpc, kbest>>

(* m_dist.find_min(best_dist): a call of the distributed LSM's peek(),     *)
(* once delete_min is called and again when spy() found something.         *)
dist_find_min(t, from) ==
    /\ kpc[t] = from
    /\ find_min(t)
    /\ KGoto(t, "in_dist", NoBest)

k_delete_min(t) == dist_find_min(t, "idle")

dist_found(t) ==
    /\ kpc[t] = "in_dist" /\ Step(t) /\ pc'[t] = "idle"
    /\ KGoto(t, "shared", [NoBest EXCEPT !.dist = Found(t)])

(* m_shared.find_min(best_shared) *)
shared_find_min(t) ==
    /\ kpc[t] = "shared"
    /\ \E e \in IF \A x \in shared : Taken(x) THEN {EMPTY} ELSE {x \in shared : ~Taken(x)} :
           KGoto(t, "choose", [kbest[t] EXCEPT !.shared = e])
    /\ UNCHANGED vars

(* The better of the two; on equal keys the local one. *)
Best(t) ==
    LET d == kbest[t].dist
        s == kbest[t].shared
    IN  IF ~Is(s) \/ (Is(d) /\ d.key <= s.key) THEN d ELSE s

(* best.take(key, val): fails if the item was taken since.                 *)
k_take(t) ==
    /\ kpc[t] = "choose" /\ Is(Best(t))
    /\ LET e == Best(t)
       IN  /\ version' = [version EXCEPT ![e.item] = IF Taken(e) THEN @ ELSE @ + 1]
           /\ shared' = shared \ {e}
    /\ KGoto(t, "idle", NoBest)
    /\ UNCHANGED <<key, blk, lists, pc, loc, fault>>

k_spy(t) ==
    /\ kpc[t] = "choose" /\ ~Is(Best(t))
    /\ call_spy(t)
    /\ KGoto(t, "in_spy", NoBest)

(* while (m_dist.spy() > 0) *)
spied_some(t) ==
    /\ kpc[t] = "in_spy" /\ spied_block(t) /\ loc[t].n > 0
    /\ KGoto(t, "spied", NoBest)
spied_none(t) ==
    /\ kpc[t] = "in_spy"
    /\ spy_abort(t) \/ (spied_block(t) /\ loc[t].n = 0)
    /\ KGoto(t, "idle", NoBest)

(* The other steps of the distributed LSM. *)
dist_step(t) ==
    /\ Step(t)
    /\ kpc[t] = "idle" \/ pc'[t] # "idle"
    /\ UNCHANGED <<kpc, kbest>>

KStep(t) ==
    \/ dist_step(t) \/ dist_find_min(t, "spied") \/ dist_found(t) \/ shared_find_min(t) \/ k_take(t)
    \/ k_spy(t) \/ spied_some(t) \/ spied_none(t)

KNext == \E t \in Threads : k_insert(t) \/ k_delete_min(t) \/ KStep(t)

(* A thread inside a call keeps running, and the clients go on calling     *)
(* delete_min.                                                             *)
KSpec == KInit /\ [][KNext]_kvars
KFairSpec == KSpec /\ \A t \in Threads : WF_kvars(KStep(t)) /\ WF_kvars(k_delete_min(t))
=============================================================================
