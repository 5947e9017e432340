---------------------------- MODULE RelaxedPool ----------------------------
(***************************************************************************)
(* What every queue of the repository promises whatever its relaxation:    *)
(* an element that was inserted is handed out by at most one successful    *)
(* delete_min, and a successful delete_min hands out an element that was   *)
(* inserted and not handed out before.  Which element is handed out, and   *)
(* whether a delete_min may fail, is left to the specifications below it.  *)
(***************************************************************************)
CONSTANT Elements

VARIABLES contents,  \* inserted and not yet removed
          removed    \* handed out by a successful delete_min

poolVars == <<contents, removed>>

PoolInit == contents = {} /\ removed = {}

(* One element, or the elements of a block that is inserted as a whole. *)
Insert ==
    /\ contents \subseteq contents'
    /\ contents' \subseteq Elements \ removed
    /\ UNCHANGED removed

Remove(e) ==
    /\ e \in contents
    /\ contents' = contents \ {e}
    /\ removed' = removed \union {e}

PoolNext == Insert \/ \E e \in Elements : Remove(e)

PoolSpec == PoolInit /\ [][PoolNext]_poolVars
=============================================================================
