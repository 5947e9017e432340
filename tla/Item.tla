-------------------------------- MODULE Item --------------------------------
(***************************************************************************)
(* item<K,V> (components/item_inl.h) as the threads of a queue use it: the *)
(* owner acquires a reusable item, initialize()s it and publishes a        *)
(* block_item <item, version> in one of its blocks; any thread that ever   *)
(* saw that block_item may try to take() it, however late.  initialize     *)
(* bumps the version before it writes key and value, take reads key and    *)
(* value before it compares and swaps the version: every memory access is  *)
(* a step of its own.                                                      *)
(***************************************************************************)
EXTENDS Integers

CONSTANTS Threads, Items, Keys, Vals,
          Owner,           \* the thread whose item_allocator holds the item
          VersionModulus,  \* version_t is uint32_t: 2^32
          MaxUses          \* bound: initialize() calls per item

ASSUME OwnerAssumption == Owner \in [Items -> Threads]
ASSUME VersionAssumption ==
    /\ VersionModulus \in Nat
    /\ MaxUses \in Nat
    /\ 2 <= VersionModulus
    /\ VersionModulus % 2 = 0
    /\ 2 * MaxUses <= VersionModulus   \* a version is not reached twice

VARIABLES version, key, val,  \* the fields of every item
          refs,     \* block_items that some block holds or once held
          pc, loc,  \* where each thread is, and its local variables
          uses,     \* number of initialize() calls per item (bounds the model)
          results   \* what the successful take() calls returned

vars == <<version, key, val, refs, pc, loc, uses, results>>

Versions == 0 .. (VersionModulus - 1)
Refs     == [item : Items, ver : Versions]
Elements == [item : Items, ver : Versions, key : Keys, val : Vals]
Inserting == {"init_key", "init_val", "publish"}
Taking    == {"take_val", "take_cas"}

(* Mutant: the increment does not wrap. *)
NextVersionUnbounded(v) == v + 1

(* uint32_t increment. *)
NextVersion(v) == IF v = VersionModulus - 1 THEN 0 ELSE v + 1

(* "Even versions are reusable, odd versions are in use." *)
used(i) == version[i] % 2 = 1

Init ==
    /\ version = [i \in Items |-> 0]
    /\ key \in [Items -> Keys]     \* not initialised by the constructor
    /\ val \in [Items -> Vals]
    /\ refs = {}
    /\ pc = [t \in Threads |-> "idle"]
    /\ \E e \in Elements : loc = [t \in Threads |-> e]   \* written before it is read
    /\ uses = [i \in Items |-> 0]
    /\ results = {}

-----------------------------------------------------------------------------
(* insert(key, val): item_allocator::acquire() followed by initialize().   *)

(* Mutant: a reused item starts at version 1 again. *)
initialize_reset(t, i, k, v) ==
    /\ pc[t] = "idle" /\ Owner[i] = t /\ ~used(i) /\ uses[i] < MaxUses
    /\ version' = [version EXCEPT ![i] = 1]
    /\ uses' = [uses EXCEPT ![i] = @ + 1]
    /\ loc' = [loc EXCEPT ![t] = [item |-> i, ver |-> 0, key |-> k, val |-> v]]
    /\ pc' = [pc EXCEPT ![t] = "init_key"]
    /\ UNCHANGED <<key, val, refs, results>>

initialize(t, i, k, v) ==
    /\ pc[t] = "idle"
    /\ Owner[i] = t
    /\ ~used(i)                    \* the allocator's reuse check
    /\ uses[i] < MaxUses
    /\ version' = [version EXCEPT ![i] = NextVersion(@)]
    /\ uses' = [uses EXCEPT ![i] = @ + 1]
    /\ loc' = [loc EXCEPT ![t] = [item |-> i, ver |-> 0, key |-> k, val |-> v]]
    /\ pc' = [pc EXCEPT ![t] = "init_key"]
    /\ UNCHANGED <<key, val, refs, results>>

initialize_key(t) ==
    /\ pc[t] = "init_key"
    /\ key' = [key EXCEPT ![loc[t].item] = loc[t].key]
    /\ pc' = [pc EXCEPT ![t] = "init_val"]
    /\ UNCHANGED <<version, val, refs, loc, uses, results>>

initialize_val(t) ==
    /\ pc[t] = "init_val"
    /\ val' = [val EXCEPT ![loc[t].item] = loc[t].val]
    /\ pc' = [pc EXCEPT ![t] = "publish"]
    /\ UNCHANGED <<version, key, refs, loc, uses, results>>

(* Mutant: the block_item is never published. *)
insert_ref_dropped(t) ==
    /\ pc[t] = "publish"
    /\ pc' = [pc EXCEPT ![t] = "idle"]
    /\ UNCHANGED <<version, key, val, refs, loc, uses, results>>

(* insert(it, it->version(), slsm): the version is read again. *)
insert_ref(t) ==
    /\ pc[t] = "publish"
    /\ LET i == loc[t].item
       IN  refs' = refs \union {[item |-> i, ver |-> version[i]]}
    /\ pc' = [pc EXCEPT ![t] = "idle"]
    /\ UNCHANGED <<version, key, val, loc, uses, results>>

-----------------------------------------------------------------------------
(* take(version, key, val) through any block_item seen so far.             *)

take(t, r) ==
    /\ pc[t] = "idle"
    /\ loc' = [loc EXCEPT ![t] = [item |-> r.item, ver |-> r.ver,
                                  key |-> key[r.item], val |-> loc[t].val]]
    /\ pc' = [pc EXCEPT ![t] = "take_val"]
    /\ UNCHANGED <<version, key, val, refs, uses, results>>

take_val(t) ==
    /\ pc[t] = "take_val"
    /\ loc' = [loc EXCEPT ![t] = [item |-> loc[t].item, ver |-> loc[t].ver,
                                  key |-> loc[t].key, val |-> val[loc[t].item]]]
    /\ pc' = [pc EXCEPT ![t] = "take_cas"]
    /\ UNCHANGED <<version, key, val, refs, uses, results>>

(* Mutant: the version is incremented without being compared. *)
take_blind(t) ==
    /\ pc[t] = "take_cas"
    /\ pc' = [pc EXCEPT ![t] = "idle"]
    /\ version' = [version EXCEPT ![loc[t].item] = NextVersion(@)]
    /\ results' = results \union {loc[t]}
    /\ UNCHANGED <<key, val, refs, loc, uses>>

(* compare_exchange_strong(expected, expected + 1). *)
take_cas(t) ==
    /\ pc[t] = "take_cas"
    /\ pc' = [pc EXCEPT ![t] = "idle"]
    /\ \/ /\ version[loc[t].item] = loc[t].ver
          /\ version' = [version EXCEPT ![loc[t].item] = NextVersion(loc[t].ver)]
          /\ results' = results \union {loc[t]}
       \/ /\ version[loc[t].item] # loc[t].ver
          /\ UNCHANGED <<version, results>>
    /\ UNCHANGED <<key, val, refs, loc, uses>>

Next ==
    \E t \in Threads :
        \/ \E i \in Items, k \in Keys, v \in Vals : initialize(t, i, k, v)
        \/ initialize_key(t)
        \/ initialize_val(t)
        \/ insert_ref(t)
        \/ \E r \in refs : take(t, r)
        \/ take_val(t)
        \/ take_cas(t)

Spec == Init /\ [][Next]_vars

-----------------------------------------------------------------------------
(* Type invariant of the item fields and of the threads' locals. *)
TypeOK ==
    /\ version \in [Items -> Versions]
    /\ key \in [Items -> Keys]
    /\ val \in [Items -> Vals]
    /\ refs \subseteq Refs
    /\ pc \in [Threads -> {"idle"} \union Inserting \union Taking]
    /\ loc \in [Threads -> Elements]
    /\ uses \in [Items -> 0 .. MaxUses]
    /\ results \subseteq Elements

(* No item leaks: an item whose version says "in use", and that its owner  *)
(* is not just inserting, can be reached through a block_item that carries *)
(* exactly its current version; otherwise it could never be taken and the  *)
(* allocator could never reuse it.                                         *)
NoLeak ==
    \A i \in Items :
        \/ ~used(i)
        \/ \E t \in Threads : pc[t] \in Inserting /\ loc[t].item = i
        \/ [item |-> i, ver |-> version[i]] \in refs

(* A block_item that was seen as taken stays taken, also when its item is  *)
(* reused for another element ("taken() ... m_item->version() !=           *)
(* m_version"): no ABA on the version.                                     *)
TakenForever ==
    [][\A r \in refs : version[r.item] # r.ver => version'[r.item] # r.ver]_vars

-----------------------------------------------------------------------------
(* The items implement the relaxed pool: an element is in the pool from    *)
(* the moment its block_item is published until the compare-and-swap of    *)
(* the thread that takes it, and that thread returns the key and the value *)
(* of that very element, not those of an earlier or later use of the item. *)

Live == {[item |-> r.item, ver |-> r.ver, key |-> key[r.item], val |-> val[r.item]] :
            r \in {s \in refs : version[s.item] = s.ver}}

Pool == INSTANCE RelaxedPool WITH contents <- Live, removed <- results

ImplementsPool == Pool!PoolSpec
=============================================================================
