----------------------------- MODULE ItemProofs -----------------------------
(***************************************************************************)
(* Proofs about Item, for every number of threads, items, keys and values  *)
(* and every width of version_t.                                           *)
(***************************************************************************)
EXTENDS Item, TLAPS

(* The version of an item tells how often it was initialised. *)
VersionInv ==
    \A i \in Items :
        /\ used(i) => version[i] = 2 * uses[i] - 1
        /\ ~used(i) => version[i] = IF 2 * uses[i] = VersionModulus
                                    THEN 0 ELSE 2 * uses[i]

(* Published versions are odd and not ahead of their item. *)
RefsInv ==
    \A r \in refs : r.ver % 2 = 1 /\ r.ver <= 2 * uses[r.item] - 1

(* An item that is being inserted belongs to the inserting thread and its  *)
(* current version has not been published.                                 *)
InsertInv ==
    \A t \in Threads :
        pc[t] \in Inserting =>
            /\ Owner[loc[t].item] = t
            /\ used(loc[t].item)
            /\ [item |-> loc[t].item, ver |-> version[loc[t].item]] \notin refs

(* What a taker has read is current as long as its version is. *)
TakeInv ==
    \A t \in Threads :
        pc[t] \in Taking =>
            /\ [item |-> loc[t].item, ver |-> loc[t].ver] \in refs
            /\ version[loc[t].item] = loc[t].ver =>
                  /\ key[loc[t].item] = loc[t].key
                  /\ pc[t] = "take_cas" => val[loc[t].item] = loc[t].val

(* A returned element was published and is not current any more. *)
ResultsInv ==
    \A e \in results :
        /\ [item |-> e.item, ver |-> e.ver] \in refs
        /\ version[e.item] # e.ver

IInv ==
    /\ TypeOK
    /\ VersionInv
    /\ RefsInv
    /\ InsertInv
    /\ TakeInv
    /\ ResultsInv
    /\ NoLeak

-----------------------------------------------------------------------------
(* initialize() moves an unused item to a version above every published    *)
(* one: the step the other invariants rest on.                             *)
LEMMA InitializeVersion ==
    ASSUME TypeOK, VersionInv, RefsInv,
           NEW t \in Threads, NEW i \in Items, NEW k \in Keys, NEW v \in Vals,
           initialize(t, i, k, v)
    PROVE  /\ version[i] = 2 * uses[i]
           /\ version'[i] = 2 * uses[i] + 1
           /\ version'[i] \in Versions
           /\ version'[i] % 2 = 1
           /\ \A r \in refs : r.item = i => r.ver # version[i] /\ r.ver < version'[i]
PROOF
<1>1. uses[i] \in Nat /\ uses[i] < MaxUses /\ MaxUses \in Nat
      /\ VersionModulus \in Nat /\ 2 * MaxUses <= VersionModulus
      /\ VersionModulus % 2 = 0
  BY VersionAssumption DEF TypeOK, initialize
<1>2. version[i] = 2 * uses[i]
  BY <1>1 DEF VersionInv, initialize
<1>3. version'[i] = 2 * uses[i] + 1
  BY <1>1, <1>2 DEF initialize, NextVersion, TypeOK
<1>4. version'[i] \in Versions /\ version'[i] % 2 = 1
  BY <1>1, <1>3 DEF Versions
<1>5. \A r \in refs : r.item = i => r.ver # version[i] /\ r.ver < version'[i]
  BY <1>1, <1>2, <1>3 DEF RefsInv, TypeOK, Refs, Versions
<1>6. QED
  BY <1>2, <1>3, <1>4, <1>5

(* A successful compare-and-swap moves the item to an even version. *)
LEMMA TakeVersion ==
    ASSUME TypeOK, VersionInv, RefsInv, TakeInv,
           NEW t \in Threads, take_cas(t),
           version[loc[t].item] = loc[t].ver
    PROVE  LET i == loc[t].item
           IN  /\ used(i)
               /\ version[i] = 2 * uses[i] - 1
               /\ version' = [version EXCEPT ![i] = NextVersion(loc[t].ver)]
               /\ version'[i] = IF 2 * uses[i] = VersionModulus THEN 0 ELSE 2 * uses[i]
               /\ version'[i] \in Versions
               /\ version'[i] % 2 = 0
PROOF
<1> DEFINE i == loc[t].item
<1>1. i \in Items /\ loc[t].ver \in Versions /\ uses[i] \in Nat
      /\ uses[i] <= MaxUses /\ MaxUses \in Nat
      /\ VersionModulus \in Nat /\ 2 * MaxUses <= VersionModulus
      /\ VersionModulus % 2 = 0 /\ version[i] \in Versions
  BY VersionAssumption DEF TypeOK, Elements
<1>2. [item |-> i, ver |-> loc[t].ver] \in refs
  BY DEF TakeInv, take_cas, Taking
<1>3. version[i] % 2 = 1
  BY <1>2 DEF RefsInv
<1>4. version[i] = 2 * uses[i] - 1
  BY <1>1, <1>3 DEF VersionInv, used
<1>5. version' = [version EXCEPT ![i] = NextVersion(loc[t].ver)]
  BY DEF take_cas
<1>6. version'[i] = NextVersion(version[i])
  BY <1>1, <1>5 DEF TypeOK
<1>7. version'[i] = IF 2 * uses[i] = VersionModulus THEN 0 ELSE 2 * uses[i]
  BY <1>1, <1>4, <1>6 DEF NextVersion
<1>8. version'[i] \in Versions /\ version'[i] % 2 = 0
  BY <1>1, <1>7 DEF Versions
<1>9. QED
  BY <1>3, <1>4, <1>5, <1>7, <1>8 DEF used

(* Every step keeps the fields and the locals in their types. *)
LEMMA TypeStep == IInv /\ [Next]_vars => TypeOK'
PROOF
<1> SUFFICES ASSUME IInv, [Next]_vars PROVE TypeOK'
  OBVIOUS
<1> USE DEF IInv
<1>1. ASSUME NEW t \in Threads, NEW i \in Items, NEW k \in Keys, NEW v \in Vals,
             initialize(t, i, k, v)
      PROVE  TypeOK'
  <2>1. version' \in [Items -> Versions]
    BY <1>1, InitializeVersion DEF TypeOK, initialize
  <2>2. uses' \in [Items -> 0 .. MaxUses]
    BY <1>1, VersionAssumption DEF TypeOK, initialize
  <2>3. loc' \in [Threads -> Elements]
    BY <1>1, VersionAssumption DEF TypeOK, initialize, Elements, Versions
  <2>4. QED
    BY <1>1, <2>1, <2>2, <2>3 DEF TypeOK, initialize, Inserting, Taking
<1>2. ASSUME NEW t \in Threads, initialize_key(t) PROVE TypeOK'
  BY <1>2 DEF TypeOK, initialize_key, Elements, Inserting, Taking
<1>3. ASSUME NEW t \in Threads, initialize_val(t) PROVE TypeOK'
  BY <1>3 DEF TypeOK, initialize_val, Elements, Inserting, Taking
<1>4. ASSUME NEW t \in Threads, insert_ref(t) PROVE TypeOK'
  BY <1>4 DEF TypeOK, insert_ref, Elements, Refs, Inserting, Taking
<1>5. ASSUME NEW t \in Threads, NEW r \in refs, take(t, r) PROVE TypeOK'
  <2>1. loc' \in [Threads -> Elements]
    BY <1>5 DEF TypeOK, take, Elements, Refs
  <2>2. QED
    BY <1>5, <2>1 DEF TypeOK, take, Inserting, Taking
<1>6. ASSUME NEW t \in Threads, take_val(t) PROVE TypeOK'
  <2>1. loc' \in [Threads -> Elements]
    BY <1>6 DEF TypeOK, take_val, Elements
  <2>2. QED
    BY <1>6, <2>1 DEF TypeOK, take_val, Inserting, Taking
<1>7. ASSUME NEW t \in Threads, take_cas(t) PROVE TypeOK'
  <2>1. version' \in [Items -> Versions]
    <3>1. CASE version[loc[t].item] = loc[t].ver
      BY <1>7, <3>1, TakeVersion DEF TypeOK, Elements
    <3>2. CASE version[loc[t].item] # loc[t].ver
      BY <1>7, <3>2 DEF TypeOK, take_cas
    <3>3. QED
      BY <3>1, <3>2
  <2>2. results' \subseteq Elements
    BY <1>7 DEF TypeOK, take_cas
  <2>3. QED
    BY <1>7, <2>1, <2>2 DEF TypeOK, take_cas, Inserting, Taking
<1>8. CASE UNCHANGED vars
  BY <1>8 DEF vars, TypeOK
<1>9. QED
  BY <1>1, <1>2, <1>3, <1>4, <1>5, <1>6, <1>7, <1>8 DEF Next

-----------------------------------------------------------------------------
(* The rest of the inductive invariant, action by action. *)

LEMMA InitializeStep ==
    ASSUME IInv, TypeOK',
           NEW t \in Threads, NEW i \in Items, NEW k \in Keys, NEW v \in Vals,
           initialize(t, i, k, v)
    PROVE  IInv'
PROOF
<1> USE DEF IInv
<1>1. /\ version[i] = 2 * uses[i]
      /\ version'[i] = 2 * uses[i] + 1
      /\ version'[i] \in Versions
      /\ version'[i] % 2 = 1
      /\ \A r \in refs : r.item = i => r.ver # version[i] /\ r.ver < version'[i]
  BY InitializeVersion
<1>2. /\ \A j \in Items \ {i} : version'[j] = version[j] /\ uses'[j] = uses[j]
      /\ uses'[i] = uses[i] + 1
      /\ uses[i] \in Nat
      /\ UNCHANGED <<key, val, refs, results>>
      /\ \A u \in Threads \ {t} : pc'[u] = pc[u] /\ loc'[u] = loc[u]
      /\ pc[t] = "idle" /\ pc'[t] = "init_key" /\ loc'[t].item = i
      /\ Owner[i] = t /\ ~used(i)
  BY DEF initialize, TypeOK
<1>3. VersionInv'
  BY <1>1, <1>2 DEF VersionInv, used
<1>4. RefsInv'
  BY <1>2 DEF RefsInv, TypeOK, Refs, Versions
<1>5. InsertInv'
  <2> SUFFICES ASSUME NEW u \in Threads, pc'[u] \in Inserting
               PROVE  /\ Owner[loc'[u].item] = u
                      /\ version'[loc'[u].item] % 2 = 1
                      /\ [item |-> loc'[u].item, ver |-> version'[loc'[u].item]] \notin refs'
    BY DEF InsertInv, used
  <2>1. CASE u = t
    BY <1>1, <1>2, <2>1 DEF used, Versions
  <2>2. CASE u # t
    <3>1. pc[u] \in Inserting /\ loc'[u] = loc[u] /\ loc[u].item \in Items
      BY <1>2, <2>2 DEF TypeOK, Elements
    <3>2. loc[u].item # i
      BY <1>2, <2>2, <3>1 DEF InsertInv
    <3>3. QED
      BY <1>2, <3>1, <3>2 DEF InsertInv, used
  <2>3. QED
    BY <2>1, <2>2
<1>6. TakeInv'
  <2> SUFFICES ASSUME NEW u \in Threads, pc'[u] \in Taking
               PROVE  /\ [item |-> loc'[u].item, ver |-> loc'[u].ver] \in refs'
                      /\ version'[loc'[u].item] = loc'[u].ver =>
                            /\ key'[loc'[u].item] = loc'[u].key
                            /\ pc'[u] = "take_cas" => val'[loc'[u].item] = loc'[u].val
    BY DEF TakeInv
  <2>1. u # t
    BY <1>2 DEF Taking
  <2>2. QED
    BY <1>1, <1>2, <2>1 DEF TakeInv, TypeOK, Elements, Versions
<1>7. ResultsInv'
  <2> SUFFICES ASSUME NEW e \in results
               PROVE  /\ [item |-> e.item, ver |-> e.ver] \in refs
                      /\ version'[e.item] # e.ver
    BY <1>2 DEF ResultsInv
  <2>1. [item |-> e.item, ver |-> e.ver] \in refs /\ e.item \in Items /\ e.ver \in Versions
    BY DEF ResultsInv, TypeOK, Elements
  <2>2. CASE e.item = i
    BY <1>1, <2>1, <2>2 DEF Versions
  <2>3. CASE e.item # i
    BY <1>2, <2>1, <2>3 DEF ResultsInv
  <2>4. QED
    BY <2>1, <2>2, <2>3
<1>8. NoLeak'
  <2> SUFFICES ASSUME NEW j \in Items, used(j)'
               PROVE  \/ \E u \in Threads : pc'[u] \in Inserting /\ loc'[u].item = j
                      \/ [item |-> j, ver |-> version'[j]] \in refs'
    BY DEF NoLeak
  <2>1. CASE j = i
    BY <1>2, <2>1 DEF Inserting
  <2>2. CASE j # i
    <3>1. used(j) /\ version'[j] = version[j]
      BY <1>2, <2>2 DEF used
    <3>2. CASE \E u \in Threads : pc[u] \in Inserting /\ loc[u].item = j
      BY <1>2, <3>2 DEF Inserting
    <3>3. CASE [item |-> j, ver |-> version[j]] \in refs
      BY <1>2, <3>1, <3>3
    <3>4. QED
      BY <3>1, <3>2, <3>3 DEF NoLeak
  <2>3. QED
    BY <2>1, <2>2
<1>9. QED
  BY <1>3, <1>4, <1>5, <1>6, <1>7, <1>8

(* The owner writes a field of an item no current block_item refers to. *)
LEMMA WriteStep ==
    ASSUME IInv, TypeOK', NEW t \in Threads,
           initialize_key(t) \/ initialize_val(t)
    PROVE  IInv'
PROOF
<1> USE DEF IInv
<1> DEFINE i == loc[t].item
<1>1. /\ i \in Items
      /\ UNCHANGED <<version, refs, loc, uses, results>>
      /\ \A j \in Items \ {i} : key'[j] = key[j] /\ val'[j] = val[j]
      /\ \A u \in Threads \ {t} : pc'[u] = pc[u]
      /\ pc[t] \in Inserting /\ pc'[t] \in Inserting
  BY DEF initialize_key, initialize_val, TypeOK, Elements, Inserting
<1>2. [item |-> i, ver |-> version[i]] \notin refs
  BY <1>1 DEF InsertInv
<1>3. VersionInv' /\ RefsInv' /\ ResultsInv'
  BY <1>1 DEF VersionInv, RefsInv, ResultsInv, used
<1>4. InsertInv'
  BY <1>1 DEF InsertInv, used
<1>5. TakeInv'
  <2> SUFFICES ASSUME NEW u \in Threads, pc'[u] \in Taking
               PROVE  /\ [item |-> loc'[u].item, ver |-> loc'[u].ver] \in refs'
                      /\ version'[loc'[u].item] = loc'[u].ver =>
                            /\ key'[loc'[u].item] = loc'[u].key
                            /\ pc'[u] = "take_cas" => val'[loc'[u].item] = loc'[u].val
    BY DEF TakeInv
  <2>1. u # t
    BY <1>1 DEF Inserting, Taking
  <2>2. pc[u] \in Taking /\ pc'[u] = pc[u] /\ [item |-> loc[u].item, ver |-> loc[u].ver] \in refs
    BY <1>1, <2>1 DEF TakeInv
  <2>3. loc[u].item \in Items
    BY DEF TypeOK, Elements
  <2>4. version[loc[u].item] = loc[u].ver => loc[u].item # i
    BY <1>2, <2>2
  <2>5. QED
    BY <1>1, <2>1, <2>2, <2>3, <2>4 DEF TakeInv
<1>6. NoLeak'
  BY <1>1 DEF NoLeak, used
<1>7. QED
  BY <1>3, <1>4, <1>5, <1>6

LEMMA PublishStep ==
    ASSUME IInv, TypeOK', NEW t \in Threads, insert_ref(t)
    PROVE  IInv'
PROOF
<1> USE DEF IInv
<1> DEFINE i == loc[t].item
           r == [item |-> i, ver |-> version[i]]
<1>1. /\ i \in Items
      /\ refs' = refs \union {r}
      /\ UNCHANGED <<version, key, val, loc, uses, results>>
      /\ \A u \in Threads \ {t} : pc'[u] = pc[u]
      /\ pc[t] \in Inserting /\ pc'[t] = "idle"
      /\ used(i) /\ Owner[i] = t
  BY DEF insert_ref, TypeOK, Elements, Inserting, InsertInv
<1>2. VersionInv'
  BY <1>1 DEF VersionInv, used
<1>3. RefsInv'
  BY <1>1 DEF RefsInv, VersionInv, TypeOK, used, Versions
<1>4. InsertInv'
  BY <1>1 DEF InsertInv, used, Inserting
<1>5. TakeInv'
  BY <1>1 DEF TakeInv, Taking
<1>6. ResultsInv'
  BY <1>1 DEF ResultsInv
<1>7. NoLeak'
  BY <1>1 DEF NoLeak, used
<1>8. QED
  BY <1>2, <1>3, <1>4, <1>5, <1>6, <1>7

LEMMA TakeReadStep ==
    ASSUME IInv, TypeOK', NEW t \in Threads,
           (\E r \in refs : take(t, r)) \/ take_val(t)
    PROVE  IInv'
PROOF
<1> USE DEF IInv
<1>1. /\ UNCHANGED <<version, key, val, refs, uses, results>>
      /\ \A u \in Threads \ {t} : pc'[u] = pc[u] /\ loc'[u] = loc[u]
      /\ pc[t] \notin Inserting /\ pc'[t] \in Taking
  BY DEF take, take_val, TypeOK, Inserting, Taking
<1>2. VersionInv' /\ RefsInv' /\ ResultsInv'
  BY <1>1 DEF VersionInv, RefsInv, ResultsInv, used
<1>3. InsertInv'
  BY <1>1 DEF InsertInv, used, Inserting, Taking
<1>4. NoLeak'
  BY <1>1 DEF NoLeak, used, Inserting, Taking
<1>5. TakeInv'
  <2>1. ASSUME take_val(t)
        PROVE  /\ loc'[t] = [item |-> loc[t].item, ver |-> loc[t].ver,
                              key |-> loc[t].key, val |-> val[loc[t].item]]
               /\ pc[t] \in Taking
    BY <2>1 DEF take_val, TypeOK, Taking
  <2>2. CASE \E r \in refs : take(t, r)
    <3>1. PICK r \in refs : take(t, r)
      BY <2>2
    <3>2. loc'[t].item = r.item /\ loc'[t].ver = r.ver /\ loc'[t].key = key[r.item]
      BY <3>1 DEF take, TypeOK
    <3>3. [item |-> r.item, ver |-> r.ver] \in refs
      BY <3>1 DEF TypeOK, Refs
    <3>4. pc'[t] # "take_cas"
      BY <3>1 DEF take, TypeOK
    <3>5. QED
      BY <1>1, <3>2, <3>3, <3>4 DEF TakeInv
  <2>3. CASE take_val(t)
    BY <1>1, <2>1, <2>3 DEF TakeInv
  <2>4. QED
    BY <2>2, <2>3
<1>6. QED
  BY <1>2, <1>3, <1>4, <1>5

LEMMA TakeCasStep ==
    ASSUME IInv, TypeOK', NEW t \in Threads, take_cas(t)
    PROVE  IInv'
PROOF
<1> USE DEF IInv
<1> DEFINE i == loc[t].item
<1>1. /\ i \in Items
      /\ UNCHANGED <<key, val, refs, loc, uses>>
      /\ \A u \in Threads \ {t} : pc'[u] = pc[u]
      /\ pc[t] = "take_cas" /\ pc'[t] = "idle"
      /\ [item |-> i, ver |-> loc[t].ver] \in refs
  BY DEF take_cas, TypeOK, Elements, TakeInv, Taking
<1>2. CASE version[i] # loc[t].ver
  <2>1. UNCHANGED <<version, results>>
    BY <1>2 DEF take_cas
  <2>2. VersionInv' /\ RefsInv' /\ ResultsInv'
    BY <1>1, <2>1 DEF VersionInv, RefsInv, ResultsInv, used
  <2>3. InsertInv' /\ NoLeak'
    BY <1>1, <2>1 DEF InsertInv, NoLeak, used, Inserting
  <2>4. TakeInv'
    BY <1>1, <2>1 DEF TakeInv, Taking
  <2>5. QED
    BY <2>2, <2>3, <2>4
<1>3. CASE version[i] = loc[t].ver
  <2>1. /\ used(i)
        /\ version[i] = 2 * uses[i] - 1
        /\ version' = [version EXCEPT ![i] = NextVersion(loc[t].ver)]
        /\ version'[i] = IF 2 * uses[i] = VersionModulus THEN 0 ELSE 2 * uses[i]
        /\ version'[i] \in Versions
        /\ version'[i] % 2 = 0
    BY <1>3, TakeVersion
  <2>2. \A j \in Items \ {i} : version'[j] = version[j]
    BY <2>1 DEF TypeOK
  <2>3. results' = results \union {loc[t]}
    BY <1>3 DEF take_cas
  <2>4. \A r \in refs : r.item = i => r.ver # version'[i]
    BY <2>1 DEF RefsInv
  <2>5. VersionInv'
    BY <1>1, <2>1, <2>2 DEF VersionInv, used
  <2>6. RefsInv'
    BY <1>1 DEF RefsInv
  <2>7. InsertInv'
    <3> SUFFICES ASSUME NEW u \in Threads, pc'[u] \in Inserting
                 PROVE  /\ Owner[loc'[u].item] = u
                        /\ version'[loc'[u].item] % 2 = 1
                        /\ [item |-> loc'[u].item, ver |-> version'[loc'[u].item]] \notin refs'
      BY DEF InsertInv, used
    <3>1. u # t /\ pc[u] \in Inserting
      BY <1>1 DEF Inserting
    <3>2. loc[u].item # i
      BY <1>1, <1>3, <3>1 DEF InsertInv
    <3>3. loc[u].item \in Items
      BY DEF TypeOK, Elements
    <3>4. QED
      BY <1>1, <2>2, <3>1, <3>2, <3>3 DEF InsertInv, used
  <2>8. TakeInv'
    <3> SUFFICES ASSUME NEW u \in Threads, pc'[u] \in Taking
                 PROVE  /\ [item |-> loc'[u].item, ver |-> loc'[u].ver] \in refs'
                        /\ version'[loc'[u].item] = loc'[u].ver =>
                              /\ key'[loc'[u].item] = loc'[u].key
                              /\ pc'[u] = "take_cas" => val'[loc'[u].item] = loc'[u].val
      BY DEF TakeInv
    <3>1. u # t /\ pc[u] \in Taking /\ loc[u].item \in Items
      BY <1>1 DEF Taking, TypeOK, Elements
    <3>2. [item |-> loc[u].item, ver |-> loc[u].ver] \in refs
      BY <3>1 DEF TakeInv
    <3>3. CASE loc[u].item = i
      BY <1>1, <2>4, <3>2, <3>3
    <3>4. CASE loc[u].item # i
      BY <1>1, <2>2, <3>1, <3>4 DEF TakeInv
    <3>5. QED
      BY <3>3, <3>4
  <2>9. ResultsInv'
    <3> SUFFICES ASSUME NEW e \in results'
                 PROVE  /\ [item |-> e.item, ver |-> e.ver] \in refs'
                        /\ version'[e.item] # e.ver
      BY DEF ResultsInv
    <3>1. CASE e \in results
      BY <1>1, <2>2, <2>4, <3>1 DEF ResultsInv, TypeOK, Elements
    <3>2. CASE e = loc[t]
      BY <1>1, <2>4, <3>2
    <3>3. QED
      BY <2>3, <3>1, <3>2
  <2>10. NoLeak'
    <3> SUFFICES ASSUME NEW j \in Items, used(j)'
                 PROVE  \/ \E u \in Threads : pc'[u] \in Inserting /\ loc'[u].item = j
                        \/ [item |-> j, ver |-> version'[j]] \in refs'
      BY DEF NoLeak
    <3>1. j # i /\ used(j) /\ version'[j] = version[j]
      BY <2>1, <2>2 DEF used
    <3>2. CASE \E u \in Threads : pc[u] \in Inserting /\ loc[u].item = j
      BY <1>1, <3>2 DEF Inserting
    <3>3. CASE [item |-> j, ver |-> version[j]] \in refs
      BY <1>1, <3>1, <3>3
    <3>4. QED
      BY <3>1, <3>2, <3>3 DEF NoLeak
  <2>11. QED
    BY <2>5, <2>6, <2>7, <2>8, <2>9, <2>10
<1>4. QED
  BY <1>2, <1>3

LEMMA InvInit == Init => IInv
PROOF
<1> SUFFICES ASSUME Init PROVE IInv
  OBVIOUS
<1>1. TypeOK
  <2>1. PICK e \in Elements : loc = [t \in Threads |-> e]
    BY DEF Init
  <2>2. version \in [Items -> Versions] /\ uses \in [Items -> 0 .. MaxUses]
    BY VersionAssumption DEF Init, Versions
  <2>3. QED
    BY <2>1, <2>2 DEF Init, TypeOK
<1>2. VersionInv /\ RefsInv /\ NoLeak
  BY VersionAssumption DEF Init, VersionInv, RefsInv, NoLeak, used
<1>3. InsertInv /\ TakeInv /\ ResultsInv
  BY DEF Init, InsertInv, TakeInv, ResultsInv, Inserting, Taking
<1>4. QED
  BY <1>1, <1>2, <1>3 DEF IInv

LEMMA InvStep == IInv /\ [Next]_vars => IInv'
PROOF
<1> SUFFICES ASSUME IInv, [Next]_vars PROVE IInv'
  OBVIOUS
<1>1. TypeOK'
  BY TypeStep
<1>2. CASE UNCHANGED vars
  BY <1>2 DEF vars, IInv, TypeOK, VersionInv, RefsInv, InsertInv, TakeInv,
              ResultsInv, NoLeak, used
<1>3. CASE Next
  <2>1. PICK t \in Threads :
            \/ \E i \in Items, k \in Keys, v \in Vals : initialize(t, i, k, v)
            \/ initialize_key(t)
            \/ initialize_val(t)
            \/ insert_ref(t)
            \/ \E r \in refs : take(t, r)
            \/ take_val(t)
            \/ take_cas(t)
    BY <1>3 DEF Next
  <2>2. QED
    BY <1>1, <2>1, InitializeStep, WriteStep, PublishStep, TakeReadStep, TakeCasStep
<1>4. QED
  BY <1>2, <1>3

(* The invariant holds in every reachable state. *)
THEOREM Invariance == Spec => []IInv
PROOF
<1>1. QED
  BY InvInit, InvStep, PTL DEF Spec

(* Item fields and thread locals keep their types: in particular the       *)
(* version never leaves the width of version_t.                            *)
THEOREM TypeCorrect == Spec => []TypeOK
PROOF
<1>1. IInv => TypeOK
  BY DEF IInv
<1>2. QED
  BY <1>1, Invariance, PTL

(* No item leaks, whatever the interleaving of initialize() and take().    *)
THEOREM NothingLeaks == Spec => []NoLeak
PROOF
<1>1. IInv => NoLeak
  BY DEF IInv
<1>2. QED
  BY <1>1, Invariance, PTL

(* A taken block_item never becomes takeable again when its item is reused. *)
THEOREM TakenStaysTaken == Spec => TakenForever
PROOF
<1> DEFINE A == \A r \in refs : version[r.item] # r.ver => version'[r.item] # r.ver
<1>1. IInv /\ [Next]_vars => [A]_vars
  <2> SUFFICES ASSUME IInv, Next, NEW r \in refs, version[r.item] # r.ver,
                      version'[r.item] = r.ver
               PROVE  FALSE
    BY DEF vars
  <2> USE DEF IInv
  <2>1. r.item \in Items /\ r.ver \in Versions /\ version'[r.item] # version[r.item]
    BY DEF TypeOK, Refs
  <2>2. ASSUME NEW t \in Threads, NEW i \in Items, NEW k \in Keys, NEW v \in Vals,
               initialize(t, i, k, v)
        PROVE  FALSE
    <3>1. r.item = i
      BY <2>1, <2>2 DEF initialize, TypeOK
    <3>2. r.ver < version'[i] /\ version'[i] \in Versions
      BY <2>2, <3>1, InitializeVersion
    <3>3. QED
      BY <2>1, <3>1, <3>2 DEF Versions
  <2>3. ASSUME NEW t \in Threads, take_cas(t) PROVE FALSE
    <3>1. version[loc[t].item] = loc[t].ver
      BY <2>1, <2>3 DEF take_cas
    <3>2. r.item = loc[t].item
      BY <2>1, <2>3, <3>1 DEF take_cas, TypeOK
    <3>3. version'[loc[t].item] % 2 = 0
      BY <2>3, <3>1, TakeVersion
    <3>4. QED
      BY <3>2, <3>3 DEF RefsInv
  <2>4. QED
    BY <2>1, <2>2, <2>3 DEF Next, initialize_key, initialize_val, insert_ref, take, take_val
<1>2. QED
  BY <1>1, Invariance, PTL DEF Spec, TakenForever

-----------------------------------------------------------------------------
(* Refinement: which steps change the set of live elements, and how. *)

(* Membership in Live, without the set constructor. *)
LEMMA LiveElement ==
    ASSUME TypeOK
    PROVE  \A e : e \in Live <=>
               /\ e \in Elements
               /\ [item |-> e.item, ver |-> e.ver] \in refs
               /\ version[e.item] = e.ver
               /\ key[e.item] = e.key
               /\ val[e.item] = e.val
PROOF
<1> SUFFICES ASSUME NEW e
             PROVE  e \in Live <=>
                       /\ e \in Elements
                       /\ [item |-> e.item, ver |-> e.ver] \in refs
                       /\ version[e.item] = e.ver
                       /\ key[e.item] = e.key
                       /\ val[e.item] = e.val
  OBVIOUS
<1>1. ASSUME e \in Live
      PROVE  /\ e \in Elements
             /\ [item |-> e.item, ver |-> e.ver] \in refs
             /\ version[e.item] = e.ver
             /\ key[e.item] = e.key
             /\ val[e.item] = e.val
  <2>1. PICK r \in refs : /\ version[r.item] = r.ver
                          /\ e = [item |-> r.item, ver |-> r.ver,
                                   key |-> key[r.item], val |-> val[r.item]]
    BY <1>1 DEF Live
  <2>2. r \in Refs
    BY DEF TypeOK
  <2>3. r = [item |-> r.item, ver |-> r.ver]
    BY <2>2 DEF Refs
  <2>4. e.item = r.item /\ e.ver = r.ver /\ e.key = key[r.item] /\ e.val = val[r.item]
    BY <2>1
  <2>5. e \in Elements
    BY <2>1, <2>2 DEF TypeOK, Refs, Elements
  <2>6. QED
    BY <2>1, <2>3, <2>4, <2>5
<1>2. ASSUME e \in Elements, [item |-> e.item, ver |-> e.ver] \in refs,
             version[e.item] = e.ver, key[e.item] = e.key, val[e.item] = e.val
      PROVE  e \in Live
  <2> DEFINE r == [item |-> e.item, ver |-> e.ver]
  <2>1. e = [item |-> r.item, ver |-> r.ver, key |-> key[r.item], val |-> val[r.item]]
    BY <1>2 DEF Elements
  <2>2. r \in {s \in refs : version[s.item] = s.ver}
    BY <1>2
  <2>3. QED
    BY <2>1, <2>2 DEF Live
<1>3. QED
  BY <1>1, <1>2

(* The same in the next state. *)
LEMMA LiveElementPrime ==
    ASSUME TypeOK'
    PROVE  \A e : e \in Live' <=>
               /\ e \in Elements
               /\ [item |-> e.item, ver |-> e.ver] \in refs'
               /\ version'[e.item] = e.ver
               /\ key'[e.item] = e.key
               /\ val'[e.item] = e.val
PROOF
<1> SUFFICES ASSUME NEW e
             PROVE  e \in Live' <=>
                       /\ e \in Elements
                       /\ [item |-> e.item, ver |-> e.ver] \in refs'
                       /\ version'[e.item] = e.ver
                       /\ key'[e.item] = e.key
                       /\ val'[e.item] = e.val
  OBVIOUS
<1>1. ASSUME e \in Live'
      PROVE  /\ e \in Elements
             /\ [item |-> e.item, ver |-> e.ver] \in refs'
             /\ version'[e.item] = e.ver
             /\ key'[e.item] = e.key
             /\ val'[e.item] = e.val
  <2>1. PICK r \in refs' : /\ version'[r.item] = r.ver
                          /\ e = [item |-> r.item, ver |-> r.ver,
                                   key |-> key'[r.item], val |-> val'[r.item]]
    BY <1>1 DEF Live
  <2>2. r \in Refs
    BY DEF TypeOK
  <2>3. r = [item |-> r.item, ver |-> r.ver]
    BY <2>2 DEF Refs
  <2>4. e.item = r.item /\ e.ver = r.ver /\ e.key = key'[r.item] /\ e.val = val'[r.item]
    BY <2>1
  <2>5. e \in Elements
    BY <2>1, <2>2 DEF TypeOK, Refs, Elements
  <2>6. QED
    BY <2>1, <2>3, <2>4, <2>5
<1>2. ASSUME e \in Elements, [item |-> e.item, ver |-> e.ver] \in refs',
             version'[e.item] = e.ver, key'[e.item] = e.key, val'[e.item] = e.val
      PROVE  e \in Live'
  <2> DEFINE r == [item |-> e.item, ver |-> e.ver]
  <2>1. e = [item |-> r.item, ver |-> r.ver, key |-> key'[r.item], val |-> val'[r.item]]
    BY <1>2 DEF Elements
  <2>2. r \in {s \in refs' : version'[s.item] = s.ver}
    BY <1>2
  <2>3. QED
    BY <2>1, <2>2 DEF Live
<1>3. QED
  BY <1>1, <1>2

(* Publishing a block_item inserts one new element. *)
LEMMA PublishInserts ==
    ASSUME IInv, TypeOK', NEW t \in Threads, insert_ref(t)
    PROVE  Pool!Insert
PROOF
<1> USE DEF IInv
<1> DEFINE i == loc[t].item
           e == [item |-> i, ver |-> version[i], key |-> key[i], val |-> val[i]]
<1>1. i \in Items /\ e \in Elements
  BY DEF TypeOK, Elements
<1>2. [item |-> i, ver |-> version[i]] \notin refs
  BY DEF insert_ref, InsertInv, Inserting
<1>3. e \notin Live
  BY <1>2, LiveElement
<1>4. e \notin results
  BY <1>2 DEF ResultsInv
<1>5. Live' = Live \union {e}
  <2>1. refs' = refs \union {[item |-> i, ver |-> version[i]]}
    BY DEF insert_ref
  <2>2. UNCHANGED <<version, key, val>>
    BY DEF insert_ref
  <2> DEFINE r == [item |-> i, ver |-> version[i]]
             Cur(s) == version[s.item] = s.ver
             Elt(s) == [item |-> s.item, ver |-> s.ver,
                        key |-> key[s.item], val |-> val[s.item]]
  <2>3. Live = {Elt(s) : s \in {s \in refs : Cur(s)}}
    BY DEF Live
  <2>4. Live' = {Elt(s) : s \in {s \in refs' : Cur(s)}}
    BY <2>2 DEF Live
  <2>5. Cur(r) /\ Elt(r) = e
    OBVIOUS
  <2>6. refs' = refs \union {r}
    BY <2>1
  <2>7. QED
    <3> HIDE DEF Cur, Elt, e, r
    <3> QED
      BY <2>3, <2>4, <2>5, <2>6
<1>6. UNCHANGED results
  BY DEF insert_ref
<1>7. QED
  <2>1. Live \subseteq Elements /\ Live \intersect results = {}
    BY LiveElement DEF ResultsInv
  <2>2. QED
    BY <1>1, <1>4, <1>5, <1>6, <2>1 DEF Pool!Insert

(* A successful compare-and-swap removes exactly the element it returns. *)
LEMMA TakeRemoves ==
    ASSUME IInv, TypeOK', NEW t \in Threads, take_cas(t),
           version[loc[t].item] = loc[t].ver
    PROVE  \E e \in Elements : Pool!Remove(e)
PROOF
<1> USE DEF IInv
<1> DEFINE e == loc[t]
<1>1. /\ e \in Elements
      /\ [item |-> e.item, ver |-> e.ver] \in refs
      /\ key[e.item] = e.key /\ val[e.item] = e.val
  BY DEF TypeOK, TakeInv, take_cas, Taking
<1>2. e \in Live
  BY <1>1, LiveElement
<1>3. /\ version' = [version EXCEPT ![e.item] = NextVersion(e.ver)]
      /\ version'[e.item] % 2 = 0
  BY TakeVersion
<1>4. UNCHANGED <<key, val, refs>> /\ results' = results \union {e}
  BY DEF take_cas
<1>5. ASSUME NEW f PROVE f \in Live' <=> f \in Live \ {e}
  <2>1. f \in Live' <=>
           /\ f \in Elements
           /\ [item |-> f.item, ver |-> f.ver] \in refs
           /\ version'[f.item] = f.ver
           /\ key[f.item] = f.key
           /\ val[f.item] = f.val
    <3>1. \A g : g \in Live' <=>
               /\ g \in Elements
               /\ [item |-> g.item, ver |-> g.ver] \in refs'
               /\ version'[g.item] = g.ver
               /\ key'[g.item] = g.key
               /\ val'[g.item] = g.val
      BY LiveElementPrime
    <3>2. QED
      BY <1>4, <3>1
  <2>2. CASE f \in Elements /\ f.item = e.item
    <3>1. f \notin Live'
      BY <1>3, <2>1, <2>2 DEF RefsInv
    <3>2. ASSUME f \in Live PROVE f = e
      <4>1. f.item = e.item /\ f.ver = e.ver /\ f.key = e.key /\ f.val = e.val
        BY <1>1, <1>2, <2>2, <3>2, LiveElement
      <4>2. QED
        BY <1>1, <2>2, <4>1 DEF Elements
    <3>3. QED
      BY <3>1, <3>2
  <2>3. CASE f \in Elements /\ f.item # e.item
    <3>1. version'[f.item] = version[f.item]
      BY <1>3, <2>3 DEF TypeOK, Elements
    <3>2. QED
      BY <2>1, <2>3, <3>1, LiveElement
  <2>4. CASE f \notin Elements
    BY <2>1, <2>4, LiveElement
  <2>5. QED
    BY <2>2, <2>3, <2>4
<1>6. Live' = Live \ {e}
  BY <1>5
<1>7. QED
  BY <1>1, <1>2, <1>4, <1>6 DEF Pool!Remove

(* initialize() and the writes of its fields touch no live element. *)
LEMMA InitializeSilent ==
    ASSUME IInv, TypeOK', NEW t \in Threads,
           \/ \E i \in Items, k \in Keys, v \in Vals : initialize(t, i, k, v)
           \/ initialize_key(t)
           \/ initialize_val(t)
    PROVE  UNCHANGED <<Live, results>>
PROOF
<1> USE DEF IInv
<1>1. PICK i \in Items :
          /\ UNCHANGED <<refs, results>>
          /\ \A r \in refs : r.item = i => r.ver # version[i] /\ r.ver # version'[i]
          /\ \A j \in Items \ {i} : version'[j] = version[j] /\ key'[j] = key[j]
                                   /\ val'[j] = val[j]
  <2>1. ASSUME NEW i \in Items, NEW k \in Keys, NEW v \in Vals, initialize(t, i, k, v)
        PROVE  /\ UNCHANGED <<refs, results>>
               /\ \A r \in refs : r.item = i => r.ver # version[i] /\ r.ver # version'[i]
               /\ \A j \in Items \ {i} : version'[j] = version[j] /\ key'[j] = key[j]
                                        /\ val'[j] = val[j]
    <3>1. UNCHANGED <<refs, results>>
      BY <2>1 DEF initialize
    <3>2. \A j \in Items \ {i} : version'[j] = version[j] /\ key'[j] = key[j]
                                 /\ val'[j] = val[j]
      BY <2>1 DEF initialize, TypeOK
    <3>3. \A r \in refs : r.item = i => r.ver # version[i] /\ r.ver # version'[i]
      BY <2>1, InitializeVersion DEF TypeOK, Refs, Versions
    <3>4. QED
      BY <3>1, <3>2, <3>3
  <2>2. ASSUME initialize_key(t) \/ initialize_val(t)
        PROVE  LET i == loc[t].item
               IN  /\ i \in Items
                   /\ UNCHANGED <<refs, results>>
                   /\ \A r \in refs : r.item = i => r.ver # version[i] /\ r.ver # version'[i]
                   /\ \A j \in Items \ {i} : version'[j] = version[j] /\ key'[j] = key[j]
                                            /\ val'[j] = val[j]
    <3> DEFINE i == loc[t].item
    <3>1. i \in Items /\ UNCHANGED <<version, refs, results>>
      BY <2>2 DEF initialize_key, initialize_val, TypeOK, Elements
    <3>2. \A j \in Items \ {i} : key'[j] = key[j] /\ val'[j] = val[j]
      BY <2>2 DEF initialize_key, initialize_val, TypeOK
    <3>3. [item |-> i, ver |-> version[i]] \notin refs
      BY <2>2 DEF initialize_key, initialize_val, InsertInv, Inserting
    <3>4. \A r \in refs : r = [item |-> r.item, ver |-> r.ver]
      BY DEF TypeOK, Refs
    <3>5. QED
      BY <3>1, <3>2, <3>3, <3>4
  <2>3. QED
    BY <2>1, <2>2
<1>2. \A r \in refs : version'[r.item] = r.ver <=> version[r.item] = r.ver
  BY <1>1 DEF TypeOK, Refs
<1>3. \A r \in refs : version[r.item] = r.ver =>
                       key'[r.item] = key[r.item] /\ val'[r.item] = val[r.item]
  BY <1>1 DEF TypeOK, Refs
<1>4. Live' = Live
  BY <1>1, <1>2, <1>3 DEF Live
<1>5. QED
  BY <1>1, <1>4

(* The items of the queue implement the relaxed pool: each published       *)
(* element is removed by at most one take(), which returns its own key and *)
(* value although the item may be reused at any moment.                    *)
THEOREM PoolRefinement == Spec => ImplementsPool
PROOF
<1>1. Init => Pool!PoolInit
  BY DEF Init, Pool!PoolInit, Live
<1>2. IInv /\ IInv' /\ [Next]_vars => [Pool!PoolNext]_(Pool!poolVars)
  <2> SUFFICES ASSUME IInv, IInv', [Next]_vars
               PROVE  Pool!PoolNext \/ UNCHANGED <<Live, results>>
    BY DEF Pool!poolVars
  <2>1. TypeOK'
    BY DEF IInv
  <2>2. CASE UNCHANGED vars
    BY <2>2 DEF vars, Live
  <2>3. ASSUME NEW t \in Threads, take_cas(t), version[loc[t].item] # loc[t].ver
        PROVE  UNCHANGED <<Live, results>>
    BY <2>3 DEF take_cas, Live
  <2>4. ASSUME NEW t \in Threads, (\E r \in refs : take(t, r)) \/ take_val(t)
        PROVE  UNCHANGED <<Live, results>>
    BY <2>4 DEF take, take_val, Live
  <2>5. CASE Next
    <3>1. PICK t \in Threads :
              \/ \E i \in Items, k \in Keys, v \in Vals : initialize(t, i, k, v)
              \/ initialize_key(t)
              \/ initialize_val(t)
              \/ insert_ref(t)
              \/ \E r \in refs : take(t, r)
              \/ take_val(t)
              \/ take_cas(t)
      BY <2>5 DEF Next
    <3>2. QED
      BY <2>1, <2>3, <2>4, <3>1, InitializeSilent, PublishInserts, TakeRemoves
      DEF Pool!PoolNext
  <2>6. QED
    BY <2>2, <2>5
<1>3. QED
  BY <1>1, <1>2, Invariance, PTL DEF Spec, ImplementsPool, Pool!PoolSpec
=============================================================================
