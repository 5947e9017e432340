-------------------------- MODULE MultiQueueProofs -------------------------
(***************************************************************************)
(* The multiqueue is a relaxed pool, for any threads, queues and keys,     *)
(* whatever the copies of the smallest keys say.                           *)
(***************************************************************************)
EXTENDS MultiQueue, WellFoundedInduction, TLAPS

LocType == [e : Elements \union {0}, i : Queues \union {0}, j : Queues \union {0},
            top : Nat, retry_count : Int]

Holding == {"emplace", "set_top", "unlock", "top", "pop"}
Adding  == {"insert_lock", "emplace"}

Inserted == 1 .. Len(key)

Pcs == {"idle", "insert_lock", "emplace", "set_top", "unlock", "draw", "read_i", "read_j",
        "lock", "top", "pop"}

Types ==
    /\ queue \in [Queues -> SUBSET Inserted]
    /\ m_top \in [Queues -> Nat]
    /\ locked \in [Queues -> BOOLEAN]
    /\ key \in Seq(1 .. MaxKey) /\ Len(key) <= MaxElements
    /\ removed \subseteq Inserted
    /\ pc \in [Threads -> Pcs]
    /\ loc \in [Threads -> LocType]

(* A queue is used by one thread at a time. *)
LockInv ==
    \A t \in Threads : pc[t] \in Holding =>
        /\ loc[t].i \in Queues /\ locked[loc[t].i]
        /\ \A u \in Threads : pc[u] \in Holding /\ loc[u].i = loc[t].i => u = t

(* An element is about to be added by one thread, in one queue, or gone.   *)
PlaceInv ==
    /\ \A q \in Queues : queue[q] \intersect removed = {}
    /\ \A q, r \in Queues : q # r => queue[q] \intersect queue[r] = {}
    /\ \A t \in Threads : pc[t] \in Adding =>
           /\ loc[t].e \in Inserted /\ loc[t].e \notin removed
           /\ \A q \in Queues : loc[t].e \notin queue[q]
           /\ \A u \in Threads : pc[u] \in Adding /\ loc[u].e = loc[t].e => u = t

(* What was on top of a locked queue still is. *)
TopInv == \A t \in Threads : pc[t] = "pop" => loc[t].e \in Tops(queue[loc[t].i])

(* Queues have been drawn: there are such queues. *)
DrawInv ==
    \A t \in Threads :
        /\ pc[t] \in {"read_i", "read_j", "lock"} => loc[t].i \in Queues
        /\ pc[t] \in {"read_i", "read_j"} => loc[t].j \in Queues

IInv == Types /\ LockInv /\ PlaceInv /\ TopInv /\ DrawInv

-----------------------------------------------------------------------------
(* What is on top does not depend on elements that are not in the queue.   *)
LEMMA TopsKept ==
    ASSUME NEW s, NEW k, s \subseteq Inserted, key' = Append(key, k), key \in Seq(1 .. MaxKey)
    PROVE  Tops(s)' = Tops(s)
PROOF
<1>1. \A e \in s : key'[e] = key[e]
  BY DEF Inserted
<1> DEFINE K == {key[e] : e \in s} \union {SENTINEL_KEY}
           L == {key'[e] : e \in s} \union {SENTINEL_KEY}
<1>2. K = L
  BY <1>1
<1>3. \A x : (\A e \in s : x <= key[e]) <=> (\A e \in s : x <= key'[e])
  BY <1>1
<1>4. (CHOOSE x \in K : \A e \in s : x <= key[e]) = (CHOOSE x \in L : \A e \in s : x <= key'[e])
  BY <1>2, <1>3, Zenon
<1>5. TopKey(s)' = TopKey(s)
  BY <1>4, Zenon DEF TopKey
<1>6. QED
  BY <1>1, <1>5 DEF Tops

-----------------------------------------------------------------------------
LEMMA InsertedElements ==
    ASSUME Types, MaxElements \in Nat
    PROVE  Inserted \subseteq Elements
  BY DEF Types, Inserted, Elements

LEMMA GotoFacts ==
    ASSUME Types, NEW t \in Threads, NEW p \in Pcs, NEW l \in LocType, Goto(t, p, l)
    PROVE  /\ pc'[t] = p /\ loc'[t] = l
           /\ \A u \in Threads \ {t} : pc'[u] = pc[u] /\ loc'[u] = loc[u]
           /\ pc' \in [Threads -> Pcs] /\ loc' \in [Threads -> LocType]
  BY DEF Goto, Types

(* Steps that change no more than where t is: it draws queues, reads their *)
(* tops, or brings m_top up to date.                                       *)
LEMMA LocalStep ==
    ASSUME IInv, NEW t \in Threads, NEW p \in Pcs, NEW l \in LocType, Goto(t, p, l),
           UNCHANGED <<queue, locked, key, removed>>, m_top' \in [Queues -> Nat],
           p \notin Adding, p = "pop" => l.e \in Tops(queue[l.i]),
           p \in Holding => pc[t] \in Holding /\ l.i = loc[t].i,
           p \in {"read_i", "read_j", "lock"} => l.i \in Queues,
           p \in {"read_i", "read_j"} => l.j \in Queues
    PROVE  IInv'
PROOF
<1>1. /\ pc'[t] = p /\ loc'[t] = l
      /\ \A u \in Threads \ {t} : pc'[u] = pc[u] /\ loc'[u] = loc[u]
      /\ pc' \in [Threads -> Pcs] /\ loc' \in [Threads -> LocType]
  BY GotoFacts DEF IInv
<1>2. Types'
  BY <1>1 DEF IInv, Types, Inserted
<1>3. LockInv'
  BY <1>1 DEF IInv, LockInv
<1>4. PlaceInv'
  BY <1>1 DEF IInv, PlaceInv, Inserted
<1>5. \A s : Tops(s)' = Tops(s)
  BY DEF Tops, TopKey
<1>6. TopInv'
  BY <1>1, <1>5 DEF IInv, TopInv
<1>7. DrawInv'
  BY <1>1 DEF IInv, DrawInv
<1>8. QED
  BY <1>2, <1>3, <1>4, <1>6, <1>7 DEF IInv

(* A queue is locked: the first step of an insertion or of a removal.      *)
LEMMA AcquireStep ==
    ASSUME IInv, NEW t \in Threads, NEW p \in {"emplace", "top"}, NEW l \in LocType,
           Goto(t, p, l), UNCHANGED <<queue, m_top, key, removed>>,
           l.i \in Queues, ~locked[l.i], locked' = [locked EXCEPT ![l.i] = TRUE],
           p = "emplace" => pc[t] = "insert_lock" /\ l.e = loc[t].e
    PROVE  IInv'
PROOF
<1>1. /\ pc'[t] = p /\ loc'[t] = l
      /\ \A u \in Threads \ {t} : pc'[u] = pc[u] /\ loc'[u] = loc[u]
      /\ pc' \in [Threads -> Pcs] /\ loc' \in [Threads -> LocType]
  BY GotoFacts DEF IInv, Pcs
<1>2. /\ locked' \in [Queues -> BOOLEAN] /\ locked'[l.i]
      /\ \A q \in Queues : locked[q] => locked'[q]
  BY DEF IInv, Types
<1>3. Types'
  BY <1>1, <1>2 DEF IInv, Types, Inserted
<1>4. LockInv'
  BY <1>1, <1>2 DEF IInv, LockInv
<1>5. PlaceInv'
  BY <1>1 DEF IInv, PlaceInv, Inserted, Adding
<1>6. \A s : Tops(s)' = Tops(s)
  BY DEF Tops, TopKey
<1>7. TopInv'
  BY <1>1, <1>6 DEF IInv, TopInv
<1>8. DrawInv'
  BY <1>1 DEF IInv, DrawInv
<1>9. QED
  BY <1>3, <1>4, <1>5, <1>7, <1>8 DEF IInv

(* The lock is released by the thread that holds it.                       *)
LEMMA ReleaseStep ==
    ASSUME IInv, NEW t \in Threads, NEW p \in {"idle", "draw"}, NEW l \in LocType,
           Goto(t, p, l), UNCHANGED <<queue, m_top, key, removed>>, pc[t] \in Holding,
           locked' = [locked EXCEPT ![loc[t].i] = FALSE]
    PROVE  IInv'
PROOF
<1>1. /\ pc'[t] = p /\ loc'[t] = l
      /\ \A u \in Threads \ {t} : pc'[u] = pc[u] /\ loc'[u] = loc[u]
      /\ pc' \in [Threads -> Pcs] /\ loc' \in [Threads -> LocType]
  BY GotoFacts DEF IInv, Pcs
<1>2. /\ locked' \in [Queues -> BOOLEAN]
      /\ \A q \in Queues : q # loc[t].i => locked'[q] = locked[q]
  BY DEF IInv, Types
<1>3. Types'
  BY <1>1, <1>2 DEF IInv, Types, Inserted
<1>4. LockInv'
  BY <1>1, <1>2 DEF IInv, LockInv, Holding
<1>5. PlaceInv'
  BY <1>1 DEF IInv, PlaceInv, Inserted, Adding
<1>6. \A s : Tops(s)' = Tops(s)
  BY DEF Tops, TopKey
<1>7. TopInv'
  BY <1>1, <1>6 DEF IInv, TopInv, Holding
<1>8. DrawInv'
  BY <1>1 DEF IInv, DrawInv
<1>9. QED
  BY <1>3, <1>4, <1>5, <1>7, <1>8 DEF IInv

(* A new element: no queue holds it, and no thread is about to add it.     *)
LEMMA InsertStep ==
    ASSUME IInv, MaxElements \in Nat, NEW t \in Threads, NEW k \in 1 .. MaxKey, insert(t, k)
    PROVE  IInv' /\ UNCHANGED <<queue, removed>>
PROOF
<1> DEFINE l == [Idle EXCEPT !.e = Len(key) + 1]
<1>1. /\ pc[t] = "idle" /\ Len(key) < MaxElements /\ key' = Append(key, k)
      /\ Goto(t, "insert_lock", l) /\ UNCHANGED <<queue, m_top, locked, removed>>
  BY DEF insert
<1>2. key \in Seq(1 .. MaxKey) /\ Len(key) \in Nat
  BY DEF IInv, Types
<1>3. /\ key' \in Seq(1 .. MaxKey) /\ Len(key') = Len(key) + 1 /\ Len(key') <= MaxElements
      /\ Inserted' = Inserted \union {Len(key) + 1} /\ Len(key) + 1 \notin Inserted
  BY <1>1, <1>2 DEF Inserted
<1>4. l \in LocType /\ l.e = Len(key) + 1
  BY <1>1, <1>2 DEF LocType, Idle, Elements
<1> HIDE DEF l
<1>5. /\ pc'[t] = "insert_lock" /\ loc'[t] = l
      /\ \A u \in Threads \ {t} : pc'[u] = pc[u] /\ loc'[u] = loc[u]
      /\ pc' \in [Threads -> Pcs] /\ loc' \in [Threads -> LocType]
  BY <1>1, <1>4, GotoFacts DEF IInv, Pcs
<1>6. queue \in [Queues -> SUBSET Inserted] /\ removed \subseteq Inserted
  BY DEF IInv, Types
<1>7. Types'
  BY <1>1, <1>3, <1>5, <1>6 DEF IInv, Types
<1>8. LockInv'
  BY <1>1, <1>5 DEF IInv, LockInv, Holding
<1>9. PlaceInv'
  <2>1. /\ l.e \in Inserted' /\ l.e \notin removed /\ \A q \in Queues : l.e \notin queue[q]
        /\ \A u \in Threads \ {t} : pc[u] \in Adding => loc[u].e # l.e
    BY <1>3, <1>4, <1>6 DEF IInv, PlaceInv
  <2>2. Inserted \subseteq Inserted'
    BY <1>3
  <2>3. QED
    BY <1>1, <1>5, <2>1, <2>2 DEF IInv, PlaceInv
<1>10. TopInv'
  <2> SUFFICES ASSUME NEW u \in Threads, pc'[u] = "pop"
               PROVE  loc'[u].e \in Tops(queue[loc[u].i])'
    BY DEF TopInv
  <2>1. u # t /\ pc[u] = "pop" /\ loc'[u] = loc[u]
    BY <1>5
  <2>2. loc[u].e \in Tops(queue[loc[u].i]) /\ loc[u].i \in Queues
    BY <2>1 DEF IInv, TopInv, LockInv, Holding
  <2>3. PICK s : s = queue[loc[u].i]
    OBVIOUS
  <2>4. Tops(s)' = Tops(s)
    BY <1>1, <1>2, <1>6, <2>2, <2>3, TopsKept
  <2>5. queue'[loc'[u].i] = s
    BY <1>1, <2>1, <2>3
  <2>6. QED
    BY <2>1, <2>2, <2>3, <2>4, <2>5
<1>11. DrawInv'
  BY <1>5 DEF IInv, DrawInv
<1>12. QED
  BY <1>1, <1>7, <1>8, <1>9, <1>10, <1>11 DEF IInv

(* The element is in the queue now, and its thread no longer holds it.     *)
LEMMA EmplaceStep ==
    ASSUME IInv, MaxElements \in Nat, NEW t \in Threads, emplace(t)
    PROVE  /\ IInv' /\ UNCHANGED removed
           /\ InQueue' = InQueue \union {loc[t].e} /\ loc[t].e \in Elements \ removed
PROOF
<1> DEFINE e == loc[t].e
           i == loc[t].i
           l == [loc[t] EXCEPT !.e = 0]
<1>1. /\ pc[t] = "emplace" /\ queue' = [queue EXCEPT ![i] = @ \union {e}]
      /\ Goto(t, "set_top", l) /\ UNCHANGED <<m_top, locked, key, removed>>
  BY DEF emplace
<1>2. /\ loc[t] \in LocType /\ queue \in [Queues -> SUBSET Inserted]
      /\ i \in Queues /\ e \in Inserted /\ e \notin removed /\ Inserted \subseteq Elements
      /\ \A q \in Queues : e \notin queue[q]
  <2>1. i \in Queues /\ e \in Inserted /\ e \notin removed /\ \A q \in Queues : e \notin queue[q]
    BY <1>1 DEF IInv, LockInv, PlaceInv, Holding, Adding
  <2>2. QED
    BY <2>1, InsertedElements DEF IInv, Types
<1>3. l \in LocType /\ l.i = i
  BY <1>2 DEF LocType
<1> HIDE DEF l
<1>4. /\ pc'[t] = "set_top" /\ loc'[t] = l
      /\ \A u \in Threads \ {t} : pc'[u] = pc[u] /\ loc'[u] = loc[u]
      /\ pc' \in [Threads -> Pcs] /\ loc' \in [Threads -> LocType]
  BY <1>1, <1>3, GotoFacts DEF IInv, Pcs
<1>5. /\ queue'[i] = queue[i] \union {e} /\ DOMAIN queue' = Queues
      /\ \A q \in Queues \ {i} : queue'[q] = queue[q]
  BY <1>1, <1>2
<1>6. Types'
  <2>1. queue' \in [Queues -> SUBSET Inserted]
    BY <1>1, <1>2
  <2>2. QED
    BY <1>1, <1>4, <2>1 DEF IInv, Types, Inserted
<1>7. LockInv'
  BY <1>1, <1>3, <1>4 DEF IInv, LockInv, Holding
<1>8. PlaceInv'
  <2>1. \A u \in Threads \ {t} : pc[u] \in Adding => loc[u].e # e
    BY <1>1 DEF IInv, PlaceInv, Adding
  <2>2. "set_top" \notin Adding
    BY DEF Adding
  <2>3. Inserted' = Inserted
    BY <1>1 DEF Inserted
  <2>4. \A q \in Queues : queue'[q] \subseteq queue[q] \union {e}
    BY <1>5
  <2>5. \A q, r \in Queues : q # r => queue'[q] \intersect queue'[r] = {}
    BY <1>2, <1>5 DEF IInv, PlaceInv
  <2>6. \A q \in Queues : queue'[q] \intersect removed' = {}
    BY <1>1, <1>2, <2>4 DEF IInv, PlaceInv
  <2>7. QED
    BY <1>1, <1>4, <2>1, <2>2, <2>3, <2>4, <2>5, <2>6 DEF IInv, PlaceInv
<1>9. TopInv'
  <2> SUFFICES ASSUME NEW u \in Threads, pc'[u] = "pop"
               PROVE  loc'[u].e \in Tops(queue[loc[u].i])'
    BY DEF TopInv
  <2>1. u # t /\ pc[u] = "pop" /\ loc'[u] = loc[u]
    BY <1>4
  <2>2. loc[u].i \in Queues /\ loc[u].i # i /\ loc[u].e \in Tops(queue[loc[u].i])
    BY <1>1, <2>1 DEF IInv, LockInv, TopInv, Holding
  <2>3. queue'[loc'[u].i] = queue[loc[u].i]
    BY <1>5, <2>1, <2>2
  <2>4. QED
    BY <1>1, <2>1, <2>2, <2>3 DEF Tops, TopKey
<1>10. InQueue' = InQueue \union {e}
  BY <1>2, <1>5 DEF InQueue
<1>11. DrawInv'
  BY <1>4 DEF IInv, DrawInv
<1>12. QED
  BY <1>1, <1>2, <1>6, <1>7, <1>8, <1>9, <1>10, <1>11 DEF IInv

(* What was on top is popped: nobody else used the locked queue meanwhile. *)
LEMMA PopStep ==
    ASSUME IInv, MaxElements \in Nat, NEW t \in Threads, pop(t)
    PROVE  IInv' /\ Pool!Remove(loc[t].e) /\ loc[t].e \in Elements
PROOF
<1> DEFINE e == loc[t].e
           i == loc[t].i
           l == [loc[t] EXCEPT !.e = 0]
<1>1. /\ pc[t] = "pop" /\ removed' = removed \union {e}
      /\ Goto(t, "unlock", l) /\ UNCHANGED <<m_top, locked, key>>
  BY DEF pop
<1>2. e \in Tops(queue[i])
  BY <1>1 DEF IInv, TopInv
<1>3. queue' = [queue EXCEPT ![i] = @ \ {e}]
  BY <1>2 DEF pop
<1>4. /\ loc[t] \in LocType /\ queue \in [Queues -> SUBSET Inserted]
      /\ i \in Queues /\ e \in queue[i] /\ e \in Inserted /\ Inserted \subseteq Elements
  <2>1. i \in Queues /\ e \in queue[i]
    BY <1>1, <1>2 DEF IInv, LockInv, Holding, Tops
  <2>2. QED
    BY <2>1, InsertedElements DEF IInv, Types
<1>5. l \in LocType /\ l.i = i
  BY <1>4 DEF LocType
<1> HIDE DEF l
<1>6. /\ pc'[t] = "unlock" /\ loc'[t] = l
      /\ \A u \in Threads \ {t} : pc'[u] = pc[u] /\ loc'[u] = loc[u]
      /\ pc' \in [Threads -> Pcs] /\ loc' \in [Threads -> LocType]
  BY <1>1, <1>5, GotoFacts DEF IInv, Pcs
<1>7. /\ queue'[i] = queue[i] \ {e} /\ DOMAIN queue' = Queues
      /\ \A q \in Queues \ {i} : queue'[q] = queue[q]
  BY <1>3, <1>4
<1>8. Types'
  <2>1. queue' \in [Queues -> SUBSET Inserted]
    BY <1>3, <1>4
  <2>2. QED
    BY <1>1, <1>4, <1>6, <2>1 DEF IInv, Types, Inserted
<1>9. LockInv'
  BY <1>1, <1>5, <1>6 DEF IInv, LockInv, Holding
<1>10. \A q \in Queues : queue'[q] \subseteq queue[q] /\ e \notin queue'[q]
  BY <1>4, <1>7 DEF IInv, PlaceInv
<1>11. PlaceInv'
  <2>1. "unlock" \notin Adding /\ Inserted' = Inserted
    BY <1>1 DEF Adding, Inserted
  <2>2. \A u \in Threads : pc[u] \in Adding => loc[u].e # e
    BY <1>4 DEF IInv, PlaceInv
  <2>3. \A q \in Queues : queue'[q] \intersect removed' = {}
    BY <1>1, <1>10 DEF IInv, PlaceInv
  <2>4. \A q, r \in Queues : q # r => queue'[q] \intersect queue'[r] = {}
    BY <1>10 DEF IInv, PlaceInv
  <2>5. QED
    BY <1>1, <1>6, <1>10, <2>1, <2>2, <2>3, <2>4 DEF IInv, PlaceInv
<1>12. TopInv'
  <2> SUFFICES ASSUME NEW u \in Threads, pc'[u] = "pop"
               PROVE  loc'[u].e \in Tops(queue[loc[u].i])'
    BY DEF TopInv
  <2>1. u # t /\ pc[u] = "pop" /\ loc'[u] = loc[u]
    BY <1>6
  <2>2. loc[u].i \in Queues /\ loc[u].i # i /\ loc[u].e \in Tops(queue[loc[u].i])
    BY <1>1, <2>1 DEF IInv, LockInv, TopInv, Holding
  <2>3. queue'[loc'[u].i] = queue[loc[u].i]
    BY <1>7, <2>1, <2>2
  <2>4. QED
    BY <1>1, <2>1, <2>2, <2>3 DEF Tops, TopKey
<1>13. Pool!Remove(e)
  <2>1. InQueue' = InQueue \ {e}
    BY <1>4, <1>7, <1>10 DEF InQueue
  <2>2. e \in InQueue
    BY <1>4 DEF InQueue
  <2>3. QED
    BY <1>1, <2>1, <2>2 DEF Pool!Remove
<1>14. DrawInv'
  BY <1>6 DEF IInv, DrawInv
<1>15. QED
  BY <1>4, <1>8, <1>9, <1>11, <1>12, <1>13, <1>14 DEF IInv


-----------------------------------------------------------------------------
(* The smallest key of a queue is a key: a set of numbers has a least one. *)
LEMMA SmallestElement ==
    ASSUME NEW S \in SUBSET Nat, S # {}
    PROVE  \E n \in S : \A m \in S : n <= m
PROOF
<1> DEFINE R == OpToRel(<, Nat)
<1>1. \A m, n \in Nat : m < n => <<m, n>> \in R
  BY DEF OpToRel
<1>2. IsWellFoundedOn(R, Nat)
  BY NatLessThanWellFounded
<1> HIDE DEF R
<1>3. PICK n \in S : \A m \in S : ~ (<<m, n>> \in R)
  BY <1>2, WFMin
<1>4. ASSUME NEW m \in S PROVE n <= m
  <2>1. m \in Nat /\ n \in Nat
    OBVIOUS
  <2>2. ~ (m < n)
    BY <1>1, <1>3, <2>1, Zenon
  <2>3. QED
    BY <2>1, <2>2
<1>5. QED
  BY <1>4

LEMMA TopKeyIsKey ==
    ASSUME Types, MaxKey \in Nat, NEW s \in SUBSET Inserted
    PROVE  TopKey(s) \in Nat
PROOF
<1> DEFINE K == {key[e] : e \in s} \union {SENTINEL_KEY}
<1>1. \A e \in s : key[e] \in 1 .. MaxKey
  BY DEF Types, Inserted
<1>2. K \in SUBSET Nat /\ K # {} /\ \A e \in s : key[e] \in K
  BY <1>1 DEF SENTINEL_KEY
<1> HIDE DEF K
<1>3. PICK k \in K : \A m \in K : k <= m
  BY <1>2, SmallestElement
<1>4. \E x \in K : \A e \in s : x <= key[e]
  BY <1>2, <1>3
<1>5. TopKey(s) \in K
  BY <1>4, Zenon DEF TopKey, K
<1>6. QED
  BY <1>2, <1>5

-----------------------------------------------------------------------------
(* Every step keeps the invariant and is a step of the pool, or none.      *)
PoolStep == Pool!PoolNext \/ UNCHANGED <<InQueue, removed>>

LEMMA LocalActions ==
    ASSUME IInv, MaxKey \in Nat, Retries \in Nat, MaxElements \in Nat,
           NEW t \in Threads, delete_min(t) \/ Draw(t) \/ set_top(t) \/ read_i(t) \/ read_j(t) \/ top(t)
    PROVE  IInv' /\ UNCHANGED <<queue, removed>>
PROOF
<1> USE DEF Adding, Holding, Pcs
<1>1. loc[t] \in LocType /\ m_top \in [Queues -> Nat] /\ Idle \in LocType
  BY DEF IInv, Types, Idle, LocType
<1>2. CASE delete_min(t)
  <2> DEFINE l == [Idle EXCEPT !.retry_count = Retries]
  <2>1. l \in LocType
    BY <1>1 DEF LocType
  <2>2. Goto(t, "draw", l) /\ UNCHANGED <<queue, m_top, locked, key, removed>>
    BY <1>2 DEF delete_min
  <2> HIDE DEF l
  <2>3. QED
    BY <1>1, <2>1, <2>2, LocalStep
<1>3. CASE Draw(t)
  <2>1. PICK i \in Queues, j \in Queues : draw(t, i, j)
    BY <1>3 DEF Draw
  <2> DEFINE l == [loc[t] EXCEPT !.i = i, !.j = j]
  <2>2. l \in LocType /\ l.i \in Queues /\ l.j \in Queues
    BY <1>1 DEF LocType
  <2>3. Goto(t, "read_i", l) /\ UNCHANGED <<queue, m_top, locked, key, removed>>
    BY <2>1 DEF draw
  <2> HIDE DEF l
  <2>4. QED
    BY <1>1, <2>2, <2>3, LocalStep
<1>4. CASE set_top(t)
  <2>1. pc[t] = "set_top" /\ loc[t].i \in Queues
    BY <1>4 DEF set_top, IInv, LockInv
  <2>2. TopKey(queue[loc[t].i]) \in Nat
    BY <2>1, TopKeyIsKey DEF IInv, Types
  <2>3. /\ m_top' = [m_top EXCEPT ![loc[t].i] = TopKey(queue[loc[t].i])]
        /\ Goto(t, "unlock", loc[t]) /\ UNCHANGED <<queue, locked, key, removed>>
    BY <1>4 DEF set_top
  <2>4. m_top' \in [Queues -> Nat]
    BY <1>1, <2>1, <2>2, <2>3
  <2>5. QED
    BY <1>1, <2>1, <2>3, <2>4, LocalStep
<1>5. CASE read_i(t)
  <2> DEFINE l == [loc[t] EXCEPT !.top = m_top[loc[t].i]]
  <2>1. pc[t] = "read_i" /\ loc[t].i \in Queues /\ loc[t].j \in Queues
    BY <1>5 DEF read_i, IInv, DrawInv
  <2>2. l \in LocType /\ l.i \in Queues /\ l.j \in Queues
    BY <1>1, <2>1 DEF LocType
  <2>3. Goto(t, "read_j", l) /\ UNCHANGED <<queue, m_top, locked, key, removed>>
    BY <1>5 DEF read_i
  <2> HIDE DEF l
  <2>4. QED
    BY <1>1, <2>2, <2>3, LocalStep
<1>6. CASE read_j(t)
  <2> DEFINE l == [loc[t] EXCEPT !.i = IF loc[t].top > m_top[loc[t].j] THEN loc[t].j ELSE @,
                                 !.j = 0, !.top = 0]
  <2>1. pc[t] = "read_j" /\ loc[t].i \in Queues /\ loc[t].j \in Queues
    BY <1>6 DEF read_j, IInv, DrawInv
  <2>2. l \in LocType /\ l.i \in Queues
    BY <1>1, <2>1 DEF LocType
  <2>3. Goto(t, "lock", l) /\ UNCHANGED <<queue, m_top, locked, key, removed>>
    BY <1>6 DEF read_j
  <2> HIDE DEF l
  <2>4. QED
    BY <1>1, <2>2, <2>3, LocalStep
<1>7. CASE top(t)
  <2> DEFINE i == loc[t].i
  <2>1. pc[t] = "top" /\ i \in Queues /\ UNCHANGED <<queue, m_top, locked, key, removed>>
    BY <1>7 DEF top, IInv, LockInv
  <2>2. PICK e \in Tops(queue[i]) : Goto(t, "pop", [Idle EXCEPT !.e = e, !.i = i])
    BY <1>7 DEF top
  <2> DEFINE l == [Idle EXCEPT !.e = e, !.i = i]
  <2>3. e \in Elements
    <3>1. e \in queue[i]
      BY DEF Tops
    <3>2. queue[i] \subseteq Inserted
      BY <2>1 DEF IInv, Types
    <3>3. QED
      BY <3>1, <3>2, InsertedElements DEF IInv
  <2>4. l \in LocType /\ l.e = e /\ l.i = i
    BY <1>1, <2>1, <2>3 DEF LocType, Idle
  <2>5. Goto(t, "pop", l)
    BY <2>2
  <2> HIDE DEF l
  <2>6. QED
    BY <1>1, <2>1, <2>4, <2>5, LocalStep
<1>8. QED
  BY <1>2, <1>3, <1>4, <1>5, <1>6, <1>7

LEMMA LockActions ==
    ASSUME IInv, NEW t \in Threads,
           insert_lock(t) \/ unlock(t) \/ lock(t) \/ top_sentinel(t)
    PROVE  IInv' /\ UNCHANGED <<queue, removed>>
PROOF
<1>1. /\ loc[t] \in LocType /\ Idle \in LocType
      /\ pc \in [Threads -> Pcs]
  BY DEF IInv, Types, Idle, LocType
<1>2. CASE insert_lock(t)
  <2>1. PICK q \in Queues : /\ ~locked[q] /\ locked' = [locked EXCEPT ![q] = TRUE]
                            /\ Goto(t, "emplace", [loc[t] EXCEPT !.i = q])
    BY <1>2 DEF insert_lock
  <2> DEFINE l == [loc[t] EXCEPT !.i = q]
  <2>2. l \in LocType /\ l.i = q /\ l.e = loc[t].e
    BY <1>1 DEF LocType
  <2>3. Goto(t, "emplace", l)
    BY <2>1
  <2>4. pc[t] = "insert_lock" /\ UNCHANGED <<queue, m_top, key, removed>>
    BY <1>2 DEF insert_lock
  <2> HIDE DEF l
  <2>5. QED
    BY <2>1, <2>2, <2>3, <2>4, AcquireStep
<1>3. CASE unlock(t)
  <2>1. pc[t] \in Holding
    BY <1>3 DEF unlock, Holding
  <2>2. /\ locked' = [locked EXCEPT ![loc[t].i] = FALSE] /\ Goto(t, "idle", Idle)
        /\ UNCHANGED <<queue, m_top, key, removed>>
    BY <1>3 DEF unlock
  <2>3. QED
    BY <1>1, <2>1, <2>2, ReleaseStep
<1>4. CASE lock(t)
  <2>1. pc[t] = "lock" /\ loc[t].i \in Queues /\ UNCHANGED <<queue, m_top, key, removed>>
    BY <1>4 DEF lock, IInv, DrawInv
  <2>2. CASE locked[loc[t].i]
    <3> DEFINE l == [loc[t] EXCEPT !.i = 0]
    <3>1. l \in LocType
      BY <1>1 DEF LocType
    <3>2. Goto(t, "draw", l) /\ UNCHANGED locked
      BY <1>4, <2>2 DEF lock
    <3>3. "draw" \in Pcs \ (Adding \union Holding) /\ m_top' \in [Queues -> Nat]
      BY <2>1 DEF Pcs, Adding, Holding, IInv, Types
    <3> HIDE DEF l
    <3>4. QED
      BY <2>1, <3>1, <3>2, <3>3, LocalStep
  <2>3. CASE ~locked[loc[t].i]
    <3>1. locked' = [locked EXCEPT ![loc[t].i] = TRUE] /\ Goto(t, "top", loc[t])
      BY <1>4, <2>3 DEF lock
    <3>2. QED
      BY <1>1, <2>1, <2>3, <3>1, AcquireStep
  <2>4. QED
    BY <2>1, <2>2, <2>3
<1>5. CASE top_sentinel(t)
  <2>1. pc[t] \in Holding /\ UNCHANGED <<queue, m_top, key, removed>>
    BY <1>5 DEF top_sentinel, Holding
  <2>2. locked' = [locked EXCEPT ![loc[t].i] = FALSE]
    BY <1>5 DEF top_sentinel
  <2> DEFINE l == [Idle EXCEPT !.retry_count = loc[t].retry_count - 1]
  <2>3. l \in LocType
    BY <1>1 DEF LocType
  <2>4. Goto(t, "idle", Idle) \/ Goto(t, "draw", l)
    BY <1>5 DEF top_sentinel
  <2> HIDE DEF l
  <2>5. QED
    BY <1>1, <2>1, <2>2, <2>3, <2>4, ReleaseStep
<1>6. QED
  <2>1. insert_lock(t) \/ unlock(t) \/ lock(t) \/ top_sentinel(t) => UNCHANGED <<queue, removed>>
    BY DEF insert_lock, unlock, lock, top_sentinel
  <2>2. QED
    BY <1>2, <1>3, <1>4, <1>5, <2>1

LEMMA InitInv ==
    ASSUME Init, MaxKey \in Nat, MaxElements \in Nat
    PROVE  IInv /\ Pool!PoolInit
PROOF
<1>1. key = <<>> /\ Len(key) = 0 /\ key \in Seq(1 .. MaxKey)
  BY DEF Init
<1>2. Types
  BY <1>1 DEF Init, Types, SENTINEL_KEY, Idle, LocType, Pcs
<1>3. LockInv /\ PlaceInv /\ TopInv /\ DrawInv
  BY DEF Init, LockInv, PlaceInv, TopInv, DrawInv, Holding, Adding
<1>4. InQueue = {} /\ removed = {}
  BY DEF Init, InQueue
<1>5. QED
  BY <1>2, <1>3, <1>4 DEF IInv, Pool!PoolInit

LEMMA NextInv ==
    ASSUME IInv, [Next]_vars, MaxKey \in Nat, MaxElements \in Nat, Retries \in Nat
    PROVE  IInv' /\ PoolStep
PROOF
<1>1. ASSUME UNCHANGED <<queue, removed>> PROVE PoolStep
  BY <1>1 DEF PoolStep, InQueue
<1>2. CASE UNCHANGED vars
  <2>1. \A s : Tops(s)' = Tops(s)
    BY <1>2 DEF vars, Tops, TopKey
  <2>2. TopInv'
    BY <1>2, <2>1 DEF IInv, TopInv, vars
  <2>3. QED
    BY <1>1, <1>2, <2>2 DEF IInv, Types, LockInv, PlaceInv, DrawInv, Inserted, vars
<1>3. ASSUME NEW t \in Threads, NEW k \in 1 .. MaxKey, insert(t, k) PROVE IInv' /\ PoolStep
  BY <1>1, <1>3, InsertStep
<1>4. ASSUME NEW t \in Threads, emplace(t) PROVE IInv' /\ PoolStep
  <2>1. /\ IInv' /\ UNCHANGED removed /\ loc[t].e \in Elements \ removed
        /\ InQueue' = InQueue \union {loc[t].e}
    BY <1>4, EmplaceStep
  <2>2. InQueue \subseteq Elements \ removed
    BY InsertedElements DEF IInv, Types, PlaceInv, InQueue
  <2>3. Pool!Insert
    BY <2>1, <2>2 DEF Pool!Insert
  <2>4. QED
    BY <2>1, <2>3 DEF PoolStep, Pool!PoolNext
<1>5. ASSUME NEW t \in Threads, pop(t) PROVE IInv' /\ PoolStep
  BY <1>5, PopStep DEF PoolStep, Pool!PoolNext
<1>6. ASSUME NEW t \in Threads,
             delete_min(t) \/ Draw(t) \/ set_top(t) \/ read_i(t) \/ read_j(t) \/ top(t)
      PROVE  IInv' /\ PoolStep
  BY <1>1, <1>6, LocalActions
<1>7. ASSUME NEW t \in Threads, insert_lock(t) \/ unlock(t) \/ lock(t) \/ top_sentinel(t)
      PROVE  IInv' /\ PoolStep
  BY <1>1, <1>7, LockActions
<1>8. QED
  BY <1>2, <1>3, <1>4, <1>5, <1>6, <1>7, Zenon DEF Next, Step

(* Whatever the queues that are drawn and the order of the threads' steps, *)
(* delete_min returns an element that was inserted, once, and takes that   *)
(* very element out of its queue, although the queue is chosen by a copy   *)
(* of its top that may be stale.                                           *)
THEOREM PoolRefinement ==
    ASSUME MaxKey \in Nat, MaxElements \in Nat, Retries \in Nat
    PROVE  Spec => ImplementsPool
PROOF
<1>1. Init => IInv /\ Pool!PoolInit
  BY InitInv
<1>2. IInv /\ [Next]_vars => IInv' /\ PoolStep
  BY NextInv
<1>3. PoolStep => [Pool!PoolNext]_<<InQueue, removed>>
  BY DEF PoolStep
<1>4. QED
  BY <1>1, <1>2, <1>3, PTL DEF Spec, ImplementsPool, Pool!PoolSpec, Pool!poolVars
=============================================================================
