----------------------------- MODULE MultiQueue -----------------------------
(***************************************************************************)
(* multiq (bench/pqs/multiq.h): several sequential queues, each with a try *)
(* lock and a copy of its smallest key that is read without the lock.  A   *)
(* queue always holds an entry with SENTINEL_KEY, the largest key there    *)
(* is; only insert() brings m_top up to date.                              *)
(***************************************************************************)
EXTENDS Integers, FiniteSets, Sequences

CONSTANTS Threads,
          Inserters,     \* the threads that insert
          C,             \* internal queues per thread
          MaxKey,        \* the largest value of the key type
          MaxElements,   \* bound: elements inserted
          Retries        \* 25 * C: how often an empty queue is tolerated

VARIABLES queue,         \* the elements in each m_pq, without the sentinel
          m_top, locked,
          key,           \* the key of every element that was inserted
          removed,       \* the elements delete_min returned
          pc, loc        \* where each thread is, and its local variables

vars == <<queue, m_top, locked, key, removed, pc, loc>>

Queues   == 1 .. (C * Cardinality(Threads))
Elements == 1 .. MaxElements
SENTINEL_KEY == MaxKey
Idle     == [e |-> 0, i |-> 0, j |-> 0, top |-> 0, retry_count |-> 0]

Init ==
    /\ queue = [q \in Queues |-> {}]
    /\ m_top = [q \in Queues |-> SENTINEL_KEY]
    /\ locked = [q \in Queues |-> FALSE]
    /\ key = <<>>
    /\ removed = {}
    /\ pc = [t \in Threads |-> "idle"]
    /\ loc = [t \in Threads |-> Idle]

Goto(t, p, l) == pc' = [pc EXCEPT ![t] = p] /\ loc' = [loc EXCEPT ![t] = l]

(* m_pq.top().key, and the elements that may be on top. *)
TopKey(s) == CHOOSE k \in {key[e] : e \in s} \union {SENTINEL_KEY} :
                 \A e \in s : k <= key[e]
Tops(s)   == {e \in s : key[e] = TopKey(s)}

insert(t, k) ==
    /\ t \in Inserters /\ pc[t] = "idle" /\ Len(key) < MaxElements
    /\ key' = Append(key, k)
    /\ Goto(t, "insert_lock", [Idle EXCEPT !.e = Len(key) + 1])
    /\ UNCHANGED <<queue, m_top, locked, removed>>

(* Queues are drawn until one can be locked. *)
insert_lock(t) ==
    /\ pc[t] = "insert_lock"
    /\ \E q \in Queues :
           /\ ~locked[q]
           /\ locked' = [locked EXCEPT ![q] = TRUE]
           /\ Goto(t, "emplace", [loc[t] EXCEPT !.i = q])
    /\ UNCHANGED <<queue, m_top, key, removed>>

emplace(t) ==
    /\ pc[t] = "emplace"
    /\ queue' = [queue EXCEPT ![loc[t].i] = @ \union {loc[t].e}]
    /\ Goto(t, "set_top", [loc[t] EXCEPT !.e = 0])
    /\ UNCHANGED <<m_top, locked, key, removed>>

set_top(t) ==
    /\ pc[t] = "set_top"
    /\ m_top' = [m_top EXCEPT ![loc[t].i] = TopKey(queue[loc[t].i])]
    /\ Goto(t, "unlock", loc[t])
    /\ UNCHANGED <<queue, locked, key, removed>>

unlock(t) ==
    /\ pc[t] = "unlock"
    /\ locked' = [locked EXCEPT ![loc[t].i] = FALSE]
    /\ Goto(t, "idle", Idle)
    /\ UNCHANGED <<queue, m_top, key, removed>>

delete_min(t) ==
    /\ pc[t] = "idle"
    /\ Goto(t, "draw", [Idle EXCEPT !.retry_count = Retries])
    /\ UNCHANGED <<queue, m_top, locked, key, removed>>

(* Mutant: two different queues are drawn. *)
draw_distinct(t, i, j) ==
    /\ pc[t] = "draw" /\ i # j
    /\ Goto(t, "read_i", [loc[t] EXCEPT !.i = i, !.j = j])
    /\ UNCHANGED <<queue, m_top, locked, key, removed>>

(* Two random queues, possibly the same one. *)
draw(t, i, j) ==
    /\ pc[t] = "draw"
    /\ Goto(t, "read_i", [loc[t] EXCEPT !.i = i, !.j = j])
    /\ UNCHANGED <<queue, m_top, locked, key, removed>>

read_i(t) ==
    /\ pc[t] = "read_i"
    /\ Goto(t, "read_j", [loc[t] EXCEPT !.top = m_top[loc[t].i]])
    /\ UNCHANGED <<queue, m_top, locked, key, removed>>

read_j(t) ==
    /\ pc[t] = "read_j"
    /\ LET l == loc[t]
       IN  Goto(t, "lock", [l EXCEPT !.i = IF l.top > m_top[l.j] THEN l.j ELSE @, !.j = 0, !.top = 0])
    /\ UNCHANGED <<queue, m_top, locked, key, removed>>

(* Mutant: the queue is used although its lock is held. *)
lock_always(t) ==
    /\ pc[t] = "lock"
    /\ locked' = [locked EXCEPT ![loc[t].i] = TRUE]
    /\ Goto(t, "top", loc[t])
    /\ UNCHANGED <<queue, m_top, key, removed>>

lock(t) ==
    /\ pc[t] = "lock"
    /\ IF locked[loc[t].i]
       THEN Goto(t, "draw", [loc[t] EXCEPT !.i = 0]) /\ UNCHANGED locked
       ELSE /\ locked' = [locked EXCEPT ![loc[t].i] = TRUE]
            /\ Goto(t, "top", loc[t])
    /\ UNCHANGED <<queue, m_top, key, removed>>

(* An entry with the largest key is taken for the sentinel. *)
top_sentinel(t) ==
    /\ pc[t] = "top" /\ TopKey(queue[loc[t].i]) = SENTINEL_KEY
    /\ locked' = [locked EXCEPT ![loc[t].i] = FALSE]
    /\ IF loc[t].retry_count = 0
       THEN Goto(t, "idle", Idle)
       ELSE Goto(t, "draw", [Idle EXCEPT !.retry_count = loc[t].retry_count - 1])
    /\ UNCHANGED <<queue, m_top, key, removed>>

(* The copy item = top(). *)
top(t) ==
    /\ pc[t] = "top" /\ TopKey(queue[loc[t].i]) # SENTINEL_KEY
    /\ \E e \in Tops(queue[loc[t].i]) : Goto(t, "pop", [Idle EXCEPT !.e = e, !.i = loc[t].i])
    /\ UNCHANGED <<queue, m_top, locked, key, removed>>

(* pop() removes what is on top now: the item, if the lock works. *)
pop(t) ==
    /\ pc[t] = "pop"
    /\ LET tops == Tops(queue[loc[t].i])
       IN  \E e \in IF loc[t].e \in tops THEN {loc[t].e} ELSE tops :
               queue' = [queue EXCEPT ![loc[t].i] = @ \ {e}]
    /\ removed' = removed \union {loc[t].e}
    /\ Goto(t, "unlock", [loc[t] EXCEPT !.e = 0])
    /\ UNCHANGED <<m_top, locked, key>>

Draw(t) == \E i, j \in Queues : draw(t, i, j)
Step(t) ==
    \/ insert_lock(t) \/ emplace(t) \/ set_top(t) \/ unlock(t)
    \/ read_i(t) \/ read_j(t) \/ lock(t) \/ top_sentinel(t) \/ top(t) \/ pop(t)

Next == \E t \in Threads :
    \/ \E k \in 1 .. MaxKey : insert(t, k)
    \/ delete_min(t) \/ Draw(t) \/ Step(t)

(* Threads run, they go on calling delete_min, and the random numbers keep *)
(* hitting every queue twice in a row.                                     *)
Fairness == \A t \in Threads :
    /\ WF_vars(Step(t)) /\ WF_vars(delete_min(t))
    /\ \A q \in Queues : SF_vars(draw(t, q, q))
Spec == Init /\ [][Next]_vars /\ Fairness

-----------------------------------------------------------------------------
(* The queue implements the relaxed pool: the key that decides on a queue  *)
(* may be stale, what is taken from it is not.                             *)
InQueue == UNION {queue[q] : q \in Queues}
Pool == INSTANCE RelaxedPool WITH contents <- InQueue
ImplementsPool == Pool!PoolSpec

(* An element is removed at last, unless its key is the largest of its     *)
(* type: a queue that was emptied keeps the key it last held in m_top, and *)
(* wins against every queue with larger keys; they are only reached by     *)
(* drawing the same queue twice.                                           *)
Drains == \A e \in Elements :
    (\E q \in Queues : e \in queue[q] /\ key[e] < SENTINEL_KEY) ~> e \in removed
=============================================================================
