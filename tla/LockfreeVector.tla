--------------------------- MODULE LockfreeVector ---------------------------
(***************************************************************************)
(* lockfree_vector<T> (util/lockfree_vector.h) under thread_local_ptr: a   *)
(* thread draws its id once and indexes the vector with it, and, to spy,   *)
(* with the id of another thread.  Bucket i holds the elements 2^i - 1 to  *)
(* 2^(i + 1) - 2 and is allocated by whoever needs it first.               *)
(***************************************************************************)
EXTENDS Integers, FiniteSets

CONSTANTS Threads,
          bucket_count,
          Calls          \* bound: calls of get()

VARIABLES m_buckets,
          arrays,        \* the live arrays: address |-> length
          m_tid, m_max_tid,
          pc, loc,       \* where each thread is; the index, its bucket, expected
          got,           \* what get() returned so far: <<index, address, offset>>
          calls

vars == <<m_buckets, arrays, m_tid, m_max_tid, pc, loc, got, calls>>

TID_UNSET == -1
Null == 0
Addresses == 1 .. (bucket_count + Cardinality(Threads))
Idle == [n |-> 0, bucket |-> Null, expected |-> Null]

Init ==
    /\ m_buckets = [i \in 0 .. (bucket_count - 1) |-> Null]
    /\ arrays = [a \in Addresses |-> 0]
    /\ m_tid = [t \in Threads |-> TID_UNSET] /\ m_max_tid = 0
    /\ pc = [t \in Threads |-> "idle"] /\ loc = [t \in Threads |-> Idle]
    /\ got = {}
    /\ calls = 0

index_of(n) == CHOOSE i \in 0 .. (bucket_count - 1) : 2 ^ i <= n + 1 /\ n + 1 < 2 ^ (i + 1)

offset(n) == n + 1 - 2 ^ index_of(n)

Goto(t, p, l) == pc' = [pc EXCEPT ![t] = p] /\ loc' = [loc EXCEPT ![t] = l]
Return(t, n, a) ==
    /\ Goto(t, "idle", Idle)
    /\ got' = got \union {<<n, a, offset(n)>>}

set_tid(t) ==
    /\ pc[t] = "idle" /\ m_tid[t] = TID_UNSET
    /\ m_tid' = [m_tid EXCEPT ![t] = m_max_tid]
    /\ m_max_tid' = m_max_tid + 1
    /\ UNCHANGED <<m_buckets, arrays, pc, loc, got, calls>>

(* get(): of the thread's own element, or of that of any other thread. *)
get(t) ==
    /\ pc[t] = "idle" /\ m_tid[t] # TID_UNSET /\ calls < Calls
    /\ \E n \in 0 .. (m_max_tid - 1) : Goto(t, "load", [Idle EXCEPT !.n = n])
    /\ calls' = calls + 1
    /\ UNCHANGED <<m_buckets, arrays, m_tid, m_max_tid, got>>

Bucket(t) == index_of(loc[t].n)

load_found(t) ==
    /\ pc[t] = "load" /\ m_buckets[Bucket(t)] # Null
    /\ Return(t, loc[t].n, m_buckets[Bucket(t)])
    /\ UNCHANGED <<m_buckets, arrays, m_tid, m_max_tid, calls>>

load_null(t) ==
    /\ pc[t] = "load" /\ m_buckets[Bucket(t)] = Null
    /\ Goto(t, "new", loc[t])
    /\ UNCHANGED <<m_buckets, arrays, m_tid, m_max_tid, got, calls>>

(* The address may be one that another thread just freed. *)
new(t) ==
    /\ pc[t] = "new"
    /\ LET a == CHOOSE x \in Addresses : arrays[x] = 0 /\ \A y \in Addresses : arrays[y] = 0 => x <= y
       IN  /\ arrays' = [arrays EXCEPT ![a] = 2 ^ Bucket(t)]
           /\ Goto(t, "cas", [loc[t] EXCEPT !.bucket = a])
    /\ UNCHANGED <<m_buckets, m_tid, m_max_tid, got, calls>>

cas(t) ==
    /\ pc[t] = "cas"
    /\ IF m_buckets[Bucket(t)] = Null
       THEN /\ m_buckets' = [m_buckets EXCEPT ![Bucket(t)] = loc[t].bucket]
            /\ Return(t, loc[t].n, loc[t].bucket)
       ELSE /\ Goto(t, "delete", [loc[t] EXCEPT !.expected = m_buckets[Bucket(t)]])
            /\ UNCHANGED <<m_buckets, got>>
    /\ UNCHANGED <<arrays, m_tid, m_max_tid, calls>>

(* Mutant: the thread goes on with its own array. *)
delete_own(t) ==
    /\ pc[t] = "delete"
    /\ arrays' = [arrays EXCEPT ![loc[t].bucket] = 0]
    /\ Return(t, loc[t].n, loc[t].bucket)
    /\ UNCHANGED <<m_buckets, m_tid, m_max_tid, calls>>

delete(t) ==
    /\ pc[t] = "delete"
    /\ arrays' = [arrays EXCEPT ![loc[t].bucket] = 0]
    /\ Return(t, loc[t].n, loc[t].expected)
    /\ UNCHANGED <<m_buckets, m_tid, m_max_tid, calls>>

Next == \E t \in Threads :
    \/ set_tid(t) \/ get(t) \/ load_found(t) \/ load_null(t) \/ new(t) \/ cas(t) \/ delete(t)

Spec == Init /\ [][Next]_vars

-----------------------------------------------------------------------------
(* Whoever asks for an element gets the same one, now and later: one       *)
(* address per index, different ones for different indices, inside an      *)
(* array that is never freed, although threads that meet a missing bucket  *)
(* together each allocate one.  So every thread has a queue of its own,    *)
(* and those who spy on it find that queue.                                *)
OneElementPerIndex ==
    \A x \in got :
        /\ arrays[x[2]] > x[3] /\ x[3] >= 0
        /\ \A y \in got : x[1] = y[1] <=> <<x[2], x[3]>> = <<y[2], y[3]>>
=============================================================================
