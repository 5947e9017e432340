------------------------------ MODULE MultiLsm ------------------------------
(***************************************************************************)
(* multi_lsm (multi_lsm/multi_lsm_inl.h): every thread has C local lists,  *)
(* each a dist_lsm_local.  insert() uses a random one of them; delete_min  *)
(* takes the better of the best item of a random local list and of what    *)
(* safe_peek() sees in a random list of anyone, whose owner goes on        *)
(* merging, shrinking, releasing and reusing the blocks that are read.     *)
(* The Threads of DistLsm are the lists here.                              *)
(***************************************************************************)
EXTENDS DistLsm

CONSTANT ThreadOf   \* the thread each list belongs to (C lists per thread)

VARIABLES mpc,  \* where each thread is in multi_lsm's delete_min
          mloc  \* its q1, q2, it1 and it2

mvars == <<vars, mpc, mloc>>

Callers == {ThreadOf[q] : q \in Threads}
local_queues(p) == {q \in Threads : ThreadOf[q] = p}

NoCall == [q1 |-> 0, q2 |-> 0, it1 |-> EMPTY, it2 |-> EMPTY]

MInit ==
    /\ Init
    /\ mpc = [p \in Callers |-> "idle"]
    /\ mloc = [p \in Callers |-> NoCall]

MGoto(p, at, l) ==
    /\ mpc' = [mpc EXCEPT ![p] = at]
    /\ mloc' = [mloc EXCEPT ![p] = l]

MIdle(p) == mpc[p] = "idle" /\ \A q \in local_queues(p) : pc[q] = "idle"

m_insert(p) ==
    /\ MIdle(p)
    /\ \E q \in local_queues(p), i \in Items, k \in Keys : insert(q, i, k)
    /\ UNCHANGED <<mpc, mloc>>

(* Two random lists (an empty one is drawn again once, so any may come out *)
(* of it); q1->peek(it1) begins.                                           *)
m_delete_min(p) ==
    /\ MIdle(p)
    /\ \E q1 \in local_queues(p), q2 \in Threads :
           /\ find_min(q1)
           /\ MGoto(p, "peek", [NoCall EXCEPT !.q1 = q1, !.q2 = q2])
m_peeked(p) ==
    LET q == mloc[p].q1
    IN  /\ mpc[p] = "peek" /\ Step(q) /\ pc'[q] = "idle"
        /\ MGoto(p, "peeked", [mloc[p] EXCEPT !.it1 = Found(q)])

(* q2->safe_peek(it2), from m_head along m_next, runs in the pc and loc of *)
(* q1 (from: the block i, src: the index in it).  When it is over, a thread*)
(* without an item of its own spies first: q1->spy(q).                     *)
SafeLoop(p, b) ==
    LET q    == mloc[p].q1
        done == [mloc[p] EXCEPT !.it2 = loc[q].best]
    IN  \/ /\ b # Null
           /\ Goto(q, "safe_peek", [loc[q] EXCEPT !.victim = mloc[p].q2, !.from = b])
           /\ MGoto(p, "safe_peek", mloc[p])
        \/ /\ b = Null /\ Is(done.it1)
           /\ Return(q)
           /\ MGoto(p, "take", done)
        \/ /\ b = Null /\ ~Is(done.it1)
           /\ Goto(q, "spy", [Idle EXCEPT !.op = "spy"])
           /\ MGoto(p, "spy", done)

safe_peek(p) ==
    /\ mpc[p] = "peeked"
    /\ SafeLoop(p, head[mloc[p].q2])
    /\ UNCHANGED <<version, key, blk, lists, shared, fault>>

(* i->peek() begins at m_first. *)
safe_first(p) ==
    LET q == mloc[p].q1
    IN  /\ mpc[p] = "safe_peek" /\ pc[q] = "safe_peek"
        /\ Goto(q, "safe_entry", [loc[q] EXCEPT !.src = Victim(q).first])
        /\ UNCHANGED <<version, key, blk, lists, shared, fault, mpc, mloc>>

(* A taken entry is passed; in a list of its own the thread moves m_first. *)
safe_taken(p) ==
    LET q == mloc[p].q1
        v == loc[q].victim
    IN  /\ mpc[p] = "safe_peek" /\ pc[q] = "safe_entry" /\ loc[q].src < Victim(q).last
        /\ Taken(Victim(q).xs[loc[q].src])
        /\ Goto(q, "safe_entry", [loc[q] EXCEPT !.src = @ + 1])
        /\ IF ThreadOf[v] = p
           THEN SetBlocks(v, [blk[v] EXCEPT ![loc[q].from].first = loc[q].src + 1])
           ELSE UNCHANGED blk
        /\ UNCHANGED <<version, key, lists, shared, fault, mpc, mloc>>

(* The candidate of the block: its first entry not taken, or none. *)
safe_candidate(p) ==
    LET q    == mloc[p].q1
        ends == loc[q].src >= Victim(q).last
        cand == IF ends THEN EMPTY ELSE Victim(q).xs[loc[q].src]
    IN  /\ mpc[p] = "safe_peek" /\ pc[q] = "safe_entry" /\ (~ends => ~Taken(cand))
        /\ Goto(q, "safe_next", [loc[q] EXCEPT
                                    !.src = 0,
                                    !.best = IF Better(cand, @) THEN cand ELSE @])
        /\ UNCHANGED <<version, key, blk, lists, shared, fault, mpc, mloc>>

(* i = i->m_next *)
safe_next(p) ==
    /\ mpc[p] = "safe_peek" /\ pc[mloc[p].q1] = "safe_next"
    /\ SafeLoop(p, Victim(mloc[p].q1).next)
    /\ UNCHANGED <<version, key, blk, lists, shared, fault>>

(* it1 or it2, whichever is there and smaller; on equal keys it2. *)
Better2(it1, it2) ==
    IF Is(it1) /\ (~Is(it2) \/ it1.key < it2.key) THEN it1 ELSE it2

MTake(p, e) ==
    version' = [version EXCEPT ![e.item] = IF Taken(e) THEN @ ELSE @ + 1]

m_take(p) ==
    /\ mpc[p] = "take"
    /\ MTake(p, Better2(mloc[p].it1, mloc[p].it2))
    /\ MGoto(p, "idle", NoCall)
    /\ UNCHANGED <<key, blk, lists, shared, pc, loc, fault>>

(* spy() of the list itself finds nothing: it would have had an item. *)
spy_itself(p) ==
    LET q == mloc[p].q1
    IN  /\ mpc[p] = "spy" /\ pc[q] = "spy" /\ MaySpy(q)
        /\ SetBlocks(q, SpyPeeked(q))
        /\ Return(q)
        /\ MGoto(p, "spied", mloc[p])
        /\ UNCHANGED <<version, key, lists, shared, fault>>

spy_ends(p) ==
    /\ mpc[p] = "spy" /\ Step(mloc[p].q1) /\ pc'[mloc[p].q1] = "idle"
    /\ MGoto(p, "spied", mloc[p])

(* ... and returns it2.take(val), or false. *)
m_take_other(p) ==
    /\ mpc[p] = "spied"
    /\ IF Is(mloc[p].it2) THEN MTake(p, mloc[p].it2) ELSE UNCHANGED version
    /\ MGoto(p, "idle", NoCall)
    /\ UNCHANGED <<key, blk, lists, shared, pc, loc, fault>>

(* The other steps of a list, within a call. *)
list_step(p) ==
    /\ \E q \in local_queues(p) :
           Step(q) /\ (mpc[p] = "idle" \/ pc'[q] # "idle")
    /\ UNCHANGED <<mpc, mloc>>

MStep(p) ==
    \/ list_step(p) \/ m_peeked(p)
    \/ safe_peek(p) \/ safe_first(p) \/ safe_taken(p) \/ safe_candidate(p) \/ safe_next(p)
    \/ m_take(p) \/ spy_itself(p) \/ spy_ends(p) \/ m_take_other(p)

MNext == \E p \in Callers : m_insert(p) \/ m_delete_min(p) \/ MStep(p)

(* A thread inside a call keeps running, and the clients go on calling     *)
(* delete_min.                                                             *)
MSpec == MInit /\ [][MNext]_mvars
MFairSpec == MSpec /\ \A p \in Callers : WF_mvars(MStep(p)) /\ WF_mvars(m_delete_min(p))
=============================================================================
