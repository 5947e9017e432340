----------------------------- MODULE MCProgress -----------------------------
(***************************************************************************)
(* What must happen at last: small instances of the components with loops  *)
(* and waits, under the fairness of each, side by side: the item allocator *)
(* and four others.  A behaviour belongs to one of them, and the others    *)
(* stay as they began.                                                     *)
(***************************************************************************)
EXTENDS ItemAllocator, FiniteSets, TLC

CONSTANTS Threads,
          NoElement, Algn, MaxPow, BlocksPerLevel, MaxInserts,
          Inserters, C, MaxKey, MaxElements, Retries,
          ARRAY_PADDING

(* Thread 0 inserts, the others insert and remove. *)
Calls == [t \in Threads |-> IF t = 0 THEN {"insert"} ELSE {"insert", "delete_min"}]
Single == {<<1, 1>>}

(* The first distance found for vertex 1 is not the shortest, and nothing  *)
(* leads to vertex 3.                                                      *)
Undirected(weights) ==
    [e \in DOMAIN weights \union {<<e[2], e[1]>> : e \in DOMAIN weights} |->
        IF e \in DOMAIN weights THEN weights[e] ELSE weights[<<e[2], e[1]>>]]
Triangle == Undirected((<<0, 1>> :> 3) @@ (<<0, 2>> :> 1) @@ (<<1, 2>> :> 1))
Vertices == 0 .. 3

VARIABLES part,
          global, arrays, content, pool, local, cached, lsmPc, lsmLoc, inserted, taken, stolen, fault,
          queue, m_top, locked, key, removed, queuePc, queueLoc,
          graph, distance, pq, num_tasks, pathPc, pathLoc,
          fileGraph, fileDistance, filePq, filePc, fileLoc,
          threads_waiting_to_succeed, threads_wait_switches, curr_value2, slot, asleep

Lsm   == INSTANCE SharedLsm WITH
             MaxElements <- MaxInserts, Initial <- -1, Ops <- Calls, Loads <- Single,
             pc <- lsmPc, loc <- lsmLoc
Queue == INSTANCE MultiQueue WITH pc <- queuePc, loc <- queueLoc
Paths == INSTANCE ShortestPaths WITH
             Graphs <- {Triangle}, Infinity <- 99,
             pc <- pathPc, loc <- pathLoc
Files == INSTANCE FileShortestPaths WITH
             Graphs <- {Triangle}, Infinity <- 99,
             number_of_threads <- Cardinality(Threads),
             graph <- fileGraph, distance <- fileDistance, pq <- filePq,
             pc <- filePc, loc <- fileLoc

lsms   == <<global, arrays, content, pool, local, cached, lsmPc, lsmLoc,
            inserted, taken, stolen, fault>>
queues == <<queue, m_top, locked, key, removed, queuePc, queueLoc>>
paths  == <<graph, distance, pq, num_tasks, pathPc, pathLoc>>
files  == <<fileGraph, fileDistance, filePq, filePc, fileLoc,
            threads_waiting_to_succeed, threads_wait_switches, curr_value2, slot, asleep>>
all    == <<part, lsms, vars, queues, paths, files>>

MCInit ==
    /\ part \in {"shared_lsm", "item_allocator", "multiq", "shortest_paths", "file_shortest_paths"}
    /\ Lsm!Init /\ Init /\ Queue!Init /\ Paths!Init /\ Files!Init

Moves(name) == part = name /\ UNCHANGED part
InLsm(step)   == Moves("shared_lsm") /\ step /\ UNCHANGED <<vars, queues, paths, files>>
InItems(step) == Moves("item_allocator") /\ step /\ UNCHANGED <<lsms, queues, paths, files>>
InQueue(step) == Moves("multiq") /\ step /\ UNCHANGED <<lsms, vars, paths, files>>
InPaths(step) == Moves("shortest_paths") /\ step /\ UNCHANGED <<lsms, vars, queues, files>>
InFiles(step) == Moves("file_shortest_paths") /\ step /\ UNCHANGED <<lsms, vars, queues, paths>>

MCNext == InLsm(Lsm!Next) \/ InItems(Next) \/ InQueue(Queue!Next)
              \/ InPaths(Paths!Next) \/ InFiles(Files!Next)

(* The fairness of each module: a behaviour belongs to one of them, so one *)
(* condition per thread will do for all.                                   *)
ThreadStep(t) ==
    InLsm(Lsm!Step(t)) \/ InItems(Step) \/ InQueue(Queue!Step(t))
        \/ InPaths(Paths!Step(t)) \/ InFiles(Files!Step(t))
Retried(t, q) ==
    InQueue(Queue!draw(t, q, q)) \/ InPaths(Paths!delete_min(t)) \/ InFiles(Files!next_slot(t))

MCFairness == \A t \in Threads :
    /\ WF_all(ThreadStep(t)) /\ WF_all(InQueue(Queue!delete_min(t)))
    /\ \A q \in Queue!Queues : SF_all(Retried(t, q))

MCSpec == MCInit /\ [][MCNext]_all /\ MCFairness

(* Calls of the shared LSM return: CallsReturn of SharedLsm.               *)
CallsReturn == Lsm!CallsReturn
(* The multiqueue is emptied at last: Drains of MultiQueue.                *)
QueueDrains == Queue!Drains
(* The search over tasks that are counted: StopsWhenDone of ShortestPaths. *)
StopsWhenDone == part = "shortest_paths" => Paths!StopsWhenDone
(* Both searches end: Terminates of ShortestPaths, FileShortestPaths.      *)
SearchesTerminate ==
    part \in {"shortest_paths", "file_shortest_paths"} =>
        <>(\A t \in Threads : pathPc[t] = "done" \/ filePc[t] = "done")
=============================================================================
