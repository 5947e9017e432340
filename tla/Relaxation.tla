----------------------------- MODULE Relaxation -----------------------------
(***************************************************************************)
(* The label-correcting search that both shortest-path benchmarks run      *)
(* (bench/shortest_paths.cpp, bench/file_shortest_paths.cpp): threads take *)
(* <vertex, distance> tasks from a relaxed priority queue and relax the    *)
(* edges of the vertex with compare-and-swap.  How a thread learns that    *)
(* there is nothing left to do is up to the two programs.  The queue is a  *)
(* pool: any task may be the next one.                                     *)
(***************************************************************************)
EXTENDS Integers, FiniteSets, FiniteSetsExt

CONSTANTS Threads,
          Vertices,      \* 0 is the initial vertex
          Graphs,        \* graphs to search: functions from edges to weights
          Infinity       \* numeric_limits<size_t>::max()

VARIABLES graph, distance,
          pq,            \* the tasks in the queue and who put them there
          pc, loc        \* where each thread is, and its local variables

searchVars == <<graph, distance, pq, pc, loc>>

MainThread == -1
Idle == [v |-> 0, d |-> 0, v_dist |-> 0, todo |-> {}, w |-> 0, w_dist |-> 0]

SearchInit(start) ==
    /\ graph \in Graphs
    /\ distance = [v \in Vertices |-> IF v = 0 THEN 0 ELSE Infinity]
    /\ pq = {[v |-> 0, d |-> 0, by |-> MainThread]}
    /\ pc = [t \in Threads |-> start]
    /\ loc = [t \in Threads |-> Idle]

Goto(t, p, l) == pc' = [pc EXCEPT ![t] = p] /\ loc' = [loc EXCEPT ![t] = l]
Jump(t, from, to) ==
    /\ pc[t] = from
    /\ Goto(t, to, loc[t])
    /\ UNCHANGED <<graph, distance, pq>>

(* A delete_min that succeeds. *)
take_task(t, from, to) ==
    /\ pc[t] = from
    /\ \E x \in pq :
           /\ pq' = pq \ {x}
           /\ Goto(t, to, [Idle EXCEPT !.v = x.v, !.d = x.d])
    /\ UNCHANGED <<graph, distance>>

(* Reads v->distance: a task that was overtaken is dropped. *)
outdated(t, to) ==
    /\ pc[t] = "task" /\ loc[t].d > distance[loc[t].v]
    /\ Goto(t, to, Idle)
    /\ UNCHANGED <<graph, distance, pq>>

expand(t) ==
    /\ pc[t] = "task" /\ loc[t].d <= distance[loc[t].v]
    /\ Goto(t, "edges", [loc[t] EXCEPT !.v_dist = distance[loc[t].v], !.d = 0,
                                       !.todo = {w \in Vertices : <<loc[t].v, w>> \in DOMAIN graph}])
    /\ UNCHANGED <<graph, distance, pq>>

new_dist(t, w) == loc[t].v_dist + graph[<<loc[t].v, w>>]

(* The next edge: w_dist is read. *)
edge(t) ==
    /\ pc[t] = "edges"
    /\ \E w \in loc[t].todo :
           LET l == [loc[t] EXCEPT !.todo = @ \ {w}]
           IN  IF new_dist(t, w) >= distance[w]
               THEN Goto(t, "edges", l)
               ELSE Goto(t, "cas", [l EXCEPT !.w = w, !.w_dist = distance[w]])
    /\ UNCHANGED <<graph, distance, pq>>

cas(t) ==
    /\ pc[t] = "cas" /\ distance[loc[t].w] = loc[t].w_dist
    /\ distance' = [distance EXCEPT ![loc[t].w] = new_dist(t, loc[t].w)]
    /\ Goto(t, "push", [loc[t] EXCEPT !.w_dist = 0])
    /\ UNCHANGED <<graph, pq>>

(* It is tried again while the other thread's distance is still larger. *)
cas_fails(t) ==
    /\ pc[t] = "cas" /\ distance[loc[t].w] # loc[t].w_dist
    /\ LET d == distance[loc[t].w]
       IN  IF d > new_dist(t, loc[t].w)
           THEN Goto(t, "cas", [loc[t] EXCEPT !.w_dist = d])
           ELSE Goto(t, "edges", [loc[t] EXCEPT !.w_dist = 0, !.w = 0])
    /\ UNCHANGED <<graph, distance, pq>>

insert(t, from, to) ==
    /\ pc[t] = from
    /\ pq' = pq \union {[v |-> loc[t].w, d |-> new_dist(t, loc[t].w), by |-> t]}
    /\ Goto(t, to, [loc[t] EXCEPT !.w = 0])
    /\ UNCHANGED <<graph, distance>>

edges_done(t, to) ==
    /\ pc[t] = "edges" /\ loc[t].todo = {}
    /\ Goto(t, to, Idle)
    /\ UNCHANGED <<graph, distance, pq>>

-----------------------------------------------------------------------------
(* Threads that hold a task or are about to insert one. *)
Working == {t \in Threads : pc[t] \in {"task", "edges", "cas", "push", "insert"}}

(* The lengths of the shortest paths, from the definition. *)
Shortest ==
    LET paths[n \in 0 .. Cardinality(Vertices)] ==
            IF n = 0 THEN [v \in Vertices |-> IF v = 0 THEN 0 ELSE Infinity]
            ELSE [v \in Vertices |->
                     Min({paths[n - 1][v]} \union
                         {paths[n - 1][e[1]] + graph[e] :
                             e \in {x \in DOMAIN graph : x[2] = v /\ paths[n - 1][x[1]] < Infinity}})]
    IN  paths[Cardinality(Vertices)]
=============================================================================
