---------------------------- MODULE SearchProofs ----------------------------
(***************************************************************************)
(* Proofs about the two searches: a thread of shortest_paths.cpp, and one  *)
(* of file_shortest_paths.cpp, stops only when no task is left and every   *)
(* vertex has the length of a shortest path.  What holds of the search     *)
(* itself is proved once, for both, and then how each program comes to     *)
(* know that there is nothing left.                                        *)
(***************************************************************************)
EXTENDS FileShortestPaths, WellFoundedInduction, FiniteSetTheorems, TLAPS

VARIABLE num_tasks
Counted == INSTANCE ShortestPaths

-----------------------------------------------------------------------------
(* What the theorem assumes of its constants: there are finitely many      *)
(* threads and vertices, and weights are natural numbers (size_t).         *)
FiniteGraphs ==
    /\ IsFiniteSet(Threads) /\ IsFiniteSet(Vertices) /\ 0 \in Vertices
    /\ Infinity \in Nat \ {0}
    /\ \A g \in Graphs : /\ DOMAIN g \subseteq Vertices \X Vertices
                         /\ \A e \in DOMAIN g : g[e] \in Nat

(* Where a thread may be, in either program: it has a task but has not     *)
(* looked at the distance of its vertex; it relaxes the edges of its       *)
(* vertex, or is about to insert a task, or sees to others in between; or  *)
(* it has no task, or has done with it.                                    *)
Fresh    == {"task", "uncount", "reset"}
Between  == {"edges", "anyone", "notify", "claim", "decrement", "wake"}
Pushing  == {"push", "insert"}
Relaxing == Between \union Pushing \union {"cas"}
Idling   == {"loop", "delete_min", "delete", "announce", "count", "last_try",
             "sleep", "wait", "poll", "reread", "done"}
Labels   == Fresh \union Relaxing \union Idling

Finite   == 0 .. (Infinity - 1)
Tasks    == [v : Vertices, d : Finite, by : Threads \union {MainThread}]
Locals   == [v : Vertices, d : Finite, v_dist : Finite, todo : SUBSET Vertices,
             w : Vertices, w_dist : 0 .. Infinity]

Types ==
    /\ graph \in Graphs
    /\ distance \in [Vertices -> 0 .. Infinity] /\ distance[0] = 0
    /\ pq \in SUBSET Tasks /\ IsFiniteSet(pq)
    /\ pc \in [Threads -> Labels] /\ loc \in [Threads -> Locals]

(* A thread t at the label p with the locals l, in the graph g with the    *)
(* distances D and the tasks Q: what it has read was true once, distances  *)
(* only shrink, and the task it is about to insert is a new one.           *)
Found(g, l, u) == l.v_dist + g[<<l.v, u>>]
Reads(t, p, l, g, D, Q) ==
    /\ p \in Fresh => l.d >= D[l.v]
    /\ p \in Relaxing =>
           /\ l.v_dist >= D[l.v]
           /\ \A u \in l.todo : <<l.v, u>> \in DOMAIN g
    /\ p \in Pushing \union {"cas"} => <<l.v, l.w>> \in DOMAIN g
    /\ p = "cas" => l.w_dist > Found(g, l, l.w) /\ l.w_dist >= D[l.w]
    /\ p \in Pushing =>
           /\ Found(g, l, l.w) \in D[l.w] .. (Infinity - 1)
           /\ [v |-> l.w, d |-> Found(g, l, l.w), by |-> t] \notin Q

ReadInv ==
    /\ \A x \in pq : x.d >= distance[x.v]
    /\ \A t \in Threads : Reads(t, pc[t], loc[t], graph, distance, pq)

(* There is a task for the current distance of v, in the queue or with a   *)
(* thread that has not read the distance or not yet inserted it.           *)
HasTask(t, v) ==
    \/ pc[t] \in Fresh /\ loc[t].v = v /\ loc[t].d = distance[v]
    \/ pc[t] \in Pushing /\ loc[t].w = v /\ Found(graph, loc[t], v) = distance[v]
Pending(v) ==
    \/ \E x \in pq : x.v = v /\ x.d = distance[v]
    \/ \E t \in Threads : HasTask(t, v)
(* A thread has still to relax the edge <<v, u>>. *)
Relaxes(t, v, u) ==
    /\ pc[t] \in Relaxing /\ loc[t].v = v /\ loc[t].v_dist = distance[v]
    /\ u \in loc[t].todo \/ (pc[t] = "cas" /\ loc[t].w = u)
Triangular(v, u) == distance[u] <= distance[v] + graph[<<v, u>>]
Open(v, u) == Pending(v) \/ \E t \in Threads : Relaxes(t, v, u)

(* No edge is forgotten, and every distance was found by way of another    *)
(* vertex, which has a smaller distance or got the same one earlier: age   *)
(* tells the order in which the vertices got their distances.              *)
EdgeInv == \A v, u \in Vertices : <<v, u>> \in DOMAIN graph => Triangular(v, u) \/ Open(v, u)

Before(age, v, u) ==
    \/ distance[v] < distance[u]
    \/ distance[v] = distance[u] /\ age[v] < age[u]
Came(age) ==
    /\ age[0] = 0
    /\ \A u \in Vertices : u # 0 /\ distance[u] < Infinity =>
           \E v \in Vertices : /\ <<v, u>> \in DOMAIN graph
                               /\ distance[v] + graph[<<v, u>>] <= distance[u]
                               /\ Before(age, v, u)
PathInv == \E n \in Nat : \E age \in [Vertices -> 0 .. n] : Came(age)

SearchInv == Types /\ ReadInv /\ EdgeInv /\ PathInv

-----------------------------------------------------------------------------
(* What a step of t keeps of the other threads. *)

Alone(t) == \A s \in Threads \ {t} : pc'[s] = pc[s] /\ loc'[s] = loc[s]
Shrinks  == \A v \in Vertices : distance'[v] <= distance[v]

(* Weights are natural numbers.  *)
LEMMA Weights ==
    ASSUME FiniteGraphs, Types
    PROVE  /\ \A v, u : <<v, u>> \in DOMAIN graph => graph[<<v, u>>] \in Nat
           /\ \A v, u : <<v, u>> \in DOMAIN graph => v \in Vertices /\ u \in Vertices
           /\ Infinity \in Nat \ {0} /\ 0 \in Vertices /\ 0 \in Finite
           /\ \A v \in Vertices : distance[v] \in 0 .. Infinity
           /\ \A n \in Finite : n \in Nat /\ n < Infinity
BY DEF FiniteGraphs, Types, Finite

(* A thread that moves leaves the others where they are.                   *)
LEMMA GotoAlone ==
    ASSUME Types, NEW t \in Threads, NEW p \in Labels, NEW l \in Locals, Goto(t, p, l)
    PROVE  /\ pc' \in [Threads -> Labels] /\ loc' \in [Threads -> Locals]
           /\ pc'[t] = p /\ loc'[t] = l /\ Alone(t)
BY DEF Types, Goto, Alone

(* What a thread has read stays true when others lower distances and       *)
(* insert tasks.                                                           *)
LEMMA ReadsStay ==
    ASSUME NEW t, NEW p, NEW l \in Locals, NEW g, NEW D \in [Vertices -> 0 .. Infinity],
           NEW E \in [Vertices -> 0 .. Infinity], NEW Q, NEW R,
           Infinity \in Nat,
           \A e \in DOMAIN g : g[e] \in Nat,
           \A v \in Vertices : E[v] <= D[v],
           \A x \in R : x \in Q \/ x.by # t,
           Reads(t, p, l, g, D, Q)
    PROVE  Reads(t, p, l, g, E, R)
PROOF
<1>1. /\ l.v \in Vertices /\ l.w \in Vertices /\ l.d \in Nat /\ l.v_dist \in Nat /\ l.w_dist \in Nat
  BY DEF Locals, Finite
<1>2. \A v \in Vertices : E[v] \in Nat /\ D[v] \in Nat /\ E[v] <= D[v]
  OBVIOUS
<1>3. p \in Fresh => l.d >= E[l.v]
  BY <1>1, <1>2 DEF Reads
<1>4. p \in Relaxing => l.v_dist >= E[l.v] /\ \A u \in l.todo : <<l.v, u>> \in DOMAIN g
  BY <1>1, <1>2 DEF Reads
<1>5. p \in Pushing \union {"cas"} => <<l.v, l.w>> \in DOMAIN g
  BY DEF Reads
<1>6. p = "cas" => l.w_dist > Found(g, l, l.w) /\ l.w_dist >= E[l.w]
  BY <1>1, <1>2 DEF Reads
<1>7. ASSUME p \in Pushing
      PROVE  /\ Found(g, l, l.w) \in E[l.w] .. (Infinity - 1)
             /\ [v |-> l.w, d |-> Found(g, l, l.w), by |-> t] \notin R
  <2>1. /\ Found(g, l, l.w) \in D[l.w] .. (Infinity - 1)
        /\ [v |-> l.w, d |-> Found(g, l, l.w), by |-> t] \notin Q
    BY <1>7 DEF Reads
  <2>2. Found(g, l, l.w) \in E[l.w] .. (Infinity - 1)
    BY <1>1, <1>2, <2>1
  <2>3. [v |-> l.w, d |-> Found(g, l, l.w), by |-> t].by = t
    OBVIOUS
  <2>4. QED
    BY <2>1, <2>2, <2>3
<1>8. QED
  BY <1>3, <1>4, <1>5, <1>6, <1>7 DEF Reads

(* The locals of a thread without a task.                                  *)
LEMMA IdleLocal ==
    ASSUME FiniteGraphs, Types
    PROVE  Idle \in Locals
PROOF
<1>1. 0 \in Vertices /\ 0 \in Finite /\ 0 \in 0 .. Infinity /\ {} \in SUBSET Vertices
  BY Weights
<1>2. QED
  BY <1>1 DEF Idle, Locals

(* So ReadInv has to be shown of the thread that moved only.               *)
LEMMA ReadsNext ==
    ASSUME FiniteGraphs, Types, Types', ReadInv, NEW t \in Threads,
           graph' = graph, Alone(t), Shrinks,
           \A x \in pq' : x \in pq \/ (x.by = t /\ x.d >= distance'[x.v]),
           Reads(t, pc'[t], loc'[t], graph', distance', pq')
    PROVE  ReadInv'
PROOF
<1>1. ASSUME NEW x \in pq' PROVE x.d >= distance'[x.v]
  <2>1. CASE x \in pq
    <3>1. x.d \in Nat /\ x.v \in Vertices
      BY <2>1 DEF Types, Tasks, Finite
    <3>2. distance[x.v] \in Nat /\ distance'[x.v] \in Nat /\ distance'[x.v] <= distance[x.v]
      BY <3>1 DEF Types, Shrinks
    <3>3. x.d >= distance[x.v]
      BY <2>1 DEF ReadInv
    <3>4. QED
      BY <3>1, <3>2, <3>3
  <2>2. QED
    BY <2>1
<1>2. ASSUME NEW s \in Threads PROVE Reads(s, pc'[s], loc'[s], graph', distance', pq')
  <2>1. CASE s = t
    BY <2>1
  <2>2. CASE s # t
    <3>1. /\ Reads(s, pc[s], loc[s], graph, distance, pq) /\ loc[s] \in Locals
          /\ pc'[s] = pc[s] /\ loc'[s] = loc[s]
      BY <2>2 DEF ReadInv, Types, Alone
    <3>2. /\ distance \in [Vertices -> 0 .. Infinity] /\ distance' \in [Vertices -> 0 .. Infinity]
          /\ Infinity \in Nat /\ \A e \in DOMAIN graph : graph[e] \in Nat
          /\ \A v \in Vertices : distance'[v] <= distance[v]
          /\ \A x \in pq' : x \in pq \/ x.by # s
      BY <2>2 DEF Types, FiniteGraphs, Shrinks
    <3>3. Reads(s, pc[s], loc[s], graph, distance', pq')
      BY <3>1, <3>2, ReadsStay, SMTT(60)
    <3>4. QED
      BY <3>1, <3>3
  <2>3. QED
    BY <2>1, <2>2
<1>3. QED
  BY <1>1, <1>2 DEF ReadInv

(* EdgeInv when no distance changes: t keeps, hands over or settles what   *)
(* it had to do.                                                           *)
LEMMA EdgesNext ==
    ASSUME EdgeInv, NEW t \in Threads,
           graph' = graph, distance' = distance, Alone(t),
           \A x \in pq : x.d = distance[x.v] => x \in pq' \/ HasTask(t, x.v)',
           \A v \in Vertices : HasTask(t, v) =>
               \/ HasTask(t, v)'
               \/ \E x \in pq' : x.v = v /\ x.d = distance[v]
               \/ \A u : <<v, u>> \in DOMAIN graph => Relaxes(t, v, u)',
           \A v, u \in Vertices : Relaxes(t, v, u) => Relaxes(t, v, u)' \/ Triangular(v, u)
    PROVE  EdgeInv'
PROOF
<1> SUFFICES ASSUME NEW v \in Vertices, NEW u \in Vertices, <<v, u>> \in DOMAIN graph,
                    ~ Triangular(v, u)
             PROVE  Open(v, u)'
  BY DEF EdgeInv, Triangular
<1>1. \A s \in Threads \ {t} : HasTask(s, v)' = HasTask(s, v) /\ Relaxes(s, v, u)' = Relaxes(s, v, u)
  BY DEF Alone, HasTask, Relaxes
<1>2. Open(v, u)
  BY DEF EdgeInv
<1>3. CASE \E x \in pq : x.v = v /\ x.d = distance[v]
  BY <1>3 DEF Open, Pending
<1>4. CASE \E s \in Threads : HasTask(s, v)
  <2>1. PICK s \in Threads : HasTask(s, v)
    BY <1>4
  <2>2. CASE s = t
    BY <2>1, <2>2 DEF Open, Pending
  <2>3. CASE s # t
    BY <1>1, <2>1, <2>3 DEF Open, Pending
  <2>4. QED
    BY <2>2, <2>3
<1>5. CASE \E s \in Threads : Relaxes(s, v, u)
  <2>1. PICK s \in Threads : Relaxes(s, v, u)
    BY <1>5
  <2>2. CASE s = t
    BY <2>1, <2>2 DEF Open
  <2>3. CASE s # t
    BY <1>1, <2>1, <2>3 DEF Open
  <2>4. QED
    BY <2>2, <2>3
<1>6. QED
  BY <1>2, <1>3, <1>4, <1>5 DEF Open, Pending

-----------------------------------------------------------------------------
(* The steps of the search. *)

(* A step to another label that touches nothing else, and neither takes up *)
(* a task nor leaves one.                                                  *)
LEMMA JumpNext ==
    ASSUME FiniteGraphs, SearchInv, NEW t \in Threads, NEW from, NEW to,
           \/ from \in Idling /\ to \in Idling
           \/ from \in Fresh /\ to \in Fresh
           \/ from \in Between /\ to \in Between
           \/ from \in Pushing /\ to \in Pushing,
           Jump(t, from, to)
    PROVE  SearchInv'
PROOF
<1>1. /\ graph' = graph /\ distance' = distance /\ pq' = pq
      /\ pc[t] = from /\ Goto(t, to, loc[t]) /\ loc[t] \in Locals
  BY DEF Jump, SearchInv, Types
<1>2. to \in Labels
  BY DEF Labels, Relaxing
<1>3. /\ pc' \in [Threads -> Labels] /\ loc' \in [Threads -> Locals]
      /\ pc'[t] = to /\ loc'[t] = loc[t] /\ Alone(t)
  BY <1>1, <1>2, GotoAlone DEF SearchInv
<1>4. Types'
  BY <1>1, <1>3 DEF SearchInv, Types
<1>5. Shrinks
  BY <1>1 DEF Shrinks, SearchInv, Types
<1>6. /\ to \in Fresh => from \in Fresh
      /\ to \in Pushing => from \in Pushing
      /\ to \in Relaxing => from \in Relaxing
      /\ to # "cas" /\ from # "cas"
      /\ from \in Fresh => to \in Fresh
      /\ from \in Pushing => to \in Pushing
      /\ from \in Relaxing => to \in Relaxing
  BY DEF Fresh, Pushing, Relaxing, Between, Idling
<1>7. Reads(t, pc'[t], loc'[t], graph', distance', pq')
  <2>1. Reads(t, from, loc[t], graph, distance, pq)
    BY <1>1 DEF SearchInv, ReadInv
  <2>2. Reads(t, to, loc[t], graph, distance, pq)
    BY <1>6, <2>1 DEF Reads
  <2>3. QED
    BY <1>1, <1>3, <2>2
<1>8. ReadInv'
  BY <1>1, <1>3, <1>4, <1>5, <1>7, ReadsNext DEF SearchInv
<1>9. /\ \A v \in Vertices : HasTask(t, v) => HasTask(t, v)'
      /\ \A v, u \in Vertices : Relaxes(t, v, u) => Relaxes(t, v, u)'
  BY <1>1, <1>3, <1>6 DEF HasTask, Relaxes
<1>10. EdgeInv'
  BY <1>1, <1>3, <1>9, EdgesNext DEF SearchInv
<1>11. PathInv'
  BY <1>1 DEF SearchInv, PathInv, Came, Before
<1>12. QED
  BY <1>4, <1>8, <1>10, <1>11 DEF SearchInv

(* A thread takes a task out of the queue.                                 *)
LEMMA TakeNext ==
    ASSUME FiniteGraphs, SearchInv, NEW t \in Threads, NEW from, NEW to,
           from \in Idling, to \in Fresh, take_task(t, from, to)
    PROVE  /\ SearchInv' /\ Alone(t) /\ pc[t] = from /\ pc'[t] = to
           /\ pq # {} /\ pq' \subseteq pq /\ Cardinality(pq') = Cardinality(pq) - 1
PROOF
<1>1. PICK x \in pq : /\ pq' = pq \ {x}
                      /\ Goto(t, to, [Idle EXCEPT !.v = x.v, !.d = x.d])
  BY DEF take_task
<1>2. pc[t] = from /\ graph' = graph /\ distance' = distance
  BY DEF take_task
<1> DEFINE l == [Idle EXCEPT !.v = x.v, !.d = x.d]
<1>3. x.v \in Vertices /\ x.d \in Finite /\ 0 \in Vertices /\ 0 \in Finite /\ Infinity \in Nat
  BY Weights DEF SearchInv, Types, Tasks
<1>4. l \in Locals /\ l.v = x.v /\ l.d = x.d /\ to \in Labels
  <2>1. Idle \in Locals
    BY IdleLocal DEF SearchInv
  <2>2. QED
    BY <1>3, <2>1 DEF Locals, Labels
<1> HIDE DEF l
<1>5. /\ pc' \in [Threads -> Labels] /\ loc' \in [Threads -> Locals]
      /\ pc'[t] = to /\ loc'[t] = l /\ Alone(t)
  BY <1>1, <1>4, GotoAlone DEF SearchInv, l
<1>6. pq' \in SUBSET Tasks /\ IsFiniteSet(pq') /\ Cardinality(pq') = Cardinality(pq) - 1
  BY <1>1, FS_RemoveElement DEF SearchInv, Types
<1>7. Types'
  BY <1>2, <1>5, <1>6 DEF SearchInv, Types
<1>8. ReadInv'
  <2>1. Reads(t, to, l, graph, distance, pq')
    BY <1>4 DEF SearchInv, ReadInv, Reads, Fresh, Between, Pushing, Relaxing, Idling
  <2>2. Shrinks /\ \A y \in pq' : y \in pq
    BY <1>1, <1>2 DEF Shrinks, SearchInv, Types
  <2>3. Reads(t, pc'[t], loc'[t], graph', distance', pq')
    BY <1>2, <1>5, <2>1
  <2>4. QED
    BY <1>2, <1>5, <1>7, <2>2, <2>3, ReadsNext DEF SearchInv
<1>9. EdgeInv'
  <2>1. \A y \in pq : y.d = distance[y.v] => y \in pq' \/ HasTask(t, y.v)'
    BY <1>1, <1>2, <1>4, <1>5 DEF HasTask, Fresh
  <2>2. /\ \A v \in Vertices : ~ HasTask(t, v)
        /\ \A v, u \in Vertices : ~ Relaxes(t, v, u)
    BY <1>2 DEF HasTask, Relaxes, Fresh, Between, Pushing, Relaxing, Idling
  <2>3. QED
    BY <1>2, <1>5, <2>1, <2>2, EdgesNext DEF SearchInv
<1>10. PathInv'
  BY <1>2 DEF SearchInv, PathInv, Came, Before
<1>11. QED
  BY <1>1, <1>2, <1>5, <1>6, <1>7, <1>8, <1>9, <1>10 DEF SearchInv

(* A step of a thread with a task that changes only what the thread knows. *)
LEMMA HolderNext ==
    ASSUME FiniteGraphs, SearchInv, NEW t \in Threads, NEW p, NEW l \in Locals,
           pc[t] \in Fresh \union {"edges", "cas"},
           p \in Idling \union {"edges", "cas"},
           Goto(t, p, l),
           graph' = graph, distance' = distance, pq' = pq,
           Reads(t, p, l, graph, distance, pq),
           \A v \in Vertices : HasTask(t, v) =>
               \A u : <<v, u>> \in DOMAIN graph => Relaxes(t, v, u)',
           \A v, u \in Vertices : Relaxes(t, v, u) => Relaxes(t, v, u)' \/ Triangular(v, u)
    PROVE  SearchInv'
PROOF
<1>1. p \in Labels
  BY DEF Labels, Relaxing, Between
<1>2. /\ pc' \in [Threads -> Labels] /\ loc' \in [Threads -> Locals]
      /\ pc'[t] = p /\ loc'[t] = l /\ Alone(t)
  BY <1>1, GotoAlone DEF SearchInv
<1>3. Types'
  BY <1>2 DEF SearchInv, Types
<1>4. ReadInv'
  <2>1. Shrinks /\ \A y \in pq' : y \in pq
    BY DEF Shrinks, SearchInv, Types
  <2>2. Reads(t, pc'[t], loc'[t], graph', distance', pq')
    BY <1>2
  <2>3. QED
    BY <1>2, <1>3, <2>1, <2>2, ReadsNext DEF SearchInv
<1>5. EdgeInv'
  BY <1>2, EdgesNext DEF SearchInv
<1>6. PathInv'
  BY DEF SearchInv, PathInv, Came, Before
<1>7. QED
  BY <1>3, <1>4, <1>5, <1>6 DEF SearchInv

(* outdated: a task whose distance is no longer that of its vertex is dropped. *)
LEMMA OutdatedNext ==
    ASSUME FiniteGraphs, SearchInv, NEW t \in Threads, NEW to \in Idling, outdated(t, to)
    PROVE  SearchInv'
PROOF
<1>1. /\ pc[t] = "task" /\ loc[t].d > distance[loc[t].v] /\ Goto(t, to, Idle)
      /\ graph' = graph /\ distance' = distance /\ pq' = pq
  BY DEF outdated
<1>2. Idle \in Locals
  BY IdleLocal DEF SearchInv
<1>3. Reads(t, to, Idle, graph, distance, pq)
  BY DEF Reads, Fresh, Between, Pushing, Relaxing, Idling
<1>4. \A v \in Vertices : ~ HasTask(t, v)
  <2>1. loc[t].d \in Nat /\ loc[t].v \in Vertices /\ distance[loc[t].v] \in Nat
    BY DEF SearchInv, Types, Locals, Finite
  <2>2. QED
    BY <1>1, <2>1 DEF HasTask, Fresh, Pushing
<1>5. \A v, u \in Vertices : ~ Relaxes(t, v, u)
  BY <1>1 DEF Relaxes, Fresh, Between, Pushing, Relaxing, Idling
<1>6. pc[t] \in Fresh \union {"edges", "cas"}
  BY <1>1 DEF Fresh
<1>7. QED
  BY <1>1, <1>2, <1>3, <1>4, <1>5, <1>6, HolderNext

(* expand: the distance of the task is that of its vertex, and all edges   *)
(* from there are to be relaxed.                                           *)
LEMMA ExpandNext ==
    ASSUME FiniteGraphs, SearchInv, NEW t \in Threads, expand(t)
    PROVE  SearchInv'
PROOF
<1> DEFINE succ == {w \in Vertices : <<loc[t].v, w>> \in DOMAIN graph}
           l == [loc[t] EXCEPT !.v_dist = distance[loc[t].v], !.d = 0, !.todo = succ]
<1>1. /\ pc[t] = "task" /\ loc[t].d <= distance[loc[t].v] /\ Goto(t, "edges", l)
      /\ graph' = graph /\ distance' = distance /\ pq' = pq
  BY DEF expand
<1>2. /\ loc[t] \in Locals /\ loc[t].v \in Vertices /\ loc[t].d \in Nat
      /\ loc[t].d < Infinity /\ distance[loc[t].v] \in Nat /\ Infinity \in Nat
  BY Weights DEF SearchInv, Types, Locals, Finite
<1>3. loc[t].d = distance[loc[t].v]
  <2>1. loc[t].d >= distance[loc[t].v]
    BY <1>1 DEF SearchInv, ReadInv, Reads, Fresh
  <2>2. QED
    BY <1>1, <1>2, <2>1
<1>4. succ \in SUBSET Vertices /\ \A u \in succ : <<loc[t].v, u>> \in DOMAIN graph
  OBVIOUS
<1>5. \A u : <<loc[t].v, u>> \in DOMAIN graph => u \in succ
  BY Weights DEF SearchInv
<1> HIDE DEF succ
<1>6. /\ l.v = loc[t].v /\ l.v_dist = distance[loc[t].v] /\ l.todo = succ
      /\ l.d = 0 /\ l.w = loc[t].w /\ l.w_dist = loc[t].w_dist
      /\ l \in Locals
  <2>1. distance[loc[t].v] \in Finite /\ 0 \in Finite
    BY <1>2, <1>3 DEF Finite
  <2>2. QED
    BY <1>2, <1>4, <2>1 DEF Locals
<1> HIDE DEF l
<1>7. Reads(t, "edges", l, graph, distance, pq)
  BY <1>2, <1>4, <1>6 DEF Reads, Fresh, Between, Pushing, Relaxing, Idling
<1>8. pc'[t] = "edges" /\ loc'[t] = l
  BY <1>1 DEF Goto, SearchInv, Types
<1>9. ASSUME NEW v \in Vertices, HasTask(t, v), NEW u, <<v, u>> \in DOMAIN graph
      PROVE  Relaxes(t, v, u)'
  <2>1. v = loc[t].v
    BY <1>1, <1>9 DEF HasTask, Fresh, Pushing
  <2>2. QED
    BY <1>1, <1>5, <1>6, <1>8, <1>9, <2>1 DEF Relaxes, Fresh, Between, Pushing, Relaxing, Idling
<1>10. \A v, u \in Vertices : ~ Relaxes(t, v, u)
  BY <1>1 DEF Relaxes, Fresh, Between, Pushing, Relaxing, Idling
<1>11. pc[t] \in Fresh \union {"edges", "cas"}
  BY <1>1 DEF Fresh
<1>12. QED
  BY <1>1, <1>6, <1>7, <1>9, <1>10, <1>11, HolderNext

(* edges_done: all edges from the vertex were relaxed.                       *)
LEMMA EdgesDoneNext ==
    ASSUME FiniteGraphs, SearchInv, NEW t \in Threads, NEW to \in Idling, edges_done(t, to)
    PROVE  SearchInv'
PROOF
<1>1. /\ pc[t] = "edges" /\ loc[t].todo = {} /\ Goto(t, to, Idle)
      /\ graph' = graph /\ distance' = distance /\ pq' = pq
  BY DEF edges_done
<1>2. Idle \in Locals
  BY IdleLocal DEF SearchInv
<1>3. Reads(t, to, Idle, graph, distance, pq)
  BY DEF Reads, Fresh, Between, Pushing, Relaxing, Idling
<1>4. /\ \A v \in Vertices : ~ HasTask(t, v)
      /\ \A v, u \in Vertices : ~ Relaxes(t, v, u)
  BY <1>1 DEF HasTask, Relaxes, Fresh, Pushing
<1>5. QED
  BY <1>1, <1>2, <1>3, <1>4, HolderNext

(* edge: the distance found for u is not smaller than the one it has, or a *)
(* compare-and-swap is to be tried.                                        *)
LEMMA EdgeNext ==
    ASSUME FiniteGraphs, SearchInv, NEW t \in Threads, edge(t)
    PROVE  SearchInv'
PROOF
<1>1. /\ pc[t] = "edges" /\ graph' = graph /\ distance' = distance /\ pq' = pq
  BY DEF edge
<1>2. PICK w \in loc[t].todo :
          LET l == [loc[t] EXCEPT !.todo = @ \ {w}]
          IN  IF new_dist(t, w) >= distance[w]
              THEN Goto(t, "edges", l)
              ELSE Goto(t, "cas", [l EXCEPT !.w = w, !.w_dist = distance[w]])
  BY DEF edge
<1> DEFINE v == loc[t].v
           l == [loc[t] EXCEPT !.todo = @ \ {w}]
           k == [l EXCEPT !.w = w, !.w_dist = distance[w]]
<1>3. /\ loc[t] \in Locals /\ v \in Vertices /\ loc[t].todo \in SUBSET Vertices /\ w \in Vertices
      /\ loc[t].v_dist \in Finite /\ loc[t].v_dist >= distance[v]
      /\ \A u \in loc[t].todo : <<v, u>> \in DOMAIN graph
  BY <1>1 DEF SearchInv, Types, Locals, ReadInv, Reads, Fresh, Between, Pushing, Relaxing, Idling
<1>4. /\ graph[<<v, w>>] \in Nat /\ distance[w] \in 0 .. Infinity /\ distance[v] \in Nat
      /\ loc[t].v_dist \in Nat
  BY <1>3, Weights DEF SearchInv
<1>5. /\ l \in Locals /\ l.v = v /\ l.v_dist = loc[t].v_dist /\ l.todo = loc[t].todo \ {w}
  BY <1>3 DEF Locals
<1>6. /\ k \in Locals /\ k.v = v /\ k.v_dist = loc[t].v_dist /\ k.todo = loc[t].todo \ {w}
      /\ k.w = w /\ k.w_dist = distance[w]
  BY <1>3, <1>4 DEF Locals
<1>7. new_dist(t, w) = loc[t].v_dist + graph[<<v, w>>]
  BY DEF new_dist
<1>8. CASE new_dist(t, w) >= distance[w]
  <2>1. Goto(t, "edges", l)
    BY <1>2, <1>8
  <2> HIDE DEF l, k
  <2>2. pc'[t] = "edges" /\ loc'[t] = l
    BY <2>1 DEF Goto, SearchInv, Types
  <2>3. Reads(t, "edges", l, graph, distance, pq)
    BY <1>3, <1>5 DEF Reads, Fresh, Between, Pushing, Relaxing, Idling
  <2>4. \A x \in Vertices : ~ HasTask(t, x)
    BY <1>1 DEF HasTask, Fresh, Pushing
  <2>5. ASSUME NEW x \in Vertices, NEW u \in Vertices, Relaxes(t, x, u), ~ Triangular(x, u)
        PROVE  Relaxes(t, x, u)'
    <3>1. x = v /\ loc[t].v_dist = distance[x] /\ u \in loc[t].todo
      BY <1>1, <2>5 DEF Relaxes, Relaxing, Between
    <3>2. u # w
      BY <1>4, <1>7, <1>8, <2>5, <3>1 DEF Triangular
    <3>3. QED
      BY <1>1, <1>5, <2>2, <3>1, <3>2 DEF Relaxes, Fresh, Between, Pushing, Relaxing, Idling
  <2>6. QED
    BY <1>1, <1>5, <2>1, <2>3, <2>4, <2>5, HolderNext
<1>9. CASE ~ (new_dist(t, w) >= distance[w])
  <2>1. Goto(t, "cas", k)
    BY <1>2, <1>9
  <2> HIDE DEF l, k
  <2>2. pc'[t] = "cas" /\ loc'[t] = k
    BY <2>1 DEF Goto, SearchInv, Types
  <2>3. Reads(t, "cas", k, graph, distance, pq)
    <3>1. k.w_dist > Found(graph, k, k.w) /\ k.w_dist >= distance[k.w]
      BY <1>4, <1>6, <1>7, <1>9 DEF Found
    <3>2. QED
      BY <1>3, <1>6, <3>1 DEF Reads, Fresh, Between, Pushing, Relaxing, Idling
  <2>4. \A x \in Vertices : ~ HasTask(t, x)
    BY <1>1 DEF HasTask, Fresh, Pushing
  <2>5. ASSUME NEW x \in Vertices, NEW u \in Vertices, Relaxes(t, x, u)
        PROVE  Relaxes(t, x, u)'
    <3>1. x = v /\ loc[t].v_dist = distance[x] /\ u \in loc[t].todo
      BY <1>1, <2>5 DEF Relaxes, Relaxing, Between
    <3>2. QED
      BY <1>1, <1>6, <2>2, <3>1 DEF Relaxes, Fresh, Between, Pushing, Relaxing, Idling
  <2>6. QED
    BY <1>1, <1>6, <2>1, <2>3, <2>4, <2>5, HolderNext
<1>10. QED
  BY <1>8, <1>9

(* cas_fails: another thread was first; the distance it left is larger     *)
(* still, or the edge needs no more.                                       *)
LEMMA CasFailsNext ==
    ASSUME FiniteGraphs, SearchInv, NEW t \in Threads, cas_fails(t)
    PROVE  SearchInv'
PROOF
<1> DEFINE v == loc[t].v
           w == loc[t].w
           d == distance[w]
           l == [loc[t] EXCEPT !.w_dist = d]
           k == [loc[t] EXCEPT !.w_dist = 0, !.w = 0]
<1>1. /\ pc[t] = "cas" /\ graph' = graph /\ distance' = distance /\ pq' = pq
      /\ IF d > new_dist(t, w) THEN Goto(t, "cas", l) ELSE Goto(t, "edges", k)
  BY DEF cas_fails
<1>2. /\ loc[t] \in Locals /\ v \in Vertices /\ w \in Vertices
      /\ loc[t].v_dist \in Finite /\ loc[t].v_dist >= distance[v]
      /\ \A u \in loc[t].todo : <<v, u>> \in DOMAIN graph
      /\ <<v, w>> \in DOMAIN graph
  BY <1>1 DEF SearchInv, Types, Locals, ReadInv, Reads, Fresh, Between, Pushing, Relaxing, Idling
<1>3. /\ graph[<<v, w>>] \in Nat /\ d \in 0 .. Infinity /\ distance[v] \in Nat
      /\ loc[t].v_dist \in Nat /\ 0 \in Vertices /\ 0 \in 0 .. Infinity
  BY <1>2, Weights DEF SearchInv
<1>4. new_dist(t, w) = loc[t].v_dist + graph[<<v, w>>]
  BY DEF new_dist
<1>5. /\ l \in Locals /\ l.v = v /\ l.v_dist = loc[t].v_dist /\ l.todo = loc[t].todo
      /\ l.w = w /\ l.w_dist = d
  BY <1>2, <1>3 DEF Locals
<1>6. k \in Locals /\ k.v = v /\ k.v_dist = loc[t].v_dist /\ k.todo = loc[t].todo
  BY <1>2, <1>3 DEF Locals
<1>7. \A x \in Vertices : ~ HasTask(t, x)
  BY <1>1 DEF HasTask, Fresh, Pushing
<1>8. CASE d > new_dist(t, w)
  <2>1. Goto(t, "cas", l)
    BY <1>1, <1>8
  <2> HIDE DEF l, k
  <2>2. pc'[t] = "cas" /\ loc'[t] = l
    BY <2>1 DEF Goto, SearchInv, Types
  <2>3. Reads(t, "cas", l, graph, distance, pq)
    <3>1. l.w_dist > Found(graph, l, l.w) /\ l.w_dist >= distance[l.w]
      BY <1>3, <1>4, <1>5, <1>8 DEF Found
    <3>2. QED
      BY <1>2, <1>5, <3>1 DEF Reads, Fresh, Between, Pushing, Relaxing, Idling
  <2>4. \A x, u \in Vertices : Relaxes(t, x, u) => Relaxes(t, x, u)'
    BY <1>1, <1>5, <2>2 DEF Relaxes, Relaxing, Between
  <2>5. QED
    BY <1>1, <1>5, <1>7, <2>1, <2>3, <2>4, HolderNext
<1>9. CASE ~ (d > new_dist(t, w))
  <2>1. Goto(t, "edges", k)
    BY <1>1, <1>9
  <2> HIDE DEF l, k
  <2>2. pc'[t] = "edges" /\ loc'[t] = k
    BY <2>1 DEF Goto, SearchInv, Types
  <2>3. Reads(t, "edges", k, graph, distance, pq)
    BY <1>2, <1>6 DEF Reads, Fresh, Between, Pushing, Relaxing, Idling
  <2>4. ASSUME NEW x \in Vertices, NEW u \in Vertices, Relaxes(t, x, u), ~ Triangular(x, u)
        PROVE  Relaxes(t, x, u)'
    <3>1. x = v /\ loc[t].v_dist = distance[x] /\ (u \in loc[t].todo \/ u = w)
      BY <1>1, <2>4 DEF Relaxes, Relaxing, Between
    <3>2. u # w
      BY <1>3, <1>4, <1>9, <2>4, <3>1 DEF Triangular
    <3>3. QED
      BY <1>1, <1>6, <2>2, <3>1, <3>2 DEF Relaxes, Fresh, Between, Pushing, Relaxing, Idling
  <2>5. QED
    BY <1>1, <1>6, <1>7, <2>1, <2>3, <2>4, HolderNext
<1>10. QED
  BY <1>8, <1>9

(* insert: the task was not in the queue.                                  *)
LEMMA InsertNext ==
    ASSUME FiniteGraphs, SearchInv, NEW t \in Threads, NEW from, NEW to,
           from \in Pushing, to \in Between, insert(t, from, to)
    PROVE  /\ SearchInv' /\ Cardinality(pq') = Cardinality(pq) + 1
           /\ \A y \in pq' : y \in pq \/ y.by = t
PROOF
<1> DEFINE v == loc[t].v
           w == loc[t].w
           x == [v |-> loc[t].w, d |-> Found(graph, loc[t], loc[t].w), by |-> t]
           l == [loc[t] EXCEPT !.w = 0]
<1>1. /\ pc[t] = from /\ Goto(t, to, l)
      /\ graph' = graph /\ distance' = distance /\ pq' = pq \union {x}
  BY DEF insert, new_dist, Found
<1>2. /\ loc[t] \in Locals /\ v \in Vertices /\ w \in Vertices
      /\ loc[t].v_dist \in Finite /\ loc[t].v_dist >= distance[v]
      /\ \A u \in loc[t].todo : <<v, u>> \in DOMAIN graph
      /\ <<v, w>> \in DOMAIN graph
      /\ Found(graph, loc[t], w) \in distance[w] .. (Infinity - 1)
      /\ x \notin pq
  BY <1>1 DEF SearchInv, Types, Locals, ReadInv, Reads, Fresh, Between, Pushing, Relaxing, Idling
<1>3. 0 \in Vertices /\ distance[w] \in Nat /\ Infinity \in Nat
  BY <1>2, Weights DEF SearchInv
<1>4. /\ l \in Locals /\ l.v = v /\ l.v_dist = loc[t].v_dist /\ l.todo = loc[t].todo
  BY <1>2, <1>3 DEF Locals
<1>5. x \in Tasks /\ x.v = w /\ x.d = Found(graph, loc[t], w) /\ x.by = t
  BY <1>2, <1>3 DEF Tasks, Finite
<1> HIDE DEF l, x
<1>6. to \in Labels
  BY DEF Labels, Relaxing
<1>7. /\ pc' \in [Threads -> Labels] /\ loc' \in [Threads -> Locals]
      /\ pc'[t] = to /\ loc'[t] = l /\ Alone(t)
  BY <1>1, <1>4, <1>6, GotoAlone DEF SearchInv
<1>8. pq' \in SUBSET Tasks /\ IsFiniteSet(pq') /\ Cardinality(pq') = Cardinality(pq) + 1
  BY <1>1, <1>2, <1>5, FS_AddElement DEF SearchInv, Types
<1>9. Types'
  BY <1>1, <1>7, <1>8 DEF SearchInv, Types
<1>10. ReadInv'
  <2>1. Shrinks /\ \A y \in pq' : y \in pq \/ (y.by = t /\ y.d >= distance'[y.v])
    BY <1>1, <1>2, <1>5 DEF Shrinks, SearchInv, Types
  <2>2. Reads(t, to, l, graph, distance, pq')
    BY <1>2, <1>4 DEF Reads, Fresh, Between, Pushing, Relaxing, Idling
  <2>3. Reads(t, pc'[t], loc'[t], graph', distance', pq')
    BY <1>1, <1>7, <2>2
  <2>4. QED
    BY <1>1, <1>7, <1>9, <2>1, <2>3, ReadsNext DEF SearchInv
<1>11. EdgeInv'
  <2>1. \A u \in Vertices : HasTask(t, u) => x \in pq' /\ x.v = u /\ x.d = distance[u]
    BY <1>1, <1>5 DEF HasTask, Fresh, Pushing
  <2>2. \A y, u \in Vertices : Relaxes(t, y, u) => Relaxes(t, y, u)'
    BY <1>1, <1>4, <1>7 DEF Relaxes, Fresh, Between, Pushing, Relaxing, Idling
  <2>3. \A y \in pq : y \in pq'
    BY <1>1
  <2>4. \A u \in Vertices : HasTask(t, u) => \E y \in pq' : y.v = u /\ y.d = distance[u]
    BY <2>1
  <2>5. QED
    BY <1>1, <1>7, <2>2, <2>3, <2>4, EdgesNext DEF SearchInv
<1>12. PathInv'
  BY <1>1 DEF SearchInv, PathInv, Came, Before
<1>13. QED
  BY <1>1, <1>5, <1>8, <1>9, <1>10, <1>11, <1>12 DEF SearchInv

(* cas: the vertex w gets the distance found, which is smaller, and a task *)
(* for it will follow.                                                     *)
LEMMA CasNext ==
    ASSUME FiniteGraphs, SearchInv, NEW t \in Threads, cas(t)
    PROVE  SearchInv'
PROOF
<1> DEFINE v == loc[t].v
           w == loc[t].w
           d == Found(graph, loc[t], loc[t].w)
           l == [loc[t] EXCEPT !.w_dist = 0]
<1>1. /\ pc[t] = "cas" /\ distance[w] = loc[t].w_dist /\ Goto(t, "push", l)
      /\ graph' = graph /\ pq' = pq /\ distance' = [distance EXCEPT ![w] = d]
  BY DEF cas, new_dist, Found
<1>2. /\ loc[t] \in Locals /\ v \in Vertices /\ w \in Vertices
      /\ loc[t].v_dist \in Finite /\ loc[t].v_dist >= distance[v]
      /\ \A u \in loc[t].todo : <<v, u>> \in DOMAIN graph
      /\ <<v, w>> \in DOMAIN graph /\ loc[t].w_dist > d
  BY <1>1 DEF SearchInv, Types, Locals, ReadInv, Reads, Fresh, Between, Pushing, Relaxing, Idling
<1>3. /\ graph[<<v, w>>] \in Nat /\ distance[w] \in 0 .. Infinity /\ distance[v] \in Nat
      /\ loc[t].v_dist \in Nat /\ 0 \in Vertices /\ 0 \in 0 .. Infinity /\ distance[0] = 0
      /\ Infinity \in Nat /\ distance \in [Vertices -> 0 .. Infinity]
  BY <1>2, Weights DEF SearchInv, Types
<1>4. d = loc[t].v_dist + graph[<<v, w>>]
  BY DEF Found
<1>5. /\ l \in Locals /\ l.v = v /\ l.v_dist = loc[t].v_dist /\ l.todo = loc[t].todo /\ l.w = w
      /\ Found(graph, l, l.w) = d
  BY <1>2, <1>3 DEF Locals, Found
<1>6. d \in Nat /\ d < distance[w] /\ d < Infinity /\ distance[v] <= d
  BY <1>1, <1>2, <1>3, <1>4
<1>7. v # w /\ w # 0
  BY <1>3, <1>6
<1> HIDE DEF l, d
<1>8. /\ distance' \in [Vertices -> 0 .. Infinity] /\ distance'[w] = d
      /\ \A u \in Vertices \ {w} : distance'[u] = distance[u]
  BY <1>1, <1>2, <1>3, <1>6
<1>9. "push" \in Labels
  BY DEF Labels, Relaxing, Pushing
<1>10. /\ pc' \in [Threads -> Labels] /\ loc' \in [Threads -> Locals]
       /\ pc'[t] = "push" /\ loc'[t] = l /\ Alone(t)
  BY <1>1, <1>5, <1>9, GotoAlone DEF SearchInv
<1>11. Types'
  BY <1>1, <1>3, <1>7, <1>8, <1>10 DEF SearchInv, Types
<1>12. Shrinks
  <2>1. ASSUME NEW u \in Vertices PROVE distance'[u] <= distance[u]
    <3>1. distance[u] \in Nat
      BY <1>3
    <3>2. CASE u = w
      BY <1>6, <1>8, <3>1, <3>2
    <3>3. CASE u # w
      BY <1>8, <3>1, <3>3
    <3>4. QED
      BY <3>2, <3>3
  <2>2. QED
    BY <2>1 DEF Shrinks
<1>13. ReadInv'
  <2>1. [v |-> l.w, d |-> Found(graph, l, l.w), by |-> t] \notin pq
    <3>1. \A x \in pq : x.v = w => x.d >= distance[w] /\ x.d \in Nat
      BY DEF SearchInv, ReadInv, Types, Tasks, Finite
    <3>2. \A x \in pq : x.v = w => x.d # d
      BY <1>3, <1>6, <3>1
    <3>3. QED
      BY <1>5, <3>2
  <2>2. Found(graph, l, l.w) \in distance'[l.w] .. (Infinity - 1)
    BY <1>3, <1>5, <1>6, <1>8
  <2>3. l.v_dist >= distance'[l.v]
    BY <1>2, <1>5, <1>7, <1>8
  <2>4. Reads(t, "push", l, graph, distance', pq)
    BY <1>2, <1>5, <2>1, <2>2, <2>3 DEF Reads, Fresh, Between, Pushing, Relaxing, Idling
  <2>5. Reads(t, pc'[t], loc'[t], graph', distance', pq')
    BY <1>1, <1>10, <2>4
  <2>6. QED
    BY <1>1, <1>10, <1>11, <1>12, <2>5, ReadsNext DEF SearchInv
<1>14. EdgeInv'
  <2> SUFFICES ASSUME NEW a \in Vertices, NEW b \in Vertices, <<a, b>> \in DOMAIN graph
               PROVE  (Triangular(a, b) \/ Open(a, b))'
    BY <1>1 DEF EdgeInv
  <2>1. graph[<<a, b>>] \in Nat /\ distance[a] \in Nat /\ distance[b] \in Nat
        /\ distance'[b] \in Nat /\ distance'[b] <= distance[b]
    BY <1>3, <1>8, <1>12, Weights DEF SearchInv, Shrinks
  <2>2. CASE a = w
    <3>1. HasTask(t, a)'
      BY <1>1, <1>5, <1>8, <1>10, <2>2 DEF HasTask, Fresh, Pushing
    <3>2. QED
      BY <3>1 DEF Open, Pending
  <2>3. CASE a # w
    <3>1. distance'[a] = distance[a]
      BY <1>8, <2>3
    <3>2. \A s \in Threads \ {t} : HasTask(s, a)' = HasTask(s, a) /\ Relaxes(s, a, b)' = Relaxes(s, a, b)
      BY <1>1, <1>10, <3>1 DEF Alone, HasTask, Relaxes
    <3>3. CASE Triangular(a, b)
      BY <1>1, <2>1, <3>1, <3>3 DEF Triangular
    <3>4. CASE \E x \in pq : x.v = a /\ x.d = distance[a]
      BY <1>1, <3>1, <3>4 DEF Open, Pending
    <3>5. CASE \E s \in Threads : HasTask(s, a)
      <4>1. PICK s \in Threads : HasTask(s, a)
        BY <3>5
      <4>2. s # t
        BY <1>1, <4>1 DEF HasTask, Fresh, Pushing
      <4>3. QED
        BY <3>2, <4>1, <4>2 DEF Open, Pending
    <3>6. CASE \E s \in Threads : Relaxes(s, a, b)
      <4>1. PICK s \in Threads : Relaxes(s, a, b)
        BY <3>6
      <4>2. CASE s # t
        BY <3>2, <4>1, <4>2 DEF Open
      <4>3. CASE s = t
        <5>1. a = v /\ loc[t].v_dist = distance[a] /\ (b \in loc[t].todo \/ b = w)
          BY <4>1, <4>3 DEF Relaxes
        <5>2. CASE b \in loc[t].todo
          <6>1. Relaxes(t, a, b)'
            BY <1>5, <1>10, <3>1, <5>1, <5>2 DEF Relaxes, Fresh, Between, Pushing, Relaxing, Idling
          <6>2. QED
            BY <6>1 DEF Open
        <5>3. CASE b = w
          BY <1>1, <1>4, <1>8, <2>1, <3>1, <5>1, <5>3 DEF Triangular
        <5>4. QED
          BY <5>1, <5>2, <5>3
      <4>4. QED
        BY <4>2, <4>3
    <3>7. QED
      BY <3>3, <3>4, <3>5, <3>6 DEF SearchInv, EdgeInv, Open, Pending
  <2>4. QED
    BY <2>2, <2>3
<1>15. PathInv'
  <2>1. PICK n \in Nat : \E age \in [Vertices -> 0 .. n] : Came(age)
    BY DEF SearchInv, PathInv
  <2>2. PICK age \in [Vertices -> 0 .. n] : Came(age)
    BY <2>1
  <2>3. PICK later \in [Vertices -> 0 .. (n + 1)] :
            /\ n + 1 \in Nat /\ later[w] = n + 1
            /\ \A u \in Vertices \ {w} : later[u] = age[u] /\ age[u] \in 0 .. n
    <3> DEFINE k == [age EXCEPT ![w] = n + 1]
    <3>1. /\ k \in [Vertices -> 0 .. (n + 1)] /\ n + 1 \in Nat /\ k[w] = n + 1
          /\ \A u \in Vertices \ {w} : k[u] = age[u] /\ age[u] \in 0 .. n
      BY <1>2, <2>1, <2>2
    <3> HIDE DEF k
    <3>2. QED
      BY <3>1
  <2>4. ASSUME NEW u \in Vertices, u # 0, distance'[u] < Infinity
        PROVE  \E x \in Vertices : /\ <<x, u>> \in DOMAIN graph
                                   /\ distance'[x] + graph[<<x, u>>] <= distance'[u]
                                   /\ Before(later, x, u)'
    <3>1. CASE u = w
      <4>1. PICK x \in Vertices : x = v
        BY <1>2
      <4>2. distance'[x] + graph[<<x, u>>] <= distance'[u]
        BY <1>2, <1>3, <1>4, <1>7, <1>8, <3>1, <4>1
      <4>3. Before(later, x, u)'
        <5>1. distance'[x] = distance[v] /\ distance'[u] = d /\ d \in Nat
          BY <1>2, <1>6, <1>7, <1>8, <3>1, <4>1
        <5>2. later[x] < later[u]
          BY <1>2, <1>7, <2>1, <2>3, <3>1, <4>1
        <5>3. distance'[x] < distance'[u] \/ distance'[x] = distance'[u]
          BY <1>3, <1>6, <5>1
        <5>4. QED
          BY <5>2, <5>3 DEF Before
      <4>4. QED
        BY <1>2, <3>1, <4>1, <4>2, <4>3
    <3>2. CASE u # w
      <4>1. distance'[u] = distance[u] /\ distance[u] \in Nat
        BY <1>3, <1>8, <3>2
      <4>2. PICK x \in Vertices : /\ <<x, u>> \in DOMAIN graph
                                  /\ distance[x] + graph[<<x, u>>] <= distance[u]
                                  /\ Before(age, x, u)
        BY <2>2, <2>4, <4>1 DEF Came
      <4>3. /\ distance'[x] <= distance[x] /\ graph[<<x, u>>] \in Nat
            /\ distance'[x] \in Nat /\ distance[x] \in Nat
        BY <1>3, <1>8, <1>12, <4>2, Weights DEF SearchInv, Shrinks
      <4>4. distance'[x] + graph[<<x, u>>] <= distance'[u]
        BY <4>1, <4>2, <4>3
      <4>5. Before(later, x, u)'
        <5>1. CASE x = w
          <6>1. distance'[x] < distance'[u]
            BY <1>3, <1>6, <1>8, <4>1, <4>2, <4>3, <5>1
          <6>2. QED
            BY <6>1 DEF Before
        <5>2. CASE x # w
          <6>1. /\ distance'[x] = distance[x] /\ later[x] = age[x] /\ later[u] = age[u]
            BY <1>8, <2>3, <3>2, <5>2
          <6>2. QED
            BY <4>1, <4>2, <6>1 DEF Before
        <5>3. QED
          BY <5>1, <5>2
      <4>6. QED
        BY <4>2, <4>4, <4>5
    <3>3. QED
      BY <3>1, <3>2
  <2>5. Came(later)'
    <3>1. later[0] = 0
      BY <1>3, <1>7, <2>2, <2>3 DEF Came
    <3>2. QED
      BY <1>1, <2>4, <3>1 DEF Came
  <2>6. QED
    BY <2>3, <2>5 DEF PathInv
<1>16. QED
  BY <1>11, <1>13, <1>14, <1>15 DEF SearchInv

(* Nothing changes.                                                        *)
LEMMA SearchSame ==
    ASSUME SearchInv, graph' = graph, distance' = distance, pq' = pq, pc' = pc, loc' = loc
    PROVE  SearchInv'
PROOF
<1>1. Types' /\ ReadInv'
  BY DEF SearchInv, Types, ReadInv
<1>2. EdgeInv'
  BY DEF SearchInv, EdgeInv, Triangular, Open, Pending, HasTask, Relaxes
<1>3. PathInv'
  BY DEF SearchInv, PathInv, Came, Before
<1>4. QED
  BY <1>1, <1>2, <1>3 DEF SearchInv

(* It holds at the start, of the one task for the initial vertex.          *)
LEMMA SearchStart ==
    ASSUME FiniteGraphs, NEW start \in Idling, SearchInit(start)
    PROVE  SearchInv /\ Cardinality(pq) = 1
PROOF
<1> DEFINE x == [v |-> 0, d |-> 0, by |-> MainThread]
<1>1. /\ graph \in Graphs /\ distance = [v \in Vertices |-> IF v = 0 THEN 0 ELSE Infinity]
      /\ pq = {x} /\ pc = [t \in Threads |-> start] /\ loc = [t \in Threads |-> Idle]
  BY DEF SearchInit
<1>2. /\ Infinity \in Nat \ {0} /\ 0 \in Vertices /\ 0 \in Finite /\ 0 \in 0 .. Infinity
      /\ Infinity \in 0 .. Infinity /\ {} \in SUBSET Vertices
  BY DEF FiniteGraphs, Finite
<1>3. Idle \in Locals /\ x \in Tasks /\ x.v = 0 /\ x.d = 0 /\ start \in Labels
  BY <1>2 DEF Idle, Locals, Tasks, Labels
<1> HIDE DEF x
<1>4. IsFiniteSet(pq) /\ Cardinality(pq) = 1
  BY <1>1, FS_Singleton
<1>5. /\ distance \in [Vertices -> 0 .. Infinity] /\ distance[0] = 0
      /\ \A v \in Vertices : v # 0 => distance[v] = Infinity
  BY <1>1, <1>2
<1>6. Types
  BY <1>1, <1>3, <1>4, <1>5 DEF Types
<1>7. ReadInv
  BY <1>1, <1>3, <1>5 DEF ReadInv, Reads, Fresh, Between, Pushing, Relaxing, Idling
<1>8. EdgeInv
  <2> SUFFICES ASSUME NEW v \in Vertices, NEW u \in Vertices, <<v, u>> \in DOMAIN graph
               PROVE  Triangular(v, u) \/ Open(v, u)
    BY DEF EdgeInv
  <2>1. CASE v = 0
    BY <1>1, <1>3, <1>5, <2>1 DEF Open, Pending
  <2>2. CASE v # 0
    <3>1. graph[<<v, u>>] \in Nat /\ distance[u] \in 0 .. Infinity /\ distance[v] = Infinity
      BY <1>5, <1>6, <2>2, Weights
    <3>2. QED
      BY <1>2, <3>1 DEF Triangular
  <2>3. QED
    BY <2>1, <2>2
<1>9. PathInv
  <2>1. [v \in Vertices |-> 0] \in [Vertices -> 0 .. 0] /\ 0 \in Nat
    OBVIOUS
  <2>2. Came([v \in Vertices |-> 0])
    BY <1>2, <1>5 DEF Came
  <2>3. QED
    BY <2>1, <2>2 DEF PathInv
<1>10. QED
  BY <1>4, <1>6, <1>7, <1>8, <1>9 DEF SearchInv

-----------------------------------------------------------------------------
(* The lengths of the shortest paths. *)

(* Facts about natural numbers that stand in for induction, as in          *)
(* BlockProofs: a non-empty set has a smallest element, what passes from   *)
(* each number to the next holds of all, and a step can be repeated.       *)

(* A non-empty set of natural numbers has a smallest element.              *)
LEMMA SmallestElement ==
    ASSUME NEW S \in SUBSET Nat, S # {}
    PROVE  \E n \in S : \A m \in S : n <= m
PROOF
<1> DEFINE R == OpToRel(<, Nat)
<1>1. \A m, n \in Nat : m < n => <<m, n>> \in R
  BY DEF OpToRel
<1>2. IsWellFoundedOn(R, Nat)
  BY NatLessThanWellFounded
<1> HIDE DEF R
<1>3. PICK n \in S : \A m \in S : ~ (<<m, n>> \in R)
  BY <1>2, WFMin
<1>4. ASSUME NEW m \in S PROVE n <= m
  <2>1. m \in Nat /\ n \in Nat
    OBVIOUS
  <2>2. ~ (m < n)
    BY <1>1, <1>3, <2>1, Zenon
  <2>3. QED
    BY <2>1, <2>2
<1>5. QED
  BY <1>4

(* A property of the numbers up to top, given as a set: it holds of all if *)
(* it holds of 0 and passes from each number to the next.                  *)
LEMMA UpTo ==
    ASSUME NEW top \in Nat, NEW P, 0 \in P,
           \A n \in 1 .. top : n - 1 \in P => n \in P
    PROVE  \A n \in 0 .. top : n \in P
PROOF
<1> SUFFICES ASSUME NEW x \in 0 .. top, x \notin P PROVE FALSE
  OBVIOUS
<1> DEFINE S == {n \in 0 .. top : n \notin P}
<1>1. S \in SUBSET Nat /\ x \in S
  OBVIOUS
<1>2. PICK n \in S : \A m \in S : n <= m
  BY <1>1, SmallestElement
<1>3. n \in 1 .. top /\ n - 1 \in 0 .. top
  OBVIOUS
<1>4. n - 1 \notin S
  BY <1>2, <1>3
<1>5. QED
  BY <1>3, <1>4

(* f[n] is what n steps make of x; a step may depend on its number.        *)
Iterates(f, X, top, step, x) ==
    /\ f \in [0 .. top -> X]
    /\ f[0] = x
    /\ \A n \in 1 .. top : f[n] = step[<<n, f[n - 1]>>]

(* A step can be taken top times.                                          *)
LEMMA Iterate ==
    ASSUME NEW X, NEW top \in Nat, NEW step \in [(1 .. top) \X X -> X], NEW x \in X
    PROVE  \E f : Iterates(f, X, top, step, x)
PROOF
<1> DEFINE Good(n) == \E f \in [0 .. top -> X] :
                          f[0] = x /\ \A m \in 1 .. n : f[m] = step[<<m, f[m - 1]>>]
           P == {n \in 0 .. top : Good(n)}
<1>1. 0 \in P
  <2>1. [n \in 0 .. top |-> x] \in [0 .. top -> X]
    OBVIOUS
  <2>2. Good(0)
    <3> DEFINE f == [n \in 0 .. top |-> x]
    <3>1. f[0] = x /\ \A m \in 1 .. 0 : f[m] = step[<<m, f[m - 1]>>]
      OBVIOUS
    <3> HIDE DEF f
    <3>2. QED
      BY <2>1, <3>1 DEF f
  <2>3. QED
    BY <2>2
<1>2. ASSUME NEW n \in 1 .. top, n - 1 \in P PROVE n \in P
  <2>1. PICK f \in [0 .. top -> X] :
            f[0] = x /\ \A m \in 1 .. (n - 1) : f[m] = step[<<m, f[m - 1]>>]
    BY <1>2
  <2> DEFINE g == [f EXCEPT ![n] = step[<<n, f[n - 1]>>]]
  <2>2. step[<<n, f[n - 1]>>] \in X
    OBVIOUS
  <2>3. /\ g \in [0 .. top -> X] /\ g[n] = step[<<n, f[n - 1]>>]
        /\ \A m \in 0 .. top : m # n => g[m] = f[m]
    BY <2>2
  <2> HIDE DEF g
  <2>4. g[0] = x /\ g[n - 1] = f[n - 1]
    BY <2>1, <2>3
  <2>5. ASSUME NEW m \in 1 .. n PROVE g[m] = step[<<m, g[m - 1]>>]
    <3>1. CASE m = n
      BY <2>3, <2>4, <3>1
    <3>2. CASE m # n
      <4>1. g[m] = f[m] /\ g[m - 1] = f[m - 1]
        BY <2>3, <3>2
      <4>2. QED
        BY <2>1, <3>2, <4>1
    <3>3. QED
      BY <3>1, <3>2
  <2>6. Good(n)
    BY <2>3, <2>4, <2>5
  <2>7. QED
    BY <2>6
<1> HIDE DEF P
<1>3. top \in P
  BY <1>1, <1>2, UpTo
<1>4. QED
  BY <1>3 DEF P, Iterates

(* One row of the definition of Shortest: upper bounds for the lengths of  *)
(* the shortest paths, from those by way of one edge less.                 *)
Rows == [Vertices -> 0 .. Infinity]
Row0 == [v \in Vertices |-> IF v = 0 THEN 0 ELSE Infinity]
Sums(p, v) ==
    {p[v]} \union
        {p[e[1]] + graph[e] : e \in {x \in DOMAIN graph : x[2] = v /\ p[x[1]] < Infinity}}
Further(p) == [v \in Vertices |-> Min(Sums(p, v))]

PathRun(f) ==
    /\ f \in [0 .. Cardinality(Vertices) -> Rows]
    /\ Shortest = f[Cardinality(Vertices)]
    /\ f[0] = Row0
    /\ \A n \in 1 .. Cardinality(Vertices) : f[n] = Further(f[n - 1])

(* A row has the smallest of the sums.                                     *)
LEMMA SmallestSum ==
    ASSUME FiniteGraphs, Types, NEW p \in Rows, NEW v \in Vertices
    PROVE  /\ Further(p)[v] \in Sums(p, v) /\ Further(p)[v] \in 0 .. Infinity
           /\ \A n \in Sums(p, v) : Further(p)[v] <= n
PROOF
<1>1. \A e \in DOMAIN graph : e[1] \in Vertices /\ graph[e] \in Nat
  BY DEF FiniteGraphs, Types
<1>2. p[v] \in 0 .. Infinity /\ Infinity \in Nat /\ \A u \in Vertices : p[u] \in Nat
  BY DEF FiniteGraphs, Rows
<1>3. Sums(p, v) \in SUBSET Nat
  <2>1. \A e \in DOMAIN graph : p[e[1]] + graph[e] \in Nat
    BY <1>1, <1>2
  <2>2. QED
    BY <1>2, <2>1 DEF Sums
<1>4. p[v] \in Sums(p, v)
  BY DEF Sums
<1>5. \E n \in Sums(p, v) : \A m \in Sums(p, v) : n <= m
  BY <1>3, <1>4, SmallestElement
<1>6. Min(Sums(p, v)) \in Sums(p, v) /\ \A m \in Sums(p, v) : Min(Sums(p, v)) <= m
  BY <1>5 DEF Min
<1>7. Further(p)[v] = Min(Sums(p, v))
  BY DEF Further
<1>8. Min(Sums(p, v)) \in 0 .. Infinity
  BY <1>2, <1>3, <1>4, <1>6
<1>9. QED
  BY <1>6, <1>7, <1>8

(* Shortest is what the rows come to.                                      *)
LEMMA PathRounds ==
    ASSUME FiniteGraphs, Types
    PROVE  \E f : PathRun(f)
PROOF
<1> DEFINE T == Cardinality(Vertices)
           step == [x \in (1 .. T) \X Rows |-> Further(x[2])]
           paths[n \in 0 .. T] ==
            IF n = 0 THEN [v \in Vertices |-> IF v = 0 THEN 0 ELSE Infinity]
            ELSE [v \in Vertices |->
                     Min({paths[n - 1][v]} \union
                         {paths[n - 1][e[1]] + graph[e] :
                             e \in {x \in DOMAIN graph : x[2] = v /\ paths[n - 1][x[1]] < Infinity}})]
<1>1. T \in Nat /\ Row0 \in Rows
  <2>1. T \in Nat
    BY FS_CardinalityType DEF FiniteGraphs
  <2>2. QED
    BY <2>1 DEF FiniteGraphs, Row0, Rows
<1>2. Shortest = paths[T]
  BY Zenon DEF Shortest
<1>3. \A p \in Rows : Further(p) \in Rows
  <2> SUFFICES ASSUME NEW p \in Rows PROVE Further(p) \in Rows
    OBVIOUS
  <2>1. \A v \in Vertices : Further(p)[v] \in 0 .. Infinity
    BY SmallestSum
  <2>2. Further(p) = [v \in Vertices |-> Further(p)[v]]
    BY DEF Further
  <2>3. QED
    BY <2>1, <2>2 DEF Rows
<1> HIDE DEF T, paths
<1>4. step \in [(1 .. T) \X Rows -> Rows]
  <2> HIDE DEF Further, Rows
  <2> QED
    BY <1>3
<1>5. PICK f : Iterates(f, Rows, T, step, Row0)
  <2> HIDE DEF step
  <2>1. QED
    BY <1>1, <1>4, Iterate
<1>6. f \in [0 .. T -> Rows] /\ f[0] = Row0 /\ \A n \in 1 .. T : f[n] = step[<<n, f[n - 1]>>]
  BY <1>5, Zenon DEF Iterates
<1>7. \A n \in 1 .. T : f[n] = Further(f[n - 1])
  <2>1. \A n \in 1 .. T : n - 1 \in 0 .. T
    BY <1>1
  <2>2. \A n \in 1 .. T : f[n - 1] \in Rows
    BY <1>6, <2>1
  <2> HIDE DEF Rows, Further
  <2>3. QED
    BY <1>6, <2>2
<1>8. f = [n \in 0 .. T |-> IF n = 0 THEN Row0 ELSE Further(f[n - 1])]
  <2>1. \A n \in 0 .. T : n # 0 => n \in 1 .. T
    BY <1>1
  <2>2. QED
    BY <1>6, <1>7, <2>1
<1>9. paths = [n \in 0 .. T |-> IF n = 0 THEN Row0 ELSE Further(paths[n - 1])]
  <2>1. f = [n \in 0 .. T |->
            IF n = 0 THEN [v \in Vertices |-> IF v = 0 THEN 0 ELSE Infinity]
            ELSE [v \in Vertices |->
                     Min({f[n - 1][v]} \union
                         {f[n - 1][e[1]] + graph[e] :
                             e \in {x \in DOMAIN graph : x[2] = v /\ f[n - 1][x[1]] < Infinity}})]]
    BY <1>8, Zenon DEF Row0, Further, Sums
  <2>2. paths = [n \in 0 .. T |->
            IF n = 0 THEN [v \in Vertices |-> IF v = 0 THEN 0 ELSE Infinity]
            ELSE [v \in Vertices |->
                     Min({paths[n - 1][v]} \union
                         {paths[n - 1][e[1]] + graph[e] :
                             e \in {x \in DOMAIN graph : x[2] = v /\ paths[n - 1][x[1]] < Infinity}})]]
    BY <2>1, Zenon DEF paths
  <2>3. QED
    BY <2>2, Zenon DEF Row0, Further, Sums
<1> DEFINE Q == {n \in 0 .. T : paths[n] = f[n]}
<1>10. \A n \in 0 .. T : n \in Q
  <2>1. 0 \in Q
    BY <1>1, <1>6, <1>9
  <2>2. ASSUME NEW n \in 1 .. T, n - 1 \in Q PROVE n \in Q
    <3>1. n \in 0 .. T /\ n # 0 /\ paths[n - 1] = f[n - 1]
      BY <1>1, <2>2
    <3>2. paths[n] = Further(paths[n - 1]) /\ f[n] = Further(f[n - 1])
      BY <1>8, <1>9, <3>1
    <3>3. QED
      BY <3>1, <3>2
  <2> HIDE DEF Q
  <2>3. QED
    BY <1>1, <2>1, <2>2, UpTo
<1>11. Shortest = f[T]
  BY <1>1, <1>2, <1>10
<1>12. QED
  BY <1>6, <1>7, <1>11, Zenon DEF PathRun, T

(* Distances that no edge improves are no longer than a shortest path.     *)
LEMMA NotLonger ==
    ASSUME FiniteGraphs, SearchInv, NEW f, PathRun(f),
           \A v, u \in Vertices : <<v, u>> \in DOMAIN graph => Triangular(v, u)
    PROVE  \A v \in Vertices : distance[v] <= Shortest[v]
PROOF
<1> DEFINE T == Cardinality(Vertices)
           Q == {n \in 0 .. T : \A v \in Vertices : distance[v] <= f[n][v]}
<1>1. T \in Nat
  BY FS_CardinalityType DEF FiniteGraphs
<1>2. /\ Infinity \in Nat /\ 0 \in Vertices /\ distance[0] = 0
      /\ \A v \in Vertices : distance[v] \in Nat /\ distance[v] <= Infinity
  BY Weights DEF SearchInv, Types
<1>3. /\ \A n \in 0 .. T : f[n] \in Rows
      /\ Shortest = f[T] /\ f[0] = Row0 /\ \A n \in 1 .. T : f[n] = Further(f[n - 1])
  BY DEF PathRun
<1> HIDE DEF T
<1>4. 0 \in Q
  BY <1>1, <1>2, <1>3 DEF Row0
<1>5. ASSUME NEW n \in 1 .. T, n - 1 \in Q PROVE n \in Q
  <2> DEFINE p == f[n - 1]
  <2>1. n - 1 \in 0 .. T /\ n \in 0 .. T
    BY <1>1
  <2>2. p \in Rows /\ f[n] = Further(p) /\ \A v \in Vertices : distance[v] <= p[v]
    BY <1>3, <1>5, <2>1
  <2> HIDE DEF p
  <2>3. ASSUME NEW v \in Vertices PROVE distance[v] <= f[n][v]
    <3>1. Further(p)[v] \in Sums(p, v)
      BY <2>2, SmallestSum DEF SearchInv
    <3>2. CASE Further(p)[v] = p[v]
      BY <2>2, <3>2
    <3>3. CASE Further(p)[v] # p[v]
      <4>1. PICK e \in {x \in DOMAIN graph : x[2] = v /\ p[x[1]] < Infinity} :
                Further(p)[v] = p[e[1]] + graph[e]
        BY <3>1, <3>3 DEF Sums
      <4>2. e \in DOMAIN graph /\ e[2] = v /\ e[1] \in Vertices /\ e = <<e[1], v>>
        BY <4>1 DEF FiniteGraphs, SearchInv, Types
      <4>3. /\ graph[e] \in Nat /\ p[e[1]] \in Nat /\ distance[e[1]] <= p[e[1]]
            /\ distance[e[1]] \in Nat /\ distance[v] \in Nat
        BY <1>2, <2>2, <4>2 DEF FiniteGraphs, SearchInv, Types, Rows
      <4>4. distance[v] <= distance[e[1]] + graph[e]
        BY <4>2 DEF Triangular
      <4>5. QED
        BY <2>2, <4>1, <4>3, <4>4
    <3>4. QED
      BY <3>2, <3>3
  <2>4. QED
    BY <2>1, <2>3
<1> HIDE DEF Q
<1>6. \A n \in 0 .. T : n \in Q
  BY <1>1, <1>4, <1>5, UpTo
<1>7. T \in Q
  BY <1>1, <1>6
<1>8. QED
  BY <1>3, <1>7 DEF Q

(* The vertices before v, of which the one by way of which the distance of *)
(* v was found is one.                                                     *)
Nearer(age, v) == {u \in Vertices : Before(age, u, v)}

(* Every distance that was found is the length of a path, which has at     *)
(* most as many edges as there are nearer vertices.                        *)
LEMMA NotShorter ==
    ASSUME FiniteGraphs, SearchInv, NEW f, PathRun(f),
           NEW age \in [Vertices -> Nat], Came(age)
    PROVE  \A v \in Vertices : Shortest[v] <= distance[v]
PROOF
<1> DEFINE T == Cardinality(Vertices)
           rank(v) == Cardinality(Nearer(age, v))
           Within(n, v) == distance[v] < Infinity /\ rank(v) <= n
           Q == {n \in 0 .. T : \A v \in Vertices : Within(n, v) => f[n][v] <= distance[v]}
<1>1. T \in Nat
  BY FS_CardinalityType DEF FiniteGraphs
<1>2. /\ Infinity \in Nat \ {0} /\ 0 \in Vertices /\ distance[0] = 0
      /\ \A v \in Vertices : distance[v] \in Nat /\ distance[v] <= Infinity
  BY Weights DEF SearchInv, Types
<1>3. /\ \A n \in 0 .. T : f[n] \in Rows
      /\ Shortest = f[T] /\ f[0] = Row0 /\ \A n \in 1 .. T : f[n] = Further(f[n - 1])
  BY DEF PathRun
<1>4. ASSUME NEW v \in Vertices
      PROVE  IsFiniteSet(Nearer(age, v)) /\ rank(v) \in Nat /\ rank(v) <= T
  <2>1. Nearer(age, v) \in SUBSET Vertices /\ IsFiniteSet(Vertices)
    BY DEF Nearer, FiniteGraphs
  <2>2. QED
    BY <2>1, FS_Subset, FS_CardinalityType
<1>5. ASSUME NEW u \in Vertices, NEW v \in Vertices, Before(age, u, v)
      PROVE  rank(u) < rank(v)
  <2>1. u \in Nearer(age, v) /\ Nearer(age, u) \in SUBSET (Nearer(age, v) \ {u})
    <3>1. \A x \in Vertices : age[x] \in Nat
      OBVIOUS
    <3>2. \A x \in Vertices : Before(age, x, u) => Before(age, x, v) /\ x # u
      BY <1>2, <1>5, <3>1 DEF Before
    <3>3. QED
      BY <1>5, <3>2 DEF Nearer
  <2>2. /\ IsFiniteSet(Nearer(age, v) \ {u})
        /\ Cardinality(Nearer(age, v) \ {u}) = rank(v) - 1
    BY <1>4, <2>1, FS_RemoveElement
  <2>3. rank(u) <= Cardinality(Nearer(age, v) \ {u})
    BY <2>1, <2>2, FS_Subset
  <2> HIDE DEF rank
  <2>4. rank(u) \in Nat /\ rank(v) \in Nat
    BY <1>4
  <2>5. QED
    BY <2>2, <2>3, <2>4
<1>6. rank(0) = 0
  <2>1. Nearer(age, 0) = {}
    BY <1>2 DEF Nearer, Before, Came
  <2>2. QED
    BY <2>1, FS_EmptySet
<1>7. ASSUME NEW v \in Vertices, v # 0, distance[v] < Infinity
      PROVE  \E u \in Vertices : /\ <<u, v>> \in DOMAIN graph /\ graph[<<u, v>>] \in Nat
                                 /\ distance[u] + graph[<<u, v>>] <= distance[v]
                                 /\ distance[u] < Infinity /\ rank(u) < rank(v)
  <2>1. PICK u \in Vertices : /\ <<u, v>> \in DOMAIN graph
                              /\ distance[u] + graph[<<u, v>>] <= distance[v]
                              /\ Before(age, u, v)
    BY <1>7 DEF Came
  <2>2. graph[<<u, v>>] \in Nat
    BY <2>1, Weights DEF SearchInv
  <2>3. distance[u] <= distance[v]
    BY <1>2, <2>1, <2>2
  <2>4. distance[u] < Infinity
    BY <1>2, <1>7, <2>3
  <2>5. rank(u) < rank(v)
    BY <1>5, <2>1
  <2>6. QED
    BY <2>1, <2>2, <2>4, <2>5
<1> HIDE DEF T, rank
<1>8. 0 \in Q
  <2>1. ASSUME NEW v \in Vertices, Within(0, v) PROVE f[0][v] <= distance[v]
    <3>1. rank(v) = 0 /\ \A u \in Vertices : ~ (rank(u) < rank(v))
      BY <1>4, <2>1
    <3>2. v = 0
      BY <1>7, <2>1, <3>1
    <3>3. QED
      BY <1>2, <1>3, <3>2 DEF Row0
  <2>2. QED
    BY <1>1, <2>1
<1>9. ASSUME NEW n \in 1 .. T, n - 1 \in Q PROVE n \in Q
  <2> DEFINE p == f[n - 1]
  <2>1. n - 1 \in 0 .. T /\ n \in 0 .. T
    BY <1>1
  <2>2. p \in Rows /\ f[n] = Further(p)
    BY <1>3, <2>1
  <2>3. \A v \in Vertices : Within(n - 1, v) => p[v] <= distance[v]
    BY <1>9
  <2> HIDE DEF p
  <2>4. ASSUME NEW v \in Vertices, Within(n, v) PROVE f[n][v] <= distance[v]
    <3>1. /\ \A m \in Sums(p, v) : Further(p)[v] <= m
          /\ Further(p)[v] \in Nat
      BY <1>2, <2>2, SmallestSum DEF SearchInv
    <3>2. CASE v = 0
      <4>1. Within(n - 1, 0)
        BY <1>2, <1>6, <2>1
      <4>2. p[0] <= distance[0] /\ p[0] \in Nat
        BY <1>2, <2>2, <2>3, <4>1 DEF Rows
      <4>3. Further(p)[0] <= p[0]
        BY <3>1, <3>2 DEF Sums
      <4>4. QED
        BY <1>2, <2>2, <3>1, <3>2, <4>2, <4>3
    <3>3. CASE v # 0
      <4>1. PICK u \in Vertices : /\ <<u, v>> \in DOMAIN graph /\ graph[<<u, v>>] \in Nat
                                  /\ distance[u] + graph[<<u, v>>] <= distance[v]
                                  /\ distance[u] < Infinity /\ rank(u) < rank(v)
        BY <1>7, <2>4, <3>3
      <4>2. Within(n - 1, u)
        BY <1>4, <2>1, <2>4, <4>1
      <4>3. p[u] <= distance[u] /\ p[u] \in Nat /\ distance[u] \in Nat /\ distance[v] \in Nat
        BY <1>2, <2>2, <2>3, <4>2 DEF Rows
      <4>4. p[u] < Infinity
        BY <1>2, <4>1, <4>3
      <4>5. p[u] + graph[<<u, v>>] \in Sums(p, v)
        <5>1. <<u, v>> \in {x \in DOMAIN graph : x[2] = v /\ p[x[1]] < Infinity}
          BY <4>1, <4>4
        <5>2. <<u, v>>[1] = u
          OBVIOUS
        <5>3. QED
          BY <5>1, <5>2 DEF Sums
      <4>6. Further(p)[v] <= p[u] + graph[<<u, v>>]
        BY <3>1, <4>5
      <4>7. QED
        BY <2>2, <3>1, <4>1, <4>3, <4>6
    <3>4. QED
      BY <3>2, <3>3
  <2>5. QED
    BY <2>1, <2>4
<1> HIDE DEF Q
<1>10. \A n \in 0 .. T : n \in Q
  BY <1>1, <1>8, <1>9, UpTo
<1>11. ASSUME NEW v \in Vertices PROVE f[T][v] <= distance[v]
  <2>1. T \in 0 .. T /\ T \in Q
    BY <1>1, <1>10
  <2>2. f[T][v] \in 0 .. Infinity
    BY <1>3, <2>1 DEF Rows
  <2>3. CASE distance[v] < Infinity
    BY <1>4, <2>1, <2>3 DEF Q
  <2>4. CASE ~ (distance[v] < Infinity)
    BY <1>2, <2>2, <2>4
  <2>5. QED
    BY <2>3, <2>4
<1>12. QED
  BY <1>3, <1>11

(* When there is no task, in the queue or with a thread, distances are     *)
(* final.                                                                  *)
LEMMA SearchEnd ==
    ASSUME FiniteGraphs, SearchInv, pq = {}, \A t \in Threads : pc[t] \in Idling
    PROVE  distance = Shortest
PROOF
<1>1. \A v, u \in Vertices : ~ Open(v, u)
  BY DEF Open, Pending, HasTask, Relaxes, Fresh, Between, Pushing, Relaxing, Idling
<1>2. \A v, u \in Vertices : <<v, u>> \in DOMAIN graph => Triangular(v, u)
  BY <1>1 DEF SearchInv, EdgeInv
<1>3. PICK f : PathRun(f)
  BY PathRounds DEF SearchInv
<1>4. Shortest \in [Vertices -> 0 .. Infinity]
  <2>1. Cardinality(Vertices) \in Nat
    BY FS_CardinalityType DEF FiniteGraphs
  <2>2. QED
    BY <1>3, <2>1 DEF PathRun, Rows
<1>5. \A v \in Vertices : distance[v] <= Shortest[v] /\ Shortest[v] <= distance[v]
  <2>1. PICK n \in Nat : \E age \in [Vertices -> 0 .. n] : Came(age)
    BY DEF SearchInv, PathInv
  <2>2. PICK age \in [Vertices -> 0 .. n] : Came(age)
    BY <2>1
  <2>3. age \in [Vertices -> Nat]
    OBVIOUS
  <2>4. QED
    BY <1>2, <1>3, <2>2, <2>3, NotLonger, NotShorter
<1>6. distance \in [Vertices -> 0 .. Infinity]
  BY DEF SearchInv, Types
<1>7. \A v \in Vertices : distance[v] = Shortest[v]
  BY <1>4, <1>5, <1>6 DEF FiniteGraphs
<1>8. QED
  BY <1>4, <1>6, <1>7

-----------------------------------------------------------------------------
(* shortest_paths.cpp: the threads stop when num_tasks is 0.               *)

(* num_tasks counts the tasks in the queue, those that threads have taken  *)
(* and those about to be inserted.  A thread stops when there is none.     *)
Holding   == Fresh \union Relaxing \union {"delete"}
Holders   == {t \in Threads : pc[t] \in Holding}
Inserting == {t \in Threads : pc[t] = "insert"}
CountInv ==
    /\ num_tasks = Cardinality(pq) + Cardinality(Holders) + Cardinality(Inserting)
    /\ (\E t \in Threads : pc[t] = "done") => num_tasks = 0

(* The inductive invariant of the search that counts its tasks. *)
CountedInv == SearchInv /\ num_tasks \in Nat /\ CountInv

(* The steps of the program in terms of those of the search.               *)
LEMMA CountedSteps ==
    ASSUME NEW t \in Threads, Counted!Step(t)
    PROVE  \/ Jump(t, "loop", IF num_tasks > 0 THEN "delete_min" ELSE "done") /\ num_tasks' = num_tasks
           \/ take_task(t, "delete_min", "task") /\ num_tasks' = num_tasks
           \/ Jump(t, "delete_min", "loop") /\ num_tasks' = num_tasks
           \/ outdated(t, "delete") /\ num_tasks' = num_tasks
           \/ (expand(t) \/ edge(t) \/ cas(t) \/ cas_fails(t)) /\ num_tasks' = num_tasks
           \/ Jump(t, "push", "insert") /\ num_tasks' = num_tasks + 1
           \/ insert(t, "insert", "edges") /\ num_tasks' = num_tasks
           \/ edges_done(t, "delete") /\ num_tasks' = num_tasks
           \/ Jump(t, "delete", "loop") /\ num_tasks' = num_tasks - 1
PROOF
<1>1. \A p, l : Counted!Goto(t, p, l) <=> Goto(t, p, l)
  BY DEF Counted!Goto, Goto
<1>2. \A p, q : Counted!Jump(t, p, q) <=> Jump(t, p, q)
  BY <1>1 DEF Counted!Jump, Jump
<1>3. /\ \A p, q : Counted!take_task(t, p, q) <=> take_task(t, p, q)
      /\ \A q : Counted!outdated(t, q) <=> outdated(t, q)
      /\ \A q : Counted!edges_done(t, q) <=> edges_done(t, q)
  BY <1>1 DEF Counted!take_task, take_task, Counted!outdated, outdated, Counted!edges_done, edges_done,
              Counted!Idle, Idle
<1>4. \A p, q : Counted!insert(t, p, q) <=> insert(t, p, q)
  BY <1>1 DEF Counted!insert, insert, Counted!new_dist, new_dist
<1>5. (Counted!expand(t) <=> expand(t)) /\ (Counted!cas(t) <=> cas(t))
  BY <1>1 DEF Counted!expand, expand, Counted!cas, cas, Counted!new_dist, new_dist
<1>6. (Counted!edge(t) <=> edge(t)) /\ (Counted!cas_fails(t) <=> cas_fails(t))
  BY <1>1 DEF Counted!edge, edge, Counted!cas_fails, cas_fails, Counted!new_dist, new_dist
<1>7. QED
  BY <1>2, <1>3, <1>4, <1>5, <1>6
     DEF Counted!Step, Counted!loop, Counted!delete_min, Counted!delete_min_fails, Counted!dead,
         Counted!relax, Counted!new_task, Counted!push, Counted!finished, Counted!delete

(* The search goes on in every step of the program.                        *)
LEMMA CountedSearches ==
    ASSUME FiniteGraphs, SearchInv, NEW t \in Threads, Counted!Step(t)
    PROVE  SearchInv'
PROOF
<1>1. /\ {"loop", "delete_min", "delete", "done"} \subseteq Idling
      /\ "task" \in Fresh /\ "edges" \in Between /\ {"push", "insert"} \subseteq Pushing
  BY DEF Idling, Fresh, Between, Pushing
<1>2. CASE Jump(t, "loop", IF num_tasks > 0 THEN "delete_min" ELSE "done")
  <2> DEFINE to == IF num_tasks > 0 THEN "delete_min" ELSE "done"
  <2>1. to \in Idling /\ "loop" \in Idling
    BY <1>1
  <2>2. Jump(t, "loop", to)
    BY <1>2
  <2> HIDE DEF to
  <2>3. QED
    BY <2>1, <2>2, JumpNext
<1>3. CASE \/ Jump(t, "delete_min", "loop") \/ Jump(t, "delete", "loop")
           \/ Jump(t, "push", "insert")
  BY <1>1, <1>3, JumpNext
<1>4. CASE take_task(t, "delete_min", "task") \/ insert(t, "insert", "edges")
  BY <1>1, <1>4, TakeNext, InsertNext
<1>5. CASE outdated(t, "delete") \/ edges_done(t, "delete")
  BY <1>1, <1>5, OutdatedNext, EdgesDoneNext
<1>6. CASE expand(t) \/ edge(t) \/ cas(t) \/ cas_fails(t)
  BY <1>6, ExpandNext, EdgeNext, CasNext, CasFailsNext
<1>7. QED
  BY <1>2, <1>3, <1>4, <1>5, <1>6, CountedSteps

(* While there is something to count, no thread has stopped.               *)
LEMMA NobodyStopped ==
    ASSUME FiniteGraphs, CountedInv
    PROVE  /\ IsFiniteSet(Holders) /\ IsFiniteSet(Inserting) /\ IsFiniteSet(pq)
           /\ Cardinality(Holders) \in Nat /\ Cardinality(Inserting) \in Nat
           /\ Cardinality(pq) \in Nat
           /\ num_tasks = 0 => pq = {} /\ Holders = {}
           /\ (pq # {} \/ Holders # {}) => \A t \in Threads : pc[t] # "done"
PROOF
<1>1. IsFiniteSet(Holders) /\ IsFiniteSet(Inserting) /\ IsFiniteSet(pq)
  <2>1. Holders \in SUBSET Threads /\ Inserting \in SUBSET Threads /\ IsFiniteSet(Threads)
    BY DEF Holders, Inserting, FiniteGraphs
  <2>2. QED
    BY <2>1, FS_Subset DEF CountedInv, SearchInv, Types
<1>2. /\ Cardinality(Holders) \in Nat /\ Cardinality(Inserting) \in Nat /\ Cardinality(pq) \in Nat
  BY <1>1, FS_CardinalityType
<1>3. (Cardinality(Holders) = 0 => Holders = {}) /\ (Cardinality(pq) = 0 => pq = {})
  BY <1>1, FS_EmptySet
<1>4. num_tasks = 0 => pq = {} /\ Holders = {}
  <2>1. num_tasks = Cardinality(pq) + Cardinality(Holders) + Cardinality(Inserting)
    BY DEF CountedInv, CountInv
  <2>2. num_tasks = 0 => Cardinality(pq) = 0 /\ Cardinality(Holders) = 0
    BY <1>2, <2>1
  <2>3. QED
    BY <1>3, <2>2
<1>5. QED
  BY <1>1, <1>2, <1>4 DEF CountedInv, CountInv

(* The thread that moves takes part in the two sets or not.                *)
LEMMA HoldersNext ==
    ASSUME FiniteGraphs, CountedInv, NEW t \in Threads, Alone(t)
    PROVE  /\ (t \in Holders <=> pc'[t] \in Holding) => Cardinality(Holders') = Cardinality(Holders)
           /\ (t \notin Holders /\ pc'[t] \in Holding) =>
                  Cardinality(Holders') = Cardinality(Holders) + 1
           /\ (t \in Holders /\ pc'[t] \notin Holding) =>
                  Cardinality(Holders') = Cardinality(Holders) + -1
           /\ (t \in Inserting <=> pc'[t] = "insert") =>
                  Cardinality(Inserting') = Cardinality(Inserting)
           /\ (t \notin Inserting /\ pc'[t] = "insert") =>
                  Cardinality(Inserting') = Cardinality(Inserting) + 1
           /\ (t \in Inserting /\ pc'[t] # "insert") =>
                  Cardinality(Inserting') = Cardinality(Inserting) + -1
PROOF
<1>1. /\ IsFiniteSet(Holders) /\ IsFiniteSet(Inserting)
      /\ Cardinality(Holders) \in Nat /\ Cardinality(Inserting) \in Nat
  BY NobodyStopped
<1>2. \A s \in Threads : s # t => /\ s \in Holders' <=> s \in Holders
                                  /\ s \in Inserting' <=> s \in Inserting
  BY DEF Alone, Holders, Inserting
<1>3. /\ t \in Holders' <=> pc'[t] \in Holding
      /\ t \in Inserting' <=> pc'[t] = "insert"
  BY DEF Holders, Inserting
<1>4. /\ Holders \subseteq Threads /\ Holders' \subseteq Threads
      /\ Inserting \subseteq Threads /\ Inserting' \subseteq Threads
  BY DEF Holders, Inserting
<1>5. /\ (t \in Holders <=> pc'[t] \in Holding) => Holders' = Holders
      /\ (t \notin Holders /\ pc'[t] \in Holding) => Holders' = Holders \union {t}
      /\ (t \in Holders /\ pc'[t] \notin Holding) => Holders' = Holders \ {t}
  BY <1>2, <1>3, <1>4
<1>6. /\ (t \in Inserting <=> pc'[t] = "insert") => Inserting' = Inserting
      /\ (t \notin Inserting /\ pc'[t] = "insert") => Inserting' = Inserting \union {t}
      /\ (t \in Inserting /\ pc'[t] # "insert") => Inserting' = Inserting \ {t}
  BY <1>2, <1>3, <1>4
<1>7. /\ t \notin Holders => Cardinality(Holders \union {t}) = Cardinality(Holders) + 1
      /\ t \in Holders => Cardinality(Holders \ {t}) = Cardinality(Holders) - 1
      /\ t \notin Inserting => Cardinality(Inserting \union {t}) = Cardinality(Inserting) + 1
      /\ t \in Inserting => Cardinality(Inserting \ {t}) = Cardinality(Inserting) - 1
  BY <1>1, FS_AddElement, FS_RemoveElement
<1>8. /\ Cardinality(Holders) - 1 = Cardinality(Holders) + -1
      /\ Cardinality(Inserting) - 1 = Cardinality(Inserting) + -1
  BY <1>1
<1>9. QED
  BY <1>5, <1>6, <1>7, <1>8

(* Every step keeps the count.                                             *)
LEMMA CountNext ==
    ASSUME FiniteGraphs, CountedInv, NEW t \in Threads, Counted!Step(t)
    PROVE  CountInv'
PROOF
<1>1. /\ Types /\ Infinity \in Nat /\ num_tasks \in Nat
      /\ \A p, l : Goto(t, p, l) => pc'[t] = p /\ Alone(t)
  BY DEF CountedInv, SearchInv, Types, FiniteGraphs, Goto, Alone
<1>2. /\ {"loop", "delete_min", "done"} \intersect Holding = {}
      /\ {"task", "edges", "cas", "push", "insert", "delete"} \subseteq Holding
  BY DEF Holding, Fresh, Relaxing, Between, Pushing
<1>3. /\ t \in Holders <=> pc[t] \in Holding
      /\ t \in Inserting <=> pc[t] = "insert"
  BY DEF Holders, Inserting
<1>4. /\ IsFiniteSet(pq) /\ Cardinality(pq) \in Nat /\ Cardinality(Holders) \in Nat
      /\ Cardinality(Inserting) \in Nat
      /\ num_tasks = Cardinality(pq) + Cardinality(Holders) + Cardinality(Inserting)
  BY NobodyStopped DEF CountedInv, CountInv
<1>5. CASE \/ Jump(t, "loop", IF num_tasks > 0 THEN "delete_min" ELSE "done") /\ num_tasks' = num_tasks
           \/ Jump(t, "delete_min", "loop") /\ num_tasks' = num_tasks
  <2>1. PICK to \in {"loop", "delete_min", "done"} :
            /\ to = "done" => num_tasks = 0
            /\ \E from \in {"loop", "delete_min"} : Jump(t, from, to)
    BY <1>1, <1>5
  <2>2. /\ pc[t] \in {"loop", "delete_min"} /\ pc'[t] = to /\ Alone(t)
        /\ pq' = pq /\ num_tasks' = num_tasks
    BY <1>1, <1>5, <2>1 DEF Jump
  <2>3. /\ t \in Holders <=> pc'[t] \in Holding
        /\ t \in Inserting <=> pc'[t] = "insert"
    BY <1>2, <1>3, <2>2
  <2>4. num_tasks' = Cardinality(pq') + Cardinality(Holders') + Cardinality(Inserting')
    BY <1>4, <2>2, <2>3, HoldersNext
  <2>5. (\E s \in Threads : pc'[s] = "done") => num_tasks' = 0
    BY <2>1, <2>2 DEF Alone, CountedInv, CountInv
  <2>6. QED
    BY <2>4, <2>5 DEF CountInv
<1>6. CASE take_task(t, "delete_min", "task") /\ num_tasks' = num_tasks
  <2>1. "delete_min" \in Idling /\ "task" \in Fresh
    BY DEF Idling, Fresh
  <2>2. /\ pc[t] = "delete_min" /\ pc'[t] = "task" /\ Alone(t)
        /\ pq # {} /\ Cardinality(pq') = Cardinality(pq) - 1
    BY <1>6, <2>1, TakeNext DEF CountedInv
  <2>3. /\ Cardinality(Holders') = Cardinality(Holders) + 1
        /\ Cardinality(Inserting') = Cardinality(Inserting)
    BY <1>2, <1>3, <2>2, HoldersNext
  <2>4. num_tasks' = Cardinality(pq') + Cardinality(Holders') + Cardinality(Inserting')
    BY <1>4, <1>6, <2>2, <2>3
  <2>5. \A s \in Threads : pc[s] # "done"
    BY <2>2, NobodyStopped
  <2>6. QED
    BY <2>2, <2>4, <2>5 DEF CountInv, Alone
<1>7. CASE /\ outdated(t, "delete") \/ edges_done(t, "delete")
                \/ expand(t) \/ edge(t) \/ cas(t) \/ cas_fails(t)
           /\ num_tasks' = num_tasks
  <2>1. /\ pc[t] \in {"task", "edges", "cas"} /\ pq' = pq
        /\ \E p \in {"delete", "edges", "cas", "push"} : \E l : Goto(t, p, l)
    <3>1. CASE outdated(t, "delete") \/ edges_done(t, "delete") \/ expand(t) \/ cas(t)
      BY <3>1 DEF outdated, edges_done, expand, cas
    <3>2. CASE edge(t)
      BY <3>2 DEF edge
    <3>3. CASE cas_fails(t)
      BY <3>3 DEF cas_fails
    <3>4. QED
      BY <1>7, <3>1, <3>2, <3>3
  <2>2. pc'[t] \in {"delete", "edges", "cas", "push"} /\ Alone(t)
    BY <1>1, <2>1
  <2>3. t \in Holders /\ pc'[t] \in Holding /\ t \notin Inserting /\ pc'[t] # "insert"
    BY <1>2, <1>3, <2>1, <2>2
  <2>4. /\ Cardinality(Holders') = Cardinality(Holders)
        /\ Cardinality(Inserting') = Cardinality(Inserting)
    BY <2>2, <2>3, HoldersNext
  <2>5. num_tasks' = Cardinality(pq') + Cardinality(Holders') + Cardinality(Inserting')
    BY <1>4, <1>7, <2>1, <2>4
  <2>6. \A s \in Threads : pc[s] # "done"
    BY <2>3, NobodyStopped
  <2>7. QED
    BY <2>2, <2>5, <2>6 DEF CountInv, Alone
<1>8. CASE \/ Jump(t, "push", "insert") /\ num_tasks' = num_tasks + 1
           \/ Jump(t, "delete", "loop") /\ num_tasks' = num_tasks - 1
  <2>1. /\ pq' = pq /\ Alone(t) /\ t \in Holders
        /\ \/ pc[t] = "push" /\ pc'[t] = "insert" /\ num_tasks' = num_tasks + 1
           \/ pc[t] = "delete" /\ pc'[t] = "loop" /\ num_tasks' = num_tasks - 1
    BY <1>1, <1>2, <1>3, <1>8 DEF Jump
  <2>2. CASE pc[t] = "push"
    <3>1. pc'[t] = "insert" /\ num_tasks' = num_tasks + 1
      BY <2>1, <2>2
    <3>2. /\ Cardinality(Holders') = Cardinality(Holders)
          /\ Cardinality(Inserting') = Cardinality(Inserting) + 1
      BY <1>2, <1>3, <2>1, <2>2, <3>1, HoldersNext
    <3>3. num_tasks' = Cardinality(pq') + Cardinality(Holders') + Cardinality(Inserting')
      BY <1>4, <2>1, <3>1, <3>2
    <3>4. \A s \in Threads : pc[s] # "done"
      BY <2>1, NobodyStopped
    <3>5. QED
      BY <2>1, <3>1, <3>3, <3>4 DEF CountInv, Alone
  <2>3. CASE pc[t] = "delete"
    <3>1. pc'[t] = "loop" /\ num_tasks' = num_tasks - 1
      BY <2>1, <2>3
    <3>2. /\ Cardinality(Holders') = Cardinality(Holders) + -1
          /\ Cardinality(Inserting') = Cardinality(Inserting)
      BY <1>2, <1>3, <2>1, <2>3, <3>1, HoldersNext
    <3>3. num_tasks' = Cardinality(pq') + Cardinality(Holders') + Cardinality(Inserting')
      BY <1>4, <2>1, <3>1, <3>2
    <3>4. \A s \in Threads : pc[s] # "done"
      BY <2>1, NobodyStopped
    <3>5. QED
      BY <2>1, <3>1, <3>3, <3>4 DEF CountInv, Alone
  <2>4. QED
    BY <2>1, <2>2, <2>3
<1>9. CASE insert(t, "insert", "edges") /\ num_tasks' = num_tasks
  <2>1. pc[t] = "insert" /\ pc'[t] = "edges" /\ Alone(t)
    BY <1>1, <1>9 DEF insert
  <2>2. "insert" \in Pushing /\ "edges" \in Between
    BY DEF Pushing, Between
  <2>3. Cardinality(pq') = Cardinality(pq) + 1
    BY <1>9, <2>2, InsertNext DEF CountedInv
  <2>4. /\ Cardinality(Holders') = Cardinality(Holders)
        /\ Cardinality(Inserting') = Cardinality(Inserting) + -1
    BY <1>2, <1>3, <2>1, HoldersNext
  <2>5. num_tasks' = Cardinality(pq') + Cardinality(Holders') + Cardinality(Inserting')
    BY <1>4, <1>9, <2>3, <2>4
  <2>6. t \in Holders
    BY <1>2, <1>3, <2>1
  <2>7. \A s \in Threads : pc[s] # "done"
    BY <2>6, NobodyStopped
  <2>8. QED
    BY <2>1, <2>5, <2>7 DEF CountInv, Alone
<1>10. QED
  BY <1>5, <1>6, <1>7, <1>8, <1>9, CountedSteps, SMTT(60)

(* A count is a natural number.                                            *)
LEMMA CountedNext ==
    ASSUME FiniteGraphs, CountedInv, NEW t \in Threads, Counted!Step(t)
    PROVE  CountedInv'
PROOF
<1>1. SearchInv' /\ CountInv'
  BY CountedSearches, CountNext DEF CountedInv
<1>2. IsFiniteSet(Holders') /\ IsFiniteSet(Inserting') /\ IsFiniteSet(pq')
  <2>1. Holders' \in SUBSET Threads /\ Inserting' \in SUBSET Threads /\ IsFiniteSet(Threads)
    BY DEF Holders, Inserting, FiniteGraphs
  <2>2. QED
    BY <1>1, <2>1, FS_Subset DEF SearchInv, Types
<1>3. /\ Cardinality(Holders') \in Nat /\ Cardinality(Inserting') \in Nat /\ Cardinality(pq') \in Nat
  BY <1>2, FS_CardinalityType
<1>4. num_tasks' = Cardinality(pq') + Cardinality(Holders') + Cardinality(Inserting')
  BY <1>1 DEF CountInv
<1>5. QED
  BY <1>1, <1>3, <1>4 DEF CountedInv

(* num_tasks counts the tasks, and what a thread has read and a distance   *)
(* was found by is as it should be: this is so in every state.             *)
THEOREM TasksCounted ==
    ASSUME FiniteGraphs
    PROVE  Counted!Spec => []CountedInv
PROOF
<1>1. Counted!Init => CountedInv
  <2>1. SUFFICES ASSUME Counted!Init PROVE CountedInv
    OBVIOUS
  <2>2. SearchInit("loop") /\ num_tasks = 1
    BY <2>1 DEF Counted!Init, Counted!SearchInit, SearchInit, Counted!Idle, Idle,
                Counted!MainThread, MainThread
  <2>3. "loop" \in Idling
    BY DEF Idling
  <2>4. SearchInv /\ Cardinality(pq) = 1
    BY <2>2, <2>3, SearchStart
  <2>5. \A t \in Threads : pc[t] = "loop"
    BY <2>2 DEF SearchInit
  <2>6. Holders = {} /\ Inserting = {}
    BY <2>5 DEF Holders, Inserting, Holding, Fresh, Relaxing, Between, Pushing
  <2>7. Cardinality(Holders) = 0 /\ Cardinality(Inserting) = 0
    BY <2>6, FS_EmptySet
  <2>8. QED
    BY <2>2, <2>4, <2>5, <2>7 DEF CountedInv, CountInv
<1>2. CountedInv /\ [Counted!Next]_Counted!vars => CountedInv'
  <2>1. SUFFICES ASSUME CountedInv, [Counted!Next]_Counted!vars PROVE CountedInv'
    OBVIOUS
  <2>2. CASE Counted!Next
    BY <2>1, <2>2, CountedNext DEF Counted!Next
  <2>3. CASE UNCHANGED Counted!vars
    <3>1. /\ graph' = graph /\ distance' = distance /\ pq' = pq /\ pc' = pc /\ loc' = loc
          /\ num_tasks' = num_tasks
      BY <2>3 DEF Counted!vars, Counted!searchVars
    <3>2. SearchInv'
      BY <2>1, <3>1, SearchSame DEF CountedInv
    <3>3. Holders' = Holders /\ Inserting' = Inserting
      BY <3>1 DEF Holders, Inserting
    <3>4. QED
      BY <2>1, <3>1, <3>2, <3>3 DEF CountedInv, CountInv
  <2>4. QED
    BY <2>1, <2>2, <2>3
<1>3. QED
  BY <1>1, <1>2, PTL DEF Counted!Spec

(* A thread of shortest_paths.cpp stops only when no task is left and      *)
(* every vertex has the length of a shortest path.                         *)
THEOREM SearchIsFinal ==
    ASSUME FiniteGraphs
    PROVE  Counted!Spec => []Counted!StopsWhenDone
PROOF
<1>1. CountedInv => Counted!StopsWhenDone
  <2>1. SUFFICES ASSUME CountedInv, NEW t \in Threads, pc[t] = "done"
                 PROVE  pq = {} /\ Counted!Working = {} /\ distance = Counted!Shortest
    BY DEF Counted!StopsWhenDone
  <2>2. pq = {} /\ Holders = {}
    BY <2>1, NobodyStopped DEF CountedInv, CountInv
  <2>3. Counted!Working = {}
    BY <2>2 DEF Counted!Working, Holders, Holding, Fresh, Relaxing, Between, Pushing
  <2>4. \A s \in Threads : pc[s] \in Idling
    BY <2>1, <2>2 DEF Holders, Holding, CountedInv, SearchInv, Types, Labels
  <2>5. distance = Shortest
    BY <2>1, <2>2, <2>4, SearchEnd DEF CountedInv
  <2>6. Counted!Shortest = Shortest
    BY DEF Counted!Shortest, Shortest, Counted!Min, Min, Counted!Cardinality, Cardinality
  <2>7. QED
    BY <2>2, <2>3, <2>5, <2>6
<1>2. QED
  BY <1>1, TasksCounted, PTL

-----------------------------------------------------------------------------
(* file_shortest_paths.cpp: the threads stop when all of them wait.        *)

(* What the theorem assumes of the constants: threads are numbered from 0. *)
NumberedThreads ==
    /\ number_of_threads \in Nat \ {0} /\ ARRAY_PADDING \in Nat
    /\ Threads = 0 .. (number_of_threads - 1)

(* A waiting thread.  Before that it has announced itself, and is counted  *)
(* once; it is counted twice until the thread that wakes it subtracts 2.   *)
Polling   == {"wait", "poll", "reread"}
Waiting   == Polling \union {"sleep", "done"}
Announced == {"count", "last_try", "uncount", "reset", "sleep"}
Sw(t)       == threads_wait_switches[Own(t)]
Wakes(t, u) == pc[t] \in {"decrement", "wake"} /\ slot[t] = Own(u)
Woken(t)    == \/ pc[t] \in Polling /\ Sw(t) = 0
               \/ \E u \in Threads : pc[u] = "wake" /\ slot[u] = Own(t)
Twice       == {t \in Threads : pc[t] \in Waiting /\ ~ Woken(t)}
Once        == Twice \union {t \in Threads : pc[t] \in {"last_try", "uncount"}}

WaitTypes ==
    /\ threads_waiting_to_succeed \in Nat
    /\ threads_wait_switches \in [Switches -> 0 .. 3]
    /\ curr_value2 \in [Threads -> Int] /\ slot \in [Threads -> Int]

(* A thread's switch says where it is, and is 3 while it is being woken,   *)
(* by one thread only.                                                     *)
SwitchOK(t) ==
    /\ pc[t] \in Announced => Sw(t) = 1
    /\ pc[t] \in Polling => Sw(t) # 1
    /\ Sw(t) \in {2, 3} => pc[t] \in Polling \union {"done"}
    /\ pc[t] \in {"notify", "claim", "decrement", "wake"} => slot[t] >= ARRAY_PADDING
    /\ pc[t] \in {"claim", "decrement", "wake"} => slot[t] < number_of_threads
SwitchInv ==
    /\ \A t \in Threads : SwitchOK(t)
    /\ \A t, u \in Threads : Wakes(t, u) => Sw(u) = 3 /\ pc[u] \in Polling
    /\ \A t, s, u \in Threads : Wakes(t, u) /\ Wakes(s, u) => t = s

(* A waiting thread has left nothing of its own in the queue, and it has   *)
(* read the maximum of the counter only when all threads wait: for good.   *)
AllAsleep == Twice = Threads
Stops(t)  == pc[t] = "done" \/ (pc[t] \in Waiting /\ curr_value2[t] = 2 * number_of_threads)
WaitInv ==
    /\ threads_waiting_to_succeed = Cardinality(Once) + Cardinality(Twice)
    /\ \A t \in Threads : pc[t] \in Waiting => MayFail(t)
    /\ \A t \in Threads : Stops(t) => AllAsleep

(* The inductive invariant of the search whose threads wait. *)
FileInv == SearchInv /\ WaitTypes /\ SwitchInv /\ WaitInv

(* What a step of t keeps of the switches of the others. *)
Apart(t) == \A s \in Threads \ {t} : /\ Sw(s)' = Sw(s) /\ slot'[s] = slot[s]
                                     /\ curr_value2'[s] = curr_value2[s]

(* Every thread has a switch of its own.                                   *)
LEMMA Numbers ==
    ASSUME NumberedThreads
    PROVE  /\ \A s, u \in Threads : Own(s) = Own(u) => s = u
           /\ \A s \in Threads : Own(s) \in Switches /\ s # MainThread /\ Own(s) \in Int
           /\ \A i \in Int : i >= ARRAY_PADDING /\ i < number_of_threads =>
                  \E u \in Threads : Own(u) = i
           /\ IsFiniteSet(Threads) /\ Cardinality(Threads) = number_of_threads
           /\ number_of_threads \in Nat \ {0} /\ ARRAY_PADDING \in Nat
PROOF
<1>1. /\ \A s, u \in Threads : Own(s) = Own(u) => s = u
      /\ \A s \in Threads : Own(s) \in Switches /\ s # MainThread /\ Own(s) \in Int
      /\ number_of_threads \in Nat \ {0} /\ ARRAY_PADDING \in Nat
  BY DEF NumberedThreads, Own, Switches, MainThread
<1>2. ASSUME NEW i \in Int, i >= ARRAY_PADDING, i < number_of_threads
      PROVE  \E u \in Threads : Own(u) = i
  <2>1. i - ARRAY_PADDING \in Threads /\ Own(i - ARRAY_PADDING) = i
    BY <1>2 DEF NumberedThreads, Own
  <2>2. QED
    BY <2>1
<1>3. IsFiniteSet(Threads) /\ Cardinality(Threads) = number_of_threads
  <2>1. /\ 0 \in Int /\ number_of_threads - 1 \in Int
        /\ (number_of_threads - 1) - 0 + 1 = number_of_threads /\ ~ (0 > number_of_threads - 1)
    BY <1>1
  <2>2. QED
    BY <2>1, FS_Interval DEF NumberedThreads
<1>4. QED
  BY <1>1, <1>2, <1>3

(* Two sets of threads with 2 * number_of_threads elements between them.   *)
LEMMA BothFull ==
    ASSUME NumberedThreads, NEW A \in SUBSET Threads, NEW B \in SUBSET Threads
    PROVE  /\ IsFiniteSet(A) /\ IsFiniteSet(B)
           /\ Cardinality(A) \in Nat /\ Cardinality(B) \in Nat
           /\ Cardinality(A) + Cardinality(B) = 2 * number_of_threads => B = Threads
PROOF
<1>1. /\ IsFiniteSet(Threads) /\ Cardinality(Threads) = number_of_threads
      /\ number_of_threads \in Nat
  BY Numbers
<1>2. /\ IsFiniteSet(A) /\ Cardinality(A) <= number_of_threads
      /\ IsFiniteSet(B) /\ Cardinality(B) <= number_of_threads
      /\ Cardinality(B) = number_of_threads => B = Threads
  BY <1>1, FS_Subset
<1>3. Cardinality(A) \in Nat /\ Cardinality(B) \in Nat
  BY <1>2, FS_CardinalityType
<1>4. QED
  BY <1>1, <1>2, <1>3

(* What the counter counts.                                                *)
LEMMA Counts ==
    ASSUME NumberedThreads
    PROVE  /\ Twice \in SUBSET Threads /\ Once \in SUBSET Threads /\ Twice \subseteq Once
           /\ IsFiniteSet(Twice) /\ IsFiniteSet(Once)
           /\ Cardinality(Twice) \in Nat /\ Cardinality(Once) \in Nat
           /\ \A t \in Threads : pc[t] \notin Waiting => t \notin Twice /\ ~ AllAsleep
PROOF
<1>1. Twice \in SUBSET Threads /\ Once \in SUBSET Threads /\ Twice \subseteq Once
  BY DEF Twice, Once
<1>2. QED
  BY <1>1, BothFull DEF Twice, AllAsleep

(* A thread that others are waking stays where it is looking.              *)
LEMMA Awaited ==
    ASSUME NumberedThreads, FileInv, NEW t \in Threads, NEW u \in Threads, Wakes(u, t)
    PROVE  pc[t] \in Polling /\ Sw(t) = 3 /\ ~ AllAsleep /\ ~ Stops(t) /\ u # t
PROOF
<1>1. pc[t] \in Polling /\ Sw(t) = 3
  BY DEF FileInv, SwitchInv
<1>2. pc[u] \notin Waiting
  BY DEF Wakes, Waiting, Polling
<1>3. ~ AllAsleep
  BY <1>2, Counts
<1>4. QED
  BY <1>1, <1>2, <1>3 DEF FileInv, WaitInv, Waiting

(* What a thread does about its own switch, and one that wakes nobody,     *)
(* leaves everybody else as they were.                                     *)
LEMMA OwnNext ==
    ASSUME NumberedThreads, FileInv, NEW t \in Threads, Alone(t), Apart(t),
           pc[t] \notin {"decrement", "wake"}, pc'[t] \notin {"decrement", "wake"},
           SwitchOK(t)',
           pc[t] \in Polling /\ Sw(t) = 3 /\ ~ AllAsleep => Sw(t)' = 3 /\ pc'[t] \in Polling
    PROVE  /\ SwitchInv'
           /\ \A s \in Threads \ {t} : s \in Twice' <=> s \in Twice
           /\ t \in Twice' <=> /\ pc'[t] \in Waiting
                               /\ ~ (pc'[t] \in Polling /\ Sw(t)' = 0)
                               /\ ~ \E u \in Threads : pc[u] = "wake" /\ slot[u] = Own(t)
PROOF
<1>1. \A s, u \in Threads : Wakes(s, u)' <=> Wakes(s, u)
  BY DEF Alone, Apart, Wakes
<1>2. \A s \in Threads \ {t} : SwitchOK(s)' <=> SwitchOK(s)
  BY DEF Alone, Apart, SwitchOK
<1>3. \A s \in Threads : SwitchOK(s)'
  BY <1>2 DEF FileInv, SwitchInv
<1>4. ASSUME NEW s \in Threads, NEW u \in Threads, Wakes(s, u)
      PROVE  Sw(u)' = 3 /\ pc'[u] \in Polling
  <2>1. pc[u] \in Polling /\ Sw(u) = 3 /\ ~ AllAsleep
    BY <1>4, Awaited
  <2>2. QED
    BY <2>1 DEF Alone, Apart
<1>5. SwitchInv'
  <2>1. \A s, u \in Threads : Wakes(s, u)' => Sw(u)' = 3 /\ pc'[u] \in Polling
    BY <1>1, <1>4
  <2>2. \A q, s, u \in Threads : Wakes(q, u)' /\ Wakes(s, u)' => q = s
    BY <1>1 DEF FileInv, SwitchInv
  <2>3. QED
    BY <1>3, <2>1, <2>2 DEF SwitchInv
<1>6. \A u, s \in Threads : (pc'[u] = "wake" /\ slot'[u] = Own(s)) <=> (pc[u] = "wake" /\ slot[u] = Own(s))
  BY DEF Alone, Apart
<1>7. ASSUME NEW s \in Threads \ {t} PROVE s \in Twice' <=> s \in Twice
  <2>1. pc'[s] = pc[s] /\ Sw(s)' = Sw(s)
    BY DEF Alone, Apart
  <2>2. Woken(s)' <=> Woken(s)
    BY <1>6, <2>1 DEF Woken
  <2>3. QED
    BY <2>1, <2>2 DEF Twice
<1>8. t \in Twice' <=> /\ pc'[t] \in Waiting
                       /\ ~ (pc'[t] \in Polling /\ Sw(t)' = 0)
                       /\ ~ \E u \in Threads : pc[u] = "wake" /\ slot[u] = Own(t)
  BY <1>6 DEF Twice, Woken
<1>9. QED
  BY <1>5, <1>7, <1>8

(* Those who wait go on waiting when as many as before do.                 *)
LEMMA WaitKept ==
    ASSUME FileInv, NEW t \in Threads, Alone(t),
           t # MainThread,
           \A s \in Threads \ {t} : curr_value2'[s] = curr_value2[s],
           \A y \in pq' : y \in pq \/ y.by = t,
           Twice' = Twice, Once' = Once,
           threads_waiting_to_succeed' = threads_waiting_to_succeed,
           pc'[t] \in Waiting => MayFail(t)',
           Stops(t)' => AllAsleep
    PROVE  WaitInv'
PROOF
<1>1. threads_waiting_to_succeed' = Cardinality(Once') + Cardinality(Twice')
  BY DEF FileInv, WaitInv
<1>2. ASSUME NEW s \in Threads, pc'[s] \in Waiting PROVE MayFail(s)'
  <2>1. CASE s = t
    BY <1>2, <2>1
  <2>2. CASE s # t
    <3>1. MayFail(s)
      BY <1>2, <2>2 DEF Alone, FileInv, WaitInv
    <3>2. \A y \in pq' : y \in pq \/ y.by \notin {s, MainThread}
      BY <2>2
    <3>3. QED
      BY <3>1, <3>2 DEF MayFail
  <2>3. QED
    BY <2>1, <2>2
<1>3. \A s \in Threads \ {t} : Stops(s)' => Stops(s)
  BY DEF Alone, Stops
<1>4. \A s \in Threads : Stops(s)' => AllAsleep
  BY <1>3 DEF FileInv, WaitInv
<1>5. AllAsleep' <=> AllAsleep
  BY DEF AllAsleep
<1>6. QED
  BY <1>1, <1>2, <1>4, <1>5 DEF WaitInv

(* A step in which a thread moves from label to label, or takes a task, is *)
(* a step of the search.                                                   *)
LEMMA FileJump ==
    ASSUME FiniteGraphs, FileInv, NEW t \in Threads, NEW from, NEW to,
           \/ from \in Idling /\ to \in Idling
           \/ from \in Fresh /\ to \in Fresh
           \/ from \in Between /\ to \in Between,
           Jump(t, from, to)
    PROVE  /\ SearchInv' /\ Alone(t) /\ pc[t] = from /\ pc'[t] = to
           /\ pq' = pq /\ (MayFail(t)' <=> MayFail(t))
PROOF
<1>1. SearchInv'
  BY JumpNext DEF FileInv
<1>2. /\ pc[t] = from /\ pq' = pq /\ pc'[t] = to /\ Alone(t)
  BY DEF Jump, Goto, Alone, FileInv, SearchInv, Types
<1>3. QED
  BY <1>1, <1>2 DEF MayFail

(* A thread that is busy before and after a step which changes neither the *)
(* switches nor the counter.                                               *)
Busy == {"delete_min", "announce", "task", "edges", "cas", "push", "anyone", "notify", "claim"}
LEMMA BusyNext ==
    ASSUME NumberedThreads, FileInv, NEW t \in Threads, SearchInv', Alone(t),
           pc[t] \in Busy, pc'[t] \in Busy,
           threads_waiting_to_succeed' = threads_waiting_to_succeed,
           threads_wait_switches' = threads_wait_switches, curr_value2' = curr_value2,
           slot' \in [Threads -> Int], \A s \in Threads \ {t} : slot'[s] = slot[s],
           pc'[t] \in {"notify", "claim"} => slot'[t] >= ARRAY_PADDING,
           pc'[t] = "claim" => slot'[t] < number_of_threads,
           \A y \in pq' : y \in pq \/ y.by = t
    PROVE  FileInv'
PROOF
<1>1. /\ pc[t] \notin Waiting \union Announced \union {"decrement", "wake"}
      /\ pc'[t] \notin Waiting \union Announced \union {"decrement", "wake"}
      /\ pc[t] \notin Polling /\ pc'[t] \notin Polling
      /\ pc[t] \notin {"last_try", "uncount"} /\ pc'[t] \notin {"last_try", "uncount"}
  BY DEF Busy, Waiting, Polling, Announced
<1>2. Apart(t) /\ Sw(t)' = Sw(t)
  BY DEF Apart, Sw
<1>3. SwitchOK(t)'
  <2>1. SwitchOK(t)
    BY DEF FileInv, SwitchInv
  <2>2. Sw(t) \notin {2, 3}
    BY <1>1, <2>1 DEF SwitchOK, Waiting
  <2>3. QED
    BY <1>1, <1>2, <2>2 DEF SwitchOK
<1>4. WaitTypes'
  BY DEF FileInv, WaitTypes
<1>5. /\ SwitchInv' /\ \A s \in Threads \ {t} : s \in Twice' <=> s \in Twice
      /\ t \notin Twice' /\ t \notin Twice
  <2>1. t \notin Twice
    BY <1>1 DEF Twice
  <2>2. QED
    BY <1>1, <1>2, <1>3, <2>1, OwnNext
<1>6. Twice' = Twice
  BY <1>5 DEF Twice
<1>7. Once' = Once
  BY <1>1, <1>6 DEF Once, Alone
<1>8. ~ Stops(t)'
  BY <1>1 DEF Stops, Waiting
<1>9. t # MainThread
  BY Numbers
<1>10. WaitInv'
  BY <1>1, <1>6, <1>7, <1>8, <1>9, WaitKept
<1>11. QED
  BY <1>4, <1>5, <1>10 DEF FileInv

(* The steps of a thread that searches, and notifies others.               *)
LEMMA SearchingNext ==
    ASSUME FiniteGraphs, NumberedThreads, FileInv, NEW t \in Threads,
           delete_min(t) \/ delete_min_fails(t) \/ relax(t) \/ push(t)
    PROVE  FileInv'
PROOF
<1>1. /\ "delete_min" \in Idling /\ "announce" \in Idling /\ "task" \in Fresh
      /\ "push" \in Pushing /\ "anyone" \in Between
      /\ SearchInv /\ slot \in [Threads -> Int]
  BY DEF Idling, Fresh, Pushing, Between, FileInv, WaitTypes
<1>2. CASE delete_min(t)
  <2>1. take_task(t, "delete_min", "task") /\ UNCHANGED waitVars
    BY <1>2 DEF delete_min
  <2>2. /\ SearchInv' /\ Alone(t) /\ pc[t] = "delete_min" /\ pc'[t] = "task" /\ pq' \subseteq pq
    BY <1>1, <2>1, TakeNext
  <2>3. QED
    BY <1>1, <2>1, <2>2, BusyNext DEF Busy, waitVars
<1>3. CASE delete_min_fails(t)
  <2>1. Jump(t, "delete_min", "announce") /\ UNCHANGED waitVars
    BY <1>3 DEF delete_min_fails
  <2>2. SearchInv' /\ Alone(t) /\ pc[t] = "delete_min" /\ pc'[t] = "announce" /\ pq' = pq
    BY <1>1, <2>1, FileJump
  <2>3. QED
    BY <1>1, <2>1, <2>2, BusyNext DEF Busy, waitVars
<1>4. CASE relax(t)
  <2>1. /\ expand(t) \/ edge(t) \/ cas(t) \/ cas_fails(t)
              \/ outdated(t, "delete_min") \/ edges_done(t, "delete_min")
        /\ UNCHANGED waitVars
    BY <1>4 DEF relax
  <2>2. SearchInv'
    BY <1>1, <2>1, ExpandNext, EdgeNext, CasNext, CasFailsNext, OutdatedNext, EdgesDoneNext
  <2>3. /\ pc[t] \in {"task", "edges", "cas"} /\ pq' = pq
        /\ \E p \in {"delete_min", "edges", "cas", "push"} : \E l : Goto(t, p, l)
    <3>1. CASE outdated(t, "delete_min") \/ edges_done(t, "delete_min") \/ expand(t) \/ cas(t)
      BY <3>1 DEF outdated, edges_done, expand, cas
    <3>2. CASE edge(t)
      BY <3>2 DEF edge
    <3>3. CASE cas_fails(t)
      BY <3>3 DEF cas_fails
    <3>4. QED
      BY <2>1, <3>1, <3>2, <3>3
  <2>4. pc'[t] \in {"delete_min", "edges", "cas", "push"} /\ Alone(t)
    BY <1>1, <2>3 DEF Goto, Alone, SearchInv, Types
  <2>5. QED
    BY <1>1, <2>1, <2>2, <2>3, <2>4, BusyNext DEF Busy, waitVars
<1>5. CASE push(t)
  <2>1. insert(t, "push", "anyone") /\ slot' = slot
        /\ threads_waiting_to_succeed' = threads_waiting_to_succeed
        /\ threads_wait_switches' = threads_wait_switches /\ curr_value2' = curr_value2
    BY <1>5 DEF push
  <2>2. SearchInv' /\ \A y \in pq' : y \in pq \/ y.by = t
    BY <1>1, <2>1, InsertNext
  <2>3. pc[t] = "push" /\ pc'[t] = "anyone" /\ Alone(t)
    BY <1>1, <2>1 DEF insert, Goto, Alone, SearchInv, Types
  <2>4. QED
    BY <1>1, <2>1, <2>2, <2>3, BusyNext DEF Busy
<1>6. QED
  BY <1>2, <1>3, <1>4, <1>5

(* The loop over the switches, up to a compare-and-swap that fails.        *)
LEMMA NotifyNext ==
    ASSUME FiniteGraphs, NumberedThreads, FileInv, NEW t \in Threads,
           \/ anyone(t) \/ notified(t) \/ next_slot(t) \/ found_waiting(t)
           \/ claim(t) /\ threads_wait_switches[slot[t]] # 2
    PROVE  FileInv'
PROOF
<1>1. /\ {"anyone", "notify", "edges", "claim"} \subseteq Between
      /\ {"anyone", "notify", "edges", "claim"} \subseteq Busy
      /\ slot \in [Threads -> Int] /\ slot[t] \in Int
      /\ number_of_threads \in Nat \ {0} /\ ARRAY_PADDING \in Nat
  BY Numbers DEF Between, Busy, FileInv, WaitTypes
<1>2. pc[t] \in {"notify", "claim"} => slot[t] >= ARRAY_PADDING
  BY DEF FileInv, SwitchInv, SwitchOK
<1>3. /\ threads_waiting_to_succeed' = threads_waiting_to_succeed
      /\ threads_wait_switches' = threads_wait_switches /\ curr_value2' = curr_value2
      /\ slot' \in [Threads -> Int] /\ \A s \in Threads \ {t} : slot'[s] = slot[s]
  BY <1>1 DEF anyone, notified, next_slot, found_waiting, claim, waitVars
<1>4. PICK from \in {"anyone", "notify", "claim"}, to \in {"notify", "edges", "claim"} :
          /\ Jump(t, from, to)
          /\ to \in {"notify", "claim"} => slot'[t] >= ARRAY_PADDING
          /\ to = "claim" => slot'[t] < number_of_threads
  <2>1. CASE anyone(t)
    <3>1. CASE threads_waiting_to_succeed > 0
      <4>1. Jump(t, "anyone", "notify") /\ slot'[t] = ARRAY_PADDING
        BY <1>1, <2>1, <3>1 DEF anyone
      <4>2. QED
        BY <1>1, <4>1
    <3>2. CASE ~ (threads_waiting_to_succeed > 0)
      <4>1. Jump(t, "anyone", "edges")
        BY <2>1, <3>2 DEF anyone
      <4>2. QED
        BY <4>1
    <3>3. QED
      BY <3>1, <3>2
  <2>2. CASE notified(t)
    <3>1. Jump(t, "notify", "edges")
      BY <2>2 DEF notified
    <3>2. QED
      BY <3>1
  <2>3. CASE next_slot(t)
    <3>1. Jump(t, "notify", "notify") /\ slot'[t] = slot[t] + 1 /\ pc[t] = "notify"
      BY <1>1, <2>3 DEF next_slot, Jump
    <3>2. slot'[t] >= ARRAY_PADDING
      BY <1>1, <1>2, <3>1
    <3>3. QED
      BY <3>1, <3>2
  <2>4. CASE found_waiting(t)
    <3>1. /\ Jump(t, "notify", "claim") /\ slot'[t] = slot[t] /\ pc[t] = "notify"
          /\ slot[t] < number_of_threads
      BY <2>4 DEF found_waiting, Jump, Notifying, waitVars
    <3>2. QED
      BY <1>2, <3>1
  <2>5. CASE claim(t) /\ threads_wait_switches[slot[t]] # 2
    <3>1. Jump(t, "claim", "notify") /\ slot'[t] = slot[t] /\ pc[t] = "claim"
      BY <2>5 DEF claim, Jump
    <3>2. QED
      BY <1>2, <3>1
  <2>6. QED
    BY <2>1, <2>2, <2>3, <2>4, <2>5
<1>5. from \in Between /\ to \in Between
  BY <1>1
<1>6. SearchInv' /\ Alone(t) /\ pc[t] = from /\ pc'[t] = to /\ pq' = pq
  BY <1>4, <1>5, FileJump
<1>7. pc[t] \in Busy /\ pc'[t] \in Busy
  BY <1>1, <1>6
<1>8. QED
  BY <1>3, <1>4, <1>6, <1>7, BusyNext

(* A thread sets its own switch.                                           *)
LEMMA SwitchSet ==
    ASSUME NumberedThreads, WaitTypes, NEW t \in Threads, NEW n \in 0 .. 3, Switch(t, n)
    PROVE  /\ threads_wait_switches' \in [Switches -> 0 .. 3]
           /\ Sw(t)' = n /\ \A s \in Threads \ {t} : Sw(s)' = Sw(s)
PROOF
<1>1. /\ threads_wait_switches \in [Switches -> 0 .. 3] /\ Own(t) \in Switches
      /\ threads_wait_switches' = [threads_wait_switches EXCEPT ![Own(t)] = n]
      /\ \A s \in Threads \ {t} : Own(s) # Own(t) /\ Own(s) \in Switches
  BY Numbers DEF WaitTypes, Switch
<1>2. QED
  BY <1>1 DEF Sw

(* A step with which a thread goes on waiting, or begins or ends it, and   *)
(* leaves the counter alone.                                               *)
Looking(t, p, n) == p \in Waiting /\ ~ (p \in Polling /\ n = 0)
LEMMA QuietNext ==
    ASSUME NumberedThreads, FileInv, NEW t \in Threads, SearchInv', Alone(t), Apart(t), WaitTypes',
           pc[t] \notin {"decrement", "wake"}, pc'[t] \notin {"decrement", "wake"},
           SwitchOK(t)',
           pc[t] \in Polling /\ Sw(t) = 3 /\ ~ AllAsleep => Sw(t)' = 3 /\ pc'[t] \in Polling,
           Looking(t, pc'[t], Sw(t)') <=> Looking(t, pc[t], Sw(t)),
           pc'[t] \in {"last_try", "uncount"} <=> pc[t] \in {"last_try", "uncount"},
           threads_waiting_to_succeed' = threads_waiting_to_succeed,
           pq' \subseteq pq,
           pc'[t] \in Waiting => MayFail(t)',
           Stops(t)' => AllAsleep
    PROVE  FileInv'
PROOF
<1>1. /\ SwitchInv' /\ \A s \in Threads \ {t} : s \in Twice' <=> s \in Twice
      /\ t \in Twice' <=> t \in Twice
  <2>1. t \in Twice <=> /\ Looking(t, pc[t], Sw(t))
                        /\ ~ \E u \in Threads : pc[u] = "wake" /\ slot[u] = Own(t)
    BY DEF Twice, Woken, Looking
  <2>2. QED
    BY <2>1, OwnNext DEF Looking
<1>2. Twice' = Twice
  BY <1>1 DEF Twice
<1>3. Once' = Once
  BY <1>2 DEF Once, Alone
<1>4. t # MainThread /\ \A s \in Threads \ {t} : curr_value2'[s] = curr_value2[s]
  BY Numbers DEF Apart
<1>5. WaitInv'
  BY <1>2, <1>3, <1>4, WaitKept
<1>6. QED
  BY <1>1, <1>5 DEF FileInv

(* announce, last_try, reset: the thread does not wait yet, or no longer.  *)
LEMMA AnnounceNext ==
    ASSUME FiniteGraphs, NumberedThreads, FileInv, NEW t \in Threads,
           announce(t) \/ last_try(t) \/ reset(t)
    PROVE  FileInv'
PROOF
<1>1. /\ {"announce", "count", "last_try"} \subseteq Idling
      /\ {"uncount", "reset", "task"} \subseteq Fresh
      /\ {"count", "last_try", "uncount", "reset"} \subseteq Announced
      /\ \A p \in {"announce", "count", "last_try", "uncount", "reset", "task"} :
             p \notin Waiting /\ p \notin Polling
      /\ {"announce", "task"} \intersect Announced = {}
  BY DEF Idling, Fresh, Waiting, Polling, Announced
<1>2. /\ SearchInv' /\ Alone(t) /\ pq' \subseteq pq
      /\ \/ announce(t) /\ pc[t] = "announce" /\ pc'[t] = "count"
         \/ last_try(t) /\ pc[t] = "last_try" /\ pc'[t] = "uncount"
         \/ reset(t) /\ pc[t] = "reset" /\ pc'[t] = "task"
  <2>1. CASE announce(t)
    BY <1>1, <2>1, FileJump DEF announce
  <2>2. CASE last_try(t)
    <3>1. take_task(t, "last_try", "uncount")
      BY <2>2 DEF last_try
    <3>2. QED
      BY <1>1, <2>2, <3>1, TakeNext DEF FileInv
  <2>3. CASE reset(t)
    BY <1>1, <2>3, FileJump DEF reset
  <2>4. QED
    BY <2>1, <2>2, <2>3
<1>3. /\ WaitTypes' /\ Apart(t) /\ threads_waiting_to_succeed' = threads_waiting_to_succeed
      /\ announce(t) => Sw(t)' = 1
      /\ reset(t) => Sw(t)' = 0
      /\ last_try(t) => Sw(t)' = Sw(t)
  <2>1. /\ slot' = slot /\ curr_value2' = curr_value2
        /\ threads_waiting_to_succeed' = threads_waiting_to_succeed
    BY <1>2 DEF announce, last_try, reset, waitVars
  <2>2. CASE announce(t)
    <3>1. Switch(t, 1) /\ 1 \in 0 .. 3 /\ ~ reset(t) /\ ~ last_try(t)
      BY <1>2, <2>2 DEF announce, reset, last_try, Jump, take_task
    <3>2. QED
      BY <2>1, <3>1, SwitchSet DEF FileInv, WaitTypes, Apart
  <2>3. CASE reset(t)
    <3>1. Switch(t, 0) /\ 0 \in 0 .. 3 /\ ~ announce(t) /\ ~ last_try(t)
      BY <1>2, <2>3 DEF announce, reset, last_try, Jump, take_task
    <3>2. QED
      BY <2>1, <3>1, SwitchSet DEF FileInv, WaitTypes, Apart
  <2>4. CASE last_try(t)
    <3>1. threads_wait_switches' = threads_wait_switches /\ ~ announce(t) /\ ~ reset(t)
      BY <1>2, <2>4 DEF announce, reset, last_try, Jump, take_task, waitVars
    <3>2. QED
      BY <2>1, <3>1 DEF FileInv, WaitTypes, Apart, Sw
  <2>5. QED
    BY <1>2, <2>2, <2>3, <2>4
<1>4. SwitchOK(t)'
  <2>1. pc[t] = "last_try" => Sw(t) = 1
    BY <1>1 DEF FileInv, SwitchInv, SwitchOK
  <2>2. pc'[t] \notin {"notify", "claim", "decrement", "wake"}
    BY <1>2
  <2>3. Sw(t)' \notin {2, 3} /\ (pc'[t] \in Announced => Sw(t)' = 1) /\ pc'[t] \notin Polling
    BY <1>1, <1>2, <1>3, <2>1
  <2>4. QED
    BY <2>2, <2>3 DEF SwitchOK
<1>5. /\ pc[t] \notin Waiting /\ pc'[t] \notin Waiting /\ pc[t] \notin Polling
      /\ pc[t] \notin {"decrement", "wake"} /\ pc'[t] \notin {"decrement", "wake"}
      /\ pc'[t] \in {"last_try", "uncount"} <=> pc[t] \in {"last_try", "uncount"}
  BY <1>1, <1>2
<1>6. ~ Stops(t)' /\ (Looking(t, pc'[t], Sw(t)') <=> Looking(t, pc[t], Sw(t)))
  BY <1>5 DEF Stops, Looking, Waiting
<1>7. QED
  BY <1>2, <1>3, <1>4, <1>5, <1>6, QuietNext, SMTT(60)

(* sleep, wait, poll, reread: the thread waits.                            *)
LEMMA PollingNext ==
    ASSUME FiniteGraphs, NumberedThreads, FileInv, NEW t \in Threads,
           sleep(t) \/ wait(t) \/ poll(t) \/ reread(t)
    PROVE  FileInv'
PROOF
<1>1. /\ {"sleep", "wait", "poll", "reread", "done", "delete_min"} \subseteq Idling
      /\ {"wait", "poll", "reread"} \subseteq Polling /\ "sleep" \notin Polling
      /\ {"sleep", "wait", "poll", "reread", "done"} \subseteq Waiting
      /\ "done" \notin Polling /\ "delete_min" \notin Polling /\ "delete_min" \notin Waiting
      /\ {"wait", "poll", "reread", "done", "delete_min"} \intersect Announced = {}
      /\ "sleep" \in Announced
  BY DEF Idling, Waiting, Polling, Announced
<1>2. /\ slot' = slot /\ threads_waiting_to_succeed' = threads_waiting_to_succeed
      /\ SwitchOK(t) /\ WaitTypes
      /\ pc[t] \in Waiting => MayFail(t)
      /\ Stops(t) => AllAsleep
  BY DEF sleep, wait, poll, reread, waitVars, FileInv, SwitchInv, WaitInv
<1>3. CASE sleep(t)
  <2>1. /\ SearchInv' /\ Alone(t) /\ pc[t] = "sleep" /\ pc'[t] = "wait" /\ pq' = pq
        /\ MayFail(t)' <=> MayFail(t)
    BY <1>1, <1>3, FileJump DEF sleep
  <2>2. Switch(t, 2) /\ 2 \in 0 .. 3 /\ curr_value2' = curr_value2
    BY <1>3 DEF sleep
  <2>3. /\ threads_wait_switches' \in [Switches -> 0 .. 3]
        /\ Sw(t)' = 2 /\ \A s \in Threads \ {t} : Sw(s)' = Sw(s)
    BY <1>2, <2>2, SwitchSet
  <2>4. WaitTypes' /\ Apart(t)
    BY <1>2, <2>2, <2>3 DEF WaitTypes, Apart
  <2>5. SwitchOK(t)'
    BY <1>1, <2>1, <2>3 DEF SwitchOK
  <2>6. Stops(t)' => AllAsleep
    BY <1>1, <1>2, <2>1, <2>2 DEF Stops
  <2>7. Looking(t, pc'[t], Sw(t)') /\ Looking(t, pc[t], Sw(t))
    BY <1>1, <2>1, <2>3 DEF Looking
  <2>8. pc[t] \notin Polling /\ MayFail(t)'
    BY <1>1, <1>2, <2>1
  <2>9. QED
    BY <1>2, <2>1, <2>4, <2>5, <2>6, <2>7, <2>8, QuietNext, SMTT(60)
<1>4. CASE wait(t)
  <2> DEFINE to == IF curr_value2[t] = 2 * number_of_threads THEN "done" ELSE "poll"
  <2>1. Jump(t, "wait", to) /\ UNCHANGED waitVars
    BY <1>4 DEF wait
  <2>2. /\ to \in {"done", "poll"} /\ to \in Idling /\ "wait" \in Idling
        /\ to = "done" => curr_value2[t] = 2 * number_of_threads
    BY <1>1
  <2> HIDE DEF to
  <2>3. SearchInv' /\ Alone(t) /\ pc[t] = "wait" /\ pc'[t] = to /\ pq' = pq /\ (MayFail(t)' <=> MayFail(t))
    BY <2>1, <2>2, FileJump
  <2>4. /\ WaitTypes' /\ Apart(t) /\ Sw(t)' = Sw(t) /\ curr_value2' = curr_value2
    BY <1>2, <2>1 DEF waitVars, WaitTypes, Apart, Sw
  <2>5. to = "done" => Stops(t) /\ AllAsleep
    BY <1>1, <1>2, <2>2, <2>3 DEF Stops
  <2>6. SwitchOK(t)'
    BY <1>1, <1>2, <2>2, <2>3, <2>4 DEF SwitchOK
  <2>7. Stops(t)' => AllAsleep
    BY <1>1, <1>2, <2>2, <2>3, <2>4, <2>5 DEF Stops
  <2>8. Looking(t, pc'[t], Sw(t)') <=> Looking(t, pc[t], Sw(t))
    <3>1. CASE to = "poll"
      BY <1>1, <2>3, <2>4, <3>1 DEF Looking
    <3>2. CASE to = "done"
      <4>1. ~ Woken(t)
        BY <2>5, <3>2 DEF AllAsleep, Twice
      <4>2. QED
        BY <1>1, <2>3, <3>2, <4>1 DEF Looking, Woken
    <3>3. QED
      BY <2>2, <3>1, <3>2
  <2>9. pc[t] \in Polling /\ Sw(t) = 3 /\ ~ AllAsleep => Sw(t)' = 3 /\ pc'[t] \in Polling
    BY <1>1, <2>2, <2>3, <2>4, <2>5
  <2>10. MayFail(t)'
    BY <1>1, <1>2, <2>3
  <2>11. pc'[t] \notin {"decrement", "wake"} /\ pc'[t] \notin {"last_try", "uncount"}
    BY <2>2, <2>3
  <2>12. QED
    BY <1>2, <2>3, <2>4, <2>6, <2>7, <2>8, <2>9, <2>10, <2>11, QuietNext, SMTT(60)
<1>5. CASE poll(t)
  <2>1. /\ threads_wait_switches' = threads_wait_switches
        /\ \/ Sw(t) = 0 /\ Jump(t, "poll", "delete_min") /\ curr_value2' = [curr_value2 EXCEPT ![t] = 0]
           \/ Sw(t) # 0 /\ Jump(t, "poll", "reread") /\ curr_value2' = curr_value2
    BY <1>5 DEF poll, Sw
  <2>2. /\ SearchInv' /\ Alone(t) /\ pc[t] = "poll" /\ pq' = pq /\ (MayFail(t)' <=> MayFail(t))
        /\ \/ Sw(t) = 0 /\ pc'[t] = "delete_min"
           \/ Sw(t) # 0 /\ pc'[t] = "reread" /\ curr_value2' = curr_value2
    BY <1>1, <2>1, FileJump
  <2>3. /\ WaitTypes' /\ Apart(t) /\ Sw(t)' = Sw(t)
    BY <1>2, <2>1 DEF WaitTypes, Apart, Sw
  <2>4. SwitchOK(t)'
    BY <1>1, <1>2, <2>2, <2>3 DEF SwitchOK
  <2>5. Stops(t)' => AllAsleep
    BY <1>1, <1>2, <2>2 DEF Stops
  <2>6. Looking(t, pc'[t], Sw(t)') <=> Looking(t, pc[t], Sw(t))
    BY <1>1, <2>2, <2>3 DEF Looking
  <2>7. pc[t] \in Polling /\ Sw(t) = 3 /\ ~ AllAsleep => Sw(t)' = 3 /\ pc'[t] \in Polling
    BY <1>1, <2>2, <2>3
  <2>8. MayFail(t)'
    BY <1>1, <1>2, <2>2
  <2>9. pc'[t] \notin {"decrement", "wake"} /\ pc'[t] \notin {"last_try", "uncount"}
    BY <2>2
  <2>10. QED
    BY <1>2, <2>2, <2>3, <2>4, <2>5, <2>6, <2>7, <2>8, <2>9, QuietNext, SMTT(60)
<1>6. CASE reread(t)
  <2>1. /\ threads_wait_switches' = threads_wait_switches /\ Jump(t, "reread", "wait")
        /\ curr_value2' = [curr_value2 EXCEPT ![t] = threads_waiting_to_succeed]
    BY <1>6 DEF reread
  <2>2. /\ SearchInv' /\ Alone(t) /\ pc[t] = "reread" /\ pc'[t] = "wait" /\ pq' = pq
        /\ (MayFail(t)' <=> MayFail(t))
    BY <1>1, <2>1, FileJump
  <2>3. /\ WaitTypes' /\ Apart(t) /\ Sw(t)' = Sw(t) /\ curr_value2'[t] = threads_waiting_to_succeed
    BY <1>2, <2>1 DEF WaitTypes, Apart, Sw
  <2>4. SwitchOK(t)'
    BY <1>1, <1>2, <2>2, <2>3 DEF SwitchOK
  <2>5. Stops(t)' => AllAsleep
    <3>1. Stops(t)' => Cardinality(Once) + Cardinality(Twice) = 2 * number_of_threads
      BY <2>2, <2>3 DEF Stops, FileInv, WaitInv
    <3>2. QED
      BY <3>1, Counts, BothFull DEF AllAsleep
  <2>6. Looking(t, pc'[t], Sw(t)') <=> Looking(t, pc[t], Sw(t))
    BY <1>1, <2>2, <2>3 DEF Looking
  <2>7. /\ pc[t] \in Polling /\ Sw(t) = 3 /\ ~ AllAsleep => Sw(t)' = 3 /\ pc'[t] \in Polling
        /\ MayFail(t)'
    BY <1>1, <1>2, <2>2, <2>3
  <2>8. QED
    BY <1>2, <2>2, <2>3, <2>4, <2>5, <2>6, <2>7, QuietNext, SMTT(60)
<1>7. QED
  BY <1>3, <1>4, <1>5, <1>6

(* Nobody has read the maximum of the counter while one does not wait.     *)
LEMMA AwakeNext ==
    ASSUME NumberedThreads, FileInv, NEW t \in Threads, Alone(t), pc[t] \notin Waiting, pq' = pq,
           \A s \in Threads \ {t} : curr_value2'[s] = curr_value2[s],
           threads_waiting_to_succeed' = Cardinality(Once') + Cardinality(Twice'),
           pc'[t] \in Waiting => MayFail(t),
           Stops(t)' => AllAsleep'
    PROVE  WaitInv'
PROOF
<1>1. \A s \in Threads : ~ Stops(s)
  BY Counts DEF FileInv, WaitInv
<1>2. \A s \in Threads : Stops(s)' => AllAsleep'
  BY <1>1 DEF Alone, Stops
<1>3. \A s \in Threads : pc'[s] \in Waiting => MayFail(s)'
  BY DEF Alone, FileInv, WaitInv, MayFail
<1>4. QED
  BY <1>2, <1>3 DEF WaitInv

(* count, uncount, the last delete_min that fails: the counter follows.    *)
LEMMA CounterNext ==
    ASSUME FiniteGraphs, NumberedThreads, FileInv, NEW t \in Threads,
           count(t) \/ uncount(t) \/ last_try_fails(t)
    PROVE  FileInv'
PROOF
<1>1. /\ {"count", "last_try", "sleep"} \subseteq Idling /\ {"uncount", "reset"} \subseteq Fresh
      /\ {"count", "last_try", "uncount", "reset", "sleep"} \subseteq Announced
      /\ {"count", "last_try", "uncount", "reset", "sleep"} \intersect Polling = {}
      /\ {"count", "last_try", "uncount", "reset"} \intersect Waiting = {}
      /\ "sleep" \in Waiting
  BY DEF Idling, Fresh, Announced, Waiting, Polling
<1> DEFINE Moves(from, to) ==
        /\ Jump(t, from, to) 
        /\ \/ from \in Idling /\ to \in Idling
           \/ from \in Fresh /\ to \in Fresh
        /\ \/ from = "count" /\ to = "last_try" /\ count(t)
           \/ from = "uncount" /\ to = "reset" /\ uncount(t)
           \/ from = "last_try" /\ to = "sleep" /\ last_try_fails(t)
<1>2. PICK from \in {"count", "last_try", "uncount"}, to \in {"last_try", "sleep", "reset"} :
          Moves(from, to)
  <2>1. CASE count(t)
    <3>1. Jump(t, "count", "last_try")
      BY <2>1 DEF count
    <3>2. "count" \in Idling /\ "last_try" \in Idling
      BY <1>1
    <3>3. Moves("count", "last_try")
      BY <2>1, <3>1, <3>2
    <3> HIDE DEF Moves
    <3>4. QED
      BY <3>3
  <2>2. CASE uncount(t)
    <3>1. Jump(t, "uncount", "reset")
      BY <2>2 DEF uncount
    <3>2. "uncount" \in Fresh /\ "reset" \in Fresh
      BY <1>1
    <3>3. QED
      BY <2>2, <3>1, <3>2
  <2>3. CASE last_try_fails(t)
    <3>1. Jump(t, "last_try", "sleep")
      BY <2>3 DEF last_try_fails
    <3>2. "last_try" \in Idling /\ "sleep" \in Idling
      BY <1>1
    <3>3. Moves("last_try", "sleep")
      BY <2>3, <3>1, <3>2
    <3> HIDE DEF Moves
    <3>4. QED
      BY <3>3
  <2>4. QED
    BY <2>1, <2>2, <2>3
<1>3. SearchInv' /\ Alone(t) /\ pc[t] = from /\ pc'[t] = to /\ pq' = pq
  BY <1>2, FileJump
<1>4. /\ threads_wait_switches' = threads_wait_switches /\ slot' = slot
      /\ curr_value2' \in [Threads -> Int]
      /\ \A s \in Threads \ {t} : curr_value2'[s] = curr_value2[s]
      /\ threads_waiting_to_succeed \in Nat
  BY <1>2 DEF count, uncount, last_try_fails, FileInv, WaitTypes
<1>5. Apart(t) /\ Sw(t)' = Sw(t) /\ Sw(t) = 1
  BY <1>1, <1>3, <1>4 DEF Apart, Sw, FileInv, SwitchInv, SwitchOK
<1>6. SwitchOK(t)'
  BY <1>1, <1>3, <1>5 DEF SwitchOK
<1>7. pc[t] \notin Waiting /\ pc[t] \notin {"decrement", "wake"} /\ pc'[t] \notin {"decrement", "wake"}
  BY <1>1, <1>2, <1>3
<1>8. ~ \E u \in Threads : pc[u] = "wake" /\ slot[u] = Own(t)
  <2>1. \A u \in Threads : ~ Wakes(u, t)
    BY <1>5, Awaited
  <2>2. QED
    BY <2>1 DEF Wakes
<1>9. /\ SwitchInv' /\ \A s \in Threads \ {t} : s \in Twice' <=> s \in Twice
      /\ t \in Twice' <=> to = "sleep"
  <2>1. t \in Twice' <=> pc'[t] \in Waiting /\ ~ (pc'[t] \in Polling /\ Sw(t)' = 0)
    BY <1>3, <1>5, <1>6, <1>7, <1>8, OwnNext
  <2>2. /\ SwitchInv' /\ \A s \in Threads \ {t} : s \in Twice' <=> s \in Twice
    BY <1>3, <1>5, <1>6, <1>7, OwnNext
  <2>3. QED
    BY <1>1, <1>2, <1>3, <2>1, <2>2
<1>10. /\ Twice \in SUBSET Threads /\ Once \in SUBSET Threads
       /\ Twice' \in SUBSET Threads /\ Once' \in SUBSET Threads
       /\ IsFiniteSet(Twice) /\ IsFiniteSet(Once)
       /\ Cardinality(Twice) \in Nat /\ Cardinality(Once) \in Nat
       /\ t \notin Twice /\ ~ AllAsleep
       /\ threads_waiting_to_succeed = Cardinality(Once) + Cardinality(Twice)
  BY <1>7, Counts DEF Once, Twice, FileInv, WaitInv
<1>11. \A s \in Threads \ {t} : s \in Once' <=> s \in Once
  BY <1>3, <1>9 DEF Once, Alone
<1>12. /\ t \in Once' <=> to \in {"sleep", "last_try"}
       /\ t \in Once <=> from \in {"last_try", "uncount"}
  BY <1>2, <1>3, <1>9, <1>10 DEF Once
<1>13. /\ threads_waiting_to_succeed' = Cardinality(Once') + Cardinality(Twice')
       /\ threads_waiting_to_succeed' \in Nat
  <2>1. CASE to = "last_try"
    <3>1. /\ \A s \in Threads : s \in Twice' <=> s \in Twice
          /\ t \in Once' /\ t \notin Once
      BY <1>2, <1>9, <1>10, <1>12, <2>1
    <3>2. Twice' = Twice /\ Once' = Once \union {t}
      BY <1>10, <1>11, <3>1
    <3>3. Cardinality(Once') = Cardinality(Once) + 1
      BY <1>10, <3>1, <3>2, FS_AddElement
    <3>4. threads_waiting_to_succeed' = threads_waiting_to_succeed + 1
      BY <1>2, <2>1 DEF count, Count
    <3>5. QED
      BY <1>10, <3>2, <3>3, <3>4
  <2>2. CASE to = "reset"
    <3>1. Twice' = Twice /\ Once' = Once \ {t} /\ t \in Once
      BY <1>2, <1>9, <1>10, <1>11, <1>12, <2>2
    <3>2. Cardinality(Once') = Cardinality(Once) - 1 /\ IsFiniteSet(Once')
      BY <1>10, <3>1, FS_RemoveElement
    <3>3. Cardinality(Once') \in Nat
      BY <3>2, FS_CardinalityType
    <3>4. threads_waiting_to_succeed' = threads_waiting_to_succeed + (-1)
      BY <1>2, <2>2 DEF uncount, Count
    <3>5. QED
      BY <1>10, <3>1, <3>2, <3>3, <3>4
  <2>3. CASE to = "sleep"
    <3>1. Twice' = Twice \union {t} /\ Once' = Once
      BY <1>2, <1>9, <1>10, <1>11, <1>12, <2>3
    <3>2. Cardinality(Twice') = Cardinality(Twice) + 1
      BY <1>10, <3>1, FS_AddElement
    <3>3. threads_waiting_to_succeed' = threads_waiting_to_succeed + 1
      BY <1>2, <2>3 DEF last_try_fails, Count
    <3>4. QED
      BY <1>10, <3>1, <3>2, <3>3
  <2>4. QED
    BY <2>1, <2>2, <2>3
<1>14. WaitTypes'
  BY <1>4, <1>13 DEF FileInv, WaitTypes
<1>15. ASSUME Stops(t)' PROVE AllAsleep'
  <2>1. to = "sleep"
    BY <1>1, <1>2, <1>3, <1>15 DEF Stops, Waiting
  <2>2. /\ curr_value2'[t] = threads_waiting_to_succeed + 1
        /\ threads_waiting_to_succeed' = threads_waiting_to_succeed + 1
    BY <1>2, <2>1 DEF last_try_fails, Count, FileInv, WaitTypes
  <2>3. Cardinality(Once') + Cardinality(Twice') = 2 * number_of_threads
    BY <1>3, <1>13, <1>15, <2>1, <2>2 DEF Stops
  <2>4. QED
    BY <1>10, <2>3, BothFull DEF AllAsleep
<1>16. pc'[t] \in Waiting => MayFail(t)
  BY <1>1, <1>2, <1>3 DEF last_try_fails
<1>17. WaitInv'
  BY <1>3, <1>4, <1>7, <1>13, <1>15, <1>16, AwakeNext
<1>18. QED
  BY <1>3, <1>9, <1>14, <1>17 DEF FileInv

(* A thread that wakes another one subtracts 2 from the counter, for it.   *)
LEMMA WakingNext ==
    ASSUME FiniteGraphs, NumberedThreads, FileInv, NEW t \in Threads,
           (claim(t) /\ threads_wait_switches[slot[t]] = 2) \/ decrement(t) \/ wake(t)
    PROVE  FileInv'
PROOF
<1>1. /\ {"claim", "decrement", "wake", "notify"} \subseteq Between
      /\ {"claim", "decrement", "wake", "notify"} \intersect
             (Waiting \union Polling \union Announced \union {"last_try", "uncount"}) = {}
      /\ Polling \intersect (Announced \union {"notify", "claim", "decrement", "wake"}) = {}
      /\ Polling \subseteq Waiting
  BY DEF Between, Waiting, Polling, Announced
<1>2. PICK from \in {"claim", "decrement", "wake"}, to \in {"decrement", "wake", "notify"} :
          /\ Jump(t, from, to)
          /\ \/ from = "claim" /\ to = "decrement" /\ claim(t) /\ threads_wait_switches[slot[t]] = 2
             \/ from = "decrement" /\ to = "wake" /\ decrement(t)
             \/ from = "wake" /\ to = "notify" /\ wake(t)
  BY DEF claim, decrement, wake
<1>3. SearchInv' /\ Alone(t) /\ pc[t] = from /\ pc'[t] = to /\ pq' = pq
  BY <1>1, <1>2, FileJump
<1>4. /\ slot' = slot /\ curr_value2' = curr_value2
      /\ slot[t] \in Int /\ slot[t] >= ARRAY_PADDING /\ slot[t] < number_of_threads
  BY <1>2, <1>3 DEF claim, decrement, wake, FileInv, WaitTypes, SwitchInv, SwitchOK
<1>5. PICK u \in Threads : Own(u) = slot[t]
  BY <1>4, Numbers
<1>6. pc[t] \notin Waiting /\ ~ AllAsleep /\ \A s \in Threads : ~ Stops(s)
  BY <1>1, <1>2, <1>3, Counts DEF FileInv, WaitInv
<1>7. pc[u] \in Polling /\ u # t /\ Sw(u) = IF from = "claim" THEN 2 ELSE 3
  <2>1. CASE from = "claim"
    <3>1. Sw(u) = 2
      BY <1>2, <1>5, <2>1 DEF Sw
    <3>2. pc[u] \in Polling \union {"done"}
      BY <3>1 DEF FileInv, SwitchInv, SwitchOK
    <3>3. pc[u] # "done"
      BY <1>6 DEF Stops
    <3>4. QED
      BY <1>1, <1>3, <2>1, <3>1, <3>2, <3>3
  <2>2. CASE from # "claim"
    <3>1. Wakes(t, u)
      BY <1>2, <1>3, <1>5, <2>2 DEF Wakes
    <3>2. QED
      BY <2>2, <3>1, Awaited
  <2>3. QED
    BY <2>1, <2>2
<1>8. /\ threads_wait_switches' \in [Switches -> 0 .. 3]
      /\ \A s \in Threads \ {u} : Sw(s)' = Sw(s)
      /\ Sw(u)' = IF from = "wake" THEN 0 ELSE 3
  <2>1. /\ threads_wait_switches \in [Switches -> 0 .. 3] /\ Own(u) \in Switches
        /\ \A s \in Threads \ {u} : Own(s) # Own(u) /\ Own(s) \in Switches
    BY Numbers DEF FileInv, WaitTypes
  <2>2. CASE from = "claim"
    <3>1. threads_wait_switches' = [threads_wait_switches EXCEPT ![Own(u)] = 3]
      BY <1>2, <1>5, <2>2 DEF claim
    <3>2. QED
      BY <2>1, <2>2, <3>1 DEF Sw
  <2>3. CASE from = "decrement"
    <3>1. threads_wait_switches' = threads_wait_switches
      BY <1>2, <2>3 DEF decrement
    <3>2. QED
      BY <1>7, <2>1, <2>3, <3>1 DEF Sw
  <2>4. CASE from = "wake"
    <3>1. threads_wait_switches' = [threads_wait_switches EXCEPT ![Own(u)] = 0]
      BY <1>2, <1>5, <2>4 DEF wake
    <3>2. QED
      BY <2>1, <2>4, <3>1 DEF Sw
  <2>5. QED
    BY <2>2, <2>3, <2>4
<1>9. /\ \A s, x \in Threads : s # t => (Wakes(s, x)' <=> Wakes(s, x))
      /\ \A x \in Threads : Wakes(t, x)' => x = u
      /\ \A x \in Threads : Wakes(t, x) => x = u
      /\ to # "notify" <=> Wakes(t, u)'
      /\ from # "claim" <=> Wakes(t, u)
  BY <1>2, <1>3, <1>4, <1>5, Numbers DEF Wakes, Alone
<1>10. \A s \in Threads \ {t} : ~ Wakes(s, u)
  <2>1. \A s \in Threads : Wakes(s, u) => Sw(u) = 3
    BY DEF FileInv, SwitchInv
  <2>2. from # "claim" => \A s \in Threads : Wakes(s, u) => s = t
    BY <1>9 DEF FileInv, SwitchInv
  <2>3. QED
    BY <1>7, <2>1, <2>2
<1>11. SwitchInv'
  <2>1. ASSUME NEW s \in Threads PROVE SwitchOK(s)'
    <3>1. SwitchOK(s)
      BY DEF FileInv, SwitchInv
    <3>2. CASE s = t
      <4>1. Sw(t) \notin {2, 3} /\ Sw(t)' = Sw(t)
        BY <1>1, <1>3, <1>6, <1>7, <1>8, <3>1, <3>2 DEF SwitchOK, Waiting
      <4>2. QED
        BY <1>1, <1>3, <1>4, <3>2, <4>1 DEF SwitchOK
    <3>3. CASE s = u
      <4>1. pc'[u] \in Polling /\ Sw(u)' # 1
        BY <1>3, <1>7, <1>8 DEF Alone
      <4>2. QED
        BY <1>1, <3>3, <4>1 DEF SwitchOK
    <3>4. CASE s # t /\ s # u
      BY <1>3, <1>4, <1>8, <3>1, <3>4 DEF SwitchOK, Alone
    <3>5. QED
      BY <3>2, <3>3, <3>4
  <2>2. ASSUME NEW s \in Threads, NEW x \in Threads, Wakes(s, x)'
        PROVE  Sw(x)' = 3 /\ pc'[x] \in Polling
    <3>1. CASE s = t
      BY <1>2, <1>3, <1>7, <1>8, <1>9, <2>2, <3>1 DEF Alone
    <3>2. CASE s # t
      <4>1. Wakes(s, x) /\ x # u
        BY <1>9, <1>10, <2>2, <3>2
      <4>2. Sw(x) = 3 /\ pc[x] \in Polling
        BY <4>1 DEF FileInv, SwitchInv
      <4>3. x # t
        BY <1>1, <1>3, <4>2
      <4>4. QED
        BY <1>3, <1>8, <4>1, <4>2, <4>3 DEF Alone
    <3>3. QED
      BY <3>1, <3>2
  <2>3. ASSUME NEW q \in Threads, NEW s \in Threads, NEW x \in Threads, Wakes(q, x)', Wakes(s, x)'
        PROVE  q = s
    <3>1. CASE x = u
      BY <1>9, <1>10, <2>3, <3>1
    <3>2. CASE x # u
      <4>1. Wakes(q, x) /\ Wakes(s, x)
        BY <1>9, <2>3, <3>2
      <4>2. QED
        BY <4>1 DEF FileInv, SwitchInv
    <3>3. QED
      BY <3>1, <3>2
  <2>4. QED
    BY <2>1, <2>2, <2>3 DEF SwitchInv
<1>12. \A s \in Threads \ {u} : s \in Twice' <=> s \in Twice
  <2>1. t \notin Twice' /\ t \notin Twice
    BY <1>1, <1>3 DEF Twice
  <2>2. ASSUME NEW s \in Threads, s # u, s # t PROVE s \in Twice' <=> s \in Twice
    <3>1. pc'[s] = pc[s] /\ Sw(s)' = Sw(s)
      BY <1>3, <1>8, <2>2 DEF Alone
    <3>2. \A x \in Threads : pc[x] = "wake" /\ slot[x] = Own(s) => pc'[x] = "wake" /\ slot'[x] = Own(s)
      BY <1>3, <1>4, <1>5, <2>2, Numbers DEF Alone
    <3>3. \A x \in Threads : pc'[x] = "wake" /\ slot'[x] = Own(s) => pc[x] = "wake" /\ slot[x] = Own(s)
      BY <1>3, <1>4, <1>5, <2>2, Numbers DEF Alone
    <3>4. Woken(s)' <=> Woken(s)
      BY <3>1, <3>2, <3>3 DEF Woken
    <3>5. QED
      BY <3>1, <3>4 DEF Twice
  <2>3. QED
    BY <2>1, <2>2
<1>13. (u \in Twice <=> from # "wake") /\ (u \in Twice' <=> from = "claim")
  <2>1. pc[u] \in Waiting /\ pc'[u] \in Polling /\ pc'[u] \in Waiting
    BY <1>1, <1>3, <1>7 DEF Alone
  <2>2. Woken(u) <=> from = "wake"
    <3>1. Sw(u) # 0
      BY <1>7
    <3>2. \A x \in Threads : pc[x] = "wake" /\ slot[x] = Own(u) => x = t
      BY <1>10 DEF Wakes
    <3>3. QED
      BY <1>3, <1>5, <3>1, <3>2 DEF Woken
  <2>3. Woken(u)' <=> from # "claim"
    <3>1. Sw(u)' = 0 <=> from = "wake"
      BY <1>8
    <3>2. \A x \in Threads : pc'[x] = "wake" /\ slot'[x] = Own(u) => x = t
      BY <1>3, <1>4, <1>10 DEF Wakes, Alone
    <3>3. Woken(u)' <=> from = "wake" \/ to = "wake"
      BY <1>3, <1>4, <1>5, <2>1, <3>1, <3>2 DEF Woken
    <3>4. QED
      BY <1>2, <3>3
  <2>4. QED
    BY <1>2, <2>1, <2>2, <2>3 DEF Twice
<1>14. /\ Twice \in SUBSET Threads /\ Twice' \in SUBSET Threads
       /\ IsFiniteSet(Twice) /\ IsFiniteSet(Once) /\ Twice \subseteq Once
       /\ Cardinality(Twice) \in Nat /\ Cardinality(Once) \in Nat
       /\ threads_waiting_to_succeed = Cardinality(Once) + Cardinality(Twice)
  BY Counts DEF Twice, FileInv, WaitInv
<1>15. {s \in Threads : pc'[s] \in {"last_try", "uncount"}} =
           {s \in Threads : pc[s] \in {"last_try", "uncount"}}
  BY <1>2, <1>3 DEF Alone
<1>16. /\ threads_waiting_to_succeed' = Cardinality(Once') + Cardinality(Twice')
       /\ threads_waiting_to_succeed' \in Nat
  <2>1. CASE from # "decrement"
    <3>1. Twice' = Twice
      <4>1. u \in Twice' <=> u \in Twice
        BY <1>13, <2>1
      <4>2. QED
        BY <1>12, <1>14, <4>1
    <3>2. Once' = Once
      BY <1>15, <3>1 DEF Once
    <3>3. threads_waiting_to_succeed' = threads_waiting_to_succeed
      BY <1>2, <2>1 DEF claim, wake
    <3>4. QED
      BY <1>14, <3>1, <3>2, <3>3
  <2>2. CASE from = "decrement"
    <3>1. Twice' = Twice \ {u} /\ u \in Twice /\ u \in Once
      BY <1>2, <1>12, <1>13, <1>14, <2>2
    <3>2. pc[u] \notin {"last_try", "uncount"}
      BY <1>7 DEF Polling
    <3>3. Once' = Once \ {u}
      BY <1>15, <3>1, <3>2 DEF Once
    <3>4. /\ Cardinality(Twice') = Cardinality(Twice) - 1 /\ IsFiniteSet(Twice')
          /\ Cardinality(Once') = Cardinality(Once) - 1 /\ IsFiniteSet(Once')
      BY <1>14, <3>1, <3>3, FS_RemoveElement
    <3>5. Cardinality(Twice') \in Nat /\ Cardinality(Once') \in Nat
      BY <3>4, FS_CardinalityType
    <3>6. threads_waiting_to_succeed' = threads_waiting_to_succeed + (-2)
      BY <1>2, <2>2 DEF decrement, Count
    <3>7. QED
      BY <1>14, <3>4, <3>5, <3>6
  <2>3. QED
    BY <2>1, <2>2
<1>17. WaitTypes'
  BY <1>4, <1>8, <1>16 DEF FileInv, WaitTypes
<1>18. pc'[t] \notin Waiting /\ ~ Stops(t)'
  BY <1>1, <1>3 DEF Stops, Waiting
<1>19. WaitInv'
  BY <1>3, <1>4, <1>6, <1>16, <1>18, AwakeNext
<1>20. QED
  BY <1>3, <1>11, <1>17, <1>19 DEF FileInv

(* A thread waits as long as it has to: this is so in every state of the   *)
(* search without a count.                                                 *)
THEOREM ThreadsWait ==
    ASSUME FiniteGraphs, NumberedThreads
    PROVE  Spec => []FileInv
PROOF
<1>1. Init => FileInv
  <2>1. SUFFICES ASSUME Init PROVE FileInv
    OBVIOUS
  <2>2. "delete_min" \in Idling /\ "delete_min" \notin Waiting \union Announced
    BY DEF Idling, Waiting, Polling, Announced
  <2>3. SearchInv
    BY <2>1, <2>2, SearchStart DEF Init
  <2>4. \A t \in Threads : pc[t] = "delete_min"
    BY <2>1 DEF Init, SearchInit
  <2>5. WaitTypes
    BY <2>1 DEF Init, WaitTypes
  <2>6. \A t \in Threads : Sw(t) = 0
    BY <2>1, Numbers DEF Init, Sw
  <2>7. SwitchInv
    BY <2>2, <2>4, <2>6 DEF SwitchInv, SwitchOK, Wakes
  <2>8. Twice = {} /\ Once = {}
    BY <2>2, <2>4 DEF Twice, Once
  <2>9. Cardinality(Twice) = 0 /\ Cardinality(Once) = 0 /\ threads_waiting_to_succeed = 0
    BY <2>1, <2>8, FS_EmptySet DEF Init
  <2>10. WaitInv
    BY <2>2, <2>4, <2>9 DEF WaitInv, Stops, Waiting
  <2>11. QED
    BY <2>3, <2>5, <2>7, <2>10 DEF FileInv
<1>2. FileInv /\ [Next]_vars => FileInv'
  <2>1. SUFFICES ASSUME FileInv, [Next]_vars PROVE FileInv'
    OBVIOUS
  <2>2. ASSUME NEW t \in Threads, Step(t) PROVE FileInv'
    <3>1. CASE delete_min(t) \/ delete_min_fails(t) \/ relax(t) \/ push(t)
      BY <2>1, <3>1, SearchingNext
    <3>2. CASE announce(t) \/ last_try(t) \/ reset(t)
      BY <2>1, <3>2, AnnounceNext
    <3>3. CASE count(t) \/ uncount(t) \/ last_try_fails(t)
      BY <2>1, <3>3, CounterNext
    <3>4. CASE sleep(t) \/ wait(t) \/ poll(t) \/ reread(t)
      BY <2>1, <3>4, PollingNext
    <3>5. CASE \/ anyone(t) \/ notified(t) \/ next_slot(t) \/ found_waiting(t)
               \/ claim(t) /\ threads_wait_switches[slot[t]] # 2
      BY <2>1, <3>5, NotifyNext
    <3>6. CASE (claim(t) /\ threads_wait_switches[slot[t]] = 2) \/ decrement(t) \/ wake(t)
      BY <2>1, <3>6, WakingNext
    <3>7. QED
      BY <2>2, <3>1, <3>2, <3>3, <3>4, <3>5, <3>6 DEF Step
  <2>3. CASE UNCHANGED vars
    <3>1. /\ graph' = graph /\ distance' = distance /\ pq' = pq /\ pc' = pc /\ loc' = loc
          /\ threads_waiting_to_succeed' = threads_waiting_to_succeed
          /\ threads_wait_switches' = threads_wait_switches /\ curr_value2' = curr_value2
          /\ slot' = slot
      BY <2>3 DEF vars, searchVars, waitVars
    <3>2. SearchInv'
      BY <2>1, <3>1, SearchSame DEF FileInv
    <3>3. WaitTypes' /\ SwitchInv'
      BY <2>1, <3>1 DEF FileInv, WaitTypes, SwitchInv, SwitchOK, Wakes, Sw
    <3>4. Twice' = Twice
      BY <3>1 DEF Twice, Woken, Sw
    <3>5. Once' = Once
      BY <3>1, <3>4 DEF Once
    <3>6. WaitInv'
      BY <2>1, <3>1, <3>4, <3>5 DEF FileInv, WaitInv, MayFail, Stops, AllAsleep
    <3>7. QED
      BY <3>2, <3>3, <3>6 DEF FileInv
  <2>4. QED
    BY <2>1, <2>2, <2>3 DEF Next
<1>3. QED
  BY <1>1, <1>2, PTL DEF Spec

(* A thread of file_shortest_paths.cpp stops only when no task is left and *)
(* every vertex has the length of a shortest path.                         *)
THEOREM WaitingIsFinal ==
    ASSUME FiniteGraphs, NumberedThreads
    PROVE  Spec => []StopsWhenDone
PROOF
<1>1. FileInv => StopsWhenDone
  <2>1. SUFFICES ASSUME FileInv, NEW t \in Threads, pc[t] = "done"
                 PROVE  /\ pq = {} /\ distance = Shortest
                        /\ \A s \in Threads : pc[s] \in {"sleep", "wait", "poll", "reread", "done"}
    BY DEF StopsWhenDone
  <2>2. AllAsleep
    BY <2>1 DEF FileInv, WaitInv, Stops
  <2>3. \A s \in Threads : pc[s] \in Waiting /\ MayFail(s)
    BY <2>1, <2>2 DEF AllAsleep, Twice, FileInv, WaitInv
  <2>4. pq = {}
    <3>1. \A x \in pq : x.by \in Threads \union {MainThread}
      BY <2>1 DEF FileInv, SearchInv, Types, Tasks
    <3>2. QED
      BY <2>1, <2>3, <3>1 DEF MayFail
  <2>5. \A s \in Threads : pc[s] \in Idling
    BY <2>3 DEF Waiting, Polling, Idling
  <2>6. distance = Shortest
    BY <2>1, <2>4, <2>5, SearchEnd DEF FileInv
  <2>7. QED
    BY <2>3, <2>4, <2>6 DEF Waiting, Polling
<1>2. QED
  BY <1>1, ThreadsWait, PTL

(* Whoever slept when s inserted a task, and was not woken since: he still *)
(* sleeps, and is being woken, or is one whom s will come to, or one whose *)
(* switch the loop does not visit.                                         *)
Sleeps(u)    == pc[u] = "sleep" \/ Sw(u) \in {2, 3}
Visits(s, u) == \/ pc[s] = "anyone"
                \/ pc[s] \in {"notify", "claim", "decrement", "wake"} /\ slot[s] <= Own(u)
AsleepInv ==
    /\ asleep \in [Threads -> SUBSET Threads]
    /\ \A s \in Threads : \A u \in asleep[s] :
           Sleeps(u) /\ (Sw(u) = 3 \/ Own(u) >= number_of_threads \/ Visits(s, u))

(* A step of t moves t only, and its place in the loop; it wakes nobody    *)
(* but the thread that t has claimed.                                      *)
LEMMA StepAlone ==
    ASSUME NumberedThreads, FileInv, NEW t \in Threads, Step(t)
    PROVE  /\ Alone(t) /\ \A s \in Threads \ {t} : slot'[s] = slot[s]
           /\ \A u \in Threads :
                  \/ Sleeps(u) => Sleeps(u)' /\ (Sw(u) = 3 => Sw(u)' = 3)
                  \/ wake(t) /\ slot[t] = Own(u)
PROOF
<1>1. /\ \A p, l : Goto(t, p, l) => Alone(t) /\ pc'[t] = p
      /\ slot \in [Threads -> Int]
      /\ \A n : Switch(t, n) => \A u \in Threads \ {t} : Sw(u)' = Sw(u)
      /\ \A n \in 0 .. 3 : Switch(t, n) => Sw(t)' = n
  <2>1. /\ \A p, l : Goto(t, p, l) => Alone(t) /\ pc'[t] = p
        /\ slot \in [Threads -> Int]
    BY DEF Goto, Alone, FileInv, SearchInv, Types, WaitTypes
  <2>2. /\ \A n : Switch(t, n) => \A u \in Threads \ {t} : Sw(u)' = Sw(u)
        /\ \A n \in 0 .. 3 : Switch(t, n) => Sw(t)' = n
    BY Numbers DEF Switch, Sw, FileInv, WaitTypes
  <2>3. QED
    BY <2>1, <2>2
<1>2. SwitchOK(t)
  BY DEF FileInv, SwitchInv
<1>3. CASE \/ delete_min(t) \/ delete_min_fails(t) \/ count(t) \/ last_try(t) \/ uncount(t)
           \/ last_try_fails(t) \/ wait(t) \/ poll(t) \/ reread(t) \/ relax(t) \/ push(t)
           \/ anyone(t) \/ notified(t) \/ next_slot(t) \/ found_waiting(t) \/ decrement(t)
  <2>1. threads_wait_switches' = threads_wait_switches
    BY <1>3 DEF delete_min, delete_min_fails, count, last_try, uncount, last_try_fails, wait, poll, reread,
                relax, push, anyone, notified, next_slot, found_waiting, decrement, waitVars
  <2>2. \A s \in Threads \ {t} : slot'[s] = slot[s]
    BY <1>1, <1>3 DEF delete_min, delete_min_fails, count, last_try, uncount, last_try_fails, wait, poll,
                reread, relax, push, anyone, notified, next_slot, found_waiting, decrement, waitVars
  <2>3. pc[t] # "sleep" /\ \E p, l : Goto(t, p, l)
    <3>1. CASE relax(t)
      <4>1. CASE edge(t)
        BY <4>1 DEF edge
      <4>2. CASE cas_fails(t)
        BY <4>2 DEF cas_fails
      <4>3. CASE outdated(t, "delete_min") \/ edges_done(t, "delete_min") \/ expand(t) \/ cas(t)
        BY <4>3 DEF outdated, edges_done, expand, cas
      <4>4. QED
        BY <3>1, <4>1, <4>2, <4>3 DEF relax
    <3>2. CASE delete_min(t) \/ last_try(t)
      BY <3>2 DEF delete_min, last_try, take_task
    <3>3. CASE push(t)
      BY <3>3 DEF push, insert
    <3>4. CASE \/ delete_min_fails(t) \/ count(t) \/ uncount(t) \/ last_try_fails(t) \/ wait(t)
               \/ poll(t) \/ reread(t) \/ anyone(t) \/ notified(t) \/ next_slot(t)
               \/ found_waiting(t) \/ decrement(t)
      <4>1. PICK from, to : Jump(t, from, to) /\ from # "sleep"
        BY <3>4 DEF delete_min_fails, count, uncount, last_try_fails, wait, poll, reread, anyone, notified,
                    next_slot, found_waiting, decrement
      <4>2. QED
        BY <4>1 DEF Jump
    <3>5. QED
      BY <1>3, <3>1, <3>2, <3>3, <3>4
  <2>4. Alone(t)
    BY <1>1, <2>3
  <2>5. \A u \in Threads : (pc[u] = "sleep" => pc'[u] = "sleep") /\ Sw(u)' = Sw(u)
    BY <2>1, <2>3, <2>4 DEF Alone, Sw
  <2>6. QED
    BY <2>2, <2>4, <2>5 DEF Sleeps
<1>4. CASE announce(t) \/ reset(t) \/ sleep(t)
  <2>1. /\ slot' = slot /\ Alone(t)
        /\ \/ pc[t] = "announce" /\ Switch(t, 1)
           \/ pc[t] = "reset" /\ Switch(t, 0)
           \/ pc[t] = "sleep" /\ Switch(t, 2)
    BY <1>1, <1>4 DEF announce, reset, sleep, Jump
  <2>2. \A u \in Threads \ {t} : Sw(u)' = Sw(u) /\ pc'[u] = pc[u]
    BY <1>1, <2>1 DEF Alone
  <2>3. Sw(t) \notin {2, 3}
    BY <1>2, <2>1 DEF SwitchOK, Polling
  <2>4. pc[t] = "sleep" => Sw(t)' = 2
    BY <1>1, <2>1
  <2>5. QED
    BY <2>1, <2>2, <2>3, <2>4 DEF Sleeps
<1>5. CASE claim(t)
  <2>1. slot' = slot /\ Alone(t) /\ pc[t] = "claim"
    BY <1>1, <1>5 DEF claim, Jump
  <2>2. \/ threads_wait_switches' = threads_wait_switches
        \/ threads_wait_switches' = [threads_wait_switches EXCEPT ![slot[t]] = 3]
    BY <1>5 DEF claim
  <2>3. \A u \in Threads : (pc[u] = "sleep" => pc'[u] = "sleep") /\ (Sw(u)' = Sw(u) \/ Sw(u)' = 3)
    BY <2>1, <2>2, Numbers DEF Alone, Sw, FileInv, WaitTypes
  <2>4. QED
    BY <2>1, <2>3 DEF Sleeps
<1>6. CASE wake(t)
  <2>1. /\ slot' = slot /\ Alone(t) /\ pc[t] = "wake"
        /\ threads_wait_switches' = [threads_wait_switches EXCEPT ![slot[t]] = 0]
    BY <1>1, <1>6 DEF wake, Jump
  <2>2. \A u \in Threads : Own(u) # slot[t] =>
            (pc[u] = "sleep" => pc'[u] = "sleep") /\ Sw(u)' = Sw(u)
    BY <2>1, Numbers DEF Alone, Sw, FileInv, WaitTypes
  <2>3. QED
    BY <1>6, <2>1, <2>2 DEF Sleeps
<1>7. QED
  BY <1>3, <1>4, <1>5, <1>6 DEF Step

(* A thread forgets those that slept when it inserted only as they wake,   *)
(* and leaves none of them behind in the loop.                             *)
LEMMA AsleepNext ==
    ASSUME NumberedThreads, FileInv, AsleepInv, NEW t \in Threads, Step(t)
    PROVE  AsleepInv'
PROOF
<1>1. /\ Alone(t) /\ \A s \in Threads \ {t} : slot'[s] = slot[s]
      /\ \A u \in Threads :
             \/ Sleeps(u) => Sleeps(u)' /\ (Sw(u) = 3 => Sw(u)' = 3)
             \/ wake(t) /\ slot[t] = Own(u)
  BY StepAlone
<1>2. /\ slot \in [Threads -> Int] /\ slot[t] \in Int /\ asleep \in [Threads -> SUBSET Threads]
      /\ number_of_threads \in Nat /\ ARRAY_PADDING \in Nat
      /\ \A u \in Threads : Own(u) \in Int /\ Own(u) >= ARRAY_PADDING
      /\ \A i \in Int : i >= ARRAY_PADDING /\ i < number_of_threads => \E u \in Threads : Own(u) = i
  BY Numbers DEF AsleepInv, FileInv, WaitTypes, NumberedThreads, Own
<1>3. /\ asleep' \in [Threads -> SUBSET Threads]
      /\ \A s \in Threads : s # t \/ ~ push(t) => asleep'[s] \subseteq asleep[s]
      /\ wake(t) => \A s \in Threads : \A u \in asleep'[s] : slot[t] # Own(u)
  <2>1. CASE push(t)
    <3>1. pc[t] = "push" /\ asleep' = [asleep EXCEPT ![t] = Asleep] /\ Asleep \subseteq Threads
      BY <2>1 DEF push, insert, Asleep
    <3>2. ~ wake(t)
      BY <3>1 DEF wake, Jump
    <3>3. QED
      BY <1>2, <2>1, <3>1, <3>2
  <2>2. CASE wake(t)
    <3>1. asleep' = [u \in Threads |-> asleep[u] \ {slot[t] - ARRAY_PADDING}]
      BY <2>2 DEF wake
    <3>2. \A u \in Threads : slot[t] = Own(u) => u = slot[t] - ARRAY_PADDING
      BY <1>2 DEF NumberedThreads, Own
    <3>3. QED
      BY <1>2, <3>1, <3>2
  <2>3. CASE ~ push(t) /\ ~ wake(t)
    <3>1. asleep' = asleep
      BY <2>3 DEF Step, delete_min, delete_min_fails, count, last_try, uncount, last_try_fails, wait, poll,
             reread, relax, anyone, notified, next_slot, found_waiting, decrement, announce, reset,
             sleep, claim, waitVars
    <3>2. QED
      BY <1>2, <2>3, <3>1
  <2>4. QED
    BY <2>1, <2>2, <2>3
<1>4. ASSUME NEW s \in Threads, NEW u \in asleep'[s], s # t \/ ~ push(t)
      PROVE  /\ u \in Threads /\ Sleeps(u) /\ Sleeps(u)' /\ (Sw(u) = 3 => Sw(u)' = 3)
             /\ Sw(u) = 3 \/ Own(u) >= number_of_threads \/ Visits(s, u)
  <2>1. u \in asleep[s] /\ u \in Threads
    BY <1>2, <1>3, <1>4
  <2>2. Sleeps(u) /\ (Sw(u) = 3 \/ Own(u) >= number_of_threads \/ Visits(s, u))
    BY <2>1 DEF AsleepInv
  <2>3. ~ (wake(t) /\ slot[t] = Own(u))
    BY <1>3
  <2>4. QED
    BY <1>1, <2>1, <2>2, <2>3
<1>5. ASSUME NEW s \in Threads, NEW u \in asleep'[s], s # t
      PROVE  Sleeps(u)' /\ (Sw(u)' = 3 \/ Own(u) >= number_of_threads \/ Visits(s, u)')
  <2>1. Visits(s, u) => Visits(s, u)'
    BY <1>1, <1>5 DEF Visits, Alone
  <2>2. QED
    BY <1>4, <1>5, <2>1
<1>6. ASSUME NEW u \in asleep'[t]
      PROVE  Sleeps(u)' /\ (Sw(u)' = 3 \/ Own(u) >= number_of_threads \/ Visits(t, u)')
  <2>1. CASE push(t)
    <3>1. pc[t] = "push" /\ pc'[t] = "anyone" /\ asleep'[t] = Asleep
      BY <1>2, <2>1 DEF push, insert, Goto, FileInv, SearchInv, Types
    <3>2. Sleeps(u) /\ u \in Threads
      BY <1>6, <3>1 DEF Asleep, Sleeps, Sw
    <3>3. ~ wake(t)
      BY <3>1 DEF wake, Jump
    <3>4. QED
      BY <1>1, <3>1, <3>2, <3>3 DEF Visits
  <2>2. CASE ~ push(t)
    <3>1. /\ u \in Threads /\ Sleeps(u) /\ Sleeps(u)' /\ (Sw(u) = 3 => Sw(u)' = 3)
          /\ Sw(u) = 3 \/ Own(u) >= number_of_threads \/ Visits(t, u)
      BY <1>4, <1>6, <2>2
    <3>2. SUFFICES ASSUME Visits(t, u), Sw(u) # 3, Own(u) < number_of_threads PROVE Visits(t, u)'
      BY <1>2, <3>1
    <3>3. u \in Twice
      <4>1. pc[u] \in Waiting
        BY <3>1 DEF Sleeps, FileInv, SwitchInv, SwitchOK, Waiting
      <4>2. \A x \in Threads : ~ Wakes(x, u)
        BY <3>1, <3>2 DEF FileInv, SwitchInv
      <4>3. ~ (pc[u] \in Polling /\ Sw(u) = 0)
        BY <3>1 DEF Sleeps, Polling
      <4>4. QED
        BY <3>1, <4>1, <4>2, <4>3 DEF Twice, Woken, Wakes
    <3>4. pc[t] \in {"anyone", "notify", "claim", "decrement", "wake"}
      BY <3>2 DEF Visits
    <3>5. \/ anyone(t) \/ notified(t) \/ next_slot(t)
          \/ found_waiting(t) \/ claim(t) \/ decrement(t) \/ wake(t)
      BY <3>4 DEF Step, delete_min, delete_min_fails, announce, count, last_try, uncount, reset, last_try_fails,
                  sleep, wait, poll, reread, relax, push, Jump, take_task, insert, outdated, expand, edge,
                  cas, cas_fails, edges_done
    <3>6. \A p, l : Goto(t, p, l) => pc'[t] = p
      BY DEF Goto, FileInv, SearchInv, Types
    <3>7. CASE anyone(t)
      <4>1. threads_waiting_to_succeed > 0
        <5>1. Cardinality(Twice) # 0
          BY <3>3, Counts, FS_EmptySet
        <5>2. QED
          BY <5>1, Counts DEF FileInv, WaitInv
      <4>2. pc'[t] = "notify" /\ slot'[t] = ARRAY_PADDING
        BY <1>2, <3>6, <3>7, <4>1 DEF anyone, Jump
      <4>3. QED
        BY <1>2, <3>1, <4>2 DEF Visits
    <3>8. CASE notified(t)
      <4>1. pc[t] = "notify" /\ ~ (slot[t] < number_of_threads)
        BY <3>8 DEF notified, Jump, Notifying
      <4>2. slot[t] <= Own(u)
        BY <3>2, <4>1 DEF Visits
      <4>3. QED
        BY <1>2, <3>1, <3>2, <4>1, <4>2
    <3>9. CASE next_slot(t)
      <4>1. /\ pc[t] = "notify" /\ pc'[t] = "notify" /\ slot'[t] = slot[t] + 1
            /\ threads_wait_switches[slot[t]] \in {0, 3}
        BY <1>2, <3>6, <3>9 DEF next_slot, Jump
      <4>2. slot[t] # Own(u)
        <5>1. pc[u] = "sleep" => Sw(u) = 1
          BY <3>1 DEF FileInv, SwitchInv, SwitchOK, Announced
        <5>2. Sw(u) \in {1, 2}
          BY <3>1, <3>2, <5>1 DEF Sleeps
        <5>3. QED
          BY <4>1, <5>2 DEF Sw
      <4>3. slot[t] <= Own(u)
        BY <3>2, <4>1 DEF Visits
      <4>4. slot'[t] <= Own(u)
        BY <1>2, <3>1, <4>1, <4>2, <4>3
      <4>5. QED
        BY <4>1, <4>4 DEF Visits
    <3>10. CASE found_waiting(t) \/ claim(t) \/ decrement(t) \/ wake(t)
      <4>1. /\ slot' = slot /\ pc[t] \in {"notify", "claim", "decrement", "wake"}
            /\ pc'[t] \in {"notify", "claim", "decrement", "wake"}
        BY <3>6, <3>10 DEF found_waiting, claim, decrement, wake, Jump, waitVars
      <4>2. QED
        BY <3>2, <4>1 DEF Visits
    <3>11. QED
      BY <3>5, <3>7, <3>8, <3>9, <3>10
  <2>3. QED
    BY <2>1, <2>2
<1>7. QED
  BY <1>3, <1>5, <1>6 DEF AsleepInv

(* What is left of "the thread performing the insert would have waken up   *)
(* all the waiting threads": those whose switches the loop visits.         *)
THEOREM VisitedAreWoken ==
    ASSUME FiniteGraphs, NumberedThreads
    PROVE  Spec => []VisitedWokenUp
PROOF
<1>1. Init => AsleepInv
  BY DEF Init, AsleepInv
<1>2. FileInv /\ AsleepInv /\ [Next]_vars => AsleepInv'
  <2>1. SUFFICES ASSUME FileInv, AsleepInv, [Next]_vars PROVE AsleepInv'
    OBVIOUS
  <2>2. CASE Next
    BY <2>1, <2>2, AsleepNext DEF Next
  <2>3. CASE UNCHANGED vars
    BY <2>1, <2>3 DEF vars, searchVars, waitVars, AsleepInv, Sleeps, Visits, Sw
  <2>4. QED
    BY <2>1, <2>2, <2>3
<1>3. AsleepInv => VisitedWokenUp
  <2>1. SUFFICES ASSUME AsleepInv, NEW t \in Threads, pc[t] = "edges",
                        NEW u \in asleep[t] \ BeingWoken
                 PROVE  Own(u) >= number_of_threads
    BY DEF VisitedWokenUp
  <2>2. u \in Threads /\ Sw(u) # 3
    BY <2>1 DEF AsleepInv, BeingWoken, Sw
  <2>3. QED
    BY <2>1, <2>2 DEF AsleepInv, Visits
<1>4. QED
  BY <1>1, <1>2, <1>3, ThreadsWait, PTL DEF Spec
============================================================================
