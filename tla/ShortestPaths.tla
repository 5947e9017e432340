---------------------------- MODULE ShortestPaths ----------------------------
(***************************************************************************)
(* bench/shortest_paths.cpp: every task_t counts itself in num_tasks, and  *)
(* a thread stops when it reads 0 before it looks for its next task.       *)
(***************************************************************************)
EXTENDS Relaxation

VARIABLE num_tasks

vars == <<searchVars, num_tasks>>

Init == SearchInit("loop") /\ num_tasks = 1

loop(t) ==
    /\ Jump(t, "loop", IF num_tasks > 0 THEN "delete_min" ELSE "done")
    /\ UNCHANGED num_tasks

delete_min(t) == take_task(t, "delete_min", "task") /\ UNCHANGED num_tasks
delete_min_fails(t) == Jump(t, "delete_min", "loop") /\ UNCHANGED num_tasks

dead(t) == outdated(t, "delete") /\ UNCHANGED num_tasks
relax(t) == (expand(t) \/ edge(t) \/ cas(t) \/ cas_fails(t)) /\ UNCHANGED num_tasks

(* Mutant: the task is counted when it has been inserted. *)
new_task_late(t) == Jump(t, "push", "insert") /\ UNCHANGED num_tasks

(* new task_t(w, new_dist), then insert(). *)
new_task(t) == Jump(t, "push", "insert") /\ num_tasks' = num_tasks + 1
push(t) == insert(t, "insert", "edges") /\ UNCHANGED num_tasks

finished(t) == edges_done(t, "delete") /\ UNCHANGED num_tasks

(* Mutant: ~task_t() does not count. *)
delete_uncounted(t) == Jump(t, "delete", "loop") /\ UNCHANGED num_tasks

delete(t) == Jump(t, "delete", "loop") /\ num_tasks' = num_tasks - 1

Step(t) ==
    \/ loop(t) \/ delete_min(t) \/ delete_min_fails(t) \/ dead(t) \/ relax(t)
    \/ new_task(t) \/ push(t) \/ finished(t) \/ delete(t)

Next == \E t \in Threads : Step(t)

(* Threads run, and a delete_min does not fail for ever while there are    *)
(* tasks in the queue.                                                     *)
Fairness == \A t \in Threads : WF_vars(Step(t)) /\ SF_vars(delete_min(t))
Spec == Init /\ [][Next]_vars /\ Fairness

-----------------------------------------------------------------------------
(* A thread stops only when all distances are final: no task is left in    *)
(* the queue and no other thread holds one.                                *)
StopsWhenDone ==
    (\E t \in Threads : pc[t] = "done") => pq = {} /\ Working = {} /\ distance = Shortest

(* Every thread stops. *)
Terminates == <>(\A t \in Threads : pc[t] = "done")
=============================================================================
