-------------------------- MODULE FileShortestPaths --------------------------
(***************************************************************************)
(* bench/file_shortest_paths.cpp: the same search over a queue without a   *)
(* count of its tasks.  A thread whose delete_min fails announces that it  *)
(* waits, fails once more and waits until all threads do, or until one     *)
(* that inserted something wakes it ("quite complex protocol to make sure  *)
(* threads don't quit when there are still nodes to process").             *)
(* Of the queue it needs that delete_min fails only if nothing is left     *)
(* that the calling thread, or the main thread, inserted.                  *)
(***************************************************************************)
EXTENDS Relaxation

CONSTANTS number_of_threads,
          ARRAY_PADDING       \* 16 in the code

VARIABLES threads_waiting_to_succeed,
          threads_wait_switches,        \* by index: ARRAY_PADDING + thread_id
          curr_value2,                  \* of each waiting thread
          slot,                         \* i, of each thread that notifies others
          asleep                        \* of each thread: those that slept when it inserted
                                        \* and have not been woken since

waitVars == <<threads_waiting_to_succeed, threads_wait_switches, curr_value2, slot, asleep>>
vars == <<searchVars, waitVars>>

Switches == ARRAY_PADDING .. (ARRAY_PADDING + number_of_threads - 1)
Own(t)   == ARRAY_PADDING + t

(* Only switches that are never read before they are written are left      *)
(* uninitialised by main().                                                *)
Init ==
    /\ SearchInit("delete_min")
    /\ threads_waiting_to_succeed = 0
    /\ threads_wait_switches = [i \in Switches |-> 0]
    /\ curr_value2 = [t \in Threads |-> 0]
    /\ slot = [t \in Threads |-> 0]
    /\ asleep = [t \in Threads |-> {}]

MayFail(t) == \A x \in pq : x.by \notin {t, MainThread}

Count(n) == threads_waiting_to_succeed' = threads_waiting_to_succeed + n
Switch(t, n) == threads_wait_switches' = [threads_wait_switches EXCEPT ![Own(t)] = n]

-----------------------------------------------------------------------------
(* The first delete_min and the 400 that follow it. *)
delete_min(t) == take_task(t, "delete_min", "task") /\ UNCHANGED waitVars
delete_min_fails(t) == MayFail(t) /\ Jump(t, "delete_min", "announce") /\ UNCHANGED waitVars

announce(t) ==
    /\ Jump(t, "announce", "count") /\ Switch(t, 1)
    /\ UNCHANGED <<threads_waiting_to_succeed, curr_value2, slot, asleep>>
count(t) ==
    /\ Jump(t, "count", "last_try") /\ Count(1)
    /\ UNCHANGED <<threads_wait_switches, curr_value2, slot, asleep>>

last_try(t) == take_task(t, "last_try", "uncount") /\ UNCHANGED waitVars

(* Mutant: the number is not decremented again. *)
uncount_none(t) ==
    /\ Jump(t, "uncount", "reset")
    /\ UNCHANGED <<threads_waiting_to_succeed, threads_wait_switches, curr_value2, slot, asleep>>

uncount(t) ==
    /\ Jump(t, "uncount", "reset") /\ Count(-1)
    /\ UNCHANGED <<threads_wait_switches, curr_value2, slot, asleep>>
reset(t) ==
    /\ Jump(t, "reset", "task") /\ Switch(t, 0)
    /\ UNCHANGED <<threads_waiting_to_succeed, curr_value2, slot, asleep>>

last_try_fails(t) ==
    /\ MayFail(t) /\ Jump(t, "last_try", "sleep") /\ Count(1)
    /\ curr_value2' = [curr_value2 EXCEPT ![t] = threads_waiting_to_succeed + 1]
    /\ UNCHANGED <<threads_wait_switches, slot, asleep>>

sleep(t) ==
    /\ Jump(t, "sleep", "wait") /\ Switch(t, 2)
    /\ UNCHANGED <<threads_waiting_to_succeed, curr_value2, slot, asleep>>

wait(t) ==
    /\ Jump(t, "wait", IF curr_value2[t] = 2 * number_of_threads THEN "done" ELSE "poll")
    /\ UNCHANGED waitVars
poll(t) ==
    /\ IF threads_wait_switches[Own(t)] = 0
       THEN Jump(t, "poll", "delete_min") /\ curr_value2' = [curr_value2 EXCEPT ![t] = 0]
       ELSE Jump(t, "poll", "reread") /\ UNCHANGED curr_value2
    /\ UNCHANGED <<threads_waiting_to_succeed, threads_wait_switches, slot, asleep>>
reread(t) ==
    /\ Jump(t, "reread", "wait")
    /\ curr_value2' = [curr_value2 EXCEPT ![t] = threads_waiting_to_succeed]
    /\ UNCHANGED <<threads_waiting_to_succeed, threads_wait_switches, slot, asleep>>

-----------------------------------------------------------------------------
relax(t) ==
    /\ expand(t) \/ edge(t) \/ cas(t) \/ cas_fails(t)
           \/ outdated(t, "delete_min") \/ edges_done(t, "delete_min")
    /\ UNCHANGED waitVars

(* Those whose last delete_min has failed and whom nobody is waking. *)
Asleep == {u \in Threads : pc[u] = "sleep" \/ threads_wait_switches[Own(u)] = 2}
push(t) ==
    /\ insert(t, "push", "anyone")
    /\ asleep' = [asleep EXCEPT ![t] = Asleep]
    /\ UNCHANGED <<threads_waiting_to_succeed, threads_wait_switches, curr_value2, slot>>

anyone(t) ==
    /\ IF threads_waiting_to_succeed > 0
       THEN Jump(t, "anyone", "notify") /\ slot' = [slot EXCEPT ![t] = ARRAY_PADDING]
       ELSE Jump(t, "anyone", "edges") /\ UNCHANGED slot
    /\ UNCHANGED <<threads_waiting_to_succeed, threads_wait_switches, curr_value2, asleep>>

(* for (int i = ARRAY_PADDING; i < number_of_threads; i++) *)
Notifying(t) == slot[t] < number_of_threads
notified(t) ==
    /\ Jump(t, "notify", "edges") /\ ~Notifying(t)
    /\ slot' = [slot EXCEPT ![t] = 0]
    /\ UNCHANGED <<threads_waiting_to_succeed, threads_wait_switches, curr_value2, asleep>>

(* Mutant: a thread that is about to sleep is passed over. *)
next_slot_announced(t) ==
    /\ Jump(t, "notify", "notify")
    /\ Notifying(t) /\ threads_wait_switches[slot[t]] \in {0, 1, 3}
    /\ slot' = [slot EXCEPT ![t] = @ + 1]
    /\ UNCHANGED <<threads_waiting_to_succeed, threads_wait_switches, curr_value2, asleep>>

next_slot(t) ==
    /\ Jump(t, "notify", "notify")
    /\ Notifying(t) /\ threads_wait_switches[slot[t]] \in {0, 3}
    /\ slot' = [slot EXCEPT ![t] = @ + 1]
    /\ UNCHANGED <<threads_waiting_to_succeed, threads_wait_switches, curr_value2, asleep>>
found_waiting(t) ==
    /\ Jump(t, "notify", "claim")
    /\ Notifying(t) /\ threads_wait_switches[slot[t]] = 2
    /\ UNCHANGED waitVars

(* compare_exchange_strong(expected = 2, 3) *)
claim(t) ==
    /\ pc[t] = "claim"
    /\ IF threads_wait_switches[slot[t]] = 2
       THEN /\ Jump(t, "claim", "decrement")
            /\ threads_wait_switches' = [threads_wait_switches EXCEPT ![slot[t]] = 3]
       ELSE Jump(t, "claim", "notify") /\ UNCHANGED threads_wait_switches
    /\ UNCHANGED <<threads_waiting_to_succeed, curr_value2, slot, asleep>>

decrement(t) ==
    /\ Jump(t, "decrement", "wake") /\ Count(-2)
    /\ UNCHANGED <<threads_wait_switches, curr_value2, slot, asleep>>
wake(t) ==
    /\ Jump(t, "wake", "notify")
    /\ threads_wait_switches' = [threads_wait_switches EXCEPT ![slot[t]] = 0]
    /\ asleep' = [u \in Threads |-> asleep[u] \ {slot[t] - ARRAY_PADDING}]
    /\ UNCHANGED <<threads_waiting_to_succeed, curr_value2, slot>>

Step(t) ==
    \/ delete_min(t) \/ delete_min_fails(t) \/ announce(t) \/ count(t)
    \/ last_try(t) \/ uncount(t) \/ reset(t) \/ last_try_fails(t) \/ sleep(t)
    \/ wait(t) \/ poll(t) \/ reread(t)
    \/ relax(t) \/ push(t) \/ anyone(t) \/ notified(t) \/ next_slot(t) \/ found_waiting(t)
    \/ claim(t) \/ decrement(t) \/ wake(t)

Next == \E t \in Threads : Step(t)

(* Threads run, and a thread that has woken another one sees it awake at   *)
(* last: after its yield() the woken thread's 401 calls of delete_min keep *)
(* the switch at 0 for long, but nothing forces the look to fall there.    *)
Fairness == \A t \in Threads : WF_vars(Step(t)) /\ SF_vars(next_slot(t))
Spec == Init /\ [][Next]_vars /\ Fairness

-----------------------------------------------------------------------------
(* "All threads have observed that delete_min failed after some timepoint  *)
(* after which no insert operation has been performed": a thread stops     *)
(* only when no task is left, nobody is working on one, and the distances  *)
(* are final.                                                              *)
StopsWhenDone ==
    (\E t \in Threads : pc[t] = "done") =>
        /\ pq = {} /\ distance = Shortest
        /\ \A t \in Threads : pc[t] \in {"sleep", "wait", "poll", "reread", "done"}

(* Every thread stops: the number of waiting threads reaches its maximum   *)
(* and stays there.                                                        *)
Terminates == <>(\A t \in Threads : pc[t] = "done")

(* "If an insert happened after the last delete_min operation of any of    *)
(* the waiting threads then the thread performing the insert would have    *)
(* waken up all the waiting threads" (or another thread is doing it).      *)
BeingWoken == {u \in Threads : threads_wait_switches[Own(u)] = 3}
WokenUp == \A t \in Threads : pc[t] = "edges" => asleep[t] \subseteq BeingWoken

(* What is left of it: the threads whose switches the loop visits are      *)
(* woken, also when several threads wake them at once and when they are    *)
(* just about to sleep.                                                    *)
VisitedWokenUp == \A t \in Threads :
    pc[t] = "edges" => \A u \in asleep[t] \ BeingWoken : Own(u) >= number_of_threads
=============================================================================
