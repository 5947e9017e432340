----------------------------- MODULE GlobalLock -----------------------------
(***************************************************************************)
(* GlobalLock (bench/pqs/globallock.h): a binary heap in an array that     *)
(* doubles when it is full.  Every operation holds m_mutex from beginning  *)
(* to end, so each is one step.                                            *)
(***************************************************************************)
EXTENDS Integers, FiniteSets

CONSTANTS Keys, Nothing,
          INITIAL_CAPACITY,
          MaxSize            \* bound: elements in the queue

VARIABLES heap,   \* array: m_array from 0 on; length: m_length
          out     \* what the last call returned

vars == <<heap, out>>

Init ==
    /\ heap = [array |-> [i \in 0 .. (INITIAL_CAPACITY - 1) |-> Nothing], length |-> 0]
    /\ out = Nothing

capacity(h) == Cardinality(DOMAIN h.array)
Swap(a, i, j) == [a EXCEPT ![i] = a[j], ![j] = a[i]]

RECURSIVE bubble_up(_, _)
bubble_up(a, i) ==
    LET j == (i - 1) \div 2
    IN  IF i > 0 /\ a[i] < a[j] THEN bubble_up(Swap(a, i, j), j) ELSE a

(* Mutant: the right child is never looked at. *)
SmallerLeft(a, j, length) == j

(* The smaller of the children j and j + 1. *)
Smaller(a, j, length) == IF j + 1 < length /\ a[j + 1] < a[j] THEN j + 1 ELSE j

RECURSIVE bubble_down(_, _, _)
bubble_down(a, i, length) ==
    LET j == Smaller(a, 2 * i + 1, length)
    IN  IF 2 * i + 1 >= length THEN a
        ELSE IF a[i] <= a[j] THEN a
        ELSE bubble_down(Swap(a, i, j), j, length)

(* grow(): twice the capacity. *)
Grown(a) ==
    [i \in 0 .. (2 * Cardinality(DOMAIN a) - 1) |-> IF i \in DOMAIN a THEN a[i] ELSE Nothing]

insert(k) ==
    /\ LET a == IF heap.length = capacity(heap) THEN Grown(heap.array) ELSE heap.array
       IN  heap' = [array |-> bubble_up([a EXCEPT ![heap.length] = k], heap.length),
                    length |-> heap.length + 1]
    /\ out' = Nothing

(* The last element takes the place of the first; it moves down before     *)
(* m_length is decremented, so that its old copy still takes part.         *)
delete_min ==
    /\ heap.length > 0
    /\ out' = heap.array[0]
    /\ heap' = [array |-> bubble_down([heap.array EXCEPT ![0] = heap.array[heap.length - 1]],
                                      0, heap.length),
                length |-> heap.length - 1]

delete_min_empty ==
    /\ heap.length = 0
    /\ out' = Nothing
    /\ UNCHANGED heap

clear == heap' = [heap EXCEPT !.length = 0] /\ out' = Nothing

Next ==
    \/ heap.length < MaxSize /\ \E k \in Keys : insert(k)
    \/ delete_min \/ delete_min_empty \/ clear

Spec == Init /\ [][Next]_vars

-----------------------------------------------------------------------------
(* The heap is a priority queue, although the element that is moved to the *)
(* root is still compared with the copy it leaves behind.                  *)
Queue == INSTANCE PriorityQueue
            WITH bag <- [k \in Keys |-> Cardinality({i \in 0 .. (heap.length - 1) :
                                                        heap.array[i] = k})]
ImplementsQueue == Queue!QueueSpec
=============================================================================
