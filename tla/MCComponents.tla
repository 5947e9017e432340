---------------------------- MODULE MCComponents ----------------------------
(***************************************************************************)
(* Small instances of the parts that stand alone, side by side: a          *)
(* behaviour belongs to one of them, and the others stay as they began.    *)
(***************************************************************************)
EXTENDS Item, FiniteSets, TLC

CONSTANTS t1, t2, i1, i2,
          Nothing, LsmKeys, MaxLevel, MaxLsmSize, INITIAL_CAPACITY, MaxHeapSize, Ranked,
          Ids, bucket_count, MaxCalls,
          Rlx, KeyLimit, Callers, MaxLoaded,
          Clients, C, MaxKey, MaxElements, Retries

TwoOwners == (i1 :> t1) @@ (i2 :> t2)

(* A k-LSM with Rlx = 4 hands over blocks of two and of three elements.    *)
(* Two of the larger ones do not fit into the range together.              *)
Larger == {[pow |-> 2, keys |-> <<0, 1, 2>>], [pow |-> 1, keys |-> <<2, 3>>]}

(* The threads that insert into the array are interchangeable. *)
SymCallers == Permutations(Callers)

VARIABLES part,
          lsm, lsmOut, heap, heapOut, root, msize, rank,
          m_buckets, newArrays, m_tid, m_max_tid, vecPc, vecLoc, got, calls,
          arr, piv, inserted, taken, arrayPc,
          queue, m_top, locked, queueKey, removed, queuePc, queueLoc

Lsm    == INSTANCE SequentialLsm WITH Keys <- LsmKeys, out <- lsmOut, MaxSize <- MaxLsmSize
Heap   == INSTANCE GlobalLock WITH Keys <- LsmKeys, out <- heapOut, MaxSize <- MaxHeapSize
Tree   == INSTANCE ITree WITH Elements <- Ranked
Vector == INSTANCE LockfreeVector WITH
              Threads <- Ids, Calls <- MaxCalls, arrays <- newArrays, pc <- vecPc, loc <- vecLoc
Array  == INSTANCE BlockArray WITH
              Loads <- Larger, MaxKey <- KeyLimit, MaxElements <- MaxLoaded, pc <- arrayPc
Queue  == INSTANCE MultiQueue WITH
              Threads <- Clients, Inserters <- Clients,
              key <- queueKey, pc <- queuePc, loc <- queueLoc

lsms     == <<lsm, lsmOut>>
heaps    == <<heap, heapOut>>
trees    == <<root, msize, rank>>
vectors  == <<m_buckets, newArrays, m_tid, m_max_tid, vecPc, vecLoc, got, calls>>
blocks   == <<arr, piv, inserted, taken, arrayPc>>
queues   == <<queue, m_top, locked, queueKey, removed, queuePc, queueLoc>>

(* One of the values the items may have at first, where it does not matter. *)
Unused ==
    CHOOSE x \in [Items -> Keys] \X [Items -> Vals] \X {[t \in Threads |-> e] : e \in Elements} : TRUE

MCInit ==
    /\ part \in {"item", "lsm", "heap", "itree", "vector", "block_array", "multiq"}
    /\ Init
    /\ part # "item" => <<key, val, loc>> = Unused
    /\ Lsm!Init /\ Heap!Init /\ Tree!Init /\ Vector!Init /\ Array!Init
    /\ Queue!Init

Moves(name) == part = name /\ UNCHANGED part

ItemNext   == Moves("item") /\ Next
                  /\ UNCHANGED <<lsms, heaps, trees, vectors, blocks, queues>>
LsmNext    == Moves("lsm") /\ Lsm!Next
                  /\ UNCHANGED <<vars, heaps, trees, vectors, blocks, queues>>
HeapNext   == Moves("heap") /\ Heap!Next
                  /\ UNCHANGED <<vars, lsms, trees, vectors, blocks, queues>>
TreeNext   == Moves("itree") /\ Tree!Next
                  /\ UNCHANGED <<vars, lsms, heaps, vectors, blocks, queues>>
VectorNext == Moves("vector") /\ Vector!Next
                  /\ UNCHANGED <<vars, lsms, heaps, trees, blocks, queues>>
ArrayNext  == Moves("block_array") /\ Array!Next
                  /\ UNCHANGED <<vars, lsms, heaps, trees, vectors, queues>>
QueueNext  == Moves("multiq") /\ Queue!Next
                  /\ UNCHANGED <<vars, lsms, heaps, trees, vectors, blocks>>

MCNext == ItemNext \/ LsmNext \/ HeapNext \/ TreeNext \/ VectorNext \/ ArrayNext \/ QueueNext
MCSpec == MCInit /\ [][MCNext]_
              <<part, vars, lsms, heaps, trees, vectors, blocks, queues>>

(* The list of blocks, and the assertions of lsm.cpp, which blocks that    *)
(* are lost or pruned too early would break: ListOK and AssertionsHold of  *)
(* SequentialLsm.                                                          *)
LsmOK == Lsm!ListOK /\ Lsm!AssertionsHold
(* The sequential LSM is a priority queue.                                 *)
LsmImplementsQueue == Lsm!ImplementsQueue
(* The heap behind GlobalLock is a priority queue.                         *)
HeapImplementsQueue == Heap!ImplementsQueue
(* The rank tree is ordered, balanced and rightly counted.                 *)
TreeOK == Tree!TreeOK
(* The rank tree reports exact ranks.                                      *)
RankExact == Tree!RankExact
(* Threads that index the vector share its elements: OneElementPerIndex of *)
(* LockfreeVector.                                                         *)
OneElementPerIndex == Vector!OneElementPerIndex
(* The elements of an array of blocks are kept, and the counts of its     *)
(* range of candidates are right: NoneLost, RangeBounded of BlockArray.    *)
NoneLost     == Array!NoneLost
RangeBounded == Array!RangeBounded
(* The multiqueue is a relaxed pool: ImplementsPool of MultiQueue.         *)
QueueImplementsPool == Queue!ImplementsPool
=============================================================================
