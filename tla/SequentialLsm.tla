--------------------------- MODULE SequentialLsm ---------------------------
(***************************************************************************)
(* LSM<T> (sequential_lsm/lsm.cpp): a list of blocks of rising capacity,   *)
(* at most one of each, and two blocks of every size to build it from.     *)
(* The state is one record, and an operation is a function of it.          *)
(***************************************************************************)
EXTENDS Integers, Sequences, FiniteSets, FiniteSetsExt, SequencesExt

CONSTANTS Keys,
          Nothing,     \* what a failing delete_min returns, and an element not used
          MaxLevel,    \* bound: the largest level of a block
          MaxSize      \* bound: elements in the queue

VARIABLES lsm,   \* blk: every block; levels: m_blocks.size(); head: m_head; ok: no
                 \* assertion has failed
          out    \* what the last call returned

vars == <<lsm, out>>

Blocks == (0 .. MaxLevel) \X {1, 2}     \* m_blocks[i].first, .second
Null   == <<-1, 0>>
capacity(b) == 2 ^ b[1]
used(e)     == e # Nothing
NewBlock(b) == [used |-> FALSE, first |-> 0, size |-> 0, prev |-> Null, next |-> Null,
                elems |-> [n \in 0 .. (capacity(b) - 1) |-> Nothing]]

NewLsm == [blk |-> [b \in Blocks |-> NewBlock(b)], levels |-> 0, head |-> Null, ok |-> TRUE]

Init == lsm = NewLsm /\ out = Nothing

Check(s, p) == [s EXCEPT !.ok = @ /\ p]

(* unused_block(2^n): new blocks are allocated for a level that has none.  *)
Alloc(s, n) ==
    IF n < s.levels THEN s
    ELSE [Check(s, n = s.levels) EXCEPT !.levels = n + 1,
                                         !.blk[<<n, 1>>] = NewBlock(<<n, 1>>),
                                         !.blk[<<n, 2>>] = NewBlock(<<n, 2>>)]
unused_block(s, n) == <<n, IF s.blk[<<n, 1>>].used THEN 2 ELSE 1>>

(* The elements of a block in use from position "from" on, in order; what  *)
(* is moved out of a block is popped from it.                              *)
Elems(x, from) ==
    SelectSeq([n \in 1 .. (Cardinality(DOMAIN x.elems) - from) |-> x.elems[from + n - 1]], used)
Popped(x, from) ==
    [x EXCEPT !.elems = [n \in DOMAIN @ |-> IF n < from THEN @[n] ELSE Nothing],
              !.used = FALSE, !.first = 0, !.size = 0]
Filled(x, seq, size) ==
    [x EXCEPT !.elems = [n \in DOMAIN @ |-> IF n < Len(seq) THEN seq[n + 1] ELSE @[n]],
              !.used = TRUE, !.first = 0, !.size = size, !.prev = Null, !.next = Null]

(* On equal keys the right block goes first. *)
Merged(l, r) ==
    LET m[i \in 0 .. Len(l), j \in 0 .. Len(r)] ==
            IF i = Len(l) \/ j = Len(r) THEN SubSeq(l, i + 1, Len(l)) \o SubSeq(r, j + 1, Len(r))
            ELSE IF l[i + 1] < r[j + 1] THEN <<l[i + 1]>> \o m[i + 1, j]
            ELSE <<r[j + 1]>> \o m[i, j + 1]
    IN  m[0, 0]
merge(s, m, l, r) ==
    LET bs == s.blk
    IN  [Check(s, ~bs[m].used /\ m[1] = l[1] + 1 /\ l[1] = r[1]) EXCEPT
            !.blk[m] = Filled(@, Merged(Elems(bs[l], 0), Elems(bs[r], 0)),
                              bs[l].size + bs[r].size),
            !.blk[l] = Popped(@, 0),
            !.blk[r] = Popped(@, 0)]
shrink(s, d, that) ==
    LET x == s.blk[that]
    IN  [Check(s, ~s.blk[d].used /\ s.blk[d].size = 0 /\ d[1] = that[1] - 1) EXCEPT
            !.blk[d] = Filled(@, Elems(x, x.first), x.size),
            !.blk[that] = Popped(@, x.first)]

insert_between(s, b, prev, next) ==
    LET fwd == IF prev = Null THEN [s EXCEPT !.head = b] ELSE [s EXCEPT !.blk[prev].next = b]
        bwd == IF next = Null THEN fwd ELSE [fwd EXCEPT !.blk[next].prev = b]
    IN  [bwd EXCEPT !.blk[b].prev = prev, !.blk[b].next = next]

(* prune_last_block(): the two blocks of the last level are freed.         *)
prune_last_block(s) ==
    [Check(s, s.levels > 1 /\ \E j \in {1, 2} : s.blk[<<s.levels - 2, j>>].used)
        EXCEPT !.levels = @ - 1,
               !.blk = [b \in Blocks |-> IF b[1] = s.levels - 1 THEN NewBlock(b) ELSE @[b]]]

-----------------------------------------------------------------------------
RECURSIVE MergeUp(_, _)
MergeUp(s, b) ==
    IF s.head # Null /\ capacity(s.head) = capacity(b)
    THEN LET a == Alloc(s, b[1] + 1)
             m == unused_block(a, b[1] + 1)
         IN  MergeUp([merge(a, m, s.head, b) EXCEPT !.head = s.blk[s.head].next], m)
    ELSE insert_between(s, b, Null, s.head)

insert(k) ==
    /\ LET a == Alloc(lsm, 0)
           b == unused_block(a, 0)
           x == a.blk[b]
           put == [Check(a, ~x.used /\ x.size = 0 /\ ~used(x.elems[0]))
                      EXCEPT !.blk[b] = Filled(@, <<k>>, 1)]
       IN  lsm' = MergeUp(put, b)
    /\ out' = Nothing

List(s) ==
    LET at[n \in 0 .. MaxLevel + 1] ==
            IF n = 0 THEN s.head ELSE IF at[n - 1] = Null THEN Null ELSE s.blk[at[n - 1]].next
    IN  SelectSeq([n \in 1 .. MaxLevel + 2 |-> at[n - 1]], LAMBDA b : b # Null)
Peek(s, b) == s.blk[b].elems[s.blk[b].first]

(* Mutant: the last block that was allocated is freed even if the block    *)
(* was merged.                                                             *)
CompactPruned(s, best) ==
    LET x == s.blk[best]
        a == Alloc(s, best[1] - 1)
        b == unused_block(a, best[1] - 1)
        h == insert_between(shrink(a, b, best), b, x.prev, x.next)
        up == Alloc(h, b[1] + 1)
        m  == unused_block(up, b[1] + 1)
        mrg == IF x.prev # Null /\ capacity(x.prev) = capacity(b)
               THEN insert_between(merge(up, m, x.prev, b), m, h.blk[x.prev].prev, x.next)
               ELSE h
    IN  IF x.next = Null THEN prune_last_block(mrg) ELSE mrg

(* A block that is less than half full is copied to one of half the size,  *)
(* and merged with its predecessor if that has the same size; otherwise,   *)
(* if it was the last of the list, the blocks of its size are freed.       *)
Compact(s, best) ==
    LET x == s.blk[best]
        a == Alloc(s, best[1] - 1)
        b == unused_block(a, best[1] - 1)
        h == insert_between(shrink(a, b, best), b, x.prev, x.next)
        up == Alloc(h, b[1] + 1)
        m  == unused_block(up, b[1] + 1)
    IN  IF x.prev # Null /\ capacity(x.prev) = capacity(b)
        THEN insert_between(merge(up, m, x.prev, b), m, h.blk[x.prev].prev, x.next)
        ELSE IF x.next = Null THEN prune_last_block(h) ELSE h

(* Mutant: only the first block is looked at. *)
BestHead(s) == s.head

(* The first block, from the head on, with the smallest first element.     *)
Best(s) ==
    FoldLeft(LAMBDA b, l : IF Peek(s, l) < Peek(s, b) THEN l ELSE b, s.head, List(s))

delete_min ==
    /\ lsm.head # Null
    /\ LET best == Best(lsm)
           x    == lsm.blk[best]
           s    == [Check(lsm, x.size > 0 /\ used(x.elems[x.first])) EXCEPT
                       !.blk[best].elems[x.first] = Nothing,
                       !.blk[best].size = @ - 1, !.blk[best].first = @ + 1]
           rest == [s EXCEPT !.head = x.next, !.blk[best] = [@ EXCEPT !.used = FALSE, !.first = 0]]
       IN  /\ out' = x.elems[x.first]
           /\ lsm' = IF x.size = 1 /\ lsm.head = best
                     THEN IF x.next = Null THEN rest ELSE [rest EXCEPT !.blk[x.next].prev = Null]
                     ELSE IF x.size - 1 < capacity(best) \div 2 THEN Compact(s, best)
                     ELSE s

delete_min_empty ==
    /\ lsm.head = Null
    /\ out' = Nothing
    /\ UNCHANGED lsm

clear ==
    /\ lsm' = [NewLsm EXCEPT !.ok = lsm.ok]
    /\ out' = Nothing

Size(s) == MapThenSumSet(LAMBDA b : s.blk[b].size, ToSet(List(s)))

Next ==
    \/ Size(lsm) < MaxSize /\ \E k \in Keys : insert(k)
    \/ delete_min \/ delete_min_empty \/ clear

Spec == Init /\ [][Next]_vars

-----------------------------------------------------------------------------
(* The list is well formed: capacities rise, m_prev inverts m_next, all of *)
(* its blocks are allocated and marked as used and no other block is; the  *)
(* elements of a block are the m_size ones from m_first on, in order, at   *)
(* least half of what it can hold; no block that is not in the list has an *)
(* element left that a later merge would pick up.                          *)
ListOK ==
    LET list == List(lsm)
        alloc == {b \in Blocks : b[1] < lsm.levels}
    IN  /\ \A n \in DOMAIN list :
               LET x == lsm.blk[list[n]]
               IN  /\ x.prev = (IF n = 1 THEN Null ELSE list[n - 1])
                   /\ n > 1 => capacity(list[n - 1]) < capacity(list[n])
                   /\ x.size > 0 /\ 2 * x.size >= capacity(list[n])
                   /\ \A i \in DOMAIN x.elems :
                          used(x.elems[i]) <=> i \in x.first .. (x.first + x.size - 1)
                   /\ \A i \in x.first .. (x.first + x.size - 2) : x.elems[i] <= x.elems[i + 1]
        /\ ToSet(list) = {b \in alloc : lsm.blk[b].used}
        /\ \A b \in alloc \ ToSet(list) : \A e \in ToSet(lsm.blk[b].elems) : ~used(e)

(* No assertion of the code ever fails: two blocks per size are enough, a  *)
(* level is allocated only when all smaller ones are, and the last level   *)
(* is freed only when the one below it is in use.                          *)
AssertionsHold == lsm.ok

(* The LSM is a priority queue. *)
Bag ==
    LET slots == ToSet(List(lsm)) \X (0 .. (2 ^ MaxLevel - 1))
    IN  [k \in Keys |->
            Cardinality({x \in slots : x[2] < capacity(x[1]) /\ lsm.blk[x[1]].elems[x[2]] = k})]
Queue == INSTANCE PriorityQueue WITH bag <- Bag
ImplementsQueue == Queue!QueueSpec
=============================================================================
