----------------------------- MODULE BlockArray -----------------------------
(***************************************************************************)
(* block_array and block_pivots (shared_lsm/block_array_inl.h and          *)
(* block_pivots_inl.h): blocks of falling capacity and, for each, the      *)
(* range of entries lower .. upper-1 from which peek() picks at random.    *)
(*                                                                         *)
(* The module follows one array along the versions the shared LSM          *)
(* publishes: each version is a copy of the one before, changed by         *)
(* insert(), and what threads that peek do to copies of their own is lost  *)
(* to the others, which is a behaviour in which they did not peek.  Other  *)
(* threads take items between any two steps; an insert() and an iteration  *)
(* of the loop in peek() are one step each.                                *)
(***************************************************************************)
EXTENDS Integers, Sequences, FiniteSets, FiniteSetsExt, SequencesExt

CONSTANTS Rlx,         \* the relaxation parameter
          MaxKey,      \* numeric_limits<K>::max(); the minimum is 0
          Loads,       \* the blocks clients insert: [pow, keys]
          Callers,     \* the threads that insert
          MaxElements  \* bound: elements inserted

VARIABLES arr,       \* m_blocks[0 .. m_size - 1]
          piv,       \* m_pivots: upper, lower, max, count, csize
          inserted,  \* the number of elements inserted so far
          taken,     \* those whose item has been taken
          pc         \* where the thread is that uses the array

vars == <<arr, piv, inserted, taken, pc>>

INVALID == 2147483647             \* INVALID_COUNT_FOR_SIZE: size_t(-1), the largest size
B == INSTANCE Block WITH MaxPow <- 0, N <- 1, NoItem <- 0
capacity(b)  == 2 ^ b.pow
last(b)      == Len(b.xs)
peek_nth(b, n) == b.xs[n + 1]    \* indices count from 0, as in the code
Untaken(s) == SelectSeq(s, LAMBDA e : e.id \notin taken)

Init ==
    /\ arr = <<>>
    /\ piv = [upper |-> <<>>, lower |-> <<>>, max |-> 0, count |-> 0, csize |-> INVALID]
    /\ inserted = 0
    /\ taken = {}
    /\ pc = "idle"

-----------------------------------------------------------------------------
(* block_pivots.  p is a value of m_pivots, bs the blocks.                 *)

count_in(p, b) == p.upper[b] - p.lower[b]
RangeSize(p, bs) == MapThenSumSet(LAMBDA b : count_in(p, b), DOMAIN bs)

(* count(size): p with the cached count brought up to date. *)
count(p, bs) ==
    IF p.csize = Len(bs) THEN p
    ELSE [p EXCEPT !.count = RangeSize(p, bs), !.csize = Len(bs)]

mark_first_taken_in(p, b) ==
    [p EXCEPT !.lower[b] = @ + 1, !.count = IF b <= p.csize THEN @ - 1 ELSE @]

pivot_of(p, b) ==
    LET bound == IF b.first + Rlx + 1 < last(b) THEN b.first + Rlx + 1 ELSE last(b)
        above == {i \in b.first .. (bound - 1) :
                     peek_nth(b, i).id \notin taken /\ peek_nth(b, i).key > p.max}
    IN  Min(above \union {bound})

block_set(p, b, x) ==
    [p EXCEPT !.lower[b] = x.first, !.upper[b] = pivot_of(p, x), !.csize = INVALID]
block_insert(p, b, x) ==
    [p EXCEPT !.lower = InsertAt(@, b, x.first), !.upper = InsertAt(@, b, pivot_of(p, x)),
              !.csize = INVALID]

(* One pass of resize(): the entries behind the pivots that are not taken  *)
(* and not above mid are counted block by block, all but one of those with *)
(* the largest key so far for free, until the limit is exceeded.  That     *)
(* leaves the tentative pivots of the remaining blocks as they were.       *)
Behind(bs, pivots, mid) ==
    FlattenSeq([b \in DOMAIN bs |->
        SelectSeq([n \in 1 .. (last(bs[b]) - pivots[b]) |-> <<b, pivots[b] + n - 1>>],
                  LAMBDA at : LET e == peek_nth(bs[b], at[2])
                              IN  e.id \notin taken /\ e.key <= mid)])

KeyAt(bs, at) == peek_nth(bs[at[1]], at[2]).key
maximal_key(bs, found) == Max({KeyAt(bs, at) : at \in ToSet(found)} \union {0})
WithKey(bs, found, k) == Cardinality({n \in DOMAIN found : KeyAt(bs, found[n]) = k})
CORRECTED_TENTATIVE_COUNT(bs, n, found) ==
    n + Len(found) + 1 - WithKey(bs, found, maximal_key(bs, found))

(* The entry at which the limit is exceeded, or one past the last. *)
LimitAt(bs, n, found) ==
    Min({i \in DOMAIN found :
            CORRECTED_TENTATIVE_COUNT(bs, n, SubSeq(found, 1, i)) > Rlx + 1}
        \union {Len(found) + 1})

(* Where the pivot of a block goes: to the first entry above mid. *)
Passed(b, pivot, mid) ==
    Min({i \in pivot .. (last(b) - 1) :
            peek_nth(b, i).id \notin taken /\ peek_nth(b, i).key > mid}
        \union {IF pivot > last(b) THEN pivot ELSE last(b)})

PassTo(bs, r, mid, found, at) ==
    LET over == at <= Len(found)
    IN  [over |-> over,
         n |-> r.n + (IF over THEN at ELSE at - 1),
         maximal |-> maximal_key(bs, SubSeq(found, 1, IF over THEN at ELSE at - 1)),
         tentative |-> [b \in DOMAIN bs |->
             IF ~over \/ b < found[at][1] THEN Passed(bs[b], r.pivots[b], mid)
             ELSE IF b = found[at][1] THEN found[at][2]
             ELSE r.tentative[b]]]
PassOver(bs, r, mid, found) == PassTo(bs, r, mid, found, LimitAt(bs, r.n, found))
Pass(bs, r, mid) == PassOver(bs, r, mid, Behind(bs, r.pivots, mid))

(* The loop of resize(): bisection of the keys from lower to upper.        *)
(* pivots and tentative_pivots are two arrays, one of them m_upper, that   *)
(* swap their roles when a partial solution is kept.                       *)
Middle(r) == r.lower + (r.upper - r.lower) \div 2
out(p, r) == [p EXCEPT !.upper = IF r.swapped THEN r.tentative ELSE r.pivots]

Tried(r, s) == [r EXCEPT !.tentative = s.tentative]
Kept(r, s) == [r EXCEPT !.pivots = s.tentative, !.tentative = r.pivots, !.swapped = ~@, !.n = s.n]

RECURSIVE Bisect(_, _, _), BisectOn(_, _, _, _, _)
Bisect(bs, p, r) ==
    IF r.upper < r.lower THEN out(p, r)
    ELSE BisectOn(bs, p, r, Middle(r), Pass(bs, r, Middle(r)))
BisectOn(bs, p, r, mid, s) ==
    IF s.over
    THEN IF r.upper = mid THEN out(p, Tried(r, s))
         ELSE Bisect(bs, p, [Tried(r, s) EXCEPT !.upper = Min({mid, s.maximal})])
    ELSE IF s.n >= Rlx \div 2 \/ r.lower = mid
    THEN [p EXCEPT !.upper = s.tentative, !.max = mid]
    ELSE Bisect(bs, p, [(IF s.n > r.n THEN Kept(r, s) ELSE Tried(r, s))
                           EXCEPT !.lower = Max({mid, s.maximal})])

resize(bs, p, n, lower, upper) ==
    LET q == Bisect(bs, p, [pivots |-> p.upper, tentative |-> p.upper, swapped |-> FALSE,
                            n |-> n, lower |-> lower, upper |-> upper])
    IN  count([q EXCEPT !.csize = INVALID], bs)

grow(bs, p, n) == resize(bs, p, n, p.max, MaxKey)

(* block::peek from index first on: the first entry that is not taken.     *)
PeekIx(b, first) ==
    Min({i \in first .. (last(b) - 1) : peek_nth(b, i).id \notin taken}
        \union {IF first > last(b) THEN first ELSE last(b)})

(* shrink(): the range is reset to the smallest element (the first one met *)
(* of equal keys) and extended from there.                                 *)
shrink(bs, p) ==
    LET ix   == [b \in DOMAIN bs |-> PeekIx(bs[b], Max({p.lower[b], bs[b].first}))]
        live == {b \in DOMAIN bs : ix[b] < last(bs[b])}
        keyOf(b) == peek_nth(bs[b], ix[b]).key
        least == CHOOSE b \in live : \A c \in live :
                     keyOf(b) < keyOf(c) \/ (keyOf(b) = keyOf(c) /\ b <= c)
        q    == [p EXCEPT !.lower = ix, !.upper = ix]
    IN  IF live = {} THEN q
        ELSE resize(bs, [q EXCEPT !.upper[least] = @ + 1, !.count = 1, !.csize = Len(bs)],
                    1, keyOf(least), p.max)

(* shrink() calls peek(), by which the owner of a block moves its m_first. *)
Shrunk(bs, p, caller) ==
    [b \in DOMAIN bs |->
        LET from == Max({p.lower[b], bs[b].first})
            ix   == PeekIx(bs[b], from)
        IN  IF bs[b].owner = caller /\ ix > from THEN [bs[b] EXCEPT !.first = ix] ELSE bs[b]]

-----------------------------------------------------------------------------
(* insert(block) builds the next version from blocks of the caller's pool. *)

Block(caller, p, xs) == [pow |-> p, owner |-> caller, first |-> 0, xs |-> xs]
EntriesFrom(b, first) == SubSeq(b.xs, first + 1, last(b))

(* merge(): m_skipped_prunes is uninitialised, so whether the merges of an *)
(* insert() prune is open.                                                 *)
merge(caller, prune, p, lhs, lfirst, rhs, rfirst) ==
    LET all == B!Merged(EntriesFrom(lhs, lfirst), EntriesFrom(rhs, rfirst))
    IN  Block(caller, p, IF prune THEN Untaken(all) ELSE all)

(* The new block is merged with blocks of equal capacity, from block i     *)
(* down, then inserted.                                                    *)
RECURSIVE Place(_, _, _, _, _, _)
Place(bs, p, x, i, caller, prune) ==
    IF i > 0 /\ capacity(bs[i]) = capacity(x)
    THEN Place(RemoveAt(bs, i),
               [p EXCEPT !.lower = RemoveAt(@, i), !.upper = RemoveAt(@, i)],
               merge(caller, prune, x.pow + 1, x, x.first, bs[i], p.lower[i]),
               i - 1, caller, prune)
    ELSE [arr |-> InsertAt(bs, i + 1, x), piv |-> block_insert(p, i + 1, x)]

(* Mutant: the pivots of a block that is replaced by its copy are kept. *)
ShrinkBlocksOnly(v, caller) ==
    LET bs == v.arr
        sparse(b) == last(bs[b]) - v.piv.lower[b] < capacity(bs[b]) \div 2
        half(b) == Block(caller, bs[b].pow - 1, Untaken(EntriesFrom(bs[b], bs[b].first)))
    IN  [v EXCEPT !.arr = [b \in DOMAIN bs |-> IF sparse(b) THEN half(b) ELSE bs[b]]]

(* compact(), first half: blocks that are less than half full are copied.  *)
ShrinkBlocks(v, caller) ==
    LET bs == v.arr
        sparse(b) == last(bs[b]) - v.piv.lower[b] < capacity(bs[b]) \div 2
        half(b) == Block(caller, bs[b].pow - 1, Untaken(EntriesFrom(bs[b], bs[b].first)))
        all == [b \in DOMAIN bs |-> IF sparse(b) THEN half(b) ELSE bs[b]]
    IN  [arr |-> all,
         piv |-> FoldLeft(LAMBDA p, b : IF sparse(b) THEN block_set(p, b, all[b]) ELSE p,
                          v.piv, [b \in DOMAIN bs |-> b])]

(* compact(), second half: neighbours whose capacity does not fall are     *)
(* merged, from the smallest blocks up.                                    *)
RECURSIVE MergeBlocks(_, _, _, _)
MergeBlocks(v, i, caller, prune) ==
    IF i = 0 THEN v
    ELSE IF v.arr[i].pow > v.arr[i + 1].pow THEN MergeBlocks(v, i - 1, caller, prune)
    ELSE LET bs == v.arr
             m  == merge(caller, prune, Max({bs[i].pow, bs[i + 1].pow}) + 1,
                         bs[i], v.piv.lower[i], bs[i + 1], v.piv.lower[i + 1])
         IN  MergeBlocks([arr |-> [RemoveAt(bs, i + 1) EXCEPT ![i] = m],
                          piv |-> block_set([v.piv EXCEPT !.lower = RemoveAt(@, i + 1),
                                                          !.upper = RemoveAt(@, i + 1)], i, m)],
                         i - 1, caller, prune)

Reset(bs, p, caller) == [arr |-> Shrunk(bs, p, caller), piv |-> shrink(bs, p)]

(* Mutant: the limit is twice as large. *)
AdjustedLate(bs, p, caller) ==
    IF p.count > 2 * Rlx + 1 THEN Reset(bs, p, caller)
    ELSE [arr |-> bs, piv |-> IF p.count < Rlx \div 2 THEN grow(bs, p, p.count) ELSE p]

(* The last part of insert(): too large a range is reset, too small a one  *)
(* extended.                                                               *)
Adjusted(bs, p, caller) ==
    IF p.count > Rlx + 1 THEN Reset(bs, p, caller)
    ELSE [arr |-> bs, piv |-> IF p.count < Rlx \div 2 THEN grow(bs, p, p.count) ELSE p]

insert(caller, x, prune) ==
    /\ pc = "idle"
    /\ \E placed \in {Place(arr, piv, x,
                           Cardinality({b \in DOMAIN arr : capacity(arr[b]) >= capacity(x)}),
                           caller, prune)} :
       \E v \in {MergeBlocks(ShrinkBlocks(placed, caller), Len(placed.arr) - 1, caller, prune)} :
       \E w \in {Adjusted(v.arr, count(v.piv, v.arr), caller)} :
           arr' = w.arr /\ piv' = w.piv
    /\ inserted' = inserted + Len(x.xs)
    /\ UNCHANGED <<taken, pc>>

-----------------------------------------------------------------------------
(* peek() on a copy of the array.  Its loop always finds the entry it has  *)
(* selected, because the count is that of the ranges (CountExact).         *)

peek ==
    /\ pc = "idle" /\ pc' = "peek"
    /\ UNCHANGED <<arr, piv, inserted, taken>>

Grown(p) == IF p.count < Rlx \div 2 THEN grow(arr, p, p.count) ELSE p
Counted == Grown(count(piv, arr))

peek_empty ==
    /\ pc = "peek"
    /\ Counted.count = 0
    /\ piv' = Counted /\ pc' = "idle"
    /\ UNCHANGED <<arr, inserted, taken>>

(* Entry i of block b is selected: the n-th of the range. *)
Selected(b, i) ==
    LET q == Counted
    IN  /\ i \in q.lower[b] .. (q.upper[b] - 1)
        /\ MapThenSumSet(LAMBDA c : count_in(q, c), 1 .. (b - 1)) + i - q.lower[b] < q.count

peek_found(b, i) ==
    /\ pc = "peek"
    /\ Selected(b, i)
    /\ peek_nth(arr[b], i).id \notin taken
    /\ piv' = Counted /\ pc' = "idle"
    /\ UNCHANGED <<arr, inserted, taken>>

(* It has been taken: the taken entries at the start of the block's range  *)
(* are removed from it.                                                    *)
Mark(p, b) ==
    LET lead == Min({i \in p.lower[b] .. (p.upper[b] - 1) :
                        peek_nth(arr[b], i).id \notin taken} \union {p.upper[b]}) - p.lower[b]
    IN  FoldLeft(LAMBDA q, n : mark_first_taken_in(q, b), p, [n \in 1 .. lead |-> n])

peek_marks(b, i) ==
    /\ pc = "peek"
    /\ Selected(b, i)
    /\ peek_nth(arr[b], i).id \in taken
    /\ piv' = Mark(Counted, b)
    /\ UNCHANGED <<arr, inserted, taken, pc>>

(* Any thread takes an item: one that peek() found, or one it met in a     *)
(* distributed LSM before the block was handed over.                       *)
take(id) ==
    /\ taken' = taken \union {id}
    /\ UNCHANGED <<arr, piv, inserted, pc>>

-----------------------------------------------------------------------------
(* Elements are numbered in the order of insertion. *)
Fresh(keys) == [n \in DOMAIN keys |-> [id |-> inserted + n, key |-> keys[n]]]

Next ==
    \/ \E c \in Callers, l \in Loads, prune \in BOOLEAN :
           /\ inserted + Len(l.keys) <= MaxElements
           /\ insert(c, Block(c, l.pow, Fresh(l.keys)), prune)
    \/ peek \/ peek_empty
    \/ \E b \in DOMAIN arr : \E i \in 0 .. (last(arr[b]) - 1) : peek_found(b, i) \/ peek_marks(b, i)
    \/ \E id \in (1 .. inserted) \ taken : take(id)

Spec == Init /\ [][Next]_vars

-----------------------------------------------------------------------------
Entry == [id : 1 .. MaxElements, key : 0 .. MaxKey]
At(b, i) == peek_nth(arr[b], i)
InRange(b) == piv.lower[b] .. (piv.upper[b] - 1)

(* Types, with the assertions of the code: capacities fall strictly, and   *)
(* every range lies in the written part of its block.                      *)
TypeOK ==
    /\ \A b \in DOMAIN arr :
           /\ arr[b].xs \in Seq(Entry) /\ last(arr[b]) <= capacity(arr[b])
           /\ b > 1 => capacity(arr[b]) < capacity(arr[b - 1])
           /\ 0 <= piv.lower[b] /\ piv.lower[b] <= piv.upper[b] /\ piv.upper[b] <= last(arr[b])
    /\ DOMAIN piv.lower = DOMAIN arr /\ DOMAIN piv.upper = DOMAIN arr
    /\ piv.max \in 0 .. MaxKey /\ piv.count \in Nat /\ piv.csize \in Nat
    /\ inserted \in 0 .. MaxElements /\ taken \subseteq 1 .. inserted
    /\ pc \in {"idle", "peek"}

(* The cached count, where it is valid, is that of the ranges: "int        *)
(* selected_element = m_gen() % ncandidates" selects an entry of a range.  *)
CountExact == piv.csize = Len(arr) => piv.count = RangeSize(piv, arr)

(* peek() reports EMPTY only when everything has been taken: the search    *)
(* for a range never ends with an empty one while there are elements.      *)
EmptyOnlyIfTaken == pc = "peek" /\ Counted.count = 0 => (1 .. inserted) \subseteq taken

(* No element is lost and none is stored twice, and each stays reachable:  *)
(* the array is well-formed, its count right and EMPTY the truth, and an   *)
(* element that nobody took is in exactly one block, not below the block's *)
(* m_first nor below the block's lower pivot, from which merges read.      *)
NoneLost ==
    /\ TypeOK /\ CountExact /\ EmptyOnlyIfTaken
    /\ \A id \in (1 .. inserted) \ taken : 1 =
        MapThenSumSet(LAMBDA b : Cardinality({i \in arr[b].first .. (last(arr[b]) - 1) :
                                                 i >= piv.lower[b] /\ At(b, i).id = id}),
                      DOMAIN arr)

Candidates == UNION {{At(b, i) : i \in InRange(b)} : b \in DOMAIN arr}
LiveEntries == {e \in UNION {ToSet(arr[b].xs) : b \in DOMAIN arr} : e.id \notin taken}

(* The range is as narrow as Rlx promises: the elements peek() chooses     *)
(* from are, apart from one key that may occur any number of times, at     *)
(* most Rlx, however blocks were merged, shrunk and added and the range    *)
(* was reset and extended.                                                 *)
RangeBounded ==
    \E k \in 0 .. MaxKey :
        Cardinality({e \in Candidates : e.id \notin taken /\ e.key # k}) <= Rlx

(* block_pivots.h: "For each block in the array, stores an index i such    *)
(* that for all indices j < i, block[j] is guaranteed to be within the k   *)
(* smallest keys of the array."                                            *)
WithinKSmallest ==
    \A c \in Candidates : c.id \notin taken =>
        Cardinality({e.key : e \in {f \in LiveEntries : f.key < c.key}}) <= Rlx
=============================================================================
