------------------------------ MODULE DistLsm ------------------------------
(***************************************************************************)
(* dist_lsm / dist_lsm_local (dist_lsm/dist_lsm_local_inl.h): every thread *)
(* owns a list of blocks of strictly falling capacity, linked by m_next    *)
(* and m_prev, a cached best item and a block of items spied from another  *)
(* thread.  Each iteration of a loop is an action, and so is every read a  *)
(* spying thread makes of its victim's blocks; other threads take items    *)
(* and spy between any two of them.  An item is initialised and taken in   *)
(* one step here: module Item splits those.                                *)
(***************************************************************************)
EXTENDS Block, FiniteSets, FiniteSetsExt

CONSTANTS Threads, Items, Keys,
          Owner,       \* the thread whose item_allocator holds the item
          MaxInserts,  \* bound: insert() calls of each thread
          Ops,         \* the other calls of each thread
          Shared,      \* slsm # nullptr: the lists belong to a k-LSM
          Rlx          \* the relaxation parameter

ASSUME DistAssumption ==
    /\ NoItem \notin Items
    /\ Keys \subseteq Nat \ {0}
    /\ Owner \in [Items -> Threads]
    /\ MaxInserts \in [Threads -> Nat]
    /\ Ops \in [Threads -> SUBSET {"delete_min", "find_min", "spy"}]
    /\ Shared \in BOOLEAN
    /\ Rlx \in Nat

VARIABLES version, key,        \* the fields of every item
          blk,                 \* the blocks of each thread's block_storage
          head, tail, spied,   \* m_head, m_tail, m_spied
          cached,              \* m_cached_best
          shared,              \* block_items handed to the shared LSM
          pc, loc,             \* where each thread is, and its local variables
          fault                \* set_used() was called on a block in use

vars == <<version, key, blk, head, tail, spied, cached, shared, pc, loc, fault>>
lists == <<head, tail, spied, cached>>

BlockItems == [item : Items, ver : Nat, key : Keys]
(* op: the call; b: the block at hand (insert_block, i, the block copied   *)
(* to); other, del: other_block, delete_block; best, cand: of peek();      *)
(* victim, from, src, end, n: of spy() and the copy() it calls.            *)
Idle == [op |-> "none", b |-> Null, other |-> Null, del |-> Null, best |-> EMPTY,
         cand |-> EMPTY, retried |-> FALSE, victim |-> 0, from |-> Null,
         src |-> 0, end |-> 0, n |-> 0]

used(i) == version[i] % 2 = 1
inserts(t) == MapThenSumSet(LAMBDA i : (version[i] + 1) \div 2, {i \in Items : Owner[i] = t})
Is(e) == e # EMPTY
Taken(e) == taken(version, e)

Init ==
    /\ version = [i \in Items |-> 0]
    /\ key = [i \in Items |-> 0]    \* written before it is read
    /\ blk = [t \in Threads |-> [b \in Blocks |-> NewBlock(b)]]
    /\ head = [t \in Threads |-> Null]
    /\ tail = [t \in Threads |-> Null]
    /\ spied = [t \in Threads |-> Null]
    /\ cached = [t \in Threads |-> EMPTY]
    /\ shared = {}
    /\ pc = [t \in Threads |-> "idle"]
    /\ loc = [t \in Threads |-> Idle]
    /\ fault = FALSE

Goto(t, p, l) ==
    /\ pc' = [pc EXCEPT ![t] = p]
    /\ loc' = [loc EXCEPT ![t] = l]
Return(t) == Goto(t, "idle", Idle)

(* What the array of a block holds outside its active range is kept only   *)
(* while another thread is copying the block: nobody else ever reads it.   *)
Copied(t, b) == \E s \in Threads : loc[s].victim = t /\ loc[s].from = b
SetBlocks(t, bs) ==
    blk' = [blk EXCEPT ![t] = [b \in Blocks |->
               IF Copied(t, b) THEN bs[b] ELSE Trim(bs[b])]]

CheckUnused(t, b) == fault' = (fault \/ blk[t][b].used)

-----------------------------------------------------------------------------
(* insert(key, val, slsm): acquire() an item that is not in use (any of    *)
(* the owner's), update the cached best item, put a block of size 1 up for *)
(* merging.                                                                *)

CachedAfterInsert(t, e) ==
    IF ~Is(cached[t]) \/ e.key < cached[t].key THEN e
    ELSE IF Taken(cached[t]) THEN EMPTY
    ELSE cached[t]

insert(t, i, k) ==
    /\ pc[t] = "idle"
    /\ Owner[i] = t /\ ~used(i)
    /\ inserts(t) < MaxInserts[t]
    /\ LET e == [item |-> i, ver |-> version[i] + 1, key |-> k]
           b == get_block(blk[t], 0)
       IN  /\ version' = [version EXCEPT ![i] = e.ver]
           /\ key' = [key EXCEPT ![i] = k]
           /\ cached' = [cached EXCEPT ![t] = CachedAfterInsert(t, e)]
           /\ CheckUnused(t, b)
           /\ SetBlocks(t, [blk[t] EXCEPT ![b] = insert_tail(set_used(@), e)])
           /\ Goto(t, "merge", [Idle EXCEPT !.b = b, !.other = tail[t]])
    /\ UNCHANGED <<head, tail, spied, shared>>

(* The condition of the loop of merge_insert. *)
Mergeable(t) ==
    /\ loc[t].other # Null
    /\ pow(loc[t].b) = pow(loc[t].other)

merge(t) ==
    /\ pc[t] = "merge"
    /\ Mergeable(t)
    /\ LET bs    == blk[t]
           b     == loc[t].b
           other == loc[t].other
           fits  == size(bs[b]) + size(bs[other]) <= capacity(b)
           m     == get_block(bs, IF fits THEN pow(b) ELSE pow(b) + 1)
       IN  /\ fits \/ pow(b) < MaxPow    \* bound: MaxPow, one less than MAX_BLOCKS
           /\ CheckUnused(t, m)
           /\ \E prune \in BOOLEAN :
                  SetBlocks(t, [bs EXCEPT
                      ![m] = MergeInto(version, set_used(@), bs[b], bs[other], prune),
                      ![b] = Unused(@)])
           /\ Goto(t, "merge", [loc[t] EXCEPT !.b = m, !.del = other,
                                              !.other = bs[other].prev])
    /\ UNCHANGED <<version, key, head, tail, spied, cached, shared>>

(* The blocks from b on along m_next, up to (not including) "end": they    *)
(* are set unused by the loops that follow m_next.                         *)
Chain(bs, b, end) ==
    LET at[n \in 0 .. (MaxPow + 1)] ==
            IF n = 0 THEN b
            ELSE IF at[n - 1] \in {Null, end} THEN Null ELSE bs[at[n - 1]].next
    IN  {at[n] : n \in DOMAIN at} \ {Null, end}
Release(bs, B) == [b \in Blocks |-> IF b \in B THEN Unused(bs[b]) ELSE bs[b]]

ToShared(t) ==
    /\ pc[t] = "merge" /\ ~Mergeable(t)
    /\ Shared /\ size(blk[t][loc[t].b]) >= (Rlx + 1) \div 2

(* slsm->insert(insert_block): the shared LSM copies the entries that are  *)
(* not taken.                                                              *)
Entries(x) == {x.xs[n] : n \in x.first .. (x.last - 1)}
(* Mutant: the test of taken() is inverted. *)
HandedTaken(t) == {e \in Entries(blk[t][loc[t].b]) : Taken(e)}

Handed(t) == {e \in Entries(blk[t][loc[t].b]) : ~Taken(e)}

(* Mutant: m_head keeps pointing at the block that was handed over. *)
hand_over_keeps_head(t) ==
    /\ ToShared(t)
    /\ LET bs    == blk[t]
           other == loc[t].other
           mine  == IF other = Null THEN bs ELSE [bs EXCEPT ![other].next = Null]
       IN  /\ shared' = shared \union Handed(t)
           /\ tail' = [tail EXCEPT ![t] = other]
           /\ SetBlocks(t, Release(mine, {loc[t].b} \union Chain(bs, loc[t].del, Null)))
    /\ Return(t)
    /\ UNCHANGED <<version, key, head, spied, cached, fault>>

hand_over(t) ==
    /\ ToShared(t)
    /\ LET bs    == blk[t]
           b     == loc[t].b
           other == loc[t].other
           mine  == IF other = Null THEN bs ELSE [bs EXCEPT ![other].next = Null]
       IN  /\ shared' = shared \union Handed(t)
           /\ head' = IF other = Null THEN [head EXCEPT ![t] = Null] ELSE head
           /\ tail' = [tail EXCEPT ![t] = other]
           /\ SetBlocks(t, Release(mine, {b} \union Chain(bs, loc[t].del, Null)))
    /\ Return(t)
    /\ UNCHANGED <<version, key, spied, cached, fault>>

link(t) ==
    /\ pc[t] = "merge" /\ ~Mergeable(t)
    /\ ~ToShared(t)
    /\ LET bs    == blk[t]
           b     == loc[t].b
           other == loc[t].other
           back  == [bs EXCEPT ![b].prev = other]
           mine  == IF other = Null THEN back ELSE [back EXCEPT ![other].next = b]
       IN  /\ head' = IF other = Null THEN [head EXCEPT ![t] = b] ELSE head
           /\ tail' = [tail EXCEPT ![t] = b]
           /\ SetBlocks(t, Release(mine, Chain(bs, loc[t].del, Null)))
    /\ Return(t)
    /\ UNCHANGED <<version, key, spied, cached, shared, fault>>

-----------------------------------------------------------------------------
(* delete_min(), find_min() and spy() start. *)

delete_min(t) ==
    /\ pc[t] = "idle" /\ "delete_min" \in Ops[t]
    /\ Goto(t, "peek", [Idle EXCEPT !.op = "delete_min"])
    /\ UNCHANGED <<version, key, blk, lists, shared, fault>>

find_min(t) ==
    /\ pc[t] = "idle" /\ "find_min" \in Ops[t]
    /\ Goto(t, "peek", [Idle EXCEPT !.op = "find_min"])
    /\ UNCHANGED <<version, key, blk, lists, shared, fault>>

call_spy(t) ==
    /\ pc[t] = "idle" /\ "spy" \in Ops[t]
    /\ Goto(t, "spy", [Idle EXCEPT !.op = "spy"])
    /\ UNCHANGED <<version, key, blk, lists, shared, fault>>

(* What the caller does once peek(best) returns: find_min is done;         *)
(* delete_min takes the item, or spies once and peeks again.               *)
AfterPeek(t, best) ==
    \/ loc[t].op = "find_min" /\ Return(t)
    \/ /\ loc[t].op = "delete_min" /\ Is(best)
       /\ Goto(t, "take", [Idle EXCEPT !.op = "delete_min", !.best = best])
    \/ /\ loc[t].op = "delete_min" /\ ~Is(best) /\ ~loc[t].retried
       /\ Goto(t, "spy", [Idle EXCEPT !.op = "delete_min"])
    \/ loc[t].op = "delete_min" /\ ~Is(best) /\ loc[t].retried /\ Return(t)

(* Mutant: a cached item that was taken is returned again. *)
CachedAlways(t) == Is(cached[t])

CachedValid(t) == Is(cached[t]) /\ ~Taken(cached[t])

peek_cached(t) ==
    /\ pc[t] = "peek"
    /\ CachedValid(t)
    /\ AfterPeek(t, cached[t])
    /\ UNCHANGED <<version, key, blk, lists, shared, fault>>

peek_scan(t) ==
    /\ pc[t] = "peek"
    /\ ~CachedValid(t)
    /\ Goto(t, "scan", [loc[t] EXCEPT !.b = head[t]])
    /\ UNCHANGED <<version, key, blk, lists, shared, fault>>

(* auto candidate = i->peek() *)
scan_block(t) ==
    /\ pc[t] = "scan"
    /\ loc[t].b # Null
    /\ LET b == loc[t].b
       IN  /\ SetBlocks(t, [blk[t] EXCEPT ![b] = PeekBlock(version, @)])
           /\ Goto(t, "shrink", [loc[t] EXCEPT !.cand = PeekItem(version, blk[t][b])])
    /\ UNCHANGED <<version, key, lists, shared, fault>>

Sparse(t) == size(blk[t][loc[t].b]) <= capacity(loc[t].b) \div 2

(* Mutant: the next block's m_prev is left pointing at the unlinked one. *)
unlink_keeps_prev(t) ==
    /\ pc[t] = "shrink"
    /\ size(blk[t][loc[t].b]) = 0
    /\ LET bs  == blk[t]
           b   == loc[t].b
           nxt == bs[b].next
           prv == bs[b].prev
           bwd == IF b = head[t] THEN bs ELSE [bs EXCEPT ![prv].next = nxt]
       IN  /\ tail' = IF b = tail[t] THEN [tail EXCEPT ![t] = prv] ELSE tail
           /\ head' = IF b = head[t] THEN [head EXCEPT ![t] = nxt] ELSE head
           /\ SetBlocks(t, Release(bwd, {b}))
    /\ AfterPeek(t, loc[t].best)
    /\ UNCHANGED <<version, key, spied, cached, shared, fault>>

(* An empty block is unlinked, and peek() returns. *)
unlink(t) ==
    /\ pc[t] = "shrink"
    /\ size(blk[t][loc[t].b]) = 0
    /\ LET bs  == blk[t]
           b   == loc[t].b
           nxt == bs[b].next
           prv == bs[b].prev
           fwd == IF b = tail[t] THEN bs ELSE [bs EXCEPT ![nxt].prev = prv]
           bwd == IF b = head[t] THEN fwd ELSE [fwd EXCEPT ![prv].next = nxt]
       IN  /\ tail' = IF b = tail[t] THEN [tail EXCEPT ![t] = prv] ELSE tail
           /\ head' = IF b = head[t] THEN [head EXCEPT ![t] = nxt] ELSE head
           /\ SetBlocks(t, Release(bwd, {b}))
    /\ AfterPeek(t, loc[t].best)
    /\ UNCHANGED <<version, key, spied, cached, shared, fault>>

(* A block that is at most half full is copied into one of half the size,  *)
(* which is merged with the next block if that has the same capacity.      *)
shrink(t) ==
    /\ pc[t] = "shrink"
    /\ Sparse(t) /\ size(blk[t][loc[t].b]) # 0
    /\ LET bs    == blk[t]
           b     == loc[t].b
           s     == get_block(bs, pow(b) - 1)
           nxt   == bs[b].next
           half  == [bs EXCEPT ![s] = [CopyInto(version, set_used(@), bs[b])
                                          EXCEPT !.next = nxt, !.prev = bs[b].prev]]
           both  == nxt # Null /\ pow(s) = pow(nxt)
           m     == get_block(half, pow(s) + 1)
           n     == IF both THEN m ELSE s
           after == IF both THEN half[nxt].next ELSE nxt
       IN  /\ fault' = (fault \/ bs[s].used \/ (both /\ half[m].used))
           /\ \E prune \in IF both THEN BOOLEAN ELSE {FALSE} :
              LET full  == IF both
                           THEN [half EXCEPT
                                   ![m] = [MergeInto(version, set_used(@), half[s], half[nxt],
                                                     prune)
                                              EXCEPT !.next = after, !.prev = half[s].prev],
                                   ![s] = Unused(@)]
                           ELSE half
                  fwd   == IF after = Null THEN full ELSE [full EXCEPT ![after].prev = n]
                  prv   == full[n].prev
                  bwd   == IF prv = Null THEN fwd ELSE [fwd EXCEPT ![prv].next = n]
                  free  == Release(bwd, Chain(bwd, b, after))
              IN  /\ SetBlocks(t, [free EXCEPT ![n] = PeekBlock(version, @)])
                  /\ tail' = IF after = Null THEN [tail EXCEPT ![t] = n] ELSE tail
                  /\ head' = IF prv = Null THEN [head EXCEPT ![t] = n] ELSE head
                  /\ Goto(t, "shrink", [loc[t] EXCEPT !.b = n,
                                                      !.cand = PeekItem(version, free[n])])
    /\ UNCHANGED <<version, key, spied, cached, shared>>

(* Mutant: the first candidate wins. *)
BetterFirst(cand, best) == ~Is(best)

(* The block is dense enough: compare its candidate, go to the next one. *)
Better(cand, best) == ~Is(best) \/ (Is(cand) /\ cand.key < best.key)

advance(t) ==
    /\ pc[t] = "shrink"
    /\ ~Sparse(t)
    /\ Goto(t, "scan", [loc[t] EXCEPT
                           !.best = IF Better(loc[t].cand, @) THEN loc[t].cand ELSE @,
                           !.cand = EMPTY,
                           !.b = blk[t][loc[t].b].next])
    /\ UNCHANGED <<version, key, blk, lists, shared, fault>>

scan_end(t) ==
    /\ pc[t] = "scan"
    /\ loc[t].b = Null
    /\ LET look == ~Is(loc[t].best) /\ spied[t] # Null
           best == IF look THEN PeekItem(version, blk[t][spied[t]]) ELSE loc[t].best
       IN  /\ IF look THEN SetBlocks(t, [blk[t] EXCEPT ![spied[t]] = PeekBlock(version, @)])
                      ELSE UNCHANGED blk
           /\ cached' = [cached EXCEPT ![t] = best]
           /\ AfterPeek(t, best)
    /\ UNCHANGED <<version, key, head, tail, spied, shared, fault>>

(* What peek() returns, at the step that ends it. *)
Found(t) ==
    CASE pc[t] = "peek"   -> cached[t]
      [] pc[t] = "shrink" -> loc[t].best
      [] pc[t] = "scan"   -> cached'[t]

(* best.m_item->take(best.m_version, key, val) *)
take(t) ==
    /\ pc[t] = "take"
    /\ version' = [version EXCEPT ![loc[t].best.item] =
                      IF Taken(loc[t].best) THEN @ ELSE @ + 1]
    /\ Return(t)
    /\ UNCHANGED <<key, blk, lists, shared, fault>>

(* A thread takes an item it found in the shared LSM. *)
take_shared(t) ==
    /\ pc[t] = "idle"
    /\ \E e \in shared :
           /\ ~Taken(e)
           /\ version' = [version EXCEPT ![e.item] = @ + 1]
           /\ shared' = shared \ {e}
    /\ UNCHANGED <<key, blk, lists, pc, loc, fault>>

-----------------------------------------------------------------------------
(* spy(parent): a random other thread is the victim.                       *)

(* With a list of its own or unread spied items the thread gives up. *)
MaySpy(t) ==
    /\ tail[t] = Null
    /\ spied[t] # Null => ~Is(PeekItem(version, blk[t][spied[t]]))
SpyPeeked(t) ==
    IF tail[t] # Null \/ spied[t] = Null THEN blk[t]
    ELSE [blk[t] EXCEPT ![spied[t]] = PeekBlock(version, @)]

spy_abort(t) ==
    /\ pc[t] = "spy"
    /\ \/ Threads = {t}
       \/ ~MaySpy(t)
       \/ \E v \in Threads \ {t} : head[v] = Null
    /\ SetBlocks(t, SpyPeeked(t))
    /\ Return(t)
    /\ UNCHANGED <<version, key, lists, shared, fault>>

spy(t) ==
    /\ pc[t] = "spy"
    /\ MaySpy(t)
    /\ \E v \in Threads \ {t} :
           /\ head[v] # Null
           /\ LET b == get_block(blk[t], pow(head[v]))
              IN  /\ CheckUnused(t, b)
                  /\ SetBlocks(t, [SpyPeeked(t) EXCEPT ![b] = set_used(@)])
                  /\ Goto(t, "copy_first", [loc[t] EXCEPT !.b = b, !.victim = v,
                                                          !.from = head[v]])
    /\ UNCHANGED <<version, key, lists, shared>>

(* insert_block->copy(spied_block): the victim goes on using its block,    *)
(* and may have released and reused it, while the entries are read.        *)
Victim(t) == blk[loc[t].victim][loc[t].from]

copy_first(t) ==
    /\ pc[t] = "copy_first"
    /\ Goto(t, "copy_last", [loc[t] EXCEPT !.src = Victim(t).first])
    /\ UNCHANGED <<version, key, blk, lists, shared, fault>>

copy_last(t) ==
    /\ pc[t] = "copy_last"
    /\ Goto(t, "copy", [loc[t] EXCEPT !.end = Victim(t).last])
    /\ UNCHANGED <<version, key, blk, lists, shared, fault>>

copy(t) ==
    /\ pc[t] = "copy"
    /\ loc[t].src < loc[t].end
    /\ LET e == Victim(t).xs[loc[t].src]
       IN  \/ /\ Taken(e)
              /\ Goto(t, "copy", [loc[t] EXCEPT !.src = @ + 1])
              /\ UNCHANGED blk
           \/ /\ ~Taken(e)
              /\ Goto(t, "copy", [loc[t] EXCEPT !.src = @ + 1, !.n = @ + 1])
              /\ blk' = [blk EXCEPT ![t][loc[t].b].xs[loc[t].n] = e]
    /\ UNCHANGED <<version, key, lists, shared, fault>>

(* Mutant: the block spied before is not released. *)
spied_block_leaks(t) ==
    /\ pc[t] = "copy"
    /\ loc[t].src >= loc[t].end
    /\ SetBlocks(t, [blk[t] EXCEPT ![loc[t].b].last = loc[t].n])
    /\ spied' = [spied EXCEPT ![t] = loc[t].b]
    /\ Return(t)
    /\ UNCHANGED <<version, key, head, tail, cached, shared, fault>>

(* m_last is set, and the block replaces the one spied before.  After a    *)
(* successful spy() delete_min peeks once more.                            *)
spied_block(t) ==
    /\ pc[t] = "copy"
    /\ loc[t].src >= loc[t].end
    /\ SetBlocks(t, [Release(blk[t], {spied[t]}) EXCEPT ![loc[t].b].last = loc[t].n])
    /\ spied' = [spied EXCEPT ![t] = loc[t].b]
    /\ \/ /\ loc[t].op = "delete_min" /\ loc[t].n > 0
          /\ Goto(t, "peek", [Idle EXCEPT !.op = "delete_min", !.retried = TRUE])
       \/ /\ loc[t].op = "spy" \/ loc[t].n = 0
          /\ Return(t)
    /\ UNCHANGED <<version, key, head, tail, cached, shared, fault>>

-----------------------------------------------------------------------------
Call(t) ==
    \/ \E i \in Items, k \in Keys : insert(t, i, k)
    \/ delete_min(t) \/ find_min(t) \/ call_spy(t) \/ take_shared(t)

Step(t) ==
    \/ merge(t) \/ hand_over(t) \/ link(t)
    \/ peek_cached(t) \/ peek_scan(t) \/ scan_block(t) \/ unlink(t) \/ shrink(t)
    \/ advance(t) \/ scan_end(t) \/ take(t)
    \/ spy_abort(t) \/ spy(t) \/ copy_first(t) \/ copy_last(t) \/ copy(t) \/ spied_block(t)

Next == \E t \in Threads : Call(t) \/ Step(t)

Spec == Init /\ [][Next]_vars

(* A thread inside a call keeps running, and the clients go on calling     *)
(* delete_min.                                                             *)
FairSpec == Spec /\ \A t \in Threads : WF_vars(Step(t)) /\ WF_vars(delete_min(t))

-----------------------------------------------------------------------------
Pcs == {"idle", "merge", "peek", "scan", "shrink", "take", "spy",
        "copy_first", "copy_last", "copy"}

(* Type invariant; the blocks' active ranges lie within their capacity. *)
TypeOK ==
    /\ version \in [Items -> Nat]
    /\ key \in [Items -> Keys \union {0}]
    /\ \A t \in Threads, b \in Blocks :
           LET x == blk[t][b]
           IN  /\ x.used \in BOOLEAN
               /\ 0 <= x.first /\ x.first <= x.last /\ x.last <= capacity(b)
               /\ DOMAIN x.xs = 0 .. (capacity(b) - 1)
               /\ \A n \in DOMAIN x.xs : x.xs[n] \in BlockItems \union {EMPTY}
               /\ \A n \in x.first .. (x.last - 1) : Is(x.xs[n])
               /\ x.next \in Blocks \union {Null} /\ x.prev \in Blocks \union {Null}
    /\ \A p \in {head, tail, spied} : p \in [Threads -> Blocks \union {Null}]
    /\ cached \in [Threads -> BlockItems \union {EMPTY}]
    /\ shared \subseteq BlockItems
    /\ pc \in [Threads -> Pcs]

(* The list of t from m_head along m_next. *)
List(t) == Chain(blk[t], head[t], Null)
Temps(t) == IF pc[t] = "merge" THEN {loc[t].b} \union Chain(blk[t], loc[t].del, Null)
            ELSE IF pc[t] \in {"copy_first", "copy_last", "copy"} THEN {loc[t].b} ELSE {}

(* After every step of every operation, the list that other threads may    *)
(* enter through m_head is well formed: capacities fall strictly, m_prev   *)
(* inverts m_next, m_tail is its end, and exactly its blocks, the spied    *)
(* block and the blocks an operation is working on are marked as used (a   *)
(* block left marked would be lost to block_storage for ever, one released *)
(* too early would be overwritten).                                        *)
ListOK ==
    \A t \in Threads :
        LET bs == blk[t]
        IN  /\ (head[t] = Null) <=> (tail[t] = Null)
            /\ head[t] # Null => bs[head[t]].prev = Null /\ bs[tail[t]].next = Null
                                 /\ tail[t] \in List(t)
            /\ \A b \in List(t) : bs[b].next # Null =>
                   pow(bs[b].next) < pow(b) /\ bs[bs[b].next].prev = b
            /\ {b \in Blocks : bs[b].used} = (List(t) \union Temps(t) \union {spied[t]}) \ {Null}

(* The N blocks per size that block_storage holds always suffice: get_block*)
(* never falls back to a block that is in use (it takes the last one       *)
(* unchecked; only set_used's assertion would notice).                     *)
StorageSuffices == ~fault

(* The entries of every block of a list are in key order. *)
Sorted ==
    \A t \in Threads : \A b \in List(t) :
        LET a == Active(blk[t][b])
        IN  \A m, n \in DOMAIN a : m < n => a[m].key <= a[n].key

(* Where the list of t holds element e. *)
Places(t, e) ==
    UNION {{<<b, n>> : n \in {m \in blk[t][b].first .. (blk[t][b].last - 1) :
                                 blk[t][b].xs[m] = e}} : b \in List(t)}

(* No element is lost and none is stored twice: between its owner's        *)
(* operations, an item in use is in exactly one place, an entry of one     *)
(* block of the owner's list or the shared LSM, with its current version   *)
(* and key, whatever merging, shrinking, pruning and spying went on.       *)
ExactlyOnce ==
    \A i \in Items :
        LET t == Owner[i]
            e == [item |-> i, ver |-> version[i], key |-> key[i]]
        IN  used(i) /\ pc[t] # "merge" =>
                Cardinality(Places(t, e)) = IF e \in shared THEN 0 ELSE 1

(* The elements in t's own list that nobody has taken. *)
LocalLive(t) ==
    {e \in UNION {Entries(blk[t][b]) : b \in List(t)} : ~Taken(e)}

(* A scan that runs to the end of the list caches an item no larger than   *)
(* any element left in it, although the list is merged and shrunk under    *)
(* the scan and other threads take items meanwhile.                        *)
ScanMin ==
    [][\A t \in Threads : scan_end(t) =>
          \A e \in LocalLive(t) : Is(cached'[t]) /\ cached'[t].key <= e.key]_vars

(* delete_min calls alone drain the queue: once the inserts are over every *)
(* item is eventually taken, so no call hangs and no element becomes       *)
(* unreachable.                                                            *)
Drains == <>[](\A i \in Items : ~used(i))

-----------------------------------------------------------------------------
(* dist_lsm.h: delete_min "Attempts to remove the locally (i.e. on the     *)
(* current thread) minimal item."                                          *)
TakesLocalMin ==
    [][\A t \in Threads : take(t) /\ ~Taken(loc[t].best) =>
          \A e \in LocalLive(t) : loc[t].best.key <= e.key]_vars

(* dist_lsm.h: "If the local LSM is empty, we try to copy items from       *)
(* another active thread.  In case the local LSM is still empty, false is  *)
(* returned": delete_min turns to other threads, and then fails, only when *)
(* nothing is left in its own list.                                        *)
SpiesWhenEmpty ==
    \A t \in Threads : pc[t] = "spy" /\ loc[t].op = "delete_min" => LocalLive(t) = {}
=============================================================================
