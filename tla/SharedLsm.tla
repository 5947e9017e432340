----------------------------- MODULE SharedLsm -----------------------------
(***************************************************************************)
(* shared_lsm: one global pointer, packed with the low bits of a version,  *)
(* to the current array of blocks.  Every thread owns two arrays, for odd  *)
(* and for even versions, and a pool of blocks.  To insert, a thread       *)
(* copies the global array (a seqlock read), builds the next version in    *)
(* its own array from blocks of its own pool, and publishes it with a      *)
(* compare-and-swap; arrays and blocks that are no longer current are      *)
(* rewritten while other threads may still be reading them.                *)
(*                                                                         *)
(* Keys and the pivots that select what peek() returns are left out: a     *)
(* block is its level and the set of elements its entries refer to, and    *)
(* peek() returns any of them.                                             *)
(***************************************************************************)
EXTENDS Integers, FiniteSets

CONSTANTS Threads,
          MaxElements,     \* bound: elements inserted
          Initial,         \* the owner of m_initial_value: not a thread
          NoElement,       \* nullptr, for items
          MaxPow,          \* bound: the largest power of two of a block
          BlocksPerLevel,  \* BLOCKS_PER_LEVEL
          Algn,            \* the alignment of an array: versions per packed pointer
          Ops,             \* the calls of each thread
          Loads            \* the blocks clients insert: <<level, size>>

ASSUME SharedAssumption ==
    /\ Initial \notin Threads
    /\ MaxElements \in Nat /\ NoElement \notin Nat
    /\ MaxPow \in Nat /\ BlocksPerLevel \in Nat \ {0} /\ Algn \in Nat \ {0}
    /\ Ops \in [Threads -> SUBSET {"insert", "delete_min", "find_min", "take_dist"}]
    /\ Loads \subseteq (0 .. MaxPow) \X Nat
    /\ \A l \in Loads : l[2] <= 2 ^ l[1]

(* What the capacities of blocks need of the powers of two. *)
ASSUME PowerAssumption ==
    /\ 2 ^ 0 = 1
    /\ \A p \in 0 .. MaxPow : 2 ^ p \in Nat /\ 2 ^ (p + 1) = 2 * 2 ^ p
    /\ \A p, q \in 0 .. MaxPow : p < q => 2 ^ p < 2 ^ q

VARIABLES global,    \* m_global_array: [array, tag]
          arrays,    \* every array: its version, its size, its blocks
          content,   \* the elements in each block
          pool,      \* the status of each block: free, local or global, and its version
          local,     \* m_local_array_copy
          cached,    \* m_cached_best
          pc, loc,   \* where each thread is, and its local variables
          inserted,  \* elements handed to insert()
          taken,     \* elements whose item has been taken
          stolen,    \* those of them that were taken before they were published
          fault      \* get_block found no free block

Elements == 1 .. MaxElements

vars == <<global, arrays, content, pool, local, cached, pc, loc, inserted, taken, stolen, fault>>

Arrays == (Threads \X {0, 1}) \union {<<Initial, 0>>}   \* evens: 0, odds: 1
Blocks == Threads \X (0 .. MaxPow) \X (1 .. BlocksPerLevel)
NoBlock == <<Initial, 0, 0>>
Slots  == 1 .. (MaxPow + 2)      \* m_blocks (MAX_BLOCKS); the bound on levels keeps within it
level(b) == b[2]
capacity(b) == 2 ^ b[2]

EmptyArray == [ver |-> 0, size |-> 0, blocks |-> [s \in Slots |-> NoBlock]]
Packed(a, v) == [array |-> a, tag |-> v % Algn]

(* packed, obs: observed_packed, observed_version; seen (history): the     *)
(* whole version that was current when packed was loaded; ptr: the array   *)
(* whose version global_array.version() is about to read; b: the block to  *)
(* be inserted, ib: insert_block, b merged so far; slot: the loop variable.*)
Idle == [op |-> "none", packed |-> Packed(<<Initial, 0>>, 0), obs |-> 0, seen |-> 0,
         ptr |-> <<Initial, 0>>, b |-> NoBlock, ib |-> NoBlock, slot |-> 0,
         best |-> NoElement]

Init ==
    /\ global = Packed(<<Initial, 0>>, 0)
    /\ arrays = [a \in Arrays |-> EmptyArray]
    /\ content = [b \in Blocks |-> {}]
    /\ pool = [b \in Blocks |-> [status |-> "free", ver |-> 0]]
    /\ local = [t \in Threads |-> EmptyArray]
    /\ cached = [t \in Threads |-> NoElement]
    /\ pc = [t \in Threads |-> "idle"]
    /\ loc = [t \in Threads |-> Idle]
    /\ inserted = {}
    /\ taken = {}
    /\ stolen = {}
    /\ fault = FALSE

Goto(t, p, l) ==
    /\ pc' = [pc EXCEPT ![t] = p]
    /\ loc' = [loc EXCEPT ![t] = l]
Return(t) == Goto(t, "idle", Idle)

-----------------------------------------------------------------------------
(* block_pool *)

(* The blocks of t's pool of level p that get_block may hand out: the free *)
(* ones and all global ones but the most recent.                           *)
MaxGlobal(t, p) ==
    {b \in Blocks : /\ b[1] = t /\ level(b) = p /\ pool[b].status = "global"
                    /\ \A c \in Blocks : c[1] = t /\ level(c) = p /\ pool[c].status = "global"
                                            => pool[c].ver <= pool[b].ver}
(* Mutant: every global block may be reused. *)
AvailableAll(t, p) ==
    {b \in Blocks : b[1] = t /\ level(b) = p /\ pool[b].status # "local"}

(* Mutant: no global block is ever reused. *)
AvailableFree(t, p) ==
    {b \in Blocks : b[1] = t /\ level(b) = p /\ pool[b].status = "free"}

Available(t, p) ==
    {b \in Blocks : /\ b[1] = t /\ level(b) = p
                    /\ pool[b].status # "local" /\ b \notin MaxGlobal(t, p)}
get_block(t, p) ==
    IF Available(t, p) = {} THEN NoBlock
    ELSE CHOOSE b \in Available(t, p) : \A c \in Available(t, p) : b[3] <= c[3]

(* The block is cleared and filled, or there is none and the assertion "A  *)
(* free block should always exist" fails.                                  *)
Allocate(t, p, elements) ==
    IF Available(t, p) = {}
    THEN fault' = TRUE /\ UNCHANGED <<pool, content>>
    ELSE /\ pool' = [pool EXCEPT ![get_block(t, p)].status = "local"]
         /\ content' = [content EXCEPT ![get_block(t, p)] = elements]
         /\ UNCHANGED fault

(* Mutant: publish() is not called. *)
PublishedNone(t, ver, bs) ==
    [b \in Blocks |-> IF b[1] = t /\ pool[b].status = "local"
                      THEN [pool[b] EXCEPT !.status = "free"] ELSE pool[b]]

(* publish() of the new array's blocks of this pool, then free_local(). *)
Published(t, ver, bs) ==
    [b \in Blocks |-> IF b[1] # t THEN pool[b]
                      ELSE IF b \in bs THEN [status |-> "global", ver |-> ver]
                      ELSE IF pool[b].status = "local" THEN [pool[b] EXCEPT !.status = "free"]
                      ELSE pool[b]]
FreedExcept(t, that) ==
    [b \in Blocks |-> IF b[1] = t /\ b # that /\ pool[b].status = "local"
                      THEN [pool[b] EXCEPT !.status = "free"] ELSE pool[b]]

-----------------------------------------------------------------------------
(* insert(key, val) and insert(block): the elements are put into a block   *)
(* of the thread's own pool.                                               *)

insert(t, p, S) ==
    /\ pc[t] = "idle"
    /\ S \subseteq Elements
    /\ inserted' = inserted \union S
    /\ Allocate(t, p, S)
    /\ Goto(t, "load", [Idle EXCEPT !.op = "insert", !.b = get_block(t, p)])
    /\ UNCHANGED <<global, arrays, local, cached, taken, stolen>>

(* delete_min() or find_min(): m_cached_best is returned if the local copy *)
(* is still the current version.                                           *)
peek(t, op) ==
    /\ pc[t] = "idle"
    /\ Goto(t, "cache_ptr", [Idle EXCEPT !.op = op])
    /\ UNCHANGED <<global, arrays, content, pool, local, cached, inserted, taken, stolen, fault>>

AfterPeek(t, best) ==
    \/ /\ loc[t].op = "delete_min" /\ best # NoElement
       /\ Goto(t, "take", [Idle EXCEPT !.op = "delete_min", !.best = best])
    \/ /\ loc[t].op = "find_min" \/ best = NoElement
       /\ Return(t)

(* A step that changes nothing but where thread t is and its locals. *)
OnlyLocals == UNCHANGED <<global, arrays, content, pool, local, cached, inserted, taken, stolen, fault>>

(* global_array.version() loads the pointer and then reads the version in  *)
(* the array it points to.                                                 *)
LoadPtr(t, from, to) ==
    /\ pc[t] = from
    /\ Goto(t, to, [loc[t] EXCEPT !.ptr = global.array])
    /\ OnlyLocals
GlobalVersion(t) == arrays[loc[t].ptr].ver

cache_ptr(t) == LoadPtr(t, "cache_ptr", "cache_ver")
CacheHit(t) ==
    /\ GlobalVersion(t) = local[t].ver
    /\ cached[t] \notin taken \union {NoElement}

cache_ver(t) ==
    /\ pc[t] = "cache_ver"
    /\ \/ CacheHit(t) /\ AfterPeek(t, cached[t])
       \/ ~CacheHit(t) /\ Goto(t, "load", loc[t])
    /\ OnlyLocals

-----------------------------------------------------------------------------
(* refresh_local_array_copy *)

Current == arrays[global.array]

(* Where its caller continues. *)
Refreshed(t) == IF loc[t].op = "insert" THEN "build_version" ELSE "pick"

load(t) ==
    /\ pc[t] = "load"
    /\ Goto(t, "version", [loc[t] EXCEPT !.packed = global, !.seen = Current.ver])
    /\ OnlyLocals

read_version(t) ==
    /\ pc[t] = "version"
    /\ Goto(t, "fresh_ptr", [loc[t] EXCEPT !.obs = arrays[loc[t].packed.array].ver])
    /\ OnlyLocals

fresh_ptr(t) == LoadPtr(t, "fresh_ptr", "fresh_ver")
fresh_ver(t) ==
    /\ pc[t] = "fresh_ver"
    /\ Goto(t, IF local[t].ver = GlobalVersion(t) THEN Refreshed(t) ELSE "reload", loc[t])
    /\ OnlyLocals

(* Mutant: the loop does not load the pointer again. *)
reload_stale(t) ==
    /\ pc[t] = "reload"
    /\ Goto(t, "reversion", loc[t])
    /\ OnlyLocals

reload(t) ==
    /\ pc[t] = "reload"
    /\ Goto(t, "reversion", [loc[t] EXCEPT !.packed = global, !.seen = Current.ver])
    /\ OnlyLocals

matches(packed, v) == packed.tag = v % Algn

reread_version(t) ==
    /\ pc[t] = "reversion"
    /\ LET v == arrays[loc[t].packed.array].ver
       IN  Goto(t, IF matches(loc[t].packed, v) THEN "copy_version" ELSE "reload",
                [loc[t] EXCEPT !.obs = v])
    /\ OnlyLocals

(* copy_from: the version, the size, that many blocks, the version again. *)
Source(t) == arrays[loc[t].packed.array]
SetLocal(t, x) ==
    /\ local' = [local EXCEPT ![t] = x]
    /\ UNCHANGED <<global, arrays, content, pool, cached, inserted, taken, stolen, fault>>

copy_version(t) ==
    /\ pc[t] = "copy_version"
    /\ SetLocal(t, [local[t] EXCEPT !.ver = Source(t).ver])
    /\ Goto(t, "copy_size", loc[t])

copy_size(t) ==
    /\ pc[t] = "copy_size"
    /\ SetLocal(t, [local[t] EXCEPT !.size = Source(t).size])
    /\ Goto(t, "copy_blocks", loc[t])

CopyBlocks(to, from, n) == [s \in Slots |-> IF s <= n THEN from[s] ELSE to[s]]

copy_blocks(t) ==
    /\ pc[t] = "copy_blocks"
    /\ SetLocal(t, [local[t] EXCEPT !.blocks = CopyBlocks(@, Source(t).blocks, local[t].size)])
    /\ Goto(t, "copy_check", loc[t])

copy_check(t) ==
    /\ pc[t] = "copy_check"
    /\ Goto(t, IF Source(t).ver = local[t].ver THEN "verify_ptr" ELSE "copy_version", loc[t])
    /\ OnlyLocals

verify_ptr(t) == LoadPtr(t, "verify_ptr", "verify_ver")
verify_ver(t) ==
    /\ pc[t] = "verify_ver"
    /\ Goto(t, IF GlobalVersion(t) = loc[t].obs /\ loc[t].obs = local[t].ver
                THEN Refreshed(t) ELSE "reload", loc[t])
    /\ OnlyLocals

-----------------------------------------------------------------------------
(* insert_block: the next version is built in the thread's array of the    *)
(* other parity.                                                           *)

New(t) == <<t, IF loc[t].obs % 2 = 1 THEN 0 ELSE 1>>
SetNew(t, x) == arrays' = [arrays EXCEPT ![New(t)] = x]

build_version(t) ==
    /\ pc[t] = "build_version"
    /\ SetNew(t, [arrays[New(t)] EXCEPT !.ver = local[t].ver])
    /\ Goto(t, "build_copy", loc[t])
    /\ UNCHANGED <<global, content, pool, local, cached, inserted, taken, stolen, fault>>

build_copy(t) ==
    /\ pc[t] = "build_copy"
    /\ SetNew(t, [arrays[New(t)] EXCEPT
                     !.size = local[t].size,
                     !.blocks = CopyBlocks(@, local[t].blocks, local[t].size)])
    /\ Goto(t, "build_incr", loc[t])
    /\ UNCHANGED <<global, content, pool, local, cached, inserted, taken, stolen, fault>>

(* increment_version(); insert(b) starts after the first blocks that are   *)
(* at least as large as b.                                                 *)
build_incr(t) ==
    /\ pc[t] = "build_incr"
    /\ LET x == arrays[New(t)]
       IN  \E n \in 0 .. x.size :
               /\ \A s \in 1 .. n : capacity(x.blocks[s]) >= capacity(loc[t].b)
               /\ n < x.size => capacity(x.blocks[n + 1]) < capacity(loc[t].b)
               /\ SetNew(t, [x EXCEPT !.ver = @ + 1])
               /\ Goto(t, "add", [loc[t] EXCEPT !.ib = loc[t].b, !.slot = n])
    /\ UNCHANGED <<global, content, pool, local, cached, inserted, taken, stolen, fault>>

RemoveSlot(x, i) ==
    [x EXCEPT !.size = @ - 1,
              !.blocks = [s \in Slots |-> IF i <= s /\ s < x.size THEN @[s + 1] ELSE @[s]]]
InsertSlot(x, i, b) ==
    [x EXCEPT !.size = @ + 1,
              !.blocks = [s \in Slots |-> IF s = i THEN b
                                          ELSE IF i < s /\ s <= x.size + 1 THEN @[s - 1]
                                          ELSE @[s]]]

(* Merging drops the entries below the pivots, all of them taken, and      *)
(* prunes some that are taken.                                             *)
Remainders(S) == {S \ D : D \in SUBSET (S \intersect taken)}

SameSize(t) ==
    /\ loc[t].slot > 0
    /\ capacity(arrays[New(t)].blocks[loc[t].slot]) = capacity(loc[t].ib)

(* Mutant: the merged block is no larger than its parts. *)
add_merge_level(t) ==
    /\ pc[t] = "add" /\ SameSize(t)
    /\ LET other == arrays[New(t)].blocks[loc[t].slot]
           p     == level(loc[t].ib)
       IN  /\ \E S \in Remainders(content[loc[t].ib] \union content[other]) : Allocate(t, p, S)
           /\ Goto(t, "add", [loc[t] EXCEPT !.ib = get_block(t, p), !.slot = @ - 1])
    /\ SetNew(t, RemoveSlot(arrays[New(t)], loc[t].slot))
    /\ UNCHANGED <<global, local, cached, inserted, taken, stolen>>

(* Merge with a block of equal capacity. *)
add_merge(t) ==
    /\ pc[t] = "add" /\ SameSize(t)
    /\ LET other == arrays[New(t)].blocks[loc[t].slot]
           p     == level(loc[t].ib) + 1
       IN  /\ \E S \in Remainders(content[loc[t].ib] \union content[other]) : Allocate(t, p, S)
           /\ Goto(t, "add", [loc[t] EXCEPT !.ib = get_block(t, p), !.slot = @ - 1])
    /\ SetNew(t, RemoveSlot(arrays[New(t)], loc[t].slot))
    /\ UNCHANGED <<global, local, cached, inserted, taken, stolen>>

add(t) ==
    /\ pc[t] = "add" /\ ~SameSize(t)
    /\ SetNew(t, InsertSlot(arrays[New(t)], loc[t].slot + 1, loc[t].ib))
    /\ Goto(t, "shrink", [loc[t] EXCEPT !.slot = 1])
    /\ UNCHANGED <<global, content, pool, local, cached, inserted, taken, stolen, fault>>

(* compact(): blocks that are less than half full are copied, without what *)
(* is taken.  Entries below the pivots do not count.                       *)
AtSlot(t) == arrays[New(t)].blocks[loc[t].slot]
NextShrink(t) ==
    IF loc[t].slot < arrays[New(t)].size
    THEN Goto(t, "shrink", [loc[t] EXCEPT !.slot = @ + 1])
    ELSE Goto(t, "compact", [loc[t] EXCEPT !.slot = arrays[New(t)].size - 1])

shrink(t) ==
    /\ pc[t] = "shrink"
    /\ LET b == AtSlot(t)
       IN  /\ Cardinality(content[b] \ taken) < capacity(b) \div 2
           /\ SetNew(t, [arrays[New(t)] EXCEPT !.blocks[loc[t].slot] = get_block(t, level(b) - 1)])
           /\ Allocate(t, level(b) - 1, content[b] \ taken)
    /\ NextShrink(t)
    /\ UNCHANGED <<global, local, cached, inserted, taken, stolen>>

shrink_skip(t) ==
    /\ pc[t] = "shrink"
    /\ Cardinality(content[AtSlot(t)]) >= capacity(AtSlot(t)) \div 2
    /\ NextShrink(t)
    /\ OnlyLocals

(* Mutant: blocks of equal size are left side by side. *)
UnevenStrict(t) ==
    /\ loc[t].slot > 0
    /\ level(AtSlot(t)) < level(arrays[New(t)].blocks[loc[t].slot + 1])

(* Neighbours that are no longer of falling size are merged, from the      *)
(* smallest blocks up.                                                     *)
Uneven(t) ==
    /\ loc[t].slot > 0
    /\ level(AtSlot(t)) <= level(arrays[New(t)].blocks[loc[t].slot + 1])

compact(t) ==
    /\ pc[t] = "compact" /\ Uneven(t)
    /\ LET small == arrays[New(t)].blocks[loc[t].slot + 1]
           p     == level(small) + 1
           x     == RemoveSlot(arrays[New(t)], loc[t].slot + 1)
       IN  /\ \E S \in Remainders(content[AtSlot(t)] \union content[small]) : Allocate(t, p, S)
           /\ SetNew(t, [x EXCEPT !.blocks[loc[t].slot] = get_block(t, p)])
    /\ Goto(t, "compact", [loc[t] EXCEPT !.slot = @ - 1])
    /\ UNCHANGED <<global, local, cached, inserted, taken, stolen>>

compact_skip(t) ==
    /\ pc[t] = "compact" /\ ~Uneven(t)
    /\ IF loc[t].slot > 0 THEN Goto(t, "compact", [loc[t] EXCEPT !.slot = @ - 1])
                           ELSE Goto(t, "check_ptr", loc[t])
    /\ OnlyLocals

(* The version is compared, then the packed pointer is compared and        *)
(* swapped.  A failed attempt frees its blocks except b and starts again.  *)
Retry(t) ==
    /\ pool' = FreedExcept(t, loc[t].b)
    /\ Goto(t, "load", [Idle EXCEPT !.op = "insert", !.b = loc[t].b])

check_ptr(t) == LoadPtr(t, "check_ptr", "check_ver")
check_ver(t) ==
    /\ pc[t] = "check_ver"
    /\ IF GlobalVersion(t) = loc[t].obs
       THEN Goto(t, "cas", loc[t]) /\ UNCHANGED pool
       ELSE Retry(t)
    /\ UNCHANGED <<global, arrays, content, local, cached, inserted, taken, stolen, fault>>

BlocksOf(x) == {x.blocks[s] : s \in 1 .. x.size}

(* Mutant: the pointer is stored, not compared and swapped. *)
publish_store(t) ==
    /\ pc[t] = "cas"
    /\ global' = Packed(New(t), arrays[New(t)].ver)
    /\ pool' = Published(t, arrays[New(t)].ver, BlocksOf(arrays[New(t)]))
    /\ Return(t)
    /\ UNCHANGED <<arrays, content, local, cached, inserted, taken, stolen, fault>>

publish(t) ==
    /\ pc[t] = "cas"
    /\ global = loc[t].packed
    /\ LET x == arrays[New(t)]
       IN  /\ global' = Packed(New(t), x.ver)
           /\ pool' = Published(t, x.ver, BlocksOf(x))
    /\ Return(t)
    /\ UNCHANGED <<arrays, content, local, cached, inserted, taken, stolen, fault>>

publish_fails(t) ==
    /\ pc[t] = "cas"
    /\ global # loc[t].packed
    /\ Retry(t)
    /\ UNCHANGED <<global, arrays, content, local, cached, inserted, taken, stolen, fault>>

-----------------------------------------------------------------------------
(* peek() on the local copy, whose blocks may be rewritten meanwhile; the  *)
(* result stands if the version is still the same afterwards.              *)

Contents(x) == UNION {content[b] : b \in BlocksOf(x)}

pick(t) ==
    /\ pc[t] = "pick"
    /\ \E e \in (Contents(local[t]) \ taken) \union {NoElement} :
           /\ cached' = [cached EXCEPT ![t] = e]
           /\ Goto(t, "peek_ptr", [loc[t] EXCEPT !.best = e])
    /\ UNCHANGED <<global, arrays, content, pool, local, inserted, taken, stolen, fault>>

peek_ptr(t) == LoadPtr(t, "peek_ptr", "peek_ver")
(* Mutant: the result is not checked against the version. *)
peek_unchecked(t) ==
    /\ pc[t] = "peek_ver"
    /\ AfterPeek(t, loc[t].best)
    /\ OnlyLocals

peek_ver(t) ==
    /\ pc[t] = "peek_ver"
    /\ IF GlobalVersion(t) = loc[t].obs
       THEN AfterPeek(t, loc[t].best)
       ELSE Goto(t, "load", [Idle EXCEPT !.op = loc[t].op])
    /\ OnlyLocals

take(t) ==
    /\ pc[t] = "take"
    /\ taken' = taken \union {loc[t].best}
    /\ Return(t)
    /\ UNCHANGED <<global, arrays, content, pool, local, cached, inserted, stolen, fault>>

(* A block that is handed over comes from a distributed LSM, where other   *)
(* threads may have found its items: they may take them at any time.       *)
take_dist(t, e) ==
    /\ pc[t] = "idle"
    /\ taken' = taken \union {e}
    /\ stolen' = stolen \union ({e} \ Contents(Current))
    /\ UNCHANGED <<global, arrays, content, pool, local, cached, pc, loc, inserted, fault>>

-----------------------------------------------------------------------------
(* Elements are numbered in the order of the insert() calls. *)
Fresh(n) == (Cardinality(inserted) + 1) .. (Cardinality(inserted) + n)

Calls(t, ops, loads) ==
    \/ "insert" \in ops /\ \E l \in loads : insert(t, l[1], Fresh(l[2]))
    \/ \E op \in ops \intersect {"delete_min", "find_min"} : peek(t, op)
    \/ "take_dist" \in ops /\ \E e \in inserted \ taken : take_dist(t, e)

Call(t) == Calls(t, Ops[t], Loads)

Step(t) ==
    \/ cache_ptr(t) \/ cache_ver(t)
    \/ load(t) \/ read_version(t) \/ fresh_ptr(t) \/ fresh_ver(t) \/ reload(t)
    \/ reread_version(t) \/ copy_version(t) \/ copy_size(t) \/ copy_blocks(t) \/ copy_check(t)
    \/ verify_ptr(t) \/ verify_ver(t)
    \/ build_version(t) \/ build_copy(t) \/ build_incr(t) \/ add_merge(t) \/ add(t)
    \/ shrink(t) \/ shrink_skip(t) \/ compact(t) \/ compact_skip(t)
    \/ check_ptr(t) \/ check_ver(t) \/ publish(t) \/ publish_fails(t)
    \/ pick(t) \/ peek_ptr(t) \/ peek_ver(t) \/ take(t)

(* A fault ends the program: the assertion fails, or without assertions   *)
(* the null pointer is used at once.                                       *)
Next == ~fault /\ \E t \in Threads : Call(t) \/ Step(t)

Spec == Init /\ [][Next]_vars
FairSpec == Spec /\ \A t \in Threads : WF_vars(Step(t))

-----------------------------------------------------------------------------
Pcs == {"idle", "cache_ptr", "cache_ver", "load", "version", "fresh_ptr", "fresh_ver",
        "reload", "reversion", "copy_version", "copy_size", "copy_blocks", "copy_check",
        "verify_ptr", "verify_ver", "build_version", "build_copy", "build_incr", "add",
        "shrink", "compact", "check_ptr", "check_ver", "cas", "pick", "peek_ptr", "peek_ver",
        "take"}

ArrayType == [ver : Nat, size : 0 .. (MaxPow + 2), blocks : [Slots -> Blocks \union {NoBlock}]]

(* Type invariant; a block never holds more elements than its capacity. *)
TypeOK ==
    /\ global \in [array : Arrays, tag : 0 .. (Algn - 1)]
    /\ arrays \in [Arrays -> ArrayType] /\ local \in [Threads -> ArrayType]
    /\ \A b \in Blocks : content[b] \subseteq Elements /\ Cardinality(content[b]) <= capacity(b)
    /\ pool \in [Blocks -> [status : {"free", "local", "global"}, ver : Nat]]
    /\ cached \in [Threads -> Elements \union {NoElement}]
    /\ pc \in [Threads -> Pcs]
    /\ stolen \subseteq taken /\ taken \subseteq inserted /\ inserted \subseteq Elements

(* "The usual invariants (block size strictly descending, only one block   *)
(* of each size in array) are preserved while the block array is visible": *)
(* of the published array, and of every local copy that was verified.      *)
Descending(x) == \A s \in 1 .. (x.size - 1) : level(x.blocks[s]) > level(x.blocks[s + 1])
ArraysDescending ==
    /\ Descending(Current)
    /\ \A t \in Threads : pc[t] \in {"pick", "build_version", "build_copy"} => Descending(local[t])

(* "All other indexes are guaranteed not to be set to LOCAL", and a block  *)
(* of the published array is never free for reuse by its owner.            *)
PoolOK ==
    /\ \A b \in Blocks : pool[b].status = "local" => pc[b[1]] # "idle"
    /\ \A b \in BlocksOf(Current) :
           pool[b].status = "global" /\ b \in MaxGlobal(b[1], level(b))

(* "A free block should always exist": four blocks per level suffice for   *)
(* the block to be inserted, the results of the merges and of compact(),   *)
(* and the published block of that level.                                  *)
PoolSuffices == ~fault

(* What other threads reach through the global pointer is never written:   *)
(* as long as a version is published its array and blocks stay as they are.*)
PublishedImmutable ==
    [][global' = global =>
          /\ Current' = Current
          /\ \A b \in BlocksOf(Current) : content'[b] = content[b]]_vars

(* Versions are published one after the other, none is skipped and none is *)
(* published twice.                                                        *)
VersionsAscend == [][global' # global => Current'.ver = Current.ver + 1]_vars

(* The shared LSM implements the relaxed pool: an insert takes effect, all *)
(* of it at once, when its version is published, a delete_min when it      *)
(* takes its item; no published element is ever lost by an insert that     *)
(* worked on a stale or torn copy, and peek never returns an element that  *)
(* is not published.                                                       *)
Pool == INSTANCE RelaxedPool
            WITH contents <- Contents(Current) \ taken, removed <- taken \ stolen
ImplementsPool == Pool!PoolSpec

(* Every call returns: an insert is retried only when another one was      *)
(* published, a copy only when its source was rewritten.                   *)
CallsReturn == \A t \in Threads : pc[t] # "idle" ~> pc[t] = "idle"
=============================================================================
