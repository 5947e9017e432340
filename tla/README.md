# A TLA+ model of the k-LSM priority queues

The repository implements relaxed concurrent priority queues on top of
log-structured merge lists (LSMs) of sorted blocks: a distributed LSM (one list
per thread), a shared LSM (one global array of blocks), the k-LSM that joins
both, a multi-LSM and a sequential LSM, with benchmarks and vendored queues to
compare with. This directory models all of these queues, the allocator and the
vector they are built on, and of the benchmarks the parts that have a protocol
or a data structure of their own.

Paths below are relative to the repository; "dist" and "shared" stand for
`src/dist_lsm/dist_lsm_local_inl.h` and `src/shared_lsm/`.

## The system

| component | state | operations | must hold |
|---|---|---|---|
| item (`src/components/item_inl.h`) | version, key, value; even versions are reusable | `initialize`, `take` | a `take` succeeds at most once per use and returns that use's key and value; no version is seen twice |
| block (`block_inl.h`) | array of `<item, version, key>`, `m_first`, `m_last`, list pointers, used flag | `insert`, `merge`, `copy`, `peek`, `set_used/unused` | sorted by key; loses nothing that is not taken |
| block_storage (`block_storage_inl.h`) | N blocks of each size | `get_block` | never hands out a block in use |
| dist_lsm (`src/dist_lsm/`) | per thread: `m_head`, `m_tail`, `m_spied`, `m_cached_best`, block storage, item allocator | `insert`, `delete_min`, `find_min`, `spy` | list well formed at every step; each element in exactly one place; minimal item first; drains |
| block_pool (`shared_lsm/block_pool.h`) | status and version of four blocks per size and thread | `get_block`, `publish`, `free_local(_except)` | a free block exists; published blocks are not reused |
| versioned_array_ptr | a pointer with the low bits of a version | load, CAS | no ABA |
| block_array | blocks of falling size, pivots, version | `insert`, `compact`, `peek`, `copy_from` | strictly falling sizes when published |
| shared_lsm (`shared_lsm_local_inl.h`) | global pointer; per thread a local copy, two arrays, a pool, a cached item | `insert`, `insert(block)`, `delete_min`, `find_min` | no element lost or invented, versions one after another, calls return |
| block_pivots | index ranges per block, largest key in range | `shrink`, `grow`, `resize`, `insert`, ... | at most Rlx+1 candidates (up to equal keys), none reported EMPTY wrongly |
| item_allocator (`src/util/mm.h`) | ring of item arrays, amortisation counter | `acquire` | reuses only free items, counter does not wrap |
| k_lsm (`src/k_lsm/`) | both LSMs | `insert`, `delete_min` | at most k smaller items skipped |
| multi_lsm (`src/multi_lsm/`) | C distributed lists per thread | `insert`, `delete_min`, which also looks into another thread's list (`safe_peek`) | no element lost or found twice |
| sequential_lsm (`src/sequential_lsm/lsm.cpp`) | one list of blocks, two blocks per size | `insert`, `delete_min`, `clear` | a priority queue; no block lost |
| lockfree_vector, thread_local_ptr (`src/util/`) | buckets installed by CAS, thread ids | `get` | one bucket per index |
| multiq (`src/bench/pqs/multiq_inl.h`) | sequential queues with try-locks and a copy of each top key | `insert`, `delete_min` | no element lost; drains although the copies are stale |
| GlobalLock (`src/bench/pqs/globallock.h`) | a heap in a growing array | `insert`, `delete_min`, `clear` | a priority queue |
| itree (`src/bench/itree.cpp`) | AVL tree with counts | `insert`, `erase` | balanced, exact ranks |
| shortest_paths, file_shortest_paths (`src/bench/`) | distances, a queue, a task count or a waiting protocol | threads that search | stop only when the distances are final; stop |

How they interact. Threads share three things. *Items*: every queue stores
references `<item, version>`; whoever moves the version from the stored odd
value to the next even one has removed the element, and the owner's allocator
may reuse the item at once, while stale references remain in blocks
everywhere. *The lists of a distributed LSM*: only the owner changes a list,
but a thread whose own list is empty spies: it copies the first block of a
victim's list while the victim merges, shrinks, releases and reuses blocks.
*The global array of the shared LSM*: a thread copies the array (a seqlock
read), builds the next version in an array and blocks of its own, and publishes
it with one compare-and-swap; superseded arrays and blocks are rewritten while
others still read them, and every reader checks the version afterwards. The
k-LSM inserts into the distributed LSM with a pointer to the shared one, which
receives blocks that grow past the relaxation bound.

Hard behaviours: late takes through stale references; block reuse under a
spying or copying reader; the check of a version and the following
compare-and-swap being two steps; the bounded stock of blocks on both sides;
caches of the best item; restructuring of a list in the middle of a scan;
retry loops; version and key arithmetic at its limits. `PROJECT.json` lists
them at their lines ("hazards") with the properties that cover each.

## Modules

| module | models | implements |
|---|---|---|
| `RelaxedPool` | an element is handed out at most once, and only after it was inserted | (abstract) |
| `PriorityQueue` | `delete_min` returns a smallest key, or finds the queue empty | (abstract) |
| `Item`, proofs in `ItemProofs` | `item` and the protocol of owner and takers around it | `RelaxedPool` |
| `Block`, lemmas in `BlockProofs` | `block`, `block_storage::get_block` as operators on records | |
| `DistLsm`, proofs in `DistListProofs` and `DistLsmProofs` | `dist_lsm_local` for every thread, on top of `Block` | |
| `KLsm` (extends `DistLsm`) | `k_lsm`: `delete_min` over both LSMs | |
| `MultiLsm` (extends `DistLsm`) | `multi_lsm`, `dist_lsm_local::safe_peek` | |
| `SharedLsm`, proofs in `SharedLsmProofs` | `shared_lsm_local`, `versioned_array_ptr`, `block_pool`, `block_array` against concurrent readers | `RelaxedPool` |
| `BlockArray` | `block_array` and `block_pivots` with keys: what `peek` may choose from | |
| `SequentialLsm` | `LSM<T>` | `PriorityQueue` |
| `GlobalLock` | the heap under a lock | `PriorityQueue` |
| `ITree` | the rank tree | |
| `ItemAllocator`, proofs in `ItemAllocatorProofs` | `item_allocator::acquire` | |
| `LockfreeVector` | `lockfree_vector::get`, `set_tid` | |
| `MultiQueue`, proofs in `MultiQueueProofs` | `multiq` | `RelaxedPool` |
| `Relaxation` | the search both benchmarks run | |
| `ShortestPaths`, `FileShortestPaths` (extend `Relaxation`), proofs of both in `SearchProofs` | how its threads stop: counted tasks; the waiting protocol | |
| `MCComponents`, `MCDistLsm`, `MCKLsm`, `MCSharedLsm`, `MCSharedLsmABA`, `MCBlockArray`, `MCProgress`, `MCFileShortestPaths` | instances for TLC | |

`MCComponents`, `MCKLsm`, `MCProgress` and `MCSharedLsm` hold several small
instances side by side: a variable chosen at the start (`part`, `scenario`) says
which one a behaviour is of, and the others stay as they began.

Definitions keep the names of the code where possible. A definition that starts
with "Mutant:" in its comment is a plausible bug; no specification uses it. It
documents what a property would catch (each property is violated when the
definition named in `PROJECT.json` is replaced by its mutant).

### Item

`version`, `key`, `val` are the fields. `refs` collects every `block_item` ever
published: any thread may use any of them at any later time, which is the
worst that stale blocks can do. `initialize` is three steps (version, key,
value, `item_inl.h:32-34`), the owner then reads the version again and
publishes (`dist:45`); `take` is three steps (key, value, compare-and-swap).
The allocator's condition `!used()` guards `initialize`. `MaxUses` bounds the
uses of an item and `VersionAssumption` requires `2 * MaxUses <=
VersionModulus`: the version, a `uint32_t`, does not come round to a value it
had before. The other modules treat `take` and `initialize` as one step each.

### DistLsm

Per thread a block storage `blk`, `head`, `tail`, `spied`, `cached`. One action
per loop iteration of `merge_insert` and `peek`, one per memory access of a
spying thread:

- `insert` is `dist:36-73` up to `merge_insert`; `merge` is one iteration of its
  loop, `hand_over` and `link` its end with and without the shared LSM.
- `delete_min`, `find_min`, `call_spy` start a call. `peek_cached`/`peek_scan`
  are the short-circuit; `scan_block`, `unlink`, `shrink`, `advance` and
  `scan_end` are the two nested loops of `peek`; `take` ends `delete_min`.
- `spy_abort`/`spy` choose a victim (`m_gen()` is nondeterministic) and read its
  head; `copy_first`, `copy_last`, `copy` read the victim's block one access at
  a time while the victim goes on; `spied_block` installs the copy.
- `take_shared` is another thread that removes an item from the shared LSM.

`safe_peek` is in `MultiLsm`, its only caller.

Abstractions. The owner's restructuring within one iteration is one step: spies
read a block's entries between iterations, never in the middle of a memory
copy, and a three-word block_item is read in one step. Entries outside the
active range of a block are kept only while a spy or `safe_peek` reads that
block (`SetBlocks`), since nobody else reads them. The block constructor does not
initialise `m_skipped_prunes`, so a merge prunes or not, nondeterministically.
The allocator hands out any reusable item of the owner. Values are left out
(module `Item` has them). Blocks end at the size `MaxPow`, one less than
`MAX_BLOCKS` (`dist_lsm` is built for 32 sizes and does not test for more): a
merge that would need a larger block is not taken. The loops of `block::merge`
are recursive functions (`Merged`, `Untaken`). Memory is sequentially consistent, as on the x86
machines the code targets except for store buffering; the relaxed accesses of
the code are not weakened further.

### SharedLsm

A block is its level and the set of elements its entries refer to. Keys and the
pivots that select what `peek` returns are left out here (module `BlockArray`
has them): `pick` may return any element of the local copy's blocks that is not
taken, or none, which includes every choice the pivots can make. `Remainders`
lets a merge drop any part of what is taken (pruning, and the entries below the
pivots, all of them taken). One action per shared access: `load`/`read_version` and the `fresh_`, `verify_`,
`check_` and `peek_` pairs (`global_array.version()` loads the pointer and then
reads through it, two steps); `copy_version`, `copy_size`, `copy_blocks`,
`copy_check` (the seqlock); `build_version`, `build_copy`, `build_incr` write the
thread's own array, which slower readers may still be copying; `add_merge`,
`add`, `shrink`, `compact` rewrite own blocks and array; `publish` is the
compare-and-swap with the bookkeeping in the private pool that follows it;
`publish_fails` and `check_ver` retry. `take_dist` is another thread that found an
item of a handed-over block through the distributed LSM and takes it, before or
after the block is published; `stolen` remembers which were taken before, as
those never become part of the shared LSM's contents.

`Algn` is the alignment of the arrays: the packed pointer keeps the version
modulo `Algn`. It is 2048 in the code. In the passing runs it is 8, larger than
the number of versions they publish, so the pointer never comes round: those
runs show correctness of the protocol up to this wrap-around, and
`MCSharedLsmABA` shows what the wrap-around does.

`seen` is a history variable: the full version of the array whose packed pointer the
thread loaded last. No guard reads it; `NoWrap` and the invariants of the proofs do.
`build_incr` increments the version and finds the slot of the new block: after the
`n` blocks that are at least as large. Once an assertion of the code fails (`fault`),
the program has stopped.

### KLsm and MultiLsm

Both run the actions of `DistLsm` inside a call of their own. `k_delete_min`
and `dist_find_min` start `m_dist.find_min`, `dist_found` is its last step,
`shared_find_min` looks at the shared LSM, `k_take` takes the better of the two
and `k_spy`, `spied_some`, `spied_none` are the loop around `m_dist.spy()`. Of
the shared LSM `KLsm` uses what the other modules check: elements handed over
are published together (`SharedLsm`), `find_min` returns one nobody has taken,
and EMPTY only if there is none (`EmptyOnlyIfTaken` in `BlockArray`).

In `MultiLsm` the "threads" of `DistLsm` are the lists and `ThreadOf` says whose
a list is. `m_delete_min` draws two lists and starts `peek` of the first;
`safe_peek`, `safe_first`, `safe_taken`, `safe_candidate` and `safe_next` are the
reads of another list, one each, while its owner goes on; a thread with nothing
of its own then spies (`spy_itself`, `spy_ends`) and takes what it saw elsewhere
(`m_take_other`). An empty list is drawn again only once, so any list may be
used in the end.

### BlockArray

`arr` is `m_blocks`, `piv` the pivots of each block (`m_lower`, `m_upper`), the
largest key of the last search and the cached count. The array belongs to one
thread at a time; other threads take items between any two steps (`take`).
`insert` is the whole of `block_array::insert`: `Place` merges the new block,
`ShrinkBlocks` and `MergeBlocks` are `compact`, `Adjusted` resets or extends the
range (`shrink`, `grow`). `resize` is translated as it stands: `Pass` is one pass
over the blocks that stops at the limit, `Bisect` the loop with its two arrays
that swap roles when a partial solution is kept (`Kept`), `out` the exits by
`goto`. `peek` is a loop: `peek_empty`, `peek_found` and `peek_marks` are the ways
through its body. Blocks may belong to different callers, because `block::peek`
moves `m_first` only for the owner. Not reached with the bounds used: leaving
`resize` by `goto out` after a partial solution was kept.

### The components that stand alone

- `SequentialLsm`: one record for the whole object, one action per call. `blk`
  and `levels` are `m_blocks`; `Alloc` and `unused_block` create levels and find a
  block, `merge`, `shrink`, `insert_between`, `prune_last_block` are the functions
  of that name. `ok` remembers whether an assertion failed.
- `GlobalLock`, `ITree`: every operation is one step (a mutex; a single thread).
  Elements of the tree are distinct keys. `erase` returns 0 also for an element
  that is not there, and the text at `itree.h:60` describes a parameter "holes"
  the function no longer has; neither matters to its one caller, so only
  elements in the tree are erased.
- `ItemAllocator`: `ring` is the ring of blocks from `m_head` on; `hand_out` and
  `skip` visit an item, `new_block` and `walk_on` end a block. `release` is
  a `take` by any thread at any time.
- `LockfreeVector`: every load, allocation, compare-and-swap and deletion of `get`
  is a step; addresses are numbers, and a deleted one may be allocated again.
- `MultiQueue`: drawing the two queues, reading the two tops, the try-lock, the
  operation on the locked queue and the release are steps. `m_top` goes stale, as
  `delete_min` does not update it. Elements with the sentinel's key would never be
  delivered; the benchmarks' keys do not reach it, nor do the model's.
- `Relaxation`: a thread takes a task, reads the vertex's distance, and for each
  edge reads, compares and swaps the target's distance and inserts a task.
  `ShortestPaths` adds the counter in the task's constructor and destructor,
  `FileShortestPaths` the waiting protocol with one action per access to
  `threads_waiting_to_succeed` and the switches. Distances are as wide as needed:
  the `uint32_t` key that `shortest_paths.cpp` passes to the queue would truncate
  distances above 2^32, which graphs of the benchmark do not have.

## Runs

| run | instance | shows |
|---|---|---|
| `components` (`MCComponents.cfg`) | items: 2 threads, 2 items of different owners, 2 uses each, versions mod 4. Sequential LSM and heap: 2 keys, up to 8 elements. Tree: 8 elements. Vector: 3 threads, 2 buckets, 3 calls. Multiqueue: 2 threads, 2 queues, 2 elements. Block array: Rlx = 4, up to 8 elements in blocks of 3 and 2 as a k-LSM hands them over, 2 owners | `TypeOK`, `NoLeak`, `TakenForever` (no ABA), refinement of `RelaxedPool`; `LsmOK` and refinement of `PriorityQueue`; the same for the heap; `TreeOK`, `RankExact`; `OneElementPerIndex`; the multiqueue refines `RelaxedPool`; `NoneLost`, `RangeBounded` |
| `dist_two_threads` (`MCDistLsm.cfg`) | 2 threads, 3 inserts of 2 items, keys 1-2 | list structure, storage bound, sortedness, `ExactlyOnce` against a spying thread |
| `dist_owner` (`MCDistLsmOwner.cfg`) | 1 thread, 5 inserts, blocks up to 4, all operations, hand-over from size 3 | the same over longer merge and shrink chains; `ScanMin` |
| `klsm` (`MCKLsm.cfg`) | 2 threads, 2 inserts. k-LSM: hand-over from size 2, 2 keys; distributed LSM alone; multi-LSM: one list per thread, an item inserted twice | `ListOK`, `ExactlyOnce` for all three, `ListsDrain` for the first two |
| `shared` (`MCSharedLsm.cfg`) | 2 threads in three scenarios: two writers with handed-over blocks, a writer against takes of its items, a writer of 4 versions against a reader | array shape, pool status and `PoolSuffices`, `PublishedImmutable`, `VersionsAscend`, refinement of `RelaxedPool` |
| `file_search` (`MCFileShortestPaths.cfg`) | 3 threads, padding 1, a path of 3 vertices | `StopsWhenDone`, `VisitedWokenUp` |
| `progress` (`MCProgress.cfg`) | shared LSM: 2 elements; allocator: blocks of 3, up to 5 items in use; multiqueue: 2 elements; both searches: 2 threads, 4 vertices with a first distance that is not the shortest, one vertex unreachable | `CallsReturn`, `MemoryBounded`, `HandedOnce`, `AcquireReturns`, `QueueDrains`, `StopsWhenDone`, `SearchesTerminate` |
| `dist_cached_best`, `dist_early_return` | 1 thread, 3 inserts | expected violations, see below |
| `shared_aba` (`MCSharedLsmABA.cfg`) | `Algn` = 2, 4 inserts | expected violation |
| `array_relax` (`MCBlockArrayRelax.cfg`) | Rlx = 2, up to 5 single elements | expected violation |
| `file_wakeup` (`MCWakeUp.cfg`) | 2 threads, padding 16 | expected violation |

Why the bounds are enough to be interesting. Two threads meet every two-party
race (owner and spy, writer and reader, two writers). With three inserts the
list has blocks of capacity 2 and 1, merges, shrinks and merges again; an item is
reused while a spy still holds a reference to its earlier use, and a spy may be
overtaken by a whole insert that releases and reuses the block it reads. With five
inserts the list holds 4 and 1, and a merge goes two levels. `MaxPow` never
limits anything: a larger block is not reached with that many inserts (TLC would
report an error, or `get_block` would set `fault`). In the shared LSM a thread
owns two arrays, so the third version of one writer already rewrites the array
of its first: three to five versions exercise that. `PoolSuffices`
needs blocks that shrink while they are merged: with items taken by other
threads at any moment, the block to be inserted, the result of a merge, a
shrunk block and the published block can all be of one level, so four blocks
are needed (with `BlocksPerLevel` = 3 the run reports a violation) and suffice.
In `components`, two blocks of three do not fit into the range together, so ranges are
reset, searched by bisection, cut off at the limit and extended again. With
Rlx below 2 the code never extends a range (`Rlx / 2` is 0) and `peek` would
report EMPTY with elements left; the programs use 16 and more. Eight elements
in the sequential LSM are blocks of 1 to 4 and one of 8, with every level created
and pruned again; eight in the heap make it grow twice; eight nodes in the tree
reach every rotation. Two buckets of the vector are for ids 0, 1 and 2, so two
threads meet at the second one. In the allocator five items in use of
blocks of three take several rounds of the amortisation. `ARRAY_PADDING` is 16 in
the code; with 1 and three threads, the passing runs stand for more than
16 threads, where the loop that wakes threads visits some of the switches. Items of one
owner are interchangeable, so the safety runs of `DistLsm` use
symmetry over them, and `components` over the two threads that insert into the block
array; elements of the shared LSM are numbered in the order of the
`insert` calls instead. Deadlock checking is off:
the inserts are bounded, so the modelled system stops when they are used up
and nobody calls `delete_min` again. One list per thread in the multi-LSM leaves
the choice among a thread's own lists out of the run; a thread never works on two
of its lists at once, except that it may look into the second one.

Fairness. A thread inside a call keeps executing it (the operating system
schedules it): weak fairness of each thread's steps, in every module with a
liveness property. Clients keep calling `delete_min` (without calls nothing is
removed). The bounded number of inserts matters for `CallsReturn`: the retry loops
are lock-free, not wait-free, and an insert may be retried as often as other
inserts succeed. Two conditions are strong. In `MultiQueue` each queue is drawn
again and again as both choices (`SF` of `draw(t, q, q)`): the choices come from a
random generator. In the searches `delete_min` does not fail for ever while there
are tasks (`ShortestPaths`), and a thread that has woken another one reads its switch
at last while it is 0 (`FileShortestPaths`: `SF` of `next_slot`; the woken
thread makes 401 calls of `delete_min` before it touches the switch again, but
nothing forces the look to fall into that time). The searches take from their
queue only that `delete_min` fails if nothing is left that the calling thread
or the main thread inserted.

## What the runs show of the code and its comments

- `dist_cached_best`: `delete_min` "Attempts to remove the locally (i.e. on the
  current thread) minimal item" (`src/dist_lsm/dist_lsm.h:53`). `insert` only
  nulls a cached item that was taken (`dist:62-64`) and the next `insert` caches
  its own key (`dist:58`). Insert 1, delete it, insert 5, insert 9: `delete_min`
  returns 9. The compiled code does the same.
- `dist_early_return`: "If the local LSM is empty, we try to copy items from
  another active thread. In case the local LSM is still empty, false is
  returned" (`dist_lsm.h:54`). `peek` returns when it unlinks an empty block
  (`dist:201`), before it looked at the blocks behind it: insert 2, delete,
  insert 1, delete, insert 9, `delete_min` returns false with 9 in the list. The
  next call returns 9, which is why `Drains` holds all the same.
- `shared_aba`: the version in the pointer is there "to avoid the ABA problem"
  (`shared/aligned_block_array.h:33`); it does for fewer than `Algn` publications
  between the version check and the compare-and-swap of a stalled insert. After
  a multiple of `Algn` the stale swap succeeds and older blocks replace newer
  ones. In the code this takes 2048 publications within one stall.
- `array_relax`: each pivot is said to guarantee that the elements before it are
  "within the k smallest keys of the array" (`shared/block_pivots.h:72`). The
  pivot of a new block is set by comparing its keys with `m_maximal_pivot` alone
  (`shared/block_pivots_inl.h:274-287`). A search leaves that at 3; four inserts
  make a merged block whose range is cut off at Rlx + 1 entries, with a smaller
  element outside of it; a new block with key 3 then enters the range. What does
  hold is `RangeBounded`: apart from one key, at most Rlx elements are candidates.
- `file_wakeup`: "if an insert happened after the last delete_min operation of any
  of the waiting threads then the thread performing the insert would have waken
  up all the waiting threads" (`src/bench/file_shortest_paths.cpp:355-360`). The
  loop starts at `ARRAY_PADDING` and ends at `number_of_threads` (:433), the switches
  are at `ARRAY_PADDING + thread_id`: up to 16 threads it visits none. The threads
  still stop only when the distances are final (`StopsWhenDone`: whoever
  inserts goes on until its own insertions are done), so the cost is lost
  parallelism.

## Proofs

TLC checks small instances; the theorems below hold for all values of the
constants. Each rests on the assumptions of the module it is about (named there
and evaluated by TLC), and on the hypotheses its statement names.

### Item (`ItemProofs`)

For all threads, items, keys, values, owners, any even version modulus and any
bound on uses that keeps a version from recurring (`OwnerAssumption`,
`VersionAssumption`):

- `TypeCorrect`: `TypeOK`;
- `NothingLeaks`: `NoLeak`;
- `TakenStaysTaken`: the action property `TakenForever`;
- `PoolRefinement`: `Item` implements `RelaxedPool` under the mapping `Live`
  (current block_items with the item's key and value) and `results`.

None of these is inductive alone. The inductive invariant `IInv` (theorem
`Invariance`) adds what the protocol relies on: the version of an item is fixed
by the number of its uses (twice the uses, minus one while in use), so with
`VersionAssumption` it never recurs; an inserting thread owns its item and
has not published the item's current version yet; every published reference carries an odd
version no newer than the item's; the fields a taker has read are those of the
item as long as the version is the one it holds; every result belongs to a
reference that is no longer current. The refinement then has one case per
action: `insert_ref` adds one element, a successful `take_cas` removes one, the
rest stutter.

### SharedLsm (`SharedLsmProofs`)

For all threads, calls, levels, blocks per level, alignments and blocks handed
over:

- `TypeCorrect`, `SizesDescend`, `PoolProtects`: the invariants `TypeOK`,
  `ArraysDescending` and `PoolOK`;
- `Immutable`, `Ascending`: the action properties `PublishedImmutable` and
  `VersionsAscend`;
- `Refinement`: `SharedLsm` implements `RelaxedPool`.

All are of the form `Spec /\ []NoWrap => ...`. `NoWrap` says that when a thread
compares a version with the packed pointer or swaps the pointer, fewer than
`Algn - 1` versions have been published since it loaded the pointer. It is what
the code relies on with `Algn` = 2048, and no theorem holds without it: the run
`shared_aba` is the counterexample. `PowerAssumption` states three facts about
powers of two that the provers do not know.

The properties are not inductive. Between two checks nothing a thread knows is
certain, so almost every part of the inductive invariant `IInv` (theorem
`Invariant`) is conditional: it holds as long as the version the thread has
`seen` is still the current one, and says nothing afterwards.

- `GlobalInv`: the packed pointer carries the version of the array it points
  to, levels fall strictly in that array, and its blocks are the most recent
  ones of their level in their owners' pools.
- `SeenInv`, `OwnInv`: the versions of arrays only grow. If the pointer is
  the one that was loaded, its version is the one that was seen (here `NoWrap`
  and the uniqueness of residues enter), and while a thread builds in an array
  of its own, that array is not the current one.
- `LocalInv`, `CopyInv`: how far a seqlock copy has come; what it has copied is
  what is current, if the version still is. Torn copies fail a later check.
- `PeekInv`: a result that passes the check is in the current array or taken.
- `PoolInv`, `InsertInv`, `ShapeInv`, `ContentInv`: local blocks exist only
  during an insert; the new array's levels fall strictly but for the slot at
  hand while `add`, `shrink` and `compact` go through it; it is made of current
  and of own local blocks; and it holds what is current and what is to be
  inserted, apart from what was taken.

Every step of one thread leaves to the others all that their parts speak of, or
publishes the next version (`Frame`), so that each action is looked at for its own
thread only. The refinement has three cases: `publish` inserts the block's
elements that nobody has taken, all at once; `take` and `take_dist` remove one
element; the other steps stutter. TLC checked `IInv` on the instance of the
run `shared` before it was proved.

### block_pool (`SharedLsmProofs`, second part)

- `FourBlocksSuffice`: with `BlocksPerLevel >= 4`, `PoolSuffices`: get_block always
  finds a block ("A free block should always exist",
  `shared_lsm/block_pool.h:88`), under `NoWrap` and `LevelsSuffice`.

`LevelsSuffice` says that no block larger than the largest level is asked for;
the code has 48 levels and does not test this either. The invariant `Stock` counts
the local blocks of a thread by level: before the new array is built there is
only the block to be inserted; the merges of `add` leave at most one of each
level; `shrink` adds at most one of each level from the current slot's on,
`compact` one of each level up to that of the block it looks at. So at most two of the
level that is asked for are local when a third is needed, one may be the most
recent global one, and the fourth is available (`Supply`, a pigeonhole
argument). Four is what the code has; the run `shared` finds `PoolSuffices`
violated with the mutant that never reuses global blocks.

### MultiQueue (`MultiQueueProofs`)

- `PoolRefinement`: `MultiQueue` implements `RelaxedPool`, for all threads,
  numbers of queues, keys and elements.

The inductive invariant: a queue is used by one thread at a time, which holds
its lock (`LockInv`); the queues, the elements about to be added and the removed ones
are disjoint (`PlaceInv`); and what `top` found on a locked queue is still there when
`pop` removes it (`TopInv`). The copies of the tops occur in it with their type
only: correctness does not depend on them.

### DistLsm (`DistLsmProofs`, on `DistListProofs` and `BlockProofs`)

For all threads, items, keys, owners, hand-over sizes, largest blocks and
`N >= 4` blocks of each size (the code has `block_storage<K, V, 4>`):

- `TypesCorrect`: `TypeOK`, with every entry inside its block's capacity;
- `ListsWellFormed`: `ListOK`;
- `FourPerSizeSuffice`: `StorageSuffices`, get_block never has to return a block
  in use, the last one of its size, which it does not test
  (`block_storage_inl.h:41`);
- `BlocksSorted`: `Sorted`;
- `ElementsKept`: `ExactlyOnce`;
- `ScansFindMinimum`: the action property `ScanMin`.

`PowerAssumption` of `Block` states the facts about powers of two that the
provers do not know. The inductive invariant `Inv` (theorem `ListInvariant`)
has three parts.

- The types.
- `StateOK`, for each thread alone: its list is a set of blocks, no two of a
  size, linked downwards by `m_next` and upwards by `m_prev` (`Linked`); the blocks
  of the list, the spied block and the block being worked on are different and
  in use, all but the spied one are in key order, and the others are blank
  (`ListAt`). While `merge_insert`
  runs, `Merging` says where it stands: the blocks up to the one to delete were
  merged, the next one is not smaller. `ListAt` is why four blocks suffice: of
  any size at most one is in the list, one is spied and one is worked on.
- `CopyOK`, for a thread that copies a block of another: whatever it has still
  to read was written. The victim may merge, release and reuse the block
  meanwhile; but the array of a block is never shortened or cleared (`Grows`), so
  the indexes the spy read stay inside what was once written. What it finds
  there may be taken, or out of order: the copy becomes the spied block, which is
  outside the list and of which `ListAt` does not require any order.

`NextInv` has one lemma per action: `DistListProofs` has the invariant, the lemmas
about linked lists and the actions of `insert`, `DistLsmProofs` those of `peek`
and `spy`, the theorems, and everything about the elements (`NextElem`). Actions of the owner relink its list
(`AddLast`, `CutLast`, `Remove`, `Replace`, `Swapped` say what becomes of `Linked`)
and leave what spies of its blocks rely on (`SetBlocksOK`); actions of a spy
touch only its own blocks.

`ExactlyOnce` speaks of the time between its owner's merges only; `Elem` says the
same at every step. A thread's elements are in its list, or, while `merge_insert` runs, in
the block at hand and those blocks of the list that were not merged yet (`Mine`).
They are uses of its own items, past or present; each item in use has its current
block_item in one place of them, or else in the shared LSM, never in both. An
operation writes several blocks at once, so the argument goes by sets of blocks:
`Carried` says that one set of blocks after a step has the elements of another
one before it, all but what was taken, and none twice. It is established for one
block (peek), for one copied (shrink, spy) or two merged, and composed (`CarriedPart`,
`CarriedTwice`) to what each action does. That `Remaining` and `Untaken`, the loops of
merge and copy, drop nothing but taken entries and double none is proved in
`BlockProofs` (`MergeIntoHolds`, `CopyIntoHolds`, `PeekHolds`). `take` never bothers:
versions only grow, so what is taken stays so.

For `ScanMin`, `Scan` says how far a scan has come: no untaken entry of the blocks it
has passed is smaller than the best item found so far, and while the block at hand is shrunk, none in
it is smaller than its candidate. When the end is reached all blocks were passed. `unlink`
and `shrink` put nothing new into the list, other threads only take items, and what is
taken stays so (`Elem`).

The lists and the loops are defined by recursion, and what a recursion computes
is proved by induction, which the provers cannot apply. The proofs take the
smallest round in which a statement about `Chain`, `Merged` or `Untaken` fails,
and refute it (`UpTo` and its like at the start of `BlockProofs`, which then has what
merge, copy, prune and peek keep of a block). TLC checked `Inv` and `Elem` on the instance of the
run `dist_two_threads` before they were proved.

### ItemAllocator (`ItemAllocatorProofs`)

For every block size and every number `MaxUsed` of items in use at once, both at
least 1 (hypotheses of the theorems):

- `MemoryIsBounded`: `MemoryBounded`. The ring is one block or holds fewer than
  `2 * (MaxUsed - 1) + BlockSize` items, and `m_amortized`, which is unsigned,
  never goes below zero;
- `NeverTwice`: the action property `HandedOnce`.

The inductive invariant `IInv` (theorem `WalkIsPaid`) looks ahead: `Walked(j)` is
what the counter will have come to when the walk reaches the end of the j-th
block ahead, if nothing is released before. It is at least the size of the ring less
`2 * (MaxUsed - 1)`: what the walk will meet in use on its way round was all in
use at once. A release only helps. At the end of a block that earned too little,
`Walked` of that same block bounds the ring, which is when a block is added
(`SizeInv`). For `HandedOnce`, `NewInv` says that in a block still called new
nothing ahead of the walk is in use. The proof corrected the bound: the runs had
shown `2 * MaxUsed`, which is not true of every block size (blocks of 5 with 4 in
use reach 10).

### ShortestPaths and FileShortestPaths (`SearchProofs`)

For every number of threads and vertices, every graph, and every order in which the
queue returns the tasks:

- `SearchIsFinal`: `StopsWhenDone` of `ShortestPaths`;
- `WaitingIsFinal`: `StopsWhenDone` of `FileShortestPaths`;
- `VisitedAreWoken`: `VisitedWokenUp`.

`FiniteGraphs` asks for finitely many threads and vertices and for weights that are
natural numbers (`size_t`); 0 is allowed, as a graph from a file may have it.
`NumberedThreads` numbers the threads of the second program from 0, and its padding may be
any number. It is not assumed that the graph is undirected or connected, nor that no
sum exceeds `Infinity`: such a sum improves nothing. With `SearchIsFinal` the
assertions after the join of `shortest_paths.cpp` hold: `num_tasks` is 0 (:267), and no edge
improves a distance (`verify_graph`).

What holds of the search is proved once, with one lemma for each of its steps in
`Relaxation`. Its invariant `SearchInv` has three parts besides the types.

- `ReadInv`: what a thread has read was true once, and distances only shrink; each
  task that is inserted is a new one (the queue is a set in the model), because each task
  for a vertex has a smaller distance than all before it.
- `EdgeInv`: each edge is settled (`Triangular`), or there is a task for the
  current distance of its source, in the queue or with a thread, or a thread has the
  edge still before it. So when there is no task, all edges are settled.
- `PathInv`: every distance found is at least that of another vertex and the edge
  from there, and that vertex comes before: it is nearer, or, by an edge of weight 0, as near and
  got its distance earlier. Without an order the vertices on a cycle of such edges could vouch for
  each other.

Settled edges make the distances no longer than the shortest paths
(`NotLonger`, by the number of edges of the path); `PathInv` makes them no shorter
(`NotShorter`, by the number of vertices that come before). `Shortest` is recursive; the
proof uses the smallest round that fails, as in `BlockProofs`. So in a state without
a task, in the queue or with a thread, distances are final (`SearchEnd`), and it remains to show that no
thread stops in any other state.

In `ShortestPaths` (`CountedInv`, theorem `TasksCounted`), `num_tasks` is the number
of tasks in the queue, of those that threads have taken, and of those counted but not yet
inserted; and once a thread has stopped it is 0. A thread between its
compare-and-swap and `new task_t` is covered by the task it still holds.

In `FileShortestPaths` (`FileInv`, theorem `ThreadsWait`) the counter is `Cardinality(Once) +
Cardinality(Twice)`: a thread counts once from its announcement on, and twice when its last
attempt has failed, until another one has subtracted the 2 to wake it, although it may poll for long after
that. `SwitchInv` ties each switch to where its thread is: at 3 it is being woken, by one
thread only. So the counter is twice the number of threads only if all of them wait and none is being
woken. A waiting thread has left none of its own tasks in the queue (`MayFail`), hence nothing is
left when all wait; and then nobody inserts, so nobody is woken: a value of the counter that was read at
such a moment stays true, though it is compared later. `AsleepInv` adds for `VisitedWokenUp` whom the loop
has still to visit. A thread of which the counter says at `anyone` that nobody waits has none to wake: those that
sleep are counted.

TLC checked the invariants on graphs of three and four vertices, a directed one with a self-loop
and a small `Infinity` among them, and that of the waiting threads with three threads and paddings 0, 1 and 16.

### Only model-checked

All liveness (fairness and ENABLED are beyond the proof system): `CallsReturn`,
`Drains`, `AcquireReturns`, `SearchesTerminate` and the other temporal properties.
`SequentialLsm`, `GlobalLock`, `ITree` and `BlockArray` use recursive operators,
which the provers do not handle. Of the rest: `KLsm`
and `MultiLsm`, and `LockfreeVector`.

## Not modelled, and what is left

Next: a proof of `LockfreeVector` (`OneElementPerIndex`). An entry of a block read
by another thread is one step in `DistLsm` and `MultiLsm`; it is three words
in the code, and the versions checked by `take` are what makes a torn one
harmless.

Left out for good:

- destructors, printing, statistics (`counters.h`) and the pseudo-random generator
  (nondeterministic choices instead);
- `block::spying_iterator`, `block::peek_tail` and `block_storage::get_largest_block`,
  which nothing calls;
- the drivers of the benchmarks (`random.cpp`, `heapsort.cpp`,
  `generate_random_graph.cpp`, `util.cpp`): options, time measurement, and threads
  that call a queue in a loop;
- the queues under `lib/` and the classes of `src/bench/pqs/` that wrap them: third-party
  code, most of the repository's lines;
- tests;
- weak memory beyond sequential consistency. The locks of `multiq` and several
  counters use relaxed operations; on the x86 machines the code targets
  a locked instruction orders them all the same.
