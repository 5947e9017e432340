-------------------------- MODULE SharedLsmProofs --------------------------
(***************************************************************************)
(* Proofs about SharedLsm, from the inductive invariant IInv.              *)
(* Everything that a thread relies on is conditional: it holds as long as  *)
(* the version the thread has seen is still the current one, and it ceases *)
(* to matter once another version has been published.                      *)
(***************************************************************************)
EXTENDS SharedLsm, FiniteSetTheorems, WellFoundedInduction, TLAPS

(* Where a thread is: between the load of the packed pointer and the end   *)
(* of the attempt; inside the copy loop; after the refresh; building.      *)
Copying  == {"reload", "reversion", "copy_version", "copy_size", "copy_blocks", "copy_check",
             "verify_ptr", "verify_ver"}
Matched  == {"copy_version", "copy_size", "copy_blocks", "copy_check", "verify_ptr", "verify_ver"}
Filling  == {"add", "shrink", "compact"}
Filled   == {"check_ptr", "check_ver", "cas"}
Building == {"build_version", "build_copy", "build_incr"} \union Filling \union Filled
Peeking  == {"pick", "peek_ptr", "peek_ver"}
Loaded   == {"version", "fresh_ptr", "fresh_ver"} \union Copying \union Building \union Peeking
Loading  == {"load"} \union Loaded

(* The assumption of all that follows: when a thread compares a version    *)
(* with a packed pointer, or swaps the pointer, fewer than Algn - 1        *)
(* versions have been published since it loaded the pointer.               *)
NoWrap ==
    \A t \in Threads :
        pc[t] \in {"reversion", "cas"} => Current.ver + 1 < loc[t].seen + Algn

LocType ==
    [op : {"none", "insert", "delete_min", "find_min"},
     packed : [array : Arrays, tag : 0 .. (Algn - 1)], obs : Nat, seen : Nat, ptr : Arrays,
     b : Blocks \union {NoBlock}, ib : Blocks \union {NoBlock}, slot : 0 .. (MaxPow + 2),
     best : Elements \union {NoElement}]

(* Which call a thread is in, by where it is. *)
InCall(p, l) ==
    /\ p = "idle" => l.op = "none"
    /\ p \in Building => l.op = "insert"
    /\ p \in Peeking \union {"cache_ptr", "cache_ver"} => l.op \in {"delete_min", "find_min"}
    /\ p \in Loading => l.op # "none"
    /\ p = "take" => l.op = "delete_min" /\ l.best # NoElement

Types ==
    /\ TypeOK
    /\ loc \in [Threads -> LocType]
    /\ content \in [Blocks -> SUBSET inserted]
    /\ fault \in BOOLEAN
    /\ \A t \in Threads : InCall(pc[t], loc[t])

(* Levels fall strictly along the blocks of an array, so there is room for *)
(* one block of every level.                                               *)
Falling(x) ==
    \A s, u \in 1 .. x.size : s < u => level(x.blocks[s]) >= level(x.blocks[u]) + (u - s)
HasBlocks(x) == \A s \in 1 .. x.size : x.blocks[s] \in Blocks
WellFormed(x) == HasBlocks(x) /\ Falling(x)

SameBlocks(x, y) == x.size = y.size /\ \A s \in 1 .. x.size : x.blocks[s] = y.blocks[s]

(* The global pointer and the array it points to. *)
GlobalInv ==
    /\ global.tag = Current.ver % Algn
    /\ IF global.array[1] = Initial THEN Current.ver = 0
                                    ELSE global.array[2] = Current.ver % 2
    /\ WellFormed(Current)
    /\ \A b \in BlocksOf(Current) :
           pool[b].status = "global" /\ b \in MaxGlobal(b[1], level(b))
    /\ arrays[<<Initial, 0>>].ver = 0

(* The version that a thread has seen.  If its own array is current, no    *)
(* other thread has published anything since.                              *)
SeenInv(t) ==
    pc[t] \in Loaded =>
        /\ loc[t].seen <= Current.ver
        /\ loc[t].packed.tag = loc[t].seen % Algn
        /\ arrays[loc[t].packed.array].ver >= loc[t].seen
        /\ loc[t].seen = Current.ver => global = loc[t].packed
        /\ global.array[1] = t => loc[t].seen = Current.ver

(* The versions of the arrays a thread owns. *)
OwnInv(t) ==
    \A p \in {0, 1} :
        LET a == <<t, p>>
        IN  IF pc[t] \in Filling \union Filled /\ a = New(t)
            THEN arrays[a].ver = loc[t].seen + 1
            ELSE /\ arrays[a].ver <= Current.ver
                 /\ pc[t] \in Loaded => arrays[a].ver <= loc[t].seen
                 /\ pc[t] \in {"build_copy", "build_incr"} /\ a = New(t) =>
                        arrays[a].ver = loc[t].seen

(* A local copy that is complete is one of some version, and as long as    *)
(* that version is current, of the current array.                          *)
LocalInv(t) ==
    pc[t] \notin Copying =>
        /\ WellFormed(local[t])
        /\ local[t].ver <= Current.ver
        /\ pc[t] \in Loaded => local[t].ver <= loc[t].seen
        /\ local[t].ver = Current.ver => SameBlocks(local[t], Current)

(* What has been observed, and how far a copy has come. *)
CopyInv(t) ==
    LET l == loc[t]
        now == l.seen = Current.ver
    IN  /\ pc[t] = "fresh_ptr" /\ now => l.obs = l.seen
        /\ pc[t] = "fresh_ver" =>
               /\ arrays[l.ptr].ver >= l.seen
               /\ arrays[l.ptr].ver = l.seen => l.obs = l.seen
        /\ pc[t] \in Matched \union Building \union Peeking => l.obs = l.seen
        /\ pc[t] \in Building \union Peeking => local[t].ver = l.seen
        /\ pc[t] \in Matched \ {"copy_version"} /\ now => local[t].ver = l.seen
        /\ pc[t] \in Matched \ {"copy_version", "copy_size"} /\ now =>
               local[t].size = Current.size
        /\ pc[t] \in {"copy_check", "verify_ptr", "verify_ver"} /\ now =>
               SameBlocks(local[t], Current)
        /\ pc[t] = "verify_ver" =>
               /\ arrays[l.ptr].ver >= l.seen
               /\ arrays[l.ptr].ver = l.seen => WellFormed(local[t])
        /\ pc[t] = "check_ver" /\ now => l.ptr = global.array

(* Peeking: a result that passes the check is an element of the current    *)
(* array, or has been taken from it.                                       *)
Found == Contents(Current) \union taken \union {NoElement}
PeekInv(t) ==
    LET l == loc[t]
    IN  /\ pc[t] = "peek_ptr" /\ l.seen = Current.ver => l.best \in Found
        /\ pc[t] = "peek_ver" =>
               /\ arrays[l.ptr].ver >= l.seen
               /\ arrays[l.ptr].ver = l.seen => l.best \in Found
        /\ pc[t] \in {"peek_ptr", "peek_ver"} => cached[t] = l.best
        /\ pc[t] = "take" => l.best \in Found
        /\ pc[t] \notin Loading \/ l.op = "insert" => cached[t] \in Found

(* The blocks of a thread's pool. *)
PoolInv(t) ==
    \A b \in Blocks : b[1] = t =>
        /\ pool[b].status = "local" => loc[t].op = "insert"
        /\ pool[b].status = "global" => pool[b].ver <= Current.ver

Mine(t, b) == b \in Blocks /\ b[1] = t /\ pool[b].status = "local"

(* The block to be inserted and the merged block belong to the thread. *)
InsertInv(t) ==
    /\ loc[t].op = "insert" => Mine(t, loc[t].b)
    /\ pc[t] = "add" => Mine(t, loc[t].ib)

(* The shape of the array that is being built. *)
Weakly(x, n) ==
    \A s, u \in 1 .. x.size :
        s < u => /\ level(x.blocks[s]) >= level(x.blocks[u]) + (u - s) - 1
                 /\ s >= n => level(x.blocks[s]) >= level(x.blocks[u]) + (u - s)
WeaklyUpTo(x, n) ==
    \A s, u \in 1 .. x.size :
        s < u => /\ u <= n => level(x.blocks[s]) >= level(x.blocks[u]) + (u - s) - 1
                 /\ s >= n => level(x.blocks[s]) >= level(x.blocks[u]) + (u - s)
ShapeInv(t) ==
    LET x == arrays[New(t)]
        n == loc[t].slot
    IN  /\ pc[t] = "build_incr" => SameBlocks(x, local[t])
        /\ pc[t] \in Filling \union Filled => HasBlocks(x)
        /\ pc[t] = "add" =>
               /\ Falling(x)
               /\ n <= x.size
               /\ \A s \in 1 .. x.size :
                      IF s <= n THEN level(x.blocks[s]) >= level(loc[t].ib)
                                ELSE level(x.blocks[s]) < level(loc[t].ib)
        /\ pc[t] = "shrink" => n \in 1 .. x.size /\ Weakly(x, n)
        /\ pc[t] = "compact" => n < x.size /\ WeaklyUpTo(x, n + 1)
        /\ pc[t] \in Filled => Falling(x)

(* As long as nothing else is published, the array that is being built     *)
(* consists of published blocks and of blocks of the thread, and holds     *)
(* what is published and what is to be inserted.                           *)
Together(t) == Contents(Current) \union content[loc[t].b]
ContentInv(t) ==
    LET x == arrays[New(t)]
    IN  loc[t].seen = Current.ver =>
        /\ pc[t] \in Filling \union Filled =>
               \A b \in BlocksOf(x) : b \in BlocksOf(Current) \/ Mine(t, b)
        /\ pc[t] = "add" =>
               (Contents(x) \union content[loc[t].ib]) \ taken = Together(t) \ taken
        /\ pc[t] \in {"shrink", "compact"} \union Filled =>
               Contents(x) \ taken = Together(t) \ taken

BuildInv(t) == InsertInv(t) /\ ShapeInv(t) /\ ContentInv(t)

ThreadInv(t) ==
    /\ SeenInv(t) /\ OwnInv(t) /\ LocalInv(t) /\ CopyInv(t) /\ PeekInv(t) /\ PoolInv(t)
    /\ fault \/ BuildInv(t)

IInv == Types /\ GlobalInv /\ \A t \in Threads : ThreadInv(t)

-----------------------------------------------------------------------------
(* Capacities are ordered as levels are. *)
LEMMA CapacityOrder ==
    ASSUME NEW b \in Blocks, NEW c \in Blocks
    PROVE  /\ capacity(b) \in Nat
           /\ level(b) \in 0 .. MaxPow
           /\ level(b) > level(c) <=> capacity(b) > capacity(c)
           /\ level(b) = level(c) <=> capacity(b) = capacity(c)
PROOF
<1>1. level(b) \in 0 .. MaxPow /\ level(c) \in 0 .. MaxPow
  BY DEF Blocks, level
<1>2. capacity(b) = 2 ^ level(b) /\ capacity(c) = 2 ^ level(c)
  BY DEF capacity, level
<1>3. capacity(b) \in Nat /\ capacity(c) \in Nat
  BY <1>1, <1>2, PowerAssumption
<1>4. level(b) > level(c) => capacity(b) > capacity(c)
  BY <1>1, <1>2, <1>3, PowerAssumption
<1>5. level(b) < level(c) => capacity(b) < capacity(c)
  BY <1>1, <1>2, <1>3, PowerAssumption
<1>6. level(b) = level(c) => capacity(b) = capacity(c)
  BY <1>2
<1>7. QED
  BY <1>1, <1>3, <1>4, <1>5, <1>6

(* A version is determined by its residue among Algn successive ones. *)
LEMMA ResidueUnique ==
    ASSUME NEW m \in Nat \ {0}, NEW a \in Nat, NEW b \in Nat,
           a <= b, b < a + m, a % m = b % m
    PROVE  a = b
PROOF
<1> DEFINE q == (b \div m) - (a \div m)
<1>1. a = m * (a \div m) + (a % m) /\ b = m * (b \div m) + (b % m)
  OBVIOUS
<1>2. (a \div m) \in Int /\ (b \div m) \in Int
  OBVIOUS
<1>3. b - a = m * q
  BY <1>1, <1>2
<1>4. CASE q <= 0
  BY <1>2, <1>3, <1>4
<1>5. CASE q >= 1
  BY <1>2, <1>3, <1>5
<1>6. QED
  BY <1>2, <1>4, <1>5

(* What the types say of the pieces of the state. *)
LEMMA TypeFacts ==
    ASSUME Types
    PROVE  /\ global \in [array : Arrays, tag : 0 .. (Algn - 1)]
           /\ global.array \in Arrays /\ global.tag \in 0 .. (Algn - 1)
           /\ \A a \in Arrays : arrays[a] \in ArrayType
           /\ Current \in ArrayType
           /\ \A t \in Threads :
                  /\ pc[t] \in Pcs /\ loc[t] \in LocType /\ local[t] \in ArrayType
                  /\ cached[t] \in Elements \union {NoElement}
                  /\ New(t) \in Arrays /\ New(t)[1] = t /\ arrays[New(t)] \in ArrayType
                  /\ GlobalVersion(t) \in Nat /\ Source(t) \in ArrayType
PROOF
<1>1. /\ global \in [array : Arrays, tag : 0 .. (Algn - 1)]
      /\ global.array \in Arrays /\ global.tag \in 0 .. (Algn - 1)
  BY DEF Types, TypeOK
<1>2. \A a \in Arrays : arrays[a] \in ArrayType
  BY DEF Types, TypeOK
<1>3. ASSUME NEW t \in Threads
      PROVE  /\ pc[t] \in Pcs /\ loc[t] \in LocType /\ local[t] \in ArrayType
             /\ cached[t] \in Elements \union {NoElement}
             /\ New(t) \in Arrays /\ New(t)[1] = t
  <2>1. pc[t] \in Pcs /\ loc[t] \in LocType /\ local[t] \in ArrayType
        /\ cached[t] \in Elements \union {NoElement}
    BY DEF Types, TypeOK
  <2>2. New(t) \in Arrays /\ New(t)[1] = t
    BY DEF New, Arrays
  <2>3. QED
    BY <2>1, <2>2
<1>4. ASSUME NEW t \in Threads
      PROVE  loc[t].ptr \in Arrays /\ loc[t].packed.array \in Arrays
  BY <1>3 DEF LocType
<1>5. QED
  BY <1>1, <1>2, <1>3, <1>4 DEF Current, GlobalVersion, Source, ArrayType

LEMMA GotoFacts ==
    ASSUME Types, NEW t \in Threads, NEW p, NEW l, Goto(t, p, l)
    PROVE  /\ pc'[t] = p /\ loc'[t] = l
           /\ \A u \in Threads \ {t} : pc'[u] = pc[u] /\ loc'[u] = loc[u]
           /\ p \in Pcs => pc' \in [Threads -> Pcs]
           /\ l \in LocType => loc' \in [Threads -> LocType]
  BY DEF Goto, Types, TypeOK

-----------------------------------------------------------------------------
(* What a step of thread t leaves to the others: their locals, arrays and  *)
(* blocks; versions of arrays only grow; and either what is current stays  *)
(* as it is, or t publishes the next version.                              *)
Frame(t) ==
    /\ \A u \in Threads \ {t} :
           pc'[u] = pc[u] /\ loc'[u] = loc[u] /\ local'[u] = local[u] /\ cached'[u] = cached[u]
    /\ \A a \in Arrays :
           /\ a[1] # t => arrays'[a] = arrays[a]
           /\ arrays'[a].ver >= arrays[a].ver
    /\ \A b \in Blocks : b[1] # t => pool'[b] = pool[b] /\ content'[b] = content[b]
    /\ taken \subseteq taken'
    /\ \/ /\ global' = global /\ Current' = Current
          /\ \A b \in BlocksOf(Current) : content'[b] = content[b]
       \/ Current'.ver = Current.ver + 1 /\ global'.array[1] = t
    /\ Found \subseteq Found'

LEMMA TypeFactsNext ==
    ASSUME Types'
    PROVE  /\ global'.array \in Arrays /\ global'.tag \in 0 .. (Algn - 1)
           /\ \A a \in Arrays : arrays'[a] \in ArrayType
           /\ Current' \in ArrayType /\ Current'.ver \in Nat
           /\ \A t \in Threads : loc'[t] \in LocType /\ local'[t] \in ArrayType
PROOF
<1>1. global'.array \in Arrays /\ global'.tag \in 0 .. (Algn - 1)
  BY DEF Types, TypeOK
<1>2. \A a \in Arrays : arrays'[a] \in ArrayType
  BY DEF Types, TypeOK
<1>3. \A t \in Threads : loc'[t] \in LocType /\ local'[t] \in ArrayType
  BY DEF Types, TypeOK
<1>4. QED
  BY <1>1, <1>2, <1>3 DEF Current, ArrayType

(* What is current changes only when t publishes, and then the version of  *)
(* every other thread is out of date.                                      *)
LEMMA FrameCurrent ==
    ASSUME Types, Types', NEW t \in Threads, Frame(t)
    PROVE  /\ Current.ver \in Nat /\ Current'.ver \in Nat /\ Current'.ver >= Current.ver
           /\ Current'.ver = Current.ver =>
                  /\ global' = global /\ Current' = Current
                  /\ BlocksOf(Current)' = BlocksOf(Current)
                  /\ \A b \in BlocksOf(Current) : content'[b] = content[b]
                  /\ Contents(Current)' = Contents(Current)
           /\ global'.array[1] # t => Current'.ver = Current.ver
PROOF
<1>1. Current.ver \in Nat /\ Current'.ver \in Nat
  BY TypeFacts, TypeFactsNext DEF ArrayType
<1>2. CASE global' = global /\ Current' = Current
           /\ \A b \in BlocksOf(Current) : content'[b] = content[b]
  <2>1. BlocksOf(Current)' = BlocksOf(Current)
    BY <1>2 DEF BlocksOf
  <2>2. Contents(Current)' = Contents(Current)
    BY <1>2, <2>1 DEF Contents
  <2>3. QED
    BY <1>1, <1>2, <2>1, <2>2
<1>3. CASE Current'.ver = Current.ver + 1 /\ global'.array[1] = t
  BY <1>1, <1>3
<1>4. QED
  BY <1>2, <1>3 DEF Frame

-----------------------------------------------------------------------------
(* A step of t preserves what every other thread relies on. *)

LEMMA OthersSame ==
    ASSUME IInv, Types', NEW t \in Threads, Frame(t), NEW u \in Threads \ {t}
    PROVE  /\ pc'[u] = pc[u] /\ loc'[u] = loc[u] /\ local'[u] = local[u] /\ cached'[u] = cached[u]
           /\ New(u)' = New(u) /\ arrays'[New(u)] = arrays[New(u)]
           /\ \A a \in Arrays : /\ arrays[a].ver \in Nat /\ arrays'[a].ver \in Nat
                                /\ arrays'[a].ver >= arrays[a].ver
           /\ loc[u].seen \in Nat /\ loc[u].obs \in Nat /\ local[u].ver \in Nat
           /\ loc[u].ptr \in Arrays /\ loc[u].packed.array \in Arrays
           /\ ThreadInv(u)
PROOF
<1>1. pc'[u] = pc[u] /\ loc'[u] = loc[u] /\ local'[u] = local[u] /\ cached'[u] = cached[u]
  BY DEF Frame
<1>2. New(u)' = New(u) /\ New(u) \in Arrays /\ New(u)[1] = u
  BY <1>1, TypeFacts DEF IInv, New
<1>3. arrays'[New(u)] = arrays[New(u)]
  BY <1>2 DEF Frame
<1>4. \A a \in Arrays : arrays[a].ver \in Nat /\ arrays'[a].ver \in Nat
                        /\ arrays'[a].ver >= arrays[a].ver
  BY TypeFacts, TypeFactsNext DEF IInv, ArrayType, Frame
<1>5. loc[u].seen \in Nat /\ loc[u].obs \in Nat /\ local[u].ver \in Nat
      /\ loc[u].ptr \in Arrays /\ loc[u].packed.array \in Arrays
  BY TypeFacts DEF IInv, LocType, ArrayType
<1>6. QED
  BY <1>1, <1>2, <1>3, <1>4, <1>5 DEF IInv

LEMMA OthersSeen ==
    ASSUME IInv, Types', NEW t \in Threads, Frame(t), NEW u \in Threads \ {t}
    PROVE  SeenInv(u)'
PROOF
<1> USE OthersSame, FrameCurrent DEF IInv
<1>1. SeenInv(u)
  BY DEF ThreadInv
<1>2. QED
  BY <1>1 DEF SeenInv

LEMMA OthersOwn ==
    ASSUME IInv, Types', NEW t \in Threads, Frame(t), NEW u \in Threads \ {t}
    PROVE  OwnInv(u)'
PROOF
<1> USE OthersSame, FrameCurrent DEF IInv
<1>1. OwnInv(u)
  BY DEF ThreadInv
<1>2. \A p \in {0, 1} : <<u, p>> \in Arrays /\ arrays'[<<u, p>>] = arrays[<<u, p>>]
  BY DEF Frame, Arrays
<1>3. QED
  BY <1>1, <1>2 DEF OwnInv

LEMMA OthersLocal ==
    ASSUME IInv, Types', NEW t \in Threads, Frame(t), NEW u \in Threads \ {t}
    PROVE  LocalInv(u)'
PROOF
<1> USE OthersSame, FrameCurrent DEF IInv
<1>1. LocalInv(u)
  BY DEF ThreadInv
<1>2. WellFormed(local[u]) => WellFormed(local[u])'
  BY DEF WellFormed, HasBlocks, Falling
<1>3. Current' = Current /\ SameBlocks(local[u], Current) => SameBlocks(local[u], Current)'
  BY DEF SameBlocks
<1>4. QED
  BY <1>1, <1>2, <1>3 DEF LocalInv

LEMMA OthersCopy ==
    ASSUME IInv, Types', NEW t \in Threads, Frame(t), NEW u \in Threads \ {t}
    PROVE  CopyInv(u)'
PROOF
<1> USE OthersSame, FrameCurrent DEF IInv
<1>1. CopyInv(u) /\ SeenInv(u)
  BY DEF ThreadInv
<1>2. WellFormed(local[u]) => WellFormed(local[u])'
  BY DEF WellFormed, HasBlocks, Falling
<1>3. Current' = Current /\ SameBlocks(local[u], Current) => SameBlocks(local[u], Current)'
  BY DEF SameBlocks
<1>4. pc[u] \in Loaded /\ loc'[u].seen = Current'.ver =>
          loc[u].seen = Current.ver /\ global' = global /\ Current' = Current
  BY <1>1 DEF SeenInv
<1>5. pc[u] \in Loaded /\ arrays'[loc[u].ptr].ver = loc[u].seen /\ arrays[loc[u].ptr].ver >= loc[u].seen
          => arrays[loc[u].ptr].ver = loc[u].seen
  OBVIOUS
<1>6. QED
  BY <1>1, <1>2, <1>3, <1>4, <1>5 DEF CopyInv, Loaded, Matched, Copying, Building, Filling, Filled

LEMMA OthersPeek ==
    ASSUME IInv, Types', NEW t \in Threads, Frame(t), NEW u \in Threads \ {t}
    PROVE  PeekInv(u)'
PROOF
<1> USE OthersSame, FrameCurrent DEF IInv
<1>1. PeekInv(u) /\ SeenInv(u)
  BY DEF ThreadInv
<1>2. Found \subseteq Found'
  BY DEF Frame
<1>3. pc[u] \in Loaded /\ loc'[u].seen = Current'.ver => loc[u].seen = Current.ver
  BY <1>1 DEF SeenInv
<1>4. arrays'[loc[u].ptr].ver = loc[u].seen /\ arrays[loc[u].ptr].ver >= loc[u].seen
          => arrays[loc[u].ptr].ver = loc[u].seen
  OBVIOUS
<1>5. QED
  BY <1>1, <1>2, <1>3, <1>4 DEF PeekInv, Loaded, Peeking

LEMMA OthersPool ==
    ASSUME IInv, Types', NEW t \in Threads, Frame(t), NEW u \in Threads \ {t}
    PROVE  PoolInv(u)'
PROOF
<1> USE OthersSame, FrameCurrent DEF IInv
<1>1. PoolInv(u)
  BY DEF ThreadInv
<1>2. \A b \in Blocks : b[1] = u => pool'[b] = pool[b] /\ (pool[b].ver \in Nat)
  BY DEF Frame, Types, TypeOK
<1>3. QED
  BY <1>1, <1>2 DEF PoolInv

LEMMA OthersBuild ==
    ASSUME IInv, ~fault, Types', NEW t \in Threads, Frame(t), NEW u \in Threads \ {t}
    PROVE  BuildInv(u)'
PROOF
<1> USE OthersSame, FrameCurrent DEF IInv
<1>1. BuildInv(u) /\ SeenInv(u)
  BY DEF ThreadInv
<1>2. \A b : Mine(u, b) => Mine(u, b)' /\ content'[b] = content[b]
  BY DEF Mine, Frame
<1>3. InsertInv(u)'
  BY <1>1, <1>2 DEF BuildInv, InsertInv
<1>4. ShapeInv(u)'
  BY <1>1, SMTT(30) DEF BuildInv, ShapeInv, SameBlocks, HasBlocks, Falling, Weakly, WeaklyUpTo
<1>5. ContentInv(u)'
  <2> DEFINE x == arrays[New(u)]
  <2> SUFFICES ASSUME loc'[u].seen = Current'.ver, pc[u] \in Filling \union Filled
               PROVE  ContentInv(u)'
    BY DEF ContentInv, Filling, Filled
  <2>1. loc[u].seen = Current.ver /\ global' = global /\ Current' = Current
    BY <1>1 DEF SeenInv, Loaded, Building
  <2>2. \A b \in BlocksOf(x) : b \in BlocksOf(Current) \/ Mine(u, b)
    BY <1>1, <2>1 DEF BuildInv, ContentInv
  <2>3. BlocksOf(x)' = BlocksOf(x) /\ \A b \in BlocksOf(x) : content'[b] = content[b]
    BY <1>2, <2>1, <2>2 DEF BlocksOf
  <2>4. Contents(x)' = Contents(x)
    BY <2>3 DEF Contents
  <2>5. Mine(u, loc[u].b)
    BY <1>1 DEF BuildInv, InsertInv, Types, InCall, Building
  <2>6. Together(u)' = Together(u)
    BY <1>2, <2>1, <2>5 DEF Together
  <2>7. pc[u] = "add" => content'[loc[u].ib] = content[loc[u].ib]
    BY <1>1, <1>2 DEF BuildInv, InsertInv
  <2>8. taken \subseteq taken'
    BY DEF Frame
  <2>9. \A b \in BlocksOf(x)' : b \in BlocksOf(Current)' \/ Mine(u, b)'
    BY <1>2, <2>1, <2>2, <2>3
  <2>10. CASE pc[u] = "add"
    <3>1. (Contents(x) \union content[loc[u].ib]) \ taken = Together(u) \ taken
      BY <1>1, <2>1, <2>10 DEF BuildInv, ContentInv
    <3>2. (Contents(x)' \union content'[loc[u].ib]) \ taken' = Together(u)' \ taken'
      BY <3>1, <2>4, <2>6, <2>7, <2>8, <2>10
    <3>3. QED
      BY <3>2, <2>9, <2>10 DEF ContentInv, Filled
  <2>11. CASE pc[u] \in {"shrink", "compact"} \union Filled
    <3>1. Contents(x) \ taken = Together(u) \ taken
      BY <1>1, <2>1, <2>11 DEF BuildInv, ContentInv
    <3>2. Contents(x)' \ taken' = Together(u)' \ taken'
      BY <3>1, <2>4, <2>6, <2>8
    <3>3. QED
      BY <3>2, <2>9, <2>11 DEF ContentInv, Filled
  <2>12. QED
    BY <2>10, <2>11 DEF Filling
<1>6. QED
  BY <1>3, <1>4, <1>5 DEF BuildInv

LEMMA Others ==
    ASSUME IInv, ~fault, Types', NEW t \in Threads, Frame(t), NEW u \in Threads \ {t}
    PROVE  ThreadInv(u)'
  BY OthersSeen, OthersOwn, OthersLocal, OthersCopy, OthersPeek, OthersPool, OthersBuild
     DEF ThreadInv

-----------------------------------------------------------------------------
(* Steps that change nothing but where a thread is and its locals. *)

LEMMA StepInv ==
    ASSUME IInv, ~fault, NEW t \in Threads, Types', GlobalInv', Frame(t), ThreadInv(t)'
    PROVE  IInv'
PROOF
<1>1. \A u \in Threads \ {t} : ThreadInv(u)'
  BY Others
<1>2. QED
  BY <1>1 DEF IInv

LEMMA LocalsFrame ==
    ASSUME IInv, NEW t \in Threads, NEW p \in Pcs, NEW l \in LocType, Goto(t, p, l), OnlyLocals,
           InCall(p, l)
    PROVE  /\ Types' /\ GlobalInv' /\ Frame(t)
           /\ Current' = Current /\ Found' = Found
           /\ pc'[t] = p /\ loc'[t] = l
           /\ \A b : Mine(t, b)' <=> Mine(t, b)
PROOF
<1> USE DEF OnlyLocals
<1>1. /\ pc'[t] = p /\ loc'[t] = l
      /\ \A u \in Threads \ {t} : pc'[u] = pc[u] /\ loc'[u] = loc[u]
      /\ pc' \in [Threads -> Pcs] /\ loc' \in [Threads -> LocType]
  BY GotoFacts DEF IInv
<1>2. Current' = Current
  BY DEF Current
<1>3. Found' = Found
  BY DEF Found, Contents, BlocksOf, Current
<1>4. TypeOK'
  BY <1>1 DEF IInv, Types, TypeOK
<1>5. Types'
  BY <1>1, <1>4 DEF IInv, Types
<1>6. GlobalInv'
  BY DEF IInv, GlobalInv, MaxGlobal, WellFormed, HasBlocks, Falling, BlocksOf, Current
<1>7. Frame(t)
  BY <1>1, <1>2, <1>3, TypeFacts DEF IInv, ArrayType, Frame
<1>8. \A b : Mine(t, b)' <=> Mine(t, b)
  BY DEF Mine
<1>9. QED
  BY <1>1, <1>2, <1>3, <1>5, <1>6, <1>7, <1>8

(* Such a step that does not lead to the middle of building an array. *)
LEMMA LocalsKeep ==
    ASSUME IInv, ~fault, NEW t \in Threads, NEW p \in Pcs, NEW l \in LocType, Goto(t, p, l),
           OnlyLocals, InCall(p, l),
           p \notin Filling \union Filled \union {"build_incr"},
           l.op = "insert" => loc[t].op = "insert" /\ l.b = loc[t].b,
           loc[t].op = "insert" => l.op = "insert"
    PROVE  BuildInv(t)' /\ PoolInv(t)'
PROOF
<1> USE LocalsFrame
<1>1. InsertInv(t) /\ PoolInv(t)
  BY DEF IInv, ThreadInv, BuildInv
<1>2. InsertInv(t)'
  BY <1>1 DEF InsertInv, Filling
<1>3. ShapeInv(t)' /\ ContentInv(t)'
  BY DEF ShapeInv, ContentInv, Filling, Filled
<1>4. PoolInv(t)'
  BY <1>1 DEF PoolInv, OnlyLocals
<1>5. QED
  BY <1>2, <1>3, <1>4 DEF BuildInv

(* ... and while it relies on the same version as before. *)
LEMMA LocalsSeen ==
    ASSUME IInv, NEW t \in Threads, NEW p \in Pcs, NEW l \in LocType, Goto(t, p, l), OnlyLocals,
           InCall(p, l), pc[t] \in Loaded \ (Filling \union Filled),
           p \notin Filling \union Filled \union {"build_copy", "build_incr"},
           l.packed = loc[t].packed, l.seen = loc[t].seen
    PROVE  SeenInv(t)' /\ OwnInv(t)'
PROOF
<1> USE LocalsFrame
<1>1. SeenInv(t) /\ OwnInv(t)
  BY DEF IInv, ThreadInv
<1>2. SeenInv(t)'
  BY <1>1 DEF SeenInv, OnlyLocals
<1>3. OwnInv(t)'
  <2>1. \A q \in {0, 1} : arrays[<<t, q>>].ver <= Current.ver /\ arrays[<<t, q>>].ver <= loc[t].seen
    BY <1>1 DEF OwnInv
  <2>2. QED
    BY <2>1 DEF OwnInv, OnlyLocals
<1>4. QED
  BY <1>2, <1>3

LEMMA LocalsLocal ==
    ASSUME IInv, NEW t \in Threads, NEW p \in Pcs, NEW l \in LocType, Goto(t, p, l), OnlyLocals,
           InCall(p, l), p \in Copying \/ pc[t] \notin Copying,
           p \in Loaded => p \in Copying \/ (pc[t] \in Loaded /\ l.seen = loc[t].seen)
    PROVE  LocalInv(t)'
PROOF
<1> USE LocalsFrame
<1>1. LocalInv(t)
  BY DEF IInv, ThreadInv
<1>2. (WellFormed(local[t])' <=> WellFormed(local[t]))
      /\ (SameBlocks(local[t], Current)' <=> SameBlocks(local[t], Current))
  BY DEF OnlyLocals, WellFormed, HasBlocks, Falling, SameBlocks
<1>3. QED
  BY <1>1, <1>2 DEF LocalInv, OnlyLocals

LEMMA LocalsStep ==
    ASSUME IInv, ~fault, NEW t \in Threads, NEW p \in Pcs, NEW l \in LocType, Goto(t, p, l),
           OnlyLocals, InCall(p, l),
           p \notin Filling \union Filled \union {"build_incr"},
           l.op = "insert" => loc[t].op = "insert" /\ l.b = loc[t].b,
           loc[t].op = "insert" => l.op = "insert",
           SeenInv(t)', OwnInv(t)', LocalInv(t)', CopyInv(t)', PeekInv(t)'
    PROVE  IInv'
PROOF
<1>1. BuildInv(t)' /\ PoolInv(t)'
  BY LocalsKeep
<1>2. ThreadInv(t)'
  BY <1>1 DEF ThreadInv
<1>3. Types' /\ GlobalInv' /\ Frame(t)
  BY LocalsFrame
<1>4. QED
  BY <1>2, <1>3, StepInv

LEMMA IdleType ==
    /\ Idle \in LocType /\ Idle.op = "none" /\ InCall("idle", Idle)
    /\ \A op \in {"insert", "delete_min", "find_min"} : [Idle EXCEPT !.op = op] \in LocType
PROOF
<1>1. 0 % Algn \in 0 .. (Algn - 1)
  BY SharedAssumption
<1>2. 0 \in 0 .. (MaxPow + 2)
  BY SharedAssumption
<1>3. Idle \in LocType
  BY <1>1, <1>2 DEF Idle, LocType, Packed, Arrays
<1>4. QED
  BY <1>3 DEF Idle, LocType, InCall, Building, Filling, Filled, Peeking, Loading, Loaded, Copying

-----------------------------------------------------------------------------
(* The steps of peek and of the refresh that change only locals. *)

LEMMA PeekStep ==
    ASSUME IInv, ~fault, NEW t \in Threads, NEW op \in {"delete_min", "find_min"}, peek(t, op)
    PROVE  IInv'
PROOF
<1> DEFINE l == [Idle EXCEPT !.op = op]
<1> USE TypeFacts DEF IInv
<1>1. pc[t] = "idle" /\ Goto(t, "cache_ptr", l) /\ OnlyLocals
  BY DEF peek, OnlyLocals
<1>2. l \in LocType /\ l.op = op
  BY IdleType DEF LocType
<1> HIDE DEF l
<1>3. InCall("cache_ptr", l) /\ "cache_ptr" \in Pcs /\ loc[t].op = "none"
  BY <1>1, <1>2 DEF Types, InCall, Pcs, Loading, Loaded, Copying, Building, Peeking, Filling, Filled
<1>4. Current' = Current /\ Found' = Found /\ pc'[t] = "cache_ptr" /\ loc'[t] = l
  BY <1>1, <1>2, <1>3, LocalsFrame
<1>5. SeenInv(t)'
  BY <1>4 DEF SeenInv, Loaded, Copying, Building, Filling, Filled, Peeking
<1>6. OwnInv(t)'
  BY <1>1, <1>4 DEF ThreadInv, OwnInv, OnlyLocals, Loaded, Copying, Building, Filling, Filled, Peeking
<1>7. LocalInv(t)'
  BY <1>1, <1>2, <1>3, LocalsLocal DEF Loaded, Copying, Building, Filling, Filled, Peeking
<1>8. CopyInv(t)'
  BY <1>4 DEF CopyInv, Matched, Building, Filling, Filled, Peeking
<1>9. PeekInv(t)'
  BY <1>1, <1>4 DEF PeekInv, ThreadInv, OnlyLocals, Loading, Loaded, Copying, Building, Filling,
                    Filled, Peeking
<1>10. QED
  BY <1>1, <1>2, <1>3, <1>5, <1>6, <1>7, <1>8, <1>9, LocalsStep DEF Filling, Filled

(* The packed pointer is loaded: what is current is what has been seen. *)
LEMMA LoadStep ==
    ASSUME IInv, ~fault, NEW t \in Threads, load(t)
    PROVE  IInv'
PROOF
<1> DEFINE l == [loc[t] EXCEPT !.packed = global, !.seen = Current.ver]
<1> USE TypeFacts DEF IInv
<1>1. pc[t] = "load" /\ Goto(t, "version", l) /\ OnlyLocals
  BY DEF load
<1>2. /\ l \in LocType /\ l.op = loc[t].op /\ l.b = loc[t].b /\ l.best = loc[t].best
      /\ l.packed = global /\ l.seen = Current.ver
  <2>1. loc[t] \in LocType /\ Current.ver \in Nat
    BY DEF ArrayType
  <2>2. QED
    BY <2>1 DEF LocType
<1> HIDE DEF l
<1>3. InCall("version", l) /\ "version" \in Pcs
  BY <1>1, <1>2 DEF Types, InCall, Pcs, Loading, Loaded, Building, Peeking, Filling, Filled
<1>4. /\ Types' /\ GlobalInv' /\ Frame(t)
      /\ Current' = Current /\ Found' = Found /\ pc'[t] = "version" /\ loc'[t] = l
  BY <1>1, <1>2, <1>3, LocalsFrame
<1>5. BuildInv(t)' /\ PoolInv(t)'
  BY <1>1, <1>2, <1>3, LocalsKeep DEF Filling, Filled
<1>6. SeenInv(t)'
  BY <1>1, <1>2, <1>4 DEF SeenInv, OnlyLocals, GlobalInv, Current, ArrayType
<1>7. OwnInv(t)'
  <2>1. \A p \in {0, 1} : arrays[<<t, p>>].ver <= Current.ver
    BY <1>1 DEF ThreadInv, OwnInv, Filling, Filled
  <2>2. QED
    BY <1>1, <1>2, <1>4, <2>1 DEF OwnInv, OnlyLocals, Filling, Filled
<1>8. LocalInv(t)'
  BY <1>1, <1>2, <1>4 DEF ThreadInv, LocalInv, OnlyLocals, WellFormed, HasBlocks, Falling, SameBlocks, Copying
<1>9. CopyInv(t)'
  BY <1>1, <1>4 DEF CopyInv, Matched, Building, Peeking, Filling, Filled
<1>10. PeekInv(t)'
  BY <1>1, <1>2, <1>4 DEF PeekInv, ThreadInv, OnlyLocals, Loading, Loaded
<1>11. ThreadInv(t)'
  BY <1>5, <1>6, <1>7, <1>8, <1>9, <1>10 DEF ThreadInv
<1>12. QED
  BY <1>4, <1>11, StepInv
(* The locals that stay as they are during the refresh. *)
SameAttempt(l, k) ==
    /\ l.op = k.op /\ l.b = k.b /\ l.best = k.best
    /\ l.packed = k.packed /\ l.seen = k.seen

(* A step of the refresh, from one place after the load to another. *)
LEMMA RefreshStep ==
    ASSUME IInv, ~fault, NEW t \in Threads, NEW p \in Loaded, NEW l \in LocType, Goto(t, p, l),
           OnlyLocals, pc[t] \in Loaded \ (Filling \union Filled),
           p \notin Filling \union Filled \union {"build_copy", "build_incr", "peek_ptr", "peek_ver"},
           SameAttempt(l, loc[t]),
           IF loc[t].op = "insert" THEN p \notin Peeking ELSE p \notin Building,
           LocalInv(t)', CopyInv(t)'
    PROVE  IInv'
PROOF
<1> USE DEF Loading, Loaded, Copying, Building, Peeking, Filling, Filled
<1>1. loc[t] \in LocType /\ Types
  BY TypeFacts DEF IInv
<1>2. l.op = loc[t].op /\ l.b = loc[t].b /\ l.packed = loc[t].packed /\ l.seen = loc[t].seen
      /\ l.best = loc[t].best
  BY DEF SameAttempt
<1>3. p \in Pcs /\ InCall(p, l)
  BY <1>1, <1>2 DEF Pcs, Types, InCall, LocType
<1>4. SeenInv(t)' /\ OwnInv(t)'
  BY <1>2, <1>3, LocalsSeen
<1>5. Found' = Found /\ pc'[t] = p /\ loc'[t] = l
  BY <1>3, LocalsFrame
<1>6. PeekInv(t)'
  <2>1. PeekInv(t)
    BY DEF IInv, ThreadInv
  <2>2. QED
    BY <1>2, <1>5, <2>1 DEF PeekInv, OnlyLocals
<1>7. QED
  BY <1>2, <1>3, <1>4, <1>6, LocalsStep

LEMMA ReadVersionStep ==
    ASSUME IInv, ~fault, NEW t \in Threads, read_version(t)
    PROVE  IInv'
PROOF
<1> DEFINE l == [loc[t] EXCEPT !.obs = arrays[loc[t].packed.array].ver]
<1> USE TypeFacts DEF IInv, Loading, Loaded, Copying, Building, Peeking, Filling, Filled, Matched
<1>1. pc[t] = "version" /\ Goto(t, "fresh_ptr", l) /\ OnlyLocals
  BY DEF read_version
<1>2. /\ loc[t] \in LocType /\ l \in LocType /\ SameAttempt(l, loc[t])
      /\ l.obs = arrays[loc[t].packed.array].ver
  <2>1. loc[t] \in LocType /\ arrays[loc[t].packed.array].ver \in Nat
    BY DEF Source, ArrayType
  <2>2. QED
    BY <2>1 DEF LocType, SameAttempt
<1> HIDE DEF l
<1>3. InCall("fresh_ptr", l) /\ "fresh_ptr" \in Pcs
  BY <1>1, <1>2 DEF SameAttempt, Types, InCall, Pcs, LocType
<1>4. Current' = Current /\ pc'[t] = "fresh_ptr" /\ loc'[t] = l
  BY <1>1, <1>2, <1>3, LocalsFrame
<1>5. LocalInv(t)'
  BY <1>1, <1>2, <1>3, LocalsLocal DEF SameAttempt
<1>6. CopyInv(t)'
  BY <1>1, <1>2, <1>4 DEF SameAttempt, ThreadInv, SeenInv, CopyInv, Current
<1>7. QED
  BY <1>1, <1>2, <1>5, <1>6, RefreshStep

LEMMA FreshPtrStep ==
    ASSUME IInv, ~fault, NEW t \in Threads, fresh_ptr(t)
    PROVE  IInv'
PROOF
<1> DEFINE l == [loc[t] EXCEPT !.ptr = global.array]
<1> USE TypeFacts DEF IInv, Loading, Loaded, Copying, Building, Peeking, Filling, Filled, Matched
<1>1. pc[t] = "fresh_ptr" /\ Goto(t, "fresh_ver", l) /\ OnlyLocals
  BY DEF fresh_ptr, LoadPtr
<1>2. /\ loc[t] \in LocType /\ l \in LocType /\ SameAttempt(l, loc[t])
      /\ l.obs = loc[t].obs /\ l.ptr = global.array
  BY DEF LocType, SameAttempt
<1> HIDE DEF l
<1>3. InCall("fresh_ver", l) /\ "fresh_ver" \in Pcs
  BY <1>1, <1>2 DEF SameAttempt, Types, InCall, Pcs, LocType
<1>4. Current' = Current /\ pc'[t] = "fresh_ver" /\ loc'[t] = l
  BY <1>1, <1>2, <1>3, LocalsFrame
<1>5. LocalInv(t)'
  BY <1>1, <1>2, <1>3, LocalsLocal DEF SameAttempt
<1>6. CopyInv(t)'
  BY <1>1, <1>2, <1>4 DEF SameAttempt, ThreadInv, SeenInv, CopyInv, Current, OnlyLocals
<1>7. QED
  BY <1>1, <1>2, <1>5, <1>6, RefreshStep

(* The local copy is taken for fresh only if it is of the version seen. *)
LEMMA FreshVerStep ==
    ASSUME IInv, ~fault, NEW t \in Threads, fresh_ver(t)
    PROVE  IInv'
PROOF
<1> DEFINE p == IF local[t].ver = GlobalVersion(t) THEN Refreshed(t) ELSE "reload"
<1> USE TypeFacts DEF IInv, Loading, Loaded, Copying, Building, Peeking, Filling, Filled, Matched
<1>1. pc[t] = "fresh_ver" /\ Goto(t, p, loc[t]) /\ OnlyLocals
  BY DEF fresh_ver
<1>2. loc[t] \in LocType /\ SameAttempt(loc[t], loc[t])
  BY DEF SameAttempt
<1>3. /\ p \in {"build_version", "pick", "reload"} /\ p \in Pcs
      /\ IF loc[t].op = "insert" THEN p \notin Peeking ELSE p \notin Building
  BY DEF Refreshed, Pcs
<1>4. InCall(p, loc[t])
  BY <1>1, <1>2, <1>3 DEF Types, InCall, LocType
<1>5. p # "reload" => loc[t].obs = loc[t].seen /\ local[t].ver = loc[t].seen
  <2>1. arrays[loc[t].ptr].ver >= loc[t].seen
        /\ (arrays[loc[t].ptr].ver = loc[t].seen => loc[t].obs = loc[t].seen)
    BY <1>1 DEF ThreadInv, CopyInv
  <2>2. local[t].ver <= loc[t].seen /\ local[t].ver \in Nat /\ loc[t].seen \in Nat
    BY <1>1 DEF ThreadInv, LocalInv, LocType, ArrayType
  <2>3. QED
    BY <2>1, <2>2 DEF GlobalVersion
<1> HIDE DEF p
<1>6. Current' = Current /\ pc'[t] = p /\ loc'[t] = loc[t]
  BY <1>1, <1>2, <1>3, <1>4, LocalsFrame
<1>7. LocalInv(t)'
  BY <1>1, <1>3, <1>4, LocalsLocal
<1>8. CopyInv(t)'
  BY <1>1, <1>3, <1>5, <1>6 DEF CopyInv, OnlyLocals
<1>9. QED
  BY <1>1, <1>2, <1>3, <1>7, <1>8, RefreshStep

(* No array is more than one version ahead of what is current. *)
LEMMA ArrayVersions ==
    ASSUME IInv, NEW a \in Arrays
    PROVE  arrays[a].ver \in Nat /\ arrays[a].ver <= Current.ver + 1
PROOF
<1> USE TypeFacts DEF IInv
<1>1. arrays[a].ver \in Nat /\ Current.ver \in Nat
  BY DEF ArrayType
<1>2. CASE a = <<Initial, 0>>
  BY <1>1, <1>2 DEF GlobalInv
<1>3. ASSUME NEW t \in Threads, NEW p \in {0, 1}, a = <<t, p>>
      PROVE  arrays[a].ver <= Current.ver + 1
  <2>1. OwnInv(t) /\ SeenInv(t) /\ loc[t].seen \in Nat
    BY DEF ThreadInv, LocType
  <2>2. QED
    BY <1>1, <1>3, <2>1 DEF OwnInv, SeenInv, Loaded, Building
<1>4. QED
  BY <1>1, <1>2, <1>3 DEF Arrays

LEMMA ReloadStep ==
    ASSUME IInv, ~fault, NEW t \in Threads, reload(t)
    PROVE  IInv'
PROOF
<1> DEFINE l == [loc[t] EXCEPT !.packed = global, !.seen = Current.ver]
<1> USE TypeFacts DEF IInv, Loading, Loaded, Copying, Building, Peeking, Filling, Filled, Matched
<1>1. pc[t] = "reload" /\ Goto(t, "reversion", l) /\ OnlyLocals
  BY DEF reload
<1>2. /\ l \in LocType /\ l.op = loc[t].op /\ l.b = loc[t].b /\ l.best = loc[t].best
      /\ l.packed = global /\ l.seen = Current.ver
  <2>1. loc[t] \in LocType /\ Current.ver \in Nat
    BY DEF ArrayType
  <2>2. QED
    BY <2>1 DEF LocType
<1> HIDE DEF l
<1>3. InCall("reversion", l) /\ "reversion" \in Pcs
  BY <1>1, <1>2 DEF Types, InCall, Pcs
<1>4. Current' = Current /\ Found' = Found /\ pc'[t] = "reversion" /\ loc'[t] = l
  BY <1>1, <1>2, <1>3, LocalsFrame
<1>5. SeenInv(t)'
  BY <1>1, <1>2, <1>4 DEF SeenInv, OnlyLocals, GlobalInv, Current, ArrayType
<1>6. OwnInv(t)'
  <2>1. \A p \in {0, 1} : arrays[<<t, p>>].ver <= Current.ver
    BY <1>1 DEF ThreadInv, OwnInv
  <2>2. QED
    BY <1>1, <1>2, <1>4, <2>1 DEF OwnInv, OnlyLocals
<1>7. LocalInv(t)' /\ CopyInv(t)'
  BY <1>4 DEF LocalInv, CopyInv
<1>8. PeekInv(t)'
  BY <1>1, <1>2, <1>4 DEF PeekInv, ThreadInv, OnlyLocals
<1>9. QED
  BY <1>1, <1>2, <1>3, <1>5, <1>6, <1>7, <1>8, LocalsStep

(* The version that matches the tag of the packed pointer is the one seen: *)
(* Algn versions later the tag would be the same, which NoWrap excludes.   *)
LEMMA RereadVersionStep ==
    ASSUME IInv, NoWrap, ~fault, NEW t \in Threads, reread_version(t)
    PROVE  IInv'
PROOF
<1> DEFINE v == arrays[loc[t].packed.array].ver
           p == IF matches(loc[t].packed, v) THEN "copy_version" ELSE "reload"
           l == [loc[t] EXCEPT !.obs = v]
<1> USE TypeFacts DEF IInv, Loading, Loaded, Copying, Building, Peeking, Filling, Filled, Matched
<1>1. pc[t] = "reversion" /\ Goto(t, p, l) /\ OnlyLocals
  BY DEF reread_version
<1>2. /\ loc[t] \in LocType /\ loc[t].packed.array \in Arrays /\ loc[t].seen \in Nat
      /\ Current.ver \in Nat
  BY DEF LocType, ArrayType
<1>3. v \in Nat /\ v <= Current.ver + 1
  BY <1>2, ArrayVersions
<1>4. p = "copy_version" => v = loc[t].seen
  <2>1. v >= loc[t].seen /\ loc[t].packed.tag = loc[t].seen % Algn
    BY <1>1 DEF ThreadInv, SeenInv
  <2>2. v < loc[t].seen + Algn
    BY <1>1, <1>2, <1>3, SharedAssumption DEF NoWrap
  <2>3. p = "copy_version" => v % Algn = loc[t].seen % Algn
    BY <2>1 DEF matches
  <2>4. QED
    BY <1>2, <1>3, <2>1, <2>2, <2>3, ResidueUnique, SharedAssumption
<1>5. /\ l \in LocType /\ SameAttempt(l, loc[t]) /\ l.obs = v
      /\ p \in {"copy_version", "reload"} /\ p \in Pcs
  BY <1>2, <1>3 DEF LocType, SameAttempt, Pcs
<1> HIDE DEF l, p
<1>6. InCall(p, l)
  BY <1>1, <1>5 DEF SameAttempt, Types, InCall, LocType
<1>7. pc'[t] = p /\ loc'[t] = l
  BY <1>1, <1>5, <1>6, LocalsFrame
<1>8. LocalInv(t)'
  BY <1>5, <1>7 DEF LocalInv
<1>9. CopyInv(t)'
  BY <1>4, <1>5, <1>7 DEF CopyInv, SameAttempt
<1>10. QED
  BY <1>1, <1>5, <1>8, <1>9, RefreshStep

LEMMA CopyCheckStep ==
    ASSUME IInv, ~fault, NEW t \in Threads, copy_check(t)
    PROVE  IInv'
PROOF
<1> DEFINE p == IF Source(t).ver = local[t].ver THEN "verify_ptr" ELSE "copy_version"
<1> USE TypeFacts DEF IInv, Loading, Loaded, Copying, Building, Peeking, Filling, Filled, Matched
<1>1. pc[t] = "copy_check" /\ Goto(t, p, loc[t]) /\ OnlyLocals
  BY DEF copy_check
<1>2. /\ loc[t] \in LocType /\ SameAttempt(loc[t], loc[t])
      /\ p \in {"verify_ptr", "copy_version"} /\ p \in Pcs
  BY DEF SameAttempt, Pcs
<1> HIDE DEF p
<1>3. InCall(p, loc[t])
  BY <1>1, <1>2 DEF Types, InCall, LocType
<1>4. Current' = Current /\ pc'[t] = p /\ loc'[t] = loc[t]
  BY <1>1, <1>2, <1>3, LocalsFrame
<1>5. LocalInv(t)'
  BY <1>2, <1>4 DEF LocalInv
<1>6. CopyInv(t)'
  BY <1>1, <1>2, <1>4 DEF ThreadInv, CopyInv, OnlyLocals, SameBlocks
<1>7. QED
  BY <1>1, <1>2, <1>5, <1>6, RefreshStep

LEMMA VerifyPtrStep ==
    ASSUME IInv, ~fault, NEW t \in Threads, verify_ptr(t)
    PROVE  IInv'
PROOF
<1> DEFINE l == [loc[t] EXCEPT !.ptr = global.array]
<1> USE TypeFacts DEF IInv, Loading, Loaded, Copying, Building, Peeking, Filling, Filled, Matched
<1>1. pc[t] = "verify_ptr" /\ Goto(t, "verify_ver", l) /\ OnlyLocals
  BY DEF verify_ptr, LoadPtr
<1>2. /\ loc[t] \in LocType /\ l \in LocType /\ SameAttempt(l, loc[t])
      /\ l.obs = loc[t].obs /\ l.ptr = global.array
  BY DEF LocType, SameAttempt
<1> HIDE DEF l
<1>3. InCall("verify_ver", l) /\ "verify_ver" \in Pcs
  BY <1>1, <1>2 DEF SameAttempt, Types, InCall, Pcs, LocType
<1>4. Current' = Current /\ pc'[t] = "verify_ver" /\ loc'[t] = l
  BY <1>1, <1>2, <1>3, LocalsFrame
<1>5. LocalInv(t)'
  BY <1>4 DEF LocalInv
<1>6. SameBlocks(local[t], Current) => WellFormed(local[t])
  BY DEF SameBlocks, GlobalInv, WellFormed, HasBlocks, Falling
<1>7. (SameBlocks(local[t], Current)' <=> SameBlocks(local[t], Current))
      /\ (WellFormed(local[t])' <=> WellFormed(local[t]))
  BY <1>1, <1>4 DEF OnlyLocals, SameBlocks, WellFormed, HasBlocks, Falling
<1>8. CopyInv(t)'
  BY <1>1, <1>2, <1>4, <1>6, <1>7 DEF SameAttempt, ThreadInv, SeenInv, CopyInv, Current, OnlyLocals
<1>9. QED
  BY <1>1, <1>2, <1>5, <1>8, RefreshStep

(* A copy that passes the check is one of the version seen. *)
LEMMA VerifyVerStep ==
    ASSUME IInv, ~fault, NEW t \in Threads, verify_ver(t)
    PROVE  IInv'
PROOF
<1> DEFINE p == IF GlobalVersion(t) = loc[t].obs /\ loc[t].obs = local[t].ver
                THEN Refreshed(t) ELSE "reload"
<1> USE TypeFacts DEF IInv, Loading, Loaded, Copying, Building, Peeking, Filling, Filled, Matched
<1>1. pc[t] = "verify_ver" /\ Goto(t, p, loc[t]) /\ OnlyLocals
  BY DEF verify_ver
<1>2. /\ loc[t] \in LocType /\ SameAttempt(loc[t], loc[t])
      /\ p \in {"build_version", "pick", "reload"} /\ p \in Pcs
      /\ IF loc[t].op = "insert" THEN p \notin Peeking ELSE p \notin Building
  BY DEF SameAttempt, Refreshed, Pcs
<1>3. InCall(p, loc[t])
  BY <1>1, <1>2 DEF Types, InCall, LocType
<1>4. /\ loc[t].obs = loc[t].seen /\ loc[t].seen <= Current.ver /\ loc[t].seen \in Nat
      /\ loc[t].seen = Current.ver => SameBlocks(local[t], Current)
  BY <1>1, <1>2 DEF ThreadInv, CopyInv, SeenInv, LocType
<1>5. p # "reload" => local[t].ver = loc[t].seen /\ WellFormed(local[t])
  BY <1>1 DEF ThreadInv, CopyInv, GlobalVersion
<1> HIDE DEF p
<1>6. Current' = Current /\ pc'[t] = p /\ loc'[t] = loc[t]
  BY <1>1, <1>2, <1>3, LocalsFrame
<1>7. (SameBlocks(local[t], Current)' <=> SameBlocks(local[t], Current))
      /\ (WellFormed(local[t])' <=> WellFormed(local[t])) /\ local' = local
  BY <1>1, <1>6 DEF OnlyLocals, SameBlocks, WellFormed, HasBlocks, Falling
<1>8. LocalInv(t)'
  BY <1>2, <1>4, <1>5, <1>6, <1>7 DEF LocalInv
<1>9. CopyInv(t)'
  BY <1>2, <1>4, <1>5, <1>6, <1>7 DEF CopyInv
<1>10. QED
  BY <1>1, <1>2, <1>8, <1>9, RefreshStep

LEMMA PeekPtrStep ==
    ASSUME IInv, ~fault, NEW t \in Threads, peek_ptr(t)
    PROVE  IInv'
PROOF
<1> DEFINE l == [loc[t] EXCEPT !.ptr = global.array]
<1> USE TypeFacts DEF IInv, Loading, Loaded, Copying, Building, Peeking, Filling, Filled, Matched
<1>1. pc[t] = "peek_ptr" /\ Goto(t, "peek_ver", l) /\ OnlyLocals
  BY DEF peek_ptr, LoadPtr
<1>2. /\ loc[t] \in LocType /\ l \in LocType /\ SameAttempt(l, loc[t])
      /\ l.obs = loc[t].obs /\ l.ptr = global.array
  BY DEF LocType, SameAttempt
<1> HIDE DEF l
<1>3. InCall("peek_ver", l) /\ "peek_ver" \in Pcs
  BY <1>1, <1>2 DEF SameAttempt, Types, InCall, Pcs, LocType
<1>4. Current' = Current /\ Found' = Found /\ pc'[t] = "peek_ver" /\ loc'[t] = l
  BY <1>1, <1>2, <1>3, LocalsFrame
<1>5. SeenInv(t)' /\ OwnInv(t)'
  BY <1>1, <1>2, <1>3, LocalsSeen DEF SameAttempt
<1>6. LocalInv(t)'
  BY <1>1, <1>2, <1>3, LocalsLocal DEF SameAttempt
<1>7. CopyInv(t)'
  BY <1>1, <1>2, <1>4 DEF SameAttempt, ThreadInv, CopyInv, OnlyLocals
<1>8. PeekInv(t)'
  BY <1>1, <1>2, <1>4 DEF SameAttempt, ThreadInv, SeenInv, PeekInv, Current, OnlyLocals
<1>9. QED
  BY <1>1, <1>2, <1>3, <1>5, <1>6, <1>7, <1>8, LocalsStep DEF SameAttempt

(* Where peek ends: it leads to take with an element that was found, or    *)
(* back to the caller; the call itself no longer depends on a version.     *)
LEMMA AfterPeekStep ==
    ASSUME IInv, ~fault, NEW t \in Threads, NEW best \in Found, AfterPeek(t, best), OnlyLocals,
           pc[t] \in {"cache_ver", "peek_ver"},
           cached[t] \in Found
    PROVE  IInv'
PROOF
<1> USE TypeFacts DEF IInv, Loading, Loaded, Copying, Building, Peeking, Filling, Filled, Matched
<1>1. PICK p \in {"take", "idle"}, l \in LocType :
          /\ Goto(t, p, l)
          /\ IF p = "take" THEN l.op = "delete_min" /\ l.best = best /\ best # NoElement
                           ELSE l.op = "none"
  <2>1. best \in Elements \union {NoElement}
    <3>1. taken \subseteq Elements /\ Contents(Current) \subseteq Elements
      <4>1. \A b \in Blocks : content[b] \subseteq Elements
        BY DEF Types, TypeOK
      <4>2. BlocksOf(Current) \subseteq Blocks
        BY DEF GlobalInv, WellFormed, HasBlocks, BlocksOf
      <4>3. QED
        BY <4>1, <4>2 DEF Contents, Types, TypeOK
    <3>2. QED
      BY <3>1 DEF Found
  <2>2. CASE loc[t].op = "delete_min" /\ best # NoElement
             /\ Goto(t, "take", [Idle EXCEPT !.op = "delete_min", !.best = best])
    <3> DEFINE l == [Idle EXCEPT !.op = "delete_min", !.best = best]
    <3>1. l \in LocType /\ l.op = "delete_min" /\ l.best = best
      BY <2>1, IdleType DEF LocType
    <3>2. QED
      BY <2>2, <3>1
  <2>3. CASE Return(t)
    BY <2>3, IdleType DEF Return
  <2>4. QED
    BY <2>2, <2>3 DEF AfterPeek
<1>2. loc[t].op \in {"delete_min", "find_min"}
  BY DEF Types, InCall
<1>3. InCall(p, l) /\ p \in Pcs
  BY <1>1 DEF InCall, Pcs
<1>4. Current' = Current /\ Found' = Found /\ pc'[t] = p /\ loc'[t] = l
  BY <1>1, <1>3, LocalsFrame
<1>5. SeenInv(t)' /\ CopyInv(t)'
  BY <1>1, <1>4 DEF SeenInv, CopyInv
<1>6. OwnInv(t)'
  BY <1>1, <1>4 DEF ThreadInv, OwnInv, OnlyLocals
<1>7. LocalInv(t)'
  BY <1>1, <1>3, LocalsLocal
<1>8. PeekInv(t)'
  BY <1>1, <1>4 DEF PeekInv, OnlyLocals
<1>9. QED
  BY <1>1, <1>2, <1>3, <1>5, <1>6, <1>7, <1>8, LocalsStep

(* Where peek starts over, or starts: nothing is known of any version.     *)
LEMMA AgainStep ==
    ASSUME IInv, ~fault, NEW t \in Threads, NEW l \in LocType, OnlyLocals,
           pc[t] \in {"cache_ver", "peek_ver"}, Goto(t, "load", l), l.op = loc[t].op
    PROVE  IInv'
PROOF
<1> USE TypeFacts DEF IInv, Loading, Loaded, Copying, Building, Peeking, Filling, Filled, Matched
<1>1. l.op \in {"delete_min", "find_min"}
  BY DEF Types, InCall
<1>2. InCall("load", l) /\ "load" \in Pcs
  BY <1>1 DEF InCall, Pcs
<1>3. Current' = Current /\ Found' = Found /\ pc'[t] = "load" /\ loc'[t] = l
  BY <1>2, LocalsFrame
<1>4. SeenInv(t)' /\ CopyInv(t)'
  BY <1>3 DEF SeenInv, CopyInv
<1>5. OwnInv(t)'
  BY <1>3 DEF ThreadInv, OwnInv, OnlyLocals
<1>6. LocalInv(t)'
  BY <1>2, LocalsLocal
<1>7. PeekInv(t)'
  BY <1>1, <1>3 DEF PeekInv
<1>8. QED
  BY <1>1, <1>2, <1>4, <1>5, <1>6, <1>7, LocalsStep

LEMMA PeekVerStep ==
    ASSUME IInv, ~fault, NEW t \in Threads, peek_ver(t)
    PROVE  IInv'
PROOF
<1> USE TypeFacts DEF IInv
<1>1. pc[t] = "peek_ver" /\ OnlyLocals
  BY DEF peek_ver
<1>2. CASE GlobalVersion(t) = loc[t].obs /\ AfterPeek(t, loc[t].best)
  <2>1. loc[t].best \in Found /\ cached[t] = loc[t].best
    BY <1>1, <1>2 DEF ThreadInv, PeekInv, CopyInv, GlobalVersion, Peeking
  <2>2. QED
    BY <1>1, <1>2, <2>1, AfterPeekStep
<1>3. CASE Goto(t, "load", [Idle EXCEPT !.op = loc[t].op])
  <2>1. loc[t].op \in {"delete_min", "find_min"}
    BY <1>1 DEF Types, InCall, Peeking
  <2>2. [Idle EXCEPT !.op = loc[t].op] \in LocType
        /\ [Idle EXCEPT !.op = loc[t].op].op = loc[t].op
    BY <2>1, IdleType DEF LocType
  <2>3. QED
    BY <1>1, <1>3, <2>2, AgainStep
<1>4. QED
  BY <1>2, <1>3 DEF peek_ver

LEMMA CacheVerStep ==
    ASSUME IInv, ~fault, NEW t \in Threads, cache_ver(t)
    PROVE  IInv'
PROOF
<1> USE TypeFacts DEF IInv
<1>1. pc[t] = "cache_ver" /\ OnlyLocals
  BY DEF cache_ver
<1>2. cached[t] \in Found
  BY <1>1 DEF ThreadInv, PeekInv, Loading, Loaded, Copying, Building, Filling, Filled, Peeking
<1>3. QED
  BY <1>1, <1>2, AfterPeekStep, AgainStep DEF cache_ver

LEMMA CachePtrStep ==
    ASSUME IInv, ~fault, NEW t \in Threads, cache_ptr(t)
    PROVE  IInv'
PROOF
<1> DEFINE l == [loc[t] EXCEPT !.ptr = global.array]
<1> USE TypeFacts DEF IInv, Loading, Loaded, Copying, Building, Peeking, Filling, Filled, Matched
<1>1. pc[t] = "cache_ptr" /\ Goto(t, "cache_ver", l) /\ OnlyLocals
  BY DEF cache_ptr, LoadPtr
<1>2. l \in LocType /\ l.op = loc[t].op
  BY DEF LocType
<1> HIDE DEF l
<1>3. InCall("cache_ver", l) /\ "cache_ver" \in Pcs /\ l.op \in {"delete_min", "find_min"}
  BY <1>1, <1>2 DEF Types, InCall, Pcs
<1>4. Current' = Current /\ Found' = Found /\ pc'[t] = "cache_ver" /\ loc'[t] = l
  BY <1>1, <1>2, <1>3, LocalsFrame
<1>5. SeenInv(t)' /\ CopyInv(t)'
  BY <1>4 DEF SeenInv, CopyInv
<1>6. OwnInv(t)' /\ PeekInv(t)'
  BY <1>1, <1>3, <1>4 DEF ThreadInv, OwnInv, PeekInv, OnlyLocals
<1>7. LocalInv(t)'
  BY <1>1, <1>2, <1>3, LocalsLocal
<1>8. QED
  BY <1>1, <1>2, <1>3, <1>5, <1>6, <1>7, LocalsStep

-----------------------------------------------------------------------------
(* The copy loop. *)

LEMMA CopyStep ==
    ASSUME IInv, ~fault, NEW t \in Threads, NEW p \in Matched, NEW x \in ArrayType,
           pc[t] \in Matched, Goto(t, p, loc[t]), SetLocal(t, x),
           Current' = Current => CopyInv(t)'
    PROVE  IInv'
PROOF
<1> USE TypeFacts DEF IInv, Loading, Loaded, Copying, Building, Peeking, Filling, Filled, Matched,
        SetLocal
<1>1. /\ pc'[t] = p /\ loc'[t] = loc[t] /\ local'[t] = x
      /\ \A u \in Threads \ {t} : pc'[u] = pc[u] /\ loc'[u] = loc[u] /\ local'[u] = local[u]
      /\ pc' \in [Threads -> Pcs] /\ loc' \in [Threads -> LocType]
      /\ local' \in [Threads -> ArrayType]
  <2>1. p \in Pcs
    BY DEF Pcs
  <2>2. QED
    BY <2>1, GotoFacts DEF Types, TypeOK
<1>2. Current' = Current /\ Found' = Found
  BY DEF Current, Found, Contents, BlocksOf
<1>3. TypeOK'
  BY <1>1 DEF Types, TypeOK
<1>4. Types'
  BY <1>1, <1>3 DEF Types, InCall
<1>5. GlobalInv'
  BY DEF GlobalInv, MaxGlobal, WellFormed, HasBlocks, Falling, BlocksOf, Current
<1>6. Frame(t)
  BY <1>1, <1>2 DEF Frame, ArrayType
<1>7. SeenInv(t)' /\ OwnInv(t)'
  BY <1>1, <1>2, ZenonT(40) DEF ThreadInv, SeenInv, OwnInv
<1>8. LocalInv(t)' /\ CopyInv(t)'
  BY <1>1, <1>2 DEF LocalInv
<1>9. PeekInv(t)' /\ PoolInv(t)'
  BY <1>1, <1>2 DEF ThreadInv, PeekInv, PoolInv
<1>10. BuildInv(t)'
  BY <1>1 DEF ThreadInv, BuildInv, InsertInv, ShapeInv, ContentInv, Mine
<1>11. ThreadInv(t)'
  BY <1>7, <1>8, <1>9, <1>10 DEF ThreadInv
<1>12. QED
  BY <1>4, <1>5, <1>6, <1>11, StepInv

(* While the version seen is current, its array is the source. *)
LEMMA SourceCurrent ==
    ASSUME IInv, NEW t \in Threads, pc[t] \in Loaded, loc[t].seen = Current.ver
    PROVE  Source(t) = Current
  BY DEF IInv, ThreadInv, SeenInv, Source, Current

LEMMA CopyVersionStep ==
    ASSUME IInv, ~fault, NEW t \in Threads, copy_version(t)
    PROVE  IInv'
PROOF
<1> DEFINE x == [local[t] EXCEPT !.ver = Source(t).ver]
<1> USE TypeFacts DEF IInv
<1>1. pc[t] = "copy_version" /\ Goto(t, "copy_size", loc[t]) /\ SetLocal(t, x)
  BY DEF copy_version
<1>2. x \in ArrayType /\ x.ver = Source(t).ver
  BY DEF ArrayType
<1> HIDE DEF x
<1>3. pc'[t] = "copy_size" /\ loc'[t] = loc[t] /\ local'[t] = x
  BY <1>1, GotoFacts DEF SetLocal, Types, TypeOK
<1>4. Current' = Current => CopyInv(t)'
  BY <1>1, <1>2, <1>3, SourceCurrent
     DEF ThreadInv, CopyInv, Matched, Loaded, Copying, Building, Filling, Filled, Peeking
<1>5. QED
  BY <1>1, <1>2, <1>4, CopyStep DEF Matched

LEMMA CopySizeStep ==
    ASSUME IInv, ~fault, NEW t \in Threads, copy_size(t)
    PROVE  IInv'
PROOF
<1> DEFINE x == [local[t] EXCEPT !.size = Source(t).size]
<1> USE TypeFacts DEF IInv
<1>1. pc[t] = "copy_size" /\ Goto(t, "copy_blocks", loc[t]) /\ SetLocal(t, x)
  BY DEF copy_size
<1>2. x \in ArrayType /\ x.ver = local[t].ver /\ x.size = Source(t).size
  BY DEF ArrayType
<1> HIDE DEF x
<1>3. pc'[t] = "copy_blocks" /\ loc'[t] = loc[t] /\ local'[t] = x
  BY <1>1, GotoFacts DEF SetLocal, Types, TypeOK
<1>4. Current' = Current => CopyInv(t)'
  BY <1>1, <1>2, <1>3, SourceCurrent
     DEF ThreadInv, CopyInv, Matched, Loaded, Copying, Building, Filling, Filled, Peeking
<1>5. QED
  BY <1>1, <1>2, <1>4, CopyStep DEF Matched

LEMMA CopyBlocksStep ==
    ASSUME IInv, ~fault, NEW t \in Threads, copy_blocks(t)
    PROVE  IInv'
PROOF
<1> DEFINE n == local[t].size
           x == [local[t] EXCEPT !.blocks = CopyBlocks(@, Source(t).blocks, n)]
<1> USE TypeFacts DEF IInv
<1>1. pc[t] = "copy_blocks" /\ Goto(t, "copy_check", loc[t]) /\ SetLocal(t, x)
  BY DEF copy_blocks
<1>2. x \in ArrayType /\ x.ver = local[t].ver /\ x.size = n
      /\ \A s \in 1 .. n : x.blocks[s] = Source(t).blocks[s]
  <2>1. local[t] \in ArrayType /\ Source(t) \in ArrayType
    OBVIOUS
  <2>2. CopyBlocks(local[t].blocks, Source(t).blocks, n) \in [Slots -> Blocks \union {NoBlock}]
    BY <2>1 DEF CopyBlocks, ArrayType
  <2>3. 1 .. n \subseteq Slots
    BY <2>1, SharedAssumption DEF Slots, ArrayType
  <2>4. QED
    BY <2>1, <2>2, <2>3 DEF CopyBlocks, ArrayType
<1> HIDE DEF x
<1>3. pc'[t] = "copy_check" /\ loc'[t] = loc[t] /\ local'[t] = x
  BY <1>1, GotoFacts DEF SetLocal, Types, TypeOK
<1>4. Current' = Current => CopyInv(t)'
  BY <1>1, <1>2, <1>3, SourceCurrent
     DEF ThreadInv, CopyInv, SameBlocks, Matched, Loaded, Copying, Building, Filling, Filled, Peeking
<1>5. QED
  BY <1>1, <1>2, <1>4, CopyStep DEF Matched

(* While the copy is of the current version, what is picked is found in    *)
(* the current array.                                                      *)
LEMMA PickStep ==
    ASSUME IInv, ~fault, NEW t \in Threads, pick(t)
    PROVE  IInv'
PROOF
<1> USE TypeFacts DEF IInv, Loading, Loaded, Copying, Building, Peeking, Filling, Filled, Matched
<1>1. PICK e \in (Contents(local[t]) \ taken) \union {NoElement} :
          /\ cached' = [cached EXCEPT ![t] = e]
          /\ Goto(t, "peek_ptr", [loc[t] EXCEPT !.best = e])
  BY DEF pick
<1> DEFINE l == [loc[t] EXCEPT !.best = e]
<1>2. pc[t] = "pick"
      /\ UNCHANGED <<global, arrays, content, pool, local, inserted, taken, stolen, fault>>
  BY DEF pick
<1>3. WellFormed(local[t]) /\ (loc[t].seen = Current.ver => SameBlocks(local[t], Current))
  BY <1>2 DEF ThreadInv, LocalInv, CopyInv
<1>4. e \in Elements \union {NoElement}
  BY <1>3 DEF Contents, BlocksOf, WellFormed, HasBlocks, Types, TypeOK
<1>5. loc[t].seen = Current.ver => e \in Found
  <2>1. SameBlocks(local[t], Current) => BlocksOf(local[t]) = BlocksOf(Current)
    BY DEF SameBlocks, BlocksOf
  <2>2. QED
    BY <1>3, <2>1 DEF Found, Contents
<1>6. loc[t] \in LocType /\ l \in LocType /\ l.best = e /\ l.obs = loc[t].obs
      /\ l.op = loc[t].op /\ l.b = loc[t].b /\ l.packed = loc[t].packed /\ l.seen = loc[t].seen
  BY <1>4 DEF LocType
<1> HIDE DEF l
<1>7. /\ pc'[t] = "peek_ptr" /\ loc'[t] = l /\ cached'[t] = e
      /\ \A u \in Threads \ {t} : pc'[u] = pc[u] /\ loc'[u] = loc[u] /\ cached'[u] = cached[u]
      /\ pc' \in [Threads -> Pcs] /\ loc' \in [Threads -> LocType]
      /\ cached' \in [Threads -> Elements \union {NoElement}]
  <2>1. "peek_ptr" \in Pcs /\ Goto(t, "peek_ptr", l)
    BY <1>1 DEF Pcs, l
  <2>2. QED
    BY <1>1, <1>4, <1>6, <2>1, GotoFacts DEF Types, TypeOK
<1>8. Current' = Current /\ Found' = Found
  BY <1>2 DEF Current, Found, Contents, BlocksOf
<1>9. Types'
  <2>1. TypeOK'
    BY <1>2, <1>7 DEF Types, TypeOK
  <2>2. InCall("peek_ptr", l)
    BY <1>2, <1>6 DEF Types, InCall
  <2>3. QED
    BY <1>2, <1>7, <2>1, <2>2 DEF Types
<1>10. GlobalInv'
  BY <1>2 DEF GlobalInv, MaxGlobal, WellFormed, HasBlocks, Falling, BlocksOf, Current
<1>11. Frame(t)
  BY <1>2, <1>7, <1>8 DEF Frame, ArrayType
<1>12. SeenInv(t)' /\ OwnInv(t)'
  BY <1>2, <1>6, <1>7, <1>8 DEF ThreadInv, SeenInv, OwnInv
<1>13. LocalInv(t)'
  BY <1>2, <1>6, <1>7, <1>8 DEF ThreadInv, LocalInv, WellFormed, HasBlocks, Falling, SameBlocks
<1>14. CopyInv(t)'
  BY <1>2, <1>6, <1>7, <1>8 DEF ThreadInv, CopyInv
<1>15. PeekInv(t)'
  <2>1. loc[t].op # "insert"
    BY <1>2 DEF Types, InCall
  <2>2. QED
    BY <1>2, <1>5, <1>6, <1>7, <1>8, <2>1 DEF PeekInv
<1>16. PoolInv(t)' /\ BuildInv(t)'
  BY <1>2, <1>6, <1>7, <1>8
     DEF ThreadInv, PoolInv, BuildInv, InsertInv, ShapeInv, ContentInv, Mine
<1>17. ThreadInv(t)'
  BY <1>12, <1>13, <1>14, <1>15, <1>16 DEF ThreadInv
<1>18. QED
  BY <1>9, <1>10, <1>11, <1>17, StepInv

-----------------------------------------------------------------------------
(* The pool: get_block returns an available block if there is one. *)

LEMMA SmallestElement ==
    ASSUME NEW S \in SUBSET Nat, S # {}
    PROVE  \E n \in S : \A m \in S : n <= m
PROOF
<1> DEFINE R == OpToRel(<, Nat)
<1>1. \A m, n \in Nat : m < n => <<m, n>> \in R
  BY DEF OpToRel
<1>2. IsWellFoundedOn(R, Nat)
  BY NatLessThanWellFounded
<1> HIDE DEF R
<1>3. \E n \in S : \A m \in S : ~ (<<m, n>> \in R)
  BY <1>2, WFMin
<1>4. PICK n \in S : \A m \in S : ~ (<<m, n>> \in R)
  BY <1>3, Zenon
<1>5. ASSUME NEW m \in S PROVE n <= m
  <2>1. m \in Nat /\ n \in Nat
    OBVIOUS
  <2>2. ~ (m < n)
    BY <1>1, <1>4, <2>1, Zenon
  <2>3. QED
    BY <2>1, <2>2
<1>6. QED
  BY <1>5

LEMMA GetBlock ==
    ASSUME NEW t \in Threads, NEW p, Available(t, p) # {}
    PROVE  /\ get_block(t, p) \in Available(t, p) /\ get_block(t, p) \in Blocks
           /\ get_block(t, p)[1] = t /\ level(get_block(t, p)) = p
PROOF
<1> DEFINE A == Available(t, p)
           S == {b[3] : b \in A}
<1>1. A \subseteq Blocks /\ \A b \in A : b[1] = t /\ level(b) = p
  BY DEF Available
<1>2. S \in SUBSET Nat /\ S # {}
  BY <1>1, SharedAssumption DEF Blocks
<1>3. PICK n \in S : \A m \in S : n <= m
  BY <1>2, SmallestElement
<1>4. \E b \in A : \A c \in A : b[3] <= c[3]
  BY <1>3
<1>5. get_block(t, p) \in A
  BY <1>4 DEF get_block
<1>6. QED
  BY <1>1, <1>5

(* Allocate either faults or fills an available block. *)
Puts(t, p, S, b) ==
    /\ b \in Available(t, p) /\ b \in Blocks /\ b[1] = t /\ level(b) = p
    /\ content'[b] = S /\ pool'[b].status = "local"
    /\ \A c \in Blocks \ {b} : pool'[c] = pool[c] /\ content'[c] = content[c]

LEMMA AllocateFacts ==
    ASSUME Types, ~fault, NEW t \in Threads, NEW p \in Int, NEW S,
           Allocate(t, p, S), NEW b, b = get_block(t, p)
    PROVE  \/ fault' = TRUE /\ UNCHANGED <<pool, content>> /\ b = NoBlock
           \/ fault' = FALSE /\ Puts(t, p, S, b)
PROOF
<1>1. CASE Available(t, p) = {}
  BY <1>1 DEF Allocate, get_block
<1>2. CASE Available(t, p) # {}
  <2>1. b \in Available(t, p) /\ b \in Blocks /\ b[1] = t /\ level(b) = p
    BY <1>2, GetBlock
  <2>2. /\ pool' = [pool EXCEPT ![b].status = "local"]
        /\ content' = [content EXCEPT ![b] = S] /\ fault' = FALSE
    BY <1>2 DEF Allocate, Types
  <2>3. pool \in [Blocks -> [status : {"free", "local", "global"}, ver : Nat]]
        /\ content \in [Blocks -> SUBSET inserted]
    BY DEF Types, TypeOK
  <2>4. pool'[b].status = "local"
    BY <2>1, <2>2, <2>3
  <2>5. content'[b] = S /\ \A c \in Blocks \ {b} : pool'[c] = pool[c] /\ content'[c] = content[c]
    BY <2>1, <2>2, <2>3
  <2>6. QED
    BY <2>1, <2>2, <2>4, <2>5 DEF Puts
<1>3. QED
  BY <1>1, <1>2

-----------------------------------------------------------------------------
(* A step of t that writes none but its own arrays and blocks that         *)
(* get_block may hand out leaves what is current as it is.                 *)

Writes(t) ==
    /\ UNCHANGED <<global, local, cached, taken, stolen>>
    /\ \A u \in Threads \ {t} : pc'[u] = pc[u] /\ loc'[u] = loc[u]
    /\ \A a \in Arrays : /\ a[1] # t => arrays'[a] = arrays[a]
                         /\ arrays'[a].ver >= arrays[a].ver
    /\ \A b \in Blocks : \/ pool'[b] = pool[b] /\ content'[b] = content[b]
                         \/ b \in Available(t, level(b)) /\ pool'[b].status = "local"

LEMMA WritesFrame ==
    ASSUME IInv, Types', NEW t \in Threads, Writes(t), Current' = Current
    PROVE  /\ GlobalInv' /\ Frame(t) /\ Found' = Found
           /\ Contents(Current)' = Contents(Current)
PROOF
<1> USE TypeFacts DEF IInv, Writes
<1>1. \A b \in BlocksOf(Current) :
          /\ b \in Blocks /\ pool[b].status = "global" /\ b \in MaxGlobal(b[1], level(b))
          /\ pool'[b] = pool[b] /\ content'[b] = content[b]
  <2>1. \A b \in BlocksOf(Current) :
            b \in Blocks /\ pool[b].status = "global" /\ b \in MaxGlobal(b[1], level(b))
    BY DEF GlobalInv, WellFormed, HasBlocks, BlocksOf
  <2>2. QED
    BY <2>1 DEF Available
<1>2. Contents(Current)' = Contents(Current)
  BY <1>1 DEF Contents, BlocksOf
<1>3. Found' = Found
  BY <1>2 DEF Found
<1>4. GlobalInv'
  <2>1. \A b \in Blocks : pool'[b].status = "global" => pool'[b] = pool[b]
    OBVIOUS
  <2>2. \A b \in BlocksOf(Current) : pool'[b].status = "global" /\ b \in MaxGlobal(b[1], level(b))'
    BY <1>1, <2>1 DEF MaxGlobal
  <2>3. WellFormed(Current)'
    BY DEF GlobalInv, WellFormed, HasBlocks, Falling
  <2>4. arrays'[<<Initial, 0>>].ver = 0
    BY SharedAssumption DEF GlobalInv, Arrays
  <2>5. QED
    BY <2>2, <2>3, <2>4 DEF GlobalInv, BlocksOf
<1>5. Frame(t)
  BY <1>1, <1>3 DEF Frame, Available
<1>6. QED
  BY <1>2, <1>3, <1>4, <1>5

-----------------------------------------------------------------------------
(* The next version is built in the thread's other array. *)

LEMMA NewNotCurrent ==
    ASSUME IInv, NEW t \in Threads, pc[t] \in Building
    PROVE  New(t) # global.array
PROOF
<1> USE TypeFacts DEF IInv
<1>1. loc[t].obs = loc[t].seen /\ (global.array[1] = t => loc[t].seen = Current.ver)
  BY DEF ThreadInv, CopyInv, SeenInv, Loaded
<1>2. CASE global.array[1] = t
  <2>1. global.array[2] = loc[t].obs % 2
    BY <1>1, <1>2, SharedAssumption DEF GlobalInv
  <2>2. New(t)[2] # loc[t].obs % 2
    BY DEF New
  <2>3. QED
    BY <2>1, <2>2
<1>3. QED
  BY <1>2

LEMMA SetNewFacts ==
    ASSUME IInv, NEW t \in Threads, pc[t] \in Building, NEW x \in ArrayType, SetNew(t, x),
           UNCHANGED global
    PROVE  /\ arrays'[New(t)] = x /\ arrays' \in [Arrays -> ArrayType] /\ Current' = Current
           /\ \A a \in Arrays : a # New(t) => arrays'[a] = arrays[a]
           /\ x.ver >= arrays[New(t)].ver =>
                  \A a \in Arrays : /\ a[1] # t => arrays'[a] = arrays[a]
                                    /\ arrays'[a].ver >= arrays[a].ver
PROOF
<1> USE TypeFacts DEF IInv
<1>1. New(t) \in Arrays /\ New(t)[1] = t /\ New(t) # global.array
  BY NewNotCurrent
<1>2. arrays \in [Arrays -> ArrayType]
  BY DEF Types, TypeOK
<1>3. /\ arrays'[New(t)] = x /\ arrays' \in [Arrays -> ArrayType]
      /\ \A a \in Arrays : a # New(t) => arrays'[a] = arrays[a]
  BY <1>1, <1>2 DEF SetNew
<1>4. Current' = Current
  BY <1>1, <1>3 DEF Current
<1>5. x.ver >= arrays[New(t)].ver =>
          \A a \in Arrays : /\ a[1] # t => arrays'[a] = arrays[a]
                            /\ arrays'[a].ver >= arrays[a].ver
  BY <1>1, <1>2, <1>3 DEF ArrayType
<1>6. QED
  BY <1>3, <1>4, <1>5

(* A step from one place to another while the array is built. *)
LEMMA BuildStep ==
    ASSUME IInv, ~fault, NEW t \in Threads, Types', Writes(t), Current' = Current,
           pc[t] \in Building, pc'[t] \in Building,
           SameAttempt(loc'[t], loc[t]), loc'[t].obs = loc[t].obs,
           pc'[t] = "check_ver" => loc'[t].ptr = global.array,
           OwnInv(t)', fault' \/ BuildInv(t)'
    PROVE  IInv'
PROOF
<1> USE DEF IInv, Writes, SameAttempt, Loading, Loaded, Copying, Building, Peeking, Filling,
            Filled, Matched
<1>1. GlobalInv' /\ Frame(t) /\ Found' = Found
  BY WritesFrame
<1>2. loc[t].packed.array \in Arrays /\ loc[t].seen \in Nat
      /\ \A a \in Arrays : arrays[a].ver \in Nat /\ arrays'[a].ver \in Nat
  BY TypeFacts, TypeFactsNext DEF LocType, ArrayType
<1>3. SeenInv(t)'
  BY <1>2 DEF ThreadInv, SeenInv
<1>4. LocalInv(t)'
  BY DEF ThreadInv, LocalInv, WellFormed, HasBlocks, Falling, SameBlocks
<1>5. CopyInv(t)'
  BY DEF ThreadInv, CopyInv
<1>6. loc[t].op = "insert"
  BY DEF Types, InCall
<1>7. PeekInv(t)'
  BY <1>1, <1>6 DEF ThreadInv, PeekInv
<1>8. PoolInv(t)'
  BY <1>6 DEF ThreadInv, PoolInv
<1>9. ThreadInv(t)'
  BY <1>3, <1>4, <1>5, <1>7, <1>8 DEF ThreadInv
<1>10. QED
  BY <1>1, <1>9, StepInv

LEMMA BuildVersionStep ==
    ASSUME IInv, ~fault, NEW t \in Threads, build_version(t)
    PROVE  IInv'
PROOF
<1> DEFINE x == [arrays[New(t)] EXCEPT !.ver = local[t].ver]
<1> USE TypeFacts DEF IInv, Loading, Loaded, Copying, Building, Peeking, Filling, Filled, Matched
<1>1. /\ pc[t] = "build_version" /\ SetNew(t, x) /\ Goto(t, "build_copy", loc[t])
      /\ UNCHANGED <<global, content, pool, local, cached, inserted, taken, stolen, fault>>
  BY DEF build_version
<1>2. x \in ArrayType /\ x.ver = local[t].ver
  BY DEF ArrayType
<1> HIDE DEF x
<1>3. /\ local[t].ver = loc[t].seen /\ arrays[New(t)].ver <= loc[t].seen /\ loc[t].seen \in Nat
      /\ \A p \in {0, 1} : arrays[<<t, p>>].ver <= loc[t].seen /\ arrays[<<t, p>>].ver <= Current.ver
      /\ loc[t].seen <= Current.ver
  <2>1. /\ local[t].ver = loc[t].seen /\ loc[t].seen \in Nat /\ loc[t].seen <= Current.ver
        /\ \A p \in {0, 1} : arrays[<<t, p>>].ver <= loc[t].seen
                             /\ arrays[<<t, p>>].ver <= Current.ver
    BY <1>1 DEF ThreadInv, CopyInv, OwnInv, SeenInv, LocType
  <2>2. QED
    BY <2>1 DEF New
<1>4. /\ arrays'[New(t)] = x /\ arrays' \in [Arrays -> ArrayType] /\ Current' = Current
      /\ \A a \in Arrays : a # New(t) => arrays'[a] = arrays[a]
      /\ \A a \in Arrays : (a[1] # t => arrays'[a] = arrays[a]) /\ arrays'[a].ver >= arrays[a].ver
  <2>1. x.ver >= arrays[New(t)].ver
    BY <1>2, <1>3 DEF ArrayType
  <2>2. QED
    BY <1>1, <1>2, <2>1, SetNewFacts
<1>5. /\ pc'[t] = "build_copy" /\ loc'[t] = loc[t]
      /\ \A u \in Threads \ {t} : pc'[u] = pc[u] /\ loc'[u] = loc[u]
      /\ pc' \in [Threads -> Pcs] /\ loc' \in [Threads -> LocType]
  BY <1>1, GotoFacts DEF Pcs
<1>6. Types'
  <2>1. TypeOK'
    BY <1>1, <1>4, <1>5 DEF Types, TypeOK
  <2>2. QED
    BY <1>1, <1>5, <2>1 DEF Types, InCall
<1>7. Writes(t)
  BY <1>1, <1>4, <1>5 DEF Writes
<1>8. OwnInv(t)'
  <2>1. \A p \in {0, 1} : <<t, p>> \in Arrays
    BY DEF Arrays
  <2>2. New(t)' = New(t)
    BY <1>5 DEF New
  <2>3. QED
    BY <1>2, <1>3, <1>4, <1>5, <2>1, <2>2, SMTT(30) DEF OwnInv
<1>9. BuildInv(t)'
  BY <1>1, <1>5 DEF ThreadInv, BuildInv, InsertInv, ShapeInv, ContentInv, Mine
<1>10. QED
  BY <1>1, <1>4, <1>5, <1>6, <1>7, <1>8, <1>9, BuildStep DEF SameAttempt

LEMMA SameBlocksFacts ==
    ASSUME NEW x, NEW y, SameBlocks(x, y)
    PROVE  /\ WellFormed(x) <=> WellFormed(y)
           /\ BlocksOf(x) = BlocksOf(y) /\ Contents(x) = Contents(y)
PROOF
<1>1. x.size = y.size /\ \A s \in 1 .. x.size : x.blocks[s] = y.blocks[s]
  BY DEF SameBlocks
<1>2. BlocksOf(x) = BlocksOf(y)
  BY <1>1 DEF BlocksOf
<1>3. QED
  BY <1>1, <1>2 DEF WellFormed, HasBlocks, Falling, Contents

LEMMA BuildCopyStep ==
    ASSUME IInv, ~fault, NEW t \in Threads, build_copy(t)
    PROVE  IInv'
PROOF
<1> DEFINE x == [arrays[New(t)] EXCEPT
                     !.size = local[t].size,
                     !.blocks = CopyBlocks(@, local[t].blocks, local[t].size)]
<1> USE TypeFacts DEF IInv, Loading, Loaded, Copying, Building, Peeking, Filling, Filled, Matched
<1>1. /\ pc[t] = "build_copy" /\ SetNew(t, x) /\ Goto(t, "build_incr", loc[t])
      /\ UNCHANGED <<global, content, pool, local, cached, inserted, taken, stolen, fault>>
  BY DEF build_copy
<1>2. x \in ArrayType /\ x.ver = arrays[New(t)].ver /\ SameBlocks(x, local[t])
  <2>1. arrays[New(t)] \in ArrayType /\ local[t] \in ArrayType
    OBVIOUS
  <2>2. CopyBlocks(arrays[New(t)].blocks, local[t].blocks, local[t].size)
            \in [Slots -> Blocks \union {NoBlock}]
    BY <2>1 DEF CopyBlocks, ArrayType
  <2>3. x \in ArrayType /\ x.ver = arrays[New(t)].ver /\ x.size = local[t].size
        /\ x.blocks = CopyBlocks(arrays[New(t)].blocks, local[t].blocks, local[t].size)
    BY <2>1, <2>2 DEF ArrayType
  <2>4. local[t].size \in 0 .. (MaxPow + 2) /\ 1 .. local[t].size \subseteq Slots
    BY <2>1, SharedAssumption DEF Slots, ArrayType
  <2>5. QED
    BY <2>3, <2>4 DEF CopyBlocks, SameBlocks
<1> HIDE DEF x
<1>3. /\ arrays'[New(t)] = x /\ arrays' \in [Arrays -> ArrayType] /\ Current' = Current
      /\ \A a \in Arrays : a # New(t) => arrays'[a] = arrays[a]
      /\ \A a \in Arrays : (a[1] # t => arrays'[a] = arrays[a]) /\ arrays'[a].ver >= arrays[a].ver
  <2>1. x.ver >= arrays[New(t)].ver
    BY <1>2 DEF ArrayType
  <2>2. QED
    BY <1>1, <1>2, <2>1, SetNewFacts
<1>4. /\ pc'[t] = "build_incr" /\ loc'[t] = loc[t]
      /\ \A u \in Threads \ {t} : pc'[u] = pc[u] /\ loc'[u] = loc[u]
      /\ pc' \in [Threads -> Pcs] /\ loc' \in [Threads -> LocType]
  BY <1>1, GotoFacts DEF Pcs
<1>5. New(t)' = New(t)
  BY <1>4 DEF New
<1>6. Types'
  <2>1. TypeOK'
    BY <1>1, <1>3, <1>4 DEF Types, TypeOK
  <2>2. QED
    BY <1>1, <1>4, <2>1 DEF Types, InCall
<1>7. Writes(t)
  BY <1>1, <1>3, <1>4 DEF Writes
<1>8. OwnInv(t)'
  <2>1. \A p \in {0, 1} : <<t, p>> \in Arrays /\ arrays'[<<t, p>>].ver = arrays[<<t, p>>].ver
    BY <1>2, <1>3 DEF Arrays
  <2>2. QED
    BY <1>1, <1>3, <1>4, <1>5, <2>1, ZenonT(40) DEF ThreadInv, OwnInv
<1>9. BuildInv(t)'
  <2>1. SameBlocks(arrays[New(t)], local[t])'
    BY <1>1, <1>2, <1>3, <1>5 DEF SameBlocks
  <2>2. QED
    BY <1>1, <1>4, <2>1 DEF ThreadInv, BuildInv, InsertInv, ShapeInv, ContentInv, Mine
<1>10. QED
  BY <1>1, <1>3, <1>4, <1>6, <1>7, <1>8, <1>9, BuildStep DEF SameAttempt

(* The version is incremented, and the slot after which b is inserted is   *)
(* chosen: levels are at least that of b up to it, and less after it.      *)
LEMMA BuildIncrStep ==
    ASSUME IInv, ~fault, NEW t \in Threads, build_incr(t)
    PROVE  IInv'
PROOF
<1> DEFINE x == arrays[New(t)]
           y == [x EXCEPT !.ver = @ + 1]
           b == loc[t].b
<1> USE TypeFacts DEF IInv, Loading, Loaded, Copying, Building, Peeking, Filling, Filled, Matched
<1>1. PICK n \in 0 .. x.size :
          /\ \A s \in 1 .. n : capacity(x.blocks[s]) >= capacity(b)
          /\ n < x.size => capacity(x.blocks[n + 1]) < capacity(b)
          /\ SetNew(t, y)
          /\ Goto(t, "add", [loc[t] EXCEPT !.ib = b, !.slot = n])
  BY DEF build_incr
<1> DEFINE l == [loc[t] EXCEPT !.ib = b, !.slot = n]
<1>2. pc[t] = "build_incr"
      /\ UNCHANGED <<global, content, pool, local, cached, inserted, taken, stolen, fault>>
  BY DEF build_incr
<1>3. x \in ArrayType /\ y \in ArrayType /\ y.ver = x.ver + 1 /\ SameBlocks(y, x)
      /\ y.size = x.size /\ y.blocks = x.blocks /\ x.size \in 0 .. (MaxPow + 2)
  <2>1. x \in ArrayType
    OBVIOUS
  <2>2. QED
    BY <2>1 DEF ArrayType, SameBlocks
<1>4. /\ l \in LocType /\ SameAttempt(l, loc[t]) /\ l.obs = loc[t].obs
      /\ l.ib = b /\ l.slot = n /\ l.b = b
  <2>1. loc[t] \in LocType /\ n \in 0 .. (MaxPow + 2)
    BY <1>3, SharedAssumption
  <2>2. QED
    BY <2>1 DEF LocType, SameAttempt
<1>5. SetNew(t, y) /\ Goto(t, "add", l)
  BY <1>1
<1> HIDE DEF y, l
<1>6. Mine(t, b) /\ SameBlocks(x, local[t]) /\ WellFormed(local[t])
  BY <1>2 DEF ThreadInv, BuildInv, InsertInv, ShapeInv, LocalInv, Types, InCall
<1>7. WellFormed(y) /\ BlocksOf(y) = BlocksOf(local[t]) /\ Contents(y) = Contents(local[t])
  BY <1>3, <1>6, SameBlocksFacts
<1>8. /\ arrays'[New(t)] = y /\ arrays' \in [Arrays -> ArrayType] /\ Current' = Current
      /\ \A a \in Arrays : a # New(t) => arrays'[a] = arrays[a]
      /\ \A a \in Arrays : (a[1] # t => arrays'[a] = arrays[a]) /\ arrays'[a].ver >= arrays[a].ver
  <2>1. y.ver >= arrays[New(t)].ver
    BY <1>3 DEF ArrayType
  <2>2. QED
    BY <1>2, <1>3, <1>5, <2>1, SetNewFacts
<1>9. /\ pc'[t] = "add" /\ loc'[t] = l
      /\ \A u \in Threads \ {t} : pc'[u] = pc[u] /\ loc'[u] = loc[u]
      /\ pc' \in [Threads -> Pcs] /\ loc' \in [Threads -> LocType]
  BY <1>4, <1>5, GotoFacts DEF Pcs
<1>10. New(t)' = New(t)
  BY <1>4, <1>9 DEF New
<1>11. Types'
  <2>1. TypeOK'
    BY <1>2, <1>8, <1>9 DEF Types, TypeOK
  <2>2. QED
    BY <1>2, <1>4, <1>9, <2>1 DEF Types, InCall, SameAttempt
<1>12. Writes(t)
  BY <1>2, <1>8, <1>9 DEF Writes
<1>13. OwnInv(t)'
  <2>1. \A p \in {0, 1} : <<t, p>> \in Arrays
    BY DEF Arrays
  <2>2. x.ver = loc[t].seen
    BY <1>2 DEF ThreadInv, OwnInv, New
  <2>3. QED
    BY <1>2, <1>3, <1>4, <1>8, <1>9, <1>10, <2>1, <2>2, ZenonT(40) DEF ThreadInv, OwnInv, SameAttempt
<1>14. InsertInv(t)'
  BY <1>2, <1>4, <1>6, <1>9 DEF InsertInv, Mine
<1>15. ShapeInv(t)'
  <2>1. \A s \in 1 .. x.size : x.blocks[s] \in Blocks
    BY <1>3, <1>7 DEF WellFormed, HasBlocks
  <2>2. b \in Blocks
    BY <1>6 DEF Mine
  <2>3. \A s \in 1 .. n : level(x.blocks[s]) >= level(b)
    <3> TAKE s \in 1 .. n
    <3>1. x.blocks[s] \in Blocks /\ capacity(x.blocks[s]) >= capacity(b)
      BY <1>1, <1>3, <2>1
    <3>2. QED
      BY <2>2, <3>1, CapacityOrder
  <2>4. \A s \in (n + 1) .. x.size : level(x.blocks[s]) < level(b)
    <3> TAKE s \in (n + 1) .. x.size
    <3>1. n + 1 \in 1 .. x.size /\ s \in 1 .. x.size
      BY <1>3
    <3>2. level(x.blocks[n + 1]) < level(b)
      BY <1>1, <1>3, <2>1, <2>2, <3>1, CapacityOrder
    <3>3. level(x.blocks[n + 1]) >= level(x.blocks[s])
      BY <1>3, <1>7, <2>1, <3>1, CapacityOrder DEF WellFormed, Falling
    <3>4. QED
      BY <2>1, <2>2, <3>1, <3>2, <3>3, CapacityOrder
  <2>5. \A s \in 1 .. y.size : IF s <= n THEN level(y.blocks[s]) >= level(b)
                                        ELSE level(y.blocks[s]) < level(b)
    BY <1>3, <2>3, <2>4
  <2>6. HasBlocks(y) /\ Falling(y)
    BY <1>7 DEF WellFormed
  <2>7. (HasBlocks(arrays[New(t)]) /\ Falling(arrays[New(t)]))'
    BY <1>8, <1>10, <2>6 DEF HasBlocks, Falling
  <2>8. QED
    BY <1>3, <1>4, <1>8, <1>9, <1>10, <2>5, <2>7 DEF ShapeInv
<1>16. ContentInv(t)'
  <2>1. loc[t].seen = Current.ver => SameBlocks(local[t], Current)
    BY <1>2 DEF ThreadInv, LocalInv, CopyInv
  <2>2. loc[t].seen = Current.ver =>
            BlocksOf(y) = BlocksOf(Current) /\ Contents(y) = Contents(Current)
    BY <1>7, <2>1, SameBlocksFacts
  <2>3. /\ Contents(x)' = Contents(y) /\ BlocksOf(x)' = BlocksOf(y)
        /\ Contents(Current)' = Contents(Current) /\ BlocksOf(Current)' = BlocksOf(Current)
    BY <1>2, <1>8, <1>10 DEF Contents, BlocksOf
  <2>4. QED
    BY <1>2, <1>4, <1>8, <1>9, <1>10, <2>2, <2>3 DEF ContentInv, Together, SameAttempt
<1>17. QED
  BY <1>2, <1>4, <1>8, <1>9, <1>11, <1>12, <1>13, <1>14, <1>15, <1>16, BuildStep DEF BuildInv

(* Inserting and removing a slot. *)
LEMMA FallingSize ==
    ASSUME NEW x \in ArrayType, HasBlocks(x), Falling(x)
    PROVE  x.size \in 0 .. (MaxPow + 1)
PROOF
<1>1. x.size \in Nat /\ MaxPow \in Nat
  BY SharedAssumption DEF ArrayType
<1>2. CASE x.size >= 2
  <2>1. 1 \in 1 .. x.size /\ x.size \in 1 .. x.size /\ 1 < x.size
    BY <1>1, <1>2
  <2>2. level(x.blocks[1]) \in 0 .. MaxPow /\ level(x.blocks[x.size]) \in 0 .. MaxPow
    BY <2>1, CapacityOrder DEF HasBlocks
  <2>3. level(x.blocks[1]) >= level(x.blocks[x.size]) + (x.size - 1)
    BY <2>1 DEF Falling
  <2>4. QED
    BY <1>1, <2>2, <2>3
<1>3. CASE x.size < 2
  BY <1>1, <1>3
<1>4. QED
  BY <1>1, <1>2, <1>3

LEMMA InsertSlotFacts ==
    ASSUME NEW x \in ArrayType, x.size <= MaxPow + 1, NEW i \in 1 .. (x.size + 1),
           NEW b \in Blocks \union {NoBlock}
    PROVE  LET y == InsertSlot(x, i, b)
           IN  /\ y \in ArrayType /\ y.ver = x.ver /\ y.size = x.size + 1
               /\ \A s \in 1 .. y.size :
                      y.blocks[s] = IF s = i THEN b ELSE IF i < s THEN x.blocks[s - 1] ELSE x.blocks[s]
               /\ BlocksOf(y) = BlocksOf(x) \union {b}
PROOF
<1> DEFINE y == InsertSlot(x, i, b)
           bs == [s \in Slots |-> IF s = i THEN b
                                  ELSE IF i < s /\ s <= x.size + 1 THEN x.blocks[s - 1]
                                  ELSE x.blocks[s]]
<1>1. MaxPow \in Nat /\ x.size \in Nat /\ x.size + 1 \in 0 .. (MaxPow + 2)
      /\ x.blocks \in [Slots -> Blocks \union {NoBlock}]
  BY SharedAssumption DEF ArrayType
<1>2. bs \in [Slots -> Blocks \union {NoBlock}]
  <2>1. \A s \in Slots : i < s => s - 1 \in Slots
    BY <1>1 DEF Slots
  <2>2. QED
    BY <1>1, <2>1
<1>3. y = [x EXCEPT !.size = x.size + 1, !.blocks = bs]
  BY DEF InsertSlot
<1> HIDE DEF y, bs
<1>4. y \in ArrayType /\ y.ver = x.ver /\ y.size = x.size + 1 /\ y.blocks = bs
  BY <1>1, <1>2, <1>3 DEF ArrayType
<1>5. \A s \in 1 .. y.size :
          y.blocks[s] = IF s = i THEN b ELSE IF i < s THEN x.blocks[s - 1] ELSE x.blocks[s]
  BY <1>1, <1>4 DEF bs, Slots
<1>6. BlocksOf(y) = BlocksOf(x) \union {b}
  <2>1. ASSUME NEW s \in 1 .. y.size PROVE y.blocks[s] \in BlocksOf(x) \union {b}
    <3>1. i < s => s - 1 \in 1 .. x.size
      BY <1>1, <1>4
    <3>2. s < i => s \in 1 .. x.size
      BY <1>1, <1>4
    <3>3. QED
      BY <1>1, <1>4, <1>5, <3>1, <3>2 DEF BlocksOf
  <2>2. ASSUME NEW s \in 1 .. x.size PROVE x.blocks[s] \in BlocksOf(y)
    <3>1. CASE s < i
      BY <1>1, <1>4, <1>5, <3>1 DEF BlocksOf
    <3>2. CASE i <= s
      <4>1. s + 1 \in 1 .. y.size /\ y.blocks[s + 1] = x.blocks[s]
        BY <1>1, <1>4, <1>5, <3>2
      <4>2. QED
        BY <4>1 DEF BlocksOf
    <3>3. QED
      BY <1>1, <3>1, <3>2
  <2>3. b \in BlocksOf(y)
    BY <1>1, <1>4, <1>5 DEF BlocksOf
  <2>4. QED
    BY <2>1, <2>2, <2>3 DEF BlocksOf
<1>7. QED
  BY <1>4, <1>5, <1>6 DEF y

LEMMA RemoveSlotFacts ==
    ASSUME NEW x \in ArrayType, NEW i \in 1 .. x.size
    PROVE  LET y == RemoveSlot(x, i)
           IN  /\ y \in ArrayType /\ y.ver = x.ver /\ y.size = x.size - 1
               /\ \A s \in 1 .. y.size :
                      y.blocks[s] = IF i <= s THEN x.blocks[s + 1] ELSE x.blocks[s]
               /\ BlocksOf(x) = BlocksOf(y) \union {x.blocks[i]}
PROOF
<1> DEFINE y == RemoveSlot(x, i)
           bs == [s \in Slots |-> IF i <= s /\ s < x.size THEN x.blocks[s + 1] ELSE x.blocks[s]]
<1>1. MaxPow \in Nat /\ x.size \in Nat /\ x.size - 1 \in 0 .. (MaxPow + 2)
      /\ x.size <= MaxPow + 2 /\ x.blocks \in [Slots -> Blocks \union {NoBlock}]
  BY SharedAssumption DEF ArrayType
<1>2. bs \in [Slots -> Blocks \union {NoBlock}]
  <2>1. \A s \in Slots : s < x.size => s + 1 \in Slots
    BY <1>1 DEF Slots
  <2>2. QED
    BY <1>1, <2>1
<1>3. y = [x EXCEPT !.size = x.size - 1, !.blocks = bs]
  BY DEF RemoveSlot
<1> HIDE DEF y, bs
<1>4. y \in ArrayType /\ y.ver = x.ver /\ y.size = x.size - 1 /\ y.blocks = bs
  BY <1>1, <1>2, <1>3 DEF ArrayType
<1>5. \A s \in 1 .. y.size : y.blocks[s] = IF i <= s THEN x.blocks[s + 1] ELSE x.blocks[s]
  BY <1>1, <1>4 DEF bs, Slots
<1>6. BlocksOf(x) = BlocksOf(y) \union {x.blocks[i]}
  <2>1. ASSUME NEW s \in 1 .. y.size PROVE y.blocks[s] \in BlocksOf(x)
    <3>1. s \in 1 .. x.size /\ s + 1 \in 1 .. x.size
      BY <1>1, <1>4
    <3>2. QED
      BY <1>5, <3>1 DEF BlocksOf
  <2>2. ASSUME NEW s \in 1 .. x.size PROVE x.blocks[s] \in BlocksOf(y) \union {x.blocks[i]}
    <3>1. CASE s < i
      BY <1>1, <1>4, <1>5, <3>1 DEF BlocksOf
    <3>2. CASE i < s
      <4>1. s - 1 \in 1 .. y.size /\ y.blocks[s - 1] = x.blocks[s]
        BY <1>1, <1>4, <1>5, <3>2
      <4>2. QED
        BY <4>1 DEF BlocksOf
    <3>3. QED
      BY <3>1, <3>2
  <2>3. x.blocks[i] \in BlocksOf(x)
    BY DEF BlocksOf
  <2>4. QED
    BY <2>1, <2>2, <2>3 DEF BlocksOf
<1>7. QED
  BY <1>4, <1>5, <1>6 DEF y

LEMMA AllocateWithin ==
    ASSUME Types, ~fault, NEW t \in Threads, NEW q \in Int,
           NEW T, inserted \subseteq T, NEW S \in SUBSET T,
           Allocate(t, q, S), q \in 0 .. MaxPow => Cardinality(S) <= 2 ^ q
    PROVE  /\ content' \in [Blocks -> SUBSET T] /\ fault' \in BOOLEAN
           /\ pool' \in [Blocks -> [status : {"free", "local", "global"}, ver : Nat]]
           /\ \A c \in Blocks : \/ pool'[c] = pool[c] /\ content'[c] = content[c]
                                \/ c \in Available(t, level(c)) /\ pool'[c].status = "local"
           /\ \A c \in Blocks : Cardinality(content'[c]) <= capacity(c)
PROOF
<1>1. \A c \in Blocks : Cardinality(content[c]) <= capacity(c) /\ content[c] \in SUBSET T
  BY DEF Types, TypeOK
<1>2. pool \in [Blocks -> [status : {"free", "local", "global"}, ver : Nat]]
      /\ content \in [Blocks -> SUBSET T]
  BY DEF Types, TypeOK
<1>3. CASE fault' = TRUE /\ UNCHANGED <<pool, content>>
  BY <1>1, <1>2, <1>3
<1>4. CASE fault' # TRUE
  <2>1. PICK b : b = get_block(t, q)
    OBVIOUS
  <2>2. fault' = FALSE /\ Puts(t, q, S, b)
    BY <1>4, <2>1, AllocateFacts
  <2>3. /\ b \in Available(t, q) /\ b \in Blocks /\ level(b) = q /\ content'[b] = S
        /\ pool'[b].status = "local"
        /\ \A c \in Blocks \ {b} : pool'[c] = pool[c] /\ content'[c] = content[c]
    BY <2>2 DEF Puts
  <2>4. Cardinality(content'[b]) <= capacity(b)
    BY <2>3, CapacityOrder DEF capacity, level
  <2>5. content' \in [Blocks -> SUBSET T]
        /\ pool' \in [Blocks -> [status : {"free", "local", "global"}, ver : Nat]]
    BY <1>2, <2>1, <2>3 DEF Allocate
  <2>6. \A c \in Blocks : Cardinality(content'[c]) <= capacity(c)
    BY <1>1, <2>3, <2>4
  <2>7. \A c \in Blocks : \/ pool'[c] = pool[c] /\ content'[c] = content[c]
                          \/ c \in Available(t, level(c)) /\ pool'[c].status = "local"
    BY <2>3
  <2>8. QED
    BY <2>2, <2>5, <2>6, <2>7
<1>5. QED
  BY <1>3, <1>4, AllocateFacts

LEMMA AllocateTypes ==
    ASSUME Types, ~fault, NEW t \in Threads, NEW q \in Int, NEW S \in SUBSET inserted,
           Allocate(t, q, S), q \in 0 .. MaxPow => Cardinality(S) <= 2 ^ q
    PROVE  /\ content' \in [Blocks -> SUBSET inserted] /\ fault' \in BOOLEAN
           /\ pool' \in [Blocks -> [status : {"free", "local", "global"}, ver : Nat]]
           /\ \A c \in Blocks : \/ pool'[c] = pool[c] /\ content'[c] = content[c]
                                \/ c \in Available(t, level(c)) /\ pool'[c].status = "local"
           /\ \A c \in Blocks : Cardinality(content'[c]) <= capacity(c)
  BY AllocateWithin

(* The steps that fill the new array: a block may be allocated. *)
Fills(t, p, l, y) ==
    /\ Goto(t, p, l) /\ SetNew(t, y)
    /\ UNCHANGED <<global, local, cached, inserted, taken, stolen>>
    /\ \/ UNCHANGED <<content, pool, fault>>
       \/ \E q \in Int, S \in SUBSET inserted :
              Allocate(t, q, S) /\ (q \in 0 .. MaxPow => Cardinality(S) <= 2 ^ q)

LEMMA FillFacts ==
    ASSUME IInv, ~fault, NEW t \in Threads, pc[t] \in Filling,
           NEW p \in Filling, NEW l \in LocType, SameAttempt(l, loc[t]), l.obs = loc[t].obs,
           NEW y \in ArrayType, y.ver = arrays[New(t)].ver, Fills(t, p, l, y)
    PROVE  /\ Types' /\ Writes(t) /\ OwnInv(t)'
           /\ pc'[t] = p /\ loc'[t] = l /\ New(t)' = New(t) /\ arrays'[New(t)] = y
           /\ Current' = Current /\ global' = global /\ taken' = taken
           /\ Contents(Current)' = Contents(Current)
PROOF
<1> USE TypeFacts DEF IInv, Loading, Loaded, Copying, Building, Peeking, Filling, Filled, Matched,
        Fills
<1>1. /\ arrays'[New(t)] = y /\ arrays' \in [Arrays -> ArrayType] /\ Current' = Current
      /\ \A a \in Arrays : a # New(t) => arrays'[a] = arrays[a]
      /\ \A a \in Arrays : (a[1] # t => arrays'[a] = arrays[a]) /\ arrays'[a].ver >= arrays[a].ver
  <2>1. y.ver >= arrays[New(t)].ver
    BY DEF ArrayType
  <2>2. QED
    BY <2>1, SetNewFacts
<1>2. /\ pc'[t] = p /\ loc'[t] = l
      /\ \A u \in Threads \ {t} : pc'[u] = pc[u] /\ loc'[u] = loc[u]
      /\ pc' \in [Threads -> Pcs] /\ loc' \in [Threads -> LocType]
  BY GotoFacts DEF Pcs
<1>3. New(t)' = New(t)
  BY <1>2 DEF New
<1>4. /\ content' \in [Blocks -> SUBSET inserted] /\ fault' \in BOOLEAN
      /\ pool' \in [Blocks -> [status : {"free", "local", "global"}, ver : Nat]]
      /\ \A b \in Blocks : \/ pool'[b] = pool[b] /\ content'[b] = content[b]
                           \/ b \in Available(t, level(b)) /\ pool'[b].status = "local"
      /\ \A b \in Blocks : Cardinality(content'[b]) <= capacity(b)
  <2>1. CASE UNCHANGED <<content, pool, fault>>
    BY <2>1 DEF Types, TypeOK
  <2>2. CASE \E q \in Int, S \in SUBSET inserted :
                 Allocate(t, q, S) /\ (q \in 0 .. MaxPow => Cardinality(S) <= 2 ^ q)
    BY <2>2, AllocateTypes
  <2>3. QED
    BY <2>1, <2>2
<1>5. TypeOK'
  <2>1. \A b \in Blocks : content'[b] \subseteq Elements
    BY <1>4 DEF Types, TypeOK
  <2>2. QED
    BY <1>1, <1>2, <1>4, <2>1 DEF Types, TypeOK
<1>6. Types'
  <2>1. InCall(p, l)
    BY DEF Types, InCall, SameAttempt
  <2>2. QED
    BY <1>2, <1>4, <1>5, <2>1 DEF Types
<1>7. Writes(t)
  BY <1>1, <1>2, <1>4 DEF Writes
<1>8. OwnInv(t)'
  <2>1. \A q \in {0, 1} : <<t, q>> \in Arrays
    BY DEF Arrays
  <2>2. QED
    BY <1>1, <1>2, <1>3, <2>1, ZenonT(40) DEF ThreadInv, OwnInv, SameAttempt
<1>9. Contents(Current)' = Contents(Current)
  BY <1>1, <1>6, <1>7, WritesFrame
<1>10. QED
  BY <1>1, <1>2, <1>3, <1>6, <1>7, <1>8, <1>9

LEMMA FillStep ==
    ASSUME IInv, ~fault, NEW t \in Threads, pc[t] \in Filling,
           NEW p \in Filling, NEW l \in LocType, SameAttempt(l, loc[t]), l.obs = loc[t].obs,
           NEW y \in ArrayType, y.ver = arrays[New(t)].ver, Fills(t, p, l, y),
           fault' \/ BuildInv(t)'
    PROVE  IInv'
PROOF
<1>1. /\ Types' /\ Writes(t) /\ OwnInv(t)' /\ Current' = Current
      /\ pc'[t] = p /\ loc'[t] = l
  BY FillFacts
<1>2. QED
  BY <1>1, BuildStep DEF Building, Filling

(* The merged block is put where levels fall below its own. *)
LEMMA AddStep ==
    ASSUME IInv, ~fault, NEW t \in Threads, add(t)
    PROVE  IInv'
PROOF
<1> DEFINE x == arrays[New(t)]
           n == loc[t].slot
           b == loc[t].ib
           y == InsertSlot(x, n + 1, b)
           l == [loc[t] EXCEPT !.slot = 1]
<1> USE TypeFacts DEF IInv
<1>1. /\ pc[t] = "add" /\ ~SameSize(t) /\ SetNew(t, y) /\ Goto(t, "shrink", l)
      /\ UNCHANGED <<global, content, pool, local, cached, inserted, taken, stolen, fault>>
  BY DEF add
<1>2. InsertInv(t) /\ ShapeInv(t) /\ ContentInv(t)
  BY DEF ThreadInv, BuildInv
<1>3. /\ HasBlocks(x) /\ Falling(x) /\ Mine(t, b) /\ b \in Blocks /\ n <= x.size
      /\ \A s \in 1 .. x.size : IF s <= n THEN level(x.blocks[s]) >= level(b)
                                          ELSE level(x.blocks[s]) < level(b)
  BY <1>1, <1>2 DEF InsertInv, ShapeInv, Filling, Mine
<1>4. x \in ArrayType /\ loc[t] \in LocType /\ n \in Nat /\ x.size \in 0 .. (MaxPow + 1)
  BY <1>3, FallingSize DEF LocType
<1>5. /\ y \in ArrayType /\ y.ver = x.ver /\ y.size = x.size + 1
      /\ \A s \in 1 .. y.size :
             y.blocks[s] = IF s = n + 1 THEN b ELSE IF n + 1 < s THEN x.blocks[s - 1] ELSE x.blocks[s]
      /\ BlocksOf(y) = BlocksOf(x) \union {b}
  <2>1. n + 1 \in 1 .. (x.size + 1)
    BY <1>3, <1>4
  <2>2. QED
    BY <1>3, <1>4, <2>1, InsertSlotFacts
<1>6. /\ l \in LocType /\ SameAttempt(l, loc[t]) /\ l.obs = loc[t].obs /\ l.slot = 1
      /\ l.b = loc[t].b /\ l.seen = loc[t].seen
  BY <1>4, SharedAssumption, SMTT(30) DEF LocType, SameAttempt
<1> HIDE DEF y, l
<1>7. Fills(t, "shrink", l, y)
  BY <1>1 DEF Fills
<1>8. /\ pc'[t] = "shrink" /\ loc'[t] = l /\ New(t)' = New(t) /\ arrays'[New(t)] = y
      /\ Current' = Current /\ global' = global /\ taken' = taken
      /\ Contents(Current)' = Contents(Current)
  BY <1>1, <1>5, <1>6, <1>7, FillFacts DEF Filling
<1>9. \A s \in 1 .. n : level(x.blocks[s]) > level(b)
  <2> TAKE s \in 1 .. n
  <2>1. n \in 1 .. x.size /\ s \in 1 .. x.size
    BY <1>3, <1>4
  <2>2. x.blocks[n] \in Blocks /\ x.blocks[s] \in Blocks
    BY <1>3, <2>1 DEF HasBlocks
  <2>3. level(x.blocks[n]) >= level(b)
    BY <1>3, <1>4, <2>1
  <2>4. level(x.blocks[n]) # level(b)
    BY <1>1, <1>3, <1>4, <2>1, <2>2, CapacityOrder DEF SameSize
  <2>5. level(x.blocks[s]) >= level(x.blocks[n])
    BY <1>3, <2>1, <2>2, CapacityOrder DEF Falling
  <2>6. QED
    BY <1>3, <2>2, <2>3, <2>4, <2>5, CapacityOrder
<1>10. HasBlocks(y) /\ Falling(y)
  <2>1. \A s \in 1 .. y.size : y.blocks[s] \in Blocks /\ level(y.blocks[s]) \in 0 .. MaxPow
    <3> TAKE s \in 1 .. y.size
    <3>1. n + 1 < s => s - 1 \in 1 .. x.size
      BY <1>4, <1>5
    <3>2. s < n + 1 => s \in 1 .. x.size
      BY <1>3, <1>4, <1>5
    <3>3. y.blocks[s] \in Blocks
      BY <1>3, <1>4, <1>5, <3>1, <3>2 DEF HasBlocks
    <3>4. QED
      BY <3>3, CapacityOrder
  <2>2. ASSUME NEW s \in 1 .. y.size, NEW u \in 1 .. y.size, s < u
        PROVE  level(y.blocks[s]) >= level(y.blocks[u]) + (u - s)
    <3>1. CASE u < n + 1
      BY <1>3, <1>4, <1>5, <2>2, <3>1 DEF Falling
    <3>2. CASE u = n + 1
      <4>1. s \in 1 .. n /\ n \in 1 .. x.size /\ y.blocks[s] = x.blocks[s] /\ y.blocks[u] = b
        BY <1>3, <1>4, <1>5, <2>2, <3>2
      <4>2. level(x.blocks[n]) > level(b) /\ level(x.blocks[n]) \in Int
        BY <1>3, <1>9, <4>1, CapacityOrder DEF HasBlocks
      <4>3. s < n => level(x.blocks[s]) >= level(x.blocks[n]) + (n - s)
        BY <1>3, <1>4, <4>1 DEF Falling
      <4>4. level(b) \in Int /\ level(x.blocks[s]) \in Int
        BY <1>3, <2>1, <4>1, CapacityOrder
      <4>5. QED
        BY <1>4, <3>2, <4>1, <4>2, <4>3, <4>4
    <3>3. CASE s = n + 1
      <4>1. u - 1 \in (n + 1) .. x.size /\ y.blocks[u] = x.blocks[u - 1] /\ y.blocks[s] = b
        BY <1>3, <1>4, <1>5, <2>2, <3>3
      <4>2. n + 1 \in 1 .. x.size /\ u - 1 \in 1 .. x.size
        BY <1>4, <4>1
      <4>3. level(x.blocks[n + 1]) < level(b) /\ level(x.blocks[n + 1]) \in Int
        BY <1>3, <1>4, <4>2, CapacityOrder DEF HasBlocks
      <4>4. n + 1 < u - 1 => level(x.blocks[n + 1]) >= level(x.blocks[u - 1]) + ((u - 1) - (n + 1))
        BY <1>3, <4>2 DEF Falling
      <4>5. level(b) \in Int /\ level(x.blocks[u - 1]) \in Int
        BY <1>3, <2>1, <4>1, CapacityOrder
      <4>6. QED
        BY <1>4, <3>3, <4>1, <4>3, <4>4, <4>5
    <3>4. CASE s < n + 1 /\ n + 1 < u
      <4>1. /\ s \in 1 .. n /\ u - 1 \in 1 .. x.size /\ n < u - 1 /\ s \in 1 .. x.size /\ s < u - 1
            /\ y.blocks[s] = x.blocks[s] /\ y.blocks[u] = x.blocks[u - 1]
        BY <1>3, <1>4, <1>5, <2>2, <3>4
      <4>2. n \in 1 .. x.size /\ x.blocks[n] \in Blocks
        BY <1>3, <1>4, <4>1 DEF HasBlocks
      <4>3. level(x.blocks[n]) > level(b) /\ level(b) > level(x.blocks[u - 1])
        BY <1>3, <1>4, <1>9, <4>1, <4>2
      <4>4. level(b) \in Int /\ level(x.blocks[n]) \in Int /\ level(x.blocks[s]) \in Int
            /\ level(x.blocks[u - 1]) \in Int
        BY <1>3, <2>1, <4>1, <4>2, CapacityOrder
      <4>5. n + 1 < u - 1 => level(b) >= level(x.blocks[u - 1]) + (u - (n + 1))
        <5>1. CASE n + 1 < u - 1
          <6>1. n + 1 \in 1 .. x.size /\ x.blocks[n + 1] \in Blocks
            BY <1>3, <1>4, <4>1, <5>1 DEF HasBlocks
          <6>2. level(x.blocks[n + 1]) < level(b)
            BY <1>3, <1>4, <6>1
          <6>3. level(x.blocks[n + 1]) >= level(x.blocks[u - 1]) + ((u - 1) - (n + 1))
            BY <1>3, <4>1, <5>1, <6>1 DEF Falling
          <6>4. QED
            BY <1>4, <4>4, <6>1, <6>2, <6>3, CapacityOrder
        <5>2. QED
          BY <5>1
      <4>6. s < n => level(x.blocks[s]) >= level(x.blocks[n]) + (n - s)
        BY <1>3, <4>1, <4>2 DEF Falling
      <4>7. QED
        BY <1>4, <3>4, <4>1, <4>3, <4>4, <4>5, <4>6
    <3>5. CASE n + 1 < s
      <4>1. /\ s - 1 \in 1 .. x.size /\ u - 1 \in 1 .. x.size /\ s - 1 < u - 1
            /\ y.blocks[s] = x.blocks[s - 1] /\ y.blocks[u] = x.blocks[u - 1]
        BY <1>3, <1>4, <1>5, <2>2, <3>5
      <4>2. level(x.blocks[s - 1]) >= level(x.blocks[u - 1]) + ((u - 1) - (s - 1))
        BY <1>3, <4>1 DEF Falling
      <4>3. QED
        BY <2>1, <4>1, <4>2
    <3>6. QED
      BY <1>4, <1>5, <2>2, <3>1, <3>2, <3>3, <3>4, <3>5
  <2>3. QED
    BY <2>1, <2>2 DEF HasBlocks, Falling
<1>11. InsertInv(t)'
  BY <1>1, <1>2, <1>6, <1>8 DEF InsertInv, Mine, SameAttempt
<1>12. ShapeInv(t)'
  <2>1. Weakly(y, 1)
    <3>1. \A s \in 1 .. y.size : level(y.blocks[s]) \in Int
      BY <1>10, CapacityOrder DEF HasBlocks
    <3>2. QED
      BY <1>10, <3>1 DEF Falling, Weakly
  <2>2. 1 \in 1 .. y.size
    BY <1>4, <1>5
  <2>3. HasBlocks(arrays[New(t)])' /\ Weakly(arrays[New(t)], 1)'
    BY <1>8, <1>10, <2>1 DEF HasBlocks, Weakly
  <2>4. QED
    BY <1>6, <1>8, <2>2, <2>3 DEF ShapeInv, Filled
<1>13. ContentInv(t)'
  <2>1. BlocksOf(x)' = BlocksOf(x) \union {b} /\ BlocksOf(Current)' = BlocksOf(Current)
    BY <1>5, <1>8 DEF BlocksOf
  <2>2. Contents(x)' = Contents(x) \union content[b]
    BY <1>1, <2>1 DEF Contents
  <2>3. Together(t)' = Together(t) /\ \A c : Mine(t, c)' <=> Mine(t, c)
    BY <1>1, <1>6, <1>8 DEF Together, Mine
  <2>4. QED
    BY <1>1, <1>2, <1>3, <1>6, <1>8, <2>1, <2>2, <2>3 DEF ContentInv, Filling, Filled
<1>14. QED
  BY <1>1, <1>5, <1>6, <1>7, <1>11, <1>12, <1>13, FillStep DEF Filling, BuildInv

(* The steps over the slots of the new array that change only locals. *)
LEMMA SlotStep ==
    ASSUME IInv, ~fault, NEW t \in Threads,
           pc[t] \in {"shrink", "compact", "check_ptr", "check_ver"},
           NEW p \in {"shrink", "compact", "check_ptr", "check_ver", "cas"}, NEW l \in LocType,
           SameAttempt(l, loc[t]), l.obs = loc[t].obs,
           p = "check_ver" => l.ptr = global.array,
           Goto(t, p, l), OnlyLocals,
           LET x == arrays[New(t)]
           IN  /\ p = "shrink" => l.slot \in 1 .. x.size /\ Weakly(x, l.slot)
               /\ p = "compact" => l.slot < x.size /\ WeaklyUpTo(x, l.slot + 1)
               /\ p \in Filled => Falling(x)
    PROVE  IInv'
PROOF
<1> DEFINE x == arrays[New(t)]
<1> USE DEF IInv, Loading, Loaded, Copying, Building, Peeking, Filling, Filled, Matched, SameAttempt
<1>1. p \in Pcs /\ InCall(p, l)
  BY DEF Types, InCall, Pcs
<1>2. /\ Types' /\ Current' = Current /\ pc'[t] = p /\ loc'[t] = l
      /\ \A b : Mine(t, b)' <=> Mine(t, b)
  BY <1>1, LocalsFrame
<1>3. New(t)' = New(t) /\ x' = x
  BY <1>2 DEF New, OnlyLocals
<1>4. Writes(t)
  <2>1. \A u \in Threads \ {t} : pc'[u] = pc[u] /\ loc'[u] = loc[u]
    BY GotoFacts
  <2>2. QED
    BY <2>1, TypeFacts DEF Writes, OnlyLocals, ArrayType
<1>5. OwnInv(t)'
  BY <1>2, <1>3 DEF ThreadInv, OwnInv, OnlyLocals
<1>6. InsertInv(t) /\ ShapeInv(t) /\ ContentInv(t)
  BY DEF ThreadInv, BuildInv
<1>7. InsertInv(t)'
  BY <1>2, <1>6 DEF InsertInv
<1>8. ShapeInv(t)'
  <2>1. HasBlocks(x) /\ (HasBlocks(x)' <=> HasBlocks(x)) /\ (Falling(x)' <=> Falling(x))
    BY <1>3, <1>6 DEF ShapeInv, HasBlocks, Falling
  <2>2. \A n : (Weakly(x, n)' <=> Weakly(x, n)) /\ (WeaklyUpTo(x, n)' <=> WeaklyUpTo(x, n))
    BY <1>3 DEF Weakly, WeaklyUpTo
  <2>3. QED
    BY <1>2, <1>3, <2>1, <2>2 DEF ShapeInv, Weakly, WeaklyUpTo
<1>9. ContentInv(t)'
  <2>1. Contents(x)' = Contents(x) /\ BlocksOf(x)' = BlocksOf(x) /\ Together(t)' = Together(t)
        /\ BlocksOf(Current)' = BlocksOf(Current)
    BY <1>2, <1>3 DEF Contents, BlocksOf, Together, OnlyLocals
  <2>2. QED
    BY <1>2, <1>3, <1>6, <2>1 DEF ContentInv, OnlyLocals
<1>10. QED
  BY <1>2, <1>4, <1>5, <1>7, <1>8, <1>9, BuildStep DEF BuildInv

(* Where the loop of shrink continues; sizes before and after are weakly   *)
(* falling up to the next slot.                                            *)
LEMMA NextShrinkFacts ==
    ASSUME IInv, NEW t \in Threads, pc[t] = "shrink", NextShrink(t),
           loc[t].slot \in 1 .. arrays[New(t)].size
    PROVE  \E p \in {"shrink", "compact"}, l \in LocType :
               /\ Goto(t, p, l) /\ SameAttempt(l, loc[t]) /\ l.obs = loc[t].obs
               /\ p = "shrink" => /\ l.slot = loc[t].slot + 1
                                  /\ l.slot \in 1 .. arrays[New(t)].size
               /\ p = "compact" => /\ loc[t].slot = arrays[New(t)].size
                                   /\ l.slot = loc[t].slot - 1
PROOF
<1> DEFINE n == loc[t].slot
           m == arrays[New(t)].size
<1>1. loc[t] \in LocType /\ n \in 1 .. m /\ m \in 0 .. (MaxPow + 2) /\ MaxPow \in Nat
  BY TypeFacts, SharedAssumption DEF IInv, ArrayType
<1>2. CASE n < m
  <2> DEFINE l == [loc[t] EXCEPT !.slot = n + 1]
  <2>1. Goto(t, "shrink", l)
    BY <1>2 DEF NextShrink
  <2>2. n + 1 \in 0 .. (MaxPow + 2)
    BY <1>1, <1>2
  <2>3. l \in LocType /\ SameAttempt(l, loc[t]) /\ l.obs = loc[t].obs /\ l.slot = n + 1
    BY <1>1, <2>2 DEF LocType, SameAttempt
  <2> HIDE DEF l
  <2>4. QED
    BY <1>1, <1>2, <2>1, <2>3
<1>3. CASE ~ (n < m)
  <2> DEFINE l == [loc[t] EXCEPT !.slot = m - 1]
  <2>1. Goto(t, "compact", l) /\ n = m
    BY <1>1, <1>3 DEF NextShrink
  <2>2. m - 1 \in 0 .. (MaxPow + 2)
    BY <1>1
  <2>3. l \in LocType /\ SameAttempt(l, loc[t]) /\ l.obs = loc[t].obs /\ l.slot = m - 1
    BY <1>1, <2>2 DEF LocType, SameAttempt
  <2> HIDE DEF l
  <2>4. QED
    BY <1>1, <2>1, <2>3
<1>4. QED
  BY <1>2, <1>3

LEMMA WeaklyNext ==
    ASSUME NEW x \in ArrayType, HasBlocks(x), NEW n \in 1 .. x.size, Weakly(x, n)
    PROVE  /\ n + 1 <= x.size => Weakly(x, n + 1)
           /\ n = x.size => WeaklyUpTo(x, n)
PROOF
<1>1. x.size \in Nat /\ \A s \in 1 .. x.size : level(x.blocks[s]) \in Int
  BY CapacityOrder DEF HasBlocks, ArrayType
<1>2. QED
  BY <1>1 DEF Weakly, WeaklyUpTo

LEMMA ShrinkSkipStep ==
    ASSUME IInv, ~fault, NEW t \in Threads, shrink_skip(t)
    PROVE  IInv'
PROOF
<1> DEFINE x == arrays[New(t)]
           n == loc[t].slot
<1>1. pc[t] = "shrink" /\ NextShrink(t) /\ OnlyLocals
  BY DEF shrink_skip
<1>2. n \in 1 .. x.size /\ Weakly(x, n) /\ HasBlocks(x) /\ x \in ArrayType
  BY <1>1, TypeFacts DEF IInv, ThreadInv, BuildInv, ShapeInv, Filling
<1>3. PICK p \in {"shrink", "compact"}, l \in LocType :
          /\ Goto(t, p, l) /\ SameAttempt(l, loc[t]) /\ l.obs = loc[t].obs
          /\ p = "shrink" => l.slot = n + 1 /\ l.slot \in 1 .. x.size
          /\ p = "compact" => n = x.size /\ l.slot = n - 1
  BY <1>1, <1>2, NextShrinkFacts
<1>4. /\ p = "shrink" => Weakly(x, l.slot)
      /\ p = "compact" => l.slot < x.size /\ WeaklyUpTo(x, l.slot + 1)
  <2>1. n + 1 <= x.size => Weakly(x, n + 1)
    BY <1>2, WeaklyNext
  <2>2. n = x.size => WeaklyUpTo(x, n)
    BY <1>2, WeaklyNext
  <2>3. x.size \in Nat /\ n \in Nat
    BY <1>2 DEF ArrayType
  <2>4. p = "compact" => l.slot + 1 = n /\ l.slot < x.size
    BY <1>3, <2>3
  <2>5. p = "shrink" => n + 1 <= x.size
    BY <1>3, <2>3
  <2>6. QED
    BY <1>3, <2>1, <2>2, <2>4, <2>5
<1>5. QED
  BY <1>1, <1>3, <1>4, SlotStep DEF Filled

LEMMA CompactSkipStep ==
    ASSUME IInv, ~fault, NEW t \in Threads, compact_skip(t)
    PROVE  IInv'
PROOF
<1> DEFINE x == arrays[New(t)]
           n == loc[t].slot
<1>1. pc[t] = "compact" /\ ~Uneven(t) /\ OnlyLocals
  BY DEF compact_skip
<1>2. n < x.size /\ WeaklyUpTo(x, n + 1) /\ HasBlocks(x) /\ x \in ArrayType
  BY <1>1, TypeFacts DEF IInv, ThreadInv, BuildInv, ShapeInv, Filling
<1>3. loc[t] \in LocType /\ n \in 0 .. (MaxPow + 2) /\ x.size \in Nat /\ MaxPow \in Nat
      /\ \A s \in 1 .. x.size : level(x.blocks[s]) \in Int
  <2>1. loc[t] \in LocType /\ n \in 0 .. (MaxPow + 2) /\ x.size \in Nat /\ MaxPow \in Nat
    BY <1>2, TypeFacts, SharedAssumption DEF IInv, LocType, ArrayType
  <2>2. \A s \in 1 .. x.size : level(x.blocks[s]) \in Int
    BY <1>2, CapacityOrder DEF HasBlocks
  <2>3. QED
    BY <2>1, <2>2
<1>4. CASE n > 0
  <2> DEFINE l == [loc[t] EXCEPT !.slot = n - 1]
  <2>1. Goto(t, "compact", l)
    BY <1>1, <1>4 DEF compact_skip
  <2>2. l \in LocType /\ SameAttempt(l, loc[t]) /\ l.obs = loc[t].obs /\ l.slot = n - 1
    BY <1>3, <1>4 DEF LocType, SameAttempt
  <2>3. level(x.blocks[n]) > level(x.blocks[n + 1])
    BY <1>1, <1>2, <1>3, <1>4 DEF Uneven, AtSlot
  <2>4. WeaklyUpTo(x, n)
    <3>1. ASSUME NEW s \in 1 .. x.size, NEW u \in 1 .. x.size, s < u, s >= n
          PROVE  level(x.blocks[s]) >= level(x.blocks[u]) + (u - s)
      <4>1. CASE s >= n + 1
        BY <1>2, <1>3, <3>1, <4>1 DEF WeaklyUpTo
      <4>2. CASE s = n /\ u = n + 1
        BY <1>3, <2>3, <4>2
      <4>3. CASE s = n /\ u > n + 1
        <5>1. n + 1 \in 1 .. x.size /\ n \in 1 .. x.size
          BY <1>2, <1>3, <1>4
        <5>2. level(x.blocks[n + 1]) >= level(x.blocks[u]) + (u - (n + 1))
          BY <1>2, <1>3, <4>3, <5>1 DEF WeaklyUpTo
        <5>3. QED
          BY <1>3, <2>3, <4>3, <5>1, <5>2
      <4>4. QED
        BY <1>3, <3>1, <4>1, <4>2, <4>3
    <3>2. ASSUME NEW s \in 1 .. x.size, NEW u \in 1 .. x.size, s < u, u <= n
          PROVE  level(x.blocks[s]) >= level(x.blocks[u]) + (u - s) - 1
      BY <1>2, <1>3, <3>2 DEF WeaklyUpTo
    <3>3. QED
      BY <3>1, <3>2 DEF WeaklyUpTo
  <2> HIDE DEF l
  <2>5. l.slot < x.size /\ l.slot + 1 = n
    BY <1>2, <1>3, <2>2
  <2>6. QED
    BY <1>1, <2>1, <2>2, <2>4, <2>5, SlotStep DEF Filled
<1>5. CASE ~ (n > 0)
  <2>1. Goto(t, "check_ptr", loc[t]) /\ n = 0
    BY <1>1, <1>3, <1>5 DEF compact_skip
  <2>2. Falling(x)
    BY <1>2, <1>3, <2>1 DEF WeaklyUpTo, Falling
  <2>3. SameAttempt(loc[t], loc[t])
    BY DEF SameAttempt
  <2>4. QED
    BY <1>1, <1>3, <2>1, <2>2, <2>3, SlotStep DEF Filled
<1>6. QED
  BY <1>4, <1>5

LEMMA CheckPtrStep ==
    ASSUME IInv, ~fault, NEW t \in Threads, check_ptr(t)
    PROVE  IInv'
PROOF
<1> DEFINE l == [loc[t] EXCEPT !.ptr = global.array]
<1>1. pc[t] = "check_ptr" /\ Goto(t, "check_ver", l) /\ OnlyLocals
  BY DEF check_ptr, LoadPtr
<1>2. l \in LocType /\ SameAttempt(l, loc[t]) /\ l.obs = loc[t].obs /\ l.ptr = global.array
  BY TypeFacts DEF IInv, LocType, SameAttempt
<1>3. Falling(arrays[New(t)])
  BY <1>1 DEF IInv, ThreadInv, BuildInv, ShapeInv, Filled
<1> HIDE DEF l
<1>4. QED
  BY <1>1, <1>2, <1>3, SlotStep

(* What is allocated is neither current nor in use by the thread. *)
LEMMA AllocateKeeps ==
    ASSUME IInv, NEW t \in Threads, NEW p, NEW S, NEW b, Puts(t, p, S, b)
    PROVE  /\ \A c : Mine(t, c) => Mine(t, c)' /\ content'[c] = content[c]
           /\ \A c \in BlocksOf(Current) : content'[c] = content[c]
           /\ Mine(t, b)'
PROOF
<1>1. /\ b \in Available(t, p) /\ b \in Blocks /\ b[1] = t /\ level(b) = p
      /\ pool'[b].status = "local"
      /\ \A c \in Blocks \ {b} : pool'[c] = pool[c] /\ content'[c] = content[c]
  BY DEF Puts
<1>2. ~ Mine(t, b)
  BY <1>1 DEF Mine, Available
<1>3. b \notin BlocksOf(Current)
  BY <1>1 DEF IInv, GlobalInv, Available
<1>4. BlocksOf(Current) \subseteq Blocks
  BY DEF IInv, GlobalInv, WellFormed, HasBlocks, BlocksOf
<1>5. ASSUME NEW c, Mine(t, c) PROVE Mine(t, c)' /\ content'[c] = content[c]
  <2>1. c \in Blocks /\ c # b
    BY <1>2, <1>5 DEF Mine
  <2>2. QED
    BY <1>1, <1>5, <2>1 DEF Mine
<1>6. Mine(t, b)'
  BY <1>1 DEF Mine
<1>7. QED
  BY <1>1, <1>3, <1>4, <1>5, <1>6

(* The sizes of sets of elements. *)
LEMMA ElementSets ==
    ASSUME Types, NEW S \in SUBSET Elements
    PROVE  IsFiniteSet(S) /\ Cardinality(S) \in Nat
PROOF
<1>1. IsFiniteSet(Elements)
  BY FS_Interval, SharedAssumption DEF Elements
<1>2. IsFiniteSet(S)
  BY <1>1, FS_Subset
<1>3. QED
  BY <1>2, FS_CardinalityType

LEMMA MergeSize ==
    ASSUME Types, NEW b \in Blocks, NEW c \in Blocks, level(b) = level(c),
           NEW S \in Remainders(content[b] \union content[c])
    PROVE  /\ S \subseteq inserted
           /\ S \ taken = (content[b] \union content[c]) \ taken
           /\ Cardinality(S) <= 2 ^ (level(b) + 1)
PROOF
<1> DEFINE A == content[b] \union content[c]
<1>1. S \subseteq A /\ S \ taken = A \ taken
  BY DEF Remainders
<1>2. /\ content[b] \in SUBSET inserted /\ content[c] \in SUBSET inserted
      /\ content[b] \in SUBSET Elements /\ content[c] \in SUBSET Elements
      /\ Cardinality(content[b]) <= capacity(b) /\ Cardinality(content[c]) <= capacity(c)
  BY DEF Types, TypeOK
<1>3. /\ IsFiniteSet(content[b]) /\ IsFiniteSet(content[c])
      /\ IsFiniteSet(content[b] \cap content[c]) /\ Cardinality(content[b] \cap content[c]) \in Nat
      /\ Cardinality(content[b]) \in Nat /\ Cardinality(content[c]) \in Nat
  BY <1>2, ElementSets, content[b] \cap content[c] \in SUBSET Elements
<1>4. /\ IsFiniteSet(A)
      /\ Cardinality(A) = Cardinality(content[b]) + Cardinality(content[c])
                              - Cardinality(content[b] \cap content[c])
  BY <1>3, FS_Union
<1>5. Cardinality(S) <= Cardinality(A) /\ Cardinality(A) \in Nat /\ Cardinality(S) \in Nat
  <2>1. S \in SUBSET A /\ S \in SUBSET Elements /\ A \in SUBSET Elements
    BY <1>1, <1>2
  <2>2. Cardinality(S) <= Cardinality(A)
    BY <1>4, <2>1, FS_Subset
  <2>3. QED
    BY <2>1, <2>2, ElementSets
<1>6. 2 ^ (level(b) + 1) = capacity(b) + capacity(b) /\ capacity(b) = capacity(c)
      /\ capacity(b) \in Nat
  <2>1. level(b) \in 0 .. MaxPow /\ capacity(b) = 2 ^ level(b) /\ capacity(c) = 2 ^ level(c)
    BY CapacityOrder DEF capacity, level
  <2>2. 2 ^ (level(b) + 1) = 2 * 2 ^ level(b) /\ 2 ^ level(b) \in Nat
    BY <2>1, PowerAssumption
  <2>3. QED
    BY <2>1, <2>2
<1>7. Cardinality(S) <= 2 ^ (level(b) + 1)
  BY <1>2, <1>3, <1>4, <1>5, <1>6
<1>8. QED
  BY <1>1, <1>2, <1>7

LEMMA RemoveFalling ==
    ASSUME NEW x \in ArrayType, HasBlocks(x), Falling(x), NEW n \in 1 .. x.size, NEW y,
           y.size = x.size - 1,
           \A s \in 1 .. y.size : y.blocks[s] = IF n <= s THEN x.blocks[s + 1] ELSE x.blocks[s]
    PROVE  Falling(y)
PROOF
<1>1. x.size \in Nat /\ \A s \in 1 .. x.size : level(x.blocks[s]) \in Int
  BY CapacityOrder DEF HasBlocks, ArrayType
<1>2. ASSUME NEW s \in 1 .. y.size, NEW u \in 1 .. y.size, s < u
      PROVE  level(y.blocks[s]) >= level(y.blocks[u]) + (u - s)
  <2>1. /\ s \in 1 .. x.size /\ u \in 1 .. x.size
        /\ s + 1 \in 1 .. x.size /\ u + 1 \in 1 .. x.size
    BY <1>1
  <2>2. CASE u < n
    BY <1>1, <1>2, <2>1, <2>2 DEF Falling
  <2>3. CASE s < n /\ n <= u
    <3>1. level(x.blocks[s]) >= level(x.blocks[u + 1]) + ((u + 1) - s)
      BY <1>2, <2>1, <2>3 DEF Falling
    <3>2. QED
      BY <1>1, <2>1, <2>3, <3>1
  <2>4. CASE n <= s
    <3>1. level(x.blocks[s + 1]) >= level(x.blocks[u + 1]) + ((u + 1) - (s + 1))
      BY <1>2, <2>1, <2>4 DEF Falling
    <3>2. n <= u
      BY <1>1, <1>2, <2>4
    <3>3. QED
      BY <1>1, <2>1, <2>4, <3>1, <3>2
  <2>5. QED
    BY <1>1, <1>2, <2>2, <2>3, <2>4
<1>3. QED
  BY <1>2 DEF Falling

(* Merging with a block of equal size: the result is one level up, and so  *)
(* still no larger than the blocks before it.                              *)
LEMMA AddMergeStep ==
    ASSUME IInv, ~fault, NEW t \in Threads, add_merge(t)
    PROVE  IInv'
PROOF
<1> DEFINE x == arrays[New(t)]
           n == loc[t].slot
           ib == loc[t].ib
           other == x.blocks[n]
           p == level(ib) + 1
           y == RemoveSlot(x, n)
<1>1. /\ pc[t] = "add" /\ SameSize(t) /\ SetNew(t, y)
      /\ Goto(t, "add", [loc[t] EXCEPT !.ib = get_block(t, p), !.slot = n - 1])
      /\ UNCHANGED <<global, local, cached, inserted, taken, stolen>>
  BY DEF add_merge
<1>2. PICK S \in Remainders(content[ib] \union content[other]) : Allocate(t, p, S)
  BY DEF add_merge
<1>3. InsertInv(t) /\ ShapeInv(t) /\ ContentInv(t) /\ Types
  BY DEF IInv, ThreadInv, BuildInv
<1>4. /\ HasBlocks(x) /\ Falling(x) /\ Mine(t, ib) /\ ib \in Blocks /\ n <= x.size
      /\ \A s \in 1 .. x.size : IF s <= n THEN level(x.blocks[s]) >= level(ib)
                                          ELSE level(x.blocks[s]) < level(ib)
  BY <1>1, <1>3 DEF InsertInv, ShapeInv, Filling, Mine
<1>5. /\ x \in ArrayType /\ loc[t] \in LocType /\ x.size \in Nat /\ MaxPow \in Nat
      /\ n \in 1 .. x.size /\ n \in 0 .. (MaxPow + 2)
  <2>1. x \in ArrayType /\ loc[t] \in LocType
    BY <1>3, TypeFacts
  <2>2. x.size \in Nat /\ n \in 0 .. (MaxPow + 2) /\ MaxPow \in Nat
    BY <2>1, SharedAssumption DEF ArrayType, LocType
  <2>3. n > 0
    BY <1>1 DEF SameSize
  <2> HIDE DEF x, n
  <2>4. QED
    BY <1>4, <2>1, <2>2, <2>3
<1>6. other \in Blocks /\ level(other) = level(ib) /\ level(ib) \in 0 .. MaxPow /\ p \in Int
  BY <1>1, <1>4, <1>5, CapacityOrder, SMTT(30) DEF SameSize, HasBlocks
<1>7. /\ S \subseteq inserted
      /\ S \ taken = (content[ib] \union content[other]) \ taken
      /\ p \in 0 .. MaxPow => Cardinality(S) <= 2 ^ p
  BY <1>3, <1>4, <1>6, MergeSize
<1>8. /\ y \in ArrayType /\ y.ver = x.ver /\ y.size = x.size - 1
      /\ \A s \in 1 .. y.size : y.blocks[s] = IF n <= s THEN x.blocks[s + 1] ELSE x.blocks[s]
      /\ BlocksOf(x) = BlocksOf(y) \union {other}
  BY <1>5, RemoveSlotFacts
<1>9. PICK g : g = get_block(t, p)
  OBVIOUS
<1> DEFINE l == [loc[t] EXCEPT !.ib = g, !.slot = n - 1]
<1>10. /\ g \in Blocks \union {NoBlock}
       /\ fault' # TRUE => Puts(t, p, S, g)
  <2>1. PICK q \in Int : q = p
    BY <1>6
  <2>2. Allocate(t, q, S) /\ g = get_block(t, q) /\ S \in SUBSET inserted
    BY <1>2, <1>7, <1>9, <2>1 DEF Allocate
  <2>3. CASE fault' # TRUE
    <3>1. fault' = FALSE /\ Puts(t, q, S, g)
      BY <1>3, <2>2, <2>3, AllocateFacts
    <3>2. QED
      BY <2>1, <3>1 DEF Puts
  <2>4. CASE fault' = TRUE
    BY <1>3, <2>2, <2>4, GetBlock DEF get_block
  <2>5. QED
    BY <2>3, <2>4
<1>11. /\ l \in LocType /\ SameAttempt(l, loc[t]) /\ l.obs = loc[t].obs
       /\ l.ib = g /\ l.slot = n - 1 /\ l.b = loc[t].b /\ l.seen = loc[t].seen
  <2>1. n - 1 \in 0 .. (MaxPow + 2)
    BY <1>5
  <2>2. QED
    BY <1>5, <1>10, <2>1 DEF LocType, SameAttempt
<1>12. Goto(t, "add", l)
  BY <1>1, <1>9
<1> HIDE DEF y, l
<1>13. Fills(t, "add", l, y)
  BY <1>1, <1>2, <1>6, <1>7, <1>12 DEF Fills
<1>14. /\ pc'[t] = "add" /\ loc'[t] = l /\ New(t)' = New(t) /\ arrays'[New(t)] = y
       /\ Current' = Current /\ global' = global /\ taken' = taken
       /\ Contents(Current)' = Contents(Current)
  BY <1>1, <1>8, <1>11, <1>13, FillFacts DEF IInv, Filling
<1>15. SUFFICES ASSUME Puts(t, p, S, g) PROVE BuildInv(t)'
  BY <1>1, <1>8, <1>10, <1>11, <1>13, FillStep DEF Filling
<1>16. /\ g \in Blocks /\ level(g) = level(ib) + 1 /\ content'[g] = S
       /\ \A c : Mine(t, c) => Mine(t, c)' /\ content'[c] = content[c]
       /\ \A c \in BlocksOf(Current) : content'[c] = content[c]
       /\ Mine(t, g)'
  BY <1>15, AllocateKeeps DEF Puts
<1>17. InsertInv(t)'
  BY <1>1, <1>3, <1>11, <1>14, <1>16 DEF InsertInv, SameAttempt
<1>18. ShapeInv(t)'
  <2>1. \A s \in 1 .. x.size : x.blocks[s] \in Blocks /\ level(x.blocks[s]) \in 0 .. MaxPow
    BY <1>4, CapacityOrder DEF HasBlocks
  <2>2. HasBlocks(y)
    BY <1>5, <1>8, <2>1, SMTT(30) DEF HasBlocks
  <2>3. Falling(y)
    BY <1>4, <1>5, <1>8, RemoveFalling
  <2>4. \A s \in 1 .. y.size : IF s <= n - 1 THEN level(y.blocks[s]) >= level(g)
                                             ELSE level(y.blocks[s]) < level(g)
    <3> TAKE s \in 1 .. y.size
    <3>1. CASE s <= n - 1
      <4>1. s \in 1 .. x.size /\ s < n /\ y.blocks[s] = x.blocks[s]
        BY <1>5, <1>8, <3>1, SMTT(30)
      <4>2. level(x.blocks[s]) >= level(x.blocks[n]) + (n - s)
        BY <1>4, <1>5, <4>1 DEF Falling
      <4>3. QED
        BY <1>5, <1>6, <1>16, <2>1, <3>1, <4>1, <4>2, SMTT(30)
    <3>2. CASE s > n - 1
      <4>1. s + 1 \in 1 .. x.size /\ s + 1 > n /\ y.blocks[s] = x.blocks[s + 1]
        BY <1>5, <1>8, <3>2
      <4>2. QED
        BY <1>4, <1>5, <1>6, <1>16, <2>1, <3>2, <4>1, SMTT(30)
    <3>3. QED
      BY <1>5, <1>8, <3>1, <3>2, SMTT(30)
  <2>5. n - 1 <= y.size
    BY <1>5, <1>8
  <2>6. (HasBlocks(x) /\ Falling(x))'
    BY <1>14, <2>2, <2>3 DEF HasBlocks, Falling
  <2>7. QED
    BY <1>11, <1>14, <2>4, <2>5, <2>6 DEF ShapeInv, Filled
<1>19. ContentInv(t)'
  <2> SUFFICES ASSUME loc[t].seen = Current.ver
               PROVE  ContentInv(t)'
    BY <1>11, <1>14 DEF ContentInv
  <2>1. /\ \A b \in BlocksOf(x) : b \in BlocksOf(Current) \/ Mine(t, b)
        /\ (Contents(x) \union content[ib]) \ taken = Together(t) \ taken
    BY <1>1, <1>3 DEF ContentInv, Filling
  <2>2. BlocksOf(x)' = BlocksOf(y) /\ BlocksOf(Current)' = BlocksOf(Current)
    BY <1>14 DEF BlocksOf
  <2>3. \A b \in BlocksOf(y) : content'[b] = content[b]
    BY <1>8, <1>16, <2>1
  <2>4. Contents(x)' = Contents(y) /\ Contents(x) = Contents(y) \union content[other]
    <3>1. Contents(x)' = UNION {content'[b] : b \in BlocksOf(y)}
      BY <2>2 DEF Contents
    <3>2. Contents(x)' = Contents(y)
      BY <2>3, <3>1 DEF Contents
    <3>3. BlocksOf(x) = BlocksOf(y) \union {other}
      BY <1>8
    <3> HIDE DEF x, y, other
    <3>4. QED
      BY <3>2, <3>3 DEF Contents
  <2>5. Together(t)' = Together(t)
    <3>1. Mine(t, loc[t].b)
      BY <1>1, <1>3 DEF InsertInv, Types, InCall, Building, Filling
    <3>2. QED
      BY <1>11, <1>14, <1>16, <3>1 DEF Together
  <2>6. (Contents(y) \union S) \ taken = Together(t) \ taken
    BY <1>7, <2>1, <2>4
  <2>7. \A b \in BlocksOf(y) : b \in BlocksOf(Current) \/ Mine(t, b)'
    BY <1>8, <1>16, <2>1
  <2>8. QED
    BY <1>11, <1>14, <1>16, <2>2, <2>4, <2>5, <2>6, <2>7 DEF ContentInv, Filled
<1>20. QED
  BY <1>17, <1>18, <1>19 DEF BuildInv

(* Setting a slot of an array. *)
LEMMA SetSlotFacts ==
    ASSUME NEW x \in ArrayType, NEW n \in 1 .. x.size, NEW g \in Blocks \union {NoBlock}
    PROVE  LET y == [x EXCEPT !.blocks[n] = g]
           IN  /\ y \in ArrayType /\ y.ver = x.ver /\ y.size = x.size
               /\ \A s \in 1 .. y.size : y.blocks[s] = IF s = n THEN g ELSE x.blocks[s]
               /\ BlocksOf(y) \subseteq BlocksOf(x) \union {g} /\ g \in BlocksOf(y)
               /\ BlocksOf(x) \subseteq BlocksOf(y) \union {x.blocks[n]}
PROOF
<1> DEFINE y == [x EXCEPT !.blocks[n] = g]
<1>1. /\ x.size \in 0 .. (MaxPow + 2) /\ MaxPow \in Nat
      /\ x.blocks \in [Slots -> Blocks \union {NoBlock}]
  BY SharedAssumption DEF ArrayType
<1>2. 1 .. x.size \subseteq Slots
  BY <1>1 DEF Slots
<1>3. y \in ArrayType /\ y.ver = x.ver /\ y.size = x.size
      /\ y.blocks = [x.blocks EXCEPT ![n] = g]
  BY <1>1, <1>2 DEF ArrayType
<1> HIDE DEF y
<1>4. \A s \in 1 .. y.size : y.blocks[s] = IF s = n THEN g ELSE x.blocks[s]
  BY <1>1, <1>2, <1>3
<1>5. BlocksOf(y) \subseteq BlocksOf(x) \union {g}
  BY <1>3, <1>4 DEF BlocksOf
<1>6. g \in BlocksOf(y)
  BY <1>3, <1>4 DEF BlocksOf
<1>7. BlocksOf(x) \subseteq BlocksOf(y) \union {x.blocks[n]}
  BY <1>3, <1>4 DEF BlocksOf
<1>8. QED
  BY <1>3, <1>4, <1>5, <1>6, <1>7 DEF y

(* Replacing some blocks of an array by one that holds what is not taken   *)
(* of theirs.                                                              *)
LEMMA ReplaceContents ==
    ASSUME NEW x, NEW y, NEW D, NEW S, NEW g,
           \A c \in BlocksOf(x) : content'[c] = content[c],
           content'[g] = S,
           BlocksOf(y) \subseteq BlocksOf(x) \union {g}, g \in BlocksOf(y),
           BlocksOf(x) \subseteq BlocksOf(y) \union D, D \subseteq BlocksOf(x),
           S \ taken = (UNION {content[c] : c \in D}) \ taken
    PROVE  Contents(y)' \ taken = Contents(x) \ taken
PROOF
<1>1. BlocksOf(y)' = BlocksOf(y)
  BY DEF BlocksOf
<1>2. ASSUME NEW e \in Contents(y)' \ taken PROVE e \in Contents(x)
  <2>1. PICK c \in BlocksOf(y) : e \in content'[c]
    BY <1>1 DEF Contents
  <2>2. CASE c = g
    <3>1. PICK d \in D : e \in content[d]
      BY <2>1, <2>2
    <3>2. QED
      BY <3>1 DEF Contents
  <2>3. CASE c # g
    BY <2>1, <2>3 DEF Contents
  <2>4. QED
    BY <2>2, <2>3
<1>3. ASSUME NEW e \in Contents(x) \ taken PROVE e \in Contents(y)'
  <2>1. PICK c \in BlocksOf(x) : e \in content[c]
    BY DEF Contents
  <2>2. CASE c \in BlocksOf(y)
    BY <1>1, <2>1, <2>2 DEF Contents
  <2>3. CASE c \in D
    <3>1. e \in content'[g]
      BY <2>1, <2>3
    <3>2. QED
      BY <1>1, <3>1 DEF Contents
  <2>4. QED
    BY <2>2, <2>3
<1>4. QED
  BY <1>2, <1>3

(* What get_block and Allocate do together. *)
LEMMA AllocateCases ==
    ASSUME Types, ~fault, NEW t \in Threads, NEW p \in Int, NEW S,
           Allocate(t, p, S), NEW g, g = get_block(t, p)
    PROVE  /\ g \in Blocks \union {NoBlock}
           /\ fault' # TRUE => Puts(t, p, S, g)
PROOF
<1>1. CASE fault' # TRUE
  <2>1. fault' = FALSE /\ Puts(t, p, S, g)
    BY <1>1, AllocateFacts
  <2>2. QED
    BY <2>1 DEF Puts
<1>2. CASE fault' = TRUE
  BY <1>2, GetBlock DEF get_block
<1>3. QED
  BY <1>1, <1>2

(* A block that is less than half full fits into one of the level below.   *)
LEMMA ShrinkSize ==
    ASSUME Types, NEW b \in Blocks, Cardinality(content[b] \ taken) < capacity(b) \div 2
    PROVE  /\ level(b) - 1 \in 0 .. MaxPow
           /\ Cardinality(content[b] \ taken) <= 2 ^ (level(b) - 1)
           /\ content[b] \ taken \in SUBSET inserted
PROOF
<1>1. content[b] \in SUBSET inserted /\ content[b] \in SUBSET Elements
  BY DEF Types, TypeOK
<1>2. Cardinality(content[b] \ taken) \in Nat
  BY <1>1, ElementSets, content[b] \ taken \in SUBSET Elements
<1>3. level(b) \in 0 .. MaxPow /\ capacity(b) = 2 ^ level(b) /\ capacity(b) \in Nat
  BY CapacityOrder DEF capacity, level
<1>4. level(b) # 0
  <2> SUFFICES ASSUME level(b) = 0 PROVE FALSE
    OBVIOUS
  <2>1. capacity(b) = 1
    BY <1>3, PowerAssumption
  <2>2. QED
    BY <1>2, <2>1
<1>5. PICK q \in 0 .. MaxPow : level(b) = q + 1
  <2>1. level(b) - 1 \in 0 .. MaxPow /\ level(b) = (level(b) - 1) + 1
    BY <1>3, <1>4, SharedAssumption
  <2>2. QED
    BY <2>1
<1>6. capacity(b) = 2 * 2 ^ q /\ 2 ^ q \in Nat
  BY <1>3, <1>5, PowerAssumption
<1>7. Cardinality(content[b] \ taken) <= 2 ^ q
  BY <1>2, <1>6
<1>8. q = level(b) - 1
  BY <1>5
<1>9. QED
  BY <1>1, <1>5, <1>7, <1>8

(* It may then be as small as the next block.                              *)
LEMMA WeaklyLower ==
    ASSUME NEW x \in ArrayType, HasBlocks(x), NEW n \in 1 .. x.size, Weakly(x, n),
           NEW y, y.size = x.size, NEW g \in Blocks, level(g) = level(x.blocks[n]) - 1,
           \A s \in 1 .. y.size : y.blocks[s] = IF s = n THEN g ELSE x.blocks[s]
    PROVE  /\ Weakly(y, n + 1)
           /\ n = y.size => WeaklyUpTo(y, n)
PROOF
<1>1. x.size \in Nat /\ \A s \in 1 .. x.size : level(x.blocks[s]) \in Int
  BY CapacityOrder DEF HasBlocks, ArrayType
<1>2. ASSUME NEW s \in 1 .. y.size, NEW u \in 1 .. y.size, s < u
      PROVE  /\ level(y.blocks[s]) >= level(y.blocks[u]) + (u - s) - 1
             /\ s >= n + 1 => level(y.blocks[s]) >= level(y.blocks[u]) + (u - s)
  <2>1. /\ level(x.blocks[s]) >= level(x.blocks[u]) + (u - s) - 1
        /\ s >= n => level(x.blocks[s]) >= level(x.blocks[u]) + (u - s)
    BY <1>2 DEF Weakly
  <2>2. level(x.blocks[s]) \in Int /\ level(x.blocks[u]) \in Int /\ level(x.blocks[n]) \in Int
    BY <1>1
  <2>3. CASE s = n
    BY <1>2, <2>1, <2>2, <2>3
  <2>4. CASE u = n
    BY <1>2, <2>1, <2>2, <2>4
  <2>5. CASE s # n /\ u # n
    BY <1>2, <2>1, <2>2, <2>5
  <2>6. QED
    BY <2>3, <2>4, <2>5
<1>3. Weakly(y, n + 1)
  BY <1>2 DEF Weakly
<1>4. n = y.size => WeaklyUpTo(y, n)
  BY <1>1, <1>2 DEF WeaklyUpTo
<1>5. QED
  BY <1>3, <1>4

(* A block that is less than half full is copied one level down.           *)
LEMMA ShrinkStep ==
    ASSUME IInv, ~fault, NEW t \in Threads, shrink(t)
    PROVE  IInv'
PROOF
<1> DEFINE x == arrays[New(t)]
           n == loc[t].slot
           b == AtSlot(t)
           S == content[b] \ taken
<1>1. pc[t] = "shrink" /\ NextShrink(t)
      /\ UNCHANGED <<global, local, cached, inserted, taken, stolen>>
  BY DEF shrink
<1>2. InsertInv(t) /\ ShapeInv(t) /\ ContentInv(t) /\ Types
  BY DEF IInv, ThreadInv, BuildInv
<1>3. n \in 1 .. x.size /\ Weakly(x, n) /\ HasBlocks(x) /\ x \in ArrayType /\ b = x.blocks[n]
  BY <1>1, <1>2, TypeFacts DEF ShapeInv, Filling, AtSlot
<1>4. b \in Blocks /\ Cardinality(S) < capacity(b) \div 2
  BY <1>3 DEF HasBlocks, shrink
<1>5. level(b) - 1 \in 0 .. MaxPow /\ Cardinality(S) <= 2 ^ (level(b) - 1) /\ S \in SUBSET inserted
  BY <1>2, <1>4, ShrinkSize
<1>6. PICK q \in Int : q = level(b) - 1
  BY <1>5
<1>7. PICK R \in SUBSET inserted : R = S
  BY <1>5
<1>8. PICK g : g = get_block(t, q)
  OBVIOUS
<1>9. Allocate(t, q, R) /\ (q \in 0 .. MaxPow => Cardinality(R) <= 2 ^ q)
  BY <1>5, <1>6, <1>7 DEF shrink, Allocate
<1>10. PICK z : z = x
  OBVIOUS
<1>11. g \in Blocks \union {NoBlock} /\ (fault' # TRUE => Puts(t, q, R, g))
  BY <1>2, <1>8, <1>9, AllocateCases
<1>12. PICK y \in ArrayType :
           /\ SetNew(t, y) /\ y.ver = x.ver /\ y.size = x.size
           /\ \A s \in 1 .. y.size : y.blocks[s] = IF s = n THEN g ELSE x.blocks[s]
           /\ BlocksOf(y) \subseteq BlocksOf(x) \union {g} /\ g \in BlocksOf(y)
           /\ BlocksOf(x) \subseteq BlocksOf(y) \union {b}
  <2> DEFINE y == [x EXCEPT !.blocks[n] = g]
  <2>1. SetNew(t, y)
    BY <1>6, <1>8 DEF shrink, SetNew
  <2>2. /\ y \in ArrayType /\ y.ver = x.ver /\ y.size = x.size
        /\ \A s \in 1 .. y.size : y.blocks[s] = IF s = n THEN g ELSE x.blocks[s]
        /\ BlocksOf(y) \subseteq BlocksOf(x) \union {g} /\ g \in BlocksOf(y)
        /\ BlocksOf(x) \subseteq BlocksOf(y) \union {x.blocks[n]}
    <3> HIDE DEF x, n
    <3>1. QED
      BY <1>3, <1>11, SetSlotFacts
  <2> HIDE DEF y
  <2>3. QED
    BY <1>3, <2>1, <2>2
<1>13. PICK p \in {"shrink", "compact"}, l \in LocType :
           /\ Goto(t, p, l) /\ SameAttempt(l, loc[t]) /\ l.obs = loc[t].obs
           /\ p = "shrink" => l.slot = n + 1 /\ l.slot \in 1 .. x.size
           /\ p = "compact" => n = x.size /\ l.slot = n - 1
  BY <1>1, <1>3, NextShrinkFacts
<1>14. Fills(t, p, l, y)
  BY <1>1, <1>9, <1>12, <1>13 DEF Fills
<1>15. /\ pc'[t] = p /\ loc'[t] = l /\ New(t)' = New(t) /\ arrays'[New(t)] = y
       /\ Current' = Current /\ global' = global /\ taken' = taken
       /\ Contents(Current)' = Contents(Current)
  BY <1>1, <1>12, <1>13, <1>14, FillFacts DEF IInv, Filling
<1>16. SUFFICES ASSUME Puts(t, q, R, g) PROVE BuildInv(t)'
  BY <1>1, <1>11, <1>12, <1>13, <1>14, FillStep DEF Filling
<1>17. /\ g \in Blocks /\ level(g) = level(b) - 1 /\ content'[g] = R
       /\ \A c : Mine(t, c) => Mine(t, c)' /\ content'[c] = content[c]
       /\ \A c \in BlocksOf(Current) : content'[c] = content[c]
       /\ Mine(t, g)'
  BY <1>6, <1>16, AllocateKeeps DEF Puts
<1>18. InsertInv(t)'
  BY <1>1, <1>2, <1>13, <1>15, <1>17 DEF InsertInv, SameAttempt
<1>19. ShapeInv(t)'
  <2>1. HasBlocks(y)
    BY <1>3, <1>12, <1>17 DEF HasBlocks
  <2>2. Weakly(y, n + 1) /\ (n = y.size => WeaklyUpTo(y, n))
    BY <1>3, <1>12, <1>17, WeaklyLower
  <2>3. x.size \in Nat /\ n \in Nat
    BY <1>3 DEF ArrayType
  <2>4. p = "shrink" => l.slot \in 1 .. y.size /\ Weakly(y, l.slot)
    BY <1>12, <1>13, <2>2
  <2>5. p = "compact" => l.slot < y.size /\ WeaklyUpTo(y, l.slot + 1)
    <3>1. p = "compact" => l.slot + 1 = n /\ l.slot < y.size
      BY <1>12, <1>13, <2>3
    <3>2. QED
      BY <1>12, <1>13, <2>2, <3>1
  <2>6. HasBlocks(x)'
    BY <1>15, <2>1 DEF HasBlocks
  <2>7. p = "shrink" => l.slot \in 1 .. y.size /\ Weakly(x, loc[t].slot)'
    BY <1>15, <2>4 DEF Weakly
  <2>8. p = "compact" => l.slot < y.size /\ WeaklyUpTo(x, loc[t].slot + 1)'
    BY <1>15, <2>5 DEF WeaklyUpTo
  <2>9. QED
    BY <1>13, <1>15, <2>6, <2>7, <2>8 DEF ShapeInv, Filled
<1>20. ContentInv(t)'
  <2> SUFFICES ASSUME loc[t].seen = Current.ver
               PROVE  ContentInv(t)'
    BY <1>13, <1>15 DEF ContentInv, SameAttempt
  <2>1. /\ \A c \in BlocksOf(x) : c \in BlocksOf(Current) \/ Mine(t, c)
        /\ Contents(x) \ taken = Together(t) \ taken
    BY <1>1, <1>2 DEF ContentInv, Filling
  <2>2. BlocksOf(x)' = BlocksOf(y) /\ BlocksOf(Current)' = BlocksOf(Current)
    BY <1>15 DEF BlocksOf
  <2>3. \A c \in BlocksOf(x) : content'[c] = content[c]
    BY <1>17, <2>1
  <2>4. Contents(y)' \ taken = Contents(x) \ taken
    <3>1. PICK D : D = {b}
      OBVIOUS
    <3>2. R \ taken = (UNION {content[c] : c \in D}) \ taken
      BY <1>7, <3>1
    <3>3. /\ BlocksOf(y) \subseteq BlocksOf(z) \union {g} /\ g \in BlocksOf(y)
          /\ BlocksOf(z) \subseteq BlocksOf(y) \union D /\ D \subseteq BlocksOf(z)
          /\ \A c \in BlocksOf(z) : content'[c] = content[c]
      <4>1. b \in BlocksOf(x)
        BY <1>3 DEF BlocksOf
      <4>2. QED
        BY <1>10, <1>12, <2>3, <3>1, <4>1
    <3>4. Contents(y)' \ taken = Contents(z) \ taken
      BY <1>17, <3>2, <3>3, ReplaceContents
    <3>5. QED
      BY <1>10, <3>4
  <2>5. Contents(x)' = Contents(y)'
    BY <1>15 DEF Contents, BlocksOf
  <2>6. Together(t)' = Together(t)
    <3>1. Mine(t, loc[t].b)
      BY <1>1, <1>2 DEF InsertInv, Types, InCall, Building, Filling
    <3>2. QED
      BY <1>13, <1>15, <1>17, <3>1 DEF Together, SameAttempt
  <2>7. \A c \in BlocksOf(y) : c \in BlocksOf(Current) \/ Mine(t, c)'
    BY <1>12, <1>17, <2>1
  <2>8. QED
    BY <1>13, <1>15, <2>1, <2>2, <2>4, <2>5, <2>6, <2>7 DEF ContentInv, Filling, Filled
<1>21. QED
  BY <1>18, <1>19, <1>20 DEF BuildInv

(* Two neighbours of equal size become one block, one level up.            *)
LEMMA WeaklyMerge ==
    ASSUME NEW x \in ArrayType, HasBlocks(x), NEW n \in 1 .. x.size, n < x.size,
           WeaklyUpTo(x, n + 1),
           NEW y, y.size = x.size - 1, NEW g \in Blocks, level(g) = level(x.blocks[n + 1]) + 1,
           \A s \in 1 .. y.size : y.blocks[s] = IF s = n THEN g
                                                ELSE IF n + 1 <= s THEN x.blocks[s + 1]
                                                ELSE x.blocks[s]
    PROVE  WeaklyUpTo(y, n)
PROOF
<1>1. /\ x.size \in Nat /\ \A s \in 1 .. x.size : level(x.blocks[s]) \in Int
      /\ n + 1 \in 1 .. x.size
  BY CapacityOrder DEF HasBlocks, ArrayType
<1>2. ASSUME NEW s \in 1 .. y.size, NEW u \in 1 .. y.size, s < u, u <= n
      PROVE  level(y.blocks[s]) >= level(y.blocks[u]) + (u - s) - 1
  <2>1. s \in 1 .. x.size /\ u \in 1 .. x.size /\ y.blocks[s] = x.blocks[s]
    BY <1>1, <1>2
  <2>2. CASE u < n
    <3>1. level(x.blocks[s]) >= level(x.blocks[u]) + (u - s) - 1
      BY <1>2, <2>1, <2>2 DEF WeaklyUpTo
    <3>2. QED
      BY <2>1, <2>2, <3>1
  <2>3. CASE u = n
    <3>1. level(x.blocks[s]) >= level(x.blocks[n + 1]) + ((n + 1) - s) - 1
      BY <1>1, <1>2, <2>1, <2>3 DEF WeaklyUpTo
    <3>2. level(x.blocks[s]) \in Int /\ level(x.blocks[n + 1]) \in Int
      BY <1>1, <2>1
    <3>3. QED
      BY <2>1, <2>3, <3>1, <3>2
  <2>4. QED
    BY <1>2, <2>2, <2>3
<1>3. ASSUME NEW s \in 1 .. y.size, NEW u \in 1 .. y.size, s < u, s >= n
      PROVE  level(y.blocks[s]) >= level(y.blocks[u]) + (u - s)
  <2>1. s + 1 \in 1 .. x.size /\ u + 1 \in 1 .. x.size /\ y.blocks[u] = x.blocks[u + 1]
    BY <1>1, <1>3
  <2>2. level(x.blocks[s + 1]) >= level(x.blocks[u + 1]) + ((u + 1) - (s + 1))
    BY <1>1, <1>3, <2>1 DEF WeaklyUpTo
  <2>3. level(x.blocks[s + 1]) \in Int /\ level(x.blocks[u + 1]) \in Int
    BY <1>1, <2>1
  <2>4. level(y.blocks[s]) >= level(x.blocks[s + 1])
    BY <1>3, <2>3
  <2>5. level(y.blocks[s]) \in Int
    BY <1>1, <1>3, <2>1, CapacityOrder
  <2>6. QED
    BY <2>1, <2>2, <2>3, <2>4, <2>5
<1>4. QED
  BY <1>2, <1>3 DEF WeaklyUpTo

LEMMA CompactStep ==
    ASSUME IInv, ~fault, NEW t \in Threads, compact(t)
    PROVE  IInv'
PROOF
<1> DEFINE x == arrays[New(t)]
           n == loc[t].slot
           at == AtSlot(t)
           small == x.blocks[n + 1]
           r == RemoveSlot(x, n + 1)
           l == [loc[t] EXCEPT !.slot = n - 1]
<1>1. pc[t] = "compact" /\ Uneven(t) /\ Goto(t, "compact", l)
      /\ UNCHANGED <<global, local, cached, inserted, taken, stolen>>
  BY DEF compact
<1>2. InsertInv(t) /\ ShapeInv(t) /\ ContentInv(t) /\ Types
  BY DEF IInv, ThreadInv, BuildInv
<1>3. n < x.size /\ WeaklyUpTo(x, n + 1) /\ HasBlocks(x) /\ x \in ArrayType /\ at = x.blocks[n]
      /\ n > 0 /\ level(at) <= level(small)
  BY <1>1, <1>2, TypeFacts DEF ShapeInv, Filling, AtSlot, Uneven
<1>4. /\ loc[t] \in LocType /\ n \in 0 .. (MaxPow + 2) /\ x.size \in Nat /\ MaxPow \in Nat
      /\ n \in 1 .. x.size /\ n + 1 \in 1 .. x.size /\ x.size <= MaxPow + 2
  BY <1>2, <1>3, TypeFacts, SharedAssumption DEF LocType, ArrayType
<1>5. at \in Blocks /\ small \in Blocks
  BY <1>3, <1>4 DEF HasBlocks
<1>6. level(at) = level(small) /\ level(small) \in 0 .. MaxPow
  <2>1. level(x.blocks[n]) >= level(x.blocks[n + 1]) + ((n + 1) - n) - 1
    BY <1>3, <1>4 DEF WeaklyUpTo
  <2>2. QED
    BY <1>3, <1>4, <1>5, <2>1, CapacityOrder
<1>7. PICK q \in Int : q = level(small) + 1
  BY <1>6
<1>8. PICK S \in Remainders(content[at] \union content[small]) : Allocate(t, q, S)
  BY <1>7 DEF compact, Allocate
<1>9. PICK g : g = get_block(t, q)
  OBVIOUS
<1>10. /\ S \in SUBSET inserted
       /\ S \ taken = (content[at] \union content[small]) \ taken
       /\ q \in 0 .. MaxPow => Cardinality(S) <= 2 ^ q
  BY <1>2, <1>5, <1>6, <1>7, MergeSize
<1>11. g \in Blocks \union {NoBlock} /\ (fault' # TRUE => Puts(t, q, S, g))
  BY <1>2, <1>8, <1>9, <1>10, AllocateCases
<1>12. PICK y \in ArrayType :
           /\ SetNew(t, y) /\ y.ver = x.ver /\ y.size = x.size - 1
           /\ \A s \in 1 .. y.size : y.blocks[s] = IF s = n THEN g
                                                   ELSE IF n + 1 <= s THEN x.blocks[s + 1]
                                                   ELSE x.blocks[s]
           /\ BlocksOf(y) \subseteq BlocksOf(x) \union {g} /\ g \in BlocksOf(y)
           /\ BlocksOf(x) \subseteq BlocksOf(y) \union {at, small}
  <2> DEFINE y == [r EXCEPT !.blocks[n] = g]
  <2>1. SetNew(t, y)
    BY <1>7, <1>9 DEF compact, SetNew
  <2>2. /\ r \in ArrayType /\ r.ver = x.ver /\ r.size = x.size - 1
        /\ \A s \in 1 .. r.size : r.blocks[s] = IF n + 1 <= s THEN x.blocks[s + 1] ELSE x.blocks[s]
        /\ BlocksOf(x) = BlocksOf(r) \union {small}
    BY <1>3, <1>4, RemoveSlotFacts
  <2> HIDE DEF r
  <2>3. n \in 1 .. r.size /\ r.blocks[n] = at
    <3>1. r.size = x.size - 1 /\ n < x.size /\ n \in 1 .. x.size /\ x.size \in Nat
      BY <1>3, <1>4, <2>2
    <3>2. r.blocks[n] = IF n + 1 <= n THEN x.blocks[n + 1] ELSE x.blocks[n]
      <4> HIDE DEF x, n
      <4>1. n \in 1 .. r.size
        BY <3>1
      <4>2. QED
        BY <2>2, <4>1
    <3> HIDE DEF n
    <3>3. QED
      BY <1>3, <3>1, <3>2
  <2>4. /\ y \in ArrayType /\ y.ver = r.ver /\ y.size = r.size
        /\ \A s \in 1 .. y.size : y.blocks[s] = IF s = n THEN g ELSE r.blocks[s]
        /\ BlocksOf(y) \subseteq BlocksOf(r) \union {g} /\ g \in BlocksOf(y)
        /\ BlocksOf(r) \subseteq BlocksOf(y) \union {r.blocks[n]}
    <3> HIDE DEF x, n
    <3>1. QED
      BY <1>11, <2>2, <2>3, SetSlotFacts
  <2> HIDE DEF y
  <2>5. QED
    <3> HIDE DEF x, n, at, small
    <3>1. y.ver = x.ver /\ y.size = x.size - 1
      BY <2>2, <2>4
    <3>2. ASSUME NEW s \in 1 .. y.size
          PROVE  y.blocks[s] = IF s = n THEN g ELSE IF n + 1 <= s THEN x.blocks[s + 1]
                               ELSE x.blocks[s]
      <4>1. s \in 1 .. r.size /\ y.blocks[s] = IF s = n THEN g ELSE r.blocks[s]
        BY <2>4
      <4>2. r.blocks[s] = IF n + 1 <= s THEN x.blocks[s + 1] ELSE x.blocks[s]
        BY <2>2, <4>1
      <4>3. QED
        BY <4>1, <4>2, Zenon
    <3>3. BlocksOf(y) \subseteq BlocksOf(x) \union {g}
      BY <2>2, <2>4
    <3>4. BlocksOf(x) \subseteq BlocksOf(y) \union {at, small}
      BY <2>2, <2>3, <2>4
    <3>5. QED
      BY <2>1, <2>4, <3>1, <3>2, <3>3, <3>4, Zenon
<1>13. /\ l \in LocType /\ SameAttempt(l, loc[t]) /\ l.obs = loc[t].obs
       /\ l.slot = n - 1 /\ l.b = loc[t].b /\ l.seen = loc[t].seen
  BY <1>4 DEF LocType, SameAttempt
<1> HIDE DEF l
<1>14. Fills(t, "compact", l, y)
  BY <1>1, <1>8, <1>10, <1>12 DEF Fills
<1>15. /\ pc'[t] = "compact" /\ loc'[t] = l /\ New(t)' = New(t) /\ arrays'[New(t)] = y
       /\ Current' = Current /\ global' = global /\ taken' = taken
       /\ Contents(Current)' = Contents(Current)
  BY <1>1, <1>12, <1>13, <1>14, FillFacts, SMTT(30) DEF IInv, Filling
<1>16. SUFFICES ASSUME Puts(t, q, S, g) PROVE BuildInv(t)'
  BY <1>1, <1>11, <1>12, <1>13, <1>14, FillStep DEF Filling
<1>17. /\ g \in Blocks /\ level(g) = level(small) + 1 /\ content'[g] = S
       /\ \A c : Mine(t, c) => Mine(t, c)' /\ content'[c] = content[c]
       /\ \A c \in BlocksOf(Current) : content'[c] = content[c]
       /\ Mine(t, g)'
  BY <1>7, <1>16, AllocateKeeps DEF Puts
<1>18. InsertInv(t)'
  BY <1>1, <1>2, <1>13, <1>15, <1>17 DEF InsertInv, SameAttempt
<1>19. ShapeInv(t)'
  <2>1. HasBlocks(y)
    <3>1. ASSUME NEW s \in 1 .. y.size PROVE y.blocks[s] \in Blocks
      <4>1. s \in 1 .. x.size /\ s + 1 \in 1 .. x.size
        BY <1>4, <1>12, SMTT(30)
      <4>2. x.blocks[s] \in Blocks /\ x.blocks[s + 1] \in Blocks
        BY <1>3, <4>1 DEF HasBlocks
      <4>3. QED
        BY <1>12, <1>17, <4>2
    <3>2. QED
      BY <3>1 DEF HasBlocks
  <2>2. WeaklyUpTo(y, n)
    BY <1>3, <1>4, <1>12, <1>17, WeaklyMerge
  <2>3. l.slot < y.size /\ l.slot + 1 = n
    <3> HIDE DEF x, n
    <3>1. /\ n \in 1 .. x.size /\ x.size \in Nat /\ n < x.size
          /\ y.size = x.size - 1 /\ l.slot = n - 1
      BY <1>3, <1>4, <1>12, <1>13
    <3>2. QED
      BY <3>1
  <2>4. HasBlocks(x)'
    BY <1>15, <2>1 DEF HasBlocks
  <2>5. WeaklyUpTo(x, loc[t].slot + 1)'
    BY <1>15, <2>2, <2>3 DEF WeaklyUpTo
  <2>6. QED
    BY <1>15, <2>3, <2>4, <2>5 DEF ShapeInv, Filled
<1>20. ContentInv(t)'
  <2> SUFFICES ASSUME loc[t].seen = Current.ver
               PROVE  ContentInv(t)'
    BY <1>13, <1>15 DEF ContentInv
  <2>1. /\ \A c \in BlocksOf(x) : c \in BlocksOf(Current) \/ Mine(t, c)
        /\ Contents(x) \ taken = Together(t) \ taken
    BY <1>1, <1>2 DEF ContentInv, Filling
  <2>2. BlocksOf(x)' = BlocksOf(y) /\ BlocksOf(Current)' = BlocksOf(Current)
    BY <1>15 DEF BlocksOf
  <2>3. \A c \in BlocksOf(x) : content'[c] = content[c]
    BY <1>17, <2>1
  <2>4. Contents(y)' \ taken = Contents(x) \ taken
    <3>1. PICK z : z = x
      OBVIOUS
    <3>2. PICK D : D = {at, small}
      OBVIOUS
    <3>3. S \ taken = (UNION {content[c] : c \in D}) \ taken
      BY <1>10, <3>2
    <3>4. /\ BlocksOf(y) \subseteq BlocksOf(z) \union {g} /\ g \in BlocksOf(y)
          /\ BlocksOf(z) \subseteq BlocksOf(y) \union D /\ D \subseteq BlocksOf(z)
          /\ \A c \in BlocksOf(z) : content'[c] = content[c]
      <4>1. at \in BlocksOf(x) /\ small \in BlocksOf(x)
        BY <1>3, <1>4 DEF BlocksOf
      <4>2. QED
        BY <1>12, <2>3, <3>1, <3>2, <4>1
    <3>5. Contents(y)' \ taken = Contents(z) \ taken
      BY <1>17, <3>3, <3>4, ReplaceContents
    <3>6. QED
      BY <3>1, <3>5
  <2>5. Contents(x)' = Contents(y)'
    BY <1>15 DEF Contents, BlocksOf
  <2>6. Together(t)' = Together(t)
    <3>1. Mine(t, loc[t].b)
      BY <1>1, <1>2 DEF InsertInv, Types, InCall, Building, Filling
    <3>2. QED
      BY <1>13, <1>15, <1>17, <3>1, SMTT(30) DEF Together, SameAttempt
  <2>7. \A c \in BlocksOf(y) : c \in BlocksOf(Current) \/ Mine(t, c)'
    BY <1>12, <1>17, <2>1
  <2>8. QED
    BY <1>13, <1>15, <2>1, <2>2, <2>4, <2>5, <2>6, <2>7 DEF ContentInv, Filling, Filled
<1>21. QED
  BY <1>18, <1>19, <1>20 DEF BuildInv

-----------------------------------------------------------------------------
(* The end of an attempt. *)

(* A failed attempt gives up the blocks it allocated, but not the one that *)
(* is to be inserted.  Its array is left behind with a version that has    *)
(* been published by another thread.                                       *)
LEMMA RetryStep ==
    ASSUME IInv, ~fault, NEW t \in Threads, pc[t] \in {"check_ver", "cas"},
           loc[t].seen # Current.ver, Retry(t),
           UNCHANGED <<global, arrays, content, local, cached, inserted, taken, stolen, fault>>
    PROVE  IInv'
PROOF
<1> DEFINE l == [Idle EXCEPT !.op = "insert", !.b = loc[t].b]
<1> USE TypeFacts DEF IInv, Loading, Loaded, Copying, Building, Peeking, Filling, Filled, Matched
<1>1. pool' = FreedExcept(t, loc[t].b) /\ Goto(t, "load", l)
  BY DEF Retry
<1>2. l \in LocType /\ l.op = "insert" /\ l.b = loc[t].b
  <2>1. Idle \in LocType /\ loc[t] \in LocType
    BY IdleType
  <2>2. QED
    BY <2>1 DEF LocType
<1> HIDE DEF l
<1>3. /\ pc'[t] = "load" /\ loc'[t] = l
      /\ \A u \in Threads \ {t} : pc'[u] = pc[u] /\ loc'[u] = loc[u]
      /\ pc' \in [Threads -> Pcs] /\ loc' \in [Threads -> LocType]
  BY <1>1, <1>2, GotoFacts DEF Pcs
<1>4. loc[t].op = "insert" /\ Mine(t, loc[t].b) /\ loc[t].seen < Current.ver
  <2>1. loc[t].op = "insert"
    BY DEF Types, InCall
  <2>2. Mine(t, loc[t].b)
    BY <2>1 DEF ThreadInv, BuildInv, InsertInv
  <2>3. loc[t].seen <= Current.ver /\ loc[t].seen \in Nat /\ Current.ver \in Nat
    BY DEF ThreadInv, SeenInv, LocType, ArrayType
  <2>4. QED
    BY <2>1, <2>2, <2>3
<1>5. /\ pool' \in [Blocks -> [status : {"free", "local", "global"}, ver : Nat]]
      /\ \A b \in Blocks : \/ pool'[b] = pool[b]
                           \/ b[1] = t /\ pool[b].status = "local" /\ pool'[b].status = "free"
      /\ pool'[loc[t].b] = pool[loc[t].b]
  <2>1. pool \in [Blocks -> [status : {"free", "local", "global"}, ver : Nat]]
    BY DEF Types, TypeOK
  <2>2. loc[t].b \in Blocks
    BY <1>4 DEF Mine
  <2>3. \A b \in Blocks :
            pool'[b] = IF b[1] = t /\ b # loc[t].b /\ pool[b].status = "local"
                       THEN [pool[b] EXCEPT !.status = "free"] ELSE pool[b]
    BY <1>1 DEF FreedExcept
  <2>4. \A b \in Blocks : [pool[b] EXCEPT !.status = "free"].status = "free"
        /\ [pool[b] EXCEPT !.status = "free"] \in [status : {"free", "local", "global"}, ver : Nat]
    BY <2>1
  <2>5. DOMAIN pool' = Blocks /\ pool' = [b \in Blocks |-> pool'[b]]
    BY <1>1 DEF FreedExcept
  <2>6. \A b \in Blocks : pool'[b] \in [status : {"free", "local", "global"}, ver : Nat]
    BY <2>1, <2>3, <2>4
  <2>7. pool' \in [Blocks -> [status : {"free", "local", "global"}, ver : Nat]]
    BY <2>5, <2>6
  <2>8. \A b \in Blocks : \/ pool'[b] = pool[b]
                          \/ b[1] = t /\ pool[b].status = "local" /\ pool'[b].status = "free"
    BY <2>3, <2>4
  <2>9. pool'[loc[t].b] = pool[loc[t].b]
    BY <2>2, <2>3
  <2>10. QED
    BY <2>7, <2>8, <2>9
<1>6. Types'
  <2>1. TypeOK'
    BY <1>3, <1>5 DEF Types, TypeOK
  <2>2. QED
    BY <1>2, <1>3, <2>1 DEF Types, InCall
<1>7. /\ Current' = Current /\ BlocksOf(Current)' = BlocksOf(Current)
      /\ Contents(Current)' = Contents(Current) /\ Found' = Found
  BY DEF Current, Found, Contents, BlocksOf
<1>8. GlobalInv'
  <2>1. \A b \in BlocksOf(Current) : b \in Blocks /\ pool[b].status = "global"
                                     /\ b \in MaxGlobal(b[1], level(b))
    BY DEF GlobalInv, WellFormed, HasBlocks, BlocksOf
  <2>2. \A b \in BlocksOf(Current) : pool'[b].status = "global" /\ b \in MaxGlobal(b[1], level(b))'
    BY <1>5, <2>1 DEF MaxGlobal
  <2>3. WellFormed(Current)'
    BY <1>7 DEF GlobalInv, WellFormed, HasBlocks, Falling
  <2>4. QED
    BY <1>7, <2>2, <2>3 DEF GlobalInv
<1>9. Frame(t)
  <2>1. \A a \in Arrays : arrays[a].ver \in Nat
    BY DEF ArrayType
  <2>2. QED
    BY <1>3, <1>5, <1>7, <2>1 DEF Frame
<1>10. SeenInv(t)' /\ CopyInv(t)'
  BY <1>3 DEF SeenInv, CopyInv
<1>11. OwnInv(t)'
  <2>1. \A p \in {0, 1} : arrays[<<t, p>>].ver \in Nat /\ Current.ver \in Nat /\ loc[t].seen \in Nat
    BY DEF Arrays, ArrayType, LocType
  <2>2. \A p \in {0, 1} : arrays[<<t, p>>].ver <= Current.ver
    BY <1>4, <2>1 DEF ThreadInv, OwnInv
  <2>3. QED
    BY <1>3, <1>7, <2>2 DEF OwnInv
<1>12. LocalInv(t)'
  BY <1>3, <1>7 DEF ThreadInv, LocalInv, WellFormed, HasBlocks, Falling, SameBlocks
<1>13. PeekInv(t)'
  BY <1>3, <1>4, <1>7 DEF ThreadInv, PeekInv
<1>14. PoolInv(t)'
  BY <1>2, <1>3, <1>5, <1>7 DEF ThreadInv, PoolInv
<1>15. BuildInv(t)'
  <2>1. Mine(t, loc[t].b)'
    BY <1>2, <1>3, <1>4, <1>5 DEF Mine
  <2>2. QED
    BY <1>3, <2>1 DEF BuildInv, InsertInv, ShapeInv, ContentInv
<1>16. ThreadInv(t)'
  BY <1>10, <1>11, <1>12, <1>13, <1>14, <1>15 DEF ThreadInv
<1>17. QED
  BY <1>6, <1>8, <1>9, <1>16, StepInv

(* The version is compared before the pointer is swapped. *)
LEMMA CheckVerStep ==
    ASSUME IInv, ~fault, NEW t \in Threads, check_ver(t)
    PROVE  IInv'
PROOF
<1>1. pc[t] = "check_ver"
      /\ UNCHANGED <<global, arrays, content, local, cached, inserted, taken, stolen, fault>>
  BY DEF check_ver
<1>2. loc[t] \in LocType /\ Types
  BY TypeFacts DEF IInv
<1>3. CASE GlobalVersion(t) = loc[t].obs
  <2>1. Goto(t, "cas", loc[t]) /\ OnlyLocals
    BY <1>3 DEF check_ver, OnlyLocals
  <2>2. SameAttempt(loc[t], loc[t])
    BY DEF SameAttempt
  <2>3. Falling(arrays[New(t)])
    BY <1>1 DEF IInv, ThreadInv, BuildInv, ShapeInv, Filled
  <2>4. QED
    BY <1>1, <1>2, <2>1, <2>2, <2>3, SlotStep
<1>4. CASE GlobalVersion(t) # loc[t].obs
  <2>1. Retry(t)
    BY <1>4 DEF check_ver
  <2>2. loc[t].seen # Current.ver
    BY <1>1, <1>4 DEF IInv, ThreadInv, CopyInv, GlobalVersion, Current, Building, Filled
  <2>3. QED
    BY <1>1, <2>1, <2>2, RetryStep
<1>5. QED
  BY <1>3, <1>4

LEMMA PublishFailsStep ==
    ASSUME IInv, ~fault, NEW t \in Threads, publish_fails(t)
    PROVE  IInv'
PROOF
<1>1. pc[t] = "cas" /\ global # loc[t].packed /\ Retry(t)
      /\ UNCHANGED <<global, arrays, content, local, cached, inserted, taken, stolen, fault>>
  BY DEF publish_fails
<1>2. loc[t].seen # Current.ver
  BY <1>1 DEF IInv, ThreadInv, SeenInv, Loaded, Building, Filled
<1>3. QED
  BY <1>1, <1>2, RetryStep

(* The compare-and-swap succeeds only if what is current is what has been  *)
(* seen: Algn versions later the packed pointer would be the same again,   *)
(* which NoWrap excludes.                                                  *)
LEMMA PublishSeen ==
    ASSUME IInv, NoWrap, NEW t \in Threads, pc[t] = "cas", global = loc[t].packed
    PROVE  loc[t].seen = Current.ver
PROOF
<1>1. loc[t].seen \in Nat /\ Current.ver \in Nat
  BY TypeFacts DEF IInv, LocType, ArrayType
<1>2. loc[t].seen <= Current.ver /\ loc[t].packed.tag = loc[t].seen % Algn
  BY DEF IInv, ThreadInv, SeenInv, Loaded, Building, Filled
<1>3. global.tag = Current.ver % Algn
  BY DEF IInv, GlobalInv
<1>4. Current.ver < loc[t].seen + Algn /\ Algn \in Nat \ {0}
  BY <1>1, SharedAssumption DEF NoWrap
<1>5. loc[t].seen % Algn = Current.ver % Algn
  BY <1>2, <1>3
<1>6. QED
  BY <1>1, <1>2, <1>4, <1>5, ResidueUnique

(* The pool after publish() and free_local(). *)
LEMMA PublishedFacts ==
    ASSUME Types, NEW t \in Threads, NEW ver \in Nat, NEW bs, pool' = Published(t, ver, bs)
    PROVE  /\ pool' \in [Blocks -> [status : {"free", "local", "global"}, ver : Nat]]
           /\ \A b \in Blocks :
                  /\ b[1] # t => pool'[b] = pool[b]
                  /\ b[1] = t /\ b \in bs => pool'[b].status = "global" /\ pool'[b].ver = ver
                  /\ b[1] = t => pool'[b].status # "local"
                  /\ b[1] = t /\ pool'[b].status = "global" => b \in bs \/ pool'[b] = pool[b]
PROOF
<1>1. pool \in [Blocks -> [status : {"free", "local", "global"}, ver : Nat]]
  BY DEF Types, TypeOK
<1>2. \A b \in Blocks :
          pool'[b] = IF b[1] # t THEN pool[b]
                     ELSE IF b \in bs THEN [status |-> "global", ver |-> ver]
                     ELSE IF pool[b].status = "local" THEN [pool[b] EXCEPT !.status = "free"]
                     ELSE pool[b]
  BY DEF Published
<1>3. \A b \in Blocks :
          /\ [pool[b] EXCEPT !.status = "free"].status = "free"
          /\ [pool[b] EXCEPT !.status = "free"] \in [status : {"free", "local", "global"}, ver : Nat]
  BY <1>1
<1>4. [status |-> "global", ver |-> ver] \in [status : {"free", "local", "global"}, ver : Nat]
  OBVIOUS
<1>5. pool' = [b \in Blocks |-> pool'[b]]
  BY DEF Published
<1>6. \A b \in Blocks : pool'[b] \in [status : {"free", "local", "global"}, ver : Nat]
  BY <1>1, <1>2, <1>3, <1>4
<1>7. pool' \in [Blocks -> [status : {"free", "local", "global"}, ver : Nat]]
  BY <1>5, <1>6
<1>8. ASSUME NEW b \in Blocks
      PROVE  /\ b[1] # t => pool'[b] = pool[b]
             /\ b[1] = t /\ b \in bs => pool'[b].status = "global" /\ pool'[b].ver = ver
             /\ b[1] = t => pool'[b].status # "local"
             /\ b[1] = t /\ pool'[b].status = "global" => b \in bs \/ pool'[b] = pool[b]
  <2>1. pool'[b] = IF b[1] # t THEN pool[b]
                   ELSE IF b \in bs THEN [status |-> "global", ver |-> ver]
                   ELSE IF pool[b].status = "local" THEN [pool[b] EXCEPT !.status = "free"]
                   ELSE pool[b]
    BY <1>2
  <2>2. [pool[b] EXCEPT !.status = "free"].status = "free"
    BY <1>3
  <2>3. QED
    BY <2>1, <2>2
<1>9. QED
  BY <1>7, <1>8

(* The new version is published: its blocks are the most recent ones of    *)
(* their levels, and nothing that was current is lost.                     *)
LEMMA PublishStep ==
    ASSUME IInv, NoWrap, ~fault, NEW t \in Threads, publish(t)
    PROVE  IInv'
PROOF
<1> DEFINE x == arrays[New(t)]
<1> USE TypeFacts DEF IInv
<1>1. /\ pc[t] = "cas" /\ global = loc[t].packed
      /\ global' = Packed(New(t), x.ver)
      /\ pool' = Published(t, x.ver, BlocksOf(x))
      /\ Goto(t, "idle", Idle)
      /\ UNCHANGED <<arrays, content, local, cached, inserted, taken, stolen, fault>>
  BY DEF publish, Return
<1>2. loc[t].seen = Current.ver
  BY <1>1, PublishSeen
<1>3. /\ x \in ArrayType /\ x.ver \in Nat /\ Current.ver \in Nat /\ New(t) \in Arrays
      /\ New(t)[1] = t /\ loc[t].op = "insert"
  <2>1. loc[t].op = "insert"
    BY <1>1 DEF Types, InCall, Building, Filled
  <2>2. QED
    BY <2>1 DEF ArrayType
<1>4. x.ver = Current.ver + 1
  BY <1>1, <1>2 DEF ThreadInv, OwnInv, New, Filled
<1>5. WellFormed(x)
  BY <1>1 DEF ThreadInv, BuildInv, ShapeInv, WellFormed, Filled
<1>6. /\ \A b \in BlocksOf(x) : b \in BlocksOf(Current) \/ Mine(t, b)
      /\ Contents(x) \ taken = Together(t) \ taken
  BY <1>1, <1>2 DEF ThreadInv, BuildInv, ContentInv, Filled
<1>7. /\ pc'[t] = "idle" /\ loc'[t] = Idle
      /\ \A u \in Threads \ {t} : pc'[u] = pc[u] /\ loc'[u] = loc[u]
      /\ pc' \in [Threads -> Pcs] /\ loc' \in [Threads -> LocType]
  BY <1>1, IdleType, GotoFacts DEF Pcs
<1>8. /\ pool' \in [Blocks -> [status : {"free", "local", "global"}, ver : Nat]]
      /\ \A b \in Blocks :
             /\ b[1] # t => pool'[b] = pool[b]
             /\ b[1] = t /\ b \in BlocksOf(x) => pool'[b].status = "global" /\ pool'[b].ver = x.ver
             /\ b[1] = t => pool'[b].status # "local"
             /\ b[1] = t /\ pool'[b].status = "global" => b \in BlocksOf(x) \/ pool'[b] = pool[b]
  <2>1. PICK v \in Nat, bs \in {BlocksOf(x)} : v = x.ver
    BY <1>3
  <2>2. pool' = Published(t, v, bs)
    BY <1>1, <2>1
  <2> HIDE DEF x
  <2>3. /\ pool' \in [Blocks -> [status : {"free", "local", "global"}, ver : Nat]]
        /\ \A b \in Blocks :
               /\ b[1] # t => pool'[b] = pool[b]
               /\ b[1] = t /\ b \in bs => pool'[b].status = "global" /\ pool'[b].ver = v
               /\ b[1] = t => pool'[b].status # "local"
               /\ b[1] = t /\ pool'[b].status = "global" => b \in bs \/ pool'[b] = pool[b]
    BY <2>2, PublishedFacts
  <2>4. QED
    BY <2>1, <2>3
<1>9. /\ global' \in [array : Arrays, tag : 0 .. (Algn - 1)]
      /\ global'.array = New(t) /\ global'.tag = x.ver % Algn
  <2>1. x.ver % Algn \in 0 .. (Algn - 1)
    BY <1>3, SharedAssumption
  <2>2. QED
    BY <1>1, <1>3, <2>1 DEF Packed
<1>10. Types'
  <2>1. TypeOK'
    BY <1>1, <1>7, <1>8, <1>9 DEF Types, TypeOK
  <2>2. QED
    BY <1>1, <1>7, <2>1, IdleType DEF Types, InCall
<1>11. Current' = x /\ BlocksOf(Current)' = BlocksOf(x) /\ Contents(Current)' = Contents(x)
  <2>1. Current' = x
    BY <1>1, <1>9 DEF Current
  <2>2. QED
    BY <1>1, <2>1 DEF BlocksOf, Contents
<1>12. GlobalInv'
  <2>1. global'.array[1] # Initial /\ global'.array[2] = x.ver % 2
    <3>1. t # Initial
      BY SharedAssumption
    <3>2. loc[t].obs = Current.ver
      BY <1>1, <1>2 DEF ThreadInv, CopyInv, Building, Filled
    <3>3. global'.array = <<t, IF Current.ver % 2 = 1 THEN 0 ELSE 1>>
      BY <1>9, <3>2 DEF New
    <3>4. (IF Current.ver % 2 = 1 THEN 0 ELSE 1) = (Current.ver + 1) % 2
      BY <1>3
    <3>5. QED
      BY <1>4, <3>1, <3>3, <3>4
  <2>2. ASSUME NEW b \in BlocksOf(x)
        PROVE  pool'[b].status = "global" /\ b \in MaxGlobal(b[1], level(b))'
    <3>1. b \in Blocks
      BY <1>5 DEF WellFormed, HasBlocks, BlocksOf
    <3>2. CASE b[1] = t
      <4>1. pool'[b].status = "global" /\ pool'[b].ver = x.ver
        BY <1>8, <2>2, <3>1, <3>2
      <4>2. \A c \in Blocks : c[1] = t /\ pool'[c].status = "global" => pool'[c].ver <= x.ver
        <5> TAKE c \in Blocks
        <5>1. pool[c].ver \in Nat /\ (c[1] = t /\ pool[c].status = "global" => pool[c].ver <= Current.ver)
          BY DEF Types, TypeOK, ThreadInv, PoolInv
        <5>2. QED
          BY <1>3, <1>4, <1>8, <5>1
      <4>3. QED
        BY <3>1, <3>2, <4>1, <4>2 DEF MaxGlobal
    <3>3. CASE b[1] # t
      <4>1. b \in BlocksOf(Current)
        BY <1>6, <2>2, <3>3 DEF Mine
      <4>2. pool[b].status = "global" /\ b \in MaxGlobal(b[1], level(b))
        BY <4>1 DEF GlobalInv
      <4>3. QED
        BY <1>8, <3>1, <3>3, <4>2 DEF MaxGlobal
    <3>4. QED
      BY <3>2, <3>3
  <2>3. WellFormed(Current)'
    BY <1>5, <1>11 DEF WellFormed, HasBlocks, Falling
  <2>4. QED
    BY <1>1, <1>9, <1>11, <2>1, <2>2, <2>3 DEF GlobalInv
<1>13. Found \subseteq Found'
  BY <1>1, <1>6, <1>11 DEF Found, Together
<1>14. Frame(t)
  <2>1. \A a \in Arrays : arrays[a].ver \in Nat
    BY DEF ArrayType
  <2>2. QED
    BY <1>1, <1>3, <1>4, <1>7, <1>8, <1>9, <1>11, <1>13, <2>1 DEF Frame
<1> USE DEF Loading, Loaded, Copying, Building, Peeking, Filling, Filled, Matched
<1>15. SeenInv(t)' /\ CopyInv(t)'
  BY <1>7 DEF SeenInv, CopyInv
<1>16. OwnInv(t)'
  <2>1. \A p \in {0, 1} : <<t, p>> \in Arrays /\ arrays[<<t, p>>].ver \in Nat
    BY DEF Arrays, ArrayType
  <2>2. \A p \in {0, 1} : arrays[<<t, p>>].ver <= Current.ver + 1
    <3>1. OwnInv(t)
      BY DEF ThreadInv
    <3>2. QED
      BY <1>1, <1>2, <1>3, <2>1, <3>1, ArrayVersions
  <2>3. QED
    BY <1>1, <1>4, <1>7, <1>11, <2>2 DEF OwnInv
<1>17. LocalInv(t)'
  <2>1. WellFormed(local[t]) /\ local[t].ver <= Current.ver /\ local[t].ver \in Nat
    BY <1>1 DEF ThreadInv, LocalInv, ArrayType
  <2>2. WellFormed(local[t])'
    BY <1>1, <2>1 DEF WellFormed, HasBlocks, Falling
  <2>3. local'[t].ver <= Current'.ver /\ local'[t].ver # Current'.ver
    BY <1>1, <1>3, <1>4, <1>11, <2>1
  <2>4. QED
    BY <1>7, <2>2, <2>3 DEF LocalInv
<1>18. PeekInv(t)'
  BY <1>1, <1>3, <1>7, <1>13 DEF ThreadInv, PeekInv
<1>19. PoolInv(t)'
  <2> SUFFICES ASSUME NEW b \in Blocks, b[1] = t, pool'[b].status = "global"
               PROVE  pool'[b].ver <= Current'.ver
    BY <1>8 DEF PoolInv
  <2>1. pool[b].ver \in Nat /\ (pool[b].status = "global" => pool[b].ver <= Current.ver)
    BY DEF Types, TypeOK, ThreadInv, PoolInv
  <2>2. QED
    BY <1>3, <1>4, <1>8, <1>11, <2>1
<1>20. BuildInv(t)'
  BY <1>7, IdleType DEF BuildInv, InsertInv, ShapeInv, ContentInv
<1>21. ThreadInv(t)'
  BY <1>15, <1>16, <1>17, <1>18, <1>19, <1>20 DEF ThreadInv
<1>22. QED
  BY <1>10, <1>12, <1>14, <1>21, StepInv

-----------------------------------------------------------------------------
(* Taking elements, and handing over a block. *)

(* A step that only takes an element, from a thread that is in no attempt. *)
LEMMA TakenFrame ==
    ASSUME IInv, NEW t \in Threads, NEW e \in inserted, taken' = taken \union {e},
           stolen \subseteq stolen', stolen' \subseteq taken',
           UNCHANGED <<global, arrays, content, pool, local, cached, inserted, fault>>,
           pc' \in [Threads -> Pcs], loc' \in [Threads -> LocType],
           \A u \in Threads \ {t} : pc'[u] = pc[u] /\ loc'[u] = loc[u],
           InCall(pc'[t], loc'[t])
    PROVE  /\ Types' /\ GlobalInv' /\ Frame(t)
           /\ Current' = Current /\ Found \subseteq Found'
PROOF
<1> USE TypeFacts DEF IInv
<1>1. /\ Current' = Current /\ BlocksOf(Current)' = BlocksOf(Current)
      /\ Contents(Current)' = Contents(Current)
  BY DEF Current, BlocksOf, Contents
<1>2. Found \subseteq Found'
  BY <1>1 DEF Found
<1>3. Types'
  <2>1. TypeOK'
    BY DEF Types, TypeOK
  <2>2. QED
    BY <2>1 DEF Types
<1>4. GlobalInv'
  BY <1>1 DEF GlobalInv, MaxGlobal, WellFormed, HasBlocks, Falling
<1>5. Frame(t)
  <2>1. \A a \in Arrays : arrays[a].ver \in Nat
    BY DEF ArrayType
  <2>2. QED
    BY <1>1, <1>2, <2>1 DEF Frame
<1>6. QED
  BY <1>1, <1>2, <1>3, <1>4, <1>5

(* What is current holds elements that were inserted. *)
LEMMA FoundInserted ==
    ASSUME IInv
    PROVE  Contents(Current) \subseteq inserted /\ Found \subseteq inserted \union {NoElement}
PROOF
<1>1. BlocksOf(Current) \subseteq Blocks
  BY DEF IInv, GlobalInv, WellFormed, HasBlocks, BlocksOf
<1>2. Contents(Current) \subseteq inserted
  BY <1>1 DEF IInv, Types, Contents
<1>3. taken \subseteq inserted
  BY DEF IInv, Types, TypeOK
<1>4. QED
  BY <1>2, <1>3 DEF Found

LEMMA TakeStep ==
    ASSUME IInv, ~fault, NEW t \in Threads, take(t)
    PROVE  IInv'
PROOF
<1> USE TypeFacts DEF IInv, Loading, Loaded, Copying, Building, Peeking, Filling, Filled, Matched
<1>1. /\ pc[t] = "take" /\ taken' = taken \union {loc[t].best} /\ Goto(t, "idle", Idle)
      /\ UNCHANGED <<global, arrays, content, pool, local, cached, inserted, stolen, fault>>
  BY DEF take, Return
<1>2. loc[t].best \in inserted /\ loc[t].op = "delete_min"
  <2>1. loc[t].best \in Found /\ loc[t].best # NoElement /\ loc[t].op = "delete_min"
    BY <1>1 DEF ThreadInv, PeekInv, Types, InCall
  <2>2. QED
    BY <2>1, FoundInserted
<1>3. /\ pc'[t] = "idle" /\ loc'[t] = Idle
      /\ \A u \in Threads \ {t} : pc'[u] = pc[u] /\ loc'[u] = loc[u]
      /\ pc' \in [Threads -> Pcs] /\ loc' \in [Threads -> LocType]
  BY <1>1, IdleType, GotoFacts DEF Pcs
<1>4. stolen \subseteq taken
  BY DEF Types, TypeOK
<1>5. /\ Types' /\ GlobalInv' /\ Frame(t) /\ Current' = Current /\ Found \subseteq Found'
  <2>1. PICK e \in inserted : e = loc[t].best
    BY <1>2
  <2>2. taken' = taken \union {e} /\ stolen' \subseteq taken' /\ stolen \subseteq stolen'
        /\ InCall(pc'[t], loc'[t])
    BY <1>1, <1>3, <1>4, <2>1, IdleType
  <2>3. QED
    BY <1>1, <1>3, <2>2, TakenFrame
<1>6. SeenInv(t)' /\ CopyInv(t)' /\ OwnInv(t)'
  BY <1>1, <1>3, <1>5 DEF ThreadInv, SeenInv, CopyInv, OwnInv
<1>7. LocalInv(t)'
  BY <1>1, <1>3, <1>5 DEF ThreadInv, LocalInv, WellFormed, HasBlocks, Falling, SameBlocks
<1>8. PeekInv(t)'
  BY <1>1, <1>3, <1>5 DEF ThreadInv, PeekInv
<1>9. PoolInv(t)'
  BY <1>1, <1>2, <1>5 DEF ThreadInv, PoolInv
<1>10. BuildInv(t)'
  BY <1>3, IdleType DEF BuildInv, InsertInv, ShapeInv, ContentInv
<1>11. ThreadInv(t)'
  BY <1>6, <1>7, <1>8, <1>9, <1>10 DEF ThreadInv
<1>12. QED
  BY <1>5, <1>11, StepInv

LEMMA TakeDistStep ==
    ASSUME IInv, ~fault, NEW t \in Threads, NEW e \in inserted \ taken, take_dist(t, e)
    PROVE  IInv'
PROOF
<1> USE TypeFacts DEF IInv, Loading, Loaded, Copying, Building, Peeking, Filling, Filled, Matched
<1>1. /\ pc[t] = "idle" /\ taken' = taken \union {e}
      /\ stolen' = stolen \union ({e} \ Contents(Current))
      /\ UNCHANGED <<global, arrays, content, pool, local, cached, pc, loc, inserted, fault>>
  BY DEF take_dist
<1>2. /\ Types' /\ GlobalInv' /\ Frame(t) /\ Current' = Current /\ Found \subseteq Found'
  <2>1. stolen' \subseteq taken' /\ stolen \subseteq stolen'
    BY <1>1 DEF Types, TypeOK
  <2>2. /\ pc' \in [Threads -> Pcs] /\ loc' \in [Threads -> LocType]
        /\ InCall(pc'[t], loc'[t])
    BY <1>1 DEF Types, TypeOK
  <2>3. QED
    BY <1>1, <2>1, <2>2, TakenFrame
<1>3. SeenInv(t)' /\ CopyInv(t)' /\ OwnInv(t)'
  BY <1>1, <1>2 DEF ThreadInv, SeenInv, CopyInv, OwnInv
<1>4. LocalInv(t)'
  BY <1>1, <1>2 DEF ThreadInv, LocalInv, WellFormed, HasBlocks, Falling, SameBlocks
<1>5. PeekInv(t)'
  BY <1>1, <1>2 DEF ThreadInv, PeekInv
<1>6. PoolInv(t)'
  BY <1>1, <1>2 DEF ThreadInv, PoolInv
<1>7. BuildInv(t)'
  <2>1. loc[t].op = "none"
    BY <1>1 DEF Types, InCall
  <2>2. QED
    BY <1>1, <2>1 DEF BuildInv, InsertInv, ShapeInv, ContentInv
<1>8. ThreadInv(t)'
  BY <1>3, <1>4, <1>5, <1>6, <1>7 DEF ThreadInv
<1>9. QED
  BY <1>2, <1>8, StepInv

(* The numbers of the elements of one call are as many as its block has    *)
(* room for.                                                               *)
LEMMA FreshSize ==
    ASSUME Types, NEW l \in Loads
    PROVE  /\ l[1] \in 0 .. MaxPow
           /\ Cardinality(Fresh(l[2])) <= 2 ^ l[1]
PROOF
<1>1. l[1] \in 0 .. MaxPow /\ l[2] \in Nat /\ l[2] <= 2 ^ l[1]
  BY SharedAssumption
<1>2. Cardinality(inserted) \in Nat
  <2>1. inserted \in SUBSET Elements
    BY DEF Types, TypeOK
  <2>2. QED
    BY <2>1, ElementSets
<1>3. PICK n \in Nat, a \in Nat : n = l[2] /\ a = Cardinality(inserted)
  BY <1>1, <1>2
<1>4. Cardinality((a + 1) .. (a + n)) = n
  <2>1. CASE n = 0
    <3>1. (a + 1) .. (a + n) = {}
      BY <2>1
    <3>2. QED
      BY <2>1, <3>1, FS_EmptySet
  <2>2. CASE n # 0
    <3>1. a + 1 \in Int /\ a + n \in Int /\ ~ (a + 1 > a + n) /\ (a + n) - (a + 1) + 1 = n
      BY <2>2
    <3>2. QED
      BY <3>1, FS_Interval
  <2>3. QED
    BY <2>1, <2>2
<1>5. QED
  BY <1>1, <1>3, <1>4 DEF Fresh

(* A block is handed over: its elements are put into a free block.         *)
LEMMA InsertStep ==
    ASSUME IInv, ~fault, NEW t \in Threads, NEW p \in 0 .. MaxPow, NEW S,
           Cardinality(S) <= 2 ^ p, insert(t, p, S)
    PROVE  IInv'
PROOF
<1> DEFINE b == get_block(t, p)
           l == [Idle EXCEPT !.op = "insert", !.b = b]
<1> USE TypeFacts DEF IInv, Loading, Loaded, Copying, Building, Peeking, Filling, Filled, Matched
<1>1. /\ pc[t] = "idle" /\ S \subseteq Elements /\ inserted' = inserted \union S
      /\ Allocate(t, p, S) /\ Goto(t, "load", l)
      /\ UNCHANGED <<global, arrays, local, cached, taken, stolen>>
  BY DEF insert
<1>2. p \in Int /\ b \in Blocks \union {NoBlock}
  <2>1. p \in Int
    BY SharedAssumption
  <2>2. PICK g : g = b
    OBVIOUS
  <2>3. QED
    BY <1>1, <2>1, <2>2, AllocateCases
<1>3. fault' # TRUE => Puts(t, p, S, b)
  <2>1. PICK g : g = b
    OBVIOUS
  <2>2. fault' # TRUE => Puts(t, p, S, g)
    BY <1>1, <1>2, <2>1, AllocateCases
  <2>3. QED
    BY <2>1, <2>2 DEF Puts
<1>4. l \in LocType /\ l.op = "insert" /\ l.b = b
  BY <1>2, IdleType DEF LocType
<1>5. InCall("load", l) /\ "load" \in Pcs
  BY <1>4 DEF InCall, Pcs
<1> HIDE DEF l
<1>6. /\ pc'[t] = "load" /\ loc'[t] = l
      /\ \A u \in Threads \ {t} : pc'[u] = pc[u] /\ loc'[u] = loc[u]
      /\ pc' \in [Threads -> Pcs] /\ loc' \in [Threads -> LocType]
  BY <1>1, <1>4, <1>5, GotoFacts
<1>7. PICK T : T = inserted \union S
  OBVIOUS
<1>8. /\ content' \in [Blocks -> SUBSET T] /\ fault' \in BOOLEAN
      /\ pool' \in [Blocks -> [status : {"free", "local", "global"}, ver : Nat]]
      /\ \A c \in Blocks : \/ pool'[c] = pool[c] /\ content'[c] = content[c]
                           \/ c \in Available(t, level(c)) /\ pool'[c].status = "local"
      /\ \A c \in Blocks : Cardinality(content'[c]) <= capacity(c)
  <2>1. inserted \subseteq T /\ S \in SUBSET T
    BY <1>7
  <2>2. QED
    BY <1>1, <1>2, <2>1, AllocateWithin
<1>9. Types'
  <2>1. T \subseteq Elements /\ inserted' = T
    BY <1>1, <1>7 DEF Types, TypeOK
  <2>2. \A c \in Blocks : content'[c] \subseteq Elements
    BY <1>8, <2>1
  <2>3. TypeOK'
    BY <1>1, <1>6, <1>8, <2>1, <2>2 DEF Types, TypeOK
  <2>4. QED
    BY <1>5, <1>6, <1>8, <2>1, <2>3 DEF Types
<1>10. Current' = Current
  BY <1>1 DEF Current
<1>11. Writes(t)
  <2>1. \A a \in Arrays : arrays[a].ver \in Nat
    BY DEF ArrayType
  <2>2. QED
    BY <1>1, <1>6, <1>8, <2>1 DEF Writes
<1>12. GlobalInv' /\ Frame(t) /\ Found' = Found
  BY <1>9, <1>10, <1>11, WritesFrame
<1>13. SeenInv(t)' /\ CopyInv(t)' /\ OwnInv(t)'
  BY <1>1, <1>6, <1>10 DEF ThreadInv, SeenInv, CopyInv, OwnInv
<1>14. LocalInv(t)'
  BY <1>1, <1>6, <1>10 DEF ThreadInv, LocalInv, WellFormed, HasBlocks, Falling, SameBlocks
<1>15. PeekInv(t)'
  BY <1>1, <1>6, <1>12 DEF ThreadInv, PeekInv
<1>16. PoolInv(t)'
  BY <1>4, <1>6, <1>8, <1>10 DEF ThreadInv, PoolInv
<1>17. fault' \/ BuildInv(t)'
  <2> SUFFICES ASSUME fault' # TRUE PROVE BuildInv(t)'
    BY <1>8
  <2>1. Mine(t, loc[t].b)'
    BY <1>3, <1>4, <1>6 DEF Mine, Puts
  <2>2. QED
    BY <1>6, <2>1 DEF BuildInv, InsertInv, ShapeInv, ContentInv
<1>18. ThreadInv(t)'
  BY <1>13, <1>14, <1>15, <1>16, <1>17 DEF ThreadInv
<1>19. QED
  BY <1>9, <1>12, <1>18, StepInv

-----------------------------------------------------------------------------
(* The invariant holds initially, and every step preserves it. *)

LEMMA InitInv == Init => IInv
PROOF
<1> SUFFICES ASSUME Init PROVE IInv
  OBVIOUS
<1> USE DEF Init, Loading, Loaded, Copying, Building, Peeking, Filling, Filled, Matched
<1>1. /\ EmptyArray \in ArrayType /\ EmptyArray.ver = 0 /\ EmptyArray.size = 0
      /\ WellFormed(EmptyArray) /\ BlocksOf(EmptyArray) = {}
  <2>1. 0 \in 0 .. (MaxPow + 2) /\ 0 \in Nat
    BY SharedAssumption
  <2>2. EmptyArray \in ArrayType /\ EmptyArray.ver = 0 /\ EmptyArray.size = 0
    BY <2>1 DEF EmptyArray, ArrayType
  <2>3. 1 .. 0 = {}
    OBVIOUS
  <2>4. QED
    BY <2>2, <2>3 DEF WellFormed, HasBlocks, Falling, BlocksOf
<1>2. /\ global.array = <<Initial, 0>> /\ global.tag = 0 % Algn
      /\ global \in [array : Arrays, tag : 0 .. (Algn - 1)]
      /\ <<Initial, 0>> \in Arrays /\ Current = EmptyArray
  <2>1. 0 % Algn \in 0 .. (Algn - 1)
    BY SharedAssumption
  <2>2. QED
    BY <2>1 DEF Packed, Arrays, Current
<1>3. Types
  <2>1. \A b \in Blocks : Cardinality(content[b]) <= capacity(b)
    BY FS_EmptySet, CapacityOrder
  <2>2. TypeOK
    BY <1>1, <1>2, <2>1 DEF TypeOK, Pcs
  <2>3. QED
    BY <2>2, IdleType DEF Types
<1>4. GlobalInv
  BY <1>1, <1>2 DEF GlobalInv
<1>5. ASSUME NEW t \in Threads PROVE ThreadInv(t)
  <2>1. SeenInv(t) /\ CopyInv(t) /\ PeekInv(t)
    BY DEF SeenInv, CopyInv, PeekInv, Found
  <2>2. OwnInv(t)
    <3>1. \A p \in {0, 1} : arrays[<<t, p>>] = EmptyArray
      BY DEF Arrays
    <3>2. QED
      BY <1>1, <1>2, <3>1 DEF OwnInv
  <2>3. LocalInv(t)
    BY <1>1, <1>2 DEF LocalInv, SameBlocks
  <2>4. PoolInv(t)
    BY DEF PoolInv
  <2>5. BuildInv(t)
    BY IdleType DEF BuildInv, InsertInv, ShapeInv, ContentInv
  <2>6. QED
    BY <2>1, <2>2, <2>3, <2>4, <2>5 DEF ThreadInv
<1>6. QED
  BY <1>3, <1>4, <1>5 DEF IInv

LEMMA CallInv ==
    ASSUME IInv, ~fault, NEW t \in Threads, Call(t)
    PROVE  IInv'
PROOF
<1>1. CASE \E l \in Loads : insert(t, l[1], Fresh(l[2]))
  <2>1. PICK l \in Loads : insert(t, l[1], Fresh(l[2]))
    BY <1>1
  <2>2. PICK p, S : p = l[1] /\ S = Fresh(l[2])
    OBVIOUS
  <2>3. insert(t, p, S)
    BY <2>1, <2>2
  <2>4. p \in 0 .. MaxPow /\ Cardinality(S) <= 2 ^ p
    BY <2>2, FreshSize DEF IInv
  <2>5. QED
    BY <2>3, <2>4, InsertStep
<1>2. CASE \E op \in {"delete_min", "find_min"} : peek(t, op)
  BY <1>2, PeekStep
<1>3. CASE \E e \in inserted \ taken : take_dist(t, e)
  BY <1>3, TakeDistStep
<1>4. QED
  BY <1>1, <1>2, <1>3 DEF Call, Calls

LEMMA StutterInv == IInv /\ UNCHANGED vars => IInv'
PROOF
<1> SUFFICES ASSUME IInv, UNCHANGED vars PROVE IInv'
  OBVIOUS
<1> USE DEF vars
<1>1. Types'
  BY DEF IInv, Types, TypeOK, InCall
<1>2. Current' = Current /\ Found' = Found
  BY DEF Current, Found, Contents, BlocksOf
<1>3. GlobalInv'
  BY <1>2 DEF IInv, GlobalInv, WellFormed, HasBlocks, Falling, BlocksOf, MaxGlobal
<1>4. ASSUME NEW t \in Threads PROVE ThreadInv(t)'
  <2>1. ThreadInv(t)
    BY DEF IInv
  <2>2. New(t)' = New(t)
    BY DEF New
  <2>3. SeenInv(t)' /\ OwnInv(t)' /\ PeekInv(t)' /\ PoolInv(t)'
    BY <1>2, <2>1, <2>2 DEF ThreadInv, SeenInv, OwnInv, PeekInv, PoolInv
  <2>4. LocalInv(t)' /\ CopyInv(t)'
    BY <1>2, <2>1
       DEF ThreadInv, LocalInv, CopyInv, WellFormed, HasBlocks, Falling, SameBlocks
  <2>5. InsertInv(t)' <=> InsertInv(t)
    BY DEF InsertInv, Mine
  <2>6. ShapeInv(t)' <=> ShapeInv(t)
    BY <2>2 DEF ShapeInv, SameBlocks, HasBlocks, Falling, Weakly, WeaklyUpTo
  <2>7. ContentInv(t)' <=> ContentInv(t)
    BY <1>2, <2>2 DEF ContentInv, Contents, BlocksOf, Mine, Together
  <2>8. QED
    BY <2>1, <2>3, <2>4, <2>5, <2>6, <2>7 DEF ThreadInv, BuildInv
<1>5. QED
  BY <1>1, <1>3, <1>4 DEF IInv

LEMMA NextInv == IInv /\ NoWrap /\ [Next]_vars => IInv'
PROOF
<1> SUFFICES ASSUME IInv, NoWrap, [Next]_vars PROVE IInv'
  OBVIOUS
<1>1. CASE UNCHANGED vars
  BY <1>1, StutterInv
<1>2. ASSUME ~fault, NEW t \in Threads, Call(t) PROVE IInv'
  BY <1>2, CallInv
<1>3. ASSUME ~fault, NEW t \in Threads, Step(t) PROVE IInv'
  <2>1. CASE cache_ptr(t) \/ cache_ver(t) \/ pick(t) \/ peek_ptr(t) \/ peek_ver(t) \/ take(t)
    BY <1>3, <2>1, CachePtrStep, CacheVerStep, PickStep, PeekPtrStep, PeekVerStep, TakeStep
  <2>2. CASE load(t) \/ read_version(t) \/ fresh_ptr(t) \/ fresh_ver(t) \/ reload(t)
             \/ reread_version(t)
    BY <1>3, <2>2, LoadStep, ReadVersionStep, FreshPtrStep, FreshVerStep, ReloadStep,
       RereadVersionStep
  <2>3. CASE copy_version(t) \/ copy_size(t) \/ copy_blocks(t) \/ copy_check(t)
             \/ verify_ptr(t) \/ verify_ver(t)
    BY <1>3, <2>3, CopyVersionStep, CopySizeStep, CopyBlocksStep, CopyCheckStep, VerifyPtrStep,
       VerifyVerStep
  <2>4. CASE build_version(t) \/ build_copy(t) \/ build_incr(t) \/ add_merge(t) \/ add(t)
    BY <1>3, <2>4, BuildVersionStep, BuildCopyStep, BuildIncrStep, AddMergeStep, AddStep
  <2>5. CASE shrink(t) \/ shrink_skip(t) \/ compact(t) \/ compact_skip(t)
    BY <1>3, <2>5, ShrinkStep, ShrinkSkipStep, CompactStep, CompactSkipStep
  <2>6. CASE check_ptr(t) \/ check_ver(t) \/ publish(t) \/ publish_fails(t)
    BY <1>3, <2>6, CheckPtrStep, CheckVerStep, PublishStep, PublishFailsStep
  <2>7. QED
    BY <1>3, <2>1, <2>2, <2>3, <2>4, <2>5, <2>6 DEF Step
<1>4. QED
  BY <1>1, <1>2, <1>3 DEF Next

(* IInv is an invariant of every behaviour in which no packed pointer      *)
(* comes round while a thread relies on it.                                *)
THEOREM Invariant == Spec /\ []NoWrap => []IInv
PROOF
<1>1. Init => IInv
  BY InitInv
<1>2. IInv /\ NoWrap /\ [Next]_vars => IInv'
  BY NextInv
<1>3. QED
  BY <1>1, <1>2, PTL DEF Spec

-----------------------------------------------------------------------------
(* What the invariant says of a state. *)

(* Type correctness; no block ever holds more than its capacity.           *)
THEOREM TypeCorrect == Spec /\ []NoWrap => []TypeOK
PROOF
<1>1. IInv => TypeOK
  BY DEF IInv, Types
<1>2. QED
  BY <1>1, Invariant, PTL

LEMMA FallingDescends ==
    ASSUME NEW x \in ArrayType, WellFormed(x)
    PROVE  Descending(x)
PROOF
<1>1. ASSUME NEW s \in 1 .. (x.size - 1)
      PROVE  level(x.blocks[s]) > level(x.blocks[s + 1])
  <2>1. s \in 1 .. x.size /\ s + 1 \in 1 .. x.size /\ s < s + 1 /\ x.size \in Nat
    BY DEF ArrayType
  <2>2. x.blocks[s] \in Blocks /\ x.blocks[s + 1] \in Blocks
    BY <2>1 DEF WellFormed, HasBlocks
  <2>3. level(x.blocks[s]) >= level(x.blocks[s + 1]) + ((s + 1) - s)
    BY <2>1 DEF WellFormed, Falling
  <2>4. QED
    BY <2>1, <2>2, <2>3, CapacityOrder
<1>2. QED
  BY <1>1 DEF Descending

(* block_array.h: block sizes are strictly descending while the array is   *)
(* visible, in what is published and in every verified local copy.         *)
THEOREM SizesDescend == Spec /\ []NoWrap => []ArraysDescending
PROOF
<1>1. IInv => ArraysDescending
  <2> SUFFICES ASSUME IInv PROVE ArraysDescending
    OBVIOUS
  <2>1. Descending(Current)
    BY TypeFacts, FallingDescends DEF IInv, GlobalInv
  <2>2. ASSUME NEW t \in Threads, pc[t] \in {"pick", "build_version", "build_copy"}
        PROVE  Descending(local[t])
    <3>1. WellFormed(local[t]) /\ local[t] \in ArrayType
      BY <2>2, TypeFacts DEF IInv, ThreadInv, LocalInv, Copying
    <3>2. QED
      BY <3>1, FallingDescends
  <2>3. QED
    BY <2>1, <2>2 DEF ArraysDescending
<1>2. QED
  BY <1>1, Invariant, PTL

(* block_pool.h: no block stays LOCAL between two calls, and the blocks of *)
(* the published array are the most recent ones of their levels, so that   *)
(* their owners do not reuse them.                                         *)
THEOREM PoolProtects == Spec /\ []NoWrap => []PoolOK
PROOF
<1>1. IInv => PoolOK
  <2> SUFFICES ASSUME IInv PROVE PoolOK
    OBVIOUS
  <2>1. ASSUME NEW b \in Blocks, pool[b].status = "local"
        PROVE  pc[b[1]] # "idle"
    <3>1. b[1] \in Threads
      BY DEF Blocks
    <3>2. loc[b[1]].op = "insert"
      BY <2>1, <3>1 DEF IInv, ThreadInv, PoolInv
    <3>3. QED
      BY <3>1, <3>2 DEF IInv, Types, InCall
  <2>2. QED
    BY <2>1 DEF IInv, GlobalInv, PoolOK
<1>2. QED
  BY <1>1, Invariant, PTL

-----------------------------------------------------------------------------
(* What the steps do to what is current. *)

(* Neither the published array nor one of its blocks is written. *)
Kept ==
    /\ global' = global /\ Current' = Current
    /\ \A b \in BlocksOf(Current) : content'[b] = content[b]

LEMMA KeptNew ==
    ASSUME IInv, NEW t \in Threads, pc[t] \in Building, NEW x, SetNew(t, x), global' = global
    PROVE  Current' = Current
PROOF
<1>1. New(t) # global.array /\ global.array \in Arrays
  BY NewNotCurrent, TypeFacts DEF IInv
<1>2. arrays \in [Arrays -> ArrayType]
  BY DEF IInv, Types, TypeOK
<1>3. arrays'[global.array] = arrays[global.array]
  BY <1>1, <1>2 DEF SetNew
<1>4. QED
  BY <1>3 DEF Current

LEMMA KeptAllocate ==
    ASSUME IInv, NEW t \in Threads, NEW p, NEW S, Allocate(t, p, S)
    PROVE  \A b \in BlocksOf(Current) : content'[b] = content[b]
PROOF
<1>1. CASE Available(t, p) = {}
  BY <1>1 DEF Allocate
<1>2. CASE Available(t, p) # {}
  <2>1. PICK g : g = get_block(t, p)
    OBVIOUS
  <2>2. g \in Available(t, p) /\ g[1] = t /\ level(g) = p
    BY <1>2, <2>1, GetBlock
  <2>3. g \notin BlocksOf(Current)
    BY <2>2 DEF IInv, GlobalInv, Available
  <2>4. content' = [content EXCEPT ![g] = S]
    BY <1>2, <2>1 DEF Allocate
  <2>5. content \in [Blocks -> SUBSET inserted]
    BY DEF IInv, Types
  <2>6. BlocksOf(Current) \subseteq Blocks
    BY DEF IInv, GlobalInv, WellFormed, HasBlocks, BlocksOf
  <2>7. QED
    BY <2>3, <2>4, <2>5, <2>6
<1>3. QED
  BY <1>1, <1>2

(* A step keeps what is current, unless it publishes; and it takes nothing *)
(* unless it is take or take_dist.                                         *)
LEMMA NextEffects ==
    ASSUME IInv, NEW t \in Threads, Call(t) \/ Step(t)
    PROVE  \/ Kept /\ UNCHANGED <<taken, stolen>>
           \/ Kept /\ (take(t) \/ \E e \in inserted \ taken : take_dist(t, e))
           \/ publish(t)
PROOF
<1>1. ASSUME UNCHANGED <<global, arrays, content>> PROVE Kept
  BY <1>1 DEF Kept, Current
<1>2. CASE cache_ptr(t) \/ cache_ver(t) \/ load(t) \/ read_version(t) \/ fresh_ptr(t)
           \/ fresh_ver(t) \/ reload(t) \/ reread_version(t) \/ copy_check(t) \/ verify_ptr(t)
           \/ verify_ver(t) \/ shrink_skip(t) \/ compact_skip(t) \/ check_ptr(t) \/ peek_ptr(t)
           \/ peek_ver(t)
  <2>1. OnlyLocals
    BY <1>2 DEF cache_ptr, cache_ver, load, read_version, fresh_ptr, fresh_ver, reload,
                reread_version, copy_check, verify_ptr, verify_ver, shrink_skip, compact_skip,
                check_ptr, peek_ptr, peek_ver, LoadPtr
  <2>2. QED
    BY <1>1, <2>1 DEF OnlyLocals
<1>3. CASE copy_version(t) \/ copy_size(t) \/ copy_blocks(t) \/ pick(t) \/ check_ver(t)
           \/ publish_fails(t) \/ \E op \in {"delete_min", "find_min"} : peek(t, op)
  <2>1. UNCHANGED <<global, arrays, content, taken, stolen>>
    BY <1>3 DEF copy_version, copy_size, copy_blocks, pick, check_ver, publish_fails, peek, SetLocal
  <2>2. QED
    BY <1>1, <2>1
<1>4. CASE build_version(t) \/ build_copy(t) \/ build_incr(t) \/ add(t)
  <2>1. /\ pc[t] \in Building /\ UNCHANGED <<global, content, taken, stolen>>
        /\ \E x : SetNew(t, x)
    BY <1>4 DEF build_version, build_copy, build_incr, add, Building, Filling
  <2>2. QED
    BY <2>1, KeptNew DEF Kept
<1>5. CASE add_merge(t) \/ shrink(t) \/ compact(t)
  <2>1. /\ pc[t] \in Building /\ UNCHANGED <<global, taken, stolen>>
        /\ \E x : SetNew(t, x)
        /\ \E p, S : Allocate(t, p, S)
    <3>1. CASE add_merge(t)
      BY <3>1, Zenon DEF add_merge, Building, Filling
    <3>2. CASE shrink(t)
      BY <3>2, Zenon DEF shrink, Building, Filling
    <3>3. CASE compact(t)
      BY <3>3, Zenon DEF compact, Building, Filling
    <3>4. QED
      BY <1>5, <3>1, <3>2, <3>3
  <2>2. QED
    BY <2>1, KeptNew, KeptAllocate DEF Kept
<1>6. CASE \E l \in Loads : insert(t, l[1], Fresh(l[2]))
  <2>1. UNCHANGED <<global, arrays, taken, stolen>> /\ \E p, S : Allocate(t, p, S)
    BY <1>6, Zenon DEF insert
  <2>2. QED
    BY <2>1, KeptAllocate DEF Kept, Current
<1>7. CASE take(t) \/ \E e \in inserted \ taken : take_dist(t, e)
  BY <1>1, <1>7 DEF take, take_dist
<1>8. QED
  BY <1>2, <1>3, <1>4, <1>5, <1>6, <1>7 DEF Call, Calls, Step

LEMMA PublishEffects ==
    ASSUME IInv, NoWrap, ~fault, NEW t \in Threads, publish(t)
    PROVE  /\ global' # global /\ Current'.ver = Current.ver + 1
           /\ Contents(Current)' \ taken = Together(t) \ taken
           /\ UNCHANGED <<taken, stolen, inserted>>
PROOF
<1> DEFINE x == arrays[New(t)]
<1>1. /\ pc[t] = "cas" /\ global = loc[t].packed /\ global' = Packed(New(t), x.ver)
      /\ UNCHANGED <<arrays, content, local, cached, inserted, taken, stolen, fault>>
  BY DEF publish
<1>2. loc[t].seen = Current.ver
  BY <1>1, PublishSeen
<1>3. global'.array = New(t) /\ New(t) # global.array
  BY <1>1, NewNotCurrent DEF Packed, Building, Filled
<1>4. Current' = x /\ BlocksOf(Current)' = BlocksOf(x) /\ Contents(Current)' = Contents(x)
  <2>1. Current' = x
    BY <1>1, <1>3 DEF Current
  <2>2. QED
    BY <1>1, <2>1 DEF BlocksOf, Contents
<1>5. x.ver = Current.ver + 1
  BY <1>1, <1>2, TypeFacts DEF IInv, ThreadInv, OwnInv, New, Filled
<1>6. Contents(x) \ taken = Together(t) \ taken
  BY <1>1, <1>2 DEF IInv, ThreadInv, BuildInv, ContentInv, Filled
<1>7. QED
  BY <1>1, <1>3, <1>4, <1>5, <1>6

(* As long as a version is published, its array and blocks stay as they    *)
(* are: threads only ever write what nobody reaches through the pointer.   *)
THEOREM Immutable == Spec /\ []NoWrap => PublishedImmutable
PROOF
<1>1. IInv /\ NoWrap /\ [Next]_vars =>
          [global' = global => /\ Current' = Current
                               /\ \A b \in BlocksOf(Current) : content'[b] = content[b]]_vars
  <2> SUFFICES ASSUME IInv, NoWrap, ~fault, NEW t \in Threads, Call(t) \/ Step(t), global' = global
               PROVE  /\ Current' = Current
                      /\ \A b \in BlocksOf(Current) : content'[b] = content[b]
    BY DEF Next
  <2>1. ~ publish(t)
    BY PublishEffects
  <2>2. QED
    BY <2>1, NextEffects DEF Kept
<1>2. QED
  BY <1>1, Invariant, PTL DEF Spec, PublishedImmutable

(* Every publication is of the version after the one that is current.      *)
THEOREM Ascending == Spec /\ []NoWrap => VersionsAscend
PROOF
<1>1. IInv /\ NoWrap /\ [Next]_vars =>
          [global' # global => Current'.ver = Current.ver + 1]_vars
  <2> SUFFICES ASSUME IInv, NoWrap, ~fault, NEW t \in Threads, Call(t) \/ Step(t), global' # global
               PROVE  Current'.ver = Current.ver + 1
    BY DEF Next
  <2>1. publish(t)
    BY NextEffects DEF Kept
  <2>2. QED
    BY <2>1, PublishEffects
<1>2. QED
  BY <1>1, Invariant, PTL DEF Spec, VersionsAscend

-----------------------------------------------------------------------------
(* The refinement: publish is the insert of the pool, take its removal.    *)

LEMMA PoolStep ==
    ASSUME IInv, NoWrap, ~fault, NEW t \in Threads, Call(t) \/ Step(t)
    PROVE  [Pool!PoolNext]_(Pool!poolVars)
PROOF
<1> DEFINE C == Contents(Current)
<1> USE DEF Pool!PoolNext, Pool!poolVars, Pool!Insert, Pool!Remove
<1>1. /\ stolen \subseteq taken /\ inserted \subseteq Elements
      /\ C \subseteq inserted /\ Found = C \union taken \union {NoElement}
  BY FoundInserted DEF IInv, Types, TypeOK, Found
<1>2. Kept => C' = C
  BY DEF Kept, Contents, BlocksOf
<1> HIDE DEF C
<1>3. CASE Kept /\ UNCHANGED <<taken, stolen>>
  BY <1>2, <1>3 DEF C
<1>4. CASE Kept /\ take(t)
  <2>1. taken' = taken \union {loc[t].best} /\ UNCHANGED stolen
    BY <1>4 DEF take
  <2>2. loc[t].best \in C \union taken
    <3>1. pc[t] = "take"
      BY <1>4 DEF take
    <3>2. loc[t].best \in Found /\ loc[t].best # NoElement
      BY <3>1 DEF IInv, ThreadInv, PeekInv, Types, InCall
    <3>3. QED
      BY <1>1, <3>2
  <2>3. CASE loc[t].best \in taken
    BY <1>2, <1>4, <2>1, <2>3 DEF C
  <2>4. CASE loc[t].best \in C \ taken
    <3>1. PICK e : e = loc[t].best
      OBVIOUS
    <3>2. /\ e \in Elements /\ e \in C \ taken
          /\ C' \ taken' = (C \ taken) \ {e}
          /\ taken' \ stolen' = (taken \ stolen) \union {e}
      BY <1>1, <1>2, <1>4, <2>1, <2>4, <3>1
    <3>3. Pool!Remove(e)
      BY <3>2 DEF C
    <3>4. QED
      BY <3>2, <3>3
  <2>5. QED
    BY <2>2, <2>3, <2>4
<1>5. ASSUME Kept, NEW e \in inserted \ taken, take_dist(t, e)
      PROVE  [Pool!PoolNext]_(Pool!poolVars)
  <2>1. taken' = taken \union {e} /\ stolen' = stolen \union ({e} \ C)
    BY <1>5 DEF take_dist, C
  <2>2. CASE e \in C
    <3>1. /\ e \in Elements /\ e \in C \ taken
          /\ C' \ taken' = (C \ taken) \ {e}
          /\ taken' \ stolen' = (taken \ stolen) \union {e}
      BY <1>1, <1>2, <1>5, <2>1, <2>2
    <3>2. Pool!Remove(e)
      BY <3>1 DEF C
    <3>3. QED
      BY <3>1, <3>2
  <2>3. CASE e \notin C
    <3>1. C' \ taken' = C \ taken /\ taken' \ stolen' = taken \ stolen
      BY <1>1, <1>2, <1>5, <2>1, <2>3
    <3>2. QED
      BY <3>1 DEF C
  <2>4. QED
    BY <2>2, <2>3
<1>6. CASE publish(t)
  <2>1. C' \ taken = Together(t) \ taken /\ UNCHANGED <<taken, stolen, inserted>>
        /\ Together(t) = C \union content[loc[t].b]
    BY <1>6, PublishEffects DEF Together, C
  <2>2. C' \subseteq inserted
    <3>1. content[loc[t].b] \subseteq inserted
      <4>1. pc[t] = "cas"
        BY <1>6 DEF publish
      <4>2. loc[t].op = "insert"
        BY <4>1 DEF IInv, Types, InCall, Building, Filled
      <4>3. loc[t].b \in Blocks
        BY <4>1, <4>2 DEF IInv, ThreadInv, BuildInv, InsertInv, Mine
      <4>4. QED
        BY <4>3 DEF IInv, Types
    <3>2. taken \subseteq inserted
      BY DEF IInv, Types, TypeOK
    <3>3. QED
      BY <1>1, <2>1, <3>1, <3>2
  <2>3. /\ C \ taken \subseteq C' \ taken'
        /\ C' \ taken' \subseteq Elements \ (taken \ stolen)
        /\ taken' \ stolen' = taken \ stolen
    BY <1>1, <2>1, <2>2
  <2>4. Pool!Insert
    BY <2>3 DEF C
  <2>5. QED
    BY <2>4
<1>7. QED
  BY <1>3, <1>4, <1>5, <1>6, NextEffects

(* The shared LSM implements the relaxed pool: nothing that was published  *)
(* is lost by the merges and the races of inserts, and an element is taken *)
(* once, from what is published.                                           *)
THEOREM Refinement == Spec /\ []NoWrap => ImplementsPool
PROOF
<1>1. Init => Pool!PoolInit
  <2> SUFFICES ASSUME Init PROVE Pool!PoolInit
    OBVIOUS
  <2>1. Current = EmptyArray
    BY DEF Init, Current, Packed, Arrays
  <2>2. EmptyArray.size = 0 /\ 1 .. 0 = {}
    BY DEF EmptyArray
  <2>3. Contents(Current) = {}
    BY <2>1, <2>2 DEF Contents, BlocksOf
  <2>4. QED
    BY <2>3 DEF Init, Pool!PoolInit
<1>2. IInv /\ NoWrap /\ [Next]_vars => [Pool!PoolNext]_(Pool!poolVars)
  <2> SUFFICES ASSUME IInv, NoWrap, [Next]_vars PROVE [Pool!PoolNext]_(Pool!poolVars)
    OBVIOUS
  <2>1. CASE UNCHANGED vars
    BY <2>1 DEF vars, Pool!poolVars, Contents, BlocksOf, Current
  <2>2. CASE Next
    BY <2>2, PoolStep DEF Next
  <2>3. QED
    BY <2>1, <2>2
<1>3. QED
  BY <1>1, <1>2, Invariant, PTL DEF Spec, ImplementsPool, Pool!PoolSpec

-----------------------------------------------------------------------------
(* The block pool: four blocks per level suffice (block_pool.h: "A free    *)
(* block should always exist").  Of every level, a thread never holds more *)
(* than two local blocks when it asks for another, and at most one block   *)
(* is the most recent global one.                                          *)

(* The bound of the model, and in the code MAX_POWER_OF_2: blocks of the   *)
(* largest level are not merged any more.                                  *)
LevelsSuffice ==
    \A t \in Threads :
        /\ pc[t] = "add" /\ SameSize(t) => level(loc[t].ib) < MaxPow
        /\ pc[t] = "compact" /\ Uneven(t) =>
               level(arrays[New(t)].blocks[loc[t].slot + 1]) < MaxPow

Locals(t) == {b \in Blocks : b[1] = t /\ pool[b].status = "local"}

OneEach(S) == \A b, c \in S : level(b) = level(c) => b = c

(* Published blocks of one level have distinct versions. *)
DistinctGlobals(t) ==
    \A b, c \in Blocks :
        /\ b[1] = t /\ c[1] = t /\ level(b) = level(c)
        /\ pool[b].status = "global" /\ pool[c].status = "global" /\ pool[b].ver = pool[c].ver
        => b = c

(* The local blocks L of a thread at p with locals l and new array x: the  *)
(* block to be inserted; then the results of its merges, one of each       *)
(* level; then those of shrink, one of each level above the current slot;  *)
(* then those of compact, one of each level below it.                      *)
Held(p, l, x, L) ==
    /\ p \in Loading \ (Filling \union Filled) => L \subseteq {l.b}
    /\ p = "add" => OneEach(L) /\ \A b \in L : level(b) <= level(l.ib)
    /\ p = "shrink" =>
           \E A \in SUBSET L :
               /\ OneEach(A) /\ OneEach(L \ A)
               /\ \A b \in L \ A : level(b) >= level(x.blocks[l.slot])
    /\ p = "compact" =>
           \E A, B \in SUBSET L :
               /\ OneEach(A) /\ OneEach(B) /\ OneEach(L \ (A \union B))
               /\ \A b \in L \ (A \union B) : level(b) <= level(x.blocks[l.slot + 1])

StockInv(t) == DistinctGlobals(t) /\ Held(pc[t], loc[t], arrays[New(t)], Locals(t))
Stock == \A t \in Threads : StockInv(t)

-----------------------------------------------------------------------------
(* A step of t leaves the others where they are, with their blocks and the *)
(* arrays they build.                                                      *)
LEMMA OwnOnly ==
    ASSUME IInv, NEW t \in Threads, Call(t) \/ Step(t)
    PROVE  /\ \A u \in Threads \ {t} : pc'[u] = pc[u] /\ loc'[u] = loc[u]
           /\ \A a \in Arrays : a[1] # t => arrays'[a] = arrays[a]
           /\ \A b \in Blocks : b[1] # t => pool'[b] = pool[b]
PROOF
<1> DEFINE Where == (\E p, l : Goto(t, p, l)) \/ UNCHANGED <<pc, loc>>
           What  == (\E x : SetNew(t, x)) \/ UNCHANGED arrays
           Which == \/ UNCHANGED pool
                    \/ \E p, S : Allocate(t, p, S)
                    \/ Retry(t)
                    \/ \E v, bs : pool' = Published(t, v, bs)
<1>1. Where /\ What /\ Which
  <2>1. ASSUME NEW p, NEW l, Goto(t, p, l), UNCHANGED <<arrays, pool>>
        PROVE  Where /\ What /\ Which
    BY <2>1
  <2>2. CASE cache_ptr(t) \/ load(t) \/ read_version(t) \/ fresh_ptr(t)
             \/ fresh_ver(t) \/ reload(t) \/ reread_version(t) \/ copy_check(t) \/ verify_ptr(t)
             \/ verify_ver(t) \/ check_ptr(t) \/ peek_ptr(t)
    <3>1. OnlyLocals /\ \E p, l : Goto(t, p, l)
      BY <2>2, Zenon DEF cache_ptr, load, read_version, fresh_ptr, fresh_ver, reload,
                  reread_version, copy_check, verify_ptr, verify_ver, check_ptr, peek_ptr, LoadPtr
    <3>2. QED
      BY <3>1 DEF OnlyLocals
  <2>3. CASE cache_ver(t) \/ peek_ver(t) \/ shrink_skip(t) \/ compact_skip(t)
    <3>1. OnlyLocals /\ \E p, l : Goto(t, p, l)
      BY <2>3 DEF cache_ver, peek_ver, AfterPeek, Return, shrink_skip, NextShrink, compact_skip
    <3>2. QED
      BY <3>1 DEF OnlyLocals
  <2>4. CASE copy_version(t) \/ copy_size(t) \/ copy_blocks(t) \/ pick(t)
             \/ take(t) \/ \E op \in {"delete_min", "find_min"} : peek(t, op)
    <3>1. UNCHANGED <<arrays, pool>> /\ \E p, l : Goto(t, p, l)
      BY <2>4 DEF copy_version, copy_size, copy_blocks, pick, take, Return, peek, SetLocal
    <3>2. QED
      BY <3>1
  <2>5. CASE \E e \in inserted \ taken : take_dist(t, e)
    BY <2>5 DEF take_dist
  <2>6. CASE build_version(t) \/ build_copy(t) \/ build_incr(t) \/ add(t)
    <3>1. UNCHANGED pool /\ (\E p, l : Goto(t, p, l)) /\ \E x : SetNew(t, x)
      BY <2>6 DEF build_version, build_copy, build_incr, add
    <3>2. QED
      BY <3>1
  <2>7. CASE add_merge(t)
    BY <2>7, Zenon DEF add_merge
  <2>8. CASE shrink(t)
    <3>1. \E p, l : Goto(t, p, l)
      BY <2>8 DEF shrink, NextShrink
    <3>2. What /\ Which
      BY <2>8, Zenon DEF shrink
    <3>3. QED
      BY <3>1, <3>2
  <2>9. CASE compact(t)
    BY <2>9, Zenon DEF compact
  <2>10. CASE check_ver(t) \/ publish_fails(t)
    BY <2>10 DEF check_ver, publish_fails, Retry
  <2>11. CASE publish(t)
    BY <2>11 DEF publish, Return
  <2>12. CASE \E l \in Loads : insert(t, l[1], Fresh(l[2]))
    BY <2>12, Zenon DEF insert
  <2>13. QED
    BY <2>2, <2>3, <2>4, <2>5, <2>6, <2>7, <2>8, <2>9, <2>10, <2>11, <2>12
       DEF Call, Calls, Step
<1>2. \A u \in Threads \ {t} : pc'[u] = pc[u] /\ loc'[u] = loc[u]
  BY <1>1 DEF Goto, IInv, Types, TypeOK
<1>3. \A a \in Arrays : a[1] # t => arrays'[a] = arrays[a]
  BY <1>1, TypeFacts DEF SetNew, IInv, Types, TypeOK
<1>4. \A b \in Blocks : b[1] # t => pool'[b] = pool[b]
  <2>1. pool \in [Blocks -> [status : {"free", "local", "global"}, ver : Nat]]
    BY DEF IInv, Types, TypeOK
  <2>2. ASSUME NEW p, NEW S, Allocate(t, p, S), Available(t, p) # {}
        PROVE  \A b \in Blocks : b[1] # t => pool'[b] = pool[b]
    BY <2>1, <2>2, GetBlock DEF Allocate
  <2>3. ASSUME NEW p, NEW S, Allocate(t, p, S), Available(t, p) = {}
        PROVE  UNCHANGED pool
    BY <2>3 DEF Allocate
  <2>4. CASE Retry(t)
    BY <2>1, <2>4 DEF Retry, FreedExcept
  <2>5. ASSUME NEW v, NEW bs, pool' = Published(t, v, bs)
        PROVE  \A b \in Blocks : b[1] # t => pool'[b] = pool[b]
    BY <2>1, <2>5 DEF Published
  <2>6. QED
    BY <1>1, <2>2, <2>3, <2>4, <2>5
<1>5. QED
  BY <1>2, <1>3, <1>4

LEMMA OthersStock ==
    ASSUME IInv, NEW t \in Threads, Call(t) \/ Step(t), NEW u \in Threads \ {t}, StockInv(u)
    PROVE  StockInv(u)'
PROOF
<1>1. /\ pc'[u] = pc[u] /\ loc'[u] = loc[u]
      /\ \A a \in Arrays : a[1] # t => arrays'[a] = arrays[a]
      /\ \A b \in Blocks : b[1] # t => pool'[b] = pool[b]
  BY OwnOnly
<1>2. New(u)' = New(u) /\ arrays'[New(u)] = arrays[New(u)]
  BY <1>1, TypeFacts DEF New, IInv
<1>3. Locals(u)' = Locals(u)
  BY <1>1 DEF Locals
<1>4. DistinctGlobals(u)'
  BY <1>1 DEF StockInv, DistinctGlobals
<1>5. QED
  BY <1>1, <1>2, <1>3, <1>4 DEF StockInv

-----------------------------------------------------------------------------
(* A block is available if two sets with one block of each level hold the  *)
(* local blocks of its level: four blocks, at most three of them in use.   *)
LEMMA Supply ==
    ASSUME BlocksPerLevel >= 4, Types, NEW t \in Threads, DistinctGlobals(t),
           NEW p \in 0 .. MaxPow, NEW A, NEW B, OneEach(A), OneEach(B),
           \A b \in Locals(t) : level(b) = p => b \in A \union B
    PROVE  Available(t, p) # {}
PROOF
<1> DEFINE q(i) == <<t, p, i>>
<1>1. \A i \in 1 .. 4 : q(i) \in Blocks /\ q(i)[1] = t /\ level(q(i)) = p
  BY SharedAssumption DEF Blocks, level
<1>2. \A i, j \in 1 .. 4 : q(i) = q(j) => i = j
  OBVIOUS
<1>3. pool \in [Blocks -> [status : {"free", "local", "global"}, ver : Nat]]
  BY DEF Types, TypeOK
<1>4. SUFFICES ASSUME Available(t, p) = {} PROVE FALSE
  OBVIOUS
<1> DEFINE M == MaxGlobal(t, p)
<1>5. \A i \in 1 .. 4 : q(i) \in A \/ q(i) \in B \/ q(i) \in M
  <2> TAKE i \in 1 .. 4
  <2>1. pool[q(i)].status = "local" \/ q(i) \in M
    BY <1>1, <1>4 DEF Available
  <2>2. pool[q(i)].status = "local" => q(i) \in Locals(t)
    BY <1>1 DEF Locals
  <2>3. QED
    BY <1>1, <2>1, <2>2
<1>6. \A i, j \in 1 .. 4 : q(i) \in M /\ q(j) \in M => i = j
  <2> SUFFICES ASSUME NEW i \in 1 .. 4, NEW j \in 1 .. 4, q(i) \in M, q(j) \in M
               PROVE  i = j
    OBVIOUS
  <2>1. /\ pool[q(i)].status = "global" /\ pool[q(j)].status = "global"
        /\ pool[q(j)].ver <= pool[q(i)].ver /\ pool[q(i)].ver <= pool[q(j)].ver
    BY <1>1 DEF MaxGlobal
  <2>2. pool[q(i)].ver \in Nat /\ pool[q(j)].ver \in Nat
    BY <1>1, <1>3
  <2>3. pool[q(i)].ver = pool[q(j)].ver
    BY <2>1, <2>2
  <2>4. QED
    BY <1>1, <1>2, <2>1, <2>3 DEF DistinctGlobals
<1>7. \A i, j \in 1 .. 4 : (q(i) \in A /\ q(j) \in A) \/ (q(i) \in B /\ q(j) \in B) => i = j
  BY <1>1, <1>2 DEF OneEach
<1> HIDE DEF q, M
<1>8. QED
  BY <1>5, <1>6, <1>7

(* get_block then adds one block of that level to the local ones.          *)
LEMMA AllocateStock ==
    ASSUME Types, ~fault, NEW t \in Threads, DistinctGlobals(t),
           NEW p, NEW S, Allocate(t, p, S), Available(t, p) # {},
           NEW g, g = get_block(t, p)
    PROVE  /\ ~fault' /\ g \in Blocks /\ level(g) = p /\ g \notin Locals(t)
           /\ Locals(t)' = Locals(t) \union {g}
           /\ DistinctGlobals(t)'
PROOF
<1>1. g \in Available(t, p) /\ g \in Blocks /\ g[1] = t /\ level(g) = p
  BY GetBlock
<1>2. pool' = [pool EXCEPT ![g].status = "local"] /\ fault' = fault
  BY DEF Allocate
<1>3. pool \in [Blocks -> [status : {"free", "local", "global"}, ver : Nat]]
  BY DEF Types, TypeOK
<1>4. pool'[g].status = "local" /\ \A c \in Blocks \ {g} : pool'[c] = pool[c]
  BY <1>1, <1>2, <1>3
<1>5. Locals(t)' = Locals(t) \union {g}
  BY <1>1, <1>4 DEF Locals
<1>6. DistinctGlobals(t)'
  BY <1>4 DEF DistinctGlobals
<1>7. g \notin Locals(t)
  BY <1>1 DEF Locals, Available
<1>8. QED
  BY <1>1, <1>2, <1>5, <1>6, <1>7

LEMMA SameStock ==
    ASSUME NEW t \in Threads, UNCHANGED pool
    PROVE  /\ Locals(t)' = Locals(t)
           /\ DistinctGlobals(t) => DistinctGlobals(t)'
  BY DEF Locals, DistinctGlobals

(* A thread that is not inserting holds no local blocks. *)
LEMMA NoLocals ==
    ASSUME IInv, NEW t \in Threads, loc[t].op # "insert"
    PROVE  Locals(t) = {}
  BY DEF IInv, ThreadInv, PoolInv, Locals

(* Steps that leave the pool alone and do not lead into the construction.  *)
LEMMA QuietStep ==
    ASSUME IInv, NEW t \in Threads, StockInv(t), UNCHANGED pool, pc'[t] \notin Filling,
           \/ loc[t].op # "insert"
           \/ pc'[t] \notin Loading \ (Filling \union Filled)
           \/ pc[t] \in Loading \ (Filling \union Filled) /\ loc'[t].b = loc[t].b
    PROVE  StockInv(t)'
PROOF
<1>1. Locals(t)' = Locals(t) /\ DistinctGlobals(t)'
  BY SameStock DEF StockInv
<1>2. loc[t].op # "insert" => Locals(t) = {}
  BY NoLocals
<1>3. Held(pc[t], loc[t], arrays[New(t)], Locals(t))
  BY DEF StockInv
<1>4. pc'[t] \in Loading \ (Filling \union Filled) => Locals(t) \subseteq {loc'[t].b}
  BY <1>2, <1>3 DEF Held
<1>5. Held(pc[t], loc[t], arrays[New(t)], Locals(t))'
  BY <1>1, <1>4 DEF Held, Filling
<1>6. QED
  BY <1>1, <1>5 DEF StockInv

LEMMA InsertStock ==
    ASSUME BlocksPerLevel >= 4, IInv, ~fault, NEW t \in Threads, StockInv(t),
           NEW p \in 0 .. MaxPow, NEW S, insert(t, p, S)
    PROVE  ~fault' /\ StockInv(t)'
PROOF
<1>1. /\ pc[t] = "idle" /\ Allocate(t, p, S)
      /\ Goto(t, "load", [Idle EXCEPT !.op = "insert", !.b = get_block(t, p)])
  BY DEF insert
<1>2. Locals(t) = {}
  BY <1>1, NoLocals DEF IInv, Types, InCall
<1>3. Available(t, p) # {}
  BY <1>2, Supply DEF StockInv, OneEach, IInv
<1>4. PICK g : g = get_block(t, p)
  OBVIOUS
<1>5. ~fault' /\ Locals(t)' = Locals(t) \union {g} /\ DistinctGlobals(t)'
  BY <1>1, <1>3, <1>4, AllocateStock DEF StockInv, IInv
<1>6. pc'[t] = "load" /\ loc'[t] = [Idle EXCEPT !.op = "insert", !.b = g]
  BY <1>1, <1>4, GotoFacts DEF IInv
<1>7. loc'[t].b = g
  BY <1>6 DEF Idle
<1>8. Held(pc[t], loc[t], arrays[New(t)], Locals(t))'
  BY <1>2, <1>5, <1>6, <1>7 DEF Held
<1>9. QED
  BY <1>5, <1>8 DEF StockInv

-----------------------------------------------------------------------------
(* The construction.                                                       *)

LEMMA BuildIncrStock ==
    ASSUME IInv, NEW t \in Threads, StockInv(t), build_incr(t)
    PROVE  StockInv(t)'
PROOF
<1>1. pc[t] = "build_incr" /\ UNCHANGED pool
  BY DEF build_incr
<1>2. PICK n : Goto(t, "add", [loc[t] EXCEPT !.ib = loc[t].b, !.slot = n])
  BY DEF build_incr
<1>3. pc'[t] = "add" /\ loc'[t] = [loc[t] EXCEPT !.ib = loc[t].b, !.slot = n]
  BY <1>2, GotoFacts DEF IInv
<1>4. loc'[t].ib = loc[t].b
  BY <1>3, TypeFacts DEF IInv, LocType
<1>5. Locals(t)' = Locals(t) /\ DistinctGlobals(t)'
  BY <1>1, SameStock DEF StockInv
<1>6. Locals(t) \subseteq {loc[t].b}
  BY <1>1 DEF StockInv, Held, Loading, Loaded, Building, Filling, Filled
<1>7. level(loc[t].b) \in Int
  BY <1>1, TypeFacts, SharedAssumption DEF IInv, LocType, Blocks, NoBlock, level
<1>8. Held(pc[t], loc[t], arrays[New(t)], Locals(t))'
  BY <1>3, <1>4, <1>5, <1>6, <1>7 DEF Held, OneEach, Filling, Filled
<1>9. QED
  BY <1>5, <1>8 DEF StockInv

(* A merge before the block is added allocates one level above all the     *)
(* local blocks.                                                           *)
LEMMA AddMergeStock ==
    ASSUME BlocksPerLevel >= 4, IInv, ~fault, LevelsSuffice, NEW t \in Threads, StockInv(t),
           add_merge(t)
    PROVE  ~fault' /\ StockInv(t)'
PROOF
<1> DEFINE p == level(loc[t].ib) + 1
           l == [loc[t] EXCEPT !.ib = get_block(t, p), !.slot = @ - 1]
<1>1. pc[t] = "add" /\ SameSize(t) /\ Goto(t, "add", l)
  BY DEF add_merge
<1>2. PICK S : Allocate(t, p, S)
  BY Zenon DEF add_merge
<1>3. loc[t].ib \in Blocks /\ level(loc[t].ib) \in 0 .. MaxPow /\ p \in 0 .. MaxPow
  <2>1. loc[t].ib \in Blocks
    BY <1>1 DEF IInv, ThreadInv, BuildInv, InsertInv, Mine
  <2>2. level(loc[t].ib) \in 0 .. MaxPow /\ level(loc[t].ib) < MaxPow
    BY <1>1, <2>1, CapacityOrder DEF LevelsSuffice
  <2>3. QED
    BY <2>1, <2>2, SharedAssumption
<1>4. OneEach(Locals(t)) /\ \A b \in Locals(t) : level(b) <= level(loc[t].ib)
  BY <1>1 DEF StockInv, Held
<1>5. \A b \in Locals(t) : level(b) < p /\ level(b) \in Int
  BY <1>3, <1>4, CapacityOrder DEF Locals
<1>6. Available(t, p) # {}
  <2>1. \A b \in Locals(t) : level(b) # p
    BY <1>3, <1>5
  <2> HIDE DEF p
  <2>2. QED
    BY <1>3, <2>1, Supply DEF StockInv, OneEach, IInv
<1>7. PICK g : g = get_block(t, p)
  OBVIOUS
<1>8. /\ ~fault' /\ level(g) = p /\ g \notin Locals(t)
      /\ Locals(t)' = Locals(t) \union {g} /\ DistinctGlobals(t)'
  BY <1>2, <1>6, <1>7, AllocateStock DEF StockInv, IInv
<1>9. pc'[t] = "add" /\ loc'[t].ib = g
  <2>1. pc'[t] = "add" /\ loc'[t] = l
    BY <1>1, GotoFacts DEF IInv
  <2>2. QED
    BY <1>7, <2>1, TypeFacts DEF IInv, LocType
<1>10. /\ OneEach(Locals(t) \union {g})
       /\ \A b \in Locals(t) \union {g} : level(b) <= level(g)
  BY <1>3, <1>4, <1>5, <1>8 DEF OneEach
<1>11. Held(pc[t], loc[t], arrays[New(t)], Locals(t))'
  BY <1>8, <1>9, <1>10 DEF Held, Filling
<1>12. QED
  BY <1>8, <1>11 DEF StockInv

(* Where compact starts, no block of its own has been allocated yet.       *)
LEMMA HeldCompact ==
    ASSUME NEW L, NEW A \in SUBSET L, OneEach(A), OneEach(L \ A), NEW l, NEW x
    PROVE  Held("compact", l, x, L)
PROOF
<1>1. \E C, B \in SUBSET L :
          /\ OneEach(C) /\ OneEach(B) /\ OneEach(L \ (C \union B))
          /\ \A b \in L \ (C \union B) : level(b) <= level(x.blocks[l.slot + 1])
  <2> WITNESS A \in SUBSET L, L \ A \in SUBSET L
  <2>1. L \ (A \union (L \ A)) = {}
    OBVIOUS
  <2>2. QED
    BY <2>1 DEF OneEach
<1>2. QED
  BY <1>1 DEF Held, Loading, Loaded, Copying, Building, Filling, Filled, Peeking

LEMMA HeldShrink ==
    ASSUME NEW L, NEW A \in SUBSET L, OneEach(A), OneEach(L \ A), NEW l, NEW x,
           \A b \in L \ A : level(b) >= level(x.blocks[l.slot])
    PROVE  Held("shrink", l, x, L)
  BY DEF Held, Loading, Loaded, Copying, Building, Filling, Filled, Peeking

LEMMA AddStock ==
    ASSUME IInv, NEW t \in Threads, StockInv(t), add(t)
    PROVE  StockInv(t)'
PROOF
<1>1. pc[t] = "add" /\ UNCHANGED pool /\ Goto(t, "shrink", [loc[t] EXCEPT !.slot = 1])
  BY DEF add
<1>2. pc'[t] = "shrink"
  BY <1>1, GotoFacts DEF IInv
<1>3. Locals(t)' = Locals(t) /\ DistinctGlobals(t)'
  BY <1>1, SameStock DEF StockInv
<1>4. OneEach(Locals(t)) /\ OneEach({})
  BY <1>1 DEF StockInv, Held, OneEach
<1>5. \A x, l : Held("shrink", l, x, Locals(t))
  <2>1. Locals(t) \ Locals(t) = {}
    OBVIOUS
  <2>2. QED
    BY <1>4, <2>1, HeldShrink, Zenon
<1>6. Held(pc[t], loc[t], arrays[New(t)], Locals(t))'
  BY <1>2, <1>3, <1>5
<1>7. QED
  BY <1>3, <1>6 DEF StockInv


(* What shrink and compact know of the array that is being built.          *)
LEMMA BuildingArray ==
    ASSUME IInv, ~fault, NEW t \in Threads, pc[t] \in {"shrink", "compact"}
    PROVE  /\ arrays[New(t)] \in ArrayType /\ arrays[New(t)].size \in Nat
           /\ loc[t] \in LocType /\ loc[t].slot \in Nat
           /\ \A s \in 1 .. arrays[New(t)].size :
                  /\ arrays[New(t)].blocks[s] \in Blocks
                  /\ level(arrays[New(t)].blocks[s]) \in 0 .. MaxPow
           /\ \A b \in Locals(t) : level(b) \in 0 .. MaxPow
           /\ pc[t] = "shrink" => /\ loc[t].slot \in 1 .. arrays[New(t)].size
                                  /\ Weakly(arrays[New(t)], loc[t].slot)
           /\ pc[t] = "compact" => loc[t].slot < arrays[New(t)].size
PROOF
<1>1. arrays[New(t)] \in ArrayType /\ loc[t] \in LocType
  BY TypeFacts DEF IInv
<1>2. ShapeInv(t)
  BY DEF IInv, ThreadInv, BuildInv
<1>3. HasBlocks(arrays[New(t)])
  BY <1>2 DEF ShapeInv, Filling
<1>4. QED
  BY <1>1, <1>2, <1>3, CapacityOrder, SharedAssumption
     DEF ArrayType, LocType, HasBlocks, ShapeInv, Locals

(* After shrink has dealt with a slot.  y is the new array, from the next  *)
(* slot on as before.                                                      *)
LEMMA ShrunkStock ==
    ASSUME IInv, ~fault, NEW t \in Threads, pc[t] = "shrink", NextShrink(t),
           DistinctGlobals(t)', NEW L, Locals(t)' = L, NEW A \in SUBSET L,
           OneEach(A), OneEach(L \ A),
           \A b \in L \ A : level(b) \in Int /\ level(b) >= level(arrays[New(t)].blocks[loc[t].slot]) - 1,
           NEW y, arrays'[New(t)] = y,
           \A s \in 1 .. arrays[New(t)].size :
               s # loc[t].slot => y.blocks[s] = arrays[New(t)].blocks[s]
    PROVE  StockInv(t)'
PROOF
<1> DEFINE x == arrays[New(t)]
           n == loc[t].slot
<1>1. /\ x \in ArrayType /\ x.size \in Nat /\ n \in 1 .. x.size /\ Weakly(x, n)
      /\ \A s \in 1 .. x.size : level(x.blocks[s]) \in 0 .. MaxPow
  BY BuildingArray
<1>2. PICK p \in {"shrink", "compact"}, l \in LocType :
          /\ Goto(t, p, l) /\ SameAttempt(l, loc[t]) /\ l.obs = loc[t].obs
          /\ p = "shrink" => l.slot = n + 1 /\ l.slot \in 1 .. x.size
          /\ p = "compact" => n = x.size /\ l.slot = n - 1
  BY <1>1, NextShrinkFacts
<1>3. pc'[t] = p /\ loc'[t] = l
  BY <1>2, GotoFacts DEF IInv
<1>4. New(t)' = New(t)
  BY <1>2, <1>3 DEF New
<1>5. ASSUME p = "shrink"
      PROVE  \A b \in L \ A : level(b) >= level(y.blocks[l.slot])
  <2>1. n + 1 \in 1 .. x.size /\ l.slot = n + 1 /\ n < n + 1
    BY <1>1, <1>2, <1>5
  <2>2. level(x.blocks[n]) >= level(x.blocks[n + 1]) + (n + 1 - n)
    BY <1>1, <2>1 DEF Weakly
  <2>3. y.blocks[n + 1] = x.blocks[n + 1]
    BY <1>1, <2>1
  <2>4. level(x.blocks[n]) \in Int /\ level(x.blocks[n + 1]) \in Int
    BY <1>1, <2>1
  <2>5. QED
    BY <1>1, <2>1, <2>2, <2>3, <2>4
<1>6. Held(p, l, y, L)
  <2>1. CASE p = "shrink"
    BY <1>5, <2>1, HeldShrink
  <2>2. CASE p = "compact"
    BY <2>2, HeldCompact
  <2>3. QED
    BY <1>2, <2>1, <2>2
<1>7. Held(pc[t], loc[t], arrays[New(t)], Locals(t))'
  BY <1>3, <1>4, <1>6
<1>8. QED
  BY <1>7 DEF StockInv

LEMMA ShrinkSkipStock ==
    ASSUME IInv, ~fault, NEW t \in Threads, StockInv(t), shrink_skip(t)
    PROVE  StockInv(t)'
PROOF
<1>1. pc[t] = "shrink" /\ NextShrink(t) /\ UNCHANGED <<arrays, pool>>
  BY DEF shrink_skip, OnlyLocals
<1>2. Locals(t)' = Locals(t) /\ DistinctGlobals(t)'
  BY <1>1, SameStock DEF StockInv
<1>3. PICK A \in SUBSET Locals(t) :
          /\ OneEach(A) /\ OneEach(Locals(t) \ A)
          /\ \A b \in Locals(t) \ A : level(b) >= level(arrays[New(t)].blocks[loc[t].slot])
  BY <1>1 DEF StockInv, Held
<1>4. \A b \in Locals(t) \ A :
          /\ level(b) \in Int
          /\ level(b) >= level(arrays[New(t)].blocks[loc[t].slot]) - 1
  BY <1>1, <1>3, BuildingArray
<1>5. PICK y : y = arrays[New(t)]
  OBVIOUS
<1>6. PICK L : L = Locals(t)
  OBVIOUS
<1>7. arrays'[New(t)] = y
  BY <1>1, <1>5
<1>8. QED
  BY <1>1, <1>2, <1>3, <1>4, <1>5, <1>6, <1>7, ShrunkStock

(* The block that replaces a sparse one is one level below it, and thus    *)
(* below those that replaced larger ones.                                  *)
LEMMA ShrinkStock ==
    ASSUME BlocksPerLevel >= 4, IInv, ~fault, NEW t \in Threads, StockInv(t), shrink(t)
    PROVE  ~fault' /\ StockInv(t)'
PROOF
<1> DEFINE x == arrays[New(t)]
           n == loc[t].slot
           b == x.blocks[n]
           p == level(b) - 1
<1>1. /\ pc[t] = "shrink" /\ NextShrink(t)
      /\ Cardinality(content[b] \ taken) < capacity(b) \div 2
      /\ SetNew(t, [x EXCEPT !.blocks[n] = get_block(t, p)])
      /\ Allocate(t, p, content[b] \ taken)
  BY DEF shrink, AtSlot
<1>2. /\ x \in ArrayType /\ x.size \in Nat /\ n \in 1 .. x.size
      /\ b \in Blocks /\ level(b) \in 0 .. MaxPow
      /\ \A c \in Locals(t) : level(c) \in 0 .. MaxPow
  BY <1>1, BuildingArray
<1>3. p \in 0 .. MaxPow
  BY <1>1, <1>2, ShrinkSize DEF IInv
<1>4. PICK A \in SUBSET Locals(t) :
          /\ OneEach(A) /\ OneEach(Locals(t) \ A)
          /\ \A c \in Locals(t) \ A : level(c) >= level(b)
  BY <1>1 DEF StockInv, Held
<1>5. \A c \in Locals(t) \ A : level(c) > p /\ level(c) \in Int
  BY <1>2, <1>4
<1>6. Available(t, p) # {}
  <2>1. \A c \in Locals(t) : level(c) = p => c \in A \union {}
    BY <1>3, <1>5
  <2>2. OneEach({})
    BY DEF OneEach
  <2> HIDE DEF p
  <2>3. QED
    BY <1>3, <1>4, <2>1, <2>2, Supply DEF StockInv, IInv
<1>7. PICK g : g = get_block(t, p)
  OBVIOUS
<1>8. /\ ~fault' /\ g \in Blocks /\ level(g) = p /\ g \notin Locals(t)
      /\ Locals(t)' = Locals(t) \union {g} /\ DistinctGlobals(t)'
  BY <1>1, <1>6, <1>7, AllocateStock, ZenonT(40) DEF StockInv, IInv
<1> DEFINE y == [x EXCEPT !.blocks[n] = g]
<1>9. \A s \in 1 .. x.size : s # n => y.blocks[s] = x.blocks[s]
  BY <1>2 DEF ArrayType
<1>10. arrays'[New(t)] = y
  BY <1>1, <1>7, TypeFacts DEF SetNew, IInv, Types, TypeOK
<1>11. PICK L : L = Locals(t) \union {g}
  OBVIOUS
<1>12. /\ A \in SUBSET L /\ OneEach(A) /\ OneEach(L \ A)
       /\ \A c \in L \ A : level(c) \in Int /\ level(c) >= p
  <2>1. L \ A = (Locals(t) \ A) \union {g}
    BY <1>8, <1>11
  <2>2. QED
    BY <1>3, <1>4, <1>5, <1>8, <1>11, <2>1 DEF OneEach
<1> HIDE DEF y
<1>13. StockInv(t)'
  BY <1>1, <1>8, <1>9, <1>10, <1>11, <1>12, ShrunkStock
<1>14. QED
  BY <1>8, <1>13

(* Where compact stands, with x the array and n + 1 the slot of the        *)
(* smaller block.                                                          *)
LEMMA HeldCompactAt ==
    ASSUME NEW L, NEW A \in SUBSET L, NEW B \in SUBSET L, NEW l, NEW x,
           OneEach(A), OneEach(B), OneEach(L \ (A \union B)),
           \A b \in L \ (A \union B) : level(b) <= level(x.blocks[l.slot + 1])
    PROVE  Held("compact", l, x, L)
  BY DEF Held, Loading, Loaded, Copying, Building, Filling, Filled, Peeking

LEMMA CompactSkipStock ==
    ASSUME IInv, ~fault, NEW t \in Threads, StockInv(t), compact_skip(t)
    PROVE  StockInv(t)'
PROOF
<1> DEFINE x == arrays[New(t)]
           n == loc[t].slot
<1>1. pc[t] = "compact" /\ ~Uneven(t) /\ UNCHANGED <<arrays, pool>>
  BY DEF compact_skip, OnlyLocals
<1>2. /\ x.size \in Nat /\ n \in Nat /\ n < x.size /\ loc[t] \in LocType
      /\ \A s \in 1 .. x.size : level(x.blocks[s]) \in 0 .. MaxPow
      /\ \A b \in Locals(t) : level(b) \in 0 .. MaxPow
  BY <1>1, BuildingArray
<1>3. Locals(t)' = Locals(t) /\ DistinctGlobals(t)'
  BY <1>1, SameStock DEF StockInv
<1>4. CASE n > 0
  <2> DEFINE l == [loc[t] EXCEPT !.slot = n - 1]
  <2>1. pc'[t] = "compact" /\ loc'[t] = l
    BY <1>4, GotoFacts DEF compact_skip, IInv
  <2>2. l.slot = n - 1 /\ l.obs = loc[t].obs
    BY <1>2 DEF LocType
  <2> HIDE DEF l
  <2>3. New(t)' = New(t) /\ arrays'[New(t)] = x
    BY <1>1, <2>1, <2>2 DEF New
  <2>4. PICK A, B \in SUBSET Locals(t) :
            /\ OneEach(A) /\ OneEach(B) /\ OneEach(Locals(t) \ (A \union B))
            /\ \A b \in Locals(t) \ (A \union B) : level(b) <= level(x.blocks[n + 1])
    BY <1>1 DEF StockInv, Held
  <2>5. level(x.blocks[n]) > level(x.blocks[n + 1])
    BY <1>1, <1>2, <1>4 DEF Uneven, AtSlot
  <2>6. n \in 1 .. x.size /\ n + 1 \in 1 .. x.size /\ l.slot + 1 = n
    BY <1>2, <1>4, <2>2
  <2>7. \A b \in Locals(t) \ (A \union B) : level(b) <= level(x.blocks[l.slot + 1])
    BY <1>2, <2>4, <2>5, <2>6
  <2>8. Held("compact", l, x, Locals(t))
    BY <2>4, <2>7, HeldCompactAt
  <2>9. Held(pc[t], loc[t], arrays[New(t)], Locals(t))'
    BY <1>3, <2>1, <2>3, <2>8
  <2>10. QED
    BY <1>3, <2>9 DEF StockInv
<1>5. CASE ~ (n > 0)
  <2>1. pc'[t] = "check_ptr"
    BY <1>5, GotoFacts DEF compact_skip, IInv
  <2>2. QED
    BY <1>1, <2>1, QuietStep DEF Filling, Filled
<1>6. QED
  BY <1>4, <1>5

(* The merged block is one level above the smaller of the two, and thus    *)
(* above those that were merged before.                                    *)
LEMMA CompactStock ==
    ASSUME BlocksPerLevel >= 4, IInv, ~fault, LevelsSuffice, NEW t \in Threads, StockInv(t),
           compact(t)
    PROVE  ~fault' /\ StockInv(t)'
PROOF
<1> DEFINE x == arrays[New(t)]
           n == loc[t].slot
           small == x.blocks[n + 1]
           p == level(small) + 1
           z == RemoveSlot(x, n + 1)
<1>1. /\ pc[t] = "compact" /\ Uneven(t)
      /\ SetNew(t, [z EXCEPT !.blocks[n] = get_block(t, p)])
      /\ Goto(t, "compact", [loc[t] EXCEPT !.slot = n - 1])
  BY Zenon DEF compact
<1>2. PICK S : Allocate(t, p, S)
  BY Zenon DEF compact
<1>3. /\ x \in ArrayType /\ x.size \in Nat /\ n \in Nat /\ n < x.size /\ loc[t] \in LocType
      /\ \A s \in 1 .. x.size : level(x.blocks[s]) \in 0 .. MaxPow
      /\ \A b \in Locals(t) : level(b) \in 0 .. MaxPow
  BY <1>1, BuildingArray
<1>4. n > 0 /\ n \in 1 .. x.size /\ n + 1 \in 1 .. x.size
  BY <1>1, <1>3 DEF Uneven
<1>5. p \in 0 .. MaxPow /\ level(small) \in 0 .. MaxPow
  <2>1. level(small) < MaxPow /\ level(small) \in 0 .. MaxPow
    BY <1>1, <1>3, <1>4 DEF LevelsSuffice
  <2>2. QED
    BY <2>1, SharedAssumption
<1>6. PICK A, B \in SUBSET Locals(t) :
          /\ OneEach(A) /\ OneEach(B) /\ OneEach(Locals(t) \ (A \union B))
          /\ \A b \in Locals(t) \ (A \union B) : level(b) <= level(small)
  BY <1>1 DEF StockInv, Held
<1>7. \A b \in Locals(t) \ (A \union B) : level(b) < p /\ level(b) \in Int
  BY <1>3, <1>5, <1>6
<1>8. Available(t, p) # {}
  <2>1. \A b \in Locals(t) : level(b) = p => b \in A \union B
    BY <1>5, <1>7
  <2> HIDE DEF p
  <2>2. QED
    BY <1>5, <1>6, <2>1, Supply DEF StockInv, IInv
<1>9. PICK g : g = get_block(t, p)
  OBVIOUS
<1>10. /\ ~fault' /\ g \in Blocks /\ level(g) = p /\ g \notin Locals(t)
       /\ Locals(t)' = Locals(t) \union {g} /\ DistinctGlobals(t)'
  BY <1>2, <1>8, <1>9, AllocateStock DEF StockInv, IInv
<1> DEFINE y == [z EXCEPT !.blocks[n] = g]
           l == [loc[t] EXCEPT !.slot = n - 1]
<1>11. y.blocks[n] = g
  <2>1. z \in ArrayType /\ z.size = x.size - 1
    BY <1>3, <1>4, RemoveSlotFacts
  <2>2. n \in Slots
    BY <1>3, <1>4, SharedAssumption DEF ArrayType, Slots
  <2> HIDE DEF z
  <2>3. QED
    BY <2>1, <2>2 DEF ArrayType
<1>12. arrays'[New(t)] = y
  BY <1>1, <1>9, TypeFacts DEF SetNew, IInv, Types, TypeOK
<1>13. pc'[t] = "compact" /\ loc'[t] = l
  BY <1>1, GotoFacts DEF IInv
<1>14. l.slot + 1 = n /\ l.obs = loc[t].obs
  BY <1>3, <1>4 DEF LocType
<1> HIDE DEF y, l, z
<1>15. New(t)' = New(t)
  BY <1>13, <1>14 DEF New
<1>16. PICK L : L = Locals(t) \union {g}
  OBVIOUS
<1>17. /\ A \in SUBSET L /\ B \in SUBSET L
       /\ OneEach(L \ (A \union B))
       /\ \A b \in L \ (A \union B) : level(b) <= level(y.blocks[l.slot + 1])
  <2>1. L \ (A \union B) = (Locals(t) \ (A \union B)) \union {g}
    BY <1>10, <1>16
  <2>2. level(y.blocks[l.slot + 1]) = p
    BY <1>10, <1>11, <1>14
  <2>3. QED
    <3> HIDE DEF p
    <3>1. \A b \in L \ (A \union B) : b = g \/ b \in Locals(t) \ (A \union B)
      BY <2>1
    <3>2. \A b \in L \ (A \union B) : IF b = g THEN level(b) = p ELSE level(b) < p
      BY <1>7, <1>10, <3>1
    <3>3. p \in Int /\ \A b \in Locals(t) : level(b) \in Int
      BY <1>5, CapacityOrder DEF Locals
    <3>4. OneEach(L \ (A \union B))
      BY <1>6, <1>10, <3>1, <3>2, <3>3 DEF OneEach
    <3>5. \A b \in L \ (A \union B) : level(b) <= p
      BY <1>7, <1>10, <3>1, <3>3
    <3>6. QED
      BY <1>6, <1>16, <2>2, <3>4, <3>5
<1>18. Held("compact", l, y, L)
  BY <1>6, <1>17, HeldCompactAt
<1>19. Held(pc[t], loc[t], arrays[New(t)], Locals(t))'
  BY <1>10, <1>12, <1>13, <1>15, <1>16, <1>18
<1>20. QED
  BY <1>10, <1>19 DEF StockInv

-----------------------------------------------------------------------------
(* The end of an attempt.                                                  *)

LEMMA RetryStock ==
    ASSUME IInv, NEW t \in Threads, StockInv(t), Retry(t)
    PROVE  StockInv(t)'
PROOF
<1>1. /\ pool' = FreedExcept(t, loc[t].b)
      /\ Goto(t, "load", [Idle EXCEPT !.op = "insert", !.b = loc[t].b])
  BY DEF Retry
<1>2. pc'[t] = "load" /\ loc'[t].b = loc[t].b
  <2> DEFINE l == [Idle EXCEPT !.op = "insert", !.b = loc[t].b]
  <2>1. l.b = loc[t].b
    BY DEF Idle
  <2> HIDE DEF l
  <2>2. pc'[t] = "load" /\ loc'[t] = l
    BY <1>1, GotoFacts DEF IInv, l
  <2>3. QED
    BY <2>1, <2>2
<1>3. pool \in [Blocks -> [status : {"free", "local", "global"}, ver : Nat]]
  BY DEF IInv, Types, TypeOK
<1>4. \A b \in Blocks :
          /\ b[1] = t /\ pool'[b].status = "local" => b = loc[t].b
          /\ pool'[b].status = "global" => pool'[b] = pool[b]
  BY <1>1, <1>3 DEF FreedExcept
<1>5. Locals(t)' \subseteq {loc[t].b}
  BY <1>4 DEF Locals
<1>6. DistinctGlobals(t)'
  BY <1>4 DEF StockInv, DistinctGlobals
<1>7. Held(pc[t], loc[t], arrays[New(t)], Locals(t))'
  BY <1>2, <1>5 DEF Held
<1>8. QED
  BY <1>6, <1>7 DEF StockInv

(* The blocks of the new version are of different levels, and no other     *)
(* block has that version.                                                 *)
LEMMA PublishStock ==
    ASSUME IInv, NoWrap, ~fault, NEW t \in Threads, StockInv(t), publish(t)
    PROVE  StockInv(t)'
PROOF
<1> DEFINE x == arrays[New(t)]
<1>1. /\ pc[t] = "cas" /\ global = loc[t].packed /\ Goto(t, "idle", Idle)
      /\ pool' = Published(t, x.ver, BlocksOf(x))
  BY DEF publish, Return
<1>2. pc'[t] = "idle"
  BY <1>1, GotoFacts DEF IInv
<1>3. x.ver = Current.ver + 1 /\ x.ver \in Nat /\ Current.ver \in Nat
  <2>1. loc[t].seen = Current.ver
    BY <1>1, PublishSeen
  <2>2. QED
    BY <1>1, <2>1, TypeFacts DEF IInv, ThreadInv, OwnInv, New, Filled, ArrayType
<1>4. PICK v \in Nat, bs \in {BlocksOf(x)} : v = x.ver
  BY <1>3
<1>5. \A b \in Blocks :
          /\ b[1] = t => pool'[b].status # "local"
          /\ b[1] = t /\ b \in bs => pool'[b].ver = v
          /\ b[1] = t /\ pool'[b].status = "global" => b \in bs \/ pool'[b] = pool[b]
  <2>1. pool' = Published(t, v, bs)
    BY <1>1, <1>4
  <2> HIDE DEF x
  <2>2. QED
    BY <2>1, PublishedFacts DEF IInv
<1>6. Locals(t)' = {}
  BY <1>5 DEF Locals
<1>7. \A b \in Blocks : b[1] = t /\ pool[b].status = "global" => pool[b].ver < v /\ pool[b].ver \in Nat
  BY <1>3, <1>4 DEF IInv, ThreadInv, PoolInv, Types, TypeOK
<1>8. \A b, c \in bs : level(b) = level(c) => b = c
  <2>1. HasBlocks(x) /\ Falling(x) /\ x.size \in Nat
    BY <1>1, TypeFacts DEF IInv, ThreadInv, BuildInv, ShapeInv, Filled, ArrayType
  <2>2. \A s, u \in 1 .. x.size : s < u => level(x.blocks[s]) > level(x.blocks[u])
    <3> SUFFICES ASSUME NEW s \in 1 .. x.size, NEW u \in 1 .. x.size, s < u
                 PROVE  level(x.blocks[s]) > level(x.blocks[u])
      OBVIOUS
    <3>1. level(x.blocks[s]) \in Int /\ level(x.blocks[u]) \in Int
      BY <2>1, CapacityOrder DEF HasBlocks
    <3>2. QED
      BY <2>1, <3>1 DEF Falling
  <2>3. \A s \in 1 .. x.size : level(x.blocks[s]) \in Int
    BY <2>1, CapacityOrder DEF HasBlocks
  <2>4. \A s, u \in 1 .. x.size :
            level(x.blocks[s]) = level(x.blocks[u]) => x.blocks[s] = x.blocks[u]
    BY <2>1, <2>2, <2>3
  <2>5. QED
    BY <1>4, <2>4 DEF BlocksOf
<1>9. DistinctGlobals(t)'
  <2> SUFFICES ASSUME NEW b \in Blocks, NEW c \in Blocks, b[1] = t, c[1] = t,
                      level(b) = level(c), pool'[b].status = "global",
                      pool'[c].status = "global", pool'[b].ver = pool'[c].ver
               PROVE  b = c
    BY DEF DistinctGlobals
  <2>1. CASE b \in bs /\ c \in bs
    BY <1>8, <2>1
  <2>2. CASE b \notin bs /\ c \notin bs
    BY <1>5, <2>2 DEF StockInv, DistinctGlobals
  <2>3. CASE (b \in bs) # (c \in bs)
    BY <1>5, <1>7, <2>3
  <2>4. QED
    BY <2>1, <2>2, <2>3
<1>10. Held(pc[t], loc[t], arrays[New(t)], Locals(t))'
  BY <1>2, <1>6 DEF Held, Loading, Loaded, Copying, Building, Filling, Filled, Peeking
<1>11. QED
  BY <1>9, <1>10 DEF StockInv

(* Everything else leaves the pool alone. *)
LEMMA RefreshStock ==
    ASSUME IInv, ~fault, NEW t \in Threads, StockInv(t),
           \/ cache_ptr(t) \/ cache_ver(t) \/ load(t) \/ read_version(t) \/ fresh_ptr(t)
           \/ fresh_ver(t) \/ reload(t) \/ reread_version(t) \/ copy_version(t) \/ copy_size(t)
           \/ copy_blocks(t) \/ copy_check(t) \/ verify_ptr(t) \/ verify_ver(t)
           \/ build_version(t) \/ build_copy(t) \/ check_ptr(t) \/ pick(t) \/ peek_ptr(t)
           \/ peek_ver(t) \/ take(t) \/ \E op \in {"delete_min", "find_min"} : peek(t, op)
    PROVE  ~fault' /\ StockInv(t)'
PROOF
<1> USE DEF Loading, Loaded, Copying, Building, Filling, Filled, Peeking
<1>1. loc[t] \in LocType /\ InCall(pc[t], loc[t])
  BY TypeFacts DEF IInv, Types
<1>2. ASSUME NEW p \in Pcs, NEW l, Goto(t, p, l), UNCHANGED <<pool, fault>>, p \notin Filling,
             \/ loc[t].op # "insert"
             \/ p \notin Loading \ (Filling \union Filled)
             \/ pc[t] \in Loading \ (Filling \union Filled) /\ l.b = loc[t].b
      PROVE  ~fault' /\ StockInv(t)'
  <2>1. pc'[t] = p /\ loc'[t] = l
    BY <1>2, GotoFacts DEF IInv
  <2>2. QED
    BY <1>2, <2>1, QuietStep
<1>3. CASE cache_ptr(t) \/ cache_ver(t) \/ pick(t) \/ peek_ptr(t) \/ peek_ver(t) \/ take(t)
           \/ \E op \in {"delete_min", "find_min"} : peek(t, op)
  <2>1. loc[t].op # "insert" /\ UNCHANGED <<pool, fault>>
    BY <1>1, <1>3 DEF InCall, cache_ptr, cache_ver, pick, peek_ptr, peek_ver, take, peek,
                      LoadPtr, OnlyLocals
  <2>2. \E p \in Pcs \ Filling : \E l : Goto(t, p, l)
    BY <1>3 DEF cache_ptr, cache_ver, pick, peek_ptr, peek_ver, take, peek,
                LoadPtr, AfterPeek, Return, Pcs
  <2>3. QED
    BY <1>2, <2>1, <2>2
<1>4. CASE load(t) \/ read_version(t) \/ fresh_ptr(t) \/ reload(t) \/ reread_version(t)
           \/ verify_ptr(t)
  <2>1. pc[t] \in Loading \ (Filling \union Filled) /\ UNCHANGED <<pool, fault>>
    BY <1>4 DEF load, read_version, fresh_ptr, reload, reread_version, verify_ptr, LoadPtr, OnlyLocals
  <2>2. \E p \in Pcs \ Filling : \E l : Goto(t, p, l) /\ l.b = loc[t].b
    <3>1. \A v : /\ [loc[t] EXCEPT !.obs = v].b = loc[t].b
                 /\ [loc[t] EXCEPT !.ptr = v].b = loc[t].b
      BY <1>1 DEF LocType
    <3>2. \A v, w : [loc[t] EXCEPT !.packed = v, !.seen = w].b = loc[t].b
      BY <1>1 DEF LocType
    <3>3. CASE load(t) \/ reload(t)
      <4> DEFINE l == [loc[t] EXCEPT !.packed = global, !.seen = Current.ver]
      <4>1. l.b = loc[t].b
        BY <3>2
      <4>2. Goto(t, "version", l) \/ Goto(t, "reversion", l)
        BY <3>3 DEF load, reload
      <4> HIDE DEF l
      <4>3. QED
        BY <4>1, <4>2 DEF Pcs
    <3>4. CASE read_version(t) \/ fresh_ptr(t) \/ reread_version(t) \/ verify_ptr(t)
      BY <3>1, <3>4, ZenonT(40) DEF read_version, fresh_ptr, reread_version, verify_ptr, LoadPtr, Pcs
    <3>5. QED
      BY <1>4, <3>3, <3>4
  <2>3. QED
    BY <1>2, <2>1, <2>2
<1>5. CASE fresh_ver(t) \/ copy_version(t) \/ copy_size(t) \/ copy_blocks(t) \/ copy_check(t)
           \/ verify_ver(t) \/ build_version(t) \/ build_copy(t)
  <2>1. pc[t] \in Loading \ (Filling \union Filled) /\ UNCHANGED <<pool, fault>>
    BY <1>5 DEF fresh_ver, copy_version, copy_size, copy_blocks, copy_check, verify_ver,
                build_version, build_copy, SetLocal, OnlyLocals
  <2>2. \E p \in Pcs \ Filling : Goto(t, p, loc[t])
    BY <1>5 DEF fresh_ver, copy_version, copy_size, copy_blocks, copy_check, verify_ver,
                build_version, build_copy, Refreshed, Pcs
  <2>3. QED
    BY <1>2, <2>1, <2>2
<1>6. CASE check_ptr(t)
  <2>1. UNCHANGED <<pool, fault>> /\ \E l : Goto(t, "check_ver", l)
    BY <1>6 DEF check_ptr, LoadPtr, OnlyLocals
  <2>2. QED
    BY <1>2, <2>1 DEF Pcs
<1>7. QED
  BY <1>3, <1>4, <1>5, <1>6

LEMMA StepStock ==
    ASSUME BlocksPerLevel >= 4, IInv, NoWrap, LevelsSuffice, ~fault,
           NEW t \in Threads, StockInv(t), Call(t) \/ Step(t)
    PROVE  ~fault' /\ StockInv(t)'
PROOF
<1>1. CASE build_incr(t)
  BY <1>1, BuildIncrStock DEF build_incr
<1>2. CASE add_merge(t)
  BY <1>2, AddMergeStock
<1>3. CASE add(t)
  BY <1>3, AddStock DEF add
<1>4. CASE shrink(t)
  BY <1>4, ShrinkStock
<1>5. CASE shrink_skip(t)
  BY <1>5, ShrinkSkipStock DEF shrink_skip, OnlyLocals
<1>6. CASE compact(t)
  BY <1>6, CompactStock
<1>7. CASE compact_skip(t)
  BY <1>7, CompactSkipStock DEF compact_skip, OnlyLocals
<1>8. CASE check_ver(t)
  <2>1. CASE Retry(t)
    BY <1>8, <2>1, RetryStock DEF check_ver
  <2>2. CASE Goto(t, "cas", loc[t]) /\ UNCHANGED pool
    <3>1. pc'[t] = "cas"
      BY <2>2, GotoFacts DEF IInv
    <3>2. QED
      BY <1>8, <2>2, <3>1, QuietStep DEF check_ver, Filling, Filled
  <2>3. QED
    BY <1>8, <2>1, <2>2 DEF check_ver
<1>9. CASE publish(t)
  BY <1>9, PublishStock DEF publish
<1>10. CASE publish_fails(t)
  BY <1>10, RetryStock DEF publish_fails
<1>11. CASE \E e \in inserted \ taken : take_dist(t, e)
  <2>1. UNCHANGED <<pool, fault, pc, loc>> /\ pc[t] = "idle"
    BY <1>11 DEF take_dist
  <2>2. QED
    BY <2>1, QuietStep
       DEF Loading, Loaded, Copying, Building, Filling, Filled, Peeking
<1>12. CASE \E l \in Loads : insert(t, l[1], Fresh(l[2]))
  <2>1. PICK l \in Loads : insert(t, l[1], Fresh(l[2]))
    BY <1>12
  <2>2. l[1] \in 0 .. MaxPow
    BY SharedAssumption
  <2>3. QED
    BY <2>1, <2>2, InsertStock
<1>13. QED
  BY <1>1, <1>2, <1>3, <1>4, <1>5, <1>6, <1>7, <1>8, <1>9, <1>10, <1>11, <1>12, RefreshStock
     DEF Call, Calls, Step

LEMMA InitStock == Init => ~fault /\ Stock
PROOF
<1> SUFFICES ASSUME Init, NEW t \in Threads PROVE ~fault /\ StockInv(t)
  BY DEF Stock, Init
<1>1. /\ ~fault /\ pc[t] = "idle"
      /\ \A b \in Blocks : pool[b].status = "free"
  BY DEF Init
<1>2. Locals(t) = {} /\ DistinctGlobals(t)
  BY <1>1 DEF Locals, DistinctGlobals
<1>3. Held(pc[t], loc[t], arrays[New(t)], Locals(t))
  BY <1>1, <1>2 DEF Held, Loading, Loaded, Copying, Building, Filling, Filled, Peeking
<1>4. QED
  BY <1>1, <1>2, <1>3 DEF StockInv

LEMMA NextStock ==
    ASSUME BlocksPerLevel >= 4, IInv, NoWrap, LevelsSuffice, ~fault, Stock, [Next]_vars
    PROVE  ~fault' /\ Stock'
PROOF
<1>1. CASE Next
  <2>1. PICK t \in Threads : Call(t) \/ Step(t)
    BY <1>1 DEF Next
  <2>2. ~fault' /\ StockInv(t)'
    BY <2>1, StepStock DEF Stock
  <2>3. ASSUME NEW u \in Threads \ {t} PROVE StockInv(u)'
    BY <2>1, OthersStock DEF Stock
  <2>4. QED
    BY <2>2, <2>3 DEF Stock
<1>2. CASE UNCHANGED vars
  <2>1. UNCHANGED <<pool, pc, loc, arrays, fault>>
    BY <1>2 DEF vars
  <2>2. ASSUME NEW t \in Threads PROVE StockInv(t)'
    <3>1. Locals(t)' = Locals(t) /\ DistinctGlobals(t)' /\ New(t)' = New(t)
      BY <2>1, SameStock DEF Stock, StockInv, New
    <3>2. QED
      BY <2>1, <3>1 DEF Stock, StockInv
  <2>3. QED
    BY <2>1, <2>2 DEF Stock
<1>3. QED
  BY <1>1, <1>2

(* block_pool.h: "A free block should always exist".  With four blocks per *)
(* level get_block finds one, however inserts, merges, compactions and     *)
(* failed attempts follow each other.                                      *)
THEOREM FourBlocksSuffice ==
    ASSUME BlocksPerLevel >= 4
    PROVE  Spec /\ []NoWrap /\ []LevelsSuffice => []PoolSuffices
PROOF
<1>1. Init => ~fault /\ Stock
  BY InitStock
<1>2. IInv /\ NoWrap /\ LevelsSuffice /\ (~fault /\ Stock) /\ [Next]_vars => (~fault /\ Stock)'
  BY NextStock
<1>3. ~fault /\ Stock => PoolSuffices
  BY DEF PoolSuffices
<1>4. QED
  BY <1>1, <1>2, <1>3, Invariant, PTL DEF Spec
=============================================================================
