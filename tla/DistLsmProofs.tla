---------------------------- MODULE DistLsmProofs ----------------------------
(***************************************************************************)
(* The theorems about DistLsm.  First, the lists are well formed,          *)
(* block_storage never runs out of blocks and the blocks are in key order, *)
(* for any number of threads, items and block sizes: the invariant is that *)
(* of DistListProofs, which has the steps of insert; here are the others.  *)
(* Then, no element is lost and none is stored twice; at last, a scan      *)
(* finds the least element of its thread.                                  *)
(***************************************************************************)
EXTENDS DistListProofs, FiniteSetTheorems

(* Steps that leave all blocks alone. *)

(* A step that only moves its thread on, to where no block is worked on.   *)
Moved(t, p, l) ==
    /\ p \in Pcs /\ l \in LocType /\ Goto(t, p, l)
    /\ p \notin {"merge"} \union Copying
    /\ p = "scan" => l.b \in List(t) \union {Null}
    /\ p = "shrink" => l.b \in List(t)
    /\ p = "spy" => l.n = 0

(* Such a step keeps the invariant.                                        *)
LEMMA MovedStep ==
    ASSUME Inv, NEW t \in Threads, pc[t] \notin {"merge"} \union Copying,
           NEW p, NEW l, Moved(t, p, l), blk' = blk, fault' = fault,
           UNCHANGED <<head, tail, spied>>,
           version' \in [Items -> Nat], key' = key, cached' \in [Threads -> Entry],
           shared' \subseteq Elements
    PROVE  Inv'
PROOF
<1>1. /\ Types /\ FieldTypes /\ fault = FALSE
      /\ StateOK(blk[t], List(t), head[t], tail[t], spied[t], pc[t], loc[t])
      /\ ListAt(blk[t], List(t), head[t], tail[t], spied[t], Work(pc[t], loc[t]))
  BY ThreadFacts
<1>2. Work(pc[t], loc[t]) = {} /\ Work(p, l) = {}
  BY DEF Work, Moved
<1>3. StateOK(blk[t], List(t), head[t], tail[t], spied[t], p, l)
  BY <1>1, <1>2 DEF StateOK, Moved
<1>4. /\ pc' \in [Threads -> Pcs] /\ loc' \in [Threads -> LocType]
      /\ pc'[t] = p /\ loc'[t] = l
      /\ \A x \in Threads \ {t} : pc'[x] = pc[x] /\ loc'[x] = loc[x]
  BY <1>1, GotoOK DEF Moved
<1>5. FieldTypes'
  BY <1>1, <1>4 DEF FieldTypes
<1>6. Others(t)
  BY <1>4 DEF Others
<1>7. CopyOK(t)'
  BY <1>4, NotCopying DEF Moved
<1>8. StateOK(blk[t], List(t), head'[t], tail'[t], spied'[t], pc'[t], loc'[t])
  BY <1>3, <1>4
<1>9. fault' = FALSE
  BY <1>1
<1>10. QED
  BY <1>5, <1>6, <1>7, <1>8, <1>9, QuietStep

(* Where peek()'s caller goes on.                                          *)
LEMMA AfterPeekOK ==
    ASSUME NEW t, NEW best \in Entry, AfterPeek(t, best)
    PROVE  \E p \in {"idle", "take", "spy"}, l \in LocType :
               Goto(t, p, l) /\ (p = "spy" => l.n = 0)
PROOF
<1>1. Idle \in LocType
  BY IdleOK
<1>2. [Idle EXCEPT !.op = "delete_min", !.best = best] \in LocType
  BY <1>1 DEF LocType
<1>3. /\ [Idle EXCEPT !.op = "delete_min"] \in LocType
      /\ [Idle EXCEPT !.op = "delete_min"].n = 0
  BY <1>1 DEF LocType, Idle
<1>4. \/ Goto(t, "idle", Idle)
      \/ Goto(t, "take", [Idle EXCEPT !.op = "delete_min", !.best = best])
      \/ Goto(t, "spy", [Idle EXCEPT !.op = "delete_min"])
  BY DEF AfterPeek, Return
<1>5. QED
  BY <1>1, <1>2, <1>3, <1>4

(* delete_min, find_min, call_spy *)
LEMMA callStep ==
    ASSUME Inv, NEW t \in Threads, delete_min(t) \/ find_min(t) \/ call_spy(t)
    PROVE  Inv'
PROOF
<1> DEFINE l(o) == [Idle EXCEPT !.op = o]
<1>1. FieldTypes /\ fault = FALSE
  BY ThreadFacts
<1>2. PICK p \in {"peek", "spy"}, o \in {"delete_min", "find_min", "spy"} :
         Goto(t, p, l(o)) /\ pc[t] = "idle"
         /\ UNCHANGED <<version, key, blk, lists, shared, fault>>
  BY DEF delete_min, find_min, call_spy
<1>3. l(o) \in LocType /\ l(o).n = 0
  BY IdleOK DEF LocType, Idle
<1> HIDE DEF l
<1>4. Moved(t, p, l(o))
  BY <1>2, <1>3 DEF Moved, Pcs, Copying
<1>5. QED
  BY <1>1, <1>2, <1>4, MovedStep DEF FieldTypes, lists, Copying

(* peek_cached *)
LEMMA peek_cachedStep ==
    ASSUME Inv, NEW t \in Threads, peek_cached(t)
    PROVE  Inv'
PROOF
<1>1. FieldTypes /\ fault = FALSE
  BY ThreadFacts
<1>2. cached[t] \in Entry
  BY <1>1 DEF FieldTypes
<1>3. pc[t] = "peek" /\ AfterPeek(t, cached[t])
      /\ UNCHANGED <<version, key, blk, lists, shared, fault>>
  BY DEF peek_cached
<1>4. PICK p \in {"idle", "take", "spy"}, l \in LocType :
         Goto(t, p, l) /\ (p = "spy" => l.n = 0)
  BY <1>2, <1>3, AfterPeekOK
<1>5. Moved(t, p, l)
  BY <1>4 DEF Moved, Pcs, Copying
<1>6. QED
  BY <1>1, <1>3, <1>5, MovedStep DEF FieldTypes, lists, Copying

(* peek_scan *)
LEMMA peek_scanStep ==
    ASSUME Inv, NEW t \in Threads, peek_scan(t)
    PROVE  Inv'
PROOF
<1> DEFINE l == [loc[t] EXCEPT !.b = head[t]]
<1>1. /\ FieldTypes /\ fault = FALSE /\ loc[t] \in LocType
      /\ Linked(blk[t], List(t), head[t], tail[t])
  BY ThreadFacts
<1>2. pc[t] = "peek" /\ Goto(t, "scan", l)
      /\ UNCHANGED <<version, key, blk, lists, shared, fault>>
  BY DEF peek_scan
<1>3. l \in LocType /\ l.b = head[t]
  BY <1>1 DEF LocType, FieldTypes
<1>4. head[t] \in List(t) \union {Null}
  BY <1>1, Ends
<1> HIDE DEF l
<1>5. Moved(t, "scan", l)
  BY <1>2, <1>3, <1>4 DEF Moved, Pcs, Copying
<1>6. QED
  BY <1>1, <1>2, <1>5, MovedStep DEF FieldTypes, lists, Copying

(* advance *)
LEMMA advanceStep ==
    ASSUME Inv, NEW t \in Threads, advance(t)
    PROVE  Inv'
PROOF
<1> DEFINE b == loc[t].b
           best == IF Better(loc[t].cand, loc[t].best) THEN loc[t].cand ELSE loc[t].best
           nxt == blk[t][b].next
           l == [loc[t] EXCEPT !.best = best, !.cand = EMPTY, !.b = nxt]
<1>1. /\ FieldTypes /\ fault = FALSE /\ loc[t] \in LocType
      /\ Linked(blk[t], List(t), head[t], tail[t])
      /\ StateOK(blk[t], List(t), head[t], tail[t], spied[t], pc[t], loc[t])
      /\ ListAt(blk[t], List(t), head[t], tail[t], spied[t], Work(pc[t], loc[t]))
  BY ThreadFacts
<1>2. pc[t] = "shrink" /\ Goto(t, "scan", l)
      /\ UNCHANGED <<version, key, blk, lists, shared, fault>>
  BY DEF advance
<1>3. b \in List(t) /\ List(t) \subseteq Blocks
  BY <1>1, <1>2, ListFacts DEF StateOK
<1>4. nxt \in List(t) \union {Null}
  BY <1>1, <1>3, Ends
<1>5. best \in Entry /\ EMPTY \in Entry /\ nxt \in Pointer
  BY <1>1, <1>3, <1>4 DEF LocType, Entry, Pointer
<1> HIDE DEF best, nxt
<1>6. l \in LocType /\ l.b = nxt
  BY <1>1, <1>5 DEF LocType
<1> HIDE DEF l
<1>7. Moved(t, "scan", l)
  BY <1>2, <1>4, <1>6 DEF Moved, Pcs, Copying
<1>8. QED
  BY <1>1, <1>2, <1>7, MovedStep DEF FieldTypes, lists, Copying

(* An item's version is counted up.                                        *)
LEMMA Counted ==
    ASSUME NEW f \in [Items -> Nat], NEW x, NEW v, v = f[x] \/ v = f[x] + 1
    PROVE  [f EXCEPT ![x] = v] \in [Items -> Nat]
PROOF
<1>1. x \in Items => v \in Nat
  OBVIOUS
<1>2. QED
  BY <1>1

(* take *)
LEMMA takeStep ==
    ASSUME Inv, NEW t \in Threads, take(t)
    PROVE  Inv'
PROOF
<1>1. FieldTypes /\ fault = FALSE
  BY ThreadFacts
<1>2. /\ pc[t] = "take" /\ Goto(t, "idle", Idle)
      /\ version' = [version EXCEPT ![loc[t].best.item] =
                        IF Taken(loc[t].best) THEN @ ELSE @ + 1]
      /\ UNCHANGED <<key, blk, lists, shared, fault>>
  BY DEF take, Return
<1>3. version' \in [Items -> Nat]
  <2> DEFINE x == loc[t].best.item
             v == IF Taken(loc[t].best) THEN version[x] ELSE version[x] + 1
  <2>1. version' = [version EXCEPT ![x] = v]
    BY <1>2
  <2>2. v = version[x] \/ v = version[x] + 1
    OBVIOUS
  <2>3. version \in [Items -> Nat]
    BY <1>1 DEF FieldTypes
  <2> HIDE DEF x, v
  <2>4. QED
    BY <2>1, <2>2, <2>3, Counted
<1>4. Moved(t, "idle", Idle)
  BY <1>2, IdleOK DEF Moved, Pcs, Copying
<1>5. QED
  BY <1>1, <1>2, <1>3, <1>4, MovedStep DEF FieldTypes, lists, Copying

(* take_shared *)
LEMMA take_sharedStep ==
    ASSUME Inv, NEW t \in Threads, take_shared(t)
    PROVE  Inv'
PROOF
<1>1. FieldTypes /\ fault = FALSE /\ loc[t] \in LocType
  BY ThreadFacts
<1>2. PICK e \in shared : /\ version' = [version EXCEPT ![e.item] = @ + 1]
                          /\ shared' = shared \ {e}
  BY DEF take_shared
<1>3. pc[t] = "idle" /\ UNCHANGED <<key, blk, lists, pc, loc, fault>>
  BY DEF take_shared
<1>4. version' \in [Items -> Nat]
  <2> DEFINE v == version[e.item] + 1
  <2>1. version' = [version EXCEPT ![e.item] = v] /\ version \in [Items -> Nat]
    BY <1>1, <1>2 DEF FieldTypes
  <2>2. QED
    BY <2>1, Counted
<1>5. Goto(t, "idle", loc[t])
  BY <1>1, <1>3 DEF Goto, FieldTypes
<1>6. Moved(t, "idle", loc[t])
  BY <1>1, <1>5 DEF Moved, Pcs, Copying
<1>7. QED
  BY <1>1, <1>2, <1>3, <1>4, <1>6, MovedStep DEF FieldTypes, lists, Copying

-----------------------------------------------------------------------------
(* Steps that peek a block. *)

Peeked(bs, c) == IF c = Null THEN bs ELSE [bs EXCEPT ![c] = PeekBlock(version, @)]

(* A list is not changed by peeking one of its blocks, or the spied one.   *)
LEMMA PeekedOK ==
    ASSUME NEW bs \in [Blocks -> AnyBlock], NEW S, NEW h, NEW tl, NEW sp,
           ListAt(bs, S, h, tl, sp, {}), NEW c \in S \union {sp, Null}
    PROVE  LET new == Peeked(bs, c)
           IN  /\ ListAt(new, S, h, tl, sp, {})
               /\ \A x \in Blocks : BlockOK(x, new[x], Elements) /\ Grows(bs[x], new[x])
PROOF
<1> DEFINE new == Peeked(bs, c)
           y == PeekBlock(version, bs[c])
<1>1. /\ \A x \in Blocks : BlockOK(x, bs[x], Elements)
      /\ S \subseteq Blocks /\ sp \in Pointer /\ sp \notin S
  BY ListFacts
<1>2. Null \notin Blocks /\ (c # Null => c \in Blocks)
  BY <1>1, Sizes DEF Pointer
<1>3. \A x \in Blocks : Grows(bs[x], bs[x])
  BY <1>1, SameEntriesKeep DEF SameEntries
<1>4. CASE c = Null
  <2>1. new = bs
    BY <1>4 DEF Peeked
  <2> HIDE DEF new
  <2>2. QED
    BY <1>1, <1>3, <2>1 DEF new
<1>5. CASE c # Null
  <2>1. c \in Blocks /\ BlockOK(c, bs[c], Elements) /\ EMPTY \notin Elements
    BY <1>1, <1>2, <1>5, ItemsOK
  <2>2. /\ BlockOK(c, y, Elements) /\ Grows(bs[c], y) /\ (Ordered(bs[c]) => Ordered(y))
        /\ y.used = bs[c].used /\ y.next = bs[c].next /\ y.prev = bs[c].prev
    BY <2>1, PeekOK
  <2>3. new = [bs EXCEPT ![c] = y]
    BY <1>5 DEF Peeked
  <2> HIDE DEF new, y
  <2>4. new[c] = y /\ \A x \in Blocks \ {c} : new[x] = bs[x]
    BY <2>1, <2>3
  <2>5. \A x \in Blocks : BlockOK(x, new[x], Elements) /\ Grows(bs[x], new[x])
    BY <1>1, <1>3, <2>2, <2>4
  <2>6. Linked(bs, S, h, tl)
    BY DEF ListAt
  <2>7. Linked(new, S, h, tl)
    BY <1>1, <2>2, <2>4, <2>6, LinkedSame
  <2>8. \A x \in S : new[x].used /\ Ordered(new[x])
    BY <1>1, <2>2, <2>4 DEF ListAt
  <2>9. sp # Null => new[sp].used
    BY <1>1, <2>2, <2>4 DEF ListAt, Pointer
  <2>10. \A x \in Blocks \ (S \union {sp}) : Blank(new[x])
    BY <1>5, <2>4 DEF ListAt
  <2>11. ListAt(new, S, h, tl, sp, {})
    BY <1>1, <2>5, <2>7, <2>8, <2>9, <2>10 DEF ListAt
  <2>12. QED
    BY <2>5, <2>11 DEF new
<1>6. QED
  BY <1>4, <1>5

(* A step that peeks one block and moves its thread on.                    *)
LEMMA PeekStep ==
    ASSUME Inv, NEW t \in Threads, pc[t] \notin {"merge"} \union Copying,
           NEW c \in List(t) \union {spied[t], Null}, SetBlocks(t, Peeked(blk[t], c)),
           NEW p, NEW l, Moved(t, p, l), fault' = fault,
           UNCHANGED <<version, key, head, tail, spied, shared>>, cached' \in [Threads -> Entry]
    PROVE  Inv' /\ List(t)' = List(t) /\ Others(t)
PROOF
<1> DEFINE new == Peeked(blk[t], c)
<1>1. /\ Types /\ FieldTypes /\ fault = FALSE /\ blk[t] \in [Blocks -> AnyBlock]
      /\ StateOK(blk[t], List(t), head[t], tail[t], spied[t], pc[t], loc[t])
      /\ ListAt(blk[t], List(t), head[t], tail[t], spied[t], Work(pc[t], loc[t]))
  BY ThreadFacts
<1>2. Work(pc[t], loc[t]) = {} /\ Work(p, l) = {}
  BY DEF Work, Moved
<1>3. /\ ListAt(new, List(t), head[t], tail[t], spied[t], {})
      /\ \A x \in Blocks : BlockOK(x, new[x], Elements) /\ Grows(blk[t][x], new[x])
  BY <1>1, <1>2, PeekedOK
<1> HIDE DEF new
<1>4. StateOK(new, List(t), head[t], tail[t], spied[t], p, l)
  BY <1>2, <1>3 DEF StateOK, Moved
<1>5. /\ pc' \in [Threads -> Pcs] /\ loc' \in [Threads -> LocType]
      /\ pc'[t] = p /\ loc'[t] = l
      /\ \A x \in Threads \ {t} : pc'[x] = pc[x] /\ loc'[x] = loc[x]
  BY <1>1, GotoOK DEF Moved
<1>6. FieldTypes'
  BY <1>1, <1>5 DEF FieldTypes
<1>7. Others(t)
  BY <1>5 DEF Others
<1>8. CopyOK(t)'
  BY <1>5, NotCopying DEF Moved
<1>9. StateOK(new, List(t), head'[t], tail'[t], spied'[t], pc'[t], loc'[t])
  BY <1>4, <1>5
<1>10. SetBlocks(t, new) /\ fault' = FALSE /\ Written(t, new)
  BY <1>1, <1>3 DEF Written, new
<1> DEFINE S == List(t)
<1>11. Inv' /\ List(t)' = S
  BY <1>6, <1>7, <1>8, <1>9, <1>10, WriteStep
<1>12. QED
  BY <1>7, <1>11

(* scan_block *)
LEMMA scan_blockStep ==
    ASSUME Inv, NEW t \in Threads, scan_block(t)
    PROVE  Inv'
PROOF
<1> DEFINE b == loc[t].b
           cand == PeekItem(version, blk[t][b])
           l == [loc[t] EXCEPT !.cand = cand]
<1>1. /\ FieldTypes /\ fault = FALSE /\ loc[t] \in LocType
      /\ StateOK(blk[t], List(t), head[t], tail[t], spied[t], pc[t], loc[t])
      /\ ListAt(blk[t], List(t), head[t], tail[t], spied[t], Work(pc[t], loc[t]))
  BY ThreadFacts
<1>2. /\ pc[t] = "scan" /\ b # Null /\ Goto(t, "shrink", l)
      /\ SetBlocks(t, [blk[t] EXCEPT ![b] = PeekBlock(version, @)])
      /\ UNCHANGED <<version, key, lists, shared, fault>>
  BY DEF scan_block
<1>3. b \in List(t) /\ b \in Blocks /\ BlockOK(b, blk[t][b], Elements)
  BY <1>1, <1>2, ListFacts DEF StateOK
<1>4. cand \in Entry
  BY <1>3, ItemsOK, PeekOK
<1> HIDE DEF cand
<1>5. l \in LocType /\ l.b = b
  BY <1>1, <1>4 DEF LocType
<1> HIDE DEF l
<1>6. Moved(t, "shrink", l)
  BY <1>2, <1>3, <1>5 DEF Moved, Pcs, Copying
<1>7. SetBlocks(t, Peeked(blk[t], b))
  BY <1>2 DEF Peeked
<1> HIDE DEF b
<1>8. QED
  BY <1>1, <1>2, <1>3, <1>6, <1>7, PeekStep DEF FieldTypes, lists, Copying

(* scan_end *)
LEMMA scan_endStep ==
    ASSUME Inv, NEW t \in Threads, scan_end(t)
    PROVE  Inv'
PROOF
<1> DEFINE look == ~Is(loc[t].best) /\ spied[t] # Null
           best == IF look THEN PeekItem(version, blk[t][spied[t]]) ELSE loc[t].best
<1>1. /\ FieldTypes /\ fault = FALSE /\ loc[t] \in LocType
      /\ ListAt(blk[t], List(t), head[t], tail[t], spied[t], Work(pc[t], loc[t]))
  BY ThreadFacts
<1>2. /\ pc[t] = "scan"
      /\ IF look THEN SetBlocks(t, [blk[t] EXCEPT ![spied[t]] = PeekBlock(version, @)])
                 ELSE UNCHANGED blk
      /\ cached' = [cached EXCEPT ![t] = best]
      /\ AfterPeek(t, best)
      /\ UNCHANGED <<version, key, head, tail, spied, shared, fault>>
  BY DEF scan_end
<1>3. best \in Entry
  <2>1. CASE look
    <3>1. spied[t] \in Blocks /\ BlockOK(spied[t], blk[t][spied[t]], Elements)
      BY <1>1, <2>1, ListFacts DEF Pointer
    <3>2. PeekItem(version, blk[t][spied[t]]) \in Entry
      BY <3>1, ItemsOK, PeekOK
    <3>3. QED
      BY <2>1, <3>2
  <2>2. CASE ~look
    BY <1>1, <2>2 DEF LocType
  <2>3. QED
    BY <2>1, <2>2
<1> HIDE DEF best
<1>4. cached' \in [Threads -> Entry]
  BY <1>1, <1>2, <1>3 DEF FieldTypes
<1>5. PICK p \in {"idle", "take", "spy"}, l \in LocType :
         Goto(t, p, l) /\ (p = "spy" => l.n = 0)
  BY <1>2, <1>3, AfterPeekOK
<1>6. Moved(t, p, l)
  BY <1>5 DEF Moved, Pcs, Copying
<1>7. CASE look
  <2>1. SetBlocks(t, Peeked(blk[t], spied[t]))
    BY <1>2, <1>7 DEF Peeked
  <2>2. QED
    BY <1>1, <1>2, <1>4, <1>6, <2>1, PeekStep DEF Copying
<1>8. CASE ~look
  BY <1>1, <1>2, <1>4, <1>6, <1>8, MovedStep DEF FieldTypes, Copying
<1>9. QED
  BY <1>7, <1>8

(* spy_abort *)
LEMMA spy_abortStep ==
    ASSUME Inv, NEW t \in Threads, spy_abort(t)
    PROVE  Inv'
PROOF
<1> DEFINE c == IF tail[t] # Null THEN Null ELSE spied[t]
<1>1. FieldTypes /\ fault = FALSE
  BY ThreadFacts
<1>2. /\ pc[t] = "spy" /\ SetBlocks(t, SpyPeeked(t)) /\ Goto(t, "idle", Idle)
      /\ UNCHANGED <<version, key, lists, shared, fault>>
  BY DEF spy_abort, Return
<1>3. SpyPeeked(t) = Peeked(blk[t], c)
  BY DEF SpyPeeked, Peeked
<1>4. Moved(t, "idle", Idle)
  BY <1>2, IdleOK DEF Moved, Pcs, Copying
<1>5. c \in List(t) \union {spied[t], Null}
  OBVIOUS
<1>6. SetBlocks(t, Peeked(blk[t], c))
  BY <1>2, <1>3
<1> HIDE DEF c
<1>7. QED
  BY <1>1, <1>2, <1>4, <1>5, <1>6, PeekStep DEF FieldTypes, lists, Copying

-----------------------------------------------------------------------------
(* unlink *)
LEMMA unlinkStep ==
    ASSUME Inv, NEW t \in Threads, unlink(t)
    PROVE  LET R == List(t) \ {loc[t].b}
           IN  /\ Inv' /\ List(t)' = R /\ Others(t)
               /\ \E new : Relists(t, new, R)
PROOF
<1> DEFINE bs == blk[t]
           S == List(t)
           h == head[t]
           tl == tail[t]
           b == loc[t].b
           nxt == bs[b].next
           prv == bs[b].prev
           fwd == IF b = tl THEN bs ELSE [bs EXCEPT ![nxt].prev = prv]
           bwd == IF b = h THEN fwd ELSE [fwd EXCEPT ![prv].next = nxt]
           new == Release(bwd, {b})
           R == S \ {b}
           h2 == IF b = h THEN nxt ELSE h
           tl2 == IF b = tl THEN prv ELSE tl
<1>1. /\ pc[t] = "shrink"
      /\ tail' = IF b = tl THEN [tail EXCEPT ![t] = prv] ELSE tail
      /\ head' = IF b = h THEN [head EXCEPT ![t] = nxt] ELSE head
      /\ SetBlocks(t, new) /\ AfterPeek(t, loc[t].best)
      /\ UNCHANGED <<version, key, spied, cached, shared, fault>>
  BY DEF unlink
<1>2. /\ Types /\ FieldTypes /\ fault = FALSE /\ bs \in [Blocks -> AnyBlock]
      /\ loc[t] \in LocType
      /\ StateOK(bs, S, h, tl, spied[t], pc[t], loc[t])
      /\ ListAt(bs, S, h, tl, spied[t], Work(pc[t], loc[t]))
      /\ Linked(bs, S, h, tl)
  BY ThreadFacts
<1>3. ListAt(bs, S, h, tl, spied[t], {}) /\ b \in S
  BY <1>1, <1>2 DEF Work, Copying, StateOK
<1>4. /\ \A x \in Blocks : BlockOK(x, bs[x], Elements)
      /\ S \subseteq Blocks /\ b \in Blocks /\ Null \notin Blocks
      /\ h \in Pointer /\ tl \in Pointer
  BY <1>3, ListFacts, Sizes
<1>5. PICK p \in {"idle", "take", "spy"}, l \in LocType :
         Goto(t, p, l) /\ (p = "spy" => l.n = 0)
  BY <1>1, <1>2, AfterPeekOK DEF LocType
<1> HIDE DEF bs, S, h, tl, b
<1>6. /\ b = h <=> prv = Null
      /\ b = tl <=> nxt = Null
      /\ nxt \in S \union {Null} /\ prv \in S \union {Null}
      /\ nxt # b /\ prv # b
  <2>1. /\ b = h <=> prv = Null
        /\ b = tl <=> nxt = Null
        /\ nxt \in S \union {Null} /\ prv \in S \union {Null}
        /\ prv # Null => pow(prv) > pow(b)
        /\ nxt # Null => pow(nxt) < pow(b)
    BY <1>2, <1>3, Ends
  <2>2. b # Null /\ pow(b) \in Nat
    BY <1>4, Sizes
  <2>3. QED
    BY <2>1, <2>2
<1>7. nxt \in Pointer /\ prv \in Pointer
  BY <1>4, <1>6 DEF Pointer
<1> HIDE DEF nxt, prv
<1>8. /\ Relinked(bs, fwd)
      /\ \A x \in Blocks : /\ fwd[x].prev = IF x = nxt THEN prv ELSE bs[x].prev
                           /\ fwd[x].next = bs[x].next
  <2>1. fwd = PrevSet(bs, nxt, prv)
    BY <1>6 DEF PrevSet
  <2> HIDE DEF fwd
  <2>2. QED
    BY <1>2, <1>4, <1>7, <2>1, SetPrevOK
<1> HIDE DEF fwd
<1>9. /\ Relinked(fwd, bwd)
      /\ \A x \in Blocks : /\ bwd[x].next = IF x = prv THEN nxt ELSE fwd[x].next
                           /\ bwd[x].prev = fwd[x].prev
  <2>1. bwd = NextSet(fwd, prv, nxt)
    BY <1>6 DEF NextSet
  <2>2. fwd \in [Blocks -> AnyBlock] /\ \A x \in Blocks : BlockOK(x, fwd[x], Elements)
    BY <1>8 DEF Relinked
  <2> HIDE DEF bwd
  <2>3. QED
    BY <1>7, <2>1, <2>2, SetNextOK
<1> HIDE DEF bwd
<1>10. /\ Relinked(bs, bwd)
       /\ \A x \in Blocks : /\ bwd[x].prev = IF x = nxt THEN prv ELSE bs[x].prev
                            /\ bwd[x].next = IF x = prv THEN nxt ELSE bs[x].next
  BY <1>8, <1>9, RelinkedTwice
<1>11. Linked(bwd, R, h2, tl2)
  <2>1. Bypassed(bs, S, b, bwd)
    BY <1>4, <1>10 DEF nxt, prv, Bypassed
  <2>3. h2 = IF b = h THEN bs[b].next ELSE h
    BY DEF nxt
  <2>4. tl2 = IF b = tl THEN bs[b].prev ELSE tl
    BY DEF prv
  <2>5. R = S \ {b}
    OBVIOUS
  <2> HIDE DEF R, h2, tl2
  <2>6. QED
    BY <1>2, <1>3, <2>1, <2>3, <2>4, <2>5, Remove
<1>12. h2 \in Pointer /\ tl2 \in Pointer
  BY <1>4, <1>7
<1> HIDE DEF h2, tl2
<1>13. ListAt(new, R, h2, tl2, spied[t], {})
  <2>1. /\ \A x \in R : x \in S \/ x \in {}
        /\ \A x : x \in {b} <=> (x \in S \/ x \in {}) /\ x \notin R
    BY <1>3
  <2>2. \A x \in Blocks \ (S \union {}) : bwd[x].next = bs[x].next /\ bwd[x].prev = bs[x].prev
    BY <1>4, <1>6, <1>10
  <2> HIDE DEF R
  <2>3. QED
    BY <1>3, <1>10, <1>11, <2>1, <2>2, ListAfter
<1>14. Written(t, new)
  BY <1>4, <1>10, Released DEF Written, bs
<1>26. R \subseteq Blocks /\ \A x \in R : SameEntries(bs[x], new[x])
  <2>1. R \in SUBSET Blocks /\ \A x \in R : x \notin {b}
    BY <1>4
  <2> HIDE DEF R
  <2>2. QED
    BY <1>10, <2>1, ReleasedSame
<1>15. p \in Pcs /\ p \notin {"merge", "scan", "shrink"} \union Copying
  BY DEF Pcs, Copying
<1>16. StateOK(new, R, h2, tl2, spied[t], p, l)
  BY <1>5, <1>13, <1>15 DEF StateOK, Work
<1>17. /\ pc' \in [Threads -> Pcs] /\ loc' \in [Threads -> LocType]
       /\ pc'[t] = p /\ loc'[t] = l
       /\ \A x \in Threads \ {t} : pc'[x] = pc[x] /\ loc'[x] = loc[x]
  BY <1>2, <1>5, <1>15, GotoOK
<1>18. /\ head' \in [Threads -> Pointer] /\ tail' \in [Threads -> Pointer]
       /\ head'[t] = h2 /\ tail'[t] = tl2
       /\ \A x \in Threads \ {t} : head'[x] = head[x] /\ tail'[x] = tail[x]
  BY <1>1, <1>2, <1>7 DEF FieldTypes, h2, tl2, h, tl
<1> HIDE DEF new
<1>19. FieldTypes'
  BY <1>1, <1>2, <1>17, <1>18 DEF FieldTypes
<1>20. Others(t)
  BY <1>1, <1>17, <1>18 DEF Others
<1>21. CopyOK(t)'
  BY <1>15, <1>17, NotCopying
<1>22. StateOK(new, R, head'[t], tail'[t], spied'[t], pc'[t], loc'[t])
  BY <1>1, <1>16, <1>17, <1>18
<1>23. SetBlocks(t, new) /\ fault' = FALSE
  BY <1>1, <1>2
<1>24. Inv' /\ List(t)' = R
  BY <1>14, <1>19, <1>20, <1>21, <1>22, <1>23, WriteStep
<1>25. Relists(t, new, R)
  BY <1>14, <1>15, <1>17, <1>23, <1>26 DEF Relists, bs
<1>27. QED
  BY <1>20, <1>24, <1>25 DEF S, b

-----------------------------------------------------------------------------
(* spy() and copy(). *)

(* spy *)
LEMMA spyStep ==
    ASSUME Inv, N >= 4, NEW t \in Threads, spy(t)
    PROVE  /\ Inv' /\ List(t)' = List(t) /\ Others(t)
           /\ \E c, new :
                  /\ c \in Pointer
                  /\ SetBlocks(t, new) /\ Written(t, new) /\ pc'[t] # "merge"
                  /\ \A x \in List(t) : new[x] = Peeked(blk[t], c)[x]
PROOF
<1> DEFINE bs == blk[t]
           S == List(t)
           c == IF tail[t] # Null THEN Null ELSE spied[t]
           mid == Peeked(bs, c)
<1>1. /\ pc[t] = "spy"
      /\ UNCHANGED <<version, key, lists, shared>>
  BY DEF spy
<1>2. PICK v \in Threads \ {t} :
         /\ head[v] # Null
         /\ fault' = (fault \/ bs[get_block(bs, pow(head[v]))].used)
         /\ SetBlocks(t, [SpyPeeked(t) EXCEPT ![get_block(bs, pow(head[v]))] = set_used(@)])
         /\ Goto(t, "copy_first", [loc[t] EXCEPT !.b = get_block(bs, pow(head[v])),
                                                 !.victim = v, !.from = head[v]])
  BY DEF spy, CheckUnused
<1> DEFINE from == head[v]
           b == get_block(bs, pow(from))
           y == set_used(bs[b])
           new == [mid EXCEPT ![b] = set_used(@)]
           l == [loc[t] EXCEPT !.b = b, !.victim = v, !.from = from]
<1>3. SetBlocks(t, new)
  <2>1. SpyPeeked(t) = mid
    BY DEF SpyPeeked, Peeked
  <2> HIDE DEF mid
  <2>2. QED
    BY <1>2, <2>1
<1>4. /\ Types /\ FieldTypes /\ fault = FALSE /\ bs \in [Blocks -> AnyBlock]
      /\ loc[t] \in LocType
      /\ StateOK(bs, S, head[t], tail[t], spied[t], pc[t], loc[t])
      /\ ListAt(bs, S, head[t], tail[t], spied[t], Work(pc[t], loc[t]))
      /\ Linked(bs, S, head[t], tail[t])
  BY ThreadFacts
<1>5. ListAt(bs, S, head[t], tail[t], spied[t], {}) /\ loc[t].n = 0
  BY <1>1, <1>4 DEF Work, Copying, StateOK
<1>6. from \in Blocks
  <2>1. Linked(blk[v], List(v), head[v], tail[v])
    BY <1>2, ThreadFacts
  <2>2. List(v) \subseteq Blocks
    BY <2>1 DEF Linked
  <2>3. head[v] \in List(v)
    BY <1>2, <2>1, Ends
  <2>4. QED
    BY <2>2, <2>3
<1>7. c \in S \union {spied[t], Null}
  OBVIOUS
<1> HIDE DEF bs, S, c
<1>8. /\ \A x \in Blocks : BlockOK(x, bs[x], Elements)
      /\ S \subseteq Blocks /\ spied[t] \in Pointer /\ spied[t] \notin S
  BY <1>5, ListFacts
<1>9. pow(from) \in 0 .. MaxPow
  BY <1>6, Sizes
<1>10. b \in Blocks /\ pow(b) = pow(from) /\ b \notin S /\ b # spied[t] /\ Blank(bs[b])
  BY <1>5, <1>9, FreeBlock
<1>11. b # c
  BY <1>7, <1>10, Sizes
<1> HIDE DEF b, from
<1>12. /\ ListAt(mid, S, head[t], tail[t], spied[t], {})
       /\ \A x \in Blocks : BlockOK(x, mid[x], Elements) /\ Grows(bs[x], mid[x])
  BY <1>4, <1>5, <1>7, PeekedOK
<1>13. mid[b] = bs[b] /\ DOMAIN mid = Blocks
  BY <1>4, <1>10, <1>11 DEF Peeked
<1> HIDE DEF mid
<1>14. new[b] = y /\ \A x \in Blocks \ {b} : new[x] = mid[x]
  BY <1>10, <1>13
<1>15. /\ BlockOK(b, y, Elements) /\ y.used /\ y.first = 0 /\ y.last = 0
       /\ Grows(bs[b], y) /\ Ordered(y)
  <2>1. BlockOK(b, y, Elements) /\ SameEntries(bs[b], y) /\ y.used
    BY <1>8, <1>10, SetUsedOK
  <2> HIDE DEF y
  <2>2. y.first = 0 /\ y.last = 0
    BY <1>10, <2>1 DEF SameEntries, Blank
  <2>3. Grows(bs[b], y)
    BY <1>8, <1>10, <2>1, SameEntriesKeep
  <2>4. Ordered(y)
    BY <2>2 DEF Ordered
  <2>5. QED
    BY <2>1, <2>2, <2>3, <2>4
<1> HIDE DEF new, y
<1>16. Written(t, new)
  BY <1>12, <1>14, <1>15 DEF Written, bs
<1>17. ListAt(new, S, head[t], tail[t], spied[t], {b})
  <2>1. \A x \in Blocks : BlockOK(x, new[x], Elements)
    BY <1>12, <1>14, <1>15
  <2>2. \A x \in Blocks \ {b} : Settled(mid[x], new[x]) \/ (x = spied[t] /\ new[x].used)
    BY <1>14 DEF Settled
  <2>3. new[b].used /\ Ordered(new[b])
    BY <1>14, <1>15
  <2>4. QED
    BY <1>10, <1>12, <2>1, <2>2, <2>3, AddWork
<1>18. l \in LocType /\ l.b = b /\ l.victim = v /\ l.from = from /\ l.n = 0
  BY <1>4, <1>5, <1>6, <1>10 DEF LocType, Pointer
<1> HIDE DEF l
<1>19. StateOK(new, S, head[t], tail[t], spied[t], "copy_first", l)
  BY <1>17, <1>18 DEF StateOK, Work, Copying
<1>20. /\ pc' \in [Threads -> Pcs] /\ loc' \in [Threads -> LocType]
       /\ pc'[t] = "copy_first" /\ loc'[t] = l
       /\ \A x \in Threads \ {t} : pc'[x] = pc[x] /\ loc'[x] = loc[x]
  <2>1. "copy_first" \in Pcs /\ Goto(t, "copy_first", l)
    BY <1>2 DEF Pcs, l, b, from
  <2>2. QED
    BY <1>4, <1>18, <2>1, GotoOK
<1>21. fault' = FALSE
  BY <1>2, <1>4, <1>10 DEF b, from, Blank
<1>22. FieldTypes'
  BY <1>1, <1>4, <1>20 DEF FieldTypes, lists
<1>23. Others(t)
  BY <1>1, <1>20 DEF Others, lists
<1>24. StateOK(new, S, head'[t], tail'[t], spied'[t], pc'[t], loc'[t])
  BY <1>1, <1>19, <1>20 DEF lists
<1>25. CopyOK(t)'
  <2>1. Settled(new[b], blk'[t][b])
    BY <1>3, <1>4, <1>10, <1>16, SetBlocksOK
  <2>2. blk'[t][b].first = 0 /\ blk'[t][b].last = 0
    BY <1>14, <1>15, <2>1 DEF Settled
  <2>3. pc'[t] = "copy_first" /\ pow(from) = pow(b) /\ v \in Threads \ {t}
    BY <1>2, <1>10, <1>20
  <2>4. QED
    BY <1>6, <1>10, <1>18, <1>20, <2>2, <2>3 DEF CopyOK
<1>26. Inv' /\ List(t)' = S
  BY <1>3, <1>16, <1>21, <1>22, <1>23, <1>24, <1>25, WriteStep
<1>27. c \in Pointer /\ \A x \in S : new[x] = mid[x]
  BY <1>7, <1>8, <1>10, <1>14 DEF Pointer
<1>28. QED
  BY <1>3, <1>16, <1>20, <1>23, <1>26, <1>27 DEF S, bs, mid

(* The steps of copy() before the last one write no block but the one that *)
(* is copied into, beyond its active range.                                *)
LEMMA CopyStep ==
    ASSUME Inv, NEW t \in Threads, pc[t] \in Copying,
           NEW y, BlockOK(loc[t].b, y, Elements), Grows(blk[t][loc[t].b], y),
           y.used = blk[t][loc[t].b].used, y.first = 0, y.last = 0,
           blk' = [blk EXCEPT ![t] = [blk[t] EXCEPT ![loc[t].b] = y]],
           y.next = blk[t][loc[t].b].next, y.prev = blk[t][loc[t].b].prev,
           NEW p \in Copying, NEW l \in LocType, Goto(t, p, l), l.b = loc[t].b,
           UNCHANGED <<version, key, lists, shared, fault>>, CopyOK(t)'
    PROVE  Inv'
PROOF
<1> DEFINE bs == blk[t]
           S == List(t)
           b == loc[t].b
           new == [bs EXCEPT ![b] = y]
<1>1. /\ Types /\ FieldTypes /\ fault = FALSE /\ bs \in [Blocks -> AnyBlock]
      /\ blk \in [Threads -> [Blocks -> AnyBlock]]
      /\ ListAt(bs, S, head[t], tail[t], spied[t], Work(pc[t], loc[t]))
      /\ Linked(bs, S, head[t], tail[t])
  BY ThreadFacts DEF Types
<1>2. ListAt(bs, S, head[t], tail[t], spied[t], {b})
  BY <1>1 DEF Work
<1>3. /\ \A x \in Blocks : BlockOK(x, bs[x], Elements)
      /\ S \subseteq Blocks /\ {b} \subseteq Blocks /\ spied[t] \in Pointer
      /\ S \intersect {b} = {} /\ spied[t] \notin S \union {b}
  BY <1>2, ListFacts
<1>4. b \in Blocks /\ b \notin S /\ b # spied[t]
  BY <1>3
<1> HIDE DEF bs, S, b
<1>5. /\ BlockOK(b, y, Elements) /\ Grows(bs[b], y)
      /\ y.used = bs[b].used /\ y.next = bs[b].next /\ y.prev = bs[b].prev
  BY DEF b, bs
<1>6. y \in AnyBlock
  BY <1>4, <1>5 DEF AnyBlock, BlockOK
<1>7. /\ new \in [Blocks -> AnyBlock] /\ new[b] = y
      /\ \A x \in Blocks \ {b} : new[x] = bs[x]
  BY <1>1, <1>4, <1>6
<1>8. blk' = [blk EXCEPT ![t] = new]
  BY DEF bs, b
<1> HIDE DEF new
<1>9. /\ blk' \in [Threads -> [Blocks -> AnyBlock]] /\ blk'[t] = new
      /\ \A u \in Threads \ {t} : blk'[u] = blk[u]
  BY <1>1, <1>7, <1>8
<1>10. \A x \in Blocks : BlockOK(x, new[x], Elements) /\ Grows(bs[x], new[x])
  <2>1. \A x \in Blocks : Grows(bs[x], bs[x])
    BY <1>3, SameEntriesKeep DEF SameEntries
  <2>2. QED
    BY <1>3, <1>5, <1>7, <2>1
<1>11. ListAt(new, S, head[t], tail[t], spied[t], {b})
  <2>1. \A x \in S : new[x] = bs[x]
    BY <1>3, <1>4, <1>7
  <2>2. Linked(new, S, head[t], tail[t])
    BY <1>1, <2>1, LinkedSame
  <2>3. \A x \in S \union {b} : new[x].used /\ Ordered(new[x])
    <3>1. \A x \in S : new[x].used /\ Ordered(new[x])
      BY <1>2, <2>1 DEF ListAt
    <3>2. bs[b].used
      BY <1>2 DEF ListAt
    <3>3. new[b].used /\ Ordered(new[b])
      <4>1. Ordered(y)
        BY DEF Ordered
      <4>2. QED
        BY <1>5, <1>7, <3>2, <4>1
    <3>4. QED
      BY <3>1, <3>3
  <2>4. spied[t] # Null => new[spied[t]].used
    BY <1>2, <1>3, <1>4, <1>7 DEF ListAt, Pointer
  <2>5. \A x \in Blocks \ (S \union {b} \union {spied[t]}) : Blank(new[x])
    BY <1>2, <1>7 DEF ListAt
  <2>6. QED
    BY <1>3, <1>10, <2>2, <2>3, <2>4, <2>5 DEF ListAt
<1>12. /\ pc' \in [Threads -> Pcs] /\ loc' \in [Threads -> LocType]
       /\ pc'[t] = p /\ loc'[t] = l
       /\ \A x \in Threads \ {t} : pc'[x] = pc[x] /\ loc'[x] = loc[x]
  <2>1. p \in Pcs
    BY DEF Copying, Pcs
  <2>2. QED
    BY <1>1, <2>1, GotoOK
<1>13. Types'
  BY <1>1, <1>9, <1>12 DEF Types, FieldTypes, lists
<1>14. StateOK(new, S, head[t], tail[t], spied[t], p, l)
  BY <1>11 DEF StateOK, Work, Copying, b
<1>15. StateOK(blk'[t], S, head'[t], tail'[t], spied'[t], pc'[t], loc'[t])
  BY <1>9, <1>12, <1>14 DEF lists
<1>16. \A x \in Blocks : Copied(t, x) => Grows(blk[t][x], blk'[t][x])
  BY <1>9, <1>10 DEF bs
<1>17. fault' = FALSE
  BY <1>1
<1>18. \A u \in Threads \ {t} : /\ blk'[u] = blk[u] /\ head'[u] = head[u] /\ tail'[u] = tail[u]
                                /\ spied'[u] = spied[u] /\ pc'[u] = pc[u] /\ loc'[u] = loc[u]
  BY <1>9, <1>12 DEF lists
<1>19. QED
  BY <1>13, <1>15, <1>16, <1>17, <1>18, StepOf

(* What a spying thread knows of the block it copies from.                 *)
LEMMA VictimOK ==
    ASSUME Inv, NEW t \in Threads, pc[t] \in Copying
    PROVE  LET l == loc[t]
               v == Victim(t)
           IN  /\ l \in LocType /\ l.b \in Blocks /\ l.from \in Blocks /\ pow(l.from) = pow(l.b)
               /\ l.victim \in Threads \ {t}
               /\ v = blk[l.victim][l.from]
               /\ v.first \in Nat /\ v.last \in Nat /\ v.first <= v.last /\ v.last <= capacity(l.b)
               /\ capacity(l.b) \in Nat
               /\ \A m \in v.first .. (v.last - 1) : v.xs[m] # EMPTY
               /\ v.xs \in Array(l.b, Elements)
               /\ BlockOK(l.b, blk[t][l.b], Elements)
PROOF
<1> DEFINE l == loc[t]
           v == Victim(t)
<1>1. CopyOK(t) /\ l \in LocType
  BY ThreadFacts
<1>2. /\ l.b \in Blocks /\ l.from \in Blocks /\ pow(l.from) = pow(l.b)
      /\ l.victim \in Threads \ {t}
  BY <1>1 DEF CopyOK
<1>3. v = blk[l.victim][l.from]
  BY DEF Victim
<1>4. BlockOK(l.from, v, Elements)
  <2>1. ListAt(blk[l.victim], List(l.victim), head[l.victim], tail[l.victim], spied[l.victim],
               Work(pc[l.victim], loc[l.victim]))
    BY <1>2, ThreadFacts
  <2>2. QED
    BY <1>2, <1>3, <2>1 DEF ListAt
<1>5. BlockOK(l.b, blk[t][l.b], Elements)
  <2>1. ListAt(blk[t], List(t), head[t], tail[t], spied[t], Work(pc[t], loc[t]))
    BY ThreadFacts
  <2>2. QED
    BY <1>2, <2>1 DEF ListAt
<1>6. capacity(l.from) = capacity(l.b) /\ capacity(l.b) \in Nat
  BY <1>2, Sizes
<1> HIDE DEF l, v
<1>7. /\ v.first \in Nat /\ v.last \in Nat /\ v.first <= v.last /\ v.last <= capacity(l.b)
      /\ \A m \in v.first .. (v.last - 1) : v.xs[m] \in Elements
      /\ v.xs \in Array(l.from, Elements)
  BY <1>4, <1>6 DEF BlockOK, BlockType
<1>8. \A m \in v.first .. (v.last - 1) : v.xs[m] # EMPTY
  BY <1>7, ItemsOK
<1>9. v.xs \in Array(l.b, Elements)
  BY <1>6, <1>7 DEF Array
<1>10. QED
  BY <1>1, <1>2, <1>3, <1>5, <1>6, <1>7, <1>8, <1>9 DEF l, v

(* A step that reads one field of the victim's block.                      *)
LEMMA ReadStep ==
    ASSUME Inv, NEW t \in Threads, pc[t] \in Copying,
           NEW p \in Copying, NEW l \in LocType, Goto(t, p, l), l.b = loc[t].b,
           UNCHANGED <<version, key, blk, lists, shared, fault>>, CopyOK(t)'
    PROVE  Inv'
PROOF
<1>1. /\ Types /\ FieldTypes /\ fault = FALSE
      /\ ListAt(blk[t], List(t), head[t], tail[t], spied[t], Work(pc[t], loc[t]))
  BY ThreadFacts
<1>2. p \in Pcs
  BY DEF Copying, Pcs
<1>3. /\ pc' \in [Threads -> Pcs] /\ loc' \in [Threads -> LocType]
      /\ pc'[t] = p /\ loc'[t] = l
      /\ \A x \in Threads \ {t} : pc'[x] = pc[x] /\ loc'[x] = loc[x]
  BY <1>1, <1>2, GotoOK
<1>4. Work(p, l) = Work(pc[t], loc[t])
  BY DEF Work
<1>5. StateOK(blk[t], List(t), head[t], tail[t], spied[t], p, l)
  BY <1>1, <1>4 DEF StateOK, Copying
<1>6. StateOK(blk[t], List(t), head'[t], tail'[t], spied'[t], pc'[t], loc'[t])
  BY <1>3, <1>5 DEF lists
<1>7. FieldTypes'
  BY <1>1, <1>3 DEF FieldTypes, lists
<1>8. Others(t) /\ fault' = FALSE /\ blk' = blk
  BY <1>1, <1>3 DEF Others, lists
<1>9. QED
  BY <1>6, <1>7, <1>8, QuietStep

(* copy_first *)
LEMMA copy_firstStep ==
    ASSUME Inv, NEW t \in Threads, copy_first(t)
    PROVE  Inv'
PROOF
<1> DEFINE v == Victim(t)
           l == [loc[t] EXCEPT !.src = v.first]
           b == loc[t].b
<1>1. /\ pc[t] = "copy_first" /\ Goto(t, "copy_last", l)
      /\ UNCHANGED <<version, key, blk, lists, shared, fault>>
  BY DEF copy_first
<1>2. /\ pc[t] \in Copying /\ CopyOK(t) /\ FieldTypes
  BY <1>1, ThreadFacts DEF Copying
<1>3. /\ loc[t] \in LocType /\ v.first \in Nat /\ v.first <= capacity(b)
      /\ loc[t].b \in Blocks /\ loc[t].from \in Blocks /\ pow(loc[t].from) = pow(loc[t].b)
      /\ loc[t].victim \in Threads \ {t}
  <2>1. /\ loc[t] \in LocType /\ b \in Blocks /\ loc[t].from \in Blocks /\ pow(loc[t].from) = pow(b)
        /\ loc[t].victim \in Threads \ {t}
        /\ v.first \in Nat /\ v.last \in Nat /\ v.first <= v.last /\ v.last <= capacity(b)
        /\ capacity(b) \in Nat
    BY <1>2, VictimOK
  <2> HIDE DEF v
  <2>2. QED
    BY <2>1
<1>4. /\ blk[t][b].first = 0 /\ blk[t][b].last = 0 /\ loc[t].n = 0
  BY <1>1, <1>2 DEF CopyOK
<1>5. /\ l \in LocType /\ l.b = b /\ l.from = loc[t].from /\ l.victim = loc[t].victim
      /\ l.n = loc[t].n /\ l.src = v.first
  <2> HIDE DEF v
  <2>1. QED
    BY <1>3 DEF LocType
<1>6. pc'[t] = "copy_last" /\ loc'[t] = l
  <2> HIDE DEF l
  <2>1. QED
    BY <1>1, <1>2 DEF FieldTypes, Goto
<1>7. Victim(t)' = v
  <2> HIDE DEF l
  <2>1. QED
    BY <1>1, <1>5, <1>6 DEF Victim
<1>8. CopyOK(t)'
  <2> HIDE DEF l, v
  <2>1. \A m \in v.first .. (v.first - 1) : v.xs[m] # EMPTY
    BY <1>3
  <2>2. blk'[t][l.b] = blk[t][b]
    BY <1>1, <1>5
  <2>3. QED
    BY <1>3, <1>4, <1>5, <1>6, <1>7, <2>1, <2>2 DEF CopyOK
<1> HIDE DEF l
<1>9. "copy_last" \in Copying
  BY DEF Copying
<1>10. QED
  BY <1>1, <1>2, <1>5, <1>8, <1>9, ReadStep

(* copy_last *)
LEMMA copy_lastStep ==
    ASSUME Inv, NEW t \in Threads, copy_last(t)
    PROVE  Inv'
PROOF
<1> DEFINE v == Victim(t)
           l == [loc[t] EXCEPT !.end = v.last]
           b == loc[t].b
<1>1. /\ pc[t] = "copy_last" /\ Goto(t, "copy", l)
      /\ UNCHANGED <<version, key, blk, lists, shared, fault>>
  BY DEF copy_last
<1>2. /\ pc[t] \in Copying /\ CopyOK(t) /\ FieldTypes
  BY <1>1, ThreadFacts DEF Copying
<1>3. /\ loc[t] \in LocType /\ b \in Blocks /\ loc[t].from \in Blocks /\ pow(loc[t].from) = pow(b)
      /\ loc[t].victim \in Threads \ {t}
      /\ v.first \in Nat /\ v.last \in Nat /\ v.first <= v.last /\ v.last <= capacity(b)
      /\ capacity(b) \in Nat
      /\ \A m \in v.first .. (v.last - 1) : v.xs[m] # EMPTY
  BY <1>2, VictimOK
<1>4. /\ blk[t][b].first = 0 /\ blk[t][b].last = 0 /\ loc[t].n = 0
      /\ loc[t].src <= capacity(b)
      /\ \A m \in loc[t].src .. (v.first - 1) : v.xs[m] # EMPTY
  BY <1>1, <1>2 DEF CopyOK
<1>5. loc[t].src \in Nat
  BY <1>3 DEF LocType
<1>6. /\ l \in LocType /\ l.b = b /\ l.from = loc[t].from /\ l.victim = loc[t].victim
      /\ l.n = loc[t].n /\ l.src = loc[t].src /\ l.end = v.last
  <2> HIDE DEF v
  <2>1. QED
    BY <1>3 DEF LocType
<1>7. pc'[t] = "copy" /\ loc'[t] = l
  <2> HIDE DEF l
  <2>1. QED
    BY <1>1, <1>2 DEF FieldTypes, Goto
<1>8. Victim(t)' = v
  <2> HIDE DEF l
  <2>1. QED
    BY <1>1, <1>6, <1>7 DEF Victim
<1>9. CopyOK(t)'
  <2> HIDE DEF l, v
  <2>1. \A m \in l.src .. (l.end - 1) : v.xs[m] # EMPTY
    <3> SUFFICES ASSUME NEW m \in l.src .. (l.end - 1) PROVE v.xs[m] # EMPTY
      OBVIOUS
    <3>1. m \in loc[t].src .. (v.first - 1) \/ m \in v.first .. (v.last - 1)
      BY <1>3, <1>5, <1>6
    <3>2. QED
      BY <1>3, <1>4, <3>1
  <2>2. blk'[t][l.b] = blk[t][b]
    BY <1>1, <1>6
  <2>3. \A m \in 0 .. (l.n - 1) : FALSE
    BY <1>4, <1>6
  <2>4. l.n <= l.src
    BY <1>4, <1>5, <1>6
  <2>5. QED
    BY <1>3, <1>4, <1>6, <1>7, <1>8, <2>1, <2>2, <2>3, <2>4 DEF CopyOK
<1> HIDE DEF l
<1>10. "copy" \in Copying
  BY DEF Copying
<1>11. QED
  BY <1>1, <1>2, <1>6, <1>9, <1>10, ReadStep

(* copy *)
LEMMA copyStep ==
    ASSUME Inv, NEW t \in Threads, copy(t)
    PROVE  Inv'
PROOF
<1> DEFINE v == Victim(t)
           b == loc[t].b
           n == loc[t].n
           src == loc[t].src
           end == loc[t].end
           e == v.xs[src]
           own == blk[t][b]
           y == [own EXCEPT !.xs[n] = e]
           l1 == [loc[t] EXCEPT !.src = src + 1]
           l2 == [loc[t] EXCEPT !.src = src + 1, !.n = n + 1]
<1>1. /\ pc[t] = "copy" /\ src < end
      /\ \/ Goto(t, "copy", l1) /\ blk' = blk
         \/ Goto(t, "copy", l2) /\ blk' = [blk EXCEPT ![t][b].xs[n] = e]
      /\ UNCHANGED <<version, key, lists, shared, fault>>
  BY DEF copy
<1>2. /\ pc[t] \in Copying /\ "copy" \in Copying /\ CopyOK(t) /\ FieldTypes
      /\ blk \in [Threads -> [Blocks -> AnyBlock]]
  BY <1>1, ThreadFacts DEF Copying, Types
<1>3. /\ loc[t] \in LocType /\ b \in Blocks /\ loc[t].from \in Blocks /\ pow(loc[t].from) = pow(b)
      /\ loc[t].victim \in Threads \ {t}
      /\ v = blk[loc[t].victim][loc[t].from]
      /\ capacity(b) \in Nat /\ v.xs \in Array(b, Elements)
      /\ BlockOK(b, own, Elements)
  BY <1>2, VictimOK
<1>4. /\ own.first = 0 /\ own.last = 0 /\ n <= src /\ end <= capacity(b)
      /\ \A m \in src .. (end - 1) : v.xs[m] # EMPTY
      /\ \A m \in 0 .. (n - 1) : own.xs[m] # EMPTY
  BY <1>1, <1>2 DEF CopyOK
<1>5. src \in Nat /\ end \in Nat /\ n \in Nat
  BY <1>3 DEF LocType
<1> HIDE DEF v, own
<1>6. /\ l1 \in LocType /\ l1.b = b /\ l1.from = loc[t].from /\ l1.victim = loc[t].victim
      /\ l1.n = n /\ l1.src = src + 1 /\ l1.end = end
      /\ l2 \in LocType /\ l2.b = b /\ l2.from = loc[t].from /\ l2.victim = loc[t].victim
      /\ l2.n = n + 1 /\ l2.src = src + 1 /\ l2.end = end
  <2>1. src + 1 \in Nat /\ n + 1 \in Nat /\ loc[t] \in LocType
    BY <1>3, <1>5
  <2>2. l1 \in LocType /\ l2 \in LocType
    BY <2>1 DEF LocType
  <2>3. /\ l1.b = b /\ l1.from = loc[t].from /\ l1.victim = loc[t].victim
        /\ l1.n = n /\ l1.src = src + 1 /\ l1.end = end
    BY <2>1 DEF LocType
  <2>4. /\ l2.b = b /\ l2.from = loc[t].from /\ l2.victim = loc[t].victim
        /\ l2.n = n + 1 /\ l2.src = src + 1 /\ l2.end = end
    BY <2>1 DEF LocType
  <2>5. QED
    BY <2>2, <2>3, <2>4
<1> HIDE DEF l1, l2, src, end, n
<1>7. /\ src \in 0 .. (capacity(b) - 1) /\ n \in 0 .. (capacity(b) - 1)
      /\ src \in src .. (end - 1)
      /\ src + 1 <= capacity(b) /\ n <= src + 1 /\ n + 1 <= src + 1
  <2>1. src < end /\ n <= src /\ end <= capacity(b) /\ capacity(b) \in Nat
    BY <1>1, <1>3, <1>4
  <2>2. QED
    BY <1>5, <2>1
<1>8. e \in Elements /\ e # EMPTY
  BY <1>3, <1>4, <1>7 DEF Array
<1>9. \A m \in (src + 1) .. (end - 1) : v.xs[m] # EMPTY
  BY <1>4, <1>5
<1> HIDE DEF e
<1>10. CASE Goto(t, "copy", l1) /\ blk' = blk
  <2>1. pc'[t] = "copy" /\ loc'[t] = l1
    BY <1>2, <1>10 DEF FieldTypes, Goto
  <2>2. Victim(t)' = v
    BY <1>6, <1>10, <2>1 DEF Victim, v
  <2>3. blk'[t][l1.b] = own
    BY <1>6, <1>10 DEF own
  <2>4. CopyOK(t)'
    <3>1. l1.src <= capacity(b) /\ l1.n <= l1.src
      BY <1>6, <1>7
    <3>2. QED
      BY <1>3, <1>4, <1>6, <1>9, <2>1, <2>2, <2>3, <3>1 DEF CopyOK
  <2>5. QED
    BY <1>1, <1>2, <1>6, <1>10, <2>4, ReadStep
<1>11. CASE Goto(t, "copy", l2) /\ blk' = [blk EXCEPT ![t][b].xs[n] = e]
  <2>1. /\ own \in BlockType(b, Elements) /\ own.xs \in Array(b, Elements)
        /\ own.first \in Nat /\ DOMAIN own.xs = 0 .. (capacity(b) - 1)
    BY <1>3 DEF BlockOK, BlockType, Array
  <2> DEFINE xs == [own.xs EXCEPT ![n] = e]
  <2>2. xs \in Array(b, Elements) /\ xs[n] = e
        /\ \A m \in 0 .. (capacity(b) - 1) : m # n => xs[m] = own.xs[m]
    BY <1>7, <1>8, <2>1 DEF Array
  <2>3. y = [own EXCEPT !.xs = xs]
    BY <2>1 DEF BlockType
  <2> HIDE DEF xs
  <2>4. /\ y \in BlockType(b, Elements) /\ y.xs = xs
        /\ y.used = own.used /\ y.first = own.first /\ y.last = own.last
        /\ y.next = own.next /\ y.prev = own.prev
    BY <2>1, <2>2, <2>3 DEF BlockType
  <2>5. blk' = [blk EXCEPT ![t] = [blk[t] EXCEPT ![b] = y]]
    BY <1>11 DEF own
  <2> HIDE DEF y
  <2>6. BlockOK(b, y, Elements)
    <3>1. y.first = 0 /\ y.last = 0 /\ capacity(b) \in Nat
      BY <1>3, <1>4, <2>4, Sizes
    <3>2. QED
      BY <2>4, <3>1 DEF BlockOK
  <2>7. Grows(own, y)
    BY <1>4, <1>8, <2>1, <2>2, <2>4 DEF Grows
  <2>8. /\ pc'[t] = "copy" /\ loc'[t] = l2
        /\ blk'[t][b] = y /\ \A u \in Threads \ {t} : blk'[u] = blk[u]
    <3>1. blk[t] \in [Blocks -> AnyBlock]
      BY <1>2
    <3>2. blk'[t][b] = y /\ \A u \in Threads \ {t} : blk'[u] = blk[u]
      BY <1>2, <1>3, <2>5, <3>1
    <3>3. pc'[t] = "copy" /\ loc'[t] = l2
      BY <1>2, <1>11 DEF FieldTypes, Goto
    <3>4. QED
      BY <3>2, <3>3
  <2>9. Victim(t)' = v
    <3>1. Victim(t)' = blk'[l2.victim][l2.from]
      BY <2>8 DEF Victim
    <3>2. QED
      BY <1>3, <1>6, <2>8, <3>1
  <2>10. CopyOK(t)'
    <3>1. l2.src <= capacity(b) /\ l2.n <= l2.src
      BY <1>6, <1>7
    <3>2. \A m \in 0 .. (l2.n - 1) : y.xs[m] # EMPTY
      <4> SUFFICES ASSUME NEW m \in 0 .. (l2.n - 1) PROVE y.xs[m] # EMPTY
        OBVIOUS
      <4>1. m = n \/ (m \in 0 .. (n - 1) /\ m # n)
        BY <1>5, <1>6
      <4>2. m \in 0 .. (capacity(b) - 1)
        BY <1>3, <1>5, <1>6, <1>7
      <4>3. QED
        BY <1>4, <1>8, <2>2, <2>4, <4>1, <4>2
    <3>3. y.first = 0 /\ y.last = 0
      BY <1>4, <2>4
    <3>4. QED
      BY <1>3, <1>4, <1>6, <1>9, <2>8, <2>9, <3>1, <3>2, <3>3 DEF CopyOK
  <2>11. y.first = 0 /\ y.last = 0
    BY <1>4, <2>4
  <2>12. QED
    BY <1>1, <1>2, <1>6, <1>11, <2>4, <2>5, <2>6, <2>7, <2>10, <2>11, CopyStep DEF own
<1>12. QED
  BY <1>1, <1>10, <1>11

(* spied_block *)
LEMMA spied_blockStep ==
    ASSUME Inv, NEW t \in Threads, spied_block(t)
    PROVE  /\ Inv' /\ List(t)' = List(t) /\ Others(t)
           /\ \E new : Relists(t, new, List(t))
PROOF
<1> DEFINE bs == blk[t]
           S == List(t)
           sp == spied[t]
           b == loc[t].b
           n == loc[t].n
           mid == Release(bs, {sp})
           y == [bs[b] EXCEPT !.last = n]
           u == Unused(bs[sp])
           new == [mid EXCEPT ![b].last = n]
           l1 == [Idle EXCEPT !.op = "delete_min", !.retried = TRUE]
<1>1. /\ pc[t] = "copy"
      /\ SetBlocks(t, new)
      /\ spied' = [spied EXCEPT ![t] = b]
      /\ Goto(t, "peek", l1) \/ Goto(t, "idle", Idle)
      /\ UNCHANGED <<version, key, head, tail, cached, shared, fault>>
  BY DEF spied_block, Return
<1>2. /\ Types /\ FieldTypes /\ fault = FALSE /\ bs \in [Blocks -> AnyBlock]
      /\ loc[t] \in LocType
      /\ ListAt(bs, S, head[t], tail[t], sp, Work(pc[t], loc[t]))
      /\ Linked(bs, S, head[t], tail[t])
      /\ CopyOK(t)
  BY ThreadFacts
<1>3. ListAt(bs, S, head[t], tail[t], sp, {b})
  BY <1>1, <1>2 DEF Work, Copying
<1>4. /\ b \in Blocks /\ n \in Nat /\ n <= loc[t].src /\ loc[t].src <= capacity(b)
      /\ loc[t].src \in Nat /\ bs[b].first = 0 /\ bs[b].last = 0
      /\ \A m \in 0 .. (n - 1) : bs[b].xs[m] # EMPTY
  BY <1>1, <1>2 DEF CopyOK, Copying, LocType
<1>5. n <= capacity(b) /\ capacity(b) \in Nat
  <2>1. capacity(b) \in Nat
    BY <1>4, Sizes
  <2> HIDE DEF b, n
  <2>2. QED
    BY <1>4, <2>1
<1>6. PICK p \in {"peek", "idle"}, l \in LocType : Goto(t, p, l)
  <2>1. Idle \in LocType /\ l1 \in LocType
    BY IdleOK DEF LocType
  <2>2. QED
    BY <1>1, <2>1
<1> HIDE DEF bs, S, sp, b, n
<1>7. /\ \A x \in Blocks : BlockOK(x, bs[x], Elements)
      /\ S \subseteq Blocks /\ {b} \subseteq Blocks /\ sp \in Pointer
      /\ S \intersect {b} = {} /\ sp \notin S \union {b}
  BY <1>3, ListFacts
<1>8. b \notin S /\ b # sp /\ bs[b].used
  BY <1>3, <1>7 DEF ListAt
<1>9. /\ DOMAIN mid = Blocks /\ mid[b] = bs[b]
      /\ sp \in Blocks => mid[sp] = u
      /\ \A x \in Blocks \ {sp} : mid[x] = bs[x]
  BY <1>4, <1>8 DEF Release
<1> HIDE DEF mid
<1>10. /\ new[b] = y
       /\ sp \in Blocks => new[sp] = u
       /\ \A x \in Blocks \ {b, sp} : new[x] = bs[x]
  BY <1>4, <1>8, <1>9
<1> HIDE DEF new
<1>11. sp \in Blocks => BlockOK(sp, u, Elements) /\ Grows(bs[sp], u) /\ Blank(u)
  <2> SUFFICES ASSUME sp \in Blocks PROVE BlockOK(sp, u, Elements) /\ Grows(bs[sp], u) /\ Blank(u)
    OBVIOUS
  <2>1. BlockOK(sp, bs[sp], Elements)
    BY <1>7
  <2>2. /\ BlockOK(sp, u, Elements) /\ Grows(bs[sp], u)
        /\ ~u.used /\ u.next = Null /\ u.prev = Null /\ u.first = 0 /\ u.last = 0
    BY <2>1, UnusedOK
  <2> HIDE DEF u
  <2>3. QED
    BY <2>2 DEF Blank
<1>12. BlockOK(b, y, Elements) /\ Grows(bs[b], y) /\ y.used
  <2>1. /\ bs[b] \in BlockType(b, Elements) /\ bs[b].xs \in Array(b, Elements)
        /\ DOMAIN bs[b].xs = 0 .. (capacity(b) - 1)
    BY <1>4, <1>7 DEF BlockOK, BlockType, Array
  <2>2. /\ y \in BlockType(b, Elements) /\ y.xs = bs[b].xs
        /\ y.used = bs[b].used /\ y.first = bs[b].first /\ y.last = n
    BY <1>4, <2>1 DEF BlockType
  <2> HIDE DEF y
  <2>3. \A m \in 0 .. (n - 1) : m \in 0 .. (capacity(b) - 1)
    BY <1>4, <1>5
  <2>4. \A m \in 0 .. (n - 1) : bs[b].xs[m] \in Elements
    BY <1>4, <2>1, <2>3 DEF Array
  <2>5. BlockOK(b, y, Elements)
    BY <1>4, <1>5, <2>2, <2>4 DEF BlockOK
  <2>6. Grows(bs[b], y)
    BY <1>4, <2>2 DEF Grows
  <2>7. QED
    BY <1>8, <2>2, <2>5, <2>6
<1> HIDE DEF y, u
<1>13. \A x \in Blocks : BlockOK(x, new[x], Elements) /\ Grows(bs[x], new[x])
  <2>1. \A x \in Blocks : Grows(bs[x], bs[x])
    BY <1>7, SameEntriesKeep DEF SameEntries
  <2>2. QED
    BY <1>7, <1>10, <1>11, <1>12, <2>1
<1>14. ListAt(new, S, head[t], tail[t], b, {})
  <2>1. \A x \in S : new[x] = bs[x] /\ new[x].used /\ Ordered(new[x])
    BY <1>3, <1>7, <1>8, <1>10 DEF ListAt
  <2>2. Linked(new, S, head[t], tail[t])
    BY <1>2, <2>1, LinkedSame
  <2>3. \A x \in Blocks \ (S \union {} \union {b}) : Blank(new[x])
    <3> SUFFICES ASSUME NEW x \in Blocks, x \notin S, x # b PROVE Blank(new[x])
      OBVIOUS
    <3>1. CASE x = sp
      BY <1>10, <1>11, <3>1
    <3>2. CASE x # sp
      BY <1>3, <1>10, <3>2 DEF ListAt
    <3>3. QED
      BY <3>1, <3>2
  <2>4. b \in Pointer
    BY <1>4 DEF Pointer
  <2>5. QED
    BY <1>8, <1>10, <1>12, <1>13, <2>1, <2>2, <2>3, <2>4 DEF ListAt
<1>15. p \in Pcs /\ p \notin {"merge", "scan", "shrink", "spy"} \union Copying
  BY DEF Pcs, Copying
<1>16. StateOK(new, S, head[t], tail[t], b, p, l)
  BY <1>14, <1>15 DEF StateOK, Work
<1>17. /\ pc' \in [Threads -> Pcs] /\ loc' \in [Threads -> LocType]
       /\ pc'[t] = p /\ loc'[t] = l
       /\ \A x \in Threads \ {t} : pc'[x] = pc[x] /\ loc'[x] = loc[x]
  BY <1>2, <1>6, <1>15, GotoOK
<1>18. /\ spied' \in [Threads -> Pointer] /\ spied'[t] = b
       /\ \A x \in Threads \ {t} : spied'[x] = spied[x]
  BY <1>1, <1>2, <1>4 DEF FieldTypes, Pointer
<1>19. FieldTypes'
  BY <1>1, <1>2, <1>17, <1>18 DEF FieldTypes
<1>20. Others(t)
  BY <1>1, <1>17, <1>18 DEF Others
<1>21. CopyOK(t)'
  BY <1>15, <1>17, NotCopying
<1>22. StateOK(new, S, head'[t], tail'[t], spied'[t], pc'[t], loc'[t])
  BY <1>1, <1>16, <1>17, <1>18
<1>23. SetBlocks(t, new) /\ fault' = FALSE /\ Written(t, new)
  BY <1>1, <1>2, <1>13 DEF Written, bs
<1>24. Inv' /\ List(t)' = S
  BY <1>19, <1>20, <1>21, <1>22, <1>23, WriteStep
<1>25. Relists(t, new, S)
  <2>1. \A x \in S : new[x] = bs[x]
    BY <1>7, <1>8, <1>10
  <2>2. QED
    BY <1>7, <1>15, <1>17, <1>23, <2>1 DEF Relists, SameEntries, bs
<1>26. QED
  BY <1>20, <1>24, <1>25 DEF S

-----------------------------------------------------------------------------
(* shrink() *)

(* The loop that releases the blocks from b to "end", when there is one,   *)
(* or two.                                                                 *)
LEMMA ChainTwo ==
    ASSUME NEW bs, \A x \in Blocks : bs[x].next \in Pointer,
           NEW b \in Blocks, NEW c \in Pointer, NEW end \in Pointer, b # end,
           bs[b].next = c, c # end => c \in Blocks /\ bs[c].next = end
    PROVE  Chain(bs, b, end) = {b, c} \ {end}
PROOF
<1>1. PICK f : ChainRun(bs, b, end, f)
  <2>1. b \in Pointer
    BY DEF Pointer
  <2>2. QED
    BY <2>1, ChainRounds
<1>2. /\ f[0] = b
      /\ \A n \in 1 .. (MaxPow + 1) :
            f[n] = IF f[n - 1] \in {Null, end} THEN Null ELSE bs[f[n - 1]].next
      /\ Chain(bs, b, end) = {f[n] : n \in 0 .. (MaxPow + 1)} \ {Null, end}
  BY <1>1 DEF ChainRun
<1> DEFINE T == MaxPow + 1
           Seen(n) == \/ n = 0 /\ f[n] = b
                      \/ n = 1 /\ f[n] = c
                      \/ n > 1 /\ f[n] \in {Null, end}
           P == {n \in 0 .. T : Seen(n)}
<1>3. T \in Nat /\ T >= 1 /\ Null \notin Blocks
  BY Sizes
<1>4. 0 \in P
  BY <1>2, <1>3
<1>5. ASSUME NEW n \in 1 .. T, n - 1 \in P PROVE n \in P
  <2>1. n \in 0 .. T /\ Seen(n - 1) /\ f[n] = IF f[n - 1] \in {Null, end} THEN Null ELSE bs[f[n - 1]].next
    BY <1>2, <1>3, <1>5
  <2>2. CASE n = 1
    <3>1. f[n - 1] = b /\ b \notin {Null, end}
      BY <1>2, <1>3, <2>2
    <3>2. QED
      BY <2>1, <2>2, <3>1
  <2>3. CASE n = 2
    <3>1. f[n - 1] = c
      BY <2>1, <2>3
    <3>2. f[n] \in {Null, end}
      BY <2>1, <3>1
    <3>3. QED
      BY <2>1, <2>3, <3>2
  <2>4. CASE n > 2
    <3>1. f[n - 1] \in {Null, end} /\ n > 1
      BY <2>1, <2>4
    <3>2. f[n] = Null
      BY <2>1, <3>1
    <3>3. QED
      BY <2>1, <3>1, <3>2
  <2>5. QED
    BY <1>3, <2>2, <2>3, <2>4
<1>6. \A n \in 0 .. T : Seen(n)
  <2>1. T \in Nat
    BY <1>3
  <2> HIDE DEF P, T
  <2>2. \A n \in 0 .. T : n \in P
    BY <1>4, <1>5, <2>1, UpTo
  <2>3. QED
    BY <2>2 DEF P
<1>7. f[1] = c /\ 0 \in 0 .. T /\ 1 \in 0 .. T
  BY <1>3, <1>6
<1>8. \A n \in 0 .. T : f[n] \in {b, c, Null, end}
  BY <1>6
<1>9. {f[n] : n \in 0 .. T} \ {Null, end} = {b, c} \ {Null, end}
  <2> HIDE DEF T, Seen, P
  <2>1. QED
    BY <1>2, <1>7, <1>8
<1>10. c # Null \/ c = end
  BY <1>3
<1>11. b # Null
  BY <1>3
<1>12. QED
  BY <1>2, <1>9, <1>10, <1>11

(* n becomes the block before "after" and the block after prv.             *)
LEMMA SwapLinks ==
    ASSUME NEW bs \in [Blocks -> AnyBlock], \A x \in Blocks : BlockOK(x, bs[x], Elements),
           NEW after \in Pointer, NEW prv \in Pointer, NEW n \in Blocks
    PROVE  LET bwd == NextSet(PrevSet(bs, after, n), prv, n)
           IN  /\ Relinked(bs, bwd)
               /\ \A x \in Blocks : /\ bwd[x].next = IF x = prv THEN n ELSE bs[x].next
                                    /\ bwd[x].prev = IF x = after THEN n ELSE bs[x].prev
PROOF
<1> DEFINE fwd == PrevSet(bs, after, n)
           bwd == NextSet(fwd, prv, n)
<1>1. n \in Pointer
  BY DEF Pointer
<1>2. /\ Relinked(bs, fwd)
      /\ \A x \in Blocks : /\ fwd[x].prev = IF x = after THEN n ELSE bs[x].prev
                           /\ fwd[x].next = bs[x].next
  BY <1>1, SetPrevOK
<1>3. fwd \in [Blocks -> AnyBlock] /\ \A x \in Blocks : BlockOK(x, fwd[x], Elements)
  BY <1>2 DEF Relinked
<1> HIDE DEF fwd
<1>4. /\ Relinked(fwd, bwd)
      /\ \A x \in Blocks : /\ bwd[x].next = IF x = prv THEN n ELSE fwd[x].next
                           /\ bwd[x].prev = fwd[x].prev
  BY <1>1, <1>3, SetNextOK
<1> HIDE DEF bwd
<1>5. /\ Relinked(bs, bwd)
      /\ \A x \in Blocks : /\ bwd[x].next = IF x = prv THEN n ELSE bs[x].next
                           /\ bwd[x].prev = IF x = after THEN n ELSE bs[x].prev
  BY <1>2, <1>4, RelinkedTwice
<1>6. QED
  BY <1>5 DEF bwd, fwd

(* The end of shrink(): n takes the place of b in the list of the blocks T *)
(* (the list before it with the merged block left out, if there is one).   *)
(* The blocks have the list's pointers, ...                                *)
SameLinks(list, T, b, full) ==
    \A x \in T \ {b} : /\ full[x].next = list[x].next
                       /\ x # list[b].next => full[x].prev = list[x].prev
(* ... n was given b's neighbours, ... *)
Between(full, after, n, prv) ==
    /\ full[n].next = after /\ full[n].prev = prv
    /\ after # Null => pow(after) < pow(n)
    /\ prv # Null => pow(n) < pow(prv)
(* ... R and B are the blocks that stay and go, h2 and tl2 the new ends.   *)
Swap(S, T, b, n, B, R) ==
    T \subseteq S /\ b \in T /\ B = {b} \union (S \ T) /\ R = (T \ {b}) \union {n}
NewEnds(h, tl, prv, after, n, h2, tl2) ==
    h2 = (IF prv = Null THEN n ELSE h) /\ tl2 = (IF after = Null THEN n ELSE tl)

(* The list after the swap, once the blocks of B are released.             *)
LEMMA Swapped ==
    ASSUME NEW full \in [Blocks -> AnyBlock], NEW S, NEW h, NEW tl, NEW sp, NEW n \in Blocks,
           ListAt(full, S, h, tl, sp, {n}),
           NEW list, NEW T, NEW b, NEW tl0, Linked(list, T, h, tl0), SameLinks(list, T, b, full),
           NEW after, after = list[b].next, NEW prv, prv = list[b].prev,
           Between(full, after, n, prv),
           NEW B, NEW R, Swap(S, T, b, n, B, R),
           NEW h2, NEW tl2, NewEnds(h, tl0, prv, after, n, h2, tl2)
    PROVE  ListAt(Release(NextSet(PrevSet(full, after, n), prv, n), B), R, h2, tl2, sp, {})
PROOF
<1> DEFINE bwd == NextSet(PrevSet(full, after, n), prv, n)
<1>1. T \subseteq S /\ b \in T /\ B = {b} \union (S \ T) /\ R = (T \ {b}) \union {n}
  BY DEF Swap
<1>2. /\ \A x \in Blocks : BlockOK(x, full[x], Elements)
      /\ S \subseteq Blocks /\ n \notin S /\ Null \notin Blocks
  BY ListFacts, Sizes
<1>3. after \in (T \ {b}) \union {Null} /\ prv \in (T \ {b}) \union {Null}
  <2>1. /\ after \in T \union {Null} /\ prv \in T \union {Null}
        /\ prv # Null => pow(prv) > pow(b)
        /\ after # Null => pow(after) < pow(b)
    BY <1>1, Ends
  <2>2. pow(b) \in Nat
    BY <1>1, <1>2, Sizes
  <2>3. QED
    BY <2>1, <2>2
<1>4. after \in Pointer /\ prv \in Pointer
  BY <1>1, <1>2, <1>3 DEF Pointer
<1>5. /\ Relinked(full, bwd)
      /\ \A x \in Blocks : /\ bwd[x].next = IF x = prv THEN n ELSE full[x].next
                           /\ bwd[x].prev = IF x = after THEN n ELSE full[x].prev
  BY <1>2, <1>4, SwapLinks
<1> HIDE DEF bwd
<1>6. Replaced(list, T, b, n, bwd)
  <2>1. \A x \in T \ {b} : bwd[x].prev = IF x = after THEN n ELSE list[x].prev
    BY <1>1, <1>2, <1>5 DEF SameLinks
  <2>2. \A x \in T \ {b} : bwd[x].next = IF x = prv THEN n ELSE list[x].next
    BY <1>1, <1>2, <1>5 DEF SameLinks
  <2>3. bwd[n].next = after /\ bwd[n].prev = prv
    BY <1>1, <1>2, <1>3, <1>5 DEF Between
  <2>4. QED
    BY <2>1, <2>2, <2>3 DEF Replaced
<1>7. Linked(bwd, R, h2, tl2)
  <2>1. n \notin T /\ n \in Blocks /\ b \in T /\ Linked(list, T, h, tl0)
    BY <1>1, <1>2
  <2>2. list[b].next # Null => pow(list[b].next) < pow(n)
    BY DEF Between
  <2>3. list[b].prev # Null => pow(n) < pow(list[b].prev)
    BY DEF Between
  <2>4. h2 = IF list[b].prev = Null THEN n ELSE h
    BY DEF NewEnds
  <2>5. tl2 = IF list[b].next = Null THEN n ELSE tl0
    BY DEF NewEnds
  <2>6. R = (T \ {b}) \union {n}
    BY <1>1
  <2>7. QED
    BY <1>6, <2>1, <2>2, <2>3, <2>4, <2>5, <2>6, Replace
<1>8. /\ \A x \in R : x \in S \/ x \in {n}
      /\ \A x : x \in B <=> (x \in S \/ x \in {n}) /\ x \notin R
  BY <1>1, <1>2
<1>9. \A x \in Blocks \ (S \union {n}) : bwd[x].next = full[x].next /\ bwd[x].prev = full[x].prev
  BY <1>1, <1>2, <1>3, <1>5
<1>10. ListAt(Release(bwd, B), R, h2, tl2, sp, {})
  BY <1>5, <1>7, <1>8, <1>9, ListAfter
<1>11. QED
  BY <1>10 DEF bwd

(* The block n is at hand, and its first entry is the candidate.           *)
Proposes(t, free, n) ==
    /\ Ordered(free[n])
    /\ loc'[t] = [loc[t] EXCEPT !.b = n, !.cand = PeekItem(version, free[n])]

(* The list R of t after the blocks "full" were linked and the unlinked    *)
(* ones released; its block n was peeked.                                  *)
Shrinks(t, full, n, R) ==
    /\ R \subseteq Blocks /\ n \in R /\ pc'[t] = "shrink"
    /\ \A x \in Blocks : BlockOK(x, full[x], Elements)
    /\ \E free \in [Blocks -> AnyBlock] :
           /\ \A x \in Blocks : BlockOK(x, free[x], Elements)
           /\ \A x \in R : SameEntries(full[x], free[x])
           /\ SetBlocks(t, Peeked(free, n)) /\ Written(t, Peeked(free, n))
           /\ Proposes(t, free, n)
(* What n holds: a copy of the block b of the list S before, ...           *)
Halved(bs, S, b, full, n, R) ==
    /\ b \in S /\ n \notin S /\ R = (S \ {b}) \union {n} /\ pow(b) <= pow(n) + 1
    /\ \A x \in S \ {b} : full[x] = bs[x]
    /\ Stores(full[n], Untaken(version, Active(bs[b])))
(* ... or the copy merged with another block.                              *)
JoinedBy(bs, S, b, full, n, R, s, x, nxt, prune) ==
    /\ b \in S /\ s \in Blocks \ S /\ n \notin S /\ nxt \in S \ {b}
    /\ R = (S \ {b, nxt}) \union {n} /\ pow(b) <= pow(n) + 1
    /\ \A y \in S \ {b, nxt} : full[y] = bs[y]
    /\ BlockOK(s, x, Elements) /\ Stores(x, Untaken(version, Active(bs[b])))
    /\ prune \in BOOLEAN /\ Stores(full[n], Remaining(version, x, bs[nxt], prune))
Joined(bs, S, b, full, n, R) ==
    \E s, x, nxt, prune : JoinedBy(bs, S, b, full, n, R, s, x, nxt, prune)

Stays(R, B) == \A x \in R : x \notin B

(* The end of a shrink(): the smaller block is in the list.                *)
LEMMA ShrunkStep ==
    ASSUME Inv, NEW t \in Threads, pc[t] = "shrink",
           NEW full, \A x \in Blocks : BlockOK(x, full[x], Elements) /\ Grows(blk[t][x], full[x]),
           NEW bwd, Relinked(full, bwd), NEW B, NEW free, free = Release(bwd, B),
           NEW R, NEW h2, NEW tl2, ListAt(free, R, h2, tl2, spied[t], {}),
           NEW n \in R, SetBlocks(t, [free EXCEPT ![n] = PeekBlock(version, @)]),
           Goto(t, "shrink", [loc[t] EXCEPT !.b = n, !.cand = PeekItem(version, free[n])]),
           head' = [head EXCEPT ![t] = h2], tail' = [tail EXCEPT ![t] = tl2],
           UNCHANGED <<version, key, spied, cached, shared>>, fault' = FALSE, Stays(R, B)
    PROVE  Inv' /\ List(t)' = R /\ Others(t) /\ Shrinks(t, full, n, R)
PROOF
<1> DEFINE new == Peeked(free, n)
           cand == PeekItem(version, free[n])
           l == [loc[t] EXCEPT !.b = n, !.cand = cand]
<1>1. Types /\ FieldTypes /\ loc[t] \in LocType
  BY ThreadFacts
<1>2. /\ R \subseteq Blocks /\ h2 \in Pointer /\ tl2 \in Pointer
      /\ \A x \in Blocks : BlockOK(x, free[x], Elements)
  BY ListFacts
<1>3. free \in [Blocks -> AnyBlock]
  <2>1. free = [x \in Blocks |-> free[x]]
    BY DEF Release
  <2>2. \A x \in Blocks : free[x] \in AnyBlock
    BY <1>2 DEF BlockOK, AnyBlock
  <2>3. QED
    BY <2>1, <2>2
<1>4. \A x \in Blocks : Grows(full[x], free[x])
  BY Released
<1>5. n \in Blocks /\ n # Null
  BY <1>2, Sizes
<1>6. /\ ListAt(new, R, h2, tl2, spied[t], {})
      /\ \A x \in Blocks : BlockOK(x, new[x], Elements) /\ Grows(free[x], new[x])
  <2>1. n \in R \union {spied[t], Null}
    OBVIOUS
  <2>2. QED
    BY <1>3, <2>1, PeekedOK
<1>7. SetBlocks(t, new)
  BY <1>5 DEF Peeked
<1> HIDE DEF new
<1>8. ASSUME NEW x \in Blocks PROVE BlockOK(x, new[x], Elements) /\ Grows(blk[t][x], new[x])
  <2>1. /\ BlockOK(x, blk[t][x], Elements) /\ BlockOK(x, full[x], Elements)
        /\ BlockOK(x, free[x], Elements) /\ BlockOK(x, new[x], Elements)
    <3>1. ListAt(blk[t], List(t), head[t], tail[t], spied[t], Work(pc[t], loc[t]))
      BY ThreadFacts
    <3>2. QED
      BY <1>2, <1>6, <3>1, ListFacts
  <2>2. Grows(blk[t][x], full[x]) /\ Grows(full[x], free[x]) /\ Grows(free[x], new[x])
    BY <1>4, <1>6
  <2>3. Grows(blk[t][x], free[x])
    BY <2>1, <2>2, GrowsTransitive
  <2>4. Grows(blk[t][x], new[x])
    BY <2>1, <2>2, <2>3, GrowsTransitive
  <2>5. QED
    BY <2>1, <2>4
<1>9. cand \in Entry
  BY <1>2, <1>5, ItemsOK, PeekOK
<1> HIDE DEF cand
<1>10. l \in LocType /\ l.b = n
  <2>1. n \in Pointer
    BY <1>5 DEF Pointer
  <2>2. QED
    BY <1>1, <1>9, <2>1 DEF LocType
<1>11. Goto(t, "shrink", l)
  BY DEF cand
<1> HIDE DEF l
<1>12. "shrink" \in Pcs /\ "shrink" \notin {"merge"} \union Copying
  BY DEF Pcs, Copying
<1>13. StateOK(new, R, h2, tl2, spied[t], "shrink", l)
  BY <1>6, <1>10, <1>12 DEF StateOK, Work
<1>14. /\ pc' \in [Threads -> Pcs] /\ loc' \in [Threads -> LocType]
       /\ pc'[t] = "shrink" /\ loc'[t] = l
       /\ \A x \in Threads \ {t} : pc'[x] = pc[x] /\ loc'[x] = loc[x]
  BY <1>1, <1>10, <1>11, <1>12, GotoOK
<1>15. /\ head' \in [Threads -> Pointer] /\ tail' \in [Threads -> Pointer]
       /\ head'[t] = h2 /\ tail'[t] = tl2
       /\ \A x \in Threads \ {t} : head'[x] = head[x] /\ tail'[x] = tail[x]
  BY <1>1, <1>2 DEF FieldTypes
<1>16. FieldTypes'
  BY <1>1, <1>14, <1>15 DEF FieldTypes
<1>17. Others(t)
  BY <1>14, <1>15 DEF Others
<1>18. CopyOK(t)'
  BY <1>12, <1>14, NotCopying
<1>19. StateOK(new, R, head'[t], tail'[t], spied'[t], pc'[t], loc'[t])
  BY <1>13, <1>14, <1>15
<1>20. SetBlocks(t, new) /\ fault' = FALSE /\ Written(t, new)
  BY <1>7, <1>8 DEF Written
<1>21. Inv' /\ List(t)' = R
  BY <1>16, <1>17, <1>18, <1>19, <1>20, WriteStep
<1>22. \A x \in R : SameEntries(full[x], free[x])
  BY <1>2, ReleasedSame DEF Stays
<1>23. SetBlocks(t, Peeked(free, n)) /\ Written(t, Peeked(free, n))
  BY <1>20 DEF new
<1>24. Proposes(t, free, n)
  BY <1>14 DEF ListAt, Proposes, l, cand
<1>25. Shrinks(t, full, n, R)
  BY <1>2, <1>3, <1>14, <1>22, <1>23, <1>24 DEF Shrinks
<1>26. QED
  BY <1>17, <1>21, <1>25

(* shrink *)
LEMMA shrinkStep ==
    ASSUME Inv, N >= 4, NEW t \in Threads, shrink(t)
    PROVE  /\ Inv' /\ Others(t)
           /\ \E full, n, R : /\ List(t)' = R /\ Shrinks(t, full, n, R)
                              /\ \/ Halved(blk[t], List(t), loc[t].b, full, n, R)
                                 \/ Joined(blk[t], List(t), loc[t].b, full, n, R)
PROOF
<1> DEFINE bs == blk[t]
           S == List(t)
           h == head[t]
           tl == tail[t]
           b == loc[t].b
           s == get_block(bs, pow(b) - 1)
           nxt == bs[b].next
           prv == bs[b].prev
           half == [bs EXCEPT ![s] = [CopyInto(version, set_used(@), bs[b])
                                         EXCEPT !.next = nxt, !.prev = bs[b].prev]]
           both == nxt # Null /\ pow(s) = pow(nxt)
           m == get_block(half, pow(s) + 1)
           n == IF both THEN m ELSE s
           after == IF both THEN half[nxt].next ELSE nxt
           full(prune) == IF both
                          THEN [half EXCEPT
                                  ![m] = [MergeInto(version, set_used(@), half[s], half[nxt], prune)
                                             EXCEPT !.next = after, !.prev = half[s].prev],
                                  ![s] = Unused(@)]
                          ELSE half
           fwd(prune) == IF after = Null THEN full(prune) ELSE [full(prune) EXCEPT ![after].prev = n]
           up(prune) == full(prune)[n].prev
           bwd(prune) == IF up(prune) = Null THEN fwd(prune)
                         ELSE [fwd(prune) EXCEPT ![up(prune)].next = n]
           free(prune) == Release(bwd(prune), Chain(bwd(prune), b, after))
<1>1. /\ pc[t] = "shrink" /\ Sparse(t) /\ size(bs[b]) # 0
      /\ fault' = (fault \/ bs[s].used \/ (both /\ half[m].used))
      /\ UNCHANGED <<version, key, spied, cached, shared>>
  BY DEF shrink
<1>2. \E prune \in IF both THEN BOOLEAN ELSE {FALSE} :
         /\ SetBlocks(t, [free(prune) EXCEPT ![n] = PeekBlock(version, @)])
         /\ tail' = IF after = Null THEN [tail EXCEPT ![t] = n] ELSE tail
         /\ head' = IF up(prune) = Null THEN [head EXCEPT ![t] = n] ELSE head
         /\ Goto(t, "shrink", [loc[t] EXCEPT !.b = n, !.cand = PeekItem(version, free(prune)[n])])
  BY DEF shrink
<1>3. PICK prune \in BOOLEAN :
         /\ SetBlocks(t, [free(prune) EXCEPT ![n] = PeekBlock(version, @)])
         /\ tail' = IF after = Null THEN [tail EXCEPT ![t] = n] ELSE tail
         /\ head' = IF up(prune) = Null THEN [head EXCEPT ![t] = n] ELSE head
         /\ Goto(t, "shrink", [loc[t] EXCEPT !.b = n, !.cand = PeekItem(version, free(prune)[n])])
  <2> HIDE DEF free, up, n, after, both
  <2> QED
    BY <1>2
<1>4. /\ Types /\ FieldTypes /\ fault = FALSE /\ bs \in [Blocks -> AnyBlock]
      /\ StateOK(bs, S, h, tl, spied[t], pc[t], loc[t])
      /\ ListAt(bs, S, h, tl, spied[t], Work(pc[t], loc[t]))
      /\ Linked(bs, S, h, tl)
  BY ThreadFacts
<1>5. ListAt(bs, S, h, tl, spied[t], {}) /\ b \in S
  BY <1>1, <1>4 DEF Work, Copying, StateOK
<1>6. /\ \A x \in Blocks : BlockOK(x, bs[x], Elements) /\ Grows(bs[x], bs[x])
      /\ S \subseteq Blocks /\ b \in Blocks /\ Null \notin Blocks /\ spied[t] \notin S
      /\ h \in Pointer /\ tl \in Pointer /\ spied[t] \in Pointer
      /\ size(bs[b]) \in Nat /\ Ordered(bs[b])
  <2>1. /\ \A x \in Blocks : BlockOK(x, bs[x], Elements)
        /\ S \subseteq Blocks /\ spied[t] \notin S
        /\ h \in Pointer /\ tl \in Pointer /\ spied[t] \in Pointer
    BY <1>5, ListFacts
  <2>2. b \in Blocks /\ b # spied[t]
    BY <1>5, <2>1
  <2>3. size(bs[b]) \in Nat /\ Ordered(bs[b])
    <3>1. ListAt(bs, S, h, tl, spied[t], {})
      BY <1>5
    <3> HIDE DEF bs, S, h, tl, b
    <3>2. QED
      BY <2>2, <3>1, ListFacts
  <2>4. \A x \in Blocks : Grows(bs[x], bs[x])
    BY <2>1, SameEntriesKeep DEF SameEntries
  <2>5. QED
    BY <2>1, <2>2, <2>3, <2>4, Sizes
<1>7. size(bs[b]) <= capacity(b) \div 2
  BY <1>1 DEF Sparse
<1> HIDE DEF bs, S, h, tl, b
<1>8. /\ prv = Null => b = h
      /\ nxt \in S \union {Null} /\ prv \in S \union {Null}
      /\ nxt # Null => pow(nxt) < pow(b) /\ bs[nxt].prev = b
      /\ prv # Null => pow(b) < pow(prv)
  BY <1>4, <1>5, Ends
<1>9. nxt \in Pointer /\ prv \in Pointer
  BY <1>6, <1>8 DEF Pointer
<1>10. pow(b) - 1 \in 0 .. MaxPow /\ pow(b) \in 0 .. MaxPow
  <2>1. pow(b) \in 0 .. MaxPow /\ MaxPow \in Nat /\ (pow(b) = 0 => capacity(b) = 1)
    BY <1>6, Sizes
  <2>2. pow(b) # 0
    <3> SUFFICES ASSUME pow(b) = 0 PROVE FALSE
      OBVIOUS
    <3>1. capacity(b) = 1
      BY <2>1
    <3>2. size(bs[b]) <= 0
      BY <1>6, <1>7, <3>1
    <3>3. QED
      BY <1>1, <1>6, <3>2
  <2>3. QED
    BY <2>1, <2>2
<1>11. s \in Blocks /\ pow(s) = pow(b) - 1 /\ s \notin S /\ s # spied[t] /\ Blank(bs[s])
  <2>1. {} \subseteq {b}
    OBVIOUS
  <2>2. /\ s \in Blocks /\ pow(s) = pow(b) - 1 /\ s \notin S \union {} /\ s # spied[t]
        /\ Blank(bs[s])
    BY <1>5, <1>10, <2>1, FreeBlock
  <2>3. QED
    BY <2>2
<1> HIDE DEF s
<1>12. pow(b) = pow(s) + 1 /\ pow(b) \in Nat /\ pow(s) \in Nat
  BY <1>10, <1>11
<1>13. capacity(s) \in Nat /\ size(bs[b]) <= capacity(s)
  <2>1. capacity(b) = 2 * capacity(s) /\ capacity(s) \in Nat
    BY <1>6, <1>11, <1>12, Sizes
  <2>2. QED
    BY <1>6, <1>7, <2>1
<1> DEFINE x0 == CopyInto(version, set_used(bs[s]), bs[b])
           x == Pointing(x0, nxt, prv)
<1>14. /\ BlockOK(s, x0, Elements) /\ Grows(bs[s], x0) /\ Ordered(x0)
       /\ x0.used /\ x0.first = 0 /\ size(x0) <= size(bs[b])
       /\ Stores(x0, Untaken(version, Active(bs[b])))
  BY <1>6, <1>11, <1>13, CopiedBlock
<1>15. half = [bs EXCEPT ![s] = x]
  BY DEF Pointing
<1> HIDE DEF x0, half, nxt, prv
<1>16. /\ BlockOK(s, x, Elements) /\ SameEntries(x0, x)
       /\ x.used = x0.used /\ x.next = nxt /\ x.prev = prv
  <2>1. s \in Blocks /\ BlockOK(s, x0, Elements) /\ nxt \in Pointer /\ prv \in Pointer
    BY <1>9, <1>11, <1>14
  <2>2. QED
    BY <2>1, PointersOK
<1> HIDE DEF x
<1>17. /\ Grows(bs[s], x) /\ Ordered(x) /\ x.used
       /\ size(x) \in Nat /\ size(x) <= size(bs[b])
  <2>1. Grows(x0, x) /\ Ordered(x)
    BY <1>11, <1>14, <1>16, SameEntriesKeep
  <2>2. Grows(bs[s], x)
    BY <1>6, <1>11, <1>14, <1>16, <2>1, GrowsTransitive
  <2>3. size(x) = size(x0)
    BY <1>16 DEF SameEntries, size
  <2>4. size(x) \in Nat
    BY <1>16 DEF BlockOK, BlockType, size
  <2>5. QED
    BY <1>14, <1>16, <2>1, <2>2, <2>3, <2>4
<1>24. Stores(x, Untaken(version, Active(bs[b])))
  BY <1>14, <1>16, StoresSame
<1>18. half \in [Blocks -> AnyBlock] /\ half[s] = x /\ \A y \in Blocks \ {s} : half[y] = bs[y]
  <2>1. x \in AnyBlock
    BY <1>11, <1>16 DEF BlockOK, AnyBlock
  <2>2. QED
    BY <1>4, <1>11, <1>15, <2>1
<1>19. \A y \in Blocks : BlockOK(y, half[y], Elements) /\ Grows(bs[y], half[y])
  BY <1>6, <1>16, <1>17, <1>18
<1>20. ListAt(half, S, h, tl, spied[t], {s})
  <2>1. \A y \in Blocks \ {s} : Settled(bs[y], half[y])
    BY <1>18 DEF Settled
  <2>2. half[s].used /\ Ordered(half[s])
    BY <1>17, <1>18
  <2>3. QED
    BY <1>5, <1>11, <1>19, <2>1, <2>2, AddWork
<1>21. CASE ~both
  <2>1. n = s /\ after = nxt /\ full(prune) = half /\ up(prune) = prv
    BY <1>16, <1>18, <1>21
  <2> DEFINE mid == NextSet(PrevSet(half, nxt, s), prv, s)
  <2> HIDE DEF n, after, full, up, both
  <2>2. bwd(prune) = mid
    BY <2>1 DEF NextSet, PrevSet
  <2> HIDE DEF fwd
  <2>3. /\ Relinked(half, mid)
        /\ \A y \in Blocks : /\ mid[y].next = IF y = prv THEN s ELSE half[y].next
                             /\ mid[y].prev = IF y = nxt THEN s ELSE half[y].prev
    BY <1>9, <1>11, <1>18, <1>19, SwapLinks
  <2> HIDE DEF mid, bwd
  <2>4. Chain(mid, b, nxt) = {b}
    <3>1. b # nxt /\ b # prv /\ b # s
      <4>1. b # Null /\ b # s /\ pow(b) \in Nat
        BY <1>5, <1>6, <1>11, <1>12
      <4>2. ~(pow(b) < pow(b))
        BY <4>1
      <4>3. QED
        BY <1>8, <4>1, <4>2
    <3>2. mid[b].next = nxt
      BY <1>6, <1>18, <2>3, <3>1 DEF nxt
    <3>3. \A y \in Blocks : mid[y].next \in Pointer
      BY <2>3 DEF Relinked, BlockOK, BlockType
    <3>4. nxt # nxt => nxt \in Blocks /\ mid[nxt].next = nxt
      OBVIOUS
    <3>5. Chain(mid, b, nxt) = {b, nxt} \ {nxt}
      BY <1>6, <1>9, <3>1, <3>2, <3>3, <3>4, ChainTwo
    <3>6. QED
      BY <3>1, <3>5
  <2> DEFINE R == (S \ {b}) \union {s}
             h2 == IF prv = Null THEN s ELSE h
             tl2 == IF nxt = Null THEN s ELSE tl
             rel == Release(mid, {b})
  <2>5. ListAt(rel, R, h2, tl2, spied[t], {})
    <3>1. SameLinks(bs, S, b, half)
      BY <1>6, <1>11, <1>18 DEF SameLinks
    <3>2. half[s].next = nxt /\ half[s].prev = prv
      BY <1>16, <1>18
    <3>3. nxt # Null => pow(nxt) < pow(s)
      <4> SUFFICES ASSUME nxt # Null PROVE pow(nxt) < pow(s)
        OBVIOUS
      <4>1. pow(nxt) < pow(b) /\ pow(nxt) # pow(s) /\ pow(nxt) \in Nat
        BY <1>6, <1>8, <1>21, Sizes DEF both
      <4>2. QED
        BY <1>12, <4>1
    <3>4. prv # Null => pow(s) < pow(prv)
      <4> SUFFICES ASSUME prv # Null PROVE pow(s) < pow(prv)
        OBVIOUS
      <4>1. pow(b) < pow(prv) /\ pow(prv) \in Nat
        BY <1>6, <1>8, Sizes
      <4>2. QED
        BY <1>12, <4>1
    <3>5. nxt = bs[b].next /\ prv = bs[b].prev
      BY DEF nxt, prv
    <3> DEFINE B == {b}
    <3>6. Swap(S, S, b, s, B, R)
      BY <1>5 DEF Swap
    <3>7. NewEnds(h, tl, prv, nxt, s, h2, tl2)
      BY DEF NewEnds
    <3> HIDE DEF R, h2, tl2, B
    <3>8. /\ half \in [Blocks -> AnyBlock] /\ s \in Blocks /\ b \in S
          /\ ListAt(half, S, h, tl, spied[t], {s}) /\ Linked(bs, S, h, tl)
      BY <1>4, <1>5, <1>11, <1>18, <1>20
    <3>9. Between(half, nxt, s, prv)
      BY <3>2, <3>3, <3>4 DEF Between
    <3>10. ListAt(Release(NextSet(PrevSet(half, nxt, s), prv, s), B), R, h2, tl2, spied[t], {})
      BY <3>1, <3>5, <3>6, <3>7, <3>8, <3>9, Swapped
    <3>11. QED
      BY <3>10 DEF mid, B
  <2>6. free(prune) = rel
    BY <2>1, <2>2, <2>4
  <2> HIDE DEF free, rel
  <2>7. /\ SetBlocks(t, [rel EXCEPT ![s] = PeekBlock(version, @)])
        /\ Goto(t, "shrink", [loc[t] EXCEPT !.b = s, !.cand = PeekItem(version, rel[s])])
    BY <1>3, <2>1, <2>6
  <2>8. head' = [head EXCEPT ![t] = h2] /\ tail' = [tail EXCEPT ![t] = tl2]
    BY <1>3, <1>4, <2>1 DEF FieldTypes, h, tl
  <2>9. s \in R
    OBVIOUS
  <2>10. fault' = FALSE
    BY <1>1, <1>4, <1>11, <1>21 DEF Blank
  <2>11. rel = Release(mid, {b})
    BY DEF rel
  <2>12. \A y \in Blocks : BlockOK(y, half[y], Elements) /\ Grows(blk[t][y], half[y])
    BY <1>19 DEF bs
  <2>13. Stays(R, {b})
    BY <1>5, <1>11 DEF Stays
  <2>14. Halved(bs, S, b, half, s, R)
    <3>1. \A y \in S \ {b} : half[y] = bs[y]
      BY <1>6, <1>11, <1>18
    <3>2. pow(b) <= pow(s) + 1
      BY <1>12
    <3>3. QED
      BY <1>5, <1>11, <1>18, <1>24, <3>1, <3>2 DEF Halved
  <2> HIDE DEF R, h2, tl2
  <2>15. Inv' /\ List(t)' = R /\ Others(t) /\ Shrinks(t, half, s, R)
    BY <1>1, <2>3, <2>5, <2>7, <2>8, <2>9, <2>10, <2>11, <2>12, <2>13, ShrunkStep
  <2>16. QED
    BY <2>14, <2>15 DEF bs, S, b
<1>22. CASE both
  <2>1. n = m /\ after = half[nxt].next
    BY <1>22
  <2>2. nxt \in S /\ nxt \in Blocks /\ nxt # s /\ nxt # b /\ pow(nxt) = pow(s) /\ bs[nxt].prev = b
    BY <1>6, <1>8, <1>11, <1>12, <1>22
  <2>3. after = bs[nxt].next
    BY <1>18, <2>1, <2>2
  <2> HIDE DEF both, n, after
  <2>4. /\ after \in S \union {Null} /\ (after # Null => pow(after) < pow(nxt))
        /\ nxt # h /\ (nxt = tl <=> after = Null)
    <3>1. b # Null
      BY <1>6
    <3>2. QED
      BY <1>4, <2>2, <2>3, <3>1, Ends
  <2>5. after # Null => pow(after) < pow(b) /\ after # b
    <3> SUFFICES ASSUME after # Null PROVE pow(after) < pow(b) /\ after # b
      OBVIOUS
    <3>1. pow(after) \in Nat /\ pow(after) < pow(s)
      BY <1>6, <2>2, <2>4, Sizes
    <3>2. QED
      BY <1>12, <3>1
  <2>6. /\ m \in Blocks /\ pow(m) = pow(b) /\ m \notin S /\ m # s /\ m # spied[t]
        /\ Blank(half[m]) /\ half[m] = bs[m]
    <3>1. {s} \subseteq {s} /\ pow(s) + 1 \in 0 .. MaxPow
      BY <1>10, <1>12
    <3>2. /\ m \in Blocks /\ pow(m) = pow(s) + 1 /\ m \notin S \union {s} /\ m # spied[t]
          /\ Blank(half[m])
      BY <1>20, <3>1, FreeBlock
    <3>3. QED
      BY <1>12, <1>18, <3>2
  <2> HIDE DEF m
  <2> DEFINE y0 == MergeInto(version, set_used(half[m]), half[s], half[nxt], prune)
             y == Pointing(y0, after, prv)
             z == Unused(half[s])
             new == full(prune)
  <2>7. new = [half EXCEPT ![m] = y, ![s] = z]
    BY <1>16, <1>18, <1>22, <2>6 DEF Pointing
  <2> HIDE DEF full
  <2>8. /\ BlockOK(m, y0, Elements) /\ Grows(half[m], y0) /\ Ordered(y0) /\ y0.used
        /\ Stores(y0, Remaining(version, half[s], half[nxt], prune))
    <3>1. size(half[s]) + size(half[nxt]) <= capacity(m)
      <4>1. /\ capacity(m) = 2 * capacity(s) /\ capacity(nxt) = capacity(s)
        BY <1>11, <1>12, <2>2, <2>6, Sizes
      <4>2. size(half[s]) <= capacity(s) /\ size(half[s]) \in Nat
        BY <1>6, <1>13, <1>17, <1>18
      <4>3. size(half[nxt]) <= capacity(nxt) /\ size(half[nxt]) \in Nat
        BY <1>20, <2>2, ListFacts
      <4>4. QED
        BY <1>13, <4>1, <4>2, <4>3
    <3>2. Ordered(half[s]) /\ Ordered(half[nxt])
      BY <1>20, <2>2 DEF ListAt
    <3>3. BlockOK(m, half[m], Elements) /\ BlockOK(s, half[s], Elements) /\ BlockOK(nxt, half[nxt], Elements)
      BY <1>11, <1>19, <2>2, <2>6
    <3>4. QED
      BY <1>11, <2>2, <2>6, <3>1, <3>2, <3>3, MergedBlock
  <2> HIDE DEF y0
  <2>9. after \in Pointer
    BY <1>6, <2>4 DEF Pointer
  <2>10. /\ BlockOK(m, y, Elements) /\ SameEntries(y0, y)
         /\ y.used = y0.used /\ y.next = after /\ y.prev = prv
    <3>1. m \in Blocks /\ BlockOK(m, y0, Elements) /\ after \in Pointer /\ prv \in Pointer
      BY <1>9, <2>6, <2>8, <2>9
    <3>2. QED
      BY <3>1, PointersOK
  <2> HIDE DEF y
  <2>11. Ordered(y) /\ Grows(bs[m], y) /\ y.used
    <3>1. Grows(y0, y) /\ Ordered(y)
      BY <2>6, <2>8, <2>10, SameEntriesKeep
    <3>2. BlockOK(m, bs[m], Elements) /\ Grows(bs[m], y0)
      BY <1>6, <2>6, <2>8
    <3>3. Grows(bs[m], y)
      BY <2>6, <2>8, <2>10, <3>1, <3>2, GrowsTransitive
    <3>4. QED
      BY <2>8, <2>10, <3>1, <3>3
  <2>12. BlockOK(s, z, Elements) /\ Grows(bs[s], z) /\ Ordered(z) /\ Blank(z)
    <3>1. BlockOK(s, half[s], Elements) /\ BlockOK(s, bs[s], Elements) /\ Grows(bs[s], half[s])
      BY <1>6, <1>11, <1>19
    <3>2. /\ BlockOK(s, z, Elements) /\ Grows(half[s], z) /\ Ordered(z)
          /\ ~z.used /\ z.next = Null /\ z.prev = Null /\ z.first = 0 /\ z.last = 0
      BY <1>11, <3>1, UnusedOK
    <3> HIDE DEF z
    <3>3. Grows(bs[s], z)
      BY <1>11, <3>1, <3>2, GrowsTransitive
    <3>4. QED
      BY <3>2, <3>3 DEF Blank
  <2> HIDE DEF z
  <2>13. /\ new \in [Blocks -> AnyBlock] /\ new[m] = y /\ new[s] = z
         /\ \A w \in Blocks \ {m, s} : new[w] = bs[w]
    <3>1. y \in AnyBlock /\ z \in AnyBlock
      BY <1>11, <2>6, <2>10, <2>12 DEF BlockOK, AnyBlock
    <3>2. QED
      BY <1>11, <1>18, <2>6, <2>7, <3>1
  <2>14. up(prune) = prv
    BY <2>1, <2>10, <2>13
  <2> DEFINE mid == NextSet(PrevSet(new, after, m), prv, m)
  <2>15. bwd(prune) = mid
    BY <2>1, <2>14 DEF NextSet, PrevSet
  <2> HIDE DEF up, fwd, new
  <2>16. \A w \in Blocks : BlockOK(w, new[w], Elements) /\ Grows(bs[w], new[w])
    BY <1>6, <2>10, <2>11, <2>12, <2>13
  <2>17. ListAt(new, S, h, tl, spied[t], {m})
    <3>1. \A w \in Blocks \ {m} : Settled(bs[w], new[w])
      <4> SUFFICES ASSUME NEW w \in Blocks \ {m} PROVE Settled(bs[w], new[w])
        OBVIOUS
      <4>1. CASE w = s
        <5>1. bs[s].used = FALSE /\ z.used = FALSE
          BY <1>6, <1>11, <2>12 DEF Blank, BlockOK, BlockType
        <5>2. QED
          BY <1>11, <2>12, <2>13, <4>1, <5>1 DEF Settled, Blank
      <4>2. CASE w # s
        BY <2>13, <4>2 DEF Settled
      <4>3. QED
        BY <4>1, <4>2
    <3>2. new[m].used /\ Ordered(new[m])
      BY <2>11, <2>13
    <3>3. QED
      BY <1>5, <2>6, <2>16, <3>1, <3>2, AddWork
  <2>18. /\ Relinked(new, mid)
         /\ \A w \in Blocks : /\ mid[w].next = IF w = prv THEN m ELSE new[w].next
                              /\ mid[w].prev = IF w = after THEN m ELSE new[w].prev
    BY <1>9, <2>6, <2>9, <2>13, <2>16, SwapLinks
  <2> HIDE DEF mid, bwd
  <2>19. Chain(mid, b, after) = {b, nxt}
    <3>1. b # after /\ nxt # after /\ b # prv /\ nxt # prv
      <4>1. b # Null /\ nxt # Null /\ pow(nxt) \in Nat /\ pow(nxt) < pow(b)
        BY <1>6, <1>8, <2>2, Sizes
      <4>2. prv # Null => pow(prv) \in Nat
        BY <1>6, <1>8, Sizes
      <4>3. QED
        BY <1>8, <1>12, <2>4, <2>5, <4>1, <4>2
    <3>2. b \notin {m, s} /\ nxt \notin {m, s}
      BY <1>5, <1>11, <2>2, <2>6
    <3>3. mid[b].next = nxt /\ mid[nxt].next = after
      BY <1>6, <2>2, <2>3, <2>13, <2>18, <3>1, <3>2 DEF nxt
    <3>4. \A w \in Blocks : mid[w].next \in Pointer
      BY <2>18 DEF Relinked, BlockOK, BlockType
    <3>5. Chain(mid, b, after) = {b, nxt} \ {after}
      BY <1>6, <1>9, <2>2, <2>9, <3>1, <3>3, <3>4, ChainTwo
    <3>6. QED
      BY <3>1, <3>5
  <2> DEFINE T == S \ {nxt}
             list == [w \in Blocks |-> [next |-> IF w = b THEN after ELSE bs[w].next,
                                        prev |-> IF w = after THEN b ELSE bs[w].prev]]
             tl0 == IF nxt = tl THEN b ELSE tl
             B == {b, nxt}
             R == (T \ {b}) \union {m}
             h2 == IF prv = Null THEN m ELSE h
             tl2 == IF after = Null THEN m ELSE tl0
             rel == Release(mid, B)
  <2>20. \A w \in Blocks : /\ list[w].next = IF w = b THEN after ELSE bs[w].next
                           /\ list[w].prev = IF w = after THEN b ELSE bs[w].prev
    OBVIOUS
  <2> HIDE DEF list
  <2>21. Linked(list, T, h, tl0)
    <3>1. Bypassed(bs, S, nxt, list)
      BY <1>6, <2>2, <2>3, <2>20 DEF Bypassed
    <3>2. T = S \ {nxt} /\ h = IF nxt = h THEN bs[nxt].next ELSE h
      BY <2>4
    <3>3. tl0 = IF nxt = tl THEN bs[nxt].prev ELSE tl
      BY <2>2
    <3> HIDE DEF T, tl0
    <3>4. QED
      BY <1>4, <2>2, <3>1, <3>2, <3>3, Remove
  <2>22. ListAt(rel, R, h2, tl2, spied[t], {})
    <3>1. SameLinks(list, T, b, new)
      BY <1>6, <1>11, <2>6, <2>13, <2>20 DEF SameLinks
    <3>2. new[m].next = after /\ new[m].prev = prv
      BY <2>10, <2>13
    <3>3. after # Null => pow(after) < pow(m)
      BY <2>5, <2>6
    <3>4. prv # Null => pow(m) < pow(prv)
      BY <1>8, <2>6
    <3>5. after = list[b].next /\ prv = list[b].prev
      <4>1. b # after
        BY <1>6, <2>5
      <4>2. QED
        BY <1>6, <2>20, <4>1 DEF prv
    <3>6. Swap(S, T, b, m, B, R)
      BY <1>5, <2>2 DEF Swap
    <3>7. NewEnds(h, tl0, prv, after, m, h2, tl2)
      BY DEF NewEnds
    <3> HIDE DEF R, h2, tl2, T, B, tl0
    <3>8. ListAt(Release(NextSet(PrevSet(new, after, m), prv, m), B), R, h2, tl2, spied[t], {})
      <4>1. new \in [Blocks -> AnyBlock] /\ m \in Blocks /\ ListAt(new, S, h, tl, spied[t], {m})
        BY <2>6, <2>13, <2>17
      <4>2. Between(new, after, m, prv)
        BY <3>2, <3>3, <3>4 DEF Between
      <4>3. QED
        BY <2>21, <3>1, <3>5, <3>6, <3>7, <4>1, <4>2, Swapped
    <3>9. QED
      BY <3>8 DEF mid
  <2>23. free(prune) = rel
    BY <2>15, <2>19
  <2> HIDE DEF free, rel
  <2>24. /\ SetBlocks(t, [rel EXCEPT ![m] = PeekBlock(version, @)])
         /\ Goto(t, "shrink", [loc[t] EXCEPT !.b = m, !.cand = PeekItem(version, rel[m])])
    BY <1>3, <2>1, <2>23
  <2>25. head' = [head EXCEPT ![t] = h2] /\ tail' = [tail EXCEPT ![t] = tl2]
    <3>1. after # Null => tl2 = tl
      BY <2>4
    <3> HIDE DEF tl0
    <3>2. QED
      BY <1>3, <1>4, <2>1, <2>14, <3>1 DEF FieldTypes, h, tl
  <2>26. m \in R
    OBVIOUS
  <2>27. fault' = FALSE
    BY <1>1, <1>4, <1>11, <2>6 DEF Blank
  <2>28. rel = Release(mid, B)
    BY DEF rel
  <2>29. \A w \in Blocks : BlockOK(w, new[w], Elements) /\ Grows(blk[t][w], new[w])
    BY <2>16 DEF bs
  <2>30. Stays(R, B)
    BY <1>5, <2>2, <2>6 DEF Stays
  <2>31. Joined(bs, S, b, new, m, R)
    <3>1. \A w \in S \ {b, nxt} : new[w] = bs[w]
      BY <1>6, <1>11, <2>6, <2>13
    <3>2. /\ nxt \in S \ {b} /\ R = (S \ {b, nxt}) \union {m} /\ b \in S /\ m \notin S
          /\ s \in Blocks \ S
      BY <1>5, <1>11, <2>2, <2>6
    <3>3. half[s] = x /\ half[nxt] = bs[nxt]
      BY <1>18, <2>2
    <3>4. Stores(new[m], Remaining(version, x, bs[nxt], prune))
      BY <2>8, <2>10, <2>13, <3>3, StoresSame
    <3>5. BlockOK(s, x, Elements) /\ Stores(x, Untaken(version, Active(bs[b]))) /\ s \in Blocks
      BY <1>11, <1>16, <1>24
    <3>6. pow(b) <= pow(m) + 1
      BY <1>12, <2>6
    <3> HIDE DEF R, new, nxt
    <3>7. JoinedBy(bs, S, b, new, m, R, s, x, nxt, prune)
      BY <3>1, <3>2, <3>4, <3>5, <3>6 DEF JoinedBy
    <3>8. QED
      BY <3>7 DEF Joined
  <2> HIDE DEF R, h2, tl2, B
  <2>32. Inv' /\ List(t)' = R /\ Others(t) /\ Shrinks(t, new, m, R)
    BY <1>1, <2>18, <2>22, <2>24, <2>25, <2>26, <2>27, <2>28, <2>29, <2>30, ShrunkStep
  <2>33. QED
    BY <2>31, <2>32 DEF bs, S, b
<1>23. QED
  BY <1>21, <1>22

-----------------------------------------------------------------------------
(* The theorems. *)

(* At the start every list is empty and no block is in use.                *)
LEMMA InitInv == Init => Inv
PROOF
<1> SUFFICES ASSUME Init PROVE Inv
  OBVIOUS
<1>1. /\ version = [i \in Items |-> 0] /\ key = [i \in Items |-> 0]
      /\ blk = [t \in Threads |-> [b \in Blocks |-> NewBlock(b)]]
      /\ head = [t \in Threads |-> Null] /\ tail = [t \in Threads |-> Null]
      /\ spied = [t \in Threads |-> Null] /\ cached = [t \in Threads |-> EMPTY]
      /\ shared = {} /\ pc = [t \in Threads |-> "idle"]
      /\ loc = [t \in Threads |-> Idle] /\ fault = FALSE
  BY DEF Init
<1>2. Null \in Pointer /\ EMPTY \in Entry /\ Idle \in LocType /\ "idle" \in Pcs
  BY IdleOK DEF Pointer, Entry, Pcs
<1>3. FieldTypes
  BY <1>1, <1>2 DEF FieldTypes
<1>4. ASSUME NEW b \in Blocks
      PROVE  /\ BlockOK(b, NewBlock(b), Elements) /\ Blank(NewBlock(b))
             /\ NewBlock(b) \in AnyBlock
  <2> DEFINE x == NewBlock(b)
  <2>1. capacity(b) \in Nat
    BY Sizes
  <2>2. x.xs \in Array(b, Elements)
    BY DEF NewBlock, Array
  <2>3. x \in BlockType(b, Elements)
    BY <1>2, <2>2 DEF NewBlock, BlockType
  <2>4. /\ x.used = FALSE /\ x.first = 0 /\ x.last = 0
        /\ x.next = Null /\ x.prev = Null
    BY DEF NewBlock
  <2> HIDE DEF x
  <2>5. BlockOK(b, x, Elements) /\ Blank(x)
    BY <2>1, <2>3, <2>4 DEF BlockOK, Blank
  <2>6. x \in AnyBlock
    BY <2>3 DEF AnyBlock
  <2>7. QED
    BY <2>5, <2>6 DEF x
<1>5. Types
  <2>1. [b \in Blocks |-> NewBlock(b)] \in [Blocks -> AnyBlock]
    BY <1>4
  <2> DEFINE new == [b \in Blocks |-> NewBlock(b)]
  <2> HIDE DEF new
  <2>2. new \in [Blocks -> AnyBlock] /\ blk = [t \in Threads |-> new]
    BY <1>1, <2>1 DEF new
  <2>3. QED
    BY <1>3, <2>2 DEF Types
<1>6. ASSUME NEW t \in Threads
      PROVE  StateOK(blk[t], List(t), head[t], tail[t], spied[t], pc[t], loc[t]) /\ CopyOK(t)
  <2>1. /\ head[t] = Null /\ tail[t] = Null /\ spied[t] = Null /\ pc[t] = "idle"
        /\ loc[t] = Idle
    BY <1>1
  <2>2. \A b \in Blocks : BlockOK(b, blk[t][b], Elements) /\ Blank(blk[t][b])
    BY <1>1, <1>4
  <2>3. Linked(blk[t], {}, Null, Null)
    BY DEF Linked, OnePerSize, NextDown, NextUp
  <2>4. ListAt(blk[t], {}, Null, Null, Null, {})
    BY <1>2, <2>2, <2>3 DEF ListAt
  <2>5. StateOK(blk[t], {}, head[t], tail[t], spied[t], pc[t], loc[t])
    BY <2>1, <2>4 DEF StateOK, Work, Copying
  <2>6. List(t) = {}
    BY <2>5, ListIs DEF List
  <2>7. CopyOK(t)
    BY <2>1 DEF CopyOK, Copying
  <2>8. QED
    BY <2>5, <2>6, <2>7
<1>7. QED
  BY <1>1, <1>5, <1>6 DEF Inv

(* Every step of every thread keeps the invariant.                         *)
LEMMA NextInv ==
    ASSUME N >= 4, Inv, [Next]_vars
    PROVE  Inv'
PROOF
<1>1. CASE UNCHANGED vars
  <2>1. /\ version' = version /\ key' = key /\ blk' = blk /\ head' = head /\ tail' = tail
        /\ spied' = spied /\ cached' = cached /\ shared' = shared /\ pc' = pc /\ loc' = loc
        /\ fault' = fault
    BY <1>1 DEF vars
  <2>2. Types' /\ fault' = FALSE
    BY <2>1 DEF Inv, Types, FieldTypes
  <2>3. \A t \in Threads :
            StateOK(blk[t], List(t), head[t], tail[t], spied[t], pc[t], loc[t])'
    BY <2>1 DEF Inv, List
  <2>4. \A t \in Threads : CopyOK(t)'
    <3> SUFFICES ASSUME NEW t \in Threads PROVE CopyOK(t)'
      OBVIOUS
    <3>1. CopyOK(t) /\ Victim(t)' = Victim(t)
      BY <2>1 DEF Inv, Victim
    <3>2. QED
      BY <2>1, <3>1 DEF CopyOK
  <2>5. QED
    BY <2>2, <2>3, <2>4 DEF Inv
<1>2. ASSUME NEW t \in Threads, Call(t) PROVE Inv'
  <2>1. ASSUME NEW i \in Items, NEW k \in Keys, insert(t, i, k) PROVE Inv'
    BY <2>1, insertStep
  <2>2. CASE delete_min(t) \/ find_min(t) \/ call_spy(t)
    BY <2>2, callStep
  <2>3. CASE take_shared(t)
    BY <2>3, take_sharedStep
  <2>4. QED
    BY <1>2, <2>1, <2>2, <2>3 DEF Call
<1>3. ASSUME NEW t \in Threads, Step(t) PROVE Inv'
  <2>1. CASE merge(t)
    BY <2>1, mergeStep
  <2>2. CASE hand_over(t)
    BY <2>2, hand_overStep
  <2>3. CASE link(t)
    BY <2>3, linkStep
  <2>4. CASE peek_cached(t)
    BY <2>4, peek_cachedStep
  <2>5. CASE peek_scan(t)
    BY <2>5, peek_scanStep
  <2>6. CASE scan_block(t)
    BY <2>6, scan_blockStep
  <2>7. CASE unlink(t)
    BY <2>7, unlinkStep
  <2>8. CASE shrink(t)
    BY <2>8, shrinkStep
  <2>9. CASE advance(t)
    BY <2>9, advanceStep
  <2>10. CASE scan_end(t)
    BY <2>10, scan_endStep
  <2>11. CASE take(t)
    BY <2>11, takeStep
  <2>12. CASE spy_abort(t)
    BY <2>12, spy_abortStep
  <2>13. CASE spy(t)
    BY <2>13, spyStep
  <2>14. CASE copy_first(t)
    BY <2>14, copy_firstStep
  <2>15. CASE copy_last(t)
    BY <2>15, copy_lastStep
  <2>16. CASE copy(t)
    BY <2>16, copyStep
  <2>17. CASE spied_block(t)
    BY <2>17, spied_blockStep
  <2>18. QED
    BY <1>3, <2>1, <2>2, <2>3, <2>4, <2>5, <2>6, <2>7, <2>8, <2>9, <2>10, <2>11, <2>12,
       <2>13, <2>14, <2>15, <2>16, <2>17 DEF Step
<1>4. QED
  BY <1>1, <1>2, <1>3 DEF Next

(* The type invariant is part of the inductive one.                        *)
LEMMA InvTypeOK == Inv => TypeOK
PROOF
<1> SUFFICES ASSUME Inv PROVE TypeOK
  OBVIOUS
<1>1. Types /\ FieldTypes
  BY DEF Inv, Types
<1>2. ASSUME NEW t \in Threads, NEW b \in Blocks
      PROVE  LET x == blk[t][b]
             IN  /\ x.used \in BOOLEAN
                 /\ 0 <= x.first /\ x.first <= x.last /\ x.last <= capacity(b)
                 /\ DOMAIN x.xs = 0 .. (capacity(b) - 1)
                 /\ \A n \in DOMAIN x.xs : x.xs[n] \in BlockItems \union {EMPTY}
                 /\ \A n \in x.first .. (x.last - 1) : Is(x.xs[n])
                 /\ x.next \in Blocks \union {Null} /\ x.prev \in Blocks \union {Null}
  <2> DEFINE x == blk[t][b]
  <2>1. ListAt(blk[t], List(t), head[t], tail[t], spied[t], Work(pc[t], loc[t]))
    BY ThreadFacts
  <2>2. BlockOK(b, x, Elements)
    BY <2>1, ListFacts
  <2> HIDE DEF x
  <2>3. /\ x.used \in BOOLEAN /\ x.first \in Nat /\ x.last \in Nat
        /\ x.first <= x.last /\ x.last <= capacity(b)
        /\ x.xs \in [0 .. (capacity(b) - 1) -> Elements \union {EMPTY}]
        /\ x.next \in Blocks \union {Null} /\ x.prev \in Blocks \union {Null}
    BY <2>2 DEF BlockOK, BlockType, Array, Pointer
  <2>4. \A n \in x.first .. (x.last - 1) : Is(x.xs[n])
    BY <2>2, ItemsOK DEF BlockOK, Is
  <2>5. 0 <= x.first
    BY <2>3
  <2>6. /\ DOMAIN x.xs = 0 .. (capacity(b) - 1)
        /\ \A n \in DOMAIN x.xs : x.xs[n] \in BlockItems \union {EMPTY}
    BY <2>3 DEF Elements
  <2>7. QED
    BY <2>3, <2>4, <2>5, <2>6 DEF x
<1>3. \A p \in {head, tail, spied} : p \in [Threads -> Blocks \union {Null}]
  BY <1>1 DEF FieldTypes, Pointer
<1>4. cached \in [Threads -> BlockItems \union {EMPTY}]
  BY <1>1 DEF FieldTypes, Entry, Elements
<1>5. QED
  BY <1>1, <1>2, <1>3, <1>4 DEF TypeOK, FieldTypes, Elements

(* The blocks an operation of t works on, outside the list.                *)
LEMMA TempsOK ==
    ASSUME Inv, NEW t \in Threads
    PROVE  /\ Work(pc[t], loc[t]) \subseteq Temps(t)
           /\ Temps(t) \subseteq Work(pc[t], loc[t]) \union List(t)
PROOF
<1>1. CASE pc[t] = "merge"
  <2>1. /\ StateOK(blk[t], List(t), head[t], tail[t], spied[t], pc[t], loc[t])
        /\ ListAt(blk[t], List(t), head[t], tail[t], spied[t], Work(pc[t], loc[t]))
        /\ Linked(blk[t], List(t), head[t], tail[t])
    BY ThreadFacts
  <2>2. loc[t].del \in List(t) \union {Null}
    BY <1>1, <2>1 DEF StateOK, Merging
  <2>3. \A x \in Blocks : blk[t][x].next \in Pointer
    BY <2>1, ListFacts
  <2>4. Chain(blk[t], loc[t].del, Null) \subseteq List(t)
    BY <2>1, <2>2, <2>3, ChainFrom
  <2>5. Temps(t) = {loc[t].b} \union Chain(blk[t], loc[t].del, Null)
    BY <1>1 DEF Temps
  <2>6. Work(pc[t], loc[t]) = {loc[t].b}
    BY <1>1 DEF Work
  <2>7. QED
    BY <2>4, <2>5, <2>6
<1>2. CASE pc[t] # "merge"
  BY <1>2 DEF Temps, Work, Copying
<1>3. QED
  BY <1>1, <1>2

(* What the invariant says of the lists.                                   *)
LEMMA InvListOK == Inv => ListOK
PROOF
<1> SUFFICES ASSUME Inv, NEW t \in Threads
             PROVE  LET bs == blk[t]
                    IN  /\ (head[t] = Null) <=> (tail[t] = Null)
                        /\ head[t] # Null => bs[head[t]].prev = Null /\ bs[tail[t]].next = Null
                                             /\ tail[t] \in List(t)
                        /\ \A b \in List(t) : bs[b].next # Null =>
                               pow(bs[b].next) < pow(b) /\ bs[bs[b].next].prev = b
                        /\ {b \in Blocks : bs[b].used} =
                               (List(t) \union Temps(t) \union {spied[t]}) \ {Null}
  BY DEF ListOK
<1> DEFINE bs == blk[t]
           S == List(t)
           W == Work(pc[t], loc[t])
<1>1. ListAt(bs, S, head[t], tail[t], spied[t], W) /\ Linked(bs, S, head[t], tail[t])
  BY ThreadFacts
<1>2. W \subseteq Temps(t) /\ Temps(t) \subseteq W \union S
  BY TempsOK
<1>3. /\ S \subseteq Blocks /\ W \subseteq Blocks /\ spied[t] \in Pointer /\ Null \notin Blocks
  BY <1>1, ListFacts, Sizes
<1> HIDE DEF bs, S, W
<1>4. (head[t] = Null) <=> (tail[t] = Null)
  BY <1>1, Ends
<1>5. head[t] # Null => bs[head[t]].prev = Null /\ bs[tail[t]].next = Null /\ tail[t] \in S
  <2> SUFFICES ASSUME head[t] # Null
               PROVE  bs[head[t]].prev = Null /\ bs[tail[t]].next = Null /\ tail[t] \in S
    OBVIOUS
  <2>1. head[t] \in S /\ tail[t] \in S
    BY <1>1, Ends
  <2>2. QED
    BY <1>1, <2>1, Ends
<1>6. \A b \in S : bs[b].next # Null => pow(bs[b].next) < pow(b) /\ bs[bs[b].next].prev = b
  BY <1>1, Ends
<1>7. \A b \in Blocks : bs[b].used <=> b \in S \union W \union {spied[t]}
  BY <1>1, <1>3 DEF ListAt, Blank
<1>8. {b \in Blocks : bs[b].used} = (S \union Temps(t) \union {spied[t]}) \ {Null}
  BY <1>2, <1>3, <1>7 DEF Pointer
<1>9. QED
  BY <1>4, <1>5, <1>6, <1>8 DEF bs, S

(* What the invariant says of the order of a block's entries.              *)
LEMMA InvSorted == Inv => Sorted
PROOF
<1> SUFFICES ASSUME Inv, NEW t \in Threads, NEW b \in List(t)
             PROVE  LET a == Active(blk[t][b])
                    IN  \A m, n \in DOMAIN a : m < n => a[m].key <= a[n].key
  BY DEF Sorted
<1>1. ListAt(blk[t], List(t), head[t], tail[t], spied[t], Work(pc[t], loc[t]))
  BY ThreadFacts
<1>2. b \in Blocks /\ BlockOK(b, blk[t][b], Elements) /\ Ordered(blk[t][b])
  <2>1. b \in Blocks /\ Ordered(blk[t][b])
    BY <1>1, ListFacts DEF ListAt
  <2>2. QED
    BY <1>1, <2>1, ListFacts
<1> DEFINE a == Active(blk[t][b])
<1>3. a \in Seq(Elements) /\ KeyOrder(a)
  BY <1>2, ActiveSeq
<1> HIDE DEF a
<1>4. DOMAIN a = 1 .. Len(a)
  BY <1>3
<1>5. QED
  BY <1>3, <1>4 DEF KeyOrder, a

(* With four blocks of each size, as dist_lsm_local's block_storage has    *)
(* them, the invariant holds in every state.                               *)
THEOREM ListInvariant ==
    ASSUME N >= 4
    PROVE  Spec => []Inv
PROOF
<1>1. Inv /\ [Next]_vars => Inv'
  BY NextInv
<1>2. QED
  BY <1>1, InitInv, PTL DEF Spec

(* The variables keep their types, and the active range of every block     *)
(* lies within its capacity and has no null pointer.                       *)
THEOREM TypesCorrect ==
    ASSUME N >= 4
    PROVE  Spec => []TypeOK
BY ListInvariant, InvTypeOK, PTL

(* The list of every thread is well formed after every step, and the used  *)
(* flags of its block_storage say what the list and the operation hold.    *)
THEOREM ListsWellFormed ==
    ASSUME N >= 4
    PROVE  Spec => []ListOK
BY ListInvariant, InvListOK, PTL

(* get_block never returns a block that is in use: of a size at most one   *)
(* block is in the list, one is spied and one is worked on, so a fourth is *)
(* free.                                                                   *)
THEOREM FourPerSizeSuffice ==
    ASSUME N >= 4
    PROVE  Spec => []StorageSuffices
PROOF
<1>1. Inv => StorageSuffices
  BY DEF Inv, StorageSuffices
<1>2. QED
  BY <1>1, ListInvariant, PTL

(* The blocks of every list are in key order.                              *)
THEOREM BlocksSorted ==
    ASSUME N >= 4
    PROVE  Spec => []Sorted
BY ListInvariant, InvSorted, PTL

-----------------------------------------------------------------------------
(* Where the elements are.  Every operation carries the entries of its     *)
(* thread's blocks from one set of blocks to another: what is not taken    *)
(* stays, what was in one place is in one place again, and nothing is      *)
(* added but the item that insert() puts in and what is handed over to the *)
(* shared LSM.                                                             *)

(* Where a thread's elements are while merge_insert runs: the block at     *)
(* hand has taken the place of the blocks up to delete_block.              *)
MineOf(S, p, l) ==
    IF p = "merge" THEN {l.b} \union {x \in S : pow(x) > Deleted(l)} ELSE S
Mine(t) == MineOf(List(t), pc[t], loc[t])

(* Some block of S holds e; e is in at most one place of them. *)
Held(bs, S, e) == \E b \in S : In(bs[b], e)
Apart(bs, S, e) ==
    /\ \A b \in S : Once(bs[b], e)
    /\ \A b, c \in S : In(bs[b], e) /\ In(bs[c], e) => b = c

(* What insert() put in last with item i. *)
Current(i) == [item |-> i, ver |-> version[i], key |-> key[i]]

(* The inductive invariant: a list holds its owner's items only, in none   *)
(* but their past and present uses, and every element in use is in one     *)
(* place of its owner's blocks or else in the shared LSM.                  *)
Elem ==
    /\ \A t \in Threads, e \in Elements :
           Held(blk[t], Mine(t), e) => Owner[e.item] = t /\ e.ver <= version[e.item]
    /\ \A e \in shared : e.ver <= version[e.item]
    /\ \A i \in Items : used(i) =>
           /\ Current(i) \in Elements
           /\ Apart(blk[Owner[i]], Mine(Owner[i]), Current(i))
           /\ Held(blk[Owner[i]], Mine(Owner[i]), Current(i)) <=> Current(i) \notin shared

-----------------------------------------------------------------------------
(* How entries are carried from one set of blocks to another. *)

(* The entries of a block, and where they are, have not changed.           *)
SameActive(x, y) ==
    /\ y.first = x.first /\ y.last = x.last
    /\ \A n \in x.first .. (x.last - 1) : y.xs[n] = x.xs[n]
(* The block keeps e unless it is taken, and gains nothing.                *)
Keeps(ver, x, y, e) ==
    /\ In(y, e) => In(x, e)
    /\ In(x, e) /\ ~taken(ver, e) => In(y, e)
    /\ Once(x, e) => Once(y, e)
(* The same of the blocks S before a step and R after it.                  *)
Carried(ver, bs, S, new, R, e) ==
    /\ Held(new, R, e) => Held(bs, S, e)
    /\ Held(bs, S, e) /\ ~taken(ver, e) => Held(new, R, e)
    /\ Apart(bs, S, e) => Apart(new, R, e)

(* The same active entries are the same elements.                          *)
LEMMA SameHolds ==
    ASSUME NEW x, NEW y, SameActive(x, y), NEW e
    PROVE  (In(y, e) <=> In(x, e)) /\ (Once(y, e) <=> Once(x, e))
PROOF
<1>1. /\ y.first = x.first /\ y.last = x.last
      /\ \A n \in x.first .. (x.last - 1) : y.xs[n] = x.xs[n]
  BY DEF SameActive
<1>2. QED
  BY <1>1 DEF In, Once

(* Every block of a list keeps its elements: they are carried.             *)
LEMMA CarriedEach ==
    ASSUME NEW ver, NEW bs, NEW new, NEW S, NEW e, \A b \in S : Keeps(ver, bs[b], new[b], e)
    PROVE  Carried(ver, bs, S, new, S, e)
BY DEF Keeps, Carried, Held, Apart

(* Carrying elements twice.                                                *)
LEMMA CarriedTwice ==
    ASSUME NEW ver, NEW bs, NEW S, NEW mid, NEW T, NEW new, NEW R, NEW e,
           Carried(ver, bs, S, mid, T, e), Carried(ver, mid, T, new, R, e)
    PROVE  Carried(ver, bs, S, new, R, e)
BY DEF Carried

(* The blocks Q keep their elements, those of B are carried to C.          *)
LEMMA CarriedPart ==
    ASSUME NEW ver, NEW bs, NEW new, NEW Q, NEW B, NEW C, NEW S, NEW R, NEW e,
           S = Q \union B, R = Q \union C, Q \intersect B = {}, Q \intersect C = {},
           \A b \in Q : Keeps(ver, bs[b], new[b], e), Carried(ver, bs, B, new, C, e)
    PROVE  Carried(ver, bs, S, new, R, e)
PROOF
<1>1. /\ Held(bs, S, e) <=> Held(bs, Q, e) \/ Held(bs, B, e)
      /\ Held(new, R, e) <=> Held(new, Q, e) \/ Held(new, C, e)
  BY DEF Held
<1>2. /\ Held(new, Q, e) => Held(bs, Q, e)
      /\ Held(bs, Q, e) /\ ~taken(ver, e) => Held(new, Q, e)
  BY DEF Held, Keeps
<1>3. ASSUME Apart(bs, S, e) PROVE Apart(new, R, e)
  <2>1. /\ \A b \in S : Once(bs[b], e)
        /\ \A b, c \in S : In(bs[b], e) /\ In(bs[c], e) => b = c
    BY <1>3 DEF Apart
  <2>2. Apart(bs, B, e)
    BY <2>1 DEF Apart
  <2>3. /\ \A b \in C : Once(new[b], e)
        /\ \A b, c \in C : In(new[b], e) /\ In(new[c], e) => b = c
    BY <2>2 DEF Carried, Apart
  <2>4. \A b \in Q : Once(new[b], e) /\ (In(new[b], e) => In(bs[b], e))
    BY <2>1 DEF Keeps
  <2>5. ASSUME NEW b \in Q, NEW c \in C, In(new[b], e), In(new[c], e) PROVE FALSE
    <3>1. Held(bs, B, e)
      BY <2>5 DEF Carried, Held
    <3>2. PICK d \in B : In(bs[d], e)
      BY <3>1 DEF Held
    <3>3. b = d
      BY <2>1, <2>4, <2>5, <3>2
    <3>4. QED
      BY <3>3
  <2>6. \A b \in R : Once(new[b], e)
    BY <2>3, <2>4
  <2>7. ASSUME NEW b \in R, NEW c \in R, In(new[b], e), In(new[c], e) PROVE b = c
    <3>1. CASE b \in Q /\ c \in Q
      BY <2>1, <2>4, <2>7, <3>1
    <3>2. CASE b \in C /\ c \in C
      BY <2>3, <2>7, <3>2
    <3>3. CASE (b \in Q /\ c \in C) \/ (b \in C /\ c \in Q)
      BY <2>5, <2>7, <3>3
    <3>4. QED
      BY <3>1, <3>2, <3>3
  <2>8. QED
    BY <2>6, <2>7 DEF Apart
<1>4. QED
  BY <1>1, <1>2, <1>3 DEF Carried

(* Two blocks are merged into one.                                         *)
LEMMA CarriedMerge ==
    ASSUME NEW ver, NEW bs, NEW new, NEW b \in Blocks, NEW c \in Blocks, b # c, NEW m,
           BlockOK(b, bs[b], Elements), BlockOK(c, bs[c], Elements), NEW prune \in BOOLEAN,
           Stores(new[m], Remaining(ver, bs[b], bs[c], prune)), NEW e
    PROVE  Carried(ver, bs, {b, c}, new, {m}, e)
PROOF
<1>1. /\ In(new[m], e) => In(bs[b], e) \/ In(bs[c], e)
      /\ (In(bs[b], e) \/ In(bs[c], e)) /\ ~taken(ver, e) => In(new[m], e)
      /\ Once(bs[b], e) /\ Once(bs[c], e) /\ ~(In(bs[b], e) /\ In(bs[c], e)) => Once(new[m], e)
  BY ItemsOK, MergeIntoHolds
<1>2. QED
  BY <1>1 DEF Carried, Held, Apart

(* A block is copied.                                                      *)
LEMMA CarriedCopy ==
    ASSUME NEW ver, NEW bs, NEW new, NEW b \in Blocks, NEW m, BlockOK(b, bs[b], Elements),
           Stores(new[m], Untaken(ver, Active(bs[b]))), NEW e
    PROVE  Carried(ver, bs, {b}, new, {m}, e)
PROOF
<1>1. /\ In(new[m], e) <=> In(bs[b], e) /\ ~taken(ver, e)
      /\ Once(bs[b], e) => Once(new[m], e)
  BY ItemsOK, CopyIntoHolds
<1>2. QED
  BY <1>1 DEF Carried, Held, Apart

-----------------------------------------------------------------------------
(* What most steps have in common. *)

(* The blocks of a list are those in use that are neither spied nor worked *)
(* on.                                                                     *)
LEMMA ListByUse ==
    ASSUME NEW bs, NEW S, NEW h, NEW tl, NEW sp, NEW W, ListAt(bs, S, h, tl, sp, W)
    PROVE  S = {b \in Blocks : bs[b].used} \ (W \union {sp})
PROOF
<1>1. S \subseteq Blocks /\ S \intersect W = {} /\ sp \notin S
  BY ListFacts
<1>2. \A b \in S : bs[b].used
  BY DEF ListAt
<1>3. \A b \in Blocks \ (S \union W \union {sp}) : ~bs[b].used
  BY DEF ListAt, Blank
<1>4. QED
  BY <1>1, <1>2, <1>3

(* Where a thread goes.                                                    *)
LEMMA GoneTo ==
    ASSUME FieldTypes, NEW t \in Threads, NEW p, NEW l, Goto(t, p, l)
    PROVE  /\ pc'[t] = p /\ loc'[t] = l
           /\ \A u \in Threads \ {t} : pc'[u] = pc[u] /\ loc'[u] = loc[u]
BY DEF FieldTypes, Goto

(* A thread that writes none of another one's variables leaves its         *)
(* elements where they are.                                                *)
LEMMA OthersMine ==
    ASSUME NEW t \in Threads, Others(t), NEW u \in Threads \ {t}, blk'[u] = blk[u]
    PROVE  Mine(u)' = Mine(u)
BY DEF Others, Mine, List

(* What SetBlocks leaves of the blocks' entries, and the list it leaves.   *)
LEMMA BlocksSet ==
    ASSUME Types, NEW t \in Threads, NEW new, SetBlocks(t, new),
           \A b \in Blocks : BlockOK(b, new[b], Elements)
    PROVE  /\ \A u \in Threads \ {t} : blk'[u] = blk[u]
           /\ \A b \in Blocks : blk'[t][b].used = new[b].used /\ SameActive(new[b], blk'[t][b])
PROOF
<1> DEFINE after == [b \in Blocks |-> IF Copied(t, b) THEN new[b] ELSE Trim(new[b])]
<1>1. blk' = [blk EXCEPT ![t] = after] /\ blk \in [Threads -> [Blocks -> AnyBlock]]
  BY DEF Types, SetBlocks
<1>2. ASSUME NEW b \in Blocks
      PROVE  after[b].used = new[b].used /\ SameActive(new[b], after[b])
  <2>1. CASE Copied(t, b)
    <3>1. after[b] = new[b]
      BY <2>1
    <3>2. QED
      BY <3>1 DEF SameActive
  <2>2. CASE ~Copied(t, b)
    <3>1. after[b] = Trim(new[b])
      BY <2>2
    <3>2. LET y == Trim(new[b])
          IN  /\ y.used = new[b].used /\ y.first = new[b].first /\ y.last = new[b].last
              /\ \A n \in new[b].first .. (new[b].last - 1) : y.xs[n] = new[b].xs[n]
      BY TrimOK
    <3>3. QED
      BY <3>1, <3>2 DEF SameActive
  <2>3. QED
    BY <2>1, <2>2
<1> HIDE DEF after
<1>3. blk'[t] = after /\ \A u \in Threads \ {t} : blk'[u] = blk[u]
  BY <1>1
<1>4. QED
  BY <1>2, <1>3

(* The list before a step, ...                                             *)
LEMMA ListNow ==
    ASSUME Inv, NEW t \in Threads
    PROVE  List(t) = {b \in Blocks : blk[t][b].used} \ (Work(pc[t], loc[t]) \union {spied[t]})
PROOF
<1>1. ListAt(blk[t], List(t), head[t], tail[t], spied[t], Work(pc[t], loc[t]))
  BY ThreadFacts
<1>2. QED
  BY <1>1, ListByUse

(* ... and after it.                                                       *)
LEMMA ListSet ==
    ASSUME Types, Inv', NEW t \in Threads, NEW new, SetBlocks(t, new),
           \A b \in Blocks : BlockOK(b, new[b], Elements)
    PROVE  List(t)' = {b \in Blocks : new[b].used} \ (Work(pc'[t], loc'[t]) \union {spied'[t]})
PROOF
<1>1. StateOK(blk'[t], List(t)', head'[t], tail'[t], spied'[t], pc'[t], loc'[t])
  BY DEF Inv
<1>2. ListAt(blk'[t], List(t)', head'[t], tail'[t], spied'[t], Work(pc'[t], loc'[t]))
  BY <1>1 DEF StateOK
<1>3. List(t)' = {b \in Blocks : blk'[t][b].used} \ (Work(pc'[t], loc'[t]) \union {spied'[t]})
  BY <1>2, ListByUse
<1>4. \A b \in Blocks : blk'[t][b].used = new[b].used
  BY BlocksSet
<1>5. QED
  BY <1>3, <1>4

(* A thread works on its own elements, ...                                 *)
LEMMA ElemCarried ==
    ASSUME Elem, NEW t \in Threads, UNCHANGED <<version, key, shared>>,
           \A u \in Threads \ {t} : blk'[u] = blk[u] /\ Mine(u)' = Mine(u),
           \A e \in Elements : Carried(version, blk[t], Mine(t), blk'[t], Mine(t)', e)
    PROVE  Elem'
PROOF
<1>1. ASSUME NEW u \in Threads, NEW e \in Elements, Held(blk'[u], Mine(u)', e)
      PROVE  Owner[e.item] = u /\ e.ver <= version'[e.item]
  <2>1. Held(blk[u], Mine(u), e)
    BY <1>1 DEF Carried
  <2>2. QED
    BY <2>1 DEF Elem
<1>2. \A e \in shared' : e.ver <= version'[e.item]
  BY DEF Elem
<1>3. ASSUME NEW i \in Items, used(i)'
      PROVE  /\ Current(i)' \in Elements
             /\ Apart(blk'[Owner[i]], Mine(Owner[i])', Current(i)')
             /\ Held(blk'[Owner[i]], Mine(Owner[i])', Current(i)') <=> Current(i)' \notin shared'
  <2> DEFINE u == Owner[i]
             e == Current(i)
  <2>1. Current(i)' = e /\ used(i) /\ u \in Threads /\ ~taken(version, e)
    BY <1>3, DistAssumption DEF Current, used, taken
  <2>2. /\ e \in Elements /\ Apart(blk[u], Mine(u), e)
        /\ Held(blk[u], Mine(u), e) <=> e \notin shared
    BY <2>1 DEF Elem
  <2>3. Apart(blk'[u], Mine(u)', e) /\ (Held(blk'[u], Mine(u)', e) <=> Held(blk[u], Mine(u), e))
    <3> HIDE DEF e
    <3>1. CASE u = t
      BY <2>1, <2>2, <3>1 DEF Carried
    <3>2. CASE u # t
      BY <2>1, <2>2, <3>2
    <3>3. QED
      BY <3>1, <3>2
  <2>4. QED
    BY <2>1, <2>2, <2>3
<1>4. QED
  BY <1>1, <1>2, <1>3 DEF Elem

(* ... in blocks it writes with SetBlocks.                                 *)
LEMMA ElemWritten ==
    ASSUME Types, Elem, NEW t \in Threads, UNCHANGED <<version, key, shared>>, Others(t),
           NEW new, SetBlocks(t, new), \A b \in Blocks : BlockOK(b, new[b], Elements),
           NEW R \in SUBSET Blocks, Mine(t)' = R,
           \A e \in Elements : Carried(version, blk[t], Mine(t), new, R, e)
    PROVE  Elem'
PROOF
<1>1. /\ \A u \in Threads \ {t} : blk'[u] = blk[u]
      /\ \A b \in Blocks : SameActive(new[b], blk'[t][b])
  BY BlocksSet
<1>2. \A u \in Threads \ {t} : blk'[u] = blk[u] /\ Mine(u)' = Mine(u)
  BY <1>1, OthersMine
<1>3. ASSUME NEW e \in Elements
      PROVE  Carried(version, blk[t], Mine(t), blk'[t], Mine(t)', e)
  <2> DEFINE S == Mine(t)
             bs == blk[t]
             after == blk'[t]
  <2>1. \A b \in R : Keeps(version, new[b], after[b], e)
    BY <1>1, SameHolds DEF Keeps
  <2>2. Carried(version, bs, S, new, R, e)
    OBVIOUS
  <2> HIDE DEF S, bs, after
  <2>3. Carried(version, new, R, after, R, e)
    BY <2>1, CarriedEach
  <2>4. Carried(version, bs, S, after, R, e)
    BY <2>2, <2>3, CarriedTwice
  <2>5. QED
    BY <2>4 DEF S, bs, after
<1>4. QED
  BY <1>2, <1>3, ElemCarried

-----------------------------------------------------------------------------
(* Steps that move no element. *)

(* Steps that leave all blocks alone.                                      *)
LEMMA ElemStill ==
    ASSUME Inv, Elem, NEW t \in Threads, pc[t] # "merge", blk' = blk,
           NEW p, p # "merge", NEW l, Goto(t, p, l),
           UNCHANGED <<version, key, head, tail, spied, shared>>
    PROVE  Elem'
PROOF
<1>1. FieldTypes
  BY ThreadFacts
<1>2. pc'[t] = p /\ Others(t)
  BY <1>1, GoneTo DEF Others
<1>3. Mine(t) = List(t) /\ Mine(t)' = List(t)
  BY <1>2 DEF Mine, MineOf, List
<1>4. \A u \in Threads \ {t} : blk'[u] = blk[u] /\ Mine(u)' = Mine(u)
  BY <1>2, OthersMine
<1>5. \A e \in Elements : Carried(version, blk[t], Mine(t), blk'[t], Mine(t)', e)
  BY <1>3 DEF Carried
<1>6. QED
  BY <1>4, <1>5, ElemCarried

(* peek()'s caller goes on without merging.                                *)
LEMMA AfterPeekGoes ==
    ASSUME NEW t, NEW best, AfterPeek(t, best)
    PROVE  \E p, l : Goto(t, p, l) /\ p \in {"idle", "take", "spy"}
PROOF
<1>1. \/ Goto(t, "idle", Idle)
      \/ Goto(t, "take", [Idle EXCEPT !.op = "delete_min", !.best = best])
      \/ Goto(t, "spy", [Idle EXCEPT !.op = "delete_min"])
  BY DEF AfterPeek, Return
<1>2. QED
  BY <1>1

(* The calls, and the steps of peek() and copy() that only read.           *)
LEMMA readElem ==
    ASSUME Inv, Elem, NEW t \in Threads,
           \/ delete_min(t) \/ find_min(t) \/ call_spy(t) \/ peek_cached(t) \/ peek_scan(t)
           \/ advance(t) \/ copy_first(t) \/ copy_last(t)
    PROVE  Elem'
PROOF
<1>1. \E p, l : Goto(t, p, l) /\ p # "merge"
  <2>1. CASE peek_cached(t)
    <3>1. AfterPeek(t, cached[t])
      BY <2>1 DEF peek_cached
    <3>2. QED
      BY <3>1, AfterPeekGoes
  <2>2. CASE delete_min(t) \/ find_min(t) \/ call_spy(t)
    BY <2>2 DEF delete_min, find_min, call_spy
  <2>3. CASE peek_scan(t) \/ advance(t)
    BY <2>3 DEF peek_scan, advance
  <2>4. CASE copy_first(t) \/ copy_last(t)
    BY <2>4 DEF copy_first, copy_last
  <2>5. QED
    BY <2>1, <2>2, <2>3, <2>4
<1>2. pc[t] # "merge" /\ blk' = blk /\ UNCHANGED <<version, key, head, tail, spied, shared>>
  BY DEF delete_min, find_min, call_spy, peek_cached, peek_scan, advance, copy_first, copy_last,
         lists
<1>3. QED
  BY <1>1, <1>2, ElemStill

(* Steps that write blocks, keep the elements in each block of the list,   *)
(* and move on to where no block of it is merged.                          *)
LEMMA ElemKept ==
    ASSUME Inv, Inv', Elem, NEW t \in Threads, pc[t] # "merge",
           NEW p, p # "merge", NEW l, Goto(t, p, l),
           UNCHANGED <<version, key, head, tail, shared>>,
           \A u \in Threads \ {t} : spied'[u] = spied[u],
           NEW new, SetBlocks(t, new), \A b \in Blocks : BlockOK(b, new[b], Elements),
           {b \in Blocks : new[b].used} \ (Work(p, l) \union {spied'[t]}) = List(t),
           \A b \in List(t), e \in Elements : Keeps(version, blk[t][b], new[b], e)
    PROVE  Elem'
PROOF
<1>1. Types /\ FieldTypes
  BY ThreadFacts
<1>2. pc'[t] = p /\ loc'[t] = l /\ Others(t)
  BY <1>1, GoneTo DEF Others
<1>3. Mine(t) = List(t) /\ Mine(t)' = List(t)'
  BY <1>2 DEF Mine, MineOf
<1>4. List(t)' = List(t)
  BY <1>1, <1>2, ListSet
<1>5. \A e \in Elements : Carried(version, blk[t], List(t), new, List(t), e)
  BY CarriedEach
<1>6. List(t) \subseteq Blocks
  BY ListNow
<1>7. QED
  BY <1>1, <1>2, <1>3, <1>4, <1>5, <1>6, ElemWritten

(* What is peeked is not lost.                                             *)
LEMMA PeekedHolds ==
    ASSUME NEW bs \in [Blocks -> AnyBlock], \A x \in Blocks : BlockOK(x, bs[x], Elements),
           NEW c \in Pointer
    PROVE  LET new == Peeked(bs, c)
           IN  \A x \in Blocks : /\ BlockOK(x, new[x], Elements) /\ new[x].used = bs[x].used
                                 /\ \A e \in Elements : Keeps(version, bs[x], new[x], e)
PROOF
<1> DEFINE new == Peeked(bs, c)
           y == PeekBlock(version, bs[c])
<1>1. Null \notin Blocks /\ (c # Null => c \in Blocks)
  BY Sizes DEF Pointer
<1>2. CASE c = Null
  <2>1. new = bs
    BY <1>2 DEF Peeked
  <2> HIDE DEF new
  <2>2. QED
    BY <2>1 DEF Keeps, new
<1>3. CASE c # Null
  <2>1. c \in Blocks /\ BlockOK(c, bs[c], Elements) /\ EMPTY \notin Elements
    BY <1>1, <1>3, ItemsOK
  <2>2. BlockOK(c, y, Elements) /\ y.used = bs[c].used
    BY <2>1, PeekOK
  <2>3. \A e \in Elements : Keeps(version, bs[c], y, e)
    BY <2>1, PeekHolds DEF Keeps
  <2>4. new = [bs EXCEPT ![c] = y]
    BY <1>3 DEF Peeked
  <2> HIDE DEF new, y
  <2>5. new[c] = y /\ \A x \in Blocks \ {c} : new[x] = bs[x]
    BY <2>1, <2>4
  <2>6. QED
    BY <2>1, <2>2, <2>3, <2>5 DEF Keeps, new
<1>4. QED
  BY <1>2, <1>3

(* Steps that peek a block.                                                *)
LEMMA ElemPeeked ==
    ASSUME Inv, Inv', Elem, NEW t \in Threads, pc[t] \notin {"merge"} \union Copying,
           NEW p, p \notin {"merge"} \union Copying, NEW l, Goto(t, p, l),
           UNCHANGED <<version, key, head, tail, spied, shared>>,
           NEW c \in Pointer, SetBlocks(t, Peeked(blk[t], c))
    PROVE  Elem'
PROOF
<1> DEFINE bs == blk[t]
           new == Peeked(bs, c)
<1>1. /\ bs \in [Blocks -> AnyBlock] /\ \A x \in Blocks : BlockOK(x, bs[x], Elements)
  BY ThreadFacts DEF ListAt
<1>2. \A x \in Blocks : /\ BlockOK(x, new[x], Elements) /\ new[x].used = bs[x].used
                        /\ \A e \in Elements : Keeps(version, bs[x], new[x], e)
  BY <1>1, PeekedHolds
<1>3. List(t) = {b \in Blocks : bs[b].used} \ {spied[t]} /\ Work(p, l) = {}
  BY ListNow DEF Work
<1> HIDE DEF new
<1>4. /\ {b \in Blocks : new[b].used} \ (Work(p, l) \union {spied'[t]}) = List(t)
      /\ \A b \in List(t), e \in Elements : Keeps(version, bs[b], new[b], e)
  BY <1>2, <1>3
<1>5. SetBlocks(t, new) /\ pc[t] # "merge" /\ p # "merge"
  BY DEF new
<1>6. QED
  BY <1>2, <1>4, <1>5, ElemKept

(* scan_block, scan_end and spy_abort *)
LEMMA peekElem ==
    ASSUME Inv, Inv', Elem, NEW t \in Threads, scan_block(t) \/ scan_end(t) \/ spy_abort(t)
    PROVE  Elem'
PROOF
<1>1. /\ pc[t] \notin {"merge"} \union Copying
      /\ UNCHANGED <<version, key, head, tail, spied, shared>>
  BY DEF scan_block, scan_end, spy_abort, lists, Copying
<1>2. /\ spied[t] \in Pointer /\ Null \in Pointer
      /\ StateOK(blk[t], List(t), head[t], tail[t], spied[t], pc[t], loc[t])
      /\ ListAt(blk[t], List(t), head[t], tail[t], spied[t], Work(pc[t], loc[t]))
  BY ThreadFacts DEF FieldTypes, Pointer
<1>3. CASE scan_block(t)
  <2> DEFINE b == loc[t].b
             l == [loc[t] EXCEPT !.cand = PeekItem(version, blk[t][b])]
  <2>1. /\ pc[t] = "scan" /\ b # Null /\ Goto(t, "shrink", l)
        /\ SetBlocks(t, [blk[t] EXCEPT ![b] = PeekBlock(version, @)])
    BY <1>3 DEF scan_block
  <2>2. b \in Pointer
    BY <1>2, <2>1, ListFacts DEF StateOK, Pointer
  <2>3. SetBlocks(t, Peeked(blk[t], b))
    BY <2>1 DEF Peeked
  <2> HIDE DEF b, l
  <2>4. QED
    BY <1>1, <2>1, <2>2, <2>3, ElemPeeked DEF Copying
<1>4. CASE scan_end(t)
  <2> DEFINE look == ~Is(loc[t].best) /\ spied[t] # Null
             best == IF look THEN PeekItem(version, blk[t][spied[t]]) ELSE loc[t].best
  <2>1. /\ IF look THEN SetBlocks(t, [blk[t] EXCEPT ![spied[t]] = PeekBlock(version, @)])
                   ELSE UNCHANGED blk
        /\ AfterPeek(t, best)
    BY <1>4 DEF scan_end
  <2> HIDE DEF best
  <2>2. PICK p, l : Goto(t, p, l) /\ p \in {"idle", "take", "spy"}
    BY <2>1, AfterPeekGoes
  <2>3. p \notin {"merge"} \union Copying
    BY <2>2 DEF Copying
  <2>4. CASE look
    <3>1. SetBlocks(t, Peeked(blk[t], spied[t]))
      BY <2>1, <2>4 DEF Peeked
    <3>2. QED
      BY <1>1, <1>2, <2>2, <2>3, <3>1, ElemPeeked
  <2>5. CASE ~look
    BY <1>1, <2>1, <2>2, <2>3, <2>5, ElemStill
  <2>6. QED
    BY <2>4, <2>5
<1>5. CASE spy_abort(t)
  <2> DEFINE c == IF tail[t] # Null THEN Null ELSE spied[t]
  <2>1. SetBlocks(t, SpyPeeked(t)) /\ Goto(t, "idle", Idle)
    BY <1>5 DEF spy_abort, Return
  <2>2. SpyPeeked(t) = Peeked(blk[t], c)
    BY DEF SpyPeeked, Peeked
  <2>3. SetBlocks(t, Peeked(blk[t], c)) /\ c \in Pointer
    BY <1>2, <2>1, <2>2
  <2> HIDE DEF c
  <2>4. QED
    BY <1>1, <2>1, <2>3, ElemPeeked DEF Copying
<1>6. QED
  BY <1>3, <1>4, <1>5

(* The list after a step, found by use.                                    *)
LEMMA ListThen ==
    ASSUME Inv', NEW t \in Threads
    PROVE  List(t)' = {b \in Blocks : blk'[t][b].used} \ (Work(pc'[t], loc'[t]) \union {spied'[t]})
PROOF
<1>1. StateOK(blk'[t], List(t)', head'[t], tail'[t], spied'[t], pc'[t], loc'[t])
  BY DEF Inv
<1>2. ListAt(blk'[t], List(t)', head'[t], tail'[t], spied'[t], Work(pc'[t], loc'[t]))
  BY <1>1 DEF StateOK
<1>3. QED
  BY <1>2, ListByUse

(* copy writes to the block that it fills, which is not in the list yet.   *)
LEMMA copyElem ==
    ASSUME Inv, Inv', Elem, NEW t \in Threads, copy(t)
    PROVE  Elem'
PROOF
<1> DEFINE b == loc[t].b
           l1 == [loc[t] EXCEPT !.src = @ + 1]
           l2 == [loc[t] EXCEPT !.src = @ + 1, !.n = @ + 1]
<1>1. /\ pc[t] = "copy" /\ UNCHANGED <<version, key, lists, shared, fault>>
      /\ \/ Goto(t, "copy", l1) /\ blk' = blk
         \/ /\ Goto(t, "copy", l2)
            /\ blk' = [blk EXCEPT ![t][b].xs[loc[t].n] = Victim(t).xs[loc[t].src]]
  BY DEF copy
<1>2. UNCHANGED <<version, key, head, tail, spied, shared>> /\ "copy" # "merge"
  BY <1>1 DEF lists
<1>3. CASE Goto(t, "copy", l1) /\ blk' = blk
  BY <1>1, <1>2, <1>3, ElemStill
<1>4. CASE /\ Goto(t, "copy", l2)
           /\ blk' = [blk EXCEPT ![t][b].xs[loc[t].n] = Victim(t).xs[loc[t].src]]
  <2>1. /\ FieldTypes /\ loc[t] \in LocType /\ blk \in [Threads -> [Blocks -> AnyBlock]]
        /\ ListAt(blk[t], List(t), head[t], tail[t], spied[t], Work(pc[t], loc[t]))
    BY ThreadFacts DEF Types
  <2>2. /\ pc'[t] = "copy" /\ loc'[t] = l2
        /\ \A u \in Threads \ {t} : pc'[u] = pc[u] /\ loc'[u] = loc[u]
    BY <1>4, <2>1, GoneTo
  <2>3. l2.b = b
    BY <2>1 DEF LocType
  <2>4. Work(pc[t], loc[t]) = {b} /\ Work(pc'[t], loc'[t]) = {b}
    BY <1>1, <2>2, <2>3 DEF Work, Copying
  <2> HIDE DEF b, l2
  <2>5. b \in Blocks /\ b \notin List(t)
    BY <2>1, <2>4, ListFacts
  <2> DEFINE own == blk[t][b]
             new == [own EXCEPT !.xs = [own.xs EXCEPT ![loc[t].n] = Victim(t).xs[loc[t].src]]]
  <2>6. new.used = own.used
    <3>1. BlockOK(b, own, Elements)
      BY <2>1, <2>5, ListFacts
    <3>2. QED
      BY <3>1 DEF BlockOK, BlockType
  <2>7. blk' = [blk EXCEPT ![t] = [blk[t] EXCEPT ![b] = new]]
    BY <1>4
  <2> HIDE DEF new
  <2>8. /\ blk'[t] = [blk[t] EXCEPT ![b] = new]
        /\ \A u \in Threads \ {t} : blk'[u] = blk[u]
    BY <2>1, <2>7
  <2>9. /\ blk'[t][b].used = blk[t][b].used
        /\ \A x \in Blocks \ {b} : blk'[t][x] = blk[t][x]
    BY <2>1, <2>5, <2>6, <2>8
  <2>10. List(t)' = List(t)
    <3>1. List(t)' = {x \in Blocks : blk'[t][x].used} \ ({b} \union {spied'[t]})
      BY <2>4, ListThen
    <3>2. List(t) = {x \in Blocks : blk[t][x].used} \ ({b} \union {spied[t]})
      BY <2>4, ListNow
    <3>3. \A x \in Blocks : blk'[t][x].used <=> blk[t][x].used
      BY <2>9
    <3>4. QED
      BY <1>2, <3>1, <3>2, <3>3
  <2>11. Mine(t) = List(t) /\ Mine(t)' = List(t)
    BY <1>1, <2>2, <2>10 DEF Mine, MineOf
  <2>12. Others(t)
    BY <1>2, <2>2 DEF Others
  <2>13. \A u \in Threads \ {t} : blk'[u] = blk[u] /\ Mine(u)' = Mine(u)
    BY <2>8, <2>12, OthersMine
  <2>14. \A x \in List(t) : blk'[t][x] = blk[t][x]
    BY <2>5, <2>9, ListNow
  <2>15. \A e \in Elements : Carried(version, blk[t], Mine(t), blk'[t], Mine(t)', e)
    <3> DEFINE S == List(t)
               bs == blk[t]
               after == blk'[t]
    <3>1. \A x \in S : after[x] = bs[x]
      BY <2>14
    <3> HIDE DEF S, bs, after
    <3>2. \A e \in Elements : Carried(version, bs, S, after, S, e)
      BY <3>1 DEF Carried, Held, Apart
    <3>3. QED
      BY <2>11, <3>2 DEF S, bs, after
  <2>16. QED
    BY <1>2, <2>13, <2>15, ElemCarried
<1>5. QED
  BY <1>1, <1>3, <1>4

-----------------------------------------------------------------------------
(* Steps that change the list. *)

(* Steps between which no block is at hand.                                *)
LEMMA ElemListed ==
    ASSUME Inv, Elem, NEW t \in Threads, pc[t] # "merge", pc'[t] # "merge", Others(t),
           UNCHANGED <<version, key, shared>>,
           NEW new, SetBlocks(t, new), Written(t, new), NEW R \in SUBSET Blocks, List(t)' = R,
           \A e \in Elements : Carried(version, blk[t], List(t), new, R, e)
    PROVE  Elem'
PROOF
<1>1. Types /\ \A b \in Blocks : BlockOK(b, new[b], Elements)
  BY ThreadFacts DEF Written
<1>2. Mine(t) = List(t) /\ Mine(t)' = R
  BY DEF Mine, MineOf
<1>3. QED
  BY <1>1, <1>2, ElemWritten

(* Blocks with the same entries hold the same.                             *)
LEMMA SameKeeps ==
    ASSUME NEW ver, NEW x, NEW y, SameEntries(x, y), NEW e
    PROVE  Keeps(ver, x, y, e)
PROOF
<1>1. SameActive(x, y)
  BY DEF SameActive, SameEntries
<1>2. QED
  BY <1>1, SameHolds DEF Keeps

(* spy *)
LEMMA spyElem ==
    ASSUME Inv, N >= 4, Elem, NEW t \in Threads, spy(t)
    PROVE  Elem'
PROOF
<1>1. List(t)' = List(t) /\ Others(t)
  BY spyStep
<1>2. PICK c, new : /\ c \in Pointer
                    /\ SetBlocks(t, new) /\ Written(t, new) /\ pc'[t] # "merge"
                    /\ \A x \in List(t) : new[x] = Peeked(blk[t], c)[x]
  BY spyStep
<1>3. pc[t] = "spy" /\ UNCHANGED <<version, key, shared>>
  BY DEF spy
<1> DEFINE bs == blk[t]
           S == List(t)
<1>4. bs \in [Blocks -> AnyBlock] /\ \A x \in Blocks : BlockOK(x, bs[x], Elements)
  BY ThreadFacts DEF ListAt
<1>5. S \subseteq Blocks
  BY ListNow
<1>6. \A x \in Blocks, e \in Elements : Keeps(version, bs[x], Peeked(bs, c)[x], e)
  BY <1>2, <1>4, PeekedHolds
<1>7. \A x \in S, e \in Elements : Keeps(version, bs[x], new[x], e)
  BY <1>2, <1>5, <1>6
<1> HIDE DEF bs, S
<1>8. \A e \in Elements : Carried(version, bs, S, new, S, e)
  BY <1>7, CarriedEach
<1>9. QED
  BY <1>1, <1>2, <1>3, <1>5, <1>8, ElemListed DEF bs, S

(* spied_block *)
LEMMA spied_blockElem ==
    ASSUME Inv, Elem, NEW t \in Threads, spied_block(t)
    PROVE  Elem'
PROOF
<1>1. List(t)' = List(t) /\ Others(t)
  BY spied_blockStep
<1>2. PICK new : Relists(t, new, List(t))
  BY spied_blockStep
<1>3. pc[t] = "copy" /\ UNCHANGED <<version, key, shared>>
  BY DEF spied_block
<1>4. /\ SetBlocks(t, new) /\ Written(t, new) /\ pc'[t] # "merge"
      /\ List(t) \subseteq Blocks
      /\ \A x \in List(t) : SameEntries(blk[t][x], new[x])
  BY <1>2 DEF Relists
<1> DEFINE bs == blk[t]
           S == List(t)
<1>5. \A x \in S, e \in Elements : Keeps(version, bs[x], new[x], e)
  BY <1>4, SameKeeps
<1> HIDE DEF bs, S
<1>6. \A e \in Elements : Carried(version, bs, S, new, S, e)
  BY <1>5, CarriedEach
<1>7. QED
  BY <1>1, <1>3, <1>4, <1>6, ElemListed DEF bs, S

(* unlink *)
LEMMA unlinkElem ==
    ASSUME Inv, Elem, NEW t \in Threads, unlink(t)
    PROVE  Elem'
PROOF
<1> DEFINE bs == blk[t]
           S == List(t)
           b == loc[t].b
           R == S \ {b}
<1>1. List(t)' = R /\ Others(t)
  BY unlinkStep
<1>2. PICK new : Relists(t, new, R)
  BY unlinkStep
<1>3. pc[t] = "shrink" /\ size(bs[b]) = 0 /\ UNCHANGED <<version, key, shared>>
  BY DEF unlink
<1>4. /\ SetBlocks(t, new) /\ Written(t, new) /\ pc'[t] # "merge"
      /\ R \subseteq Blocks
      /\ \A x \in R : SameEntries(bs[x], new[x])
  BY <1>2 DEF Relists
<1>5. b \in S /\ bs[b].first \in Nat /\ bs[b].last \in Nat
  <2>1. /\ StateOK(bs, S, head[t], tail[t], spied[t], pc[t], loc[t])
        /\ ListAt(bs, S, head[t], tail[t], spied[t], Work(pc[t], loc[t]))
    BY ThreadFacts
  <2> HIDE DEF bs, S
  <2>2. b \in S
    BY <1>3, <2>1 DEF StateOK
  <2>3. QED
    BY <2>1, <2>2, ListFacts
<1> HIDE DEF bs, S, b
<1>6. \A e \in Elements : ~In(bs[b], e)
  BY <1>3, <1>5 DEF In, size
<1>7. ASSUME NEW e \in Elements PROVE Carried(version, bs, S, new, R, e)
  <2> DEFINE Q == R
             B == {b}
             C == {}
  <2>1. S = Q \union B /\ R = Q \union C /\ Q \intersect B = {} /\ Q \intersect C = {}
    BY <1>5
  <2>2. \A x \in Q : Keeps(version, bs[x], new[x], e)
    BY <1>4, SameKeeps
  <2>3. Carried(version, bs, B, new, C, e)
    BY <1>6 DEF Carried, Held, Apart
  <2> HIDE DEF Q, B, C, R
  <2>4. QED
    BY <2>1, <2>2, <2>3, CarriedPart
<1> HIDE DEF R
<1>8. \A e \in Elements : Carried(version, bs, S, new, R, e)
  BY <1>7
<1>9. QED
  BY <1>1, <1>3, <1>4, <1>8, ElemListed DEF bs, S

(* shrink: the block of half the size takes the place of what it was       *)
(* copied, or merged, from.                                                *)
LEMMA CarriedHalved ==
    ASSUME NEW bs, \A x \in Blocks : BlockOK(x, bs[x], Elements),
           NEW S \in SUBSET Blocks, NEW b, NEW full, NEW n, NEW R, Halved(bs, S, b, full, n, R),
           NEW e
    PROVE  Carried(version, bs, S, full, R, e)
PROOF
<1> DEFINE Q == S \ {b}
           B == {b}
           C == {n}
<1>1. /\ b \in S /\ n \notin S /\ R = Q \union C /\ \A x \in Q : full[x] = bs[x]
      /\ Stores(full[n], Untaken(version, Active(bs[b])))
  BY DEF Halved
<1>2. S = Q \union B /\ R = Q \union C /\ Q \intersect B = {} /\ Q \intersect C = {}
  BY <1>1
<1>3. \A x \in Q : Keeps(version, bs[x], full[x], e)
  BY <1>1 DEF Keeps
<1>4. Carried(version, bs, B, full, C, e)
  BY <1>1, CarriedCopy
<1> HIDE DEF Q, B, C
<1>5. QED
  BY <1>2, <1>3, <1>4, CarriedPart

LEMMA CarriedJoined ==
    ASSUME NEW bs \in [Blocks -> AnyBlock], \A x \in Blocks : BlockOK(x, bs[x], Elements),
           NEW S \in SUBSET Blocks, NEW b, NEW full, NEW n, NEW R, Joined(bs, S, b, full, n, R),
           NEW e
    PROVE  Carried(version, bs, S, full, R, e)
PROOF
<1>1. PICK s, x, nxt, prune : JoinedBy(bs, S, b, full, n, R, s, x, nxt, prune)
  BY DEF Joined
<1> DEFINE Q == S \ {b, nxt}
           B == {b, nxt}
           M == {s, nxt}
           C == {n}
           mid == [bs EXCEPT ![s] = x]
<1>2. /\ b \in S /\ s \in Blocks \ S /\ n \notin S /\ nxt \in S \ {b}
      /\ R = Q \union C /\ \A y \in Q : full[y] = bs[y]
      /\ BlockOK(s, x, Elements) /\ Stores(x, Untaken(version, Active(bs[b])))
      /\ prune \in BOOLEAN /\ Stores(full[n], Remaining(version, x, bs[nxt], prune))
  BY <1>1 DEF JoinedBy
<1>3. S = Q \union B /\ R = Q \union C /\ Q \intersect B = {} /\ Q \intersect C = {}
  BY <1>2
<1>4. \A y \in Q : Keeps(version, bs[y], full[y], e)
  BY <1>2 DEF Keeps
<1>5. mid[s] = x /\ mid[nxt] = bs[nxt]
  BY <1>2
<1> HIDE DEF mid
<1>6. Carried(version, bs, B, mid, M, e)
  <2> DEFINE Q1 == {nxt}
             B1 == {b}
             C1 == {s}
  <2>1. B = Q1 \union B1 /\ M = Q1 \union C1 /\ Q1 \intersect B1 = {} /\ Q1 \intersect C1 = {}
    BY <1>2
  <2>2. \A y \in Q1 : Keeps(version, bs[y], mid[y], e)
    BY <1>5 DEF Keeps
  <2>3. Carried(version, bs, B1, mid, C1, e)
    BY <1>2, <1>5, CarriedCopy
  <2> HIDE DEF B, M, Q1, B1, C1
  <2>4. QED
    BY <2>1, <2>2, <2>3, CarriedPart
<1>7. Carried(version, mid, M, full, C, e)
  <2>1. s # nxt /\ s \in Blocks /\ nxt \in Blocks
    BY <1>2
  <2>2. /\ BlockOK(s, mid[s], Elements) /\ BlockOK(nxt, mid[nxt], Elements)
        /\ Stores(full[n], Remaining(version, mid[s], mid[nxt], prune))
    BY <1>2, <1>5, <2>1
  <2>3. QED
    BY <1>2, <2>1, <2>2, CarriedMerge
<1> HIDE DEF Q, B, M, C
<1>8. Carried(version, bs, B, full, C, e)
  BY <1>6, <1>7, CarriedTwice
<1>9. QED
  BY <1>3, <1>4, <1>8, CarriedPart

LEMMA shrinkElem ==
    ASSUME Inv, N >= 4, Elem, NEW t \in Threads, shrink(t)
    PROVE  Elem'
PROOF
<1> DEFINE bs == blk[t]
           S == List(t)
           b == loc[t].b
<1>1. Others(t)
  BY shrinkStep
<1>2. PICK full, n, R : /\ List(t)' = R /\ Shrinks(t, full, n, R)
                        /\ \/ Halved(bs, S, b, full, n, R)
                           \/ Joined(bs, S, b, full, n, R)
  BY shrinkStep
<1>3. pc[t] = "shrink" /\ UNCHANGED <<version, key, shared>>
  BY DEF shrink
<1>4. /\ R \subseteq Blocks /\ n \in R /\ pc'[t] # "merge"
      /\ \A x \in Blocks : BlockOK(x, full[x], Elements)
  BY <1>2 DEF Shrinks
<1>5. PICK free \in [Blocks -> AnyBlock] :
           /\ \A x \in Blocks : BlockOK(x, free[x], Elements)
           /\ \A x \in R : SameEntries(full[x], free[x])
           /\ SetBlocks(t, Peeked(free, n)) /\ Written(t, Peeked(free, n))
  BY <1>2 DEF Shrinks
<1> DEFINE new == Peeked(free, n)
<1>6. bs \in [Blocks -> AnyBlock] /\ \A x \in Blocks : BlockOK(x, bs[x], Elements)
  BY ThreadFacts DEF ListAt
<1>7. S \subseteq Blocks
  BY ListNow
<1>8. n \in Pointer
  BY <1>4 DEF Pointer
<1>9. \A x \in Blocks, e \in Elements : Keeps(version, free[x], new[x], e)
  BY <1>5, <1>8, PeekedHolds
<1>10. SetBlocks(t, new) /\ Written(t, new)
  BY <1>5
<1> HIDE DEF new, bs, S, b
<1>11. ASSUME NEW e \in Elements PROVE Carried(version, bs, S, new, R, e)
  <2>1. Carried(version, bs, S, full, R, e)
    <3>1. CASE Halved(bs, S, b, full, n, R)
      BY <1>6, <1>7, <3>1, CarriedHalved
    <3>2. CASE Joined(bs, S, b, full, n, R)
      BY <1>6, <1>7, <3>2, CarriedJoined
    <3>3. QED
      BY <1>2, <3>1, <3>2
  <2>2. Carried(version, full, R, free, R, e)
    <3>1. \A x \in R : Keeps(version, full[x], free[x], e)
      BY <1>5, SameKeeps
    <3>2. QED
      BY <3>1, CarriedEach
  <2>3. Carried(version, free, R, new, R, e)
    <3>1. \A x \in R : Keeps(version, free[x], new[x], e)
      BY <1>4, <1>9
    <3>2. QED
      BY <3>1, CarriedEach
  <2>4. Carried(version, bs, S, free, R, e)
    BY <2>1, <2>2, CarriedTwice
  <2>5. QED
    BY <2>3, <2>4, CarriedTwice
<1>12. \A e \in Elements : Carried(version, bs, S, new, R, e)
  BY <1>11
<1>13. QED
  BY <1>1, <1>2, <1>3, <1>4, <1>10, <1>12, ElemListed DEF bs, S

(* link *)
LEMMA linkElem ==
    ASSUME Inv, Elem, NEW t \in Threads, link(t)
    PROVE  Elem'
PROOF
<1> DEFINE bs == blk[t]
           R == {x \in List(t) : pow(x) > Deleted(loc[t])} \union {loc[t].b}
<1>1. List(t)' = R /\ Others(t)
  BY linkStep
<1>2. PICK new : Relists(t, new, R)
  BY linkStep
<1>3. pc[t] = "merge" /\ UNCHANGED <<version, key, shared>>
  BY DEF link
<1>4. /\ SetBlocks(t, new) /\ Written(t, new) /\ pc'[t] # "merge"
      /\ R \subseteq Blocks
      /\ \A x \in R : SameEntries(bs[x], new[x])
  BY <1>2 DEF Relists
<1>5. Mine(t) = R
  BY <1>3 DEF Mine, MineOf
<1> HIDE DEF bs, R
<1>6. Mine(t)' = R
  BY <1>1, <1>4 DEF Mine, MineOf
<1>7. \A x \in R, e \in Elements : Keeps(version, bs[x], new[x], e)
  BY <1>4, SameKeeps
<1>8. \A e \in Elements : Carried(version, bs, R, new, R, e)
  BY <1>7, CarriedEach
<1>9. \A e \in Elements : Carried(version, blk[t], Mine(t), new, R, e)
  BY <1>5, <1>8 DEF bs
<1>10. Types /\ \A x \in Blocks : BlockOK(x, new[x], Elements)
  BY <1>4, ThreadFacts DEF Written
<1>11. QED
  BY <1>1, <1>3, <1>4, <1>6, <1>9, <1>10, ElemWritten

(* merge *)
LEMMA mergeElem ==
    ASSUME Inv, N >= 4, Elem, NEW t \in Threads, merge(t)
    PROVE  Elem'
PROOF
<1> DEFINE bs == blk[t]
           S == List(t)
           b == loc[t].b
           other == loc[t].other
           m == loc'[t].b
           d == Deleted(loc[t])
           Q == {x \in S : pow(x) > pow(other)}
           B == {b, other}
           C == {m}
           R == Q \union C
<1>1. List(t)' = S /\ Others(t)
  BY mergeStep
<1>2. PICK new : Merges(t, new)
  BY mergeStep
<1>3. pc[t] = "merge" /\ UNCHANGED <<version, key, shared>>
  BY DEF merge
<1>4. PICK prune \in BOOLEAN : Stores(new[m], Remaining(version, bs[b], bs[other], prune))
  BY <1>2 DEF Merges
<1>5. /\ SetBlocks(t, new) /\ Written(t, new)
      /\ pc'[t] = "merge" /\ loc'[t].del = other
      /\ b \in Blocks \ S /\ m \in Blocks \ S
      /\ other \in S /\ NextUp(S, d, other)
      /\ \A x \in S : new[x] = bs[x]
  BY <1>2 DEF Merges
<1>6. /\ Types /\ \A x \in Blocks : BlockOK(x, bs[x], Elements)
      /\ \A x \in Blocks : BlockOK(x, new[x], Elements)
      /\ Linked(bs, S, head[t], tail[t])
  BY <1>5, ThreadFacts DEF ListAt, Written
<1>7. S \subseteq Blocks /\ Null \notin Blocks
  BY ListNow, Sizes
<1>8. /\ other # Null /\ pow(other) > d /\ \A x \in S : pow(x) > d => pow(other) <= pow(x)
      /\ \A x, y \in S : pow(x) = pow(y) => x = y
      /\ \A x \in S : pow(x) \in Nat
      /\ d \in Int
  <2>1. other # Null
    BY <1>5, <1>7
  <2>2. pow(other) > d /\ \A x \in S : pow(x) > d => pow(other) <= pow(x)
    BY <1>5, <2>1 DEF NextUp
  <2>3. \A x, y \in S : pow(x) = pow(y) => x = y
    BY <1>6 DEF Linked, OnePerSize
  <2>4. \A x \in S : pow(x) \in Nat
    BY <1>7, Sizes
  <2>5. d \in Int
    <3>1. StateOK(bs, S, head[t], tail[t], spied[t], pc[t], loc[t])
      BY ThreadFacts
    <3>2. loc[t].del \in S \union {Null}
      BY <1>3, <3>1 DEF StateOK, Merging
    <3>3. QED
      BY <2>4, <3>2 DEF Deleted
  <2>6. QED
    BY <2>1, <2>2, <2>3, <2>4, <2>5
<1> HIDE DEF bs, S, b, other, m, d
<1>9. \A x \in S : pow(x) > d <=> x = other \/ pow(x) > pow(other)
  <2> SUFFICES ASSUME NEW x \in S PROVE pow(x) > d <=> x = other \/ pow(x) > pow(other)
    OBVIOUS
  <2>1. pow(x) > d => pow(other) <= pow(x)
    BY <1>8
  <2>2. pow(x) = pow(other) => x = other
    BY <1>5, <1>8
  <2>3. pow(x) \in Nat /\ pow(other) \in Nat /\ d \in Int /\ pow(other) > d
    BY <1>5, <1>8
  <2>4. QED
    BY <2>1, <2>2, <2>3
<1>10. Mine(t) = Q \union B
  <2>1. Mine(t) = {b} \union {x \in S : pow(x) > d}
    BY <1>3 DEF Mine, MineOf, b, S, d
  <2>2. QED
    BY <1>5, <1>9, <2>1
<1>11. Mine(t)' = R
  <2>1. Mine(t)' = {m} \union {x \in S : pow(x) > Deleted(loc[t])'}
    BY <1>1, <1>5 DEF Mine, MineOf, m
  <2>2. Deleted(loc[t])' = pow(other)
    BY <1>5, <1>8 DEF Deleted
  <2>3. QED
    BY <2>1, <2>2
<1>12. Q \intersect B = {} /\ Q \intersect C = {} /\ R \subseteq Blocks /\ b # other
  <2>1. ~(pow(other) > pow(other))
    BY <1>5, <1>8
  <2>2. QED
    BY <1>5, <1>7, <2>1
<1>13. ASSUME NEW e \in Elements PROVE Carried(version, bs, Q \union B, new, R, e)
  <2>1. \A x \in Q : Keeps(version, bs[x], new[x], e)
    BY <1>5 DEF Keeps
  <2>2. Carried(version, bs, B, new, C, e)
    <3>1. b \in Blocks /\ other \in Blocks
      BY <1>5, <1>7
    <3>2. BlockOK(b, bs[b], Elements) /\ BlockOK(other, bs[other], Elements)
      BY <1>6, <3>1
    <3>3. QED
      BY <1>4, <1>12, <3>1, <3>2, CarriedMerge
  <2> DEFINE S2 == Q \union B
  <2>3. S2 = Q \union B /\ R = Q \union C
    OBVIOUS
  <2> HIDE DEF Q, B, C, R, S2
  <2>4. Carried(version, bs, S2, new, R, e)
    BY <1>12, <2>1, <2>2, <2>3, CarriedPart
  <2>5. QED
    BY <2>4 DEF S2
<1>14. \A e \in Elements : Carried(version, blk[t], Mine(t), new, R, e)
  BY <1>10, <1>13 DEF bs
<1> HIDE DEF R
<1>15. QED
  BY <1>1, <1>3, <1>5, <1>6, <1>11, <1>12, <1>14, ElemWritten

-----------------------------------------------------------------------------
(* Steps by which elements come and go. *)

(* take and take_shared: an item is no longer in use.                      *)
LEMMA ElemTaken ==
    ASSUME Elem, version \in [Items -> Nat], blk' = blk, key' = key,
           shared \subseteq Elements, shared' \subseteq shared,
           \A u \in Threads : Mine(u)' = Mine(u),
           NEW x, version' = [version EXCEPT ![x] = @ + 1] \/ version' = version,
           version' # version => version[x] % 2 = 1,
           \A e \in shared \ shared' : e.item = x /\ version' # version
    PROVE  Elem'
PROOF
<1>1. /\ \A i \in Items : version[i] \in Nat /\ version'[i] \in Nat
      /\ \A i \in Items : version[i] <= version'[i]
      /\ \A i \in Items : version'[i] % 2 = 1 => version'[i] = version[i]
      /\ version' # version => (x \in Items => version'[x] % 2 # 1)
  <2>1. CASE version' = version
    BY <2>1
  <2>2. CASE version' # version
    <3>1. version' = [version EXCEPT ![x] = @ + 1] /\ version[x] % 2 = 1
      BY <2>2
    <3>2. \A i \in Items : i # x => version'[i] = version[i]
      BY <3>1
    <3>3. x \in Items => version[x] \in Nat /\ version'[x] = version[x] + 1
      BY <3>1
    <3>4. \A v \in Nat : v % 2 = 1 => (v + 1) % 2 # 1
      OBVIOUS
    <3>5. x \in Items => version'[x] % 2 # 1
      BY <3>1, <3>3, <3>4
    <3>6. QED
      BY <3>2, <3>3, <3>5
  <2>3. QED
    BY <2>1, <2>2
<1>2. ASSUME NEW u \in Threads, NEW e \in Elements, Held(blk'[u], Mine(u)', e)
      PROVE  Owner[e.item] = u /\ e.ver <= version'[e.item]
  <2>1. Owner[e.item] = u /\ e.ver <= version[e.item]
    BY <1>2 DEF Elem
  <2>2. e.item \in Items /\ e.ver \in Nat
    BY DEF Elements, BlockItems
  <2>3. QED
    BY <1>1, <2>1, <2>2
<1>3. ASSUME NEW e \in shared' PROVE e.ver <= version'[e.item]
  <2>1. e.ver <= version[e.item]
    BY DEF Elem
  <2>2. e.item \in Items /\ e.ver \in Nat
    BY DEF Elements, BlockItems
  <2>3. QED
    BY <1>1, <2>1, <2>2
<1>4. ASSUME NEW i \in Items, used(i)'
      PROVE  /\ Current(i)' \in Elements
             /\ Apart(blk'[Owner[i]], Mine(Owner[i])', Current(i)')
             /\ Held(blk'[Owner[i]], Mine(Owner[i])', Current(i)') <=> Current(i)' \notin shared'
  <2>1. version'[i] = version[i] /\ used(i) /\ Owner[i] \in Threads
    BY <1>1, <1>4, DistAssumption DEF used
  <2>2. Current(i)' = Current(i) /\ Current(i).item = i
    BY <2>1 DEF Current
  <2>3. Current(i) \in shared' <=> Current(i) \in shared
    <3> SUFFICES ASSUME Current(i) \in shared \ shared' PROVE FALSE
      OBVIOUS
    <3>1. i = x /\ version' # version
      BY <2>2
    <3>2. QED
      BY <1>1, <1>4, <3>1 DEF used
  <2>4. QED
    BY <2>1, <2>2, <2>3 DEF Elem
<1>5. QED
  BY <1>2, <1>3, <1>4 DEF Elem

(* take *)
LEMMA takeElem ==
    ASSUME Inv, Elem, NEW t \in Threads, take(t)
    PROVE  Elem'
PROOF
<1> DEFINE best == loc[t].best
           x == best.item
<1>1. /\ pc[t] = "take" /\ Goto(t, "idle", Idle)
      /\ version' = [version EXCEPT ![x] = IF Taken(best) THEN @ ELSE @ + 1]
      /\ UNCHANGED <<key, blk, head, tail, spied, shared>>
  BY DEF take, Return, lists
<1>2. FieldTypes /\ version \in [Items -> Nat] /\ shared \subseteq Elements /\ best \in Entry
  BY ThreadFacts DEF FieldTypes, LocType
<1>3. /\ pc'[t] = "idle" /\ Others(t)
  BY <1>1, <1>2, GoneTo DEF Others
<1>4. \A u \in Threads : Mine(u)' = Mine(u)
  <2>1. Mine(t)' = Mine(t)
    BY <1>1, <1>3 DEF Mine, MineOf, List
  <2>2. \A u \in Threads \ {t} : Mine(u)' = Mine(u)
    BY <1>1, <1>3, OthersMine
  <2>3. QED
    BY <2>1, <2>2
<1> HIDE DEF best
<1>5. version' = [version EXCEPT ![x] = @ + 1] \/ version' = version
  BY <1>1, <1>2
<1>6. ASSUME version' # version PROVE version[x] % 2 = 1
  <2>1. x \in Items /\ ~Taken(best)
    BY <1>1, <1>2, <1>6
  <2>2. best # EMPTY
    BY <2>1, DistAssumption DEF EMPTY
  <2>3. best \in Elements
    BY <1>2, <2>2 DEF Entry
  <2>4. QED
    BY <2>1, <2>3 DEF Taken, taken, Elements
<1>7. shared' = shared /\ key' = key /\ blk' = blk
  BY <1>1
<1> HIDE DEF x
<1>8. QED
  BY <1>2, <1>4, <1>5, <1>6, <1>7, ElemTaken

(* take_shared *)
LEMMA take_sharedElem ==
    ASSUME Inv, Elem, NEW t \in Threads, take_shared(t)
    PROVE  Elem'
PROOF
<1>1. PICK e \in shared : /\ ~Taken(e) /\ version' = [version EXCEPT ![e.item] = @ + 1]
                          /\ shared' = shared \ {e}
  BY DEF take_shared
<1>2. UNCHANGED <<key, blk, head, tail, spied, pc, loc>>
  BY DEF take_shared, lists
<1>3. version \in [Items -> Nat] /\ shared \subseteq Elements
  BY ThreadFacts DEF FieldTypes
<1>4. \A u \in Threads : Mine(u)' = Mine(u)
  BY <1>2 DEF Mine, MineOf, List
<1>5. e \in Elements /\ version[e.item] % 2 = 1
  BY <1>1, <1>3 DEF Taken, taken, Elements
<1> DEFINE x == e.item
<1>6. version' = [version EXCEPT ![x] = @ + 1] /\ version' # version
  <2>1. x \in Items /\ version[x] \in Nat /\ version'[x] = version[x] + 1
    BY <1>1, <1>3, <1>5 DEF Elements, BlockItems
  <2>2. version'[x] # version[x]
    BY <2>1
  <2>3. QED
    BY <1>1, <2>2
<1>7. shared' \subseteq shared /\ \A f \in shared \ shared' : f.item = x
  BY <1>1
<1>8. version[x] % 2 = 1
  BY <1>5
<1> HIDE DEF x
<1>9. QED
  BY <1>2, <1>3, <1>4, <1>6, <1>7, <1>8, ElemTaken

(* hand_over *)
LEMMA hand_overElem ==
    ASSUME Inv, Elem, NEW t \in Threads, hand_over(t)
    PROVE  Elem'
PROOF
<1> DEFINE bs == blk[t]
           after == blk'[t]
           b == loc[t].b
           R == {x \in List(t) : pow(x) > Deleted(loc[t])}
<1>1. List(t)' = R /\ Others(t) /\ b \in Blocks \ R
  BY hand_overStep
<1>2. PICK new : Relists(t, new, R)
  BY hand_overStep
<1>3. pc[t] = "merge" /\ shared' = shared \union Handed(t) /\ UNCHANGED <<version, key>>
  BY DEF hand_over, ToShared
<1>4. /\ SetBlocks(t, new) /\ Written(t, new) /\ pc'[t] # "merge"
      /\ R \subseteq Blocks
      /\ \A x \in R : SameEntries(bs[x], new[x])
  BY <1>2 DEF Relists
<1>5. Types /\ \A x \in Blocks : BlockOK(x, bs[x], Elements) /\ BlockOK(x, new[x], Elements)
  BY <1>4, ThreadFacts DEF Written, ListAt
<1>6. /\ \A u \in Threads \ {t} : blk'[u] = blk[u]
      /\ \A x \in Blocks : SameActive(new[x], after[x])
  BY <1>4, <1>5, BlocksSet
<1>7. \A u \in Threads \ {t} : blk'[u] = blk[u] /\ Mine(u)' = Mine(u)
  BY <1>1, <1>6, OthersMine
<1>8. Mine(t) = {b} \union R
  BY <1>3 DEF Mine, MineOf
<1>9. \A e : e \in Handed(t) <=> In(bs[b], e) /\ ~taken(version, e)
  BY DEF Handed, Entries, In, Taken
<1> HIDE DEF bs, after, b, R
<1>10. Mine(t)' = R
  BY <1>1, <1>4 DEF Mine, MineOf
<1>11. \A x \in R, e \in Elements : /\ In(after[x], e) <=> In(bs[x], e)
                                    /\ Once(after[x], e) <=> Once(bs[x], e)
  <2> SUFFICES ASSUME NEW x \in R, NEW e \in Elements
               PROVE  /\ In(after[x], e) <=> In(bs[x], e)
                      /\ Once(after[x], e) <=> Once(bs[x], e)
    OBVIOUS
  <2>1. SameActive(bs[x], new[x]) /\ SameActive(new[x], after[x])
    BY <1>4, <1>6 DEF SameEntries, SameActive
  <2>2. /\ In(new[x], e) <=> In(bs[x], e)
        /\ Once(new[x], e) <=> Once(bs[x], e)
    BY <2>1, SameHolds
  <2>3. /\ In(after[x], e) <=> In(new[x], e)
        /\ Once(after[x], e) <=> Once(new[x], e)
    BY <2>1, SameHolds
  <2>4. QED
    BY <2>2, <2>3
<1>12. \A e \in Elements : /\ Held(bs, {b} \union R, e) <=> In(bs[b], e) \/ Held(bs, R, e)
                           /\ Held(after, R, e) <=> Held(bs, R, e)
                           /\ Apart(bs, {b} \union R, e) => Apart(after, R, e)
                           /\ Apart(bs, {b} \union R, e) => ~(In(bs[b], e) /\ Held(bs, R, e))
  <2> SUFFICES ASSUME NEW e \in Elements
               PROVE  /\ Held(bs, {b} \union R, e) <=> In(bs[b], e) \/ Held(bs, R, e)
                      /\ Held(after, R, e) <=> Held(bs, R, e)
                      /\ Apart(bs, {b} \union R, e) => Apart(after, R, e)
                      /\ Apart(bs, {b} \union R, e) => ~(In(bs[b], e) /\ Held(bs, R, e))
    OBVIOUS
  <2>1. Held(bs, {b} \union R, e) <=> In(bs[b], e) \/ Held(bs, R, e)
    BY DEF Held
  <2>2. Held(after, R, e) <=> Held(bs, R, e)
    BY <1>11 DEF Held
  <2>3. Apart(bs, {b} \union R, e) => Apart(after, R, e)
    BY <1>11 DEF Apart
  <2>4. Apart(bs, {b} \union R, e) => ~(In(bs[b], e) /\ Held(bs, R, e))
    BY <1>1 DEF Apart, Held
  <2>5. QED
    BY <2>1, <2>2, <2>3, <2>4
<1>13. ASSUME NEW e \in Handed(t) PROVE e \in Elements /\ Owner[e.item] = t /\ e.ver <= version[e.item]
  <2>1. In(bs[b], e)
    BY <1>9
  <2>2. e \in Elements
    BY <1>1, <1>5, <2>1 DEF In, BlockOK
  <2>3. Held(blk[t], Mine(t), e)
    BY <1>8, <1>12, <2>1, <2>2 DEF bs
  <2>4. QED
    BY <2>2, <2>3 DEF Elem
<1>14. ASSUME NEW u \in Threads, NEW e \in Elements, Held(blk'[u], Mine(u)', e)
       PROVE  Owner[e.item] = u /\ e.ver <= version'[e.item]
  <2>1. Held(blk[u], Mine(u), e)
    <3>1. CASE u = t
      BY <1>8, <1>10, <1>12, <1>14, <3>1 DEF bs, after
    <3>2. CASE u # t
      BY <1>7, <1>14, <3>2
    <3>3. QED
      BY <3>1, <3>2
  <2>2. QED
    BY <1>3, <2>1 DEF Elem
<1>15. \A e \in shared' : e.ver <= version'[e.item]
  BY <1>3, <1>13 DEF Elem
<1>16. ASSUME NEW i \in Items, used(i)'
       PROVE  /\ Current(i)' \in Elements
              /\ Apart(blk'[Owner[i]], Mine(Owner[i])', Current(i)')
              /\ Held(blk'[Owner[i]], Mine(Owner[i])', Current(i)') <=> Current(i)' \notin shared'
  <2> DEFINE u == Owner[i]
             e == Current(i)
  <2>1. /\ Current(i)' = e /\ used(i) /\ u \in Threads /\ ~taken(version, e) /\ e.item = i
    BY <1>3, <1>16, DistAssumption DEF Current, used, taken
  <2>2. /\ e \in Elements /\ Apart(blk[u], Mine(u), e)
        /\ Held(blk[u], Mine(u), e) <=> e \notin shared
    BY <2>1 DEF Elem
  <2> HIDE DEF e
  <2>3. CASE u = t
    <3>1. /\ Apart(bs, {b} \union R, e) /\ (Held(bs, {b} \union R, e) <=> e \notin shared)
      BY <1>8, <2>2, <2>3 DEF bs
    <3>2. e \in Handed(t) <=> In(bs[b], e)
      BY <1>9, <2>1
    <3>3. Apart(after, R, e) /\ (Held(after, R, e) <=> e \notin shared')
      BY <1>3, <1>12, <2>2, <3>1, <3>2
    <3>4. QED
      BY <1>10, <2>1, <2>2, <2>3, <3>3 DEF after
  <2>4. CASE u # t
    <3>1. e \notin Handed(t)
      BY <1>13, <2>1, <2>4
    <3>2. QED
      BY <1>3, <1>7, <2>1, <2>2, <2>4, <3>1
  <2>5. QED
    BY <2>3, <2>4
<1>17. QED
  BY <1>14, <1>15, <1>16 DEF Elem

(* A block with one new entry.                                             *)
LEMMA InsertHolds ==
    ASSUME NEW b \in Blocks, NEW x, BlockOK(b, x, Elements), Blank(x), NEW e, NEW f
    PROVE  LET y == insert_tail(set_used(x), e)
           IN  (In(y, f) <=> f = e) /\ Once(y, f)
PROOF
<1> DEFINE z == set_used(x)
           y == insert_tail(z, e)
<1>1. z.xs = x.xs /\ z.first = 0 /\ z.last = 0 /\ DOMAIN x.xs = 0 .. (capacity(b) - 1)
      /\ z \in [used : BOOLEAN, first : Nat, last : Nat, next : Pointer, prev : Pointer,
                xs : Array(b, Elements)]
  BY DEF set_used, BlockOK, BlockType, Blank, Array
<1>2. 0 \in 0 .. (capacity(b) - 1)
  BY Sizes
<1> HIDE DEF z
<1>3. y.first = 0 /\ y.last = 1 /\ y.xs[0] = e
  <2> DEFINE xs == [z.xs EXCEPT ![0] = e]
  <2>1. xs[0] = e
    BY <1>1, <1>2
  <2>2. y = [z EXCEPT !.xs = xs, !.last = 1]
    BY <1>1 DEF insert_tail
  <2> HIDE DEF xs, y
  <2>3. QED
    BY <1>1, <2>1, <2>2
<1> HIDE DEF y
<1>4. y.first .. (y.last - 1) = {0}
  BY <1>3
<1>5. QED
  BY <1>3, <1>4 DEF In, Once, y, z

(* insert *)
LEMMA insertElem ==
    ASSUME Inv, N >= 4, Elem, NEW t \in Threads, NEW i \in Items, NEW k \in Keys, insert(t, i, k)
    PROVE  Elem'
PROOF
<1> DEFINE e == [item |-> i, ver |-> version[i] + 1, key |-> k]
           bs == blk[t]
           after == blk'[t]
           b == loc'[t].b
           S == List(t)
<1>1. List(t)' = S /\ Others(t)
  BY insertStep
<1>2. PICK new : Inserts(t, new, e)
  BY insertStep
<1>3. /\ Owner[i] = t /\ UNCHANGED shared
      /\ version' = [version EXCEPT ![i] = version[i] + 1] /\ key' = [key EXCEPT ![i] = k]
  BY DEF insert
<1>4. /\ SetBlocks(t, new) /\ Written(t, new)
      /\ pc[t] = "idle" /\ pc'[t] = "merge" /\ loc'[t].del = Null
      /\ e \in Elements /\ b \in Blocks \ S /\ Blank(bs[b])
      /\ new[b] = insert_tail(set_used(bs[b]), e)
      /\ \A x \in S : new[x] = bs[x]
  BY <1>2 DEF Inserts
<1>5. /\ Types /\ version \in [Items -> Nat] /\ key \in [Items -> Keys \union {0}]
      /\ \A x \in Blocks : BlockOK(x, bs[x], Elements) /\ BlockOK(x, new[x], Elements)
  BY <1>4, ThreadFacts DEF Written, ListAt, FieldTypes
<1>6. /\ \A u \in Threads \ {t} : blk'[u] = blk[u]
      /\ \A x \in Blocks : SameActive(new[x], after[x])
  BY <1>4, <1>5, BlocksSet
<1>7. \A u \in Threads \ {t} : blk'[u] = blk[u] /\ Mine(u)' = Mine(u)
  BY <1>1, <1>6, OthersMine
<1>8. e.item = i /\ e.ver = version[i] + 1 /\ Current(i)' = e
  BY <1>3, <1>5 DEF Current
<1>9. S \subseteq Blocks
  BY ListNow
<1> HIDE DEF e, bs, after, b, S
<1>10. Mine(t) = S /\ Mine(t)' = {b} \union S
  <2>1. Mine(t) = S
    BY <1>4 DEF Mine, MineOf, S
  <2>2. Mine(t)' = {b} \union {x \in S : pow(x) > Deleted(loc[t])'}
    BY <1>1, <1>4 DEF Mine, MineOf, b
  <2>3. Deleted(loc[t])' = -1
    BY <1>4 DEF Deleted
  <2>4. \A x \in S : pow(x) > -1
    BY <1>9, Sizes
  <2>5. QED
    BY <2>1, <2>2, <2>3, <2>4
<1>11. \A f \in Elements : In(after[b], f) <=> f = e
  <2> SUFFICES ASSUME NEW f \in Elements PROVE In(after[b], f) <=> f = e
    OBVIOUS
  <2>1. BlockOK(b, bs[b], Elements) /\ b \in Blocks
    BY <1>4, <1>5
  <2>2. In(new[b], f) <=> f = e
    BY <1>4, <2>1, InsertHolds
  <2>3. QED
    BY <1>6, <2>1, <2>2, SameHolds
<1>12. \A f \in Elements : Once(after[b], f)
  <2> SUFFICES ASSUME NEW f \in Elements PROVE Once(after[b], f)
    OBVIOUS
  <2>1. BlockOK(b, bs[b], Elements) /\ b \in Blocks
    BY <1>4, <1>5
  <2>2. Once(new[b], f)
    BY <1>4, <2>1, InsertHolds
  <2>3. QED
    BY <1>6, <2>1, <2>2, SameHolds
<1>13. \A x \in S, f \in Elements : /\ In(after[x], f) <=> In(bs[x], f)
                                    /\ Once(after[x], f) <=> Once(bs[x], f)
  <2> SUFFICES ASSUME NEW x \in S, NEW f \in Elements
               PROVE  /\ In(after[x], f) <=> In(bs[x], f)
                      /\ Once(after[x], f) <=> Once(bs[x], f)
    OBVIOUS
  <2>1. SameActive(new[x], after[x]) /\ new[x] = bs[x]
    BY <1>4, <1>6, <1>9
  <2>2. QED
    BY <2>1, SameHolds
<1>14. \A f \in Elements :
           /\ Held(after, {b} \union S, f) <=> f = e \/ Held(bs, S, f)
           /\ Apart(bs, S, f) /\ f # e => Apart(after, {b} \union S, f)
  BY <1>11, <1>12, <1>13 DEF Held, Apart
<1>15. ~Held(bs, S, e) => Apart(after, {b} \union S, e)
  <2> SUFFICES ASSUME ~Held(bs, S, e) PROVE Apart(after, {b} \union S, e)
    OBVIOUS
  <2>1. \A x \in S : ~In(after[x], e)
    BY <1>4, <1>13 DEF Held
  <2>2. \A x \in S : Once(after[x], e)
    BY <2>1 DEF In, Once
  <2>3. QED
    BY <1>4, <1>12, <2>1, <2>2 DEF Apart
<1>16. /\ version'[i] = e.ver /\ version[i] \in Nat
       /\ \A j \in Items : version[j] \in Nat /\ version'[j] \in Nat /\ version[j] <= version'[j]
       /\ \A j \in Items : j # i => version'[j] = version[j] /\ key'[j] = key[j]
  BY <1>3, <1>5, <1>8
<1>17. ~Held(bs, S, e) /\ e \notin shared
  <2>1. ~(e.ver <= version[e.item])
    BY <1>8, <1>16
  <2>2. Held(blk[t], Mine(t), e) => e.ver <= version[e.item]
    BY <1>4 DEF Elem
  <2>3. e \in shared => e.ver <= version[e.item]
    BY DEF Elem
  <2>4. QED
    BY <1>10, <2>1, <2>2, <2>3 DEF bs
<1>18. ASSUME NEW u \in Threads, NEW f \in Elements, Held(blk'[u], Mine(u)', f)
       PROVE  Owner[f.item] = u /\ f.ver <= version'[f.item]
  <2>1. f.item \in Items /\ f.ver \in Nat
    BY DEF Elements, BlockItems
  <2>2. CASE Held(blk[u], Mine(u), f)
    <3>1. Owner[f.item] = u /\ f.ver <= version[f.item]
      BY <2>2 DEF Elem
    <3>2. QED
      BY <1>16, <2>1, <3>1
  <2>3. CASE ~Held(blk[u], Mine(u), f)
    <3>1. u = t
      BY <1>7, <1>18, <2>3
    <3>2. f = e
      BY <1>10, <1>14, <1>18, <2>3, <3>1 DEF bs, after
    <3>3. QED
      BY <1>3, <1>8, <1>16, <3>1, <3>2
  <2>4. QED
    BY <2>2, <2>3
<1>19. ASSUME NEW f \in shared' PROVE f.ver <= version'[f.item]
  <2>1. f \in Elements /\ f \in shared
    BY <1>3, <1>5 DEF Types, FieldTypes
  <2>2. f.item \in Items /\ f.ver \in Nat
    BY <2>1 DEF Elements, BlockItems
  <2>3. f.ver <= version[f.item]
    BY <2>1 DEF Elem
  <2>4. QED
    BY <1>16, <2>2, <2>3
<1>20. ASSUME NEW j \in Items, used(j)'
       PROVE  /\ Current(j)' \in Elements
              /\ Apart(blk'[Owner[j]], Mine(Owner[j])', Current(j)')
              /\ Held(blk'[Owner[j]], Mine(Owner[j])', Current(j)') <=> Current(j)' \notin shared'
  <2>1. CASE j = i
    <3>1. Apart(after, {b} \union S, e) /\ Held(after, {b} \union S, e) /\ e \notin shared'
      BY <1>3, <1>4, <1>14, <1>15, <1>17
    <3>2. QED
      BY <1>3, <1>4, <1>8, <1>10, <2>1, <3>1 DEF after
  <2>2. CASE j # i
    <3> DEFINE u == Owner[j]
               f == Current(j)
    <3>1. Current(j)' = f /\ used(j) /\ u \in Threads /\ f.item = j
      BY <1>16, <1>20, <2>2, DistAssumption DEF Current, used
    <3>2. /\ f \in Elements /\ Apart(blk[u], Mine(u), f)
          /\ Held(blk[u], Mine(u), f) <=> f \notin shared
      BY <3>1 DEF Elem
    <3>3. f # e
      BY <1>8, <2>2, <3>1
    <3> HIDE DEF f
    <3>4. CASE u = t
      <4>1. Apart(bs, S, f) /\ (Held(bs, S, f) <=> f \notin shared)
        BY <1>10, <3>2, <3>4 DEF bs
      <4>2. /\ Apart(after, {b} \union S, f)
            /\ Held(after, {b} \union S, f) <=> f \notin shared
        BY <1>14, <3>2, <3>3, <4>1
      <4>3. QED
        BY <1>3, <1>10, <3>1, <3>2, <3>4, <4>2 DEF after
    <3>5. CASE u # t
      BY <1>3, <1>7, <3>1, <3>2, <3>5
    <3>6. QED
      BY <3>4, <3>5
  <2>3. QED
    BY <2>1, <2>2
<1>21. QED
  BY <1>18, <1>19, <1>20 DEF Elem

-----------------------------------------------------------------------------
(* The theorem. *)

LEMMA InitElem == Init => Elem
PROOF
<1> SUFFICES ASSUME Init PROVE Elem
  OBVIOUS
<1>1. Inv
  BY InitInv
<1>2. /\ version = [i \in Items |-> 0] /\ shared = {} /\ pc = [t \in Threads |-> "idle"]
      /\ blk = [t \in Threads |-> [b \in Blocks |-> NewBlock(b)]]
  BY DEF Init
<1>3. \A i \in Items : ~used(i)
  BY <1>2 DEF used
<1>4. \A t \in Threads : Mine(t) = {}
  <2> SUFFICES ASSUME NEW t \in Threads PROVE Mine(t) = {}
    OBVIOUS
  <2>1. Mine(t) = List(t)
    BY <1>2 DEF Mine, MineOf
  <2>2. \A b \in Blocks : ~blk[t][b].used
    BY <1>2 DEF NewBlock
  <2>3. List(t) = {}
    BY <1>1, <2>2, ListNow
  <2>4. QED
    BY <2>1, <2>3
<1>5. QED
  BY <1>2, <1>3, <1>4 DEF Elem, Held

(* Every step of every thread keeps the elements.                          *)
LEMMA NextElem ==
    ASSUME N >= 4, Inv, Elem, [Next]_vars
    PROVE  Elem'
PROOF
<1>1. Inv'
  BY NextInv
<1>2. CASE UNCHANGED vars
  <2>1. /\ version' = version /\ key' = key /\ blk' = blk /\ head' = head
        /\ shared' = shared /\ pc' = pc /\ loc' = loc
    BY <1>2 DEF vars
  <2>2. \A t \in Threads : Mine(t)' = Mine(t)
    BY <2>1 DEF Mine, MineOf, List
  <2>3. \A i \in Items : (used(i)' <=> used(i)) /\ Current(i)' = Current(i) /\ Owner[i] \in Threads
    BY <2>1, DistAssumption DEF used, Current
  <2>4. QED
    BY <2>1, <2>2, <2>3 DEF Elem
<1>3. ASSUME NEW t \in Threads, Call(t) PROVE Elem'
  <2>1. ASSUME NEW i \in Items, NEW k \in Keys, insert(t, i, k) PROVE Elem'
    BY <2>1, insertElem
  <2>2. CASE delete_min(t) \/ find_min(t) \/ call_spy(t)
    BY <2>2, readElem
  <2>3. CASE take_shared(t)
    BY <2>3, take_sharedElem
  <2>4. QED
    BY <1>3, <2>1, <2>2, <2>3 DEF Call
<1>4. ASSUME NEW t \in Threads, Step(t) PROVE Elem'
  <2>1. CASE merge(t)
    BY <2>1, mergeElem
  <2>2. CASE hand_over(t)
    BY <2>2, hand_overElem
  <2>3. CASE link(t)
    BY <2>3, linkElem
  <2>4. CASE peek_cached(t) \/ peek_scan(t) \/ advance(t) \/ copy_first(t) \/ copy_last(t)
    BY <2>4, readElem
  <2>5. CASE scan_block(t) \/ scan_end(t) \/ spy_abort(t)
    BY <1>1, <2>5, peekElem
  <2>6. CASE unlink(t)
    BY <2>6, unlinkElem
  <2>7. CASE shrink(t)
    BY <2>7, shrinkElem
  <2>8. CASE take(t)
    BY <2>8, takeElem
  <2>9. CASE spy(t)
    BY <2>9, spyElem
  <2>10. CASE copy(t)
    BY <1>1, <2>10, copyElem
  <2>11. CASE spied_block(t)
    BY <2>11, spied_blockElem
  <2>12. QED
    BY <1>4, <2>1, <2>2, <2>3, <2>4, <2>5, <2>6, <2>7, <2>8, <2>9, <2>10, <2>11 DEF Step
<1>5. QED
  BY <1>2, <1>3, <1>4 DEF Next

(* Where an element is, counted.                                           *)
LEMMA PlacesCounted ==
    ASSUME NEW t, NEW e, Apart(blk[t], List(t), e)
    PROVE  Cardinality(Places(t, e)) = IF Held(blk[t], List(t), e) THEN 1 ELSE 0
PROOF
<1> DEFINE S == List(t)
           bs == blk[t]
           P == Places(t, e)
<1>1. \A p : p \in P <=> \E b \in S : \E n \in bs[b].first .. (bs[b].last - 1) :
                             bs[b].xs[n] = e /\ p = <<b, n>>
  BY DEF Places
<1>2. /\ \A b \in S : \A m, n \in bs[b].first .. (bs[b].last - 1) :
             bs[b].xs[m] = e /\ bs[b].xs[n] = e => m = n
      /\ \A b, c \in S : In(bs[b], e) /\ In(bs[c], e) => b = c
  BY DEF Apart, Once
<1>3. Held(bs, S, e) <=> \E b \in S : \E n \in bs[b].first .. (bs[b].last - 1) : bs[b].xs[n] = e
  BY DEF Held, In
<1> HIDE DEF P
<1>4. CASE Held(bs, S, e)
  <2>1. PICK b \in S : \E n \in bs[b].first .. (bs[b].last - 1) : bs[b].xs[n] = e
    BY <1>3, <1>4
  <2>2. PICK n \in bs[b].first .. (bs[b].last - 1) : bs[b].xs[n] = e
    BY <2>1
  <2>3. <<b, n>> \in P
    BY <1>1, <2>2
  <2>4. ASSUME NEW p \in P PROVE p = <<b, n>>
    <3>1. PICK c \in S : \E m \in bs[c].first .. (bs[c].last - 1) :
                             bs[c].xs[m] = e /\ p = <<c, m>>
      BY <1>1
    <3>2. c = b
      BY <1>2, <2>1, <3>1 DEF In
    <3>3. PICK m \in bs[b].first .. (bs[b].last - 1) : bs[b].xs[m] = e /\ p = <<b, m>>
      BY <3>1, <3>2
    <3>4. QED
      BY <1>2, <2>2, <3>3
  <2>5. P = {<<b, n>>}
    BY <2>3, <2>4
  <2>6. Cardinality(P) = 1
    BY <2>5, FS_Singleton
  <2>7. QED
    BY <1>4, <2>6 DEF P, S, bs
<1>5. CASE ~Held(bs, S, e)
  <2>1. P = {}
    BY <1>1, <1>3, <1>5
  <2>2. QED
    BY <1>5, <2>1, FS_EmptySet DEF P, S, bs
<1>6. QED
  BY <1>4, <1>5

LEMMA ElemExactlyOnce == Elem => ExactlyOnce
PROOF
<1> SUFFICES ASSUME Elem, NEW i \in Items, used(i), pc[Owner[i]] # "merge"
             PROVE  Cardinality(Places(Owner[i], Current(i)))
                        = IF Current(i) \in shared THEN 0 ELSE 1
  BY DEF ExactlyOnce, Current
<1> DEFINE t == Owner[i]
           e == Current(i)
<1>1. Mine(t) = List(t)
  BY DEF Mine, MineOf
<1>2. Apart(blk[t], List(t), e) /\ (Held(blk[t], List(t), e) <=> e \notin shared)
  BY <1>1 DEF Elem
<1> HIDE DEF t, e
<1>3. Cardinality(Places(t, e)) = IF Held(blk[t], List(t), e) THEN 1 ELSE 0
  BY <1>2, PlacesCounted
<1>4. QED
  BY <1>2, <1>3 DEF t, e

(* No element is lost and none is stored twice by inserting, merging,      *)
(* handing over, shrinking, unlinking and spying, if there are four blocks *)
(* of each size.                                                           *)
THEOREM ElementsKept ==
    ASSUME N >= 4
    PROVE  Spec => []ExactlyOnce
PROOF
<1>1. Init => Inv /\ Elem
  BY InitInv, InitElem
<1>2. Inv /\ Elem /\ [Next]_vars => Inv' /\ Elem'
  BY NextInv, NextElem
<1>3. Inv /\ Elem => ExactlyOnce
  BY ElemExactlyOnce
<1>4. QED
  BY <1>1, <1>2, <1>3, PTL DEF Spec

-----------------------------------------------------------------------------
(* What a scan finds.  The blocks it has passed hold nothing smaller than  *)
(* the best item it found, and the block at hand nothing smaller than the  *)
(* candidate: a taken entry is never untaken again, as a block holds       *)
(* nothing from after its items' current use.                              *)

NoLess(ver, x, best) ==
    \A e \in Elements : In(x, e) /\ ~taken(ver, e) => Is(best) /\ best.key <= e.key
ScanAt(ver, bs, S, p, l) ==
    /\ p \in {"scan", "shrink"} =>
           \A x \in S : l.b = Null \/ pow(x) > pow(l.b) => NoLess(ver, bs[x], l.best)
    /\ p = "shrink" => NoLess(ver, bs[l.b], l.cand)
Scan == \A t \in Threads : ScanAt(version, blk[t], List(t), pc[t], loc[t])

(* Fewer entries are not less either.                                      *)
LEMMA NoLessFewer ==
    ASSUME NEW ver, NEW x, NEW best, NoLess(ver, x, best), NEW new, NEW y,
           \A e \in Elements : In(y, e) /\ ~taken(new, e) => In(x, e) /\ ~taken(ver, e)
    PROVE  NoLess(new, y, best)
BY DEF NoLess

(* What peek() returns is the least of the block.                          *)
LEMMA PeekItemLeast ==
    ASSUME NEW ver, NEW b \in Blocks, NEW x, BlockOK(b, x, Elements), Ordered(x)
    PROVE  NoLess(ver, x, PeekItem(ver, x))
PROOF
<1> DEFINE cand == PeekItem(ver, x)
<1> SUFFICES ASSUME NEW e \in Elements, In(x, e), ~taken(ver, e)
             PROVE  Is(cand) /\ cand.key <= e.key
  BY DEF NoLess
<1>1. EMPTY \notin Elements /\ e.key \in Nat
  BY ItemsOK
<1>2. cand # EMPTY /\ cand.key <= e.key
  BY <1>1, PeekHolds
<1>3. QED
  BY <1>2 DEF Is

(* A step of t writes none of another thread's variables.                  *)
LEMMA OthersStay ==
    ASSUME Inv, N >= 4, NEW t \in Threads, Call(t) \/ Step(t), NEW u \in Threads \ {t}
    PROVE  blk'[u] = blk[u] /\ head'[u] = head[u] /\ pc'[u] = pc[u] /\ loc'[u] = loc[u]
PROOF
<1>1. FieldTypes /\ blk \in [Threads -> [Blocks -> AnyBlock]]
  BY ThreadFacts DEF Types
<1>2. \A bs : SetBlocks(t, bs) => blk'[u] = blk[u]
  BY <1>1 DEF SetBlocks
<1>3. \A p, l : Goto(t, p, l) => pc'[u] = pc[u] /\ loc'[u] = loc[u]
  BY <1>1 DEF Goto, FieldTypes
<1>4. \A best : AfterPeek(t, best) => pc'[u] = pc[u] /\ loc'[u] = loc[u]
  <2> SUFFICES ASSUME NEW best, AfterPeek(t, best) PROVE pc'[u] = pc[u] /\ loc'[u] = loc[u]
    OBVIOUS
  <2>1. PICK p, l : Goto(t, p, l)
    BY AfterPeekGoes
  <2>2. QED
    BY <1>3, <2>1
<1>5. head \in [Threads -> Pointer]
  BY <1>1 DEF FieldTypes
<1>6. ASSUME NEW i, NEW k, insert(t, i, k) PROVE
         blk'[u] = blk[u] /\ head'[u] = head[u] /\ pc'[u] = pc[u] /\ loc'[u] = loc[u]
  BY <1>2, <1>3, <1>6 DEF insert
<1>7. CASE merge(t)
  BY <1>2, <1>3, <1>7 DEF merge
<1>8. CASE hand_over(t) \/ link(t)
  BY <1>2, <1>3, <1>5, <1>8 DEF hand_over, link, Return
<1>9. CASE delete_min(t) \/ find_min(t) \/ call_spy(t)
  BY <1>3, <1>9 DEF delete_min, find_min, call_spy, lists
<1>10. CASE peek_cached(t) \/ peek_scan(t) \/ advance(t)
  BY <1>3, <1>4, <1>10 DEF peek_cached, peek_scan, advance, lists
<1>11. CASE scan_block(t)
  BY <1>2, <1>3, <1>11 DEF scan_block, lists
<1>12. CASE unlink(t)
  BY <1>2, <1>4, <1>5, <1>12 DEF unlink
<1>13. CASE shrink(t)
  <2>1. Others(t) /\ \E full, n, R : Shrinks(t, full, n, R)
    BY <1>13, shrinkStep
  <2>2. \E bs : SetBlocks(t, bs)
    BY <2>1 DEF Shrinks
  <2>3. QED
    BY <1>2, <2>1, <2>2 DEF Others
<1>14. CASE scan_end(t)
  BY <1>2, <1>4, <1>14 DEF scan_end
<1>15. CASE take(t) \/ take_shared(t)
  BY <1>3, <1>15 DEF take, take_shared, Return, lists
<1>16. CASE spy_abort(t) \/ spy(t)
  BY <1>2, <1>3, <1>16 DEF spy_abort, spy, Return, lists
<1>17. CASE copy_first(t) \/ copy_last(t)
  BY <1>3, <1>17 DEF copy_first, copy_last, lists
<1>18. CASE copy(t)
  BY <1>1, <1>3, <1>18 DEF copy, lists
<1>19. CASE spied_block(t)
  BY <1>2, <1>3, <1>19 DEF spied_block, Return
<1>20. QED
  BY <1>6, <1>7, <1>8, <1>9, <1>10, <1>11, <1>12, <1>13, <1>14, <1>15, <1>16, <1>17, <1>18, <1>19
     DEF Call, Step

(* The version of an item never falls.                                     *)
LEMMA VersionsGrow ==
    ASSUME Types, NEW t \in Threads, Call(t) \/ Step(t), NEW i \in Items
    PROVE  version[i] \in Nat /\ version'[i] \in Nat /\ version[i] <= version'[i]
PROOF
<1>1. version \in [Items -> Nat] /\ version[i] \in Nat
  BY DEF Types, FieldTypes
<1>2. \/ version' = version
      \/ \E j : version' = [version EXCEPT ![j] = @ + 1]
  <2>1. ASSUME NEW j \in Items, NEW k \in Keys, insert(t, j, k)
        PROVE  version' = [version EXCEPT ![j] = @ + 1]
    BY <1>1, <2>1 DEF insert
  <2>2. CASE take_shared(t)
    BY <2>2 DEF take_shared
  <2>3. CASE take(t)
    <3>1. version' = [version EXCEPT ![loc[t].best.item] =
                         IF Taken(loc[t].best) THEN @ ELSE @ + 1]
      BY <2>3 DEF take
    <3>2. CASE Taken(loc[t].best)
      BY <1>1, <3>1, <3>2
    <3>3. CASE ~Taken(loc[t].best)
      BY <3>1, <3>3
    <3>4. QED
      BY <3>2, <3>3
  <2>4. CASE delete_min(t) \/ find_min(t) \/ call_spy(t)
    BY <2>4 DEF delete_min, find_min, call_spy
  <2>5. CASE merge(t) \/ hand_over(t) \/ link(t) \/ unlink(t) \/ shrink(t)
    BY <2>5 DEF merge, hand_over, link, unlink, shrink
  <2>6. CASE peek_cached(t) \/ peek_scan(t) \/ scan_block(t) \/ advance(t) \/ scan_end(t)
    BY <2>6 DEF peek_cached, peek_scan, scan_block, advance, scan_end
  <2>7. CASE spy_abort(t) \/ spy(t) \/ copy_first(t) \/ copy_last(t) \/ copy(t) \/ spied_block(t)
    BY <2>7 DEF spy_abort, spy, copy_first, copy_last, copy, spied_block
  <2>8. QED
    BY <2>1, <2>2, <2>3, <2>4, <2>5, <2>6, <2>7 DEF Call, Step
<1>3. CASE version' = version
  BY <1>1, <1>3
<1>4. ASSUME NEW j, version' = [version EXCEPT ![j] = @ + 1]
      PROVE  version'[i] \in Nat /\ version[i] <= version'[i]
  <2>1. version'[i] = version[i] \/ version'[i] = version[i] + 1
    BY <1>1, <1>4
  <2>2. QED
    BY <1>1, <2>1
<1>5. QED
  BY <1>1, <1>2, <1>3, <1>4

(* Other threads' steps take entries, but untake none.                     *)
LEMMA ScanOthers ==
    ASSUME Inv, N >= 4, Elem, Scan, NEW t \in Threads, Call(t) \/ Step(t), NEW u \in Threads \ {t}
    PROVE  ScanAt(version', blk'[u], List(u)', pc'[u], loc'[u])
PROOF
<1> DEFINE bs == blk[u]
           S == List(u)
           p == pc[u]
           l == loc[u]
<1>1. /\ blk'[u] = bs /\ pc'[u] = p /\ loc'[u] = l /\ List(u)' = S
  BY OthersStay DEF List
<1>2. ScanAt(version, bs, S, p, l)
  BY DEF Scan
<1>3. p \in {"scan", "shrink"} => Mine(u) = S
  BY DEF Mine, MineOf
<1>4. ASSUME p \in {"scan", "shrink"}, NEW x \in S, NEW best, NoLess(version, bs[x], best)
      PROVE  NoLess(version', bs[x], best)
  <2>1. ASSUME NEW e \in Elements, In(bs[x], e), ~taken(version', e) PROVE ~taken(version, e)
    <3>1. Held(blk[u], Mine(u), e)
      BY <1>3, <1>4, <2>1 DEF Held
    <3>2. e.ver <= version[e.item]
      BY <3>1 DEF Elem
    <3>3. e.item \in Items /\ e.ver \in Nat
      BY DEF Elements, BlockItems
    <3>4. version[e.item] \in Nat /\ version[e.item] <= version'[e.item]
      BY <3>3, ThreadFacts, VersionsGrow
    <3>5. version'[e.item] = e.ver
      BY <2>1 DEF taken
    <3>6. QED
      BY <3>2, <3>3, <3>4, <3>5 DEF taken
  <2>2. QED
    BY <1>4, <2>1 DEF NoLess
<1>5. p = "shrink" => l.b \in S
  BY ThreadFacts DEF StateOK
<1> HIDE DEF bs, S, p, l
<1>6. ScanAt(version', bs, S, p, l)
  BY <1>2, <1>4, <1>5 DEF ScanAt
<1>7. QED
  BY <1>1, <1>6

(* Steps that lead elsewhere than to a scan.                               *)
LEMMA ScanNot ==
    ASSUME FieldTypes, NEW t \in Threads,
           \/ \E i \in Items, k \in Keys : insert(t, i, k)
           \/ delete_min(t) \/ find_min(t) \/ call_spy(t) \/ take_shared(t)
           \/ merge(t) \/ hand_over(t) \/ link(t) \/ peek_cached(t) \/ unlink(t) \/ scan_end(t)
           \/ take(t) \/ spy_abort(t) \/ spy(t) \/ copy_first(t) \/ copy_last(t) \/ copy(t)
           \/ spied_block(t)
    PROVE  pc'[t] \notin {"scan", "shrink"}
PROOF
<1>1. \A p, l : Goto(t, p, l) => pc'[t] = p
  BY DEF Goto, FieldTypes
<1>2. \A best : AfterPeek(t, best) => pc'[t] \notin {"scan", "shrink"}
  <2> SUFFICES ASSUME NEW best, AfterPeek(t, best) PROVE pc'[t] \notin {"scan", "shrink"}
    OBVIOUS
  <2>1. PICK p, l : Goto(t, p, l) /\ p \in {"idle", "take", "spy"}
    BY AfterPeekGoes
  <2>2. pc'[t] = p
    BY <1>1, <2>1
  <2>3. QED
    BY <2>1, <2>2
<1>3. CASE \/ \E i \in Items, k \in Keys : insert(t, i, k)
           \/ delete_min(t) \/ find_min(t) \/ call_spy(t)
  BY <1>1, <1>3 DEF insert, delete_min, find_min, call_spy
<1>4. CASE take_shared(t)
  BY <1>4 DEF take_shared
<1>5. CASE merge(t) \/ hand_over(t) \/ link(t) \/ take(t) \/ spy_abort(t) \/ spied_block(t)
  BY <1>1, <1>5 DEF merge, hand_over, link, take, spy_abort, spied_block, Return
<1>6. CASE peek_cached(t) \/ unlink(t) \/ scan_end(t)
  BY <1>2, <1>6 DEF peek_cached, unlink, scan_end
<1>7. CASE spy(t) \/ copy_first(t) \/ copy_last(t) \/ copy(t)
  BY <1>1, <1>7 DEF spy, copy_first, copy_last, copy
<1>8. QED
  BY <1>3, <1>4, <1>5, <1>6, <1>7

(* peek_scan: a scan starts with the largest block.                        *)
LEMMA peek_scanScan ==
    ASSUME Inv, NEW t \in Threads, peek_scan(t)
    PROVE  ScanAt(version', blk'[t], List(t)', pc'[t], loc'[t])
PROOF
<1> DEFINE S == List(t)
           l == [loc[t] EXCEPT !.b = head[t]]
<1>1. FieldTypes /\ loc[t] \in LocType /\ Linked(blk[t], S, head[t], tail[t])
  BY ThreadFacts
<1>2. Goto(t, "scan", l) /\ blk' = blk /\ head' = head
  BY DEF peek_scan, lists
<1>3. pc'[t] = "scan" /\ loc'[t] = l
  BY <1>1, <1>2, GoneTo
<1>4. loc'[t].b = head[t]
  BY <1>1, <1>3 DEF LocType
<1>5. List(t)' = S
  BY <1>2 DEF List
<1> HIDE DEF S, l
<1>6. /\ head[t] = Null => S = {}
      /\ \A x \in S : pow(x) <= pow(head[t]) /\ head[t] \in S
  BY <1>1, Ends
<1>7. ASSUME NEW x \in S PROVE ~(head[t] = Null \/ pow(x) > pow(head[t]))
  <2>1. S \subseteq Blocks
    BY <1>1 DEF Linked
  <2>2. pow(x) \in Nat /\ pow(head[t]) \in Nat
    BY <1>6, <2>1, Sizes
  <2>3. QED
    BY <1>6, <2>2
<1>8. QED
  BY <1>3, <1>4, <1>5, <1>7 DEF ScanAt

(* scan_block: the candidate is the least of the block at hand.            *)
LEMMA scan_blockScan ==
    ASSUME Inv, Inv', Scan, NEW t \in Threads, scan_block(t)
    PROVE  ScanAt(version', blk'[t], List(t)', pc'[t], loc'[t])
PROOF
<1> DEFINE bs == blk[t]
           S == List(t)
           b == loc[t].b
           cand == PeekItem(version, bs[b])
           l == [loc[t] EXCEPT !.cand = cand]
           new == Peeked(bs, b)
           after == blk'[t]
<1>1. /\ Types /\ FieldTypes /\ loc[t] \in LocType /\ bs \in [Blocks -> AnyBlock]
      /\ StateOK(bs, S, head[t], tail[t], spied[t], pc[t], loc[t])
      /\ ListAt(bs, S, head[t], tail[t], spied[t], Work(pc[t], loc[t]))
  BY ThreadFacts
<1>2. /\ pc[t] = "scan" /\ b # Null /\ Goto(t, "shrink", l)
      /\ SetBlocks(t, [bs EXCEPT ![b] = PeekBlock(version, @)])
      /\ version' = version /\ spied' = spied
  BY DEF scan_block, lists
<1>3. /\ b \in S /\ S \subseteq Blocks /\ b \in Pointer
      /\ \A x \in Blocks : BlockOK(x, bs[x], Elements)
  BY <1>1, <1>2, ListFacts DEF StateOK, Pointer
<1>4. Ordered(bs[b])
  BY <1>1, <1>3 DEF ListAt
<1>5. SetBlocks(t, new)
  BY <1>2 DEF Peeked
<1>6. \A x \in Blocks : /\ BlockOK(x, new[x], Elements) /\ new[x].used = bs[x].used
                        /\ \A e \in Elements : Keeps(version, bs[x], new[x], e)
  BY <1>1, <1>3, PeekedHolds
<1> HIDE DEF new
<1>7. pc'[t] = "shrink" /\ loc'[t] = l
  BY <1>1, <1>2, GoneTo
<1>8. loc'[t].b = b /\ loc'[t].best = loc[t].best /\ loc'[t].cand = cand
  BY <1>1, <1>7 DEF LocType
<1>9. List(t)' = S
  <2>1. List(t)' = {x \in Blocks : new[x].used} \ (Work(pc'[t], loc'[t]) \union {spied'[t]})
    BY <1>1, <1>5, <1>6, ListSet
  <2>2. Work(pc'[t], loc'[t]) = {} /\ Work(pc[t], loc[t]) = {}
    BY <1>2, <1>7 DEF Work, Copying
  <2>3. S = {x \in Blocks : bs[x].used} \ ({} \union {spied[t]})
    BY <2>2, ListNow
  <2>4. QED
    BY <1>2, <1>6, <2>1, <2>2, <2>3
<1>10. \A x \in Blocks : SameActive(new[x], after[x])
  BY <1>1, <1>5, <1>6, BlocksSet
<1>11. ASSUME NEW x \in Blocks, NEW best, NoLess(version, bs[x], best)
       PROVE  NoLess(version, after[x], best)
  <2>1. \A e \in Elements : In(after[x], e) => In(bs[x], e)
    BY <1>6, <1>10, SameHolds DEF Keeps
  <2>2. QED
    BY <1>11, <2>1 DEF NoLess
<1>12. NoLess(version, bs[b], cand)
  BY <1>3, <1>4, PeekItemLeast
<1>13. \A x \in S : pow(x) > pow(b) => NoLess(version, bs[x], loc[t].best)
  BY <1>2 DEF Scan, ScanAt
<1> HIDE DEF bs, S, b, cand, l, after
<1>14. NoLess(version, after[b], cand)
  BY <1>3, <1>11, <1>12
<1>15. \A x \in S : pow(x) > pow(b) => NoLess(version, after[x], loc[t].best)
  BY <1>3, <1>11, <1>13
<1>16. b # Null
  BY <1>2
<1>17. ScanAt(version, after, S, pc'[t], loc'[t])
  BY <1>7, <1>8, <1>14, <1>15, <1>16 DEF ScanAt
<1>18. QED
  BY <1>2, <1>9, <1>17 DEF after

(* advance: the better of the two is not larger than either.               *)
LEMMA advanceScan ==
    ASSUME Inv, Scan, NEW t \in Threads, advance(t)
    PROVE  ScanAt(version', blk'[t], List(t)', pc'[t], loc'[t])
PROOF
<1> DEFINE bs == blk[t]
           S == List(t)
           b == loc[t].b
           old == loc[t].best
           cand == loc[t].cand
           best == IF Better(cand, old) THEN cand ELSE old
           nxt == bs[b].next
           l == [loc[t] EXCEPT !.best = best, !.cand = EMPTY, !.b = nxt]
<1>1. /\ FieldTypes /\ loc[t] \in LocType
      /\ StateOK(bs, S, head[t], tail[t], spied[t], pc[t], loc[t])
      /\ Linked(bs, S, head[t], tail[t])
  BY ThreadFacts
<1>2. /\ pc[t] = "shrink" /\ Goto(t, "scan", l)
      /\ version' = version /\ blk' = blk /\ head' = head
  BY DEF advance, lists
<1>3. pc'[t] = "scan" /\ loc'[t] = l
  BY <1>1, <1>2, GoneTo
<1>4. b \in S /\ old \in Entry /\ cand \in Entry
  BY <1>1, <1>2 DEF StateOK, LocType
<1>5. List(t)' = S
  BY <1>2 DEF List
<1>6. \A x \in S : b = Null \/ pow(x) > pow(b) => NoLess(version, bs[x], old)
  BY <1>2 DEF Scan, ScanAt
<1>7. NoLess(version, bs[b], cand)
  BY <1>2 DEF Scan, ScanAt
<1>8. ~Is(old) => best = cand
  BY DEF Better
<1>9. /\ Is(old) => Is(best) /\ best.key <= old.key
      /\ Is(cand) => Is(best) /\ best.key <= cand.key
  <2>1. (Is(old) => old.key \in Nat) /\ (Is(cand) => cand.key \in Nat)
    BY <1>4, ItemsOK DEF Is
  <2> HIDE DEF old, cand
  <2>2. QED
    BY <2>1 DEF Better
<1>10. loc'[t].b = nxt /\ loc'[t].best = best
  <2> HIDE DEF best, nxt
  <2>1. QED
    BY <1>1, <1>3 DEF LocType
<1>11. NextDown(S, pow(b), nxt) /\ OnePerSize(S) /\ S \subseteq Blocks
  BY <1>1, <1>4 DEF Linked
<1>12. (Is(old) => old.key \in Nat) /\ (Is(cand) => cand.key \in Nat) /\ best \in Entry
  BY <1>4, ItemsOK DEF Is
<1>13. Is(best) => best.key \in Nat
  BY <1>12, ItemsOK DEF Is
<1> HIDE DEF bs, S, b, old, cand, best, nxt, l
<1>14. ASSUME NEW x \in S, nxt = Null \/ pow(x) > pow(nxt) PROVE x = b \/ pow(x) > pow(b)
  <2>1. \A y \in S : pow(y) \in Nat /\ y # Null
    BY <1>11, Sizes
  <2>2. ~(pow(x) < pow(b))
    <3>1. nxt = Null => ~(pow(x) < pow(b))
      BY <1>4, <1>11, <1>14, <2>1 DEF NextDown
    <3>2. nxt # Null => ~(pow(x) < pow(b))
      BY <1>4, <1>11, <1>14, <2>1 DEF NextDown
    <3>3. QED
      BY <3>1, <3>2
  <2>3. pow(x) = pow(b) => x = b
    BY <1>4, <1>11 DEF OnePerSize
  <2>4. QED
    BY <1>4, <2>1, <2>2, <2>3
<1>15. ASSUME NEW x \in S, x = b \/ pow(x) > pow(b) PROVE NoLess(version, bs[x], best)
  <2> SUFFICES ASSUME NEW e \in Elements, In(bs[x], e), ~taken(version, e)
               PROVE  Is(best) /\ best.key <= e.key
    BY DEF NoLess
  <2>1. e.key \in Nat
    BY ItemsOK
  <2>2. CASE x = b
    <3>1. Is(cand) /\ cand.key <= e.key
      BY <1>7, <2>2 DEF NoLess
    <3>2. QED
      BY <1>9, <1>12, <1>13, <2>1, <3>1
  <2>3. CASE pow(x) > pow(b)
    <3>1. Is(old) /\ old.key <= e.key
      BY <1>6, <2>3 DEF NoLess
    <3>2. QED
      BY <1>9, <1>12, <1>13, <2>1, <3>1
  <2>4. QED
    BY <1>15, <2>2, <2>3
<1>16. ScanAt(version, bs, S, pc'[t], loc'[t])
  BY <1>3, <1>10, <1>14, <1>15 DEF ScanAt
<1>17. blk'[t] = bs
  BY <1>2 DEF bs
<1>18. QED
  BY <1>2, <1>5, <1>16, <1>17

(* shrink: the block at hand has become smaller, and the larger ones stay. *)
LEMMA shrinkScan ==
    ASSUME Inv, N >= 4, Scan, NEW t \in Threads, shrink(t)
    PROVE  ScanAt(version', blk'[t], List(t)', pc'[t], loc'[t])
PROOF
<1> DEFINE bs == blk[t]
           S == List(t)
           b == loc[t].b
           best == loc[t].best
           after == blk'[t]
<1>1. PICK full, n, R : /\ List(t)' = R /\ Shrinks(t, full, n, R)
                        /\ \/ Halved(bs, S, b, full, n, R)
                           \/ Joined(bs, S, b, full, n, R)
  BY shrinkStep
<1>2. pc[t] = "shrink" /\ version' = version
  BY DEF shrink
<1>3. R \subseteq Blocks /\ n \in R /\ pc'[t] = "shrink"
  BY <1>1 DEF Shrinks
<1>4. PICK free \in [Blocks -> AnyBlock] :
           /\ \A x \in Blocks : BlockOK(x, free[x], Elements)
           /\ \A x \in R : SameEntries(full[x], free[x])
           /\ SetBlocks(t, Peeked(free, n)) /\ Written(t, Peeked(free, n))
           /\ Proposes(t, free, n)
  BY <1>1 DEF Shrinks
<1> DEFINE new == Peeked(free, n)
           cand == PeekItem(version, free[n])
<1>5. Types /\ loc[t] \in LocType /\ Linked(bs, S, head[t], tail[t])
  BY ThreadFacts
<1>6. Ordered(free[n]) /\ loc'[t] = [loc[t] EXCEPT !.b = n, !.cand = cand]
  BY <1>4 DEF Proposes
<1>7. n \in Blocks /\ n \in Pointer /\ n # Null
  BY <1>3, Sizes DEF Pointer
<1>8. \A x \in Blocks : /\ BlockOK(x, new[x], Elements)
                        /\ \A e \in Elements : Keeps(version, free[x], new[x], e)
  BY <1>4, <1>7, PeekedHolds
<1>9. SetBlocks(t, new)
  BY <1>4
<1> HIDE DEF new
<1>10. \A x \in Blocks : SameActive(new[x], after[x])
  BY <1>5, <1>8, <1>9, BlocksSet
<1>11. NoLess(version, free[n], cand)
  BY <1>4, <1>6, <1>7, PeekItemLeast
<1> HIDE DEF cand
<1>12. loc'[t].b = n /\ loc'[t].best = best /\ loc'[t].cand = cand
  BY <1>5, <1>6 DEF LocType
<1>13. \A x \in S : pow(x) > pow(b) => NoLess(version, bs[x], best)
  BY <1>2 DEF Scan, ScanAt
<1>14. S \subseteq Blocks /\ OnePerSize(S)
  BY <1>5 DEF Linked
<1> HIDE DEF bs, S, b, best, after
<1>15. /\ b \in S /\ pow(b) <= pow(n) + 1
       /\ \A x \in R : x # n => x \in S \ {b} /\ full[x] = bs[x]
  <2>1. CASE Halved(bs, S, b, full, n, R)
    BY <2>1 DEF Halved
  <2>2. CASE Joined(bs, S, b, full, n, R)
    <3>1. PICK s, y, nxt, prune : JoinedBy(bs, S, b, full, n, R, s, y, nxt, prune)
      BY <2>2 DEF Joined
    <3>2. /\ b \in S /\ R = (S \ {b, nxt}) \union {n} /\ pow(b) <= pow(n) + 1
          /\ \A x \in S \ {b, nxt} : full[x] = bs[x]
      BY <3>1 DEF JoinedBy
    <3>3. QED
      BY <3>2
  <2>3. QED
    BY <1>1, <2>1, <2>2
<1>16. ASSUME NEW x \in Blocks, NEW c, NoLess(version, free[x], c) PROVE NoLess(version, after[x], c)
  <2>1. \A e \in Elements : In(after[x], e) => In(free[x], e)
    BY <1>8, <1>10, SameHolds DEF Keeps
  <2>2. QED
    BY <1>16, <2>1 DEF NoLess
<1>17. NoLess(version, after[n], cand)
  BY <1>7, <1>11, <1>16
<1>18. ASSUME NEW x \in R, pow(x) > pow(n) PROVE NoLess(version, after[x], best)
  <2>1. pow(x) \in Nat /\ pow(n) \in Nat /\ pow(b) \in Nat
    BY <1>3, <1>14, <1>15, Sizes
  <2>2. x # n
    BY <1>18, <2>1
  <2>3. x \in S /\ x # b /\ full[x] = bs[x]
    BY <1>15, <2>2
  <2>4. pow(x) # pow(b)
    BY <1>14, <1>15, <2>3 DEF OnePerSize
  <2>5. pow(x) > pow(b)
    BY <1>15, <1>18, <2>1, <2>4
  <2>6. NoLess(version, full[x], best)
    BY <1>13, <2>3, <2>5
  <2>7. \A e \in Elements : In(free[x], e) => In(full[x], e)
    <3>1. SameEntries(full[x], free[x])
      BY <1>4
    <3>2. QED
      BY <3>1, SameKeeps DEF Keeps
  <2>8. NoLess(version, free[x], best)
    BY <2>6, <2>7 DEF NoLess
  <2>9. QED
    BY <1>3, <1>16, <2>8
<1>19. ScanAt(version, after, R, pc'[t], loc'[t])
  BY <1>3, <1>7, <1>12, <1>17, <1>18 DEF ScanAt
<1>20. QED
  BY <1>1, <1>2, <1>19 DEF after

(* Every step of every thread keeps what the scans have found.             *)
LEMMA NextScan ==
    ASSUME N >= 4, Inv, Elem, Scan, [Next]_vars
    PROVE  Scan'
PROOF
<1>1. Inv'
  BY NextInv
<1>2. CASE UNCHANGED vars
  <2>1. \A t \in Threads : List(t)' = List(t)
    BY <1>2 DEF vars, List
  <2>2. QED
    BY <1>2, <2>1 DEF vars, Scan
<1>3. ASSUME NEW t \in Threads, Call(t) \/ Step(t) PROVE Scan'
  <2>1. Types /\ FieldTypes
    BY ThreadFacts
  <2>2. ASSUME NEW u \in Threads \ {t}
        PROVE  ScanAt(version', blk'[u], List(u)', pc'[u], loc'[u])
    BY <1>3, ScanOthers
  <2>3. ScanAt(version', blk'[t], List(t)', pc'[t], loc'[t])
    <3>1. CASE peek_scan(t)
      BY <3>1, peek_scanScan
    <3>2. CASE scan_block(t)
      BY <1>1, <3>2, scan_blockScan
    <3>3. CASE advance(t)
      BY <3>3, advanceScan
    <3>4. CASE shrink(t)
      BY <3>4, shrinkScan
    <3>5. CASE ~(peek_scan(t) \/ scan_block(t) \/ advance(t) \/ shrink(t))
      <4>1. \/ \E i \in Items, k \in Keys : insert(t, i, k)
            \/ delete_min(t) \/ find_min(t) \/ call_spy(t) \/ take_shared(t)
            \/ merge(t) \/ hand_over(t) \/ link(t) \/ peek_cached(t) \/ unlink(t) \/ scan_end(t)
            \/ take(t) \/ spy_abort(t) \/ spy(t) \/ copy_first(t) \/ copy_last(t) \/ copy(t)
            \/ spied_block(t)
        BY <1>3, <3>5 DEF Call, Step
      <4>2. pc'[t] \notin {"scan", "shrink"}
        BY <2>1, <4>1, ScanNot
      <4>3. QED
        BY <4>2 DEF ScanAt
    <3>6. QED
      BY <3>1, <3>2, <3>3, <3>4, <3>5
  <2>4. QED
    BY <2>2, <2>3 DEF Scan
<1>4. QED
  BY <1>2, <1>3 DEF Next

(* A scan that ends has passed every block of the list.                    *)
LEMMA ScanEnds ==
    ASSUME Inv, Scan, NEW t \in Threads, scan_end(t), NEW e \in LocalLive(t)
    PROVE  Is(cached'[t]) /\ cached'[t].key <= e.key
PROOF
<1> DEFINE best == loc[t].best
           new == IF ~Is(best) /\ spied[t] # Null THEN PeekItem(version, blk[t][spied[t]]) ELSE best
<1>1. /\ pc[t] = "scan" /\ loc[t].b = Null /\ cached' = [cached EXCEPT ![t] = new]
  BY DEF scan_end
<1>2. PICK b \in List(t) : e \in Entries(blk[t][b]) /\ ~Taken(e)
  BY DEF LocalLive
<1>3. In(blk[t][b], e) /\ ~taken(version, e)
  BY <1>2 DEF In, Entries, Taken
<1>4. e \in Elements
  <2>1. ListAt(blk[t], List(t), head[t], tail[t], spied[t], Work(pc[t], loc[t]))
    BY ThreadFacts
  <2>2. b \in Blocks /\ BlockOK(b, blk[t][b], Elements)
    BY <2>1, ListFacts
  <2>3. QED
    BY <1>3, <2>2 DEF In, BlockOK
<1>5. NoLess(version, blk[t][b], best)
  BY <1>1 DEF Scan, ScanAt
<1>6. Is(best) /\ best.key <= e.key
  BY <1>3, <1>4, <1>5 DEF NoLess
<1>7. cached \in [Threads -> Entry]
  BY ThreadFacts DEF FieldTypes
<1>8. cached'[t] = best
  BY <1>1, <1>6, <1>7
<1>9. QED
  BY <1>6, <1>8

(* A scan that runs to the end of the list caches an item no larger than   *)
(* any element left in it, although the list is merged and shrunk under    *)
(* the scan and other threads take items meanwhile.                        *)
THEOREM ScansFindMinimum ==
    ASSUME N >= 4
    PROVE  Spec => ScanMin
PROOF
<1>1. Init => Inv /\ Elem /\ Scan
  <2>1. Init => Scan
    BY DEF Init, Scan, ScanAt
  <2>2. QED
    BY <2>1, InitInv, InitElem
<1>2. Inv /\ Elem /\ Scan /\ [Next]_vars => Inv' /\ Elem' /\ Scan'
  BY NextInv, NextElem, NextScan
<1>3. Inv /\ Scan => \A t \in Threads : scan_end(t) =>
          \A e \in LocalLive(t) : Is(cached'[t]) /\ cached'[t].key <= e.key
  BY ScanEnds
<1>4. QED
  BY <1>1, <1>2, <1>3, PTL DEF Spec, ScanMin
=============================================================================
