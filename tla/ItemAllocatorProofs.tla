------------------------ MODULE ItemAllocatorProofs ------------------------
(***************************************************************************)
(* The memory of an item_allocator is bounded by what is in use, for every *)
(* block size and every number of items in use at once, and no item is     *)
(* handed out while it is in use.                                          *)
(***************************************************************************)
EXTENDS ItemAllocator, FiniteSetTheorems, TLAPS

(* The items in use that the walk will meet in the next j blocks.          *)
Ahead(j) ==
    {p \in (1 .. j) \X Items : ring[p[1]][p[2]] /\ (p[1] = 1 => p[2] >= m_offset)}

Types ==
    /\ ring \in Seq([Items -> BOOLEAN]) /\ Len(ring) >= 1
    /\ m_offset \in 0 .. BlockSize
    /\ m_amortized \in Nat
    /\ m_total_size = BlockSize * Len(ring)
    /\ m_new_block \in BOOLEAN
    /\ pc \in {"idle", "acquire"}

(* In a new block nothing that is still to be handed out is in use.        *)
NewInv == m_new_block => \A i \in Items : i >= m_offset => ~ring[1][i]

UsedInv ==
    /\ Cardinality(InUse) <= MaxUsed
    /\ pc = "acquire" => Cardinality(InUse) < MaxUsed

(* What the counter will have come to when the walk reaches the end of the *)
(* j-th block, if nothing is released before: two for every item that is   *)
(* not in use, less what the blocks cost.  It is smaller than the whole    *)
(* ring by at most twice what can be in use: the items that the walk met   *)
(* in use were in use all at once, when it was here before.                *)
Walked(j) == m_amortized + j * BlockSize - 2 * m_offset - 2 * Cardinality(Ahead(j))
PaidInv == \A j \in 1 .. Len(ring) : Walked(j) >= m_total_size - 2 * (MaxUsed - 1)

SizeInv == m_total_size = BlockSize \/ m_total_size < 2 * (MaxUsed - 1) + BlockSize

(* The inductive invariant.                                                *)
IInv == Types /\ NewInv /\ UsedInv /\ PaidInv /\ SizeInv

-----------------------------------------------------------------------------
(* The items in use are finitely many.                                     *)
LEMMA Finite ==
    ASSUME BlockSize \in Nat, Types
    PROVE  /\ IsFiniteSet(InUse) /\ Cardinality(InUse) \in Nat
           /\ \A j \in 1 .. Len(ring) :
                 /\ Ahead(j) \subseteq InUse
                 /\ IsFiniteSet(Ahead(j)) /\ Cardinality(Ahead(j)) \in Nat
                 /\ Cardinality(Ahead(j)) <= Cardinality(InUse)
PROOF
<1>1. IsFiniteSet(Items)
  BY FS_Interval DEF Items
<1>2. DOMAIN ring = 1 .. Len(ring) /\ Len(ring) \in Nat
  BY DEF Types
<1>3. IsFiniteSet((DOMAIN ring) \X Items)
  <2>1. IsFiniteSet(1 .. Len(ring))
    BY <1>2, FS_Interval
  <2>2. QED
    BY <1>1, <1>2, <2>1, FS_Product
<1>4. IsFiniteSet(InUse) /\ Cardinality(InUse) \in Nat
  BY <1>3, FS_Subset, FS_CardinalityType DEF InUse
<1>5. ASSUME NEW j \in 1 .. Len(ring)
      PROVE  Ahead(j) \subseteq InUse
  BY <1>2 DEF Ahead, InUse
<1>6. QED
  BY <1>4, <1>5, FS_Subset, FS_CardinalityType

(* The products of the invariant.                                          *)
LEMMA Products ==
    ASSUME NEW B \in Nat
    PROVE  /\ \A j \in Nat : j * B \in Nat /\ (j + 1) * B = j * B + B /\ j * B = B * j
           /\ 1 * B = B /\ 2 * B = B + B
OBVIOUS

(* Without changes of the ring but to one item, what is in use ahead.      *)
LEMMA SameRing ==
    ASSUME Types, NEW p \in (1 .. Len(ring)) \X Items, NEW u \in BOOLEAN,
           ring' = [ring EXCEPT ![p[1]][p[2]] = u]
    PROVE  /\ ring' \in Seq([Items -> BOOLEAN]) /\ Len(ring') = Len(ring)
           /\ \A q \in (1 .. Len(ring)) \X Items :
                 ring'[q[1]][q[2]] = IF q = p THEN u ELSE ring[q[1]][q[2]]
PROOF
<1>1. ring \in [1 .. Len(ring) -> [Items -> BOOLEAN]] /\ Len(ring) \in Nat
  BY DEF Types
<1>2. ring' \in [1 .. Len(ring) -> [Items -> BOOLEAN]]
  BY <1>1
<1>3. ring' \in Seq([Items -> BOOLEAN]) /\ Len(ring') = Len(ring)
  BY <1>1, <1>2
<1>4. ASSUME NEW q \in (1 .. Len(ring)) \X Items
      PROVE  ring'[q[1]][q[2]] = IF q = p THEN u ELSE ring[q[1]][q[2]]
  BY <1>1
<1>5. QED
  BY <1>3, <1>4

-----------------------------------------------------------------------------
(* The steps. *)

(* A call begins while fewer than the most are in use.                     *)
LEMMA acquireStep ==
    ASSUME IInv, acquire
    PROVE  IInv'
PROOF
<1>1. InUse' = InUse /\ \A j : Ahead(j)' = Ahead(j)
  BY DEF acquire, InUse, Ahead
<1>2. Types' /\ NewInv' /\ SizeInv'
  BY DEF IInv, acquire, Types, NewInv, SizeInv
<1>3. UsedInv' /\ PaidInv'
  BY <1>1 DEF IInv, acquire, UsedInv, PaidInv, Walked
<1>4. QED
  BY <1>2, <1>3 DEF IInv

(* The item handed out was not in use, and is one more in use.             *)
LEMMA HandedOut ==
    ASSUME BlockSize \in Nat, Types, NewInv, hand_out
    PROVE  /\ m_offset \in Items /\ ring[1][m_offset] = FALSE
           /\ <<1, m_offset>> \notin InUse /\ InUse' = InUse \union {<<1, m_offset>>}
           /\ \A j \in 1 .. Len(ring) : Ahead(j)' = Ahead(j)
           /\ ring' \in Seq([Items -> BOOLEAN]) /\ Len(ring') = Len(ring)
           /\ \A i \in Items : i # m_offset => ring'[1][i] = ring[1][i]
PROOF
<1> DEFINE p == <<1, m_offset>>
<1>1. m_offset \in Items /\ p \in (1 .. Len(ring)) \X Items
  BY DEF Types, Items, hand_out
<1>2. ring[1][m_offset] = FALSE
  <2>1. ring[1] \in [Items -> BOOLEAN]
    BY DEF Types
  <2>2. ~ring[1][m_offset]
    BY <1>1 DEF hand_out, Reusable, NewInv, Types, Items
  <2>3. QED
    BY <1>1, <2>1, <2>2
<1>3. ring' = [ring EXCEPT ![p[1]][p[2]] = TRUE]
  BY DEF hand_out
<1>4. /\ ring' \in Seq([Items -> BOOLEAN]) /\ Len(ring') = Len(ring)
      /\ \A q \in (1 .. Len(ring)) \X Items :
            ring'[q[1]][q[2]] = IF q = p THEN TRUE ELSE ring[q[1]][q[2]]
  BY <1>1, <1>3, SameRing
<1>5. DOMAIN ring = 1 .. Len(ring) /\ DOMAIN ring' = 1 .. Len(ring)
  BY <1>4 DEF Types
<1>6. p \notin InUse /\ InUse' = InUse \union {p}
  BY <1>1, <1>2, <1>4, <1>5 DEF InUse
<1>7. ASSUME NEW j \in 1 .. Len(ring)
      PROVE  Ahead(j)' = Ahead(j)
  <2>1. ASSUME NEW q \in (1 .. j) \X Items
        PROVE  q \in Ahead(j)' <=> q \in Ahead(j)
    <3>1. q \in (1 .. Len(ring)) \X Items /\ q = <<q[1], q[2]>>
      BY DEF Types
    <3>2. CASE q = p
      BY <1>1, <1>2, <2>1, <3>2 DEF Ahead, hand_out, Items
    <3>3. CASE q # p
      <4>1. ring'[q[1]][q[2]] = ring[q[1]][q[2]]
        BY <1>4, <3>1, <3>3
      <4>2. q[1] = 1 => (q[2] >= m_offset <=> q[2] >= m_offset')
        <5>1. q[1] = 1 => q[2] # m_offset
          BY <3>1, <3>3
        <5>2. q[2] \in Nat /\ m_offset \in Nat /\ m_offset' = m_offset + 1
          BY <1>1, <3>1 DEF hand_out, Items
        <5>3. QED
          BY <5>1, <5>2
      <4>3. QED
        BY <4>1, <4>2 DEF Ahead
    <3>4. QED
      BY <3>2, <3>3
  <2>2. QED
    BY <2>1 DEF Ahead
<1>8. ASSUME NEW i \in Items, i # m_offset
      PROVE  ring'[1][i] = ring[1][i]
  <2>1. <<1, i>> \in (1 .. Len(ring)) \X Items /\ <<1, i>> # p
    BY <1>8 DEF Types
  <2>2. QED
    BY <1>4, <2>1
<1>9. QED
  BY <1>1, <1>2, <1>4, <1>6, <1>7, <1>8

(* The item handed out earns two, which pays for its being one more in use.*)
LEMMA hand_outStep ==
    ASSUME BlockSize \in Nat, MaxUsed \in Nat, IInv, hand_out
    PROVE  IInv'
PROOF
<1>1. Types /\ NewInv /\ m_offset \in Nat /\ m_amortized \in Nat
  BY DEF IInv, Types
<1>2. Types'
  BY <1>1, HandedOut DEF Types, hand_out, AMORTIZATION
<1>3. NewInv'
  <2>1. ASSUME m_new_block', NEW i \in Items, i >= m_offset'
        PROVE  ~ring'[1][i]
    <3>1. m_new_block /\ i >= m_offset /\ i # m_offset
      BY <1>1, <2>1 DEF hand_out, Items
    <3>2. QED
      BY <1>1, <3>1, HandedOut DEF NewInv
  <2>2. QED
    BY <2>1 DEF NewInv
<1>4. UsedInv'
  <2>1. Cardinality(InUse') = Cardinality(InUse) + 1 /\ Cardinality(InUse) \in Nat
    <3>1. IsFiniteSet(InUse) /\ Cardinality(InUse) \in Nat
      BY <1>1, Finite
    <3>2. <<1, m_offset>> \notin InUse /\ InUse' = InUse \union {<<1, m_offset>>}
      BY <1>1, HandedOut
    <3>3. Cardinality(InUse \union {<<1, m_offset>>}) = Cardinality(InUse) + 1
      BY <3>1, <3>2, FS_AddElement
    <3>4. QED
      BY <3>1, <3>2, <3>3
  <2>2. Cardinality(InUse) < MaxUsed /\ pc' = "idle"
    BY DEF IInv, UsedInv, hand_out
  <2>3. QED
    BY <2>1, <2>2 DEF UsedInv
<1>5. PaidInv'
  <2>1. Len(ring') = Len(ring) /\ m_total_size' = m_total_size
    BY <1>1, HandedOut DEF hand_out
  <2>2. ASSUME NEW j \in 1 .. Len(ring)
        PROVE  Walked(j)' = Walked(j)
    <3>1. Cardinality(Ahead(j)') = Cardinality(Ahead(j)) /\ Cardinality(Ahead(j)) \in Nat
      BY <1>1, HandedOut, Finite
    <3>2. m_amortized' = m_amortized + 2 /\ m_offset' = m_offset + 1
      BY <1>1 DEF hand_out, AMORTIZATION
    <3> DEFINE c == Cardinality(Ahead(j))
               jB == j * BlockSize
    <3>3. jB \in Nat
      BY Products
    <3>4. /\ Walked(j) = m_amortized + jB - 2 * m_offset - 2 * c
          /\ Walked(j)' = (m_amortized + 2) + jB - 2 * (m_offset + 1) - 2 * c
      BY <3>1, <3>2 DEF Walked
    <3>5. c \in Nat
      BY <3>1
    <3> HIDE DEF c, jB
    <3>6. QED
      BY <1>1, <3>3, <3>4, <3>5
  <2>3. QED
    BY <2>1, <2>2 DEF IInv, PaidInv
<1>6. SizeInv'
  BY DEF IInv, SizeInv, hand_out
<1>7. QED
  BY <1>2, <1>3, <1>4, <1>5, <1>6 DEF IInv

(* An item in use is passed: it was counted as in use ahead.               *)
LEMMA skipStep ==
    ASSUME BlockSize \in Nat, IInv, skip
    PROVE  IInv'
PROOF
<1>1. Types /\ m_offset \in Nat /\ m_amortized \in Nat /\ m_offset \in Items
  BY DEF IInv, Types, skip, Items
<1>2. Types' /\ NewInv' /\ SizeInv'
  BY <1>1 DEF IInv, Types, NewInv, SizeInv, skip, Reusable, Items
<1>3. UsedInv'
  BY DEF IInv, UsedInv, InUse, skip
<1>4. PaidInv'
  <2>1. ASSUME NEW j \in 1 .. Len(ring)
        PROVE  Walked(j)' = Walked(j)
    <3>1. Ahead(j)' = Ahead(j) \ {<<1, m_offset>>} /\ <<1, m_offset>> \in Ahead(j)
      <4>1. <<1, m_offset>> \in Ahead(j)
        BY <1>1 DEF Ahead, skip, Reusable, Items
      <4>2. ASSUME NEW q \in (1 .. j) \X Items
            PROVE  q \in Ahead(j)' <=> q \in Ahead(j) /\ q # <<1, m_offset>>
        <5>1. q = <<q[1], q[2]>> /\ q[2] \in Nat
          BY DEF Items
        <5>2. m_offset' = m_offset + 1 /\ ring' = ring
          BY DEF skip
        <5>3. q # <<1, m_offset>> <=> q[1] # 1 \/ q[2] # m_offset
          BY <5>1
        <5>4. QED
          BY <1>1, <5>1, <5>2, <5>3 DEF Ahead
      <4>3. QED
        BY <4>1, <4>2 DEF Ahead
    <3>2. Cardinality(Ahead(j)') = Cardinality(Ahead(j)) - 1 /\ Cardinality(Ahead(j)) \in Nat
      BY <1>1, <3>1, Finite, FS_RemoveElement
    <3>3. m_amortized' = m_amortized /\ m_offset' = m_offset + 1
      BY DEF skip
    <3>4. j * BlockSize \in Nat
      BY Products
    <3>5. QED
      BY <1>1, <3>2, <3>3, <3>4 DEF Walked
  <2>2. QED
    BY <2>1 DEF IInv, PaidInv, skip
<1>5. QED
  BY <1>2, <1>3, <1>4 DEF IInv

(* Whatever is released can only be more that is reusable ahead.           *)
LEMMA releaseStep ==
    ASSUME BlockSize \in Nat, MaxUsed \in Nat, IInv, release
    PROVE  IInv'
PROOF
<1>1. Types /\ m_offset \in Nat /\ m_amortized \in Nat /\ DOMAIN ring = 1 .. Len(ring)
  BY DEF IInv, Types
<1>2. PICK p \in InUse : ring' = [ring EXCEPT ![p[1]][p[2]] = FALSE]
  BY DEF release
<1>3. UNCHANGED <<m_offset, m_amortized, m_total_size, m_new_block, pc>>
  BY DEF release
<1>4. /\ ring' \in Seq([Items -> BOOLEAN]) /\ Len(ring') = Len(ring)
      /\ \A q \in (1 .. Len(ring)) \X Items :
            ring'[q[1]][q[2]] => ring[q[1]][q[2]]
  <2>1. p \in (1 .. Len(ring)) \X Items
    BY <1>1 DEF InUse
  <2>2. /\ ring' \in Seq([Items -> BOOLEAN]) /\ Len(ring') = Len(ring)
        /\ \A q \in (1 .. Len(ring)) \X Items :
              ring'[q[1]][q[2]] = IF q = p THEN FALSE ELSE ring[q[1]][q[2]]
    BY <1>1, <1>2, <2>1, SameRing
  <2>3. QED
    BY <2>2
<1>5. Types'
  BY <1>1, <1>3, <1>4 DEF Types
<1>6. NewInv'
  <2>1. \A i \in Items : <<1, i>> \in (1 .. Len(ring)) \X Items
    BY <1>1 DEF Types
  <2>2. \A i \in Items : ring'[1][i] => ring[1][i]
    BY <1>4, <2>1
  <2>3. QED
    BY <1>3, <2>2 DEF IInv, NewInv
<1>7. InUse' \subseteq InUse
  <2>1. DOMAIN ring' = 1 .. Len(ring)
    BY <1>4
  <2>2. QED
    BY <1>1, <1>4, <2>1 DEF InUse
<1>8. UsedInv'
  <2>1. Cardinality(InUse') <= Cardinality(InUse) /\ Cardinality(InUse) \in Nat
        /\ Cardinality(InUse') \in Nat
    BY <1>1, <1>5, <1>7, Finite, FS_Subset, FS_CardinalityType
  <2>2. QED
    BY <1>3, <2>1 DEF IInv, UsedInv
<1>9. PaidInv'
  <2>1. ASSUME NEW j \in 1 .. Len(ring)
        PROVE  Walked(j)' >= m_total_size - 2 * (MaxUsed - 1)
    <3>1. Ahead(j)' \subseteq Ahead(j)
      <4>1. (1 .. j) \X Items \subseteq (1 .. Len(ring)) \X Items
        BY <1>1 DEF Types
      <4>2. QED
        BY <1>3, <1>4, <4>1 DEF Ahead
    <3>2. Cardinality(Ahead(j)') <= Cardinality(Ahead(j)) /\ Cardinality(Ahead(j)) \in Nat
          /\ Cardinality(Ahead(j)') \in Nat
      BY <1>1, <3>1, Finite, FS_Subset, FS_CardinalityType
    <3>3. j * BlockSize \in Nat
      BY Products
    <3>4. Walked(j) >= m_total_size - 2 * (MaxUsed - 1)
      BY DEF IInv, PaidInv
    <3>5. m_total_size \in Nat
      BY <1>1, Products DEF Types
    <3>6. QED
      BY <1>1, <1>3, <3>2, <3>3, <3>4, <3>5 DEF Walked
  <2>2. QED
    BY <1>3, <1>4, <2>1 DEF PaidInv
<1>10. SizeInv'
  BY <1>3 DEF IInv, SizeInv
<1>11. QED
  BY <1>5, <1>6, <1>8, <1>9, <1>10 DEF IInv

(* Where a block of the ring is after the walk has moved on.               *)
LEMMA Rotated ==
    ASSUME Types, ring' = Tail(ring) \o <<ring[1]>>
    PROVE  /\ ring' \in Seq([Items -> BOOLEAN]) /\ Len(ring') = Len(ring)
           /\ \A n \in 1 .. (Len(ring) - 1) : ring'[n] = ring[n + 1]
           /\ ring'[Len(ring)] = ring[1]
PROOF
<1> DEFINE L == Len(ring)
<1>1. ring \in Seq([Items -> BOOLEAN]) /\ L \in Nat /\ L >= 1 /\ ring # <<>>
  BY DEF Types
<1>2. /\ Tail(ring) \in Seq([Items -> BOOLEAN]) /\ Len(Tail(ring)) = L - 1
      /\ \A n \in 1 .. (L - 1) : Tail(ring)[n] = ring[n + 1]
  BY <1>1
<1> DEFINE T == Tail(ring)
<1> HIDE DEF T
<1>3. ring[1] \in [Items -> BOOLEAN] /\ ring' = T \o <<ring[1]>>
  BY <1>1 DEF T
<1>4. T \in Seq([Items -> BOOLEAN]) /\ Len(T) = L - 1 /\ \A n \in 1 .. (L - 1) : T[n] = ring[n + 1]
  BY <1>2 DEF T
<1>5. QED
  BY <1>1, <1>3, <1>4

(* And after a new block has been put in front.                            *)
LEMMA Grown ==
    ASSUME Types, ring' = <<Fresh>> \o Tail(ring) \o <<ring[1]>>
    PROVE  /\ ring' \in Seq([Items -> BOOLEAN]) /\ Len(ring') = Len(ring) + 1
           /\ ring'[1] = Fresh
           /\ \A n \in 2 .. Len(ring) : ring'[n] = ring[n]
           /\ ring'[Len(ring) + 1] = ring[1]
PROOF
<1> DEFINE L == Len(ring)
           T == Tail(ring)
<1>1. ring \in Seq([Items -> BOOLEAN]) /\ L \in Nat /\ L >= 1 /\ ring # <<>>
  BY DEF Types
<1>2. T \in Seq([Items -> BOOLEAN]) /\ Len(T) = L - 1 /\ \A n \in 1 .. (L - 1) : T[n] = ring[n + 1]
  BY <1>1
<1>3. Fresh \in [Items -> BOOLEAN] /\ ring[1] \in [Items -> BOOLEAN]
  BY <1>1 DEF Fresh
<1> DEFINE U == <<Fresh>> \o T
<1> HIDE DEF T
<1>4. /\ U \in Seq([Items -> BOOLEAN]) /\ Len(U) = L
      /\ U[1] = Fresh /\ \A n \in 2 .. L : U[n] = T[n - 1]
  BY <1>1, <1>2, <1>3
<1>5. ring' = U \o <<ring[1]>>
  BY DEF T
<1> HIDE DEF U
<1>6. /\ ring' \in Seq([Items -> BOOLEAN]) /\ Len(ring') = L + 1
      /\ \A n \in 1 .. L : ring'[n] = U[n]
      /\ ring'[L + 1] = ring[1]
  BY <1>1, <1>3, <1>4, <1>5
<1>7. \A n \in 2 .. L : n - 1 \in 1 .. (L - 1) /\ (n - 1) + 1 = n
  BY <1>1
<1>8. QED
  BY <1>1, <1>2, <1>4, <1>6, <1>7

(* What is mapped one to one into a finite set is no larger.               *)
LEMMA NoLarger ==
    ASSUME NEW S, NEW T, IsFiniteSet(T), NEW f \in [S -> T],
           \A x, y \in S : f[x] = f[y] => x = y
    PROVE  IsFiniteSet(S) /\ Cardinality(S) \in Nat /\ Cardinality(S) <= Cardinality(T)
PROOF
<1>1. f \in Injection(S, T)
  BY DEF Injection, IsInjective
<1>2. QED
  BY <1>1, FS_Injection, FS_CardinalityType

(* At the end of a block the next round is paid; the block left behind is  *)
(* now the last one ahead.                                                 *)
LEMMA walk_onStep ==
    ASSUME BlockSize \in Nat \ {0}, MaxUsed \in Nat, IInv, walk_on
    PROVE  IInv'
PROOF
<1> DEFINE L == Len(ring)
           next(n) == IF n < L THEN n + 1 ELSE 1
<1>1. /\ Types /\ L \in Nat /\ L >= 1 /\ m_amortized \in Nat /\ m_offset = BlockSize
      /\ DOMAIN ring = 1 .. L
  BY DEF IInv, Types, walk_on
<1>2. /\ ring' \in Seq([Items -> BOOLEAN]) /\ Len(ring') = L
      /\ \A n \in 1 .. L : next(n) \in 1 .. L /\ ring'[n] = ring[next(n)]
  <2>1. /\ ring' \in Seq([Items -> BOOLEAN]) /\ Len(ring') = L
        /\ \A n \in 1 .. (L - 1) : ring'[n] = ring[n + 1]
        /\ ring'[L] = ring[1]
    BY <1>1, Rotated DEF walk_on
  <2>2. QED
    BY <1>1, <2>1
<1>3. m_total_size \in Nat /\ m_total_size >= BlockSize /\ m_total_size = BlockSize * L
  <2>1. m_total_size = L * BlockSize
    BY <1>1, Products DEF Types
  <2>2. (L - 1) * BlockSize \in Nat /\ ((L - 1) + 1) * BlockSize = (L - 1) * BlockSize + BlockSize
    BY <1>1, Products
  <2>3. (L - 1) + 1 = L
    BY <1>1
  <2>4. QED
    BY <1>1, <2>1, <2>2, <2>3, Products DEF Types
<1>4. /\ m_amortized' = (IF m_amortized < m_total_size THEN m_amortized ELSE m_total_size) - BlockSize
      /\ m_amortized' \in Nat /\ m_amortized >= BlockSize
  <2>1. m_total_size * AMORTIZATION = m_total_size
    BY <1>3 DEF AMORTIZATION
  <2>2. /\ m_amortized' = (IF m_amortized < m_total_size THEN m_amortized ELSE m_total_size) - BlockSize
        /\ m_amortized >= BlockSize
    BY <2>1 DEF walk_on, Capped, Earned
  <2>3. QED
    BY <1>1, <1>3, <2>2
<1>5. /\ m_total_size' = m_total_size /\ m_new_block' = FALSE /\ m_offset' = 0
      /\ pc' = pc /\ pc = "acquire"
  BY DEF walk_on
<1>6. Types' /\ NewInv' /\ SizeInv'
  <2>1. m_offset' \in 0 .. BlockSize
    BY <1>5
  <2>2. Types'
    BY <1>1, <1>2, <1>3, <1>4, <1>5, <2>1 DEF Types
  <2>3. QED
    BY <1>5, <2>2 DEF IInv, NewInv, SizeInv
<1>7. IsFiniteSet(InUse') /\ Cardinality(InUse') \in Nat /\ Cardinality(InUse') <= Cardinality(InUse)
  <2> DEFINE f == [p \in InUse' |-> <<next(p[1]), p[2]>>]
  <2>1. DOMAIN ring' = 1 .. L
    BY <1>2
  <2>2. \A p \in InUse' : p[1] \in 1 .. L /\ p[2] \in Items /\ p = <<p[1], p[2]>> /\ ring'[p[1]][p[2]]
    BY <2>1 DEF InUse
  <2>3. \A p \in InUse' : <<next(p[1]), p[2]>> \in InUse
    BY <1>1, <1>2, <2>2 DEF InUse
  <2>4. \A m, n \in 1 .. L : next(m) = next(n) => m = n
    BY <1>1
  <2>5. \A x, y \in InUse' : f[x] = f[y] => x = y
    BY <2>2, <2>4
  <2>6. f \in [InUse' -> InUse]
    BY <2>3
  <2> HIDE DEF f
  <2>7. IsFiniteSet(InUse)
    BY <1>1, Finite
  <2>8. QED
    BY <2>5, <2>6, <2>7, NoLarger
<1>8. Cardinality(InUse) \in Nat /\ Cardinality(InUse) < MaxUsed
  BY <1>1, <1>5, Finite DEF IInv, UsedInv
<1>9. UsedInv'
  BY <1>5, <1>7, <1>8 DEF UsedInv
<1>10. ASSUME NEW j \in 1 .. L
       PROVE  Walked(j)' >= m_total_size - 2 * (MaxUsed - 1)
  <2> DEFINE c == Cardinality(Ahead(j)')
             a == m_amortized'
             jB == j * BlockSize
  <2>1. c \in Nat /\ c <= Cardinality(InUse')
    <3>1. Ahead(j)' \subseteq InUse'
      <4>1. DOMAIN ring' = 1 .. Len(ring')
        BY <1>2
      <4>2. (1 .. j) \X Items \subseteq (1 .. Len(ring')) \X Items
        BY <1>1, <1>2
      <4>3. QED
        BY <4>1, <4>2 DEF Ahead, InUse
    <3>2. QED
      BY <1>7, <3>1, FS_Subset, FS_CardinalityType
  <2>2. Walked(j)' = a + jB - 2 * c
    <3>1. Walked(j)' = a + jB - 2 * 0 - 2 * c
      BY <1>5 DEF Walked
    <3>2. a \in Nat /\ jB \in Nat
      BY <1>4, Products
    <3> HIDE DEF c, a, jB
    <3>3. QED
      BY <2>1, <3>1, <3>2
  <2>3. CASE j = L
    <3>1. jB = m_total_size
      BY <1>1, <1>3, <2>3, Products
    <3> HIDE DEF c, jB
    <3>2. QED
      BY <1>3, <1>4, <1>7, <1>8, <2>1, <2>2, <3>1
  <2>4. CASE m_amortized >= m_total_size
    <3>1. a = m_total_size - BlockSize
      BY <1>1, <1>3, <1>4, <2>4
    <3>2. jB >= BlockSize /\ jB \in Nat
      <4>1. (j - 1) * BlockSize \in Nat /\ ((j - 1) + 1) * BlockSize = (j - 1) * BlockSize + BlockSize
        BY Products
      <4>2. (j - 1) + 1 = j
        OBVIOUS
      <4>3. QED
        BY <4>1, <4>2
    <3> HIDE DEF c, jB, a
    <3>3. QED
      BY <1>3, <1>7, <1>8, <2>1, <2>2, <3>1, <3>2
  <2>5. CASE j < L /\ m_amortized < m_total_size
    <3>1. c <= Cardinality(Ahead(j + 1)) /\ Cardinality(Ahead(j + 1)) \in Nat
      <4> DEFINE f == [p \in Ahead(j)' |-> <<p[1] + 1, p[2]>>]
      <4>1. \A p \in Ahead(j)' : p[1] \in 1 .. j /\ p[2] \in Items /\ p = <<p[1], p[2]>> /\ ring'[p[1]][p[2]]
        BY DEF Ahead
      <4>2. \A n \in 1 .. j : n \in 1 .. L /\ n + 1 \in 1 .. (j + 1) /\ n + 1 # 1 /\ next(n) = n + 1
        BY <1>1, <2>5
      <4>3. \A p \in Ahead(j)' : <<p[1] + 1, p[2]>> \in Ahead(j + 1)
        BY <1>2, <4>1, <4>2 DEF Ahead
      <4>4. f \in [Ahead(j)' -> Ahead(j + 1)]
        BY <4>3
      <4>5. \A x, y \in Ahead(j)' : f[x] = f[y] => x = y
        BY <4>1
      <4>6. IsFiniteSet(Ahead(j + 1)) /\ Cardinality(Ahead(j + 1)) \in Nat
        <5>1. j + 1 \in 1 .. L
          BY <1>1, <2>5
        <5>2. QED
          BY <1>1, <5>1, Finite
      <4> HIDE DEF f
      <4>7. QED
        BY <4>4, <4>5, <4>6, NoLarger
    <3>2. Walked(j + 1) >= m_total_size - 2 * (MaxUsed - 1)
      <4>1. j + 1 \in 1 .. L
        BY <1>1, <2>5
      <4>2. QED
        BY <4>1 DEF IInv, PaidInv
    <3>3. (j + 1) * BlockSize = jB + BlockSize /\ jB \in Nat
      BY Products
    <3>4. Walked(j + 1) = m_amortized + (jB + BlockSize) - 2 * BlockSize - 2 * Cardinality(Ahead(j + 1))
      BY <1>1, <3>3 DEF Walked
    <3>5. a = m_amortized - BlockSize
      BY <1>4, <2>5
    <3> HIDE DEF c, jB, a
    <3>6. QED
      BY <1>1, <1>3, <2>1, <2>2, <3>1, <3>2, <3>3, <3>4, <3>5
  <2>6. j = L \/ m_amortized >= m_total_size \/ (j < L /\ m_amortized < m_total_size)
    <3>1. j \in Nat /\ j <= L
      BY <1>1
    <3>2. m_amortized \in Nat /\ m_total_size \in Nat /\ L \in Nat
      BY <1>1, <1>3
    <3> HIDE DEF L
    <3>3. QED
      BY <3>1, <3>2
  <2>7. QED
    BY <2>3, <2>4, <2>5, <2>6
<1>11. PaidInv'
  BY <1>2, <1>5, <1>10 DEF PaidInv
<1>12. QED
  BY <1>6, <1>9, <1>11 DEF IInv

(* A block is added where too little was earned: then the ring was small.  *)
LEMMA new_blockStep ==
    ASSUME BlockSize \in Nat \ {0}, MaxUsed \in Nat, IInv, new_block
    PROVE  IInv'
PROOF
<1> DEFINE L == Len(ring)
           M == 2 * (MaxUsed - 1)
<1>1. /\ Types /\ L \in Nat /\ L >= 1 /\ m_amortized \in Nat /\ m_offset = BlockSize
      /\ DOMAIN ring = 1 .. L /\ m_amortized < BlockSize
  BY DEF IInv, Types, new_block, Earned
<1>2. /\ ring' \in Seq([Items -> BOOLEAN]) /\ Len(ring') = L + 1
      /\ ring'[1] = Fresh
      /\ \A n \in 2 .. L : ring'[n] = ring[n]
      /\ ring'[L + 1] = ring[1]
  BY <1>1, Grown DEF new_block
<1>3. /\ m_total_size' = m_total_size + BlockSize /\ m_new_block' = TRUE /\ m_offset' = 0
      /\ pc' = pc /\ pc = "acquire" /\ m_amortized' = m_amortized
  BY DEF new_block
<1>4. m_total_size \in Nat /\ m_total_size = L * BlockSize /\ (L + 1) * BlockSize = L * BlockSize + BlockSize
  BY <1>1, Products DEF Types
<1>5. Types'
  <2>1. m_total_size' = BlockSize * Len(ring')
    BY <1>1, <1>2, <1>3, <1>4, Products
  <2>2. QED
    BY <1>1, <1>2, <1>3, <2>1 DEF Types
<1>6. NewInv'
  BY <1>2 DEF NewInv, Fresh
<1>7. DOMAIN ring' = 1 .. (L + 1) /\ \A p \in InUse' :
         p[1] \in 2 .. (L + 1) /\ p[2] \in Items /\ p = <<p[1], p[2]>> /\ ring'[p[1]][p[2]]
  <2>1. DOMAIN ring' = 1 .. (L + 1)
    BY <1>2
  <2>2. \A p \in InUse' : p[1] \in 1 .. (L + 1) /\ p[2] \in Items /\ p = <<p[1], p[2]>> /\ ring'[p[1]][p[2]]
    BY <2>1 DEF InUse
  <2>3. \A p \in InUse' : p[1] # 1
    BY <1>2, <2>2 DEF Fresh
  <2>4. QED
    BY <1>1, <2>1, <2>2, <2>3
<1>8. IsFiniteSet(InUse') /\ Cardinality(InUse') \in Nat /\ Cardinality(InUse') <= Cardinality(InUse)
  <2> DEFINE old(n) == IF n = L + 1 THEN 1 ELSE n
             f == [p \in InUse' |-> <<old(p[1]), p[2]>>]
  <2>1. \A n \in 2 .. (L + 1) : old(n) \in 1 .. L /\ ring'[n] = ring[old(n)]
    BY <1>1, <1>2
  <2>2. \A p \in InUse' : <<old(p[1]), p[2]>> \in InUse
    BY <1>1, <1>7, <2>1 DEF InUse
  <2>3. \A m, n \in 2 .. (L + 1) : old(m) = old(n) => m = n
    BY <1>1
  <2>4. \A x, y \in InUse' : f[x] = f[y] => x = y
    BY <1>7, <2>3
  <2>5. f \in [InUse' -> InUse]
    BY <2>2
  <2> HIDE DEF f
  <2>6. IsFiniteSet(InUse)
    BY <1>1, Finite
  <2>7. QED
    BY <2>4, <2>5, <2>6, NoLarger
<1>9. Cardinality(InUse) \in Nat /\ Cardinality(InUse) < MaxUsed
  BY <1>1, <1>3, Finite DEF IInv, UsedInv
<1>10. UsedInv'
  BY <1>3, <1>8, <1>9 DEF UsedInv
(* The whole ring was walked: what it costs was more than was earned.      *)
<1>11. m_total_size < M
  <2>1. Ahead(1) = {}
    BY <1>1 DEF Ahead, Items
  <2>2. Cardinality(Ahead(1)) = 0
    BY <2>1, FS_EmptySet
  <2>3. 1 * BlockSize = BlockSize
    BY Products
  <2>4. Walked(1) >= m_total_size - M
    BY <1>1 DEF IInv, PaidInv
  <2>5. QED
    BY <1>1, <1>4, <2>2, <2>3, <2>4 DEF Walked
<1>12. SizeInv'
  BY <1>3, <1>4, <1>11 DEF SizeInv
<1>13. ASSUME NEW j \in 1 .. (L + 1)
       PROVE  Walked(j)' >= m_total_size + BlockSize - M
  <2> DEFINE c == Cardinality(Ahead(j)')
             jB == j * BlockSize
  <2>1. c \in Nat /\ c <= Cardinality(InUse')
    <3>1. Ahead(j)' \subseteq InUse'
      <4>1. DOMAIN ring' = 1 .. Len(ring')
        BY <1>2
      <4>2. (1 .. j) \X Items \subseteq (1 .. Len(ring')) \X Items
        BY <1>1, <1>2
      <4>3. QED
        BY <4>1, <4>2 DEF Ahead, InUse
    <3>2. QED
      BY <1>8, <3>1, FS_Subset, FS_CardinalityType
  <2>2. jB \in Nat
    BY Products
  <2>3. Walked(j)' = m_amortized + jB - 2 * c
    <3>1. Walked(j)' = m_amortized + jB - 2 * 0 - 2 * c
      BY <1>3 DEF Walked
    <3> HIDE DEF c, jB
    <3>2. QED
      BY <1>1, <2>1, <2>2, <3>1
  <2>4. CASE j = L + 1
    <3>1. jB = m_total_size + BlockSize
      BY <1>1, <1>4, <2>4
    <3> HIDE DEF c, jB
    <3>2. QED
      BY <1>1, <1>4, <1>8, <1>9, <2>1, <2>3, <3>1
  <2>5. CASE j <= L
    <3>1. Ahead(j)' \subseteq Ahead(j)
      <4>1. \A p \in Ahead(j)' : p[1] \in 1 .. j /\ p[2] \in Items /\ p = <<p[1], p[2]>> /\ ring'[p[1]][p[2]]
        BY DEF Ahead
      <4>2. \A p \in Ahead(j)' : p[1] # 1
        BY <1>2, <4>1 DEF Fresh
      <4>3. \A p \in Ahead(j)' : p[1] \in 2 .. L
        BY <1>1, <2>5, <4>1, <4>2
      <4>4. QED
        BY <1>2, <4>1, <4>2, <4>3 DEF Ahead
    <3>2. j \in 1 .. L
      BY <1>1, <2>5
    <3>3. c <= Cardinality(Ahead(j)) /\ Cardinality(Ahead(j)) \in Nat
      BY <1>1, <3>1, <3>2, Finite, FS_Subset
    <3>4. Walked(j) >= m_total_size - M
      BY <3>2 DEF IInv, PaidInv
    <3>5. Walked(j) = m_amortized + jB - 2 * BlockSize - 2 * Cardinality(Ahead(j))
      BY <1>1 DEF Walked
    <3> HIDE DEF c, jB
    <3>6. QED
      BY <1>1, <1>4, <2>1, <2>2, <2>3, <3>3, <3>4, <3>5
  <2>6. QED
    BY <1>1, <2>4, <2>5
<1>14. PaidInv'
  <2>1. Len(ring') = L + 1 /\ m_total_size' = m_total_size + BlockSize
    BY <1>2, <1>3
  <2>2. QED
    <3>1. \A j \in 1 .. Len(ring') : Walked(j)' >= m_total_size' - M
      <4> SUFFICES ASSUME NEW j \in 1 .. Len(ring')
                   PROVE  Walked(j)' >= m_total_size' - M
        OBVIOUS
      <4>1. j \in 1 .. (L + 1)
        BY <2>1
      <4>2. Walked(j)' >= m_total_size + BlockSize - M
        BY <1>13, <4>1
      <4>3. m_total_size' - M = m_total_size + BlockSize - M
        BY <1>4, <2>1
      <4>4. QED
        BY <4>2, <4>3
    <3>2. QED
      BY <3>1 DEF PaidInv
<1>15. QED
  BY <1>5, <1>6, <1>10, <1>12, <1>14 DEF IInv

-----------------------------------------------------------------------------
(* It holds at first, and every step keeps it.                             *)
LEMMA InitInv ==
    ASSUME BlockSize \in Nat \ {0}, MaxUsed \in Nat \ {0}, Init
    PROVE  IInv
PROOF
<1>1. Fresh \in [Items -> BOOLEAN] /\ ring = <<Fresh>> /\ Len(ring) = 1 /\ DOMAIN ring = {1}
  BY DEF Init, Fresh
<1>2. Types
  BY <1>1 DEF Init, Types
<1>3. InUse = {} /\ Ahead(1) = {}
  BY <1>1 DEF InUse, Ahead, Fresh
<1>4. Cardinality(InUse) = 0 /\ Cardinality(Ahead(1)) = 0
  BY <1>3, FS_EmptySet
<1>5. NewInv /\ UsedInv /\ SizeInv
  BY <1>1, <1>4 DEF Init, NewInv, UsedInv, SizeInv, Fresh
<1>6. Walked(1) >= m_total_size - 2 * (MaxUsed - 1)
  BY <1>4, Products DEF Init, Walked
<1>7. QED
  BY <1>1, <1>2, <1>5, <1>6 DEF IInv, PaidInv

(* One lemma per action.                                                   *)
LEMMA NextInv ==
    ASSUME BlockSize \in Nat \ {0}, MaxUsed \in Nat \ {0}
    PROVE  IInv /\ [Next]_vars => IInv'
PROOF
<1> SUFFICES ASSUME IInv, [Next]_vars PROVE IInv'
  OBVIOUS
<1>1. CASE acquire
  BY <1>1, acquireStep
<1>2. CASE hand_out
  BY <1>2, hand_outStep
<1>3. CASE skip
  BY <1>3, skipStep
<1>4. CASE new_block
  BY <1>4, new_blockStep
<1>5. CASE walk_on
  BY <1>5, walk_onStep
<1>6. CASE release
  BY <1>6, releaseStep
<1>7. CASE UNCHANGED vars
  BY <1>7 DEF vars, IInv, Types, NewInv, UsedInv, PaidInv, SizeInv, Walked, Ahead, InUse
<1>8. QED
  BY <1>1, <1>2, <1>3, <1>4, <1>5, <1>6, <1>7 DEF Next, Step

(* The walk is paid for: what acquire() will have earned at the end of any *)
(* block ahead is known, whatever is released meanwhile.                   *)
THEOREM WalkIsPaid ==
    ASSUME BlockSize \in Nat \ {0}, MaxUsed \in Nat \ {0}
    PROVE  Spec => []IInv
PROOF
<1>1. Init => IInv
  BY InitInv
<1>2. IInv /\ [Next]_vars => IInv'
  BY NextInv
<1>3. QED
  BY <1>1, <1>2, PTL DEF Spec

(* The memory of a thread's items is bounded by twice what is in use at    *)
(* once, and m_amortized, which is unsigned, never goes below zero.        *)
THEOREM MemoryIsBounded ==
    ASSUME BlockSize \in Nat \ {0}, MaxUsed \in Nat \ {0}
    PROVE  Spec => []MemoryBounded
PROOF
<1>1. IInv => MemoryBounded
  BY DEF IInv, Types, SizeInv, MemoryBounded
<1>2. QED
  BY <1>1, WalkIsPaid, PTL

(* acquire() hands out no item that is in use, although it does not look   *)
(* at those of a new block.                                                *)
THEOREM NeverTwice ==
    ASSUME BlockSize \in Nat \ {0}, MaxUsed \in Nat \ {0}
    PROVE  Spec => HandedOnce
PROOF
<1>1. IInv /\ [Next]_vars => [hand_out => Cardinality(InUse') = Cardinality(InUse) + 1]_vars
  <2> SUFFICES ASSUME IInv, hand_out PROVE Cardinality(InUse') = Cardinality(InUse) + 1
    OBVIOUS
  <2>1. Types /\ NewInv
    BY DEF IInv
  <2>2. <<1, m_offset>> \notin InUse /\ InUse' = InUse \union {<<1, m_offset>>}
    BY <2>1, HandedOut
  <2>3. IsFiniteSet(InUse)
    BY <2>1, Finite
  <2>4. Cardinality(InUse \union {<<1, m_offset>>}) = Cardinality(InUse) + 1
    BY <2>2, <2>3, FS_AddElement
  <2>5. QED
    BY <2>2, <2>4
<1>2. QED
  BY <1>1, WalkIsPaid, PTL DEF Spec, HandedOnce
=============================================================================
