---------------------------- MODULE ItemAllocator ----------------------------
(***************************************************************************)
(* item_allocator (util/mm.h): one thread's supply of items, a ring of     *)
(* blocks that is walked over and over.  acquire() hands out the next item *)
(* that is not in use; other threads release items by taking them, at any  *)
(* time.  A counter of how much was handed out decides, at the end of a    *)
(* block, between one more walk and one more block.                        *)
(***************************************************************************)
EXTENDS Integers, Sequences, FiniteSets

CONSTANTS BlockSize,
          MaxUsed      \* bound: items in use at once

VARIABLES ring,         \* the blocks from m_head on: which of their items are in use
          m_offset, m_amortized, m_total_size, m_new_block,
          pc            \* "acquire" inside acquire()

vars == <<ring, m_offset, m_amortized, m_total_size, m_new_block, pc>>

(* Mutant: nothing is credited for the walk. *)
AMORTIZATION_none == 0
AMORTIZATION == 1
Items    == 0 .. (BlockSize - 1)
Fresh    == [i \in Items |-> FALSE]
InUse    == {p \in (DOMAIN ring) \X Items : ring[p[1]][p[2]]}

Init ==
    /\ ring = <<Fresh>>
    /\ m_offset = 0 /\ m_amortized = 0 /\ m_total_size = BlockSize
    /\ m_new_block = TRUE
    /\ pc = "idle"

acquire ==
    /\ pc = "idle" /\ Cardinality(InUse) < MaxUsed
    /\ pc' = "acquire"
    /\ UNCHANGED <<ring, m_offset, m_amortized, m_total_size, m_new_block>>

Reusable == m_new_block \/ ~ring[1][m_offset]

hand_out ==
    /\ pc = "acquire" /\ m_offset < BlockSize /\ Reusable
    /\ ring' = [ring EXCEPT ![1][m_offset] = TRUE]
    /\ m_amortized' = m_amortized + 1 + AMORTIZATION
    /\ m_offset' = m_offset + 1
    /\ pc' = "idle"
    /\ UNCHANGED <<m_total_size, m_new_block>>

skip ==
    /\ pc = "acquire" /\ m_offset < BlockSize /\ ~Reusable
    /\ m_offset' = m_offset + 1
    /\ UNCHANGED <<ring, m_amortized, m_total_size, m_new_block, pc>>

Earned == m_amortized >= BlockSize

(* The new block is linked behind m_head and becomes m_head. *)
new_block ==
    /\ pc = "acquire" /\ m_offset = BlockSize /\ ~Earned
    /\ ring' = <<Fresh>> \o Tail(ring) \o <<ring[1]>>
    /\ m_total_size' = m_total_size + BlockSize
    /\ m_new_block' = TRUE
    /\ m_offset' = 0
    /\ UNCHANGED <<m_amortized, pc>>

Capped == IF m_amortized < m_total_size * AMORTIZATION
          THEN m_amortized ELSE m_total_size * AMORTIZATION

(* Mutant: the block still counts as new. *)
walk_on_as_new ==
    /\ pc = "acquire" /\ m_offset = BlockSize /\ Earned
    /\ m_amortized' = Capped - BlockSize
    /\ ring' = Tail(ring) \o <<ring[1]>>
    /\ m_offset' = 0
    /\ UNCHANGED <<m_total_size, m_new_block, pc>>

(* Mutant: walking costs nothing. *)
walk_on_free ==
    /\ pc = "acquire" /\ m_offset = BlockSize /\ Earned
    /\ m_amortized' = Capped
    /\ ring' = Tail(ring) \o <<ring[1]>>
    /\ m_new_block' = FALSE
    /\ m_offset' = 0
    /\ UNCHANGED <<m_total_size, pc>>

walk_on ==
    /\ pc = "acquire" /\ m_offset = BlockSize /\ Earned
    /\ m_amortized' = Capped - BlockSize
    /\ ring' = Tail(ring) \o <<ring[1]>>
    /\ m_new_block' = FALSE
    /\ m_offset' = 0
    /\ UNCHANGED <<m_total_size, pc>>

(* Another thread, or the owner, takes an item: it can be used again. *)
release ==
    \E p \in InUse :
        /\ ring' = [ring EXCEPT ![p[1]][p[2]] = FALSE]
        /\ UNCHANGED <<m_offset, m_amortized, m_total_size, m_new_block, pc>>

Step == hand_out \/ skip \/ new_block \/ walk_on
Next == acquire \/ Step \/ release

Spec == Init /\ [][Next]_vars /\ WF_vars(Step)

-----------------------------------------------------------------------------
(* A block is added only while the others hold less than twice what is in  *)
(* use apart from the item asked for, in whatever order items come back: a *)
(* walk that is paid for by two per item handed out finds enough reusable  *)
(* ones.  The unsigned counter never wraps.                                *)
MemoryBounded ==
    /\ m_amortized >= 0
    /\ m_total_size = BlockSize * Len(ring)
    /\ m_total_size = BlockSize \/ m_total_size < 2 * (MaxUsed - 1) + BlockSize

(* No item is handed out while it is in use, although the items of a new   *)
(* block are not even looked at.                                           *)
HandedOnce == [][hand_out => Cardinality(InUse') = Cardinality(InUse) + 1]_vars

(* "wait-free": acquire() returns whatever the other threads do.           *)
AcquireReturns == pc = "acquire" ~> pc = "idle"
=============================================================================
