------------------------------- MODULE Block -------------------------------
(***************************************************************************)
(* block<K,V> (components/block_inl.h) and block_storage<K,V,N>            *)
(* (components/block_storage_inl.h) as operators.  A block is a record:    *)
(* its entries xs (a function on 0 .. capacity-1 that keeps what was       *)
(* written before the last reuse, as the array does), the active range     *)
(* first .. last-1, the list pointers and the used flag.  A block_item is  *)
(* [item, ver, key]; "ver" is the current version of every item.           *)
(***************************************************************************)
EXTENDS Integers, Sequences

CONSTANTS MaxPow,  \* MAX_BLOCKS - 1: the largest power of two of a block
          N,       \* blocks of each size that a block_storage holds
          NoItem   \* nullptr, for items

ASSUME BlockAssumption == MaxPow \in Nat /\ N \in Nat \ {0}

(* What the capacities of blocks need of the powers of two. *)
ASSUME PowerAssumption ==
    /\ 2 ^ 0 = 1
    /\ \A p \in 0 .. MaxPow : 2 ^ p \in Nat \ {0} /\ 2 ^ (p + 1) = 2 * 2 ^ p

Blocks == (0 .. MaxPow) \X (1 .. N)
Null   == <<0, 0>>            \* nullptr, for blocks

pow(b)      == b[1]
capacity(b) == 2 ^ b[1]

(* nullptr, for the m_item of a block_item. *)
EMPTY == [item |-> NoItem, ver |-> 0, key |-> 0]

NewBlock(b) == [used |-> FALSE, first |-> 0, last |-> 0, next |-> Null, prev |-> Null,
                xs |-> [n \in 0 .. (capacity(b) - 1) |-> EMPTY]]

size(x)        == x.last - x.first
taken(ver, e)  == ver[e.item] # e.ver
Active(x)      == [n \in 1 .. size(x) |-> x.xs[x.first + n - 1]]

(* Writing a sequence to the front of an array of entries. *)
Overwrite(xs, s) == [n \in DOMAIN xs |-> IF n < Len(s) THEN s[n + 1] ELSE xs[n]]

(* A block without what its array holds outside the active range. *)
Trim(x) == [x EXCEPT !.xs = [n \in DOMAIN @ |->
                                IF x.first <= n /\ n < x.last THEN @[n] ELSE EMPTY]]

insert_tail(x, e) == [x EXCEPT !.xs[x.last] = e, !.last = @ + 1]

(* Mutant: the larger key goes first. *)
MergedLargest(l, r) ==
    LET done[n \in 0 .. (Len(l) + Len(r))] ==
            IF n = 0 THEN [i |-> 0, dst |-> <<>>]
            ELSE LET d == done[n - 1]
                     j == n - 1 - d.i
                 IN  IF d.i < Len(l) /\ (j < Len(r) => l[d.i + 1].key > r[j + 1].key)
                     THEN [i |-> d.i + 1, dst |-> Append(d.dst, l[d.i + 1])]
                     ELSE [i |-> d.i, dst |-> Append(d.dst, r[j + 1])]
    IN  done[Len(l) + Len(r)].dst

(* Mutant: what is left of the right block is not appended. *)
MergedNoRest(l, r) ==
    LET done[n \in 0 .. (Len(l) + Len(r))] ==
            IF n = 0 THEN [i |-> 0, dst |-> <<>>]
            ELSE LET d == done[n - 1]
                     j == n - 1 - d.i
                 IN  IF d.i < Len(l) /\ (j < Len(r) => l[d.i + 1].key < r[j + 1].key)
                     THEN [i |-> d.i + 1, dst |-> Append(d.dst, l[d.i + 1])]
                     ELSE IF d.i = Len(l) THEN d ELSE [i |-> d.i, dst |-> Append(d.dst, r[j + 1])]
    IN  done[Len(l) + Len(r)].dst

(* The two-finger loop: dst after n entries, the first i of l among them.   *)
(* On equal keys the right block goes first.                               *)
Merged(l, r) ==
    LET done[n \in 0 .. (Len(l) + Len(r))] ==
            IF n = 0 THEN [i |-> 0, dst |-> <<>>]
            ELSE LET d == done[n - 1]
                     j == n - 1 - d.i
                 IN  IF d.i < Len(l) /\ (j < Len(r) => l[d.i + 1].key < r[j + 1].key)
                     THEN [i |-> d.i + 1, dst |-> Append(d.dst, l[d.i + 1])]
                     ELSE [i |-> d.i, dst |-> Append(d.dst, r[j + 1])]
    IN  done[Len(l) + Len(r)].dst

Untaken(ver, s) ==
    LET kept[n \in 0 .. Len(s)] ==
            IF n = 0 THEN <<>>
            ELSE IF taken(ver, s[n]) THEN kept[n - 1]
            ELSE Append(kept[n - 1], s[n])
    IN  kept[Len(s)]

(* merge(lhs, rhs) into x.  The constructor leaves m_skipped_prunes        *)
(* uninitialised, so whether a merge prunes is a parameter.                *)
MergeInto(ver, x, lhs, rhs, prune) ==
    LET all  == Merged(Active(lhs), Active(rhs))
        kept == IF prune THEN Untaken(ver, all) ELSE all
    IN  [x EXCEPT !.xs = Overwrite(Overwrite(@, all), kept), !.last = Len(kept)]

(* Mutant: the last entry is not copied. *)
CopyIntoButLast(ver, x, that) ==
    LET kept == Untaken(ver, SubSeq(Active(that), 1, size(that) - 1))
    IN  [x EXCEPT !.xs = Overwrite(@, kept), !.last = Len(kept)]

(* copy(that): the entries that are not taken. *)
CopyInto(ver, x, that) ==
    LET kept == Untaken(ver, Active(that))
    IN  [x EXCEPT !.xs = Overwrite(@, kept), !.last = Len(kept)]

(* peek() by the owner: m_first moves past the initial taken entries, and  *)
(* the first entry that is not taken is returned.                          *)
PeekFirst(ver, x) ==
    CHOOSE n \in x.first .. x.last :
        /\ n < x.last => ~taken(ver, x.xs[n])
        /\ \A m \in x.first .. (n - 1) : taken(ver, x.xs[m])
PeekBlock(ver, x) == [x EXCEPT !.first = PeekFirst(ver, x)]
PeekItem(ver, x) ==
    IF PeekFirst(ver, x) = x.last THEN EMPTY ELSE x.xs[PeekFirst(ver, x)]

(* Mutant: clear() leaves m_first alone. *)
UnusedKeepsFirst(x) == [x EXCEPT !.used = FALSE, !.last = 0, !.next = Null, !.prev = Null]

(* set_unused() and the clear() it calls. *)
Unused(x) == [x EXCEPT !.used = FALSE, !.first = 0, !.last = 0,
                       !.next = Null, !.prev = Null]

(* Mutant: the search forgets the used flag. *)
get_block_first(bs, p) == <<p, 1>>

(* block_storage::get_block: the first block of the size that is not in    *)
(* use, and the last one, unchecked, if the others are.                    *)
get_block(bs, p) ==
    <<p, CHOOSE j \in 1 .. N :
            /\ j = N \/ ~bs[<<p, j>>].used
            /\ \A k \in 1 .. (j - 1) : bs[<<p, k>>].used>>
set_used(x) == [x EXCEPT !.used = TRUE]
=============================================================================
