---------------------------- MODULE MCBlockArray ----------------------------
(* Small instances of BlockArray: the blocks that are inserted. *)
EXTENDS BlockArray, TLC

(* A k-LSM with Rlx = 2 hands every element over as it comes. *)
Single == {[pow |-> 0, keys |-> <<k>>] : k \in 0 .. (MaxKey - 1)}

(* With Rlx = 4 it hands over blocks of two and of three elements.  Two of *)
(* the larger ones do not fit into the range together.                     *)
Larger == {[pow |-> 2, keys |-> <<0, 1, 2>>], [pow |-> 1, keys |-> <<2, 3>>]}

(* The threads that insert are interchangeable. *)
SymCallers == Permutations(Callers)
=============================================================================
