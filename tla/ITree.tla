------------------------------- MODULE ITree -------------------------------
(***************************************************************************)
(* itree (bench/itree.cpp): the AVL tree with which the quality benchmark  *)
(* ranks deleted elements.  Every node keeps its height and the number of  *)
(* elements in its right subtree.  Keys are elements, ordered as by        *)
(* elem_t's operator >.                                                    *)
(***************************************************************************)
EXTENDS Integers, FiniteSets, FiniteSetsExt

CONSTANTS Elements

VARIABLES root,     \* m_root
          msize,    \* m_size
          rank      \* what the last erase() stored in *rank

vars == <<root, msize, rank>>

Null == [h |-> -1]        \* no node; _itree_height of it is -1
Node(l, k, v, r) ==       \* _itree_set_height
    [l |-> l, r |-> r, k |-> k, v |-> v, h |-> (IF l.h > r.h THEN l.h ELSE r.h) + 1]

RECURSIVE Contents(_)
Contents(n) == IF n = Null THEN {} ELSE Contents(n.l) \union {n.k} \union Contents(n.r)

Init == root = Null /\ msize = 0 /\ rank = 0

RECURSIVE count(_)
count(n) == IF n = Null THEN 0 ELSE 1 + n.v + count(n.l)

(* Mutant: the counter of the node that becomes the root is not raised. *)
RotateRightStale(n) ==
    LET l == n.l IN Node(l.l, l.k, l.v, Node(l.r, n.k, n.v, n.r))

(* The parts of _itree_rebalance.  The root of a left-left case gains the  *)
(* old root and its right subtree on the right; that of a right-right case *)
(* leaves the old root with fewer, which are counted.                      *)
RotateRight(n) ==
    LET l == n.l IN Node(l.l, l.k, l.v + n.v + 1, Node(l.r, n.k, n.v, n.r))
RotateLeft(n) ==
    LET r == n.r IN Node(Node(n.l, n.k, count(r.l), r.l), r.k, r.v, r.r)

(* Right-left and left-right cases first rotate the child. *)
RaiseLeft(n) ==
    LET r == n.r
    IN  IF r.l.h > r.r.h
        THEN [n EXCEPT !.r = Node(r.l.l, r.l.k, r.l.v + r.v + 1, Node(r.l.r, r.k, r.v, r.r))]
        ELSE n
RaiseRight(n) ==
    LET l == n.l
    IN  IF l.r.h > l.l.h
        THEN [n EXCEPT !.l = Node(Node(l.l, l.k, count(l.r.l), l.r.l), l.r.k, l.r.v, l.r.r)]
        ELSE n

rebalance(n) ==
    IF n.l.h - n.r.h \in -1 .. 1 THEN Node(n.l, n.k, n.v, n.r)
    ELSE IF n.l.h < n.r.h THEN RotateLeft(RaiseLeft(n))
    ELSE RotateRight(RaiseRight(n))

RECURSIVE Ins(_, _)
Ins(n, x) ==
    IF n = Null THEN Node(Null, x, 0, Null)
    ELSE IF n.k > x THEN rebalance([n EXCEPT !.l = Ins(n.l, x)])
    ELSE rebalance([n EXCEPT !.r = Ins(n.r, x), !.v = @ + 1])

RECURSIVE Leftmost(_)
Leftmost(n) == IF n.l = Null THEN n.k ELSE Leftmost(n.l)

(* _itree_erase: [tree, rank], rank the number of larger elements.  A node *)
(* with two children takes the key of its successor, which is erased.      *)
RECURSIVE Del(_, _)
Del(n, x) ==
    LET below == IF n.k > x THEN Del(n.l, x) ELSE Del(n.r, x)
        succ  == Leftmost(n.r)
    IN  IF n.k > x
        THEN [tree |-> rebalance([n EXCEPT !.l = below.tree]), rank |-> below.rank + n.v + 1]
        ELSE IF n.k < x
        THEN [tree |-> rebalance([n EXCEPT !.r = below.tree, !.v = @ - 1]), rank |-> below.rank]
        ELSE [tree |-> IF n.l = Null THEN n.r ELSE IF n.r = Null THEN n.l
                       ELSE rebalance([n EXCEPT !.k = succ, !.v = @ - 1,
                                                !.r = Del(n.r, succ).tree]),
              rank |-> n.v]

(* Precondition of insert(): "Index must not be in the tree". *)
insert(x) ==
    /\ x \notin Contents(root)
    /\ root' = Ins(root, x)
    /\ msize' = msize + 1
    /\ UNCHANGED rank

(* Mutant: the rank counts from 0. *)
erase_from_zero(x) ==
    /\ x \in Contents(root)
    /\ root' = Del(root, x).tree
    /\ rank' = msize - Del(root, x).rank - 1
    /\ msize' = msize - 1

erase(x) ==
    /\ x \in Contents(root)
    /\ root' = Del(root, x).tree
    /\ rank' = msize - Del(root, x).rank
    /\ msize' = msize - 1

Next == \E x \in Elements : insert(x) \/ erase(x)

Spec == Init /\ [][Next]_vars

-----------------------------------------------------------------------------
RECURSIVE Balanced(_)
Balanced(n) ==
    n # Null =>
        /\ Balanced(n.l) /\ Balanced(n.r)
        /\ n.l.h - n.r.h \in -1 .. 1
        /\ n.h = (IF n.l.h > n.r.h THEN n.l.h ELSE n.r.h) + 1
        /\ n.v = Cardinality(Contents(n.r))
        /\ \A x \in Contents(n.l) : x < n.k
        /\ \A x \in Contents(n.r) : x > n.k

(* After any sequence of insertions and deletions the tree is ordered and  *)
(* balanced, and every node's height and counter are right.                *)
TreeOK == Balanced(root) /\ msize = Cardinality(Contents(root))

(* The rank erase() reports is the position of the element among those in  *)
(* the tree, 1 for the smallest, and only that element disappears.         *)
RankExact ==
    [][\A x \in Elements : erase(x) =>
          /\ rank' = Cardinality({y \in Contents(root) : y <= x})
          /\ Contents(root') = Contents(root) \ {x}]_vars
=============================================================================
