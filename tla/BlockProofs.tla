----------------------------- MODULE BlockProofs -----------------------------
(***************************************************************************)
(* Lemmas about the operators of module Block, for the proofs about the    *)
(* modules that use it: what merging, pruning, copying and peeking keep of *)
(* a block, and what get_block returns.                                    *)
(***************************************************************************)
EXTENDS Block, WellFoundedInduction, TLAPS

(* Facts about natural numbers that stand in for induction: a non-empty    *)
(* set has a smallest and, if it is bounded, a largest element, and a step *)
(* can be repeated.                                                        *)

(* A non-empty set of natural numbers has a smallest element.              *)
LEMMA SmallestElement ==
    ASSUME NEW S \in SUBSET Nat, S # {}
    PROVE  \E n \in S : \A m \in S : n <= m
PROOF
<1> DEFINE R == OpToRel(<, Nat)
<1>1. \A m, n \in Nat : m < n => <<m, n>> \in R
  BY DEF OpToRel
<1>2. IsWellFoundedOn(R, Nat)
  BY NatLessThanWellFounded
<1> HIDE DEF R
<1>3. PICK n \in S : \A m \in S : ~ (<<m, n>> \in R)
  BY <1>2, WFMin
<1>4. ASSUME NEW m \in S PROVE n <= m
  <2>1. m \in Nat /\ n \in Nat
    OBVIOUS
  <2>2. ~ (m < n)
    BY <1>1, <1>3, <2>1, Zenon
  <2>3. QED
    BY <2>1, <2>2
<1>5. QED
  BY <1>4

(* A non-empty bounded set of natural numbers has a largest element.       *)
LEMMA LargestElement ==
    ASSUME NEW top \in Nat, NEW S \in SUBSET (0 .. top), S # {}
    PROVE  \E n \in S : \A m \in S : m <= n
PROOF
<1> DEFINE T == {top - n : n \in S}
<1>1. T \in SUBSET Nat /\ T # {}
  <2>1. \A n \in S : n \in 0 .. top /\ top - n \in Nat
    OBVIOUS
  <2>2. QED
    BY <2>1
<1> HIDE DEF T
<1>2. PICK k \in T : \A m \in T : k <= m
  BY <1>1, SmallestElement
<1>3. PICK n \in S : k = top - n
  BY DEF T
<1>4. \A m \in S : top - m \in T
  BY DEF T
<1>5. QED
  BY <1>2, <1>3, <1>4

(* A property of the numbers up to top, given as a set: it holds of all if *)
(* it holds of 0 and passes from each number to the next.                  *)
LEMMA UpTo ==
    ASSUME NEW top \in Nat, NEW P, 0 \in P,
           \A n \in 1 .. top : n - 1 \in P => n \in P
    PROVE  \A n \in 0 .. top : n \in P
PROOF
<1> SUFFICES ASSUME NEW x \in 0 .. top, x \notin P PROVE FALSE
  OBVIOUS
<1> DEFINE S == {n \in 0 .. top : n \notin P}
<1>1. S \in SUBSET Nat /\ x \in S
  OBVIOUS
<1>2. PICK n \in S : \A m \in S : n <= m
  BY <1>1, SmallestElement
<1>3. n \in 1 .. top /\ n - 1 \in 0 .. top
  OBVIOUS
<1>4. n - 1 \notin S
  BY <1>2, <1>3
<1>5. QED
  BY <1>3, <1>4

(* f[n] is what n steps make of x; a step may depend on its number.        *)
Iterates(f, X, top, step, x) ==
    /\ f \in [0 .. top -> X]
    /\ f[0] = x
    /\ \A n \in 1 .. top : f[n] = step[<<n, f[n - 1]>>]

(* A step can be taken top times.                                          *)
LEMMA Iterate ==
    ASSUME NEW X, NEW top \in Nat, NEW step \in [(1 .. top) \X X -> X], NEW x \in X
    PROVE  \E f : Iterates(f, X, top, step, x)
PROOF
<1> DEFINE Good(n) == \E f \in [0 .. top -> X] :
                          f[0] = x /\ \A m \in 1 .. n : f[m] = step[<<m, f[m - 1]>>]
           P == {n \in 0 .. top : Good(n)}
<1>1. 0 \in P
  <2>1. [n \in 0 .. top |-> x] \in [0 .. top -> X]
    OBVIOUS
  <2>2. Good(0)
    <3> DEFINE f == [n \in 0 .. top |-> x]
    <3>1. f[0] = x /\ \A m \in 1 .. 0 : f[m] = step[<<m, f[m - 1]>>]
      OBVIOUS
    <3> HIDE DEF f
    <3>2. QED
      BY <2>1, <3>1 DEF f
  <2>3. QED
    BY <2>2
<1>2. ASSUME NEW n \in 1 .. top, n - 1 \in P PROVE n \in P
  <2>1. PICK f \in [0 .. top -> X] :
            f[0] = x /\ \A m \in 1 .. (n - 1) : f[m] = step[<<m, f[m - 1]>>]
    BY <1>2
  <2> DEFINE g == [f EXCEPT ![n] = step[<<n, f[n - 1]>>]]
  <2>2. step[<<n, f[n - 1]>>] \in X
    OBVIOUS
  <2>3. /\ g \in [0 .. top -> X] /\ g[n] = step[<<n, f[n - 1]>>]
        /\ \A m \in 0 .. top : m # n => g[m] = f[m]
    BY <2>2
  <2> HIDE DEF g
  <2>4. g[0] = x /\ g[n - 1] = f[n - 1]
    BY <2>1, <2>3
  <2>5. ASSUME NEW m \in 1 .. n PROVE g[m] = step[<<m, g[m - 1]>>]
    <3>1. CASE m = n
      BY <2>3, <2>4, <3>1
    <3>2. CASE m # n
      <4>1. g[m] = f[m] /\ g[m - 1] = f[m - 1]
        BY <2>3, <3>2
      <4>2. QED
        BY <2>1, <3>2, <4>1
    <3>3. QED
      BY <3>1, <3>2
  <2>6. Good(n)
    BY <2>3, <2>4, <2>5
  <2>7. QED
    BY <2>6
<1> HIDE DEF P
<1>3. top \in P
  BY <1>1, <1>2, UpTo
<1>4. QED
  BY <1>3 DEF P, Iterates

-----------------------------------------------------------------------------
(* Blocks. *)

Pointer == Blocks \union {Null}

(* A block b with the record x: E is the set of its possible entries.      *)
Array(b, E) == [0 .. (capacity(b) - 1) -> E \union {EMPTY}]
BlockType(b, E) ==
    [used : BOOLEAN, first : Nat, last : Nat, next : Pointer, prev : Pointer,
     xs : Array(b, E)]
BlockOK(b, x, E) ==
    /\ x \in BlockType(b, E)
    /\ x.first <= x.last /\ x.last <= capacity(b)
    /\ \A n \in x.first .. (x.last - 1) : x.xs[n] \in E

(* The active entries are in key order. *)
Ordered(x) ==
    \A m, n \in x.first .. (x.last - 1) : m < n => x.xs[m].key <= x.xs[n].key

(* What a step does to a block as another thread may see it that copies    *)
(* from it: what has been written stays written, and the first active      *)
(* entry moves past written entries only.                                  *)
Grows(x, y) ==
    /\ \A n \in DOMAIN x.xs : x.xs[n] # EMPTY => y.xs[n] # EMPTY
    /\ \A n \in x.first .. (y.first - 1) : y.xs[n] # EMPTY

KeyOrder(s) == \A m, n \in 1 .. Len(s) : m < n => s[m].key <= s[n].key

-----------------------------------------------------------------------------
(* Blocks and their sizes. *)

(* The powers and capacities of blocks; no block is the null pointer.      *)
LEMMA Sizes ==
    /\ MaxPow \in Nat /\ N \in Nat \ {0} /\ Null \notin Blocks
    /\ \A b \in Blocks : /\ pow(b) \in 0 .. MaxPow /\ capacity(b) \in Nat \ {0}
                         /\ (pow(b) = 0 => capacity(b) = 1)
    /\ \A b, c \in Blocks : /\ pow(b) = pow(c) => capacity(b) = capacity(c)
                            /\ pow(c) = pow(b) + 1 => capacity(c) = 2 * capacity(b)
    /\ \A p \in 0 .. MaxPow, j \in 1 .. N : <<p, j>> \in Blocks /\ pow(<<p, j>>) = p
PROOF
<1>1. MaxPow \in Nat /\ N \in Nat \ {0}
  BY BlockAssumption
<1>2. Null \notin Blocks
  BY <1>1 DEF Null, Blocks
<1>3. \A b \in Blocks : b[1] \in 0 .. MaxPow
  BY DEF Blocks
<1>4. \A p \in 0 .. MaxPow, j \in 1 .. N : <<p, j>> \in Blocks /\ pow(<<p, j>>) = p
  BY DEF Blocks, pow
<1>5. ASSUME NEW b \in Blocks
      PROVE  /\ pow(b) \in 0 .. MaxPow /\ capacity(b) \in Nat \ {0}
             /\ (pow(b) = 0 => capacity(b) = 1)
  BY <1>1, <1>3, PowerAssumption DEF pow, capacity
<1>6. ASSUME NEW b \in Blocks, NEW c \in Blocks
      PROVE  /\ pow(b) = pow(c) => capacity(b) = capacity(c)
             /\ pow(c) = pow(b) + 1 => capacity(c) = 2 * capacity(b)
  <2>1. pow(b) = pow(c) => capacity(b) = capacity(c)
    BY DEF pow, capacity
  <2>2. ASSUME pow(c) = pow(b) + 1 PROVE capacity(c) = 2 * capacity(b)
    <3>1. 2 ^ (b[1] + 1) = 2 * 2 ^ b[1]
      BY <1>3, PowerAssumption
    <3>2. c[1] = b[1] + 1
      BY <2>2 DEF pow
    <3>3. QED
      BY <3>1, <3>2 DEF capacity
  <2>3. QED
    BY <2>1, <2>2
<1>7. QED
  BY <1>1, <1>2, <1>4, <1>5, <1>6

(* The active entries, as a sequence.                                      *)
LEMMA ActiveSeq ==
    ASSUME NEW E, NEW b \in Blocks, NEW x, BlockOK(b, x, E)
    PROVE  /\ Active(x) \in Seq(E) /\ Len(Active(x)) = size(x) /\ size(x) \in Nat
           /\ \A n \in 1 .. size(x) : Active(x)[n] = x.xs[x.first + n - 1]
           /\ Ordered(x) => KeyOrder(Active(x))
PROOF
<1>1. x.first \in Nat /\ x.last \in Nat /\ x.first <= x.last
  BY DEF BlockOK, BlockType
<1>2. size(x) \in Nat
  BY <1>1 DEF size
<1>3. \A n \in 1 .. size(x) : x.first + n - 1 \in x.first .. (x.last - 1)
  BY <1>1 DEF size
<1>4. \A n \in 1 .. size(x) : x.xs[x.first + n - 1] \in E
  BY <1>3 DEF BlockOK
<1>5. Active(x) \in Seq(E) /\ Len(Active(x)) = size(x)
  BY <1>2, <1>4 DEF Active
<1>6. \A n \in 1 .. size(x) : Active(x)[n] = x.xs[x.first + n - 1]
  BY DEF Active
<1>7. ASSUME Ordered(x), NEW m \in 1 .. size(x), NEW n \in 1 .. size(x), m < n
      PROVE  Active(x)[m].key <= Active(x)[n].key
  <2>1. x.first + m - 1 < x.first + n - 1
    BY <1>1, <1>2, <1>7
  <2>2. QED
    BY <1>3, <1>6, <1>7, <2>1 DEF Ordered
<1>8. QED
  BY <1>2, <1>5, <1>6, <1>7 DEF KeyOrder

-----------------------------------------------------------------------------
(* The two-finger loop.  After n rounds dst holds the first i entries of l *)
(* and the first n - i of r.                                               *)

MergeRun(E, l, r, f) ==
    /\ f \in [0 .. (Len(l) + Len(r)) -> [i : Nat, dst : Seq(E)]]
    /\ Merged(l, r) = f[Len(l) + Len(r)].dst
    /\ f[0].i = 0 /\ f[0].dst = <<>>
    /\ \A n \in 0 .. (Len(l) + Len(r)) :
          f[n].i \in 0 .. Len(l) /\ n - f[n].i \in 0 .. Len(r) /\ Len(f[n].dst) = n
    /\ \A n \in 1 .. (Len(l) + Len(r)) :
          LET i == f[n - 1].i
              j == n - 1 - i
          IN  \/ /\ i < Len(l) /\ (j < Len(r) => l[i + 1].key < r[j + 1].key)
                 /\ f[n].i = i + 1 /\ f[n].dst = Append(f[n - 1].dst, l[i + 1])
              \/ /\ j < Len(r) /\ (i < Len(l) => ~ (l[i + 1].key < r[j + 1].key))
                 /\ f[n].i = i /\ f[n].dst = Append(f[n - 1].dst, r[j + 1])

(* The rounds of the loop, each of which takes one entry of l or of r.     *)
LEMMA MergeRounds ==
    ASSUME NEW E, NEW l \in Seq(E), NEW r \in Seq(E)
    PROVE  \E f : MergeRun(E, l, r, f)
PROOF
<1> DEFINE T == Len(l) + Len(r)
           X == [i : Nat, dst : Seq(E)]
           Left(i, j) == i < Len(l) /\ (j < Len(r) => l[i + 1].key < r[j + 1].key)
           Round(n, d) == IF Left(d.i, n - 1 - d.i)
                          THEN [i |-> d.i + 1, dst |-> Append(d.dst, l[d.i + 1])]
                          ELSE [i |-> d.i, dst |-> Append(d.dst, r[n - 1 - d.i + 1])]
           start == [i |-> 0, dst |-> <<>>]
           step == [p \in (1 .. T) \X X |-> IF Round(p[1], p[2]) \in X THEN Round(p[1], p[2])
                                            ELSE p[2]]
           done[n \in 0 .. T] ==
            IF n = 0 THEN [i |-> 0, dst |-> <<>>]
            ELSE LET d == done[n - 1]
                     j == n - 1 - d.i
                 IN  IF d.i < Len(l) /\ (j < Len(r) => l[d.i + 1].key < r[j + 1].key)
                     THEN [i |-> d.i + 1, dst |-> Append(d.dst, l[d.i + 1])]
                     ELSE [i |-> d.i, dst |-> Append(d.dst, r[j + 1])]
<1>1. T \in Nat /\ start \in X /\ Len(l) \in Nat /\ Len(r) \in Nat
  OBVIOUS
<1>2. Merged(l, r) = done[T].dst
  BY Zenon DEF Merged
<1>3. step \in [(1 .. T) \X X -> X]
  <2> HIDE DEF X, T, Round
  <2> QED
    OBVIOUS
<1>4. PICK f : Iterates(f, X, T, step, start)
  <2>1. T \in Nat /\ start \in X
    BY <1>1
  <2> HIDE DEF X, T, step, start, done, Left, Round
  <2>2. QED
    BY <1>3, <2>1, Iterate
<1>4a. f \in [0 .. T -> X] /\ f[0] = start /\ \A n \in 1 .. T : f[n] = step[<<n, f[n - 1]>>]
  BY <1>4, Zenon DEF Iterates
<1> DEFINE Counts(n) == f[n].i \in 0 .. Len(l) /\ n - f[n].i \in 0 .. Len(r) /\ Len(f[n].dst) = n
           P == {n \in 0 .. T : Counts(n)}
<1>5. \A n \in 1 .. T : f[n - 1] \in X
  <2> HIDE DEF X, T
  <2>1. \A n \in 1 .. T : n - 1 \in 0 .. T
    BY <1>1
  <2>2. QED
    BY <1>4a, <2>1
<1>6. ASSUME NEW n \in 1 .. T, Counts(n - 1)
      PROVE  /\ Round(n, f[n - 1]) \in X
             /\ f[n] = Round(n, f[n - 1])
             /\ \/ /\ Left(f[n - 1].i, n - 1 - f[n - 1].i)
                   /\ f[n].i = f[n - 1].i + 1
                   /\ f[n].dst = Append(f[n - 1].dst, l[f[n - 1].i + 1])
                   /\ f[n - 1].i < Len(l)
                \/ /\ ~ Left(f[n - 1].i, n - 1 - f[n - 1].i)
                   /\ n - 1 - f[n - 1].i < Len(r)
                   /\ f[n].i = f[n - 1].i
                   /\ f[n].dst = Append(f[n - 1].dst, r[n - 1 - f[n - 1].i + 1])
             /\ Counts(n)
  <2> DEFINE i == f[n - 1].i
             j == n - 1 - i
             dst == f[n - 1].dst
  <2>1. i \in 0 .. Len(l) /\ j \in 0 .. Len(r) /\ Len(dst) = n - 1 /\ dst \in Seq(E)
    BY <1>5, <1>6
  <2>2. Round(n, f[n - 1]) = IF Left(i, j) THEN [i |-> i + 1, dst |-> Append(dst, l[i + 1])]
                             ELSE [i |-> i, dst |-> Append(dst, r[j + 1])]
    OBVIOUS
  <2>3. ~ Left(i, j) => j < Len(r)
    <3>1. i = Len(l) => j < Len(r)
      BY <1>1, <2>1
    <3>2. QED
      BY <2>1, <3>1
  <2>4. f[n] = IF Round(n, f[n - 1]) \in X THEN Round(n, f[n - 1]) ELSE f[n - 1]
    <3> HIDE DEF X, T, Round
    <3> QED
      BY <1>4a, <1>5
  <2>5. n \in Nat /\ n - 1 - i = j
    BY <1>1
  <2> HIDE DEF i, j, dst, Round, T
  <2>6. CASE Left(i, j)
    <3>1. l[i + 1] \in E /\ i < Len(l)
      BY <2>1, <2>6
    <3>2. Round(n, f[n - 1]) = [i |-> i + 1, dst |-> Append(dst, l[i + 1])]
      BY <2>2, <2>6
    <3>3. Round(n, f[n - 1]) \in X
      BY <2>1, <3>1, <3>2
    <3>4. f[n] = Round(n, f[n - 1])
      BY <2>4, <3>3
    <3>5. f[n].i = i + 1 /\ f[n].dst = Append(dst, l[i + 1])
      BY <3>2, <3>4
    <3>6. Len(f[n].dst) = n
      BY <2>1, <2>5, <3>1, <3>5
    <3>7. f[n].i \in 0 .. Len(l) /\ n - f[n].i \in 0 .. Len(r)
      <4>1. i + 1 \in 0 .. Len(l) /\ n - (i + 1) = j
        BY <1>1, <2>1, <2>5, <3>1
      <4>2. QED
        BY <2>1, <3>5, <4>1
    <3>8. QED
      BY <2>6, <3>1, <3>3, <3>4, <3>5, <3>6, <3>7 DEF i, j, dst
  <2>7. CASE ~ Left(i, j)
    <3>1. r[j + 1] \in E /\ j < Len(r)
      BY <2>1, <2>3, <2>7
    <3>2. Round(n, f[n - 1]) = [i |-> i, dst |-> Append(dst, r[j + 1])]
      BY <2>2, <2>7
    <3>3. Round(n, f[n - 1]) \in X
      BY <2>1, <3>1, <3>2
    <3>4. f[n] = Round(n, f[n - 1])
      BY <2>4, <3>3
    <3>5. f[n].i = i /\ f[n].dst = Append(dst, r[j + 1])
      BY <3>2, <3>4
    <3>6. Len(f[n].dst) = n
      BY <2>1, <2>5, <3>1, <3>5
    <3>7. f[n].i \in 0 .. Len(l) /\ n - f[n].i \in 0 .. Len(r)
      BY <1>1, <2>1, <2>5, <3>1, <3>5
    <3>8. QED
      BY <2>7, <3>1, <3>3, <3>4, <3>5, <3>6, <3>7 DEF i, j, dst
  <2>8. QED
    BY <2>6, <2>7
<1>7. \A n \in 0 .. T : n \in P
  <2>1. 0 \in P
    BY <1>1, <1>4a
  <2>2. ASSUME NEW n \in 1 .. T, n - 1 \in P PROVE n \in P
    <3>1. Counts(n - 1)
      BY <2>2
    <3>2. Counts(n)
      <4> HIDE DEF Counts, P, Round, X, T
      <4> QED
        BY <1>6, <3>1
    <3>3. n \in 0 .. T
      BY <1>1
    <3>4. QED
      BY <3>2, <3>3
  <2> HIDE DEF P, T
  <2>3. QED
    BY <1>1, <2>1, <2>2, UpTo
<1>8. \A n \in 1 .. T : Counts(n - 1)
  BY <1>1, <1>7
<1>9. f = [n \in 0 .. T |-> IF n = 0 THEN [i |-> 0, dst |-> <<>>] ELSE Round(n, f[n - 1])]
  <2>1. \A n \in 0 .. T : n # 0 => n \in 1 .. T
    BY <1>1
  <2>2. \A n \in 1 .. T : f[n] = Round(n, f[n - 1])
    <3> HIDE DEF Counts, Round, X, T, Left
    <3> QED
      BY <1>6, <1>8
  <2> HIDE DEF Round, X, T
  <2>3. QED
    BY <1>4a, <2>1, <2>2
<1>10. done = [n \in 0 .. T |-> IF n = 0 THEN [i |-> 0, dst |-> <<>>] ELSE Round(n, done[n - 1])]
  <2>1. f = [n \in 0 .. T |->
            IF n = 0 THEN [i |-> 0, dst |-> <<>>]
            ELSE LET d == f[n - 1]
                     j == n - 1 - d.i
                 IN  IF d.i < Len(l) /\ (j < Len(r) => l[d.i + 1].key < r[j + 1].key)
                     THEN [i |-> d.i + 1, dst |-> Append(d.dst, l[d.i + 1])]
                     ELSE [i |-> d.i, dst |-> Append(d.dst, r[j + 1])]]
    BY <1>9, Zenon
  <2>2. QED
    BY <2>1, Zenon DEF done
<1> HIDE DEF done
<1> DEFINE Q == {n \in 0 .. T : done[n] = f[n]}
<1>11. \A n \in 0 .. T : n \in Q
  <2>1. 0 \in Q
    <3> HIDE DEF Round, X
    <3> QED
      BY <1>1, <1>4a, <1>10
  <2>2. ASSUME NEW n \in 1 .. T, n - 1 \in Q PROVE n \in Q
    <3>1. n \in 0 .. T /\ n # 0 /\ done[n - 1] = f[n - 1]
      BY <1>1, <2>2
    <3> HIDE DEF Round, X, T
    <3>2. done[n] = Round(n, done[n - 1]) /\ f[n] = Round(n, f[n - 1])
      BY <1>9, <1>10, <3>1
    <3>3. QED
      BY <3>1, <3>2
  <2> HIDE DEF Q, T
  <2>3. QED
    BY <1>1, <2>1, <2>2, UpTo
<1>12. Merged(l, r) = f[T].dst
  BY <1>1, <1>2, <1>11
<1>13. f[0].i = 0 /\ f[0].dst = <<>>
  BY <1>4a
<1>14. f \in [0 .. T -> X]
  BY <1>4a
<1>15. \A n \in 0 .. T : Counts(n)
  BY <1>7
<1>16. \A n \in 1 .. T :
          \/ /\ Left(f[n - 1].i, n - 1 - f[n - 1].i)
             /\ f[n].i = f[n - 1].i + 1
             /\ f[n].dst = Append(f[n - 1].dst, l[f[n - 1].i + 1])
          \/ /\ n - 1 - f[n - 1].i < Len(r)
             /\ ~ Left(f[n - 1].i, n - 1 - f[n - 1].i)
             /\ f[n].i = f[n - 1].i
             /\ f[n].dst = Append(f[n - 1].dst, r[n - 1 - f[n - 1].i + 1])
  <2> HIDE DEF Counts, Round, X, T, Left
  <2> QED
    BY <1>6, <1>8
<1> HIDE DEF P, Q, Round, step
<1>17. QED
  BY <1>12, <1>13, <1>14, <1>15, <1>16 DEF MergeRun

(* Merging keeps all the entries, in key order if both parts are.          *)
LEMMA MergedOrder ==
    ASSUME NEW E, \A e \in E : e.key \in Nat, NEW l \in Seq(E), NEW r \in Seq(E)
    PROVE  /\ Merged(l, r) \in Seq(E) /\ Len(Merged(l, r)) = Len(l) + Len(r)
           /\ KeyOrder(l) /\ KeyOrder(r) => KeyOrder(Merged(l, r))
PROOF
<1> DEFINE T == Len(l) + Len(r)
<1>1. T \in Nat /\ Len(l) \in Nat /\ Len(r) \in Nat
  OBVIOUS
<1>2. PICK f : MergeRun(E, l, r, f)
  BY MergeRounds
<1>3. /\ f \in [0 .. T -> [i : Nat, dst : Seq(E)]]
      /\ Merged(l, r) = f[T].dst
      /\ f[0].i = 0 /\ f[0].dst = <<>>
      /\ \A n \in 0 .. T :
            f[n].i \in 0 .. Len(l) /\ n - f[n].i \in 0 .. Len(r) /\ Len(f[n].dst) = n
      /\ \A n \in 1 .. T :
            LET i == f[n - 1].i
                j == n - 1 - i
            IN  \/ /\ i < Len(l) /\ (j < Len(r) => l[i + 1].key < r[j + 1].key)
                   /\ f[n].i = i + 1 /\ f[n].dst = Append(f[n - 1].dst, l[i + 1])
                \/ /\ j < Len(r) /\ (i < Len(l) => ~ (l[i + 1].key < r[j + 1].key))
                   /\ f[n].i = i /\ f[n].dst = Append(f[n - 1].dst, r[j + 1])
  BY <1>2, Zenon DEF MergeRun
<1> HIDE DEF T
<1>4. Merged(l, r) \in Seq(E) /\ Len(Merged(l, r)) = T
  <2>1. T \in 0 .. T
    BY <1>1
  <2>2. QED
    BY <1>3, <2>1
<1>5. ASSUME KeyOrder(l), KeyOrder(r) PROVE KeyOrder(Merged(l, r))
  <2> DEFINE Below(n) == /\ \A p, q \in 1 .. n : p < q => f[n].dst[p].key <= f[n].dst[q].key
                         /\ \A p \in 1 .. n, q \in 1 .. Len(l) :
                                q > f[n].i => f[n].dst[p].key <= l[q].key
                         /\ \A p \in 1 .. n, q \in 1 .. Len(r) :
                                q > n - f[n].i => f[n].dst[p].key <= r[q].key
             P == {n \in 0 .. T : Below(n)}
  <2>1. 0 \in P
    BY <1>1
  <2>2. ASSUME NEW n \in 1 .. T, n - 1 \in P PROVE n \in P
    <3> DEFINE i == f[n - 1].i
               j == n - 1 - i
               d == f[n - 1].dst
    <3>1. n - 1 \in 0 .. T /\ n \in 0 .. T /\ n \in Nat /\ Below(n - 1)
      BY <1>1, <2>2
    <3>2. i \in 0 .. Len(l) /\ j \in 0 .. Len(r) /\ Len(d) = n - 1 /\ d \in Seq(E)
      BY <1>3, <3>1
    <3>3. \/ /\ i < Len(l) /\ (j < Len(r) => l[i + 1].key < r[j + 1].key)
             /\ f[n].i = i + 1 /\ f[n].dst = Append(d, l[i + 1])
          \/ /\ j < Len(r) /\ (i < Len(l) => ~ (l[i + 1].key < r[j + 1].key))
             /\ f[n].i = i /\ f[n].dst = Append(d, r[j + 1])
      BY <1>3
    <3>4. /\ \A p, q \in 1 .. (n - 1) : p < q => d[p].key <= d[q].key
          /\ \A p \in 1 .. (n - 1), q \in 1 .. Len(l) : q > i => d[p].key <= l[q].key
          /\ \A p \in 1 .. (n - 1), q \in 1 .. Len(r) : q > j => d[p].key <= r[q].key
      BY <3>1
    <3>5. /\ \A q \in 1 .. Len(l) : l[q].key \in Nat
          /\ \A q \in 1 .. Len(r) : r[q].key \in Nat
          /\ \A p \in 1 .. (n - 1) : d[p].key \in Nat
      BY <3>2
    <3>6. n - 1 - i = j
      OBVIOUS
    <3> HIDE DEF i, j, d
    <3>7. CASE /\ i < Len(l) /\ (j < Len(r) => l[i + 1].key < r[j + 1].key)
               /\ f[n].i = i + 1 /\ f[n].dst = Append(d, l[i + 1])
      <4> DEFINE e == l[i + 1]
                 g == f[n].dst
      <4>0. i + 1 \in 1 .. Len(l) /\ i + 1 > i
        BY <1>1, <3>2, <3>7
      <4>1. i + 1 \in 1 .. Len(l) /\ e \in E /\ e.key \in Nat
        BY <3>5, <4>0
      <4>2. g[n] = e /\ \A p \in 1 .. (n - 1) : g[p] = d[p]
        BY <3>1, <3>2, <3>7, <4>1
      <4>3. \A q \in 1 .. Len(l) : q > i + 1 => e.key <= l[q].key
        BY <1>5, <4>1 DEF KeyOrder
      <4>4. \A q \in 1 .. Len(r) : q > j => e.key <= r[q].key
        <5> SUFFICES ASSUME NEW q \in 1 .. Len(r), q > j PROVE e.key <= r[q].key
          OBVIOUS
        <5>1. j < Len(r) /\ j + 1 \in 1 .. Len(r)
          BY <1>1, <3>2
        <5>2. r[j + 1].key <= r[q].key
          <6>1. q = j + 1 \/ j + 1 < q
            BY <3>2
          <6>2. QED
            BY <1>5, <3>5, <5>1, <6>1 DEF KeyOrder
        <5>3. e.key < r[j + 1].key
          BY <3>7, <5>1
        <5>4. QED
          BY <3>5, <4>1, <5>1, <5>2, <5>3
      <4>5. n - f[n].i = j
        BY <3>1, <3>2, <3>6, <3>7
      <4>6. \A p \in 1 .. (n - 1) : d[p].key <= e.key
        BY <3>4, <4>0
      <4>7. f[n].i = i + 1
        BY <3>7
      <4>12. \A p \in 1 .. n : p = n \/ p \in 1 .. (n - 1)
        BY <3>1
      <4> HIDE DEF e, g
      <4>8. \A p, q \in 1 .. n : p < q => g[p].key <= g[q].key
        BY <3>1, <3>4, <4>2, <4>6
      <4>9. \A p \in 1 .. n, q \in 1 .. Len(l) : q > i + 1 => g[p].key <= l[q].key
        <5>1. \A q \in 1 .. Len(l) : q > i + 1 => q > i
          BY <1>1, <3>2
        <5>2. QED
          BY <3>4, <4>2, <4>3, <4>12, <5>1
      <4>10. \A p \in 1 .. n, q \in 1 .. Len(r) : q > j => g[p].key <= r[q].key
        BY <1>1, <3>1, <3>2, <3>4, <4>2, <4>4, <4>12
      <4>11. QED
        BY <3>1, <4>5, <4>7, <4>8, <4>9, <4>10 DEF g
    <3>8. CASE /\ j < Len(r) /\ (i < Len(l) => ~ (l[i + 1].key < r[j + 1].key))
               /\ f[n].i = i /\ f[n].dst = Append(d, r[j + 1])
      <4> DEFINE e == r[j + 1]
                 g == f[n].dst
      <4>0. j + 1 \in 1 .. Len(r) /\ j + 1 > j
        BY <1>1, <3>2, <3>8
      <4>1. j + 1 \in 1 .. Len(r) /\ e \in E /\ e.key \in Nat
        BY <3>5, <4>0
      <4>2. g[n] = e /\ \A p \in 1 .. (n - 1) : g[p] = d[p]
        BY <3>1, <3>2, <3>8, <4>1
      <4>3. \A q \in 1 .. Len(r) : q > j + 1 => e.key <= r[q].key
        BY <1>5, <4>1 DEF KeyOrder
      <4>4. \A q \in 1 .. Len(l) : q > i => e.key <= l[q].key
        <5> SUFFICES ASSUME NEW q \in 1 .. Len(l), q > i PROVE e.key <= l[q].key
          OBVIOUS
        <5>1. i < Len(l) /\ i + 1 \in 1 .. Len(l)
          BY <1>1, <3>2
        <5>2. l[i + 1].key <= l[q].key
          <6>1. q = i + 1 \/ i + 1 < q
            BY <3>2
          <6>2. QED
            BY <1>5, <3>5, <5>1, <6>1 DEF KeyOrder
        <5>3. ~ (l[i + 1].key < e.key)
          BY <3>8, <5>1
        <5>4. QED
          BY <3>5, <4>1, <5>1, <5>2, <5>3
      <4>5. n - f[n].i = j + 1
        BY <3>1, <3>2, <3>6, <3>8
      <4>6. \A p \in 1 .. (n - 1) : d[p].key <= e.key
        BY <3>4, <4>0
      <4>7. f[n].i = i
        BY <3>8
      <4>12. \A p \in 1 .. n : p = n \/ p \in 1 .. (n - 1)
        BY <3>1
      <4> HIDE DEF e, g
      <4>8. \A p, q \in 1 .. n : p < q => g[p].key <= g[q].key
        BY <3>1, <3>4, <4>2, <4>6
      <4>9. \A p \in 1 .. n, q \in 1 .. Len(l) : q > i => g[p].key <= l[q].key
        BY <1>1, <3>1, <3>2, <3>4, <4>2, <4>4, <4>12
      <4>10. \A p \in 1 .. n, q \in 1 .. Len(r) : q > j + 1 => g[p].key <= r[q].key
        <5>1. \A q \in 1 .. Len(r) : q > j + 1 => q > j
          BY <1>1, <3>2
        <5>2. QED
          BY <3>4, <4>2, <4>3, <4>12, <5>1
      <4>11. QED
        BY <3>1, <4>5, <4>7, <4>8, <4>9, <4>10 DEF g
    <3>9. QED
      BY <3>3, <3>7, <3>8
  <2> HIDE DEF P
  <2>3. \A n \in 0 .. T : n \in P
    BY <1>1, <2>1, <2>2, UpTo
  <2>4. T \in P
    BY <1>1, <2>3
  <2>5. \A p, q \in 1 .. T : p < q => f[T].dst[p].key <= f[T].dst[q].key
    BY <2>4 DEF P
  <2>6. QED
    BY <1>3, <1>4, <2>5 DEF KeyOrder
<1>6. QED
  BY <1>4, <1>5 DEF T

(* Pruning keeps the entries that are not taken, in their order.           *)
KeptRun(E, ver, s, f) ==
    /\ f \in [0 .. Len(s) -> Seq(E)]
    /\ Untaken(ver, s) = f[Len(s)]
    /\ f[0] = <<>>
    /\ \A n \in 1 .. Len(s) : f[n] = IF taken(ver, s[n]) THEN f[n - 1] ELSE Append(f[n - 1], s[n])

(* The rounds of the loop, each of which keeps or leaves out one entry.    *)
LEMMA KeptRounds ==
    ASSUME NEW E, NEW ver, NEW s \in Seq(E)
    PROVE  \E f : KeptRun(E, ver, s, f)
PROOF
<1> DEFINE T == Len(s)
           X == Seq(E)
           Round(n, d) == IF taken(ver, s[n]) THEN d ELSE Append(d, s[n])
           start == <<>>
           step == [p \in (1 .. T) \X X |-> Round(p[1], p[2])]
           kept[n \in 0 .. T] ==
            IF n = 0 THEN <<>>
            ELSE IF taken(ver, s[n]) THEN kept[n - 1]
            ELSE Append(kept[n - 1], s[n])
<1>1. T \in Nat /\ start \in X
  OBVIOUS
<1>2. Untaken(ver, s) = kept[T]
  BY Zenon DEF Untaken
<1>3. \A n \in 1 .. T, d \in X : Round(n, d) \in X
  <2>1. \A n \in 1 .. T : s[n] \in E
    OBVIOUS
  <2>2. QED
    BY <2>1
<1>4. step \in [(1 .. T) \X X -> X]
  <2> HIDE DEF X, T, Round
  <2> QED
    BY <1>3
<1>5. PICK f : Iterates(f, X, T, step, start)
  <2>1. T \in Nat /\ start \in X
    BY <1>1
  <2> HIDE DEF X, T, step, start, kept, Round
  <2>2. QED
    BY <1>4, <2>1, Iterate
<1>6. f \in [0 .. T -> X] /\ f[0] = start /\ \A n \in 1 .. T : f[n] = step[<<n, f[n - 1]>>]
  BY <1>5, Zenon DEF Iterates
<1>7. \A n \in 1 .. T : f[n] = Round(n, f[n - 1])
  <2>1. \A n \in 1 .. T : n - 1 \in 0 .. T
    BY <1>1
  <2>2. \A n \in 1 .. T : f[n - 1] \in X
    <3> HIDE DEF X, T
    <3> QED
      BY <1>6, <2>1
  <2> HIDE DEF X, T, Round
  <2>3. QED
    BY <1>6, <2>2
<1>8. f = [n \in 0 .. T |-> IF n = 0 THEN <<>> ELSE Round(n, f[n - 1])]
  <2>1. \A n \in 0 .. T : n # 0 => n \in 1 .. T
    BY <1>1
  <2> HIDE DEF Round, X, T
  <2>2. QED
    BY <1>6, <1>7, <2>1
<1>9. kept = [n \in 0 .. T |-> IF n = 0 THEN <<>> ELSE Round(n, kept[n - 1])]
  <2>1. f = [n \in 0 .. T |->
            IF n = 0 THEN <<>>
            ELSE IF taken(ver, s[n]) THEN f[n - 1]
            ELSE Append(f[n - 1], s[n])]
    BY <1>8, Zenon
  <2>2. QED
    BY <2>1, Zenon DEF kept
<1> HIDE DEF kept
<1> DEFINE Q == {n \in 0 .. T : kept[n] = f[n]}
<1>10. \A n \in 0 .. T : n \in Q
  <2>1. 0 \in Q
    <3> HIDE DEF Round, X
    <3> QED
      BY <1>1, <1>6, <1>9
  <2>2. ASSUME NEW n \in 1 .. T, n - 1 \in Q PROVE n \in Q
    <3>1. n \in 0 .. T /\ n # 0 /\ kept[n - 1] = f[n - 1]
      BY <1>1, <2>2
    <3> HIDE DEF Round, X, T
    <3>2. kept[n] = Round(n, kept[n - 1]) /\ f[n] = Round(n, f[n - 1])
      BY <1>8, <1>9, <3>1
    <3>3. QED
      BY <3>1, <3>2
  <2> HIDE DEF Q, T
  <2>3. QED
    BY <1>1, <2>1, <2>2, UpTo
<1>11. Untaken(ver, s) = f[T]
  BY <1>1, <1>2, <1>10
<1>12. QED
  BY <1>6, <1>7, <1>11 DEF KeptRun

(* What is left of a sequence is no longer, and still in key order.        *)
LEMMA UntakenOrder ==
    ASSUME NEW E, \A e \in E : e.key \in Nat, NEW ver, NEW s \in Seq(E)
    PROVE  /\ Untaken(ver, s) \in Seq(E)
           /\ Len(Untaken(ver, s)) \in Nat /\ Len(Untaken(ver, s)) <= Len(s)
           /\ KeyOrder(s) => KeyOrder(Untaken(ver, s))
PROOF
<1> DEFINE T == Len(s)
<1>1. T \in Nat /\ \A n \in 1 .. T : s[n] \in E /\ s[n].key \in Nat
  OBVIOUS
<1>2. PICK f : KeptRun(E, ver, s, f)
  BY KeptRounds
<1>3. /\ f \in [0 .. T -> Seq(E)] /\ Untaken(ver, s) = f[T] /\ f[0] = <<>>
      /\ \A n \in 1 .. T : f[n] = IF taken(ver, s[n]) THEN f[n - 1] ELSE Append(f[n - 1], s[n])
  BY <1>2, Zenon DEF KeptRun
<1> DEFINE Below(n) == /\ Len(f[n]) <= n
                       /\ KeyOrder(s) => KeyOrder(f[n])
                       /\ KeyOrder(s) => \A p \in 1 .. Len(f[n]), q \in 1 .. T :
                                            q > n => f[n][p].key <= s[q].key
           P == {n \in 0 .. T : Below(n)}
<1> HIDE DEF T
<1>4. 0 \in P
  BY <1>1, <1>3 DEF KeyOrder
<1>5. ASSUME NEW n \in 1 .. T, n - 1 \in P PROVE n \in P
  <2> DEFINE d == f[n - 1]
  <2>1. n - 1 \in 0 .. T /\ n \in 0 .. T /\ n \in Nat /\ Below(n - 1)
    BY <1>1, <1>5
  <2>2. d \in Seq(E) /\ Len(d) \in Nat /\ Len(d) <= n - 1
    BY <1>3, <2>1
  <2>3. f[n] = IF taken(ver, s[n]) THEN d ELSE Append(d, s[n])
    BY <1>3
  <2>4. KeyOrder(s) => KeyOrder(d) /\ \A p \in 1 .. Len(d), q \in 1 .. T : q > n - 1 => d[p].key <= s[q].key
    BY <2>1
  <2>5. s[n] \in E /\ s[n].key \in Nat
    BY <1>1
  <2>6. \A q \in 1 .. T : (q > n => q > n - 1) /\ (n > n - 1)
    BY <1>1
  <2> HIDE DEF d
  <2>7. CASE taken(ver, s[n])
    <3>1. f[n] = d
      BY <2>3, <2>7
    <3>2. Len(f[n]) <= n
      BY <2>1, <2>2, <3>1
    <3>3. QED
      BY <2>1, <2>4, <2>6, <3>1, <3>2
  <2>8. CASE ~ taken(ver, s[n])
    <3> DEFINE g == f[n]
               k == Len(d)
    <3>1. g = Append(d, s[n])
      BY <2>3, <2>8
    <3>2. Len(g) = k + 1 /\ g[k + 1] = s[n] /\ \A p \in 1 .. k : g[p] = d[p]
      BY <2>2, <2>5, <3>1
    <3>3. \A p \in 1 .. Len(g) : p = k + 1 \/ p \in 1 .. k
      BY <2>2, <3>2
    <3>4. Len(g) <= n
      BY <2>1, <2>2, <3>2
    <3> HIDE DEF g
    <3>5. ASSUME KeyOrder(s) PROVE KeyOrder(g)
      <4>1. \A p \in 1 .. k : d[p].key <= s[n].key
        BY <2>4, <2>6, <3>5
      <4>2. \A p, q \in 1 .. k : p < q => d[p].key <= d[q].key
        BY <2>4, <3>5 DEF KeyOrder
      <4>3. k \in Nat
        BY <2>2
      <4> HIDE DEF k
      <4>4. ASSUME NEW p \in 1 .. Len(g), NEW q \in 1 .. Len(g), p < q PROVE g[p].key <= g[q].key
        <5>1. CASE q = k + 1
          <6>1. p \in 1 .. k
            BY <3>2, <4>3, <4>4, <5>1
          <6>2. QED
            BY <3>2, <4>1, <5>1, <6>1
        <5>2. CASE q # k + 1
          <6>1. p \in 1 .. k /\ q \in 1 .. k
            BY <3>2, <4>3, <4>4, <5>2
          <6>2. QED
            BY <3>2, <4>2, <4>4, <6>1
        <5>3. QED
          BY <5>1, <5>2
      <4>5. QED
        BY <4>4 DEF KeyOrder
    <3>6. ASSUME KeyOrder(s), NEW p \in 1 .. Len(g), NEW q \in 1 .. T, q > n
          PROVE  g[p].key <= s[q].key
      <4>1. s[n].key <= s[q].key
        BY <1>1, <3>6 DEF KeyOrder, T
      <4>2. p \in 1 .. k => d[p].key <= s[q].key
        BY <2>4, <2>6, <3>6
      <4>3. QED
        BY <3>2, <3>3, <4>1, <4>2
    <3>7. QED
      BY <2>1, <3>4, <3>5, <3>6 DEF g
  <2>9. QED
    BY <2>7, <2>8
<1> HIDE DEF P
<1>6. \A n \in 0 .. T : n \in P
  BY <1>1, <1>4, <1>5, UpTo
<1>7. T \in 0 .. T
  BY <1>1
<1>8. Len(f[T]) <= T /\ (KeyOrder(s) => KeyOrder(f[T]))
  BY <1>6, <1>7 DEF P
<1>9. f[T] \in Seq(E)
  BY <1>3, <1>7
<1>10. QED
  BY <1>3, <1>8, <1>9 DEF T

-----------------------------------------------------------------------------
(* What the operations of a block make of its record. *)

(* Two steps in a row only add to what has been written.                   *)
LEMMA GrowsTransitive ==
    ASSUME NEW E, NEW b \in Blocks, NEW x, NEW y, NEW z,
           BlockOK(b, x, E), BlockOK(b, y, E), BlockOK(b, z, E), Grows(x, y), Grows(y, z)
    PROVE  Grows(x, z)
PROOF
<1>1. /\ DOMAIN x.xs = 0 .. (capacity(b) - 1) /\ DOMAIN y.xs = 0 .. (capacity(b) - 1)
      /\ x.first \in Nat /\ y.first \in Nat /\ z.first \in Nat
      /\ y.first <= capacity(b) /\ z.first <= capacity(b) /\ capacity(b) \in Nat
  BY Sizes DEF BlockOK, BlockType, Array
<1>2. ASSUME NEW n \in x.first .. (z.first - 1) PROVE z.xs[n] # EMPTY
  <2>1. n \in x.first .. (y.first - 1) \/ n \in y.first .. (z.first - 1)
    BY <1>1
  <2>2. n \in 0 .. (capacity(b) - 1)
    BY <1>1
  <2>3. QED
    BY <1>1, <2>1, <2>2 DEF Grows
<1>3. QED
  BY <1>1, <1>2 DEF Grows

(* A change of the flags and the pointers only. *)
SameEntries(x, y) == y.first = x.first /\ y.last = x.last /\ y.xs = x.xs

(* Such a change keeps a block well formed and in order.                   *)
LEMMA SameEntriesKeep ==
    ASSUME NEW E, NEW b \in Blocks, NEW x, NEW y, BlockOK(b, x, E), SameEntries(x, y)
    PROVE  /\ Grows(x, y) /\ (Ordered(x) => Ordered(y))
           /\ y \in BlockType(b, E) => BlockOK(b, y, E)
PROOF
<1>1. x.first \in Nat
  BY DEF BlockOK, BlockType
<1>2. Grows(x, y)
  BY <1>1 DEF SameEntries, Grows
<1>3. Ordered(x) => Ordered(y)
  BY DEF SameEntries, Ordered
<1>4. y \in BlockType(b, E) => BlockOK(b, y, E)
  BY DEF SameEntries, BlockOK
<1>5. QED
  BY <1>2, <1>3, <1>4

(* Marking a block as used changes nothing else.                           *)
LEMMA SetUsedOK ==
    ASSUME NEW E, NEW b \in Blocks, NEW x, BlockOK(b, x, E)
    PROVE  LET y == set_used(x)
           IN  /\ BlockOK(b, y, E) /\ SameEntries(x, y)
               /\ y.used /\ y.next = x.next /\ y.prev = x.prev
PROOF
<1> DEFINE y == set_used(x)
<1>1. /\ y \in BlockType(b, E)
      /\ y.used /\ y.next = x.next /\ y.prev = x.prev
      /\ y.first = x.first /\ y.last = x.last /\ y.xs = x.xs
  BY DEF set_used, BlockOK, BlockType
<1>2. SameEntries(x, y)
  BY <1>1 DEF SameEntries
<1> HIDE DEF y
<1>3. QED
  BY <1>1, <1>2, SameEntriesKeep DEF y

(* An unused block is empty; its array keeps what was written.             *)
LEMMA UnusedOK ==
    ASSUME NEW E, NEW b \in Blocks, NEW x, BlockOK(b, x, E)
    PROVE  LET y == Unused(x)
           IN  /\ BlockOK(b, y, E) /\ Grows(x, y) /\ Ordered(y)
               /\ ~y.used /\ y.next = Null /\ y.prev = Null /\ y.first = 0 /\ y.last = 0
PROOF
<1> DEFINE y == Unused(x)
<1>1. /\ y \in BlockType(b, E)
      /\ y.used = FALSE /\ y.next = Null /\ y.prev = Null /\ y.first = 0 /\ y.last = 0
      /\ y.xs = x.xs
  BY DEF Unused, BlockOK, BlockType, Pointer
<1>2. x.first \in Nat /\ capacity(b) \in Nat
  BY Sizes DEF BlockOK, BlockType, Array
<1> HIDE DEF y
<1>3. Grows(x, y)
  BY <1>1, <1>2 DEF Grows
<1>4. BlockOK(b, y, E) /\ Ordered(y)
  BY <1>1, <1>2 DEF BlockOK, Ordered
<1>5. QED
  BY <1>1, <1>3, <1>4 DEF y

(* Writing the pointers of a block.                                        *)
LEMMA NextOK ==
    ASSUME NEW E, NEW b \in Blocks, NEW x, BlockOK(b, x, E), NEW p \in Pointer
    PROVE  LET y == [x EXCEPT !.next = p]
           IN  /\ BlockOK(b, y, E) /\ SameEntries(x, y)
               /\ y.used = x.used /\ y.next = p /\ y.prev = x.prev
PROOF
<1> DEFINE y == [x EXCEPT !.next = p]
<1>1. /\ y \in BlockType(b, E) /\ y.used = x.used /\ y.next = p /\ y.prev = x.prev
      /\ y.first = x.first /\ y.last = x.last /\ y.xs = x.xs
  BY DEF BlockOK, BlockType
<1> HIDE DEF y
<1>2. SameEntries(x, y)
  BY <1>1 DEF SameEntries
<1>3. BlockOK(b, y, E)
  BY <1>1, <1>2, SameEntriesKeep
<1>4. QED
  BY <1>1, <1>2, <1>3 DEF y

(* The same of m_prev.                                                     *)
LEMMA PrevOK ==
    ASSUME NEW E, NEW b \in Blocks, NEW x, BlockOK(b, x, E), NEW p \in Pointer
    PROVE  LET y == [x EXCEPT !.prev = p]
           IN  /\ BlockOK(b, y, E) /\ SameEntries(x, y)
               /\ y.used = x.used /\ y.next = x.next /\ y.prev = p
PROOF
<1> DEFINE y == [x EXCEPT !.prev = p]
<1>1. /\ y \in BlockType(b, E) /\ y.used = x.used /\ y.next = x.next /\ y.prev = p
      /\ y.first = x.first /\ y.last = x.last /\ y.xs = x.xs
  BY DEF BlockOK, BlockType
<1> HIDE DEF y
<1>2. SameEntries(x, y)
  BY <1>1 DEF SameEntries
<1>3. BlockOK(b, y, E)
  BY <1>1, <1>2, SameEntriesKeep
<1>4. QED
  BY <1>1, <1>2, <1>3 DEF y

(* Both pointers of a block are written.                                   *)
Pointing(x, p, q) == [x EXCEPT !.next = p, !.prev = q]

(* It stays well formed.                                                   *)
LEMMA PointersOK ==
    ASSUME NEW E, NEW b \in Blocks, NEW x, BlockOK(b, x, E), NEW p \in Pointer,
           NEW q \in Pointer
    PROVE  LET y == Pointing(x, p, q)
           IN  /\ BlockOK(b, y, E) /\ SameEntries(x, y)
               /\ y.used = x.used /\ y.next = p /\ y.prev = q
PROOF
<1> DEFINE y == Pointing(x, p, q)
<1>1. /\ y \in BlockType(b, E) /\ y.used = x.used /\ y.next = p /\ y.prev = q
      /\ y.first = x.first /\ y.last = x.last /\ y.xs = x.xs
  BY DEF Pointing, BlockOK, BlockType
<1> HIDE DEF y
<1>2. SameEntries(x, y)
  BY <1>1 DEF SameEntries
<1>3. BlockOK(b, y, E)
  BY <1>1, <1>2, SameEntriesKeep
<1>4. QED
  BY <1>1, <1>2, <1>3 DEF y

(* An entry is appended to an empty block.                                 *)
LEMMA InsertTailOK ==
    ASSUME NEW E, EMPTY \notin E, NEW b \in Blocks, NEW x, BlockOK(b, x, E),
           x.first = 0, x.last = 0, NEW e \in E
    PROVE  LET y == insert_tail(x, e)
           IN  /\ BlockOK(b, y, E) /\ Grows(x, y) /\ Ordered(y)
               /\ y.used = x.used /\ y.next = x.next /\ y.prev = x.prev
               /\ y.first = 0 /\ y.last = 1
PROOF
<1> DEFINE y == insert_tail(x, e)
<1>1. /\ capacity(b) \in Nat \ {0} /\ x.xs \in [0 .. (capacity(b) - 1) -> E \union {EMPTY}]
      /\ x.first = 0 /\ x.last = 0
  BY Sizes DEF BlockOK, BlockType, Array
<1>2. /\ y.used = x.used /\ y.next = x.next /\ y.prev = x.prev /\ y.first = x.first
      /\ y.last = x.last + 1 /\ y.xs = [x.xs EXCEPT ![x.last] = e]
  BY DEF insert_tail, BlockOK, BlockType
<1>3. /\ y.xs \in [0 .. (capacity(b) - 1) -> E \union {EMPTY}] /\ y.xs[0] = e
      /\ \A n \in 0 .. (capacity(b) - 1) : n # 0 => y.xs[n] = x.xs[n]
  BY <1>1, <1>2
<1>4. y \in BlockType(b, E)
  <2>1. y.last \in Nat /\ y.first \in Nat
    BY <1>1, <1>2
  <2>2. [x EXCEPT !.xs = y.xs, !.last = y.last] \in BlockType(b, E)
    BY <1>3, <2>1 DEF BlockOK, BlockType, Array
  <2>3. y = [x EXCEPT !.xs = y.xs, !.last = y.last]
    BY DEF insert_tail, BlockOK, BlockType
  <2>4. QED
    BY <2>2, <2>3
<1> HIDE DEF y
<1>5. y.first = 0 /\ y.last = 1
  BY <1>1, <1>2
<1>6. BlockOK(b, y, E)
  BY <1>1, <1>3, <1>4, <1>5 DEF BlockOK
<1>7. Grows(x, y)
  <2>1. ASSUME NEW n \in DOMAIN x.xs, x.xs[n] # EMPTY PROVE y.xs[n] # EMPTY
    BY <1>1, <1>3, <2>1
  <2>2. QED
    BY <1>1, <1>5, <2>1 DEF Grows
<1>8. Ordered(y)
  BY <1>5 DEF Ordered
<1>9. QED
  BY <1>2, <1>5, <1>6, <1>7, <1>8 DEF y

(* Writing entries to the front of an array.                               *)
LEMMA OverwriteOK ==
    ASSUME NEW E, EMPTY \notin E, NEW b \in Blocks, NEW xs \in Array(b, E),
           NEW s \in Seq(E), Len(s) <= capacity(b)
    PROVE  LET ys == Overwrite(xs, s)
           IN  /\ ys \in Array(b, E)
               /\ \A n \in 0 .. (Len(s) - 1) : n \in 0 .. (capacity(b) - 1) /\ ys[n] = s[n + 1] /\ ys[n] \in E
               /\ \A n \in 0 .. (capacity(b) - 1) : n >= Len(s) => ys[n] = xs[n]
               /\ \A n \in 0 .. (capacity(b) - 1) : xs[n] # EMPTY => ys[n] # EMPTY
PROOF
<1> DEFINE ys == Overwrite(xs, s)
           c == capacity(b)
<1>0. c \in Nat /\ xs \in [0 .. (c - 1) -> E \union {EMPTY}] /\ Len(s) \in Nat /\ Len(s) <= c
  BY Sizes DEF Array
<1> HIDE DEF c
<1>1. \A n \in 0 .. (c - 1) : n < Len(s) => n + 1 \in 1 .. Len(s) /\ s[n + 1] \in E
  BY <1>0
<1>2. ys = [n \in 0 .. (c - 1) |-> IF n < Len(s) THEN s[n + 1] ELSE xs[n]]
  BY <1>0 DEF Overwrite
<1>3. \A n \in 0 .. (Len(s) - 1) : n \in 0 .. (c - 1) /\ n < Len(s)
  BY <1>0
<1>4. \A n \in 0 .. (c - 1) : n >= Len(s) => ~ (n < Len(s))
  BY <1>0
<1> HIDE DEF ys
<1>5. ys \in [0 .. (c - 1) -> E \union {EMPTY}]
  BY <1>0, <1>1, <1>2
<1>6. \A n \in 0 .. (c - 1) : xs[n] # EMPTY => ys[n] # EMPTY
  BY <1>0, <1>1, <1>2
<1>7. \A n \in 0 .. (Len(s) - 1) : n \in 0 .. (c - 1) /\ ys[n] = s[n + 1] /\ ys[n] \in E
  BY <1>1, <1>2, <1>3
<1>8. \A n \in 0 .. (c - 1) : n >= Len(s) => ys[n] = xs[n]
  BY <1>2, <1>4
<1>9. QED
  BY <1>5, <1>6, <1>7, <1>8 DEF ys, c, Array

(* Writing entries to an empty block, some of them again after pruning.    *)
LEMMA StoredOK ==
    ASSUME NEW E, NEW b \in Blocks, NEW x, BlockOK(b, x, E), x.first = 0,
           NEW y \in BlockType(b, E), NEW s \in Seq(E), Len(s) <= capacity(b),
           y.first = 0, y.last = Len(s),
           \A n \in 0 .. (Len(s) - 1) : y.xs[n] = s[n + 1],
           \A n \in 0 .. (capacity(b) - 1) : x.xs[n] # EMPTY => y.xs[n] # EMPTY
    PROVE  BlockOK(b, y, E) /\ Grows(x, y) /\ (KeyOrder(s) => Ordered(y))
PROOF
<1>1. /\ DOMAIN x.xs = 0 .. (capacity(b) - 1) /\ Len(s) \in Nat /\ capacity(b) \in Nat
  BY Sizes DEF BlockOK, BlockType, Array
<1>2. \A n \in 0 .. (Len(s) - 1) : n + 1 \in 1 .. Len(s) /\ s[n + 1] \in E
  BY <1>1
<1>3. BlockOK(b, y, E)
  BY <1>1, <1>2 DEF BlockOK
<1>4. Grows(x, y)
  BY <1>1 DEF Grows
<1>5. ASSUME KeyOrder(s) PROVE Ordered(y)
  <2> SUFFICES ASSUME NEW m \in 0 .. (Len(s) - 1), NEW n \in 0 .. (Len(s) - 1), m < n
               PROVE  y.xs[m].key <= y.xs[n].key
    BY DEF Ordered
  <2>1. m + 1 < n + 1
    OBVIOUS
  <2>2. s[m + 1].key <= s[n + 1].key
    BY <1>2, <1>5, <2>1 DEF KeyOrder
  <2>3. QED
    BY <2>2
<1>6. QED
  BY <1>3, <1>4, <1>5

(* The entries of s at the front of a block, and what a merge keeps of     *)
(* those of two blocks.                                                    *)
Stores(y, s) ==
    /\ y.first = 0 /\ y.last = Len(s)
    /\ \A n \in 0 .. (Len(s) - 1) : y.xs[n] = s[n + 1]
Remaining(ver, lhs, rhs, prune) ==
    LET all == Merged(Active(lhs), Active(rhs))
    IN  IF prune THEN Untaken(ver, all) ELSE all

(* A merge of two ordered blocks is an ordered block.                      *)
LEMMA MergeIntoOK ==
    ASSUME NEW E, EMPTY \notin E, \A e \in E : e.key \in Nat, NEW ver,
           NEW b \in Blocks, NEW x, BlockOK(b, x, E), x.first = 0,
           NEW bl \in Blocks, NEW lhs, BlockOK(bl, lhs, E),
           NEW br \in Blocks, NEW rhs, BlockOK(br, rhs, E),
           size(lhs) + size(rhs) <= capacity(b), NEW prune \in BOOLEAN
    PROVE  LET y == MergeInto(ver, x, lhs, rhs, prune)
           IN  /\ BlockOK(b, y, E) /\ Grows(x, y)
               /\ (Ordered(lhs) /\ Ordered(rhs) => Ordered(y))
               /\ y.used = x.used /\ y.next = x.next /\ y.prev = x.prev /\ y.first = 0
               /\ Stores(y, Remaining(ver, lhs, rhs, prune))
PROOF
<1> DEFINE l == Active(lhs)
           r == Active(rhs)
           all == Merged(l, r)
           kept == IF prune THEN Untaken(ver, all) ELSE all
           c == capacity(b)
           one == Overwrite(x.xs, all)
           two == Overwrite(one, kept)
           y == MergeInto(ver, x, lhs, rhs, prune)
<1>1. /\ l \in Seq(E) /\ Len(l) = size(lhs) /\ r \in Seq(E) /\ Len(r) = size(rhs)
      /\ (Ordered(lhs) => KeyOrder(l)) /\ (Ordered(rhs) => KeyOrder(r))
      /\ size(lhs) \in Nat /\ size(rhs) \in Nat
  BY ActiveSeq
<1>2. c \in Nat /\ x.xs \in Array(b, E)
  BY Sizes DEF BlockOK, BlockType, Array
<1>3. /\ y = [x EXCEPT !.xs = two, !.last = Len(kept)]
      /\ Remaining(ver, lhs, rhs, prune) = kept
  BY DEF MergeInto, Remaining
<1> HIDE DEF l, r, y
<1>4. /\ all \in Seq(E) /\ Len(all) = Len(l) + Len(r)
      /\ (KeyOrder(l) /\ KeyOrder(r) => KeyOrder(all))
  BY <1>1, MergedOrder
<1>5. Len(all) \in Nat /\ Len(all) <= c
  BY <1>1, <1>4
<1> HIDE DEF all
<1>6. /\ kept \in Seq(E) /\ Len(kept) \in Nat /\ Len(kept) <= Len(all)
      /\ (KeyOrder(all) => KeyOrder(kept))
  <2>1. CASE prune
    BY <1>4, <2>1, UntakenOrder
  <2>2. CASE ~prune
    BY <1>4, <1>5, <2>2
  <2>3. QED
    BY <2>1, <2>2
<1> HIDE DEF kept, c
<1>7. Len(kept) <= c
  BY <1>2, <1>5, <1>6
<1>8. /\ one \in Array(b, E)
      /\ \A n \in 0 .. (c - 1) : x.xs[n] # EMPTY => one[n] # EMPTY
  BY <1>2, <1>4, <1>5, OverwriteOK DEF c
<1> HIDE DEF one
<1>9. /\ two \in Array(b, E)
      /\ \A n \in 0 .. (c - 1) : one[n] # EMPTY => two[n] # EMPTY
      /\ \A n \in 0 .. (Len(kept) - 1) : two[n] = kept[n + 1]
  BY <1>2, <1>6, <1>7, <1>8, OverwriteOK DEF c
<1> HIDE DEF two
<1>10. \A n \in 0 .. (c - 1) : x.xs[n] # EMPTY => two[n] # EMPTY
  BY <1>8, <1>9
<1>11. /\ y \in BlockType(b, E) /\ y.used = x.used /\ y.next = x.next /\ y.prev = x.prev
       /\ y.first = 0 /\ y.last = Len(kept) /\ y.xs = two
  BY <1>3, <1>6, <1>9 DEF BlockOK, BlockType
<1>12. BlockOK(b, y, E) /\ Grows(x, y) /\ (KeyOrder(kept) => Ordered(y))
  BY <1>6, <1>7, <1>9, <1>10, <1>11, StoredOK DEF c
<1>13. Stores(y, Remaining(ver, lhs, rhs, prune))
  BY <1>3, <1>9, <1>11 DEF Stores
<1>14. QED
  BY <1>1, <1>4, <1>6, <1>11, <1>12, <1>13 DEF y

(* A copy of an ordered block is ordered, and no larger.                   *)
LEMMA CopyIntoOK ==
    ASSUME NEW E, EMPTY \notin E, \A e \in E : e.key \in Nat, NEW ver,
           NEW b \in Blocks, NEW x, BlockOK(b, x, E), x.first = 0,
           NEW bt \in Blocks, NEW that, BlockOK(bt, that, E), size(that) <= capacity(b)
    PROVE  LET y == CopyInto(ver, x, that)
           IN  /\ BlockOK(b, y, E) /\ Grows(x, y) /\ (Ordered(that) => Ordered(y))
               /\ y.used = x.used /\ y.next = x.next /\ y.prev = x.prev /\ y.first = 0
               /\ size(y) <= size(that)
               /\ Stores(y, Untaken(ver, Active(that)))
PROOF
<1> DEFINE s == Active(that)
           kept == Untaken(ver, s)
           c == capacity(b)
           one == Overwrite(x.xs, kept)
           y == CopyInto(ver, x, that)
<1>1. /\ s \in Seq(E) /\ Len(s) = size(that) /\ (Ordered(that) => KeyOrder(s))
      /\ size(that) \in Nat
  BY ActiveSeq
<1>2. c \in Nat /\ x.xs \in Array(b, E)
  BY Sizes DEF BlockOK, BlockType, Array
<1>3. y = [x EXCEPT !.xs = one, !.last = Len(kept)] /\ Untaken(ver, Active(that)) = kept
  BY DEF CopyInto
<1> HIDE DEF s, y
<1>4. /\ kept \in Seq(E) /\ Len(kept) \in Nat /\ Len(kept) <= Len(s)
      /\ (KeyOrder(s) => KeyOrder(kept))
  BY <1>1, UntakenOrder
<1> HIDE DEF kept, c
<1>5. Len(kept) <= c
  BY <1>1, <1>2, <1>4 DEF c
<1>6. /\ one \in Array(b, E)
      /\ \A n \in 0 .. (c - 1) : x.xs[n] # EMPTY => one[n] # EMPTY
      /\ \A n \in 0 .. (Len(kept) - 1) : one[n] = kept[n + 1]
  BY <1>2, <1>4, <1>5, OverwriteOK DEF c
<1> HIDE DEF one
<1>7. /\ y \in BlockType(b, E) /\ y.used = x.used /\ y.next = x.next /\ y.prev = x.prev
      /\ y.first = 0 /\ y.last = Len(kept) /\ y.xs = one
  BY <1>3, <1>4, <1>6 DEF BlockOK, BlockType
<1>8. BlockOK(b, y, E) /\ Grows(x, y) /\ (KeyOrder(kept) => Ordered(y))
  BY <1>4, <1>5, <1>6, <1>7, StoredOK DEF c
<1>9. size(y) <= size(that)
  BY <1>1, <1>4, <1>7 DEF size
<1>10. Stores(y, Untaken(ver, Active(that)))
  BY <1>3, <1>6, <1>7 DEF Stores
<1>11. QED
  BY <1>1, <1>4, <1>7, <1>8, <1>9, <1>10 DEF y

(* peek() finds the first entry that is not taken.                         *)
LEMMA PeekFirstIs ==
    ASSUME NEW E, NEW ver, NEW b \in Blocks, NEW x, BlockOK(b, x, E)
    PROVE  LET f == PeekFirst(ver, x)
           IN  /\ f \in x.first .. x.last
               /\ f < x.last => ~taken(ver, x.xs[f])
               /\ \A m \in x.first .. (f - 1) : taken(ver, x.xs[m])
PROOF
<1>1. x.first \in Nat /\ x.last \in Nat /\ x.first <= x.last
  BY DEF BlockOK, BlockType
<1> DEFINE S == {n \in x.first .. x.last : n < x.last => ~taken(ver, x.xs[n])}
<1>2. S \in SUBSET Nat /\ x.last \in S
  BY <1>1
<1>3. PICK n \in S : \A m \in S : n <= m
  BY <1>2, SmallestElement
<1>4. ASSUME NEW m \in x.first .. (n - 1) PROVE taken(ver, x.xs[m])
  <2>1. m \notin S
    BY <1>1, <1>2, <1>3
  <2>2. m \in x.first .. x.last /\ m < x.last
    BY <1>1, <1>2
  <2>3. QED
    BY <2>1, <2>2
<1>5. n \in x.first .. x.last /\ (n < x.last => ~taken(ver, x.xs[n]))
  BY <1>3
<1> HIDE DEF S
<1>6. \E k \in x.first .. x.last :
         /\ k < x.last => ~taken(ver, x.xs[k])
         /\ \A m \in x.first .. (k - 1) : taken(ver, x.xs[m])
  BY <1>4, <1>5
<1>7. QED
  BY <1>6, Zenon DEF PeekFirst

(* peek() leaves m_first on an entry that is not taken, or at the end.     *)
LEMMA PeekOK ==
    ASSUME NEW E, EMPTY \notin E, NEW ver, NEW b \in Blocks, NEW x, BlockOK(b, x, E)
    PROVE  LET y == PeekBlock(ver, x)
           IN  /\ BlockOK(b, y, E) /\ Grows(x, y) /\ (Ordered(x) => Ordered(y))
               /\ y.used = x.used /\ y.next = x.next /\ y.prev = x.prev
               /\ x.first <= y.first /\ y.last = x.last /\ y.xs = x.xs
               /\ PeekItem(ver, x) \in E \union {EMPTY}
PROOF
<1> DEFINE y == PeekBlock(ver, x)
           f == PeekFirst(ver, x)
<1>1. /\ x.first \in Nat /\ x.last \in Nat /\ x.first <= x.last /\ x.last <= capacity(b)
      /\ \A n \in x.first .. (x.last - 1) : x.xs[n] \in E
      /\ x \in BlockType(b, E)
  BY DEF BlockOK, BlockType
<1>2. f \in x.first .. x.last
  BY PeekFirstIs
<1>3. y = [x EXCEPT !.first = f]
  BY DEF PeekBlock
<1>4. PeekItem(ver, x) = IF f = x.last THEN EMPTY ELSE x.xs[f]
  BY Zenon DEF PeekItem
<1> HIDE DEF f, y
<1>5. /\ y \in BlockType(b, E) /\ y.used = x.used /\ y.next = x.next /\ y.prev = x.prev
      /\ y.first = f /\ y.last = x.last /\ y.xs = x.xs
  BY <1>1, <1>2, <1>3 DEF BlockType
<1>6. \A n \in f .. (x.last - 1) : n \in x.first .. (x.last - 1)
  BY <1>1, <1>2
<1>7. BlockOK(b, y, E)
  BY <1>1, <1>2, <1>5, <1>6 DEF BlockOK
<1>8. Grows(x, y)
  <2>1. \A n \in x.first .. (f - 1) : n \in x.first .. (x.last - 1)
    BY <1>1, <1>2
  <2>2. QED
    BY <1>1, <1>5, <2>1 DEF Grows
<1>9. Ordered(x) => Ordered(y)
  BY <1>5, <1>6 DEF Ordered
<1>10. PeekItem(ver, x) \in E \union {EMPTY}
  <2>1. f # x.last => f \in x.first .. (x.last - 1)
    BY <1>1, <1>2
  <2>2. QED
    BY <1>1, <1>4, <2>1
<1>11. QED
  BY <1>1, <1>2, <1>5, <1>7, <1>8, <1>9, <1>10 DEF y

(* Forgetting what lies outside the active range changes nothing else.     *)
LEMMA TrimOK ==
    ASSUME NEW E, NEW b \in Blocks, NEW x, BlockOK(b, x, E)
    PROVE  LET y == Trim(x)
           IN  /\ BlockOK(b, y, E) /\ (Ordered(x) => Ordered(y))
               /\ y.used = x.used /\ y.next = x.next /\ y.prev = x.prev
               /\ y.first = x.first /\ y.last = x.last
               /\ \A n \in x.first .. (x.last - 1) : y.xs[n] = x.xs[n]
PROOF
<1> DEFINE y == Trim(x)
<1>1. /\ x.first \in Nat /\ x.last \in Nat /\ x.first <= x.last /\ x.last <= capacity(b)
      /\ \A n \in x.first .. (x.last - 1) : x.xs[n] \in E
      /\ x.xs \in Array(b, E) /\ DOMAIN x.xs = 0 .. (capacity(b) - 1)
      /\ capacity(b) \in Nat
      /\ x \in BlockType(b, E)
  BY Sizes DEF BlockOK, BlockType, Array
<1>2. /\ y.used = x.used /\ y.next = x.next /\ y.prev = x.prev
      /\ y.first = x.first /\ y.last = x.last
      /\ y.xs = [n \in 0 .. (capacity(b) - 1) |->
                    IF x.first <= n /\ n < x.last THEN x.xs[n] ELSE EMPTY]
      /\ y = [x EXCEPT !.xs = y.xs]
  BY <1>1 DEF Trim, BlockType
<1> HIDE DEF y
<1>3. y.xs \in [0 .. (capacity(b) - 1) -> E \union {EMPTY}]
  BY <1>1, <1>2
<1>4. y \in BlockType(b, E)
  <2>1. [x EXCEPT !.xs = y.xs] \in BlockType(b, E)
    BY <1>1, <1>3 DEF BlockType, Array
  <2>2. QED
    BY <1>2, <2>1
<1>5. \A n \in x.first .. (x.last - 1) :
         n \in 0 .. (capacity(b) - 1) /\ x.first <= n /\ n < x.last
  BY <1>1
<1>6. \A n \in x.first .. (x.last - 1) : y.xs[n] = x.xs[n]
  BY <1>2, <1>5
<1>7. BlockOK(b, y, E)
  BY <1>1, <1>2, <1>4, <1>6 DEF BlockOK
<1>8. Ordered(x) => Ordered(y)
  BY <1>2, <1>6 DEF Ordered
<1>9. QED
  BY <1>2, <1>6, <1>7, <1>8 DEF y

-----------------------------------------------------------------------------
(* Three blocks of a size at most are in use: get_block finds another one. *)
LEMMA GetBlockUnused ==
    ASSUME N >= 4, NEW bs, NEW p \in 0 .. MaxPow, NEW x, NEW y, NEW z,
           \A b \in Blocks : pow(b) = p /\ bs[b].used => b \in {x, y, z}
    PROVE  /\ get_block(bs, p) \in Blocks /\ pow(get_block(bs, p)) = p
           /\ ~bs[get_block(bs, p)].used
PROOF
<1> DEFINE free(j) == ~bs[<<p, j>>].used
           S == {j \in 1 .. N : j = N \/ free(j)}
<1>1. N \in Nat /\ \A j \in 1 .. N : <<p, j>> \in Blocks /\ pow(<<p, j>>) = p
  BY Sizes
<1>2. \A j \in 1 .. N : ~free(j) => <<p, j>> \in {x, y, z}
  BY <1>1
<1>3. \E j \in 1 .. N : free(j)
  <2> SUFFICES ASSUME \A j \in 1 .. N : ~free(j) PROVE FALSE
    OBVIOUS
  <2>1. 1 \in 1 .. N /\ 2 \in 1 .. N /\ 3 \in 1 .. N /\ 4 \in 1 .. N
    BY <1>1
  <2> HIDE DEF free
  <2>2. <<p, 1>> \in {x, y, z} /\ <<p, 2>> \in {x, y, z} /\ <<p, 3>> \in {x, y, z} /\ <<p, 4>> \in {x, y, z}
    BY <1>2, <2>1
  <2>3. <<p, 1>> # <<p, 2>> /\ <<p, 1>> # <<p, 3>> /\ <<p, 1>> # <<p, 4>>
    OBVIOUS
  <2>4. <<p, 2>> # <<p, 3>> /\ <<p, 2>> # <<p, 4>> /\ <<p, 3>> # <<p, 4>>
    OBVIOUS
  <2>5. QED
    BY <2>2, <2>3, <2>4
<1> DEFINE Last(j) == /\ j = N \/ ~bs[<<p, j>>].used
                      /\ \A k \in 1 .. (j - 1) : bs[<<p, k>>].used
           c == CHOOSE j \in 1 .. N : Last(j)
<1>4. \E j \in 1 .. N : Last(j)
  <2>1. S \in SUBSET Nat /\ N \in S
    BY <1>1
  <2>2. PICK j \in S : \A k \in S : j <= k
    BY <2>1, SmallestElement
  <2>3. ASSUME NEW k \in 1 .. (j - 1) PROVE bs[<<p, k>>].used
    <3>1. k \notin S
      BY <1>1, <2>1, <2>2
    <3>2. k \in 1 .. N
      BY <1>1, <2>2
    <3>3. QED
      BY <3>1, <3>2
  <2>4. QED
    BY <2>2, <2>3
<1>5. c \in 1 .. N /\ Last(c)
  <2> HIDE DEF Last
  <2> QED
    BY <1>4
<1>6. get_block(bs, p) = <<p, c>>
  BY Zenon DEF get_block
<1> HIDE DEF c
<1>7. free(c)
  <2>1. CASE c = N
    <3> SUFFICES ASSUME ~free(c) PROVE FALSE
      OBVIOUS
    <3>1. \A k \in 1 .. N : k = N \/ k \in 1 .. (N - 1)
      BY <1>1
    <3>2. \A k \in 1 .. N : ~free(k)
      BY <1>5, <2>1, <3>1
    <3>3. QED
      BY <1>3, <3>2
  <2>2. CASE c # N
    BY <1>5, <2>2
  <2>3. QED
    BY <2>1, <2>2
<1>8. QED
  BY <1>1, <1>5, <1>6, <1>7
-----------------------------------------------------------------------------
(* Which entries a sequence and a block hold, and how often. *)

Has(s, e)     == \E n \in 1 .. Len(s) : s[n] = e
HasOnce(s, e) == \A m, n \in 1 .. Len(s) : s[m] = e /\ s[n] = e => m = n
In(x, e)      == \E n \in x.first .. (x.last - 1) : x.xs[n] = e
Once(x, e)    == \A m, n \in x.first .. (x.last - 1) : x.xs[m] = e /\ x.xs[n] = e => m = n

(* A merge holds what its parts hold, and nothing twice that is in one     *)
(* place of them.                                                          *)
LEMMA MergedHolds ==
    ASSUME NEW E, NEW l \in Seq(E), NEW r \in Seq(E), NEW e
    PROVE  /\ Has(Merged(l, r), e) <=> Has(l, e) \/ Has(r, e)
           /\ HasOnce(l, e) /\ HasOnce(r, e) /\ ~(Has(l, e) /\ Has(r, e))
                 => HasOnce(Merged(l, r), e)
PROOF
<1> DEFINE T == Len(l) + Len(r)
<1>1. T \in Nat /\ Len(l) \in Nat /\ Len(r) \in Nat
  OBVIOUS
<1>2. PICK f : MergeRun(E, l, r, f)
  BY MergeRounds
<1>3. /\ f \in [0 .. T -> [i : Nat, dst : Seq(E)]]
      /\ Merged(l, r) = f[T].dst
      /\ f[0].i = 0 /\ f[0].dst = <<>>
      /\ \A n \in 0 .. T :
            f[n].i \in 0 .. Len(l) /\ n - f[n].i \in 0 .. Len(r) /\ Len(f[n].dst) = n
      /\ \A n \in 1 .. T :
            LET i == f[n - 1].i
                j == n - 1 - i
            IN  \/ /\ i < Len(l) /\ (j < Len(r) => l[i + 1].key < r[j + 1].key)
                   /\ f[n].i = i + 1 /\ f[n].dst = Append(f[n - 1].dst, l[i + 1])
                \/ /\ j < Len(r) /\ (i < Len(l) => ~ (l[i + 1].key < r[j + 1].key))
                   /\ f[n].i = i /\ f[n].dst = Append(f[n - 1].dst, r[j + 1])
  BY <1>2, Zenon DEF MergeRun
<1> DEFINE Apart == HasOnce(l, e) /\ HasOnce(r, e) /\ ~(Has(l, e) /\ Has(r, e))
           Front(s, k) == \E q \in 1 .. k : s[q] = e
           Holds(n) == /\ Has(f[n].dst, e) <=> Front(l, f[n].i) \/ Front(r, n - f[n].i)
                       /\ Apart => HasOnce(f[n].dst, e)
           P == {n \in 0 .. T : Holds(n)}
<1> HIDE DEF T
<1>4. 0 \in P
  <2>1. Len(f[0].dst) = 0 /\ f[0].i = 0 /\ 0 \in 0 .. T
    BY <1>1, <1>3
  <2>2. QED
    BY <2>1 DEF Has, HasOnce
<1>5. ASSUME NEW n \in 1 .. T, n - 1 \in P PROVE n \in P
  <2> DEFINE i == f[n - 1].i
             j == n - 1 - i
             d == f[n - 1].dst
             g == f[n].dst
  <2>1. n - 1 \in 0 .. T /\ n \in 0 .. T /\ n \in Nat /\ Holds(n - 1)
    BY <1>1, <1>5
  <2>2. i \in 0 .. Len(l) /\ j \in 0 .. Len(r) /\ Len(d) = n - 1 /\ d \in Seq(E)
    BY <1>3, <2>1
  <2>3. \/ i < Len(l) /\ f[n].i = i + 1 /\ g = Append(d, l[i + 1])
        \/ j < Len(r) /\ f[n].i = i /\ g = Append(d, r[j + 1])
    BY <1>3
  <2>4. /\ Has(d, e) <=> Front(l, i) \/ Front(r, j)
        /\ Apart => HasOnce(d, e)
    BY <2>1
  <2>5. n - 1 - i = j /\ n - (i + 1) = j /\ n - i = j + 1
    BY <2>1, <2>2
  <2> HIDE DEF i, j, d, g
  <2>6. ASSUME NEW c, g = Append(d, c)
        PROVE  /\ Has(g, e) <=> Has(d, e) \/ c = e
               /\ HasOnce(d, e) /\ ~(Has(d, e) /\ c = e) => HasOnce(g, e)
    <3>1. Len(g) = n /\ g[n] = c /\ \A p \in 1 .. (n - 1) : g[p] = d[p]
      BY <2>1, <2>2, <2>6
    <3>2. \A p \in 1 .. n : p = n \/ p \in 1 .. (n - 1)
      BY <2>1
    <3>3. n \in 1 .. n /\ \A p \in 1 .. (n - 1) : p \in 1 .. n
      BY <2>1
    <3>4. Has(g, e) <=> Has(d, e) \/ c = e
      BY <2>2, <3>1, <3>2, <3>3 DEF Has
    <3>5. HasOnce(d, e) /\ ~(Has(d, e) /\ c = e) => HasOnce(g, e)
      BY <2>2, <3>1, <3>2 DEF Has, HasOnce
    <3>6. QED
      BY <3>4, <3>5
  <2>7. CASE i < Len(l) /\ f[n].i = i + 1 /\ g = Append(d, l[i + 1])
    <3>1. i + 1 \in 1 .. Len(l) /\ \A q \in 1 .. (i + 1) : q = i + 1 \/ q \in 1 .. i
      BY <1>1, <2>2, <2>7
    <3>2. \A q \in 1 .. i : q \in 1 .. Len(l) /\ q # i + 1 /\ q \in 1 .. (i + 1)
      BY <1>1, <2>2, <2>7
    <3>3. \A q \in 1 .. j : q \in 1 .. Len(r)
      BY <1>1, <2>2
    <3>4. i + 1 \in 1 .. (i + 1)
      BY <2>2
    <3>5. Front(l, i + 1) <=> Front(l, i) \/ l[i + 1] = e
      BY <3>1, <3>2, <3>4
    <3>6. Has(g, e) <=> Front(l, f[n].i) \/ Front(r, n - f[n].i)
      BY <2>4, <2>5, <2>6, <2>7, <3>5
    <3>7. ASSUME Apart PROVE HasOnce(g, e)
      <4>1. ~(Has(d, e) /\ l[i + 1] = e)
        BY <2>4, <3>1, <3>2, <3>3, <3>7 DEF Has, HasOnce
      <4>2. QED
        BY <2>4, <2>6, <2>7, <3>7, <4>1
    <3>8. QED
      BY <2>1, <3>6, <3>7 DEF g
  <2>8. CASE j < Len(r) /\ f[n].i = i /\ g = Append(d, r[j + 1])
    <3>1. j + 1 \in 1 .. Len(r) /\ \A q \in 1 .. (j + 1) : q = j + 1 \/ q \in 1 .. j
      BY <1>1, <2>2, <2>8
    <3>2. \A q \in 1 .. j : q \in 1 .. Len(r) /\ q # j + 1 /\ q \in 1 .. (j + 1)
      BY <1>1, <2>2, <2>8
    <3>3. \A q \in 1 .. i : q \in 1 .. Len(l)
      BY <1>1, <2>2
    <3>4. j + 1 \in 1 .. (j + 1)
      BY <2>2
    <3>5. Front(r, j + 1) <=> Front(r, j) \/ r[j + 1] = e
      BY <3>1, <3>2, <3>4
    <3>6. Has(g, e) <=> Front(l, f[n].i) \/ Front(r, n - f[n].i)
      BY <2>4, <2>5, <2>6, <2>8, <3>5
    <3>7. ASSUME Apart PROVE HasOnce(g, e)
      <4>1. ~(Has(d, e) /\ r[j + 1] = e)
        BY <2>4, <3>1, <3>2, <3>3, <3>7 DEF Has, HasOnce
      <4>2. QED
        BY <2>4, <2>6, <2>8, <3>7, <4>1
    <3>8. QED
      BY <2>1, <3>6, <3>7 DEF g
  <2>9. QED
    BY <2>3, <2>7, <2>8
<1> HIDE DEF P
<1>6. \A n \in 0 .. T : n \in P
  BY <1>1, <1>4, <1>5, UpTo
<1>7. T \in 0 .. T
  BY <1>1
<1>8. Holds(T)
  BY <1>6, <1>7 DEF P
<1>9. f[T].i = Len(l) /\ T - f[T].i = Len(r)
  <2>1. f[T].i \in 0 .. Len(l) /\ T - f[T].i \in 0 .. Len(r)
    BY <1>3, <1>7
  <2>2. QED
    BY <1>1, <2>1 DEF T
<1>10. QED
  BY <1>3, <1>8, <1>9 DEF Has

(* Pruning leaves exactly the entries that are not taken.                  *)
LEMMA UntakenHolds ==
    ASSUME NEW E, NEW ver, NEW s \in Seq(E), NEW e
    PROVE  /\ Has(Untaken(ver, s), e) <=> Has(s, e) /\ ~taken(ver, e)
           /\ HasOnce(s, e) => HasOnce(Untaken(ver, s), e)
PROOF
<1> DEFINE T == Len(s)
<1>1. T \in Nat /\ \A n \in 1 .. T : s[n] \in E
  OBVIOUS
<1>2. PICK f : KeptRun(E, ver, s, f)
  BY KeptRounds
<1>3. /\ f \in [0 .. T -> Seq(E)] /\ Untaken(ver, s) = f[T] /\ f[0] = <<>>
      /\ \A n \in 1 .. T : f[n] = IF taken(ver, s[n]) THEN f[n - 1] ELSE Append(f[n - 1], s[n])
  BY <1>2, Zenon DEF KeptRun
<1> DEFINE Holds(n) == /\ Has(f[n], e) <=> (\E q \in 1 .. n : s[q] = e) /\ ~taken(ver, e)
                       /\ HasOnce(s, e) => HasOnce(f[n], e)
           P == {n \in 0 .. T : Holds(n)}
<1> HIDE DEF T
<1>4. 0 \in P
  <2>1. Len(f[0]) = 0 /\ 0 \in 0 .. T
    BY <1>1, <1>3
  <2>2. QED
    BY <2>1 DEF Has, HasOnce
<1>5. ASSUME NEW n \in 1 .. T, n - 1 \in P PROVE n \in P
  <2> DEFINE d == f[n - 1]
             k == Len(d)
  <2>1. n - 1 \in 0 .. T /\ n \in 0 .. T /\ n \in Nat /\ Holds(n - 1)
    BY <1>1, <1>5
  <2>2. d \in Seq(E) /\ k \in Nat
    BY <1>3, <2>1
  <2>3. f[n] = IF taken(ver, s[n]) THEN d ELSE Append(d, s[n])
    BY <1>3
  <2>4. /\ Has(d, e) <=> (\E q \in 1 .. (n - 1) : s[q] = e) /\ ~taken(ver, e)
        /\ HasOnce(s, e) => HasOnce(d, e)
    BY <2>1
  <2>5. /\ \A q \in 1 .. n : q = n \/ q \in 1 .. (n - 1)
        /\ \A q \in 1 .. (n - 1) : q \in 1 .. n /\ q # n
        /\ n \in 1 .. n
    BY <2>1
  <2>6. (\E q \in 1 .. n : s[q] = e) <=> (\E q \in 1 .. (n - 1) : s[q] = e) \/ s[n] = e
    BY <2>5
  <2> HIDE DEF d, k
  <2>7. CASE taken(ver, s[n])
    <3>1. f[n] = d
      BY <2>3, <2>7
    <3>2. QED
      BY <2>1, <2>4, <2>6, <2>7, <3>1
  <2>8. CASE ~taken(ver, s[n])
    <3> DEFINE g == f[n]
    <3>1. g = Append(d, s[n])
      BY <2>3, <2>8
    <3>2. Len(g) = k + 1 /\ g[k + 1] = s[n] /\ \A p \in 1 .. k : g[p] = d[p]
      BY <2>2, <3>1 DEF k
    <3>3. /\ \A p \in 1 .. (k + 1) : p = k + 1 \/ p \in 1 .. k
          /\ \A p \in 1 .. k : p \in 1 .. (k + 1)
          /\ k + 1 \in 1 .. (k + 1)
      BY <2>2
    <3> HIDE DEF g
    <3>4. Has(g, e) <=> Has(d, e) \/ s[n] = e
      BY <3>2, <3>3 DEF Has, k
    <3>5. HasOnce(d, e) /\ ~(Has(d, e) /\ s[n] = e) => HasOnce(g, e)
      BY <3>2, <3>3 DEF Has, HasOnce, k
    <3>6. Has(g, e) <=> (\E q \in 1 .. n : s[q] = e) /\ ~taken(ver, e)
      BY <2>4, <2>6, <2>8, <3>4
    <3>7. ASSUME HasOnce(s, e) PROVE HasOnce(g, e)
      <4>1. ~(Has(d, e) /\ s[n] = e)
        <5> SUFFICES ASSUME Has(d, e), s[n] = e PROVE FALSE
          OBVIOUS
        <5>1. PICK q \in 1 .. (n - 1) : s[q] = e
          BY <2>4
        <5>2. q \in 1 .. T /\ n \in 1 .. T /\ q # n
          BY <1>1, <2>1, <2>5
        <5>3. QED
          BY <3>7, <5>1, <5>2 DEF HasOnce, T
      <4>2. QED
        BY <2>4, <3>5, <3>7, <4>1
    <3>8. QED
      BY <2>1, <3>6, <3>7 DEF g
  <2>9. QED
    BY <2>7, <2>8
<1> HIDE DEF P
<1>6. \A n \in 0 .. T : n \in P
  BY <1>1, <1>4, <1>5, UpTo
<1>7. T \in 0 .. T
  BY <1>1
<1>8. Holds(T)
  BY <1>6, <1>7 DEF P
<1>9. QED
  BY <1>3, <1>8 DEF Has, T

(* The entries of a block are those of the sequence it stores, ...         *)
LEMMA ActiveHolds ==
    ASSUME NEW E, NEW b \in Blocks, NEW x, BlockOK(b, x, E), NEW e
    PROVE  (Has(Active(x), e) <=> In(x, e)) /\ (HasOnce(Active(x), e) <=> Once(x, e))
PROOF
<1> DEFINE s == Active(x)
<1>1. /\ x.first \in Nat /\ x.last \in Nat /\ x.first <= x.last
      /\ Len(s) = size(x) /\ \A n \in 1 .. size(x) : s[n] = x.xs[x.first + n - 1]
  BY ActiveSeq DEF BlockOK, BlockType
<1> HIDE DEF s
<1>2. \A n \in x.first .. (x.last - 1) :
         LET m == n - x.first + 1 IN m \in 1 .. Len(s) /\ s[m] = x.xs[n]
  <2> SUFFICES ASSUME NEW n \in x.first .. (x.last - 1)
               PROVE  n - x.first + 1 \in 1 .. Len(s) /\ s[n - x.first + 1] = x.xs[n]
    OBVIOUS
  <2> DEFINE m == n - x.first + 1
  <2>1. m \in 1 .. Len(s) /\ x.first + m - 1 = n
    BY <1>1 DEF size
  <2> HIDE DEF m
  <2>2. s[m] = x.xs[n]
    BY <1>1, <2>1
  <2>3. QED
    BY <2>1, <2>2 DEF m
<1>3. \A m \in 1 .. Len(s) :
         LET n == x.first + m - 1
         IN  n \in x.first .. (x.last - 1) /\ s[m] = x.xs[n] /\ m = n - x.first + 1
  BY <1>1 DEF size
<1>4. Has(s, e) <=> In(x, e)
  BY <1>2, <1>3 DEF Has, In
<1>5. HasOnce(s, e) => Once(x, e)
  <2> SUFFICES ASSUME HasOnce(s, e), NEW m \in x.first .. (x.last - 1),
                      NEW n \in x.first .. (x.last - 1), x.xs[m] = e, x.xs[n] = e
               PROVE  m = n
    BY DEF Once
  <2>1. m - x.first + 1 = n - x.first + 1
    BY <1>2 DEF HasOnce
  <2>2. QED
    BY <1>1, <2>1
<1>6. Once(x, e) => HasOnce(s, e)
  <2> SUFFICES ASSUME Once(x, e), NEW m \in 1 .. Len(s), NEW n \in 1 .. Len(s),
                      s[m] = e, s[n] = e
               PROVE  m = n
    BY DEF HasOnce
  <2> DEFINE p == x.first + m - 1
             q == x.first + n - 1
  <2>1. /\ p \in x.first .. (x.last - 1) /\ x.xs[p] = e
        /\ q \in x.first .. (x.last - 1) /\ x.xs[q] = e
    BY <1>3
  <2>2. p = q
    <3> HIDE DEF p, q
    <3> QED
      BY <2>1 DEF Once
  <2>3. QED
    BY <1>1, <2>2
<1>7. QED
  BY <1>4, <1>5, <1>6 DEF s

(* A block holds what the sequence stored in it holds.                     *)
LEMMA StoredHolds ==
    ASSUME NEW E, NEW s \in Seq(E), NEW y, Stores(y, s), NEW e
    PROVE  (In(y, e) <=> Has(s, e)) /\ (HasOnce(s, e) => Once(y, e))
PROOF
<1>1. /\ y.first = 0 /\ y.last = Len(s) /\ Len(s) \in Nat
      /\ \A n \in 0 .. (Len(s) - 1) : n + 1 \in 1 .. Len(s) /\ y.xs[n] = s[n + 1]
  BY DEF Stores
<1>2. \A m \in 1 .. Len(s) : m - 1 \in 0 .. (Len(s) - 1) /\ (m - 1) + 1 = m
  BY <1>1
<1>3. \A m \in 1 .. Len(s) : y.xs[m - 1] = s[m]
  <2> SUFFICES ASSUME NEW m \in 1 .. Len(s) PROVE y.xs[m - 1] = s[m]
    OBVIOUS
  <2> DEFINE n == m - 1
  <2>1. n \in 0 .. (Len(s) - 1) /\ n + 1 = m
    BY <1>2
  <2> HIDE DEF n
  <2>2. y.xs[n] = s[m]
    BY <1>1, <2>1
  <2>3. QED
    BY <2>2 DEF n
<1>4. In(y, e) <=> Has(s, e)
  <2>1. In(y, e) <=> \E n \in 0 .. (Len(s) - 1) : y.xs[n] = e
    BY <1>1 DEF In
  <2>2. (\E n \in 0 .. (Len(s) - 1) : y.xs[n] = e) => Has(s, e)
    BY <1>1 DEF Has
  <2>3. ASSUME NEW m \in 1 .. Len(s), s[m] = e
        PROVE  \E n \in 0 .. (Len(s) - 1) : y.xs[n] = e
    BY <1>2, <1>3, <2>3
  <2>4. QED
    BY <2>1, <2>2, <2>3 DEF Has
<1>5. HasOnce(s, e) => Once(y, e)
  <2> SUFFICES ASSUME HasOnce(s, e), NEW m \in 0 .. (Len(s) - 1), NEW n \in 0 .. (Len(s) - 1),
                      y.xs[m] = e, y.xs[n] = e
               PROVE  m = n
    BY <1>1 DEF Once
  <2>1. m + 1 = n + 1
    BY <1>1 DEF HasOnce
  <2>2. QED
    BY <2>1
<1>6. QED
  BY <1>4, <1>5

(* ... so that a merge keeps, once, what is not taken and adds nothing, ... *)
LEMMA MergeIntoHolds ==
    ASSUME NEW E, \A e \in E : e.key \in Nat, NEW ver, NEW y,
           NEW bl \in Blocks, NEW lhs, BlockOK(bl, lhs, E),
           NEW br \in Blocks, NEW rhs, BlockOK(br, rhs, E),
           NEW prune \in BOOLEAN, Stores(y, Remaining(ver, lhs, rhs, prune)), NEW e
    PROVE  /\ In(y, e) => In(lhs, e) \/ In(rhs, e)
           /\ (In(lhs, e) \/ In(rhs, e)) /\ ~taken(ver, e) => In(y, e)
           /\ Once(lhs, e) /\ Once(rhs, e) /\ ~(In(lhs, e) /\ In(rhs, e)) => Once(y, e)
PROOF
<1> DEFINE l == Active(lhs)
           r == Active(rhs)
           all == Merged(l, r)
           kept == Remaining(ver, lhs, rhs, prune)
<1>1. /\ l \in Seq(E) /\ r \in Seq(E)
      /\ (Has(l, e) <=> In(lhs, e)) /\ (HasOnce(l, e) <=> Once(lhs, e))
      /\ (Has(r, e) <=> In(rhs, e)) /\ (HasOnce(r, e) <=> Once(rhs, e))
  BY ActiveHolds, ActiveSeq
<1>2. kept = IF prune THEN Untaken(ver, all) ELSE all
  BY DEF Remaining
<1> HIDE DEF l, r, kept
<1>3. /\ all \in Seq(E) /\ (Has(all, e) <=> Has(l, e) \/ Has(r, e))
      /\ (HasOnce(l, e) /\ HasOnce(r, e) /\ ~(Has(l, e) /\ Has(r, e)) => HasOnce(all, e))
  BY <1>1, MergedHolds, MergedOrder
<1> HIDE DEF all
<1>4. /\ Untaken(ver, all) \in Seq(E)
      /\ Has(Untaken(ver, all), e) <=> Has(all, e) /\ ~taken(ver, e)
      /\ HasOnce(all, e) => HasOnce(Untaken(ver, all), e)
  BY <1>3, UntakenHolds, UntakenOrder
<1>5. /\ kept \in Seq(E)
      /\ Has(kept, e) => Has(all, e)
      /\ Has(all, e) /\ ~taken(ver, e) => Has(kept, e)
      /\ HasOnce(all, e) => HasOnce(kept, e)
  BY <1>2, <1>3, <1>4
<1>6. (In(y, e) <=> Has(kept, e)) /\ (HasOnce(kept, e) => Once(y, e))
  <2>1. Stores(y, kept)
    BY DEF kept
  <2>2. QED
    BY <1>5, <2>1, StoredHolds
<1>7. QED
  BY <1>1, <1>3, <1>5, <1>6

(* ... and so does a copy.                                                 *)
LEMMA CopyIntoHolds ==
    ASSUME NEW E, \A e \in E : e.key \in Nat, NEW ver, NEW y,
           NEW b \in Blocks, NEW that, BlockOK(b, that, E),
           Stores(y, Untaken(ver, Active(that))), NEW e
    PROVE  /\ In(y, e) <=> In(that, e) /\ ~taken(ver, e)
           /\ Once(that, e) => Once(y, e)
PROOF
<1> DEFINE s == Active(that)
           kept == Untaken(ver, s)
<1>1. /\ s \in Seq(E)
      /\ (Has(s, e) <=> In(that, e)) /\ (HasOnce(s, e) <=> Once(that, e))
  BY ActiveHolds, ActiveSeq
<1>2. Stores(y, kept)
  OBVIOUS
<1> HIDE DEF s
<1>3. /\ kept \in Seq(E)
      /\ Has(kept, e) <=> Has(s, e) /\ ~taken(ver, e)
      /\ HasOnce(s, e) => HasOnce(kept, e)
  BY <1>1, UntakenHolds, UntakenOrder
<1> HIDE DEF kept
<1>4. (In(y, e) <=> Has(kept, e)) /\ (HasOnce(kept, e) => Once(y, e))
  BY <1>2, <1>3, StoredHolds
<1>5. QED
  BY <1>1, <1>3, <1>4

(* peek() passes over taken entries only, and what it returns is not       *)
(* larger than any entry that is left.                                     *)
LEMMA PeekHolds ==
    ASSUME NEW E, EMPTY \notin E, NEW ver, NEW b \in Blocks, NEW x, BlockOK(b, x, E), NEW e
    PROVE  LET y == PeekBlock(ver, x)
           IN  /\ In(y, e) => In(x, e)
               /\ In(x, e) /\ ~taken(ver, e) => In(y, e)
               /\ Once(x, e) => Once(y, e)
               /\ Ordered(x) /\ In(x, e) /\ ~taken(ver, e) /\ e.key \in Nat =>
                      PeekItem(ver, x) # EMPTY /\ PeekItem(ver, x).key <= e.key
PROOF
<1> DEFINE y == PeekBlock(ver, x)
           f == PeekFirst(ver, x)
<1>1. /\ x.first \in Nat /\ x.last \in Nat /\ x.first <= x.last
      /\ \A n \in x.first .. (x.last - 1) : x.xs[n] \in E
      /\ x \in BlockType(b, E)
  BY DEF BlockOK, BlockType
<1>2. /\ f \in x.first .. x.last
      /\ \A m \in x.first .. (f - 1) : taken(ver, x.xs[m])
  BY PeekFirstIs
<1>3. y = [x EXCEPT !.first = f]
  BY DEF PeekBlock
<1>4. PeekItem(ver, x) = IF f = x.last THEN EMPTY ELSE x.xs[f]
  BY Zenon DEF PeekItem
<1> HIDE DEF f, y
<1>5. y.first = f /\ y.last = x.last /\ y.xs = x.xs
  BY <1>1, <1>2, <1>3 DEF BlockType
<1>6. \A n \in f .. (x.last - 1) : n \in x.first .. (x.last - 1)
  BY <1>1, <1>2
<1>7. (In(y, e) => In(x, e)) /\ (Once(x, e) => Once(y, e))
  BY <1>5, <1>6 DEF In, Once
<1>8. ASSUME In(x, e), ~taken(ver, e)
      PROVE  /\ In(y, e)
             /\ Ordered(x) /\ e.key \in Nat =>
                    PeekItem(ver, x) # EMPTY /\ PeekItem(ver, x).key <= e.key
  <2>1. PICK n \in x.first .. (x.last - 1) : x.xs[n] = e
    BY <1>8 DEF In
  <2>2. n \notin x.first .. (f - 1)
    BY <1>2, <1>8, <2>1
  <2>3. n \in f .. (x.last - 1) /\ f \in x.first .. (x.last - 1) /\ f # x.last
    BY <1>1, <1>2, <2>1, <2>2
  <2>4. In(y, e)
    BY <1>5, <2>1, <2>3 DEF In
  <2>5. PeekItem(ver, x) = x.xs[f] /\ x.xs[f] # EMPTY
    BY <1>1, <1>4, <2>3
  <2>6. f = n \/ f < n
    BY <1>1, <1>2, <2>3
  <2>7. Ordered(x) /\ e.key \in Nat => x.xs[f].key <= e.key
    BY <2>1, <2>3, <2>6 DEF Ordered
  <2>8. QED
    BY <2>4, <2>5, <2>7
<1>9. QED
  BY <1>7, <1>8 DEF y
=============================================================================

