--------------------------- MODULE DistListProofs ---------------------------
(***************************************************************************)
(* The inductive invariant of DistLsm, what the operations on a linked     *)
(* list of blocks make of it, and that insert, with the merges it starts,  *)
(* preserves it, for any number of threads, items and block sizes.         *)
(***************************************************************************)
EXTENDS DistLsm, BlockProofs

(* c is the largest block of S below p, and the smallest above p.          *)
NextDown(S, p, c) ==
    \/ c = Null /\ \A x \in S : pow(x) >= p
    \/ /\ c \in S /\ pow(c) < p
       /\ \A x \in S : pow(x) < p => pow(x) <= pow(c)
NextUp(S, p, c) ==
    \/ c = Null /\ \A x \in S : pow(x) <= p
    \/ /\ c \in S /\ pow(c) > p
       /\ \A x \in S : pow(x) > p => pow(c) <= pow(x)
OnePerSize(S) == \A x, y \in S : pow(x) = pow(y) => x = y

(* What a block_item may refer to: an item in one of its uses, in which    *)
(* its version is odd.                                                     *)
Elements == {e \in BlockItems : e.ver % 2 = 1}

-----------------------------------------------------------------------------
(* Following m_next. *)

(* f[n] is the block that is visited in round n.                           *)
ChainRun(bs, b, end, f) ==
    /\ f \in [0 .. (MaxPow + 1) -> Pointer]
    /\ f[0] = b
    /\ \A n \in 1 .. (MaxPow + 1) :
          f[n] = IF f[n - 1] \in {Null, end} THEN Null ELSE bs[f[n - 1]].next
    /\ Chain(bs, b, end) = {f[n] : n \in 0 .. (MaxPow + 1)} \ {Null, end}

(* The blocks that the loop of a Chain visits, round by round.             *)
LEMMA ChainRounds ==
    ASSUME NEW bs, \A x \in Blocks : bs[x].next \in Pointer,
           NEW b \in Pointer, NEW end \in Pointer
    PROVE  \E f : ChainRun(bs, b, end, f)
PROOF
<1> DEFINE T == MaxPow + 1
           X == Pointer
           Round(d) == IF d \in {Null, end} THEN Null ELSE bs[d].next
           step == [p \in (1 .. T) \X X |-> Round(p[2])]
           at[n \in 0 .. T] ==
               IF n = 0 THEN b
               ELSE IF at[n - 1] \in {Null, end} THEN Null ELSE bs[at[n - 1]].next
<1>1. T \in Nat /\ b \in X
  BY Sizes
<1>2. Chain(bs, b, end) = {at[n] : n \in DOMAIN at} \ {Null, end}
  BY Zenon DEF Chain
<1>3. \A d \in X : Round(d) \in X
  BY DEF Pointer
<1>4. step \in [(1 .. T) \X X -> X]
  <2> HIDE DEF X, T, Round
  <2> QED
    BY <1>3
<1>5. PICK f : Iterates(f, X, T, step, b)
  <2> HIDE DEF X, T, step, at, Round
  <2> QED
    BY <1>1, <1>4, Iterate
<1>6. f \in [0 .. T -> X] /\ f[0] = b /\ \A n \in 1 .. T : f[n] = step[<<n, f[n - 1]>>]
  BY <1>5, Zenon DEF Iterates
<1>7. \A n \in 1 .. T : f[n] = Round(f[n - 1])
  <2>1. \A n \in 1 .. T : n - 1 \in 0 .. T
    BY <1>1
  <2>2. \A n \in 1 .. T : f[n - 1] \in X
    <3> HIDE DEF X, T
    <3> QED
      BY <1>6, <2>1
  <2> HIDE DEF X, T, Round
  <2>3. QED
    BY <1>6, <2>2
<1>8. f = [n \in 0 .. T |-> IF n = 0 THEN b ELSE Round(f[n - 1])]
  <2>1. \A n \in 0 .. T : n # 0 => n \in 1 .. T
    BY <1>1
  <2> HIDE DEF Round, X, T
  <2>2. QED
    BY <1>6, <1>7, <2>1
<1>9. at = [n \in 0 .. T |-> IF n = 0 THEN b ELSE Round(at[n - 1])]
  <2>1. f = [n \in 0 .. T |->
               IF n = 0 THEN b
               ELSE IF f[n - 1] \in {Null, end} THEN Null ELSE bs[f[n - 1]].next]
    BY <1>8, Zenon
  <2>2. QED
    BY <2>1, Zenon DEF at
<1> HIDE DEF at
<1> DEFINE Q == {n \in 0 .. T : at[n] = f[n]}
<1>10. \A n \in 0 .. T : n \in Q
  <2>1. 0 \in Q
    <3>1. 0 \in 0 .. T
      BY <1>1
    <3> HIDE DEF Round, X, T
    <3>2. QED
      BY <1>6, <1>9, <3>1
  <2>2. ASSUME NEW n \in 1 .. T, n - 1 \in Q PROVE n \in Q
    <3>1. n \in 0 .. T /\ n # 0 /\ at[n - 1] = f[n - 1]
      BY <1>1, <2>2
    <3> HIDE DEF Round, X, T
    <3>2. at[n] = Round(at[n - 1]) /\ f[n] = Round(f[n - 1])
      BY <1>8, <1>9, <3>1
    <3>3. QED
      BY <3>1, <3>2
  <2> HIDE DEF Q, T
  <2>3. QED
    BY <1>1, <2>1, <2>2, UpTo
<1>11. Chain(bs, b, end) = {f[n] : n \in 0 .. T} \ {Null, end}
  <2>1. DOMAIN at = 0 .. T
    <3> HIDE DEF Round, T
    <3> QED
      BY <1>9
  <2>2. \A n \in 0 .. T : at[n] = f[n]
    BY <1>10
  <2> HIDE DEF T
  <2>3. QED
    BY <1>2, <2>1, <2>2
<1>12. \A n \in 1 .. T : f[n] = IF f[n - 1] \in {Null, end} THEN Null ELSE bs[f[n - 1]].next
  BY <1>7
<1> HIDE DEF Round, step, Q
<1>13. ChainRun(bs, b, end, f)
  BY <1>6, <1>11, <1>12 DEF ChainRun
<1>14. QED
  BY <1>13

(* A chain of blocks that each point at the next smaller one of a set is   *)
(* that set.                                                               *)
LEMMA ChainIs ==
    ASSUME NEW bs, \A x \in Blocks : bs[x].next \in Pointer,
           NEW D \in SUBSET Blocks, OnePerSize(D),
           NEW h, NextDown(D, MaxPow + 1, h),
           \A x \in D : NextDown(D, pow(x), bs[x].next)
    PROVE  Chain(bs, h, Null) = D
PROOF
<1>1. MaxPow \in Nat /\ Null \notin Blocks /\ \A x \in Blocks : pow(x) \in 0 .. MaxPow
  BY Sizes
<1>2. h \in Pointer /\ Null \in Pointer
  BY DEF Pointer, NextDown
<1>3. PICK f : ChainRun(bs, h, Null, f)
  BY <1>2, ChainRounds
<1>4. /\ f[0] = h
      /\ \A n \in 1 .. (MaxPow + 1) : f[n] = IF f[n - 1] = Null THEN Null ELSE bs[f[n - 1]].next
      /\ Chain(bs, h, Null) = {f[n] : n \in 0 .. (MaxPow + 1)} \ {Null}
  BY <1>3 DEF ChainRun
<1> DEFINE Seen(n) == /\ f[n] \in D \union {Null}
                      /\ f[n] # Null => pow(f[n]) <= MaxPow - n
                      /\ \A x \in D : (\E m \in 0 .. n : f[m] = x)
                                      \/ (f[n] # Null /\ pow(x) < pow(f[n]))
           T == MaxPow + 1
           P == {n \in 0 .. T : Seen(n)}
<1>5. 0 \in P
  <2>1. 0 \in 0 .. T /\ 0 \in 0 .. 0
    BY <1>1
  <2>2. h \in D \union {Null} /\ (h # Null => pow(h) <= MaxPow - 0)
    BY <1>1 DEF NextDown
  <2>3. ASSUME NEW x \in D, x # h PROVE h # Null /\ pow(x) < pow(h)
    <3>1. h # Null /\ h \in D /\ pow(x) <= pow(h)
      BY <1>1 DEF NextDown
    <3>2. pow(x) # pow(h)
      BY <2>3, <3>1 DEF OnePerSize
    <3>3. QED
      BY <1>1, <3>1, <3>2
  <2>4. QED
    BY <1>4, <2>1, <2>2, <2>3
<1>6. ASSUME NEW n \in 1 .. T, n - 1 \in P PROVE n \in P
  <2> DEFINE a == f[n - 1]
             c == f[n]
  <2>1. n \in 0 .. T /\ n \in 1 .. (MaxPow + 1) /\ n - 1 \in 0 .. T /\ n \in Nat
    BY <1>1
  <2>2. /\ a \in D \union {Null} /\ (a # Null => pow(a) <= MaxPow - (n - 1))
        /\ \A x \in D : (\E m \in 0 .. (n - 1) : f[m] = x) \/ (a # Null /\ pow(x) < pow(a))
    BY <1>6
  <2>3. c = IF a = Null THEN Null ELSE bs[a].next
    BY <1>4, <2>1
  <2>4. \A m \in 0 .. (n - 1) : m \in 0 .. n
    BY <2>1
  <2>5. n \in 0 .. n
    BY <2>1
  <2> HIDE DEF a, T
  <2>6. c \in D \union {Null} /\ (c # Null => pow(c) <= MaxPow - n)
    <3>1. CASE a = Null
      BY <2>3, <3>1
    <3>2. CASE a # Null
      <4>1. a \in D /\ NextDown(D, pow(a), c)
        BY <2>2, <2>3, <3>2
      <4>2. c # Null => c \in D /\ pow(c) < pow(a)
        BY <4>1 DEF NextDown
      <4>3. QED
        BY <1>1, <2>1, <2>2, <4>1, <4>2
    <3>3. QED
      BY <3>1, <3>2
  <2>7. ASSUME NEW x \in D
        PROVE  (\E m \in 0 .. n : f[m] = x) \/ (c # Null /\ pow(x) < pow(c))
    <3>1. CASE \E m \in 0 .. (n - 1) : f[m] = x
      BY <2>4, <3>1
    <3>2. CASE a # Null /\ pow(x) < pow(a)
      <4>1. a \in D /\ NextDown(D, pow(a), c)
        BY <2>2, <2>3, <3>2
      <4>2. c # Null /\ c \in D /\ pow(x) <= pow(c)
        BY <1>1, <3>2, <4>1 DEF NextDown
      <4>3. pow(x) = pow(c) => x = c
        BY <4>2 DEF OnePerSize
      <4>4. QED
        BY <1>1, <2>5, <4>2, <4>3
    <3>3. QED
      BY <2>2, <3>1, <3>2
  <2>8. QED
    BY <2>1, <2>6, <2>7
<1>7. \A n \in 0 .. T : n \in P
  <2>1. T \in Nat
    BY <1>1
  <2> HIDE DEF P, T
  <2>2. QED
    BY <1>5, <1>6, <2>1, UpTo
<1>8. T \in 0 .. T /\ Seen(T)
  BY <1>1, <1>7
<1>9. f[T] = Null
  <2> SUFFICES ASSUME f[T] # Null PROVE FALSE
    OBVIOUS
  <2>1. f[T] \in D /\ pow(f[T]) <= MaxPow - T
    BY <1>8
  <2>2. pow(f[T]) \in 0 .. MaxPow
    BY <1>1, <2>1
  <2>3. QED
    BY <1>1, <2>1, <2>2
<1>10. \A x \in D : \E m \in 0 .. T : f[m] = x
  BY <1>8, <1>9
<1>11. \A n \in 0 .. T : f[n] \in D \union {Null}
  BY <1>7
<1>12. Null \notin D
  BY <1>1
<1> HIDE DEF P, Seen
<1>13. QED
  BY <1>4, <1>10, <1>11, <1>12

-----------------------------------------------------------------------------
(* A list: S is the set of its blocks, at most one of each size, from the  *)
(* largest, h, to the smallest, tl.                                        *)
Linked(bs, S, h, tl) ==
    /\ S \subseteq Blocks /\ OnePerSize(S)
    /\ NextDown(S, MaxPow + 1, h) /\ NextUp(S, -1, tl)
    /\ \A b \in S : NextDown(S, pow(b), bs[b].next) /\ NextUp(S, pow(b), bs[b].prev)

(* The powers of blocks are integers between -1 and MaxPow + 1.            *)
LEMMA PowInt ==
    /\ MaxPow \in Nat /\ Null \notin Blocks
    /\ \A S \in SUBSET Blocks : \A b \in S :
          pow(b) \in 0 .. MaxPow /\ pow(b) \in Nat /\ pow(b) < MaxPow + 1 /\ pow(b) > -1 /\ b # Null
PROOF
<1>1. MaxPow \in Nat /\ Null \notin Blocks
  BY Sizes
<1>2. ASSUME NEW S \in SUBSET Blocks, NEW b \in S
      PROVE  pow(b) \in 0 .. MaxPow /\ pow(b) \in Nat /\ pow(b) < MaxPow + 1 /\ pow(b) > -1 /\ b # Null
  <2>1. b \in Blocks /\ pow(b) \in 0 .. MaxPow
    BY Sizes
  <2>2. QED
    BY <1>1, <2>1
<1>3. QED
  BY <1>1, <1>2

(* The ends of a list are the blocks without a next or a previous one.     *)
LEMMA Ends ==
    ASSUME NEW bs, NEW S, NEW h, NEW tl, Linked(bs, S, h, tl)
    PROVE  /\ (S = {} <=> h = Null) /\ (S = {} <=> tl = Null)
           /\ S # {} => h \in S /\ tl \in S
           /\ \A b \in S : /\ b = h <=> bs[b].prev = Null
                           /\ b = tl <=> bs[b].next = Null
                           /\ pow(b) <= pow(h) /\ pow(tl) <= pow(b)
                           /\ bs[b].prev \in S \union {Null} /\ bs[b].next \in S \union {Null}
                           /\ bs[b].prev # Null => pow(bs[b].prev) > pow(b)
                           /\ bs[b].next # Null => pow(bs[b].next) < pow(b)
                           /\ bs[b].next # Null => bs[bs[b].next].prev = b
                           /\ bs[b].prev # Null => bs[bs[b].prev].next = b
PROOF
<1>1. S \in SUBSET Blocks /\ OnePerSize(S)
  BY DEF Linked
<1>2. MaxPow \in Nat /\ \A b \in S : pow(b) \in Nat /\ pow(b) < MaxPow + 1 /\ pow(b) > -1 /\ b # Null
  BY <1>1, PowInt
<1>3. (S = {} <=> h = Null) /\ (S # {} => h \in S) /\ \A b \in S : pow(b) <= pow(h)
  <2>1. NextDown(S, MaxPow + 1, h)
    BY DEF Linked
  <2>2. \A b \in S : ~ (pow(b) >= MaxPow + 1)
    BY <1>2
  <2>3. QED
    BY <1>2, <2>1, <2>2 DEF NextDown
<1>4. (S = {} <=> tl = Null) /\ (S # {} => tl \in S) /\ \A b \in S : pow(tl) <= pow(b)
  <2>1. NextUp(S, -1, tl)
    BY DEF Linked
  <2>2. \A b \in S : ~ (pow(b) <= -1)
    BY <1>2
  <2>3. QED
    BY <1>2, <2>1, <2>2 DEF NextUp
<1>5. ASSUME NEW b \in S
      PROVE  /\ b = h <=> bs[b].prev = Null
             /\ b = tl <=> bs[b].next = Null
             /\ bs[b].prev \in S \union {Null} /\ bs[b].next \in S \union {Null}
             /\ bs[b].prev # Null => pow(bs[b].prev) > pow(b)
             /\ bs[b].next # Null => pow(bs[b].next) < pow(b)
             /\ bs[b].next # Null => bs[bs[b].next].prev = b
             /\ bs[b].prev # Null => bs[bs[b].prev].next = b
  <2> DEFINE p == bs[b].prev
             n == bs[b].next
  <2>1. NextDown(S, pow(b), n) /\ NextUp(S, pow(b), p)
    BY DEF Linked
  <2>2. h \in S /\ tl \in S /\ pow(b) <= pow(h) /\ pow(tl) <= pow(b)
    BY <1>3, <1>4
  <2>3. b = h => p = Null
    <3>1. p # Null => p \in S /\ pow(p) > pow(b) /\ pow(p) <= pow(h)
      BY <1>3, <2>1 DEF NextUp
    <3>2. QED
      BY <1>2, <3>1
  <2>4. p = Null => b = h
    <3>1. p = Null => pow(h) <= pow(b)
      BY <1>2, <2>1, <2>2 DEF NextUp
    <3>2. p = Null => pow(h) = pow(b)
      BY <1>2, <2>2, <3>1
    <3>3. QED
      BY <1>1, <2>2, <3>2 DEF OnePerSize
  <2>5. b = tl => n = Null
    <3>1. n # Null => n \in S /\ pow(n) < pow(b) /\ pow(tl) <= pow(n)
      BY <1>4, <2>1 DEF NextDown
    <3>2. QED
      BY <1>2, <3>1
  <2>6. n = Null => b = tl
    <3>1. n = Null => pow(tl) >= pow(b)
      BY <1>2, <2>1, <2>2 DEF NextDown
    <3>2. n = Null => pow(tl) = pow(b)
      BY <1>2, <2>2, <3>1
    <3>3. QED
      BY <1>1, <2>2, <3>2 DEF OnePerSize
  <2>7. p \in S \union {Null} /\ (p # Null => pow(p) > pow(b))
    BY <2>1 DEF NextUp
  <2>8. n \in S \union {Null} /\ (n # Null => pow(n) < pow(b))
    BY <2>1 DEF NextDown
  <2>9. ASSUME n # Null PROVE bs[n].prev = b
    <3> DEFINE q == bs[n].prev
    <3>1. n \in S /\ pow(n) < pow(b) /\ \A x \in S : pow(x) < pow(b) => pow(x) <= pow(n)
      BY <2>1, <2>9 DEF NextDown
    <3>2. NextUp(S, pow(n), q)
      BY <3>1 DEF Linked
    <3>3. q \in S /\ pow(q) > pow(n) /\ pow(q) <= pow(b)
      BY <1>2, <3>1, <3>2 DEF NextUp
    <3>4. ~ (pow(q) < pow(b))
      BY <1>2, <3>1, <3>3
    <3>5. pow(q) = pow(b)
      BY <1>2, <3>3, <3>4
    <3>6. QED
      BY <1>1, <3>3, <3>5 DEF OnePerSize
  <2>10. ASSUME p # Null PROVE bs[p].next = b
    <3> DEFINE q == bs[p].next
    <3>1. p \in S /\ pow(p) > pow(b) /\ \A x \in S : pow(x) > pow(b) => pow(p) <= pow(x)
      BY <2>1, <2>10 DEF NextUp
    <3>2. NextDown(S, pow(p), q)
      BY <3>1 DEF Linked
    <3>3. q \in S /\ pow(q) < pow(p) /\ pow(b) <= pow(q)
      BY <1>2, <3>1, <3>2 DEF NextDown
    <3>4. ~ (pow(q) > pow(b))
      BY <1>2, <3>1, <3>3
    <3>5. pow(q) = pow(b)
      BY <1>2, <3>3, <3>4
    <3>6. QED
      BY <1>1, <3>3, <3>5 DEF OnePerSize
  <2>11. QED
    BY <2>3, <2>4, <2>5, <2>6, <2>7, <2>8, <2>9, <2>10
<1>6. QED
  BY <1>3, <1>4, <1>5

(* The blocks from the tail up to size d are cut off.                      *)
LEMMA CutLast ==
    ASSUME NEW bs, NEW S, NEW h, NEW tl, Linked(bs, S, h, tl),
           NEW d \in Int, NEW c, NextUp(S, d, c), NEW new,
           \A x \in S : new[x].prev = bs[x].prev,
           \A x \in S : new[x].next = IF x = c THEN Null ELSE bs[x].next
    PROVE  Linked(new, {x \in S : pow(x) > d}, IF c = Null THEN Null ELSE h, c)
PROOF
<1> DEFINE R == {x \in S : pow(x) > d}
           h2 == IF c = Null THEN Null ELSE h
<1>1. S \in SUBSET Blocks /\ OnePerSize(S)
  BY DEF Linked
<1>2. MaxPow \in Nat /\ \A b \in S : pow(b) \in Nat /\ pow(b) < MaxPow + 1 /\ pow(b) > -1 /\ b # Null
  BY <1>1, PowInt
<1>3. R \subseteq Blocks /\ OnePerSize(R)
  BY <1>1 DEF OnePerSize
<1>4. /\ c = Null => R = {}
      /\ c # Null => c \in R /\ \A x \in R : pow(c) <= pow(x)
  BY <1>2 DEF NextUp
<1>5. NextDown(R, MaxPow + 1, h2)
  <2>1. CASE c = Null
    BY <1>4, <2>1 DEF NextDown
  <2>2. CASE c # Null
    <3>1. h \in S /\ pow(c) <= pow(h) /\ \A x \in S : pow(x) <= pow(h)
      BY <1>4, <2>2, Ends
    <3>2. h \in R /\ pow(h) < MaxPow + 1
      BY <1>2, <1>4, <2>2, <3>1
    <3>3. QED
      BY <2>2, <3>1, <3>2 DEF NextDown
  <2>3. QED
    BY <2>1, <2>2
<1>6. NextUp(R, -1, c)
  BY <1>2, <1>4 DEF NextUp
<1>7. ASSUME NEW b \in R PROVE NextDown(R, pow(b), new[b].next) /\ NextUp(R, pow(b), new[b].prev)
  <2>1. NextDown(S, pow(b), bs[b].next) /\ NextUp(S, pow(b), bs[b].prev)
    BY DEF Linked
  <2>2. c # Null /\ c \in R /\ pow(c) <= pow(b) /\ \A x \in R : pow(c) <= pow(x)
    BY <1>4
  <2>3. NextUp(R, pow(b), new[b].prev)
    <3>1. new[b].prev = bs[b].prev
      OBVIOUS
    <3>2. \A x \in S : pow(x) > pow(b) => x \in R
      BY <1>2
    <3>3. QED
      BY <2>1, <3>1, <3>2 DEF NextUp
  <2>4. NextDown(R, pow(b), new[b].next)
    <3>1. CASE b = c
      <4>1. new[b].next = Null /\ \A x \in R : pow(x) >= pow(b)
        BY <1>2, <2>2, <3>1
      <4>2. QED
        BY <4>1 DEF NextDown
    <3>2. CASE b # c
      <4> DEFINE n == bs[b].next
      <4>1. new[b].next = n
        BY <3>2
      <4>2. pow(c) # pow(b)
        BY <1>1, <2>2, <3>2 DEF OnePerSize
      <4>3. pow(c) < pow(b)
        BY <1>2, <2>2, <4>2
      <4>4. n \in S /\ pow(n) < pow(b) /\ pow(c) <= pow(n) /\ \A x \in S : pow(x) < pow(b) => pow(x) <= pow(n)
        BY <1>2, <2>1, <2>2, <4>3 DEF NextDown
      <4>5. n \in R
        BY <1>2, <2>2, <4>4
      <4>6. QED
        BY <4>1, <4>4, <4>5 DEF NextDown
    <3>3. QED
      BY <3>1, <3>2
  <2>5. QED
    BY <2>3, <2>4
<1> HIDE DEF R, h2
<1>8. Linked(new, R, h2, c)
  BY <1>3, <1>5, <1>6, <1>7 DEF Linked
<1>9. QED
  BY <1>8 DEF R, h2

(* b and the last block, tl, of the list of the blocks S point at each     *)
(* other.                                                                  *)
Appended(bs, S, tl, b, new) ==
    /\ \A x \in S : /\ new[x].prev = bs[x].prev
                    /\ new[x].next = IF x = tl THEN b ELSE bs[x].next
    /\ new[b].next = Null /\ new[b].prev = tl

(* A smaller block is appended.                                            *)
LEMMA AddLast ==
    ASSUME NEW bs, NEW S, NEW h, NEW tl, Linked(bs, S, h, tl),
           NEW b \in Blocks, b \notin S, \A x \in S : pow(x) > pow(b),
           NEW new, Appended(bs, S, tl, b, new),
           NEW S2, S2 = S \union {b}, NEW h3, h3 = IF tl = Null THEN b ELSE h
    PROVE  Linked(new, S2, h3, b)
PROOF
<1> DEFINE R == S \union {b}
           h2 == IF tl = Null THEN b ELSE h
<1>1. S \in SUBSET Blocks /\ OnePerSize(S) /\ R \in SUBSET Blocks
  BY DEF Linked
<1>2. MaxPow \in Nat /\ \A x \in R : pow(x) \in Nat /\ pow(x) < MaxPow + 1 /\ pow(x) > -1 /\ x # Null
  BY <1>1, PowInt
<1>3. OnePerSize(R)
  BY <1>1, <1>2 DEF OnePerSize
<1>4. /\ (S = {} <=> h = Null) /\ (S = {} <=> tl = Null)
      /\ S # {} => h \in S /\ tl \in S
      /\ \A x \in S : pow(x) <= pow(h) /\ pow(tl) <= pow(x)
  BY Ends
<1>5. NextDown(R, MaxPow + 1, h2)
  <2>1. CASE tl = Null
    BY <1>2, <1>4, <2>1 DEF NextDown
  <2>2. CASE tl # Null
    <3>1. h2 = h /\ h \in S /\ pow(b) < pow(h)
      BY <1>2, <1>4, <2>2
    <3>2. QED
      BY <1>2, <1>4, <3>1 DEF NextDown
  <2>3. QED
    BY <2>1, <2>2
<1>6. NextUp(R, -1, b)
  BY <1>2 DEF NextUp
<1>7. NextDown(R, pow(b), new[b].next) /\ NextUp(R, pow(b), new[b].prev)
  <2>1. NextDown(R, pow(b), Null)
    BY <1>2 DEF NextDown
  <2>2. NextUp(R, pow(b), tl)
    BY <1>2, <1>4 DEF NextUp
  <2>3. QED
    BY <2>1, <2>2 DEF Appended
<1>8. ASSUME NEW x \in S PROVE NextDown(R, pow(x), new[x].next) /\ NextUp(R, pow(x), new[x].prev)
  <2>1. NextDown(S, pow(x), bs[x].next) /\ NextUp(S, pow(x), bs[x].prev)
    BY DEF Linked
  <2>2. NextUp(R, pow(x), new[x].prev)
    BY <1>2, <2>1 DEF NextUp, Appended
  <2>3. NextDown(R, pow(x), new[x].next)
    <3>1. CASE x = tl
      <4>1. new[x].next = b /\ pow(b) < pow(x) /\ \A y \in S : ~ (pow(y) < pow(x))
        BY <1>2, <1>4, <3>1 DEF Appended
      <4>2. QED
        BY <1>2, <4>1 DEF NextDown
    <3>2. CASE x # tl
      <4> DEFINE n == bs[x].next
      <4>1. new[x].next = n /\ n # Null /\ n \in S /\ pow(n) < pow(x)
        BY <2>1, <3>2, Ends DEF Appended
      <4>2. \A y \in S : pow(y) < pow(x) => pow(y) <= pow(n)
        BY <2>1, <4>1 DEF NextDown
      <4>3. pow(b) <= pow(n)
        BY <1>2, <4>1
      <4>4. QED
        BY <4>1, <4>2, <4>3 DEF NextDown
    <3>3. QED
      BY <3>1, <3>2
  <2>4. QED
    BY <2>2, <2>3
<1> HIDE DEF h2
<1>9. Linked(new, R, h2, b)
  BY <1>1, <1>3, <1>5, <1>6, <1>7, <1>8 DEF Linked
<1>10. QED
  BY <1>9 DEF h2

(* In the list of the blocks S, the neighbours of b come to point at each  *)
(* other; or they and m come to point at each other.                       *)
Bypassed(bs, S, b, new) ==
    \A x \in S \ {b} : /\ new[x].prev = IF x = bs[b].next THEN bs[b].prev ELSE bs[x].prev
                       /\ new[x].next = IF x = bs[b].prev THEN bs[b].next ELSE bs[x].next
Replaced(bs, S, b, m, new) ==
    /\ \A x \in S \ {b} : /\ new[x].prev = IF x = bs[b].next THEN m ELSE bs[x].prev
                          /\ new[x].next = IF x = bs[b].prev THEN m ELSE bs[x].next
    /\ new[m].next = bs[b].next /\ new[m].prev = bs[b].prev

(* A block is unlinked.                                                    *)
LEMMA Remove ==
    ASSUME NEW bs, NEW S, NEW h, NEW tl, Linked(bs, S, h, tl), NEW b \in S,
           NEW new, Bypassed(bs, S, b, new),
           NEW S2, S2 = S \ {b}, NEW h3, h3 = IF b = h THEN bs[b].next ELSE h,
           NEW tl3, tl3 = IF b = tl THEN bs[b].prev ELSE tl
    PROVE  Linked(new, S2, h3, tl3)
PROOF
<1> DEFINE R == S \ {b}
           p == bs[b].prev
           n == bs[b].next
           h2 == IF b = h THEN n ELSE h
           tl2 == IF b = tl THEN p ELSE tl
<1>1. S \in SUBSET Blocks /\ OnePerSize(S)
  BY DEF Linked
<1>2. MaxPow \in Nat /\ \A x \in S : pow(x) \in Nat /\ pow(x) < MaxPow + 1 /\ pow(x) > -1 /\ x # Null
  BY <1>1, PowInt
<1>3. R \subseteq Blocks /\ OnePerSize(R)
  BY <1>1 DEF OnePerSize
<1>4. /\ h \in S /\ tl \in S /\ NextDown(S, pow(b), n) /\ NextUp(S, pow(b), p)
      /\ b = h <=> p = Null
      /\ b = tl <=> n = Null
      /\ \A x \in S : pow(x) <= pow(h) /\ pow(tl) <= pow(x)
  <2>1. NextDown(S, pow(b), n) /\ NextUp(S, pow(b), p)
    BY DEF Linked
  <2>2. S # {}
    OBVIOUS
  <2>3. QED
    BY <2>1, <2>2, Ends
<1>5. /\ \A x \in R : pow(x) # pow(b)
      /\ \A x \in R : pow(x) < pow(b) => n \in R /\ pow(x) <= pow(n)
      /\ \A x \in R : pow(x) > pow(b) => p \in R /\ pow(p) <= pow(x)
      /\ n # Null => n \in R /\ pow(n) < pow(b)
      /\ p # Null => p \in R /\ pow(p) > pow(b)
  <2>1. \A x \in R : pow(x) # pow(b)
    BY <1>1 DEF OnePerSize
  <2>2. \A x \in R : pow(x) < pow(b) => n \in R /\ pow(x) <= pow(n)
    BY <1>2, <1>4 DEF NextDown
  <2>3. \A x \in R : pow(x) > pow(b) => p \in R /\ pow(p) <= pow(x)
    BY <1>2, <1>4 DEF NextUp
  <2>4. n # Null => n \in R /\ pow(n) < pow(b)
    BY <1>2, <1>4 DEF NextDown
  <2>5. p # Null => p \in R /\ pow(p) > pow(b)
    BY <1>2, <1>4 DEF NextUp
  <2>6. QED
    BY <2>1, <2>2, <2>3, <2>4, <2>5
<1>6. NextDown(R, MaxPow + 1, h2)
  <2>1. CASE b = h
    <3>1. \A x \in R : pow(x) < pow(b)
      BY <1>2, <1>4, <1>5, <2>1
    <3>2. R = {} \/ n \in R
      BY <1>5, <3>1
    <3>3. \A x \in R : n \in R /\ pow(x) <= pow(n)
      BY <1>5, <3>1
    <3>4. CASE n = Null
      <4>1. R = {} /\ h2 = Null
        BY <1>2, <2>1, <3>2, <3>4
      <4>2. QED
        BY <4>1 DEF NextDown
    <3>5. CASE n # Null
      BY <1>2, <1>5, <2>1, <3>3, <3>5 DEF NextDown
    <3>6. QED
      BY <3>4, <3>5
  <2>2. CASE b # h
    <3>1. h2 = h /\ h \in R /\ \A x \in R : pow(x) <= pow(h)
      BY <1>4, <2>2
    <3>2. QED
      BY <1>2, <3>1 DEF NextDown
  <2>3. QED
    BY <2>1, <2>2
<1>7. NextUp(R, -1, tl2)
  <2>1. CASE b = tl
    <3>1. \A x \in R : pow(x) > pow(b)
      BY <1>2, <1>4, <1>5, <2>1
    <3>2. R = {} \/ p \in R
      BY <1>5, <3>1
    <3>3. \A x \in R : p \in R /\ pow(p) <= pow(x)
      BY <1>5, <3>1
    <3>4. CASE p = Null
      <4>1. R = {} /\ tl2 = Null
        BY <1>2, <2>1, <3>2, <3>4
      <4>2. QED
        BY <4>1 DEF NextUp
    <3>5. CASE p # Null
      BY <1>2, <1>5, <2>1, <3>3, <3>5 DEF NextUp
    <3>6. QED
      BY <3>4, <3>5
  <2>2. CASE b # tl
    <3>1. tl2 = tl /\ tl \in R /\ \A x \in R : pow(tl) <= pow(x)
      BY <1>4, <2>2
    <3>2. QED
      BY <1>2, <3>1 DEF NextUp
  <2>3. QED
    BY <2>1, <2>2
<1>8. ASSUME NEW x \in R PROVE NextDown(R, pow(x), new[x].next)
  <2> DEFINE c == bs[x].next
  <2>1. NextDown(S, pow(x), c)
    BY DEF Linked
  <2>2. CASE x = p
    <3>1. new[x].next = n /\ c = b
      BY <1>2, <1>4, <2>2, Ends DEF Bypassed
    <3>2. pow(x) > pow(b)
      BY <1>2, <1>5, <2>2
    <3>3. ASSUME NEW y \in R, pow(y) < pow(x) PROVE n \in R /\ pow(y) <= pow(n)
      <4>1. pow(y) <= pow(b) /\ pow(y) # pow(b)
        BY <1>2, <1>5, <2>1, <3>1, <3>3 DEF NextDown
      <4>2. pow(y) < pow(b)
        BY <1>2, <4>1
      <4>3. QED
        BY <1>5, <4>2
    <3>4. CASE n = Null
      <4>1. \A y \in R : pow(y) >= pow(x)
        BY <1>2, <3>3, <3>4
      <4>2. QED
        BY <3>1, <3>4, <4>1 DEF NextDown
    <3>5. CASE n # Null
      <4>1. n \in R /\ pow(n) < pow(x)
        BY <1>2, <1>5, <3>2, <3>5
      <4>2. QED
        BY <3>1, <3>3, <4>1 DEF NextDown
    <3>6. QED
      BY <3>4, <3>5
  <2>3. CASE x # p
    <3>1. new[x].next = c
      BY <2>3 DEF Bypassed
    <3>2. c # b
      BY <1>2, <2>3, Ends
    <3>3. QED
      BY <2>1, <3>1, <3>2 DEF NextDown
  <2>4. QED
    BY <2>2, <2>3
<1>9. ASSUME NEW x \in R PROVE NextUp(R, pow(x), new[x].prev)
  <2> DEFINE c == bs[x].prev
  <2>1. NextUp(S, pow(x), c)
    BY DEF Linked
  <2>2. CASE x = n
    <3>1. new[x].prev = p /\ c = b
      BY <1>2, <1>4, <2>2, Ends DEF Bypassed
    <3>2. pow(x) < pow(b)
      BY <1>2, <1>5, <2>2
    <3>3. ASSUME NEW y \in R, pow(y) > pow(x) PROVE p \in R /\ pow(p) <= pow(y)
      <4>1. pow(b) <= pow(y) /\ pow(y) # pow(b)
        BY <1>2, <1>5, <2>1, <3>1, <3>3 DEF NextUp
      <4>2. pow(y) > pow(b)
        BY <1>2, <4>1
      <4>3. QED
        BY <1>5, <4>2
    <3>4. CASE p = Null
      <4>1. \A y \in R : pow(y) <= pow(x)
        BY <1>2, <3>3, <3>4
      <4>2. QED
        BY <3>1, <3>4, <4>1 DEF NextUp
    <3>5. CASE p # Null
      <4>1. p \in R /\ pow(p) > pow(x)
        BY <1>2, <1>5, <3>2, <3>5
      <4>2. QED
        BY <3>1, <3>3, <4>1 DEF NextUp
    <3>6. QED
      BY <3>4, <3>5
  <2>3. CASE x # n
    <3>1. new[x].prev = c
      BY <2>3 DEF Bypassed
    <3>2. c # b
      BY <1>2, <2>3, Ends
    <3>3. QED
      BY <2>1, <3>1, <3>2 DEF NextUp
  <2>4. QED
    BY <2>2, <2>3
<1> HIDE DEF R, h2, tl2
<1>10. Linked(new, R, h2, tl2)
  BY <1>3, <1>6, <1>7, <1>8, <1>9 DEF Linked
<1>11. QED
  BY <1>10 DEF R, h2, tl2

(* A block takes the place of another one.                                 *)
LEMMA Replace ==
    ASSUME NEW bs, NEW S, NEW h, NEW tl, Linked(bs, S, h, tl), NEW b \in S,
           NEW m \in Blocks, m \notin S,
           bs[b].next # Null => pow(bs[b].next) < pow(m),
           bs[b].prev # Null => pow(m) < pow(bs[b].prev),
           NEW new, Replaced(bs, S, b, m, new),
           NEW S2, S2 = (S \ {b}) \union {m}, NEW h3, h3 = IF bs[b].prev = Null THEN m ELSE h,
           NEW tl3, tl3 = IF bs[b].next = Null THEN m ELSE tl
    PROVE  Linked(new, S2, h3, tl3)
PROOF
<1> DEFINE Q == S \ {b}
           R == Q \union {m}
           p == bs[b].prev
           n == bs[b].next
           h2 == IF p = Null THEN m ELSE h
           tl2 == IF n = Null THEN m ELSE tl
<1>1. S \in SUBSET Blocks /\ OnePerSize(S) /\ R \in SUBSET Blocks
  BY DEF Linked
<1>2. /\ MaxPow \in Nat
      /\ \A x \in S : pow(x) \in Nat /\ pow(x) < MaxPow + 1 /\ pow(x) > -1 /\ x # Null
      /\ \A x \in R : pow(x) \in Nat /\ pow(x) < MaxPow + 1 /\ pow(x) > -1 /\ x # Null
  BY <1>1, PowInt
<1>3. /\ h \in S /\ tl \in S /\ NextDown(S, pow(b), n) /\ NextUp(S, pow(b), p)
      /\ b = h <=> p = Null
      /\ b = tl <=> n = Null
      /\ \A x \in S : pow(x) <= pow(h) /\ pow(tl) <= pow(x)
  <2>1. NextDown(S, pow(b), n) /\ NextUp(S, pow(b), p)
    BY DEF Linked
  <2>2. S # {}
    OBVIOUS
  <2>3. QED
    BY <2>1, <2>2, Ends
<1>4. /\ n # Null => n \in Q /\ pow(n) < pow(m)
      /\ p # Null => p \in Q /\ pow(p) > pow(m)
  <2>1. n # Null => n \in Q
    BY <1>2, <1>3 DEF NextDown
  <2>2. p # Null => p \in Q
    BY <1>2, <1>3 DEF NextUp
  <2>3. QED
    BY <1>2, <2>1, <2>2
<1>5. \A x \in Q : \/ pow(x) < pow(b) /\ pow(x) < pow(m) /\ n # Null /\ pow(x) <= pow(n)
                   \/ pow(x) > pow(b) /\ pow(x) > pow(m) /\ p # Null /\ pow(p) <= pow(x)
  <2> SUFFICES ASSUME NEW x \in Q
               PROVE  \/ pow(x) < pow(b) /\ pow(x) < pow(m) /\ n # Null /\ pow(x) <= pow(n)
                      \/ pow(x) > pow(b) /\ pow(x) > pow(m) /\ p # Null /\ pow(p) <= pow(x)
    OBVIOUS
  <2>1. pow(x) # pow(b)
    BY <1>1 DEF OnePerSize
  <2>2. CASE pow(x) < pow(b)
    <3>1. n # Null /\ pow(x) <= pow(n)
      BY <1>2, <1>3, <2>2 DEF NextDown
    <3>2. QED
      BY <1>2, <1>4, <2>2, <3>1
  <2>3. CASE pow(x) > pow(b)
    <3>1. p # Null /\ pow(p) <= pow(x)
      BY <1>2, <1>3, <2>3 DEF NextUp
    <3>2. QED
      BY <1>2, <1>4, <2>3, <3>1
  <2>4. QED
    BY <1>2, <2>1, <2>2, <2>3
<1>6. OnePerSize(R)
  <2>1. \A x \in Q : pow(x) # pow(m)
    BY <1>2, <1>5
  <2>2. QED
    BY <1>1, <2>1 DEF OnePerSize
<1>7. NextDown(R, MaxPow + 1, h2)
  <2>1. CASE p = Null
    <3>1. \A x \in R : pow(x) <= pow(m)
      BY <1>2, <1>5, <2>1
    <3>2. QED
      BY <1>2, <2>1, <3>1 DEF NextDown
  <2>2. CASE p # Null
    <3>1. h2 = h /\ h \in Q /\ pow(m) <= pow(h)
      BY <1>2, <1>3, <1>4, <2>2
    <3>2. QED
      BY <1>2, <1>3, <3>1 DEF NextDown
  <2>3. QED
    BY <2>1, <2>2
<1>8. NextUp(R, -1, tl2)
  <2>1. CASE n = Null
    <3>1. \A x \in R : pow(m) <= pow(x)
      BY <1>2, <1>5, <2>1
    <3>2. QED
      BY <1>2, <2>1, <3>1 DEF NextUp
  <2>2. CASE n # Null
    <3>1. tl2 = tl /\ tl \in Q /\ pow(tl) <= pow(m)
      BY <1>2, <1>3, <1>4, <2>2
    <3>2. QED
      BY <1>2, <1>3, <3>1 DEF NextUp
  <2>3. QED
    BY <2>1, <2>2
<1>9. NextDown(R, pow(m), new[m].next) /\ NextUp(R, pow(m), new[m].prev)
  <2>1. NextDown(R, pow(m), n)
    <3>1. CASE n = Null
      <4>1. \A x \in R : pow(x) >= pow(m)
        BY <1>2, <1>5, <3>1
      <4>2. QED
        BY <3>1, <4>1 DEF NextDown
    <3>2. CASE n # Null
      <4>1. \A x \in R : pow(x) < pow(m) => pow(x) <= pow(n)
        BY <1>2, <1>5
      <4>2. QED
        BY <1>4, <3>2, <4>1 DEF NextDown
    <3>3. QED
      BY <3>1, <3>2
  <2>2. NextUp(R, pow(m), p)
    <3>1. CASE p = Null
      <4>1. \A x \in R : pow(x) <= pow(m)
        BY <1>2, <1>5, <3>1
      <4>2. QED
        BY <3>1, <4>1 DEF NextUp
    <3>2. CASE p # Null
      <4>1. \A x \in R : pow(x) > pow(m) => pow(p) <= pow(x)
        BY <1>2, <1>5
      <4>2. QED
        BY <1>4, <3>2, <4>1 DEF NextUp
    <3>3. QED
      BY <3>1, <3>2
  <2>3. QED
    BY <2>1, <2>2 DEF Replaced
<1>10. ASSUME NEW x \in Q PROVE NextDown(R, pow(x), new[x].next)
  <2> DEFINE c == bs[x].next
  <2>1. NextDown(S, pow(x), c)
    BY DEF Linked
  <2>2. CASE x = p
    <3>1. new[x].next = m /\ c = b
      BY <1>2, <1>3, <2>2, Ends DEF Replaced
    <3>2. pow(x) > pow(m) /\ pow(x) > pow(b)
      BY <1>2, <1>4, <1>5, <2>2
    <3>3. ASSUME NEW y \in Q, pow(y) < pow(x) PROVE pow(y) <= pow(m)
      <4>1. pow(y) <= pow(b)
        BY <1>2, <2>1, <3>1, <3>3 DEF NextDown
      <4>2. pow(y) < pow(m)
        BY <1>2, <1>5, <4>1
      <4>3. QED
        BY <1>2, <4>2
    <3>4. QED
      BY <1>2, <3>1, <3>2, <3>3 DEF NextDown
  <2>3. CASE x # p
    <3>1. new[x].next = c
      BY <2>3 DEF Replaced
    <3>2. c # b
      BY <1>2, <2>3, Ends
    <3>3. CASE c = Null
      <4>1. \A y \in Q : pow(y) >= pow(x)
        BY <1>2, <2>1, <3>3 DEF NextDown
      <4>2. pow(m) >= pow(x)
        <5>1. pow(b) >= pow(x)
          BY <1>2, <2>1, <3>3 DEF NextDown
        <5>2. QED
          BY <1>2, <1>5, <5>1
      <4>3. QED
        BY <3>1, <3>3, <4>1, <4>2 DEF NextDown
    <3>4. CASE c # Null
      <4>1. c \in Q /\ pow(c) < pow(x) /\ \A y \in S : pow(y) < pow(x) => pow(y) <= pow(c)
        BY <2>1, <3>2, <3>4 DEF NextDown
      <4>2. pow(m) < pow(x) => pow(m) <= pow(c)
        <5> SUFFICES ASSUME pow(m) < pow(x) PROVE pow(m) <= pow(c)
          OBVIOUS
        <5>1. pow(b) < pow(x)
          BY <1>2, <1>5
        <5>2. pow(b) <= pow(c)
          BY <4>1, <5>1
        <5>3. QED
          BY <1>2, <1>5, <4>1, <5>2
      <4>3. QED
        BY <3>1, <4>1, <4>2 DEF NextDown
    <3>5. QED
      BY <3>3, <3>4
  <2>4. QED
    BY <2>2, <2>3
<1>11. ASSUME NEW x \in Q PROVE NextUp(R, pow(x), new[x].prev)
  <2> DEFINE c == bs[x].prev
  <2>1. NextUp(S, pow(x), c)
    BY DEF Linked
  <2>2. CASE x = n
    <3>1. new[x].prev = m /\ c = b
      BY <1>2, <1>3, <2>2, Ends DEF Replaced
    <3>2. pow(x) < pow(m) /\ pow(x) < pow(b)
      BY <1>2, <1>4, <1>5, <2>2
    <3>3. ASSUME NEW y \in Q, pow(y) > pow(x) PROVE pow(m) <= pow(y)
      <4>1. pow(b) <= pow(y)
        BY <1>2, <2>1, <3>1, <3>3 DEF NextUp
      <4>2. pow(m) < pow(y)
        BY <1>2, <1>5, <4>1
      <4>3. QED
        BY <1>2, <4>2
    <3>4. QED
      BY <1>2, <3>1, <3>2, <3>3 DEF NextUp
  <2>3. CASE x # n
    <3>1. new[x].prev = c
      BY <2>3 DEF Replaced
    <3>2. c # b
      BY <1>2, <2>3, Ends
    <3>3. CASE c = Null
      <4>1. \A y \in Q : pow(y) <= pow(x)
        BY <1>2, <2>1, <3>3 DEF NextUp
      <4>2. pow(m) <= pow(x)
        <5>1. pow(b) <= pow(x)
          BY <1>2, <2>1, <3>3 DEF NextUp
        <5>2. QED
          BY <1>2, <1>5, <5>1
      <4>3. QED
        BY <3>1, <3>3, <4>1, <4>2 DEF NextUp
    <3>4. CASE c # Null
      <4>1. c \in Q /\ pow(c) > pow(x) /\ \A y \in S : pow(y) > pow(x) => pow(c) <= pow(y)
        BY <2>1, <3>2, <3>4 DEF NextUp
      <4>2. pow(m) > pow(x) => pow(c) <= pow(m)
        <5> SUFFICES ASSUME pow(m) > pow(x) PROVE pow(c) <= pow(m)
          OBVIOUS
        <5>1. pow(b) > pow(x)
          BY <1>2, <1>5
        <5>2. pow(c) <= pow(b)
          BY <4>1, <5>1
        <5>3. QED
          BY <1>2, <1>5, <4>1, <5>2
      <4>3. QED
        BY <3>1, <4>1, <4>2 DEF NextUp
    <3>5. QED
      BY <3>3, <3>4
  <2>4. QED
    BY <2>2, <2>3
<1> HIDE DEF R, h2, tl2
<1>12. Linked(new, R, h2, tl2)
  BY <1>1, <1>6, <1>7, <1>8, <1>9, <1>10, <1>11 DEF Linked, R
<1>13. QED
  BY <1>12 DEF R, h2, tl2

-----------------------------------------------------------------------------
(* The inductive invariant. *)

(* The blocks of one thread: those of its list S, the spied block sp, and  *)
(* the blocks W an operation works on are in use, the others are blank.    *)
Blank(x) == ~x.used /\ x.first = 0 /\ x.last = 0 /\ x.next = Null /\ x.prev = Null
ListAt(bs, S, h, tl, sp, W) ==
    /\ \A b \in Blocks : BlockOK(b, bs[b], Elements)
    /\ \A b \in S \union W : bs[b].used /\ Ordered(bs[b])
    /\ sp # Null => bs[sp].used
    /\ \A b \in Blocks \ (S \union W \union {sp}) : Blank(bs[b])
    /\ Linked(bs, S, h, tl)
    /\ W \subseteq Blocks /\ sp \in Pointer
    /\ S \intersect W = {} /\ sp \notin S \union W

(* merge_insert: the blocks up to delete_block were merged into the one at *)
(* hand, other_block is the next one, and is not smaller.                  *)
Deleted(l) == IF l.del = Null THEN -1 ELSE pow(l.del)
Merging(bs, S, l) ==
    LET d == Deleted(l)
    IN  /\ l.b \in Blocks /\ bs[l.b].next = Null
        /\ l.del \in S \union {Null}
        /\ NextUp(S, d, l.other)
        /\ d <= pow(l.b)
        /\ l.other # Null => pow(l.b) <= pow(l.other)

(* Where a thread copies a block, and the block it works on.               *)
Copying == {"copy_first", "copy_last", "copy"}
Work(p, l) == IF p \in {"merge"} \union Copying THEN {l.b} ELSE {}

(* What holds of one thread that is at p with the local variables l.       *)
StateOK(bs, S, h, tl, sp, p, l) ==
    /\ ListAt(bs, S, h, tl, sp, Work(p, l))
    /\ p = "merge" => Merging(bs, S, l)
    /\ p = "scan" => l.b \in S \union {Null}
    /\ p = "shrink" => l.b \in S
    /\ p = "spy" => l.n = 0

(* A spying thread: what it has still to read of its victim's block has    *)
(* been written, whatever became of that block meanwhile.                  *)
CopyOK(t) ==
    LET l   == loc[t]
        own == blk[t][l.b]
        v   == Victim(t)
    IN  pc[t] \in Copying =>
          /\ l.b \in Blocks /\ l.from \in Blocks /\ pow(l.from) = pow(l.b)
          /\ l.victim \in Threads \ {t}
          /\ own.first = 0 /\ own.last = 0
          /\ pc[t] # "copy" => l.n = 0
          /\ pc[t] # "copy_first" => l.src <= capacity(l.b)
          /\ pc[t] = "copy_last" => \A m \in l.src .. (v.first - 1) : v.xs[m] # EMPTY
          /\ pc[t] = "copy" => /\ l.end <= capacity(l.b) /\ l.n <= l.src
                               /\ \A m \in l.src .. (l.end - 1) : v.xs[m] # EMPTY
                               /\ \A m \in 0 .. (l.n - 1) : own.xs[m] # EMPTY

(* The types.                                                              *)
Entry == Elements \union {EMPTY}
LocType == [op : {"none", "delete_min", "find_min", "spy"}, b : Pointer, other : Pointer,
            del : Pointer, best : Entry, cand : Entry, retried : BOOLEAN,
            victim : Threads \union {0}, from : Pointer, src : Nat, end : Nat, n : Nat]

FieldTypes ==
    /\ version \in [Items -> Nat] /\ key \in [Items -> Keys \union {0}]
    /\ head \in [Threads -> Pointer] /\ tail \in [Threads -> Pointer]
    /\ spied \in [Threads -> Pointer] /\ cached \in [Threads -> Entry]
    /\ shared \subseteq Elements
    /\ pc \in [Threads -> Pcs] /\ loc \in [Threads -> LocType]
AnyBlock == UNION {BlockType(b, Elements) : b \in Blocks}
Types == FieldTypes /\ blk \in [Threads -> [Blocks -> AnyBlock]]

(* The inductive invariant.                                                *)
Inv ==
    /\ Types /\ fault = FALSE
    /\ \A t \in Threads : StateOK(blk[t], List(t), head[t], tail[t], spied[t], pc[t], loc[t])
    /\ \A t \in Threads : CopyOK(t)

-----------------------------------------------------------------------------
(* What most steps have in common. *)

(* The null pointer is not the entry of an item; keys are numbers.         *)
LEMMA ItemsOK ==
    /\ EMPTY \notin Elements
    /\ \A e \in Elements : e.key \in Nat /\ e.item \in Items
    /\ Entry = Elements \union {EMPTY}
PROOF
<1>1. EMPTY \notin Elements
  BY DistAssumption DEF EMPTY, Elements, BlockItems
<1>2. \A e \in Elements : e.key \in Nat /\ e.item \in Items
  BY DistAssumption DEF Elements, BlockItems
<1>3. QED
  BY <1>1, <1>2 DEF Entry

(* The types of the local variables at the start of a call.                *)
LEMMA IdleOK ==
    /\ Idle \in LocType
    /\ \A b \in Pointer, c \in Pointer : [Idle EXCEPT !.b = b, !.other = c] \in LocType
PROOF
<1>1. EMPTY \in Entry /\ Null \in Pointer
  BY DEF Entry, Pointer
<1>2. QED
  BY <1>1 DEF Idle, LocType

(* The blocks as SetBlocks leaves them: what lies outside the active range *)
(* of a block may be gone.                                                 *)
Settled(x, y) ==
    /\ y.used = x.used /\ y.next = x.next /\ y.prev = x.prev
    /\ y.first = x.first /\ y.last = x.last
    /\ Ordered(x) => Ordered(y)

(* A list is not changed while the pointers of its blocks are not.         *)
LEMMA LinkedSame ==
    ASSUME NEW bs, NEW new, NEW S, NEW h, NEW tl, Linked(bs, S, h, tl),
           \A b \in S : new[b].next = bs[b].next /\ new[b].prev = bs[b].prev
    PROVE  Linked(new, S, h, tl)
BY DEF Linked

(* Settled blocks form the same list.                                      *)
LEMMA StateSettled ==
    ASSUME NEW bs, NEW new, NEW S, NEW h, NEW tl, NEW sp, NEW p, NEW l,
           StateOK(bs, S, h, tl, sp, p, l),
           \A b \in Blocks : BlockOK(b, new[b], Elements) /\ Settled(bs[b], new[b])
    PROVE  StateOK(new, S, h, tl, sp, p, l)
PROOF
<1>1. ListAt(bs, S, h, tl, sp, Work(p, l))
  BY DEF StateOK
<1>2. Linked(bs, S, h, tl) /\ S \subseteq Blocks
  BY <1>1 DEF ListAt, Linked
<1>3. \A b \in Blocks : /\ new[b].used = bs[b].used /\ new[b].next = bs[b].next
                        /\ new[b].prev = bs[b].prev /\ new[b].first = bs[b].first
                        /\ new[b].last = bs[b].last
                        /\ (Ordered(bs[b]) => Ordered(new[b]))
  BY DEF Settled
<1>4. Linked(new, S, h, tl)
  BY <1>2, <1>3, LinkedSame
<1>5. ListAt(new, S, h, tl, sp, Work(p, l))
  <2>1. S \union Work(p, l) \subseteq Blocks /\ (sp # Null => sp \in Blocks)
    BY <1>1, <1>2 DEF ListAt, Pointer
  <2>2. \A b \in S \union Work(p, l) : new[b].used /\ Ordered(new[b])
    BY <1>1, <1>3, <2>1 DEF ListAt
  <2>3. sp # Null => new[sp].used
    BY <1>1, <1>3, <2>1 DEF ListAt
  <2>4. \A b \in Blocks \ (S \union Work(p, l) \union {sp}) : Blank(new[b])
    BY <1>1, <1>3 DEF ListAt, Blank
  <2>5. QED
    BY <1>1, <1>4, <2>2, <2>3, <2>4 DEF ListAt
<1>6. p = "merge" => Merging(new, S, l)
  BY <1>3 DEF StateOK, Merging
<1>7. QED
  BY <1>5, <1>6 DEF StateOK

(* The list of a state is found again along m_next.                        *)
LEMMA ListIs ==
    ASSUME NEW bs, NEW S, NEW h, NEW tl, NEW sp, NEW p, NEW l,
           StateOK(bs, S, h, tl, sp, p, l)
    PROVE  Chain(bs, h, Null) = S
PROOF
<1>1. ListAt(bs, S, h, tl, sp, Work(p, l))
  BY DEF StateOK
<1>2. \A x \in Blocks : bs[x].next \in Pointer
  BY <1>1 DEF ListAt, BlockOK, BlockType
<1>3. /\ S \in SUBSET Blocks /\ OnePerSize(S) /\ NextDown(S, MaxPow + 1, h)
      /\ \A x \in S : NextDown(S, pow(x), bs[x].next)
  BY <1>1 DEF ListAt, Linked
<1>4. QED
  BY <1>2, <1>3, ChainIs

(* A thread writes its blocks with SetBlocks.                              *)
Written(t, new) ==
    \A b \in Blocks : BlockOK(b, new[b], Elements) /\ Grows(blk[t][b], new[b])

(* What SetBlocks leaves of the blocks that t writes.                      *)
LEMMA SetBlocksOK ==
    ASSUME Types, NEW t \in Threads, NEW new, SetBlocks(t, new), Written(t, new)
    PROVE  /\ blk' \in [Threads -> [Blocks -> AnyBlock]]
           /\ \A u \in Threads \ {t} : blk'[u] = blk[u]
           /\ \A b \in Blocks : BlockOK(b, blk'[t][b], Elements) /\ Settled(new[b], blk'[t][b])
           /\ \A b \in Blocks : Copied(t, b) => Grows(blk[t][b], blk'[t][b]) /\ blk'[t][b] = new[b]
PROOF
<1> DEFINE U == AnyBlock
           after == [b \in Blocks |-> IF Copied(t, b) THEN new[b] ELSE Trim(new[b])]
<1>1. blk \in [Threads -> [Blocks -> U]] /\ blk' = [blk EXCEPT ![t] = after]
  BY DEF Types, SetBlocks
<1>2. \A b \in Blocks : BlockOK(b, new[b], Elements) /\ Grows(blk[t][b], new[b])
  BY DEF Written
<1>3. ASSUME NEW b \in Blocks
      PROVE  BlockOK(b, after[b], Elements) /\ Settled(new[b], after[b])
  <2>1. CASE Copied(t, b)
    <3>1. after[b] = new[b]
      BY <2>1
    <3>2. QED
      BY <1>2, <3>1 DEF Settled
  <2>2. CASE ~Copied(t, b)
    <3>1. after[b] = Trim(new[b])
      BY <2>2
    <3>2. QED
      BY <1>2, <3>1, TrimOK DEF Settled
  <2>3. QED
    BY <2>1, <2>2
<1>4. \A b \in Blocks : Copied(t, b) => after[b] = new[b]
  OBVIOUS
<1>5. after \in [Blocks -> U]
  <2>1. \A b \in Blocks : after[b] \in BlockType(b, Elements)
    <3> HIDE DEF after
    <3> QED
      BY <1>3 DEF BlockOK
  <2>2. \A b \in Blocks : after[b] \in U
    <3> HIDE DEF after
    <3> QED
      BY <2>1 DEF AnyBlock
  <2>3. after = [b \in Blocks |-> after[b]]
    OBVIOUS
  <2> HIDE DEF after, U
  <2>4. QED
    BY <2>2, <2>3
<1> HIDE DEF after, U
<1>6. blk'[t] = after /\ blk' \in [Threads -> [Blocks -> U]] /\ \A u \in Threads \ {t} : blk'[u] = blk[u]
  BY <1>1, <1>5
<1>7. QED
  BY <1>2, <1>3, <1>4, <1>6 DEF U

(* A step of t leaves the others' blocks and variables alone; those who    *)
(* are copying one of its blocks still find what they have to read.        *)
LEMMA StepOf ==
    ASSUME Inv, NEW t \in Threads, Types', fault' = FALSE,
           \A u \in Threads \ {t} : /\ blk'[u] = blk[u] /\ head'[u] = head[u] /\ tail'[u] = tail[u]
                                    /\ spied'[u] = spied[u] /\ pc'[u] = pc[u] /\ loc'[u] = loc[u],
           \A b \in Blocks : Copied(t, b) => Grows(blk[t][b], blk'[t][b]),
           NEW S, StateOK(blk'[t], S, head'[t], tail'[t], spied'[t], pc'[t], loc'[t]),
           CopyOK(t)'
    PROVE  Inv' /\ List(t)' = S
PROOF
<1> DEFINE h2 == head'[t]
           bs2 == blk'[t]
<1>0. List(t)' = S
  <2>1. Chain(bs2, h2, Null) = S
    BY ListIs
  <2>2. QED
    BY <2>1 DEF List
<1>1. /\ Types
      /\ \A u \in Threads : StateOK(blk[u], List(u), head[u], tail[u], spied[u], pc[u], loc[u])
      /\ \A u \in Threads : CopyOK(u)
  BY DEF Inv
<1>2. ASSUME NEW u \in Threads
      PROVE  StateOK(blk[u], List(u), head[u], tail[u], spied[u], pc[u], loc[u])'
  <2>1. CASE u = t
    <3>1. List(u)' = S
      BY <1>0, <2>1
    <3>2. QED
      BY <2>1, <3>1
  <2>2. CASE u # t
    <3>1. /\ blk'[u] = blk[u] /\ head'[u] = head[u] /\ tail'[u] = tail[u]
          /\ spied'[u] = spied[u] /\ pc'[u] = pc[u] /\ loc'[u] = loc[u]
      BY <2>2
    <3>2. List(u)' = List(u)
      BY <3>1 DEF List
    <3>3. QED
      BY <1>1, <3>1, <3>2
  <2>3. QED
    BY <2>1, <2>2
<1>3. ASSUME NEW u \in Threads \ {t} PROVE CopyOK(u)'
  <2> DEFINE l == loc[u]
             own == blk[u][l.b]
             v == blk[l.victim][l.from]
             w == blk'[l.victim][l.from]
  <2>1. blk'[u] = blk[u] /\ pc'[u] = pc[u] /\ loc'[u] = l
    OBVIOUS
  <2>2. /\ Victim(u) = v /\ Victim(u)' = w
        /\ blk'[u][loc'[u].b] = own
    BY <2>1 DEF Victim
  <2>3. CopyOK(u)
    BY <1>1
  <2>4. SUFFICES ASSUME pc[u] \in Copying
                 PROVE  /\ pc[u] = "copy_last" => \A m \in l.src .. (w.first - 1) : w.xs[m] # EMPTY
                        /\ pc[u] = "copy" => \A m \in l.src .. (l.end - 1) : w.xs[m] # EMPTY
    <3> HIDE DEF l, own, v, w
    <3> QED
      BY <2>1, <2>2, <2>3 DEF CopyOK
  <2>5. /\ l.b \in Blocks /\ l.from \in Blocks /\ capacity(l.from) = capacity(l.b)
        /\ l.victim \in Threads \ {u}
        /\ pc[u] = "copy_last" => \A m \in l.src .. (v.first - 1) : v.xs[m] # EMPTY
        /\ pc[u] = "copy" => /\ l.end <= capacity(l.b)
                             /\ \A m \in l.src .. (l.end - 1) : v.xs[m] # EMPTY
    <3>1. /\ l.b \in Blocks /\ l.from \in Blocks /\ pow(l.from) = pow(l.b)
          /\ l.victim \in Threads \ {u}
          /\ pc[u] = "copy_last" => \A m \in l.src .. (v.first - 1) : v.xs[m] # EMPTY
          /\ pc[u] = "copy" => /\ l.end <= capacity(l.b)
                               /\ \A m \in l.src .. (l.end - 1) : v.xs[m] # EMPTY
      BY <2>2, <2>3, <2>4 DEF CopyOK
    <3> HIDE DEF l, v
    <3>2. QED
      BY <3>1, Sizes
  <2>6. l \in LocType
    BY <1>1 DEF Types, FieldTypes
  <2>7. l.src \in Nat /\ l.end \in Nat
    BY <2>6 DEF LocType
  <2> HIDE DEF l
  <2>8. CASE l.victim # t
    <3>1. w = v
      BY <2>5, <2>8
    <3> HIDE DEF v, w
    <3>2. QED
      BY <2>5, <3>1
  <2>9. CASE l.victim = t
    <3>1. Grows(v, w)
      <4>1. Copied(t, l.from)
        BY <2>9 DEF Copied, l
      <4>2. QED
        BY <2>5, <2>9, <4>1
    <3>2. BlockOK(l.from, v, Elements)
      BY <1>1, <2>5, <2>9 DEF StateOK, ListAt
    <3>3. StateOK(blk'[t], S, head'[t], tail'[t], spied'[t], pc'[t], loc'[t])
      OBVIOUS
    <3>4. BlockOK(l.from, w, Elements)
      BY <2>5, <2>9, <3>3 DEF StateOK, ListAt
    <3> HIDE DEF v, w
    <3>5. /\ DOMAIN v.xs = 0 .. (capacity(l.b) - 1) /\ capacity(l.b) \in Nat
          /\ v.first \in Nat /\ w.first \in Nat /\ w.first <= capacity(l.b)
      BY <2>5, <3>2, <3>4, Sizes DEF BlockOK, BlockType, Array
    <3>6. ASSUME pc[u] = "copy_last", NEW m \in l.src .. (w.first - 1) PROVE w.xs[m] # EMPTY
      <4>1. CASE m < v.first
        <5>1. v.xs[m] # EMPTY /\ m \in DOMAIN v.xs
          BY <2>5, <2>7, <3>5, <3>6, <4>1
        <5>2. QED
          BY <3>1, <5>1 DEF Grows
      <4>2. CASE m >= v.first
        <5>1. m \in v.first .. (w.first - 1)
          BY <2>7, <3>5, <4>2
        <5>2. QED
          BY <3>1, <5>1 DEF Grows
      <4>3. QED
        BY <2>7, <3>5, <4>1, <4>2
    <3>7. ASSUME pc[u] = "copy", NEW m \in l.src .. (l.end - 1) PROVE w.xs[m] # EMPTY
      <4>1. m \in DOMAIN v.xs /\ v.xs[m] # EMPTY
        BY <2>5, <2>7, <3>5, <3>7
      <4>2. QED
        BY <3>1, <4>1 DEF Grows
    <3>8. QED
      BY <3>6, <3>7
  <2>10. QED
    BY <2>8, <2>9
<1>4. \A u \in Threads : CopyOK(u)'
  BY <1>3
<1>5. QED
  BY <1>0, <1>2, <1>4 DEF Inv

(* The other threads' variables are left alone.                            *)
Others(t) ==
    \A u \in Threads \ {t} : /\ head'[u] = head[u] /\ tail'[u] = tail[u] /\ spied'[u] = spied[u]
                             /\ pc'[u] = pc[u] /\ loc'[u] = loc[u]

(* A step that writes blocks of its own thread.                            *)
LEMMA WriteStep ==
    ASSUME Inv, NEW t \in Threads, FieldTypes', fault' = FALSE, Others(t),
           NEW new, SetBlocks(t, new), Written(t, new), CopyOK(t)',
           NEW S, StateOK(new, S, head'[t], tail'[t], spied'[t], pc'[t], loc'[t])
    PROVE  Inv' /\ List(t)' = S
PROOF
<1>1. Types
  BY DEF Inv
<1>2. /\ blk' \in [Threads -> [Blocks -> AnyBlock]]
      /\ \A u \in Threads \ {t} : blk'[u] = blk[u]
      /\ \A b \in Blocks : BlockOK(b, blk'[t][b], Elements) /\ Settled(new[b], blk'[t][b])
      /\ \A b \in Blocks : Copied(t, b) => Grows(blk[t][b], blk'[t][b]) /\ blk'[t][b] = new[b]
  BY <1>1, SetBlocksOK
<1>3. Types'
  BY <1>2 DEF Types
<1>4. StateOK(blk'[t], S, head'[t], tail'[t], spied'[t], pc'[t], loc'[t])
  BY <1>2, StateSettled
<1>5. QED
  BY <1>2, <1>3, <1>4, StepOf DEF Others

(* A step that leaves all blocks alone.                                    *)
LEMMA QuietStep ==
    ASSUME Inv, NEW t \in Threads, FieldTypes', fault' = FALSE, Others(t), blk' = blk, CopyOK(t)',
           NEW S, StateOK(blk[t], S, head'[t], tail'[t], spied'[t], pc'[t], loc'[t])
    PROVE  Inv' /\ List(t)' = S
PROOF
<1>1. Types'
  BY DEF Inv, Types
<1>2. \A b \in Blocks : Grows(blk[t][b], blk'[t][b])
  <2>1. \A b \in Blocks : BlockOK(b, blk[t][b], Elements)
    BY DEF StateOK, ListAt
  <2>2. QED
    BY <2>1, SameEntriesKeep DEF SameEntries
<1>3. QED
  BY <1>1, <1>2, StepOf DEF Others

(* The types of where a thread is.                                         *)
LEMMA GotoOK ==
    ASSUME FieldTypes, NEW t \in Threads, NEW p \in Pcs, NEW l \in LocType, Goto(t, p, l)
    PROVE  /\ pc' \in [Threads -> Pcs] /\ loc' \in [Threads -> LocType]
           /\ pc'[t] = p /\ loc'[t] = l
           /\ \A u \in Threads \ {t} : pc'[u] = pc[u] /\ loc'[u] = loc[u]
BY DEF FieldTypes, Goto

(* With at most one block of a size in the list, one that is spied and one *)
(* that is worked on, get_block finds a free one among four.               *)
LEMMA FreeBlock ==
    ASSUME N >= 4, NEW bs, NEW S, NEW h, NEW tl, NEW sp, NEW W, ListAt(bs, S, h, tl, sp, W),
           NEW w, W \subseteq {w}, NEW p \in 0 .. MaxPow
    PROVE  LET b == get_block(bs, p)
           IN  /\ b \in Blocks /\ pow(b) = p /\ b \notin S \union W /\ b # sp
               /\ Blank(bs[b])
PROOF
<1> DEFINE b == get_block(bs, p)
<1>1. OnePerSize(S) /\ S \subseteq Blocks
  BY DEF ListAt, Linked
<1>2. \E x : \A c \in S : pow(c) = p => c = x
  BY <1>1 DEF OnePerSize
<1>3. PICK x : \A c \in S : pow(c) = p => c = x
  BY <1>2
<1>4. \A c \in Blocks : bs[c].used => c \in S \union W \union {sp}
  BY DEF ListAt, Blank
<1>5. \A c \in Blocks : pow(c) = p /\ bs[c].used => c \in {x, w, sp}
  BY <1>3, <1>4
<1>6. b \in Blocks /\ pow(b) = p /\ ~bs[b].used
  BY <1>5, GetBlockUnused
<1> HIDE DEF b
<1>7. b \notin S \union W /\ b # sp
  <2>1. b # Null
    BY <1>6, Sizes
  <2>2. QED
    BY <1>6, <2>1 DEF ListAt
<1>8. Blank(bs[b])
  BY <1>6, <1>7 DEF ListAt
<1>9. QED
  BY <1>6, <1>7, <1>8 DEF b

(* What is cited most often of the blocks of a thread.                     *)
LEMMA ListFacts ==
    ASSUME NEW bs, NEW S, NEW h, NEW tl, NEW sp, NEW W, ListAt(bs, S, h, tl, sp, W)
    PROVE  /\ \A b \in Blocks : /\ BlockOK(b, bs[b], Elements)
                                /\ bs[b].first \in Nat /\ bs[b].last \in Nat
                                /\ bs[b].first <= bs[b].last /\ bs[b].last <= capacity(b)
                                /\ bs[b].next \in Pointer /\ bs[b].prev \in Pointer
                                /\ size(bs[b]) \in Nat /\ size(bs[b]) <= capacity(b)
                                /\ (b # sp => Ordered(bs[b]))
           /\ S \subseteq Blocks /\ W \subseteq Blocks /\ sp \in Pointer
           /\ S \intersect W = {} /\ sp \notin S \union W
           /\ h \in Pointer /\ tl \in Pointer
PROOF
<1>1. ASSUME NEW b \in Blocks
      PROVE  /\ BlockOK(b, bs[b], Elements)
             /\ bs[b].first \in Nat /\ bs[b].last \in Nat
             /\ bs[b].first <= bs[b].last /\ bs[b].last <= capacity(b)
             /\ bs[b].next \in Pointer /\ bs[b].prev \in Pointer
             /\ size(bs[b]) \in Nat /\ size(bs[b]) <= capacity(b)
             /\ (b # sp => Ordered(bs[b]))
  <2>1. BlockOK(b, bs[b], Elements)
    BY DEF ListAt
  <2>2. /\ bs[b].first \in Nat /\ bs[b].last \in Nat
        /\ bs[b].first <= bs[b].last /\ bs[b].last <= capacity(b)
        /\ bs[b].next \in Pointer /\ bs[b].prev \in Pointer
    BY <2>1 DEF BlockOK, BlockType
  <2>3. size(bs[b]) \in Nat /\ size(bs[b]) <= capacity(b)
    BY <2>2, Sizes DEF size
  <2>4. ASSUME b # sp PROVE Ordered(bs[b])
    <3>1. CASE b \in S \union W
      BY <3>1 DEF ListAt
    <3>2. CASE b \notin S \union W
      <4>1. bs[b].first = 0 /\ bs[b].last = 0
        BY <2>4, <3>2 DEF ListAt, Blank
      <4>2. QED
        BY <4>1 DEF Ordered
    <3>3. QED
      BY <3>1, <3>2
  <2>5. QED
    BY <2>1, <2>2, <2>3, <2>4
<1>2. /\ S \subseteq Blocks /\ W \subseteq Blocks /\ sp \in Pointer
      /\ S \intersect W = {} /\ sp \notin S \union W
  BY DEF ListAt, Linked
<1>3. Linked(bs, S, h, tl)
  BY DEF ListAt
<1>4. h \in Pointer /\ tl \in Pointer
  <2>1. h \in S \union {Null} /\ tl \in S \union {Null}
    BY <1>3, Ends
  <2>2. QED
    BY <1>2, <2>1 DEF Pointer
<1>5. QED
  BY <1>1, <1>2, <1>4

(* What holds of one thread. *)
LEMMA ThreadFacts ==
    ASSUME Inv, NEW t \in Threads
    PROVE  /\ Types /\ FieldTypes /\ fault = FALSE
           /\ blk[t] \in [Blocks -> AnyBlock]
           /\ pc[t] \in Pcs /\ loc[t] \in LocType
           /\ StateOK(blk[t], List(t), head[t], tail[t], spied[t], pc[t], loc[t])
           /\ ListAt(blk[t], List(t), head[t], tail[t], spied[t], Work(pc[t], loc[t]))
           /\ Linked(blk[t], List(t), head[t], tail[t])
           /\ CopyOK(t)
PROOF
<1>1. /\ Types /\ FieldTypes /\ fault = FALSE
      /\ StateOK(blk[t], List(t), head[t], tail[t], spied[t], pc[t], loc[t])
      /\ CopyOK(t)
  BY DEF Inv, Types
<1>2. blk[t] \in [Blocks -> AnyBlock]
  BY <1>1 DEF Types
<1>3. pc[t] \in Pcs /\ loc[t] \in LocType
  BY <1>1 DEF FieldTypes
<1>4. ListAt(blk[t], List(t), head[t], tail[t], spied[t], Work(pc[t], loc[t]))
  BY <1>1 DEF StateOK
<1>5. Linked(blk[t], List(t), head[t], tail[t])
  BY <1>4 DEF ListAt
<1>6. QED
  BY <1>1, <1>2, <1>3, <1>4, <1>5

(* CopyOK says nothing of a thread that is not copying.                    *)
LEMMA NotCopying ==
    ASSUME NEW t, pc'[t] \notin Copying
    PROVE  CopyOK(t)'
BY DEF CopyOK

(* A block that was blank joins the blocks that are worked on.             *)
LEMMA AddWork ==
    ASSUME NEW bs, NEW S, NEW h, NEW tl, NEW sp, ListAt(bs, S, h, tl, sp, {}),
           NEW b \in Blocks, b \notin S, b # sp, NEW new,
           \A x \in Blocks : BlockOK(x, new[x], Elements),
           \A x \in Blocks \ {b} : Settled(bs[x], new[x]) \/ (x = sp /\ new[x].used),
           new[b].used, Ordered(new[b])
    PROVE  ListAt(new, S, h, tl, sp, {b})
PROOF
<1>1. /\ S \subseteq Blocks /\ sp \in Pointer /\ sp \notin S /\ Linked(bs, S, h, tl)
      /\ \A x \in S : bs[x].used /\ Ordered(bs[x])
      /\ sp # Null => bs[sp].used
      /\ \A x \in Blocks \ (S \union {sp}) : Blank(bs[x])
  BY DEF ListAt, Linked
<1>2. \A x \in S : x \in Blocks \ {b} /\ x # sp
  BY <1>1
<1>3. \A x \in S : /\ new[x].used = bs[x].used /\ new[x].next = bs[x].next
                   /\ new[x].prev = bs[x].prev /\ (Ordered(bs[x]) => Ordered(new[x]))
  BY <1>2 DEF Settled
<1>4. Linked(new, S, h, tl)
  BY <1>1, <1>3, LinkedSame
<1>5. \A x \in S \union {b} : new[x].used /\ Ordered(new[x])
  BY <1>1, <1>3
<1>6. sp # Null => new[sp].used
  <2>1. sp # Null => sp \in Blocks \ {b}
    BY <1>1 DEF Pointer
  <2>2. QED
    BY <1>1, <2>1 DEF Settled
<1>7. \A x \in Blocks \ (S \union {b} \union {sp}) : Blank(new[x])
  BY <1>1 DEF Blank, Settled
<1>8. QED
  BY <1>1, <1>4, <1>5, <1>6, <1>7 DEF ListAt

(* The block that insert() puts its item into.                             *)
LEMMA Inserted ==
    ASSUME NEW b \in Blocks, NEW x, BlockOK(b, x, Elements), Blank(x), NEW e \in Elements
    PROVE  LET y == insert_tail(set_used(x), e)
           IN  /\ BlockOK(b, y, Elements) /\ Grows(x, y) /\ Ordered(y)
               /\ y.used /\ y.next = Null
PROOF
<1> DEFINE z == set_used(x)
           y == insert_tail(z, e)
<1>1. /\ BlockOK(b, z, Elements) /\ SameEntries(x, z)
      /\ z.used /\ z.next = x.next /\ z.prev = x.prev
  BY SetUsedOK
<1>2. z.first = 0 /\ z.last = 0 /\ z.next = Null /\ Grows(x, z)
  BY <1>1, SameEntriesKeep DEF SameEntries, Blank
<1>3. EMPTY \notin Elements
  BY ItemsOK
<1> HIDE DEF z
<1>4. /\ BlockOK(b, y, Elements) /\ Grows(z, y) /\ Ordered(y)
      /\ y.used = z.used /\ y.next = z.next
  <2>1. BlockOK(b, z, Elements) /\ z.first = 0 /\ z.last = 0
    BY <1>1, <1>2
  <2>2. QED
    BY <1>3, <2>1, InsertTailOK
<1> HIDE DEF y
<1>5. Grows(x, y)
  BY <1>1, <1>2, <1>4, GrowsTransitive
<1>6. BlockOK(b, y, Elements) /\ Grows(x, y) /\ Ordered(y) /\ y.used /\ y.next = Null
  BY <1>1, <1>2, <1>4, <1>5
<1>7. QED
  BY <1>6 DEF y, z

(* The block with e that t puts up for merging.                            *)
Inserts(t, new, e) ==
    LET b == loc'[t].b
    IN  /\ SetBlocks(t, new) /\ Written(t, new)
        /\ pc[t] = "idle" /\ pc'[t] = "merge" /\ loc'[t].del = Null
        /\ e \in Elements /\ b \in Blocks \ List(t) /\ Blank(blk[t][b])
        /\ new[b] = insert_tail(set_used(blk[t][b]), e)
        /\ \A x \in List(t) : new[x] = blk[t][x]

(* insert *)
LEMMA insertStep ==
    ASSUME Inv, N >= 4, NEW t \in Threads, NEW i \in Items, NEW k \in Keys, insert(t, i, k)
    PROVE  /\ Inv' /\ List(t)' = List(t) /\ Others(t)
           /\ \E new : Inserts(t, new, [item |-> i, ver |-> version[i] + 1, key |-> k])
PROOF
<1> DEFINE bs == blk[t]
           S == List(t)
           e == [item |-> i, ver |-> version[i] + 1, key |-> k]
           b == get_block(bs, 0)
           y == insert_tail(set_used(bs[b]), e)
           new == [bs EXCEPT ![b] = y]
           l == [Idle EXCEPT !.b = b, !.other = tail[t]]
<1>1. /\ pc[t] = "idle"
      /\ version' = [version EXCEPT ![i] = version[i] + 1]
      /\ key' = [key EXCEPT ![i] = k]
      /\ cached' = [cached EXCEPT ![t] = CachedAfterInsert(t, e)]
      /\ fault' = (fault \/ bs[b].used)
      /\ SetBlocks(t, new)
      /\ Goto(t, "merge", l)
      /\ head' = head /\ tail' = tail /\ spied' = spied /\ shared' = shared
  BY DEF insert, CheckUnused
<1>2. /\ Types /\ FieldTypes /\ fault = FALSE /\ bs \in [Blocks -> AnyBlock]
      /\ StateOK(bs, S, head[t], tail[t], spied[t], pc[t], loc[t])
      /\ ListAt(bs, S, head[t], tail[t], spied[t], Work(pc[t], loc[t]))
      /\ Linked(bs, S, head[t], tail[t])
  BY ThreadFacts
<1>3. ListAt(bs, S, head[t], tail[t], spied[t], {})
  BY <1>1, <1>2 DEF Work, Copying
<1>4. e \in Elements
  <2>1. version[i] \in Nat /\ version[i] % 2 # 1
    BY <1>2 DEF insert, used, FieldTypes
  <2>2. (version[i] + 1) % 2 = 1 /\ version[i] + 1 \in Nat
    BY <2>1
  <2>3. e \in BlockItems
    BY <2>2 DEF BlockItems
  <2>4. QED
    BY <2>2, <2>3 DEF Elements
<1> HIDE DEF bs, S, e
<1>5. 0 \in 0 .. MaxPow
  BY Sizes
<1>6. b \in Blocks /\ pow(b) = 0 /\ b \notin S /\ b # spied[t] /\ Blank(bs[b])
  BY <1>3, <1>5, FreeBlock
<1> HIDE DEF b
<1>7. fault' = FALSE
  BY <1>1, <1>2, <1>6 DEF Blank
<1>8. \A x \in Blocks : BlockOK(x, bs[x], Elements)
  BY <1>3 DEF ListAt
<1>9. /\ BlockOK(b, y, Elements) /\ Grows(bs[b], y) /\ Ordered(y) /\ y.used /\ y.next = Null
  BY <1>4, <1>6, <1>8, Inserted
<1> HIDE DEF y
<1>10. new[b] = y /\ \A x \in Blocks \ {b} : new[x] = bs[x]
  BY <1>2, <1>6
<1> HIDE DEF new
<1>11. /\ \A x \in Blocks : BlockOK(x, new[x], Elements) /\ Grows(bs[x], new[x])
       /\ \A x \in Blocks \ {b} : Settled(bs[x], new[x])
  <2>1. \A x \in Blocks : Grows(bs[x], bs[x])
    BY <1>8, SameEntriesKeep DEF SameEntries
  <2>2. QED
    BY <1>8, <1>9, <1>10, <2>1 DEF Settled
<1>12. Written(t, new)
  BY <1>11 DEF Written, bs
<1>13. ListAt(new, S, head[t], tail[t], spied[t], {b})
  <2>1. new[b].used /\ Ordered(new[b])
    BY <1>9, <1>10
  <2>2. \A x \in Blocks : BlockOK(x, new[x], Elements)
    BY <1>11
  <2>3. \A x \in Blocks \ {b} : Settled(bs[x], new[x]) \/ (x = spied[t] /\ new[x].used)
    BY <1>11
  <2>4. QED
    BY <1>3, <1>6, <2>1, <2>2, <2>3, AddWork
<1>14. tail[t] \in Pointer /\ l \in LocType /\ l.b = b /\ l.other = tail[t] /\ l.del = Null
  <2>1. tail[t] \in Pointer /\ b \in Pointer
    BY <1>2, <1>6 DEF FieldTypes, Pointer
  <2>2. QED
    BY <2>1, IdleOK DEF Idle
<1> HIDE DEF l
<1>15. Merging(new, S, l)
  <2>1. NextUp(S, -1, tail[t])
    BY <1>2 DEF Linked
  <2>2. tail[t] # Null => 0 <= pow(tail[t])
    <3>1. tail[t] # Null => tail[t] \in Blocks
      BY <1>14 DEF Pointer
    <3>2. QED
      BY <3>1, Sizes
  <2>3. QED
    BY <1>6, <1>9, <1>10, <1>14, <2>1, <2>2 DEF Merging, Deleted
<1>16. StateOK(new, S, head[t], tail[t], spied[t], "merge", l)
  BY <1>13, <1>14, <1>15 DEF StateOK, Work
<1>17. "merge" \in Pcs
  BY DEF Pcs
<1>18. /\ pc' \in [Threads -> Pcs] /\ loc' \in [Threads -> LocType]
       /\ pc'[t] = "merge" /\ loc'[t] = l
       /\ \A u \in Threads \ {t} : pc'[u] = pc[u] /\ loc'[u] = loc[u]
  BY <1>1, <1>2, <1>14, <1>17, GotoOK
<1>19. FieldTypes'
  <2>1. CachedAfterInsert(t, e) \in Entry
    BY <1>2, <1>4 DEF CachedAfterInsert, FieldTypes, Entry
  <2>2. version' \in [Items -> Nat] /\ key' \in [Items -> Keys \union {0}] /\ cached' \in [Threads -> Entry]
    BY <1>1, <1>2, <2>1 DEF FieldTypes
  <2>3. QED
    BY <1>1, <1>2, <1>18, <2>2 DEF FieldTypes
<1>20. Others(t)
  BY <1>1, <1>18 DEF Others
<1>21. CopyOK(t)'
  BY <1>18, NotCopying DEF Copying
<1>22. StateOK(new, S, head'[t], tail'[t], spied'[t], pc'[t], loc'[t])
  BY <1>1, <1>16, <1>18
<1>23. Inv' /\ List(t)' = S
  BY <1>1, <1>7, <1>12, <1>19, <1>20, <1>21, <1>22, WriteStep
<1>24. \A x \in S : new[x] = bs[x]
  BY <1>3, <1>6, <1>10, ListFacts
<1>25. Inserts(t, new, e)
  BY <1>1, <1>4, <1>6, <1>10, <1>12, <1>14, <1>18, <1>24 DEF Inserts, bs, S, y
<1>26. QED
  BY <1>20, <1>23, <1>25 DEF S, e

(* The block that a merge writes.                                          *)
LEMMA MergedBlock ==
    ASSUME NEW b \in Blocks, NEW x, BlockOK(b, x, Elements), Blank(x),
           NEW bl \in Blocks, NEW lhs, BlockOK(bl, lhs, Elements), Ordered(lhs),
           NEW br \in Blocks, NEW rhs, BlockOK(br, rhs, Elements), Ordered(rhs),
           size(lhs) + size(rhs) <= capacity(b), NEW prune \in BOOLEAN
    PROVE  LET y == MergeInto(version, set_used(x), lhs, rhs, prune)
           IN  /\ BlockOK(b, y, Elements) /\ Grows(x, y) /\ Ordered(y)
               /\ y.used /\ y.next = Null /\ y.prev = Null
               /\ Stores(y, Remaining(version, lhs, rhs, prune))
PROOF
<1> DEFINE z == set_used(x)
           y == MergeInto(version, z, lhs, rhs, prune)
<1>1. /\ BlockOK(b, z, Elements) /\ SameEntries(x, z)
      /\ z.used /\ z.next = x.next /\ z.prev = x.prev
  BY SetUsedOK
<1>2. z.first = 0 /\ z.next = Null /\ z.prev = Null /\ Grows(x, z)
  BY <1>1, SameEntriesKeep DEF SameEntries, Blank
<1>3. EMPTY \notin Elements /\ \A e \in Elements : e.key \in Nat
  BY ItemsOK
<1> HIDE DEF z
<1>4. /\ BlockOK(b, y, Elements) /\ Grows(z, y) /\ Ordered(y)
      /\ y.used = z.used /\ y.next = z.next /\ y.prev = z.prev
      /\ Stores(y, Remaining(version, lhs, rhs, prune))
  <2>1. BlockOK(b, z, Elements) /\ z.first = 0
    BY <1>1, <1>2
  <2>2. QED
    BY <1>3, <2>1, MergeIntoOK, SMTT(60)
<1> HIDE DEF y
<1>5. Grows(x, y)
  BY <1>1, <1>2, <1>4, GrowsTransitive
<1>6. /\ BlockOK(b, y, Elements) /\ Grows(x, y) /\ Ordered(y)
      /\ y.used /\ y.next = Null /\ y.prev = Null
      /\ Stores(y, Remaining(version, lhs, rhs, prune))
  BY <1>1, <1>2, <1>4, <1>5
<1>7. QED
  BY <1>6 DEF y, z

(* The block that a copy writes.                                           *)
LEMMA CopiedBlock ==
    ASSUME NEW b \in Blocks, NEW x, BlockOK(b, x, Elements), Blank(x),
           NEW bt \in Blocks, NEW that, BlockOK(bt, that, Elements), Ordered(that),
           size(that) <= capacity(b)
    PROVE  LET y == CopyInto(version, set_used(x), that)
           IN  /\ BlockOK(b, y, Elements) /\ Grows(x, y) /\ Ordered(y)
               /\ y.used /\ y.next = Null /\ y.prev = Null
               /\ y.first = 0 /\ size(y) <= size(that)
               /\ Stores(y, Untaken(version, Active(that)))
PROOF
<1> DEFINE z == set_used(x)
           y == CopyInto(version, z, that)
<1>1. /\ BlockOK(b, z, Elements) /\ SameEntries(x, z)
      /\ z.used /\ z.next = x.next /\ z.prev = x.prev
  BY SetUsedOK
<1>2. z.first = 0 /\ z.next = Null /\ z.prev = Null /\ Grows(x, z)
  BY <1>1, SameEntriesKeep DEF SameEntries, Blank
<1>3. EMPTY \notin Elements /\ \A e \in Elements : e.key \in Nat
  BY ItemsOK
<1> HIDE DEF z
<1>4. /\ BlockOK(b, y, Elements) /\ Grows(z, y) /\ Ordered(y)
      /\ y.used = z.used /\ y.next = z.next /\ y.prev = z.prev
      /\ y.first = 0 /\ size(y) <= size(that)
      /\ Stores(y, Untaken(version, Active(that)))
  <2>1. BlockOK(b, z, Elements) /\ z.first = 0
    BY <1>1, <1>2
  <2>2. QED
    BY <1>3, <2>1, CopyIntoOK, SMTT(60)
<1> HIDE DEF y
<1>5. Grows(x, y)
  BY <1>1, <1>2, <1>4, GrowsTransitive
<1>6. /\ BlockOK(b, y, Elements) /\ Grows(x, y) /\ Ordered(y)
      /\ y.used /\ y.next = Null /\ y.prev = Null
      /\ y.first = 0 /\ size(y) <= size(that)
      /\ Stores(y, Untaken(version, Active(that)))
  BY <1>1, <1>2, <1>4, <1>5
<1>7. QED
  BY <1>6 DEF y, z

(* The block at hand and other_block are merged into a new one.            *)
Merges(t, new) ==
    LET l == loc[t]
        m == loc'[t].b
    IN  /\ SetBlocks(t, new) /\ Written(t, new)
        /\ pc'[t] = "merge" /\ loc'[t].del = l.other
        /\ l.b \in Blocks \ List(t) /\ m \in Blocks \ List(t)
        /\ l.other \in List(t) /\ NextUp(List(t), Deleted(l), l.other)
        /\ \E prune \in BOOLEAN :
               Stores(new[m], Remaining(version, blk[t][l.b], blk[t][l.other], prune))
        /\ \A x \in List(t) : new[x] = blk[t][x]

(* merge *)
LEMMA mergeStep ==
    ASSUME Inv, N >= 4, NEW t \in Threads, merge(t)
    PROVE  Inv' /\ List(t)' = List(t) /\ Others(t) /\ \E new : Merges(t, new)
PROOF
<1> DEFINE bs == blk[t]
           S == List(t)
           l == loc[t]
           b == l.b
           other == l.other
           fits == size(bs[b]) + size(bs[other]) <= capacity(b)
           p == IF fits THEN pow(b) ELSE pow(b) + 1
           m == get_block(bs, p)
           l2 == [l EXCEPT !.b = m, !.del = other, !.other = bs[other].prev]
<1> DEFINE y(prune) == MergeInto(version, set_used(bs[m]), bs[b], bs[other], prune)
           new(prune) == [bs EXCEPT ![m] = MergeInto(version, set_used(@), bs[b], bs[other], prune),
                                    ![b] = Unused(@)]
<1>1. PICK prune \in BOOLEAN : SetBlocks(t, new(prune))
  BY DEF merge
<1>2. /\ pc[t] = "merge" /\ other # Null /\ pow(b) = pow(other)
      /\ fits \/ pow(b) < MaxPow
      /\ fault' = (fault \/ bs[m].used)
      /\ Goto(t, "merge", l2)
      /\ UNCHANGED <<version, key, head, tail, spied, cached, shared>>
  BY DEF merge, Mergeable, CheckUnused
<1>3. /\ Types /\ FieldTypes /\ fault = FALSE /\ bs \in [Blocks -> AnyBlock]
      /\ StateOK(bs, S, head[t], tail[t], spied[t], pc[t], loc[t])
      /\ ListAt(bs, S, head[t], tail[t], spied[t], Work(pc[t], loc[t]))
      /\ Linked(bs, S, head[t], tail[t]) /\ l \in LocType
  BY ThreadFacts
<1>4. ListAt(bs, S, head[t], tail[t], spied[t], {b}) /\ Merging(bs, S, l)
  BY <1>2, <1>3 DEF Work, StateOK
<1> HIDE DEF bs, S, l
<1>5. /\ b \in Blocks /\ other \in S /\ other \in Blocks
      /\ S \subseteq Blocks /\ b \notin S /\ spied[t] \notin S \union {b}
  <2>1. other \in S /\ b \in Blocks
    BY <1>2, <1>4 DEF Merging, NextUp
  <2>2. QED
    BY <1>4, <2>1, ListFacts
<1>6. /\ BlockOK(b, bs[b], Elements) /\ BlockOK(other, bs[other], Elements)
      /\ Ordered(bs[b]) /\ Ordered(bs[other])
      /\ size(bs[b]) \in Nat /\ size(bs[b]) <= capacity(b)
      /\ size(bs[other]) \in Nat /\ size(bs[other]) <= capacity(other)
      /\ \A x \in Blocks : BlockOK(x, bs[x], Elements)
  <2>1. b # spied[t] /\ other # spied[t]
    BY <1>5
  <2>2. QED
    BY <1>4, <1>5, <2>1, ListFacts
<1>7. p \in 0 .. MaxPow
  <2>1. pow(b) \in 0 .. MaxPow /\ MaxPow \in Nat
    BY <1>5, Sizes
  <2> HIDE DEF fits, b
  <2>2. QED
    BY <1>2, <2>1
<1> HIDE DEF p
<1>8. m \in Blocks /\ pow(m) = p /\ m \notin S \union {b} /\ m # spied[t] /\ Blank(bs[m])
  BY <1>4, <1>7, FreeBlock
<1>9. size(bs[b]) + size(bs[other]) <= capacity(m)
  <2>1. capacity(other) = capacity(b) /\ capacity(b) \in Nat
    BY <1>2, <1>5, Sizes
  <2>2. CASE fits
    <3>1. capacity(m) = capacity(b)
      BY <1>5, <1>8, <2>2, Sizes DEF p
    <3>2. QED
      BY <2>2, <3>1
  <2>3. CASE ~fits
    <3>1. capacity(m) = 2 * capacity(b)
      BY <1>5, <1>8, <2>3, Sizes DEF p
    <3>2. QED
      BY <1>6, <2>1, <3>1
  <2>4. QED
    BY <2>2, <2>3
<1> HIDE DEF m, b, other, fits
<1> DEFINE z == y(prune)
           v == Unused(bs[b])
           w == new(prune)
<1>10. /\ BlockOK(m, z, Elements) /\ Grows(bs[m], z) /\ Ordered(z)
       /\ z.used /\ z.next = Null /\ z.prev = Null
       /\ Stores(z, Remaining(version, bs[b], bs[other], prune))
  BY <1>5, <1>6, <1>8, <1>9, MergedBlock
<1>11. BlockOK(b, v, Elements) /\ Grows(bs[b], v) /\ Ordered(v) /\ Blank(v)
  BY <1>5, <1>6, UnusedOK DEF Blank
<1>12. w[m] = z /\ w[b] = v /\ \A x \in Blocks \ {m, b} : w[x] = bs[x]
  BY <1>3, <1>5, <1>8
<1> HIDE DEF z, v, y, new, w
<1>13. \A x \in Blocks : BlockOK(x, w[x], Elements) /\ Grows(bs[x], w[x])
  <2>1. \A x \in Blocks : Grows(bs[x], bs[x])
    BY <1>6, SameEntriesKeep DEF SameEntries
  <2>2. QED
    BY <1>6, <1>10, <1>11, <1>12, <2>1
<1>14. ListAt(w, S, head[t], tail[t], spied[t], {m})
  <2>1. \A x \in S : w[x] = bs[x]
    BY <1>5, <1>8, <1>12
  <2>2. Linked(w, S, head[t], tail[t])
    BY <1>3, <2>1, LinkedSame
  <2>3. \A x \in S \union {m} : w[x].used /\ Ordered(w[x])
    BY <1>4, <1>10, <1>12, <2>1 DEF ListAt
  <2>4. spied[t] # Null => w[spied[t]].used
    BY <1>4, <1>5, <1>8, <1>12 DEF ListAt, Pointer
  <2>5. \A x \in Blocks \ (S \union {m} \union {spied[t]}) : Blank(w[x])
    BY <1>4, <1>11, <1>12 DEF ListAt
  <2>6. spied[t] \in Pointer
    BY <1>4 DEF ListAt
  <2>7. QED
    BY <1>5, <1>8, <1>13, <2>2, <2>3, <2>4, <2>5, <2>6 DEF ListAt
<1> DEFINE c == bs[other].prev
<1>15. c \in S \union {Null} /\ NextUp(S, pow(other), c)
  BY <1>3, <1>5 DEF Linked, NextUp
<1>16. l2 \in LocType /\ l2.b = m /\ l2.other = c /\ l2.del = other
  BY <1>3, <1>5, <1>8, <1>15 DEF LocType, Pointer
<1> HIDE DEF l2, c
<1>17. Merging(w, S, l2)
  <2>1. other # Null /\ pow(other) <= pow(m)
    <3>1. other # Null /\ pow(b) \in Nat
      BY <1>2, <1>5, Sizes
    <3>2. QED
      BY <1>2, <1>8, <3>1 DEF p
  <2>2. ASSUME c # Null PROVE pow(m) <= pow(c)
    <3>1. c \in S /\ pow(c) > pow(other)
      BY <1>15, <2>2 DEF NextUp
    <3>2. pow(c) \in Nat /\ pow(b) \in Nat
      BY <1>5, <3>1, Sizes
    <3>3. QED
      BY <1>2, <1>8, <3>1, <3>2 DEF p
  <2>3. w[m].next = Null
    BY <1>10, <1>12
  <2>4. QED
    BY <1>5, <1>8, <1>15, <1>16, <2>1, <2>2, <2>3 DEF Merging, Deleted
<1>18. StateOK(w, S, head[t], tail[t], spied[t], "merge", l2)
  BY <1>14, <1>16, <1>17 DEF StateOK, Work
<1>19. /\ pc' \in [Threads -> Pcs] /\ loc' \in [Threads -> LocType]
       /\ pc'[t] = "merge" /\ loc'[t] = l2
       /\ \A x \in Threads \ {t} : pc'[x] = pc[x] /\ loc'[x] = loc[x]
  <2>1. "merge" \in Pcs
    BY DEF Pcs
  <2>2. QED
    BY <1>2, <1>3, <1>16, <2>1, GotoOK
<1>20. FieldTypes'
  BY <1>2, <1>3, <1>19 DEF FieldTypes
<1>21. Others(t)
  BY <1>2, <1>19 DEF Others
<1>22. CopyOK(t)'
  BY <1>19, NotCopying DEF Copying
<1>23. fault' = FALSE
  BY <1>2, <1>3, <1>8 DEF Blank
<1>24. Written(t, w)
  BY <1>13 DEF Written, bs
<1>25. StateOK(w, S, head'[t], tail'[t], spied'[t], pc'[t], loc'[t])
  BY <1>2, <1>18, <1>19
<1>26. SetBlocks(t, w)
  BY <1>1 DEF w
<1>27. Inv' /\ List(t)' = S
  BY <1>20, <1>21, <1>22, <1>23, <1>24, <1>25, <1>26, WriteStep
<1>28. NextUp(S, Deleted(l), other)
  BY <1>4 DEF Merging, other
<1>29. Merges(t, w)
  <2>1. \A x \in S : w[x] = bs[x]
    BY <1>5, <1>8, <1>12
  <2>2. Stores(w[m], Remaining(version, bs[b], bs[other], prune))
    BY <1>10, <1>12
  <2>3. b \in Blocks \ S /\ m \in Blocks \ S /\ other \in S
    BY <1>5, <1>8
  <2>4. pc'[t] = "merge" /\ loc'[t].del = other /\ loc'[t].b = m
    BY <1>16, <1>19
  <2>5. SetBlocks(t, w) /\ Written(t, w)
    BY <1>24, <1>26
  <2>6. l = loc[t] /\ b = l.b /\ other = l.other /\ bs = blk[t] /\ S = List(t)
    BY DEF l, b, other, bs, S
  <2>7. QED
    BY <1>28, <2>1, <2>2, <2>3, <2>4, <2>5, <2>6 DEF Merges
<1>30. QED
  BY <1>21, <1>27, <1>29 DEF S

-----------------------------------------------------------------------------
(* Changes of pointers, and releases. *)

(* Nothing but pointers has changed.                                       *)
Relinked(bs, new) ==
    /\ new \in [Blocks -> AnyBlock]
    /\ \A x \in Blocks : /\ BlockOK(x, new[x], Elements) /\ SameEntries(bs[x], new[x])
                         /\ new[x].used = bs[x].used

(* bs after "c->m_next = p" and after "c->m_prev = p", unless c is the     *)
(* null pointer.                                                           *)
NextSet(bs, c, p) == IF c = Null THEN bs ELSE [bs EXCEPT ![c].next = p]
PrevSet(bs, c, p) == IF c = Null THEN bs ELSE [bs EXCEPT ![c].prev = p]

(* Writing a pointer changes nothing else.                                 *)
LEMMA SetNextOK ==
    ASSUME NEW bs \in [Blocks -> AnyBlock], \A x \in Blocks : BlockOK(x, bs[x], Elements),
           NEW c \in Pointer, NEW p \in Pointer
    PROVE  LET new == NextSet(bs, c, p)
           IN  /\ Relinked(bs, new)
               /\ \A x \in Blocks : /\ new[x].next = IF x = c THEN p ELSE bs[x].next
                                    /\ new[x].prev = bs[x].prev
PROOF
<1> DEFINE new == NextSet(bs, c, p)
           y == [bs[c] EXCEPT !.next = p]
<1>1. Null \notin Blocks /\ (c # Null => c \in Blocks)
  BY Sizes DEF Pointer
<1>2. CASE c = Null
  <2>1. new = bs /\ \A x \in Blocks : x # c
    BY <1>1, <1>2 DEF NextSet
  <2> HIDE DEF new
  <2>2. QED
    BY <2>1 DEF Relinked, SameEntries, new
<1>3. CASE c # Null
  <2>1. /\ BlockOK(c, y, Elements) /\ SameEntries(bs[c], y)
        /\ y.used = bs[c].used /\ y.next = p /\ y.prev = bs[c].prev
    BY <1>1, <1>3, NextOK
  <2>2. y \in AnyBlock
    BY <1>1, <1>3, <2>1 DEF BlockOK, AnyBlock
  <2>3. new = [bs EXCEPT ![c] = y]
    BY <1>3 DEF NextSet
  <2> HIDE DEF new, y
  <2>4. new \in [Blocks -> AnyBlock] /\ new[c] = y /\ \A x \in Blocks \ {c} : new[x] = bs[x]
    BY <1>1, <1>3, <2>2, <2>3
  <2>5. QED
    BY <1>1, <2>1, <2>4 DEF Relinked, SameEntries, new
<1>4. QED
  BY <1>2, <1>3

(* The same of m_prev.                                                     *)
LEMMA SetPrevOK ==
    ASSUME NEW bs \in [Blocks -> AnyBlock], \A x \in Blocks : BlockOK(x, bs[x], Elements),
           NEW c \in Pointer, NEW p \in Pointer
    PROVE  LET new == PrevSet(bs, c, p)
           IN  /\ Relinked(bs, new)
               /\ \A x \in Blocks : /\ new[x].prev = IF x = c THEN p ELSE bs[x].prev
                                    /\ new[x].next = bs[x].next
PROOF
<1> DEFINE new == PrevSet(bs, c, p)
           y == [bs[c] EXCEPT !.prev = p]
<1>1. Null \notin Blocks /\ (c # Null => c \in Blocks)
  BY Sizes DEF Pointer
<1>2. CASE c = Null
  <2>1. new = bs /\ \A x \in Blocks : x # c
    BY <1>1, <1>2 DEF PrevSet
  <2> HIDE DEF new
  <2>2. QED
    BY <2>1 DEF Relinked, SameEntries, new
<1>3. CASE c # Null
  <2>1. /\ BlockOK(c, y, Elements) /\ SameEntries(bs[c], y)
        /\ y.used = bs[c].used /\ y.next = bs[c].next /\ y.prev = p
    BY <1>1, <1>3, PrevOK
  <2>2. y \in AnyBlock
    BY <1>1, <1>3, <2>1 DEF BlockOK, AnyBlock
  <2>3. new = [bs EXCEPT ![c] = y]
    BY <1>3 DEF PrevSet
  <2> HIDE DEF new, y
  <2>4. new \in [Blocks -> AnyBlock] /\ new[c] = y /\ \A x \in Blocks \ {c} : new[x] = bs[x]
    BY <1>1, <1>3, <2>2, <2>3
  <2>5. QED
    BY <1>1, <2>1, <2>4 DEF Relinked, SameEntries, new
<1>4. QED
  BY <1>2, <1>3

(* Two changes of pointers in a row.                                       *)
LEMMA RelinkedTwice ==
    ASSUME NEW bs, NEW mid, NEW new, Relinked(bs, mid), Relinked(mid, new)
    PROVE  Relinked(bs, new)
BY DEF Relinked, SameEntries

(* Pointers are changed, then the blocks of B are set unused.              *)
LEMMA Released ==
    ASSUME NEW bs, \A x \in Blocks : BlockOK(x, bs[x], Elements),
           NEW mid, Relinked(bs, mid), NEW B
    PROVE  LET new == Release(mid, B)
           IN  \A x \in Blocks :
                 /\ BlockOK(x, new[x], Elements) /\ Grows(bs[x], new[x])
                 /\ x \in B => Blank(new[x])
                 /\ x \notin B => /\ new[x].next = mid[x].next /\ new[x].prev = mid[x].prev
                                  /\ new[x].used = bs[x].used
                                  /\ (Ordered(bs[x]) => Ordered(new[x]))
PROOF
<1> DEFINE new == Release(mid, B)
<1> SUFFICES ASSUME NEW x \in Blocks
             PROVE  /\ BlockOK(x, new[x], Elements) /\ Grows(bs[x], new[x])
                    /\ x \in B => Blank(new[x])
                    /\ x \notin B => /\ new[x].next = mid[x].next /\ new[x].prev = mid[x].prev
                                     /\ new[x].used = bs[x].used
                                     /\ (Ordered(bs[x]) => Ordered(new[x]))
  OBVIOUS
<1>1. /\ BlockOK(x, mid[x], Elements) /\ SameEntries(bs[x], mid[x])
      /\ mid[x].used = bs[x].used
  BY DEF Relinked
<1>2. Grows(bs[x], mid[x]) /\ (Ordered(bs[x]) => Ordered(mid[x]))
  BY <1>1, SameEntriesKeep
<1>3. new[x] = IF x \in B THEN Unused(mid[x]) ELSE mid[x]
  BY DEF Release
<1> HIDE DEF new
<1>4. CASE x \in B
  <2> DEFINE y == Unused(mid[x])
  <2>1. /\ BlockOK(x, y, Elements) /\ Grows(mid[x], y) /\ Ordered(y)
        /\ ~y.used /\ y.next = Null /\ y.prev = Null /\ y.first = 0 /\ y.last = 0
    BY <1>1, UnusedOK
  <2> HIDE DEF y
  <2>2. Grows(bs[x], y)
    BY <1>1, <1>2, <2>1, GrowsTransitive
  <2>3. new[x] = y
    BY <1>3, <1>4 DEF y
  <2>4. QED
    BY <1>4, <2>1, <2>2, <2>3 DEF Blank
<1>5. CASE x \notin B
  BY <1>1, <1>2, <1>3, <1>5
<1>6. QED
  BY <1>4, <1>5

(* The list after such a step: R is the set of its blocks, the others it   *)
(* had and those that were worked on are released.                         *)
LEMMA ListAfter ==
    ASSUME NEW bs, NEW S, NEW h, NEW tl, NEW sp, NEW W, ListAt(bs, S, h, tl, sp, W),
           NEW mid, Relinked(bs, mid),
           \A x \in Blocks \ (S \union W) : mid[x].next = bs[x].next /\ mid[x].prev = bs[x].prev,
           NEW B, NEW R, NEW h2, NEW tl2, Linked(mid, R, h2, tl2),
           \A x \in R : x \in S \/ x \in W,
           \A x : x \in B <=> (x \in S \/ x \in W) /\ x \notin R
    PROVE  ListAt(Release(mid, B), R, h2, tl2, sp, {})
PROOF
<1> DEFINE new == Release(mid, B)
<1>1. /\ \A x \in Blocks : BlockOK(x, bs[x], Elements)
      /\ S \subseteq Blocks /\ W \subseteq Blocks /\ sp \in Pointer
      /\ sp \notin S \union W
  BY ListFacts
<1>2. \A x \in Blocks :
         /\ BlockOK(x, new[x], Elements)
         /\ x \in B => Blank(new[x])
         /\ x \notin B => /\ new[x].next = mid[x].next /\ new[x].prev = mid[x].prev
                          /\ new[x].used = bs[x].used
                          /\ (Ordered(bs[x]) => Ordered(new[x]))
  BY <1>1, Released
<1>3. \A x \in Blocks \ B : new[x].first = bs[x].first /\ new[x].last = bs[x].last
  BY DEF Release, Relinked, SameEntries
<1> HIDE DEF new
<1>4. \A x \in R : x \in Blocks /\ x \notin B
  BY <1>1
<1>5. Linked(new, R, h2, tl2)
  BY <1>2, <1>4, LinkedSame
<1>6. \A x \in R : new[x].used /\ Ordered(new[x])
  BY <1>2, <1>4 DEF ListAt
<1>7. sp # Null => new[sp].used
  <2>1. sp # Null => sp \in Blocks /\ sp \notin B /\ bs[sp].used
    BY <1>1 DEF Pointer, ListAt
  <2>2. QED
    BY <1>2, <2>1
<1>8. ASSUME NEW x \in Blocks \ (R \union {} \union {sp}) PROVE Blank(new[x])
  <2>1. CASE x \in B
    BY <1>2, <2>1
  <2>2. CASE x \notin B
    <3>1. x \in Blocks \ (S \union W \union {sp}) /\ Blank(bs[x])
      BY <2>2 DEF ListAt
    <3>2. QED
      BY <1>2, <1>3, <2>2, <3>1 DEF Blank
  <2>3. QED
    BY <2>1, <2>2
<1>9. ListAt(new, R, h2, tl2, sp, {})
  BY <1>1, <1>2, <1>4, <1>5, <1>6, <1>7, <1>8 DEF ListAt
<1>10. QED
  BY <1>9 DEF new

(* The blocks of a list from delete_block on.                              *)
LEMMA ChainFrom ==
    ASSUME NEW bs, \A x \in Blocks : bs[x].next \in Pointer,
           NEW S, NEW h, NEW tl, Linked(bs, S, h, tl), NEW c \in S \union {Null}
    PROVE  Chain(bs, c, Null) = {x \in S : pow(x) <= IF c = Null THEN -1 ELSE pow(c)}
PROOF
<1> DEFINE d == IF c = Null THEN -1 ELSE pow(c)
           D == {x \in S : pow(x) <= d}
<1>1. S \in SUBSET Blocks /\ OnePerSize(S)
  BY DEF Linked
<1>2. MaxPow \in Nat /\ \A b \in S : pow(b) \in Nat /\ pow(b) < MaxPow + 1 /\ pow(b) > -1 /\ b # Null
  BY <1>1, PowInt
<1>3. d \in Int /\ d >= -1
  BY <1>2
<1>4. D \in SUBSET Blocks /\ OnePerSize(D)
  BY <1>1 DEF OnePerSize
<1>5. NextDown(D, MaxPow + 1, c)
  <2>1. CASE c = Null
    <3>1. d = -1
      BY <2>1
    <3>2. D = {}
      BY <1>2, <3>1
    <3>3. QED
      BY <2>1, <3>2 DEF NextDown
  <2>2. CASE c # Null
    <3>1. c \in S /\ d = pow(c) /\ pow(c) < MaxPow + 1 /\ pow(c) \in Nat
      BY <1>2, <2>2
    <3> HIDE DEF d
    <3>2. c \in D
      BY <3>1
    <3>3. QED
      BY <3>1, <3>2 DEF NextDown
  <2>3. QED
    BY <2>1, <2>2
<1> HIDE DEF d
<1>6. ASSUME NEW x \in D PROVE NextDown(D, pow(x), bs[x].next)
  <2> DEFINE n == bs[x].next
  <2>1. NextDown(S, pow(x), n)
    BY DEF Linked
  <2>2. CASE n = Null
    BY <1>2, <2>1, <2>2 DEF NextDown
  <2>3. CASE n # Null
    <3>1. n \in S /\ pow(n) < pow(x) /\ \A y \in S : pow(y) < pow(x) => pow(y) <= pow(n)
      BY <2>1, <2>3 DEF NextDown
    <3>2. n \in D
      BY <1>2, <1>3, <3>1
    <3>3. QED
      BY <3>1, <3>2 DEF NextDown
  <2>4. QED
    BY <2>2, <2>3
<1> HIDE DEF D
<1>7. Chain(bs, c, Null) = D
  BY <1>4, <1>5, <1>6, ChainIs
<1>8. QED
  BY <1>7 DEF D, d

(* What merge_insert leaves of the list when its loop is over.             *)
LEMMA MergeEnds ==
    ASSUME Inv, NEW t \in Threads, pc[t] = "merge", ~Mergeable(t)
    PROVE  LET bs == blk[t]
               l  == loc[t]
               D  == Chain(bs, l.del, Null)
               R  == List(t) \ D
               mid == [x \in Blocks |-> [next |-> IF x = l.other THEN Null ELSE bs[x].next,
                                         prev |-> bs[x].prev]]
           IN  /\ bs \in [Blocks -> AnyBlock] /\ \A x \in Blocks : BlockOK(x, bs[x], Elements)
               /\ ListAt(bs, List(t), head[t], tail[t], spied[t], {l.b})
               /\ l.b \in Blocks /\ bs[l.b].next = Null /\ l.b \notin List(t)
               /\ l.other \in Pointer /\ (l.other # Null => l.other \in R)
               /\ D \subseteq List(t) /\ R \subseteq Blocks
               /\ \A x \in R : pow(x) > pow(l.b)
               /\ R = {x \in List(t) : pow(x) > Deleted(l)}
               /\ Linked(mid, R, IF l.other = Null THEN Null ELSE head[t], l.other)
PROOF
<1> DEFINE bs == blk[t]
           l  == loc[t]
           S  == List(t)
           D  == Chain(bs, l.del, Null)
           R  == S \ D
           mid == [x \in Blocks |-> [next |-> IF x = l.other THEN Null ELSE bs[x].next,
                                     prev |-> bs[x].prev]]
           d == Deleted(l)
<1>1. /\ bs \in [Blocks -> AnyBlock]
      /\ StateOK(bs, S, head[t], tail[t], spied[t], pc[t], loc[t])
      /\ Linked(bs, S, head[t], tail[t])
  BY ThreadFacts
<1>2. ListAt(bs, S, head[t], tail[t], spied[t], {l.b}) /\ Merging(bs, S, l)
  BY <1>1 DEF Work, StateOK
<1>3. /\ \A x \in Blocks : BlockOK(x, bs[x], Elements) /\ bs[x].next \in Pointer
      /\ S \subseteq Blocks /\ l.b \in Blocks /\ l.b \notin S
  BY <1>2, ListFacts
<1>4. ~ (l.other # Null /\ pow(l.b) = pow(l.other))
  BY DEF Mergeable
<1>5. /\ bs[l.b].next = Null /\ l.del \in S \union {Null}
      /\ NextUp(S, d, l.other) /\ d <= pow(l.b)
      /\ l.other # Null => pow(l.b) <= pow(l.other)
  BY <1>2 DEF Merging
<1> HIDE DEF bs, l, S
<1> HIDE DEF d
<1>6. MaxPow \in Nat /\ \A x \in S : pow(x) \in Nat /\ x # Null
  BY <1>3, PowInt
<1>7. d \in Int /\ d = IF l.del = Null THEN -1 ELSE pow(l.del)
  BY <1>5, <1>6 DEF Deleted, d
<1>8. D = {x \in S : pow(x) <= d}
  BY <1>1, <1>3, <1>5, <1>7, ChainFrom
<1> HIDE DEF D
<1>9. R = {x \in S : pow(x) > d}
  BY <1>6, <1>7, <1>8
<1> HIDE DEF R
<1>10. l.other # Null => l.other \in R
  BY <1>5, <1>9 DEF NextUp
<1>11. l.other \in Pointer
  BY <1>3, <1>9, <1>10 DEF Pointer
<1>12. \A x \in R : pow(x) > pow(l.b)
  <2> SUFFICES ASSUME NEW x \in R PROVE pow(x) > pow(l.b)
    OBVIOUS
  <2>1. x \in S /\ pow(x) > d
    BY <1>9
  <2>2. l.other # Null /\ l.other \in S /\ pow(l.other) <= pow(x)
    BY <1>5, <1>6, <1>7, <2>1 DEF NextUp
  <2>3. pow(l.b) <= pow(l.other) /\ pow(l.b) # pow(l.other) /\ pow(l.b) \in Nat
    BY <1>3, <1>4, <1>5, <2>2, Sizes
  <2>4. QED
    BY <1>6, <2>1, <2>2, <2>3
<1>13. Linked(mid, R, IF l.other = Null THEN Null ELSE head[t], l.other)
  <2>1. /\ \A x \in S : mid[x].prev = bs[x].prev
        /\ \A x \in S : mid[x].next = IF x = l.other THEN Null ELSE bs[x].next
    BY <1>3
  <2> HIDE DEF mid
  <2>2. d \in Int /\ NextUp(S, d, l.other) /\ Linked(bs, S, head[t], tail[t])
    BY <1>1, <1>5, <1>7
  <2>3. QED
    BY <1>9, <2>1, <2>2, CutLast
<1>14. D \subseteq S /\ R \subseteq Blocks
  BY <1>3, <1>8, <1>9
<1> HIDE DEF mid
<1>15. QED
  BY <1>1, <1>2, <1>3, <1>5, <1>9, <1>10, <1>11, <1>12, <1>13, <1>14 DEF bs, l, S, D, R, mid, d

(* The blocks R of the new list keep their entries, the others of t are    *)
(* released.                                                               *)
Relists(t, new, R) ==
    /\ SetBlocks(t, new) /\ Written(t, new) /\ pc'[t] # "merge"
    /\ R \subseteq Blocks
    /\ \A x \in R : SameEntries(blk[t][x], new[x])

(* The same entries are the same sequence.                                 *)
LEMMA StoresSame ==
    ASSUME NEW x, NEW y, NEW s, Stores(x, s), SameEntries(x, y)
    PROVE  Stores(y, s)
BY DEF Stores, SameEntries

(* What is not released keeps its entries.                                 *)
LEMMA ReleasedSame ==
    ASSUME NEW bs, NEW mid, Relinked(bs, mid), NEW B, NEW R \in SUBSET Blocks,
           \A x \in R : x \notin B
    PROVE  \A x \in R : SameEntries(bs[x], Release(mid, B)[x])
BY DEF Relinked, Release

(* link *)
LEMMA linkStep ==
    ASSUME Inv, NEW t \in Threads, link(t)
    PROVE  LET R == {x \in List(t) : pow(x) > Deleted(loc[t])}
           IN  /\ Inv' /\ List(t)' = R \union {loc[t].b} /\ Others(t)
               /\ \E new : Relists(t, new, R \union {loc[t].b})
PROOF
<1> DEFINE bs == blk[t]
           S == List(t)
           b == loc[t].b
           other == loc[t].other
           D == Chain(bs, loc[t].del, Null)
           R == S \ D
           mid == [x \in Blocks |-> [next |-> IF x = other THEN Null ELSE bs[x].next,
                                     prev |-> bs[x].prev]]
           back == [bs EXCEPT ![b].prev = other]
           mine == IF other = Null THEN back ELSE [back EXCEPT ![other].next = b]
           new == Release(mine, D)
           h2 == IF other = Null THEN b ELSE head[t]
<1>1. /\ pc[t] = "merge" /\ ~Mergeable(t)
      /\ head' = IF other = Null THEN [head EXCEPT ![t] = b] ELSE head
      /\ tail' = [tail EXCEPT ![t] = b]
      /\ SetBlocks(t, new) /\ Goto(t, "idle", Idle)
      /\ UNCHANGED <<version, key, spied, cached, shared, fault>>
  BY DEF link, Return
<1>2. /\ bs \in [Blocks -> AnyBlock] /\ \A x \in Blocks : BlockOK(x, bs[x], Elements)
      /\ ListAt(bs, S, head[t], tail[t], spied[t], {b})
      /\ b \in Blocks /\ bs[b].next = Null /\ b \notin S
      /\ other \in Pointer /\ (other # Null => other \in R)
      /\ D \subseteq S /\ R \subseteq Blocks
      /\ \A x \in R : pow(x) > pow(b)
      /\ R = {x \in S : pow(x) > Deleted(loc[t])}
      /\ Linked(mid, R, IF other = Null THEN Null ELSE head[t], other)
  BY <1>1, MergeEnds
<1>3. Types /\ FieldTypes /\ fault = FALSE
  BY ThreadFacts
<1> HIDE DEF bs, S, b, other, D
<1>4. /\ Relinked(bs, back)
      /\ \A x \in Blocks : /\ back[x].prev = IF x = b THEN other ELSE bs[x].prev
                           /\ back[x].next = bs[x].next
  <2>1. b \in Pointer /\ b # Null
    BY <1>2, Sizes DEF Pointer
  <2>2. back = PrevSet(bs, b, other)
    BY <2>1 DEF PrevSet
  <2> HIDE DEF back
  <2>3. QED
    BY <1>2, <2>1, <2>2, SetPrevOK
<1> HIDE DEF back
<1>5. /\ Relinked(back, mine)
      /\ \A x \in Blocks : /\ mine[x].next = IF x = other THEN b ELSE back[x].next
                           /\ mine[x].prev = back[x].prev
  <2>1. /\ back \in [Blocks -> AnyBlock] /\ \A x \in Blocks : BlockOK(x, back[x], Elements)
        /\ b \in Pointer
    BY <1>2, <1>4 DEF Relinked, Pointer
  <2>2. mine = NextSet(back, other, b)
    BY DEF NextSet
  <2> HIDE DEF mine
  <2>3. QED
    BY <1>2, <2>1, <2>2, SetNextOK
<1> HIDE DEF mine
<1>6. /\ Relinked(bs, mine)
      /\ \A x \in Blocks : /\ mine[x].prev = IF x = b THEN other ELSE bs[x].prev
                           /\ mine[x].next = IF x = other THEN b ELSE bs[x].next
  BY <1>4, <1>5, RelinkedTwice
<1>7. Linked(mine, R \union {b}, h2, b)
  <2> DEFINE hm == IF other = Null THEN Null ELSE head[t]
             R2 == R \union {b}
  <2>1. \A x \in R : /\ mine[x].prev = mid[x].prev
                     /\ mine[x].next = IF x = other THEN b ELSE mid[x].next
    BY <1>2, <1>6
  <2>2. mine[b].next = Null /\ mine[b].prev = other
    BY <1>2, <1>6
  <2>3. b \in Blocks /\ b \notin R /\ \A x \in R : pow(x) > pow(b)
    BY <1>2
  <2>4. h2 = IF other = Null THEN b ELSE hm
    OBVIOUS
  <2>5. Linked(mid, R, hm, other)
    BY <1>2
  <2> HIDE DEF mid, R, hm, h2
  <2>6. Appended(mid, R, other, b, mine)
    BY <2>1, <2>2 DEF Appended
  <2>7. R2 = R \union {b}
    OBVIOUS
  <2> HIDE DEF R2
  <2>8. Linked(mine, R2, h2, b)
    BY <2>3, <2>4, <2>5, <2>6, <2>7, AddLast
  <2>9. QED
    BY <2>8 DEF R2
<1> HIDE DEF h2
<1>8. ListAt(new, R \union {b}, h2, b, spied[t], {})
  <2>1. /\ \A x \in R \union {b} : x \in S \/ x \in {b}
        /\ \A x : x \in D <=> (x \in S \/ x \in {b}) /\ x \notin R \union {b}
    BY <1>2
  <2>2. \A x \in Blocks \ (S \union {b}) : mine[x].next = bs[x].next /\ mine[x].prev = bs[x].prev
    BY <1>2, <1>6, Sizes
  <2> HIDE DEF R
  <2>3. QED
    BY <1>2, <1>6, <1>7, <2>1, <2>2, ListAfter
<1>9. Written(t, new)
  BY <1>2, <1>6, Released DEF Written, bs
<1> DEFINE R2 == R \union {b}
<1>20. R2 \subseteq Blocks /\ \A x \in R2 : SameEntries(bs[x], new[x])
  <2>1. R2 \in SUBSET Blocks /\ \A x \in R2 : x \notin D
    BY <1>2
  <2> HIDE DEF R2
  <2>2. QED
    BY <1>6, <2>1, ReleasedSame
<1>10. StateOK(new, R \union {b}, h2, b, spied[t], "idle", Idle)
  BY <1>8 DEF StateOK, Work, Copying
<1>11. "idle" \in Pcs /\ Idle \in LocType
  BY IdleOK DEF Pcs
<1>12. /\ pc' \in [Threads -> Pcs] /\ loc' \in [Threads -> LocType]
       /\ pc'[t] = "idle" /\ loc'[t] = Idle
       /\ \A x \in Threads \ {t} : pc'[x] = pc[x] /\ loc'[x] = loc[x]
  BY <1>1, <1>3, <1>11, GotoOK
<1>13. /\ head' \in [Threads -> Pointer] /\ tail' \in [Threads -> Pointer]
       /\ head'[t] = h2 /\ tail'[t] = b
       /\ \A x \in Threads \ {t} : head'[x] = head[x] /\ tail'[x] = tail[x]
  BY <1>1, <1>2, <1>3 DEF FieldTypes, Pointer, h2
<1> HIDE DEF new
<1>14. FieldTypes'
  BY <1>1, <1>3, <1>12, <1>13 DEF FieldTypes
<1>15. Others(t)
  BY <1>1, <1>12, <1>13 DEF Others
<1>16. CopyOK(t)'
  BY <1>12, NotCopying DEF Copying
<1>17. StateOK(new, R \union {b}, head'[t], tail'[t], spied'[t], pc'[t], loc'[t])
  BY <1>1, <1>10, <1>12, <1>13
<1>18. SetBlocks(t, new) /\ fault' = FALSE
  BY <1>1, <1>3
<1>19. Inv' /\ List(t)' = R2
  <2>1. StateOK(new, R2, head'[t], tail'[t], spied'[t], pc'[t], loc'[t])
    BY <1>17
  <2> HIDE DEF R2
  <2>2. QED
    BY <1>9, <1>14, <1>15, <1>16, <1>18, <2>1, WriteStep
<1>21. Relists(t, new, R2)
  BY <1>9, <1>12, <1>18, <1>20 DEF Relists, bs
<1>22. R2 = {x \in List(t) : pow(x) > Deleted(loc[t])} \union {loc[t].b}
  BY <1>2 DEF S, b
<1> HIDE DEF R2
<1>23. QED
  BY <1>15, <1>19, <1>21, <1>22

(* The shared LSM is handed entries of a block.                            *)
LEMMA EntriesOK ==
    ASSUME NEW b \in Blocks, NEW x, BlockOK(b, x, Elements)
    PROVE  Entries(x) \subseteq Elements
BY DEF Entries, BlockOK

(* hand_over *)
LEMMA hand_overStep ==
    ASSUME Inv, NEW t \in Threads, hand_over(t)
    PROVE  LET R == {x \in List(t) : pow(x) > Deleted(loc[t])}
           IN  /\ Inv' /\ List(t)' = R /\ Others(t) /\ loc[t].b \in Blocks \ R
               /\ \E new : Relists(t, new, R)
PROOF
<1> DEFINE bs == blk[t]
           S == List(t)
           b == loc[t].b
           other == loc[t].other
           D == Chain(bs, loc[t].del, Null)
           R == S \ D
           mid == [x \in Blocks |-> [next |-> IF x = other THEN Null ELSE bs[x].next,
                                     prev |-> bs[x].prev]]
           mine == IF other = Null THEN bs ELSE [bs EXCEPT ![other].next = Null]
           B == {b} \union D
           new == Release(mine, B)
           h2 == IF other = Null THEN Null ELSE head[t]
<1>1. /\ pc[t] = "merge" /\ ~Mergeable(t)
      /\ shared' = shared \union Handed(t)
      /\ head' = IF other = Null THEN [head EXCEPT ![t] = Null] ELSE head
      /\ tail' = [tail EXCEPT ![t] = other]
      /\ SetBlocks(t, new) /\ Goto(t, "idle", Idle)
      /\ UNCHANGED <<version, key, spied, cached, fault>>
  BY DEF hand_over, ToShared, Return
<1>2. /\ bs \in [Blocks -> AnyBlock] /\ \A x \in Blocks : BlockOK(x, bs[x], Elements)
      /\ ListAt(bs, S, head[t], tail[t], spied[t], {b})
      /\ b \in Blocks /\ b \notin S
      /\ other \in Pointer /\ (other # Null => other \in R)
      /\ D \subseteq S /\ R \subseteq Blocks
      /\ R = {x \in S : pow(x) > Deleted(loc[t])}
      /\ Linked(mid, R, h2, other)
  BY <1>1, MergeEnds
<1>3. Types /\ FieldTypes /\ fault = FALSE
  BY ThreadFacts
<1>4. Handed(t) \subseteq Elements
  <2>1. Handed(t) \subseteq Entries(bs[b])
    BY DEF Handed
  <2> HIDE DEF bs, b
  <2>2. QED
    BY <1>2, <2>1, EntriesOK
<1> HIDE DEF bs, S, b, other, D
<1>5. /\ Relinked(bs, mine)
      /\ \A x \in Blocks : /\ mine[x].next = IF x = other THEN Null ELSE bs[x].next
                           /\ mine[x].prev = bs[x].prev
  <2>1. Null \in Pointer
    BY DEF Pointer
  <2>2. mine = NextSet(bs, other, Null)
    BY DEF NextSet
  <2> HIDE DEF mine
  <2>3. QED
    BY <1>2, <2>1, <2>2, SetNextOK
<1> HIDE DEF mine
<1>6. Linked(mine, R, h2, other)
  <2>1. \A x \in R : mine[x].next = mid[x].next /\ mine[x].prev = mid[x].prev
    BY <1>2, <1>5
  <2> HIDE DEF mid, R, h2
  <2>2. QED
    BY <1>2, <2>1, LinkedSame
<1> HIDE DEF h2
<1>7. ListAt(new, R, h2, other, spied[t], {})
  <2>1. /\ \A x \in R : x \in S \/ x \in {b}
        /\ \A x : x \in B <=> (x \in S \/ x \in {b}) /\ x \notin R
    BY <1>2
  <2>2. \A x \in Blocks \ (S \union {b}) : mine[x].next = bs[x].next /\ mine[x].prev = bs[x].prev
    BY <1>2, <1>5, Sizes
  <2> HIDE DEF R, B
  <2>3. QED
    BY <1>2, <1>5, <1>6, <2>1, <2>2, ListAfter
<1>8. Written(t, new)
  BY <1>2, <1>5, Released DEF Written, bs
<1>19. \A x \in R : SameEntries(bs[x], new[x])
  <2>1. R \in SUBSET Blocks /\ \A x \in R : x \notin B
    BY <1>2
  <2> HIDE DEF R, B
  <2>2. QED
    BY <1>5, <2>1, ReleasedSame
<1>9. StateOK(new, R, h2, other, spied[t], "idle", Idle)
  BY <1>7 DEF StateOK, Work, Copying
<1>10. "idle" \in Pcs /\ Idle \in LocType
  BY IdleOK DEF Pcs
<1>11. /\ pc' \in [Threads -> Pcs] /\ loc' \in [Threads -> LocType]
       /\ pc'[t] = "idle" /\ loc'[t] = Idle
       /\ \A x \in Threads \ {t} : pc'[x] = pc[x] /\ loc'[x] = loc[x]
  BY <1>1, <1>3, <1>10, GotoOK
<1>12. /\ head' \in [Threads -> Pointer] /\ tail' \in [Threads -> Pointer]
       /\ head'[t] = h2 /\ tail'[t] = other
       /\ \A x \in Threads \ {t} : head'[x] = head[x] /\ tail'[x] = tail[x]
  BY <1>1, <1>2, <1>3 DEF FieldTypes, Pointer, h2
<1> HIDE DEF new
<1>13. FieldTypes'
  BY <1>1, <1>3, <1>4, <1>11, <1>12 DEF FieldTypes
<1>14. Others(t)
  BY <1>1, <1>11, <1>12 DEF Others
<1>15. CopyOK(t)'
  BY <1>11, NotCopying DEF Copying
<1>16. StateOK(new, R, head'[t], tail'[t], spied'[t], pc'[t], loc'[t])
  BY <1>1, <1>9, <1>11, <1>12
<1>17. SetBlocks(t, new) /\ fault' = FALSE
  BY <1>1, <1>3
<1>18. Inv' /\ List(t)' = R
  BY <1>8, <1>13, <1>14, <1>15, <1>16, <1>17, WriteStep
<1>20. Relists(t, new, R)
  BY <1>2, <1>8, <1>11, <1>17, <1>19 DEF Relists, bs
<1>21. R = {x \in List(t) : pow(x) > Deleted(loc[t])} /\ loc[t].b \in Blocks \ R
  BY <1>2 DEF S, b
<1> HIDE DEF R
<1>22. QED
  BY <1>14, <1>18, <1>20, <1>21
=============================================================================
