----------------------------- MODULE Iteration -----------------------------
(***************************************************************************)
(* Induction over the natural numbers in terms of sets, and the functions  *)
(* defined by it.  The loops of the models (Lines of Log, sift_up and      *)
(* sift_down of TaskHeap) are functions that apply one turn of the loop    *)
(* again and again; Iterated says that such a function exists, and NatInd  *)
(* is what an invariant of the loop is proved with.  First, the least of   *)
(* numbers.                                                                *)
(***************************************************************************)
EXTENDS Integers, FiniteSetsExt, WellFoundedInduction, TLAPS

\* A set of natural numbers has a least member.
LEMMA NatMin ==
    ASSUME NEW T \in SUBSET Nat, T # {}
    PROVE  \E x \in T : \A y \in T : x <= y
<1> DEFINE R == OpToRel(<, Nat)
<1>1. IsWellFoundedOn(R, Nat)
  BY NatLessThanWellFounded, Zenon
<1>2. \A x, y \in Nat : x < y => <<x, y>> \in R
  BY DEF OpToRel
<1> HIDE DEF R
<1>3. PICK x \in T : \A y \in T : ~ (<<y, x>> \in R)
  BY <1>1, WFMin
<1>4. \A y \in T : x \in Nat /\ y \in Nat /\ ~(y < x)
  BY <1>2, <1>3
<1> QED
  BY <1>4

\* The least of a set of numbers is one of them.
LEMMA MinOfSet ==
    ASSUME NEW T \in SUBSET Nat, T # {}
    PROVE  /\ Min(T) \in T
           /\ \A y \in T : Min(T) <= y
<1>1. \E x \in T : \A y \in T : x <= y
  BY NatMin
<1> QED
  BY <1>1 DEF Min

\* The greatest of numbers that are bounded is one of them.
LEMMA MaxBelow ==
    ASSUME NEW n \in Nat, NEW T \in SUBSET (0 .. n), T # {}
    PROVE  Max(T) \in T /\ \A y \in T : Max(T) >= y
<1> DEFINE D == {n - x : x \in T}
<1>1. D \in SUBSET Nat /\ D # {}
  <2>1. \A x \in T : n - x \in Nat
    OBVIOUS
  <2> QED
    BY <2>1
<1>2. PICK d \in D : \A e \in D : d <= e
  <2> HIDE DEF D
  <2> QED
    BY <1>1, NatMin
<1>3. PICK x \in T : d = n - x
  OBVIOUS
<1>4. ASSUME NEW y \in T
      PROVE  x >= y
  <2>1. n - x <= n - y
    BY <1>2, <1>3
  <2> QED
    BY <2>1
<1> HIDE DEF D
<1> QED
  BY <1>4 DEF Max

\* The smaller and the greater of two numbers.
LEMMA MinOfTwo ==
    ASSUME NEW a \in Int, NEW b \in Int
    PROVE  Min({a, b}) = IF a <= b THEN a ELSE b
<1>1. \A x \in {a, b} : (\A y \in {a, b} : x <= y) => x = IF a <= b THEN a ELSE b
  OBVIOUS
<1>2. \E x \in {a, b} : \A y \in {a, b} : x <= y
  OBVIOUS
<1> QED
  BY <1>1, <1>2 DEF Min

\* And the greater.
LEMMA MaxOfTwo ==
    ASSUME NEW a \in Int, NEW b \in Int
    PROVE  Max({a, b}) = IF a >= b THEN a ELSE b
<1>1. \A x \in {a, b} : (\A y \in {a, b} : x >= y) => x = IF a >= b THEN a ELSE b
  OBVIOUS
<1>2. \E x \in {a, b} : \A y \in {a, b} : x >= y
  OBVIOUS
<1> QED
  BY <1>1, <1>2 DEF Max

\* A set that has 0 and the successors of its members has all numbers.
LEMMA NatInd ==
    ASSUME NEW P, 0 \in P, \A n \in Nat : n \in P => n + 1 \in P
    PROVE  \A n \in Nat : n \in P
<1> DEFINE T == {n \in Nat : n \notin P}
<1> SUFFICES ASSUME T # {} PROVE FALSE
  OBVIOUS
<1>1. PICK x \in T : \A y \in T : x <= y
  BY NatMin
<1>2. x \in Nat /\ x # 0 /\ x \notin P
  OBVIOUS
<1>3. x - 1 \in Nat /\ (x - 1) + 1 = x /\ ~(x <= x - 1)
  BY <1>2
<1>4. x - 1 \in P
  BY <1>1, <1>3
<1> QED
  BY <1>2, <1>3, <1>4

\* A function that starts with s0 and takes each value from the one before by
\* step exists, and all of its values are in S.
LEMMA Iterated ==
    ASSUME NEW S, NEW s0 \in S, NEW step \in [S -> S]
    PROVE  \E f \in [Nat -> S] :
              \A n \in Nat : f[n] = IF n = 0 THEN s0 ELSE step[f[n - 1]]
<1> DEFINE Upto(n, g) == /\ g \in [0 .. n -> S] /\ g[0] = s0
                         /\ \A i \in 0 .. n - 1 : g[i + 1] = step[g[i]]
<1> DEFINE P == {n \in Nat : \E g \in [0 .. n -> S] : Upto(n, g)}
<1>1. 0 \in P
  <2>1. Upto(0, [i \in 0 .. 0 |-> s0])
    OBVIOUS
  <2> QED
    BY <2>1
<1>2. ASSUME NEW n \in Nat, n \in P
      PROVE  n + 1 \in P
  <2>1. PICK g \in [0 .. n -> S] : Upto(n, g)
    BY <1>2
  <2> DEFINE h == [i \in 0 .. n + 1 |-> IF i = n + 1 THEN step[g[n]] ELSE g[i]]
  <2>2. g[n] \in S /\ step[g[n]] \in S
    OBVIOUS
  <2>3. h \in [0 .. n + 1 -> S] /\ h[0] = s0
    BY <2>1, <2>2
  <2>4. ASSUME NEW i \in 0 .. n
        PROVE  h[i + 1] = step[h[i]]
    <3>1. CASE i = n
      BY <3>1
    <3>2. CASE i # n
      <4>1. i \in 0 .. n - 1 /\ i + 1 \in 0 .. n
        BY <3>2
      <4>2. g[i + 1] = step[g[i]]
        BY <2>1, <4>1
      <4> QED
        BY <4>1, <4>2
    <3> QED
      BY <3>1, <3>2
  <2> HIDE DEF h
  <2>5. Upto(n + 1, h)
    <3>1. (n + 1) - 1 = n
      OBVIOUS
    <3> QED
      BY <2>3, <2>4, <3>1
  <2>6. n + 1 \in Nat /\ \E k \in [0 .. n + 1 -> S] : Upto(n + 1, k)
    BY <2>3, <2>5
  <2> HIDE DEF Upto
  <2> QED
    BY <2>6
<1>3. \A n \in Nat : n \in P
  <2> HIDE DEF P
  <2> QED
    BY <1>1, <1>2, NatInd
<1>4. \A n \in Nat : \E g \in [0 .. n -> S] : Upto(n, g)
  BY <1>3
<1> HIDE DEF Upto
<1> DEFINE G == [n \in Nat |-> CHOOSE g \in [0 .. n -> S] : Upto(n, g)]
<1>5. \A n \in Nat : G[n] \in [0 .. n -> S] /\ Upto(n, G[n])
  BY <1>4
<1> HIDE DEF G
\* Two of them agree as far as both go.
<1>6. ASSUME NEW m \in Nat, NEW n \in Nat, m <= n
      PROVE  \A i \in 0 .. m : G[m][i] = G[n][i]
  <2> DEFINE Q == {i \in Nat : i <= m => G[m][i] = G[n][i]}
  <2>0. 0 \in Q
    BY <1>5 DEF Upto
  <2>1. ASSUME NEW i \in Nat, i \in Q
        PROVE  i + 1 \in Q
    <3> SUFFICES ASSUME i + 1 <= m PROVE G[m][i + 1] = G[n][i + 1]
      OBVIOUS
    <3>1. G[m][i] = G[n][i]
      BY <2>1
    <3>2. i \in 0 .. m - 1 /\ i \in 0 .. n - 1
      BY <1>6
    <3> QED
      BY <1>5, <3>1, <3>2 DEF Upto
  <2>2. \A i \in Nat : i \in Q
    <3> HIDE DEF Q
    <3> QED
      BY <2>0, <2>1, NatInd
  <2> QED
    BY <2>2
<1> DEFINE F == [n \in Nat |-> G[n][n]]
<1>7. F \in [Nat -> S] /\ F[0] = s0
  <2>1. \A n \in Nat : G[n][n] \in S
    BY <1>5
  <2>2. G[0][0] = s0
    BY <1>5 DEF Upto
  <2> QED
    BY <2>1, <2>2
<1>8. ASSUME NEW n \in Nat
      PROVE  F[n + 1] = step[F[n]]
  <2>1. G[n + 1][n + 1] = step[G[n + 1][n]]
    BY <1>5 DEF Upto
  <2>2. G[n + 1][n] = G[n][n]
    BY <1>6
  <2> QED
    BY <2>1, <2>2
<1>9. ASSUME NEW n \in Nat
      PROVE  F[n] = IF n = 0 THEN s0 ELSE step[F[n - 1]]
  <2> HIDE DEF F
  <2>1. CASE n = 0
    BY <1>7, <2>1
  <2>2. CASE n # 0
    <3>1. n - 1 \in Nat /\ (n - 1) + 1 = n
      BY <2>2
    <3> QED
      BY <1>8, <2>2, <3>1
  <2> QED
    BY <2>1, <2>2
<1> HIDE DEF F
<1> QED
  BY <1>7, <1>9

\* The same for a step that also depends on how many have been taken.
LEMMA IteratedAt ==
    ASSUME NEW S, NEW s0 \in S, NEW step, step \in [Nat -> [S -> S]]
    PROVE  \E f \in [Nat -> S] :
              \A n \in Nat : f[n] = IF n = 0 THEN s0 ELSE step[n][f[n - 1]]
<1> DEFINE T == Nat \X S
           next == [p \in T |-> <<p[1] + 1, step[p[1] + 1][p[2]]>>]
           t0 == <<0, s0>>
<1>1. t0 \in T
  OBVIOUS
<1>2. next \in [T -> T]
  <2>1. ASSUME NEW p \in T
        PROVE  <<p[1] + 1, step[p[1] + 1][p[2]]>> \in T
    <3>1. p[1] + 1 \in Nat /\ p[2] \in S
      OBVIOUS
    <3>2. step[p[1] + 1][p[2]] \in S
      BY <3>1
    <3> QED
      BY <3>1, <3>2
  <2> QED
    BY <2>1
<1>3. PICK g \in [Nat -> T] :
          \A n \in Nat : g[n] = IF n = 0 THEN t0 ELSE next[g[n - 1]]
  <2> HIDE DEF T, next, t0
  <2> QED
    BY ONLY <1>1, <1>2, Iterated
<1>4. ASSUME NEW n \in Nat
      PROVE  /\ g[n] \in T
             /\ g[n + 1] = <<g[n][1] + 1, step[g[n][1] + 1][g[n][2]]>>
  <2>1. n + 1 \in Nat /\ n + 1 # 0 /\ (n + 1) - 1 = n
    OBVIOUS
  <2>2. g[n + 1] = next[g[n]]
    BY <1>3, <2>1
  <2> QED
    BY <2>2
<1> DEFINE P == {n \in Nat : g[n][1] = n}
           f == [n \in Nat |-> g[n][2]]
<1>5. g[0] = <<0, s0>>
  BY <1>3
<1> HIDE DEF T, next, t0
<1>6. \A n \in Nat : n \in P
  <2>1. 0 \in P
    BY <1>5
  <2>2. ASSUME NEW n \in Nat, n \in P
        PROVE  n + 1 \in P
    <3>1. g[n][1] = n /\ n + 1 \in Nat
      BY <2>2
    <3>2. g[n + 1][1] = n + 1
      BY <1>4, <3>1
    <3> QED
      BY <3>1, <3>2
  <2> HIDE DEF P
  <2> QED
    BY <2>1, <2>2, NatInd
<1>7. f \in [Nat -> S]
  BY <1>4 DEF T
<1>8. ASSUME NEW n \in Nat
      PROVE  f[n] = IF n = 0 THEN s0 ELSE step[n][f[n - 1]]
  <2>1. CASE n = 0
    BY <1>5, <2>1
  <2>2. CASE n # 0
    <3>1. n - 1 \in Nat /\ (n - 1) + 1 = n
      BY <2>2
    <3>2. g[n - 1][1] = n - 1
      BY <1>6, <3>1
    <3>3. g[(n - 1) + 1] = <<g[n - 1][1] + 1, step[g[n - 1][1] + 1][g[n - 1][2]]>>
      BY <1>4, <3>1
    <3>4. g[n][2] = step[n][g[n - 1][2]]
      BY <3>1, <3>2, <3>3
    <3> QED
      BY <2>2, <3>1, <3>4
  <2> QED
    BY <2>1, <2>2
<1> QED
  BY <1>7, <1>8

\* And for a loop that is done after N turns.
LEMMA IteratedUpto ==
    ASSUME NEW S, NEW s0 \in S, NEW N \in Nat,
           NEW step, step \in [1 .. N -> [S -> S]]
    PROVE  \E f \in [0 .. N -> S] :
              \A n \in 0 .. N : f[n] = IF n = 0 THEN s0 ELSE step[n][f[n - 1]]
<1> DEFINE more == [n \in Nat |-> IF n \in 1 .. N THEN step[n] ELSE [s \in S |-> s]]
<1>0. s0 \in S
  OBVIOUS
<1>1. more \in [Nat -> [S -> S]]
  OBVIOUS
<1>2. \A n \in 1 .. N : more[n] = step[n]
  OBVIOUS
<1> HIDE DEF more
<1>3. PICK g \in [Nat -> S] :
          \A n \in Nat : g[n] = IF n = 0 THEN s0 ELSE more[n][g[n - 1]]
  BY ONLY <1>0, <1>1, IteratedAt
<1> DEFINE f == [n \in 0 .. N |-> g[n]]
<1>4. f \in [0 .. N -> S]
  OBVIOUS
<1>5. ASSUME NEW n \in 0 .. N
      PROVE  f[n] = IF n = 0 THEN s0 ELSE step[n][f[n - 1]]
  <2>1. CASE n = 0
    BY <1>3, <2>1
  <2>2. CASE n # 0
    <3>1. n \in Nat /\ n \in 1 .. N /\ n - 1 \in 0 .. N
      BY <2>2
    <3>2. f[n] = g[n] /\ f[n - 1] = g[n - 1]
      BY <3>1
    <3>3. g[n] = more[n][g[n - 1]]
      BY <1>3, <2>2, <3>1
    <3> HIDE DEF f
    <3> QED
      BY <1>2, <2>2, <3>1, <3>2, <3>3
  <2> QED
    BY <2>1, <2>2
<1> HIDE DEF f
<1> QED
  BY <1>4, <1>5

\* What each turn keeps holds at the end.
LEMMA LoopInvariant ==
    ASSUME NEW S, NEW N \in Nat, NEW f, f[0] \in S,
           \A n \in 1 .. N : f[n - 1] \in S => f[n] \in S
    PROVE  f[N] \in S
<1> DEFINE P == {n \in Nat : n <= N => f[n] \in S}
<1>1. 0 \in P
  OBVIOUS
<1>2. ASSUME NEW n \in Nat, n \in P
      PROVE  n + 1 \in P
  <2> SUFFICES ASSUME n + 1 <= N PROVE f[n + 1] \in S
    OBVIOUS
  <2>1. n + 1 \in 1 .. N /\ (n + 1) - 1 = n /\ f[n] \in S
    BY <1>2
  <2> QED
    BY <2>1
<1>3. \A n \in Nat : n \in P
  <2> HIDE DEF P
  <2> QED
    BY <1>1, <1>2, NatInd
<1> QED
  BY <1>3

=============================================================================
