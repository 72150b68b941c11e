--------------------------- MODULE InductionFacts ---------------------------
(***************************************************************************)
(* Induction over the natural numbers, stated for sets and functions so    *)
(* that a first-order prover can use it.                                   *)
(***************************************************************************)
EXTENDS Integers, WellFoundedInduction, TLAPS

(* A set of natural numbers that contains 0, and n + 1 with n, is Nat: the *)
(* least number that it misses is neither 0 nor a successor.               *)
LEMMA SetInduction ==
  ASSUME NEW T \in SUBSET Nat, 0 \in T, \A n \in T : n + 1 \in T
  PROVE  T = Nat
<1> DEFINE Less == {p \in Nat \X Nat : p[1] < p[2]}
           Missed == Nat \ T
<1> SUFFICES ASSUME Missed # {}
             PROVE  FALSE
  OBVIOUS
<1>1. \A x, y \in Nat : x < y => <<x, y>> \in Less
  OBVIOUS
<1>2. IsWellFoundedOn(Less, Nat)
  BY NatLessThanWellFounded DEF OpToRel
<1> HIDE DEF Less
<1>3. PICK m \in Missed : \A n \in Missed : <<n, m>> \notin Less
  BY <1>2, WFMin
<1>4. m \in Nat /\ m # 0
  BY <1>3
<1>5. m - 1 \in Nat /\ m - 1 < m /\ (m - 1) + 1 = m
  BY <1>4
<1>6. m - 1 \in T
  BY <1>1, <1>3, <1>4, <1>5
<1> QED
  BY <1>3, <1>5, <1>6

(* A set of numbers that is not empty and has a bound has a greatest one. *)
LEMMA HasGreatest ==
  ASSUME NEW N \in Nat, NEW S \in SUBSET (0 .. N), S # {}
  PROVE  \E x \in S : \A y \in S : x >= y
<1> DEFINE T == {n \in Nat : \A U \in SUBSET (0 .. N) :
                   U # {} /\ (\A x \in U : x <= n) => \E x \in U : \A y \in U : x >= y}
<1>1. 0 \in T
  <2>1. ASSUME NEW U \in SUBSET (0 .. N), U # {}, \A x \in U : x <= 0
        PROVE  \E x \in U : \A y \in U : x >= y
    <3>1. \A x \in U : x = 0
      BY <2>1
    <3> QED
      BY <2>1, <3>1
  <2> QED
    BY <2>1
<1>2. ASSUME NEW n \in T PROVE n + 1 \in T
  <2>1. ASSUME NEW U \in SUBSET (0 .. N), U # {}, \A x \in U : x <= n + 1
        PROVE  \E x \in U : \A y \in U : x >= y
    <3>1. CASE n + 1 \in U
      BY <2>1, <3>1
    <3>2. CASE n + 1 \notin U
      <4>1. \A x \in U : x <= n
        <5> SUFFICES ASSUME NEW x \in U PROVE x <= n
          OBVIOUS
        <5>1. x \in Nat /\ x <= n + 1 /\ x # n + 1 /\ n \in Nat
          BY <2>1, <3>2
        <5> QED
          BY <5>1
      <4> QED
        BY <2>1, <4>1
    <3> QED
      BY <3>1, <3>2
  <2> QED
    BY <2>1
<1>3. T \in SUBSET Nat
  OBVIOUS
<1> HIDE DEF T
<1>4. N \in T
  BY <1>1, <1>2, <1>3, SetInduction
<1>5. \A x \in S : x <= N
  OBVIOUS
<1> QED
  BY <1>4, <1>5 DEF T

(* Functions that are defined by the same recursion are the same. *)
SameSteps(f, g, N) ==
  f[0] = g[0] /\ \A n \in 1 .. N : f[n - 1] = g[n - 1] => f[n] = g[n]

LEMMA SameRecursion ==
  ASSUME NEW N \in Nat, NEW f, NEW g, SameSteps(f, g, N)
  PROVE  \A n \in 0 .. N : f[n] = g[n]
<1> USE DEF SameSteps
<1> DEFINE T == {n \in Nat : n <= N => f[n] = g[n]}
<1>1. 0 \in T
  OBVIOUS
<1>2. ASSUME NEW n \in T
      PROVE  n + 1 \in T
  <2> SUFFICES ASSUME n + 1 <= N
               PROVE  f[n + 1] = g[n + 1]
    OBVIOUS
  <2>1. n + 1 \in 1 .. N /\ (n + 1) - 1 = n /\ f[n] = g[n]
    OBVIOUS
  <2> QED
    BY <2>1
<1>3. T \in SUBSET Nat
  OBVIOUS
<1> HIDE DEF T
<1>4. T = Nat
  BY <1>1, <1>2, <1>3, SetInduction
<1> QED
  BY <1>4 DEF T

(* f[n] is g[n] of f[n - 1], and f[0] is a. *)
Recursive(f, a, g, N) == f[0] = a /\ \A n \in 1 .. N : f[n] = g[n][f[n - 1]]

(* A function can be defined by recursion up to any number: by a value for *)
(* 0, and a function of the value before for each number.                  *)
LEMMA Recursion ==
  ASSUME NEW A, NEW a \in A, NEW N \in Nat, NEW g \in [1 .. N -> [A -> A]]
  PROVE  \E f \in [0 .. N -> A] : Recursive(f, a, g, N)
<1> DEFINE Defined(m) ==
      \E f \in [0 .. m -> A] : f[0] = a /\ \A n \in 1 .. m : f[n] = g[n][f[n - 1]]
           T == {m \in Nat : m <= N => Defined(m)}
<1>1. Defined(0)
  <2> DEFINE f == [n \in 0 .. 0 |-> a]
  <2>1. f \in [0 .. 0 -> A] /\ f[0] = a
    OBVIOUS
  <2>2. \A n \in 1 .. 0 : f[n] = g[n][f[n - 1]]
    OBVIOUS
  <2> HIDE DEF f
  <2> QED
    BY <2>1, <2>2
<1>2. ASSUME NEW m \in Nat, m + 1 <= N, Defined(m)
      PROVE  Defined(m + 1)
  <2>1. PICK f \in [0 .. m -> A] : f[0] = a /\ \A n \in 1 .. m : f[n] = g[n][f[n - 1]]
    BY <1>2
  <2> DEFINE h == [n \in 0 .. m + 1 |-> IF n = m + 1 THEN g[m + 1][f[m]] ELSE f[n]]
  <2>2. g[m + 1] \in [A -> A] /\ f[m] \in A
    BY <1>2
  <2>3. h \in [0 .. m + 1 -> A]
    BY <2>1, <2>2
  <2>4. h[0] = a /\ h[m + 1] = g[m + 1][f[m]] /\ \A n \in 0 .. m : h[n] = f[n]
    BY <2>1
  <2> HIDE DEF h
  <2>5. ASSUME NEW n \in 1 .. m + 1
        PROVE  h[n] = g[n][h[n - 1]]
    <3>1. CASE n = m + 1
      BY <2>4, <3>1
    <3>2. CASE n # m + 1
      <4>1. n \in 1 .. m /\ n \in 0 .. m /\ n - 1 \in 0 .. m
        BY <3>2
      <4> QED
        BY <2>1, <2>4, <4>1
    <3> QED
      BY <3>1, <3>2
  <2> QED
    BY <2>3, <2>4, <2>5
<1> HIDE DEF Defined
<1>3. T \in SUBSET Nat /\ 0 \in T
  BY <1>1
<1>4. ASSUME NEW m \in T
      PROVE  m + 1 \in T
  BY <1>2
<1> HIDE DEF T
<1>5. T = Nat
  BY <1>3, <1>4, SetInduction
<1>6. Defined(N)
  BY <1>5 DEF T
<1> QED
  BY <1>6 DEF Defined, Recursive

(* f[n] is a with g applied to it n times. *)
Iteration(f, a, g, N) == f[0] = a /\ \A n \in 1 .. N : f[n] = g[f[n - 1]]

(* A function can be applied to a value any number of times. *)
LEMMA Iterates ==
  ASSUME NEW A, NEW a \in A, NEW g \in [A -> A], NEW N \in Nat
  PROVE  \E f \in [0 .. N -> A] : Iteration(f, a, g, N)
<1> DEFINE same == [n \in 1 .. N |-> g]
<1>1. same \in [1 .. N -> [A -> A]] /\ \A n \in 1 .. N : same[n] = g
  OBVIOUS
<1> HIDE DEF same
<1>2. PICK f \in [0 .. N -> A] : Recursive(f, a, same, N)
  BY <1>1, Recursion
<1> QED
  BY <1>1, <1>2 DEF Iteration, Recursive

(* f[x] is out of the place where one stops that goes from x by next. *)
Walks(f, D, stop, next, out) ==
  \A x \in D : f[x] = IF x \in stop THEN out[x] ELSE f[next[x]]

Falls(D, stop, next, rank) == \A x \in D \ stop : rank[next[x]] < rank[x]
Stays(S, stop, next) == \A x \in S \ stop : next[x] \in S

(* One always comes to a stop: ranks go down on the way. *)
Walkable(D, stop, next) ==
  /\ stop \in SUBSET D /\ next \in [D -> D]
  /\ \E N \in Nat : \E rank \in [D -> 0 .. N] : Falls(D, stop, next, rank)

(* Then there is such a function. *)
LEMMA WalkDefined ==
  ASSUME NEW D, NEW A, NEW stop, NEW next, Walkable(D, stop, next), NEW out \in [D -> A]
  PROVE  \E f \in [D -> A] : Walks(f, D, stop, next, out)
<1>a. stop \in SUBSET D /\ next \in [D -> D]
  BY DEF Walkable
<1>b. PICK N \in Nat : \E rank \in [D -> 0 .. N] : Falls(D, stop, next, rank)
  BY DEF Walkable
<1>c. PICK rank \in [D -> 0 .. N] : Falls(D, stop, next, rank)
  BY <1>b
<1> USE <1>a, <1>b, <1>c DEF Falls
<1> DEFINE Step(f) == [x \in D |-> IF x \in stop THEN out[x] ELSE f[next[x]]]
           g == [f \in [D -> A] |-> Step(f)]
<1>1. g \in [[D -> A] -> [D -> A]]
  OBVIOUS
<1>2. PICK fs \in [0 .. N + 1 -> [D -> A]] : Iteration(fs, out, g, N + 1)
  <2> DEFINE F == [D -> A]
  <2> HIDE DEF F, g
  <2>1. out \in F /\ g \in [F -> F] /\ N + 1 \in Nat
    BY <1>1 DEF F
  <2>2. \E fs \in [0 .. N + 1 -> F] : Iteration(fs, out, g, N + 1)
    BY <2>1, Iterates
  <2> QED
    BY <2>2 DEF F
<1>3. /\ fs[0] = out
      /\ \A n \in 0 .. N + 1 : fs[n] \in [D -> A]
      /\ \A n \in 0 .. N : fs[n + 1] = Step(fs[n])
  <2>1. ASSUME NEW n \in 0 .. N PROVE fs[n + 1] = Step(fs[n])
    <3>1. n + 1 \in 1 .. N + 1 /\ (n + 1) - 1 = n /\ fs[n] \in [D -> A]
      BY <1>2
    <3> QED
      BY <1>2, <3>1 DEF Iteration
  <2> QED
    BY <1>2, <2>1 DEF Iteration
<1> DEFINE T == {n \in Nat : n <= N => \A x \in D : rank[x] <= n => fs[n + 1][x] = fs[n][x]}
<1>4. 0 \in T
  <2>1. ASSUME NEW x \in D, rank[x] <= 0 PROVE fs[1][x] = fs[0][x]
    <3>1. next[x] \in D /\ rank[x] \in 0 .. N
      OBVIOUS
    <3>2. rank[next[x]] \in 0 .. N
      BY <3>1
    <3>3. x \in stop
      BY <2>1, <3>1, <3>2
    <3>4. fs[1] = Step(fs[0])
      <4>1. 0 \in 0 .. N /\ 0 + 1 = 1
        OBVIOUS
      <4> QED
        BY <1>3, <4>1
    <3> QED
      BY <1>3, <3>3, <3>4
  <2> QED
    BY <2>1
<1>5. ASSUME NEW n \in T, n + 1 <= N PROVE n + 1 \in T
  <2>1. n \in Nat /\ n \in 0 .. N /\ n + 1 \in 0 .. N
    BY <1>5
  <2>2. fs[n + 1] = Step(fs[n]) /\ fs[(n + 1) + 1] = Step(fs[n + 1])
    BY <1>3, <2>1
  <2>3. ASSUME NEW x \in D, rank[x] <= n + 1 PROVE fs[(n + 1) + 1][x] = fs[n + 1][x]
    <3>1. CASE x \in stop
      BY <2>2, <3>1
    <3>2. CASE x \notin stop
      <4>1. next[x] \in D /\ rank[next[x]] < rank[x] /\ rank[x] \in 0 .. N
        BY <3>2
      <4>2. rank[next[x]] \in 0 .. N
        BY <4>1
      <4>3. fs[n + 1][next[x]] = fs[n][next[x]]
        BY <1>5, <2>1, <2>3, <4>1, <4>2
      <4> QED
        BY <2>2, <3>2, <4>3
    <3> QED
      BY <3>1, <3>2
  <2> QED
    BY <2>1, <2>3
<1>6. T \in SUBSET Nat /\ \A n \in T : n + 1 \in T
  <2>1. ASSUME NEW n \in T PROVE n + 1 \in T
    <3>1. CASE n + 1 <= N
      BY <1>5, <3>1
    <3>2. CASE ~(n + 1 <= N)
      BY <3>2
    <3> QED
      BY <3>1, <3>2
  <2> QED
    BY <2>1
<1> HIDE DEF T
<1>7. T = Nat
  BY <1>4, <1>6, SetInduction
<1>8. ASSUME NEW x \in D PROVE fs[N + 1][x] = fs[N][x]
  <2>1. rank[x] \in 0 .. N /\ N \in T
    BY <1>7
  <2>2. rank[x] <= N
    BY <2>1
  <2> QED
    BY <2>1, <2>2 DEF T
<1>9. Walks(fs[N], D, stop, next, out)
  <2>1. N \in 0 .. N /\ fs[N + 1] = Step(fs[N])
    BY <1>3
  <2> QED
    BY <1>8, <2>1 DEF Walks
<1> QED
  BY <1>3, <1>9

(* What does not leave a set stops in it. *)
LEMMA WalkEnds ==
  ASSUME NEW D, NEW stop, NEW next, Walkable(D, stop, next),
         NEW out, NEW f, Walks(f, D, stop, next, out),
         NEW S \in SUBSET D, Stays(S, stop, next)
  PROVE  \A x \in S : \E y \in S \cap stop : f[x] = out[y]
<1>a. stop \in SUBSET D /\ next \in [D -> D]
  BY DEF Walkable
<1>b. PICK N \in Nat : \E rank \in [D -> 0 .. N] : Falls(D, stop, next, rank)
  BY DEF Walkable
<1>c. PICK rank \in [D -> 0 .. N] : Falls(D, stop, next, rank)
  BY <1>b
<1> USE <1>a, <1>c DEF Falls, Stays
<1> DEFINE Ends(x) == \E y \in S \cap stop : f[x] = out[y]
           T == {n \in Nat : \A x \in S : rank[x] < n => Ends(x)}
<1>1. 0 \in T
  BY DEF Walks
<1>2. ASSUME NEW n \in T PROVE n + 1 \in T
  <2>1. ASSUME NEW x \in S, rank[x] < n + 1 PROVE Ends(x)
    <3>1. CASE x \in stop
      BY <3>1 DEF Walks
    <3>2. CASE x \notin stop
      <4>1. next[x] \in S /\ rank[next[x]] < rank[x] /\ f[x] = f[next[x]]
        BY <3>2 DEF Walks
      <4>2. rank[next[x]] \in 0 .. N /\ rank[x] \in 0 .. N
        BY <4>1
      <4>3. Ends(next[x])
        BY <1>2, <2>1, <4>1, <4>2
      <4> QED
        BY <4>1, <4>3
    <3> QED
      BY <3>1, <3>2
  <2> QED
    BY <2>1
<1> HIDE DEF Ends
<1>3. T \in SUBSET Nat
  OBVIOUS
<1> HIDE DEF T
<1>4. T = Nat
  BY <1>1, <1>2, <1>3, SetInduction
<1>5. ASSUME NEW x \in S PROVE Ends(x)
  <2>1. N + 1 \in Nat /\ rank[x] \in 0 .. N
    OBVIOUS
  <2>2. N + 1 \in T /\ rank[x] < N + 1
    BY <1>4, <2>1
  <2> QED
    BY <2>2 DEF T
<1> QED
  BY <1>5 DEF Ends
=============================================================================
