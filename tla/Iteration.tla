------------------------------- MODULE Iteration ------------------------------
(***************************************************************************)
(* Induction over the natural numbers without an operator as a parameter:  *)
(* a set of numbers has a least one, a function can be iterated, and what  *)
(* only ever leaves less to do comes to rest.                              *)
(***************************************************************************)
EXTENDS Naturals, Measures, WellFoundedInduction, TLAPS

\* The natural numbers are well ordered.
LEMMA Smallest ==
  ASSUME NEW S \in SUBSET Nat, S # {}
  PROVE  \E m \in S : \A n \in S : m <= n
<1>1. PICK R : R = {pair \in Nat \X Nat : pair[1] < pair[2]}
  OBVIOUS
<1>2. IsWellFoundedOn(R, Nat)
  BY NatLessThanWellFounded, <1>1 DEF OpToRel
<1>3. PICK m \in S : \A n \in S : <<n, m>> \notin R
  BY <1>2, WFMin
<1>4. \A n \in S : ~(n < m)
  BY <1>1, <1>3
<1> QED
  BY <1>4

\* f lists the first n iterates of step from start.
Iterates(f, n, step, start) ==
  /\ DOMAIN f = 0..n /\ f[0] = start
  /\ \A k \in 1..n : f[k] = step[f[k - 1]]

LEMMA IteratesAgree ==
  ASSUME NEW n \in Nat, NEW f, NEW step, NEW start, Iterates(f, n, step, start),
         NEW m \in Nat, NEW g, Iterates(g, m, step, start), n <= m
  PROVE  \A k \in 0..n : f[k] = g[k]
<1> DEFINE S == {k \in 0..n : f[k] # g[k]}
<1> SUFFICES ASSUME S # {} PROVE FALSE
  OBVIOUS
<1>1. PICK k \in S : \A j \in S : k <= j
  <2>1. S \subseteq Nat
    OBVIOUS
  <2> QED
    BY <2>1, Smallest
<1>2. k # 0
  BY <1>1 DEF Iterates
<1>3. k \in 1..n /\ k \in 1..m /\ k - 1 \in 0..n /\ k - 1 \notin S
  BY <1>1, <1>2
<1>4. f[k - 1] = g[k - 1]
  BY <1>3
<1>5. f[k] = g[k]
  BY <1>3, <1>4 DEF Iterates
<1> QED
  BY <1>1, <1>5

LEMMA IteratesExist ==
  ASSUME NEW X, NEW step \in [X -> X], NEW start \in X, NEW n \in Nat
  PROVE  \E f \in [0..n -> X] : Iterates(f, n, step, start)
<1> DEFINE S == {k \in Nat : ~ \E f \in [0..k -> X] : Iterates(f, k, step, start)}
<1> SUFFICES ASSUME S # {} PROVE FALSE
  OBVIOUS
<1>1. PICK k \in S : \A j \in S : k <= j
  <2>1. S \subseteq Nat
    OBVIOUS
  <2> QED
    BY <2>1, Smallest
<1>2. k # 0
  <2>1. [i \in 0..0 |-> start] \in [0..0 -> X]
    OBVIOUS
  <2>2. Iterates([i \in 0..0 |-> start], 0, step, start)
    BY DEF Iterates
  <2> QED
    BY <1>1, <2>1, <2>2
<1>3. k \in Nat /\ k - 1 \in Nat /\ k - 1 \notin S
  BY <1>1, <1>2
<1>4. PICK g \in [0..(k - 1) -> X] : Iterates(g, k - 1, step, start)
  BY <1>3
<1> DEFINE f == [i \in 0..k |-> IF i = k THEN step[g[k - 1]] ELSE g[i]]
<1>5. f \in [0..k -> X]
  BY <1>3, <1>4
<1>6. Iterates(f, k, step, start)
  <2>1. f[0] = start
    BY <1>2, <1>3, <1>4 DEF Iterates
  <2>2. ASSUME NEW i \in 1..k
        PROVE  f[i] = step[f[i - 1]]
    <3>1. i - 1 \in 0..(k - 1) /\ f[i - 1] = g[i - 1]
      BY <1>3, <2>2
    <3>2. CASE i = k
      BY <3>1, <3>2
    <3>3. CASE i # k
      BY <1>3, <1>4, <2>2, <3>1, <3>3 DEF Iterates
    <3> QED
      BY <3>2, <3>3
  <2> QED
    BY <2>1, <2>2 DEF Iterates
<1> QED
  BY <1>1, <1>5, <1>6

\* A definition by iteration has a solution.
LEMMA Iterated ==
  ASSUME NEW X, NEW step \in [X -> X], NEW start \in X
  PROVE  \E f \in [Nat -> X] :
           /\ f[0] = start
           /\ \A n \in Nat \ {0} : f[n] = step[f[n - 1]]
<1> DEFINE G(n) == CHOOSE g \in [0..n -> X] : Iterates(g, n, step, start)
<1>1. ASSUME NEW n \in Nat
      PROVE  G(n) \in [0..n -> X] /\ Iterates(G(n), n, step, start)
  BY IteratesExist
<1> DEFINE f == [n \in Nat |-> G(n)[n]]
<1> HIDE DEF G
<1>2. f \in [Nat -> X]
  BY <1>1
<1>3. f[0] = start
  BY <1>1 DEF Iterates
<1>4. ASSUME NEW n \in Nat \ {0}
      PROVE  f[n] = step[f[n - 1]]
  <2>1. n - 1 \in Nat /\ n - 1 \in 0..(n - 1) /\ n \in 1..n
    OBVIOUS
  <2>2. G(n - 1)[n - 1] = G(n)[n - 1]
    BY <1>1, <2>1, IteratesAgree
  <2>3. G(n)[n] = step[G(n)[n - 1]]
    BY <1>1, <2>1 DEF Iterates
  <2> QED
    BY <2>1, <2>2, <2>3
<1> QED
  BY <1>2, <1>3, <1>4

\* What the theorems on progress (of the traversal, of runs, of the client) come to: a
\* tuple of numbers that every step lowers or leaves alone is lowered only finitely often.
THEOREM ComesToRest ==
  ASSUME NEW n \in Nat, NEW f \in [Nat -> [1..n -> Nat]],
         \A i \in Nat : f[i + 1] = f[i] \/ Smaller(f[i + 1], f[i])
  PROVE  \E k \in Nat : \A i \in Nat : i >= k => f[i] = f[k]
<1>1. PICK R : R = {pair \in Nat \X Nat : pair[1] < pair[2]}
  OBVIOUS
<1>2. IsWellFoundedOn(R, Nat)
  BY NatLessThanWellFounded, <1>1 DEF OpToRel
<1> DEFINE L == LexProductOrdering(R, Nat, n)
<1> DEFINE T == {f[i] : i \in Nat}
<1>3. PICK x \in T : \A y \in T : <<y, x>> \notin L
  <2>1. IsWellFoundedOn(L, [1..n -> Nat])
    BY <1>2, WFLexProductOrdering
  <2>2. T \subseteq [1..n -> Nat] /\ T # {}
    OBVIOUS
  <2> HIDE DEF L, T
  <2> QED
    BY <2>1, <2>2, WFMin
<1>4. PICK k \in Nat : x = f[k]
  OBVIOUS
<1> DEFINE S == {i \in Nat : i >= k /\ f[i] # f[k]}
<1> SUFFICES ASSUME S # {} PROVE FALSE
  BY <1>4
<1>5. PICK i \in S : \A j \in S : i <= j
  <2>1. S \subseteq Nat
    OBVIOUS
  <2> QED
    BY <2>1, Smallest
<1>6. i - 1 \in Nat /\ i - 1 >= k /\ i - 1 \notin S
  <2>1. i \in Nat /\ i >= k /\ i # k /\ k \in Nat
    BY <1>5
  <2>2. i - 1 \in Nat /\ i - 1 >= k /\ ~(i <= i - 1)
    BY <2>1
  <2> QED
    BY <1>5, <2>2
<1>7. f[i - 1] = f[k] /\ f[i] # f[k]
  BY <1>5, <1>6
<1>8. Smaller(f[i], f[i - 1])
  BY <1>6, <1>7
<1>9. f[i] \in [1..n -> Nat] /\ f[k] \in [1..n -> Nat] /\ Smaller(f[i], f[k])
  BY <1>4, <1>5, <1>7, <1>8
<1>10. <<f[i], f[k]>> \in L
  <2>1. PICK j \in 1..n : f[i][j] < f[k][j] /\ \A m \in 1..(j - 1) : f[i][m] = f[k][m]
    BY <1>9 DEF Smaller
  <2>2. <<f[i][j], f[k][j]>> \in R
    BY <1>1, <1>9, <2>1
  <2>3. <<f[i], f[k]>> \in [1..n -> Nat] \X [1..n -> Nat]
    BY <1>9
  <2> QED
    BY <2>1, <2>2, <2>3 DEF LexProductOrdering
<1> QED
  BY <1>3, <1>4, <1>5, <1>10
=============================================================================
