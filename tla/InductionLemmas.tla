-------------------------- MODULE InductionLemmas --------------------------
(***************************************************************************)
(* Induction and recursion on the numbers up to n, for sets and functions: *)
(* what the running totals of a queue, and the like, are proved with.      *)
(***************************************************************************)
EXTENDS Naturals, WellFoundedInduction, TLAPS

(* Induction up to n, for a property given as the set of numbers that have it. *)
LEMMA CountUp ==
    ASSUME NEW n \in Nat, NEW P, 0 \in P, \A i \in 1..n : i - 1 \in P => i \in P
    PROVE  \A i \in 0..n : i \in P
<1> DEFINE Bad == {i \in 0..n : i \notin P}
<1>1. SUFFICES ASSUME Bad # {} PROVE FALSE
  OBVIOUS
<1>2. Bad \in SUBSET Nat
  OBVIOUS
<1>3. PICK m \in Bad : \A j \in Bad : ~(<<j, m>> \in OpToRel(<, Nat))
  <2> HIDE DEF Bad
  <2> QED
    BY <1>1, <1>2, NatLessThanWellFounded, WFMin, Zenon
<1>4. \A j \in Bad : ~(j < m)
  BY <1>2, <1>3, Zenon DEF OpToRel
<1>5. m \in 1..n /\ m \notin P
  OBVIOUS
<1>6. m - 1 \in 0..n /\ m - 1 < m
  BY <1>5
<1>7. m - 1 \in P
  BY <1>4, <1>6
<1> QED
  BY <1>5, <1>7

\* A step for each number up to n.
Steps(n, S) == [1..n -> [S -> S]]

\* f goes from a by n steps.
Follows(f, n, S, a, step) ==
    f \in [0..n -> S] /\ f[0] = a /\ \A i \in 1..n : f[i] = step[i][f[i - 1]]

(* Whatever the steps, there is a function that follows them. *)
LEMMA RecursionExists ==
    ASSUME NEW S, NEW n \in Nat, NEW a \in S, NEW step \in Steps(n, S)
    PROVE  \E f : Follows(f, n, S, a, step)
<1> DEFINE F(k) == {f \in [0..k -> S] : f[0] = a /\ \A i \in 1..k : f[i] = step[i][f[i - 1]]}
           P == {k \in 0..n : F(k) # {}}
<1>1. 0 \in P
  <2>1. [i \in 0..0 |-> a] \in F(0)
    OBVIOUS
  <2> QED
    BY <2>1
<1>2. ASSUME NEW k \in 1..n, k - 1 \in P  PROVE k \in P
  <2>1. PICK f : f \in F(k - 1)
    BY <1>2
  <2> DEFINE h == [i \in 0..k |-> IF i = k THEN step[k][f[k - 1]] ELSE f[i]]
  <2>2. f \in [0..(k - 1) -> S] /\ f[0] = a /\ \A i \in 1..(k - 1) : f[i] = step[i][f[i - 1]]
    BY <2>1
  <2>3. step[k] \in [S -> S] /\ f[k - 1] \in S
    BY <2>2 DEF Steps
  <2>4. h \in [0..k -> S] /\ h[0] = a
    BY <2>2, <2>3
  <2>5. \A i \in 1..k : h[i] = step[i][h[i - 1]]
    BY <2>2
  <2>6. h \in F(k)
    BY <2>4, <2>5
  <2> QED
    BY <2>6
<1>3. \A k \in 0..n : k \in P
  <2> HIDE DEF P
  <2>1. \A k \in 1..n : k - 1 \in P => k \in P
    BY <1>2
  <2> QED
    BY <1>1, <2>1, CountUp
<1>4. n \in P
  BY <1>3
<1>5. F(n) # {}
  BY <1>4
<1> QED
  BY <1>5 DEF Follows
=============================================================================
