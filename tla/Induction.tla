------------------------------ MODULE Induction ------------------------------
(***************************************************************************)
(* Least numbers, induction and definition by recursion, said of sets and  *)
(* of functions: what the proofs of several components rest on.  The       *)
(* theorems of the library that say the same take operators, which the     *)
(* provers cannot put into them.                                           *)
(***************************************************************************)
EXTENDS Integers, FiniteSetTheorems, WellFoundedInduction, TLAPS

\* Every set of numbers that is not empty has a least one.
LEMMA LeastOf ==
  ASSUME NEW K \in SUBSET Nat, K # {}
  PROVE  \E m \in K : \A k \in K : m <= k
<1>1. PICK m \in K : \A k \in K : <<k, m>> \notin OpToRel(<, Nat)
  BY NatLessThanWellFounded, WFMin, Zenon
<1>2. \A k \in K : <<k, m>> \in OpToRel(<, Nat) <=> k < m
  BY DEF OpToRel
<1>3. \A k \in K : ~(k < m)
  BY <1>1, <1>2
<1> QED BY <1>3

\* The numbers of D from n on, up to the first that it lacks.
Run(D, n) == {k \in D : k >= n /\ n..k \subseteq D}

\* There is such a first.
LEMMA RunToGap ==
  ASSUME NEW D, NEW n \in Nat, NEW N \in Nat, D \subseteq 0..N
  PROVE  \E g \in Nat : /\ g >= n
                        /\ Run(D, n) = n..(g - 1)
                        /\ n..(g - 1) \subseteq D
                        /\ g \notin D
                        /\ Cardinality(Run(D, n)) = g - n
<1> DEFINE Gaps == {k \in Nat : k >= n /\ k \notin D}
<1>1. n + N + 1 \in Gaps
  OBVIOUS
<1>2. PICK g \in Gaps : \A k \in Gaps : g <= k
  <2>1. Gaps \in SUBSET Nat /\ Gaps # {}
    BY <1>1
  <2> HIDE DEF Gaps
  <2> QED BY <2>1, LeastOf
<1>3. n..(g - 1) \subseteq D
  BY <1>2
<1>4. Run(D, n) = n..(g - 1)
  <2>1. \A k \in n..(g - 1) : k \in Run(D, n)
    BY <1>3 DEF Run
  <2>2. ASSUME NEW k \in Run(D, n) PROVE k \in n..(g - 1)
    <3>1. k \in Nat /\ k >= n /\ n..k \subseteq D
      BY DEF Run
    <3>2. g \notin n..k
      BY <3>1, <1>2
    <3> QED BY <3>1, <3>2
  <2> QED BY <2>1, <2>2
<1>5. Cardinality(Run(D, n)) = g - n
  <2>1. Cardinality(n..(g - 1)) = g - n
    <3>1. n \in Int /\ g - 1 \in Int /\ Cardinality(n..(g - 1)) = IF n > g - 1 THEN 0 ELSE (g - 1) - n + 1
      BY FS_Interval
    <3>2. g >= n /\ g \in Nat
      OBVIOUS
    <3> HIDE DEF Gaps
    <3> QED BY <3>1, <3>2
  <2> QED BY <1>4, <2>1, Zenon
<1>6. g \in Nat /\ g >= n /\ g \notin D
  OBVIOUS
<1> HIDE DEF Gaps
<1> QED BY <1>3, <1>4, <1>5, <1>6, Zenon

\* Induction up to a bound.
LEMMA InductionTo ==
  ASSUME NEW N \in Nat, NEW T, 0 \in T, \A n \in 0..(N - 1) : n \in T => n + 1 \in T
  PROVE  \A n \in 0..N : n \in T
<1> DEFINE K == {n \in 0..N : n \notin T}
<1> SUFFICES ASSUME K # {} PROVE FALSE
  OBVIOUS
<1>1. PICK m \in K : \A k \in K : m <= k
  <2>1. K \in SUBSET Nat
    OBVIOUS
  <2> HIDE DEF K
  <2> QED BY <2>1, LeastOf
<1>2. m # 0 /\ m \in 0..N
  OBVIOUS
<1>3. m - 1 \in 0..(N - 1) /\ m - 1 \notin K
  BY <1>1, <1>2
<1> QED BY <1>2, <1>3

\* A function on 0..N is given by its value at 0 and by the step from each of
\* its values to the next.
StepsIn(step, N, S) == \A n \in 1..N, x \in S : step[n][x] \in S
Unfolds(f, N, base, step) == f[0] = base /\ \A n \in 1..N : f[n] = step[n][f[n - 1]]

\* Such a function exists, if the steps stay in a set.
LEMMA RecursionTo ==
  ASSUME NEW N \in Nat, NEW S, NEW base \in S, NEW step, StepsIn(step, N, S)
  PROVE  \E f \in [0..N -> S] : Unfolds(f, N, base, step)
<1> USE DEF StepsIn
<1> DEFINE Fits(f, m) == f \in [0..m -> S] /\ Unfolds(f, m, base, step)
           T == {m \in 0..N : \E f : Fits(f, m)}
<1>1. 0 \in T
  <2> DEFINE g == [n \in 0..0 |-> base]
  <2>1. Fits(g, 0)
    BY DEF Unfolds
  <2> HIDE DEF Fits, g
  <2> QED BY <2>1
<1>2. ASSUME NEW m \in 0..(N - 1), m \in T PROVE m + 1 \in T
  <2>1. PICK f : Fits(f, m)
    BY <1>2
  <2> DEFINE g == [n \in 0..(m + 1) |-> IF n = m + 1 THEN step[n][f[m]] ELSE f[n]]
  <2>2. m + 1 \in 1..N /\ f[m] \in S
    BY <2>1
  <2>3. g \in [0..(m + 1) -> S] /\ g[0] = base
    BY <2>1, <2>2 DEF Unfolds
  <2>4. ASSUME NEW n \in 1..(m + 1) PROVE g[n] = step[n][g[n - 1]]
    BY <2>1 DEF Unfolds
  <2>5. Fits(g, m + 1)
    BY <2>3, <2>4 DEF Unfolds
  <2> HIDE DEF Fits, g
  <2> QED BY <2>5, <2>2
<1>3. N \in T
  <2> HIDE DEF T
  <2> QED BY <1>1, <1>2, InductionTo
<1> QED BY <1>3
=============================================================================
