-------------------------- MODULE InductionLemmas --------------------------
(***************************************************************************)
(* Induction over data, as the proofs about replays and totals need it:    *)
(* least numbers, subsets of a finite set, and the sum that MapThenSumSet  *)
(* computes by choosing one element after the other.  What is proved by    *)
(* induction is the membership in a set of good values.                    *)
(***************************************************************************)
EXTENDS Integers, FiniteSets, FiniteSetTheorems, WellFoundedInduction, TLAPS

\* A set of naturals that is not empty has a least element.
LEMMA LeastNatural ==
    ASSUME NEW T \in SUBSET Nat, T # {}
    PROVE  \E m \in T : \A k \in T : m <= k
<1> DEFINE R == {pair \in Nat \X Nat : pair[1] < pair[2]}
<1>1. IsWellFoundedOn(R, Nat)
  BY NatLessThanWellFounded, Zenon DEF OpToRel
<1>2. \A k, m \in Nat : k < m => <<k, m>> \in R
  OBVIOUS
<1> HIDE DEF R
<1>3. PICK m \in T : \A k \in T : <<k, m>> \notin R
  BY <1>1, WFMin
<1>4. ASSUME NEW k \in T PROVE m <= k
  <2>1. k \in Nat /\ m \in Nat /\ ~ (k < m)
    BY <1>2, <1>3
  <2> QED
    BY <2>1
<1> QED
  BY <1>4

\* Numbers: what holds of the successor of every good one holds of all.
LEMMA UpwardInduction ==
    ASSUME NEW n \in Nat, NEW G, 0 \in G,
           \A k \in 0 .. n - 1 : k \in G => k + 1 \in G
    PROVE  0 .. n \subseteq G
<1> SUFFICES ASSUME ~ (0 .. n \subseteq G) PROVE FALSE
  OBVIOUS
<1> DEFINE bad == {k \in 0 .. n : k \notin G}
<1>1. bad \in SUBSET Nat /\ bad # {}
  OBVIOUS
<1>2. PICK m \in bad : \A k \in bad : m <= k
  BY <1>1, LeastNatural
<1>3. m # 0 /\ m - 1 \in 0 .. n - 1
  BY <1>2
<1>4. m - 1 \in G
  BY <1>2, <1>3
<1> QED
  BY <1>2, <1>3, <1>4

\* Subsets: a set is good when it is good without any one of its elements.
LEMMA SubsetInduction ==
    ASSUME NEW T, IsFiniteSet(T), NEW G, {} \in G,
           \A s \in SUBSET T : s # {} /\ (\A x \in s : s \ {x} \in G) => s \in G
    PROVE  SUBSET T \subseteq G
<1> SUFFICES ASSUME ~ (SUBSET T \subseteq G) PROVE FALSE
  OBVIOUS
<1> DEFINE bad == {s \in SUBSET T : s \notin G}
           sizes == {Cardinality(s) : s \in bad}
<1>1. \A s \in SUBSET T : IsFiniteSet(s) /\ Cardinality(s) \in Nat
  BY FS_Subset, FS_CardinalityType
<1>2. sizes \in SUBSET Nat /\ sizes # {}
  BY <1>1
<1>3. PICK m \in sizes : \A k \in sizes : m <= k
  BY <1>2, LeastNatural
<1>4. PICK s \in bad : Cardinality(s) = m
  BY <1>3
<1>5. ASSUME NEW x \in s PROVE s \ {x} \in G
  <2>1. Cardinality(s \ {x}) = m - 1 /\ s \ {x} \in SUBSET T
    BY <1>1, <1>4, FS_RemoveElement
  <2>2. s \ {x} \in bad => m - 1 \in sizes
    BY <2>1
  <2>3. m \in Nat
    BY <1>2
  <2>4. s \ {x} \notin bad
    <3> HIDE DEF bad, sizes
    <3> QED
      BY <1>3, <2>2, <2>3
  <2> QED
    BY <2>1, <2>4
<1> QED
  BY <1>4, <1>5

\* A finite set of naturals that is not empty has a greatest element.
LEMMA GreatestElement ==
    ASSUME NEW T \in SUBSET Int, IsFiniteSet(T), T # {}
    PROVE  \E m \in T : \A k \in T : m >= k
<1> DEFINE G == {s \in SUBSET T : s # {} => \E m \in s : \A k \in s : m >= k}
<1>1. ASSUME NEW s \in SUBSET T, s # {}, \A x \in s : s \ {x} \in G
      PROVE  s \in G
  <2>1. PICK x \in s : TRUE
    BY <1>1
  <2>2. CASE s \ {x} = {}
    <3>1. s = {x}
      BY <2>1, <2>2
    <3> QED
      BY <3>1
  <2>3. CASE s \ {x} # {}
    <3>1. PICK m \in s \ {x} : \A k \in s \ {x} : m >= k
      BY <1>1, <2>3
    <3>2. CASE m >= x
      BY <3>1, <3>2
    <3>3. CASE ~ (m >= x)
      BY <3>1, <3>3
    <3> QED
      BY <3>2, <3>3
  <2> QED
    BY <2>2, <2>3
<1>2. {} \in G
  OBVIOUS
<1> HIDE DEF G
<1>3. T \in G
  BY <1>1, <1>2, SubsetInduction
<1> QED
  BY <1>3 DEF G
-----------------------------------------------------------------------------
(* Sums. *)

\* sum[s] adds g over s, one chosen element after the other.
Sums(g, T, sum) ==
    sum = [s \in SUBSET T |->
             IF s = {} THEN 0
             ELSE LET x == CHOOSE x \in s : TRUE IN g[x] + sum[s \ {x}]]

\* The recursion has a solution: the one for larger sets continues the smaller.
LEMMA SumsExist ==
    ASSUME NEW T, IsFiniteSet(T), NEW g
    PROVE  \E sum : Sums(g, T, sum)
<1> DEFINE Upto(n) == {s \in SUBSET T : Cardinality(s) <= n}
           Next(f, s) == IF s = {} THEN 0
                         ELSE LET x == CHOOSE x \in s : TRUE IN g[x] + f[s \ {x}]
           Solves(f, n) == f = [s \in Upto(n) |-> Next(f, s)]
           max == Cardinality(T)
           G == {n \in 0 .. max : \E f : Solves(f, n)}
<1>1. /\ max \in Nat
      /\ \A s \in SUBSET T : /\ IsFiniteSet(s) /\ Cardinality(s) \in Nat
                             /\ Cardinality(s) <= max
  BY FS_Subset, FS_CardinalityType
<1>2. 0 \in G
  <2> DEFINE f == [s \in Upto(0) |-> 0]
  <2>1. Upto(0) \subseteq {{}}
    BY <1>1, FS_EmptySet
  <2>2. Solves(f, 0)
    BY <2>1
  <2> HIDE DEF Solves, f
  <2> QED
    BY <1>1, <2>2
<1>3. ASSUME NEW n \in 0 .. max - 1, n \in G
      PROVE  n + 1 \in G
  <2>1. PICK f : Solves(f, n)
    BY <1>3
  <2> DEFINE h == [s \in Upto(n + 1) |-> Next(f, s)]
  <2>2. ASSUME NEW s \in Upto(n + 1), s # {}
        PROVE  s \ {CHOOSE x \in s : TRUE} \in Upto(n)
    <3> DEFINE x == CHOOSE x \in s : TRUE
    <3>1. x \in s
      BY <2>2
    <3>2. Cardinality(s \ {x}) = Cardinality(s) - 1
      BY <1>1, <3>1, FS_RemoveElement
    <3> HIDE DEF x
    <3>3. s \ {x} \in Upto(n)
      BY <1>1, <3>2
    <3> QED
      BY <3>3 DEF x
  <2>3. \A s \in Upto(n) : f[s] = h[s]
    <3>1. \A s \in Upto(n) : s \in Upto(n + 1)
      BY <1>1
    <3>2. \A s \in Upto(n) : f[s] = Next(f, s)
      BY <2>1
    <3> HIDE DEF Next, Upto
    <3> QED
      BY <3>1, <3>2
  <2>4. \A s \in Upto(n + 1) : Next(f, s) = Next(h, s)
    <3> HIDE DEF h, Upto
    <3> QED
      BY <2>2, <2>3
  <2>5. Solves(h, n + 1)
    <3> HIDE DEF Next, Upto
    <3> QED
      BY <2>4
  <2> HIDE DEF Solves, h
  <2> QED
    BY <1>1, <2>5
<1> HIDE DEF G
<1>4. max \in G
  BY <1>1, <1>2, <1>3, UpwardInduction
<1>5. PICK f : Solves(f, max)
  BY <1>4 DEF G
<1>6. Upto(max) = SUBSET T
  BY <1>1
<1>7. Sums(g, T, f)
  BY <1>5, <1>6 DEF Sums
<1> QED
  BY <1>7

\* One step of a sum.
LEMMA SumStep ==
    ASSUME NEW T, NEW g, NEW sum, Sums(g, T, sum)
    PROVE  /\ sum[{}] = 0
           /\ \A s \in SUBSET T :
                s # {} => \E x \in s : sum[s] = g[x] + sum[s \ {x}]
<1>1. sum[{}] = 0
  BY DEF Sums
<1>2. ASSUME NEW s \in SUBSET T, s # {}
      PROVE  \E x \in s : sum[s] = g[x] + sum[s \ {x}]
  <2> DEFINE x == CHOOSE x \in s : TRUE
  <2>1. x \in s
    BY <1>2
  <2>2. sum[s] = g[x] + sum[s \ {x}]
    BY <1>2 DEF Sums
  <2> QED
    BY <2>1, <2>2
<1> QED
  BY <1>1, <1>2

\* A sum of naturals is a natural.
LEMMA SumOfNaturals ==
    ASSUME NEW T, IsFiniteSet(T), NEW g, \A x \in T : g[x] \in Nat,
           NEW sum, Sums(g, T, sum)
    PROVE  \A s \in SUBSET T : sum[s] \in Nat
<1> DEFINE G == {s \in SUBSET T : sum[s] \in Nat}
<1>1. {} \in G
  BY SumStep
<1>2. ASSUME NEW s \in SUBSET T, s # {}, \A x \in s : s \ {x} \in G
      PROVE  s \in G
  <2>1. PICK x \in s : sum[s] = g[x] + sum[s \ {x}]
    BY <1>2, SumStep
  <2> QED
    BY <1>2, <2>1
<1> HIDE DEF G
<1>3. SUBSET T \subseteq G
  BY <1>1, <1>2, SubsetInduction
<1> QED
  BY <1>3 DEF G

\* Any element of a set may be added last.
LEMMA SumAnyOrder ==
    ASSUME NEW T, IsFiniteSet(T), NEW g, \A x \in T : g[x] \in Nat,
           NEW sum, Sums(g, T, sum)
    PROVE  \A s \in SUBSET T : \A y \in s : sum[s] = g[y] + sum[s \ {y}]
<1> DEFINE G == {s \in SUBSET T : \A y \in s : sum[s] = g[y] + sum[s \ {y}]}
<1>1. {} \in G
  OBVIOUS
<1>2. ASSUME NEW s \in SUBSET T, s # {}, \A x \in s : s \ {x} \in G
      PROVE  s \in G
  <2>1. PICK x \in s : sum[s] = g[x] + sum[s \ {x}]
    BY <1>2, SumStep
  <2>2. ASSUME NEW y \in s, y # x
        PROVE  sum[s] = g[y] + sum[s \ {y}]
    <3> DEFINE rest == (s \ {x}) \ {y}
    <3>1. rest = (s \ {y}) \ {x} /\ rest \in SUBSET T
      OBVIOUS
    <3>2. sum[s \ {x}] = g[y] + sum[rest]
      BY <1>2, <2>2
    <3>3. sum[s \ {y}] = g[x] + sum[rest]
      BY <1>2, <2>2, <3>1
    <3>4. g[x] \in Nat /\ g[y] \in Nat /\ sum[rest] \in Nat
      BY <3>1, SumOfNaturals
    <3> HIDE DEF rest
    <3> QED
      BY <2>1, <3>2, <3>3, <3>4
  <2> QED
    BY <2>1, <2>2
<1> HIDE DEF G
<1>3. SUBSET T \subseteq G
  BY <1>1, <1>2, SubsetInduction
<1> QED
  BY <1>3 DEF G

\* Sums agree where the terms agree; zeros may be left out.
LEMMA SumWithoutZeros ==
    ASSUME NEW B, IsFiniteSet(B), NEW A \in SUBSET B,
           NEW g, NEW h, NEW sum, NEW part,
           \A x \in B : g[x] \in Nat,
           \A x \in A : h[x] = g[x],
           \A x \in B \ A : g[x] = 0,
           Sums(g, B, sum), Sums(h, A, part)
    PROVE  sum[B] = part[A]
<1> DEFINE G == {s \in SUBSET B : sum[s] = part[s \cap A]}
<1>1. {} \in G
  BY SumStep
<1>2. IsFiniteSet(A) /\ \A x \in A : h[x] \in Nat
  BY FS_Subset
<1>3. ASSUME NEW t \in SUBSET A, NEW y \in t
      PROVE  part[t] = h[y] + part[t \ {y}]
  BY <1>2, SumAnyOrder
<1>4. ASSUME NEW s \in SUBSET B, s # {}, \A x \in s : s \ {x} \in G
      PROVE  s \in G
  <2>1. PICK x \in s : sum[s] = g[x] + sum[s \ {x}]
    BY <1>4, SumStep
  <2>2. sum[s \ {x}] = part[(s \ {x}) \cap A] /\ sum[s \ {x}] \in Nat
    BY <1>4, SumOfNaturals
  <2>3. CASE x \in A
    <3>1. (s \ {x}) \cap A = (s \cap A) \ {x} /\ x \in s \cap A
      BY <2>3
    <3>2. part[s \cap A] = h[x] + part[(s \cap A) \ {x}]
      BY <1>3, <3>1
    <3> QED
      BY <2>1, <2>2, <2>3, <3>1, <3>2
  <2>4. CASE x \notin A
    <3>1. (s \ {x}) \cap A = s \cap A
      BY <2>4
    <3>2. g[x] = 0
      BY <2>4
    <3>3. sum[s] = sum[s \ {x}]
      BY <2>1, <2>2, <3>2
    <3> QED
      BY <2>2, <3>1, <3>3
  <2> QED
    BY <2>3, <2>4
<1> HIDE DEF G
<1>5. B \in G
  BY <1>1, <1>4, SubsetInduction
<1>6. B \cap A = A
  OBVIOUS
<1> QED
  BY <1>5, <1>6 DEF G
=============================================================================
