------------------------------ MODULE FiniteSums ------------------------------
(***************************************************************************)
(* Facts about finite sets that the proofs of several modules need: a set  *)
(* of numbers has a least one, a set of finite sets a smallest one, and a  *)
(* sum over a finite set, taken element by element as the folds of module  *)
(* Folds take it, does not depend on the order and is monotone.  Each is   *)
(* proved from a smallest counterexample: LeastNumber stands in for the    *)
(* induction principles, which take an operator as a parameter.            *)
(***************************************************************************)
EXTENDS FiniteSetsExt, FiniteSetTheorems, TLAPS

LEMMA LeastNumber ==
  ASSUME NEW S \in SUBSET Nat, S # {} PROVE \E m \in S : \A n \in S : m <= n
<1>1. PICK m \in S : \A n \in S : ~(<<n, m>> \in OpToRel(<, Nat))
  BY NatLessThanWellFounded, WFMin
<1>2. \A n \in S : ~(n < m)
  BY <1>1 DEF OpToRel
<1> QED
  BY <1>2

LEMMA LeastOf ==
  ASSUME NEW S \in SUBSET Nat, S # {} PROVE Min(S) \in S /\ \A n \in S : Min(S) <= n
BY LeastNumber DEF Min

\* Among finite sets there is a smallest one.
LEMMA SmallestSet ==
  ASSUME NEW B, B # {}, \A s \in B : IsFiniteSet(s)
  PROVE  \E m \in B : \A s \in B : Cardinality(m) <= Cardinality(s)
<1> DEFINE sizes == {Cardinality(s) : s \in B}
<1>1. sizes \in SUBSET Nat /\ sizes # {}
  BY FS_CardinalityType
<1>2. PICK n \in sizes : \A k \in sizes : n <= k
  <2> HIDE DEF sizes
  <2> QED
    BY <1>1, LeastNumber
<1>3. PICK m \in B : n = Cardinality(m)
  BY <1>2
<1> QED
  BY <1>2, <1>3

\* A sum over a finite set, as the folds take it: the elements one by one.
First(s) == CHOOSE x \in s : TRUE
SumBy(w, S, g) ==
    g = [s \in SUBSET S |-> IF s = {} THEN 0 ELSE w[First(s)] + g[s \ {First(s)}]]

LEMMA FirstIsOne == ASSUME NEW s, s # {} PROVE First(s) \in s
BY DEF First

LEMMA WithoutOne ==
  ASSUME NEW s, IsFiniteSet(s), NEW x \in s
  PROVE  IsFiniteSet(s \ {x}) /\ Cardinality(s) \in Nat /\ Cardinality(s \ {x}) \in Nat
         /\ Cardinality(s \ {x}) < Cardinality(s)
<1>1. IsFiniteSet(s \ {x}) /\ Cardinality(s \ {x}) = Cardinality(s) - 1
  BY FS_RemoveElement
<1>2. Cardinality(s) \in Nat /\ Cardinality(s \ {x}) \in Nat
  BY <1>1, FS_CardinalityType
<1> QED
  BY <1>1, <1>2

LEMMA SumUnfolds ==
  ASSUME NEW w, NEW S, NEW g, SumBy(w, S, g), NEW s \in SUBSET S
  PROVE  g[s] = IF s = {} THEN 0 ELSE w[First(s)] + g[s \ {First(s)}]
<1>1. g = [t \in SUBSET S |-> IF t = {} THEN 0 ELSE w[First(t)] + g[t \ {First(t)}]]
  BY DEF SumBy
<1> QED
  BY <1>1

LEMMA SumSame ==
  ASSUME NEW w, NEW S, NEW g, SumBy(w, S, g), NEW v, NEW T, NEW h, SumBy(v, T, h),
         NEW D \in SUBSET (S \cap T), IsFiniteSet(D), \A x \in D : w[x] = v[x]
  PROVE  g[D] = h[D]
<1> DEFINE B == {s \in SUBSET D : g[s] # h[s]}
<1>1. ASSUME B # {} PROVE FALSE
  <2>1. \A s \in B : IsFiniteSet(s)
    BY FS_Subset
  <2>2. PICK m \in B : \A s \in B : Cardinality(m) <= Cardinality(s)
    BY <1>1, <2>1, SmallestSet
  <2>3. m # {}
    <3>1. {} \in SUBSET S /\ {} \in SUBSET T
      OBVIOUS
    <3>2. g[{}] = 0 /\ h[{}] = 0
      BY <3>1, SumUnfolds
    <3> QED
      BY <2>2, <3>2
  <2>4. First(m) \in m /\ IsFiniteSet(m)
    BY <2>1, <2>2, <2>3, FirstIsOne
  <2>5. Cardinality(m \ {First(m)}) < Cardinality(m) /\ Cardinality(m) \in Nat
        /\ Cardinality(m \ {First(m)}) \in Nat
    BY <2>4, WithoutOne
  <2>6. m \ {First(m)} \notin B
    <3> HIDE DEF B
    <3> QED
      BY <2>2, <2>5
  <2>7. g[m \ {First(m)}] = h[m \ {First(m)}]
    BY <2>2, <2>6
  <2>8. g[m] = w[First(m)] + g[m \ {First(m)}] /\ h[m] = v[First(m)] + h[m \ {First(m)}]
    <3>1. m \in SUBSET S /\ m \in SUBSET T
      BY <2>2
    <3> QED
      BY <2>3, <3>1, SumUnfolds
  <2>9. w[First(m)] = v[First(m)]
    BY <2>2, <2>4
  <2> QED
    BY <2>2, <2>7, <2>8, <2>9
<1>2. D \in SUBSET D
  OBVIOUS
<1> QED
  BY <1>1, <1>2

LEMMA SumExists == ASSUME NEW w, NEW S, IsFiniteSet(S) PROVE \E g : SumBy(w, S, g)
<1> DEFINE B == {s \in SUBSET S : ~\E g : SumBy(w, s, g)}
           V(s) == (CHOOSE h : SumBy(w, s, h))[s]
<1>1. ASSUME B # {} PROVE FALSE
  <2>1. \A s \in B : IsFiniteSet(s)
    BY FS_Subset
  <2>2. PICK m \in B : \A s \in B : Cardinality(m) <= Cardinality(s)
    <3> HIDE DEF B
    <3> QED
      BY <1>1, <2>1, SmallestSet
  <2>3. IsFiniteSet(m) /\ m \in SUBSET S
    BY <2>1, <2>2
  <2>4. \A s \in SUBSET m : s # m => SumBy(w, s, CHOOSE h : SumBy(w, s, h))
    <3> TAKE s \in SUBSET m
    <3> HAVE s # m
    <3>1. PICK x \in m : x \notin s
      OBVIOUS
    <3>2. s \in SUBSET (m \ {x})
      BY <3>1
    <3>3. Cardinality(s) < Cardinality(m) /\ Cardinality(s) \in Nat /\ Cardinality(m) \in Nat
      BY <2>3, <3>1, <3>2, WithoutOne, FS_Subset, FS_CardinalityType
    <3>4. s \notin B
      <4> HIDE DEF B
      <4> QED
        BY <2>2, <3>3
    <3>5. \E g : SumBy(w, s, g)
      BY <2>3, <3>4
    <3> QED
      BY <3>5
  <2>5. \A s \in SUBSET m : s # m => V(s) = IF s = {} THEN 0 ELSE w[First(s)] + V(s \ {First(s)})
    <3> TAKE s \in SUBSET m
    <3> HAVE s # m
    <3> DEFINE h == CHOOSE h : SumBy(w, s, h)
               t == s \ {First(s)}
               k == CHOOSE k : SumBy(w, t, k)
    <3>1. SumBy(w, s, h)
      BY <2>4
    <3>2. CASE s = {}
      <4>1. h[s] = 0
        <5> HIDE DEF h
        <5>1. s \in SUBSET s
          OBVIOUS
        <5> QED
          BY <3>1, <3>2, <5>1, SumUnfolds
      <4> QED
        BY <3>2, <4>1
    <3>3. CASE s # {}
      <4>1. t \in SUBSET m /\ t # m /\ t \in SUBSET s
        BY <3>3, FirstIsOne
      <4>2. SumBy(w, t, k)
        BY <2>4, <4>1
      <4>3. IsFiniteSet(t)
        BY <2>3, <4>1, FS_Subset
      <4>4. h[t] = k[t]
        <5> HIDE DEF h, k, t
        <5>1. t \in SUBSET (s \cap t)
          BY <4>1
        <5> QED
          BY <3>1, <4>2, <4>3, <5>1, SumSame
      <4>5. h[s] = w[First(s)] + h[t]
        <5> HIDE DEF h
        <5>1. s \in SUBSET s
          OBVIOUS
        <5> QED
          BY <3>1, <3>3, <5>1, SumUnfolds
      <4> QED
        BY <3>3, <4>4, <4>5
    <3> QED
      BY <3>2, <3>3
  <2> DEFINE g == [s \in SUBSET m |-> IF s # m THEN V(s)
                                      ELSE IF m = {} THEN 0 ELSE w[First(m)] + V(m \ {First(m)})]
  <2>6. SumBy(w, m, g)
    <3> HIDE DEF V
    <3>1. \A s \in SUBSET m : g[s] = IF s = {} THEN 0 ELSE w[First(s)] + g[s \ {First(s)}]
      <4> TAKE s \in SUBSET m
      <4>1. CASE s = {} /\ s # m
        BY <2>5, <4>1
      <4>2. CASE s = {} /\ s = m
        BY <4>2
      <4>3. CASE s # {}
        <5>1. s \ {First(s)} \in SUBSET m /\ s \ {First(s)} # m
          BY <4>3, FirstIsOne
        <5>2. g[s \ {First(s)}] = V(s \ {First(s)})
          BY <5>1
        <5> QED
          BY <2>5, <4>3, <5>2
      <4> QED
        BY <4>1, <4>2, <4>3
    <3>2. g = [s \in SUBSET m |-> g[s]]
      OBVIOUS
    <3> HIDE DEF g
    <3> QED
      BY <3>1, <3>2 DEF SumBy
  <2>7. ~\E f : SumBy(w, m, f)
    BY <2>2
  <2> HIDE DEF g
  <2> QED
    BY <2>6, <2>7
<1>2. S \in SUBSET S
  OBVIOUS
<1> QED
  BY <1>1, <1>2

LEMMA SumTyped ==
  ASSUME NEW S, IsFiniteSet(S), NEW w \in [S -> Nat], NEW g, SumBy(w, S, g)
  PROVE  \A D \in SUBSET S : g[D] \in Nat
<1> DEFINE B == {s \in SUBSET S : g[s] \notin Nat}
<1>0. \A s \in SUBSET S : g[s] = IF s = {} THEN 0 ELSE w[First(s)] + g[s \ {First(s)}]
  <2> HIDE DEF B
  <2> TAKE s \in SUBSET S
  <2> QED
    BY SumUnfolds
<1>1. ASSUME B # {} PROVE FALSE
  <2>1. \A s \in B : IsFiniteSet(s)
    BY FS_Subset
  <2>2. PICK m \in B : \A s \in B : Cardinality(m) <= Cardinality(s)
    <3> HIDE DEF B
    <3> QED
      BY <1>1, <2>1, SmallestSet
  <2>3. m \in SUBSET S /\ g[m] \notin Nat /\ IsFiniteSet(m)
    BY <2>1, <2>2
  <2>4. m # {}
    <3>1. ASSUME m = {} PROVE FALSE
      <4>1. g[m] = 0
        BY <1>0, <2>3, <3>1
      <4> QED
        BY <2>3, <4>1
    <3> QED
      BY <3>1
  <2>5. First(m) \in m
    BY <2>4, FirstIsOne
  <2>6. m \ {First(m)} \notin B
    <3> HIDE DEF B
    <3> QED
      BY <2>2, <2>3, <2>5, WithoutOne
  <2>7. g[m \ {First(m)}] \in Nat /\ w[First(m)] \in Nat
    BY <2>3, <2>5, <2>6, SMTT(30)
  <2>8. g[m] = w[First(m)] + g[m \ {First(m)}]
    BY <1>0, <2>3, <2>4
  <2> QED
    BY <2>3, <2>7, <2>8
<1> QED
  BY <1>1

\* The order in which the elements are taken does not matter.
LEMMA SumTakes ==
  ASSUME NEW S, IsFiniteSet(S), NEW w \in [S -> Nat], NEW g, SumBy(w, S, g)
  PROVE  \A D \in SUBSET S : \A x \in D : g[D] = w[x] + g[D \ {x}]
<1> DEFINE B == {s \in SUBSET S : \E x \in s : g[s] # w[x] + g[s \ {x}]}
<1>0. \A s \in SUBSET S : g[s] = IF s = {} THEN 0 ELSE w[First(s)] + g[s \ {First(s)}]
  <2> TAKE s \in SUBSET S
  <2> QED
    BY SumUnfolds
<1>1. ASSUME B # {} PROVE FALSE
  <2>1. \A s \in B : IsFiniteSet(s)
    BY FS_Subset
  <2>2. PICK m \in B : \A s \in B : Cardinality(m) <= Cardinality(s)
    <3> HIDE DEF B
    <3> QED
      BY <1>1, <2>1, SmallestSet
  <2>3. m \in SUBSET S /\ IsFiniteSet(m)
    BY <2>1, <2>2
  <2>4. PICK x \in m : g[m] # w[x] + g[m \ {x}]
    BY <2>2
  <2> DEFINE f == First(m)
  <2>5. f \in m
    BY <2>4, FirstIsOne
  <2> HIDE DEF f
  <2>6. g[m] = w[f] + g[m \ {f}]
    BY <1>0, <2>3, <2>4 DEF f
  <2>7. x # f
    BY <2>4, <2>6
  <2>8. m \ {f} \notin B /\ m \ {x} \notin B
    <3> HIDE DEF B
    <3>1. /\ Cardinality(m \ {x}) < Cardinality(m) /\ Cardinality(m) \in Nat
          /\ Cardinality(m \ {x}) \in Nat /\ Cardinality(m \ {f}) < Cardinality(m)
          /\ Cardinality(m \ {f}) \in Nat
      BY <2>3, <2>4, <2>5, WithoutOne
    <3> QED
      BY <2>2, <3>1
  <2>9. g[m \ {f}] = w[x] + g[(m \ {f}) \ {x}] /\ g[m \ {x}] = w[f] + g[(m \ {x}) \ {f}]
    <3>1. m \ {f} \in SUBSET S /\ m \ {x} \in SUBSET S /\ x \in m \ {f} /\ f \in m \ {x}
      BY <2>3, <2>4, <2>5, <2>7
    <3> QED
      BY <2>8, <3>1
  <2>10. (m \ {f}) \ {x} = (m \ {x}) \ {f}
    OBVIOUS
  <2>11. w[x] \in Nat /\ w[f] \in Nat /\ g[(m \ {x}) \ {f}] \in Nat
    BY <2>3, <2>4, <2>5, SumTyped
  <2> QED
    <3>1. g[m] = w[f] + (w[x] + g[(m \ {x}) \ {f}])
      BY <2>6, <2>9, <2>10
    <3>2. w[x] + g[m \ {x}] = w[x] + (w[f] + g[(m \ {x}) \ {f}])
      BY <2>9
    <3>3. w[f] + (w[x] + g[(m \ {x}) \ {f}]) = w[x] + (w[f] + g[(m \ {x}) \ {f}])
      BY <2>11
    <3> QED
      BY <2>4, <3>1, <3>2, <3>3
<1> QED
  BY <1>1

LEMMA SumMonotone ==
  ASSUME NEW S, IsFiniteSet(S), NEW w \in [S -> Nat], NEW g, SumBy(w, S, g),
         NEW D \in SUBSET S
  PROVE  g[D] <= g[S]
<1> DEFINE B == {s \in SUBSET S : D \subseteq s /\ ~(g[D] <= g[s])}
<1>1. ASSUME B # {} PROVE FALSE
  <2>1. \A s \in B : IsFiniteSet(s)
    BY FS_Subset
  <2>2. PICK m \in B : \A s \in B : Cardinality(m) <= Cardinality(s)
    <3> HIDE DEF B
    <3> QED
      BY <1>1, <2>1, SmallestSet
  <2>3. m \in SUBSET S /\ IsFiniteSet(m) /\ D \subseteq m /\ ~(g[D] <= g[m])
    BY <2>1, <2>2
  <2>4. g[D] \in Nat /\ g[m] \in Nat
    BY <2>3, SumTyped
  <2>5. PICK x \in m : x \notin D
    <3>1. m # D
      BY <2>3, <2>4
    <3> QED
      BY <2>3, <3>1
  <2>6. m \ {x} \notin B
    <3> HIDE DEF B
    <3>1. /\ Cardinality(m \ {x}) < Cardinality(m) /\ Cardinality(m) \in Nat
          /\ Cardinality(m \ {x}) \in Nat
      BY <2>3, <2>5, WithoutOne
    <3> QED
      BY <2>2, <3>1
  <2>7. g[D] <= g[m \ {x}]
    BY <2>3, <2>5, <2>6
  <2>8. g[m] = w[x] + g[m \ {x}]
    BY <2>3, SumTakes
  <2>9. w[x] \in Nat /\ g[m \ {x}] \in Nat
    BY <2>3, SumTyped
  <2> QED
    BY <2>3, <2>4, <2>7, <2>8, <2>9
<1> QED
  BY <1>1

\* The sum of two sets that share no element.
LEMMA SumParts ==
  ASSUME NEW S, IsFiniteSet(S), NEW w \in [S -> Nat], NEW g, SumBy(w, S, g),
         NEW A \in SUBSET S
  PROVE  \A D \in SUBSET (S \ A) : g[A \cup D] = g[A] + g[D]
<1> DEFINE B == {s \in SUBSET (S \ A) : g[A \cup s] # g[A] + g[s]}
<1>0. \A s \in SUBSET S : g[s] \in Nat
  BY SumTyped
<1>1. ASSUME B # {} PROVE FALSE
  <2>1. \A s \in B : IsFiniteSet(s)
    BY FS_Subset
  <2>2. PICK m \in B : \A s \in B : Cardinality(m) <= Cardinality(s)
    <3> HIDE DEF B
    <3> QED
      BY <1>1, <2>1, SmallestSet
  <2>3. m \in SUBSET (S \ A) /\ IsFiniteSet(m) /\ g[A \cup m] # g[A] + g[m]
    BY <2>1, <2>2
  <2>4. m # {}
    <3>1. ASSUME m = {} PROVE FALSE
      <4>1. A \cup m = A /\ g[m] = 0
        <5>1. g[m] = IF m = {} THEN 0 ELSE w[First(m)] + g[m \ {First(m)}]
          BY <2>3, SumUnfolds
        <5> QED
          BY <3>1, <5>1
      <4>2. g[A] + g[m] = g[A]
        <5>1. g[A] \in Nat /\ g[m] = 0
          BY <1>0, <4>1
        <5> QED
          BY <5>1
      <4>3. g[A \cup m] = g[A]
        BY <4>1
      <4> QED
        BY <2>3, <4>2, <4>3
    <3> QED
      BY <3>1
  <2>5. PICK x \in m : TRUE
    BY <2>4
  <2>6. m \ {x} \notin B
    <3> HIDE DEF B
    <3>1. /\ Cardinality(m \ {x}) < Cardinality(m) /\ Cardinality(m) \in Nat
          /\ Cardinality(m \ {x}) \in Nat
      BY <2>3, <2>5, WithoutOne
    <3> QED
      BY <2>2, <3>1
  <2>7. g[A \cup (m \ {x})] = g[A] + g[m \ {x}]
    BY <2>3, <2>5, <2>6
  <2>8. g[m] = w[x] + g[m \ {x}]
    <3>1. m \in SUBSET S
      BY <2>3
    <3> QED
      BY <2>5, <3>1, SumTakes
  <2>9. g[A \cup m] = w[x] + g[A \cup (m \ {x})]
    <3>1. A \cup m \in SUBSET S /\ x \in A \cup m /\ (A \cup m) \ {x} = A \cup (m \ {x})
      BY <2>3, <2>5
    <3>2. g[A \cup m] = w[x] + g[(A \cup m) \ {x}]
      BY <3>1, SumTakes
    <3> QED
      BY <3>1, <3>2
  <2>10. w[x] \in Nat /\ g[A] \in Nat /\ g[m \ {x}] \in Nat
    BY <1>0, <2>3, <2>5
  <2>11. w[x] + (g[A] + g[m \ {x}]) = g[A] + (w[x] + g[m \ {x}])
    BY <2>10
  <2> QED
    BY <2>3, <2>7, <2>8, <2>9, <2>11
<1> QED
  BY <1>1
=============================================================================
