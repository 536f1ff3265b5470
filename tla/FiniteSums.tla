----------------------------- MODULE FiniteSums -----------------------------
(***************************************************************************)
(* What SumFunctionOnSet of the community module Functions computes: a sum *)
(* over a finite set, that does not depend on the order in which the       *)
(* elements are added.  The ResourceBank adds up the claims of its records *)
(* (Bank.used against every snapshot) and the bytes of the host classes    *)
(* (hostBytes) with it.                                                    *)
(*                                                                         *)
(* The library defines a sum by recursion over the subsets of its index    *)
(* set.  Each induction here is on those subsets: were a statement false   *)
(* of some, it would be false of a smallest one, and true of all the       *)
(* smaller.                                                                *)
(***************************************************************************)
EXTENDS FiniteSetTheorems, TLAPS

-----------------------------------------------------------------------------
(* The recursion of the library, in small steps.                           *)

Pick(s) == CHOOSE x \in s : TRUE
Rest(s) == s \ {Pick(s)}
Body(f, g, s) == IF s = {} THEN 0 ELSE f[Pick(s)] + g[Rest(s)]

\* g is what the recursion computes on the subsets of S.
Recurses(f, S, g) == g = [s \in SUBSET S |-> Body(f, g, s)]
Folded(f, S) == CHOOSE g : Recurses(f, S, g)

Sum(f, S) == SumFunctionOnSet(f, S)

\* The library's sum is its recursion at the whole set.
LEMMA SumIsFolded ==
    ASSUME NEW f, NEW S
    PROVE  Sum(f, S) = Folded(f, S)[S]
BY DEF Sum, SumFunctionOnSet, FoldFunctionOnSet, MapThenFoldSet, Folded,
       Recurses, Body, Rest, Pick

\* The element that is picked is one of the set.
LEMMA PickRest ==
    ASSUME NEW s, s # {}
    PROVE  /\ Pick(s) \in s
           /\ Rest(s) \subseteq s
           /\ Rest(s) # s
BY DEF Pick, Rest

\* A set of subsets of a finite set has a smallest member.
LEMMA SmallestSubset ==
    ASSUME NEW S, IsFiniteSet(S), NEW T, T \subseteq SUBSET S, T # {}
    PROVE  \E s \in T : \A t \in SUBSET s : t # s => t \notin T
<1>1. IsWellFoundedOn(StrictSubsetOrdering(S), SUBSET S)
  BY FS_StrictSubsetOrderingWellFounded, FS_FiniteSubsetsOfFinite
<1>2. \E s \in T : \A t \in T : <<t, s>> \notin StrictSubsetOrdering(S)
  BY <1>1, WFMin
<1> QED BY <1>2 DEF StrictSubsetOrdering

\* Two runs of the recursion agree where both are defined.
LEMMA RunsAgree ==
    ASSUME NEW f, NEW A, NEW B, NEW g, NEW h, IsFiniteSet(A),
           Recurses(f, A, g), Recurses(f, B, h),
           NEW u, u \subseteq A, u \subseteq B
    PROVE  g[u] = h[u]
<1> DEFINE T == {s \in SUBSET A : s \subseteq B /\ g[s] # h[s]}
<1>1. SUFFICES ASSUME T # {} PROVE FALSE
  OBVIOUS
<1>2. PICK s \in T : \A t \in SUBSET s : t # s => t \notin T
  <2> HIDE DEF T
  <2>1. T \subseteq SUBSET A
    BY DEF T
  <2> QED BY <1>1, <2>1, SmallestSubset
<1>3. g[s] = Body(f, g, s) /\ h[s] = Body(f, h, s)
  BY DEF Recurses
<1>4. CASE s = {}
  BY <1>3, <1>4 DEF Body
<1>5. CASE s # {}
  <2>1. Rest(s) \in SUBSET s /\ Rest(s) # s
    BY <1>5, PickRest
  <2>2. g[Rest(s)] = h[Rest(s)]
    BY <1>2, <2>1
  <2> QED BY <1>3, <1>5, <2>2 DEF Body
<1> QED BY <1>4, <1>5

\* The recursion is defined on every finite set.
LEMMA FoldedExists ==
    ASSUME NEW f, NEW S, IsFiniteSet(S)
    PROVE  Recurses(f, S, Folded(f, S))
<1> DEFINE T == {s \in SUBSET S : ~\E g : Recurses(f, s, g)}
<1>1. SUFFICES T = {}
  BY DEF Folded
<1>2. SUFFICES ASSUME T # {} PROVE FALSE
  OBVIOUS
<1>3. PICK s \in T : \A t \in SUBSET s : t # s => t \notin T
  <2> HIDE DEF T
  <2>1. T \subseteq SUBSET S
    BY DEF T
  <2> QED BY <1>2, <2>1, SmallestSubset
<1>4. ASSUME NEW t \in SUBSET s, t # s PROVE Recurses(f, t, Folded(f, t))
  BY <1>3, <1>4 DEF Folded
<1> DEFINE below == [t \in SUBSET s |-> Folded(f, t)[t]]
           g == [t \in SUBSET s |-> IF t = s THEN Body(f, below, s)
                                             ELSE Folded(f, t)[t]]
<1>5. /\ g[s] = Body(f, below, s)
      /\ \A t \in SUBSET s : t # s => g[t] = Folded(f, t)[t]
      /\ \A t \in SUBSET s : t # s => below[t] = Folded(f, t)[t]
      /\ g = [t \in SUBSET s |-> g[t]]
  OBVIOUS
<1>f. IsFiniteSet(s)
  BY FS_Subset
<1> HIDE DEF g, below, T
<1>6. ASSUME NEW t \in SUBSET s PROVE g[t] = Body(f, g, t)
  <2>1. CASE t = s
    <3>1. CASE s = {}
      BY <1>5, <2>1, <3>1 DEF Body
    <3>2. CASE s # {}
      <4>1. Rest(s) \in SUBSET s /\ Rest(s) # s
        BY <3>2, PickRest
      <4>2. g[Rest(s)] = below[Rest(s)]
        BY <1>5, <4>1
      <4> QED BY <1>5, <2>1, <3>2, <4>2 DEF Body
    <3> QED BY <3>1, <3>2
  <2>2. CASE t # s
    <3>1. Recurses(f, t, Folded(f, t)) /\ g[t] = Folded(f, t)[t]
      BY <1>4, <1>5, <2>2
    <3>2. g[t] = Body(f, Folded(f, t), t)
      BY <3>1 DEF Recurses
    <3>3. CASE t = {}
      BY <3>2, <3>3 DEF Body
    <3>4. CASE t # {}
      <4>1. Rest(t) \in SUBSET t
        BY <3>4, PickRest
      <4>2. Rest(t) \in SUBSET s /\ Rest(t) # s
        BY <2>2, <4>1
      <4>3. /\ Recurses(f, Rest(t), Folded(f, Rest(t)))
            /\ g[Rest(t)] = Folded(f, Rest(t))[Rest(t)]
        BY <1>4, <1>5, <4>2
      <4>4. IsFiniteSet(t)
        BY <1>f, FS_Subset
      <4>5. Folded(f, t)[Rest(t)] = Folded(f, Rest(t))[Rest(t)]
        BY <3>1, <4>1, <4>3, <4>4, RunsAgree
      <4> QED BY <3>2, <3>4, <4>3, <4>5 DEF Body
    <3> QED BY <3>3, <3>4
  <2> QED BY <2>1, <2>2
<1>7. Recurses(f, s, g)
  BY <1>5, <1>6 DEF Recurses
<1>8. s \in T => ~\E h : Recurses(f, s, h)
  BY DEF T
<1> QED BY <1>7, <1>8

-----------------------------------------------------------------------------
(* Sums.                                                                   *)

\* The sum over nothing is zero, any other adds the element picked to the
\* sum over the rest.
LEMMA SumStep ==
    ASSUME NEW f, NEW S, IsFiniteSet(S)
    PROVE  Sum(f, S) = IF S = {} THEN 0 ELSE f[Pick(S)] + Sum(f, Rest(S))
<1>1. Recurses(f, S, Folded(f, S))
  BY FoldedExists
<1>2. Sum(f, S) = Body(f, Folded(f, S), S)
  BY <1>1, SumIsFolded DEF Recurses
<1>3. CASE S = {}
  BY <1>2, <1>3 DEF Body
<1>4. CASE S # {}
  <2>1. Rest(S) \subseteq S /\ IsFiniteSet(Rest(S))
    BY <1>4, PickRest, FS_Subset
  <2>2. Recurses(f, Rest(S), Folded(f, Rest(S)))
    BY <2>1, FoldedExists
  <2>3. Folded(f, S)[Rest(S)] = Folded(f, Rest(S))[Rest(S)]
    BY <1>1, <2>1, <2>2, RunsAgree
  <2> QED BY <1>2, <1>4, <2>3, SumIsFolded DEF Body
<1> QED BY <1>3, <1>4

\* A sum of naturals is a natural.
LEMMA SumType ==
    ASSUME NEW f, NEW S, IsFiniteSet(S), \A x \in S : f[x] \in Nat
    PROVE  Sum(f, S) \in Nat
<1> DEFINE T == {s \in SUBSET S : Sum(f, s) \notin Nat}
<1>1. SUFFICES ASSUME T # {} PROVE FALSE
  OBVIOUS
<1>2. PICK s \in T : \A t \in SUBSET s : t # s => t \notin T
  <2> HIDE DEF T
  <2>1. T \subseteq SUBSET S
    BY DEF T
  <2> QED BY <1>1, <2>1, SmallestSubset
<1>3. IsFiniteSet(s)
  BY FS_Subset
<1>4. s # {}
  <2>1. IsFiniteSet({}) /\ Sum(f, {}) = 0
    BY FS_EmptySet, SumStep
  <2> QED BY <2>1
<1>5. Pick(s) \in s /\ Rest(s) \in SUBSET s /\ Rest(s) # s
  BY <1>4, PickRest
<1>6. Sum(f, Rest(s)) \in Nat /\ f[Pick(s)] \in Nat
  BY <1>2, <1>5
<1>7. Sum(f, s) = f[Pick(s)] + Sum(f, Rest(s))
  BY <1>3, <1>4, SumStep
<1> QED BY <1>6, <1>7

\* Any element can be taken out of a sum.
LEMMA SumRemove ==
    ASSUME NEW f, NEW S, IsFiniteSet(S), \A x \in S : f[x] \in Nat,
           NEW e \in S
    PROVE  Sum(f, S) = f[e] + Sum(f, S \ {e})
<1> DEFINE T == {s \in SUBSET S :
                   \E x \in s : Sum(f, s) # f[x] + Sum(f, s \ {x})}
<1>1. SUFFICES ASSUME T # {} PROVE FALSE
  OBVIOUS
<1>2. PICK s \in T : \A t \in SUBSET s : t # s => t \notin T
  <2> HIDE DEF T
  <2>1. T \subseteq SUBSET S
    BY DEF T
  <2> QED BY <1>1, <2>1, SmallestSubset
<1>3. PICK x \in s : Sum(f, s) # f[x] + Sum(f, s \ {x})
  OBVIOUS
<1>4. PICK p : p = Pick(s)
  OBVIOUS
<1>5. IsFiniteSet(s) /\ s \subseteq S /\ s # {}
  BY <1>3, FS_Subset
<1>6. p \in s /\ Rest(s) = s \ {p}
  BY <1>4, <1>5, PickRest DEF Rest
<1>7. Sum(f, s) = f[p] + Sum(f, s \ {p})
  BY <1>4, <1>5, <1>6, SumStep
<1>8. x # p
  BY <1>3, <1>7
<1>9. \A t \in SUBSET s : t # s =>
        \A y \in t : Sum(f, t) = f[y] + Sum(f, t \ {y})
  BY <1>2, <1>5
<1>10. Sum(f, s \ {p}) = f[x] + Sum(f, (s \ {p}) \ {x})
  <2>1. s \ {p} \in SUBSET s /\ s \ {p} # s /\ x \in s \ {p}
    BY <1>6, <1>8
  <2> QED BY <1>9, <2>1
<1>11. Sum(f, s \ {x}) = f[p] + Sum(f, (s \ {p}) \ {x})
  <2>1. s \ {x} \in SUBSET s /\ s \ {x} # s /\ p \in s \ {x}
    BY <1>6, <1>8
  <2>2. (s \ {x}) \ {p} = (s \ {p}) \ {x}
    OBVIOUS
  <2> QED BY <1>9, <2>1, <2>2
<1>12. /\ f[x] \in Nat /\ f[p] \in Nat
       /\ Sum(f, (s \ {p}) \ {x}) \in Nat
  <2>1. (s \ {p}) \ {x} \subseteq s
    OBVIOUS
  <2>2. IsFiniteSet((s \ {p}) \ {x})
    BY <1>5, <2>1, FS_Subset
  <2> QED BY <1>5, <1>6, <2>1, <2>2, SumType
<1> QED BY <1>3, <1>7, <1>10, <1>11, <1>12

\* Two functions that agree on a set have the same sum over it.
LEMMA SumAgree ==
    ASSUME NEW f, NEW g, NEW S, IsFiniteSet(S), \A x \in S : f[x] = g[x]
    PROVE  Sum(f, S) = Sum(g, S)
<1> DEFINE T == {s \in SUBSET S : Sum(f, s) # Sum(g, s)}
<1>1. SUFFICES ASSUME T # {} PROVE FALSE
  OBVIOUS
<1>2. PICK s \in T : \A t \in SUBSET s : t # s => t \notin T
  <2> HIDE DEF T
  <2>1. T \subseteq SUBSET S
    BY DEF T
  <2> QED BY <1>1, <2>1, SmallestSubset
<1>3. IsFiniteSet(s) /\ s \subseteq S
  BY FS_Subset
<1>4. /\ Sum(f, s) = IF s = {} THEN 0 ELSE f[Pick(s)] + Sum(f, Rest(s))
      /\ Sum(g, s) = IF s = {} THEN 0 ELSE g[Pick(s)] + Sum(g, Rest(s))
  BY <1>3, SumStep
<1>5. s # {}
  BY <1>4
<1>6. Pick(s) \in s /\ Rest(s) \in SUBSET s /\ Rest(s) # s
  BY <1>5, PickRest
<1>7. Sum(f, Rest(s)) = Sum(g, Rest(s))
  BY <1>2, <1>3, <1>6
<1> QED BY <1>3, <1>4, <1>5, <1>6, <1>7

\* A sum moves with one of its summands.
LEMMA SumChange ==
    ASSUME NEW f, NEW g, NEW S, IsFiniteSet(S),
           \A x \in S : f[x] \in Nat /\ g[x] \in Nat,
           NEW e \in S, \A x \in S \ {e} : g[x] = f[x]
    PROVE  Sum(g, S) = Sum(f, S) - f[e] + g[e]
<1>1. IsFiniteSet(S \ {e})
  BY FS_RemoveElement
<1>2. Sum(g, S \ {e}) = Sum(f, S \ {e})
  BY <1>1, SumAgree
<1>3. /\ Sum(f, S) = f[e] + Sum(f, S \ {e})
      /\ Sum(g, S) = g[e] + Sum(g, S \ {e})
  BY SumRemove
<1>4. Sum(f, S \ {e}) \in Nat /\ f[e] \in Nat /\ g[e] \in Nat
  BY <1>1, SumType
<1> QED BY <1>2, <1>3, <1>4

\* A sum of smaller summands is smaller.
LEMMA SumMonotone ==
    ASSUME NEW f, NEW g, NEW S, IsFiniteSet(S),
           \A x \in S : f[x] \in Nat /\ g[x] \in Nat /\ f[x] <= g[x]
    PROVE  Sum(f, S) <= Sum(g, S)
<1> DEFINE T == {s \in SUBSET S : ~(Sum(f, s) <= Sum(g, s))}
<1>1. SUFFICES ASSUME T # {} PROVE FALSE
  OBVIOUS
<1>2. PICK s \in T : \A t \in SUBSET s : t # s => t \notin T
  <2> HIDE DEF T
  <2>1. T \subseteq SUBSET S
    BY DEF T
  <2> QED BY <1>1, <2>1, SmallestSubset
<1>3. IsFiniteSet(s) /\ s \subseteq S
  BY FS_Subset
<1>4. /\ Sum(f, s) = IF s = {} THEN 0 ELSE f[Pick(s)] + Sum(f, Rest(s))
      /\ Sum(g, s) = IF s = {} THEN 0 ELSE g[Pick(s)] + Sum(g, Rest(s))
  BY <1>3, SumStep
<1>5. s # {}
  BY <1>4
<1>6. Pick(s) \in s /\ Rest(s) \in SUBSET s /\ Rest(s) # s
  BY <1>5, PickRest
<1>7. Sum(f, Rest(s)) <= Sum(g, Rest(s))
  BY <1>2, <1>3, <1>6
<1>8. IsFiniteSet(Rest(s)) /\ Rest(s) \subseteq S
  BY <1>3, <1>6, FS_Subset
<1>9. Sum(f, Rest(s)) \in Nat /\ Sum(g, Rest(s)) \in Nat
  BY <1>8, SumType
<1>10. /\ f[Pick(s)] \in Nat /\ g[Pick(s)] \in Nat
       /\ f[Pick(s)] <= g[Pick(s)]
  BY <1>3, <1>6
<1> QED BY <1>4, <1>5, <1>7, <1>9, <1>10

\* A sum of zeros is zero.
LEMMA SumOfZeros ==
    ASSUME NEW f, NEW S, IsFiniteSet(S), \A x \in S : f[x] = 0
    PROVE  Sum(f, S) = 0
<1> DEFINE T == {s \in SUBSET S : Sum(f, s) # 0}
<1>1. SUFFICES ASSUME T # {} PROVE FALSE
  OBVIOUS
<1>2. PICK s \in T : \A t \in SUBSET s : t # s => t \notin T
  <2> HIDE DEF T
  <2>1. T \subseteq SUBSET S
    BY DEF T
  <2> QED BY <1>1, <2>1, SmallestSubset
<1>3. IsFiniteSet(s) /\ s \subseteq S
  BY FS_Subset
<1>4. Sum(f, s) = IF s = {} THEN 0 ELSE f[Pick(s)] + Sum(f, Rest(s))
  BY <1>3, SumStep
<1>5. s # {}
  BY <1>4
<1>6. Pick(s) \in s /\ Rest(s) \in SUBSET s /\ Rest(s) # s
  BY <1>5, PickRest
<1>7. Sum(f, Rest(s)) = 0 /\ f[Pick(s)] = 0
  BY <1>2, <1>3, <1>6
<1> QED BY <1>4, <1>5, <1>7

\* The sum over two disjoint sets is the sum of their sums.
LEMMA SumUnion ==
    ASSUME NEW f, NEW A, NEW B, IsFiniteSet(A), IsFiniteSet(B),
           A \intersect B = {}, \A x \in A \union B : f[x] \in Nat
    PROVE  Sum(f, A \union B) = Sum(f, A) + Sum(f, B)
<1> DEFINE T == {s \in SUBSET B :
                   Sum(f, A \union s) # Sum(f, A) + Sum(f, s)}
<1>1. SUFFICES ASSUME T # {} PROVE FALSE
  OBVIOUS
<1>2. PICK s \in T : \A t \in SUBSET s : t # s => t \notin T
  <2> HIDE DEF T
  <2>1. T \subseteq SUBSET B
    BY DEF T
  <2> QED BY <1>1, <2>1, SmallestSubset
<1>3. IsFiniteSet(s) /\ s \subseteq B
  BY FS_Subset
<1>4. s # {}
  <2>1. ASSUME s = {} PROVE FALSE
    <3>1. A \union s = A /\ Sum(f, s) = 0 /\ Sum(f, A) \in Nat
      BY <1>3, <2>1, SumStep, SumType
    <3> QED BY <3>1
  <2> QED BY <2>1
<1>5. PICK e \in s : TRUE
  BY <1>4
<1>6. Sum(f, A \union (s \ {e})) = Sum(f, A) + Sum(f, s \ {e})
  BY <1>2, <1>3, <1>5
<1>7. Sum(f, s) = f[e] + Sum(f, s \ {e})
  BY <1>3, <1>5, SumRemove
<1>8. Sum(f, A \union s) = f[e] + Sum(f, A \union (s \ {e}))
  <2>1. IsFiniteSet(A \union s)
    BY <1>3, FS_Union
  <2>2. (A \union s) \ {e} = A \union (s \ {e})
    BY <1>3, <1>5
  <2>3. e \in A \union s /\ \A x \in A \union s : f[x] \in Nat
    BY <1>3, <1>5
  <2>4. Sum(f, A \union s) = f[e] + Sum(f, (A \union s) \ {e})
    BY ONLY <2>1, <2>3, SumRemove
  <2> QED BY <2>2, <2>4
<1>9. /\ Sum(f, A) \in Nat /\ Sum(f, s \ {e}) \in Nat /\ f[e] \in Nat
  <2>1. IsFiniteSet(s \ {e}) /\ \A x \in s \ {e} : f[x] \in Nat
    BY <1>3, FS_RemoveElement
  <2> QED BY <1>3, <1>5, <2>1, SumType
<1> QED BY <1>6, <1>7, <1>8, <1>9

\* A sum may be taken along an enumeration of its index set.
LEMMA SumReindex ==
    ASSUME NEW f, NEW g, NEW h, NEW S, IsFiniteSet(S),
           \A x, y \in S : h[x] = h[y] => x = y,
           \A x \in S : g[x] = f[h[x]] /\ f[h[x]] \in Nat
    PROVE  Sum(f, {h[x] : x \in S}) = Sum(g, S)
<1> DEFINE Im(s) == {h[x] : x \in s}
           T == {s \in SUBSET S : Sum(f, Im(s)) # Sum(g, s)}
<1>1. SUFFICES ASSUME T # {} PROVE FALSE
  OBVIOUS
<1>2. PICK s \in T : \A t \in SUBSET s : t # s => t \notin T
  <2> HIDE DEF T
  <2>1. T \subseteq SUBSET S
    BY DEF T
  <2> QED BY <1>1, <2>1, SmallestSubset
<1>3. IsFiniteSet(s) /\ s \subseteq S /\ IsFiniteSet(Im(s))
  <2>1. IsFiniteSet(s) /\ s \subseteq S
    BY FS_Subset
  <2>2. [x \in s |-> h[x]] \in Surjection(s, Im(s))
    BY DEF Surjection
  <2> QED BY <2>1, <2>2, FS_Surjection
<1>4. s # {}
  <2>1. ASSUME s = {} PROVE FALSE
    <3>1. Im(s) = {}
      BY <2>1
    <3>2. Sum(f, Im(s)) = 0 /\ Sum(g, s) = 0
      BY <1>3, <2>1, <3>1, SumStep
    <3> QED BY <3>2
  <2> QED BY <2>1
<1>5. PICK e \in s : TRUE
  BY <1>4
<1>6. Sum(f, Im(s \ {e})) = Sum(g, s \ {e})
  BY <1>2, <1>3, <1>5
<1>7. Im(s) \ {h[e]} = Im(s \ {e}) /\ h[e] \in Im(s)
  BY <1>3, <1>5
<1>8. Sum(g, s) = g[e] + Sum(g, s \ {e})
  BY <1>3, <1>5, SumRemove
<1>9. Sum(f, Im(s)) = f[h[e]] + Sum(f, Im(s) \ {h[e]})
  <2>1. \A y \in Im(s) : f[y] \in Nat
    BY <1>3
  <2> HIDE DEF Im
  <2> QED BY <1>3, <1>7, <2>1, SumRemove
<1> QED BY <1>3, <1>5, <1>6, <1>7, <1>8, <1>9
\* Summands that are zero outside a part may be left out.
LEMMA SumOfPart ==
    ASSUME NEW f, NEW g, NEW S, IsFiniteSet(S), NEW A, A \subseteq S,
           \A x \in A : f[x] = g[x] /\ f[x] \in Nat, \A x \in S \ A : f[x] = 0
    PROVE  Sum(f, S) = Sum(g, A)
<1>1. IsFiniteSet(A) /\ IsFiniteSet(S \ A)
  BY FS_Subset
<1>2. A \cup (S \ A) = S /\ A \cap (S \ A) = {}
  OBVIOUS
<1>3. \A x \in A \cup (S \ A) : f[x] \in Nat
  OBVIOUS
<1>4. Sum(f, A \cup (S \ A)) = Sum(f, A) + Sum(f, S \ A)
  BY <1>1, <1>2, <1>3, SumUnion
<1>5. Sum(f, S \ A) = 0
  BY <1>1, SumOfZeros
<1>6. Sum(f, A) = Sum(g, A) /\ Sum(f, A) \in Nat
  BY <1>1, SumAgree, SumType
<1>7. Sum(f, S) = Sum(f, A) + Sum(f, S \ A)
  BY <1>2, <1>4
<1> QED BY <1>5, <1>6, <1>7

\* A sum of ones counts.
LEMMA SumOfOnes ==
    ASSUME NEW f, NEW S, IsFiniteSet(S), \A x \in S : f[x] = 1
    PROVE  Sum(f, S) = Cardinality(S)
<1> DEFINE T == {s \in SUBSET S : Sum(f, s) # Cardinality(s)}
<1>1. SUFFICES ASSUME T # {} PROVE FALSE
  OBVIOUS
<1>2. PICK s \in T : \A t \in SUBSET s : t # s => t \notin T
  <2> HIDE DEF T
  <2>1. T \subseteq SUBSET S
    BY DEF T
  <2> QED BY <1>1, <2>1, SmallestSubset
<1>3. IsFiniteSet(s) /\ s \subseteq S
  BY FS_Subset
<1>4. Sum(f, s) = IF s = {} THEN 0 ELSE f[Pick(s)] + Sum(f, Rest(s))
  BY <1>3, SumStep
<1>5. s # {}
  BY <1>4, FS_EmptySet
<1>6. Pick(s) \in s /\ Rest(s) \in SUBSET s /\ Rest(s) # s
  BY <1>5, PickRest
<1>7. Sum(f, Rest(s)) = Cardinality(Rest(s)) /\ f[Pick(s)] = 1
  BY <1>2, <1>3, <1>6
<1>8. Cardinality(Rest(s)) = Cardinality(s) - 1 /\ Cardinality(s) \in Nat
  BY <1>3, <1>6, FS_RemoveElement, FS_CardinalityType DEF Rest
<1> QED BY <1>4, <1>5, <1>7, <1>8
=============================================================================
