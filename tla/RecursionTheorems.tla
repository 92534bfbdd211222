---------------------------- MODULE RecursionTheorems ----------------------------
(***************************************************************************)
(* What recursive definitions of the models compute, for all data: the laws *)
(* of SumFunctionOnSet, in which the models count the bytes of a cache and  *)
(* the totals of a day, and what Simplified keeps of an outline.            *)
(*                                                                          *)
(* The community module defines the sum by a recursive function on the      *)
(* subsets of a finite set, Simplified is one on the spans of a sequence.   *)
(* The provers cannot use an induction rule that has an operator for a      *)
(* parameter: every law is proved by looking at a smallest set that would   *)
(* break it, or by induction over an interval, on a set.                    *)
(***************************************************************************)
EXTENDS Simplification, Integers, FiniteSets, Functions, FiniteSetTheorems, TLAPS

-----------------------------------------------------------------------------
(* Sums *)

Some(s) == CHOOSE x \in s : TRUE

\* g is the recursive function of MapThenFoldSet on the subsets of S.
Adds(f, S, g) ==
  g = [s \in SUBSET S |-> IF s = {} THEN 0 ELSE f[Some(s)] + g[s \ {Some(s)}]]

LEMMA SumUnfolds == ASSUME NEW f, NEW S
                    PROVE  SumFunctionOnSet(f, S) = (CHOOSE g : Adds(f, S, g))[S]
BY DEF SumFunctionOnSet, FoldFunctionOnSet, MapThenFoldSet, Adds, Some

LEMMA SomeIsMember == ASSUME NEW s, s # {} PROVE Some(s) \in s
BY DEF Some

\* Every set of subsets of a finite set has a member of which no other is a subset.
LEMMA SmallestSubset ==
  ASSUME NEW S, IsFiniteSet(S), NEW T, T \subseteq SUBSET S, T # {}
  PROVE  \E m \in T : \A t \in SUBSET m : t \in T => t = m
<1>1. FiniteSubsetsOf(S) = SUBSET S
  BY FS_FiniteSubsetsOfFinite
<1>2. PICK m \in T : \A t \in T : <<t, m>> \notin StrictSubsetOrdering(S)
  BY <1>1, WFMin, FS_StrictSubsetOrderingWellFounded
<1>3. ASSUME NEW t \in SUBSET m, t \in T PROVE t = m
  BY <1>2, <1>3 DEF StrictSubsetOrdering
<1> QED BY <1>3

\* Two such functions agree on the sets both are defined on.
LEMMA AddsAgree ==
  ASSUME NEW f, NEW h, NEW S, IsFiniteSet(S), NEW A, NEW B, NEW g1, NEW g2,
         S \subseteq A, S \subseteq B, Adds(f, A, g1), Adds(h, B, g2),
         \A x \in S : f[x] = h[x]
  PROVE  g1[S] = g2[S]
<1> SUFFICES ASSUME g1[S] # g2[S] PROVE FALSE
  OBVIOUS
<1> DEFINE T == {s \in SUBSET S : g1[s] # g2[s]}
<1>1. PICK m \in T : \A t \in SUBSET m : t \in T => t = m
  <2>1. S \in T /\ T \subseteq SUBSET S
    OBVIOUS
  <2> HIDE DEF T
  <2> QED BY <2>1, SmallestSubset
<1>2. m \in SUBSET A /\ m \in SUBSET B /\ g1[m] # g2[m] /\ m \subseteq S
  OBVIOUS
<1>3. g1[m] = IF m = {} THEN 0 ELSE f[Some(m)] + g1[m \ {Some(m)}]
  BY <1>2 DEF Adds
<1>4. g2[m] = IF m = {} THEN 0 ELSE h[Some(m)] + g2[m \ {Some(m)}]
  BY <1>2 DEF Adds
<1>5. m # {}
  BY <1>2, <1>3, <1>4
<1>6. Some(m) \in m
  BY <1>5, SomeIsMember
<1>7. f[Some(m)] = h[Some(m)] /\ g1[m \ {Some(m)}] = g2[m \ {Some(m)}]
  BY <1>1, <1>2, <1>6
<1> QED BY <1>2, <1>3, <1>4, <1>5, <1>7

LEMMA AddsExists == ASSUME NEW f, NEW S, IsFiniteSet(S) PROVE \E g : Adds(f, S, g)
<1> SUFFICES ASSUME ~ \E g : Adds(f, S, g) PROVE FALSE
  OBVIOUS
<1> DEFINE T == {s \in SUBSET S : ~ \E g : Adds(f, s, g)}
<1>1. PICK m \in T : \A t \in SUBSET m : t \in T => t = m
  <2>1. S \in T /\ T \subseteq SUBSET S
    OBVIOUS
  <2> HIDE DEF T
  <2> QED BY <2>1, SmallestSubset
<1>2. m \subseteq S /\ ~ \E g : Adds(f, m, g)
  OBVIOUS
<1> DEFINE G(s) == CHOOSE g : Adds(f, s, g)
           rest(s) == s \ {Some(s)}
           h == [s \in SUBSET m |-> IF s = {} THEN 0 ELSE f[Some(s)] + G(rest(s))[rest(s)]]
<1>3. ASSUME NEW s \in SUBSET m, s # m PROVE Adds(f, s, G(s))
  <2>1. s \notin T /\ s \in SUBSET S
    BY <1>1, <1>2, <1>3
  <2> QED BY <2>1
<1>4. ASSUME NEW s \in SUBSET m, s # {}, rest(s) # {}
      PROVE  h[rest(s)] = G(rest(s))[rest(s)]
  <2> DEFINE r == rest(s)
  <2>1. Some(s) \in s /\ Some(r) \in r
    BY <1>4, SomeIsMember
  <2>2. r \in SUBSET m /\ r # m /\ rest(r) \in SUBSET m /\ rest(r) # m /\ rest(r) \subseteq r
    BY <2>1
  <2>3. Adds(f, r, G(r)) /\ Adds(f, rest(r), G(rest(r)))
    BY <2>2, <1>3
  <2>4. IsFiniteSet(rest(r))
    BY <2>2, <1>2, FS_Subset
  <2>5. G(r)[rest(r)] = G(rest(r))[rest(r)]
    <3> HIDE DEF G, rest, r
    <3> QED BY <2>2, <2>3, <2>4, AddsAgree
  <2>6. r # {} /\ r \in SUBSET r
    BY <1>4
  <2>7. G(r)[r] = f[Some(r)] + G(r)[rest(r)]
    <3> HIDE DEF G
    <3> QED BY <2>3, <2>6 DEF Adds
  <2>8. h[r] = f[Some(r)] + G(rest(r))[rest(r)]
    <3> HIDE DEF G
    <3> QED BY <2>2, <2>6
  <2> QED BY <2>5, <2>7, <2>8
<1>5. ASSUME NEW s \in SUBSET m, s # {} PROVE h[rest(s)] = G(rest(s))[rest(s)]
  <2>1. CASE rest(s) # {}
    BY <2>1, <1>4, <1>5
  <2>2. CASE rest(s) = {}
    <3>1. Some(s) \in s /\ rest(s) # m
      BY <1>5, <2>2, SomeIsMember
    <3>2. Adds(f, {}, G({}))
      BY <2>2, <3>1, <1>3
    <3>3. G({})[{}] = 0
      <4> HIDE DEF G
      <4> QED BY <3>2 DEF Adds
    <3>4. h[{}] = 0
      OBVIOUS
    <3> QED BY <3>3, <3>4, <2>2
  <2> QED BY <2>1, <2>2
<1>6. Adds(f, m, h)
  <2>1. h = [s \in SUBSET m |-> IF s = {} THEN 0 ELSE f[Some(s)] + h[rest(s)]]
    <3>1. \A s \in SUBSET m : s # {} => h[rest(s)] = G(rest(s))[rest(s)]
      BY <1>5
    <3> HIDE DEF G, rest
    <3> QED BY <3>1
  <2> QED BY <2>1 DEF Adds
<1> QED BY <1>2, <1>6

\* The laws.

LEMMA SumEmpty == ASSUME NEW f PROVE SumFunctionOnSet(f, {}) = 0
<1>1. IsFiniteSet({})
  BY FS_EmptySet
<1>2. Adds(f, {}, CHOOSE g : Adds(f, {}, g))
  BY <1>1, AddsExists
<1>3. SumFunctionOnSet(f, {}) = (CHOOSE g : Adds(f, {}, g))[{}]
  BY SumUnfolds
<1> DEFINE g0 == CHOOSE g : Adds(f, {}, g)
<1> HIDE DEF g0
<1>4. g0[{}] = 0
  BY <1>2 DEF Adds, g0
<1> QED BY <1>3, <1>4 DEF g0

\* The sum depends on the values of the function on the set only.
LEMMA SumCongruence ==
  ASSUME NEW f, NEW h, NEW S, IsFiniteSet(S), \A x \in S : f[x] = h[x]
  PROVE  SumFunctionOnSet(f, S) = SumFunctionOnSet(h, S)
<1> DEFINE g1 == CHOOSE g : Adds(f, S, g)
           g2 == CHOOSE g : Adds(h, S, g)
<1>1. Adds(f, S, g1) /\ Adds(h, S, g2)
  BY AddsExists
<1>2. SumFunctionOnSet(f, S) = g1[S] /\ SumFunctionOnSet(h, S) = g2[S]
  BY SumUnfolds
<1> HIDE DEF g1, g2
<1>3. g1[S] = g2[S]
  BY <1>1, AddsAgree
<1> QED BY <1>2, <1>3

\* The sum takes one element, whichever CHOOSE gives, and goes on with the rest.
LEMMA SumOfSome ==
  ASSUME NEW f, NEW S, IsFiniteSet(S), S # {}
  PROVE  SumFunctionOnSet(f, S) = f[Some(S)] + SumFunctionOnSet(f, S \ {Some(S)})
<1> DEFINE r == S \ {Some(S)}
           g1 == CHOOSE g : Adds(f, S, g)
           g2 == CHOOSE g : Adds(f, r, g)
<1>1. IsFiniteSet(r)
  BY FS_Subset
<1>2. Adds(f, S, g1) /\ Adds(f, r, g2)
  BY <1>1, AddsExists
<1>3. SumFunctionOnSet(f, S) = g1[S] /\ SumFunctionOnSet(f, r) = g2[r]
  BY SumUnfolds
<1> HIDE DEF g1, g2
<1>4. g1[r] = g2[r]
  <2>1. r \subseteq S /\ r \subseteq r
    OBVIOUS
  <2> HIDE DEF r
  <2> QED BY <1>1, <1>2, <2>1, AddsAgree
<1>5. g1[S] = f[Some(S)] + g1[r]
  <2>1. S \in SUBSET S
    OBVIOUS
  <2> QED BY <1>2, <2>1 DEF Adds
<1> QED BY <1>3, <1>4, <1>5

LEMMA SumType ==
  ASSUME NEW f, NEW S, IsFiniteSet(S), \A x \in S : f[x] \in Int
  PROVE  SumFunctionOnSet(f, S) \in Int
<1> SUFFICES ASSUME SumFunctionOnSet(f, S) \notin Int PROVE FALSE
  OBVIOUS
<1> DEFINE T == {s \in SUBSET S : SumFunctionOnSet(f, s) \notin Int}
<1>1. PICK m \in T : \A t \in SUBSET m : t \in T => t = m
  <2>1. S \in T /\ T \subseteq SUBSET S
    OBVIOUS
  <2> HIDE DEF T
  <2> QED BY <2>1, SmallestSubset
<1>2. m # {}
  BY SumEmpty
<1>3. Some(m) \in m /\ IsFiniteSet(m)
  BY <1>2, SomeIsMember, FS_Subset
<1>4. SumFunctionOnSet(f, m \ {Some(m)}) \in Int
  BY <1>1, <1>3
<1>5. SumFunctionOnSet(f, m) = f[Some(m)] + SumFunctionOnSet(f, m \ {Some(m)})
  BY <1>2, <1>3, SumOfSome
<1> QED BY <1>3, <1>4, <1>5

\* Any element may be taken first.
LEMMA SumOfMember ==
  ASSUME NEW f, NEW S, IsFiniteSet(S), \A x \in S : f[x] \in Int, NEW a \in S
  PROVE  SumFunctionOnSet(f, S) = f[a] + SumFunctionOnSet(f, S \ {a})
<1> DEFINE Sigma(s) == SumFunctionOnSet(f, s)
           Law(s) == \A x \in s : Sigma(s) = f[x] + Sigma(s \ {x})
           T == {s \in SUBSET S : ~ Law(s)}
<1> SUFFICES ASSUME ~ Law(S) PROVE FALSE
  OBVIOUS
<1>1. PICK m \in T : \A t \in SUBSET m : t \in T => t = m
  <2>1. S \in T /\ T \subseteq SUBSET S
    OBVIOUS
  <2> HIDE DEF T
  <2> QED BY <2>1, SmallestSubset
<1>2. m \subseteq S /\ ~ Law(m)
  OBVIOUS
<1>3. PICK x \in m : Sigma(m) # f[x] + Sigma(m \ {x})
  BY <1>2
<1> DEFINE c == Some(m)
<1>4. c \in m
  BY <1>3, SomeIsMember
<1>5. \A s \in SUBSET m : IsFiniteSet(s) /\ Sigma(s) \in Int
  BY <1>2, FS_Subset, SumType
<1>6. Sigma(m) = f[c] + Sigma(m \ {c})
  BY <1>4, <1>5, SumOfSome
<1>7. x # c
  BY <1>3, <1>6
<1>8. Law(m \ {c}) /\ Law(m \ {x})
  BY <1>1, <1>2, <1>3, <1>4
<1> DEFINE both == Sigma((m \ {x}) \ {c})
<1>9. Sigma(m \ {c}) = f[x] + both
  <2>1. (m \ {c}) \ {x} = (m \ {x}) \ {c}
    OBVIOUS
  <2>2. Sigma(m \ {c}) = f[x] + Sigma((m \ {c}) \ {x})
    BY <1>3, <1>7, <1>8
  <2> QED BY <2>1, <2>2
<1>10. Sigma(m \ {x}) = f[c] + both
  BY <1>4, <1>7, <1>8
<1>11. f[x] \in Int /\ f[c] \in Int /\ both \in Int
  <2>1. x \in S /\ c \in S
    BY <1>2, <1>3, <1>4
  <2>2. both \in Int
    BY <1>5
  <2> QED BY <2>1, <2>2
<1> HIDE DEF Sigma, both, c
<1> QED BY <1>3, <1>6, <1>9, <1>10, <1>11

\* What changes at one element changes the sum by as much.
LEMMA SumUpdate ==
  ASSUME NEW f, NEW h, NEW S, IsFiniteSet(S), NEW a \in S,
         \A x \in S : f[x] \in Int /\ h[x] \in Int, \A x \in S : x # a => h[x] = f[x]
  PROVE  SumFunctionOnSet(h, S) = SumFunctionOnSet(f, S) - f[a] + h[a]
<1>1. IsFiniteSet(S \ {a})
  BY FS_Subset
<1>2. SumFunctionOnSet(h, S \ {a}) = SumFunctionOnSet(f, S \ {a})
  BY <1>1, SumCongruence
<1>3. /\ SumFunctionOnSet(f, S) = f[a] + SumFunctionOnSet(f, S \ {a})
      /\ SumFunctionOnSet(h, S) = h[a] + SumFunctionOnSet(h, S \ {a})
  BY SumOfMember
<1>4. SumFunctionOnSet(f, S \ {a}) \in Int
  BY <1>1, SumType
<1> QED BY <1>2, <1>3, <1>4

\* A set and the rest of a larger one.
LEMMA SumOfDifference ==
  ASSUME NEW f, NEW S, IsFiniteSet(S), \A x \in S : f[x] \in Int, NEW A \in SUBSET S
  PROVE  SumFunctionOnSet(f, S \ A) = SumFunctionOnSet(f, S) - SumFunctionOnSet(f, A)
<1> DEFINE Sigma(s) == SumFunctionOnSet(f, s)
           T == {s \in SUBSET S : Sigma(S \ s) # Sigma(S) - Sigma(s)}
<1> SUFFICES ASSUME A \in T PROVE FALSE
  OBVIOUS
<1>1. PICK m \in T : \A t \in SUBSET m : t \in T => t = m
  <2>1. T # {} /\ T \subseteq SUBSET S
    OBVIOUS
  <2> HIDE DEF T
  <2> QED BY <2>1, SmallestSubset
<1>2. m \subseteq S /\ Sigma(S \ m) # Sigma(S) - Sigma(m)
  OBVIOUS
<1>3. \A s \in SUBSET S : IsFiniteSet(s) /\ Sigma(s) \in Int
  BY FS_Subset, SumType
<1>4. m # {}
  <2>1. S \ {} = S /\ Sigma({}) = 0
    BY SumEmpty
  <2>2. Sigma(S) \in Int
    BY SumType
  <2>3. Sigma(S \ {}) = Sigma(S) - Sigma({})
    <3> HIDE DEF Sigma
    <3> QED BY <2>1, <2>2
  <2> QED BY <2>3, <1>2
<1>5. PICK x : x \in m
  BY <1>4
<1> DEFINE r == m \ {x}
<1>6. Sigma(S \ r) = Sigma(S) - Sigma(r)
  BY <1>1, <1>2, <1>5
<1>7. Sigma(m) = f[x] + Sigma(r)
  BY <1>2, <1>3, <1>5, SumOfMember
<1>8. Sigma(S \ r) = f[x] + Sigma(S \ m)
  <2>1. x \in S \ r /\ (S \ r) \ {x} = S \ m
    BY <1>2, <1>5
  <2>2. IsFiniteSet(S \ r) /\ \A y \in S \ r : f[y] \in Int
    BY FS_Subset
  <2>3. Sigma(S \ r) = f[x] + Sigma((S \ r) \ {x})
    BY <2>1, <2>2, SumOfMember
  <2> QED BY <2>1, <2>3
<1>9. /\ f[x] \in Int /\ Sigma(S) \in Int /\ Sigma(m) \in Int
       /\ Sigma(r) \in Int /\ Sigma(S \ m) \in Int
  <2>1. r \in SUBSET S /\ S \ m \in SUBSET S /\ x \in S /\ m \in SUBSET S
    BY <1>2, <1>5
  <2> QED BY <2>1, <1>3
<1> HIDE DEF Sigma, r, T
<1> QED BY <1>2, <1>6, <1>7, <1>8, <1>9

LEMMA SumIsNat ==
  ASSUME NEW f, NEW S, IsFiniteSet(S), \A x \in S : f[x] \in Nat
  PROVE  SumFunctionOnSet(f, S) \in Nat
<1> SUFFICES ASSUME SumFunctionOnSet(f, S) \notin Nat PROVE FALSE
  OBVIOUS
<1> DEFINE T == {s \in SUBSET S : SumFunctionOnSet(f, s) \notin Nat}
<1>1. PICK m \in T : \A t \in SUBSET m : t \in T => t = m
  <2>1. S \in T /\ T \subseteq SUBSET S
    OBVIOUS
  <2> HIDE DEF T
  <2> QED BY <2>1, SmallestSubset
<1>2. m # {}
  BY SumEmpty
<1>3. Some(m) \in m /\ IsFiniteSet(m)
  BY <1>2, SomeIsMember, FS_Subset
<1>4. SumFunctionOnSet(f, m \ {Some(m)}) \in Nat
  BY <1>1, <1>3
<1>5. SumFunctionOnSet(f, m) = f[Some(m)] + SumFunctionOnSet(f, m \ {Some(m)})
  BY <1>2, <1>3, SumOfSome
<1> QED BY <1>3, <1>4, <1>5

LEMMA SumIsMonotone ==
  ASSUME NEW f, NEW S, IsFiniteSet(S), \A x \in S : f[x] \in Nat, NEW A \in SUBSET S
  PROVE  SumFunctionOnSet(f, A) <= SumFunctionOnSet(f, S)
<1>1. IsFiniteSet(A) /\ IsFiniteSet(S \ A)
  BY FS_Subset
<1>2. SumFunctionOnSet(f, S \ A) = SumFunctionOnSet(f, S) - SumFunctionOnSet(f, A)
  BY SumOfDifference
<1>3. SumFunctionOnSet(f, S) \in Nat /\ SumFunctionOnSet(f, A) \in Nat /\ SumFunctionOnSet(f, S \ A) \in Nat
  BY <1>1, SumIsNat
<1> QED BY <1>2, <1>3

LEMMA CardinalityOfRest ==
  ASSUME NEW S, IsFiniteSet(S), NEW A \in SUBSET S
  PROVE  /\ IsFiniteSet(A) /\ IsFiniteSet(S \ A)
         /\ Cardinality(S \ A) \in Nat /\ Cardinality(S) \in Nat /\ Cardinality(A) \in Nat
         /\ Cardinality(S \ A) = Cardinality(S) - Cardinality(A)
<1>1. S \cap A = A
  OBVIOUS
<1>2. IsFiniteSet(A) /\ IsFiniteSet(S \ A)
  BY FS_Subset
<1>3. Cardinality(S \ A) = Cardinality(S) - Cardinality(S \cap A)
  BY FS_Difference
<1> QED BY <1>1, <1>2, <1>3, FS_CardinalityType

LEMMA SumOfZeros ==
  ASSUME NEW f, NEW S, IsFiniteSet(S), \A x \in S : f[x] = 0
  PROVE  SumFunctionOnSet(f, S) = 0
<1> SUFFICES ASSUME SumFunctionOnSet(f, S) # 0 PROVE FALSE
  OBVIOUS
<1> DEFINE T == {s \in SUBSET S : SumFunctionOnSet(f, s) # 0}
<1>1. PICK m \in T : \A t \in SUBSET m : t \in T => t = m
  <2>1. S \in T /\ T \subseteq SUBSET S
    OBVIOUS
  <2> HIDE DEF T
  <2> QED BY <2>1, SmallestSubset
<1>2. m # {}
  BY SumEmpty
<1>3. Some(m) \in m /\ IsFiniteSet(m)
  BY <1>2, SomeIsMember, FS_Subset
<1>4. SumFunctionOnSet(f, m \ {Some(m)}) = 0
  BY <1>1, <1>3
<1>5. SumFunctionOnSet(f, m) = f[Some(m)] + SumFunctionOnSet(f, m \ {Some(m)})
  BY <1>2, <1>3, SumOfSome
<1> QED BY <1>3, <1>4, <1>5

\* What is zero adds nothing.
LEMMA SumOfSupport ==
  ASSUME NEW f, NEW S, IsFiniteSet(S), NEW A \in SUBSET S,
         \A x \in S : f[x] \in Int, \A x \in S \ A : f[x] = 0
  PROVE  SumFunctionOnSet(f, S) = SumFunctionOnSet(f, A)
<1>1. SumFunctionOnSet(f, S \ A) = SumFunctionOnSet(f, S) - SumFunctionOnSet(f, A)
  BY SumOfDifference
<1>2. IsFiniteSet(A) /\ IsFiniteSet(S \ A)
  BY FS_Subset
<1>3. SumFunctionOnSet(f, S \ A) = 0
  BY <1>2, SumOfZeros
<1>4. SumFunctionOnSet(f, S) \in Int /\ SumFunctionOnSet(f, A) \in Int
  BY <1>2, SumType
<1> QED BY <1>1, <1>3, <1>4

\* The sizes of disjoint parts of a finite set add up to the number of their elements.
LEMMA SumOfParts ==
  ASSUME NEW S, IsFiniteSet(S), NEW U, IsFiniteSet(U), NEW part, NEW f,
         \A x \in S : part[x] \in SUBSET U /\ f[x] = Cardinality(part[x]),
         \A x, y \in S : x # y => part[x] \cap part[y] = {}
  PROVE  SumFunctionOnSet(f, S) = Cardinality(UNION {part[x] : x \in S})
<1> DEFINE All(s) == UNION {part[x] : x \in s}
           T == {s \in SUBSET S : SumFunctionOnSet(f, s) # Cardinality(All(s))}
<1> SUFFICES ASSUME S \in T PROVE FALSE
  OBVIOUS
<1>1. PICK m \in T : \A t \in SUBSET m : t \in T => t = m
  <2>1. T # {} /\ T \subseteq SUBSET S
    OBVIOUS
  <2> HIDE DEF T
  <2> QED BY <2>1, SmallestSubset
<1>2. m # {}
  <2>1. All({}) = {}
    OBVIOUS
  <2>2. Cardinality(All({})) = 0
    BY <2>1, FS_EmptySet
  <2> QED BY <2>2, SumEmpty
<1> DEFINE a == Some(m)
           r == m \ {a}
<1>3. a \in m /\ IsFiniteSet(m)
  BY <1>2, SomeIsMember, FS_Subset
<1>4. SumFunctionOnSet(f, m) = f[a] + SumFunctionOnSet(f, r)
  BY <1>2, <1>3, SumOfSome
<1> HIDE DEF a
<1>5. SumFunctionOnSet(f, r) = Cardinality(All(r))
  BY <1>1, <1>3
<1>6. All(m) \in SUBSET U /\ part[a] \in SUBSET All(m) /\ All(m) \ part[a] = All(r)
  BY <1>3
<1>7. IsFiniteSet(All(m))
  BY <1>6, FS_Subset
<1>8. f[a] = Cardinality(part[a])
  BY <1>3
<1> HIDE DEF All, r
<1>9. /\ Cardinality(All(r)) = Cardinality(All(m)) - Cardinality(part[a])
      /\ Cardinality(All(m)) \in Nat /\ Cardinality(part[a]) \in Nat
  BY <1>6, <1>7, CardinalityOfRest
<1>10. SumFunctionOnSet(f, m) = Cardinality(All(m))
  BY <1>4, <1>5, <1>8, <1>9
<1> QED BY <1>1, <1>10

-----------------------------------------------------------------------------
(* Induction over an interval *)

LEMMA LeastOfInterval ==
  ASSUME NEW n \in Nat, NEW T, T \subseteq 0 .. n, T # {}
  PROVE  \E m \in T : \A i \in T : m <= i
<1> DEFINE F == {1 .. i : i \in T}
           N == 1 .. n
<1>1. IsFiniteSet(N)
  BY FS_Interval
<1>2. PICK u \in F : \A t \in SUBSET u : t \in F => t = u
  <2>1. \A i \in T : 1 .. i \subseteq N
    OBVIOUS
  <2>2. F \subseteq SUBSET N
    <3> HIDE DEF N
    <3> QED BY <2>1
  <2>3. F # {}
    <3>1. PICK i : i \in T
      OBVIOUS
    <3>2. 1 .. i \in F
      BY <3>1
    <3> QED BY <3>2
  <2> HIDE DEF F, N
  <2> QED BY <1>1, <2>2, <2>3, SmallestSubset
<1>3. PICK m \in T : u = 1 .. m
  OBVIOUS
<1>4. ASSUME NEW i \in T, i < m PROVE FALSE
  <2>1. i \in Nat /\ m \in Nat
    OBVIOUS
  <2>2. 1 .. i \in F /\ 1 .. i \in SUBSET u
    BY <1>3, <1>4, <2>1
  <2>3. 1 .. i = 1 .. m
    BY <1>2, <1>3, <2>2
  <2>4. m \in 1 .. m /\ m \notin 1 .. i
    BY <1>4, <2>1
  <2> QED BY <2>3, <2>4
<1> QED BY <1>4

LEMMA GreatestOfInterval ==
  ASSUME NEW n \in Nat, NEW T, T \subseteq 0 .. n, T # {}
  PROVE  \E m \in T : \A i \in T : i <= m
<1> DEFINE R == {n - i : i \in T}
<1>1. R \subseteq 0 .. n /\ R # {}
  OBVIOUS
<1>2. PICK r \in R : \A i \in R : r <= i
  <2> HIDE DEF R
  <2> QED BY <1>1, LeastOfInterval
<1>3. PICK m \in T : r = n - m
  OBVIOUS
<1>4. ASSUME NEW i \in T PROVE i <= m
  <2>1. n - i \in R
    OBVIOUS
  <2>2. r <= n - i
    BY <2>1, <1>2
  <2> QED BY <2>2, <1>3
<1> QED BY <1>4

LEMMA IntervalInduction ==
  ASSUME NEW n \in Nat, NEW T, 0 \in T, \A i \in 0 .. (n - 1) : i \in T => i + 1 \in T
  PROVE  \A i \in 0 .. n : i \in T
<1> SUFFICES ASSUME NEW a \in 0 .. n, a \notin T PROVE FALSE
  OBVIOUS
<1> DEFINE Bad == {i \in 0 .. n : i \notin T}
<1>1. PICK m \in Bad : \A i \in Bad : m <= i
  <2>1. Bad \subseteq 0 .. n /\ Bad # {}
    OBVIOUS
  <2> HIDE DEF Bad
  <2> QED BY <2>1, LeastOfInterval
<1>2. m # 0 /\ m - 1 \in 0 .. (n - 1)
  OBVIOUS
<1>3. m - 1 \in T
  BY <1>1, <1>2
<1>4. (m - 1) + 1 \in T
  BY <1>2, <1>3
<1> QED BY <1>2, <1>4

-----------------------------------------------------------------------------
(* Simplification of a chain of points *)

Points == Int \X Int

\* A function of integers has a greatest value on an interval, and a first place of it.
LEMMA FirstGreatest ==
  ASSUME NEW low \in Int, NEW n \in Nat, NEW d, \A i \in low .. low + n : d[i] \in Int
  PROVE  \E i \in low .. low + n : \A j \in low .. low + n : d[i] > d[j] \/ (d[i] = d[j] /\ i <= j)
<1> DEFINE First(m, i) == \A j \in low .. low + m : d[i] > d[j] \/ (d[i] = d[j] /\ i <= j)
           T == {m \in 0 .. n : \E i \in low .. low + m : First(m, i)}
<1>1. 0 \in T
  OBVIOUS
<1>2. ASSUME NEW m \in 0 .. (n - 1), m \in T PROVE m + 1 \in T
  <2>1. PICK i \in low .. low + m : First(m, i)
    BY <1>2
  <2> DEFINE new == low + (m + 1)
  <2>2. /\ new \in low .. low + n /\ i \in low .. low + n /\ i <= new /\ m + 1 \in 0 .. n
        /\ \A j \in low .. new : j \in low .. low + m \/ j = new
        /\ d[new] \in Int /\ \A j \in low .. low + m : d[j] \in Int
    OBVIOUS
  <2>3. CASE d[new] > d[i]
    <3>1. First(m + 1, new)
      BY <2>1, <2>2, <2>3
    <3> QED BY <2>2, <3>1
  <2>4. CASE ~ (d[new] > d[i])
    <3>1. First(m + 1, i)
      BY <2>1, <2>2, <2>4
    <3> QED BY <2>2, <3>1
  <2> QED BY <2>3, <2>4
<1>3. n \in T
  <2> HIDE DEF T
  <2> QED BY <1>1, <1>2, IntervalInduction
<1> QED BY <1>3

LEMMA DistancesAreIntegers ==
  ASSUME NEW p \in Points, NEW a \in Points, NEW b \in Points
  PROVE  /\ Along(p, a, b) \in Int /\ Across(p, a, b) \in Int /\ SquareOf(a, b) \in Int
         /\ Length(a, b) \in Int /\ SegmentDistance(p, a, b) \in Int
<1>1. /\ Lon(p) \in Int /\ Lat(p) \in Int /\ Lon(a) \in Int /\ Lat(a) \in Int
      /\ Lon(b) \in Int /\ Lat(b) \in Int
  BY DEF Points, Lon, Lat
<1>2. Along(p, a, b) \in Int /\ Across(p, a, b) \in Int /\ SquareOf(a, b) \in Int
      /\ SquareOf(p, a) \in Int /\ SquareOf(p, b) \in Int
  BY <1>1 DEF Along, Across, SquareOf
<1>3. Length(a, b) \in Int
  BY <1>2 DEF Length
<1> QED BY <1>2, <1>3 DEF SegmentDistance

LEMMA SegmentsHaveLength ==
  ASSUME NEW a \in Points, NEW b \in Points
  PROVE  Length(a, b) >= 1 /\ SquareOf(a, a) = 0 /\ (a # b => Length(a, b) = SquareOf(a, b))
<1> DEFINE x == Lon(a) - Lon(b)
           y == Lat(a) - Lat(b)
<1>1. x \in Int /\ y \in Int /\ (a # b => x # 0 \/ y # 0)
  BY DEF Points, Lon, Lat
<1>2. SquareOf(a, b) = x * x + y * y
  BY DEF SquareOf, Along
<1>3. SquareOf(a, a) = 0
  BY DEF SquareOf, Along, Lon, Lat, Points
<1> HIDE DEF x, y
<1>4. ASSUME NEW n \in Int PROVE n * n >= 0 /\ (n # 0 => n * n >= 1)
  OBVIOUS
<1>5. a # b => SquareOf(a, b) >= 1
  <2>1. /\ x * x \in Int /\ y * y \in Int /\ x * x >= 0 /\ y * y >= 0
        /\ (x # 0 => x * x >= 1) /\ (y # 0 => y * y >= 1)
    BY <1>1, <1>4
  <2> QED BY <1>1, <1>2, <2>1
<1> QED BY <1>3, <1>5 DEF Length

LEMMA Cancelled ==
  ASSUME NEW m \in Int, NEW n \in Int, NEW f \in Int, f >= 1, m * f <= n * f
  PROVE  m <= n
OBVIOUS

\* A point that the comparison of the code admits is close to the segment.
LEMMA WithinIsNear ==
  ASSUME NEW p \in Points, NEW a \in Points, NEW b \in Points, NEW t \in Nat,
         SegmentDistance(p, a, b) <= t * Length(a, b)
  PROVE  NearSegment(p, a, b, t)
<1>1. /\ Along(p, a, b) \in Int /\ Across(p, a, b) \in Int /\ SquareOf(a, b) \in Int
      /\ SquareOf(p, a) \in Int /\ SquareOf(p, b) \in Int /\ Length(a, b) \in Int /\ Length(a, b) >= 1
  BY DistancesAreIntegers, SegmentsHaveLength
<1>2. CASE Along(p, a, b) > Length(a, b)
  <2>1. SquareOf(p, b) * Length(a, b) <= t * Length(a, b)
    BY <1>2 DEF SegmentDistance
  <2>2. SquareOf(p, b) <= t
    BY <1>1, <2>1, Cancelled
  <2> QED BY <2>2 DEF NearSegment
<1>3. CASE ~ (Along(p, a, b) > Length(a, b)) /\ a # b /\ Along(p, a, b) > 0
  <2>1. Across(p, a, b) * Across(p, a, b) <= t * Length(a, b) /\ Length(a, b) = SquareOf(a, b)
    BY <1>3, SegmentsHaveLength DEF SegmentDistance
  <2>2. 0 <= Along(p, a, b) /\ Along(p, a, b) <= SquareOf(a, b)
    BY <1>1, <1>3, <2>1
  <2> QED BY <2>1, <2>2 DEF NearSegment
<1>4. CASE ~ (Along(p, a, b) > Length(a, b)) /\ ~ (a # b /\ Along(p, a, b) > 0)
  <2>1. SquareOf(p, a) * Length(a, b) <= t * Length(a, b)
    BY <1>4 DEF SegmentDistance
  <2>2. SquareOf(p, a) <= t
    BY <1>1, <2>1, Cancelled
  <2> QED BY <2>2 DEF NearSegment
<1> QED BY <1>2, <1>3, <1>4

\* A chain that no single segment replaces has a farthest point between its ends.
LEMMA FarthestIsBetween ==
  ASSUME NEW s \in Seq(Points), NEW first \in DOMAIN s, NEW last \in DOMAIN s, NEW t \in Nat,
         ~ Replaceable(s, first, last, t)
  PROVE  Farthest(s, first, last) \in first + 1 .. last - 1
<1> DEFINE between == first + 1 .. last - 1
           d == [i \in between |-> SegmentDistance(s[i], s[first], s[last])]
<1>1. first \in Nat /\ last \in Nat /\ DOMAIN s = 1 .. Len(s) /\ \A i \in DOMAIN s : s[i] \in Points
  OBVIOUS
<1>2. PICK i : i \in between
  BY DEF Replaceable
<1>3. last - 1 = (first + 1) + (last - first - 2) /\ last - first - 2 \in Nat /\ first + 1 \in Int
  BY <1>1, <1>2
<1>4. \A j \in between : j \in DOMAIN s
  BY <1>1
<1>5. \A j \in between : d[j] \in Int
  BY <1>1, <1>4, DistancesAreIntegers
<1> HIDE DEF d
<1>6. \E j \in between : \A k \in between : d[j] > d[k] \/ (d[j] = d[k] /\ j <= k)
  BY <1>3, <1>5, FirstGreatest
<1>7. Farthest(s, first, last)
        = CHOOSE j \in between : \A k \in between : d[j] > d[k] \/ (d[j] = d[k] /\ j <= k)
  BY DEF Farthest, d
<1> HIDE DEF between
<1> QED BY <1>6, <1>7 DEF between

Spans(s) == (DOMAIN s) \X (DOMAIN s)

\* What simplify answers for a span, if g says what it answers for shorter ones.
Recurs(s, t, g, span) ==
  IF Replaceable(s, span[1], span[2], t) THEN {span[1], span[2]}
  ELSE g[<<span[1], Farthest(s, span[1], span[2])>>] \cup g[<<Farthest(s, span[1], span[2]), span[2]>>]

Recursion(s, t, g) == g = [span \in Spans(s) |-> Recurs(s, t, g, span)]

LEMMA SimplifiedUnfolds ==
  ASSUME NEW s, NEW t, s # <<>>
  PROVE  Simplified(s, t) = (CHOOSE g : Recursion(s, t, g))[<<1, Len(s)>>]
BY DEF Simplified, Recursion, Recurs, Spans

Span(s, span) == span[2] - span[1]

LEMMA SpansShrink ==
  ASSUME NEW s \in Seq(Points), NEW t \in Nat, NEW span \in Spans(s),
         ~ Replaceable(s, span[1], span[2], t)
  PROVE  LET f == Farthest(s, span[1], span[2]) IN
         /\ f \in DOMAIN s /\ span[1] < f /\ f < span[2]
         /\ <<span[1], f>> \in Spans(s) /\ <<f, span[2]>> \in Spans(s)
         /\ Span(s, <<span[1], f>>) < Span(s, span) /\ Span(s, <<f, span[2]>>) < Span(s, span)
<1>1. span[1] \in DOMAIN s /\ span[2] \in DOMAIN s /\ DOMAIN s = 1 .. Len(s)
  BY DEF Spans
<1>2. Farthest(s, span[1], span[2]) \in span[1] + 1 .. span[2] - 1
  BY <1>1, FarthestIsBetween
<1> DEFINE f == Farthest(s, span[1], span[2])
<1> HIDE DEF f
<1>3. f \in DOMAIN s /\ span[1] < f /\ f < span[2]
  BY <1>1, <1>2 DEF f
<1>4. <<span[1], f>> \in Spans(s) /\ <<f, span[2]>> \in Spans(s)
  BY <1>1, <1>3 DEF Spans
<1>5. Span(s, <<span[1], f>>) < Span(s, span) /\ Span(s, <<f, span[2]>>) < Span(s, span)
  BY <1>1, <1>3 DEF Span
<1> QED BY <1>3, <1>4, <1>5 DEF f

\* Two functions that agree on shorter spans give the same answer.
LEMMA RecursAgree ==
  ASSUME NEW s \in Seq(Points), NEW t \in Nat, NEW g, NEW h, NEW span \in Spans(s),
         \A x \in Spans(s) : Span(s, x) < Span(s, span) => g[x] = h[x]
  PROVE  Recurs(s, t, g, span) = Recurs(s, t, h, span)
<1>1. CASE Replaceable(s, span[1], span[2], t)
  BY <1>1 DEF Recurs
<1>2. CASE ~ Replaceable(s, span[1], span[2], t)
  <2> DEFINE f == Farthest(s, span[1], span[2])
  <2>1. g[<<span[1], f>>] = h[<<span[1], f>>] /\ g[<<f, span[2]>>] = h[<<f, span[2]>>]
    BY <1>2, SpansShrink
  <2> QED BY <2>1 DEF Recurs
<1> QED BY <1>1, <1>2

LEMMA RecursionExists ==
  ASSUME NEW s \in Seq(Points), NEW t \in Nat PROVE \E g : Recursion(s, t, g)
<1> DEFINE Upto(n, g) == \A span \in Spans(s) : Span(s, span) <= n => g[span] = Recurs(s, t, g, span)
           T == {n \in 0 .. Len(s) : \E g : Upto(n, g)}
<1>1. \A span \in Spans(s) : Span(s, span) \in Int /\ Span(s, span) <= Len(s)
  BY DEF Spans, Span
<1>2. ASSUME NEW n \in Int, NEW g, Upto(n, g)
      PROVE  \E h : Upto(n + 1, h)
  <2> DEFINE h == [span \in Spans(s) |->
                     IF Span(s, span) <= n THEN g[span] ELSE Recurs(s, t, g, span)]
  <2>1. \A span \in Spans(s) : Span(s, span) <= n => h[span] = g[span]
    OBVIOUS
  <2>2. ASSUME NEW span \in Spans(s), Span(s, span) <= n + 1
        PROVE  h[span] = Recurs(s, t, h, span)
    <3>1. \A x \in Spans(s) : Span(s, x) < Span(s, span) => g[x] = h[x]
      BY <1>1, <2>1, <2>2
    <3>2. Recurs(s, t, g, span) = Recurs(s, t, h, span)
      BY <3>1, RecursAgree
    <3>3. h[span] = Recurs(s, t, g, span)
      BY <1>2
    <3> QED BY <3>2, <3>3
  <2> QED BY <2>2
<1>3. 0 \in T
  <2> DEFINE none == [span \in Spans(s) |-> {span[1], span[2]}]
  <2>1. ASSUME NEW span \in Spans(s), Span(s, span) <= 0
        PROVE  none[span] = Recurs(s, t, none, span)
    <3>1. Replaceable(s, span[1], span[2], t)
      <4>1. span[1] + 1 .. span[2] - 1 = {}
        BY <2>1 DEF Spans, Span
      <4> QED BY <4>1 DEF Replaceable
    <3> QED BY <3>1 DEF Recurs
  <2>2. Upto(0, none)
    BY <2>1
  <2> HIDE DEF Upto, none
  <2> QED BY <2>2
<1>4. ASSUME NEW n \in 0 .. (Len(s) - 1), n \in T PROVE n + 1 \in T
  <2> HIDE DEF Upto
  <2>1. PICK g : Upto(n, g)
    BY <1>4
  <2>2. \E h : Upto(n + 1, h)
    BY <1>2, <2>1
  <2> QED BY <2>2
<1>5. Len(s) \in T
  <2>1. Len(s) \in Nat
    OBVIOUS
  <2> HIDE DEF T
  <2>2. \A i \in 0 .. Len(s) - 1 : i \in T => i + 1 \in T
    BY <1>4
  <2>3. \A i \in 0 .. Len(s) : i \in T
    BY <1>3, <2>1, <2>2, IntervalInduction
  <2> QED BY <2>1, <2>3
<1>6. PICK g : Upto(Len(s), g)
  BY <1>5
<1> DEFINE h == [span \in Spans(s) |-> Recurs(s, t, g, span)]
<1>7. \A span \in Spans(s) : h[span] = g[span]
  BY <1>1, <1>6
<1>8. \A span \in Spans(s) : Recurs(s, t, g, span) = Recurs(s, t, h, span)
  <2> HIDE DEF h
  <2> QED BY <1>7, RecursAgree
<1>9. h = [span \in Spans(s) |-> Recurs(s, t, h, span)]
  BY <1>8
<1> QED BY <1>9 DEF Recursion

\* What stays of a span: its ends, and neighbours that everything between is close to.
Stays(s, t, kept, first, last) ==
  /\ first \in kept /\ last \in kept /\ kept \subseteq first .. last
  /\ \A i \in first .. last : \E a, b \in first .. last :
       /\ Adjacent(kept, a, b) /\ a <= i /\ i <= b
       /\ NearSegment(s[i], s[a], s[b], t)

LEMMA ReplacedStays ==
  ASSUME NEW s \in Seq(Points), NEW t \in Nat, NEW first \in DOMAIN s, NEW last \in DOMAIN s,
         first <= last, Replaceable(s, first, last, t)
  PROVE  Stays(s, t, {first, last}, first, last)
<1>1. /\ DOMAIN s = 1 .. Len(s) /\ first \in Nat /\ last \in Nat
      /\ \A i \in first .. last : i \in DOMAIN s /\ s[i] \in Points
  OBVIOUS
<1>2. Adjacent({first, last}, first, last) /\ Adjacent({first, last}, first, first)
      /\ Adjacent({first, last}, last, last)
  BY <1>1 DEF Adjacent
<1>3. ASSUME NEW i \in first .. last
      PROVE  \E a, b \in first .. last :
               /\ Adjacent({first, last}, a, b) /\ a <= i /\ i <= b
               /\ NearSegment(s[i], s[a], s[b], t)
  <2>1. CASE i = first \/ i = last
    <3>1. SquareOf(s[i], s[i]) = 0
      BY <1>1, SegmentsHaveLength
    <3>2. NearSegment(s[i], s[i], s[i], t)
      BY <3>1 DEF NearSegment
    <3>3. Adjacent({first, last}, i, i) /\ i <= i
      BY <1>1, <1>2, <2>1
    <3> QED BY <3>2, <3>3
  <2>2. CASE i # first /\ i # last
    <3>1. i \in first + 1 .. last - 1
      BY <1>1, <2>2
    <3>2. SegmentDistance(s[i], s[first], s[last]) <= t * Length(s[first], s[last])
      BY <3>1 DEF Replaceable
    <3>3. s[i] \in Points /\ s[first] \in Points /\ s[last] \in Points
      BY <1>1
    <3>4. NearSegment(s[i], s[first], s[last], t)
      BY <3>2, <3>3, WithinIsNear
    <3>5. first \in first .. last /\ last \in first .. last /\ first <= i /\ i <= last
      BY <1>1
    <3> QED BY <1>2, <3>4, <3>5
  <2> QED BY <2>1, <2>2
<1>4. {first, last} \subseteq first .. last
  BY <1>1
<1> QED BY <1>3, <1>4 DEF Stays

LEMMA JoinedStay ==
  ASSUME NEW s, NEW t, NEW first \in Int, NEW middle \in Int, NEW last \in Int,
         first <= middle, middle <= last, NEW left, NEW right,
         Stays(s, t, left, first, middle), Stays(s, t, right, middle, last)
  PROVE  Stays(s, t, left \cup right, first, last)
<1>1. ASSUME NEW i \in first .. last
      PROVE  \E a, b \in first .. last :
               /\ Adjacent(left \cup right, a, b) /\ a <= i /\ i <= b
               /\ NearSegment(s[i], s[a], s[b], t)
  <2>1. CASE i <= middle
    <3>0. i \in first .. middle
      BY <2>1
    <3>1. PICK a \in first .. middle, b \in first .. middle :
            Adjacent(left, a, b) /\ a <= i /\ i <= b /\ NearSegment(s[i], s[a], s[b], t)
      BY <3>0 DEF Stays
    <3>2. \A k \in right : b <= k
      BY DEF Stays
    <3>3. Adjacent(left \cup right, a, b)
      BY <3>1, <3>2 DEF Adjacent
    <3>4. a \in first .. last /\ b \in first .. last
      OBVIOUS
    <3> QED BY <3>1, <3>3, <3>4
  <2>2. CASE i > middle
    <3>0. i \in middle .. last
      BY <2>2
    <3>1. PICK a \in middle .. last, b \in middle .. last :
            Adjacent(right, a, b) /\ a <= i /\ i <= b /\ NearSegment(s[i], s[a], s[b], t)
      BY <3>0 DEF Stays
    <3>2. \A k \in left : k <= a
      BY DEF Stays
    <3>3. Adjacent(left \cup right, a, b)
      BY <3>1, <3>2 DEF Adjacent
    <3>4. a \in first .. last /\ b \in first .. last
      OBVIOUS
    <3> QED BY <3>1, <3>3, <3>4
  <2> QED BY <2>1, <2>2
<1>2. left \cup right \subseteq first .. last /\ first \in left /\ last \in right
  BY DEF Stays
<1> QED BY <1>1, <1>2 DEF Stays

\* No point of a chain that simplify drops is farther than the tolerance from the segment
\* between its neighbours that stay, and the ends of the chain stay: for every chain, every
\* tolerance and at every depth of the recursion (simplify).
THEOREM SimplificationIsClose ==
  ASSUME NEW s \in Seq(Points), NEW t \in Nat
  PROVE  StaysClose(s, Simplified(s, t), t)
<1> DEFINE g == CHOOSE g : Recursion(s, t, g)
<1>1. Recursion(s, t, g)
  BY RecursionExists
<1> HIDE DEF g
<1>2. \A span \in Spans(s) : g[span] = Recurs(s, t, g, span)
  BY <1>1 DEF Recursion
<1> DEFINE Fine(n) == \A first, last \in DOMAIN s :
                        first <= last /\ last - first <= n
                          => Stays(s, t, g[<<first, last>>], first, last)
           T == {n \in 0 .. Len(s) : Fine(n)}
<1>3. ASSUME NEW first \in DOMAIN s, NEW last \in DOMAIN s, first <= last,
             \A i, j \in DOMAIN s : i <= j /\ j - i < last - first
               => Stays(s, t, g[<<i, j>>], i, j)
      PROVE  Stays(s, t, g[<<first, last>>], first, last)
  <2>1. <<first, last>> \in Spans(s) /\ <<first, last>>[1] = first /\ <<first, last>>[2] = last
    BY DEF Spans
  <2>2. CASE Replaceable(s, first, last, t)
    <3>1. g[<<first, last>>] = {first, last}
      BY <1>2, <2>1, <2>2 DEF Recurs
    <3> QED BY <1>3, <2>2, <3>1, ReplacedStays
  <2>3. CASE ~ Replaceable(s, first, last, t)
    <3> DEFINE f == Farthest(s, first, last)
    <3>1. f \in first + 1 .. last - 1
      BY <2>3, FarthestIsBetween
    <3>2. g[<<first, last>>] = g[<<first, f>>] \cup g[<<f, last>>]
      BY <1>2, <2>1, <2>3 DEF Recurs
    <3> HIDE DEF f
    <3>3. /\ f \in DOMAIN s /\ first <= f /\ f <= last /\ f - first < last - first
          /\ last - f < last - first /\ first \in Int /\ last \in Int /\ f \in Int
      BY <3>1
    <3>4. Stays(s, t, g[<<first, f>>], first, f) /\ Stays(s, t, g[<<f, last>>], f, last)
      BY <1>3, <3>3
    <3>5. Stays(s, t, g[<<first, f>>] \cup g[<<f, last>>], first, last)
      BY <3>3, <3>4, JoinedStay
    <3> QED BY <3>2, <3>5
  <2> QED BY <2>2, <2>3
<1>4. 0 \in T
  <2>1. ASSUME NEW first \in DOMAIN s, NEW last \in DOMAIN s, first <= last, last - first <= 0
        PROVE  Stays(s, t, g[<<first, last>>], first, last)
    <3>1. \A i, j \in DOMAIN s : ~ (i <= j /\ j - i < last - first)
      BY <2>1
    <3> QED BY <1>3, <2>1, <3>1
  <2> QED BY <2>1
<1>5. ASSUME NEW n \in 0 .. (Len(s) - 1), n \in T PROVE n + 1 \in T
  <2>1. ASSUME NEW first \in DOMAIN s, NEW last \in DOMAIN s, first <= last, last - first <= n + 1
        PROVE  Stays(s, t, g[<<first, last>>], first, last)
    <3>1. \A i, j \in DOMAIN s : i <= j /\ j - i < last - first => j - i <= n
      BY <2>1
    <3>2. \A i, j \in DOMAIN s : i <= j /\ j - i < last - first
            => Stays(s, t, g[<<i, j>>], i, j)
      BY <1>5, <3>1
    <3> QED BY <1>3, <2>1, <3>2
  <2> QED BY <2>1
<1>6. Len(s) \in T
  <2>1. Len(s) \in Nat
    OBVIOUS
  <2> HIDE DEF T
  <2>2. \A i \in 0 .. Len(s) - 1 : i \in T => i + 1 \in T
    BY <1>5
  <2>3. \A i \in 0 .. Len(s) : i \in T
    BY <1>4, <2>1, <2>2, IntervalInduction
  <2> QED BY <2>1, <2>3
<1>7. CASE s = <<>>
  BY <1>7 DEF StaysClose
<1>8. CASE s # <<>>
  <2>1. 1 \in DOMAIN s /\ Len(s) \in DOMAIN s /\ DOMAIN s = 1 .. Len(s) /\ Len(s) - 1 <= Len(s)
    BY <1>8
  <2>2. Stays(s, t, g[<<1, Len(s)>>], 1, Len(s))
    BY <1>6, <2>1
  <2>3. Simplified(s, t) = g[<<1, Len(s)>>]
    BY <1>8, SimplifiedUnfolds DEF g
  <2> QED BY <2>1, <2>2, <2>3 DEF Stays, StaysClose
<1> QED BY <1>7, <1>8

=============================================================================
