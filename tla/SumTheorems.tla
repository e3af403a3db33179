----------------------------- MODULE SumTheorems -----------------------------
(***************************************************************************)
(* The sum of a function over a finite set: what the proofs about totals   *)
(* of fills, lots and trades need of SumFunctionOnSet.                     *)
(*                                                                         *)
(* The induction is over the subsets of a finite set, in the form: a set   *)
(* of counterexamples that is not empty has a member none of whose strict  *)
(* subsets is a counterexample.                                            *)
(***************************************************************************)
EXTENDS Functions, FiniteSetTheorems, WellFoundedInduction, TLAPS

First(s) == CHOOSE x \in s : TRUE
Rest(s)  == s \ {First(s)}

\* g is the recursive function by which the sum of f over S is defined.
Sums(g, f, S) ==
    g = [s \in SUBSET S |-> IF s = {} THEN 0
                            ELSE f[CHOOSE x \in s : TRUE] + g[s \ {CHOOSE x \in s : TRUE}]]

LEMMA SumsAt ==
    ASSUME NEW f, NEW S, NEW g, Sums(g, f, S), NEW s \in SUBSET S
    PROVE  g[s] = IF s = {} THEN 0 ELSE f[First(s)] + g[Rest(s)]
  BY DEF Sums, First, Rest

LEMMA SumsDefined ==
    ASSUME NEW f, NEW S, NEW g, g = [s \in SUBSET S |-> g[s]],
           \A s \in SUBSET S : g[s] = IF s = {} THEN 0 ELSE f[First(s)] + g[Rest(s)]
    PROVE  Sums(g, f, S)
  BY DEF Sums, First, Rest

LEMMA SmallestSubset ==
    ASSUME NEW S, IsFiniteSet(S), NEW T, T \subseteq SUBSET S, T # {}
    PROVE  \E x \in T : \A y \in T : y \subseteq x => y = x
  <1>1. IsWellFoundedOn(StrictSubsetOrdering(S), SUBSET S)
        BY FS_StrictSubsetOrderingWellFounded, FS_FiniteSubsetsOfFinite
  <1>2. \E x \in T : \A y \in T : <<y, x>> \notin StrictSubsetOrdering(S)
        BY <1>1, WFMin
  <1> QED BY <1>2 DEF StrictSubsetOrdering

LEMMA RestSmaller ==
    ASSUME NEW s, s # {}
    PROVE  First(s) \in s /\ Rest(s) \subseteq s /\ Rest(s) # s
  BY DEF First, Rest

\* There is one such function, whatever the set it is restricted to.
LEMMA SumsUnique ==
    ASSUME NEW f, NEW S, IsFiniteSet(S), NEW R, NEW g, NEW h, Sums(g, f, S), Sums(h, f, R)
    PROVE  \A s \in SUBSET (S \cap R) : g[s] = h[s]
  <1> DEFINE T == {s \in SUBSET (S \cap R) : g[s] # h[s]}
  <1> SUFFICES ASSUME T # {} PROVE FALSE
      OBVIOUS
  <1>0. T \subseteq SUBSET S
        OBVIOUS
  <1>1. PICK s \in T : \A y \in T : y \subseteq s => y = s
    <2> HIDE DEF T
    <2> QED BY <1>0, SmallestSubset
  <1>2. s \in SUBSET S /\ s \in SUBSET R /\ g[s] # h[s]
        BY <1>1
  <1>3. /\ g[s] = IF s = {} THEN 0 ELSE f[First(s)] + g[Rest(s)]
        /\ h[s] = IF s = {} THEN 0 ELSE f[First(s)] + h[Rest(s)]
        BY <1>2, SumsAt
  <1>4. s # {}
        BY <1>2, <1>3
  <1>5. g[Rest(s)] = h[Rest(s)]
        BY <1>1, <1>4, RestSmaller
  <1> QED BY <1>2, <1>3, <1>4, <1>5

LEMMA SumsExist ==
    ASSUME NEW f, NEW S, IsFiniteSet(S)
    PROVE  \E g : Sums(g, f, S)
  <1> DEFINE T == {s \in SUBSET S : ~ \E g : Sums(g, f, s)}
  <1> SUFFICES ASSUME T # {} PROVE FALSE
      OBVIOUS
  <1>0. T \subseteq SUBSET S
        OBVIOUS
  <1>1. PICK x \in T : \A y \in T : y \subseteq x => y = x
    <2> HIDE DEF T
    <2> QED BY <1>0, SmallestSubset
  <1> DEFINE G(s) == CHOOSE g : Sums(g, f, s)
             V(s) == IF s = {} THEN 0 ELSE f[First(s)] + G(Rest(s))[Rest(s)]
             h    == [s \in SUBSET x |-> V(s)]
  <1>2. ASSUME NEW s \in SUBSET x, s # x PROVE Sums(G(s), f, s)
        BY <1>1, <1>2
  <1>3. ASSUME NEW s \in SUBSET x, s # x PROVE G(s)[s] = V(s)
    <2>1. CASE s = {}
          BY <1>2, <1>3, <2>1, SumsAt
    <2>2. CASE s # {}
      <3>1. G(s)[s] = f[First(s)] + G(s)[Rest(s)]
        <4>1. Sums(G(s), f, s) /\ s \in SUBSET s
              BY <1>2, <1>3
        <4> HIDE DEF G
        <4> QED BY <2>2, <4>1, SumsAt
      <3>2. Rest(s) \in SUBSET x /\ Rest(s) # x /\ Rest(s) \in SUBSET (s \cap Rest(s))
            BY <1>3, <2>2, RestSmaller
      <3>3. IsFiniteSet(s)
            BY FS_Subset
      <3>4. Sums(G(s), f, s) /\ Sums(G(Rest(s)), f, Rest(s))
            BY <1>2, <1>3, <3>2
      <3>5. G(s)[Rest(s)] = G(Rest(s))[Rest(s)]
            BY <3>2, <3>3, <3>4, SumsUnique
      <3> QED BY <2>2, <3>1, <3>5
    <2> QED BY <2>1, <2>2
  <1>4. ASSUME NEW s \in SUBSET x, s # {} PROVE h[s] = f[First(s)] + h[Rest(s)]
    <2>1. Rest(s) \in SUBSET x /\ Rest(s) # x
          BY <1>4, RestSmaller
    <2>2. h[Rest(s)] = G(Rest(s))[Rest(s)]
          BY <1>3, <2>1
    <2> QED BY <1>4, <2>2
  <1>5. \A s \in SUBSET x : h[s] = IF s = {} THEN 0 ELSE f[First(s)] + h[Rest(s)]
    <2>1. h[{}] = 0
          OBVIOUS
    <2> HIDE DEF h
    <2> QED BY <1>4, <2>1
  <1> HIDE DEF h
  <1>6. h = [s \in SUBSET x |-> h[s]]
        BY DEF h
  <1>7. Sums(h, f, x)
        BY <1>5, <1>6, SumsDefined
  <1> QED BY <1>1, <1>7

LEMMA SumIsSums ==
    ASSUME NEW f, NEW S, IsFiniteSet(S)
    PROVE  \E g : Sums(g, f, S) /\ SumFunctionOnSet(f, S) = g[S]
  <1>1. \E g : Sums(g, f, S)
        BY SumsExist
  <1> QED BY <1>1 DEF SumFunctionOnSet, FoldFunctionOnSet, MapThenFoldSet, Sums

THEOREM SumEmpty == ASSUME NEW f PROVE SumFunctionOnSet(f, {}) = 0
  <1>1. PICK g : Sums(g, f, {}) /\ SumFunctionOnSet(f, {}) = g[{}]
        BY SumIsSums, FS_EmptySet
  <1>2. g[{}] = 0
        BY <1>1, SumsAt
  <1> QED BY <1>1, <1>2

LEMMA SumRest ==
    ASSUME NEW f, NEW S, IsFiniteSet(S), S # {}
    PROVE  SumFunctionOnSet(f, S) = f[First(S)] + SumFunctionOnSet(f, Rest(S))
  <1>1. Rest(S) \in SUBSET S /\ IsFiniteSet(Rest(S)) /\ Rest(S) \in SUBSET (S \cap Rest(S))
        BY RestSmaller, FS_Subset
  <1>2. PICK g : Sums(g, f, S) /\ SumFunctionOnSet(f, S) = g[S]
        BY SumIsSums
  <1>3. PICK h : Sums(h, f, Rest(S)) /\ SumFunctionOnSet(f, Rest(S)) = h[Rest(S)]
        BY <1>1, SumIsSums
  <1>4. g[Rest(S)] = h[Rest(S)]
        BY <1>1, <1>2, <1>3, SumsUnique
  <1>5. g[S] = f[First(S)] + g[Rest(S)]
        BY <1>2, SumsAt
  <1> QED BY <1>2, <1>3, <1>4, <1>5

\* What holds of the empty sum and with each element holds of the sum: integers,
THEOREM SumType ==
    ASSUME NEW S, IsFiniteSet(S), NEW f, \A x \in S : f[x] \in Int
    PROVE  SumFunctionOnSet(f, S) \in Int
  <1> DEFINE T == {s \in SUBSET S : SumFunctionOnSet(f, s) \notin Int}
  <1> SUFFICES ASSUME T # {} PROVE FALSE
      OBVIOUS
  <1>1. T \subseteq SUBSET S
        OBVIOUS
  <1>2. PICK s \in T : \A y \in T : y \subseteq s => y = s
    <2> HIDE DEF T
    <2> QED BY <1>1, SmallestSubset
  <1>3. IsFiniteSet(s) /\ s # {}
    <2>1. SumFunctionOnSet(f, {}) \in Int
          BY SumEmpty
    <2>2. IsFiniteSet(s)
          BY <1>2, FS_Subset
    <2> QED BY <1>2, <2>1, <2>2
  <1>4. SumFunctionOnSet(f, s) = f[First(s)] + SumFunctionOnSet(f, Rest(s))
        BY <1>3, SumRest
  <1>5. SumFunctionOnSet(f, Rest(s)) \in Int /\ f[First(s)] \in Int
        BY <1>2, <1>3, RestSmaller
  <1> QED BY <1>4, <1>5

\* ... and equality of two functions.
THEOREM SumEqual ==
    ASSUME NEW S, IsFiniteSet(S), NEW f, NEW g, \A x \in S : f[x] = g[x]
    PROVE  SumFunctionOnSet(f, S) = SumFunctionOnSet(g, S)
  <1> DEFINE T == {s \in SUBSET S : SumFunctionOnSet(f, s) # SumFunctionOnSet(g, s)}
  <1> SUFFICES ASSUME T # {} PROVE FALSE
      OBVIOUS
  <1>1. T \subseteq SUBSET S
        OBVIOUS
  <1>2. PICK s \in T : \A y \in T : y \subseteq s => y = s
    <2> HIDE DEF T
    <2> QED BY <1>1, SmallestSubset
  <1>3. IsFiniteSet(s) /\ s # {}
        BY <1>2, FS_Subset, SumEmpty
  <1>4. /\ SumFunctionOnSet(f, s) = f[First(s)] + SumFunctionOnSet(f, Rest(s))
        /\ SumFunctionOnSet(g, s) = g[First(s)] + SumFunctionOnSet(g, Rest(s))
        BY <1>3, SumRest
  <1>5. SumFunctionOnSet(f, Rest(s)) = SumFunctionOnSet(g, Rest(s)) /\ f[First(s)] = g[First(s)]
        BY <1>2, <1>3, RestSmaller
  <1> QED BY <1>4, <1>5

\* The sum does not depend on the order: any element may be taken out first.
THEOREM SumRemove ==
    ASSUME NEW S, IsFiniteSet(S), NEW f, \A x \in S : f[x] \in Int, NEW x \in S
    PROVE  SumFunctionOnSet(f, S) = f[x] + SumFunctionOnSet(f, S \ {x})
  <1> DEFINE T == {s \in SUBSET S : \E y \in s :
                      SumFunctionOnSet(f, s) # f[y] + SumFunctionOnSet(f, s \ {y})}
  <1> SUFFICES ASSUME T # {} PROVE FALSE
      OBVIOUS
  <1>1. T \subseteq SUBSET S
        OBVIOUS
  <1>2. PICK s \in T : \A t \in T : t \subseteq s => t = s
    <2> HIDE DEF T
    <2> QED BY <1>1, SmallestSubset
  <1>3. PICK y \in s : SumFunctionOnSet(f, s) # f[y] + SumFunctionOnSet(f, s \ {y})
        BY <1>2
  <1> DEFINE c == First(s)
             r == (s \ {c}) \ {y}
  <1>4. IsFiniteSet(s) /\ c \in s /\ s \subseteq S
        BY <1>1, <1>2, <1>3, FS_Subset, RestSmaller
  <1>5. SumFunctionOnSet(f, s) = f[c] + SumFunctionOnSet(f, s \ {c})
        BY <1>3, <1>4, SumRest DEF Rest
  <1>6. y # c
        BY <1>3, <1>5
  <1> HIDE DEF c
  <1>7. s \ {c} \notin T /\ s \ {y} \notin T /\ y \in s \ {c} /\ c \in s \ {y}
        BY <1>2, <1>3, <1>4, <1>6
  <1>8. SumFunctionOnSet(f, s \ {c}) = f[y] + SumFunctionOnSet(f, r)
        BY <1>4, <1>7
  <1>9. (s \ {y}) \ {c} = r
        OBVIOUS
  <1>10. SumFunctionOnSet(f, s \ {y}) = f[c] + SumFunctionOnSet(f, r)
        BY <1>4, <1>7, <1>9
  <1>11. IsFiniteSet(r)
        BY <1>4, FS_Subset
  <1>12. f[c] \in Int /\ f[y] \in Int /\ SumFunctionOnSet(f, r) \in Int
        BY <1>3, <1>4, <1>11, SumType
  <1> QED BY <1>3, <1>5, <1>8, <1>10, <1>12

\* A sum grows by the element that is added.
THEOREM SumAdd ==
    ASSUME NEW S, IsFiniteSet(S), NEW x, x \notin S, NEW f, \A y \in S \cup {x} : f[y] \in Int
    PROVE  SumFunctionOnSet(f, S \cup {x}) = f[x] + SumFunctionOnSet(f, S)
  <1>1. IsFiniteSet(S \cup {x}) /\ (S \cup {x}) \ {x} = S
        BY FS_AddElement
  <1> QED BY <1>1, SumRemove

\* It changes as the one element changes that is not the same in both.
THEOREM SumChange ==
    ASSUME NEW S, IsFiniteSet(S), NEW x \in S, NEW f, NEW g,
           \A y \in S : f[y] \in Int /\ g[y] \in Int, \A y \in S \ {x} : f[y] = g[y]
    PROVE  SumFunctionOnSet(g, S) = SumFunctionOnSet(f, S) + (g[x] - f[x])
  <1> DEFINE R == S \ {x}
  <1>1. IsFiniteSet(R)
        BY FS_Subset
  <1>2. SumFunctionOnSet(f, R) = SumFunctionOnSet(g, R) /\ SumFunctionOnSet(f, R) \in Int
        BY <1>1, SumEqual, SumType
  <1>3. /\ SumFunctionOnSet(f, S) = f[x] + SumFunctionOnSet(f, R)
        /\ SumFunctionOnSet(g, S) = g[x] + SumFunctionOnSet(g, R)
        BY SumRemove
  <1> QED BY <1>2, <1>3

\* A column in which one row changes by d, and one that gets a new row.
Shifted(g, f, S, x, d) ==
    \A s \in S : f[s] \in Int /\ g[s] = IF s = x THEN f[s] + d ELSE f[s]

Extended(g, f, S, x) ==
    g[x] \in Int /\ \A s \in S : f[s] \in Int /\ g[s] = f[s]

LEMMA SumShifted ==
    ASSUME NEW S, IsFiniteSet(S), NEW x \in S, NEW d \in Int, NEW f, NEW g,
           Shifted(g, f, S, x, d)
    PROVE  SumFunctionOnSet(g, S) = SumFunctionOnSet(f, S) + d
  <1>1. /\ \A s \in S : f[s] \in Int /\ g[s] \in Int
        /\ \A s \in S \ {x} : f[s] = g[s]
        /\ g[x] - f[x] = d
        BY DEF Shifted
  <1> QED BY <1>1, SumChange

LEMMA SumExtended ==
    ASSUME NEW S, IsFiniteSet(S), NEW x, x \notin S, NEW f, NEW g, Extended(g, f, S, x)
    PROVE  SumFunctionOnSet(g, S \cup {x}) = g[x] + SumFunctionOnSet(f, S)
  <1>1. /\ \A s \in S \cup {x} : g[s] \in Int
        /\ \A s \in S : f[s] = g[s]
        BY DEF Extended
  <1>2. SumFunctionOnSet(g, S \cup {x}) = g[x] + SumFunctionOnSet(g, S)
        BY <1>1, SumAdd
  <1>3. SumFunctionOnSet(f, S) = SumFunctionOnSet(g, S)
        BY <1>1, SumEqual
  <1> QED BY <1>2, <1>3

\* No element of a sum of naturals is larger than the sum.
THEOREM SumNat ==
    ASSUME NEW S, IsFiniteSet(S), NEW f, \A x \in S : f[x] \in Nat
    PROVE  SumFunctionOnSet(f, S) \in Nat /\ \A x \in S : f[x] <= SumFunctionOnSet(f, S)
  <1> DEFINE T == {s \in SUBSET S : SumFunctionOnSet(f, s) \notin Nat}
  <1>0. ASSUME T # {} PROVE FALSE
    <2>1. T \subseteq SUBSET S
          OBVIOUS
    <2>2. PICK s \in T : \A y \in T : y \subseteq s => y = s
      <3> HIDE DEF T
      <3> QED BY <1>0, <2>1, SmallestSubset
    <2>3. IsFiniteSet(s) /\ s # {}
      <3>1. SumFunctionOnSet(f, {}) \in Nat
            BY SumEmpty
      <3>2. IsFiniteSet(s)
            BY <2>2, FS_Subset
      <3> QED BY <2>2, <3>1, <3>2
    <2>4. SumFunctionOnSet(f, s) = f[First(s)] + SumFunctionOnSet(f, Rest(s))
          BY <2>3, SumRest
    <2>5. SumFunctionOnSet(f, Rest(s)) \in Nat /\ f[First(s)] \in Nat
          BY <2>2, <2>3, RestSmaller
    <2> QED BY <2>4, <2>5
  <1>1. \A s \in SUBSET S : SumFunctionOnSet(f, s) \in Nat
        BY <1>0
  <1>2. ASSUME NEW x \in S PROVE f[x] <= SumFunctionOnSet(f, S)
    <2>1. SumFunctionOnSet(f, S) = f[x] + SumFunctionOnSet(f, S \ {x})
          BY SumRemove
    <2> QED BY <1>1, <2>1
  <1> QED BY <1>1, <1>2

\* The sum over two sets that have nothing in common.
THEOREM SumUnion ==
    ASSUME NEW S, IsFiniteSet(S), NEW R, IsFiniteSet(R), S \cap R = {},
           NEW f, \A x \in S \cup R : f[x] \in Int
    PROVE  SumFunctionOnSet(f, S \cup R) = SumFunctionOnSet(f, S) + SumFunctionOnSet(f, R)
  <1> DEFINE T == {s \in SUBSET S : SumFunctionOnSet(f, s \cup R)
                                    # SumFunctionOnSet(f, s) + SumFunctionOnSet(f, R)}
  <1> SUFFICES ASSUME T # {} PROVE FALSE
      OBVIOUS
  <1>1. T \subseteq SUBSET S
        OBVIOUS
  <1>2. PICK s \in T : \A t \in T : t \subseteq s => t = s
    <2> HIDE DEF T
    <2> QED BY <1>1, SmallestSubset
  <1>3. SumFunctionOnSet(f, R) \in Int
        BY SumType
  <1>4. IsFiniteSet(s) /\ s # {}
    <2>1. SumFunctionOnSet(f, {} \cup R) = SumFunctionOnSet(f, {}) + SumFunctionOnSet(f, R)
          BY <1>3, SumEmpty
    <2> QED BY <1>2, <2>1, FS_Subset
  <1> DEFINE x == First(s)
             r == Rest(s)
  <1>5. x \in s /\ r \subseteq s /\ r # s /\ r = s \ {x}
        BY <1>4, RestSmaller DEF Rest
  <1> HIDE DEF x, r
  <1>6. (s \cup R) \ {x} = r \cup R
        BY <1>2, <1>5
  <1>7. IsFiniteSet(r) /\ IsFiniteSet(s \cup R)
        BY <1>4, <1>5, FS_Subset, FS_Union
  <1>8. SumFunctionOnSet(f, r \cup R) = SumFunctionOnSet(f, r) + SumFunctionOnSet(f, R)
        BY <1>2, <1>5
  <1>9. SumFunctionOnSet(f, s) = f[x] + SumFunctionOnSet(f, r)
        BY <1>2, <1>4, <1>5, SumRemove
  <1>10. SumFunctionOnSet(f, s \cup R) = f[x] + SumFunctionOnSet(f, r \cup R)
        BY <1>2, <1>5, <1>6, <1>7, SumRemove
  <1>11. f[x] \in Int /\ SumFunctionOnSet(f, r) \in Int
        BY <1>2, <1>5, <1>7, SumType
  <1> QED BY <1>2, <1>3, <1>8, <1>9, <1>10, <1>11

\* The parts of a partition: each element of S is in the part of its key.
PartOf(S, key, k) == {x \in S : key[x] = k}

THEOREM SumParts ==
    ASSUME NEW S, IsFiniteSet(S), NEW K, IsFiniteSet(K), NEW key, NEW f, NEW c,
           \A x \in S : key[x] \in K /\ f[x] \in Int,
           \A k \in K : c[k] = SumFunctionOnSet(f, PartOf(S, key, k))
    PROVE  SumFunctionOnSet(c, K) = SumFunctionOnSet(f, S)
  <1> DEFINE In(L) == {x \in S : key[x] \in L}
             T == {L \in SUBSET K : SumFunctionOnSet(c, L) # SumFunctionOnSet(f, In(L))}
  <1>1. T \subseteq SUBSET K
        OBVIOUS
  <1>2. ASSUME T # {} PROVE FALSE
    <2>1. PICK L \in T : \A t \in T : t \subseteq L => t = L
      <3> HIDE DEF T
      <3> QED BY <1>1, <1>2, SmallestSubset
    <2>2. IsFiniteSet(L) /\ L # {}
      <3>1. In({}) = {}
            OBVIOUS
      <3>2. SumFunctionOnSet(c, {}) = SumFunctionOnSet(f, In({}))
            BY <3>1, SumEmpty
      <3> QED BY <2>1, <3>2, FS_Subset
    <2> DEFINE k == First(L)
               r == Rest(L)
               P == PartOf(S, key, k)
    <2>3. k \in L /\ r \subseteq L /\ r # L /\ r = L \ {k}
          BY <2>2, RestSmaller DEF Rest
    <2> HIDE DEF k, r
    <2>4. /\ In(L) = P \cup In(r) /\ P \cap In(r) = {} /\ IsFiniteSet(P)
          /\ IsFiniteSet(In(r)) /\ P \subseteq S
          BY <2>3, FS_Subset DEF PartOf
    <2>5. SumFunctionOnSet(f, In(L)) = SumFunctionOnSet(f, P) + SumFunctionOnSet(f, In(r))
          BY <2>4, SumUnion
    <2>6. SumFunctionOnSet(c, L) = c[k] + SumFunctionOnSet(c, r)
          BY <2>2, SumRest DEF k, r
    <2>7. SumFunctionOnSet(c, r) = SumFunctionOnSet(f, In(r))
          BY <2>1, <2>3
    <2>8. c[k] = SumFunctionOnSet(f, P)
          BY <2>1, <2>3
    <2> QED BY <2>1, <2>5, <2>6, <2>7, <2>8
  <1>3. SumFunctionOnSet(c, K) = SumFunctionOnSet(f, In(K))
        BY <1>2
  <1>4. In(K) = S
        OBVIOUS
  <1> QED BY <1>3, <1>4

\* A sum of ones is a count.
THEOREM SumOnes ==
    ASSUME NEW S, IsFiniteSet(S), NEW f, \A x \in S : f[x] = 1
    PROVE  SumFunctionOnSet(f, S) = Cardinality(S)
  <1> DEFINE T == {s \in SUBSET S : SumFunctionOnSet(f, s) # Cardinality(s)}
  <1>1. T \subseteq SUBSET S
        OBVIOUS
  <1>2. ASSUME T # {} PROVE FALSE
    <2>1. PICK s \in T : \A t \in T : t \subseteq s => t = s
      <3> HIDE DEF T
      <3> QED BY <1>1, <1>2, SmallestSubset
    <2>2. IsFiniteSet(s) /\ s # {}
          BY <2>1, SumEmpty, FS_EmptySet, FS_Subset
    <2>3. /\ First(s) \in s /\ Rest(s) \subseteq s /\ Rest(s) # s
          /\ Rest(s) = s \ {First(s)}
          BY <2>2, RestSmaller DEF Rest
    <2>4. SumFunctionOnSet(f, s) = f[First(s)] + SumFunctionOnSet(f, Rest(s))
          BY <2>2, SumRest
    <2>5. SumFunctionOnSet(f, Rest(s)) = Cardinality(Rest(s))
          BY <2>1, <2>3
    <2>6. Cardinality(Rest(s)) = Cardinality(s) - 1 /\ Cardinality(s) \in Nat
          BY <2>2, <2>3, FS_RemoveElement, FS_CardinalityType
    <2>7. f[First(s)] = 1
          BY <2>1, <2>3
    <2> QED BY <2>1, <2>4, <2>5, <2>6, <2>7
  <1> QED BY <1>2

\* Sums are added element by element.
THEOREM SumPlus ==
    ASSUME NEW S, IsFiniteSet(S), NEW f, NEW g, NEW h,
           \A x \in S : f[x] \in Int /\ g[x] \in Int /\ h[x] = f[x] + g[x]
    PROVE  SumFunctionOnSet(h, S) = SumFunctionOnSet(f, S) + SumFunctionOnSet(g, S)
  <1> DEFINE T == {s \in SUBSET S : SumFunctionOnSet(h, s)
                                    # SumFunctionOnSet(f, s) + SumFunctionOnSet(g, s)}
  <1>1. T \subseteq SUBSET S
        OBVIOUS
  <1>2. ASSUME T # {} PROVE FALSE
    <2>1. PICK s \in T : \A t \in T : t \subseteq s => t = s
      <3> HIDE DEF T
      <3> QED BY <1>1, <1>2, SmallestSubset
    <2>2. IsFiniteSet(s) /\ s # {}
      <3>1. SumFunctionOnSet(h, {}) = SumFunctionOnSet(f, {}) + SumFunctionOnSet(g, {})
            BY SumEmpty
      <3> QED BY <2>1, <3>1, FS_Subset
    <2> DEFINE x == First(s)
               r == Rest(s)
    <2>3. x \in s /\ r \subseteq s /\ r # s
          BY <2>2, RestSmaller
    <2>4. /\ SumFunctionOnSet(f, s) = f[x] + SumFunctionOnSet(f, r)
          /\ SumFunctionOnSet(g, s) = g[x] + SumFunctionOnSet(g, r)
          /\ SumFunctionOnSet(h, s) = h[x] + SumFunctionOnSet(h, r)
          BY <2>2, SumRest
    <2> HIDE DEF x, r
    <2>5. SumFunctionOnSet(h, r) = SumFunctionOnSet(f, r) + SumFunctionOnSet(g, r)
          BY <2>1, <2>3
    <2>6. IsFiniteSet(r) /\ r \subseteq S /\ x \in S
          BY <2>1, <2>2, <2>3, FS_Subset
    <2>7. SumFunctionOnSet(f, r) \in Int /\ SumFunctionOnSet(g, r) \in Int
          BY <2>6, SumType
    <2> QED BY <2>1, <2>4, <2>5, <2>6, <2>7
  <1> QED BY <1>2

LEMMA SumZero ==
    ASSUME NEW S, IsFiniteSet(S), NEW f, \A x \in S : f[x] = 0
    PROVE  SumFunctionOnSet(f, S) = 0
  <1> DEFINE total == SumFunctionOnSet(f, S)
  <1>1. \A x \in S : f[x] \in Int /\ f[x] = f[x] + f[x]
        OBVIOUS
  <1>2. total \in Int
        BY <1>1, SumType
  <1>3. total = total + total
        BY <1>1, SumPlus
  <1> HIDE DEF total
  <1>4. total = 0
        BY <1>2, <1>3
  <1> QED BY <1>4 DEF total

LEMMA SumOne ==
    ASSUME NEW x, NEW f, f[x] \in Int
    PROVE  SumFunctionOnSet(f, {x}) = f[x]
  <1>1. SumFunctionOnSet(f, {} \cup {x}) = f[x] + SumFunctionOnSet(f, {})
        BY SumAdd, FS_EmptySet
  <1> QED BY <1>1, SumEmpty

\* The sum over the elements in any order: at lists those of S, each once.
THEOREM SumInOrder ==
    ASSUME NEW I, IsFiniteSet(I), NEW S, IsFiniteSet(S), NEW at \in Bijection(I, S),
           NEW f, \A x \in S : f[x] \in Int, NEW g, \A i \in I : g[i] = f[at[i]]
    PROVE  SumFunctionOnSet(g, I) = SumFunctionOnSet(f, S)
  <1>1. /\ \A i \in I : at[i] \in S /\ g[i] \in Int
        /\ \A x \in S : \E i \in I : at[i] = x
        /\ \A i, j \in I : at[i] = at[j] => i = j
        BY DEF Bijection, Injection, Surjection, IsInjective
  <1>2. ASSUME NEW x \in S PROVE f[x] = SumFunctionOnSet(g, PartOf(I, at, x))
    <2>1. PICK i \in I : at[i] = x
          BY <1>1
    <2>2. PartOf(I, at, x) = {i}
          BY <1>1, <2>1 DEF PartOf
    <2>3. SumFunctionOnSet(g, {i}) = g[i]
          BY <1>1, SumOne
    <2> QED BY <2>1, <2>2, <2>3
  <1> QED BY <1>1, <1>2, SumParts

\* A table of numbers, m, with what its rows and its columns add up to.
InColumn(m, S, k) == [x \in S |-> m[x][k]]
Table(m, S, K, r, c) ==
    /\ \A x \in S : \A k \in K : m[x][k] \in Int
    /\ \A x \in S : r[x] = SumFunctionOnSet(m[x], K)
    /\ \A k \in K : c[k] = SumFunctionOnSet(InColumn(m, S, k), S)

\* The sum of its rows is the sum of its columns.
THEOREM SumExchange ==
    ASSUME NEW S, IsFiniteSet(S), NEW K, IsFiniteSet(K), NEW m, NEW r, NEW c,
           Table(m, S, K, r, c)
    PROVE  SumFunctionOnSet(r, S) = SumFunctionOnSet(c, K)
  <1>0. /\ \A x \in S : \A k \in K : m[x][k] \in Int
        /\ \A x \in S : r[x] = SumFunctionOnSet(m[x], K)
        /\ \A k \in K : c[k] = SumFunctionOnSet([x \in S |-> m[x][k]], S)
        BY DEF Table, InColumn
  <1> USE <1>0
  <1> DEFINE Column(k) == [x \in S |-> m[x][k]]
             Over(s) == [k \in K |-> SumFunctionOnSet(Column(k), s)]
             T == {s \in SUBSET S : SumFunctionOnSet(r, s) # SumFunctionOnSet(Over(s), K)}
  <1>1. T \subseteq SUBSET S
        OBVIOUS
  <1>2. ASSUME T # {} PROVE FALSE
    <2>1. PICK s \in T : \A t \in T : t \subseteq s => t = s
      <3> HIDE DEF T
      <3> QED BY <1>1, <1>2, SmallestSubset
    <2>2. IsFiniteSet(s) /\ s # {}
      <3>1. \A k \in K : Over({})[k] = 0
            BY SumEmpty
      <3> HIDE DEF Over
      <3>2. SumFunctionOnSet(Over({}), K) = 0
            BY <3>1, SumZero
      <3>3. SumFunctionOnSet(r, {}) = 0
            BY SumEmpty
      <3> QED BY <2>1, <3>2, <3>3, FS_Subset
    <2> DEFINE x == First(s)
               q == Rest(s)
    <2>3. x \in s /\ q \subseteq s /\ q # s
          BY <2>2, RestSmaller
    <2>4. SumFunctionOnSet(r, s) = r[x] + SumFunctionOnSet(r, q)
          BY <2>2, SumRest
    <2>5. ASSUME NEW k \in K PROVE Over(s)[k] = m[x][k] + Over(q)[k]
      <3>1. SumFunctionOnSet(Column(k), s) = Column(k)[x] + SumFunctionOnSet(Column(k), q)
        <4> HIDE DEF Column
        <4> QED BY <2>2, SumRest
      <3>2. Column(k)[x] = m[x][k]
            BY <2>1, <2>3
      <3> QED BY <3>1, <3>2
    <2> HIDE DEF x, q
    <2>6. IsFiniteSet(q) /\ q \subseteq S /\ x \in S
          BY <2>1, <2>2, <2>3, FS_Subset
    <2>7. ASSUME NEW k \in K PROVE m[x][k] \in Int /\ Over(q)[k] \in Int
      <3>1. \A y \in q : Column(k)[y] \in Int
            BY <2>6
      <3> HIDE DEF Column
      <3>2. SumFunctionOnSet(Column(k), q) \in Int
            BY <2>6, <3>1, SumType
      <3> QED BY <2>6, <3>2
    <2>8. SumFunctionOnSet(r, q) = SumFunctionOnSet(Over(q), K)
          BY <2>1, <2>3
    <2>9. r[x] = SumFunctionOnSet(m[x], K)
          BY <2>6
    <2> DEFINE a == m[x]
               b == Over(q)
               d == Over(s)
    <2>10. \A k \in K : a[k] \in Int /\ b[k] \in Int /\ d[k] = a[k] + b[k]
           BY <2>5, <2>7
    <2>11. SumFunctionOnSet(r, s) # SumFunctionOnSet(d, K)
           BY <2>1
    <2>12. /\ SumFunctionOnSet(r, q) = SumFunctionOnSet(b, K)
           /\ r[x] = SumFunctionOnSet(a, K)
           BY <2>8, <2>9
    <2> HIDE DEF a, b, d
    <2>13. SumFunctionOnSet(d, K) = SumFunctionOnSet(a, K) + SumFunctionOnSet(b, K)
           BY <2>10, SumPlus
    <2> QED BY <2>4, <2>11, <2>12, <2>13
  <1>3. SumFunctionOnSet(r, S) = SumFunctionOnSet(Over(S), K)
        BY <1>2
  <1> DEFINE d == Over(S)
  <1>4. \A k \in K : c[k] = d[k]
        OBVIOUS
  <1>5. SumFunctionOnSet(r, S) = SumFunctionOnSet(d, K)
        BY <1>3
  <1> HIDE DEF d
  <1>6. SumFunctionOnSet(c, K) = SumFunctionOnSet(d, K)
        BY <1>4, SumEqual
  <1> QED BY <1>5, <1>6
==============================================================================
