---------------------------- MODULE SetTheorems ----------------------------
(***************************************************************************)
(* Facts about finite sets.  The rank of a member of a set of integers,    *)
(* and from it that a set that is not empty has a greatest member; and     *)
(* sums of a function over a set, from the definition of the fold.         *)
(***************************************************************************)
EXTENDS Integers, Functions, FiniteSetTheorems, TLAPS

Below(d, S) == {e \in S : e < d}

\* The members of S below d, counted.
Rank(d, S) == Cardinality(Below(d, S))

LEMMA UpTo ==
    ASSUME NEW k \in Nat
    PROVE  IsFiniteSet(0 .. k - 1) /\ Cardinality(0 .. k - 1) = k
<1>1. 0 \in Int /\ k - 1 \in Int
  OBVIOUS
<1>2. /\ IsFiniteSet(0 .. k - 1)
      /\ Cardinality(0 .. k - 1) = IF 0 > k - 1 THEN 0 ELSE k - 1 - 0 + 1
  BY <1>1, FS_Interval
<1> QED BY <1>2

\* The ranks of a set of n members are 0 to n - 1, and each is one member's.
LEMMA RankIsBijection ==
    ASSUME NEW S, IsFiniteSet(S), S \subseteq Int
    PROVE  /\ Cardinality(S) \in Nat
           /\ \A d \in S : Rank(d, S) \in 0 .. Cardinality(S) - 1
           /\ \A d, f \in S : Rank(d, S) = Rank(f, S) => d = f
           /\ \A i \in 0 .. Cardinality(S) - 1 : \E d \in S : Rank(d, S) = i
<1> DEFINE size == Cardinality(S)
           below(d) == Below(d, S)
           rank == [d \in S |-> Rank(d, S)]
<1>1. size \in Nat
  BY FS_CardinalityType
<1>2. ASSUME NEW d \in S
      PROVE  /\ IsFiniteSet(below(d))
             /\ Cardinality(below(d)) \in 0 .. size - 1
  <2>1. IsFiniteSet(S \ {d}) /\ Cardinality(S \ {d}) = size - 1
    BY FS_RemoveElement
  <2>2. below(d) \subseteq S \ {d}
    BY DEF Below
  <2>3. IsFiniteSet(below(d)) /\ Cardinality(below(d)) <= size - 1
    BY <2>1, <2>2, FS_Subset
  <2>4. Cardinality(below(d)) \in Nat
    BY <2>3, FS_CardinalityType
  <2> HIDE DEF below, size
  <2> QED BY <1>1, <2>3, <2>4
<1>3. ASSUME NEW d \in S, NEW f \in S, d < f
      PROVE  Cardinality(below(d)) < Cardinality(below(f))
  <2>1. below(d) \cup {d} \subseteq below(f) /\ d \notin below(d)
    <3>1. \A e \in S : e \in Int
      OBVIOUS
    <3>2. d \in Int /\ f \in Int /\ ~(d < d) /\ \A e \in S : e < d => e < f
      BY <1>3, <3>1
    <3> QED BY <1>3, <3>2 DEF Below
  <2>2. /\ IsFiniteSet(below(d) \cup {d})
        /\ Cardinality(below(d) \cup {d}) = Cardinality(below(d)) + 1
    BY <1>2, <2>1, FS_AddElement
  <2>3. Cardinality(below(d) \cup {d}) <= Cardinality(below(f))
    BY <1>2, <2>1, FS_Subset
  <2>4. Cardinality(below(d)) \in Nat /\ Cardinality(below(f)) \in Nat
    BY <1>2
  <2> HIDE DEF below
  <2> QED BY <2>2, <2>3, <2>4
<1>4. \A d \in S : Rank(d, S) = Cardinality(below(d))
  BY DEF Rank
<1> HIDE DEF below
<1>5. rank \in [S -> 0 .. size - 1]
  BY <1>2, <1>4
<1>6. ASSUME NEW d \in S, NEW f \in S, Rank(d, S) = Rank(f, S) PROVE d = f
  <2>1. Cardinality(below(d)) = Cardinality(below(f))
    BY <1>4, <1>6
  <2>2. Cardinality(below(d)) \in Nat /\ d \in Int /\ f \in Int
    BY <1>2
  <2>3. ~(d < f) /\ ~(f < d)
    BY <1>3, <2>1, <2>2
  <2> QED BY <2>2, <2>3
<1>7. rank \in Injection(S, 0 .. size - 1)
  BY <1>5, <1>6 DEF Injection, IsInjective
<1>8. IsFiniteSet(0 .. size - 1) /\ Cardinality(0 .. size - 1) = size
  BY <1>1, UpTo
<1>9. rank \in Surjection(S, 0 .. size - 1)
  BY <1>7, <1>8, FS_Injection
<1>10. ASSUME NEW i \in 0 .. size - 1 PROVE \E d \in S : Rank(d, S) = i
  BY <1>9 DEF Surjection
<1>11. \A d \in S : Rank(d, S) \in 0 .. size - 1
  BY <1>2, <1>4
<1>12. \A d, f \in S : Rank(d, S) = Rank(f, S) => d = f
  BY <1>6
<1>13. \A i \in 0 .. size - 1 : \E d \in S : Rank(d, S) = i
  BY <1>10
<1> HIDE DEF rank, below
<1> QED BY <1>1, <1>11, <1>12, <1>13 DEF size

\* The member of the highest rank is greater than all the others.
LEMMA GreatestExists ==
    ASSUME NEW S, IsFiniteSet(S), S \subseteq Int, S # {}
    PROVE  \E m \in S : \A d \in S : d <= m
<1>1. Cardinality(S) \in Nat /\ Cardinality(S) # 0
  BY FS_CardinalityType, FS_EmptySet
<1>2. PICK m \in S : Rank(m, S) = Cardinality(S) - 1
  <2>1. Cardinality(S) - 1 \in 0 .. Cardinality(S) - 1
    BY <1>1
  <2> QED BY <2>1, RankIsBijection
<1>3. Below(m, S) \subseteq S \ {m}
  BY DEF Below
<1>4. IsFiniteSet(S \ {m}) /\ Cardinality(S \ {m}) = Cardinality(S) - 1
  BY FS_RemoveElement
<1>5. Below(m, S) = S \ {m}
  BY <1>2, <1>3, <1>4, FS_Subset DEF Rank
<1>6. ASSUME NEW d \in S PROVE d <= m
  <2>1. d \in Int /\ m \in Int
    OBVIOUS
  <2>2. d = m \/ d < m
    BY <1>5 DEF Below
  <2> QED BY <2>1, <2>2
<1> QED BY <1>6
-----------------------------------------------------------------------------
(***************************************************************************)
(* Induction over the subsets of a finite set, for a property given by the *)
(* set of those that have it: a minimal subset without it has all smaller  *)
(* ones with it.                                                           *)
(***************************************************************************)
LEMMA SetInduction ==
    ASSUME NEW S, IsFiniteSet(S), NEW P,
           \A T \in SUBSET S : (\A U \in SUBSET T : U # T => U \in P) => T \in P
    PROVE  SUBSET S \subseteq P
<1> DEFINE R == StrictSubsetOrdering(S)
           bad == (SUBSET S) \ P
<1>1. IsWellFoundedOn(R, SUBSET S)
  BY FS_FiniteSubsetsOfFinite, FS_StrictSubsetOrderingWellFounded, Zenon
<1>2. SUFFICES ASSUME bad # {} PROVE FALSE
  OBVIOUS
<1>3. PICK T \in bad : \A U \in bad : <<U, T>> \notin R
  <2> DEFINE Z == SUBSET S
  <2>1. bad \subseteq Z /\ IsWellFoundedOn(R, Z)
    BY <1>1
  <2> HIDE DEF R, bad, Z
  <2>2. \E T \in bad : \A U \in bad : ~ (<<U, T>> \in R)
    BY ONLY <1>2, <2>1, WFMin, Zenon
  <2> QED BY <2>2
<1>4. \A U \in SUBSET T : U # T => U \in P
  BY <1>3 DEF StrictSubsetOrdering
<1> QED BY <1>3, <1>4

\* The member of a set the fold takes next.
Picked(s) == CHOOSE x \in s : TRUE

\* The equation by which the fold is defined: g has the sum of f over every
\* subset of S.
IsSums(g, f, S) ==
    g = [s \in SUBSET S |-> IF s = {} THEN 0 ELSE f[Picked(s)] + g[s \ {Picked(s)}]]

LEMMA SumUnfolded ==
    ASSUME NEW f, NEW S
    PROVE  SumFunctionOnSet(f, S) = (CHOOSE g : IsSums(g, f, S))[S]
BY DEF SumFunctionOnSet, FoldFunctionOnSet, MapThenFoldSet, IsSums, Picked

LEMMA PickedIsIn ==
    ASSUME NEW s, s # {}
    PROVE  Picked(s) \in s
BY DEF Picked

\* Two solutions, even over different sets, have the same sums.
LEMMA SumsAgree ==
    ASSUME NEW f, NEW S, NEW T, NEW g, NEW h, NEW V, IsFiniteSet(V), V \subseteq S, V \subseteq T,
           IsSums(g, f, S), IsSums(h, f, T)
    PROVE  g[V] = h[V]
<1> DEFINE P == {U \in SUBSET V : g[U] = h[U]}
<1>1. ASSUME NEW U \in SUBSET V, \A W \in SUBSET U : W # U => W \in P
      PROVE  U \in P
  <2>1. CASE U = {}
    BY <2>1 DEF IsSums
  <2>2. CASE U # {}
    <3>1. U \ {Picked(U)} \in P
      BY <1>1, <2>2, PickedIsIn
    <3>2. g[U] = f[Picked(U)] + g[U \ {Picked(U)}]
      BY <2>2 DEF IsSums
    <3>3. h[U] = f[Picked(U)] + h[U \ {Picked(U)}]
      BY <2>2 DEF IsSums
    <3> QED BY <3>1, <3>2, <3>3
  <2> QED BY <2>1, <2>2
<1>2. SUBSET V \subseteq P
  <2> HIDE DEF P
  <2> QED BY <1>1, SetInduction
<1> QED BY <1>2

\* There is a solution, built from those for the smaller sets.
LEMMA SumsExist ==
    ASSUME NEW f, NEW S, IsFiniteSet(S)
    PROVE  \E g : IsSums(g, f, S)
<1> DEFINE P == {T \in SUBSET S : \E g : IsSums(g, f, T)}
           sums(T) == CHOOSE g : IsSums(g, f, T)
           rest(s) == s \ {Picked(s)}
<1>1. ASSUME NEW T \in SUBSET S, \A U \in SUBSET T : U # T => U \in P
      PROVE  T \in P
  <2> DEFINE g == [s \in SUBSET T |->
                     IF s = {} THEN 0 ELSE f[Picked(s)] + sums(rest(s))[rest(s)]]
  <2>1. ASSUME NEW s \in SUBSET T, s # {} PROVE sums(rest(s))[rest(s)] = g[rest(s)]
    <3> DEFINE u == rest(s)
    <3>1. u \in SUBSET T /\ u # T /\ IsFiniteSet(u)
      BY <2>1, PickedIsIn, FS_Subset
    <3>2. IsSums(sums(u), f, u)
      BY <1>1, <3>1
    <3> HIDE DEF u, sums
    <3>3. ASSUME u = {} PROVE sums(u)[u] = g[u]
      <4>1. sums(u)[u] = 0
        BY <3>2, <3>3 DEF IsSums
      <4> QED BY <3>1, <3>3, <4>1
    <3>4. ASSUME u # {} PROVE sums(u)[u] = g[u]
      <4>1. rest(u) \in SUBSET u /\ rest(u) \in SUBSET T /\ rest(u) # T /\ IsFiniteSet(rest(u))
        BY <3>1, <3>4, PickedIsIn, FS_Subset
      <4>2. IsSums(sums(rest(u)), f, rest(u))
        BY <1>1, <4>1 DEF sums
      <4>3. sums(rest(u))[rest(u)] = sums(u)[rest(u)]
        <5> HIDE DEF rest
        <5> QED BY <3>2, <4>1, <4>2, SumsAgree
      <4>4. sums(u)[u] = f[Picked(u)] + sums(u)[rest(u)]
        BY <3>2, <3>4 DEF IsSums
      <4>5. g[u] = f[Picked(u)] + sums(rest(u))[rest(u)]
        BY <3>1, <3>4
      <4> QED BY <4>3, <4>4, <4>5
    <3> QED BY <3>3, <3>4 DEF u
  <2>2. IsSums(g, f, T)
    <3>1. ASSUME NEW s \in SUBSET T
          PROVE  g[s] = IF s = {} THEN 0 ELSE f[Picked(s)] + g[rest(s)]
      <4> HIDE DEF sums
      <4> QED BY <2>1
    <3>2. g = [s \in SUBSET T |-> g[s]]
      OBVIOUS
    <3> HIDE DEF g
    <3> QED BY <3>1, <3>2 DEF IsSums
  <2> QED BY <2>2
<1>2. SUBSET S \subseteq P
  <2> HIDE DEF P
  <2> QED BY <1>1, SetInduction
<1> QED BY <1>2

\* So the sum over a set is what the definition of the fold says.
LEMMA SumEquation ==
    ASSUME NEW f, NEW S, IsFiniteSet(S)
    PROVE  SumFunctionOnSet(f, S) =
              IF S = {} THEN 0 ELSE f[Picked(S)] + SumFunctionOnSet(f, S \ {Picked(S)})
<1> DEFINE sums(T) == CHOOSE g : IsSums(g, f, T)
           r == S \ {Picked(S)}
<1>1. IsFiniteSet(r) /\ r \subseteq S
  BY FS_Subset
<1>2. IsSums(sums(S), f, S) /\ IsSums(sums(r), f, r)
  BY <1>1, SumsExist
<1> HIDE DEF sums
<1>3. sums(r)[r] = sums(S)[r]
  <2> DEFINE g == sums(r)
             h == sums(S)
  <2>1. IsSums(g, f, r) /\ IsSums(h, f, S)
    BY <1>2
  <2> HIDE DEF r, g, h
  <2>2. g[r] = h[r]
    BY <1>1, <2>1, SumsAgree
  <2> QED BY <2>2 DEF g, h
<1>4. sums(S)[S] = IF S = {} THEN 0 ELSE f[Picked(S)] + sums(S)[r]
  BY <1>2 DEF IsSums
<1> HIDE DEF r
<1>5. SumFunctionOnSet(f, S) = sums(S)[S] /\ SumFunctionOnSet(f, r) = sums(r)[r]
  BY SumUnfolded DEF sums
<1> QED BY <1>3, <1>4, <1>5 DEF r

LEMMA SumNothing ==
    ASSUME NEW f
    PROVE  SumFunctionOnSet(f, {}) = 0
BY SumEquation, FS_EmptySet

LEMMA SumRest ==
    ASSUME NEW f, NEW S, IsFiniteSet(S), S # {}
    PROVE  /\ Picked(S) \in S
           /\ SumFunctionOnSet(f, S) = f[Picked(S)] + SumFunctionOnSet(f, S \ {Picked(S)})
BY SumEquation, PickedIsIn

LEMMA SumTyped ==
    ASSUME NEW f, NEW S, IsFiniteSet(S), \A x \in S : f[x] \in Int
    PROVE  SumFunctionOnSet(f, S) \in Int
<1> DEFINE P == {T \in SUBSET S : SumFunctionOnSet(f, T) \in Int}
<1>1. ASSUME NEW T \in SUBSET S, \A U \in SUBSET T : U # T => U \in P
      PROVE  T \in P
  <2>1. CASE T = {}
    BY <2>1, SumNothing
  <2>2. CASE T # {}
    <3>1. IsFiniteSet(T)
      BY FS_Subset
    <3>2. Picked(T) \in T /\ SumFunctionOnSet(f, T) = f[Picked(T)] + SumFunctionOnSet(f, T \ {Picked(T)})
      BY <2>2, <3>1, SumRest
    <3>3. SumFunctionOnSet(f, T \ {Picked(T)}) \in Int
      BY <1>1, <3>2
    <3> QED BY <3>2, <3>3
  <2> QED BY <2>1, <2>2
<1>2. SUBSET S \subseteq P
  <2> HIDE DEF P
  <2> QED BY <1>1, SetInduction
<1> QED BY <1>2

\* Any member may be taken out first, not only the one the fold takes.
LEMMA SumWithout ==
    ASSUME NEW f, NEW S, IsFiniteSet(S), \A x \in S : f[x] \in Int, NEW y \in S
    PROVE  SumFunctionOnSet(f, S) = f[y] + SumFunctionOnSet(f, S \ {y})
<1> DEFINE P == {T \in SUBSET S :
                    \A x \in T : SumFunctionOnSet(f, T) = f[x] + SumFunctionOnSet(f, T \ {x})}
<1>1. ASSUME NEW T \in SUBSET S, \A U \in SUBSET T : U # T => U \in P, NEW x \in T
      PROVE  SumFunctionOnSet(f, T) = f[x] + SumFunctionOnSet(f, T \ {x})
  <2> DEFINE p == Picked(T)
  <2>1. IsFiniteSet(T)
    BY FS_Subset
  <2>2. p \in T /\ SumFunctionOnSet(f, T) = f[p] + SumFunctionOnSet(f, T \ {p})
    BY <2>1, SumRest
  <2>3. CASE x = p
    BY <2>2, <2>3
  <2>4. CASE x # p
    <3> DEFINE V == T \ {p, x}
    <3>1. (T \ {p}) \ {x} = V /\ (T \ {x}) \ {p} = V
      OBVIOUS
    <3>2. /\ SumFunctionOnSet(f, T \ {p}) = f[x] + SumFunctionOnSet(f, V)
          /\ SumFunctionOnSet(f, T \ {x}) = f[p] + SumFunctionOnSet(f, V)
      BY <1>1, <2>2, <2>4, <3>1
    <3>3. IsFiniteSet(V) /\ (\A z \in V : f[z] \in Int) /\ f[p] \in Int /\ f[x] \in Int
      BY <2>1, <2>2, FS_Subset
    <3> HIDE DEF V, p
    <3>4. SumFunctionOnSet(f, V) \in Int
      BY <3>3, SumTyped
    <3> QED BY <2>2, <3>2, <3>3, <3>4
  <2> QED BY <2>3, <2>4
<1>2. \A T \in SUBSET S : (\A U \in SUBSET T : U # T => U \in P) => T \in P
  BY <1>1
<1>3. SUBSET S \subseteq P
  <2> HIDE DEF P
  <2> QED BY <1>2, SetInduction
<1> QED BY <1>3

LEMMA SumSame ==
    ASSUME NEW f, NEW g, NEW S, IsFiniteSet(S), \A x \in S : f[x] = g[x]
    PROVE  SumFunctionOnSet(f, S) = SumFunctionOnSet(g, S)
<1> DEFINE P == {T \in SUBSET S : SumFunctionOnSet(f, T) = SumFunctionOnSet(g, T)}
<1>1. ASSUME NEW T \in SUBSET S, \A U \in SUBSET T : U # T => U \in P
      PROVE  T \in P
  <2>1. CASE T = {}
    BY <2>1, SumNothing
  <2>2. CASE T # {}
    <3>1. IsFiniteSet(T)
      BY FS_Subset
    <3>2. /\ Picked(T) \in T
          /\ SumFunctionOnSet(f, T) = f[Picked(T)] + SumFunctionOnSet(f, T \ {Picked(T)})
          /\ SumFunctionOnSet(g, T) = g[Picked(T)] + SumFunctionOnSet(g, T \ {Picked(T)})
      BY <2>2, <3>1, SumRest
    <3>3. SumFunctionOnSet(f, T \ {Picked(T)}) = SumFunctionOnSet(g, T \ {Picked(T)})
      BY <1>1, <3>2
    <3> QED BY <3>2, <3>3
  <2> QED BY <2>1, <2>2
<1>2. SUBSET S \subseteq P
  <2> HIDE DEF P
  <2> QED BY <1>1, SetInduction
<1> QED BY <1>2

\* The sum when one value changes.
LEMMA SumChanges ==
    ASSUME NEW f, NEW g, NEW S, IsFiniteSet(S), NEW y \in S,
           \A x \in S : f[x] \in Int /\ g[x] \in Int,
           \A x \in S : x # y => g[x] = f[x]
    PROVE  SumFunctionOnSet(g, S) = SumFunctionOnSet(f, S) + g[y] - f[y]
<1> DEFINE r == S \ {y}
<1>1. IsFiniteSet(r) /\ \A x \in r : f[x] \in Int /\ f[x] = g[x]
  BY FS_Subset
<1>2. /\ SumFunctionOnSet(f, S) = f[y] + SumFunctionOnSet(f, r)
      /\ SumFunctionOnSet(g, S) = g[y] + SumFunctionOnSet(g, r)
  BY SumWithout
<1> HIDE DEF r
<1>3. SumFunctionOnSet(f, r) \in Int /\ SumFunctionOnSet(f, r) = SumFunctionOnSet(g, r)
  BY <1>1, SumTyped, SumSame
<1> QED BY <1>2, <1>3

\* The sum of a function that adds two others.
LEMMA SumOfBoth ==
    ASSUME NEW f, NEW g, NEW h, NEW S, IsFiniteSet(S),
           \A x \in S : f[x] \in Int /\ g[x] \in Int /\ h[x] = f[x] + g[x]
    PROVE  SumFunctionOnSet(h, S) = SumFunctionOnSet(f, S) + SumFunctionOnSet(g, S)
<1> DEFINE P == {T \in SUBSET S :
                    SumFunctionOnSet(h, T) = SumFunctionOnSet(f, T) + SumFunctionOnSet(g, T)}
<1>1. ASSUME NEW T \in SUBSET S, \A U \in SUBSET T : U # T => U \in P
      PROVE  T \in P
  <2>1. CASE T = {}
    BY <2>1, SumNothing
  <2>2. CASE T # {}
    <3> DEFINE p == Picked(T)
               r == T \ {p}
    <3>1. IsFiniteSet(T)
      BY FS_Subset
    <3>2. /\ p \in T
          /\ SumFunctionOnSet(f, T) = f[p] + SumFunctionOnSet(f, r)
          /\ SumFunctionOnSet(g, T) = g[p] + SumFunctionOnSet(g, r)
          /\ SumFunctionOnSet(h, T) = h[p] + SumFunctionOnSet(h, r)
      BY <2>2, <3>1, SumRest
    <3>3. SumFunctionOnSet(h, r) = SumFunctionOnSet(f, r) + SumFunctionOnSet(g, r)
      BY <1>1, <3>2
    <3>4. IsFiniteSet(r) /\ \A x \in r : f[x] \in Int /\ g[x] \in Int
      BY <3>1, FS_Subset
    <3> HIDE DEF r
    <3>5. SumFunctionOnSet(f, r) \in Int /\ SumFunctionOnSet(g, r) \in Int
      BY <3>4, SumTyped
    <3>6. f[p] \in Int /\ g[p] \in Int /\ h[p] = f[p] + g[p]
      BY <3>2
    <3> HIDE DEF p
    <3> QED BY <3>2, <3>3, <3>5, <3>6
  <2> QED BY <2>1, <2>2
<1>2. SUBSET S \subseteq P
  <2> HIDE DEF P
  <2> QED BY <1>1, SetInduction
<1> QED BY <1>2

LEMMA SumZero ==
    ASSUME NEW f, NEW S, IsFiniteSet(S), \A x \in S : f[x] = 0
    PROVE  SumFunctionOnSet(f, S) = 0
<1>1. SumFunctionOnSet(f, S) \in Int
  BY SumTyped
<1>2. SumFunctionOnSet(f, S) = SumFunctionOnSet(f, S) + SumFunctionOnSet(f, S)
  BY SumOfBoth
<1> DEFINE a == SumFunctionOnSet(f, S)
<1>3. a \in Int /\ a = a + a
  BY <1>1, <1>2
<1> HIDE DEF a
<1>4. a = 0
  BY <1>3
<1> QED BY <1>4 DEF a
-----------------------------------------------------------------------------
\* Counting up: what holds at 0 and goes on holding holds at n.
LEMMA UpToInduction ==
    ASSUME NEW n \in Nat, NEW P, 0 \in P, \A i \in 0 .. n - 1 : i \in P => i + 1 \in P
    PROVE  n \in P
<1> DEFINE S == {i \in 0 .. n : \A j \in 0 .. i : j \in P}
<1>1. IsFiniteSet(0 .. n)
  BY FS_Interval
<1>2. IsFiniteSet(S) /\ S \subseteq Int
  BY <1>1, FS_Subset
<1>3. 0 \in S
  OBVIOUS
<1>4. PICK m \in S : \A i \in S : i <= m
  BY <1>2, <1>3, GreatestExists
<1>5. CASE m = n
  BY <1>4, <1>5
<1>6. CASE m # n
  <2>1. m \in 0 .. n - 1 /\ m \in P
    BY <1>4, <1>6
  <2>2. m + 1 \in P
    BY <2>1
  <2>3. \A j \in 0 .. m + 1 : j \in P
    BY <1>4, <2>1, <2>2
  <2>4. m + 1 \in S
    BY <2>1, <2>3
  <2>5. m + 1 <= m
    BY <1>4, <2>4
  <2> QED
    BY <2>1, <2>5
<1> QED
  BY <1>5, <1>6
=============================================================================
