----------------------------- MODULE FiniteSums --------------------------------
(***************************************************************************)
(* Facts about the sum of a function's values over a finite set, which the *)
(* figures of the other modules are.  The finite sets are well founded     *)
(* under strict inclusion: each fact is shown by looking at a smallest set *)
(* it could fail for.                                                      *)
(***************************************************************************)
EXTENDS Integers, FiniteSets, Functions, FiniteSetTheorems, WellFoundedInduction, TLAPS

\* Among some subsets of a finite set there is one none of them is part of.
LEMMA SmallestSubset ==
    ASSUME NEW S, IsFiniteSet(S), NEW T, T \subseteq SUBSET S, T # {}
    PROVE  \E x \in T : \A y \in T : ~(y \subseteq x /\ y # x)
<1>1. IsWellFoundedOn(StrictSubsetOrdering(S), FiniteSubsetsOf(S))
  BY FS_StrictSubsetOrderingWellFounded
<1>2. FiniteSubsetsOf(S) = SUBSET S
  BY FS_FiniteSubsetsOfFinite
<1>3. \E x \in T : \A y \in T : ~(<<y, x>> \in StrictSubsetOrdering(S))
  BY <1>1, <1>2, WFMin
<1> QED BY <1>3 DEF StrictSubsetOrdering

\* Among some natural numbers there is a smallest, and a greatest if they are bounded.
LEMMA SmallestNumber ==
    ASSUME NEW T, T \subseteq Nat, T # {} PROVE \E x \in T : \A y \in T : x <= y
<1>1. PICK n \in T : TRUE
  OBVIOUS
<1> DEFINE below == {0 .. x : x \in {y \in T : y <= n}}
<1>2. below \subseteq SUBSET (0 .. n) /\ 0 .. n \in below
  OBVIOUS
<1>3. IsFiniteSet(0 .. n)
  BY <1>1, FS_Interval
<1>4. PICK b \in below : \A c \in below : ~(c \subseteq b /\ c # b)
  <2> DEFINE interval == 0 .. n
  <2>1. below \subseteq SUBSET interval /\ IsFiniteSet(interval) /\ below # {}
    BY <1>2, <1>3
  <2> HIDE DEF below, interval
  <2> QED BY <2>1, SmallestSubset
<1>5. PICK x \in T : b = 0 .. x /\ x <= n
  OBVIOUS
<1>6. ASSUME NEW y \in T PROVE x <= y
  <2> SUFFICES ASSUME y < x PROVE FALSE
    OBVIOUS
  <2>1. y \in Nat /\ x \in Nat /\ n \in Nat
    OBVIOUS
  <2>2. y <= n
    BY <1>5, <2>1
  <2>3. 0 .. y \in below
    BY <2>2
  <2>4. 0 .. y \subseteq 0 .. x /\ x \in 0 .. x /\ x \notin 0 .. y
    BY <2>1
  <2> HIDE DEF below
  <2> QED BY <1>4, <1>5, <2>3, <2>4
<1> QED BY <1>6

LEMMA GreatestNumber ==
    ASSUME NEW n \in Nat, NEW T, T \subseteq 0 .. n, T # {} PROVE \E x \in T : \A y \in T : y <= x
<1> DEFINE above == {m \in 0 .. n : \A y \in T : y <= m}
<1>1. above \subseteq Nat /\ n \in above
  OBVIOUS
<1>2. PICK x \in above : \A m \in above : x <= m
  <2> HIDE DEF above
  <2> QED BY <1>1, SmallestNumber
<1>3. x \in T
  <2> SUFFICES ASSUME x \notin T PROVE FALSE
    OBVIOUS
  <2>1. \A y \in T : y <= x - 1
    BY <1>2
  <2>2. PICK y \in T : y \in 0 .. n
    OBVIOUS
  <2>3. x - 1 \in above
    BY <2>1, <2>2
  <2> QED BY <1>2, <2>3
<1> QED BY <1>2, <1>3

(***************************************************************************)
(* The recursion behind a sum has one solution.                            *)
(***************************************************************************)

Some(s) == CHOOSE x \in s : TRUE

\* g adds up f over every subset of S.
Adds(g, f, S) ==
    g = [s \in SUBSET S |-> IF s = {} THEN 0 ELSE f[Some(s)] + g[s \ {Some(s)}]]

\* A sum over a set is read off the function that adds up over its subsets.
LEMMA SumIsChosen ==
    ASSUME NEW f, NEW S
    PROVE  SumFunctionOnSet(f, S) = (CHOOSE x : Adds(x, f, S))[S]
BY DEF SumFunctionOnSet, FoldFunctionOnSet, MapThenFoldSet, Adds, Some

\* Two functions that add up f agree on every finite set both are defined for.
LEMMA AddsOneWay ==
    ASSUME NEW f, NEW S, NEW T, NEW g, NEW h, Adds(g, f, S), Adds(h, f, T),
           NEW W, IsFiniteSet(W), W \subseteq S, W \subseteq T
    PROVE  g[W] = h[W]
<1> DEFINE apart == {s \in SUBSET W : g[s] # h[s]}
<1> SUFFICES ASSUME apart # {} PROVE FALSE
  OBVIOUS
<1>1. PICK s \in apart : \A y \in apart : ~(y \subseteq s /\ y # s)
  <2>1. apart \subseteq SUBSET W
    OBVIOUS
  <2> HIDE DEF apart
  <2> QED BY <2>1, SmallestSubset
<1>2. s \in SUBSET S /\ s \in SUBSET T
  OBVIOUS
<1>3. CASE s = {}
  BY <1>2, <1>3 DEF Adds
<1>4. CASE s # {}
  <2>1. Some(s) \in s
    BY <1>4 DEF Some
  <2>2. g[s \ {Some(s)}] = h[s \ {Some(s)}]
    BY <1>1, <2>1
  <2>3. g[s] = f[Some(s)] + g[s \ {Some(s)}]
    BY <1>2, <1>4 DEF Adds
  <2>4. h[s] = f[Some(s)] + h[s \ {Some(s)}]
    BY <1>2, <1>4 DEF Adds
  <2> QED BY <2>2, <2>3, <2>4
<1> QED BY <1>3, <1>4

\* Over a finite set there is one.
LEMMA AddsSomehow ==
    ASSUME NEW f, NEW S, IsFiniteSet(S)
    PROVE  \E g : Adds(g, f, S)
<1> DEFINE without == {s \in SUBSET S : ~ \E g : Adds(g, f, s)}
<1> SUFFICES ASSUME without # {} PROVE FALSE
  OBVIOUS
<1>1. PICK T \in without : \A y \in without : ~(y \subseteq T /\ y # T)
  <2>1. without \subseteq SUBSET S
    OBVIOUS
  <2> HIDE DEF without
  <2> QED BY <2>1, SmallestSubset
<1> DEFINE sum(s) == (CHOOSE x : Adds(x, f, s))[s]
           rest(s) == s \ {Some(s)}
           h == [s \in SUBSET T |-> IF s = {} THEN 0 ELSE f[Some(s)] + sum(rest(s))]
<1>2. ASSUME NEW s \in SUBSET T, s # T
      PROVE  Adds(CHOOSE x : Adds(x, f, s), f, s)
  BY <1>1, <1>2
<1>3. ASSUME NEW s \in SUBSET T, s # {}
      PROVE  rest(s) \in SUBSET T /\ rest(s) # T /\ Some(s) \in s
  BY <1>3 DEF Some
<1>4. ASSUME NEW s \in SUBSET T, s # T
      PROVE  h[s] = sum(s)
  <2>1. CASE s = {}
    <3> DEFINE g == CHOOSE x : Adds(x, f, s)
    <3>1. Adds(g, f, s)
      BY <1>2, <1>4
    <3>2. g[s] = 0
      <4> HIDE DEF g
      <4> QED BY <2>1, <3>1 DEF Adds
    <3>3. h[s] = 0
      BY <2>1
    <3> QED BY <3>2, <3>3
  <2>2. CASE s # {}
    <3> DEFINE g == CHOOSE x : Adds(x, f, s)
               k == CHOOSE x : Adds(x, f, rest(s))
    <3>1. Adds(g, f, s)
      BY <1>2, <1>4
    <3>2. Adds(k, f, rest(s))
      BY <1>2, <1>3, <2>2
    <3>3. g[s] = f[Some(s)] + g[rest(s)]
      BY <2>2, <3>1 DEF Adds
    <3>4. IsFiniteSet(rest(s))
      BY FS_Subset
    <3>5. g[rest(s)] = k[rest(s)]
      <4> HIDE DEF g, k
      <4> QED BY <3>1, <3>2, <3>4, AddsOneWay
    <3> QED BY <2>2, <3>3, <3>5
  <2> QED BY <2>1, <2>2
<1>5. Adds(h, f, T)
  <2>1. ASSUME NEW s \in SUBSET T, s # {}
        PROVE  h[s] = f[Some(s)] + h[rest(s)]
    BY <1>3, <1>4, <2>1
  <2>2. h = [s \in SUBSET T |-> h[s]]
    OBVIOUS
  <2>3. h[{}] = 0
    OBVIOUS
  <2> HIDE DEF h
  <2> QED BY <2>1, <2>2, <2>3 DEF Adds
<1> QED BY <1>1, <1>5

(***************************************************************************)
(* What a sum is.                                                          *)
(***************************************************************************)

\* Nothing adds up to zero.
LEMMA SumOfNothing == \A f : SumFunctionOnSet(f, {}) = 0
<1> SUFFICES ASSUME NEW f PROVE SumFunctionOnSet(f, {}) = 0
  OBVIOUS
<1> DEFINE g == CHOOSE x : Adds(x, f, {})
<1>1. Adds(g, f, {})
  BY AddsSomehow, FS_EmptySet
<1>2. g[{}] = 0
  <2> HIDE DEF g
  <2> QED BY <1>1 DEF Adds
<1> QED BY <1>2, SumIsChosen

\* The recursion, unfolded once.
LEMMA SumFromSome ==
    ASSUME NEW f, NEW S, IsFiniteSet(S), S # {}
    PROVE  SumFunctionOnSet(f, S) = f[Some(S)] + SumFunctionOnSet(f, S \ {Some(S)})
<1> DEFINE rest == S \ {Some(S)}
           g == CHOOSE x : Adds(x, f, S)
           h == CHOOSE x : Adds(x, f, rest)
<1>1. IsFiniteSet(rest)
  BY FS_Subset
<1>2. Adds(g, f, S)
  BY AddsSomehow
<1>3. Adds(h, f, rest)
  BY <1>1, AddsSomehow
<1>4. g[S] = f[Some(S)] + g[rest]
  <2> HIDE DEF g
  <2> QED BY <1>2 DEF Adds
<1>5. g[rest] = h[rest]
  <2> HIDE DEF g, h
  <2> QED BY <1>1, <1>2, <1>3, AddsOneWay
<1>6. SumFunctionOnSet(f, S) = g[S] /\ SumFunctionOnSet(f, rest) = h[rest]
  BY SumIsChosen
<1> QED BY <1>4, <1>5, <1>6

\* Amounts, be they losses too, add up to one.
LEMMA SumIsInt ==
    ASSUME NEW S, IsFiniteSet(S), NEW f, \A x \in S : f[x] \in Int
    PROVE  SumFunctionOnSet(f, S) \in Int
<1> DEFINE bad == {T \in SUBSET S : SumFunctionOnSet(f, T) \notin Int}
<1> SUFFICES ASSUME bad # {} PROVE FALSE
  OBVIOUS
<1>1. PICK T \in bad : \A y \in bad : ~(y \subseteq T /\ y # T)
  <2>1. bad \subseteq SUBSET S
    OBVIOUS
  <2> HIDE DEF bad
  <2> QED BY <2>1, SmallestSubset
<1>2. T # {}
  BY SumOfNothing
<1>3. Some(T) \in T /\ IsFiniteSet(T)
  BY <1>2, FS_Subset DEF Some
<1>4. SumFunctionOnSet(f, T \ {Some(T)}) \in Int
  BY <1>1, <1>3
<1>5. SumFunctionOnSet(f, T) = f[Some(T)] + SumFunctionOnSet(f, T \ {Some(T)})
  BY <1>2, <1>3, SumFromSome
<1> QED BY <1>3, <1>4, <1>5

\* Any element may be taken out.
LEMMA SumFromAny ==
    ASSUME NEW S, IsFiniteSet(S), NEW f, \A x \in S : f[x] \in Int, NEW a \in S
    PROVE  SumFunctionOnSet(f, S) = f[a] + SumFunctionOnSet(f, S \ {a})
<1> DEFINE sum(T) == SumFunctionOnSet(f, T)
           bad == {T \in SUBSET S : \E x \in T : sum(T) # f[x] + sum(T \ {x})}
<1> SUFFICES ASSUME bad # {} PROVE FALSE
  OBVIOUS
<1>1. PICK T \in bad : \A y \in bad : ~(y \subseteq T /\ y # T)
  <2>1. bad \subseteq SUBSET S
    OBVIOUS
  <2> HIDE DEF bad
  <2> QED BY <2>1, SmallestSubset
<1>2. PICK x \in T : sum(T) # f[x] + sum(T \ {x})
  OBVIOUS
<1> DEFINE c == Some(T)
<1>3. c \in T
  BY DEF Some
<1>4. \A U \in SUBSET S : IsFiniteSet(U) /\ sum(U) \in Int
  <2> SUFFICES ASSUME NEW U \in SUBSET S PROVE IsFiniteSet(U) /\ sum(U) \in Int
    OBVIOUS
  <2>1. IsFiniteSet(U)
    BY FS_Subset
  <2> QED BY <2>1, SumIsInt
<1>5. sum(T) = f[c] + sum(T \ {c})
  BY <1>4, SumFromSome
<1>6. c # x
  BY <1>2, <1>5
<1>7. \A U \in SUBSET T : U # T => \A y \in U : sum(U) = f[y] + sum(U \ {y})
  BY <1>1
<1>8. sum(T \ {c}) = f[x] + sum((T \ {c}) \ {x})
  <2>1. T \ {c} \in SUBSET T /\ T \ {c} # T /\ x \in T \ {c}
    BY <1>3, <1>6
  <2> HIDE DEF sum, c
  <2> QED BY <1>7, <2>1
<1>9. sum(T \ {x}) = f[c] + sum((T \ {c}) \ {x})
  <2>1. T \ {x} \in SUBSET T /\ T \ {x} # T /\ c \in T \ {x}
    BY <1>3, <1>6
  <2>2. (T \ {x}) \ {c} = (T \ {c}) \ {x}
    OBVIOUS
  <2> HIDE DEF sum, c
  <2> QED BY <1>7, <2>1, <2>2
<1>10. f[c] \in Int /\ f[x] \in Int /\ sum((T \ {c}) \ {x}) \in Int
  BY <1>3, <1>4
<1> DEFINE both == sum((T \ {c}) \ {x})
<1>11. sum(T) = f[c] + (f[x] + both) /\ sum(T \ {x}) = f[c] + both /\ both \in Int
  BY <1>5, <1>8, <1>9, <1>10
<1> HIDE DEF sum, c, both
<1> QED BY <1>2, <1>10, <1>11

\* Two parts of a set add up to the whole.
LEMMA SumOfParts ==
    ASSUME NEW S, IsFiniteSet(S), NEW f, \A x \in S : f[x] \in Int, NEW A \in SUBSET S
    PROVE  SumFunctionOnSet(f, S) = SumFunctionOnSet(f, A) + SumFunctionOnSet(f, S \ A)
<1> DEFINE sum(T) == SumFunctionOnSet(f, T)
           bad == {T \in SUBSET A : sum(S) # sum(T) + sum(S \ T)}
<1> SUFFICES ASSUME bad # {} PROVE FALSE
  OBVIOUS
<1>1. PICK T \in bad : \A y \in bad : ~(y \subseteq T /\ y # T)
  <2>1. bad \subseteq SUBSET S
    OBVIOUS
  <2> HIDE DEF bad
  <2> QED BY <2>1, SmallestSubset
<1>2. \A U \in SUBSET S : IsFiniteSet(U) /\ sum(U) \in Int
  <2> SUFFICES ASSUME NEW U \in SUBSET S PROVE IsFiniteSet(U) /\ sum(U) \in Int
    OBVIOUS
  <2>1. IsFiniteSet(U)
    BY FS_Subset
  <2> QED BY <2>1, SumIsInt
<1>3. T # {}
  <2>1. sum({}) = 0 /\ S \ {} = S /\ sum(S) \in Int
    BY <1>2, SumOfNothing
  <2> HIDE DEF sum
  <2> QED BY <2>1
<1>4. PICK c \in T : TRUE
  BY <1>3
<1> DEFINE U == T \ {c}
<1>5. sum(S) = sum(U) + sum(S \ U)
  BY <1>1
<1>6. sum(T) = f[c] + sum(U)
  <2>1. IsFiniteSet(T) /\ \A x \in T : f[x] \in Int
    BY <1>2
  <2> QED BY <2>1, SumFromAny
<1>7. sum(S \ U) = f[c] + sum(S \ T)
  <2>1. IsFiniteSet(S \ U) /\ (\A x \in S \ U : f[x] \in Int) /\ c \in S \ U
    BY <1>2
  <2>2. (S \ U) \ {c} = S \ T
    OBVIOUS
  <2> QED BY <2>1, <2>2, SumFromAny
<1>8. f[c] \in Int /\ sum(U) \in Int /\ sum(S \ T) \in Int /\ sum(S) # sum(T) + sum(S \ T)
  BY <1>2
<1> HIDE DEF sum, U
<1> QED BY <1>5, <1>6, <1>7, <1>8

\* A sum looks at the values over its set alone.
LEMMA SumIsOfValues ==
    ASSUME NEW S, IsFiniteSet(S), NEW f, NEW g, \A x \in S : f[x] = g[x]
    PROVE  SumFunctionOnSet(f, S) = SumFunctionOnSet(g, S)
<1> DEFINE bad == {T \in SUBSET S : SumFunctionOnSet(f, T) # SumFunctionOnSet(g, T)}
<1> SUFFICES ASSUME bad # {} PROVE FALSE
  OBVIOUS
<1>1. PICK T \in bad : \A y \in bad : ~(y \subseteq T /\ y # T)
  <2>1. bad \subseteq SUBSET S
    OBVIOUS
  <2> HIDE DEF bad
  <2> QED BY <2>1, SmallestSubset
<1>2. T # {}
  BY SumOfNothing
<1>3. Some(T) \in T /\ IsFiniteSet(T)
  BY <1>2, FS_Subset DEF Some
<1>4. SumFunctionOnSet(f, T \ {Some(T)}) = SumFunctionOnSet(g, T \ {Some(T)})
  BY <1>1, <1>3
<1>5. SumFunctionOnSet(f, T) = f[Some(T)] + SumFunctionOnSet(f, T \ {Some(T)})
  BY <1>2, <1>3, SumFromSome
<1>6. SumFunctionOnSet(g, T) = g[Some(T)] + SumFunctionOnSet(g, T \ {Some(T)})
  BY <1>2, <1>3, SumFromSome
<1> QED BY <1>3, <1>4, <1>5, <1>6

\* Where there is nothing negative no part exceeds the whole.
LEMMA SumIsNat ==
    ASSUME NEW S, IsFiniteSet(S), NEW f, \A x \in S : f[x] \in Nat
    PROVE  /\ SumFunctionOnSet(f, S) \in Nat
           /\ \A x \in S : f[x] <= SumFunctionOnSet(f, S)
<1> DEFINE bad == {T \in SUBSET S : SumFunctionOnSet(f, T) \notin Nat}
<1>1. \A x \in S : f[x] \in Int
  OBVIOUS
<1>2. bad = {}
  <2> SUFFICES ASSUME bad # {} PROVE FALSE
    OBVIOUS
  <2>1. PICK T \in bad : \A y \in bad : ~(y \subseteq T /\ y # T)
    <3>1. bad \subseteq SUBSET S
      OBVIOUS
    <3> HIDE DEF bad
    <3> QED BY <3>1, SmallestSubset
  <2>2. T # {}
    BY SumOfNothing
  <2>3. Some(T) \in T /\ IsFiniteSet(T)
    BY <2>2, FS_Subset DEF Some
  <2>4. SumFunctionOnSet(f, T \ {Some(T)}) \in Nat
    BY <2>1, <2>3
  <2>5. SumFunctionOnSet(f, T) = f[Some(T)] + SumFunctionOnSet(f, T \ {Some(T)})
    BY <2>2, <2>3, SumFromSome
  <2> QED BY <2>3, <2>4, <2>5
<1>3. ASSUME NEW x \in S PROVE f[x] <= SumFunctionOnSet(f, S)
  <2>1. SumFunctionOnSet(f, S) = f[x] + SumFunctionOnSet(f, S \ {x})
    BY <1>1, SumFromAny
  <2>2. SumFunctionOnSet(f, S \ {x}) \in Nat
    BY <1>2
  <2> QED BY <2>1, <2>2
<1> QED BY <1>2, <1>3

\* A number of values none of which exceeds a bound.
LEMMA SumIsBounded ==
    ASSUME NEW S, IsFiniteSet(S), NEW b \in Nat, NEW f, \A x \in S : f[x] \in 0 .. b
    PROVE  SumFunctionOnSet(f, S) \in 0 .. b * Cardinality(S)
<1> DEFINE sum(T) == SumFunctionOnSet(f, T)
           bad == {T \in SUBSET S : ~(sum(T) <= b * Cardinality(T))}
<1>1. \A T \in SUBSET S : IsFiniteSet(T) /\ sum(T) \in Nat /\ Cardinality(T) \in Nat
  <2> SUFFICES ASSUME NEW T \in SUBSET S
               PROVE  IsFiniteSet(T) /\ sum(T) \in Nat /\ Cardinality(T) \in Nat
    OBVIOUS
  <2>1. IsFiniteSet(T)
    BY FS_Subset
  <2>2. \A x \in T : f[x] \in Nat
    OBVIOUS
  <2> QED BY <2>1, <2>2, SumIsNat, FS_CardinalityType
<1>2. bad = {}
  <2> SUFFICES ASSUME bad # {} PROVE FALSE
    OBVIOUS
  <2>1. PICK T \in bad : \A y \in bad : ~(y \subseteq T /\ y # T)
    <3>1. bad \subseteq SUBSET S
      OBVIOUS
    <3> HIDE DEF bad
    <3> QED BY <3>1, SmallestSubset
  <2>2. T # {}
    <3>1. sum({}) = 0 /\ Cardinality({}) = 0
      BY SumOfNothing, FS_EmptySet
    <3> HIDE DEF sum
    <3> QED BY <3>1
  <2>3. Some(T) \in T /\ IsFiniteSet(T)
    BY <1>1, <2>2 DEF Some
  <2> DEFINE U == T \ {Some(T)}
  <2>4. sum(T) = f[Some(T)] + sum(U)
    BY <2>2, <2>3, SumFromSome
  <2>5. Cardinality(U) = Cardinality(T) - 1
    BY <2>3, FS_RemoveElement
  <2>6. sum(U) <= b * Cardinality(U)
    BY <2>1, <2>3
  <2>7. f[Some(T)] \in 0 .. b /\ sum(U) \in Nat /\ sum(T) \in Nat
        /\ Cardinality(T) \in Nat /\ ~(sum(T) <= b * Cardinality(T))
    BY <1>1, <2>3
  <2>8. b * Cardinality(T) = b * (Cardinality(T) - 1) + b /\ b * (Cardinality(T) - 1) \in Int
    BY <2>7
  <2> HIDE DEF sum, U
  <2> DEFINE n == b * Cardinality(T)
             m == b * (Cardinality(T) - 1)
  <2>9. n = m + b /\ m \in Int /\ sum(U) <= m /\ ~(sum(T) <= n)
    BY <2>5, <2>6, <2>7, <2>8
  <2> HIDE DEF n, m
  <2> QED BY <2>4, <2>7, <2>9
<1>3. sum(S) <= b * Cardinality(S) /\ sum(S) \in Nat /\ b * Cardinality(S) \in Int
  BY <1>1, <1>2
<1> HIDE DEF sum
<1> QED BY <1>3 DEF sum

\* Zeros add up to zero.
LEMMA SumOfZeros ==
    ASSUME NEW S, IsFiniteSet(S), NEW f, \A x \in S : f[x] = 0
    PROVE  SumFunctionOnSet(f, S) = 0
<1> DEFINE bad == {T \in SUBSET S : SumFunctionOnSet(f, T) # 0}
<1> SUFFICES ASSUME bad # {} PROVE FALSE
  OBVIOUS
<1>1. PICK T \in bad : \A y \in bad : ~(y \subseteq T /\ y # T)
  <2>1. bad \subseteq SUBSET S
    OBVIOUS
  <2> HIDE DEF bad
  <2> QED BY <2>1, SmallestSubset
<1>2. T # {}
  BY SumOfNothing
<1>3. Some(T) \in T /\ IsFiniteSet(T)
  BY <1>2, FS_Subset DEF Some
<1>4. SumFunctionOnSet(f, T \ {Some(T)}) = 0
  BY <1>1, <1>3
<1>5. SumFunctionOnSet(f, T) = f[Some(T)] + SumFunctionOnSet(f, T \ {Some(T)})
  BY <1>2, <1>3, SumFromSome
<1> QED BY <1>3, <1>4, <1>5

\* What is not part of A adds nothing.
LEMMA SumOfPart ==
    ASSUME NEW S, IsFiniteSet(S), NEW A \in SUBSET S,
           NEW f, \A x \in S : f[x] \in Int, \A x \in S \ A : f[x] = 0
    PROVE  SumFunctionOnSet(f, S) = SumFunctionOnSet(f, A)
<1>1. IsFiniteSet(A) /\ IsFiniteSet(S \ A)
  BY FS_Subset
<1>2. SumFunctionOnSet(f, S \ A) = 0
  BY <1>1, SumOfZeros
<1>3. SumFunctionOnSet(f, A) \in Int
  BY <1>1, SumIsInt
<1>4. SumFunctionOnSet(f, S) = SumFunctionOnSet(f, A) + SumFunctionOnSet(f, S \ A)
  BY SumOfParts
<1> QED BY <1>2, <1>3, <1>4

\* Values none of which is greater add up to no more.
LEMMA SumGrows ==
    ASSUME NEW S, IsFiniteSet(S), NEW f, NEW g,
           \A x \in S : f[x] \in Int /\ g[x] \in Int /\ f[x] <= g[x]
    PROVE  SumFunctionOnSet(f, S) <= SumFunctionOnSet(g, S)
<1> DEFINE bad == {T \in SUBSET S : ~(SumFunctionOnSet(f, T) <= SumFunctionOnSet(g, T))}
<1> SUFFICES ASSUME bad # {} PROVE FALSE
  OBVIOUS
<1>1. PICK T \in bad : \A y \in bad : ~(y \subseteq T /\ y # T)
  <2>1. bad \subseteq SUBSET S
    OBVIOUS
  <2> HIDE DEF bad
  <2> QED BY <2>1, SmallestSubset
<1>2. T # {}
  BY SumOfNothing
<1>3. Some(T) \in T /\ IsFiniteSet(T)
  BY <1>2, FS_Subset DEF Some
<1> DEFINE rest == T \ {Some(T)}
<1>4. SumFunctionOnSet(f, rest) <= SumFunctionOnSet(g, rest)
  BY <1>1, <1>3
<1>5. /\ SumFunctionOnSet(f, T) = f[Some(T)] + SumFunctionOnSet(f, rest)
      /\ SumFunctionOnSet(g, T) = g[Some(T)] + SumFunctionOnSet(g, rest)
  BY <1>2, <1>3, SumFromSome
<1>6. SumFunctionOnSet(f, rest) \in Int /\ SumFunctionOnSet(g, rest) \in Int
  <2>1. IsFiniteSet(rest) /\ rest \subseteq S
    BY <1>3, FS_Subset
  <2> HIDE DEF rest
  <2> QED BY <2>1, SumIsInt
<1>7. f[Some(T)] \in Int /\ g[Some(T)] \in Int /\ f[Some(T)] <= g[Some(T)]
  BY <1>3
<1>8. ~(SumFunctionOnSet(f, T) <= SumFunctionOnSet(g, T))
  OBVIOUS
<1> HIDE DEF rest, bad
<1> QED BY <1>4, <1>5, <1>6, <1>7, <1>8

\* A function written out over a set adds up as the values it is written from.
LEMMA SumIsOfSet ==
    ASSUME NEW S, IsFiniteSet(S), NEW f
    PROVE  SumFunction([x \in S |-> f[x]]) = SumFunctionOnSet(f, S)
<1> DEFINE g == [x \in S |-> f[x]]
<1>1. SumFunction(g) = SumFunctionOnSet(g, S)
  BY DEF SumFunction
<1>2. \A x \in S : f[x] = g[x]
  OBVIOUS
<1>3. SumFunctionOnSet(f, S) = SumFunctionOnSet(g, S)
  <2> HIDE DEF g
  <2> QED BY <1>2, SumIsOfValues
<1> QED BY <1>1, <1>3

\* Added up group by group, each element in one, a set adds up to the same.
LEMMA SumOfGroups ==
    ASSUME NEW S, IsFiniteSet(S), NEW f, \A x \in S : f[x] \in Int,
           NEW K, IsFiniteSet(K), NEW h, \A x \in S : h[x] \in K
    PROVE  SumFunction([k \in K |-> SumFunctionOnSet(f, {x \in S : h[x] = k})])
           = SumFunctionOnSet(f, S)
<1> DEFINE of(T) == SumFunctionOnSet(f, {x \in S : h[x] \in T})
           g == [k \in K |-> SumFunctionOnSet(f, {x \in S : h[x] = k})]
           sum(T) == SumFunctionOnSet(g, T)
           bad == {T \in SUBSET K : sum(T) # of(T)}
<1>1. ASSUME NEW R \in SUBSET S PROVE IsFiniteSet(R) /\ SumFunctionOnSet(f, R) \in Int
  <2>1. IsFiniteSet(R)
    BY FS_Subset
  <2> QED BY <2>1, SumIsInt
<1>2. bad = {}
  <2> SUFFICES ASSUME bad # {} PROVE FALSE
    OBVIOUS
  <2>1. PICK T \in bad : \A y \in bad : ~(y \subseteq T /\ y # T)
    <3>1. bad \subseteq SUBSET K
      OBVIOUS
    <3> HIDE DEF bad
    <3> QED BY <3>1, SmallestSubset
  <2>2. T \subseteq K /\ sum(T) # of(T)
    OBVIOUS
  <2>3. T # {}
    <3>1. sum({}) = 0 /\ of({}) = 0
      <4>1. {x \in S : h[x] \in {}} = {}
        OBVIOUS
      <4> HIDE DEF g
      <4> QED BY <4>1, SumOfNothing
    <3> HIDE DEF sum, of
    <3> QED BY <2>2, <3>1
  <2>4. PICK c \in T : TRUE
    BY <2>3
  <2> DEFINE U == T \ {c}
             all == {x \in S : h[x] \in T}
             mine == {x \in S : h[x] = c}
  <2>5. sum(U) = of(U)
    <3>1. U \in SUBSET K /\ U \subseteq T /\ U # T
      BY <2>2, <2>4
    <3> HIDE DEF sum, of, U
    <3> QED BY <2>1, <3>1
  <2>6. sum(T) = g[c] + sum(U)
    <3>1. IsFiniteSet(T)
      BY <2>2, FS_Subset
    <3>2. \A k \in K : g[k] \in Int
      BY <1>1
    <3> HIDE DEF g
    <3> QED BY <2>2, <2>4, <3>1, <3>2, SumFromAny
  <2>7. of(T) = SumFunctionOnSet(f, mine) + of(U)
    <3>1. all \in SUBSET S /\ mine \in SUBSET all /\ all \ mine = {x \in S : h[x] \in U}
      BY <2>4
    <3> HIDE DEF all, mine
    <3>2. SumFunctionOnSet(f, all) = SumFunctionOnSet(f, mine) + SumFunctionOnSet(f, all \ mine)
      BY <1>1, <3>1, SumOfParts
    <3> QED BY <3>1, <3>2 DEF all
  <2>8. g[c] = SumFunctionOnSet(f, mine)
    BY <2>2, <2>4
  <2> HIDE DEF sum, of, U, mine, g
  <2> QED BY <2>2, <2>5, <2>6, <2>7, <2>8
<1>3. sum(K) = of(K)
  <2> HIDE DEF sum, of
  <2> QED BY <1>2
<1>4. of(K) = SumFunctionOnSet(f, S)
  <2>1. {x \in S : h[x] \in K} = S
    OBVIOUS
  <2> QED BY <2>1
<1>5. SumFunction(g) = sum(K)
  BY DEF SumFunction
<1> QED BY <1>3, <1>4, <1>5

LEMMA SumOfOne == ASSUME NEW f, NEW x, f[x] \in Int PROVE SumFunctionOnSet(f, {x}) = f[x]
<1>1. IsFiniteSet({x}) /\ (\A y \in {x} : f[y] \in Int) /\ {x} \ {x} = {}
  BY FS_Singleton
<1>2. SumFunctionOnSet(f, {x}) = f[x] + SumFunctionOnSet(f, {x} \ {x})
  BY <1>1, SumFromAny
<1>3. SumFunctionOnSet(f, {x} \ {x}) = 0
  BY <1>1, SumOfNothing
<1> QED BY <1>2, <1>3

\* Added up by what they are named by, different things add up to the same.
LEMMA SumOfNamed ==
    ASSUME NEW D, IsFiniteSet(D), NEW g, \A d, e \in D : g[d] = g[e] => d = e,
           NEW f, \A d \in D : f[g[d]] \in Int
    PROVE  SumFunctionOnSet(f, {g[d] : d \in D}) = SumFunction([d \in D |-> f[g[d]]])
<1> DEFINE S == {g[d] : d \in D}
           h == [x \in S |-> CHOOSE d \in D : g[d] = x]
           of == [k \in D |-> SumFunctionOnSet(f, {x \in S : h[x] = k})]
<1>1. IsFiniteSet(S)
  <2>1. [d \in D |-> g[d]] \in Surjection(D, S)
    BY DEF Surjection
  <2> HIDE DEF S
  <2> QED BY <2>1, FS_Surjection
<1>2. (\A x \in S : f[x] \in Int) /\ (\A x \in S : h[x] \in D /\ g[h[x]] = x)
  OBVIOUS
<1>3. ASSUME NEW k \in D PROVE {x \in S : h[x] = k} = {g[k]}
  <2>1. g[k] \in S /\ h[g[k]] \in D /\ g[h[g[k]]] = g[k]
    BY <1>2
  <2>2. h[g[k]] = k
    BY <2>1
  <2> HIDE DEF h
  <2> QED BY <1>2, <2>1, <2>2
<1>4. SumFunction(of) = SumFunctionOnSet(f, S)
  <2> HIDE DEF S, h
  <2> QED BY <1>1, <1>2, SumOfGroups
<1>5. \A k \in D : of[k] = f[g[k]]
  <2> HIDE DEF S, h
  <2> QED BY <1>3, SumOfOne
<1>6. of = [d \in D |-> f[g[d]]]
  <2>1. of = [d \in D |-> of[d]]
    OBVIOUS
  <2> HIDE DEF of
  <2> QED BY <1>5, <2>1
<1> QED BY <1>4, <1>6

=============================================================================
