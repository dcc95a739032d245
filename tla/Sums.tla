-------------------------------- MODULE Sums --------------------------------
(***************************************************************************)
(* Sums of integers over finite sets, which the models take from the       *)
(* community module Functions, where SumFunctionOnSet is a fold.  The      *)
(* lemmas say what the other proofs need of them: they do not depend on    *)
(* the order, and go along with adding, comparing and taking apart.        *)
(*                                                                         *)
(* Induction here is about a set instead of a predicate: the numbers, or   *)
(* the subsets of a finite set, for which a statement holds are the        *)
(* elements of a set, and a least one outside of it would be in it.        *)
(***************************************************************************)
EXTENDS Integers, Functions, FiniteSets, FiniteSetTheorems, WellFoundedInduction, TLAPS

\* A set of numbers that is not empty has a least one.
LEMMA LeastNumber ==
    ASSUME NEW A, A \subseteq Nat, A # {}
    PROVE  \E x \in A : \A y \in A : ~(y < x)
<1>1. IsWellFoundedOn(OpToRel(<, Nat), Nat)
  BY NatLessThanWellFounded
<1>2. PICK x \in A : \A y \in A : ~(<<y, x>> \in OpToRel(<, Nat))
  BY <1>1, WFMin
<1>3. \A y \in A : <<y, x>> \in OpToRel(<, Nat) <=> y < x
  BY DEF OpToRel
<1> QED BY <1>2, <1>3

\* A set of numbers that has zero and with each number the next has all of them.
LEMMA NumbersInduction ==
    ASSUME NEW N \in SUBSET Nat, 0 \in N, \A n \in N : n + 1 \in N
    PROVE  N = Nat
<1> SUFFICES ASSUME Nat \ N # {} PROVE FALSE
  OBVIOUS
<1>1. PICK n \in Nat \ N : \A m \in Nat \ N : ~(m < n)
  BY LeastNumber
<1>2. n - 1 \in Nat /\ n - 1 < n /\ n = (n - 1) + 1
  OBVIOUS
<1>3. n - 1 \in N
  BY <1>1, <1>2
<1> QED BY <1>2, <1>3

\* A collection of subsets of a finite set has the set itself if it has the empty
\* one, and every one that it would have been left with by taking any element out.
LEMMA SetsInduction ==
    ASSUME NEW S, IsFiniteSet(S), NEW G \in SUBSET SUBSET S, {} \in G,
           \A T \in SUBSET S : (\A x \in T : T \ {x} \in G) => T \in G
    PROVE  S \in G
<1> DEFINE N == {n \in Nat : \A T \in SUBSET S : Cardinality(T) = n => T \in G}
<1>1. 0 \in N
  BY FS_EmptySet, FS_Subset
<1>2. ASSUME NEW n \in N PROVE n + 1 \in N
  <2> SUFFICES ASSUME NEW T \in SUBSET S, Cardinality(T) = n + 1 PROVE T \in G
    OBVIOUS
  <2>1. ASSUME NEW x \in T PROVE T \ {x} \in G
    <3>1. IsFiniteSet(T) /\ n \in Nat
      BY FS_Subset
    <3>2. Cardinality(T \ {x}) = Cardinality(T) - 1
      BY <3>1, FS_RemoveElement
    <3>3. Cardinality(T \ {x}) = n
      BY <3>1, <3>2
    <3> QED BY <3>3
  <2> QED BY <2>1
<1>3. N = Nat
  <2> HIDE DEF N
  <2>1. N \in SUBSET Nat
    BY DEF N
  <2> QED BY <1>1, <1>2, <2>1, NumbersInduction
<1>4. Cardinality(S) \in Nat
  BY FS_CardinalityType
<1> QED BY <1>3, <1>4

(***************************************************************************)
(* SumFunctionOnSet is the recursive function its definition means: one    *)
(* that satisfies the recursion exists, built up from smaller sets.        *)
(***************************************************************************)

AnyOf(s) == CHOOSE x \in s : TRUE

Step(f, g, s) == IF s = {} THEN 0 ELSE f[AnyOf(s)] + g[s \ {AnyOf(s)}]

Adds(f, S) == CHOOSE g : g = [s \in SUBSET S |-> Step(f, g, s)]

\* The fold in the library, written without operators as parameters.
LEMMA SumIs ==
  ASSUME NEW f, NEW S PROVE SumFunctionOnSet(f, S) = Adds(f, S)[S]
  BY DEF SumFunctionOnSet, FoldFunctionOnSet, MapThenFoldSet, Adds, AnyOf, Step

\* The fold's recursive function exists: what it gives for a set follows from what
\* it gives for the smaller ones.
LEMMA AddsExists ==
    ASSUME NEW f, NEW S, IsFiniteSet(S)
    PROVE  \A s \in SUBSET S : Adds(f, S)[s] = Step(f, Adds(f, S), s)
<1> DEFINE Sub(n) == {s \in SUBSET S : Cardinality(s) <= n}
           Is(g, n) == g = [s \in Sub(n) |-> Step(f, g, s)]
           N == {n \in Nat : \E g : Is(g, n)}
<1>0. \A s \in SUBSET S : IsFiniteSet(s) /\ Cardinality(s) \in Nat
  BY FS_Subset, FS_CardinalityType
<1>a. \A s \in SUBSET S : s # {} => /\ AnyOf(s) \in s /\ s \ {AnyOf(s)} \in SUBSET S
                                    /\ Cardinality(s \ {AnyOf(s)}) = Cardinality(s) - 1
  BY <1>0, FS_RemoveElement DEF AnyOf
<1>1. 0 \in N
  <2>1. Sub(0) = {{}}
    BY <1>0, FS_EmptySet
  <2>2. Is([s \in Sub(0) |-> 0], 0)
    BY <2>1 DEF Step
  <2> QED BY <2>2
<1>2. ASSUME NEW n \in N PROVE n + 1 \in N
  <2>1. PICK g : Is(g, n)
    OBVIOUS
  <2> DEFINE h == [s \in Sub(n + 1) |-> Step(f, g, s)]
  <2>2. \A s \in Sub(n) : h[s] = g[s]
    BY <2>1, <1>0
  <2>3. \A s \in Sub(n + 1) : s # {} => s \ {AnyOf(s)} \in Sub(n)
    BY <1>0, <1>a
  <2>4. ASSUME NEW s \in Sub(n + 1) PROVE Step(f, h, s) = Step(f, g, s)
    <3>1. CASE s = {}
      BY <3>1 DEF Step
    <3>2. CASE s # {}
      <4>1. h[s \ {AnyOf(s)}] = g[s \ {AnyOf(s)}]
        BY <2>2, <2>3, <3>2
      <4> HIDE DEF h
      <4> QED BY <3>2, <4>1 DEF Step
    <3> QED BY <3>1, <3>2
  <2>5. Is(h, n + 1)
    <3> HIDE DEF Sub
    <3>1. h = [s \in Sub(n + 1) |-> Step(f, g, s)]
      OBVIOUS
    <3> HIDE DEF h
    <3> QED BY <2>4, <3>1
  <2> HIDE DEF Is
  <2> QED BY <2>5
<1>3. N = Nat
  <2> HIDE DEF N
  <2>1. N \in SUBSET Nat
    BY DEF N
  <2> QED BY <1>1, <1>2, <2>1, NumbersInduction
<1>4. Sub(Cardinality(S)) = SUBSET S
  BY <1>0, FS_Subset
<1>5. \E g : g = [s \in SUBSET S |-> Step(f, g, s)]
  <2>1. Cardinality(S) \in N
    BY <1>0, <1>3
  <2>2. PICK g : Is(g, Cardinality(S))
    <3> HIDE DEF Is
    <3> QED BY <2>1
  <2> HIDE DEF Sub
  <2>3. g = [s \in SUBSET S |-> Step(f, g, s)]
    BY <1>4, <2>2
  <2> QED BY <2>3
<1>6. Adds(f, S) = [s \in SUBSET S |-> Step(f, Adds(f, S), s)]
  BY <1>5 DEF Adds
<1> QED BY <1>6

\* The sum over a part of a set is the same as in the sum over the set.
LEMMA AddsOfPart ==
    ASSUME NEW f, NEW S, IsFiniteSet(S), NEW T \in SUBSET S
    PROVE  Adds(f, T)[T] = Adds(f, S)[T]
<1> DEFINE G == {s \in SUBSET T : Adds(f, T)[s] = Adds(f, S)[s]}
<1>1. IsFiniteSet(T)
  BY FS_Subset
<1>2. \A s \in SUBSET T : /\ Adds(f, T)[s] = Step(f, Adds(f, T), s)
                         /\ Adds(f, S)[s] = Step(f, Adds(f, S), s)
  BY <1>1, AddsExists
<1>3. {} \in G
  BY <1>2 DEF Step
<1>4. ASSUME NEW s \in SUBSET T, \A x \in s : s \ {x} \in G PROVE s \in G
  <2>1. CASE s = {}
    BY <2>1, <1>3
  <2>2. CASE s # {}
    <3>1. AnyOf(s) \in s
      BY <2>2 DEF AnyOf
    <3>2. Adds(f, T)[s \ {AnyOf(s)}] = Adds(f, S)[s \ {AnyOf(s)}]
      BY <3>1, <1>4
    <3> QED BY <1>2, <2>2, <3>2 DEF Step
  <2> QED BY <2>1, <2>2
<1>5. T \in G
  <2> HIDE DEF G
  <2>1. G \in SUBSET SUBSET T
    BY DEF G
  <2>2. \A s \in SUBSET T : (\A x \in s : s \ {x} \in G) => s \in G
    BY <1>4
  <2> QED BY <1>1, <1>3, <2>1, <2>2, SetsInduction
<1> QED BY <1>5

(***************************************************************************)
(* What a sum is.                                                          *)
(***************************************************************************)

\* Nothing sums to zero.
LEMMA SumOfNone ==
    ASSUME NEW f PROVE SumFunctionOnSet(f, {}) = 0
<1>1. Adds(f, {})[{}] = Step(f, Adds(f, {}), {})
  BY AddsExists, FS_EmptySet
<1> QED BY <1>1, SumIs DEF Step

\* What the fold does: an element is taken out, and added to the sum of the rest.
LEMMA SumStep ==
    ASSUME NEW f, NEW S, IsFiniteSet(S), S # {}
    PROVE  /\ AnyOf(S) \in S
           /\ SumFunctionOnSet(f, S) = f[AnyOf(S)] + SumFunctionOnSet(f, S \ {AnyOf(S)})
<1>1. AnyOf(S) \in S
  BY DEF AnyOf
<1>3. Adds(f, S)[S] = Step(f, Adds(f, S), S)
  BY AddsExists
<1>4. Adds(f, S)[S \ {AnyOf(S)}] = Adds(f, S \ {AnyOf(S)})[S \ {AnyOf(S)}]
  <2>1. S \ {AnyOf(S)} \in SUBSET S
    OBVIOUS
  <2> QED BY <2>1, AddsOfPart
<1> QED BY <1>1, <1>3, <1>4, SumIs DEF Step

\* A sum of integers is an integer.
LEMMA SumIsInt ==
    ASSUME NEW S, IsFiniteSet(S), NEW f, \A x \in S : f[x] \in Int
    PROVE  SumFunctionOnSet(f, S) \in Int
<1> DEFINE G == {T \in SUBSET S : SumFunctionOnSet(f, T) \in Int}
<1>1. {} \in G
  BY SumOfNone
<1>2. ASSUME NEW T \in SUBSET S, \A x \in T : T \ {x} \in G PROVE T \in G
  <2>1. CASE T # {}
    <3>1. IsFiniteSet(T)
      BY FS_Subset
    <3>2. /\ AnyOf(T) \in T
          /\ SumFunctionOnSet(f, T) = f[AnyOf(T)] + SumFunctionOnSet(f, T \ {AnyOf(T)})
      BY <2>1, <3>1, SumStep
    <3>3. SumFunctionOnSet(f, T \ {AnyOf(T)}) \in Int
      BY <1>2, <3>2
    <3> QED BY <3>2, <3>3
  <2> QED BY <2>1, <1>1
<1> HIDE DEF G
<1>3. S \in G
  <2>1. G \in SUBSET SUBSET S
    BY DEF G
  <2> QED BY <1>1, <1>2, <2>1, SetsInduction
<1> QED BY <1>3 DEF G

\* The order does not matter: any element may be taken out.
LEMMA SumWithout ==
    ASSUME NEW S, IsFiniteSet(S), NEW f, \A x \in S : f[x] \in Int, NEW y \in S
    PROVE  SumFunctionOnSet(f, S) = f[y] + SumFunctionOnSet(f, S \ {y})
<1> DEFINE G == {T \in SUBSET S : \A z \in T :
                   SumFunctionOnSet(f, T) = f[z] + SumFunctionOnSet(f, T \ {z})}
<1>1. {} \in G
  OBVIOUS
<1>2. ASSUME NEW T \in SUBSET S, \A x \in T : T \ {x} \in G PROVE T \in G
  <2> SUFFICES ASSUME NEW z \in T
               PROVE  SumFunctionOnSet(f, T) = f[z] + SumFunctionOnSet(f, T \ {z})
    OBVIOUS
  <2> DEFINE a == AnyOf(T)
  <2>1. IsFiniteSet(T) /\ T # {}
    BY FS_Subset
  <2>2. a \in T /\ SumFunctionOnSet(f, T) = f[a] + SumFunctionOnSet(f, T \ {a})
    BY <2>1, SumStep
  <2> HIDE DEF a
  <2>3. CASE a # z
    <3>1. SumFunctionOnSet(f, T \ {a}) = f[z] + SumFunctionOnSet(f, (T \ {a}) \ {z})
      BY <1>2, <2>2, <2>3
    <3>2. SumFunctionOnSet(f, T \ {z}) = f[a] + SumFunctionOnSet(f, (T \ {z}) \ {a})
      BY <1>2, <2>2, <2>3
    <3>3. (T \ {a}) \ {z} = (T \ {z}) \ {a}
      OBVIOUS
    <3>4. IsFiniteSet((T \ {a}) \ {z}) /\ (T \ {a}) \ {z} \subseteq S
      BY FS_Subset
    <3>5. SumFunctionOnSet(f, (T \ {a}) \ {z}) \in Int
      BY <3>4, SumIsInt
    <3>6. f[a] \in Int /\ f[z] \in Int
      BY <2>2
    <3>7. ASSUME NEW i \in Int, NEW j \in Int, NEW k \in Int PROVE i + (j + k) = j + (i + k)
      OBVIOUS
    <3>8. f[a] + (f[z] + SumFunctionOnSet(f, (T \ {a}) \ {z})) =
              f[z] + (f[a] + SumFunctionOnSet(f, (T \ {a}) \ {z}))
      BY <3>5, <3>6, <3>7
    <3> QED BY <2>2, <3>1, <3>2, <3>3, <3>8, Zenon
  <2> QED BY <2>2, <2>3
<1> HIDE DEF G
<1>3. S \in G
  <2>1. G \in SUBSET SUBSET S
    BY DEF G
  <2> QED BY <1>1, <1>2, <2>1, SetsInduction
<1> QED BY <1>3 DEF G

\* An element more.
LEMMA SumWith ==
    ASSUME NEW S, IsFiniteSet(S), NEW y, y \notin S,
           NEW f, \A x \in S : f[x] \in Int, f[y] \in Int
    PROVE  SumFunctionOnSet(f, S \cup {y}) = f[y] + SumFunctionOnSet(f, S)
<1>1. IsFiniteSet(S \cup {y})
  BY FS_AddElement
<1>2. \A x \in S \cup {y} : f[x] \in Int
  OBVIOUS
<1>3. (S \cup {y}) \ {y} = S /\ y \in S \cup {y}
  OBVIOUS
<1> QED BY <1>1, <1>2, <1>3, SumWithout

(***************************************************************************)
(* Two sums over the same set.                                             *)
(***************************************************************************)

\* Functions that agree on a set have the same sum over it.
LEMMA SumSame ==
    ASSUME NEW S, IsFiniteSet(S), NEW f, NEW g, \A x \in S : f[x] = g[x]
    PROVE  SumFunctionOnSet(f, S) = SumFunctionOnSet(g, S)
<1> DEFINE G == {T \in SUBSET S : SumFunctionOnSet(f, T) = SumFunctionOnSet(g, T)}
<1>1. {} \in G
  BY SumOfNone
<1>2. ASSUME NEW T \in SUBSET S, \A x \in T : T \ {x} \in G PROVE T \in G
  <2>1. CASE T # {}
    <3>1. IsFiniteSet(T)
      BY FS_Subset
    <3>2. /\ AnyOf(T) \in T
          /\ SumFunctionOnSet(f, T) = f[AnyOf(T)] + SumFunctionOnSet(f, T \ {AnyOf(T)})
          /\ SumFunctionOnSet(g, T) = g[AnyOf(T)] + SumFunctionOnSet(g, T \ {AnyOf(T)})
      BY <2>1, <3>1, SumStep
    <3>3. SumFunctionOnSet(f, T \ {AnyOf(T)}) = SumFunctionOnSet(g, T \ {AnyOf(T)})
      BY <1>2, <3>2
    <3> QED BY <3>2, <3>3
  <2> QED BY <2>1, <1>1
<1> HIDE DEF G
<1>3. S \in G
  <2>1. G \in SUBSET SUBSET S
    BY DEF G
  <2> QED BY <1>1, <1>2, <2>1, SetsInduction
<1> QED BY <1>3 DEF G

\* Sums add up value by value.
LEMMA SumPlus ==
    ASSUME NEW S, IsFiniteSet(S), NEW f, NEW g, NEW h,
           \A x \in S : f[x] \in Int /\ g[x] \in Int /\ h[x] = f[x] + g[x]
    PROVE  SumFunctionOnSet(h, S) = SumFunctionOnSet(f, S) + SumFunctionOnSet(g, S)
<1> DEFINE G == {T \in SUBSET S :
                   SumFunctionOnSet(h, T) = SumFunctionOnSet(f, T) + SumFunctionOnSet(g, T)}
<1>1. {} \in G
  BY SumOfNone
<1>2. ASSUME NEW T \in SUBSET S, \A x \in T : T \ {x} \in G PROVE T \in G
  <2>1. CASE T # {}
    <3> DEFINE a == AnyOf(T)
               F == SumFunctionOnSet(f, T \ {a})
               E == SumFunctionOnSet(g, T \ {a})
    <3>1. IsFiniteSet(T) /\ IsFiniteSet(T \ {a})
      BY FS_Subset
    <3>2. /\ a \in T
          /\ SumFunctionOnSet(f, T) = f[a] + F
          /\ SumFunctionOnSet(g, T) = g[a] + E
          /\ SumFunctionOnSet(h, T) = h[a] + SumFunctionOnSet(h, T \ {a})
      BY <2>1, <3>1, SumStep
    <3>3. SumFunctionOnSet(h, T \ {a}) = F + E
      BY <1>2, <3>2
    <3>4. F \in Int /\ E \in Int
      BY <3>1, SumIsInt
    <3>5. h[a] = f[a] + g[a] /\ f[a] \in Int /\ g[a] \in Int
      BY <3>2
    <3>6. ASSUME NEW i \in Int, NEW j \in Int, NEW k \in Int, NEW l \in Int
          PROVE  (i + j) + (k + l) = (i + k) + (j + l)
      OBVIOUS
    <3> HIDE DEF a, F, E
    <3>7. (f[a] + g[a]) + (F + E) = (f[a] + F) + (g[a] + E)
      BY <3>4, <3>5, <3>6
    <3> QED BY <3>2, <3>3, <3>5, <3>7, Zenon
  <2> QED BY <2>1, <1>1
<1> HIDE DEF G
<1>3. S \in G
  <2>1. G \in SUBSET SUBSET S
    BY DEF G
  <2> QED BY <1>1, <1>2, <2>1, SetsInduction
<1> QED BY <1>3 DEF G

(***************************************************************************)
(* What adds nothing may be left out.                                      *)
(***************************************************************************)

\* Elements that count for nothing may be left out.
LEMMA SumOfPart ==
    ASSUME NEW S, IsFiniteSet(S), NEW R \in SUBSET S, NEW f,
           \A x \in R : f[x] \in Int, \A x \in S \ R : f[x] = 0
    PROVE  SumFunctionOnSet(f, S) = SumFunctionOnSet(f, R)
<1> DEFINE G == {T \in SUBSET S : SumFunctionOnSet(f, T) = SumFunctionOnSet(f, T \cap R)}
<1>1. {} \in G
  <2>1. {} \cap R = {}
    OBVIOUS
  <2> QED BY <2>1
<1>2. ASSUME NEW T \in SUBSET S, \A x \in T : T \ {x} \in G PROVE T \in G
  <2>1. CASE T # {}
    <3> DEFINE a == AnyOf(T)
    <3>1. IsFiniteSet(T) /\ IsFiniteSet(T \cap R)
      BY FS_Subset
    <3>2. /\ a \in T
          /\ SumFunctionOnSet(f, T) = f[a] + SumFunctionOnSet(f, T \ {a})
      BY <2>1, <3>1, SumStep
    <3> HIDE DEF a
    <3>3. SumFunctionOnSet(f, T \ {a}) = SumFunctionOnSet(f, (T \ {a}) \cap R)
      BY <1>2, <3>2
    <3>4. CASE a \in R
      <4>1. SumFunctionOnSet(f, T \cap R) = f[a] + SumFunctionOnSet(f, (T \cap R) \ {a})
        BY <3>1, <3>2, <3>4, SumWithout
      <4>2. (T \cap R) \ {a} = (T \ {a}) \cap R
        OBVIOUS
      <4>3. SumFunctionOnSet(f, T) = SumFunctionOnSet(f, T \cap R)
        BY <3>2, <3>3, <4>1, <4>2, Zenon
      <4> QED BY <4>3
    <3>5. CASE a \notin R
      <4>1. (T \ {a}) \cap R = T \cap R /\ f[a] = 0
        BY <3>2, <3>5
      <4>2. SumFunctionOnSet(f, T \cap R) \in Int
        BY <3>1, SumIsInt
      <4>3. SumFunctionOnSet(f, T) = f[a] + SumFunctionOnSet(f, T \cap R)
        BY <3>2, <3>3, <4>1, Zenon
      <4>4. SumFunctionOnSet(f, T) = SumFunctionOnSet(f, T \cap R)
        BY <4>1, <4>2, <4>3
      <4> QED BY <4>4
    <3> QED BY <3>4, <3>5
  <2> QED BY <2>1, <1>1
<1>3. S \in G
  <2> HIDE DEF G
  <2>1. G \in SUBSET SUBSET S
    BY DEF G
  <2> QED BY <1>1, <1>2, <2>1, SetsInduction
<1>4. S \cap R = R
  OBVIOUS
<1> QED BY <1>3, <1>4

\* Only one element counts.
LEMMA SumOfOne ==
    ASSUME NEW S, IsFiniteSet(S), NEW y \in S, NEW f,
           f[y] \in Int, \A x \in S \ {y} : f[x] = 0
    PROVE  SumFunctionOnSet(f, S) = f[y]
<1>1. SumFunctionOnSet(f, S) = SumFunctionOnSet(f, {y})
  BY SumOfPart
<1>2. SumFunctionOnSet(f, {y}) = f[y] + SumFunctionOnSet(f, {y} \ {y})
  BY SumWithout, FS_Singleton
<1>3. {y} \ {y} = {}
  OBVIOUS
<1> QED BY <1>1, <1>2, <1>3, SumOfNone

(***************************************************************************)
(* Bounds.                                                                 *)
(***************************************************************************)

\* A sum of natural numbers is one.
LEMMA SumIsNat ==
    ASSUME NEW S, IsFiniteSet(S), NEW f, \A x \in S : f[x] \in Nat
    PROVE  SumFunctionOnSet(f, S) \in Nat
<1> DEFINE G == {T \in SUBSET S : SumFunctionOnSet(f, T) \in Nat}
<1>1. {} \in G
  BY SumOfNone
<1>2. ASSUME NEW T \in SUBSET S, \A x \in T : T \ {x} \in G PROVE T \in G
  <2>1. CASE T # {}
    <3>1. IsFiniteSet(T)
      BY FS_Subset
    <3>2. /\ AnyOf(T) \in T
          /\ SumFunctionOnSet(f, T) = f[AnyOf(T)] + SumFunctionOnSet(f, T \ {AnyOf(T)})
      BY <2>1, <3>1, SumStep
    <3>3. SumFunctionOnSet(f, T \ {AnyOf(T)}) \in Nat
      BY <1>2, <3>2
    <3> QED BY <3>2, <3>3
  <2> QED BY <2>1, <1>1
<1> HIDE DEF G
<1>3. S \in G
  <2>1. G \in SUBSET SUBSET S
    BY DEF G
  <2> QED BY <1>1, <1>2, <2>1, SetsInduction
<1> QED BY <1>3 DEF G

\* Adding on both sides, or on one side only, keeps the order.
LEMMA AddLess ==
    ASSUME NEW i \in Nat, NEW j \in Nat, NEW k \in Nat, NEW l \in Nat, k <= l
    PROVE  k <= j + l /\ (i <= j => i + k <= j + l)
  OBVIOUS

\* Elements more, and values that are not less, make the sum not less.
LEMMA SumGrows ==
    ASSUME NEW S, IsFiniteSet(S), NEW R \in SUBSET S, NEW f, NEW g,
           \A x \in S : g[x] \in Nat, \A x \in R : f[x] \in Nat /\ f[x] <= g[x]
    PROVE  SumFunctionOnSet(f, R) <= SumFunctionOnSet(g, S)
<1> DEFINE G == {T \in SUBSET S :
                   SumFunctionOnSet(f, T \cap R) <= SumFunctionOnSet(g, T)}
<1>1. {} \in G
  BY SumOfNone
<1>2. ASSUME NEW T \in SUBSET S, \A x \in T : T \ {x} \in G PROVE T \in G
  <2>1. CASE T = {}
    BY <1>1, <2>1
  <2>2. CASE T # {}
    <3> DEFINE a == AnyOf(T)
    <3>1. IsFiniteSet(T) /\ IsFiniteSet(T \cap R) /\ IsFiniteSet((T \cap R) \ {a})
          /\ IsFiniteSet(T \ {a})
      BY FS_Subset
    <3>2. a \in T /\ SumFunctionOnSet(g, T) = g[a] + SumFunctionOnSet(g, T \ {a})
      BY <2>2, <3>1, SumStep
    <3> HIDE DEF a
    <3>3. SumFunctionOnSet(f, (T \ {a}) \cap R) <= SumFunctionOnSet(g, T \ {a})
      BY <1>2, <3>2
    <3>4. (T \ {a}) \cap R = (T \cap R) \ {a}
      OBVIOUS
    <3>5. SumFunctionOnSet(g, T \ {a}) \in Nat /\ SumFunctionOnSet(f, (T \cap R) \ {a}) \in Nat
      BY <3>1, SumIsNat
    <3>6. CASE a \in R
      <4>1. SumFunctionOnSet(f, T \cap R) = f[a] + SumFunctionOnSet(f, (T \cap R) \ {a})
        BY <3>1, <3>2, <3>6, SumWithout
      <4>2. f[a] \in Nat /\ g[a] \in Nat /\ f[a] <= g[a]
        BY <3>2, <3>6
      <4>3. f[a] + SumFunctionOnSet(f, (T \cap R) \ {a})
                <= g[a] + SumFunctionOnSet(g, T \ {a})
        BY <3>3, <3>4, <3>5, <4>2, AddLess
      <4> QED BY <3>2, <4>1, <4>3, Zenon
    <3>7. CASE a \notin R
      <4>1. (T \cap R) \ {a} = T \cap R /\ g[a] \in Nat
        BY <3>2, <3>7
      <4>2. SumFunctionOnSet(f, T \cap R) <= g[a] + SumFunctionOnSet(g, T \ {a})
        BY <3>3, <3>4, <3>5, <4>1, AddLess
      <4> QED BY <3>2, <4>2, Zenon
    <3> QED BY <3>6, <3>7
  <2> QED BY <2>1, <2>2
<1>3. S \in G
  <2> HIDE DEF G
  <2>1. G \in SUBSET SUBSET S
    BY DEF G
  <2> QED BY <1>1, <1>2, <2>1, SetsInduction
<1>4. S \cap R = R
  OBVIOUS
<1> QED BY <1>3, <1>4

\* One value changes.
LEMMA SumChanged ==
    ASSUME NEW S, IsFiniteSet(S), NEW y \in S, NEW f, NEW g,
           \A x \in S : f[x] \in Int /\ g[x] \in Int, \A x \in S \ {y} : f[x] = g[x]
    PROVE  SumFunctionOnSet(g, S) = SumFunctionOnSet(f, S) - f[y] + g[y]
<1>1. IsFiniteSet(S \ {y})
  BY FS_Subset
<1>2. SumFunctionOnSet(f, S \ {y}) = SumFunctionOnSet(g, S \ {y})
  BY <1>1, SumSame
<1>3. SumFunctionOnSet(f, S \ {y}) \in Int
  BY <1>1, SumIsInt
<1>4. /\ SumFunctionOnSet(f, S) = f[y] + SumFunctionOnSet(f, S \ {y})
      /\ SumFunctionOnSet(g, S) = g[y] + SumFunctionOnSet(g, S \ {y})
  BY SumWithout
<1> QED BY <1>2, <1>3, <1>4

(***************************************************************************)
(* Sums over sets that are put together, or renumbered.                    *)
(***************************************************************************)

\* The sums over two sets that have nothing in common add up.
LEMMA SumOfUnion ==
    ASSUME NEW S, IsFiniteSet(S), NEW T, IsFiniteSet(T), S \cap T = {},
           NEW f, \A x \in S \cup T : f[x] \in Int
    PROVE  SumFunctionOnSet(f, S \cup T) = SumFunctionOnSet(f, S) + SumFunctionOnSet(f, T)
<1> DEFINE G == {U \in SUBSET T : SumFunctionOnSet(f, S \cup U)
                                     = SumFunctionOnSet(f, S) + SumFunctionOnSet(f, U)}
<1>1. {} \in G
  <2>1. SumFunctionOnSet(f, {}) = 0 /\ SumFunctionOnSet(f, S) \in Int
    BY SumOfNone, SumIsInt
  <2>2. S \cup {} = S
    OBVIOUS
  <2> QED BY <2>1, <2>2
<1>2. ASSUME NEW U \in SUBSET T, \A x \in U : U \ {x} \in G PROVE U \in G
  <2>1. CASE U = {}
    BY <1>1, <2>1
  <2>2. CASE U # {}
    <3>1. PICK a \in U : TRUE
      BY <2>2
    <3> DEFINE R == U \ {a}
               F == SumFunctionOnSet(f, S)
               E == SumFunctionOnSet(f, R)
    <3>2. /\ IsFiniteSet(U) /\ IsFiniteSet(R) /\ IsFiniteSet(S \cup R)
          /\ a \notin S \cup R /\ S \cup U = (S \cup R) \cup {a} /\ U = R \cup {a}
      BY <3>1, FS_Subset, FS_Union
    <3>3. SumFunctionOnSet(f, S \cup R) = F + E
      BY <1>2, <3>1
    <3>4. f[a] \in Int /\ F \in Int /\ E \in Int
      BY <3>1, <3>2, SumIsInt
    <3>5. SumFunctionOnSet(f, S \cup U) = f[a] + SumFunctionOnSet(f, S \cup R)
      BY <3>1, <3>2, SumWith
    <3>6. SumFunctionOnSet(f, U) = f[a] + E
      BY <3>1, <3>2, SumWith
    <3>7. SumFunctionOnSet(f, S \cup U) = f[a] + (F + E)
      BY <3>3, <3>5
    <3> HIDE DEF R, F, E
    <3>8. f[a] + (F + E) = F + (f[a] + E)
      BY <3>4
    <3>9. SumFunctionOnSet(f, S \cup U) = F + SumFunctionOnSet(f, U)
      BY <3>6, <3>7, <3>8
    <3> QED BY <3>9 DEF F
  <2> QED BY <2>1, <2>2
<1>3. T \in G
  <2> HIDE DEF G
  <2>1. G \in SUBSET SUBSET T
    BY DEF G
  <2> QED BY <1>1, <1>2, <2>1, SetsInduction
<1> QED BY <1>3

\* An interval that ends one later.
LEMMA IntervalGrows ==
    ASSUME NEW a \in Int, NEW b \in Int, a <= b + 1
    PROVE  a..(b + 1) = (a..b) \cup {b + 1} /\ b + 1 \notin a..b
  OBVIOUS

\* The values of f at 1..k are those of g, n places on.
Shifted(f, g, n, k) == \A i \in 1..k : f[i] \in Int /\ f[i] = g[n + i]

\* They have the same sum.
LEMMA SumShifted ==
    ASSUME NEW n \in Nat, NEW k \in Nat, NEW f, NEW g, Shifted(f, g, n, k)
    PROVE  SumFunctionOnSet(f, 1..k) = SumFunctionOnSet(g, (n + 1)..(n + k))
<1> DEFINE N == {j \in Nat : j <= k =>
                   SumFunctionOnSet(f, 1..j) = SumFunctionOnSet(g, (n + 1)..(n + j))}
<1>0. \A i \in 1..k : f[i] \in Int /\ f[i] = g[n + i]
  BY DEF Shifted
<1>1. 0 \in N
  <2>1. 1..0 = {} /\ (n + 1)..(n + 0) = {}
    OBVIOUS
  <2> QED BY <2>1, SumOfNone
<1>2. ASSUME NEW j \in N PROVE j + 1 \in N
  <2> SUFFICES ASSUME j + 1 <= k
               PROVE  SumFunctionOnSet(f, 1..(j + 1))
                          = SumFunctionOnSet(g, (n + 1)..(n + (j + 1)))
    OBVIOUS
  <2>1. SumFunctionOnSet(f, 1..j) = SumFunctionOnSet(g, (n + 1)..(n + j))
    OBVIOUS
  <2>2. /\ 1..(j + 1) = (1..j) \cup {j + 1} /\ j + 1 \notin 1..j
        /\ (n + 1)..(n + (j + 1)) = ((n + 1)..(n + j)) \cup {n + (j + 1)}
        /\ n + (j + 1) \notin (n + 1)..(n + j)
        /\ j + 1 \in 1..k
    <3>1. j \in Nat
      OBVIOUS
    <3>2. 1..(j + 1) = (1..j) \cup {j + 1} /\ j + 1 \notin 1..j
      BY <3>1, IntervalGrows
    <3>3. n + 1 \in Int /\ n + j \in Int /\ n + 1 <= (n + j) + 1 /\ (n + j) + 1 = n + (j + 1)
      BY <3>1
    <3>4. /\ (n + 1)..((n + j) + 1) = ((n + 1)..(n + j)) \cup {(n + j) + 1}
          /\ (n + j) + 1 \notin (n + 1)..(n + j)
      BY <3>3, IntervalGrows
    <3> QED BY <3>1, <3>2, <3>3, <3>4
  <2>3. IsFiniteSet(1..j) /\ IsFiniteSet((n + 1)..(n + j))
    BY FS_Interval
  <2>4. /\ \A i \in 1..j : f[i] \in Int
        /\ \A i \in (n + 1)..(n + j) : g[i] \in Int
    <3>1. ASSUME NEW i \in (n + 1)..(n + j) PROVE g[i] \in Int
      <4>1. i - n \in 1..k /\ n + (i - n) = i
        OBVIOUS
      <4> QED BY <1>0, <4>1
    <3>2. \A i \in 1..j : i \in 1..k
      OBVIOUS
    <3> QED BY <1>0, <3>1, <3>2
  <2>5. f[j + 1] \in Int /\ f[j + 1] = g[n + (j + 1)]
    BY <1>0, <2>2
  <2>6. SumFunctionOnSet(f, (1..j) \cup {j + 1}) = f[j + 1] + SumFunctionOnSet(f, 1..j)
    BY <2>2, <2>3, <2>4, <2>5, SumWith
  <2>7. SumFunctionOnSet(g, ((n + 1)..(n + j)) \cup {n + (j + 1)})
            = g[n + (j + 1)] + SumFunctionOnSet(g, (n + 1)..(n + j))
    BY <2>2, <2>3, <2>4, <2>5, SumWith
  <2> QED BY <2>1, <2>2, <2>5, <2>6, <2>7
<1>3. k \in N
  <2> HIDE DEF N
  <2>1. N \in SUBSET Nat
    BY DEF N
  <2>2. N = Nat
    BY <1>1, <1>2, <2>1, NumbersInduction
  <2> QED BY <2>2
<1> QED BY <1>3

LEMMA TimesSum ==
    ASSUME NEW k \in Int, NEW a \in Int, NEW b \in Int
    PROVE  k * a + k * b = k * (a + b)
  OBVIOUS

\* Every value k times another.
LEMMA SumTimes ==
    ASSUME NEW S, IsFiniteSet(S), NEW k \in Int, NEW f, NEW g,
           \A x \in S : f[x] \in Int, \A x \in S : g[x] = k * f[x]
    PROVE  SumFunctionOnSet(g, S) = k * SumFunctionOnSet(f, S)
<1> DEFINE G == {T \in SUBSET S : SumFunctionOnSet(g, T) = k * SumFunctionOnSet(f, T)}
<1>1. {} \in G
  <2>1. k * 0 = 0
    OBVIOUS
  <2> QED BY <2>1, SumOfNone
<1>2. ASSUME NEW T \in SUBSET S, \A x \in T : T \ {x} \in G PROVE T \in G
  <2>1. CASE T = {}
    BY <1>1, <2>1
  <2>2. CASE T # {}
    <3> DEFINE a == AnyOf(T)
    <3>1. IsFiniteSet(T) /\ IsFiniteSet(T \ {a})
      BY FS_Subset
    <3>2. /\ a \in T
          /\ SumFunctionOnSet(f, T) = f[a] + SumFunctionOnSet(f, T \ {a})
          /\ SumFunctionOnSet(g, T) = g[a] + SumFunctionOnSet(g, T \ {a})
      BY <2>2, <3>1, SumStep
    <3> HIDE DEF a
    <3>3. SumFunctionOnSet(g, T \ {a}) = k * SumFunctionOnSet(f, T \ {a})
      BY <1>2, <3>2
    <3>4. SumFunctionOnSet(f, T \ {a}) \in Int
      BY <3>1, SumIsInt
    <3>5. f[a] \in Int /\ g[a] = k * f[a]
      BY <3>2
    <3>6. k * f[a] + k * SumFunctionOnSet(f, T \ {a})
              = k * (f[a] + SumFunctionOnSet(f, T \ {a}))
      BY <3>4, <3>5, TimesSum
    <3> QED BY <3>2, <3>3, <3>5, <3>6
  <2> QED BY <2>1, <2>2
<1>3. S \in G
  <2> HIDE DEF G
  <2>1. G \in SUBSET SUBSET S
    BY DEF G
  <2> QED BY <1>1, <1>2, <2>1, SetsInduction
<1> QED BY <1>3

\* The first n values all the same.
LEMMA SumOfSame ==
    ASSUME NEW n \in Nat, NEW c \in Int, NEW f, \A i \in 1..n : f[i] = c
    PROVE  SumFunctionOnSet(f, 1..n) = c * n
<1> DEFINE N == {k \in Nat : k <= n => SumFunctionOnSet(f, 1..k) = c * k}
<1>1. 0 \in N
  <2>1. 1..0 = {} /\ c * 0 = 0
    OBVIOUS
  <2> QED BY <2>1, SumOfNone
<1>2. ASSUME NEW k \in N PROVE k + 1 \in N
  <2> SUFFICES ASSUME k + 1 <= n PROVE SumFunctionOnSet(f, 1..(k + 1)) = c * (k + 1)
    OBVIOUS
  <2>1. k \in Nat /\ SumFunctionOnSet(f, 1..k) = c * k
    OBVIOUS
  <2>2. 1..(k + 1) = (1..k) \cup {k + 1} /\ k + 1 \notin 1..k
    BY <2>1
  <2>3. IsFiniteSet(1..k)
    <3>1. 1 \in Int /\ k \in Int
      BY <2>1
    <3> QED BY <3>1, FS_Interval
  <2>4. f[k + 1] = c /\ \A i \in 1..k : f[i] \in Int
    BY <2>1
  <2>5. SumFunctionOnSet(f, (1..k) \cup {k + 1}) = f[k + 1] + SumFunctionOnSet(f, 1..k)
    BY <2>2, <2>3, <2>4, SumWith
  <2>6. c + c * k = c * (k + 1)
    <3>1. c * 1 = c /\ 1 + k = k + 1 /\ 1 \in Int /\ k \in Int
      BY <2>1
    <3>2. c * 1 + c * k = c * (1 + k)
      BY <3>1, TimesSum
    <3> QED BY <3>1, <3>2
  <2> QED BY <2>1, <2>2, <2>4, <2>5, <2>6
<1>3. n \in N
  <2> HIDE DEF N
  <2>1. N \in SUBSET Nat
    BY DEF N
  <2>2. N = Nat
    BY <1>1, <1>2, <2>1, NumbersInduction
  <2> QED BY <2>2
<1> QED BY <1>3

(***************************************************************************)
(* Folds of sequences, from the left: what the fold in the library gives   *)
(* for a sequence of n elements it gives for the set 1..n of their places, *)
(* of which it takes the last one off.  Here what a turn does is a         *)
(* function G of the place and of what came before.                        *)
(***************************************************************************)

Top(s) == CHOOSE x \in s : \A y \in s : x >= y

Turn(G, base, g, s) == IF s = {} THEN base ELSE G[<<Top(s), g[s \ {Top(s)}]>>]

IsFold(G, base, g, n) == g = [s \in SUBSET (1..n) |-> Turn(G, base, g, s)]

\* A set of places that is not empty has a last one.
LEMMA LastPlace ==
    ASSUME NEW n \in Nat, NEW s \in SUBSET (1..n), s # {}
    PROVE  Top(s) \in s /\ \A y \in s : Top(s) >= y
<1> DEFINE A == {n - x : x \in s}
<1>1. A \in SUBSET Nat /\ A # {}
  <2>1. \A x \in s : n - x \in Nat
    OBVIOUS
  <2> QED BY <2>1
<1>2. PICK a \in A : \A b \in A : ~(b < a)
  <2> HIDE DEF A
  <2> QED BY <1>1, LeastNumber
<1>3. PICK x \in s : a = n - x
  BY <1>2
<1>4. ASSUME NEW y \in s PROVE x >= y
  <2>1. n - y \in A
    OBVIOUS
  <2>2. ~(n - y < n - x)
    BY <1>2, <1>3, <2>1
  <2> QED BY <2>2
<1>5. \E z \in s : \A y \in s : z >= y
  BY <1>4
<1> QED BY <1>5 DEF Top

\* The last of the first k + 1 places is k + 1, and the first k are left.
LEMMA LastOfPrefix ==
    ASSUME NEW k \in Nat
    PROVE  Top(1..(k + 1)) = k + 1 /\ (1..(k + 1)) \ {k + 1} = 1..k
<1>1. 1..(k + 1) # {} /\ 1..(k + 1) \in SUBSET (1..(k + 1)) /\ k + 1 \in 1..(k + 1)
  OBVIOUS
<1>2. /\ Top(1..(k + 1)) \in 1..(k + 1)
      /\ \A y \in 1..(k + 1) : Top(1..(k + 1)) >= y
  <2>1. k + 1 \in Nat
    OBVIOUS
  <2> QED BY <1>1, <2>1, LastPlace
<1>3. Top(1..(k + 1)) >= k + 1
  BY <1>1, <1>2
<1>4. (1..(k + 1)) \ {k + 1} = 1..k
  OBVIOUS
<1> QED BY <1>2, <1>3, <1>4

\* A fold whose turns stay in V exists, and stays in V.
LEMMA FoldExists ==
    ASSUME NEW n \in Nat, NEW V, NEW base \in V, NEW G \in [(1..n) \X V -> V]
    PROVE  \E g \in [SUBSET (1..n) -> V] : IsFold(G, base, g, n)
<1> DEFINE S == 1..n
           Sub(m) == {s \in SUBSET S : Cardinality(s) <= m}
           Is(g, m) == g \in [Sub(m) -> V] /\ g = [s \in Sub(m) |-> Turn(G, base, g, s)]
           N == {m \in Nat : \E g : Is(g, m)}
<1>f. IsFiniteSet(S)
  BY FS_Interval
<1>0. \A s \in SUBSET S : IsFiniteSet(s) /\ Cardinality(s) \in Nat
  BY <1>f, FS_Subset, FS_CardinalityType
<1>a. \A s \in SUBSET S : s # {} => /\ Top(s) \in s /\ s \ {Top(s)} \in SUBSET S
                                    /\ Cardinality(s \ {Top(s)}) = Cardinality(s) - 1
  BY <1>0, LastPlace, FS_RemoveElement
<1>1. 0 \in N
  <2>1. Sub(0) = {{}}
    BY <1>0, FS_EmptySet
  <2>2. Is([s \in Sub(0) |-> base], 0)
    BY <2>1 DEF Turn
  <2> QED BY <2>2
<1>2. ASSUME NEW m \in N PROVE m + 1 \in N
  <2>1. PICK g : Is(g, m)
    OBVIOUS
  <2> DEFINE h == [s \in Sub(m + 1) |-> Turn(G, base, g, s)]
  <2>2. \A s \in Sub(m) : h[s] = g[s]
    BY <2>1, <1>0
  <2>3. \A s \in Sub(m + 1) : s # {} => s \ {Top(s)} \in Sub(m)
    BY <1>0, <1>a
  <2>4. ASSUME NEW s \in Sub(m + 1) PROVE Turn(G, base, h, s) = Turn(G, base, g, s)
    <3>1. CASE s = {}
      BY <3>1 DEF Turn
    <3>2. CASE s # {}
      <4>1. h[s \ {Top(s)}] = g[s \ {Top(s)}]
        BY <2>2, <2>3, <3>2
      <4> HIDE DEF h
      <4> QED BY <3>2, <4>1 DEF Turn
    <3> QED BY <3>1, <3>2
  <2>5. h = [s \in Sub(m + 1) |-> Turn(G, base, h, s)]
    <3> HIDE DEF Sub
    <3>1. h = [s \in Sub(m + 1) |-> Turn(G, base, g, s)]
      OBVIOUS
    <3> HIDE DEF h
    <3> QED BY <2>4, <3>1
  <2>6. ASSUME NEW s \in Sub(m + 1) PROVE Turn(G, base, g, s) \in V
    <3>1. CASE s = {}
      BY <3>1 DEF Turn
    <3>2. CASE s # {}
      <4>1. Top(s) \in 1..n /\ g[s \ {Top(s)}] \in V
        BY <1>a, <2>1, <2>3, <3>2
      <4> QED BY <3>2, <4>1 DEF Turn
    <3> QED BY <3>1, <3>2
  <2>7. h \in [Sub(m + 1) -> V]
    <3> HIDE DEF Sub
    <3> QED BY <2>6
  <2>8. Is(h, m + 1)
    <3> HIDE DEF Sub, h
    <3> QED BY <2>5, <2>7
  <2> HIDE DEF Is
  <2> QED BY <2>8
<1>3. N = Nat
  <2> HIDE DEF N
  <2>1. N \in SUBSET Nat
    BY DEF N
  <2> QED BY <1>1, <1>2, <2>1, NumbersInduction
<1>4. Sub(Cardinality(S)) = SUBSET S
  BY <1>f, <1>0, FS_Subset
<1>5. Cardinality(S) \in N
  BY <1>f, <1>3, FS_CardinalityType
<1>6. PICK g : Is(g, Cardinality(S))
  <2> HIDE DEF Is
  <2> QED BY <1>5
<1> HIDE DEF Sub
<1>7. g \in [SUBSET S -> V] /\ g = [s \in SUBSET S |-> Turn(G, base, g, s)]
  BY <1>4, <1>6
<1> QED BY <1>7 DEF IsFold

\* What takes turns as G says wherever what came before is in V.
FoldsIn(V, G, base, g, n) ==
    /\ g[{}] = base
    /\ \A s \in SUBSET (1..n) :
           s # {} /\ g[s \ {Top(s)}] \in V => g[s] = G[<<Top(s), g[s \ {Top(s)}]>>]

\* What a fold gives for the first places: its base for none, and a turn more for
\* one more.
TakesTurns(V, G, base, g, n) ==
    /\ g[1..0] = base
    /\ \A k \in 0..n : g[1..k] \in V
    /\ \A k \in 0..(n - 1) : g[1..(k + 1)] = G[<<k + 1, g[1..k]>>]

\* A fold takes turns, and stays in V.
LEMMA FoldTurns ==
    ASSUME NEW n \in Nat, NEW V, NEW base \in V, NEW G \in [(1..n) \X V -> V],
           NEW g, FoldsIn(V, G, base, g, n)
    PROVE  TakesTurns(V, G, base, g, n)
<1>0. 1..0 = {}
  OBVIOUS
<1>1. g[1..0] = base
  BY <1>0 DEF FoldsIn
<1>2. ASSUME NEW k \in 0..(n - 1), g[1..k] \in V
      PROVE  /\ g[1..(k + 1)] = G[<<k + 1, g[1..k]>>]
             /\ g[1..(k + 1)] \in V
  <2>1. k \in Nat /\ 1..(k + 1) \in SUBSET (1..n) /\ 1..(k + 1) # {} /\ k + 1 \in 1..n
    OBVIOUS
  <2>2. Top(1..(k + 1)) = k + 1 /\ (1..(k + 1)) \ {k + 1} = 1..k
    BY <2>1, LastOfPrefix
  <2>3. g[1..(k + 1)] = G[<<k + 1, g[1..k]>>]
    BY <1>2, <2>1, <2>2 DEF FoldsIn
  <2> QED BY <1>2, <2>1, <2>3
<1> DEFINE N == {k \in Nat : k <= n => g[1..k] \in V}
<1>3. 0 \in N
  BY <1>1
<1>4. ASSUME NEW k \in N PROVE k + 1 \in N
  <2> SUFFICES ASSUME k + 1 <= n PROVE g[1..(k + 1)] \in V
    OBVIOUS
  <2>1. k \in 0..(n - 1) /\ g[1..k] \in V
    OBVIOUS
  <2> QED BY <1>2, <2>1
<1>5. N = Nat
  <2> HIDE DEF N
  <2>1. N \in SUBSET Nat
    BY DEF N
  <2> QED BY <1>3, <1>4, <2>1, NumbersInduction
<1>6. \A k \in 0..n : g[1..k] \in V
  BY <1>5
<1>7. \A k \in 0..(n - 1) : k \in 0..n
  OBVIOUS
<1> QED BY <1>1, <1>2, <1>6, <1>7 DEF TakesTurns

\* Members counted under another name have the same sum.
LEMMA SumMapped ==
    ASSUME NEW S, IsFiniteSet(S), NEW p, \A x, y \in S : p[x] = p[y] => x = y,
           NEW f, NEW g, \A x \in S : f[p[x]] \in Int /\ g[x] = f[p[x]]
    PROVE  SumFunctionOnSet(g, S) = SumFunctionOnSet(f, {p[x] : x \in S})
<1> DEFINE I(T) == {p[x] : x \in T}
           G == {T \in SUBSET S : /\ IsFiniteSet(I(T))
                                  /\ SumFunctionOnSet(g, T) = SumFunctionOnSet(f, I(T))}
<1>1. {} \in G
  <2>1. I({}) = {}
    OBVIOUS
  <2> HIDE DEF I
  <2> QED BY <2>1, SumOfNone, FS_EmptySet
<1>2. ASSUME NEW T \in SUBSET S, \A x \in T : T \ {x} \in G PROVE T \in G
  <2>1. CASE T = {}
    BY <1>1, <2>1
  <2>2. CASE T # {}
    <3>1. PICK a \in T : TRUE
      BY <2>2
    <3> DEFINE R == T \ {a}
    <3>2. /\ R \in G /\ R \in SUBSET S /\ a \in S /\ a \notin R /\ T = R \cup {a}
          /\ IsFiniteSet(R)
      BY <1>2, <3>1, FS_Subset
    <3>3. I(T) = I(R) \cup {p[a]} /\ p[a] \notin I(R)
      BY <3>2
    <3>4. SumFunctionOnSet(g, T) = g[a] + SumFunctionOnSet(g, R)
      <4>1. \A x \in R : g[x] \in Int
        BY <3>2
      <4> HIDE DEF R, G, I
      <4> QED BY <3>2, <4>1, SumWith
    <3>5. IsFiniteSet(I(R)) /\ SumFunctionOnSet(g, R) = SumFunctionOnSet(f, I(R))
      BY <3>2
    <3>6. SumFunctionOnSet(f, I(T)) = f[p[a]] + SumFunctionOnSet(f, I(R))
      <4>1. \A y \in I(R) : f[y] \in Int
        BY <3>2
      <4>2. f[p[a]] \in Int
        BY <3>2
      <4> HIDE DEF R, G, I
      <4> QED BY <3>3, <3>5, <4>1, <4>2, SumWith
    <3>7. IsFiniteSet(I(T))
      <4> HIDE DEF R, G, I
      <4> QED BY <3>3, <3>5, FS_AddElement
    <3>8. g[a] = f[p[a]]
      BY <3>2
    <3> HIDE DEF R, I
    <3> QED BY <3>4, <3>5, <3>6, <3>7, <3>8
  <2> QED BY <2>1, <2>2
<1>3. S \in G
  <2> HIDE DEF G
  <2>1. G \in SUBSET SUBSET S
    BY DEF G
  <2> QED BY <1>1, <1>2, <2>1, SetsInduction
<1> QED BY <1>3

\* p picks m of n places, in order.
Picks(p, m, n) ==
    /\ p \in [1..m -> 1..n]
    /\ \A i, j \in 1..m : i < j => p[i] < p[j]

\* The places picked.
Picked(p, m) == {p[j] : j \in 1..m}

\* If there is nothing at the other places, the sum of what was picked is that of
\* all, up to any of the places.
LEMMA SumOfPicked ==
    ASSUME NEW m \in Nat, NEW n \in Nat, NEW p, Picks(p, m, n),
           NEW f, \A i \in 1..n : f[i] \in Int,
           \A i \in (1..n) \ Picked(p, m) : f[i] = 0,
           NEW g, \A j \in 1..m : g[j] = f[p[j]]
    PROVE  /\ SumFunctionOnSet(g, 1..m) = SumFunctionOnSet(f, 1..n)
           /\ \A l \in 1..m : SumFunctionOnSet(g, 1..l) = SumFunctionOnSet(f, 1..p[l])
<1> DEFINE I(l) == {p[j] : j \in 1..l}
<1>1. ASSUME NEW l \in 0..m, NEW k \in 0..n, I(l) \subseteq 1..k, \A i \in (1..k) \ I(l) : f[i] = 0
      PROVE  SumFunctionOnSet(g, 1..l) = SumFunctionOnSet(f, 1..k)
  <2>1. IsFiniteSet(1..l) /\ IsFiniteSet(1..k)
    <3>1. 1 \in Int /\ l \in Int /\ k \in Int
      OBVIOUS
    <3> QED BY <3>1, FS_Interval
  <2>2. /\ \A i, j \in 1..l : p[i] = p[j] => i = j
        /\ \A j \in 1..l : f[p[j]] \in Int /\ g[j] = f[p[j]]
    <3>1. \A i \in 1..l : i \in 1..m /\ p[i] \in 1..n /\ i \in Int /\ p[i] \in Int
      BY DEF Picks
    <3>2. \A i, j \in 1..l : i < j => p[i] < p[j]
      BY <3>1 DEF Picks
    <3>3. \A i, j \in 1..l : p[i] = p[j] => i = j
      <4> SUFFICES ASSUME NEW i \in 1..l, NEW j \in 1..l, p[i] = p[j] PROVE i = j
        OBVIOUS
      <4>1. ~(p[i] < p[j]) /\ ~(p[j] < p[i])
        BY <3>1
      <4>2. ~(i < j) /\ ~(j < i)
        BY <3>2, <4>1
      <4> QED BY <4>2
    <3> QED BY <3>1, <3>3
  <2>3. SumFunctionOnSet(g, 1..l) = SumFunctionOnSet(f, I(l))
    <3> DEFINE L == 1..l
    <3>1. IsFiniteSet(L) /\ \A i, j \in L : p[i] = p[j] => i = j
      BY <2>1, <2>2
    <3>2. \A j \in L : f[p[j]] \in Int /\ g[j] = f[p[j]]
      BY <2>2
    <3> HIDE DEF L
    <3>3. SumFunctionOnSet(g, L) = SumFunctionOnSet(f, {p[x] : x \in L})
      BY <3>1, <3>2, SumMapped
    <3> QED BY <3>3 DEF L
  <2>4. \A i \in I(l) : f[i] \in Int
    BY <2>2
  <2> HIDE DEF I
  <2>5. SumFunctionOnSet(f, 1..k) = SumFunctionOnSet(f, I(l))
    BY <1>1, <2>1, <2>4, SumOfPart
  <2> QED BY <2>3, <2>5
<1>2. SumFunctionOnSet(g, 1..m) = SumFunctionOnSet(f, 1..n)
  <2>1. I(m) \subseteq 1..n
    BY DEF Picks
  <2>2. m \in 0..m /\ n \in 0..n /\ \A i \in (1..n) \ I(m) : f[i] = 0
    BY DEF Picked
  <2> HIDE DEF I
  <2> QED BY <1>1, <2>1, <2>2
<1>3. ASSUME NEW l \in 1..m PROVE SumFunctionOnSet(g, 1..l) = SumFunctionOnSet(f, 1..p[l])
  <2>1. p[l] \in 1..n /\ \A j \in 1..m : p[j] \in 1..n
    BY DEF Picks
  <2>2. \A j \in 1..l : p[j] <= p[l]
    <3> SUFFICES ASSUME NEW j \in 1..l PROVE p[j] <= p[l]
      OBVIOUS
    <3>1. j \in 1..m /\ p[j] \in 1..n /\ (j = l \/ j < l)
      BY <2>1
    <3> QED BY <2>1, <3>1 DEF Picks
  <2>3. I(l) \subseteq 1..p[l]
    <3> SUFFICES ASSUME NEW j \in 1..l PROVE p[j] \in 1..p[l]
      OBVIOUS
    <3> QED BY <2>1, <2>2
  <2>4. ASSUME NEW i \in (1..p[l]) \ I(l) PROVE f[i] = 0
    <3>1. ASSUME NEW j \in 1..m, i = p[j] PROVE FALSE
      <4>1. ~(j \in 1..l)
        BY <2>4, <3>1
      <4>2. l < j
        BY <4>1
      <4>3. p[l] < p[j]
        BY <4>2 DEF Picks
      <4> QED BY <2>1, <2>4, <3>1, <4>3
    <3>2. i \in 1..n /\ i \notin Picked(p, m)
      BY <2>1, <3>1 DEF Picked
    <3> QED BY <3>2
  <2>5. l \in 0..m /\ p[l] \in 0..n
    BY <2>1
  <2> HIDE DEF I
  <2> QED BY <1>1, <2>3, <2>4, <2>5
<1> QED BY <1>2, <1>3

\* The first k + 1 values are the first k and one more.
LEMMA SumNext ==
    ASSUME NEW k \in Nat, NEW f, \A i \in 1..(k + 1) : f[i] \in Int
    PROVE  /\ SumFunctionOnSet(f, 1..k) \in Int
           /\ SumFunctionOnSet(f, 1..(k + 1)) = SumFunctionOnSet(f, 1..k) + f[k + 1]
<1>1. IsFiniteSet(1..k)
  <2>1. 1 \in Int /\ k \in Int
    OBVIOUS
  <2> QED BY <2>1, FS_Interval
<1>2. 1..(k + 1) = (1..k) \cup {k + 1} /\ k + 1 \notin 1..k
  OBVIOUS
<1>3. \A i \in 1..k : f[i] \in Int
  OBVIOUS
<1>4. f[k + 1] \in Int
  OBVIOUS
<1>5. SumFunctionOnSet(f, 1..k) \in Int
  BY <1>1, <1>3, SumIsInt
<1>6. SumFunctionOnSet(f, 1..(k + 1)) = f[k + 1] + SumFunctionOnSet(f, 1..k)
  BY <1>1, <1>2, <1>3, <1>4, SumWith
<1> QED BY <1>4, <1>5, <1>6

\* What begins and goes on like a fold ends like it.
LEMMA TurnsReach ==
    ASSUME NEW n \in Nat, NEW V, NEW G, NEW base, NEW g, TakesTurns(V, G, base, g, n),
           NEW w, w[0] = base, \A k \in 0..(n - 1) : w[k + 1] = G[<<k + 1, w[k]>>]
    PROVE  g[1..n] = w[n]
<1> DEFINE N == {k \in Nat : k <= n => g[1..k] = w[k]}
<1>1. 0 \in N
  BY DEF TakesTurns
<1>2. ASSUME NEW k \in N PROVE k + 1 \in N
  <2> SUFFICES ASSUME k + 1 <= n PROVE g[1..(k + 1)] = w[k + 1]
    OBVIOUS
  <2>1. k \in 0..(n - 1) /\ g[1..k] = w[k]
    OBVIOUS
  <2>2. g[1..(k + 1)] = G[<<k + 1, g[1..k]>>]
    BY <2>1 DEF TakesTurns
  <2> HIDE DEF N
  <2> QED BY <2>1, <2>2
<1>3. N = Nat
  <2> HIDE DEF N
  <2>1. N \in SUBSET Nat
    BY DEF N
  <2> QED BY <1>1, <1>2, <2>1, NumbersInduction
<1> QED BY <1>3

=============================================================================
