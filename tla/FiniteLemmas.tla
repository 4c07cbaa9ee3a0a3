---------------------------- MODULE FiniteLemmas ----------------------------
(***************************************************************************)
(* Induction over numbers and finite sets, and the sums over finite sets   *)
(* that SumFunctionOnSet of module Functions computes by recursion over    *)
(* the subsets of a set.  Induction is stated for sets instead of          *)
(* predicates, so that a proof can instantiate it.                         *)
(***************************************************************************)
EXTENDS Integers, Functions, FiniteSetTheorems, TLAPS

----------------------------------------------------------------------------
\* Induction

\* A set of numbers that is not empty has a least element.
LEMMA LeastElement ==
    ASSUME NEW T \in SUBSET Nat, T # {}
    PROVE  \E m \in T : \A k \in T : m <= k
<1>1. \E x \in T : \A y \in T : ~(<<y, x>> \in OpToRel(<, Nat))
  BY NatLessThanWellFounded, WFMin
<1>2. \A x, y \in Nat : y < x => <<y, x>> \in OpToRel(<, Nat)
  BY DEF OpToRel
<1>3. \A x, y \in Nat : ~(y < x) => x <= y
  OBVIOUS
<1>. QED
  BY <1>1, <1>2, <1>3

\* A set that has 0, and the successor of each number in it, has all numbers.
LEMMA NatInSet ==
    ASSUME NEW T, 0 \in T, \A n \in Nat : n \in T => n + 1 \in T
    PROVE  Nat \subseteq T
<1>. SUFFICES ASSUME Nat \ T # {} PROVE FALSE
  OBVIOUS
<1>1. PICK m \in Nat \ T : \A k \in Nat \ T : m <= k
  BY LeastElement
<1>2. m # 0 /\ m - 1 \in Nat
  BY <1>1
<1>3. m - 1 \in T
  BY <1>1, <1>2
<1>. QED
  BY <1>1, <1>2, <1>3

\* A set that has the empty set, and a finite set whenever it has the set with
\* any one element of it removed, has all the finite sets.
LEMMA FiniteInSet ==
    ASSUME NEW S, IsFiniteSet(S), NEW G, {} \in G,
           \A T \in SUBSET S : T # {} /\ (\A x \in T : T \ {x} \in G) => T \in G
    PROVE  \A T \in SUBSET S : T \in G
<1>. DEFINE N == {n \in Nat : \A T \in SUBSET S : Cardinality(T) = n => T \in G}
<1>1. \A T \in SUBSET S : IsFiniteSet(T) /\ Cardinality(T) \in Nat
  BY FS_Subset, FS_CardinalityType
<1>2. 0 \in N
  BY <1>1, FS_EmptySet
<1>3. ASSUME NEW n \in Nat, n \in N PROVE n + 1 \in N
  <2>. SUFFICES ASSUME NEW T \in SUBSET S, Cardinality(T) = n + 1 PROVE T \in G
    OBVIOUS
  <2>0. n + 1 # 0
    OBVIOUS
  <2>1. T # {}
    BY <2>0, FS_EmptySet, Zenon
  <2>2. ASSUME NEW x \in T PROVE T \ {x} \in G
    <3>1. Cardinality(T \ {x}) = n
      BY <1>1, FS_RemoveElement
    <3>. QED
      BY <1>3, <3>1
  <2>. QED
    BY <2>1, <2>2
<1>4. Nat \subseteq N
  <2>. HIDE DEF N
  <2>. QED
    BY <1>2, <1>3, NatInSet
<1>. QED
  BY <1>1, <1>4

----------------------------------------------------------------------------
\* The recursive function behind a sum

Pick(s) == CHOOSE x \in s : TRUE

SumStep(f, g, s) == IF s = {} THEN 0 ELSE f[Pick(s)] + g[s \ {Pick(s)}]

\* The sums of the subsets of S.
IsSumOver(f, g, S) == g = [s \in SUBSET S |-> SumStep(f, g, s)]

\* A function that satisfies the recursion exists: it is built up by the size of
\* the sets that it is right for.
LEMMA SumExists ==
    ASSUME NEW f, NEW S, IsFiniteSet(S)
    PROVE  \E g : IsSumOver(f, g, S)
<1>. DEFINE RightUpTo(g, n) ==
                \A s \in SUBSET S : Cardinality(s) <= n => g[s] = SumStep(f, g, s)
            N == {n \in Nat : \E g : g = [s \in SUBSET S |-> g[s]] /\ RightUpTo(g, n)}
<1>1. \A s \in SUBSET S : IsFiniteSet(s) /\ Cardinality(s) \in Nat
  BY FS_Subset, FS_CardinalityType
<1>2. 0 \in N
  <2>. DEFINE g == [s \in SUBSET S |-> 0]
  <2>1. \A s \in SUBSET S : Cardinality(s) <= 0 => s = {}
    BY <1>1, FS_EmptySet
  <2>2. g = [s \in SUBSET S |-> g[s]] /\ RightUpTo(g, 0)
    BY <2>1 DEF SumStep
  <2>. QED
    BY <2>2
<1>3. ASSUME NEW n \in Nat, n \in N PROVE n + 1 \in N
  <2>1. PICK g : g = [s \in SUBSET S |-> g[s]] /\ RightUpTo(g, n)
    BY <1>3
  <2>. DEFINE h == [s \in SUBSET S |-> SumStep(f, g, s)]
  <2>2. \A s \in SUBSET S : Cardinality(s) <= n => h[s] = g[s]
    BY <2>1
  <2>3. ASSUME NEW s \in SUBSET S, Cardinality(s) <= n + 1
        PROVE  h[s] = SumStep(f, h, s)
    <3>1. CASE s = {}
      BY <3>1 DEF SumStep
    <3>2. CASE s # {}
      <4>1. Pick(s) \in s
        BY <3>2 DEF Pick
      <4>2. s \ {Pick(s)} \in SUBSET S /\ Cardinality(s \ {Pick(s)}) <= n
        BY <1>1, <2>3, <4>1, FS_RemoveElement
      <4>3. h[s \ {Pick(s)}] = g[s \ {Pick(s)}]
        BY <2>2, <4>2
      <4>. QED
        BY <3>2, <4>3 DEF SumStep
    <3>. QED
      BY <3>1, <3>2
  <2>4. h = [s \in SUBSET S |-> h[s]] /\ RightUpTo(h, n + 1)
    BY <2>3
  <2>5. \E gg : gg = [s \in SUBSET S |-> gg[s]] /\ RightUpTo(gg, n + 1)
    <3>. HIDE DEF h, RightUpTo
    <3>. QED
      BY <2>4, Zenon
  <2>. HIDE DEF h, RightUpTo
  <2>. QED
    BY <2>5
<1>4. Cardinality(S) \in N
  <2>. HIDE DEF N
  <2>1. Nat \subseteq N
    BY <1>2, <1>3, NatInSet
  <2>. QED
    BY <1>1, <2>1
<1>5. PICK g : g = [s \in SUBSET S |-> g[s]] /\ RightUpTo(g, Cardinality(S))
  BY <1>4
<1>6. \A s \in SUBSET S : g[s] = SumStep(f, g, s)
  BY <1>1, <1>5, FS_Subset
<1>. QED
  BY <1>5, <1>6 DEF IsSumOver

\* It is unique: functions that satisfy the recursion over two sets agree on
\* their common subsets.
LEMMA SumUnique ==
    ASSUME NEW f, NEW S, NEW T, IsFiniteSet(S), T \in SUBSET S,
           NEW g, IsSumOver(f, g, S), NEW h, IsSumOver(f, h, T)
    PROVE  \A s \in SUBSET T : g[s] = h[s]
<1>. DEFINE G == {s \in SUBSET T : g[s] = h[s]}
<1>1. \A s \in SUBSET T : g[s] = SumStep(f, g, s) /\ h[s] = SumStep(f, h, s)
  BY DEF IsSumOver
<1>2. {} \in G
  BY <1>1 DEF SumStep
<1>3. ASSUME NEW s \in SUBSET T, s # {}, \A x \in s : s \ {x} \in G
      PROVE  s \in G
  <2>1. Pick(s) \in s
    BY <1>3 DEF Pick
  <2>2. g[s \ {Pick(s)}] = h[s \ {Pick(s)}]
    BY <1>3, <2>1
  <2>. QED
    BY <1>1, <1>3, <2>2 DEF SumStep
<1>4. IsFiniteSet(T)
  BY FS_Subset
<1>. HIDE DEF G
<1>5. \A s \in SUBSET T : s \in G
  BY <1>2, <1>3, <1>4, FiniteInSet
<1>. QED
  BY <1>5 DEF G

LEMMA SumOver ==
    ASSUME NEW f, NEW S, IsFiniteSet(S), NEW g, IsSumOver(f, g, S)
    PROVE  \A T \in SUBSET S : SumFunctionOnSet(f, T) = g[T]
<1>. SUFFICES ASSUME NEW T \in SUBSET S PROVE SumFunctionOnSet(f, T) = g[T]
  OBVIOUS
<1>. DEFINE h == CHOOSE h : IsSumOver(f, h, T)
<1>1. IsFiniteSet(T)
  BY FS_Subset
<1>2. SumFunctionOnSet(f, T) = h[T]
  BY DEF SumFunctionOnSet, FoldFunctionOnSet, MapThenFoldSet, IsSumOver, SumStep, Pick
<1>3. IsSumOver(f, h, T)
  BY <1>1, SumExists
<1>. HIDE DEF h
<1>. QED
  BY <1>2, <1>3, SumUnique

----------------------------------------------------------------------------
\* What sums are

LEMMA SumEmpty == \A f : SumFunctionOnSet(f, {}) = 0
<1>. SUFFICES ASSUME NEW f PROVE SumFunctionOnSet(f, {}) = 0
  OBVIOUS
<1>1. IsFiniteSet({})
  BY FS_EmptySet
<1>2. PICK g : IsSumOver(f, g, {})
  BY <1>1, SumExists
<1>3. SumFunctionOnSet(f, {}) = g[{}]
  BY <1>1, <1>2, SumOver
<1>. QED
  BY <1>2, <1>3 DEF IsSumOver, SumStep

LEMMA SumPicked ==
    ASSUME NEW f, NEW S, IsFiniteSet(S), S # {}
    PROVE  /\ Pick(S) \in S
           /\ SumFunctionOnSet(f, S) = f[Pick(S)] + SumFunctionOnSet(f, S \ {Pick(S)})
<1>1. PICK g : IsSumOver(f, g, S)
  BY SumExists
<1>2. SumFunctionOnSet(f, S) = g[S]
  BY <1>1, SumOver
<1>3. SumFunctionOnSet(f, S \ {Pick(S)}) = g[S \ {Pick(S)}]
  BY <1>1, SumOver
<1>4. g[S] = f[Pick(S)] + g[S \ {Pick(S)}]
  BY <1>1 DEF IsSumOver, SumStep
<1>. QED
  BY <1>2, <1>3, <1>4 DEF Pick

\* A sum of natural numbers is one.
LEMMA SumType ==
    ASSUME NEW f, NEW S, IsFiniteSet(S), \A x \in S : f[x] \in Nat
    PROVE  SumFunctionOnSet(f, S) \in Nat
<1>. DEFINE G == {T \in SUBSET S : SumFunctionOnSet(f, T) \in Nat}
<1>1. {} \in G
  BY SumEmpty
<1>2. \A T \in SUBSET S : T # {} /\ (\A x \in T : T \ {x} \in G) => T \in G
  <2>. SUFFICES ASSUME NEW T \in SUBSET S, T # {}, \A x \in T : T \ {x} \in G
                PROVE  T \in G
    OBVIOUS
  <2>1. IsFiniteSet(T)
    BY FS_Subset
  <2>2. /\ Pick(T) \in T
        /\ SumFunctionOnSet(f, T) = f[Pick(T)] + SumFunctionOnSet(f, T \ {Pick(T)})
    BY <2>1, SumPicked
  <2>3. SumFunctionOnSet(f, T \ {Pick(T)}) \in Nat
    BY <2>2
  <2>. QED
    BY <2>2, <2>3
<1>. HIDE DEF G
<1>3. \A T \in SUBSET S : T \in G
  BY <1>1, <1>2, FiniteInSet
<1>. QED
  BY <1>3 DEF G

\* A sum depends on the values of the function on the set only.
LEMMA SumAgree ==
    ASSUME NEW f, NEW g, NEW S, IsFiniteSet(S), \A x \in S : f[x] = g[x]
    PROVE  SumFunctionOnSet(f, S) = SumFunctionOnSet(g, S)
<1>. DEFINE G == {T \in SUBSET S : SumFunctionOnSet(f, T) = SumFunctionOnSet(g, T)}
<1>1. {} \in G
  BY SumEmpty
<1>2. \A T \in SUBSET S : T # {} /\ (\A x \in T : T \ {x} \in G) => T \in G
  <2>. SUFFICES ASSUME NEW T \in SUBSET S, T # {}, \A x \in T : T \ {x} \in G
                PROVE  T \in G
    OBVIOUS
  <2>1. IsFiniteSet(T)
    BY FS_Subset
  <2>2. /\ Pick(T) \in T
        /\ SumFunctionOnSet(f, T) = f[Pick(T)] + SumFunctionOnSet(f, T \ {Pick(T)})
        /\ SumFunctionOnSet(g, T) = g[Pick(T)] + SumFunctionOnSet(g, T \ {Pick(T)})
    BY <2>1, SumPicked
  <2>3. SumFunctionOnSet(f, T \ {Pick(T)}) = SumFunctionOnSet(g, T \ {Pick(T)})
    BY <2>2
  <2>. QED
    BY <2>2, <2>3
<1>. HIDE DEF G
<1>3. \A T \in SUBSET S : T \in G
  BY <1>1, <1>2, FiniteInSet
<1>. QED
  BY <1>3 DEF G

\* Any element may be taken out of a sum first.
LEMMA SumRemove ==
    ASSUME NEW f, NEW S, IsFiniteSet(S), \A y \in S : f[y] \in Nat, NEW x \in S
    PROVE  SumFunctionOnSet(f, S) = SumFunctionOnSet(f, S \ {x}) + f[x]
<1>. DEFINE Sum(T) == SumFunctionOnSet(f, T)
            G == {T \in SUBSET S : \A y \in T : Sum(T) = Sum(T \ {y}) + f[y]}
<1>1. {} \in G
  OBVIOUS
<1>2. \A T \in SUBSET S : T # {} /\ (\A z \in T : T \ {z} \in G) => T \in G
  <2>. SUFFICES ASSUME NEW T \in SUBSET S, T # {}, \A z \in T : T \ {z} \in G, NEW y \in T
                PROVE  Sum(T) = Sum(T \ {y}) + f[y]
    OBVIOUS
  <2>1. \A U \in SUBSET S : IsFiniteSet(U) /\ Sum(U) \in Nat
    BY FS_Subset, SumType
  <2>. DEFINE c == Pick(T)
  <2>2. c \in T /\ Sum(T) = f[c] + Sum(T \ {c})
    BY <2>1, SumPicked
  <2>. HIDE DEF c
  <2>3. CASE c = y
    BY <2>1, <2>2, <2>3
  <2>4. CASE c # y
    <3>1. y \in T \ {c} /\ c \in T \ {y}
      BY <2>2, <2>4
    <3>2. Sum(T \ {c}) = Sum((T \ {c}) \ {y}) + f[y]
      BY <2>2, <3>1
    <3>3. Sum(T \ {y}) = Sum((T \ {y}) \ {c}) + f[c]
      BY <3>1
    <3>4. Sum((T \ {c}) \ {y}) = Sum((T \ {y}) \ {c})
      <4>1. (T \ {c}) \ {y} = (T \ {y}) \ {c}
        OBVIOUS
      <4>. QED
        BY <4>1, Zenon
    <3>5. /\ f[c] \in Nat /\ f[y] \in Nat
          /\ Sum((T \ {c}) \ {y}) \in Nat /\ Sum(T \ {c}) \in Nat /\ Sum(T \ {y}) \in Nat
      BY <2>1, <2>2
    <3>. QED
      BY <2>2, <3>2, <3>3, <3>4, <3>5
  <2>. QED
    BY <2>3, <2>4
<1>. HIDE DEF G
<1>3. \A T \in SUBSET S : T \in G
  BY <1>1, <1>2, FiniteInSet
<1>. QED
  BY <1>3 DEF G

\* An element that joins the set adds its value.
LEMMA SumAdd ==
    ASSUME NEW f, NEW S, IsFiniteSet(S), NEW x, x \notin S,
           \A y \in S \cup {x} : f[y] \in Nat
    PROVE  SumFunctionOnSet(f, S \cup {x}) = SumFunctionOnSet(f, S) + f[x]
<1>1. IsFiniteSet(S \cup {x})
  BY FS_AddElement
<1>2. (S \cup {x}) \ {x} = S
  OBVIOUS
<1>. QED
  BY <1>1, <1>2, SumRemove

\* The sums over two sets that have nothing in common.
LEMMA SumUnion ==
    ASSUME NEW f, NEW S, NEW T, IsFiniteSet(S), IsFiniteSet(T), S \cap T = {},
           \A x \in S \cup T : f[x] \in Nat
    PROVE  /\ IsFiniteSet(S \cup T)
           /\ SumFunctionOnSet(f, S \cup T) = SumFunctionOnSet(f, S) + SumFunctionOnSet(f, T)
<1>. DEFINE Sum(V) == SumFunctionOnSet(f, V)
            G == {U \in SUBSET T : IsFiniteSet(S \cup U) /\ Sum(S \cup U) = Sum(S) + Sum(U)}
<1>1. {} \in G
  <2>1. S \cup {} = S
    OBVIOUS
  <2>2. Sum({}) = 0 /\ Sum(S) \in Nat
    BY SumEmpty, SumType
  <2>. QED
    BY <2>1, <2>2
<1>2. ASSUME NEW U \in SUBSET T, U # {}, \A x \in U : U \ {x} \in G
      PROVE  U \in G
  <2>1. PICK x \in U : TRUE
    BY <1>2
  <2>2. PICK V : V = U \ {x}
    OBVIOUS
  <2>3. IsFiniteSet(S \cup V) /\ Sum(S \cup V) = Sum(S) + Sum(V)
    BY <1>2, <2>1, <2>2
  <2>4. /\ U = V \cup {x} /\ S \cup U = (S \cup V) \cup {x}
        /\ x \notin V /\ x \notin S \cup V /\ x \in T
    BY <2>1, <2>2
  <2>5. IsFiniteSet(V)
    BY <2>2, FS_Subset
  <2>6. /\ \A y \in V \cup {x} : f[y] \in Nat
        /\ \A y \in (S \cup V) \cup {x} : f[y] \in Nat
    BY <2>2, <2>4
  <2>7. ASSUME NEW W, IsFiniteSet(W), x \notin W, \A y \in W \cup {x} : f[y] \in Nat
        PROVE  Sum(W \cup {x}) = Sum(W) + f[x]
    BY <2>7, SumAdd
  <2>8. /\ Sum(V \cup {x}) = Sum(V) + f[x]
        /\ Sum((S \cup V) \cup {x}) = Sum(S \cup V) + f[x]
    <3>. HIDE DEF Sum
    <3>1. Sum(V \cup {x}) = Sum(V) + f[x]
      BY <2>4, <2>5, <2>6, <2>7, Zenon
    <3>2. Sum((S \cup V) \cup {x}) = Sum(S \cup V) + f[x]
      BY <2>3, <2>4, <2>6, <2>7, Zenon
    <3>. QED
      BY <3>1, <3>2
  <2>9. Sum(S) \in Nat /\ Sum(V) \in Nat /\ f[x] \in Nat
    BY <2>4, <2>5, <2>6, SumType
  <2>10. IsFiniteSet(S \cup U)
    BY <2>3, <2>4, FS_AddElement
  <2>. HIDE DEF Sum
  <2>11. Sum(S \cup U) = Sum(S) + Sum(U)
    <3>1. Sum(U) = Sum(V) + f[x] /\ Sum(S \cup U) = Sum(S \cup V) + f[x]
      BY <2>4, <2>8, Zenon
    <3>. QED
      BY <2>3, <2>9, <3>1
  <2>. QED
    BY <2>10, <2>11
<1>3. T \in G
  <2>. HIDE DEF G
  <2>. QED
    BY <1>1, <1>2, FiniteInSet
<1>. QED
  BY <1>3

\* Sums over sets that are disjoint, added up.
LEMMA SumOfSums ==
    ASSUME NEW I, IsFiniteSet(I), NEW S, NEW f,
           \A i \in I : IsFiniteSet(S[i]), \A i \in I : \A x \in S[i] : f[x] \in Nat,
           \A i, j \in I : i # j => S[i] \cap S[j] = {},
           NEW g, \A i \in I : g[i] = SumFunctionOnSet(f, S[i]),
           NEW all, \A i \in I : S[i] \subseteq all, \A x \in all : \E i \in I : x \in S[i]
    PROVE  SumFunctionOnSet(g, I) = SumFunctionOnSet(f, all)
<1>. DEFINE All(T) == UNION {S[i] : i \in T}
            G == {T \in SUBSET I : /\ IsFiniteSet(All(T))
                                   /\ SumFunctionOnSet(g, T) = SumFunctionOnSet(f, All(T))}
<1>1. {} \in G
  <2>1. All({}) = {}
    OBVIOUS
  <2>2. IsFiniteSet({})
    BY FS_EmptySet
  <2>3. SumFunctionOnSet(g, {}) = 0 /\ SumFunctionOnSet(f, {}) = 0
    BY SumEmpty
  <2>. QED
    BY <2>1, <2>2, <2>3
<1>2. ASSUME NEW T \in SUBSET I, T # {}, \A x \in T : T \ {x} \in G
      PROVE  T \in G
  <2>1. PICK x \in T : TRUE
    BY <1>2
  <2>. DEFINE U == T \ {x}
  <2>2. U \in SUBSET I /\ IsFiniteSet(All(U)) /\ SumFunctionOnSet(g, U) = SumFunctionOnSet(f, All(U))
    <3>1. U \in G
      BY <1>2, <2>1
    <3>. HIDE DEF All, U
    <3>. QED
      BY <3>1
  <2>3. All(T) = All(U) \cup S[x] /\ All(U) \cap S[x] = {}
    BY <2>1
  <2>4. IsFiniteSet(S[x]) /\ g[x] = SumFunctionOnSet(f, S[x]) /\ IsFiniteSet(T)
    BY <2>1, FS_Subset
  <2>5. \A y \in T : g[y] \in Nat
    BY SumType
  <2>6. SumFunctionOnSet(g, T) = SumFunctionOnSet(g, U) + g[x]
    BY <2>1, <2>4, <2>5, SumRemove, Zenon
  <2>7. \A y \in All(U) \cup S[x] : f[y] \in Nat
    BY <2>1
  <2>. HIDE DEF All, U
  <2>8. /\ IsFiniteSet(All(U) \cup S[x])
        /\ SumFunctionOnSet(f, All(U) \cup S[x])
                = SumFunctionOnSet(f, All(U)) + SumFunctionOnSet(f, S[x])
    <3>1. ASSUME NEW A, NEW B, IsFiniteSet(A), IsFiniteSet(B), A \cap B = {},
                 \A y \in A \cup B : f[y] \in Nat
          PROVE  /\ IsFiniteSet(A \cup B)
                 /\ SumFunctionOnSet(f, A \cup B) = SumFunctionOnSet(f, A) + SumFunctionOnSet(f, B)
      BY <3>1, SumUnion
    <3>. QED
      BY <2>2, <2>3, <2>4, <2>7, <3>1, Zenon
  <2>9. /\ IsFiniteSet(All(T))
        /\ SumFunctionOnSet(f, All(T)) = SumFunctionOnSet(f, All(U)) + SumFunctionOnSet(f, S[x])
    BY <2>3, <2>8, Zenon
  <2>. QED
    BY <2>2, <2>4, <2>6, <2>9
<1>3. I \in G
  <2>. HIDE DEF G
  <2>1. \A T \in SUBSET I : T # {} /\ (\A x \in T : T \ {x} \in G) => T \in G
    BY <1>2, Zenon
  <2>2. \A T \in SUBSET I : T \in G
    BY <1>1, <2>1, FiniteInSet, Zenon
  <2>. QED
    BY <2>2
<1>4. all = All(I)
  OBVIOUS
<1>. HIDE DEF All
<1>. QED
  BY <1>3, <1>4

\* Of two sums, that of the smaller values is the smaller one.
LEMMA SumAtMost ==
    ASSUME NEW S, IsFiniteSet(S), NEW f, NEW g,
           \A x \in S : f[x] \in Nat /\ g[x] \in Nat /\ f[x] <= g[x]
    PROVE  SumFunctionOnSet(f, S) <= SumFunctionOnSet(g, S)
<1>. DEFINE G == {T \in SUBSET S : SumFunctionOnSet(f, T) <= SumFunctionOnSet(g, T)}
<1>1. {} \in G
  BY SumEmpty
<1>2. \A T \in SUBSET S : T # {} /\ (\A x \in T : T \ {x} \in G) => T \in G
  <2>. SUFFICES ASSUME NEW T \in SUBSET S, T # {}, \A x \in T : T \ {x} \in G
                PROVE  T \in G
    OBVIOUS
  <2>1. \A U \in SUBSET S : /\ IsFiniteSet(U)
                            /\ SumFunctionOnSet(f, U) \in Nat /\ SumFunctionOnSet(g, U) \in Nat
    BY FS_Subset, SumType
  <2>2. /\ Pick(T) \in T
        /\ SumFunctionOnSet(f, T) = f[Pick(T)] + SumFunctionOnSet(f, T \ {Pick(T)})
        /\ SumFunctionOnSet(g, T) = g[Pick(T)] + SumFunctionOnSet(g, T \ {Pick(T)})
    BY <2>1, SumPicked
  <2>3. /\ SumFunctionOnSet(f, T \ {Pick(T)}) <= SumFunctionOnSet(g, T \ {Pick(T)})
        /\ SumFunctionOnSet(f, T \ {Pick(T)}) \in Nat /\ SumFunctionOnSet(g, T \ {Pick(T)}) \in Nat
    BY <2>1, <2>2
  <2>4. f[Pick(T)] \in Nat /\ g[Pick(T)] \in Nat /\ f[Pick(T)] <= g[Pick(T)]
    BY <2>2
  <2>. QED
    BY <2>2, <2>3, <2>4
<1>. HIDE DEF G
<1>3. \A T \in SUBSET S : T \in G
  BY <1>1, <1>2, FiniteInSet
<1>. QED
  BY <1>3 DEF G

\* The elements of sets that are disjoint, counted set by set.
LEMMA SumOfDisjoint ==
    ASSUME NEW I, IsFiniteSet(I), NEW f, \A i \in I : IsFiniteSet(f[i]),
           \A i, j \in I : i # j => f[i] \cap f[j] = {},
           NEW g, \A i \in I : g[i] = Cardinality(f[i]),
           NEW all, \A i \in I : f[i] \subseteq all, \A x \in all : \E i \in I : x \in f[i]
    PROVE  IsFiniteSet(all) /\ SumFunctionOnSet(g, I) = Cardinality(all)
<1>. DEFINE All(T) == UNION {f[i] : i \in T}
            G == {T \in SUBSET I : IsFiniteSet(All(T)) /\ SumFunctionOnSet(g, T) = Cardinality(All(T))}
<1>1. {} \in G
  <2>1. All({}) = {}
    OBVIOUS
  <2>2. IsFiniteSet({}) /\ Cardinality({}) = 0
    BY FS_EmptySet
  <2>3. SumFunctionOnSet(g, {}) = 0
    BY SumEmpty
  <2>. QED
    BY <2>1, <2>2, <2>3
<1>2. ASSUME NEW T \in SUBSET I, T # {}, \A x \in T : T \ {x} \in G
      PROVE  T \in G
  <2>1. PICK x \in T : TRUE
    BY <1>2
  <2>. DEFINE U == T \ {x}
  <2>2. U \in SUBSET I /\ IsFiniteSet(All(U)) /\ SumFunctionOnSet(g, U) = Cardinality(All(U))
    <3>1. U \in G
      BY <1>2, <2>1
    <3>. HIDE DEF All, U
    <3>. QED
      BY <3>1
  <2>3. All(T) = All(U) \cup f[x] /\ All(U) \cap f[x] = {}
    BY <2>1
  <2>4. IsFiniteSet(f[x]) /\ g[x] = Cardinality(f[x]) /\ IsFiniteSet(T)
    BY <2>1, FS_Subset
  <2>5. \A y \in T : g[y] \in Nat
    BY FS_CardinalityType
  <2>6. SumFunctionOnSet(g, T) = SumFunctionOnSet(g, U) + g[x]
    BY <2>1, <2>4, <2>5, SumRemove, Zenon
  <2>7. ASSUME NEW A, NEW B, IsFiniteSet(A), IsFiniteSet(B), A \cap B = {}
        PROVE  IsFiniteSet(A \cup B) /\ Cardinality(A \cup B) = Cardinality(A) + Cardinality(B)
    <3>1. /\ IsFiniteSet(A \cup B)
          /\ Cardinality(A \cup B) = Cardinality(A) + Cardinality(B) - Cardinality(A \cap B)
      BY <2>7, FS_Union
    <3>2. Cardinality(A \cap B) = 0
      BY <2>7, FS_EmptySet
    <3>3. Cardinality(A) \in Nat /\ Cardinality(B) \in Nat
      BY <2>7, FS_CardinalityType
    <3>. QED
      BY <3>1, <3>2, <3>3
  <2>. HIDE DEF All, U
  <2>8. IsFiniteSet(All(T)) /\ Cardinality(All(T)) = Cardinality(All(U)) + Cardinality(f[x])
    <3>1. /\ IsFiniteSet(All(U) \cup f[x])
          /\ Cardinality(All(U) \cup f[x]) = Cardinality(All(U)) + Cardinality(f[x])
      BY <2>2, <2>3, <2>4, <2>7, Zenon
    <3>. QED
      BY <2>3, <3>1, Zenon
  <2>. QED
    BY <2>2, <2>4, <2>6, <2>8
<1>3. I \in G
  <2>. HIDE DEF G
  <2>1. \A T \in SUBSET I : T # {} /\ (\A x \in T : T \ {x} \in G) => T \in G
    BY <1>2, Zenon
  <2>2. \A T \in SUBSET I : T \in G
    BY <1>1, <2>1, FiniteInSet, Zenon
  <2>. QED
    BY <2>2
<1>4. all = All(I)
  OBVIOUS
<1>. HIDE DEF All
<1>. QED
  BY <1>3, <1>4

----------------------------------------------------------------------------
\* Sorting

\* A finite set that is not empty has a greatest element in a total preorder.
LEMMA GreatestElement ==
    ASSUME NEW S, IsFiniteSet(S), NEW R,
           \A x, y \in S : <<x, y>> \in R \/ <<y, x>> \in R,
           \A x, y, z \in S : <<x, y>> \in R /\ <<y, z>> \in R => <<x, z>> \in R
    PROVE  \A T \in SUBSET S : T # {} => \E m \in T : \A x \in T : <<x, m>> \in R
<1>. DEFINE G == {T \in SUBSET S : T # {} => \E m \in T : \A x \in T : <<x, m>> \in R}
<1>1. {} \in G
  OBVIOUS
<1>2. \A T \in SUBSET S : T # {} /\ (\A x \in T : T \ {x} \in G) => T \in G
  <2>. SUFFICES ASSUME NEW T \in SUBSET S, T # {}, \A x \in T : T \ {x} \in G
                PROVE  \E m \in T : \A x \in T : <<x, m>> \in R
    OBVIOUS
  <2>1. PICK c \in T : TRUE
    OBVIOUS
  <2>2. c \in S /\ <<c, c>> \in R
    OBVIOUS
  <2>3. CASE T \ {c} = {}
    BY <2>1, <2>2, <2>3
  <2>4. CASE T \ {c} # {}
    <3>1. PICK m \in T \ {c} : \A x \in T \ {c} : <<x, m>> \in R
      BY <2>1, <2>4
    <3>2. CASE <<c, m>> \in R
      BY <3>1, <3>2
    <3>3. CASE <<m, c>> \in R
      <4>1. \A x \in T : <<x, c>> \in R
        BY <2>1, <2>2, <3>1, <3>3
      <4>. QED
        BY <2>1, <4>1
    <3>. QED
      BY <2>1, <3>1, <3>2, <3>3
  <2>. QED
    BY <2>3, <2>4
<1>. HIDE DEF G
<1>3. \A T \in SUBSET S : T \in G
  BY <1>1, <1>2, FiniteInSet
<1>. QED
  BY <1>3 DEF G

\* The sequences that have each element of a set once, in the order R.
Sorted(s, T, R) ==
    /\ s \in Bijection(1..Cardinality(T), T)
    /\ \A i, j \in DOMAIN s : i < j => <<s[i], s[j]>> \in R

\* A finite set can be sorted.
LEMMA Sorting ==
    ASSUME NEW S, IsFiniteSet(S), NEW R,
           \A x, y \in S : <<x, y>> \in R \/ <<y, x>> \in R,
           \A x, y, z \in S : <<x, y>> \in R /\ <<y, z>> \in R => <<x, z>> \in R
    PROVE  \E s : Sorted(s, S, R)
<1>. DEFINE G == {T \in SUBSET S : \E s : Sorted(s, T, R)}
<1>1. {} \in G
  <2>. DEFINE s == [i \in 1..0 |-> {}]
  <2>1. Cardinality({}) = 0
    BY FS_EmptySet
  <2>2. s \in Bijection(1..0, {})
    BY DEF Bijection, Injection, Surjection, IsInjective
  <2>3. Sorted(s, {}, R)
    BY <2>1, <2>2 DEF Sorted
  <2>. QED
    <3>. HIDE DEF s
    <3>. QED
      BY <2>3
<1>2. \A T \in SUBSET S : T # {} /\ (\A x \in T : T \ {x} \in G) => T \in G
  <2>. SUFFICES ASSUME NEW T \in SUBSET S, T # {}, \A x \in T : T \ {x} \in G
                PROVE  \E s : Sorted(s, T, R)
    OBVIOUS
  <2>1. PICK m \in T : \A x \in T : <<x, m>> \in R
    BY GreatestElement
  <2>2. PICK t : Sorted(t, T \ {m}, R)
    BY <2>1
  <2>. DEFINE n == Cardinality(T)
              k == Cardinality(T \ {m})
              s == [i \in 1..n |-> IF i = n THEN m ELSE t[i]]
  <2>3. n \in Nat /\ k \in Nat /\ n = k + 1
    BY <2>1, FS_Subset, FS_CardinalityType, FS_RemoveElement
  <2>. HIDE DEF n, k
  <2>4. /\ t \in [1..k -> T \ {m}]
        /\ \A i, j \in 1..k : t[i] = t[j] => i = j
        /\ \A x \in T \ {m} : \E i \in 1..k : t[i] = x
        /\ \A i, j \in 1..k : i < j => <<t[i], t[j]>> \in R
    BY <2>2 DEF Sorted, Bijection, Injection, Surjection, IsInjective, k
  <2>5. \A i \in 1..n : i # n => i \in 1..k
    BY <2>3
  <2>6. s \in [1..n -> T]
    BY <2>1, <2>4, <2>5
  <2>7. \A i, j \in 1..n : s[i] = s[j] => i = j
    BY <2>4, <2>5
  <2>8. \A x \in T : \E i \in 1..n : s[i] = x
    <3>. SUFFICES ASSUME NEW x \in T PROVE \E i \in 1..n : s[i] = x
      OBVIOUS
    <3>1. CASE x = m
      <4>1. n \in 1..n /\ s[n] = m
        BY <2>3
      <4>. QED
        BY <3>1, <4>1
    <3>2. CASE x # m
      <4>1. PICK i \in 1..k : t[i] = x
        BY <2>4, <3>2
      <4>2. i \in 1..n /\ i # n
        BY <2>3
      <4>. QED
        BY <4>1, <4>2
    <3>. QED
      BY <3>1, <3>2
  <2>9. \A i, j \in 1..n : i < j => <<s[i], s[j]>> \in R
    <3>. SUFFICES ASSUME NEW i \in 1..n, NEW j \in 1..n, i < j PROVE <<s[i], s[j]>> \in R
      OBVIOUS
    <3>1. i # n /\ i \in 1..k /\ s[i] = t[i] /\ t[i] \in T
      BY <2>3, <2>4, <2>5
    <3>2. CASE j = n
      BY <2>1, <3>1, <3>2
    <3>3. CASE j # n
      BY <2>4, <2>5, <3>1, <3>3
    <3>. QED
      BY <3>2, <3>3
  <2>. HIDE DEF s
  <2>10. Sorted(s, T, R)
    BY <2>6, <2>7, <2>8, <2>9 DEF Sorted, Bijection, Injection, Surjection, IsInjective, n
  <2>. QED
    BY <2>10
<1>. HIDE DEF G
<1>3. \A T \in SUBSET S : T \in G
  BY <1>1, <1>2, FiniteInSet
<1>4. S \in G
  BY <1>3
<1>. QED
  BY <1>4 DEF G

\* There is one way to list a set of integers in ascending order.
LEMMA OneOrder ==
    ASSUME NEW S, S \in SUBSET Int, NEW n \in Nat,
           NEW s \in Bijection(1..n, S), \A i, j \in 1..n : i < j => s[i] < s[j],
           NEW t \in Bijection(1..n, S), \A i, j \in 1..n : i < j => t[i] < t[j]
    PROVE  s = t
<1>1. /\ s \in [1..n -> S] /\ t \in [1..n -> S]
      /\ \A x \in S : (\E i \in 1..n : s[i] = x) /\ (\E i \in 1..n : t[i] = x)
  BY DEF Bijection, Injection, Surjection
<1>2. \A i \in 1..n : s[i] \in Int /\ t[i] \in Int
  BY <1>1
<1>3. ASSUME NEW i \in 1..n, \A j \in 1..n : j < i => s[j] = t[j]
      PROVE  s[i] = t[i]
  <2>1. PICK k \in 1..n : t[k] = s[i]
    BY <1>1
  <2>2. PICK m \in 1..n : s[m] = t[i]
    BY <1>1
  <2>3. ~(k < i)
    BY <1>2, <1>3, <2>1
  <2>4. ~(m < i)
    BY <1>2, <1>3, <2>2
  <2>5. t[i] <= s[i]
    BY <1>2, <2>1, <2>3
  <2>6. s[i] <= t[i]
    BY <1>2, <2>2, <2>4
  <2>. QED
    BY <1>2, <2>5, <2>6
<1>. DEFINE T == {m \in Nat : \A j \in 1..n : j <= m => s[j] = t[j]}
<1>4. 0 \in T
  OBVIOUS
<1>5. ASSUME NEW m \in Nat, m \in T PROVE m + 1 \in T
  BY <1>3, <1>5
<1>6. n \in T
  <2>. HIDE DEF T
  <2>. QED
    BY <1>4, <1>5, NatInSet
<1>7. \A j \in 1..n : s[j] = t[j]
  BY <1>6
<1>. QED
  BY <1>1, <1>7

=============================================================================
