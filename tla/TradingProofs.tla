--------------------------- MODULE TradingProofs ----------------------------
(***************************************************************************)
(* The trading services, for every value of their constants. The theorems  *)
(* of NaturalsInduction take an operator as a parameter; in the first part *)
(* the property is the set of values that have it, so that every statement *)
(* is first order: the least element of a set of naturals, induction on    *)
(* the naturals and on the subsets of a finite set, and with them what the *)
(* community module's SumFunctionOnSet computes.                           *)
(***************************************************************************)
EXTENDS RiskGuard, CentralBrain, PaperExchange, Integers, FiniteSets, Functions,
        FiniteSetTheorems, WellFoundedInduction, TLAPS

-----------------------------------------------------------------------------
(* Induction over data, and sums.                                          *)

\* Every nonempty set of naturals has a least element.
LEMMA LeastNatural ==
  ASSUME NEW T, T \subseteq Nat, T # {}
  PROVE  \E x \in T : \A y \in T : x <= y
<1> DEFINE R == {ss \in Nat \X Nat : ss[1] < ss[2]}
<1>1. IsWellFoundedOn(R, Nat)  BY NatLessThanWellFounded, Zenon DEF OpToRel
<1>2. PICK x \in T : \A y \in T : ~(<<y, x>> \in R)
  <2> HIDE DEF R
  <2> QED  BY <1>1, WFMin, Zenon
<1>3. \A y \in T : <<y, x>> \in R <=> y < x  BY Zenon
<1>4. \A y \in T : ~(y < x)
  <2> HIDE DEF R
  <2> QED BY <1>2, <1>3, Zenon
<1>5. \A y \in T : x <= y
  <2> HIDE DEF R
  <2> QED BY <1>4
<1> QED  BY <1>5, Zenon

\* Induction on the naturals.
LEMMA SetInduction ==
  ASSUME NEW T, T \subseteq Nat, 0 \in T, \A n \in T : n + 1 \in T
  PROVE  T = Nat
<1>1. SUFFICES ASSUME NEW m \in Nat, m \notin T PROVE FALSE  BY Zenon
<1> DEFINE B == Nat \ T
<1>2. PICK x \in B : \A y \in B : x <= y  BY <1>1, LeastNatural, Zenon
<1>3. x # 0 /\ x - 1 \in Nat /\ x - 1 \notin B BY <1>2
<1>4. x - 1 \in T  BY <1>3, Zenon
<1>5. x = (x - 1) + 1 BY <1>2
<1> QED  BY <1>2, <1>4, <1>5, Zenon

\* How a sum is computed below S: element by element, in the order of CHOOSE.
SumStep(f, S, g) ==
  [s \in SUBSET S |-> IF s = {} THEN 0
                      ELSE f[CHOOSE x \in s : TRUE] + g[s \ {CHOOSE x \in s : TRUE}]]

\* The sum is the entry for the whole set in a table of the sums over its
\* subsets, which is what the recursive definition denotes.
LEMMA SumUnfold ==
  ASSUME NEW f, NEW S
  PROVE  SumFunctionOnSet(f, S) = (CHOOSE g : g = SumStep(f, S, g))[S]
BY Zenon DEF SumFunctionOnSet, FoldFunctionOnSet, MapThenFoldSet, SumStep

\* What the sum over every subset of S is read from.
SumTable(f, S) == CHOOSE g : g = SumStep(f, S, g)

\* Over a finite set the recursion has a solution.
LEMMA SumTableExists ==
  ASSUME NEW f, NEW S, IsFiniteSet(S)
  PROVE  SumTable(f, S) = SumStep(f, S, SumTable(f, S))
<1> DEFINE c(s) == CHOOSE x \in s : TRUE
           Sm(n) == {s \in SUBSET S : Cardinality(s) <= n}
           Step(n, g) == [s \in Sm(n) |-> IF s = {} THEN 0 ELSE f[c(s)] + g[s \ {c(s)}]]
           T == {n \in Nat : \E g : g = Step(n, g)}
<1>c. \A s : s # {} => c(s) \in s  BY Zenon
<1>f. \A s \in SUBSET S : IsFiniteSet(s) /\ Cardinality(s) \in Nat
  BY FS_Subset, FS_CardinalityType, Zenon
<1>r. \A s \in SUBSET S : s # {} => Cardinality(s \ {c(s)}) = Cardinality(s) - 1
  <2> TAKE s \in SUBSET S
  <2> HAVE s # {}
  <2> DEFINE x == c(s)
  <2>1. x \in s  BY <1>c, Zenon
  <2> HIDE DEF x
  <2> QED  BY <2>1, <1>f, FS_RemoveElement, Zenon DEF x
<1>0. 0 \in T
  <2> DEFINE g == [s \in Sm(0) |-> 0]
  <2>1. \A s \in Sm(0) : s = {}  BY <1>f, FS_EmptySet
  <2>2. g = Step(0, g)  BY <2>1, Zenon
  <2> QED  BY <2>2, Zenon
<1>n. ASSUME NEW n \in T PROVE n + 1 \in T
  <2>1. PICK g : g = Step(n, g)  BY <1>n, Zenon
  <2> DEFINE h == Step(n + 1, g)
  <2>2. \A s \in Sm(n) : s \in Sm(n + 1) /\ h[s] = g[s]
    <3> TAKE s \in Sm(n)
    <3>1. s \in Sm(n + 1)  BY <1>f
    <3>2. g[s] = IF s = {} THEN 0 ELSE f[c(s)] + g[s \ {c(s)}]  BY <2>1, Zenon
    <3> QED  BY <3>1, <3>2, Zenon
  <2>3. \A s \in Sm(n + 1) : s # {} => s \ {c(s)} \in Sm(n)  BY <1>r, <1>f
  <2>4. h = Step(n + 1, h)
    <3>1. ASSUME NEW s \in Sm(n + 1), s # {}
          PROVE  g[s \ {c(s)}] = h[s \ {c(s)}]
      <4> DEFINE r == s \ {c(s)}
      <4>1. r \in Sm(n)  BY <3>1, <2>3, Zenon
      <4> HIDE DEF r, h, Sm
      <4> QED  BY <4>1, <2>2, Zenon DEF r
    <3> DEFINE k == Step(n + 1, h)
    <3>2. \A s \in Sm(n + 1) : h[s] = k[s]
      <4> TAKE s \in Sm(n + 1)
      <4>1. h[s] = IF s = {} THEN 0 ELSE f[c(s)] + g[s \ {c(s)}]  BY Zenon
      <4>2. k[s] = IF s = {} THEN 0 ELSE f[c(s)] + h[s \ {c(s)}]
        <5> HIDE DEF h, c, Sm
        <5> QED BY Zenon
      <4> HIDE DEF h, k, c, Sm
      <4> QED  BY <4>1, <4>2, <3>1, Zenon
    <3>3. h = [s \in Sm(n + 1) |-> h[s]]
      <4> HIDE DEF c, Sm
      <4> QED  BY Zenon
    <3>4. k = [s \in Sm(n + 1) |-> k[s]]
      <4> HIDE DEF c, Sm, h
      <4> QED  BY Zenon
    <3>5. h = k
      <4> HIDE DEF h, k, Sm
      <4> QED  BY <3>2, <3>3, <3>4, Zenon
    <3> HIDE DEF h, c, Sm
    <3> QED  BY <3>5, Zenon
  <2>5. \E m : m = Step(n + 1, m)
    <3> HIDE DEF Step, h
    <3> QED  BY <2>4, Zenon
  <2>6. n + 1 \in Nat  OBVIOUS
  <2> HIDE DEF Step
  <2> QED  BY <2>5, <2>6, Zenon
<1>1. T = Nat
  <2> HIDE DEF T
  <2>1. T \subseteq Nat  BY Zenon DEF T
  <2> QED  BY <1>0, <1>n, <2>1, SetInduction, Zenon
<1>2. PICK g : g = Step(Cardinality(S), g)
  <2>1. Cardinality(S) \in T  BY <1>1, <1>f, Zenon
  <2> QED BY <2>1, Zenon
<1>3. Sm(Cardinality(S)) = SUBSET S  BY FS_Subset, Zenon
<1>4. g = SumStep(f, S, g)  BY <1>2, <1>3, Zenon DEF SumStep
<1> QED  BY <1>4, Zenon DEF SumTable

\* Induction on the subsets of a finite set.
LEMMA CardinalityInduction ==
  ASSUME NEW S, IsFiniteSet(S), NEW Q, {} \in Q,
         \A s \in SUBSET S : s # {} /\ (\A r \in SUBSET s : r # s => r \in Q) => s \in Q
  PROVE  SUBSET S \subseteq Q
<1> DEFINE T == {n \in Nat : \A s \in SUBSET S : Cardinality(s) <= n => s \in Q}
<1>f. \A s \in SUBSET S : IsFiniteSet(s) /\ Cardinality(s) \in Nat
  BY FS_Subset, FS_CardinalityType, Zenon
<1>0. 0 \in T
  <2>1. ASSUME NEW s \in SUBSET S, Cardinality(s) <= 0 PROVE s \in Q
    <3>1. Cardinality(s) = 0  BY <2>1, <1>f
    <3>2. s = {}  BY <3>1, <1>f, FS_EmptySet, Zenon
    <3> QED  BY <3>2, Zenon
  <2> QED  BY <2>1, Zenon
<1>n. ASSUME NEW n \in T PROVE n + 1 \in T
  <2>0. SUFFICES ASSUME NEW s \in SUBSET S, Cardinality(s) <= n + 1 PROVE s \in Q
    <3>1. n + 1 \in Nat  OBVIOUS
    <3> QED  BY <3>1, Zenon
  <2>a. CASE s = {}  BY <2>a, Zenon
  <2>b. CASE s # {}
    <3>1. ASSUME NEW r \in SUBSET s, r # s PROVE r \in Q
      <4>1. Cardinality(r) <= Cardinality(s) /\ Cardinality(r) # Cardinality(s)
        BY <1>f, <3>1, FS_Subset, Zenon
      <4>2. r \in SUBSET S /\ Cardinality(r) <= n  BY <1>f, <2>0, <4>1
      <4> QED  BY <4>2, Zenon
    <3> QED  BY <3>1, <2>b, Zenon
  <2> QED  BY <2>a, <2>b, Zenon
<1>1. T = Nat
  <2>1. T \subseteq Nat  BY Zenon
  <2> HIDE DEF T
  <2> QED  BY <1>0, <1>n, <2>1, SetInduction, Zenon
<1> QED
  <2> SUFFICES ASSUME NEW s \in SUBSET S PROVE s \in Q  BY Zenon
  <2>1. Cardinality(s) \in T /\ Cardinality(s) <= Cardinality(s)  BY <1>f, <1>1
  <2> QED  BY <2>1, Zenon

\* The element the recursion takes from s first.
SumFirst(s) == CHOOSE x \in s : TRUE

\* The recursion, entry by entry.
LEMMA SumTableEntry ==
  ASSUME NEW f, NEW S, IsFiniteSet(S)
  PROVE  /\ SumTable(f, S)[{}] = 0
         /\ \A s \in SUBSET S : s # {} =>
              /\ SumFirst(s) \in s
              /\ SumTable(f, S)[s] = f[SumFirst(s)] + SumTable(f, S)[s \ {SumFirst(s)}]
<1> DEFINE g == SumTable(f, S)
<1>1. g = SumStep(f, S, g)  BY SumTableExists, Zenon
<1> HIDE DEF g
<1>2. {} \in SUBSET S  BY Zenon
<1>3. SumStep(f, S, g)[{}] = 0  BY <1>2, Zenon DEF SumStep
<1>4. \A s \in SUBSET S : s # {} =>
        SumStep(f, S, g)[s] = f[CHOOSE x \in s : TRUE] + g[s \ {CHOOSE x \in s : TRUE}]
  BY Zenon DEF SumStep
<1> QED  BY <1>1, <1>3, <1>4, Zenon DEF g, SumFirst

\* Sums of integers are integers.
LEMMA SumTableType ==
  ASSUME NEW f, NEW S, IsFiniteSet(S)
  PROVE  (\A x \in S : f[x] \in Int) =>
           \A s \in SUBSET S : SumTable(f, S)[s] \in Int
<1> DEFINE g == SumTable(f, S)
<1>z. g[{}] = 0  BY SumTableEntry, Zenon
<1>e. ASSUME NEW s \in SUBSET S, s # {}
      PROVE  SumFirst(s) \in s /\ g[s] = f[SumFirst(s)] + g[s \ {SumFirst(s)}]
  BY <1>e, SumTableEntry
<1> HAVE \A x \in S : f[x] \in Int
<1> DEFINE Q == {s \in SUBSET S : g[s] \in Int}
<1> HIDE DEF g
<1>0. {} \in Q  BY <1>z
<1>1. ASSUME NEW s \in SUBSET S, s # {}, \A r \in SUBSET s : r # s => r \in Q
      PROVE  s \in Q
  <2> DEFINE c == SumFirst(s)
  <2>1. c \in s /\ g[s] = f[c] + g[s \ {c}]  BY <1>1, <1>e, Zenon
  <2> HIDE DEF c
  <2>2. s \ {c} \in Q  BY <1>1, <2>1, Zenon
  <2> QED  BY <2>1, <2>2
<1>2. SUBSET S \subseteq Q
  <2> HIDE DEF Q
  <2> QED  BY <1>0, <1>1, CardinalityInduction, Zenon
<1> QED  BY <1>2, Zenon DEF g

\* The order in which the recursion takes the elements does not matter.
LEMMA SumTableRemove ==
  ASSUME NEW f, NEW S, IsFiniteSet(S)
  PROVE  (\A x \in S : f[x] \in Int) =>
           \A s \in SUBSET S : \A x \in s :
            SumTable(f, S)[s] = f[x] + SumTable(f, S)[s \ {x}]
<1> DEFINE g == SumTable(f, S)
<1>z. g[{}] = 0  BY SumTableEntry, Zenon
<1>e. ASSUME NEW s \in SUBSET S, s # {}
      PROVE  SumFirst(s) \in s /\ g[s] = f[SumFirst(s)] + g[s \ {SumFirst(s)}]
  BY <1>e, SumTableEntry
<1> HAVE \A x \in S : f[x] \in Int
<1> DEFINE Q == {s \in SUBSET S : \A x \in s : g[s] = f[x] + g[s \ {x}]}
<1>t. \A s \in SUBSET S : g[s] \in Int  BY SumTableType, Zenon
<1>0. {} \in Q  BY Zenon
<1>1. ASSUME NEW s \in SUBSET S, s # {}, \A r \in SUBSET s : r # s => r \in Q
      PROVE  s \in Q
  <2> DEFINE c == SumFirst(s)
  <2>1. c \in s /\ g[s] = f[c] + g[s \ {c}]  BY <1>1, <1>e, Zenon
  <2> HIDE DEF c
  <2> SUFFICES ASSUME NEW x \in s, x # c PROVE g[s] = f[x] + g[s \ {x}]
    BY <2>1, Zenon
  <2> DEFINE a == s \ {c}  b == s \ {x}  d == (s \ {c}) \ {x}
  <2>2. a \in Q /\ x \in a /\ b \in Q /\ c \in b  BY <1>1, <2>1, Zenon
  <2>3. b \ {c} = d  BY Zenon
  <2>4. g[a] = f[x] + g[d]  BY <2>2, Zenon
  <2>5. g[b] = f[c] + g[d]
    <3>1. g[b] = f[c] + g[b \ {c}]
      <4> HIDE DEF b
      <4> QED  BY <2>2, Zenon
    <3> QED  BY <3>1, <2>3, Zenon
  <2>6. f[x] \in Int /\ f[c] \in Int /\ g[d] \in Int
    <3>1. d \in SUBSET S  BY Zenon
    <3> HIDE DEF d, g
    <3> QED  BY <1>t, <2>1, <3>1, Zenon
  <2>7. g[s] = f[c] + g[a]  BY <2>1, Zenon
  <2>8. g[s] = f[x] + g[b]
    <3> HIDE DEF a, b, d, g
    <3> QED  BY <2>4, <2>5, <2>6, <2>7
  <2> QED  BY <2>8, Zenon
<1>2. SUBSET S \subseteq Q
  <2> HIDE DEF Q
  <2> QED  BY <1>0, <1>1, CardinalityInduction, Zenon
<1> QED  BY <1>2, Zenon

\* Functions that agree on S, and a set larger than S, give the same sums.
LEMMA SumTableSame ==
  ASSUME NEW f, NEW S, NEW h, NEW U, IsFiniteSet(S), IsFiniteSet(U), S \subseteq U,
         \A x \in S : f[x] = h[x]
  PROVE  \A s \in SUBSET S : SumTable(f, S)[s] = SumTable(h, U)[s]
<1> DEFINE g == SumTable(f, S)  k == SumTable(h, U)
           Q == {s \in SUBSET S : g[s] = k[s]}
<1>z. g[{}] = 0  BY SumTableEntry, Zenon
<1>e. ASSUME NEW s \in SUBSET S, s # {}
      PROVE  SumFirst(s) \in s /\ g[s] = f[SumFirst(s)] + g[s \ {SumFirst(s)}]
  BY <1>e, SumTableEntry
<1>k. k[{}] = 0 /\ \A s \in SUBSET U : s # {} =>
        SumFirst(s) \in s /\ k[s] = h[SumFirst(s)] + k[s \ {SumFirst(s)}]
  BY SumTableEntry
<1> HIDE DEF g, k
<1>0. {} \in Q  BY <1>z, <1>k, Zenon
<1>1. ASSUME NEW s \in SUBSET S, s # {}, \A r \in SUBSET s : r # s => r \in Q
      PROVE  s \in Q
  <2> DEFINE c == SumFirst(s)
  <2>1. c \in s /\ g[s] = f[c] + g[s \ {c}]  BY <1>1, <1>e, Zenon
  <2>2. k[s] = h[c] + k[s \ {c}]
    <3>1. s \in SUBSET U  BY Zenon
    <3> QED  BY <3>1, <1>1, <1>k, Zenon
  <2> HIDE DEF c, g, k
  <2>3. s \ {c} \in Q  BY <1>1, <2>1, Zenon
  <2> QED  BY <2>1, <2>2, <2>3, Zenon
<1>2. SUBSET S \subseteq Q
  <2> HIDE DEF Q
  <2> QED  BY <1>0, <1>1, CardinalityInduction, Zenon
<1> QED  BY <1>2, Zenon DEF g, k

\* SumFunctionOnSet: the sum over nothing.
LEMMA SumEmpty == \A f : SumFunctionOnSet(f, {}) = 0
BY FS_EmptySet, SumUnfold, SumTableEntry, Zenon DEF SumTable

\* A finite sum of integers is an integer.
LEMMA SumType ==
  ASSUME NEW f, NEW S, IsFiniteSet(S), \A x \in S : f[x] \in Int
  PROVE  SumFunctionOnSet(f, S) \in Int
<1>1. S \in SUBSET S  BY Zenon
<1>2. SumTable(f, S)[S] \in Int  BY <1>1, SumTableType, Zenon
<1> QED  BY <1>2, SumUnfold, Zenon DEF SumTable

\* The sum depends on the values on S only.
LEMMA SumSame ==
  ASSUME NEW f, NEW h, NEW S, IsFiniteSet(S), \A x \in S : f[x] = h[x]
  PROVE  SumFunctionOnSet(f, S) = SumFunctionOnSet(h, S)
<1>1. S \in SUBSET S  BY Zenon
<1>2. SumTable(f, S)[S] = SumTable(h, S)[S]  BY <1>1, SumTableSame
<1> QED  BY <1>2, SumUnfold, Zenon DEF SumTable

\* A sum is any of its terms and the sum over the rest.
LEMMA SumRemove ==
  ASSUME NEW f, NEW S, IsFiniteSet(S), \A x \in S : f[x] \in Int, NEW e \in S
  PROVE  SumFunctionOnSet(f, S) = f[e] + SumFunctionOnSet(f, S \ {e})
<1> DEFINE R == S \ {e}
<1>1. S \in SUBSET S /\ R \in SUBSET S /\ R \in SUBSET R /\ R \subseteq S  BY Zenon
<1>2. SumTable(f, S)[S] = f[e] + SumTable(f, S)[R]  BY <1>1, SumTableRemove
<1>3. IsFiniteSet(R)  BY FS_Subset, <1>1, Zenon
<1>4. SumTable(f, R)[R] = SumTable(f, S)[R]
  <2> HIDE DEF R
  <2> QED  BY <1>1, <1>3, SumTableSame
<1>5. SumFunctionOnSet(f, S) = SumTable(f, S)[S] /\ SumFunctionOnSet(f, R) = SumTable(f, R)[R]
  BY SumUnfold, Zenon DEF SumTable
<1> QED  BY <1>2, <1>4, <1>5, Zenon

\* One more element adds its term.
LEMMA SumAdd ==
  ASSUME NEW f, NEW S, IsFiniteSet(S), \A x \in S : f[x] \in Int, NEW e, e \notin S, f[e] \in Int
  PROVE  SumFunctionOnSet(f, S \cup {e}) = f[e] + SumFunctionOnSet(f, S)
<1> DEFINE U == S \cup {e}
<1>1. IsFiniteSet(U) /\ e \in U /\ \A x \in U : f[x] \in Int  BY FS_AddElement, Zenon
<1>2. U \ {e} = S  BY Zenon
<1> HIDE DEF U
<1>3. SumFunctionOnSet(f, U) = f[e] + SumFunctionOnSet(f, U \ {e})  BY <1>1, SumRemove
<1> QED  BY <1>2, <1>3, Zenon DEF U

\* Larger terms, larger sum.
LEMMA SumMonotone ==
  ASSUME NEW f, NEW h, NEW S, IsFiniteSet(S),
         \A x \in S : f[x] \in Int /\ h[x] \in Int /\ f[x] <= h[x]
  PROVE  SumFunctionOnSet(f, S) <= SumFunctionOnSet(h, S)
<1> DEFINE Q == {s \in SUBSET S : SumFunctionOnSet(f, s) <= SumFunctionOnSet(h, s)}
<1>0. {} \in Q  BY SumEmpty
<1>1. ASSUME NEW s \in SUBSET S, s # {}, \A r \in SUBSET s : r # s => r \in Q
      PROVE  s \in Q
  <2>1. PICK c \in s : TRUE  BY <1>1, Zenon
  <2> DEFINE r == s \ {c}
  <2>2. r \in Q  BY <1>1, <2>1, Zenon
  <2>3. IsFiniteSet(s) /\ IsFiniteSet(r)  BY FS_Subset, Zenon
  <2>4. /\ SumFunctionOnSet(f, s) = f[c] + SumFunctionOnSet(f, r)
        /\ SumFunctionOnSet(h, s) = h[c] + SumFunctionOnSet(h, r)
    BY <2>3, SumRemove
  <2>5. SumFunctionOnSet(f, r) \in Int /\ SumFunctionOnSet(h, r) \in Int
    <3>1. \A x \in r : f[x] \in Int /\ h[x] \in Int  BY Zenon
    <3> HIDE DEF r
    <3> QED  BY <2>3, <3>1, SumType, Zenon
  <2>6. f[c] \in Int /\ h[c] \in Int /\ f[c] <= h[c]  BY Zenon
  <2>7. SumFunctionOnSet(f, r) <= SumFunctionOnSet(h, r)  BY <2>2, Zenon
  <2> HIDE DEF r
  <2> QED  BY <2>4, <2>5, <2>6, <2>7
<1>2. SUBSET S \subseteq Q
  <2> HIDE DEF Q
  <2> QED  BY <1>0, <1>1, CardinalityInduction, Zenon
<1> QED  BY <1>2, Zenon

-----------------------------------------------------------------------------
(* The risk guard keeps within its limits.                                 *)

\* Sums over two disjoint sets.
LEMMA SumDisjoint ==
  ASSUME NEW f, NEW S, NEW U, IsFiniteSet(S), IsFiniteSet(U), S \cap U = {},
         \A x \in S \cup U : f[x] \in Int
  PROVE  SumFunctionOnSet(f, S \cup U) = SumFunctionOnSet(f, S) + SumFunctionOnSet(f, U)
<1> DEFINE Q == {u \in SUBSET U : SumFunctionOnSet(f, S \cup u)
                                   = SumFunctionOnSet(f, S) + SumFunctionOnSet(f, u)}
<1>t. SumFunctionOnSet(f, S) \in Int
  BY SumType, Zenon
<1>0. {} \in Q
  <2>1. S \cup {} = S
    BY Zenon
  <2> QED BY <1>t, <2>1, SumEmpty
<1>1. ASSUME NEW u \in SUBSET U, u # {}, \A r \in SUBSET u : r # u => r \in Q
      PROVE  u \in Q
  <2>1. PICK e \in u : TRUE
    BY <1>1, Zenon
  <2> DEFINE r == u \ {e}
  <2>2. r \in SUBSET u /\ r # u /\ r \in SUBSET U /\ IsFiniteSet(r) /\ u = r \cup {e}
        /\ e \notin r /\ e \notin S \cup r /\ S \cup u = (S \cup r) \cup {e}
    BY <2>1, FS_Subset, Zenon
  <2>3. IsFiniteSet(S \cup r)
    BY <2>2, FS_Union, Zenon
  <2>4. f[e] \in Int /\ \A x \in S \cup r : f[x] \in Int
    BY <2>1, Zenon
  <2>5. SumFunctionOnSet(f, S \cup r) = SumFunctionOnSet(f, S) + SumFunctionOnSet(f, r)
    BY <1>1, <2>2, Zenon
  <2>6. SumFunctionOnSet(f, r) \in Int
    BY <2>2, <2>4, SumType, Zenon
  <2> HIDE DEF r
  <2>7. SumFunctionOnSet(f, (S \cup r) \cup {e}) = f[e] + SumFunctionOnSet(f, S \cup r)
    BY <2>2, <2>3, <2>4, SumAdd, Zenon
  <2>8. SumFunctionOnSet(f, r \cup {e}) = f[e] + SumFunctionOnSet(f, r)
    BY <2>2, <2>4, SumAdd, Zenon
  <2>9. /\ SumFunctionOnSet(f, S \cup u) = SumFunctionOnSet(f, (S \cup r) \cup {e})
        /\ SumFunctionOnSet(f, u) = SumFunctionOnSet(f, r \cup {e})
    BY <2>2, Zenon
  <2>10. SumFunctionOnSet(f, S \cup u) = SumFunctionOnSet(f, S) + SumFunctionOnSet(f, u)
    BY <1>t, <2>4, <2>5, <2>6, <2>7, <2>8, <2>9
  <2> QED BY <2>10, Zenon
<1>2. SUBSET U \subseteq Q
  <2> HIDE DEF Q
  <2> QED BY <1>0, <1>1, CardinalityInduction, Zenon
<1> QED BY <1>2, Zenon

\* A position: flat, or a side with what it is worth.
RgRow == {RgFlat} \cup [dir : {"long", "short"}, notional : Nat]

RgOnSide(book, dir) == {s \in RgHeld(book) : book[s].dir = dir}

\* Exposures are naturals, and the total is what the two sides are worth.
LEMMA RgSides ==
  ASSUME NEW book \in [RgSymbols -> RgRow]
  PROVE  /\ \A dir \in {"long", "short"} : RgSide(book, dir) \in Int /\ IsFiniteSet(RgOnSide(book, dir))
         /\ RgTotal(book) = RgSide(book, "long") + RgSide(book, "short")
         /\ IsFiniteSet(RgHeld(book)) /\ RgHeld(book) \subseteq RgSymbols
         /\ \A s \in RgSymbols : RgNotional(book)[s] \in Nat
<1>1. RgHeld(book) \subseteq RgSymbols /\ IsFiniteSet(RgHeld(book))
  BY RgAssumption, FS_Subset, Zenon DEF RgHeld
<1>2. \A s \in RgSymbols : RgNotional(book)[s] \in Nat
  BY DEF RgNotional, RgRow, RgFlat
<1>3. \A dir : RgOnSide(book, dir) \subseteq RgHeld(book)
  BY Zenon DEF RgOnSide
<1>4. \A dir : IsFiniteSet(RgOnSide(book, dir))
  BY <1>1, <1>3, FS_Subset, Zenon
<1>5. RgHeld(book) = RgOnSide(book, "long") \cup RgOnSide(book, "short")
  BY Zenon DEF RgHeld, RgOnSide, RgRow
<1>6. RgOnSide(book, "long") \cap RgOnSide(book, "short") = {}
  BY Zenon DEF RgOnSide
<1> DEFINE f == RgNotional(book)  L == RgOnSide(book, "long")  H == RgOnSide(book, "short")
<1>7. \A x \in L \cup H : f[x] \in Int
  BY <1>1, <1>2, <1>3
<1>8. \A dir : RgSide(book, dir) = SumFunctionOnSet(f, RgOnSide(book, dir))
  BY Zenon DEF RgSide, RgOnSide
<1>9. \A dir : \A x \in RgOnSide(book, dir) : f[x] \in Int
  BY <1>1, <1>2, <1>3
<1> HIDE DEF f, L, H
<1>10. \A dir : RgSide(book, dir) \in Int
  BY <1>4, <1>8, <1>9, SumType, Zenon
<1>11. IsFiniteSet(L) /\ IsFiniteSet(H) /\ L \cap H = {}
  BY <1>4, <1>6, Zenon DEF L, H
<1>12. SumFunctionOnSet(f, L \cup H) = SumFunctionOnSet(f, L) + SumFunctionOnSet(f, H)
  BY <1>7, <1>11, SumDisjoint, Zenon
<1>13. RgTotal(book) = SumFunctionOnSet(f, L \cup H)
  BY <1>5, Zenon DEF RgTotal, f, L, H
<1>14. RgTotal(book) = RgSide(book, "long") + RgSide(book, "short")
  BY <1>8, <1>12, <1>13, Zenon DEF L, H
<1> QED BY <1>1, <1>2, <1>4, <1>10, <1>14, Zenon

\* A fill adds to one side at most what it is worth, and nothing to the other.
LEMMA RgSideStep ==
  ASSUME NEW book \in [RgSymbols -> RgRow], NEW s \in RgSymbols, NEW row \in RgRow,
         NEW dir \in {"long", "short"}
  PROVE  RgSide([book EXCEPT ![s] = row], dir)
           <= RgSide(book, dir) + (IF row.dir = dir THEN row.notional ELSE 0)
<1> DEFINE b == [book EXCEPT ![s] = row]  f == RgNotional(book)  g == RgNotional(b)
           A == RgOnSide(book, dir)  B == RgOnSide(b, dir)  C == A \ {s}
           add == IF row.dir = dir THEN row.notional ELSE 0
<1>1. b \in [RgSymbols -> RgRow]
  BY Zenon
<1>2. /\ A \subseteq RgSymbols /\ IsFiniteSet(A) /\ \A x \in RgSymbols : f[x] \in Nat
  BY RgSides, Zenon DEF RgOnSide
<1>3. /\ B \subseteq RgSymbols /\ IsFiniteSet(B) /\ \A x \in RgSymbols : g[x] \in Nat
  BY <1>1, RgSides, Zenon DEF RgOnSide
<1>4. \A x \in RgSymbols \ {s} : b[x] = book[x] /\ f[x] = g[x] /\ (x \in A <=> x \in B)
  BY Zenon DEF RgNotional, RgOnSide, RgHeld
<1>5. g[s] = row.notional /\ (s \in B => row.dir = dir)
  BY Zenon DEF RgNotional, RgOnSide, RgHeld
<1>6. add \in Nat
  BY DEF RgRow, RgFlat
<1>7. RgSide(book, dir) = SumFunctionOnSet(f, A) /\ RgSide(b, dir) = SumFunctionOnSet(g, B)
  BY Zenon DEF RgSide, RgOnSide
<1> HIDE DEF b, f, g, A, B, add
<1>8. C = B \ {s} /\ C \subseteq A /\ IsFiniteSet(C) /\ (\A x \in C : f[x] = g[x] /\ f[x] \in Int)
  BY <1>2, <1>3, <1>4, FS_Subset
<1>9. SumFunctionOnSet(f, C) = SumFunctionOnSet(g, C) /\ SumFunctionOnSet(f, C) \in Int
  <2> HIDE DEF C
  <2> QED BY <1>8, SumSame, SumType
<1>10. SumFunctionOnSet(f, C) <= SumFunctionOnSet(f, A)
  <2>1. CASE s \in A
    <3>1. \A x \in A : f[x] \in Int
      BY <1>2
    <3>2. SumFunctionOnSet(f, A) = f[s] + SumFunctionOnSet(f, A \ {s})
      BY <1>2, <2>1, <3>1, SumRemove
    <3>3. f[s] \in Nat
      BY <1>2, Zenon
    <3> QED BY <1>9, <3>2, <3>3
  <2>2. CASE s \notin A
    <3>1. C = A
      BY <2>2, Zenon
    <3> QED BY <1>9, <3>1
  <2> QED BY <2>1, <2>2, Zenon
<1>11. SumFunctionOnSet(g, B) <= SumFunctionOnSet(g, C) + add
  <2>1. CASE s \in B
    <3>1. \A x \in B : g[x] \in Int
      BY <1>3
    <3>2. SumFunctionOnSet(g, B) = g[s] + SumFunctionOnSet(g, B \ {s})
      BY <1>3, <2>1, <3>1, SumRemove
    <3>3. g[s] = add
      BY <1>5, <2>1, Zenon DEF add
    <3>4. SumFunctionOnSet(g, B \ {s}) = SumFunctionOnSet(g, C)
      BY <1>8, Zenon
    <3> HIDE DEF C
    <3> QED BY <1>6, <1>9, <3>2, <3>3, <3>4
  <2>2. CASE s \notin B
    <3>1. C = B
      BY <1>8, <2>2, Zenon
    <3>2. SumFunctionOnSet(g, B) = SumFunctionOnSet(g, C)
      BY <3>1, Zenon
    <3> HIDE DEF C
    <3> QED BY <1>6, <1>9, <3>2
  <2> QED BY <2>1, <2>2, Zenon
<1>12. SumFunctionOnSet(f, A) \in Int /\ SumFunctionOnSet(g, B) \in Int
  <2>1. (\A x \in A : f[x] \in Int) /\ (\A x \in B : g[x] \in Int)
    BY <1>2, <1>3
  <2> QED BY <1>2, <1>3, <2>1, SumType, Zenon
<1>13. SumFunctionOnSet(g, B) <= SumFunctionOnSet(f, A) + add
  <2> HIDE DEF C
  <2> QED BY <1>6, <1>9, <1>10, <1>11, <1>12
<1> QED BY <1>7, <1>13, Zenon DEF b, add

\* What the guarded book keeps.
RgBookKept ==
    /\ rgBook \in [RgSymbols -> RgRow]
    /\ Cardinality(RgHeld(rgBook)) <= RgGuard.concurrent
    /\ 100 * RgTotal(rgBook) <= RgGuard.total * RgEquity
    /\ \A dir \in {"long", "short"} : 100 * RgSide(rgBook, dir) <= RgGuard.direction * RgEquity
    /\ \A g \in RgGroups : \A a, b \in g :
         a # b /\ rgBook[a] # RgFlat /\ rgBook[b] # RgFlat => rgBook[a].dir # rgBook[b].dir

\* The limits are naturals.
LEMMA RgLimitTypes ==
  /\ RgGuard.concurrent \in Nat /\ RgGuard.total \in Nat /\ RgGuard.direction \in Nat
  /\ RgGuard.single \in Nat /\ RgEquity \in Nat
  /\ RgLimits.exposure \in Nat /\ RgLimits.direction \in Nat /\ RgLimits.symbol \in Nat
  /\ RgLimits.loss \in Int
BY RgAssumption DEF RgEquity

\* The position sizer stays between a half and five percent.
LEMMA RgSizeType == \A stat \in RgStats : RgSize(stat) \in Nat
<1> SUFFICES ASSUME NEW stat \in RgStats PROVE RgSize(stat) \in Nat
  BY Zenon
<1>1. stat[1] \in Int /\ stat[2] \in Int /\ stat[3] \in Int
  BY RgAssumption, Zenon
<1> DEFINE kelly == IF stat[1] > 0 /\ stat[2] > 0 /\ stat[3] > 0
                    THEN (100 * (stat[1] * stat[2] - (100 - stat[1]) * stat[3])) \div stat[2] ELSE 0
           quarter == kelly \div 4
           x == IF quarter <= 0 THEN 50 ELSE quarter
<1>2. kelly \in Int
  <2> DEFINE top == 100 * (stat[1] * stat[2] - (100 - stat[1]) * stat[3])
  <2>1. top \in Int
    BY <1>1
  <2> HIDE DEF top
  <2>2. stat[2] > 0 => top \div stat[2] \in Int
    BY <1>1, <2>1
  <2> QED BY <2>2 DEF top
<1> HIDE DEF kelly
<1>3. x \in Int
  BY <1>2
<1> HIDE DEF x
<1>4. RgClamp(x, 50, 500) \in Nat
  BY <1>3 DEF RgClamp
<1> QED BY <1>4, Zenon DEF RgSize, x, kelly

\* The larger of two exposures bounds each.
LEMMA RgMaxOfTwo ==
  ASSUME NEW a \in Int, NEW b \in Int
  PROVE  Max({a, b}) \in Int /\ a <= Max({a, b}) /\ b <= Max({a, b})
BY DEF Max

\* The smaller of two limits is one of them.
LEMMA RgMinOfTwo ==
  ASSUME NEW a \in Int, NEW b \in Int
  PROVE  Min({a, b}) \in {a, b}
BY DEF Min

\* A fill that the three layers allow keeps the book within its limits.
LEMMA RgFill ==
  ASSUME RgBookKept, NEW s \in RgSymbols, NEW dir \in {"long", "short"},
         NEW action \in {"open", "reverse", "close"}, NEW req, NEW loss, NEW circuit,
         req.symbol = s, req.dir = dir, req.action = action, req.notional \in Nat,
         RgEvaluate(req, rgBook, loss, circuit),
         rgBook' = [rgBook EXCEPT ![s] = IF action = "close" THEN RgFlat
                                         ELSE [dir |-> dir, notional |-> req.notional]]
  PROVE  RgBookKept'
<1> DEFINE row == IF action = "close" THEN RgFlat ELSE [dir |-> dir, notional |-> req.notional]
           long == RgSide(rgBook, "long") + RgAdds(req, "long")
           short == RgSide(rgBook, "short") + RgAdds(req, "short")
<1>1. /\ row \in RgRow
      /\ \A d \in {"long", "short"} : (IF row.dir = d THEN row.notional ELSE 0) = RgAdds(req, d)
      /\ row # RgFlat => row.dir = dir /\ action # "close"
  BY Zenon DEF RgRow, RgFlat, RgAdds, RgOpens
<1>2. /\ rgBook \in [RgSymbols -> RgRow] /\ rgBook' \in [RgSymbols -> RgRow]
      /\ rgBook' = [rgBook EXCEPT ![s] = row]
  BY <1>1, Zenon DEF RgBookKept
<1>a. \A d \in {"long", "short"} : RgAdds(req, d) \in Nat
  BY Zenon DEF RgAdds
<1>b. /\ Cardinality(RgHeld(rgBook)) < RgGuard.concurrent
      /\ ~RgAbove(long + short, RgEquity, RgGuard.total)
      /\ ~RgAbove(Max({long, short}), RgEquity, RgGuard.direction)
      /\ \A g \in RgGroups : s \in g => \A m \in g \ {s} : rgBook[m].dir # dir
  BY Zenon DEF RgEvaluate, RgCheckPortfolio
<1> HIDE DEF row
<1>3. \A d \in {"long", "short"} : /\ RgSide(rgBook, d) \in Int /\ RgSide(rgBook', d) \in Int
                                   /\ RgSide(rgBook', d) <= RgSide(rgBook, d) + RgAdds(req, d)
  <2>1. \A d \in {"long", "short"} : RgSide(rgBook, d) \in Int /\ RgSide(rgBook', d) \in Int
    BY <1>2, RgSides, Zenon
  <2>2. ASSUME NEW d \in {"long", "short"}
        PROVE  RgSide(rgBook', d) <= RgSide(rgBook, d) + RgAdds(req, d)
    <3>1. RgSide([rgBook EXCEPT ![s] = row], d)
            <= RgSide(rgBook, d) + (IF row.dir = d THEN row.notional ELSE 0)
      <4>1. rgBook \in [RgSymbols -> RgRow] /\ row \in RgRow
        BY <1>1, <1>2, Zenon
      <4> QED BY <4>1, RgSideStep, Zenon
    <3>2. RgSide([rgBook EXCEPT ![s] = row], d) = RgSide(rgBook', d)
      BY <1>2, Zenon
    <3> QED BY <1>1, <3>1, <3>2, Zenon
  <2> QED BY <2>1, <2>2, Zenon
<1>4. RgTotal(rgBook') = RgSide(rgBook', "long") + RgSide(rgBook', "short")
  BY <1>2, RgSides, Zenon
<1>5. long \in Int /\ short \in Int
  BY <1>3, <1>a
<1>6. RgSide(rgBook', "long") <= long /\ RgSide(rgBook', "short") <= short
  BY <1>3, Zenon
<1> HIDE DEF long, short
<1>7. 100 * RgTotal(rgBook') <= RgGuard.total * RgEquity
  <2>1. 100 * (long + short) <= RgGuard.total * RgEquity
    BY <1>5, <1>b, RgLimitTypes DEF RgAbove, RgEquity
  <2> QED BY <1>3, <1>4, <1>5, <1>6, <2>1, RgLimitTypes DEF RgEquity
<1>8. \A d \in {"long", "short"} : 100 * RgSide(rgBook', d) <= RgGuard.direction * RgEquity
  <2>1. /\ Max({long, short}) \in Int /\ long <= Max({long, short}) /\ short <= Max({long, short})
    BY <1>5, RgMaxOfTwo, Zenon
  <2>2. 100 * Max({long, short}) <= RgGuard.direction * RgEquity
    BY <2>1, <1>b, RgLimitTypes DEF RgAbove, RgEquity
  <2> QED BY <1>3, <1>5, <1>6, <2>1, <2>2, RgLimitTypes DEF RgEquity
<1>9. Cardinality(RgHeld(rgBook')) <= RgGuard.concurrent
  <2>1. RgHeld(rgBook') \subseteq RgHeld(rgBook) \cup {s}
    BY <1>2, Zenon DEF RgHeld
  <2>2. IsFiniteSet(RgHeld(rgBook))
    BY <1>2, RgSides, Zenon
  <2>3. /\ IsFiniteSet(RgHeld(rgBook) \cup {s})
        /\ Cardinality(RgHeld(rgBook) \cup {s}) <= Cardinality(RgHeld(rgBook)) + 1
        /\ Cardinality(RgHeld(rgBook)) \in Nat
    <3>1. Cardinality(RgHeld(rgBook)) \in Nat
      BY <2>2, FS_CardinalityType, Zenon
    <3>2. /\ IsFiniteSet(RgHeld(rgBook) \cup {s})
          /\ Cardinality(RgHeld(rgBook) \cup {s})
               = IF s \in RgHeld(rgBook) THEN Cardinality(RgHeld(rgBook))
                 ELSE Cardinality(RgHeld(rgBook)) + 1
      BY <2>2, FS_AddElement, Zenon
    <3> QED BY <3>1, <3>2
  <2>4. /\ Cardinality(RgHeld(rgBook')) <= Cardinality(RgHeld(rgBook) \cup {s})
        /\ IsFiniteSet(RgHeld(rgBook'))
    BY <2>1, <2>3, FS_Subset, Zenon
  <2>5. Cardinality(RgHeld(rgBook')) \in Nat /\ Cardinality(RgHeld(rgBook) \cup {s}) \in Nat
    BY <2>3, <2>4, FS_CardinalityType, Zenon
  <2> QED BY <1>b, <2>3, <2>4, <2>5, RgLimitTypes
<1>10. ASSUME NEW g \in RgGroups, NEW a \in g, NEW b \in g, a # b,
              rgBook'[a] # RgFlat, rgBook'[b] # RgFlat
       PROVE  rgBook'[a].dir # rgBook'[b].dir
  <2>1. a \in RgSymbols /\ b \in RgSymbols
    BY <1>10, RgAssumption, Zenon
  <2>2. \A x \in RgSymbols : rgBook'[x] = IF x = s THEN row ELSE rgBook[x]
    BY <1>2, Zenon
  <2>3. CASE a # s /\ b # s
    BY <1>10, <2>1, <2>2, <2>3, Zenon DEF RgBookKept
  <2>4. CASE a = s
    BY <1>1, <1>10, <1>b, <2>1, <2>2, <2>4
  <2>5. CASE b = s
    BY <1>1, <1>10, <1>b, <2>1, <2>2, <2>5
  <2> QED BY <2>3, <2>4, <2>5, Zenon
<1> QED BY <1>2, <1>7, <1>8, <1>9, <1>10 DEF RgBookKept

RgPlanType == [pc : {"none", "review", "sent"}, view : RgViews \cup {<<>>},
               dir : {"long", "short", "hold"}, price : Nat, stop : Int,
               candidates : Seq(Nat), passed : Int]

\* A plan with candidates was made for an account that is not paused; one
\* that waits for its review proposes what passed the first guard, and one
\* that was sent passed the guard as it is.
RgPlanSound(plan) ==
    /\ plan \in RgPlanType
    /\ plan.candidates # <<>> => plan.view \in RgViews /\ ~plan.view.paused
    /\ plan.pc = "review" => plan.passed = RgProposed(plan)
    /\ plan.pc = "sent" /\ plan.candidates # <<>> =>
         RgEvaluateGlobal(plan) /\ RgProposed(plan) <= plan.passed

\* A plan's value is a number.
LEMMA RgProposedType ==
  ASSUME NEW plan \in RgPlanType
  PROVE  RgProposed(plan) \in Int
<1> DEFINE f == [i \in DOMAIN plan.candidates |-> plan.candidates[i] * plan.price]
<1>1. plan.candidates \in Seq(Nat) /\ plan.price \in Nat
  BY Zenon DEF RgPlanType
<1>2. DOMAIN f = 1 .. Len(plan.candidates) /\ (\A i \in DOMAIN f : f[i] \in Int)
  BY <1>1
<1>3. Len(plan.candidates) \in Int
  BY <1>1
<1> HIDE DEF f
<1>4. IsFiniteSet(DOMAIN f)
  BY <1>2, <1>3, FS_Interval
<1>5. SumFunctionOnSet(f, DOMAIN f) \in Int
  BY <1>2, <1>4, SumType, Zenon
<1> QED BY <1>5, Zenon DEF RgProposed, SumFunction, f

\* An element of a sequence.
LEMMA RgElement ==
  ASSUME NEW S, NEW q \in Seq(S), NEW i \in DOMAIN q
  PROVE  q[i] \in S
  OBVIOUS

\* Multiplication by a natural number is monotone.
LEMMA RgTimes ==
  ASSUME NEW a \in Nat, NEW b \in Nat, NEW c \in Nat, a <= b
  PROVE  a * c <= b * c /\ a * c \in Nat /\ b * c \in Nat
<1>1. PICK d \in Nat : b = a + d
  <2>1. b - a \in Nat /\ b = a + (b - a)
    OBVIOUS
  <2> QED BY <2>1, Zenon
<1>2. a * c \in Nat /\ d * c \in Nat
  OBVIOUS
<1>3. b * c = a * c + d * c
  BY <1>1
<1> QED BY <1>2, <1>3

\* A factor never enlarges a plan.
LEMMA RgScaled ==
  ASSUME NEW plan \in RgPlanType, NEW other \in RgPlanType, NEW factor \in Int,
         other.price = plan.price,
         other.candidates = [i \in DOMAIN plan.candidates |->
                               (plan.candidates[i] * RgFactor(factor)) \div 100]
  PROVE  RgProposed(other) <= RgProposed(plan)
<1> DEFINE f == [i \in DOMAIN plan.candidates |-> plan.candidates[i] * plan.price]
           g == [i \in DOMAIN other.candidates |-> other.candidates[i] * other.price]
<1>1. /\ plan.candidates \in Seq(Nat) /\ other.candidates \in Seq(Nat) /\ plan.price \in Nat
      /\ DOMAIN other.candidates = DOMAIN plan.candidates
  BY Zenon DEF RgPlanType
<1>2. DOMAIN f = 1 .. Len(plan.candidates) /\ DOMAIN g = DOMAIN f
  BY <1>1
<1>3. IsFiniteSet(DOMAIN f)
  BY <1>1, <1>2, FS_Interval
<1>4. RgFactor(factor) \in 0 .. 100
  BY DEF RgFactor
<1>5. ASSUME NEW i \in DOMAIN f PROVE f[i] \in Int /\ g[i] \in Int /\ g[i] <= f[i]
  <2> DEFINE q == plan.candidates[i]  r == other.candidates[i]
  <2>1. q \in Nat /\ r \in Nat /\ r = (q * RgFactor(factor)) \div 100
    <3>1. i \in DOMAIN plan.candidates /\ i \in DOMAIN other.candidates
      BY <1>1, Zenon
    <3>2. r = (q * RgFactor(factor)) \div 100
      BY <3>1, Zenon
    <3> HIDE DEF f, g
    <3>3. q \in Nat
      BY <1>1, <3>1, RgElement, Zenon
    <3>4. r \in Nat
      BY <1>1, <3>1, RgElement, Zenon
    <3> QED BY <3>2, <3>3, <3>4, Zenon
  <2>2. f[i] = q * plan.price /\ g[i] = r * plan.price
    BY <1>1, <1>2, Zenon
  <2> HIDE DEF q, r
  <2>3. r <= q
    <3> DEFINE k == RgFactor(factor)  p == q * k
    <3>1. p \in Nat /\ p <= 100 * q
      <4> HIDE DEF k
      <4>1. k \in 0 .. 100
        BY <1>4, Zenon DEF k
      <4> QED BY <2>1, <4>1
    <3> HIDE DEF p
    <3>2. p \div 100 <= q
      BY <2>1, <3>1
    <3> QED BY <2>1, <3>2, Zenon DEF p
  <2>4. r * plan.price <= q * plan.price /\ r * plan.price \in Nat /\ q * plan.price \in Nat
    BY <1>1, <2>1, <2>3, RgTimes, Zenon
  <2> QED BY <2>2, <2>4
<1> HIDE DEF f, g
<1>6. SumFunctionOnSet(g, DOMAIN f) <= SumFunctionOnSet(f, DOMAIN f)
  BY <1>3, <1>5, SumMonotone, Zenon
<1>7. RgProposed(other) = SumFunctionOnSet(g, DOMAIN g) /\ RgProposed(plan) = SumFunctionOnSet(f, DOMAIN f)
  BY Zenon DEF RgProposed, SumFunction, f, g
<1> QED BY <1>2, <1>6, <1>7, Zenon

\* What the guard compares are the limits in percent of the equity.
LEMMA RgGuardMeans ==
  ASSUME NEW plan \in RgPlanType, plan.view \in RgViews, RgEvaluateGlobal(plan)
  PROVE  LET v == plan.view
             sent == RgProposed(plan)
             percent == 10 * v.equity
         IN  /\ v.open < RgGuard.concurrent /\ v.loss < RgLimits.loss
             /\ sent <= RgLimits.symbol * percent
             /\ sent + v.largest * percent <= Min({RgLimits.exposure, RgLimits.direction}) * percent
             /\ \A i \in DOMAIN plan.candidates :
                   plan.candidates[i] * plan.price <= RgGuard.single * percent
<1> DEFINE v == plan.view  sent == RgProposed(plan)  e == v.equity  l == v.largest
<1>1. e \in Int /\ l \in Int /\ sent \in Int /\ plan.candidates \in Seq(Nat) /\ plan.price \in Nat
  BY RgProposedType, RgAssumption, Zenon DEF RgPlanType
<1>2. /\ v.open < RgGuard.concurrent /\ v.loss < RgLimits.loss
      /\ 1000 * e > 0
      /\ ~RgAbove(((1000 * e) * l) \div 100 + sent, 1000 * e, RgLimits.exposure)
      /\ ~RgAbove(((1000 * e) * l) \div 100 + sent, 1000 * e, RgLimits.direction)
      /\ ~RgAbove(sent, 1000 * e, RgLimits.symbol)
      /\ \A i \in DOMAIN plan.candidates : ~(1000 * e > 0 /\
            RgAbove(plan.candidates[i] * plan.price, 1000 * e, RgGuard.single))
  BY DEF RgEvaluateGlobal, RgCheckOrder, RgRequest
<1>3. ((1000 * e) * l) \div 100 = 10 * (l * e)
  <2> DEFINE k == l * e
  <2>1. k \in Int /\ (1000 * e) * l = 1000 * k
    BY <1>1
  <2> HIDE DEF k
  <2>2. (1000 * k) \div 100 = 10 * k
    BY <2>1
  <2> QED BY <2>1, <2>2 DEF k
<1> HIDE DEF sent, e, l
<1>4. ASSUME NEW x \in Nat, NEW y \in Int, ~RgAbove(y, 1000 * e, x)
      PROVE  y <= x * (10 * e)
  <2> DEFINE k == x * e
  <2>1. k \in Int /\ x * (1000 * e) = 1000 * k /\ x * (10 * e) = 10 * k
    BY <1>1
  <2> HIDE DEF k
  <2>2. 100 * y <= 1000 * k
    BY <1>4, <2>1 DEF RgAbove
  <2> QED BY <2>1, <2>2
<1>5. sent <= RgLimits.symbol * (10 * e)
  BY <1>1, <1>2, <1>4, RgLimitTypes
<1>6. \A i \in DOMAIN plan.candidates : plan.candidates[i] * plan.price <= RgGuard.single * (10 * e)
  <2> TAKE i \in DOMAIN plan.candidates
  <2>1. plan.candidates[i] * plan.price \in Int
    BY <1>1
  <2> QED BY <1>2, <1>4, <2>1, RgLimitTypes
<1>7. sent + l * (10 * e) <= Min({RgLimits.exposure, RgLimits.direction}) * (10 * e)
  <2>1. 10 * (l * e) + sent \in Int /\ l * (10 * e) = 10 * (l * e)
    BY <1>1
  <2>2. /\ 10 * (l * e) + sent <= RgLimits.exposure * (10 * e)
        /\ 10 * (l * e) + sent <= RgLimits.direction * (10 * e)
    BY <1>2, <1>3, <1>4, <2>1, RgLimitTypes
  <2>3. Min({RgLimits.exposure, RgLimits.direction}) \in {RgLimits.exposure, RgLimits.direction}
    BY RgLimitTypes, RgMinOfTwo
  <2>4. sent + l * (10 * e) = 10 * (l * e) + sent
    BY <1>1, <2>1
  <2> QED BY <2>2, <2>3, <2>4, Zenon
<1> QED BY <1>2, <1>5, <1>6, <1>7 DEF sent, e, l

\* What a strategy says has numbers for its confidence and its stop.
LEMMA RgSignalType ==
  ASSUME NEW signals \in RgSignals
  PROVE  /\ DOMAIN signals = 1 .. Len(signals) /\ Len(signals) \in Nat
         /\ \A i \in DOMAIN signals : signals[i].confidence \in Int /\ signals[i].stop \in Int
<1> DEFINE R == [strategy : STRING, dir : {"long", "short", "hold"}, confidence : Int, stop : Int]
<1>1. \A r \in R : r.confidence \in Int /\ r.stop \in Int
  BY Zenon
<1>2. signals \in Seq(R)
  BY RgAssumption, Zenon
<1> HIDE DEF R
<1>3. /\ DOMAIN signals = 1 .. Len(signals) /\ Len(signals) \in Nat
      /\ \A i \in DOMAIN signals : signals[i] \in R
  BY <1>2
<1> QED BY <1>1, <1>3, Zenon

\* A strategy's vote is a number.
LEMMA RgScoreType ==
  ASSUME NEW signals \in RgSignals, NEW dir
  PROVE  RgScore(signals, dir) \in Int
<1> DEFINE f == [i \in DOMAIN signals |->
                   IF signals[i].dir = dir
                   THEN RgClamp(signals[i].confidence, 0, 100) * RgWeight(signals[i].strategy) ELSE 0]
<1>1. /\ DOMAIN signals = 1 .. Len(signals) /\ Len(signals) \in Nat
      /\ \A i \in DOMAIN signals : signals[i].confidence \in Int
  BY RgSignalType, Zenon
<1>2. \A strategy : RgWeight(strategy) \in Nat
  BY Zenon DEF RgWeight
<1>3. \A i \in DOMAIN signals : f[i] \in Int
  <2> TAKE i \in DOMAIN signals
  <2>1. RgClamp(signals[i].confidence, 0, 100) \in Int
    BY <1>1 DEF RgClamp
  <2> QED BY <1>2, <2>1
<1>4. IsFiniteSet(DOMAIN f) /\ DOMAIN f = DOMAIN signals
  BY <1>1, FS_Interval
<1> HIDE DEF f
<1>5. SumFunctionOnSet(f, DOMAIN f) \in Int
  BY <1>3, <1>4, SumType, Zenon
<1> QED BY <1>5, Zenon DEF RgScore, SumFunction, f

\* A quantity is a natural number of thousandths.
LEMMA RgQuantityType ==
  ASSUME NEW confidence \in Int, NEW view \in RgViews
  PROVE  RgQuantity(confidence, view) \in Nat
<1> DEFINE c == RgClamp(confidence, 2500, 10000)
<1>1. c \in Nat
  BY DEF RgClamp
<1> HIDE DEF c
<1>2. view.open \in Nat
  BY RgAssumption, Zenon
<1>3. ASSUME NEW n \in Nat, NEW d \in Nat, d > 0 PROVE RgRound(n, d) \in Nat
  <2>1. 2 * n + d \in Nat /\ 2 * d \in Nat /\ 2 * d > 0
    BY <1>3
  <2> QED BY <2>1 DEF RgRound
<1>4. RgRound(c, 10) \in Nat /\ RgRound(5 * c, 10 * (5 + view.open)) \in Nat
  BY <1>1, <1>2, <1>3
<1> QED BY <1>4 DEF RgQuantity, c

\* The plan of a cycle before the guard.
LEMMA RgDispatched ==
  ASSUME NEW signals \in RgSignals, NEW price \in RgPrices, NEW view \in RgViews
  PROVE  LET plan == RgDispatchPlan(signals, price, view)
         IN  /\ plan \in RgPlanType /\ plan.view = view /\ plan.pc = "none"
             /\ plan.candidates # <<>> => ~view.paused
<1> DEFINE long == RgScore(signals, "long")
           short == RgScore(signals, "short")
           dir == RgDirection(long, short)
           used == {i \in DOMAIN signals : signals[i].dir # "hold"}
           q == RgQuantity(IF dir = "long" THEN long ELSE short, view)
           stop == IF used = {} THEN 0 ELSE signals[Min(used)].stop
           candidates == IF dir = "hold" \/ view.paused THEN <<>>
                         ELSE [i \in 1 .. RgAccountCount |-> q]
<1>1. long \in Int /\ short \in Int
  BY RgScoreType, Zenon
<1>2. dir \in {"long", "short", "hold"}
  BY DEF RgDirection
<1>3. stop \in Int
  <2>1. /\ DOMAIN signals = 1 .. Len(signals) /\ Len(signals) \in Nat
        /\ \A i \in DOMAIN signals : signals[i].stop \in Int
    BY RgSignalType, Zenon
  <2>2. ASSUME used # {} PROVE Min(used) \in DOMAIN signals
    <3>1. used \subseteq Nat
      BY <2>1
    <3> HIDE DEF used
    <3>2. \E x \in used : \A y \in used : x <= y
      BY <2>2, <3>1, LeastNatural, Zenon
    <3>3. Min(used) \in used
      BY <3>2, Zenon DEF Min
    <3> QED BY <3>3, Zenon DEF used
  <2> QED BY <2>1, <2>2
<1>4. q \in Nat
  <2> HIDE DEF dir, long, short
  <2>1. (IF dir = "long" THEN long ELSE short) \in Int
    BY <1>1, Zenon
  <2> QED BY <2>1, RgQuantityType, Zenon
<1>5. candidates \in Seq(Nat)
  <2> HIDE DEF q
  <2>1. RgAccountCount \in Nat
    BY RgAssumption, Zenon
  <2>2. <<>> \in Seq(Nat)
    OBVIOUS
  <2>3. [i \in 1 .. RgAccountCount |-> q] \in Seq(Nat)
    BY <1>4, <2>1
  <2> QED BY <2>2, <2>3, Zenon
<1>6. price \in Nat
  BY RgAssumption, Zenon
<1>7. RgDispatchPlan(signals, price, view) =
        [pc |-> "none", view |-> view, dir |-> dir, price |-> price, stop |-> stop,
         candidates |-> candidates, passed |-> 0]
  <2> HIDE DEF candidates, stop
  <2>1. RgDispatchPlan(signals, price, view)
          = [RgNoPlan EXCEPT !.view = view, !.dir = dir, !.price = price, !.stop = stop,
                             !.candidates = candidates]
    BY Zenon DEF RgDispatchPlan, candidates, stop
  <2> HIDE DEF dir
  <2> QED BY <2>1, Zenon DEF RgNoPlan
<1>8. candidates # <<>> => ~view.paused
  BY Zenon
<1> HIDE DEF candidates, stop, dir
<1> QED BY <1>2, <1>3, <1>5, <1>6, <1>7, <1>8 DEF RgPlanType

\* The guard keeps the plan or takes its candidates away.
LEMMA RgGuarded ==
  ASSUME NEW plan \in RgPlanType
  PROVE  LET out == RgApplyGuard(plan)
         IN  /\ out \in RgPlanType /\ out.view = plan.view /\ out.pc = plan.pc
             /\ out.passed = plan.passed /\ out.price = plan.price
             /\ out.candidates # <<>> => out = plan /\ RgEvaluateGlobal(plan)
<1>1. <<>> \in Seq(Nat)
  OBVIOUS
<1> QED BY <1>1, Zenon DEF RgApplyGuard, RgPlanType

RgInv == rgView \in RgViews /\ RgPlanSound(rgPlan) /\ RgBookKept

\* A plan as it leaves the first guard.
LEMMA RgBuildStep ==
  ASSUME RgInv, NEW signals \in RgSignals, NEW price \in RgPrices,
         LET plan == RgApplyGuard(RgDispatchPlan(signals, price, rgView))
             needs == RgNeedsReview(rgView) /\ plan.candidates # <<>>
         IN  rgPlan' = [plan EXCEPT !.pc = IF needs THEN "review" ELSE "sent",
                                    !.passed = RgProposed(plan)]
  PROVE  RgPlanSound(rgPlan')
<1> DEFINE first == RgDispatchPlan(signals, price, rgView)
           plan == RgApplyGuard(first)
           pc == IF RgNeedsReview(rgView) /\ plan.candidates # <<>> THEN "review" ELSE "sent"
<1>1. /\ first \in RgPlanType /\ first.view = rgView
      /\ first.candidates # <<>> => ~rgView.paused
  BY RgDispatched, Zenon DEF RgInv
<1> HIDE DEF first
<1>2. /\ plan \in RgPlanType /\ plan.view = rgView
      /\ plan.candidates # <<>> => plan = first /\ RgEvaluateGlobal(first)
  BY <1>1, RgGuarded, Zenon
<1>3. rgPlan' = [plan EXCEPT !.pc = pc, !.passed = RgProposed(plan)]
  BY Zenon DEF first
<1> HIDE DEF plan
<1>4. RgProposed(plan) \in Int /\ pc \in {"review", "sent"}
  BY <1>2, RgProposedType, Zenon
<1> HIDE DEF pc
<1>5. /\ rgPlan' \in RgPlanType /\ rgPlan'.view = plan.view /\ rgPlan'.candidates = plan.candidates
      /\ rgPlan'.price = plan.price /\ rgPlan'.dir = plan.dir /\ rgPlan'.stop = plan.stop
      /\ rgPlan'.passed = RgProposed(plan)
  BY <1>2, <1>3, <1>4, Zenon DEF RgPlanType
<1>6. RgProposed(rgPlan') = RgProposed(plan)
  BY <1>5 DEF RgProposed
<1>7. RgEvaluateGlobal(plan) => RgEvaluateGlobal(rgPlan')
  BY <1>5, <1>6 DEF RgEvaluateGlobal, RgRequest
<1>8. plan.candidates # <<>> => RgEvaluateGlobal(plan)
  BY <1>2, Zenon
<1>9. plan.candidates # <<>> => rgPlan'.view \in RgViews /\ ~rgPlan'.view.paused
  BY <1>1, <1>2, <1>5, Zenon DEF RgInv
<1>10. RgProposed(rgPlan') <= rgPlan'.passed
  BY <1>4, <1>5, <1>6
<1> QED BY <1>5, <1>6, <1>7, <1>8, <1>9, <1>10, Zenon DEF RgPlanSound

\* A plan as it leaves the second guard.
LEMMA RgReviewStep ==
  ASSUME RgInv, rgPlan.pc = "review", NEW approved \in BOOLEAN, NEW factor \in RgFactors,
         LET scaled == [rgPlan EXCEPT !.pc = "sent", !.candidates =
                           IF approved THEN [i \in DOMAIN @ |-> (@[i] * RgFactor(factor)) \div 100]
                           ELSE <<>>]
         IN  rgPlan' = RgApplyGuard(scaled)
  PROVE  RgPlanSound(rgPlan')
<1> DEFINE cut == [i \in DOMAIN rgPlan.candidates |->
                     (rgPlan.candidates[i] * RgFactor(factor)) \div 100]
           kept == IF approved THEN cut ELSE <<>>
           scaled == [rgPlan EXCEPT !.pc = "sent", !.candidates = kept]
<1>1. /\ rgPlan \in RgPlanType /\ rgPlan.passed = RgProposed(rgPlan)
      /\ rgPlan.candidates # <<>> => rgPlan.view \in RgViews /\ ~rgPlan.view.paused
  BY Zenon DEF RgInv, RgPlanSound
<1>2. factor \in Int /\ RgFactor(factor) \in 0 .. 100
  <2>1. factor \in Int
    BY RgAssumption, Zenon
  <2> QED BY <2>1 DEF RgFactor
<1>3. cut \in Seq(Nat) /\ (cut # <<>> => rgPlan.candidates # <<>>)
  <2>1. rgPlan.candidates \in Seq(Nat)
    BY <1>1, Zenon DEF RgPlanType
  <2>2. ASSUME NEW q \in Nat PROVE (q * RgFactor(factor)) \div 100 \in Nat
    <3> DEFINE p == q * RgFactor(factor)
    <3>1. p \in Nat
      BY <1>2
    <3> HIDE DEF p
    <3>2. p \div 100 \in Nat
      BY <3>1
    <3> QED BY <3>2, Zenon DEF p
  <2>3. /\ DOMAIN rgPlan.candidates = 1 .. Len(rgPlan.candidates)
        /\ Len(rgPlan.candidates) \in Nat
        /\ \A i \in DOMAIN rgPlan.candidates : rgPlan.candidates[i] \in Nat
    BY <2>1
  <2>4. \A i \in DOMAIN rgPlan.candidates : cut[i] \in Nat
    BY <2>2, <2>3, Zenon
  <2>5. cut \in Seq(Nat)
    <3> DEFINE n == Len(rgPlan.candidates)
    <3>1. cut \in [1 .. n -> Nat] /\ n \in Nat
      BY <2>3, <2>4, Zenon
    <3> HIDE DEF cut, n
    <3> QED BY <3>1
  <2>6. rgPlan.candidates = <<>> => cut = <<>>
    BY <2>1
  <2> QED BY <2>5, <2>6, Zenon
<1>4. kept \in Seq(Nat) /\ (kept # <<>> => rgPlan.candidates # <<>> /\ kept = cut)
  <2>1. <<>> \in Seq(Nat)
    OBVIOUS
  <2> QED BY <1>3, <2>1, Zenon
<1>5. rgPlan' = RgApplyGuard(scaled)
  BY Zenon
<1> HIDE DEF kept
<1>6. /\ scaled \in RgPlanType /\ scaled.candidates = kept /\ scaled.price = rgPlan.price
      /\ scaled.view = rgPlan.view /\ scaled.passed = rgPlan.passed /\ scaled.pc = "sent"
  BY <1>1, <1>4, Zenon DEF RgPlanType
<1> HIDE DEF scaled
<1>7. /\ rgPlan' \in RgPlanType /\ rgPlan'.view = rgPlan.view /\ rgPlan'.pc = "sent"
      /\ rgPlan'.candidates # <<>> => rgPlan' = scaled /\ RgEvaluateGlobal(scaled)
  BY <1>5, <1>6, RgGuarded, Zenon
<1>8. kept # <<>> => RgProposed(scaled) <= RgProposed(rgPlan)
  <2> SUFFICES ASSUME kept # <<>> PROVE RgProposed(scaled) <= RgProposed(rgPlan)
    BY Zenon
  <2>1. scaled.candidates = cut
    BY <1>4, <1>6, Zenon
  <2> QED BY <1>1, <1>2, <1>6, <2>1, RgScaled, Zenon
<1> HIDE DEF cut
<1> QED BY <1>1, <1>4, <1>6, <1>7, <1>8, Zenon DEF RgPlanSound

\* Every step of the service's cycle and every order keeps the invariant.
LEMMA RgStepKeeps == RgInv /\ [RgPlanNext \/ RgTrade]_rgVars => RgInv'
<1> SUFFICES ASSUME RgInv, [RgPlanNext \/ RgTrade]_rgVars PROVE RgInv'
  BY Zenon
<1>1. CASE RgBuild
  <2>1. RgPlanSound(rgPlan')
    BY <1>1, RgBuildStep, Zenon DEF RgBuild
  <2>2. RgBookKept'
    BY <1>1 DEF RgBuild, RgInv, RgBookKept, RgHeld, RgTotal, RgSide, RgNotional
  <2> QED BY <1>1, <2>1, <2>2, Zenon DEF RgBuild, RgInv
<1>2. CASE RgReview
  <2>1. RgPlanSound(rgPlan')
    BY <1>2, RgReviewStep, Zenon DEF RgReview
  <2>2. RgBookKept'
    BY <1>2, Zenon DEF RgReview, RgInv, RgBookKept, RgHeld, RgTotal, RgSide, RgNotional
  <2> QED BY <1>2, <2>1, <2>2, Zenon DEF RgReview, RgInv
<1>3. CASE RgRegister
  <2>1. RgBookKept'
    BY <1>3, Zenon DEF RgRegister, RgInv, RgBookKept, RgHeld, RgTotal, RgSide, RgNotional
  <2>2. RgPlanSound(rgPlan')
    BY <1>3, Zenon DEF RgRegister, RgInv
  <2> QED BY <1>3, <2>1, <2>2, Zenon DEF RgRegister, RgInv
<1>4. CASE RgTrade
  <2>1. PICK s \in RgSymbols, dir \in {"long", "short"}, action \in {"open", "reverse", "close"},
             stat \in RgStats, circuit \in RgCircuits, loss \in {0, 4, 6} :
          LET req == [symbol |-> s, action |-> action, dir |-> dir, entry |-> 100, stop |-> 95,
                      notional |-> RgSize(stat)]
          IN  /\ RgEvaluate(req, rgBook, loss, circuit)
              /\ rgBook' = [rgBook EXCEPT ![s] = IF action = "close" THEN RgFlat
                               ELSE [dir |-> dir, notional |-> req.notional]]
    BY <1>4, Zenon DEF RgTrade
  <2> DEFINE req == [symbol |-> s, action |-> action, dir |-> dir, entry |-> 100, stop |-> 95,
                     notional |-> RgSize(stat)]
  <2>2. req.symbol = s /\ req.dir = dir /\ req.action = action /\ req.notional \in Nat
    BY RgSizeType, Zenon
  <2>3. RgEvaluate(req, rgBook, loss, circuit)
    BY <2>1, Zenon
  <2>4. rgBook' = [rgBook EXCEPT ![s] = IF action = "close" THEN RgFlat
                                        ELSE [dir |-> dir, notional |-> req.notional]]
    BY <2>1, Zenon
  <2> HIDE DEF req
  <2>5. RgBookKept'
    BY <2>2, <2>3, <2>4, RgFill, Zenon DEF RgInv
  <2>6. UNCHANGED <<rgView, rgPlan>>
    BY <1>4, Zenon DEF RgTrade
  <2> QED BY <2>5, <2>6, Zenon DEF RgInv
<1>5. CASE UNCHANGED rgVars
  BY <1>5, Zenon DEF rgVars, RgInv, RgBookKept, RgHeld, RgTotal, RgSide, RgNotional
<1> QED BY <1>1, <1>2, <1>3, <1>4, <1>5, Zenon DEF RgPlanNext

\* For every set of signals, views, prices, review factors, limits and symbols:
\* a plan that is sent keeps the global limits for the view it was made for,
\* and a review never enlarges it; the book of an account that asks the guard
\* before every order keeps the count, the total and the direction limit and
\* holds no two correlated positions on one side.
THEOREM WithinLimits == RgSpec => []RgWithinLimits
<1>1. RgInit => RgInv
  <2> SUFFICES ASSUME RgInit PROVE RgInv
    BY Zenon
  <2>1. RgPlanSound(rgPlan)
    <3>1. <<>> \in Seq(Nat)
      OBVIOUS
    <3> QED BY <3>1 DEF RgInit, RgNoPlan, RgPlanSound, RgPlanType
  <2>2. rgBook \in [RgSymbols -> RgRow] /\ RgHeld(rgBook) = {}
    BY Zenon DEF RgInit, RgRow, RgHeld
  <2>3. RgTotal(rgBook) = 0 /\ \A dir \in {"long", "short"} : RgSide(rgBook, dir) = 0
    <3>1. \A dir : {s \in RgHeld(rgBook) : rgBook[s].dir = dir} = {}
      BY <2>2, Zenon
    <3> QED BY <2>2, <3>1, SumEmpty, Zenon DEF RgTotal, RgSide
  <2>4. Cardinality(RgHeld(rgBook)) = 0
    BY <2>2, FS_EmptySet, Zenon
  <2>5. \A g \in RgGroups : \A a \in g : rgBook[a] = RgFlat
    BY RgAssumption, Zenon DEF RgInit
  <2>6. RgBookKept
    BY <2>2, <2>3, <2>4, <2>5, RgLimitTypes DEF RgBookKept, RgEquity
  <2> QED BY <2>1, <2>6, Zenon DEF RgInit, RgInv
<1>2. RgInv => RgWithinLimits
  <2> SUFFICES ASSUME RgInv PROVE RgWithinLimits
    BY Zenon
  <2>1. RgBookKept /\ RgPlanSound(rgPlan)
    BY Zenon DEF RgInv
  <2>2. ASSUME rgPlan.pc = "sent", rgPlan.candidates # <<>>
        PROVE  LET v == rgPlan.view
                   sent == RgProposed(rgPlan)
                   percent == 10 * v.equity
               IN  /\ ~v.paused /\ v.open < RgGuard.concurrent /\ v.loss < RgLimits.loss
                   /\ sent <= rgPlan.passed
                   /\ sent <= RgLimits.symbol * percent
                   /\ sent + v.largest * percent
                        <= Min({RgLimits.exposure, RgLimits.direction}) * percent
                   /\ \A i \in DOMAIN rgPlan.candidates :
                         rgPlan.candidates[i] * rgPlan.price <= RgGuard.single * percent
    BY <2>1, <2>2, RgGuardMeans, Zenon DEF RgPlanSound
  <2> QED BY <2>1, <2>2, Zenon DEF RgWithinLimits, RgBookKept
<1> QED BY <1>1, <1>2, RgStepKeeps, PTL DEF RgSpec

-----------------------------------------------------------------------------
(* What the central brain answered is durable.                             *)

CeControlType == [paused : BOOLEAN, stopped : SUBSET CeSymbols,
                  outcome : {"none", "approved", "rejected"}]
CeOpType == [name : {"none", "data_alert", "account_error", "macro_event", "malformed", "review",
                     "emergency", "update_config"},
             field : CeFields \cup {"none", "approved", "rejected"}, value : BOOLEAN]
CeRowType == [tradingPaused : BOOLEAN, pausedInstruments : SUBSET CeSymbols,
              lastReviewOutcome : {"none", "approved", "rejected"},
              lastDecision : {"none", "approved", "rejected"}]
CeStages == {"idle", "control", "read_review", "read_control", "save"}

CeTypes ==
    /\ ceControl \in CeControlType
    /\ ceReview \in {"none", "approved", "rejected"}
    /\ ceStore \in SUBSET CeRowType
    /\ ceCall \in [CeHandlers -> [pc : CeStages, op : CeOpType,
                                  review : {"none", "approved", "rejected"}, control : CeControlType]]
    /\ ceLast \in [CeFields -> [value : BOOLEAN, ok : BOOLEAN]]

\* What an operation on its field leaves there.
CeDone(control, last, op) ==
    op.field \in CeFields => CeValue(control, op.field) = last[op.field].value

\* The request being served: what its handler knows at each of its steps.
CeServed(call, control, review, last) ==
    /\ call.pc = "control" =>
         IF call.op.name = "review" THEN review = call.op.field ELSE control.outcome = review
    /\ call.pc \in {"read_review", "read_control", "save"} =>
         /\ control.outcome = review
         /\ CeDone(control, last, call.op)
         /\ call.op.field \in CeFields => ~last[call.op.field].ok
    /\ call.pc \in {"read_control", "save"} => call.review = review
    /\ call.pc = "save" => call.control = control
    /\ call.pc = "idle" => control.outcome = review
    /\ call.op.name = "review" <=> call.op.field \in {"approved", "rejected"}

\* An answered value holds in the brain and in the store at every moment.
CeKept(f) ==
    ceLast[f].ok =>
        /\ CeValue(ceControl, f) = ceLast[f].value
        /\ ceStore = {} => ~ceLast[f].value
        /\ \A row \in ceStore : CeValue(CeDecode(row).control, f) = ceLast[f].value

\* One request at a time.
CeInv ==
    /\ CeTypes
    /\ \A g, h \in CeHandlers : ceCall[g].pc # "idle" /\ ceCall[h].pc # "idle" => g = h
    /\ \A h \in CeHandlers : ceCall[h].pc # "idle" =>
         CeServed(ceCall[h], ceControl, ceReview, ceLast)
    /\ (\A h \in CeHandlers : ceCall[h].pc = "idle") => ceControl.outcome = ceReview
    /\ \A row \in ceStore : row.lastReviewOutcome = row.lastDecision
    /\ \A f \in CeFields : CeKept(f)

\* Every operation is well formed, and only a review carries a decision.
LEMMA CeOpsTyped ==
  ASSUME NEW op \in CeOps
  PROVE  /\ op \in CeOpType
         /\ op.name = "review" <=> op.field \in {"approved", "rejected"}
<1> DEFINE P(o) == o \in CeOpType /\ (o.name = "review" <=> o.field \in {"approved", "rejected"})
<1>o. ASSUME NEW name \in {"none", "data_alert", "account_error", "macro_event", "malformed",
                           "emergency", "update_config"},
             NEW field \in CeFields \cup {"none"}, NEW value \in BOOLEAN
      PROVE  P(CeOp(name, field, value))
  BY CeSymbolsAssumption, Zenon DEF CeOpType, CeFields, CeOp
<1>r. ASSUME NEW field \in {"approved", "rejected"} PROVE P(CeOp("review", field, FALSE))
  BY Zenon DEF CeOpType, CeOp
<1>f. "trading" \in CeFields /\ \A s \in CeSymbols \cup {""} : s # "" => s \in CeFields
  BY Zenon DEF CeFields
<1> SUFFICES P(op)
  BY Zenon
<1> HIDE DEF P
<1>m. P(CeMalformed)
  BY <1>o, Zenon DEF CeMalformed
<1>1. CASE op \in CeControlTools
  <2>1. ASSUME NEW l \in {"critical", "info"}, NEW s \in CeSymbols \cup {""} PROVE P(CeDataAlert(l, s))
    BY <1>o, <1>f, Zenon DEF CeDataAlert
  <2>2. ASSUME NEW r \in BOOLEAN PROVE P(CeAccountError(r))
    BY <1>o, <1>f, Zenon DEF CeAccountError
  <2>3. P(CeOp("macro_event", "none", FALSE))
    BY <1>o, Zenon
  <2>4. \A s \in CeSymbols \cup {""} : op \in CeDataAlerts(s) => P(op)
    BY <2>1, Zenon DEF CeDataAlerts
  <2>5. op \in {CeAccountError(r) : r \in BOOLEAN} => P(op)
    BY <2>2, Zenon
  <2>6. op \in UNION {CeDataAlerts(s) : s \in CeSymbols \cup {""}} => P(op)
    BY <2>4, Zenon
  <2>7. \/ op \in UNION {CeDataAlerts(s) : s \in CeSymbols \cup {""}}
        \/ op \in {CeAccountError(r) : r \in BOOLEAN}
        \/ op = CeOp("macro_event", "none", FALSE) \/ op = CeMalformed
    BY <1>1, Zenon DEF CeControlTools
  <2> QED BY <1>m, <2>3, <2>5, <2>6, <2>7, Zenon
<1>2. CASE op \in CeReviewTool
  <2>1. \A w \in BOOLEAN : P(CeOp("review", CeEvaluate(w), FALSE))
    BY <1>r, Zenon DEF CeEvaluate
  <2> QED BY <1>2, <1>m, <2>1, Zenon DEF CeReviewTool
<1>3. CASE op \in CeInstructions
  <2>1. ASSUME NEW a \in {"pause_trading", "resume_trading", "pause_instrument",
                          "resume_instrument", "other"},
               NEW s \in CeSymbols \cup {""}
        PROVE  P(CeEmergency(a, s))
    BY <1>o, <1>f, Zenon DEF CeEmergency
  <2>2. P(CeOp("update_config", "none", FALSE))
    BY <1>o, Zenon
  <2>3. \A s \in CeSymbols \cup {""} : op \in CeEmergencies(s) => P(op)
    BY <2>1, Zenon DEF CeEmergencies
  <2>4. op \in UNION {CeEmergencies(s) : s \in CeSymbols \cup {""}} => P(op)
    BY <2>3, Zenon
  <2>5. \/ op \in UNION {CeEmergencies(s) : s \in CeSymbols \cup {""}}
        \/ op = CeOp("update_config", "none", FALSE) \/ op = CeMalformed
    BY <1>3, Zenon DEF CeInstructions
  <2> QED BY <1>m, <2>2, <2>4, <2>5, Zenon
<1> QED BY <1>1, <1>2, <1>3, Zenon DEF CeOps, CeExecute

\* An operation sets its own field and leaves the others.
LEMMA CeRecorded ==
  ASSUME NEW c \in CeControlType, NEW op \in CeOpType,
         op.name = "review" <=> op.field \in {"approved", "rejected"}
  PROVE  LET r == CeRecord(c, op)
         IN  /\ r \in CeControlType
             /\ op.field \in CeFields => CeValue(r, op.field) = op.value
             /\ \A f \in CeFields : f # op.field => CeValue(r, f) = CeValue(c, f)
             /\ op.field \in {"approved", "rejected"} /\ op.name = "review" => r.outcome = op.field
             /\ op.name # "review" => r.outcome = c.outcome
<1> DEFINE r == CeRecord(c, op)
<1>t. /\ c.paused \in BOOLEAN /\ c.stopped \in SUBSET CeSymbols
      /\ c.outcome \in {"none", "approved", "rejected"}
      /\ op.value \in BOOLEAN
  BY Zenon DEF CeControlType, CeOpType
<1>1. CASE op.field = "trading"
  <2>1. r = [c EXCEPT !.paused = op.value]
    BY <1>1, CeSymbolsAssumption, Zenon DEF CeRecord
  <2> HIDE DEF r
  <2>2. r.paused = op.value /\ r.stopped = c.stopped /\ r.outcome = c.outcome /\ r \in CeControlType
    BY <1>t, <2>1, Zenon DEF CeControlType
  <2> QED BY <1>1, <2>2, Zenon DEF CeValue, r
<1>2. CASE op.field \in CeSymbols
  <2> DEFINE stopped == IF op.value THEN c.stopped \cup {op.field} ELSE c.stopped \ {op.field}
  <2>0. op.field # "trading" /\ op.field \notin {"approved", "rejected"}
    BY <1>2, CeSymbolsAssumption, Zenon
  <2>1. r = [c EXCEPT !.stopped = stopped]
    BY <1>2, <2>0, Zenon DEF CeRecord
  <2>3. /\ stopped \in SUBSET CeSymbols /\ (op.field \in stopped) = op.value
        /\ \A f : f # op.field => ((f \in stopped) = (f \in c.stopped))
    <3>1. CASE op.value = TRUE
      BY <1>2, <1>t, <3>1
    <3>2. CASE op.value = FALSE
      BY <1>2, <1>t, <3>2
    <3> QED BY <1>t, <3>1, <3>2, Zenon
  <2> HIDE DEF r, stopped
  <2>2. r.paused = c.paused /\ r.stopped = stopped /\ r.outcome = c.outcome /\ r \in CeControlType
    BY <1>t, <2>1, <2>3, Zenon DEF CeControlType
  <2> QED BY <2>0, <2>2, <2>3, Zenon DEF CeValue, r
<1>3. CASE op.field \in {"none", "approved", "rejected"}
  BY <1>3, CeSymbolsAssumption, Zenon DEF CeControlType, CeOpType, CeRecord, CeValue, CeFields
<1> QED BY <1>1, <1>2, <1>3, Zenon DEF CeOpType, CeFields

\* While one request is served the others are idle.
LEMMA CeOwnStep ==
  ASSUME CeInv, NEW h \in CeHandlers, CeTypes',
         \A o \in CeHandlers \ {h} : ceCall[o].pc = "idle" /\ ceCall'[o] = ceCall[o],
         CeServed(ceCall'[h], ceControl', ceReview', ceLast'),
         \A row \in ceStore' : row.lastReviewOutcome = row.lastDecision,
         \A f \in CeFields : CeKept(f)'
  PROVE  CeInv'
<1>1. \A g, o \in CeHandlers : ceCall'[g].pc # "idle" /\ ceCall'[o].pc # "idle" => g = o
  OBVIOUS
<1>2. \A o \in CeHandlers : ceCall'[o].pc # "idle" => CeServed(ceCall'[o], ceControl', ceReview', ceLast')
  BY Zenon
<1>3. (\A o \in CeHandlers : ceCall'[o].pc = "idle") => ceControl'.outcome = ceReview'
  BY Zenon DEF CeServed
<1> QED BY <1>1, <1>2, <1>3, Zenon DEF CeInv

\* A request arrives while no other is served.
LEMMA CeStartStep ==
  ASSUME ~CeOverlap, CeInv, NEW h \in CeHandlers, CeStart(h)
  PROVE  CeInv'
<1>i. CeTypes
  BY Zenon DEF CeInv
<1>1. PICK op \in CeOps :
        /\ ceCall' = IF op = CeMalformed THEN ceCall
                     ELSE [ceCall EXCEPT ![h] = [CeIdle EXCEPT !.pc = "control", !.op = op]]
        /\ ceReview' = IF op.name = "review" THEN op.field ELSE ceReview
  BY Zenon DEF CeStart
<1>2. /\ \A o \in CeHandlers : ceCall[o].pc = "idle"
      /\ UNCHANGED <<ceControl, ceStore, ceLast>>
  BY Zenon DEF CeStart
<1>3. op \in CeOpType /\ (op.name = "review" <=> op.field \in {"approved", "rejected"})
  BY CeOpsTyped, Zenon
<1>4. /\ ceControl.outcome = ceReview /\ (\A row \in ceStore' : row.lastReviewOutcome = row.lastDecision)
      /\ \A f \in CeFields : CeKept(f)'
  BY <1>2, Zenon DEF CeInv, CeKept
<1>5. CASE op = CeMalformed
  <2>1. ceCall' = ceCall /\ ceReview' = ceReview
    BY <1>1, <1>5, Zenon DEF CeMalformed, CeOp
  <2> QED BY <1>2, <2>1, Zenon DEF CeInv, CeTypes, CeKept
<1>6. CASE op # CeMalformed
  <2> DEFINE call == [CeIdle EXCEPT !.pc = "control", !.op = op]
  <2>1. ceCall' = [ceCall EXCEPT ![h] = call]
    BY <1>1, <1>6, Zenon
  <2>2. /\ call.pc = "control" /\ call.op = op
        /\ call \in [pc : CeStages, op : CeOpType,
                     review : {"none", "approved", "rejected"}, control : CeControlType]
    BY <1>3, Zenon DEF CeIdle, CeFresh, CeControlType, CeStages
  <2> HIDE DEF call
  <2>3. CeTypes'
    BY <1>i, <1>1, <1>2, <1>3, <2>1, <2>2, Zenon DEF CeTypes
  <2>4. CeServed(call, ceControl', ceReview', ceLast')
    BY <1>1, <1>2, <1>3, <1>4, <2>2, Zenon DEF CeServed
  <2>5. ceCall'[h] = call /\ \A o \in CeHandlers \ {h} : ceCall[o].pc = "idle" /\ ceCall'[o] = ceCall[o]
    BY <1>i, <1>2, <2>1, Zenon DEF CeTypes
  <2> QED BY <1>4, <2>3, <2>4, <2>5, CeOwnStep, Zenon
<1> QED BY <1>5, <1>6, Zenon

\* The handler changes the state and notes that its answer is not out.
LEMMA CeApplyStep ==
  ASSUME CeInv, NEW h \in CeHandlers, CeApply(h)
  PROVE  CeInv'
<1> DEFINE op == ceCall[h].op
<1>i. CeTypes
  BY Zenon DEF CeInv
<1>1. /\ ceCall[h].pc = "control" /\ ceControl' = CeRecord(ceControl, op)
      /\ ceLast' = IF op.field \in CeFields
                   THEN [ceLast EXCEPT ![op.field] = [value |-> op.value, ok |-> FALSE]] ELSE ceLast
      /\ ceCall' = [ceCall EXCEPT ![h].pc = "read_review"]
      /\ UNCHANGED <<ceReview, ceStore, ceCount>>
  BY Zenon DEF CeApply, CeNoteApplied, CeGoto
<1>2. /\ CeServed(ceCall[h], ceControl, ceReview, ceLast) /\ op \in CeOpType
      /\ \A o \in CeHandlers \ {h} : ceCall[o].pc = "idle"
  BY <1>i, <1>1, Zenon DEF CeInv, CeTypes
<1>3. /\ ceControl' \in CeControlType
      /\ op.field \in CeFields => CeValue(ceControl', op.field) = op.value
      /\ \A f \in CeFields : f # op.field => CeValue(ceControl', f) = CeValue(ceControl, f)
      /\ op.name = "review" => ceControl'.outcome = op.field
      /\ op.name # "review" => ceControl'.outcome = ceControl.outcome
  BY <1>i, <1>1, <1>2, CeRecorded DEF CeTypes, CeServed
<1>4. /\ ceCall' \in [CeHandlers -> [pc : CeStages, op : CeOpType,
                        review : {"none", "approved", "rejected"}, control : CeControlType]]
      /\ ceCall'[h].pc = "read_review" /\ ceCall'[h].op = op
      /\ \A o \in CeHandlers \ {h} : ceCall'[o] = ceCall[o]
  BY <1>i, <1>1, Zenon DEF CeTypes, CeStages
<1> HIDE DEF op
<1>5. /\ ceLast' \in [CeFields -> [value : BOOLEAN, ok : BOOLEAN]]
      /\ \A f \in CeFields : f # op.field => ceLast'[f] = ceLast[f]
      /\ op.field \in CeFields => ceLast'[op.field] = [value |-> op.value, ok |-> FALSE]
  BY <1>i, <1>1, <1>2, Zenon DEF CeTypes, CeOpType
<1>6. CeTypes'
  BY <1>i, <1>1, <1>3, <1>4, <1>5, Zenon DEF CeTypes
<1>7. CeServed(ceCall'[h], ceControl', ceReview', ceLast')
  <2>1. ceControl'.outcome = ceReview'
    BY <1>1, <1>2, <1>3, Zenon DEF CeServed, op
  <2>2. CeDone(ceControl', ceLast', op) /\ (op.field \in CeFields => ~ceLast'[op.field].ok)
    BY <1>3, <1>5 DEF CeDone
  <2>3. op.name = "review" <=> op.field \in {"approved", "rejected"}
    BY <1>2, Zenon DEF CeServed, op
  <2> QED BY <1>4, <2>1, <2>2, <2>3, Zenon DEF CeServed
<1>8. \A f \in CeFields : CeKept(f)'
  <2> TAKE f \in CeFields
  <2>1. CASE f = op.field
    BY <1>5, <2>1 DEF CeKept
  <2>2. CASE f # op.field
    <3>1. CeKept(f) /\ ceLast'[f] = ceLast[f] /\ CeValue(ceControl', f) = CeValue(ceControl, f)
      BY <1>3, <1>5, <2>2, Zenon DEF CeInv
    <3> QED BY <1>1, <3>1, Zenon DEF CeKept
  <2> QED BY <2>1, <2>2, Zenon
<1>9. \A row \in ceStore' : row.lastReviewOutcome = row.lastDecision
  BY <1>1, Zenon DEF CeInv
<1> QED BY <1>2, <1>4, <1>6, <1>7, <1>8, <1>9, CeOwnStep, Zenon

\* The two reads.
LEMMA CeReadStep ==
  ASSUME CeInv, NEW h \in CeHandlers, CeReadReview(h) \/ CeReadControl(h)
  PROVE  CeInv'
<1>i. CeTypes
  BY Zenon DEF CeInv
<1>1. /\ ceCall[h].pc \in {"read_review", "read_control"}
      /\ UNCHANGED <<ceControl, ceReview, ceStore, ceLast>>
  BY Zenon DEF CeReadReview, CeReadControl
<1>2. /\ CeServed(ceCall[h], ceControl, ceReview, ceLast)
      /\ \A o \in CeHandlers \ {h} : ceCall[o].pc = "idle"
  BY <1>i, <1>1, Zenon DEF CeInv, CeTypes
<1>3. /\ CeTypes' /\ \A o \in CeHandlers \ {h} : ceCall'[o] = ceCall[o]
  <2>1. CASE CeReadReview(h)
    BY <1>i, <1>1, <2>1, Zenon DEF CeReadReview, CeTypes, CeStages
  <2>2. CASE CeReadControl(h)
    BY <1>i, <1>1, <2>2, Zenon DEF CeReadControl, CeTypes, CeStages
  <2> QED BY <2>1, <2>2, Zenon
<1>4. CeServed(ceCall'[h], ceControl', ceReview', ceLast')
  <2>1. CASE CeReadReview(h)
    <3>1. /\ ceCall'[h].pc = "read_control" /\ ceCall'[h].op = ceCall[h].op
          /\ ceCall'[h].review = ceReview /\ ceCall[h].pc = "read_review"
      BY <1>i, <2>1, Zenon DEF CeReadReview, CeTypes
    <3> QED BY <1>1, <1>2, <3>1, Zenon DEF CeServed
  <2>2. CASE CeReadControl(h)
    <3>1. /\ ceCall'[h].pc = "save" /\ ceCall'[h].op = ceCall[h].op
          /\ ceCall'[h].review = ceCall[h].review /\ ceCall'[h].control = ceControl
          /\ ceCall[h].pc = "read_control"
      BY <1>i, <2>2, Zenon DEF CeReadControl, CeTypes
    <3> QED BY <1>1, <1>2, <3>1, Zenon DEF CeServed
  <2> QED BY <2>1, <2>2, Zenon
<1>5. /\ \A row \in ceStore' : row.lastReviewOutcome = row.lastDecision
      /\ \A f \in CeFields : CeKept(f)'
  BY <1>1, Zenon DEF CeInv, CeKept
<1> QED BY <1>2, <1>3, <1>4, <1>5, CeOwnStep, Zenon

\* The save stores what the brain holds.
LEMMA CeSaveStep ==
  ASSUME CeInv, NEW h \in CeHandlers, CeSave(h) \/ CeSaveFails(h)
  PROVE  CeInv'
<1> DEFINE op == ceCall[h].op
<1>i. CeTypes
  BY Zenon DEF CeInv
<1>1. /\ ceCall[h].pc = "save" /\ ceCall' = [ceCall EXCEPT ![h] = CeIdle]
      /\ UNCHANGED <<ceControl, ceReview>>
  BY Zenon DEF CeSave, CeSaveFails
<1>2. /\ CeServed(ceCall[h], ceControl, ceReview, ceLast)
      /\ \A o \in CeHandlers \ {h} : ceCall[o].pc = "idle"
  BY <1>i, <1>1, Zenon DEF CeInv, CeTypes
<1>3. /\ ceCall' \in [CeHandlers -> [pc : CeStages, op : CeOpType,
                        review : {"none", "approved", "rejected"}, control : CeControlType]]
      /\ ceCall'[h] = CeIdle /\ \A o \in CeHandlers \ {h} : ceCall'[o] = ceCall[o]
  <2>1. CeIdle \in [pc : CeStages, op : CeOpType,
                    review : {"none", "approved", "rejected"}, control : CeControlType]
    BY Zenon DEF CeIdle, CeStages, CeNoOp, CeOpType, CeFresh, CeControlType
  <2> HIDE DEF CeIdle
  <2> QED BY <1>i, <1>1, <2>1, Zenon DEF CeTypes
<1>4. /\ ceControl.outcome = ceReview /\ CeDone(ceControl, ceLast, op)
      /\ ceCall[h].review = ceReview /\ ceCall[h].control = ceControl
  BY <1>1, <1>2, Zenon DEF CeServed
<1>5. CeServed(ceCall'[h], ceControl', ceReview', ceLast')
  BY <1>1, <1>3, <1>4, Zenon DEF CeServed, CeIdle, CeNoOp
<1>6. CASE CeSave(h)
  <2> DEFINE row == CeEncode(ceReview, ceControl)
  <2>1. /\ ceStore' = {row}
        /\ ceLast' = IF op.field \in CeFields THEN [ceLast EXCEPT ![op.field].ok = TRUE] ELSE ceLast
    BY <1>4, <1>6, Zenon DEF CeSave
  <2>2. /\ row \in CeRowType /\ row.lastReviewOutcome = row.lastDecision
        /\ CeDecode(row).control = ceControl
    BY <1>i, <1>4, Zenon DEF CeTypes, CeControlType, CeEncode, CeDecode, CeRowType
  <2> HIDE DEF row, op
  <2>3. /\ ceLast' \in [CeFields -> [value : BOOLEAN, ok : BOOLEAN]]
        /\ \A f \in CeFields : ceLast'[f].value = ceLast[f].value
        /\ \A f \in CeFields : f # op.field => ceLast'[f] = ceLast[f]
    BY <1>i, <2>1, Zenon DEF CeTypes
  <2>4. \A f \in CeFields : CeKept(f)'
    <3> TAKE f \in CeFields
    <3>1. ceLast'[f].ok => CeValue(ceControl, f) = ceLast[f].value
      <4>1. CASE f = op.field
        BY <1>4, <4>1, Zenon DEF CeDone
      <4>2. CASE f # op.field
        BY <2>3, <4>2, Zenon DEF CeInv, CeKept
      <4> QED BY <4>1, <4>2, Zenon
    <3> QED BY <1>1, <2>1, <2>2, <2>3, <3>1, Zenon DEF CeKept
  <2>5. CeTypes'
    BY <1>i, <1>1, <1>3, <2>1, <2>2, <2>3, Zenon DEF CeTypes
  <2>6. \A r \in ceStore' : r.lastReviewOutcome = r.lastDecision
    BY <2>1, <2>2, Zenon
  <2> QED BY <1>2, <1>3, <1>5, <2>4, <2>5, <2>6, CeOwnStep, Zenon
<1>7. CASE CeSaveFails(h)
  <2>1. UNCHANGED <<ceStore, ceLast>>
    BY <1>7, Zenon DEF CeSaveFails
  <2>2. CeTypes'
    BY <1>i, <1>1, <1>3, <2>1, Zenon DEF CeTypes
  <2>3. \A f \in CeFields : CeKept(f)'
    BY <1>1, <2>1, Zenon DEF CeInv, CeKept
  <2>4. \A r \in ceStore' : r.lastReviewOutcome = r.lastDecision
    BY <2>1, Zenon DEF CeInv
  <2> QED BY <1>2, <1>3, <1>5, <2>2, <2>3, <2>4, CeOwnStep, Zenon
<1> QED BY <1>6, <1>7, Zenon

\* A restart goes back to what the store holds.
LEMMA CeRestartStep ==
  ASSUME CeInv, CeRestart
  PROVE  CeInv'
<1>i. CeTypes
  BY Zenon DEF CeInv
<1>1. UNCHANGED <<ceStore, ceLast>> /\ ceCall' = [h \in CeHandlers |-> CeIdle]
  BY Zenon DEF CeRestart
<1>2. ceCall' \in [CeHandlers -> [pc : CeStages, op : CeOpType,
                     review : {"none", "approved", "rejected"}, control : CeControlType]]
      /\ \A h \in CeHandlers : ceCall'[h].pc = "idle"
  <2>1. CeIdle.pc = "idle" /\ CeIdle \in [pc : CeStages, op : CeOpType,
                    review : {"none", "approved", "rejected"}, control : CeControlType]
    BY Zenon DEF CeIdle, CeStages, CeNoOp, CeOpType, CeFresh, CeControlType
  <2> HIDE DEF CeIdle
  <2> QED BY <1>1, <2>1, Zenon
<1>3. /\ ceControl' \in CeControlType /\ ceReview' \in {"none", "approved", "rejected"}
      /\ ceControl'.outcome = ceReview'
      /\ \A f \in CeFields : CeKept(f)'
  <2>1. CASE ceStore = {}
    <3>1. ceControl' = CeFresh /\ ceReview' = "none"
      BY <2>1, Zenon DEF CeRestart
    <3>2. \A f \in CeFields : CeValue(CeFresh, f) = FALSE
      BY DEF CeValue, CeFresh
    <3>3. \A f \in CeFields : CeKept(f) /\ ceLast[f].value \in BOOLEAN
      BY <1>i, Zenon DEF CeInv, CeTypes
    <3>4. \A f \in CeFields : CeKept(f)'
      BY <1>1, <2>1, <3>1, <3>2, <3>3, Zenon DEF CeKept
    <3> QED BY <3>1, <3>4, Zenon DEF CeFresh, CeControlType
  <2>2. CASE ceStore # {}
    <3>1. PICK row \in ceStore : ceControl' = CeDecode(row).control /\ ceReview' = CeDecode(row).review
      BY <2>2, Zenon DEF CeRestart
    <3>2. row \in CeRowType /\ row.lastReviewOutcome = row.lastDecision
      BY <1>i, Zenon DEF CeInv, CeTypes
    <3>3. \A f \in CeFields : CeKept(f)
      BY Zenon DEF CeInv
    <3>4. \A f \in CeFields : CeKept(f)'
      BY <1>1, <3>1, <3>3, Zenon DEF CeKept
    <3> QED BY <3>1, <3>2, <3>4, Zenon DEF CeDecode, CeRowType, CeControlType
  <2> QED BY <2>1, <2>2, Zenon
<1>4. CeTypes'
  BY <1>i, <1>1, <1>2, <1>3, Zenon DEF CeTypes
<1> QED BY <1>1, <1>2, <1>3, <1>4, Zenon DEF CeInv

\* While requests are served one at a time, for every set of handlers and
\* instruments: an answered pause or resume holds in the brain and in its
\* store whatever was saved, failed to be saved or restarted since, and the
\* two halves of the state agree on the last review between requests.
THEOREM AnswersAreDurable ==
  ASSUME ~CeOverlap
  PROVE  CeSpec => []CeAnsweredDurable
<1>1. CeInit => CeInv
  <2> SUFFICES ASSUME CeInit PROVE CeInv
    BY Zenon
  <2>1. CeIdle.pc = "idle" /\ CeIdle \in [pc : CeStages, op : CeOpType,
                    review : {"none", "approved", "rejected"}, control : CeControlType]
    BY Zenon DEF CeIdle, CeStages, CeNoOp, CeOpType, CeFresh, CeControlType
  <2>2. CeFresh \in CeControlType /\ CeFresh.outcome = "none"
    BY Zenon DEF CeFresh, CeControlType
  <2>3. \A f \in CeFields : CeValue(CeFresh, f) = FALSE
    BY DEF CeValue, CeFresh
  <2> HIDE DEF CeIdle, CeFresh
  <2>4. CeTypes /\ \A h \in CeHandlers : ceCall[h].pc = "idle"
    BY <2>1, <2>2, Zenon DEF CeInit, CeTypes
  <2>5. \A f \in CeFields : CeKept(f)
    BY <2>3, Zenon DEF CeInit, CeKept
  <2> QED BY <2>2, <2>4, <2>5, Zenon DEF CeInit, CeInv
<1>2. CeInv /\ [CeNext]_ceVars => CeInv'
  <2> SUFFICES ASSUME CeInv, [CeNext]_ceVars PROVE CeInv'
    BY Zenon
  <2>1. CASE UNCHANGED ceVars
    BY <2>1, Zenon DEF ceVars, CeInv, CeTypes, CeKept
  <2> QED BY <2>1, CeStartStep, CeApplyStep, CeReadStep, CeSaveStep, CeRestartStep, Zenon DEF CeNext
<1>3. CeInv => CeAnsweredDurable
  <2> SUFFICES ASSUME CeInv PROVE CeAnsweredDurable
    BY Zenon
  <2>1. \A f \in CeFields : ceLast[f].ok =>
            /\ CeValue(ceControl, f) = ceLast[f].value
            /\ IF ceStore = {} THEN ~ceLast[f].value
               ELSE \A row \in ceStore : CeValue(CeDecode(row).control, f) = ceLast[f].value
    BY Zenon DEF CeInv, CeKept
  <2> QED BY <2>1, Zenon DEF CeAnsweredDurable, CePausesKept, CeInv
<1> QED BY <1>1, <1>2, <1>3, PTL DEF CeSpec

-----------------------------------------------------------------------------
(* The paper exchange: its books balance.                                  *)

PxRunning == {"filling", "filled", "opening", "rejecting", "ticking", "marking"}
PxFinal == {"filled", "cancelled", "rejected"}

\* The orders under k whose fill was applied.
PxApplied(k) == {d \in DOMAIN pxOrders : pxFills[d] = 1 /\ PxKey(pxOrders[d].intent) = k}
PxTerms == [d \in DOMAIN pxOrders |-> PxSigned(pxOrders[d].intent)]

\* Names are drawn from the counters, so the next one is new.
PxNames ==
  /\ IsFiniteSet(DOMAIN pxOrders)
  /\ pxNext \in Nat
  /\ \A d \in DOMAIN pxOrders :
        \/ \E n \in Nat : d = <<"own", n>> /\ n < Cardinality(DOMAIN pxOrders)
        \/ \E n \in Nat : d = <<"paper", n>> /\ n <= pxNext

PxTypes ==
  /\ pxOrders = [d \in DOMAIN pxOrders |-> pxOrders[d]]
  /\ \A d \in DOMAIN pxOrders :
        pxOrders[d] \in [intent : PxIntents, status : PxResting \cup PxFinal]
  /\ pxFills \in [DOMAIN pxOrders -> {0, 1}]
  /\ pxPositions = [k \in DOMAIN pxPositions |-> pxPositions[k]]
  /\ \A k \in DOMAIN pxPositions : pxPositions[k] \in Nat
  /\ DOMAIN pxCalls = PxCallers
  /\ \A c \in PxCallers :
       /\ pxCalls[c] = [pc |-> pxCalls[c].pc, id |-> pxCalls[c].id, mark |-> pxCalls[c].mark,
                        todo |-> pxCalls[c].todo]
       /\ pxCalls[c].pc \in PxRunning \cup {"idle"}

\* One call at a time.
PxAlone == \A c, o \in PxCallers : pxCalls[c].pc # "idle" /\ pxCalls[o].pc # "idle" => c = o

\* What a call in progress knows of its orders.
PxProgress ==
  \A c \in PxCallers : LET call == pxCalls[c] IN
    /\ call.pc \in PxRunning \ {"ticking"} => call.id \in DOMAIN pxOrders
    /\ call.pc \in {"filling", "opening"} =>
          pxOrders[call.id].status = "accepted" /\ pxFills[call.id] = 0
    /\ call.pc = "rejecting" => pxOrders[call.id].status = "rejected"
    /\ call.pc \in {"filled", "marking"} =>
          pxOrders[call.id].status \in PxResting /\ pxFills[call.id] = 1
    /\ call.pc \in {"ticking", "marking"} =>
          \A d \in call.todo : /\ d \in DOMAIN pxOrders
                               /\ pxOrders[d].status \in PxResting /\ pxFills[d] = 0

\* An order is applied iff it is marked filled or about to be.
PxMarked ==
  \A d \in DOMAIN pxOrders :
    pxFills[d] = 1 <=> \/ pxOrders[d].status = "filled"
                       \/ \E c \in PxCallers : pxCalls[c].pc \in {"filled", "marking"} /\ pxCalls[c].id = d

\* Every position is the net of the orders that were applied to it.
PxNet == \A k : PxQuantity(pxPositions, k) = SumFunctionOnSet(PxTerms, PxApplied(k))

PxInv == PxNames /\ PxTypes /\ PxAlone /\ PxProgress /\ PxMarked /\ PxNet

\* An order moves its position by a whole amount.
LEMMA PxSignedInt == \A i \in PxIntents : PxSigned(i) \in Int
BY PxAssumption DEF PxSigned

\* No position is negative.
LEMMA PxQuantityNat == PxTypes => \A k : PxQuantity(pxPositions, k) \in Nat
BY Zenon DEF PxTypes, PxQuantity

\* A name drawn from the counters is new.
LEMMA PxFreshID ==
  ASSUME PxNames, NEW own \in BOOLEAN
  PROVE  PxNewID(own) \notin DOMAIN pxOrders
<1>1. Cardinality(DOMAIN pxOrders) \in Nat
  BY FS_CardinalityType, Zenon DEF PxNames
<1>2. CASE own
  <2>1. PxNewID(own) = <<"own", Cardinality(DOMAIN pxOrders)>>
    BY <1>2, Zenon DEF PxNewID
  <2> QED BY <1>1, <2>1 DEF PxNames
<1>3. CASE ~own
  <2>1. PxNewID(own) = <<"paper", pxNext + 1>>
    BY <1>3, Zenon DEF PxNewID
  <2> QED BY <2>1 DEF PxNames
<1> QED BY <1>2, <1>3, Zenon

\* A new order keeps the names within the counters.
LEMMA PxNamesPut ==
  ASSUME PxNames, NEW id, DOMAIN pxOrders' = DOMAIN pxOrders \cup {id}, id \notin DOMAIN pxOrders,
         \/ id = <<"own", Cardinality(DOMAIN pxOrders)>> /\ pxNext' = pxNext
         \/ id = <<"paper", pxNext + 1>> /\ pxNext' = pxNext + 1
  PROVE  PxNames'
<1> DEFINE N == Cardinality(DOMAIN pxOrders)
<1>1. N \in Nat /\ IsFiniteSet(DOMAIN pxOrders)
  BY FS_CardinalityType, Zenon DEF PxNames
<1>2. IsFiniteSet(DOMAIN pxOrders') /\ Cardinality(DOMAIN pxOrders') = N + 1
  BY <1>1, FS_AddElement
<1>3. pxNext \in Nat /\ pxNext' \in Nat /\ pxNext <= pxNext'
  BY DEF PxNames
<1>4. ASSUME NEW d \in DOMAIN pxOrders
      PROVE  \/ \E n \in Nat : d = <<"own", n>> /\ n < N + 1
             \/ \E n \in Nat : d = <<"paper", n>> /\ n <= pxNext'
  <2>1. CASE \E n \in Nat : d = <<"own", n>> /\ n < N
    BY <2>1, <1>1
  <2>2. CASE \E n \in Nat : d = <<"paper", n>> /\ n <= pxNext
    BY <2>2, <1>3
  <2> QED BY <2>1, <2>2, Zenon DEF PxNames
<1>5. \/ \E n \in Nat : id = <<"own", n>> /\ n < N + 1
      \/ \E n \in Nat : id = <<"paper", n>> /\ n <= pxNext'
  BY <1>1, <1>3
<1> HIDE DEF N
<1> QED BY <1>2, <1>3, <1>4, <1>5 DEF PxNames

\* ApplyFill moves the position of the order, unless it refuses.
LEMMA PxApplyFillMeans ==
  ASSUME PxTypes, NEW i \in PxIntents, NEW p, p = PxApplyFill(pxPositions, i)
  PROVE  /\ p = [k \in DOMAIN p |-> p[k]] /\ \A k \in DOMAIN p : p[k] \in Nat
         /\ \A k : PxQuantity(p, k) = PxQuantity(pxPositions, k)
                     + (IF k = PxKey(i) /\ ~PxFlips(pxPositions, i) THEN PxSigned(i) ELSE 0)
<1> DEFINE kk == PxKey(i)
           q == PxQuantity(pxPositions, kk) + PxSigned(i)
<1>1. PxSigned(i) \in Int /\ \A k : PxQuantity(pxPositions, k) \in Nat
  BY PxSignedInt, PxQuantityNat, Zenon
<1>2. /\ pxPositions = [k \in DOMAIN pxPositions |-> pxPositions[k]]
      /\ \A k \in DOMAIN pxPositions : pxPositions[k] \in Nat
  BY Zenon DEF PxTypes
<1>3. CASE PxFlips(pxPositions, i)
  <2>1. p = PxWith(pxPositions, kk, PxQuantity(pxPositions, kk))
    BY <1>3, Zenon DEF PxApplyFill
  <2> HIDE DEF kk
  <2>2. DOMAIN p = DOMAIN pxPositions \cup {kk} /\ p = [k \in DOMAIN p |-> p[k]]
        /\ \A k \in DOMAIN p : p[k] = PxQuantity(pxPositions, k)
    BY <2>1, Zenon DEF PxWith, PxQuantity
  <2>3. \A k : PxQuantity(p, k) = PxQuantity(pxPositions, k)
    BY <2>2, Zenon DEF PxQuantity
  <2> QED BY <1>1, <1>3, <2>2, <2>3
<1>4. CASE ~PxFlips(pxPositions, i) /\ q = 0
  <2>1. p = PxWithout(pxPositions, kk)
    BY <1>4, Zenon DEF PxApplyFill
  <2>2. DOMAIN p = DOMAIN pxPositions \ {kk} /\ p = [k \in DOMAIN p |-> p[k]]
        /\ \A k \in DOMAIN p : p[k] = pxPositions[k]
    BY <2>1, Zenon DEF PxWithout
  <2>3. \A k : PxQuantity(p, k) = IF k = kk THEN 0 ELSE PxQuantity(pxPositions, k)
    <3> HIDE DEF kk
    <3> QED BY <2>2, Zenon DEF PxQuantity
  <2> QED BY <1>1, <1>2, <1>4, <2>2, <2>3
<1>5. CASE ~PxFlips(pxPositions, i) /\ q # 0
  <2>1. p = PxWith(pxPositions, kk, q)
    BY <1>5, Zenon DEF PxApplyFill
  <2>2. q \in Nat
    BY <1>1, <1>5 DEF PxFlips
  <2>3. DOMAIN p = DOMAIN pxPositions \cup {kk} /\ p = [k \in DOMAIN p |-> p[k]]
        /\ \A k \in DOMAIN p : p[k] = IF k = kk THEN q ELSE pxPositions[k]
    <3> HIDE DEF kk, q
    <3> QED BY <2>1, Zenon DEF PxWith
  <2>4. \A k : PxQuantity(p, k) = IF k = kk THEN q ELSE PxQuantity(pxPositions, k)
    <3> HIDE DEF kk, q
    <3> QED BY <2>3, Zenon DEF PxQuantity
  <2> QED BY <1>1, <1>2, <1>5, <2>2, <2>3, <2>4
<1> QED BY <1>3, <1>4, <1>5, Zenon

\* The orders applied under a key are finitely many, each by a whole amount.
LEMMA PxAppliedFinite ==
  ASSUME PxNames, PxTypes
  PROVE  \A k : IsFiniteSet(PxApplied(k)) /\ \A d \in PxApplied(k) : PxTerms[d] \in Int
<1>1. \A k : PxApplied(k) \subseteq DOMAIN pxOrders
  BY Zenon DEF PxApplied
<1>2. IsFiniteSet(DOMAIN pxOrders)
  BY Zenon DEF PxNames
<1>3. \A d \in DOMAIN pxOrders : PxTerms[d] \in Int
  BY PxSignedInt, Zenon DEF PxTerms, PxTypes
<1> QED BY <1>1, <1>2, <1>3, FS_Subset, Zenon

\* The positions stay the net of the fills where neither changes.
LEMMA PxNetSame ==
  ASSUME PxNames, PxTypes, PxNet,
         \A k : PxQuantity(pxPositions', k) = PxQuantity(pxPositions, k),
         \A k : PxApplied(k)' = PxApplied(k),
         \A d \in DOMAIN pxOrders : d \in DOMAIN pxOrders' /\ pxOrders'[d].intent = pxOrders[d].intent
  PROVE  PxNet'
<1> SUFFICES ASSUME NEW k
             PROVE  PxQuantity(pxPositions', k) = SumFunctionOnSet(PxTerms', PxApplied(k)')
  BY Zenon DEF PxNet
<1>1. IsFiniteSet(PxApplied(k))
  BY PxAppliedFinite, Zenon
<1>2. \A d \in PxApplied(k) : PxTerms[d] = PxTerms'[d]
  BY Zenon DEF PxApplied, PxTerms
<1>3. SumFunctionOnSet(PxTerms, PxApplied(k)) = SumFunctionOnSet(PxTerms', PxApplied(k))
  BY <1>1, <1>2, SumSame, Zenon
<1>4. PxQuantity(pxPositions', k) = SumFunctionOnSet(PxTerms, PxApplied(k))
  BY Zenon DEF PxNet
<1> QED BY <1>3, <1>4, Zenon

\* A fill moves the position and the net by the same amount.
LEMMA PxNetFill ==
  ASSUME PxNames, PxTypes, PxNet, NEW d \in DOMAIN pxOrders, pxFills[d] = 0,
         pxOrders' = pxOrders, pxFills' = [pxFills EXCEPT ![d] = @ + 1],
         pxPositions' = PxApplyFill(pxPositions, pxOrders[d].intent),
         ~PxFlips(pxPositions, pxOrders[d].intent)
  PROVE  PxNet'
<1> SUFFICES ASSUME NEW k
             PROVE  PxQuantity(pxPositions', k) = SumFunctionOnSet(PxTerms', PxApplied(k)')
  BY Zenon DEF PxNet
<1> DEFINE i == pxOrders[d].intent
<1>1. i \in PxIntents /\ PxSigned(i) \in Int
  BY PxSignedInt, Zenon DEF PxTypes
<1>2. PxQuantity(pxPositions', k) = PxQuantity(pxPositions, k)
        + (IF k = PxKey(i) THEN PxSigned(i) ELSE 0)
  BY <1>1, PxApplyFillMeans, Zenon
<1>3. PxTerms' = PxTerms /\ PxTerms[d] = PxSigned(i)
  BY Zenon DEF PxTerms
<1>4. IsFiniteSet(PxApplied(k)) /\ \A e \in PxApplied(k) : PxTerms[e] \in Int
  BY PxAppliedFinite, Zenon
<1>5. PxQuantity(pxPositions, k) = SumFunctionOnSet(PxTerms, PxApplied(k))
      /\ PxQuantity(pxPositions, k) \in Int
  BY PxQuantityNat DEF PxNet
<1>6. pxFills'[d] = 1 /\ (\A e \in DOMAIN pxOrders : e # d => pxFills'[e] = pxFills[e])
  BY DEF PxTypes
<1>7. CASE k = PxKey(i)
  <2>1. PxApplied(k)' = PxApplied(k) \cup {d} /\ d \notin PxApplied(k)
    BY <1>6, <1>7 DEF PxApplied
  <2>2. SumFunctionOnSet(PxTerms, PxApplied(k) \cup {d}) = PxTerms[d] + SumFunctionOnSet(PxTerms, PxApplied(k))
    BY <1>1, <1>3, <1>4, <2>1, SumAdd, Zenon
  <2> QED BY <1>1, <1>2, <1>3, <1>5, <1>7, <2>1, <2>2
<1>8. CASE k # PxKey(i)
  <2>1. PxApplied(k)' = PxApplied(k)
    BY <1>6, <1>8, Zenon DEF PxApplied
  <2> QED BY <1>2, <1>3, <1>5, <1>8, <2>1
<1> QED BY <1>7, <1>8, Zenon

\* Every step that neither creates an order nor fills one keeps the names and
\* the net of the fills.
LEMMA PxQuiet ==
  ASSUME PxNames, PxTypes, PxNet, UNCHANGED <<pxPositions, pxNext, pxFills>>,
         DOMAIN pxOrders' = DOMAIN pxOrders,
         \A d \in DOMAIN pxOrders : pxOrders'[d].intent = pxOrders[d].intent
  PROVE  PxNames' /\ PxNet'
<1>1. PxNames'
  BY Zenon DEF PxNames
<1>2. \A k : PxApplied(k)' = PxApplied(k)
  BY Zenon DEF PxApplied
<1> QED BY <1>1, <1>2, PxNetSame, Zenon

\* A new order in status st, in the hands of c, which goes on at pc.
PxAdds(c, id, i, st, pc) ==
  /\ pxOrders' = PxWith(pxOrders, id, [intent |-> i, status |-> st])
  /\ pxFills' = PxWith(pxFills, id, 0)
  /\ DOMAIN pxCalls' = PxCallers
  /\ \E mark, todo : pxCalls'[c] = [pc |-> pc, id |-> id, mark |-> mark, todo |-> todo]
  /\ \A o \in PxCallers : o # c => pxCalls'[o] = pxCalls[o]
  /\ \A k : PxQuantity(pxPositions', k) = PxQuantity(pxPositions, k)
  /\ pxPositions' = [k \in DOMAIN pxPositions' |-> pxPositions'[k]]
  /\ \A k \in DOMAIN pxPositions' : pxPositions'[k] \in Nat
  /\ \/ st = "rejected" /\ pc = "rejecting"
     \/ st = "accepted" /\ pc \in {"filling", "opening"}

\* An order that enters the book keeps the invariant.
LEMMA PxAddsStep ==
  ASSUME PxInv, NEW c \in PxCallers, NEW id, NEW i \in PxIntents, NEW st, NEW pc,
         \A o \in PxCallers : o # c => pxCalls[o].pc = "idle",
         pxCalls[c].pc \in {"idle", "filling"},
         PxAdds(c, id, i, st, pc), id \notin DOMAIN pxOrders, PxNames'
  PROVE  PxInv'
<1>0. PxNames /\ PxTypes /\ PxAlone /\ PxProgress /\ PxMarked /\ PxNet
  BY Zenon DEF PxInv
<1>1. /\ DOMAIN pxOrders' = DOMAIN pxOrders \cup {id} /\ DOMAIN pxFills' = DOMAIN pxOrders'
      /\ pxOrders' = [d \in DOMAIN pxOrders' |-> pxOrders'[d]]
      /\ pxOrders'[id] = [intent |-> i, status |-> st] /\ pxFills'[id] = 0
      /\ \A d \in DOMAIN pxOrders : /\ pxOrders'[d] = pxOrders[d] /\ pxFills'[d] = pxFills[d]
                                    /\ pxFills[d] \in {0, 1} /\ d # id
  BY <1>0, Zenon DEF PxAdds, PxWith, PxTypes
<1>2. /\ DOMAIN pxCalls' = PxCallers
      /\ pxCalls'[c] = [pc |-> pc, id |-> id, mark |-> pxCalls'[c].mark, todo |-> pxCalls'[c].todo]
      /\ \A o \in PxCallers : o # c => pxCalls'[o] = pxCalls[o]
  BY <1>0 DEF PxAdds, PxTypes
<1>3. st \in {"accepted", "rejected"} /\ pc \in {"rejecting", "filling", "opening"}
  BY Zenon DEF PxAdds
<1>4. PxTypes'
  <2>1. \A d \in DOMAIN pxOrders' :
           pxOrders'[d] \in [intent : PxIntents, status : PxResting \cup PxFinal]
    BY <1>0, <1>1, <1>3 DEF PxTypes, PxResting, PxFinal
  <2>2. pxFills' \in [DOMAIN pxOrders' -> {0, 1}]
    BY <1>0, <1>1, Zenon DEF PxTypes, PxAdds, PxWith
  <2>3. \A o \in PxCallers :
          /\ pxCalls'[o] = [pc |-> pxCalls'[o].pc, id |-> pxCalls'[o].id, mark |-> pxCalls'[o].mark,
                            todo |-> pxCalls'[o].todo]
          /\ pxCalls'[o].pc \in PxRunning \cup {"idle"}
    BY <1>0, <1>2, <1>3 DEF PxTypes, PxRunning
  <2> QED BY <1>1, <1>2, <2>1, <2>2, <2>3, Zenon DEF PxTypes, PxAdds
<1>5. PxAlone'
  BY <1>2, Zenon DEF PxAlone
<1>6. PxProgress'
  <2> SUFFICES ASSUME NEW o \in PxCallers PROVE PxProgress!(o)'
    BY Zenon DEF PxProgress
  <2>1. CASE o = c
    BY <1>1, <1>2, <1>3, <2>1 DEF PxAdds
  <2>2. CASE o # c
    BY <1>2, <2>2, Zenon DEF PxRunning
  <2> QED BY <2>1, <2>2, Zenon
<1>7. PxMarked'
  <2>1. \A o \in PxCallers : pxCalls[o].pc \notin {"filled", "marking"} /\ pxCalls'[o].pc \notin {"filled", "marking"}
    BY <1>2, <1>3
  <2>2. \A d \in DOMAIN pxOrders : pxFills[d] = 1 <=> pxOrders[d].status = "filled"
    BY <1>0, <2>1, Zenon DEF PxMarked
  <2>3. \A d \in DOMAIN pxOrders' : pxFills'[d] = 1 <=> pxOrders'[d].status = "filled"
    BY <1>1, <1>3, <2>2
  <2> QED BY <2>1, <2>3, Zenon DEF PxMarked
<1>8. PxNet'
  <2>1. \A k : PxApplied(k)' = PxApplied(k)
    BY <1>1 DEF PxApplied
  <2>2. \A d \in DOMAIN pxOrders : d \in DOMAIN pxOrders' /\ pxOrders'[d].intent = pxOrders[d].intent
    BY <1>1, Zenon
  <2> QED BY <1>0, <2>1, <2>2, PxNetSame, Zenon DEF PxAdds
<1> QED BY <1>4, <1>5, <1>6, <1>7, <1>8, Zenon DEF PxInv

\* Execute keeps the invariant.
LEMMA PxExecuteStep ==
  ASSUME PxInv, ~PxOverlap, NEW c \in PxCallers, PxExecute(c)
  PROVE  PxInv'
<1>0. PxNames /\ PxTypes
  BY Zenon DEF PxInv
<1>1. PICK i \in PxIntents : \E provided \in PxMarks \cup {PxNoPrice}, own \in BOOLEAN :
         LET r == PxResolve(i, provided)
             id == PxNewID(own)
             refused == \/ ~PxValid(i) \/ ~r.ok
                        \/ i.type = "market" /\ r.price = PxNoPrice
             next == IF refused THEN "rejecting"
                     ELSE IF PxShouldFill(i, r.price) THEN "filling" ELSE "opening"
         IN  /\ PxPut(id, i, IF refused THEN "rejected" ELSE "accepted")
             /\ PxCount(own)
             /\ pxFills' = PxWith(pxFills, id, 0)
             /\ pxCalls' = [pxCalls EXCEPT ![c] = [pc |-> next, id |-> id,
                                mark |-> r.price, todo |-> {}]]
  BY Zenon DEF PxExecute
<1>a. PICK provided \in PxMarks \cup {PxNoPrice}, own \in BOOLEAN :
         LET r == PxResolve(i, provided)
             id == PxNewID(own)
             refused == \/ ~PxValid(i) \/ ~r.ok
                        \/ i.type = "market" /\ r.price = PxNoPrice
             next == IF refused THEN "rejecting"
                     ELSE IF PxShouldFill(i, r.price) THEN "filling" ELSE "opening"
         IN  /\ PxPut(id, i, IF refused THEN "rejected" ELSE "accepted")
             /\ PxCount(own)
             /\ pxFills' = PxWith(pxFills, id, 0)
             /\ pxCalls' = [pxCalls EXCEPT ![c] = [pc |-> next, id |-> id,
                                mark |-> r.price, todo |-> {}]]
  BY <1>1, Zenon
<1> DEFINE r == PxResolve(i, provided)
           refused == \/ ~PxValid(i) \/ ~r.ok
                      \/ i.type = "market" /\ r.price = PxNoPrice
           mark == r.price
           st == IF refused THEN "rejected" ELSE "accepted"
           pc == IF refused THEN "rejecting"
                 ELSE IF PxShouldFill(i, r.price) THEN "filling" ELSE "opening"
<1>2. /\ pxOrders' = PxWith(pxOrders, PxNewID(own), [intent |-> i, status |-> st])
      /\ \/ st = "rejected" /\ pc = "rejecting"
         \/ st = "accepted" /\ pc \in {"filling", "opening"}
      /\ PxCount(own)
      /\ pxFills' = PxWith(pxFills, PxNewID(own), 0)
      /\ pxCalls' = [pxCalls EXCEPT ![c] = [pc |-> pc, id |-> PxNewID(own), mark |-> mark, todo |-> {}]]
  BY <1>a, Zenon DEF PxPut
<1> HIDE DEF r, refused, mark, st, pc
<1> DEFINE id == PxNewID(own)
<1>3. id \notin DOMAIN pxOrders
  BY <1>0, PxFreshID, Zenon
<1>4. PxNames'
  <2>1. DOMAIN pxOrders' = DOMAIN pxOrders \cup {id}
    BY <1>2, Zenon DEF PxWith
  <2>2. \/ id = <<"own", Cardinality(DOMAIN pxOrders)>> /\ pxNext' = pxNext
        \/ id = <<"paper", pxNext + 1>> /\ pxNext' = pxNext + 1
    BY <1>2, Zenon DEF PxNewID, PxCount
  <2> HIDE DEF id
  <2> QED BY <1>0, <1>3, <2>1, <2>2, PxNamesPut, Zenon
<1>5. pxPositions' = pxPositions /\ \A o \in PxCallers : pxCalls[o].pc = "idle"
  BY Zenon DEF PxExecute, PxMayStart
<1>6. PxAdds(c, id, i, st, pc)
  <2>1. /\ DOMAIN pxCalls' = PxCallers
        /\ pxCalls'[c] = [pc |-> pc, id |-> id, mark |-> mark, todo |-> {}]
        /\ \A o \in PxCallers : o # c => pxCalls'[o] = pxCalls[o]
    BY <1>0, <1>2, Zenon DEF PxTypes
  <2>2. /\ pxPositions' = [k \in DOMAIN pxPositions' |-> pxPositions'[k]]
        /\ \A k \in DOMAIN pxPositions' : pxPositions'[k] \in Nat
    BY <1>0, <1>5, Zenon DEF PxTypes
  <2> QED BY <1>2, <1>5, <2>1, <2>2, Zenon DEF PxAdds
<1> HIDE DEF id
<1> QED BY <1>3, <1>4, <1>5, <1>6, PxAddsStep, Zenon

\* A call that goes on at pc with another order.
LEMMA PxRenamed ==
  ASSUME PxTypes, NEW c \in PxCallers, NEW pc, NEW id,
         pxCalls' = [pxCalls EXCEPT ![c].pc = pc, ![c].id = id]
  PROVE  /\ DOMAIN pxCalls' = PxCallers
         /\ pxCalls'[c] = [pc |-> pc, id |-> id, mark |-> pxCalls[c].mark, todo |-> pxCalls[c].todo]
         /\ \A o \in PxCallers : o # c => pxCalls'[o] = pxCalls[o]
<1> DEFINE call == pxCalls[c]
<1>1. /\ call = [pc |-> call.pc, id |-> call.id, mark |-> call.mark, todo |-> call.todo]
      /\ DOMAIN pxCalls = PxCallers
  BY Zenon DEF PxTypes
<1>2. pxCalls'[c] = [[call EXCEPT !.pc = pc] EXCEPT !.id = id]
  BY <1>1, Zenon
<1>3. [[call EXCEPT !.pc = pc] EXCEPT !.id = id]
        = [pc |-> pc, id |-> id, mark |-> call.mark, todo |-> call.todo]
  <2> DEFINE mid == [call EXCEPT !.pc = pc]
  <2>1. mid = [pc |-> pc, id |-> call.id, mark |-> call.mark, todo |-> call.todo]
    BY <1>1
  <2> HIDE DEF mid
  <2>2. [mid EXCEPT !.id = id] = [pc |-> pc, id |-> id, mark |-> call.mark, todo |-> call.todo]
    BY <2>1
  <2> QED BY <2>2, Zenon DEF mid
<1>4. /\ DOMAIN pxCalls' = PxCallers /\ \A o \in PxCallers : o # c => pxCalls'[o] = pxCalls[o]
  BY <1>1, Zenon
<1> QED BY <1>2, <1>3, <1>4, Zenon

\* The fill of Execute keeps the invariant.
LEMMA PxExecFillStep ==
  ASSUME PxInv, NEW c \in PxCallers, PxExecFill(c)
  PROVE  PxInv'
<1>0. PxNames /\ PxTypes /\ PxAlone /\ PxProgress /\ PxMarked /\ PxNet
  BY Zenon DEF PxInv
<1> DEFINE id == pxCalls[c].id
           i == pxOrders[id].intent
           again == IF id[1] = "own" THEN id ELSE <<"paper", pxNext + 1>>
<1>1. /\ pxCalls[c].pc = "filling" /\ \A o \in PxCallers : o # c => pxCalls[o].pc = "idle"
      /\ id \in DOMAIN pxOrders /\ pxOrders[id].status = "accepted" /\ pxFills[id] = 0
      /\ i \in PxIntents
  BY <1>0, Zenon DEF PxExecFill, PxAlone, PxProgress, PxTypes, PxRunning
<1>2. pxPositions' = PxApplyFill(pxPositions, i)
  BY Zenon DEF PxExecFill
<1>3. /\ pxPositions' = [k \in DOMAIN pxPositions' |-> pxPositions'[k]]
      /\ \A k \in DOMAIN pxPositions' : pxPositions'[k] \in Nat
      /\ PxFlips(pxPositions, i) =>
            \A k : PxQuantity(pxPositions', k) = PxQuantity(pxPositions, k)
  BY <1>0, <1>1, <1>2, PxApplyFillMeans, PxQuantityNat
<1>4. CASE PxFlips(pxPositions, i) /\ id[1] = "own"
  <2>1. /\ pxOrders' = PxWith(pxOrders, id, [intent |-> i, status |-> "rejected"])
        /\ pxNext' = pxNext /\ pxFills' = PxWith(pxFills, id, 0)
        /\ pxCalls' = [pxCalls EXCEPT ![c].pc = "rejecting", ![c].id = id]
    BY <1>4, Zenon DEF PxExecFill, PxPut
  <2> HIDE DEF i
  <2>2. /\ DOMAIN pxOrders' = DOMAIN pxOrders /\ pxOrders' = [d \in DOMAIN pxOrders' |-> pxOrders'[d]]
        /\ pxOrders'[id] = [intent |-> i, status |-> "rejected"]
        /\ \A d \in DOMAIN pxOrders : d # id => pxOrders'[d] = pxOrders[d]
    <3> HIDE DEF id
    <3> QED BY <1>1, <2>1, Zenon DEF PxWith
  <2>3. pxFills' = pxFills
    <3> HIDE DEF id
    <3> QED BY <1>0, <1>1, <2>1 DEF PxWith, PxTypes
  <2>4. /\ DOMAIN pxCalls' = PxCallers
        /\ pxCalls'[c] = [pc |-> "rejecting", id |-> id, mark |-> pxCalls[c].mark, todo |-> pxCalls[c].todo]
        /\ \A o \in PxCallers : o # c => pxCalls'[o] = pxCalls[o]
    BY <2>1, PxRenamed, <1>0, Zenon
  <2> HIDE DEF id
  <2>5. \A d \in DOMAIN pxOrders : pxOrders'[d].intent = pxOrders[d].intent
    BY <1>1, <2>2 DEF i
  <2>6. PxNames'
    BY <1>0, <2>1, <2>2, Zenon DEF PxNames
  <2>7. PxNet'
    <3>1. \A k : PxApplied(k)' = PxApplied(k)
      BY <2>2, <2>3, <2>5, Zenon DEF PxApplied
    <3> QED BY <1>0, <1>3, <1>4, <2>2, <2>5, <3>1, PxNetSame, Zenon
  <2>8. PxTypes'
    <3>1. \A d \in DOMAIN pxOrders' :
           pxOrders'[d] \in [intent : PxIntents, status : PxResting \cup PxFinal]
      BY <1>0, <1>1, <2>2 DEF PxTypes, PxFinal
    <3> QED BY <1>0, <1>3, <2>2, <2>3, <2>4, <3>1 DEF PxTypes, PxRunning
  <2>9. PxAlone'
    BY <1>1, <2>4, Zenon DEF PxAlone
  <2>10. PxProgress'
    BY <1>1, <2>2, <2>4 DEF PxProgress, PxRunning
  <2>11. PxMarked'
    BY <1>0, <1>1, <2>2, <2>3, <2>4 DEF PxMarked
  <2> QED BY <2>6, <2>7, <2>8, <2>9, <2>10, <2>11, Zenon DEF PxInv
<1>5. CASE PxFlips(pxPositions, i) /\ id[1] # "own"
  <2> DEFINE new == <<"paper", pxNext + 1>>
  <2>1. /\ pxOrders' = PxWith(pxOrders, new, [intent |-> i, status |-> "rejected"])
        /\ pxNext' = pxNext + 1 /\ pxFills' = PxWith(pxFills, new, 0)
        /\ pxCalls' = [pxCalls EXCEPT ![c].pc = "rejecting", ![c].id = new]
    BY <1>5, Zenon DEF PxExecFill, PxPut
  <2>2. new \notin DOMAIN pxOrders
    BY <1>0 DEF PxNames
  <2>3. new = <<"paper", pxNext + 1>>
    BY Zenon
  <2> HIDE DEF id, new
  <2>4. PxNames'
    <3>1. DOMAIN pxOrders' = DOMAIN pxOrders \cup {new}
      BY <2>1, Zenon DEF PxWith
    <3> QED BY <1>0, <2>1, <2>2, <2>3, <3>1, PxNamesPut, Zenon
  <2>5. /\ DOMAIN pxCalls' = PxCallers
        /\ pxCalls'[c] = [pc |-> "rejecting", id |-> new, mark |-> pxCalls[c].mark, todo |-> pxCalls[c].todo]
        /\ \A o \in PxCallers : o # c => pxCalls'[o] = pxCalls[o]
    BY <1>0, <2>1, PxRenamed, Zenon
  <2>6. PxAdds(c, new, i, "rejected", "rejecting")
    BY <1>3, <1>5, <2>1, <2>5, Zenon DEF PxAdds
  <2> QED BY <1>1, <2>2, <2>4, <2>6, PxAddsStep, Zenon
<1>6. CASE ~PxFlips(pxPositions, i)
  <2>1. /\ pxFills' = [pxFills EXCEPT ![id] = @ + 1] /\ pxCalls' = [pxCalls EXCEPT ![c].pc = "filled"]
        /\ UNCHANGED <<pxOrders, pxNext>>
    BY <1>6, Zenon DEF PxExecFill, PxGoto
  <2>2. /\ DOMAIN pxCalls' = PxCallers
        /\ pxCalls'[c] = [pc |-> "filled", id |-> id, mark |-> pxCalls[c].mark, todo |-> pxCalls[c].todo]
        /\ \A o \in PxCallers : o # c => pxCalls'[o] = pxCalls[o]
    BY <1>0, <2>1 DEF PxTypes
  <2>3. PxNet'
    BY <1>0, <1>1, <1>2, <1>6, <2>1, PxNetFill, Zenon
  <2>4. /\ pxFills' \in [DOMAIN pxOrders -> {0, 1}] /\ pxFills'[id] = 1
        /\ \A d \in DOMAIN pxOrders : d # id => pxFills'[d] = pxFills[d]
    BY <1>0, <1>1, <2>1 DEF PxTypes
  <2> HIDE DEF id
  <2>5. PxNames'
    BY <1>0, <2>1, Zenon DEF PxNames
  <2>6. PxTypes'
    BY <1>0, <1>3, <2>1, <2>2, <2>4 DEF PxTypes, PxRunning
  <2>7. PxAlone'
    BY <1>1, <2>2, Zenon DEF PxAlone
  <2>8. PxProgress'
    BY <1>1, <2>1, <2>2, <2>4 DEF PxProgress, PxRunning, PxResting
  <2>9. PxMarked'
    <3>1. \A d \in DOMAIN pxOrders : pxFills[d] = 1 <=> pxOrders[d].status = "filled"
      BY <1>0, <1>1, Zenon DEF PxMarked
    <3>2. \A d : (\E o \in PxCallers : pxCalls'[o].pc \in {"filled", "marking"} /\ pxCalls'[o].id = d) <=> d = id
      BY <1>1, <2>2
    <3>3. \A d \in DOMAIN pxOrders : pxFills'[d] = 1 <=> pxOrders[d].status = "filled" \/ d = id
      BY <1>1, <2>4, <3>1, Zenon
    <3> QED BY <2>1, <3>2, <3>3, Zenon DEF PxMarked
  <2> QED BY <2>3, <2>5, <2>6, <2>7, <2>8, <2>9, Zenon DEF PxInv
<1> QED BY <1>4, <1>5, <1>6, Zenon

\* The status of one order.
LEMMA PxStatusSet ==
  ASSUME PxTypes, NEW id \in DOMAIN pxOrders, NEW st \in PxResting \cup PxFinal, PxSetStatus(id, st)
  PROVE  /\ DOMAIN pxOrders' = DOMAIN pxOrders /\ pxOrders' = [d \in DOMAIN pxOrders' |-> pxOrders'[d]]
         /\ pxOrders'[id].status = st
         /\ \A d \in DOMAIN pxOrders : /\ pxOrders'[d].intent = pxOrders[d].intent
                                       /\ d # id => pxOrders'[d] = pxOrders[d]
         /\ \A d \in DOMAIN pxOrders' :
              pxOrders'[d] \in [intent : PxIntents, status : PxResting \cup PxFinal]
BY Zenon DEF PxTypes, PxSetStatus

\* The update that ends Execute keeps the invariant.
LEMMA PxExecUpdateStep ==
  ASSUME PxInv, NEW c \in PxCallers, PxExecUpdate(c)
  PROVE  PxInv'
<1>0. PxNames /\ PxTypes /\ PxAlone /\ PxProgress /\ PxMarked /\ PxNet
  BY Zenon DEF PxInv
<1> DEFINE id == pxCalls[c].id
           at == pxCalls[c].pc
<1>1. PICK st \in {"filled", "open", "rejected"} :
         /\ PxSetStatus(id, st) /\ at \in {"filled", "opening", "rejecting"}
         /\ st = "filled" <=> at = "filled"
  BY Zenon DEF PxExecUpdate
<1>2. /\ \A o \in PxCallers : o # c => pxCalls[o].pc = "idle"
      /\ id \in DOMAIN pxOrders /\ (pxFills[id] = 1 <=> at = "filled")
      /\ pxOrders[id].status # "filled"
  BY <1>0, <1>1 DEF PxAlone, PxProgress, PxRunning, PxMarked, PxResting
<1>3. /\ DOMAIN pxCalls' = PxCallers /\ pxCalls'[c] = PxIdle
      /\ \A o \in PxCallers : o # c => pxCalls'[o] = pxCalls[o]
      /\ UNCHANGED <<pxPositions, pxNext, pxFills>>
  BY <1>0, Zenon DEF PxExecUpdate, PxReturn, PxTypes
<1>4. \A o \in PxCallers : pxCalls'[o].pc = "idle"
  BY <1>2, <1>3 DEF PxIdle
<1>5. st \in PxResting \cup PxFinal
  BY Zenon DEF PxResting, PxFinal
<1> HIDE DEF id
<1>6. /\ DOMAIN pxOrders' = DOMAIN pxOrders /\ pxOrders' = [d \in DOMAIN pxOrders' |-> pxOrders'[d]]
      /\ pxOrders'[id].status = st
      /\ \A d \in DOMAIN pxOrders : /\ pxOrders'[d].intent = pxOrders[d].intent
                                    /\ d # id => pxOrders'[d] = pxOrders[d]
      /\ \A d \in DOMAIN pxOrders' :
           pxOrders'[d] \in [intent : PxIntents, status : PxResting \cup PxFinal]
  BY <1>0, <1>1, <1>2, <1>5, PxStatusSet, Zenon
<1>7. PxNames' /\ PxNet'
  BY <1>0, <1>3, <1>6, PxQuiet, Zenon
<1>8. PxTypes'
  <2>1. \A o \in PxCallers :
          /\ pxCalls'[o] = [pc |-> pxCalls'[o].pc, id |-> pxCalls'[o].id, mark |-> pxCalls'[o].mark,
                            todo |-> pxCalls'[o].todo]
          /\ pxCalls'[o].pc \in PxRunning \cup {"idle"}
    BY <1>0, <1>3, <1>4, Zenon DEF PxTypes, PxIdle
  <2> QED BY <1>0, <1>3, <1>6, <2>1, Zenon DEF PxTypes
<1>9. PxAlone' /\ PxProgress'
  BY <1>4, Zenon DEF PxAlone, PxProgress, PxRunning
<1>10. PxMarked'
  <2>1. \A d \in DOMAIN pxOrders : d # id => (pxFills[d] = 1 <=> pxOrders[d].status = "filled")
    BY <1>0, <1>2, Zenon DEF PxMarked, id
  <2>2. \A d \in DOMAIN pxOrders : pxFills[d] = 1 <=> pxOrders'[d].status = "filled"
    BY <1>1, <1>2, <1>6, <2>1, Zenon
  <2> QED BY <1>3, <1>4, <1>6, <2>2, Zenon DEF PxMarked
<1> QED BY <1>7, <1>8, <1>9, <1>10, Zenon DEF PxInv

\* A tick that starts keeps the invariant: no order it lists was applied.
LEMMA PxTickStep ==
  ASSUME PxInv, ~PxOverlap, NEW c \in PxCallers, PxTick(c)
  PROVE  PxInv'
<1>0. PxNames /\ PxTypes /\ PxAlone /\ PxProgress /\ PxMarked /\ PxNet
  BY Zenon DEF PxInv
<1>1. \A o \in PxCallers : pxCalls[o].pc = "idle"
  BY Zenon DEF PxTick, PxMayStart
<1>2. PICK mark, s : pxCalls' = [pxCalls EXCEPT ![c] = [pc |-> "ticking", id |-> PxNoOrder, mark |-> mark,
             todo |-> {d \in PxListOpen(pxOrders, s) : PxShouldFill(pxOrders[d].intent, mark)}]]
  BY Zenon DEF PxTick
<1> DEFINE todo == {d \in PxListOpen(pxOrders, s) : PxShouldFill(pxOrders[d].intent, mark)}
<1>3. UNCHANGED <<pxOrders, pxPositions, pxNext, pxFills>>
  BY Zenon DEF PxTick
<1>4. /\ DOMAIN pxCalls' = PxCallers
      /\ pxCalls'[c] = [pc |-> "ticking", id |-> PxNoOrder, mark |-> mark, todo |-> todo]
      /\ \A o \in PxCallers : o # c => pxCalls'[o] = pxCalls[o]
  BY <1>0, <1>2, Zenon DEF PxTypes
<1>5. \A d \in todo : d \in DOMAIN pxOrders /\ pxOrders[d].status \in PxResting
  BY Zenon DEF PxListOpen
<1> HIDE DEF todo
<1>6. \A d \in DOMAIN pxOrders : pxFills[d] = 1 <=> pxOrders[d].status = "filled"
  BY <1>0, <1>1, Zenon DEF PxMarked
<1>7. \A d \in todo : pxFills[d] = 0
  BY <1>0, <1>5, <1>6 DEF PxTypes, PxResting
<1>8. PxNames' /\ PxNet'
  BY <1>0, <1>3, PxQuiet, Zenon
<1>9. PxTypes'
  BY <1>0, <1>3, <1>4 DEF PxTypes, PxRunning
<1>10. PxAlone'
  BY <1>1, <1>4, Zenon DEF PxAlone
<1>11. PxProgress'
  BY <1>1, <1>3, <1>4, <1>5, <1>7 DEF PxProgress, PxRunning
<1>12. PxMarked'
  BY <1>1, <1>3, <1>4, <1>6 DEF PxMarked
<1> QED BY <1>8, <1>9, <1>10, <1>11, <1>12, Zenon DEF PxInv

\* A fill of a tick keeps the invariant.
LEMMA PxTickFillStep ==
  ASSUME PxInv, NEW c \in PxCallers, PxTickFill(c)
  PROVE  PxInv'
<1>0. PxNames /\ PxTypes /\ PxAlone /\ PxProgress /\ PxMarked /\ PxNet
  BY Zenon DEF PxInv
<1> DEFINE call == pxCalls[c]
<1>1. PICK d \in call.todo :
         LET i == pxOrders[d].intent
             flips == PxFlips(pxPositions, i)
         IN  /\ pxPositions' = PxApplyFill(pxPositions, i)
             /\ pxFills' = IF flips THEN pxFills ELSE [pxFills EXCEPT ![d] = @ + 1]
             /\ pxCalls' = [pxCalls EXCEPT ![c].todo = @ \ {d}, ![c].id = d,
                                           ![c].pc = IF flips THEN "ticking" ELSE "marking"]
  BY Zenon DEF PxTickFill
<1> DEFINE i == pxOrders[d].intent
           flips == PxFlips(pxPositions, i)
           at == IF flips THEN "ticking" ELSE "marking"
<1>2. /\ pxPositions' = PxApplyFill(pxPositions, i)
      /\ pxFills' = IF flips THEN pxFills ELSE [pxFills EXCEPT ![d] = @ + 1]
      /\ pxCalls' = [pxCalls EXCEPT ![c].todo = @ \ {d}, ![c].id = d, ![c].pc = at]
      /\ call.pc = "ticking" /\ UNCHANGED <<pxOrders, pxNext>>
  BY <1>1, Zenon DEF PxTickFill
<1>3. /\ \A o \in PxCallers : o # c => pxCalls[o].pc = "idle"
      /\ \A e \in call.todo : e \in DOMAIN pxOrders /\ pxOrders[e].status \in PxResting /\ pxFills[e] = 0
      /\ d \in DOMAIN pxOrders /\ i \in PxIntents
  BY <1>0, <1>2, Zenon DEF PxAlone, PxProgress, PxTypes
<1>4. /\ pxPositions' = [k \in DOMAIN pxPositions' |-> pxPositions'[k]]
      /\ \A k \in DOMAIN pxPositions' : pxPositions'[k] \in Nat
      /\ flips => \A k : PxQuantity(pxPositions', k) = PxQuantity(pxPositions, k)
  BY <1>0, <1>2, <1>3, PxApplyFillMeans, PxQuantityNat
<1> HIDE DEF at
<1>5. /\ DOMAIN pxCalls' = PxCallers
      /\ pxCalls'[c] = [pc |-> at, id |-> d, mark |-> call.mark, todo |-> call.todo \ {d}]
      /\ \A o \in PxCallers : o # c => pxCalls'[o] = pxCalls[o]
  <2>1. /\ call = [pc |-> call.pc, id |-> call.id, mark |-> call.mark, todo |-> call.todo]
        /\ DOMAIN pxCalls = PxCallers
    BY <1>0, Zenon DEF PxTypes
  <2> DEFINE one == [call EXCEPT !.todo = @ \ {d}]
             two == [one EXCEPT !.id = d]
  <2>2. pxCalls'[c] = [two EXCEPT !.pc = at]
    BY <1>2, <2>1, Zenon
  <2>3. one = [pc |-> call.pc, id |-> call.id, mark |-> call.mark, todo |-> call.todo \ {d}]
    BY <2>1
  <2> HIDE DEF one
  <2>4. two = [pc |-> call.pc, id |-> d, mark |-> call.mark, todo |-> call.todo \ {d}]
    BY <2>3
  <2> HIDE DEF two
  <2>5. [two EXCEPT !.pc = at] = [pc |-> at, id |-> d, mark |-> call.mark, todo |-> call.todo \ {d}]
    BY <2>4
  <2>6. DOMAIN pxCalls' = PxCallers /\ \A o \in PxCallers : o # c => pxCalls'[o] = pxCalls[o]
    BY <1>2, <2>1, Zenon
  <2> QED BY <2>2, <2>5, <2>6, Zenon
<1>6. /\ at = IF flips THEN "ticking" ELSE "marking"
      /\ pxFills' \in [DOMAIN pxOrders -> {0, 1}] /\ pxFills'[d] = (IF flips THEN 0 ELSE 1)
      /\ \A e \in DOMAIN pxOrders : e # d => pxFills'[e] = pxFills[e]
  <2> HIDE DEF flips
  <2> QED BY <1>0, <1>2, <1>3 DEF PxTypes, at
<1>7. PxNames'
  BY <1>0, <1>2, Zenon DEF PxNames
<1>8. PxNet'
  <2>1. CASE ~flips
    BY <1>0, <1>2, <1>3, <2>1, PxNetFill, Zenon
  <2>2. CASE flips
    <3>1. pxFills' = pxFills /\ \A k : PxApplied(k)' = PxApplied(k)
      BY <1>2, <2>2, Zenon DEF PxApplied
    <3> QED BY <1>0, <1>2, <1>4, <2>2, <3>1, PxNetSame, Zenon
  <2> QED BY <2>1, <2>2, Zenon
<1> HIDE DEF call, flips, i
<1>9. PxTypes'
  <2>1. \A o \in PxCallers :
          /\ pxCalls'[o] = [pc |-> pxCalls'[o].pc, id |-> pxCalls'[o].id, mark |-> pxCalls'[o].mark,
                            todo |-> pxCalls'[o].todo]
          /\ pxCalls'[o].pc \in PxRunning \cup {"idle"}
    BY <1>0, <1>5, <1>6 DEF PxTypes, PxRunning
  <2> QED BY <1>0, <1>2, <1>4, <1>5, <1>6, <2>1 DEF PxTypes
<1>10. PxAlone'
  BY <1>3, <1>5, Zenon DEF PxAlone
<1>11. PxProgress'
  <2> SUFFICES ASSUME NEW o \in PxCallers PROVE PxProgress!(o)'
    BY Zenon DEF PxProgress
  <2>1. CASE o = c
    <3>1. pxCalls'[o].id \in DOMAIN pxOrders' /\ pxCalls'[o].pc \in {"ticking", "marking"}
      BY <1>2, <1>3, <1>5, <1>6, <2>1
    <3>2. pxCalls'[o].pc = "marking" => pxOrders'[d].status \in PxResting /\ pxFills'[d] = 1
      BY <1>2, <1>3, <1>5, <1>6, <2>1
    <3>3. \A e \in pxCalls'[o].todo : /\ e \in DOMAIN pxOrders'
                                      /\ pxOrders'[e].status \in PxResting /\ pxFills'[e] = 0
      <4>1. \A e \in call.todo \ {d} : /\ e \in DOMAIN pxOrders /\ e # d
                                       /\ pxOrders[e].status \in PxResting /\ pxFills[e] = 0
        BY <1>3, Zenon
      <4>2. \A e \in call.todo \ {d} : /\ e \in DOMAIN pxOrders'
                                       /\ pxOrders'[e].status \in PxResting /\ pxFills'[e] = 0
        BY <1>2, <1>6, <4>1, Zenon
      <4> QED BY <1>5, <2>1, <4>2
    <3> QED BY <1>5, <2>1, <3>1, <3>2, <3>3
  <2>2. CASE o # c
    BY <1>3, <1>5, <2>2, Zenon DEF PxRunning
  <2> QED BY <2>1, <2>2, Zenon
<1>12. PxMarked'
  <2>1. \A e \in DOMAIN pxOrders : pxFills[e] = 1 <=> pxOrders[e].status = "filled"
    BY <1>0, <1>2, <1>3, Zenon DEF PxMarked, call
  <2>2. \A e : (\E o \in PxCallers : pxCalls'[o].pc \in {"filled", "marking"} /\ pxCalls'[o].id = e)
               <=> e = d /\ ~flips
    BY <1>3, <1>5, <1>6
  <2>3. \A e \in DOMAIN pxOrders : pxFills'[e] = 1 <=> pxOrders[e].status = "filled" \/ (e = d /\ ~flips)
    BY <1>3, <1>6, <2>1, Zenon DEF PxResting
  <2> QED BY <1>2, <2>2, <2>3, Zenon DEF PxMarked
<1> QED BY <1>7, <1>8, <1>9, <1>10, <1>11, <1>12, Zenon DEF PxInv

\* The update after a fill of a tick keeps the invariant.
LEMMA PxTickMarkStep ==
  ASSUME PxInv, NEW c \in PxCallers, PxTickMark(c)
  PROVE  PxInv'
<1>0. PxNames /\ PxTypes /\ PxAlone /\ PxProgress /\ PxMarked /\ PxNet
  BY Zenon DEF PxInv
<1> DEFINE id == pxCalls[c].id
<1>1. PxSetStatus(id, "filled") /\ pxCalls[c].pc = "marking" /\ UNCHANGED <<pxPositions, pxNext, pxFills>>
  BY Zenon DEF PxTickMark
<1>2. /\ \A o \in PxCallers : o # c => pxCalls[o].pc = "idle"
      /\ id \in DOMAIN pxOrders /\ pxFills[id] = 1
      /\ \A d \in pxCalls[c].todo : d \in DOMAIN pxOrders /\ pxOrders[d].status \in PxResting /\ pxFills[d] = 0
  BY <1>0, <1>1, Zenon DEF PxAlone, PxProgress, PxRunning
<1>3. /\ DOMAIN pxCalls' = PxCallers
      /\ pxCalls'[c] = [pc |-> "ticking", id |-> id, mark |-> pxCalls[c].mark, todo |-> pxCalls[c].todo]
      /\ \A o \in PxCallers : o # c => pxCalls'[o] = pxCalls[o]
  BY <1>0 DEF PxTickMark, PxGoto, PxTypes
<1>4. "filled" \in PxResting \cup PxFinal
  BY Zenon DEF PxFinal
<1>5. \A d \in DOMAIN pxOrders : pxFills[d] = 1 <=> pxOrders[d].status = "filled" \/ d = id
  BY <1>0, <1>1, <1>2, Zenon DEF PxMarked
<1> HIDE DEF id
<1>6. /\ DOMAIN pxOrders' = DOMAIN pxOrders /\ pxOrders' = [d \in DOMAIN pxOrders' |-> pxOrders'[d]]
      /\ pxOrders'[id].status = "filled"
      /\ \A d \in DOMAIN pxOrders : /\ pxOrders'[d].intent = pxOrders[d].intent
                                    /\ d # id => pxOrders'[d] = pxOrders[d]
      /\ \A d \in DOMAIN pxOrders' :
           pxOrders'[d] \in [intent : PxIntents, status : PxResting \cup PxFinal]
  BY <1>0, <1>1, <1>2, <1>4, PxStatusSet, Zenon
<1>7. PxNames' /\ PxNet'
  BY <1>0, <1>1, <1>6, PxQuiet, Zenon
<1>8. PxTypes'
  <2>1. \A o \in PxCallers :
          /\ pxCalls'[o] = [pc |-> pxCalls'[o].pc, id |-> pxCalls'[o].id, mark |-> pxCalls'[o].mark,
                            todo |-> pxCalls'[o].todo]
          /\ pxCalls'[o].pc \in PxRunning \cup {"idle"}
    BY <1>0, <1>3 DEF PxTypes, PxRunning
  <2> QED BY <1>0, <1>1, <1>3, <1>6, <2>1, Zenon DEF PxTypes
<1>9. PxAlone'
  BY <1>2, <1>3 DEF PxAlone
<1>10. PxProgress'
  <2>1. \A d \in pxCalls[c].todo : /\ d \in DOMAIN pxOrders' /\ d # id
                                   /\ pxOrders'[d].status \in PxResting /\ pxFills'[d] = 0
    BY <1>1, <1>2, <1>6
  <2> QED BY <1>2, <1>3, <2>1 DEF PxProgress, PxRunning
<1>11. PxMarked'
  <2>1. \A o \in PxCallers : pxCalls'[o].pc \notin {"filled", "marking"}
    BY <1>2, <1>3
  <2>2. \A d \in DOMAIN pxOrders : pxFills[d] = 1 <=> pxOrders'[d].status = "filled"
    BY <1>2, <1>5, <1>6, Zenon
  <2> QED BY <1>1, <1>6, <2>1, <2>2, Zenon DEF PxMarked
<1> QED BY <1>7, <1>8, <1>9, <1>10, <1>11, Zenon DEF PxInv

\* The end of a tick, and a cancellation, keep the invariant.
LEMMA PxTickDoneStep ==
  ASSUME PxInv, NEW c \in PxCallers, PxTickDone(c)
  PROVE  PxInv'
<1>0. PxNames /\ PxTypes /\ PxAlone /\ PxProgress /\ PxMarked /\ PxNet
  BY Zenon DEF PxInv
<1>1. /\ DOMAIN pxCalls' = PxCallers /\ pxCalls'[c] = PxIdle /\ pxCalls[c].pc = "ticking"
      /\ \A o \in PxCallers : o # c => pxCalls'[o] = pxCalls[o]
      /\ UNCHANGED <<pxOrders, pxPositions, pxNext, pxFills>>
  BY <1>0, Zenon DEF PxTickDone, PxReturn, PxTypes
<1>2. \A o \in PxCallers : pxCalls'[o].pc = "idle" /\ pxCalls[o].pc \notin {"filled", "marking"}
  BY <1>0, <1>1 DEF PxIdle, PxAlone
<1>3. PxNames' /\ PxNet'
  BY <1>0, <1>1, PxQuiet, Zenon
<1>4. PxTypes'
  <2>1. \A o \in PxCallers :
          /\ pxCalls'[o] = [pc |-> pxCalls'[o].pc, id |-> pxCalls'[o].id, mark |-> pxCalls'[o].mark,
                            todo |-> pxCalls'[o].todo]
          /\ pxCalls'[o].pc \in PxRunning \cup {"idle"}
    BY <1>0, <1>1, <1>2, Zenon DEF PxTypes, PxIdle
  <2> QED BY <1>0, <1>1, <2>1, Zenon DEF PxTypes
<1>5. PxAlone' /\ PxProgress'
  BY <1>2, Zenon DEF PxAlone, PxProgress, PxRunning
<1>6. PxMarked'
  BY <1>0, <1>1, <1>2, Zenon DEF PxMarked
<1> QED BY <1>3, <1>4, <1>5, <1>6, Zenon DEF PxInv

\* A cancellation keeps the invariant: it leaves filled orders alone.
LEMMA PxCancelStep ==
  ASSUME PxInv, ~PxOverlap, NEW c \in PxCallers, PxCancel(c)
  PROVE  PxInv'
<1>0. PxNames /\ PxTypes /\ PxAlone /\ PxProgress /\ PxMarked /\ PxNet
  BY Zenon DEF PxInv
<1>1. PICK id \in DOMAIN pxOrders : pxOrders[id].status # "filled" /\ PxSetStatus(id, "cancelled")
  BY Zenon DEF PxCancel
<1>2. UNCHANGED <<pxPositions, pxNext, pxFills, pxCalls>> /\ \A o \in PxCallers : pxCalls[o].pc = "idle"
  BY Zenon DEF PxCancel, PxMayStart
<1>3. "cancelled" \in PxResting \cup PxFinal
  BY Zenon DEF PxFinal
<1>4. /\ DOMAIN pxOrders' = DOMAIN pxOrders /\ pxOrders' = [d \in DOMAIN pxOrders' |-> pxOrders'[d]]
      /\ pxOrders'[id].status = "cancelled"
      /\ \A d \in DOMAIN pxOrders : /\ pxOrders'[d].intent = pxOrders[d].intent
                                    /\ d # id => pxOrders'[d] = pxOrders[d]
      /\ \A d \in DOMAIN pxOrders' :
           pxOrders'[d] \in [intent : PxIntents, status : PxResting \cup PxFinal]
  BY <1>0, <1>1, <1>3, PxStatusSet, Zenon
<1>5. PxNames' /\ PxNet'
  BY <1>0, <1>2, <1>4, PxQuiet, Zenon
<1>6. PxTypes'
  BY <1>0, <1>2, <1>4, Zenon DEF PxTypes
<1>7. PxAlone' /\ PxProgress'
  BY <1>2, Zenon DEF PxAlone, PxProgress, PxRunning
<1>8. PxMarked'
  <2>1. \A d \in DOMAIN pxOrders : pxFills[d] = 1 <=> pxOrders[d].status = "filled"
    BY <1>0, <1>2, Zenon DEF PxMarked
  <2>2. \A d \in DOMAIN pxOrders : pxFills[d] = 1 <=> pxOrders'[d].status = "filled"
    BY <1>1, <1>4, <2>1, Zenon
  <2> QED BY <1>2, <1>4, <2>2, Zenon DEF PxMarked
<1> QED BY <1>5, <1>6, <1>7, <1>8, Zenon DEF PxInv

\* The exchange keeps the invariant as long as its calls do not overlap.
LEMMA PxStepKeeps == PxInv /\ ~PxOverlap /\ [PxNext]_pxVars => PxInv'
<1> SUFFICES ASSUME PxInv, ~PxOverlap, [PxNext]_pxVars PROVE PxInv'
  BY Zenon
<1>1. CASE UNCHANGED pxVars
  <2>1. PxNames /\ PxTypes /\ PxAlone /\ PxProgress /\ PxMarked /\ PxNet
    BY Zenon DEF PxInv
  <2>2. PxNames' /\ PxNet'
    BY <1>1, <2>1, PxQuiet, Zenon DEF pxVars
  <2>3. PxTypes' /\ PxAlone' /\ PxProgress' /\ PxMarked'
    BY <1>1, <2>1 DEF PxTypes, PxAlone, PxProgress, PxMarked, pxVars
  <2> QED BY <2>2, <2>3, Zenon DEF PxInv
<1>2. CASE PxNext
  <2>1. PICK c \in PxCallers : \/ PxExecute(c) \/ PxExecFill(c) \/ PxExecUpdate(c)
                               \/ PxTick(c) \/ PxTickFill(c) \/ PxTickMark(c) \/ PxTickDone(c)
                               \/ PxCancel(c)
    BY <1>2, Zenon DEF PxNext
  <2> QED BY <2>1, PxExecuteStep, PxExecFillStep, PxExecUpdateStep, PxTickStep, PxTickFillStep,
             PxTickMarkStep, PxTickDoneStep, PxCancelStep, Zenon
<1> QED BY <1>1, <1>2, Zenon

\* PaperBackend.Execute, ProcessPriceTick, CancelOrder: between calls that do
\* not overlap, every position is the net of the orders marked filled, each of
\* them applied once, and none is negative.
THEOREM BooksBalance == ~PxOverlap => (PxSpec => []PxBooksBalance)
<1> SUFFICES ASSUME ~PxOverlap PROVE PxSpec => []PxBooksBalance
  BY Zenon
<1>1. PxInit => PxInv
  <2> SUFFICES ASSUME PxInit PROVE PxInv
    BY Zenon
  <2>1. DOMAIN pxOrders = {} /\ DOMAIN pxFills = {} /\ DOMAIN pxPositions = {} /\ pxNext = 0
        /\ pxOrders = [d \in DOMAIN pxOrders |-> pxOrders[d]] /\ pxFills \in [{} -> {0, 1}]
        /\ pxPositions = [k \in DOMAIN pxPositions |-> pxPositions[k]]
    BY DEF PxInit
  <2>2. DOMAIN pxCalls = PxCallers /\ \A c \in PxCallers : pxCalls[c] = PxIdle
    BY Zenon DEF PxInit
  <2>3. PxNames
    BY <2>1, FS_EmptySet, Zenon DEF PxNames
  <2>4. PxTypes
    BY <2>1, <2>2 DEF PxTypes, PxIdle
  <2>5. PxAlone /\ PxProgress /\ PxMarked
    BY <2>1, <2>2 DEF PxAlone, PxProgress, PxMarked, PxIdle, PxRunning
  <2>6. PxNet
    <3>1. \A k : PxApplied(k) = {} /\ PxQuantity(pxPositions, k) = 0
      BY <2>1, Zenon DEF PxApplied, PxQuantity
    <3> QED BY <3>1, SumEmpty, Zenon DEF PxNet
  <2> QED BY <2>3, <2>4, <2>5, <2>6, Zenon DEF PxInv
<1>2. PxInv /\ [PxNext]_pxVars => PxInv'
  BY PxStepKeeps, Zenon
<1>3. PxInv => PxBooksBalance
  <2> SUFFICES ASSUME PxInv, \A c \in PxCallers : pxCalls[c].pc = "idle"
               PROVE  /\ \A k : PxQuantity(pxPositions, k) = PxNetFilled(k) /\ PxNetFilled(k) >= 0
                      /\ \A d \in DOMAIN pxOrders :
                            pxFills[d] = IF pxOrders[d].status = "filled" THEN 1 ELSE 0
    BY Zenon DEF PxBooksBalance
  <2>1. PxTypes /\ PxNet /\ \A k : PxQuantity(pxPositions, k) \in Nat
    BY PxQuantityNat, Zenon DEF PxInv
  <2>2. \A d \in DOMAIN pxOrders : pxFills[d] \in {0, 1} /\ (pxFills[d] = 1 <=> pxOrders[d].status = "filled")
    BY <2>1, Zenon DEF PxInv, PxMarked, PxTypes
  <2>3. \A k : PxApplied(k) = {d \in DOMAIN pxOrders : pxOrders[d].status = "filled"
                                                         /\ PxKey(pxOrders[d].intent) = k}
    BY <2>2, Zenon DEF PxApplied
  <2>4. \A k : PxQuantity(pxPositions, k) = PxNetFilled(k)
    BY <2>1, <2>3, Zenon DEF PxNet, PxTerms, PxNetFilled
  <2> QED BY <2>1, <2>2, <2>4
<1> QED BY <1>1, <1>2, <1>3, PTL DEF PxSpec
=============================================================================
