---------------------------- MODULE SumTheorems ----------------------------
(***************************************************************************)
(* Facts about SumFunctionOnSet, the sum of f[x] for x in a finite set,    *)
(* and about the order of the members of a finite set of numbers.          *)
(***************************************************************************)
EXTENDS FiniteSetTheorems, TLAPS

\* Induction over the subsets of a finite set: the set T of those for which a
\* fact holds has every subset whose strict subsets are all in T.
LEMMA SubsetInduction ==
    ASSUME NEW S, IsFiniteSet(S), NEW T,
           \A s \in SUBSET S : (\A u \in SUBSET s : u # s => u \in T) => s \in T
    PROVE  \A s \in SUBSET S : s \in T
<1> DEFINE Bad == (SUBSET S) \ T
<1> SUFFICES ASSUME Bad # {} PROVE FALSE
  OBVIOUS
<1>1. IsWellFoundedOn(StrictSubsetOrdering(S), SUBSET S)
  <2>1. FiniteSubsetsOf(S) = SUBSET S
    BY FS_FiniteSubsetsOfFinite
  <2>2. IsWellFoundedOn(StrictSubsetOrdering(S), FiniteSubsetsOf(S))
    BY FS_StrictSubsetOrderingWellFounded
  <2> QED
    BY ONLY <2>1, <2>2
<1>2. \E s \in Bad : \A u \in Bad : ~(<<u, s>> \in StrictSubsetOrdering(S))
  <2> HIDE DEF Bad
  <2>1. Bad \subseteq SUBSET S
    BY DEF Bad
  <2> QED
    BY <1>1, <2>1, WFMin
<1>3. PICK s \in Bad : \A u \in Bad : ~(<<u, s>> \in StrictSubsetOrdering(S))
  BY <1>2
<1>4. \A u \in SUBSET s : u # s => u \in T
  <2> SUFFICES ASSUME NEW u \in SUBSET s, u # s, u \notin T PROVE FALSE
    OBVIOUS
  <2>1. u \in Bad /\ <<u, s>> \in StrictSubsetOrdering(S)
    BY DEF StrictSubsetOrdering
  <2> QED
    BY <2>1, <1>3
<1> QED
  BY <1>3, <1>4

SumPick(s) == CHOOSE x \in s : TRUE

\* The definition of the sum, unfolded to the function that is chosen.
LEMMA SumUnfold ==
    ASSUME NEW f, NEW S
    PROVE  SumFunctionOnSet(f, S) =
             (CHOOSE g : g = [s \in SUBSET S |->
                  IF s = {} THEN 0 ELSE f[SumPick(s)] + g[s \ {SumPick(s)}]])[S]
  BY DEF SumFunctionOnSet, FoldFunctionOnSet, MapThenFoldSet, SumPick

SumBody(f, g, s) == IF s = {} THEN 0 ELSE f[SumPick(s)] + g[s \ {SumPick(s)}]
SumIterates(f, g, S) == g = [s \in SUBSET S |-> SumBody(f, g, s)]

\* The same with the body of that function named.
LEMMA SumChoice ==
    ASSUME NEW f, NEW S
    PROVE  SumFunctionOnSet(f, S) = (CHOOSE g : SumIterates(f, g, S))[S]
  BY SumUnfold DEF SumIterates, SumBody

\* The element the sum takes away first is one of the set.
LEMMA SumPickIn == ASSUME NEW s, s # {} PROVE SumPick(s) \in s
  BY DEF SumPick

\* Two iterations agree where both are defined.
LEMMA IterationUnique ==
    ASSUME NEW f, NEW S, IsFiniteSet(S), NEW g, NEW h,
           SumIterates(f, g, S), SumIterates(f, h, S)
    PROVE  \A s \in SUBSET S : g[s] = h[s]
<1> DEFINE T == {s \in SUBSET S : g[s] = h[s]}
<1>1. \A s \in SUBSET S : (\A u \in SUBSET s : u # s => u \in T) => s \in T
  <2> SUFFICES ASSUME NEW s \in SUBSET S, \A u \in SUBSET s : u # s => u \in T
               PROVE  g[s] = h[s]
    OBVIOUS
  <2>1. g[s] = SumBody(f, g, s) /\ h[s] = SumBody(f, h, s)
    BY DEF SumIterates
  <2>2. CASE s = {}
    BY <2>1, <2>2 DEF SumBody
  <2>3. CASE s # {}
    <3>1. s \ {SumPick(s)} \in T
      BY <2>3, SumPickIn
    <3> QED
      BY <2>1, <2>3, <3>1 DEF SumBody
  <2> QED
    BY <2>2, <2>3
<1>2. \A s \in SUBSET S : s \in T
  <2> HIDE DEF T
  <2> QED
    BY <1>1, SubsetInduction
<1> QED
  BY <1>2

\* The sum obeys the equation its definition iterates.
LEMMA SumStep ==
    ASSUME NEW f, NEW S, IsFiniteSet(S)
    PROVE  SumFunctionOnSet(f, S) =
             IF S = {} THEN 0
             ELSE f[SumPick(S)] + SumFunctionOnSet(f, S \ {SumPick(S)})
<1> DEFINE Def(s) == IF s = {} THEN 0
                     ELSE f[SumPick(s)] + SumFunctionOnSet(f, s \ {SumPick(s)})
           T == {s \in SUBSET S : SumFunctionOnSet(f, s) = Def(s)}
<1>1. \A s \in SUBSET S : (\A u \in SUBSET s : u # s => u \in T) => s \in T
  <2> SUFFICES ASSUME NEW s \in SUBSET S, \A u \in SUBSET s : u # s => u \in T
               PROVE  SumFunctionOnSet(f, s) = Def(s)
    OBVIOUS
  <2> DEFINE G == [u \in SUBSET s |-> IF u = s THEN Def(s) ELSE SumFunctionOnSet(f, u)]
  <2>1. \A u \in SUBSET s : G[u] = SumBody(f, G, u)
    <3> SUFFICES ASSUME NEW u \in SUBSET s PROVE G[u] = SumBody(f, G, u)
      OBVIOUS
    <3>1. G[u] = Def(u)
      OBVIOUS
    <3>2. CASE u = {}
      BY <3>1, <3>2 DEF SumBody
    <3>3. CASE u # {}
      <4>1. u \ {SumPick(u)} \in SUBSET s /\ u \ {SumPick(u)} # s
        BY <3>3, SumPickIn
      <4>2. G[u \ {SumPick(u)}] = SumFunctionOnSet(f, u \ {SumPick(u)})
        BY <4>1
      <4> QED
        BY <3>1, <3>3, <4>2 DEF SumBody
    <3> QED
      BY <3>2, <3>3
  <2>2. SumIterates(f, G, s)
    BY <2>1 DEF SumIterates
  <2> DEFINE C == CHOOSE g : SumIterates(f, g, s)
  <2>3. SumIterates(f, C, s)
    BY <2>2
  <2>4. SumFunctionOnSet(f, s) = C[s]
    BY SumChoice
  <2>5. IsFiniteSet(s)
    BY FS_Subset
  <2>6. C[s] = G[s]
    <3> HIDE DEF C, G
    <3> QED
      BY <2>2, <2>3, <2>5, IterationUnique
  <2> QED
    BY <2>4, <2>6
<1>2. \A s \in SUBSET S : s \in T
  <2> HIDE DEF T
  <2> QED
    BY <1>1, SubsetInduction
<1> QED
  BY <1>2

-----------------------------------------------------------------------------
(* The facts the proofs about the components cite.                         *)

\* The empty sum.
LEMMA SumEmpty == ASSUME NEW f PROVE SumFunctionOnSet(f, {}) = 0
  BY SumStep, FS_EmptySet

\* A sum of integers is an integer, a sum of naturals a natural number.
LEMMA SumType ==
    ASSUME NEW S, IsFiniteSet(S), NEW f
    PROVE  /\ (\A x \in S : f[x] \in Int) => SumFunctionOnSet(f, S) \in Int
           /\ (\A x \in S : f[x] \in Nat) => SumFunctionOnSet(f, S) \in Nat
<1>1. ASSUME NEW N, N = Int \/ N = Nat, \A x \in S : f[x] \in N
      PROVE  SumFunctionOnSet(f, S) \in N
  <2> DEFINE T == {s \in SUBSET S : SumFunctionOnSet(f, s) \in N}
  <2>1. \A s \in SUBSET S : (\A u \in SUBSET s : u # s => u \in T) => s \in T
    <3> SUFFICES ASSUME NEW s \in SUBSET S, \A u \in SUBSET s : u # s => u \in T
                 PROVE  SumFunctionOnSet(f, s) \in N
      OBVIOUS
    <3>1. IsFiniteSet(s)
      BY FS_Subset
    <3>2. CASE s = {}
      BY <1>1, <3>2, SumEmpty
    <3>3. CASE s # {}
      <4>1. SumPick(s) \in s /\ s \ {SumPick(s)} \in T
        BY <3>3, SumPickIn
      <4>2. SumFunctionOnSet(f, s) = f[SumPick(s)] + SumFunctionOnSet(f, s \ {SumPick(s)})
        BY <3>1, <3>3, SumStep
      <4>3. f[SumPick(s)] \in N /\ SumFunctionOnSet(f, s \ {SumPick(s)}) \in N
        BY <1>1, <4>1
      <4> QED
        BY <1>1, <4>2, <4>3
    <3> QED
      BY <3>2, <3>3
  <2>2. \A s \in SUBSET S : s \in T
    <3> HIDE DEF T
    <3> QED
      BY <2>1, SubsetInduction
  <2> QED
    BY <2>2
<1> QED
  BY <1>1

\* Only the values at the elements of the set matter.
LEMMA SumEqual ==
    ASSUME NEW S, IsFiniteSet(S), NEW f, NEW g, \A x \in S : f[x] = g[x]
    PROVE  SumFunctionOnSet(f, S) = SumFunctionOnSet(g, S)
<1> DEFINE T == {s \in SUBSET S : SumFunctionOnSet(f, s) = SumFunctionOnSet(g, s)}
<1>1. \A s \in SUBSET S : (\A u \in SUBSET s : u # s => u \in T) => s \in T
  <2> SUFFICES ASSUME NEW s \in SUBSET S, \A u \in SUBSET s : u # s => u \in T
               PROVE  SumFunctionOnSet(f, s) = SumFunctionOnSet(g, s)
    OBVIOUS
  <2>1. IsFiniteSet(s)
    BY FS_Subset
  <2>2. CASE s = {}
    BY <2>2, SumEmpty
  <2>3. CASE s # {}
    <3>1. SumPick(s) \in s /\ s \ {SumPick(s)} \in T
      BY <2>3, SumPickIn
    <3>2. /\ SumFunctionOnSet(f, s) = f[SumPick(s)] + SumFunctionOnSet(f, s \ {SumPick(s)})
          /\ SumFunctionOnSet(g, s) = g[SumPick(s)] + SumFunctionOnSet(g, s \ {SumPick(s)})
      BY <2>1, <2>3, SumStep
    <3> QED
      BY <3>1, <3>2
  <2> QED
    BY <2>2, <2>3
<1>2. \A s \in SUBSET S : s \in T
  <2> HIDE DEF T
  <2> QED
    BY <1>1, SubsetInduction
<1> QED
  BY <1>2

\* Any element may be taken out first.
LEMMA SumRemove ==
    ASSUME NEW S, IsFiniteSet(S), NEW f, \A x \in S : f[x] \in Int
    PROVE  \A x \in S : SumFunctionOnSet(f, S) = f[x] + SumFunctionOnSet(f, S \ {x})
<1> DEFINE Any(s) == \A x \in s : SumFunctionOnSet(f, s) = f[x] + SumFunctionOnSet(f, s \ {x})
           T == {s \in SUBSET S : Any(s)}
<1>1. \A s \in SUBSET S : (\A u \in SUBSET s : u # s => u \in T) => s \in T
  <2> SUFFICES ASSUME NEW s \in SUBSET S, \A u \in SUBSET s : u # s => u \in T,
                      NEW x \in s
               PROVE  SumFunctionOnSet(f, s) = f[x] + SumFunctionOnSet(f, s \ {x})
    OBVIOUS
  <2>1. IsFiniteSet(s) /\ IsFiniteSet(s \ {x})
    BY FS_Subset
  <2> DEFINE y == SumPick(s)
             both == (s \ {x}) \ {y}
  <2>2. y \in s /\ SumFunctionOnSet(f, s) = f[y] + SumFunctionOnSet(f, s \ {y})
    BY <2>1, SumStep, SumPickIn
  <2>3. CASE x = y
    BY <2>2, <2>3
  <2>4. CASE x # y
    <3>1. s \ {y} \in T /\ s \ {x} \in T
      BY <2>2
    <3>2. (s \ {y}) \ {x} = both
      OBVIOUS
    <3>3. SumFunctionOnSet(f, s \ {y}) = f[x] + SumFunctionOnSet(f, both)
      BY <2>4, <3>1, <3>2
    <3>4. SumFunctionOnSet(f, s \ {x}) = f[y] + SumFunctionOnSet(f, both)
      BY <2>2, <2>4, <3>1
    <3>5. f[x] \in Int /\ f[y] \in Int /\ SumFunctionOnSet(f, both) \in Int
      <4>1. IsFiniteSet(both) /\ \A z \in both : f[z] \in Int
        BY FS_Subset
      <4> QED
        BY <2>2, <4>1, SumType
    <3> HIDE DEF y, both
    <3> QED
      BY <2>2, <3>3, <3>4, <3>5
  <2> QED
    BY <2>3, <2>4
<1>2. \A s \in SUBSET S : s \in T
  <2> HIDE DEF T
  <2> QED
    BY <1>1, SubsetInduction
<1> QED
  BY <1>2

\* Changing the function at one element changes the sum by the difference.
LEMMA SumUpdate ==
    ASSUME NEW S, IsFiniteSet(S), NEW f, NEW g, NEW x \in S,
           \A y \in S : f[y] \in Int /\ g[y] \in Int,
           \A y \in S : y # x => f[y] = g[y]
    PROVE  SumFunctionOnSet(g, S) = SumFunctionOnSet(f, S) - f[x] + g[x]
<1>1. /\ SumFunctionOnSet(f, S) = f[x] + SumFunctionOnSet(f, S \ {x})
      /\ SumFunctionOnSet(g, S) = g[x] + SumFunctionOnSet(g, S \ {x})
  BY SumRemove
<1>2. IsFiniteSet(S \ {x})
  BY FS_Subset
<1>3. SumFunctionOnSet(f, S \ {x}) = SumFunctionOnSet(g, S \ {x})
  BY <1>2, SumEqual
<1>4. SumFunctionOnSet(f, S \ {x}) \in Int
  BY <1>2, SumType
<1> QED
  BY <1>1, <1>3, <1>4

\* A sum grows with its terms.
LEMMA SumMonotone ==
    ASSUME NEW S, IsFiniteSet(S), NEW f, NEW g,
           \A x \in S : f[x] \in Int /\ g[x] \in Int /\ f[x] <= g[x]
    PROVE  SumFunctionOnSet(f, S) <= SumFunctionOnSet(g, S)
<1> DEFINE T == {s \in SUBSET S : SumFunctionOnSet(f, s) <= SumFunctionOnSet(g, s)}
<1>1. \A s \in SUBSET S : (\A u \in SUBSET s : u # s => u \in T) => s \in T
  <2> SUFFICES ASSUME NEW s \in SUBSET S, \A u \in SUBSET s : u # s => u \in T
               PROVE  SumFunctionOnSet(f, s) <= SumFunctionOnSet(g, s)
    OBVIOUS
  <2>1. IsFiniteSet(s) /\ IsFiniteSet(s \ {SumPick(s)})
    BY FS_Subset
  <2>2. CASE s = {}
    BY <2>2, SumEmpty
  <2>3. CASE s # {}
    <3>1. SumPick(s) \in s /\ s \ {SumPick(s)} \in T
      BY <2>3, SumPickIn
    <3>2. /\ SumFunctionOnSet(f, s) = f[SumPick(s)] + SumFunctionOnSet(f, s \ {SumPick(s)})
          /\ SumFunctionOnSet(g, s) = g[SumPick(s)] + SumFunctionOnSet(g, s \ {SumPick(s)})
      BY <2>1, <2>3, SumStep
    <3>3. /\ SumFunctionOnSet(f, s \ {SumPick(s)}) \in Int
          /\ SumFunctionOnSet(g, s \ {SumPick(s)}) \in Int
      BY <2>1, SumType
    <3> QED
      BY <3>1, <3>2, <3>3
  <2> QED
    BY <2>2, <2>3
<1>2. \A s \in SUBSET S : s \in T
  <2> HIDE DEF T
  <2> QED
    BY <1>1, SubsetInduction
<1> QED
  BY <1>2

\* Summing over a part of U is summing over U with the other terms 0.
LEMMA SumRestrict ==
    ASSUME NEW U, IsFiniteSet(U), NEW S \in SUBSET U, NEW f, NEW g,
           \A x \in S : f[x] \in Int,
           \A x \in U : g[x] = IF x \in S THEN f[x] ELSE 0
    PROVE  SumFunctionOnSet(f, S) = SumFunctionOnSet(g, U)
<1> DEFINE T == {u \in SUBSET U : SumFunctionOnSet(f, u \cap S) = SumFunctionOnSet(g, u)}
<1>1. \A s \in SUBSET U : (\A u \in SUBSET s : u # s => u \in T) => s \in T
  <2> SUFFICES ASSUME NEW s \in SUBSET U, \A u \in SUBSET s : u # s => u \in T
               PROVE  SumFunctionOnSet(f, s \cap S) = SumFunctionOnSet(g, s)
    OBVIOUS
  <2>1. CASE s = {}
    <3>1. s \cap S = {}
      BY <2>1
    <3> QED
      BY <2>1, <3>1, SumEmpty
  <2>2. CASE s # {}
    <3>1. PICK x : x \in s
      BY <2>2
    <3> DEFINE r == s \ {x}
    <3>2. IsFiniteSet(s) /\ IsFiniteSet(r) /\ IsFiniteSet(s \cap S) /\ IsFiniteSet(r \cap S)
      BY FS_Subset
    <3>3. SumFunctionOnSet(f, r \cap S) = SumFunctionOnSet(g, r)
      <4>1. r \in T
        BY <3>1
      <4> QED
        BY <4>1
    <3>4. \A y \in s : g[y] \in Int
      OBVIOUS
    <3>5. SumFunctionOnSet(g, s) = g[x] + SumFunctionOnSet(g, r)
      <4> HIDE DEF r
      <4>1. \A z \in s : SumFunctionOnSet(g, s) = g[z] + SumFunctionOnSet(g, s \ {z})
        BY <3>2, <3>4, SumRemove
      <4> QED
        BY <3>1, <4>1 DEF r
    <3>6. SumFunctionOnSet(g, r) \in Int
      BY <3>2, <3>4, SumType
    <3>7. CASE x \in S
      <4>1. (s \cap S) \ {x} = r \cap S
        OBVIOUS
      <4>2. \A y \in s \cap S : f[y] \in Int
        OBVIOUS
      <4>3. SumFunctionOnSet(f, s \cap S) = f[x] + SumFunctionOnSet(f, (s \cap S) \ {x})
        BY <3>1, <3>2, <3>7, <4>2, SumRemove
      <4>4. g[x] = f[x]
        BY <3>1, <3>7
      <4> HIDE DEF r
      <4> QED
        BY <3>3, <3>5, <3>6, <4>1, <4>3, <4>4
    <3>8. CASE x \notin S
      <4>1. s \cap S = r \cap S /\ g[x] = 0
        BY <3>1, <3>8
      <4> HIDE DEF r
      <4> QED
        BY <3>3, <3>5, <3>6, <4>1
    <3> QED
      BY <3>7, <3>8
  <2> QED
    BY <2>1, <2>2
<1>2. \A s \in SUBSET U : s \in T
  <2> HIDE DEF T
  <2> QED
    BY <1>1, SubsetInduction
<1>3. U \cap S = S
  OBVIOUS
<1> QED
  BY <1>2, <1>3

\* Two sums over one set add up term by term.
LEMMA SumPlus ==
    ASSUME NEW S, IsFiniteSet(S), NEW f, NEW g, NEW h,
           \A x \in S : f[x] \in Int /\ g[x] \in Int /\ h[x] = f[x] + g[x]
    PROVE  SumFunctionOnSet(h, S) = SumFunctionOnSet(f, S) + SumFunctionOnSet(g, S)
<1> DEFINE T == {s \in SUBSET S :
                   SumFunctionOnSet(h, s) = SumFunctionOnSet(f, s) + SumFunctionOnSet(g, s)}
<1>1. \A s \in SUBSET S : (\A u \in SUBSET s : u # s => u \in T) => s \in T
  <2> SUFFICES ASSUME NEW s \in SUBSET S, \A u \in SUBSET s : u # s => u \in T
               PROVE  SumFunctionOnSet(h, s) =
                          SumFunctionOnSet(f, s) + SumFunctionOnSet(g, s)
    OBVIOUS
  <2>1. IsFiniteSet(s) /\ IsFiniteSet(s \ {SumPick(s)})
    BY FS_Subset
  <2>2. CASE s = {}
    BY <2>2, SumEmpty
  <2>3. CASE s # {}
    <3>1. SumPick(s) \in s /\ s \ {SumPick(s)} \in T
      BY <2>3, SumPickIn
    <3>2. /\ SumFunctionOnSet(f, s) = f[SumPick(s)] + SumFunctionOnSet(f, s \ {SumPick(s)})
          /\ SumFunctionOnSet(g, s) = g[SumPick(s)] + SumFunctionOnSet(g, s \ {SumPick(s)})
          /\ SumFunctionOnSet(h, s) = h[SumPick(s)] + SumFunctionOnSet(h, s \ {SumPick(s)})
      BY <2>1, <2>3, SumStep
    <3>3. /\ SumFunctionOnSet(f, s \ {SumPick(s)}) \in Int
          /\ SumFunctionOnSet(g, s \ {SumPick(s)}) \in Int
      BY <2>1, SumType
    <3>4. /\ h[SumPick(s)] = f[SumPick(s)] + g[SumPick(s)]
          /\ f[SumPick(s)] \in Int /\ g[SumPick(s)] \in Int
      BY <3>1
    <3>5. SumFunctionOnSet(h, s \ {SumPick(s)}) =
            SumFunctionOnSet(f, s \ {SumPick(s)}) + SumFunctionOnSet(g, s \ {SumPick(s)})
      BY <3>1
    <3> QED
      BY ONLY <3>2, <3>3, <3>4, <3>5
  <2> QED
    BY <2>2, <2>3
<1>2. \A s \in SUBSET S : s \in T
  <2> HIDE DEF T
  <2> QED
    BY <1>1, SubsetInduction
<1> QED
  BY <1>2

\* Adding an element adds its term.
LEMMA SumInsert ==
    ASSUME NEW S, IsFiniteSet(S), NEW x, x \notin S, NEW f,
           \A y \in S \cup {x} : f[y] \in Int
    PROVE  SumFunctionOnSet(f, S \cup {x}) = SumFunctionOnSet(f, S) + f[x]
<1>1. IsFiniteSet(S \cup {x})
  BY FS_AddElement
<1>2. (S \cup {x}) \ {x} = S
  OBVIOUS
<1>3. SumFunctionOnSet(f, S \cup {x}) = f[x] + SumFunctionOnSet(f, (S \cup {x}) \ {x})
  BY <1>1, SumRemove
<1>4. SumFunctionOnSet(f, S) \in Int /\ f[x] \in Int
  BY SumType
<1>5. SumFunctionOnSet(f, (S \cup {x}) \ {x}) = SumFunctionOnSet(f, S)
  BY <1>2
<1> QED
  BY ONLY <1>3, <1>4, <1>5

\* Over a smaller set, with terms that are no larger, the sum is no larger.
LEMMA SumSubset ==
    ASSUME NEW T, IsFiniteSet(T), NEW S \in SUBSET T, NEW f, NEW g,
           \A x \in T : g[x] \in Nat,
           \A x \in S : f[x] \in Int /\ f[x] <= g[x]
    PROVE  SumFunctionOnSet(f, S) <= SumFunctionOnSet(g, T)
<1> DEFINE h == [x \in T |-> IF x \in S THEN f[x] ELSE 0]
<1>1. SumFunctionOnSet(f, S) = SumFunctionOnSet(h, T)
  <2>1. \A x \in T : h[x] = IF x \in S THEN f[x] ELSE 0
    OBVIOUS
  <2> HIDE DEF h
  <2> QED
    BY <2>1, SumRestrict
<1>2. \A x \in T : h[x] \in Int /\ g[x] \in Int /\ h[x] <= g[x]
  OBVIOUS
<1>3. SumFunctionOnSet(h, T) <= SumFunctionOnSet(g, T)
  <2> HIDE DEF h
  <2> QED
    BY <1>2, SumMonotone
<1> QED
  BY <1>1, <1>3

\* Nothing adds up to nothing.
LEMMA SumZero ==
    ASSUME NEW S, IsFiniteSet(S), NEW f, \A x \in S : f[x] = 0
    PROVE  SumFunctionOnSet(f, S) = 0
<1> DEFINE none == {}
<1>1. none \in SUBSET S /\ \A x \in none : f[x] \in Int
  OBVIOUS
<1>2. \A x \in S : f[x] = IF x \in none THEN f[x] ELSE 0
  OBVIOUS
<1>3. SumFunctionOnSet(f, none) = SumFunctionOnSet(f, S)
  <2> HIDE DEF none
  <2> QED
    BY <1>1, <1>2, SumRestrict
<1> QED
  BY <1>3, SumEmpty


\* A sum over part of a finite set moves with the one member that changed its
\* value or entered or left the part.
LEMMA SumChange ==
    ASSUME NEW U, IsFiniteSet(U), NEW f, NEW g, NEW S \in SUBSET U, NEW T \in SUBSET U,
           NEW x \in U, \A y \in U : f[y] \in Int /\ g[y] \in Int,
           \A y \in U : y # x => g[y] = f[y] /\ (y \in T <=> y \in S)
    PROVE  SumFunctionOnSet(g, T) = SumFunctionOnSet(f, S)
              - (IF x \in S THEN f[x] ELSE 0) + (IF x \in T THEN g[x] ELSE 0)
<1> DEFINE F == [y \in U |-> IF y \in S THEN f[y] ELSE 0]
           G == [y \in U |-> IF y \in T THEN g[y] ELSE 0]
<1>1. /\ \A y \in U : F[y] = IF y \in S THEN f[y] ELSE 0
      /\ \A y \in U : G[y] = IF y \in T THEN g[y] ELSE 0
  OBVIOUS
<1> HIDE DEF F, G
<1>2. SumFunctionOnSet(f, S) = SumFunctionOnSet(F, U)
  <2>1. \A y \in S : f[y] \in Int
    OBVIOUS
  <2> QED BY <1>1, <2>1, SumRestrict
<1>3. SumFunctionOnSet(g, T) = SumFunctionOnSet(G, U)
  <2>1. \A y \in T : g[y] \in Int
    OBVIOUS
  <2> QED BY <1>1, <2>1, SumRestrict
<1>4. /\ \A y \in U : F[y] \in Int /\ G[y] \in Int
      /\ \A y \in U : y # x => F[y] = G[y]
  <2>1. \A y \in U : F[y] \in Int
    BY <1>1
  <2>2. \A y \in U : G[y] \in Int
    BY <1>1
  <2>3. \A y \in U : y # x => F[y] = G[y]
    BY <1>1
  <2> QED BY <2>1, <2>2, <2>3
<1>5. SumFunctionOnSet(G, U) = SumFunctionOnSet(F, U) - F[x] + G[x]
  BY ONLY <1>4, SumUpdate, IsFiniteSet(U), x \in U
<1> QED BY <1>1, <1>2, <1>3, <1>5

-----------------------------------------------------------------------------
(* The members of a finite set of numbers by rank, and the first n of them. *)

\* A finite, non-empty set of numbers has a largest member.
LEMMA LargestExists ==
    ASSUME NEW F, IsFiniteSet(F), F \subseteq Int, F # {}
    PROVE  \E M \in F : \A t \in F : t <= M
<1> DEFINE T == {s \in SUBSET F : s = {} \/ \E M \in s : \A t \in s : t <= M}
<1>1. \A s \in SUBSET F : (\A u \in SUBSET s : u # s => u \in T) => s \in T
  <2> SUFFICES ASSUME NEW s \in SUBSET F, \A u \in SUBSET s : u # s => u \in T, s # {}
               PROVE  \E M \in s : \A t \in s : t <= M
    OBVIOUS
  <2>1. PICK x : x \in s
    OBVIOUS
  <2>2. s \ {x} \in T
    BY <2>1
  <2>3. CASE s \ {x} = {}
    BY <2>1, <2>3
  <2>4. CASE s \ {x} # {}
    <3>1. PICK M \in s \ {x} : \A t \in s \ {x} : t <= M
      BY <2>2, <2>4
    <3>2. x \in Int /\ M \in Int /\ \A t \in s : t \in Int
      BY <2>1, <3>1
    <3>3. CASE x <= M
      BY <3>1, <3>2, <3>3
    <3>4. CASE M <= x
      BY <2>1, <3>1, <3>2, <3>4
    <3> QED BY <3>2, <3>3, <3>4
  <2> QED BY <2>3, <2>4
<1> HIDE DEF T
<1>2. \A s \in SUBSET F : s \in T
  BY <1>1, SubsetInduction
<1>3. F \in T
  BY <1>2
<1> QED BY <1>3 DEF T

LessIn(s, t) == {x \in s : x < t}
FirstOf(s, n) == {t \in s : Cardinality(LessIn(s, t)) < n}

\* A set with at least n members has exactly n first ones.
LEMMA FirstOfCount ==
    ASSUME NEW F, IsFiniteSet(F), F \subseteq Int, NEW n \in Nat, n <= Cardinality(F)
    PROVE  Cardinality(FirstOf(F, n)) = n
<1> DEFINE T == {s \in SUBSET F : n <= Cardinality(s) => Cardinality(FirstOf(s, n)) = n}
<1>1. \A s \in SUBSET F : (\A u \in SUBSET s : u # s => u \in T) => s \in T
  <2> SUFFICES ASSUME NEW s \in SUBSET F, \A u \in SUBSET s : u # s => u \in T,
                      n <= Cardinality(s)
               PROVE  Cardinality(FirstOf(s, n)) = n
    OBVIOUS
  <2>1. IsFiniteSet(s) /\ Cardinality(s) \in Nat /\ s \subseteq Int
    BY FS_Subset, FS_CardinalityType
  <2>2. \A t \in s : IsFiniteSet(LessIn(s, t)) /\ Cardinality(LessIn(s, t)) \in Nat
                     /\ Cardinality(LessIn(s, t)) < Cardinality(s)
    <3> SUFFICES ASSUME NEW t \in s
                 PROVE  IsFiniteSet(LessIn(s, t)) /\ Cardinality(LessIn(s, t)) \in Nat
                        /\ Cardinality(LessIn(s, t)) < Cardinality(s)
      OBVIOUS
    <3>1. LessIn(s, t) \subseteq s /\ LessIn(s, t) # s
      BY <2>1 DEF LessIn
    <3>2. IsFiniteSet(LessIn(s, t)) /\ Cardinality(LessIn(s, t)) <= Cardinality(s)
          /\ Cardinality(s) # Cardinality(LessIn(s, t))
      BY <2>1, <3>1, FS_Subset
    <3>3. Cardinality(LessIn(s, t)) \in Nat
      BY <3>2, FS_CardinalityType
    <3> QED BY <2>1, <3>2, <3>3
  <2>3. CASE n = Cardinality(s)
    <3>1. FirstOf(s, n) = s
      BY <2>2, <2>3 DEF FirstOf
    <3> QED BY <2>3, <3>1
  <2>4. CASE n < Cardinality(s)
    <3>1. s # {}
      <4>1. Cardinality({}) = 0
        BY FS_EmptySet
      <4>2. s = {} => Cardinality(s) = 0
        BY <4>1
      <4>3. Cardinality(s) # 0
        BY <2>1, <2>4
      <4> QED BY <4>2, <4>3
    <3>2. PICK M \in s : \A t \in s : t <= M
      BY <2>1, <3>1, LargestExists
    <3> DEFINE u == s \ {M}
    <3>3. u \in SUBSET s /\ u # s /\ Cardinality(u) = Cardinality(s) - 1
      BY <2>1, <3>2, FS_RemoveElement
    <3>4. u \in T /\ n <= Cardinality(u)
      BY <2>1, <2>4, <3>3
    <3>5. Cardinality(FirstOf(u, n)) = n
      BY <3>4
    <3>6. LessIn(s, M) = u /\ \A t \in u : LessIn(s, t) = LessIn(u, t)
      <4>1. \A t \in u : t < M /\ t \in Int /\ M \in Int
        BY <2>1, <3>2
      <4>2. LessIn(s, M) = u
        <5>1. ~(M < M)
          BY <2>1, <3>2
        <5>2. \A x : x \in LessIn(s, M) <=> x \in u
          BY <4>1, <5>1 DEF LessIn
        <5> HIDE DEF u
        <5> QED BY <5>2
      <4>3. ASSUME NEW t \in u PROVE LessIn(s, t) = LessIn(u, t)
        <5>1. ~(M < t)
          BY <4>1
        <5> QED BY <5>1 DEF LessIn
      <4> QED BY <4>2, <4>3
    <3>7. M \notin FirstOf(s, n)
      <4>1. ~(Cardinality(u) < n)
        BY <2>1, <3>3, <3>4
      <4>2. ~(Cardinality(LessIn(s, M)) < n)
        BY <3>6, <4>1
      <4> QED BY <4>2 DEF FirstOf
    <3>8. FirstOf(s, n) = FirstOf(u, n)
      BY <3>6, <3>7 DEF FirstOf
    <3> QED BY <3>5, <3>8
  <2> QED BY <2>1, <2>3, <2>4
<1> HIDE DEF T
<1>2. \A s \in SUBSET F : s \in T
  BY <1>1, SubsetInduction
<1>3. F \in T
  BY <1>2
<1> QED BY <1>3 DEF T

\* In a finite set of numbers every rank below its size is that of a member.
LEMMA RankTaken ==
    ASSUME NEW F, IsFiniteSet(F), F \subseteq Int
    PROVE  \A n \in 1 .. Cardinality(F) : \E i \in F : Cardinality(LessIn(F, i)) = n - 1
<1> DEFINE Full(s) == \A n \in 1 .. Cardinality(s) :
                         \E i \in s : Cardinality(LessIn(s, i)) = n - 1
           T == {s \in SUBSET F : Full(s)}
<1>1. \A s \in SUBSET F : (\A u \in SUBSET s : u # s => u \in T) => s \in T
  <2> SUFFICES ASSUME NEW s \in SUBSET F, \A u \in SUBSET s : u # s => u \in T,
                      NEW n \in 1 .. Cardinality(s)
               PROVE  \E i \in s : Cardinality(LessIn(s, i)) = n - 1
    OBVIOUS
  <2>1. IsFiniteSet(s) /\ Cardinality(s) \in Nat /\ s \subseteq Int
    BY FS_Subset, FS_CardinalityType
  <2>2. s # {}
    BY <2>1, FS_EmptySet
  <2>3. PICK M \in s : \A t \in s : t <= M
    BY <2>1, <2>2, LargestExists
  <2> DEFINE u == s \ {M}
  <2>4. u \in T /\ IsFiniteSet(u) /\ Cardinality(u) = Cardinality(s) - 1
    <3>1. u \in T
      BY <2>3
    <3>2. IsFiniteSet(u) /\ Cardinality(u) = Cardinality(s) - 1
      BY <2>1, <2>3, FS_RemoveElement
    <3> QED BY <3>1, <3>2
  <2>9. \A i \in s : i \in Int /\ (i < M <=> i # M) /\ ~(M < i)
    BY <2>1, <2>3
  <2>5. LessIn(s, M) = u
    <3> SUFFICES ASSUME NEW i PROVE i \in LessIn(s, M) <=> i \in u
      OBVIOUS
    <3> QED BY <2>9 DEF LessIn
  <2>6. \A i \in u : LessIn(s, i) = LessIn(u, i)
    <3> SUFFICES ASSUME NEW i \in u, NEW k PROVE k \in LessIn(s, i) <=> k \in LessIn(u, i)
      OBVIOUS
    <3> QED BY <2>9 DEF LessIn
  <2>7. CASE n = Cardinality(s)
    BY <2>3, <2>4, <2>5, <2>7
  <2>8. CASE n \in 1 .. Cardinality(u)
    <3>1. PICK i \in u : Cardinality(LessIn(u, i)) = n - 1
      BY <2>4, <2>8
    <3> QED BY <3>1, <2>6
  <2> QED BY <2>1, <2>4, <2>7, <2>8
<1> HIDE DEF T
<1>2. F \in T
  BY <1>1, SubsetInduction
<1> QED BY <1>2 DEF T

\* A finite, non-empty set of numbers has a smallest member.
LEMMA SmallestExists ==
    ASSUME NEW F, IsFiniteSet(F), F \subseteq Int, F # {}
    PROVE  \E m \in F : \A t \in F : m <= t
<1>1. 1 \in 1 .. Cardinality(F)
  <2>1. Cardinality(F) \in Nat /\ Cardinality(F) # 0
    BY FS_EmptySet, FS_CardinalityType
  <2> QED BY <2>1
<1>2. PICK m \in F : Cardinality(LessIn(F, m)) = 1 - 1
  BY <1>1, RankTaken
<1>3. LessIn(F, m) = {}
  <2>1. LessIn(F, m) \in SUBSET F
    BY DEF LessIn
  <2>2. IsFiniteSet(LessIn(F, m))
    BY <2>1, FS_Subset
  <2> QED BY <1>2, <2>2, FS_EmptySet
<1>4. \A t \in F : ~(t < m) /\ t \in Int /\ m \in Int
  BY <1>3 DEF LessIn
<1> QED BY <1>4

\* A larger member of a finite set of numbers has a larger rank.
LEMMA RankGrows ==
    ASSUME NEW F, IsFiniteSet(F), F \subseteq Int, NEW i \in F, NEW j \in F, i < j
    PROVE  /\ Cardinality(LessIn(F, i)) \in Nat /\ Cardinality(LessIn(F, j)) \in Nat
           /\ Cardinality(LessIn(F, i)) < Cardinality(LessIn(F, j))
           /\ Cardinality(LessIn(F, j)) < Cardinality(F)
<1> PICK x, y : x = LessIn(F, i) /\ y = LessIn(F, j)
  OBVIOUS
<1>1. \A t \in F : t \in Int
  OBVIOUS
<1>2. y \subseteq F /\ j \notin y /\ j \in F
  BY <1>1 DEF LessIn
<1>3. x \subseteq y /\ i \in y /\ i \notin x
  <2>1. i \in y
    BY DEF LessIn
  <2>2. ~(i < i)
    BY <1>1
  <2>3. \A t \in F : t < i => t < j
    BY <1>1
  <2> QED BY <2>1, <2>2, <2>3 DEF LessIn
<1>4. IsFiniteSet(y) /\ Cardinality(y) <= Cardinality(F) /\ Cardinality(y) # Cardinality(F)
  BY <1>2, FS_Subset
<1>5. IsFiniteSet(x) /\ Cardinality(x) <= Cardinality(y) /\ Cardinality(x) # Cardinality(y)
  BY <1>3, <1>4, FS_Subset
<1>6. Cardinality(x) \in Nat /\ Cardinality(y) \in Nat /\ Cardinality(F) \in Nat
  BY <1>4, <1>5, FS_CardinalityType
<1> QED BY <1>4, <1>5, <1>6

\* The n-th member of a set of numbers: the one with n - 1 below it.
Ranked(F, n) == CHOOSE i \in F : Cardinality({k \in F : k < i}) = n - 1

\* Every place of a finite set of numbers has a member, each member one place.
LEMMA RankedIsOnto ==
    ASSUME NEW F, IsFiniteSet(F), F \subseteq Int
    PROVE  /\ Cardinality(F) \in Nat
           /\ \A n \in 1 .. Cardinality(F) : Ranked(F, n) \in F
           /\ \A n, m \in 1 .. Cardinality(F) : Ranked(F, n) = Ranked(F, m) => n = m
           /\ \A i \in F : \E n \in 1 .. Cardinality(F) : Ranked(F, n) = i
<1> DEFINE rank(i) == Cardinality(LessIn(F, i))
<1>1. Cardinality(F) \in Nat
  BY FS_CardinalityType
<1>2. \A n : Ranked(F, n) = CHOOSE i \in F : rank(i) = n - 1
  BY DEF Ranked, LessIn
<1>3. \A n \in 1 .. Cardinality(F) : \E i \in F : rank(i) = n - 1
  BY RankTaken
<1>4. ASSUME NEW i \in F
      PROVE  rank(i) \in Nat /\ rank(i) < Cardinality(F)
  <2>1. LessIn(F, i) \subseteq F /\ i \notin LessIn(F, i)
    BY DEF LessIn
  <2>2. /\ IsFiniteSet(LessIn(F, i)) /\ rank(i) <= Cardinality(F)
        /\ rank(i) # Cardinality(F)
    BY <2>1, FS_Subset
  <2> QED BY <1>1, <2>2, FS_CardinalityType
<1>5. \A i, j \in F : rank(i) = rank(j) => i = j
  <2> SUFFICES ASSUME NEW i \in F, NEW j \in F, rank(i) = rank(j), i # j PROVE FALSE
    OBVIOUS
  <2>1. i < j \/ j < i
    OBVIOUS
  <2>2. rank(i) < rank(j) \/ rank(j) < rank(i)
    BY <2>1, RankGrows
  <2>3. rank(i) \in Nat /\ rank(j) \in Nat
    BY <1>4
  <2> HIDE DEF rank
  <2> QED BY <2>2, <2>3
<1> HIDE DEF rank
<1>6. \A n \in 1 .. Cardinality(F) : Ranked(F, n) \in F /\ rank(Ranked(F, n)) = n - 1
  BY <1>2, <1>3
<1>7. \A i \in F : \E n \in 1 .. Cardinality(F) : Ranked(F, n) = i
  <2> SUFFICES ASSUME NEW i \in F
               PROVE  \E n \in 1 .. Cardinality(F) : Ranked(F, n) = i
    OBVIOUS
  <2> PICK n : n = rank(i) + 1
    OBVIOUS
  <2>1. n \in 1 .. Cardinality(F) /\ rank(i) = n - 1
    BY <1>1, <1>4
  <2>2. Ranked(F, n) = i
    BY <1>5, <1>6, <2>1
  <2> QED BY <2>1, <2>2
<1>8. \A n, m \in 1 .. Cardinality(F) : Ranked(F, n) = Ranked(F, m) => n = m
  BY <1>1, <1>6
<1> QED BY <1>1, <1>6, <1>7, <1>8
=============================================================================
