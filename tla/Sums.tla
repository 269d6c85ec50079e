-------------------------------- MODULE Sums --------------------------------
(***************************************************************************)
(* The sum of a function over a finite set, which the session limits of    *)
(* the HTTP server are about (SumFunction and SumFunctionOnSet, module     *)
(* Functions).                                                             *)
(*                                                                         *)
(* No theorem with an operator parameter can be used, so there is no       *)
(* induction by name.  What stands for it is a least counterexample: among *)
(* the subsets of a finite set that are counted as bad, if there are any,  *)
(* one has no bad proper subset.                                           *)
(***************************************************************************)
EXTENDS Functions, Integers, FiniteSetTheorems, TLAPS

LEMMA LeastSubset ==
    ASSUME NEW S, IsFiniteSet(S), NEW B \in SUBSET (SUBSET S), B # {}
    PROVE  \E T \in B : \A U \in SUBSET T : U # T => U \notin B
<1>1. FiniteSubsetsOf(S) = SUBSET S
  BY FS_FiniteSubsetsOfFinite
<1>2. IsWellFoundedOn(StrictSubsetOrdering(S), SUBSET S)
  BY <1>1, FS_StrictSubsetOrderingWellFounded
<1>3. PICK T \in B : \A U \in B : <<U, T>> \notin StrictSubsetOrdering(S)
  BY <1>2, WFMin
<1>4. ASSUME NEW U \in SUBSET T, U # T, U \in B PROVE FALSE
  BY <1>3, <1>4 DEF StrictSubsetOrdering
<1>. QED  BY <1>3, <1>4

-----------------------------------------------------------------------------
\* The element the fold takes first.
First(s) == CHOOSE x \in s : TRUE

Rest(s) == s \ {First(s)}

\* g is the table of the sums of f over the subsets of T.
Table(f, T, g) ==
    g = [s \in SUBSET T |-> IF s = {} THEN 0 ELSE f[First(s)] + g[Rest(s)]]

TableOf(f, S) == CHOOSE g : Table(f, S, g)

LEMMA SumIsTable ==
    ASSUME NEW f, NEW S
    PROVE  SumFunctionOnSet(f, S) = TableOf(f, S)[S]
  BY DEF SumFunctionOnSet, FoldFunctionOnSet, MapThenFoldSet, TableOf, Table, First, Rest

LEMMA RestSmaller ==
    ASSUME NEW s, s # {}
    PROVE  First(s) \in s /\ Rest(s) \in SUBSET s /\ Rest(s) # s
  BY DEF First, Rest

\* Tables agree where both are defined.
LEMMA TableUnique ==
    ASSUME NEW f, NEW S, IsFiniteSet(S), NEW T, NEW g, NEW h,
           S \in SUBSET T, Table(f, S, g), Table(f, T, h)
    PROVE  \A s \in SUBSET S : g[s] = h[s]
<1>. DEFINE B == {s \in SUBSET S : g[s] # h[s]}
<1>. SUFFICES ASSUME B # {} PROVE FALSE
  OBVIOUS
<1>0. B \in SUBSET (SUBSET S)
  OBVIOUS
<1>1. PICK s \in B : \A u \in SUBSET s : u # s => u \notin B
  <2>. HIDE DEF B
  <2>. QED  BY <1>0, LeastSubset
<1>2. /\ g[s] = IF s = {} THEN 0 ELSE f[First(s)] + g[Rest(s)]
      /\ h[s] = IF s = {} THEN 0 ELSE f[First(s)] + h[Rest(s)]
  BY DEF Table
<1>3. CASE s = {}
  BY <1>2, <1>3
<1>4. CASE s # {}
  <2>1. Rest(s) \in SUBSET S /\ Rest(s) \notin B
    BY <1>1, <1>4, RestSmaller
  <2>. QED  BY <1>2, <1>4, <2>1
<1>. QED  BY <1>3, <1>4

LEMMA TableExists ==
    ASSUME NEW f, NEW S, IsFiniteSet(S)
    PROVE  Table(f, S, TableOf(f, S))
<1>. DEFINE B == {s \in SUBSET S : ~Table(f, s, TableOf(f, s))}
<1>. SUFFICES ASSUME B # {} PROVE FALSE
  BY DEF Table
<1>0. B \in SUBSET (SUBSET S)
  OBVIOUS
<1>1. PICK T \in B : \A u \in SUBSET T : u # T => u \notin B
  <2>. HIDE DEF B
  <2>. QED  BY <1>0, LeastSubset
<1>2. \A u \in SUBSET T : u # T => Table(f, u, TableOf(f, u))
  BY <1>1
<1>3. IsFiniteSet(T)
  BY FS_Subset
<1>. DEFINE v(u) == IF u = {} THEN 0 ELSE f[First(u)] + TableOf(f, Rest(u))[Rest(u)]
            g == [u \in SUBSET T |-> v(u)]
<1>4. ASSUME NEW u \in SUBSET T, u # T PROVE g[u] = TableOf(f, u)[u]
  <2>1. Table(f, u, TableOf(f, u)) /\ IsFiniteSet(u)
    BY <1>2, <1>3, <1>4, FS_Subset
  <2>2. TableOf(f, u)[u] = IF u = {} THEN 0 ELSE f[First(u)] + TableOf(f, u)[Rest(u)]
    BY <2>1 DEF Table
  <2>3. CASE u = {}
    BY <2>2, <2>3
  <2>4. CASE u # {}
    <3>1. Rest(u) \in SUBSET u /\ Rest(u) \in SUBSET T /\ Rest(u) # T
      BY <2>4, RestSmaller
    <3>2. Table(f, Rest(u), TableOf(f, Rest(u))) /\ IsFiniteSet(Rest(u))
      BY <1>2, <2>1, <3>1, FS_Subset
    <3>3. TableOf(f, Rest(u))[Rest(u)] = TableOf(f, u)[Rest(u)]
      BY <2>1, <3>1, <3>2, TableUnique
    <3>. QED  BY <2>2, <2>4, <3>3
  <2>. QED  BY <2>3, <2>4
<1>5. Table(f, T, g)
  <2>1. ASSUME NEW u \in SUBSET T
        PROVE  g[u] = IF u = {} THEN 0 ELSE f[First(u)] + g[Rest(u)]
    <3>1. CASE u = {}
      BY <3>1
    <3>2. CASE u # {}
      <4>1. Rest(u) \in SUBSET T /\ Rest(u) # T
        BY <3>2, RestSmaller
      <4>2. g[Rest(u)] = TableOf(f, Rest(u))[Rest(u)]
        BY <1>4, <4>1
      <4>. QED  BY <3>2, <4>2
    <3>. QED  BY <3>1, <3>2
  <2>. HIDE DEF v
  <2>2. g = [u \in SUBSET T |-> g[u]]
    OBVIOUS
  <2>. HIDE DEF g
  <2>. QED  BY <2>1, <2>2 DEF Table
<1>6. Table(f, T, TableOf(f, T))
  BY <1>5 DEF TableOf
<1>. QED  BY <1>6

-----------------------------------------------------------------------------
\* What the definition says: nothing sums up to 0, and a set to the element that
\* is taken first and the sum of the rest.
LEMMA SumEmpty == ASSUME NEW f PROVE SumFunctionOnSet(f, {}) = 0
<1>1. Table(f, {}, TableOf(f, {}))
  BY FS_EmptySet, TableExists
<1>2. TableOf(f, {})[{}] = 0
  BY <1>1 DEF Table
<1>. QED  BY <1>2, SumIsTable

LEMMA SumFirst ==
    ASSUME NEW f, NEW S, IsFiniteSet(S), S # {}
    PROVE  SumFunctionOnSet(f, S) = f[First(S)] + SumFunctionOnSet(f, Rest(S))
<1>1. Rest(S) \in SUBSET S /\ IsFiniteSet(Rest(S))
  BY RestSmaller, FS_Subset
<1>2. Table(f, S, TableOf(f, S)) /\ Table(f, Rest(S), TableOf(f, Rest(S)))
  BY <1>1, TableExists
<1>3. TableOf(f, Rest(S))[Rest(S)] = TableOf(f, S)[Rest(S)]
  BY <1>1, <1>2, TableUnique
<1>4. TableOf(f, S)[S] = f[First(S)] + TableOf(f, S)[Rest(S)]
  BY <1>2 DEF Table
<1>. QED  BY <1>3, <1>4, SumIsTable

\* A sum of numbers is one.
LEMMA SumType ==
    ASSUME NEW S, IsFiniteSet(S), NEW f, \A x \in S : f[x] \in Nat
    PROVE  SumFunctionOnSet(f, S) \in Nat
<1>. DEFINE B == {s \in SUBSET S : SumFunctionOnSet(f, s) \notin Nat}
<1>. SUFFICES ASSUME B # {} PROVE FALSE
  OBVIOUS
<1>1. B \in SUBSET (SUBSET S)
  OBVIOUS
<1>2. PICK s \in B : \A u \in SUBSET s : u # s => u \notin B
  <2>. HIDE DEF B
  <2>. QED  BY <1>1, LeastSubset
<1>3. CASE s = {}
  BY <1>3, SumEmpty
<1>4. CASE s # {}
  <2>1. First(s) \in S /\ Rest(s) \in SUBSET S /\ Rest(s) \notin B
    BY <1>2, <1>4, RestSmaller
  <2>2. SumFunctionOnSet(f, Rest(s)) \in Nat /\ f[First(s)] \in Nat
    BY <2>1
  <2>3. SumFunctionOnSet(f, s) = f[First(s)] + SumFunctionOnSet(f, Rest(s))
    BY <1>4, SumFirst, FS_Subset
  <2>. QED  BY <2>2, <2>3
<1>. QED  BY <1>3, <1>4

\* Whichever element is taken out, the sum is the same.
LEMMA SumTake ==
    ASSUME NEW S, IsFiniteSet(S), NEW f, \A x \in S : f[x] \in Nat, NEW a \in S
    PROVE  SumFunctionOnSet(f, S) = f[a] + SumFunctionOnSet(f, S \ {a})
<1>. DEFINE Splits(s, x) == SumFunctionOnSet(f, s) = f[x] + SumFunctionOnSet(f, s \ {x})
            B == {s \in SUBSET S : \E x \in s : ~Splits(s, x)}
<1>. SUFFICES ASSUME B # {} PROVE FALSE
  OBVIOUS
<1>1. B \in SUBSET (SUBSET S)
  OBVIOUS
<1>2. PICK s \in B : \A u \in SUBSET s : u # s => u \notin B
  <2>. HIDE DEF B
  <2>. QED  BY <1>1, LeastSubset
<1>3. PICK x \in s : ~Splits(s, x)
  OBVIOUS
<1>4. \A u \in SUBSET s : u # s => \A y \in u : Splits(u, y)
  BY <1>2
<1>. DEFINE y == First(s)
            both == (s \ {x}) \ {y}
<1>5. y \in s /\ SumFunctionOnSet(f, s) = f[y] + SumFunctionOnSet(f, s \ {y})
  BY RestSmaller, SumFirst, FS_Subset DEF Rest
<1>. HIDE DEF y
<1>6. x # y
  BY <1>3, <1>5
<1>7. SumFunctionOnSet(f, s \ {y}) = f[x] + SumFunctionOnSet(f, both)
  <2>1. both = (s \ {y}) \ {x}
    OBVIOUS
  <2>2. Splits(s \ {y}, x)
    BY <1>4, <1>5, <1>6
  <2>. QED  BY <2>1, <2>2
<1>8. SumFunctionOnSet(f, s \ {x}) = f[y] + SumFunctionOnSet(f, both)
  <2>1. Splits(s \ {x}, y)
    BY <1>4, <1>5, <1>6
  <2>. QED  BY <2>1
<1>9. f[x] \in Nat /\ f[y] \in Nat /\ SumFunctionOnSet(f, both) \in Nat
  <2>1. both \in SUBSET S /\ x \in S /\ y \in S
    BY <1>5
  <2>2. IsFiniteSet(both)
    BY <2>1, FS_Subset
  <2>. QED  BY <2>1, <2>2, SumType
<1>10. SumFunctionOnSet(f, s) = f[x] + SumFunctionOnSet(f, s \ {x})
  <2>. HIDE DEF both
  <2>. QED  BY <1>5, <1>7, <1>8, <1>9
<1>. QED  BY <1>3, <1>10

\* Only the values on the set matter.
LEMMA SumSame ==
    ASSUME NEW S, IsFiniteSet(S), NEW f, NEW g, \A x \in S : f[x] = g[x]
    PROVE  SumFunctionOnSet(f, S) = SumFunctionOnSet(g, S)
<1>. DEFINE B == {s \in SUBSET S : SumFunctionOnSet(f, s) # SumFunctionOnSet(g, s)}
<1>. SUFFICES ASSUME B # {} PROVE FALSE
  OBVIOUS
<1>1. B \in SUBSET (SUBSET S)
  OBVIOUS
<1>2. PICK s \in B : \A u \in SUBSET s : u # s => u \notin B
  <2>. HIDE DEF B
  <2>. QED  BY <1>1, LeastSubset
<1>3. CASE s = {}
  BY <1>3, SumEmpty
<1>4. CASE s # {}
  <2>1. First(s) \in S /\ Rest(s) \in SUBSET S /\ Rest(s) \notin B
    BY <1>2, <1>4, RestSmaller
  <2>2. /\ SumFunctionOnSet(f, s) = f[First(s)] + SumFunctionOnSet(f, Rest(s))
        /\ SumFunctionOnSet(g, s) = g[First(s)] + SumFunctionOnSet(g, Rest(s))
    BY <1>4, SumFirst, FS_Subset
  <2>. QED  BY <2>1, <2>2
<1>. QED  BY <1>3, <1>4

-----------------------------------------------------------------------------
(* SumFunction, of a function on a finite set.                             *)

\* No value exceeds the sum.
LEMMA SumBounds ==
    ASSUME NEW S, IsFiniteSet(S), NEW f \in [S -> Nat]
    PROVE  SumFunction(f) \in Nat /\ \A x \in S : f[x] <= SumFunction(f)
<1>1. SumFunction(f) = SumFunctionOnSet(f, S)
  BY DEF SumFunction
<1>2. \A x \in S : f[x] \in Nat
  OBVIOUS
<1>3. SumFunctionOnSet(f, S) \in Nat
  BY <1>2, SumType
<1>4. ASSUME NEW x \in S PROVE f[x] <= SumFunctionOnSet(f, S)
  <2>1. SumFunctionOnSet(f, S) = f[x] + SumFunctionOnSet(f, S \ {x})
    BY <1>2, SumTake
  <2>2. IsFiniteSet(S \ {x})
    BY FS_Subset
  <2>3. SumFunctionOnSet(f, S \ {x}) \in Nat
    BY <1>2, <2>2, SumType
  <2>. QED  BY <1>2, <2>1, <2>3
<1>. QED  BY <1>1, <1>3, <1>4

\* A change of one value changes the sum by as much.
LEMMA SumUpdate ==
    ASSUME NEW S, IsFiniteSet(S), NEW f \in [S -> Nat], NEW a \in S, NEW v \in Nat
    PROVE  SumFunction([f EXCEPT ![a] = v]) = SumFunction(f) - f[a] + v
<1>. DEFINE g == [f EXCEPT ![a] = v]
<1>1. g \in [S -> Nat] /\ g[a] = v /\ \A x \in S \ {a} : g[x] = f[x]
  OBVIOUS
<1>. HIDE DEF g
<1>2. IsFiniteSet(S \ {a})
  BY FS_Subset
<1>3. SumFunctionOnSet(g, S \ {a}) = SumFunctionOnSet(f, S \ {a})
  BY <1>1, <1>2, SumSame
<1>4. SumFunctionOnSet(f, S) = f[a] + SumFunctionOnSet(f, S \ {a})
  <2>1. \A x \in S : f[x] \in Nat
    OBVIOUS
  <2>. QED  BY <2>1, SumTake
<1>5. SumFunctionOnSet(g, S) = v + SumFunctionOnSet(g, S \ {a})
  <2>1. \A x \in S : g[x] \in Nat
    BY <1>1
  <2>. QED  BY <1>1, <2>1, SumTake
<1>6. SumFunctionOnSet(f, S \ {a}) \in Nat
  BY <1>2, SumType
<1>7. SumFunction(f) = SumFunctionOnSet(f, S) /\ SumFunction(g) = SumFunctionOnSet(g, S)
  BY <1>1 DEF SumFunction
<1>8. SumFunction(g) = SumFunction(f) - f[a] + v
  BY <1>3, <1>4, <1>5, <1>6, <1>7
<1>. QED  BY <1>8 DEF g

\* Zeros add up to zero.
LEMMA SumZero ==
    ASSUME NEW S, IsFiniteSet(S)
    PROVE  SumFunction([x \in S |-> 0]) = 0
<1>. DEFINE f == [x \in S |-> 0]
            B == {s \in SUBSET S : SumFunctionOnSet(f, s) # 0}
<1>1. B = {}
  <2>. SUFFICES ASSUME B # {} PROVE FALSE
    OBVIOUS
  <2>1. B \in SUBSET (SUBSET S)
    OBVIOUS
  <2>2. PICK s \in B : \A u \in SUBSET s : u # s => u \notin B
    <3>. HIDE DEF B
    <3>. QED  BY <2>1, LeastSubset
  <2>3. CASE s = {}
    BY <2>3, SumEmpty
  <2>4. CASE s # {}
    <3>1. First(s) \in S /\ Rest(s) \in SUBSET S /\ Rest(s) \notin B
      BY <2>2, <2>4, RestSmaller
    <3>2. f[First(s)] = 0
      BY <3>1
    <3>. HIDE DEF f
    <3>3. SumFunctionOnSet(f, s) = f[First(s)] + SumFunctionOnSet(f, Rest(s))
      BY <2>4, SumFirst, FS_Subset
    <3>. QED  BY <3>1, <3>2, <3>3
  <2>. QED  BY <2>3, <2>4
<1>2. SumFunction(f) = SumFunctionOnSet(f, S)
  BY DEF SumFunction
<1>3. SumFunctionOnSet(f, S) = 0
  BY <1>1
<1>. QED  BY <1>2, <1>3
=============================================================================
