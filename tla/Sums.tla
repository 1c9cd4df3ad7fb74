------------------------------- MODULE Sums -------------------------------
(***************************************************************************)
(* Sums over finite sets, for every finite set.  The fold of the library is *)
(* a recursive function; that it exists and what it adds up to is shown with *)
(* the least set for which it would not be so.                             *)
(***************************************************************************)
EXTENDS Naturals, FiniteSets, FiniteSetsExt, Functions, FiniteSetTheorems,
        WellFoundedInduction, TLAPS

\* The sum of the values of f on S, as the models write it.
SumOver(f, S) == MapThenSumSet(LAMBDA x : f[x], S)

\* The member that the fold takes first.
Pick(s) == CHOOSE x \in s : TRUE

\* g adds up f for every part of S.
Adds(g, f, S) ==
    g = [s \in SUBSET S |-> IF s = {} THEN 0 ELSE f[Pick(s)] + g[s \ {Pick(s)}]]

\* A sum is what the fold's summing function says.
LEMMA SumIsFold == \A f, S : SumOver(f, S) = (CHOOSE g : Adds(g, f, S))[S]
  BY DEF SumOver, MapThenSumSet, MapThenFoldSet, Adds, Pick

\* A set of naturals that is not empty has a least member.
LEMMA LeastNatural ==
    ASSUME NEW B \in SUBSET Nat, B # {}
    PROVE  \E n \in B : \A m \in B : n <= m
<1>1. PICK n \in B : \A m \in B : ~(<<m, n>> \in OpToRel(<, Nat))
  BY NatLessThanWellFounded, WFMin
<1>2. \A m \in B : ~(m < n)
  BY <1>1 DEF OpToRel
<1> QED
  BY <1>2

\* A set that is not empty has a member to take.
LEMMA PickIn == \A s : s # {} => Pick(s) \in s
  BY DEF Pick

\* A summing function at a part of its set.
LEMMA AddsValue ==
    ASSUME NEW f, NEW S, NEW g, Adds(g, f, S), NEW s \in SUBSET S
    PROVE  g[s] = IF s = {} THEN 0 ELSE f[Pick(s)] + g[s \ {Pick(s)}]
  BY DEF Adds

\* A finite set without a member has one member less.
LEMMA Smaller ==
    ASSUME NEW S, IsFiniteSet(S), NEW x \in S
    PROVE  /\ IsFiniteSet(S \ {x})
           /\ Cardinality(S) \in Nat /\ Cardinality(S \ {x}) \in Nat
           /\ Cardinality(S \ {x}) < Cardinality(S)
<1>1. /\ IsFiniteSet(S \ {x}) /\ Cardinality(S \ {x}) = Cardinality(S) - 1
  BY FS_RemoveElement
<1> QED
  BY <1>1, FS_CardinalityType

\* A set of finite sets that is not empty has one with fewest members.
LEMMA LeastSet ==
    ASSUME NEW F, F # {}, \A S \in F : IsFiniteSet(S)
    PROVE  \E S \in F : \A T \in F : Cardinality(S) <= Cardinality(T)
<1> DEFINE B == {Cardinality(S) : S \in F}
<1>1. B \in SUBSET Nat /\ B # {}
  BY FS_CardinalityType
<1>2. PICK n \in B : \A m \in B : n <= m
  BY <1>1, LeastNatural
<1> QED
  BY <1>2

\* What holds of a set when it holds of the set without any one of its
\* members holds of every part of a finite set: no least counterexample.
LEMMA SetInduction ==
    ASSUME NEW F, NEW A, IsFiniteSet(A),
           \A S \in SUBSET A : (\A x \in S : S \ {x} \in F) => S \in F
    PROVE  SUBSET A \subseteq F
<1> SUFFICES ASSUME (SUBSET A) \ F # {} PROVE FALSE
  OBVIOUS
<1>1. \A S \in (SUBSET A) \ F : IsFiniteSet(S)
  BY FS_Subset
<1>2. PICK S \in (SUBSET A) \ F : \A T \in (SUBSET A) \ F : Cardinality(S) <= Cardinality(T)
  BY <1>1, LeastSet
<1>3. S \in SUBSET A /\ S \notin F
  BY <1>2
<1>5. PICK x \in S : S \ {x} \notin F
  BY <1>3
<1>4. S \ {x} \in (SUBSET A) \ F
  BY <1>3, <1>5
<1>6. Cardinality(S) <= Cardinality(S \ {x})
  BY <1>2, <1>4
<1>7. IsFiniteSet(S)
  BY <1>3, FS_Subset
<1>8. /\ Cardinality(S) \in Nat /\ Cardinality(S \ {x}) \in Nat
      /\ Cardinality(S \ {x}) < Cardinality(S)
  BY <1>7, Smaller
<1> QED
  BY <1>6, <1>8

\* Two summing functions agree where both are defined.
LEMMA AddsUnique ==
    ASSUME NEW f, NEW S, IsFiniteSet(S), NEW T, NEW U, S \subseteq T, S \subseteq U,
           NEW g, NEW h, Adds(g, f, T), Adds(h, f, U)
    PROVE  g[S] = h[S]
<1> DEFINE F == {s \in SUBSET S : g[s] = h[s]}
<1>1. ASSUME NEW s \in SUBSET S, \A x \in s : s \ {x} \in F
      PROVE  s \in F
  <2>1. CASE s = {}
    <3>1. g[s] = 0 /\ h[s] = 0
      BY <2>1, AddsValue
    <3> QED
      BY <3>1
  <2>2. CASE s # {}
    <3>1. Pick(s) \in s
      BY <2>2, PickIn
    <3>2. g[s] = f[Pick(s)] + g[s \ {Pick(s)}]
      BY <2>2, AddsValue
    <3>3. h[s] = f[Pick(s)] + h[s \ {Pick(s)}]
      BY <2>2, AddsValue
    <3> QED
      BY <1>1, <3>1, <3>2, <3>3
  <2> QED
    BY <2>1, <2>2
<1>2. SUBSET S \subseteq F
  <2> HIDE DEF F
  <2> QED
    BY <1>1, SetInduction
<1> QED
  BY <1>2

\* A summing function of a set is one of every part of it.
LEMMA AddsBelow ==
    ASSUME NEW f, NEW T, NEW S, S \subseteq T, NEW g, Adds(g, f, T)
    PROVE  Adds([s \in SUBSET S |-> g[s]], f, S)
<1> DEFINE h == [s \in SUBSET S |-> g[s]]
<1>1. ASSUME NEW s \in SUBSET S
      PROVE  h[s] = IF s = {} THEN 0 ELSE f[Pick(s)] + h[s \ {Pick(s)}]
  BY AddsValue
<1> QED
  BY <1>1 DEF Adds

\* Where a summing function exists, the sum is what it says.
LEMMA SumValue ==
    ASSUME NEW f, NEW T, NEW g, Adds(g, f, T), NEW S, S \subseteq T, IsFiniteSet(S)
    PROVE  SumOver(f, S) = g[S]
<1> DEFINE h == CHOOSE k : Adds(k, f, S)
<1>1. Adds(h, f, S)
  BY AddsBelow
<1>2. h[S] = g[S]
  BY <1>1, AddsUnique
<1> QED
  BY <1>2, SumIsFold

\* Every finite set has a summing function.
LEMMA AddsExists ==
    ASSUME NEW f, NEW A, IsFiniteSet(A)
    PROVE  \A S \in SUBSET A : \E g : Adds(g, f, S)
<1> DEFINE F == {S \in SUBSET A : \E g : Adds(g, f, S)}
<1>1. ASSUME NEW S \in SUBSET A, \A x \in S : S \ {x} \in F
      PROVE  S \in F
  <2> DEFINE g == [s \in SUBSET S |-> IF s = {} THEN 0
                                       ELSE f[Pick(s)] + SumOver(f, s \ {Pick(s)})]
  <2>1. ASSUME NEW s \in SUBSET S, s # S
        PROVE  g[s] = SumOver(f, s)
    <3>1. PICK x \in S : x \notin s
      BY <2>1
    <3>2. PICK h : Adds(h, f, S \ {x})
      BY <1>1
    <3>3. s \subseteq S \ {x} /\ IsFiniteSet(s)
      BY <3>1, FS_Subset
    <3>4. SumOver(f, s) = h[s]
      BY <3>2, <3>3, SumValue
    <3>5. CASE s = {}
      BY <3>2, <3>4, <3>5, AddsValue
    <3>6. CASE s # {}
      <4>1. Pick(s) \in s /\ s \ {Pick(s)} \subseteq S \ {x} /\ IsFiniteSet(s \ {Pick(s)})
        BY <3>3, <3>6, PickIn, FS_Subset
      <4>2. SumOver(f, s \ {Pick(s)}) = h[s \ {Pick(s)}]
        BY <3>2, <4>1, SumValue
      <4>3. h[s] = f[Pick(s)] + h[s \ {Pick(s)}]
        BY <3>2, <3>3, <3>6, AddsValue
      <4> QED
        BY <3>4, <3>6, <4>2, <4>3
    <3> QED
      BY <3>5, <3>6
  <2>2. ASSUME NEW s \in SUBSET S, s # {}
        PROVE  g[s] = f[Pick(s)] + g[s \ {Pick(s)}]
    <3>1. Pick(s) \in s /\ s \ {Pick(s)} \in SUBSET S /\ s \ {Pick(s)} # S
      BY <2>2, PickIn
    <3>2. g[s \ {Pick(s)}] = SumOver(f, s \ {Pick(s)})
      BY <2>1, <3>1
    <3>3. g[s] = f[Pick(s)] + SumOver(f, s \ {Pick(s)})
      BY <2>2
    <3> QED
      BY <3>2, <3>3
  <2>3. g[{}] = 0
    OBVIOUS
  <2>4. g = [s \in SUBSET S |-> g[s]]
    OBVIOUS
  <2>5. Adds(g, f, S)
    <3> HIDE DEF g
    <3> QED
      BY <2>2, <2>3, <2>4 DEF Adds
  <2> QED
    BY <2>5
<1>2. SUBSET A \subseteq F
  <2> HIDE DEF F
  <2> QED
    BY <1>1, SetInduction
<1> QED
  BY <1>2

\* A sum is one member more than the sum of the others.
LEMMA SumStep ==
    ASSUME NEW f, NEW S, IsFiniteSet(S), S # {}
    PROVE  SumOver(f, S) = f[Pick(S)] + SumOver(f, S \ {Pick(S)})
<1>1. PICK g : Adds(g, f, S)
  BY AddsExists
<1>2. SumOver(f, S) = g[S]
  BY <1>1, SumValue
<1>3. SumOver(f, S \ {Pick(S)}) = g[S \ {Pick(S)}]
  BY <1>1, SumValue, FS_Subset
<1> QED
  BY <1>1, <1>2, <1>3, AddsValue

\* Nothing adds up to zero.
LEMMA SumEmpty == \A f : SumOver(f, {}) = 0
<1> SUFFICES ASSUME NEW f PROVE SumOver(f, {}) = 0
  OBVIOUS
<1>1. IsFiniteSet({})
  BY FS_EmptySet
<1>2. PICK g : Adds(g, f, {})
  BY <1>1, AddsExists
<1>3. SumOver(f, {}) = g[{}]
  BY <1>1, <1>2, SumValue
<1> QED
  BY <1>2, <1>3, AddsValue

\* Naturals add up to a natural.
LEMMA SumNat ==
    ASSUME NEW S, IsFiniteSet(S), NEW f, \A x \in S : f[x] \in Nat
    PROVE  SumOver(f, S) \in Nat
<1> DEFINE F == {s \in SUBSET S : SumOver(f, s) \in Nat}
<1>1. ASSUME NEW s \in SUBSET S, \A x \in s : s \ {x} \in F
      PROVE  s \in F
  <2>1. CASE s = {}
    BY <2>1, SumEmpty
  <2>2. CASE s # {}
    <3>1. Pick(s) \in s /\ IsFiniteSet(s)
      BY <2>2, PickIn, FS_Subset
    <3>2. SumOver(f, s) = f[Pick(s)] + SumOver(f, s \ {Pick(s)})
      BY <2>2, <3>1, SumStep
    <3>3. f[Pick(s)] \in Nat /\ SumOver(f, s \ {Pick(s)}) \in Nat
      BY <1>1, <3>1
    <3> QED
      BY <3>2, <3>3
  <2> QED
    BY <2>1, <2>2
<1>2. SUBSET S \subseteq F
  <2> HIDE DEF F
  <2> QED
    BY <1>1, SetInduction
<1> QED
  BY <1>2

\* Any member may be taken first.
LEMMA SumRemove ==
    ASSUME NEW S, IsFiniteSet(S), NEW f, \A x \in S : f[x] \in Nat, NEW y \in S
    PROVE  SumOver(f, S) = f[y] + SumOver(f, S \ {y})
<1> DEFINE F == {s \in SUBSET S : \A x \in s : SumOver(f, s) = f[x] + SumOver(f, s \ {x})}
<1>1. ASSUME NEW s \in SUBSET S, \A x \in s : s \ {x} \in F
      PROVE  s \in F
  <2> SUFFICES ASSUME NEW x \in s
               PROVE  SumOver(f, s) = f[x] + SumOver(f, s \ {x})
    OBVIOUS
  <2>1. Pick(s) \in s /\ IsFiniteSet(s)
    BY PickIn, FS_Subset
  <2>2. SumOver(f, s) = f[Pick(s)] + SumOver(f, s \ {Pick(s)})
    BY <2>1, SumStep
  <2>3. CASE x = Pick(s)
    BY <2>2, <2>3
  <2>4. CASE x # Pick(s)
    <3> DEFINE c == Pick(s)
               r == (s \ {c}) \ {x}
    <3>1. SumOver(f, s \ {c}) = f[x] + SumOver(f, r)
      BY <1>1, <2>1, <2>4
    <3>2. SumOver(f, s \ {x}) = f[c] + SumOver(f, (s \ {x}) \ {c})
      BY <1>1, <2>1, <2>4
    <3>3. (s \ {x}) \ {c} = r
      OBVIOUS
    <3>4. f[x] \in Nat /\ f[c] \in Nat
      BY <2>1
    <3>5. SumOver(f, r) \in Nat
      BY <2>1, FS_Subset, SumNat
    <3> HIDE DEF r, c
    <3>6. SumOver(f, s) = f[c] + SumOver(f, s \ {c})
      BY <2>2 DEF c
    <3> QED
      BY <3>1, <3>2, <3>3, <3>4, <3>5, <3>6
  <2> QED
    BY <2>3, <2>4
<1>2. SUBSET S \subseteq F
  <2> HIDE DEF F
  <2> QED
    BY <1>1, SetInduction
<1> QED
  BY <1>2

\* A sum of smaller values is no greater.
LEMMA SumMonotone ==
    ASSUME NEW S, IsFiniteSet(S), NEW f, NEW g,
           \A x \in S : f[x] \in Nat /\ g[x] \in Nat /\ f[x] <= g[x]
    PROVE  SumOver(f, S) <= SumOver(g, S)
<1> DEFINE F == {s \in SUBSET S : SumOver(f, s) <= SumOver(g, s)}
<1>1. ASSUME NEW s \in SUBSET S, \A x \in s : s \ {x} \in F
      PROVE  s \in F
  <2>1. CASE s = {}
    BY <2>1, SumEmpty
  <2>2. CASE s # {}
    <3>1. Pick(s) \in s /\ IsFiniteSet(s)
      BY <2>2, PickIn, FS_Subset
    <3>2. SumOver(f, s) = f[Pick(s)] + SumOver(f, s \ {Pick(s)})
      BY <2>2, <3>1, SumStep
    <3>3. SumOver(g, s) = g[Pick(s)] + SumOver(g, s \ {Pick(s)})
      BY <2>2, <3>1, SumStep
    <3>4. SumOver(f, s \ {Pick(s)}) \in Nat /\ SumOver(g, s \ {Pick(s)}) \in Nat
      BY <3>1, FS_Subset, SumNat
    <3>5. SumOver(f, s \ {Pick(s)}) <= SumOver(g, s \ {Pick(s)})
      BY <1>1, <3>1
    <3>6. f[Pick(s)] \in Nat /\ g[Pick(s)] \in Nat /\ f[Pick(s)] <= g[Pick(s)]
      BY <3>1
    <3> QED
      BY <3>2, <3>3, <3>4, <3>5, <3>6
  <2> QED
    BY <2>1, <2>2
<1>2. SUBSET S \subseteq F
  <2> HIDE DEF F
  <2> QED
    BY <1>1, SetInduction
<1> QED
  BY <1>2

\* The sum is that of the values it adds.
LEMMA SumSame ==
    ASSUME NEW S, IsFiniteSet(S), NEW f, NEW g,
           \A x \in S : f[x] \in Nat /\ g[x] = f[x]
    PROVE  SumOver(f, S) = SumOver(g, S)
<1>1. SumOver(f, S) <= SumOver(g, S) /\ SumOver(g, S) <= SumOver(f, S)
  BY SumMonotone
<1> QED
  BY <1>1, SumNat

\* What one member gains, the sum gains.
LEMMA SumChange ==
    ASSUME NEW S, IsFiniteSet(S), NEW f, NEW g, NEW y \in S,
           \A x \in S : f[x] \in Nat /\ g[x] \in Nat,
           \A x \in S \ {y} : g[x] = f[x]
    PROVE  SumOver(g, S) = SumOver(f, S) - f[y] + g[y]
<1>1. SumOver(f, S) = f[y] + SumOver(f, S \ {y})
  BY SumRemove
<1>2. SumOver(g, S) = g[y] + SumOver(g, S \ {y})
  BY SumRemove
<1>3. IsFiniteSet(S \ {y})
  BY FS_Subset
<1>4. SumOver(f, S \ {y}) = SumOver(g, S \ {y}) /\ SumOver(f, S \ {y}) \in Nat
  BY <1>3, SumSame, SumNat
<1> QED
  BY <1>1, <1>2, <1>4
\* What adds nothing may be left out.
LEMMA SumSupport ==
    ASSUME NEW S, IsFiniteSet(S), NEW T, T \subseteq S, NEW f,
           \A x \in S : f[x] \in Nat, \A x \in S \ T : f[x] = 0
    PROVE  SumOver(f, S) = SumOver(f, T)
<1>0. PICK U : U = S \ T /\ IsFiniteSet(U)
  BY FS_Subset
<1> DEFINE F == {s \in SUBSET U : SumOver(f, T \cup s) = SumOver(f, T)}
<1>1. ASSUME NEW s \in SUBSET U, \A x \in s : s \ {x} \in F
      PROVE  s \in F
  <2>1. CASE s = {}
    <3>1. T \cup s = T
      BY <2>1
    <3> QED
      BY <3>1
  <2>2. CASE s # {}
    <3>1. PICK x \in s : TRUE
      BY <2>2
    <3>2. IsFiniteSet(T \cup s) /\ x \in T \cup s /\ x \in S \ T
      BY <1>0, FS_Subset
    <3>3. SumOver(f, T \cup s) = f[x] + SumOver(f, (T \cup s) \ {x})
      <4>1. PICK V : V = T \cup s
        OBVIOUS
      <4>2. IsFiniteSet(V) /\ x \in V /\ \A y \in V : f[y] \in Nat
        BY <1>0, <3>2, <4>1
      <4>3. SumOver(f, V) = f[x] + SumOver(f, V \ {x})
        BY <4>2, SumRemove
      <4> QED
        BY <4>1, <4>3
    <3>4. (T \cup s) \ {x} = T \cup (s \ {x})
      BY <3>2
    <3>5. SumOver(f, T \cup (s \ {x})) = SumOver(f, T)
      BY <1>1
    <3>6. SumOver(f, T) \in Nat
      BY FS_Subset, SumNat
    <3> QED
      BY <3>2, <3>3, <3>4, <3>5, <3>6
  <2> QED
    BY <2>1, <2>2
<1>2. SUBSET U \subseteq F
  <2> HIDE DEF F
  <2>1. \A s \in SUBSET U : (\A x \in s : s \ {x} \in F) => s \in F
    BY <1>1
  <2>2. IsFiniteSet(U)
    BY <1>0
  <2> QED
    BY <2>1, <2>2, SetInduction, Zenon
<1>3. U \in F /\ T \cup U = S
  BY <1>0, <1>2
<1> QED
  BY <1>3

\* A part adds up to no more than the whole.
LEMMA SumPart ==
    ASSUME NEW S, IsFiniteSet(S), NEW T, T \subseteq S, NEW f, \A x \in S : f[x] \in Nat
    PROVE  SumOver(f, T) <= SumOver(f, S)
<1> DEFINE g == [x \in S |-> IF x \in T THEN f[x] ELSE 0]
<1>1. \A x \in S : g[x] \in Nat /\ g[x] <= f[x]
  OBVIOUS
<1>2. \A x \in S \ T : g[x] = 0
  OBVIOUS
<1>3. \A x \in T : f[x] \in Nat /\ g[x] = f[x]
  OBVIOUS
<1> HIDE DEF g
<1>4. SumOver(g, S) <= SumOver(f, S)
  BY <1>1, SumMonotone
<1>5. SumOver(g, S) = SumOver(g, T)
  BY <1>1, <1>2, SumSupport
<1>6. SumOver(f, T) = SumOver(g, T)
  BY <1>3, FS_Subset, SumSame
<1> QED
  BY <1>4, <1>5, <1>6

\* What each member of A adds, a member of B of its own adds at least.
LEMMA SumInjective ==
    ASSUME NEW A, IsFiniteSet(A), NEW B, IsFiniteSet(B), NEW f, NEW g, NEW h \in [A -> B],
           \A x, y \in A : h[x] = h[y] => x = y,
           \A x \in A : f[x] \in Nat /\ f[x] <= g[h[x]],
           \A y \in B : g[y] \in Nat
    PROVE  SumOver(f, A) <= SumOver(g, B)
<1> DEFINE Image(s) == {h[x] : x \in s}
           F == {s \in SUBSET A : SumOver(f, s) <= SumOver(g, Image(s))}
<1>1. ASSUME NEW s \in SUBSET A, \A x \in s : s \ {x} \in F
      PROVE  s \in F
  <2>1. CASE s = {}
    <3>1. Image(s) = {}
      BY <2>1
    <3> QED
      BY <2>1, <3>1, SumEmpty
  <2>2. CASE s # {}
    <3>1. PICK x \in s : TRUE
      BY <2>2
    <3>2. IsFiniteSet(s) /\ Image(s) \subseteq B /\ h[x] \in Image(s)
      BY FS_Subset
    <3>3. IsFiniteSet(Image(s))
      BY <3>2, FS_Subset
    <3>4. SumOver(f, s) = f[x] + SumOver(f, s \ {x})
      BY <3>2, SumRemove
    <3>5. SumOver(g, Image(s)) = g[h[x]] + SumOver(g, Image(s) \ {h[x]})
      BY <3>2, <3>3, SumRemove
    <3>6. Image(s) \ {h[x]} = Image(s \ {x})
      OBVIOUS
    <3>7. SumOver(f, s \ {x}) <= SumOver(g, Image(s \ {x}))
      BY <1>1
    <3>8. SumOver(f, s \ {x}) \in Nat
      BY <3>2, FS_Subset, SumNat
    <3>9. SumOver(g, Image(s) \ {h[x]}) \in Nat
      BY <3>2, <3>3, FS_Subset, SumNat
    <3>10. f[x] \in Nat /\ g[h[x]] \in Nat /\ f[x] <= g[h[x]]
      OBVIOUS
    <3> HIDE DEF Image
    <3> QED
      BY <3>4, <3>5, <3>6, <3>7, <3>8, <3>9, <3>10
  <2> QED
    BY <2>1, <2>2
<1>2. SUBSET A \subseteq F
  <2> HIDE DEF F
  <2> QED
    BY <1>1, SetInduction
<1>3. SumOver(f, A) <= SumOver(g, Image(A))
  BY <1>2
<1>4. Image(A) \subseteq B
  OBVIOUS
<1> HIDE DEF Image
<1>5. SumOver(g, Image(A)) <= SumOver(g, B)
  BY <1>4, SumPart
<1>6. SumOver(f, A) \in Nat /\ SumOver(g, B) \in Nat /\ SumOver(g, Image(A)) \in Nat
  BY <1>4, FS_Subset, SumNat
<1> QED
  BY <1>3, <1>5, <1>6

\* The other way the library writes a sum.
LEMMA SumFunctionIsSum == \A f : SumFunction(f) = SumOver(f, DOMAIN f)
  BY DEF SumFunction, SumFunctionOnSet, FoldFunctionOnSet, SumOver, MapThenSumSet
=============================================================================
