----------------------------- MODULE FoldLemmas -----------------------------
(***************************************************************************)
(* What the folds compute that the models use: the sum of a function over  *)
(* a finite set, and what a query selects.  The library defines them by    *)
(* recursion; what they compute is proved by induction, in the form of     *)
(* least counterexamples.                                                  *)
(***************************************************************************)
EXTENDS Selection, Integers, FiniteSets, Functions, FiniteSetTheorems, SequenceTheorems,
        NaturalsInduction, TLAPS

-----------------------------------------------------------------------------
(* Sums.  A sum of natural numbers counts the units they are made of.      *)

\* The units of which the values of f on S are made.
UnitsOf(f, x) == {x} \X (0 .. f[x] - 1)
Units(f, S) == UNION {UnitsOf(f, x) : x \in S}

\* A set of one with a set of n.
LEMMA OneTimes ==
    ASSUME NEW n \in Nat, NEW S, NEW T, IsFiniteSet(S), IsFiniteSet(T),
           Cardinality(S) = 1, Cardinality(T) = n
    PROVE  IsFiniteSet(S \X T) /\ Cardinality(S \X T) = n
<1>1. IsFiniteSet(S \X T) /\ Cardinality(S \X T) = Cardinality(S) * Cardinality(T)
  BY FS_Product
<1>2. 1 * n = n
  OBVIOUS
<1>3. QED
  BY <1>1, <1>2

\* f(x) units belong to x.
LEMMA UnitsOfOne ==
    ASSUME NEW D, NEW f \in [D -> Nat], NEW x \in D
    PROVE  IsFiniteSet(UnitsOf(f, x)) /\ Cardinality(UnitsOf(f, x)) = f[x]
<1>1. f[x] \in Nat /\ f[x] - 1 \in Int
  OBVIOUS
<1>2. IsFiniteSet(0 .. f[x] - 1) /\ Cardinality(0 .. f[x] - 1) = f[x]
  BY <1>1, FS_Interval
<1>3. IsFiniteSet({x}) /\ Cardinality({x}) = 1
  BY FS_Singleton
<1>4. QED
  BY <1>1, <1>2, <1>3, OneTimes, Zenon DEF UnitsOf

LEMMA UnitsFinite ==
    ASSUME NEW D, NEW f \in [D -> Nat], NEW S \in SUBSET D, IsFiniteSet(S)
    PROVE  IsFiniteSet(Units(f, S))
<1> DEFINE h == [x \in S |-> UnitsOf(f, x)]
           T == {UnitsOf(f, x) : x \in S}
<1>1. h \in Surjection(S, T)
  BY DEF Surjection
<1>2. IsFiniteSet(T)
  BY <1>1, FS_Surjection
<1>3. \A U \in T : IsFiniteSet(U)
  BY UnitsOfOne
<1>4. QED
  BY <1>2, <1>3, FS_UNION DEF Units

\* Taking one element out.
LEMMA UnitsRemove ==
    ASSUME NEW D, NEW f \in [D -> Nat], NEW S \in SUBSET D, IsFiniteSet(S), NEW x \in S
    PROVE  Cardinality(Units(f, S)) = f[x] + Cardinality(Units(f, S \ {x}))
<1>1. S \ {x} \in SUBSET D /\ IsFiniteSet(S \ {x})
  BY FS_RemoveElement
<1>2. Units(f, S) = UnitsOf(f, x) \cup Units(f, S \ {x})
  BY DEF Units
<1>3. UnitsOf(f, x) \cap Units(f, S \ {x}) = {}
  BY DEF Units, UnitsOf
<1>4. IsFiniteSet(UnitsOf(f, x)) /\ Cardinality(UnitsOf(f, x)) = f[x]
  BY UnitsOfOne
<1>5. IsFiniteSet(Units(f, S \ {x})) /\ Cardinality(Units(f, S \ {x})) \in Nat
  BY <1>1, UnitsFinite, FS_CardinalityType
<1>6. Cardinality({}) = 0
  BY FS_EmptySet
<1>7. f[x] \in Nat
  OBVIOUS
<1> DEFINE U == UnitsOf(f, x)
           V == Units(f, S \ {x})
<1>8. Cardinality(U \cup V) = Cardinality(U) + Cardinality(V) - Cardinality(U \cap V)
  <2> HIDE DEF U, V
  <2> QED  BY <1>4, <1>5, FS_Union DEF U, V
<1>9. Units(f, S) = U \cup V /\ U \cap V = {}
  BY <1>2, <1>3
<1>10. Cardinality(U \cup V) = Cardinality(U) + Cardinality(V)
  <2> HIDE DEF U, V
  <2>1. Cardinality(U) \in Nat /\ Cardinality(V) \in Nat
    BY <1>4, <1>5, <1>7 DEF U, V
  <2>2. Cardinality(U \cap V) = 0
    BY <1>6, <1>9, Zenon
  <2> QED  BY <2>1, <2>2, <1>8
<1>11. QED
  BY <1>4, <1>9, <1>10, Zenon

LEMMA UnitsEmpty ==
    ASSUME NEW f PROVE Cardinality(Units(f, {})) = 0
BY FS_EmptySet DEF Units

\* The library's sum of f over a finite set counts its units.
LEMMA SumCounts ==
    ASSUME NEW D, NEW f \in [D -> Nat], NEW S \in SUBSET D, IsFiniteSet(S)
    PROVE  SumFunctionOnSet(f, S) = Cardinality(Units(f, S))
<1> DEFINE Recursive(g) ==
        g = [s \in SUBSET S |-> IF s = {} THEN 0
                                ELSE f[CHOOSE x \in s : TRUE] + g[s \ {CHOOSE x \in s : TRUE}]]
           iter == CHOOSE g : Recursive(g)
           count == [s \in SUBSET S |-> Cardinality(Units(f, s))]
<1>1. SumFunctionOnSet(f, S) = iter[S]
  BY DEF SumFunctionOnSet, FoldFunctionOnSet, MapThenFoldSet
<1>2. Recursive(count)
  <2>1. ASSUME NEW s \in SUBSET S
        PROVE  Cardinality(Units(f, s)) =
                 IF s = {} THEN 0
                 ELSE f[CHOOSE x \in s : TRUE] + count[s \ {CHOOSE x \in s : TRUE}]
    <3>1. CASE s = {}
      BY <3>1, UnitsEmpty
    <3>2. CASE s # {}
      <4>1. PICK x : x = (CHOOSE y \in s : TRUE)
        OBVIOUS
      <4>2. x \in s
        BY <3>2, <4>1
      <4>3. s \in SUBSET D /\ IsFiniteSet(s)
        BY FS_Subset
      <4>4. Cardinality(Units(f, s)) = f[x] + Cardinality(Units(f, s \ {x}))
        BY <4>2, <4>3, UnitsRemove
      <4>5. QED
        BY <3>2, <4>1, <4>4
    <3>3. QED
      BY <3>1, <3>2
  <2>2. QED
    BY <2>1
<1>3. Recursive(iter)
  BY <1>2
<1>4. iter = count
  <2> DEFINE Bad == {s \in SUBSET S : iter[s] # count[s]}
  <2>1. SUFFICES ASSUME Bad # {} PROVE FALSE
    <3>1. iter = [s \in SUBSET S |-> iter[s]]
      BY <1>3
    <3>2. QED
      BY <3>1
  <2>2. IsWellFoundedOn(StrictSubsetOrdering(S), FiniteSubsetsOf(S)) /\ FiniteSubsetsOf(S) = SUBSET S
    BY FS_StrictSubsetOrderingWellFounded, FS_FiniteSubsetsOfFinite
  <2>3. PICK s \in Bad : \A t \in Bad : <<t, s>> \notin StrictSubsetOrdering(S)
    <3> DEFINE R == StrictSubsetOrdering(S)
               W == SUBSET S
    <3>1. IsWellFoundedOn(R, W) /\ Bad \subseteq W /\ Bad # {}
      BY <2>1, <2>2
    <3> HIDE DEF Bad, R, W
    <3>2. \E s \in Bad : \A t \in Bad : ~(<<t, s>> \in R)
      BY <3>1, WFMin
    <3>3. QED
      BY <3>2 DEF R
  <2>4. CASE s = {}
    <3>1. iter[s] = 0 /\ count[s] = 0
      BY <1>2, <1>3, <2>4
    <3>2. QED
      BY <2>3, <3>1
  <2>5. CASE s # {}
    <3>1. PICK x : x = (CHOOSE y \in s : TRUE)
      OBVIOUS
    <3>2. x \in s /\ s \ {x} \in SUBSET S /\ s \ {x} # s
      BY <2>5, <3>1
    <3>3. <<s \ {x}, s>> \in StrictSubsetOrdering(S)
      BY <3>2 DEF StrictSubsetOrdering
    <3>4. iter[s \ {x}] = count[s \ {x}]
      BY <2>3, <3>2, <3>3
    <3>5. ASSUME NEW g, Recursive(g) PROVE g[s] = f[x] + g[s \ {x}]
      <4>1. s \in SUBSET S
        BY <2>3
      <4>2. g[s] = IF s = {} THEN 0
                   ELSE f[CHOOSE y \in s : TRUE] + g[s \ {CHOOSE y \in s : TRUE}]
        BY <3>5, <4>1
      <4>3. QED
        BY <2>5, <3>1, <4>2
    <3>6. QED
      <4> HIDE DEF Recursive, iter, count
      <4> QED  BY <1>2, <1>3, <2>3, <3>4, <3>5
  <2>6. QED
    BY <2>4, <2>5
<1>5. QED
  BY <1>1, <1>4

\* What follows for the sum.
LEMMA SumType ==
    ASSUME NEW D, NEW f \in [D -> Nat], NEW S \in SUBSET D, IsFiniteSet(S)
    PROVE  SumFunctionOnSet(f, S) \in Nat
BY SumCounts, UnitsFinite, FS_CardinalityType

LEMMA SumEmpty ==
    ASSUME NEW D, NEW f \in [D -> Nat] PROVE SumFunctionOnSet(f, {}) = 0
<1>1. {} \in SUBSET D /\ IsFiniteSet({})
  BY FS_EmptySet
<1>2. QED
  BY <1>1, SumCounts, UnitsEmpty

LEMMA SumRemove ==
    ASSUME NEW D, NEW f \in [D -> Nat], NEW S \in SUBSET D, IsFiniteSet(S), NEW x \in S
    PROVE  SumFunctionOnSet(f, S) = f[x] + SumFunctionOnSet(f, S \ {x})
<1>1. S \ {x} \in SUBSET D /\ IsFiniteSet(S \ {x})
  BY FS_RemoveElement
<1>2. QED
  BY <1>1, SumCounts, UnitsRemove

LEMMA SumAgrees ==
    ASSUME NEW D, NEW f \in [D -> Nat], NEW E, NEW g \in [E -> Nat],
           NEW S \in SUBSET (D \cap E), IsFiniteSet(S), \A x \in S : f[x] = g[x]
    PROVE  SumFunctionOnSet(f, S) = SumFunctionOnSet(g, S)
<1>1. Units(f, S) = Units(g, S)
  BY DEF Units, UnitsOf
<1>2. S \in SUBSET D /\ S \in SUBSET E
  OBVIOUS
<1>3. QED
  BY <1>1, <1>2, SumCounts

\* One value changes.
LEMMA SumDiffers ==
    ASSUME NEW D, IsFiniteSet(D), NEW f \in [D -> Nat], NEW g \in [D -> Nat], NEW x \in D,
           \A y \in D \ {x} : g[y] = f[y]
    PROVE  SumFunctionOnSet(g, D) = SumFunctionOnSet(f, D) - f[x] + g[x]
<1>1. SumFunctionOnSet(f, D) = f[x] + SumFunctionOnSet(f, D \ {x})
  BY SumRemove
<1>2. SumFunctionOnSet(g, D) = g[x] + SumFunctionOnSet(g, D \ {x})
  BY SumRemove
<1>3. IsFiniteSet(D \ {x}) /\ D \ {x} \in SUBSET (D \cap D)
  BY FS_RemoveElement
<1>4. SumFunctionOnSet(g, D \ {x}) = SumFunctionOnSet(f, D \ {x})
  BY <1>3, SumAgrees
<1>5. SumFunctionOnSet(f, D \ {x}) \in Nat /\ f[x] \in Nat /\ g[x] \in Nat
  BY <1>3, SumType
<1>6. QED
  BY <1>1, <1>2, <1>4, <1>5

\* Nothing but zeros.
LEMMA SumZero ==
    ASSUME NEW D, NEW f \in [D -> Nat], NEW S \in SUBSET D, IsFiniteSet(S), \A x \in S : f[x] = 0
    PROVE  SumFunctionOnSet(f, S) = 0
<1>1. Units(f, S) = {}
  <2>1. \A x \in S : UnitsOf(f, x) = {}
    BY DEF UnitsOf
  <2>2. QED
    BY <2>1 DEF Units
<1>2. QED
  BY <1>1, SumCounts, FS_EmptySet

\* A part of a sum is no more than the whole.
LEMMA SumOfPart ==
    ASSUME NEW D, NEW f \in [D -> Nat], NEW T \in SUBSET D, IsFiniteSet(T), NEW S \in SUBSET T
    PROVE  SumFunctionOnSet(f, S) <= SumFunctionOnSet(f, T)
<1>1. S \in SUBSET D /\ IsFiniteSet(S)
  BY FS_Subset
<1>2. Units(f, S) \subseteq Units(f, T) /\ IsFiniteSet(Units(f, T))
  BY UnitsFinite DEF Units
<1>3. Cardinality(Units(f, S)) <= Cardinality(Units(f, T))
  BY <1>2, FS_Subset
<1>4. QED
  BY <1>1, <1>3, SumCounts

\* A sum of values up to k.
LEMMA SumBound ==
    ASSUME NEW D, IsFiniteSet(D), NEW f \in [D -> Nat], NEW k \in Nat, \A x \in D : f[x] <= k
    PROVE  SumFunctionOnSet(f, D) <= k * Cardinality(D)
<1> DEFINE all == D \X (0 .. k - 1)
<1>1. IsFiniteSet(0 .. k - 1) /\ Cardinality(0 .. k - 1) = k
  BY FS_Interval
<1>2. IsFiniteSet(all) /\ Cardinality(all) = Cardinality(D) * k
  BY <1>1, FS_Product
<1>3. Units(f, D) \subseteq all
  <2>1. ASSUME NEW x \in D PROVE UnitsOf(f, x) \subseteq all
    <3>1. f[x] \in Nat /\ f[x] <= k
      OBVIOUS
    <3>2. 0 .. f[x] - 1 \subseteq 0 .. k - 1
      BY <3>1
    <3>3. QED
      BY <3>2 DEF UnitsOf
  <2>2. QED
    BY <2>1 DEF Units
<1>4. Cardinality(Units(f, D)) <= Cardinality(all)
  <2> HIDE DEF all
  <2> QED  BY <1>2, <1>3, FS_Subset
<1>5. Cardinality(D) \in Nat /\ Cardinality(D) * k = k * Cardinality(D)
  <2>1. Cardinality(D) \in Nat
    BY FS_CardinalityType
  <2>2. \A a, b \in Nat : a * b = b * a
    OBVIOUS
  <2>3. QED
    BY <2>1, <2>2
<1>6. SumFunctionOnSet(f, D) = Cardinality(Units(f, D))
  BY SumCounts
<1>7. QED
  <2> HIDE DEF all
  <2> QED  BY <1>2, <1>4, <1>5, <1>6, Zenon

-----------------------------------------------------------------------------
(* Selections.                                                             *)

\* Induction, for sets of natural numbers.
LEMMA SmallestNumber ==
    ASSUME NEW N \in SUBSET Nat, N # {}
    PROVE  \E n \in N : \A m \in N : n <= m
<1>1. IsWellFoundedOn(OpToRel(<,Nat), Nat)
  BY NatLessThanWellFounded
<1> DEFINE R == OpToRel(<,Nat)
<1>2. \E n \in N : \A m \in N : ~(<<m, n>> \in R)
  <2> HIDE DEF R
  <2> QED  BY <1>1, WFMin DEF R
<1>3. \A m, n \in Nat : <<m, n>> \in R <=> m < n
  BY Zenon DEF OpToRel
<1> HIDE DEF R
<1>4. PICK n \in N : \A m \in N : ~(<<m, n>> \in R)
  BY <1>2
<1>5. \A m \in N : ~(m < n) /\ m \in Nat /\ n \in Nat
  BY <1>3, <1>4
<1>6. \A m \in N : n <= m
  BY <1>5
<1>7. QED
  BY <1>6

\* The first B of a finite set of numbers: no more than B, and none only if
\* there is nothing to choose from.
LEMMA FirstFew ==
    ASSUME NEW S \in SUBSET Nat, IsFiniteSet(S), NEW B \in Nat \ {0}, NEW F,
           F = {r \in S : Cardinality({q \in S : q < r}) < B}
    PROVE  /\ IsFiniteSet(F) /\ Cardinality(F) \in Nat /\ Cardinality(F) <= B
           /\ F = {} => S = {}
<1> DEFINE Below(r) == {q \in S : q < r}
<1>0. \A r, s \in S : /\ r \in Int /\ (r # s => r < s \/ s < r) /\ ~(r < r)
                     /\ \A q \in S : q < r /\ r < s => q < s
  OBVIOUS
<1>1. \A r \in S : IsFiniteSet(Below(r)) /\ Cardinality(Below(r)) \in Nat
  BY FS_Subset, FS_CardinalityType
<1>2. ASSUME NEW r \in S, NEW s \in S, r < s
      PROVE  Cardinality(Below(r)) # Cardinality(Below(s))
  <2>1. Below(r) \subseteq Below(s) /\ r \in Below(s) /\ r \notin Below(r)
    BY <1>0, <1>2, Zenon
  <2>2. QED
    BY <1>1, <2>1, FS_Subset
<1>3. IsFiniteSet(F) /\ Cardinality(F) \in Nat
  BY FS_Subset, FS_CardinalityType
<1>4. Cardinality(F) <= B
  <2> DEFINE rank == [r \in F |-> Cardinality(Below(r))]
  <2>1. rank \in [F -> 0 .. B - 1]
    <3>1. ASSUME NEW r \in F PROVE Cardinality(Below(r)) \in 0 .. B - 1
      <4>1. PICK n : n = Cardinality(Below(r))
        OBVIOUS
      <4>2. n \in Nat /\ n < B
        BY <1>1, <4>1, Zenon
      <4>3. QED
        BY <4>1, <4>2
    <3>2. QED
      BY <3>1, Zenon
  <2>2. \A r, s \in F : rank[r] = rank[s] => r = s
    <3> SUFFICES ASSUME NEW r \in F, NEW s \in F, r # s PROVE rank[r] # rank[s]
      OBVIOUS
    <3>1. r \in S /\ s \in S /\ (r < s \/ s < r)
      BY <1>0
    <3>2. QED
      BY <1>2, <3>1, Zenon
  <2>3. IsFiniteSet(0 .. B - 1) /\ Cardinality(0 .. B - 1) = B
    BY FS_Interval
  <2>4. PICK f : f = rank
    OBVIOUS
  <2>5. f \in Injection(F, 0 .. B - 1)
    BY <2>1, <2>2, <2>4, Zenon DEF Injection, IsInjective
  <2>6. QED
    BY <2>3, <2>5, FS_Injection
<1>5. ASSUME S # {} PROVE F # {}
  <2>1. PICK r \in S : \A q \in S : r <= q
    BY <1>5, SmallestNumber
  <2>2. Below(r) = {}
    <3>1. \A q \in S : ~(q < r)
      BY <2>1
    <3>2. QED
      BY <3>1, Zenon
  <2>3. Cardinality(Below(r)) < B
    BY <2>2, FS_EmptySet
  <2>4. QED
    BY <2>3
<1>6. QED
  BY <1>3, <1>4, <1>5

LEMMA MaxOfInterval ==
    ASSUME NEW n \in Nat, NEW S \in SUBSET (1 .. n), n \in S
    PROVE  Max(S) = n
<1>1. \A y \in S : n >= y /\ y \in Nat
  OBVIOUS
<1>2. Max(S) \in S /\ \A y \in S : Max(S) >= y
  BY <1>1 DEF Max
<1>3. PICK m : m = Max(S)
  OBVIOUS
<1>4. m \in Nat /\ m >= n /\ n >= m
  BY <1>1, <1>2, <1>3
<1>5. QED
  BY <1>3, <1>4

\* Complete induction up to a bound.
LEMMA UpTo ==
    ASSUME NEW b \in Nat, NEW G, 0 \in G, \A n \in 1 .. b : n - 1 \in G => n \in G
    PROVE  \A n \in 0 .. b : n \in G
<1> DEFINE Bad == {n \in 0 .. b : n \notin G}
<1> SUFFICES ASSUME Bad # {} PROVE FALSE
  OBVIOUS
<1>1. PICK n \in Bad : \A m \in Bad : n <= m
  <2>1. Bad \in SUBSET Nat
    OBVIOUS
  <2>2. QED
    BY <2>1, SmallestNumber
<1>2. n \in 1 .. b /\ n - 1 \in 0 .. b /\ n - 1 < n
  BY <1>1
<1>3. n - 1 \notin Bad
  BY <1>1, <1>2
<1>4. QED
  BY <1>1, <1>2, <1>3

LEMMA ToSetOfAppend ==
    ASSUME NEW A, NEW q \in Seq(A), NEW x \in A
    PROVE  ToSet(Append(q, x)) = ToSet(q) \cup {x}
<1> DEFINE n == Len(q)
<1>1. /\ n \in Nat /\ DOMAIN q = 1 .. n /\ DOMAIN Append(q, x) = 1 .. (n + 1)
      /\ \A i \in 1 .. n : Append(q, x)[i] = q[i]
      /\ Append(q, x)[n + 1] = x
  BY AppendProperties, LenProperties
<1>2. ToSet(Append(q, x)) = {Append(q, x)[i] : i \in 1 .. (n + 1)} /\ ToSet(q) = {q[i] : i \in 1 .. n}
  BY <1>1 DEF ToSet
<1> HIDE DEF n
<1>3. 1 .. (n + 1) = (1 .. n) \cup {n + 1}
  BY <1>1
<1>4. QED
  BY <1>1, <1>2, <1>3

\* What is selected is in the set, and nothing of it is lost.
LEMMA SelectedType ==
    ASSUME NEW A, NEW T, NEW s \in Seq(A)
    PROVE  Selected(s, T) \in Seq(A \cap T) /\ ToSet(Selected(s, T)) = ToSet(s) \cap T
<1> DEFINE B == Seq(A \cap T)
           Step(kept, x) == IF x \in T THEN Append(kept, x) ELSE kept
           Next(g, S) == IF S = {} THEN <<>> ELSE Step(g[S \ {Max(S)}], s[Max(S)])
           iter == CHOOSE g : g = [S \in SUBSET (DOMAIN s) |-> Next(g, S)]
           Good(n) == \E g \in [SUBSET (1 .. n) -> B] :
                          \A S \in SUBSET (1 .. n) : g[S] = Next(g, S)
<1>1. Selected(s, T) = iter[DOMAIN s]
  BY Zenon DEF Selected, FoldLeft, MapThenFoldSet
<1>2. \A kept \in B, i \in DOMAIN s : Step(kept, s[i]) \in B
  BY AppendProperties
<1>3. Good(0)
  <2>1. SUBSET (1 .. 0) = {{}}
    OBVIOUS
  <2>2. [S \in SUBSET (1 .. 0) |-> <<>>] \in [SUBSET (1 .. 0) -> B]
    BY EmptySeq
  <2>3. QED
    BY <2>1, <2>2
<1>4. ASSUME NEW n \in 1 .. Len(s), Good(n - 1) PROVE Good(n)
  <2>1. PICK g \in [SUBSET (1 .. (n - 1)) -> B] : \A S \in SUBSET (1 .. (n - 1)) : g[S] = Next(g, S)
    BY <1>4
  <2> DEFINE h == [S \in SUBSET (1 .. n) |->
                      IF n \in S THEN Step(g[S \ {n}], s[n]) ELSE g[S]]
  <2>2. \A S \in SUBSET (1 .. n) : /\ n \notin S => S \in SUBSET (1 .. (n - 1))
                                   /\ S \ {n} \in SUBSET (1 .. (n - 1))
    OBVIOUS
  <2>3. n \in DOMAIN s
    BY LenProperties
  <2>4. h \in [SUBSET (1 .. n) -> B]
    BY <1>2, <2>2, <2>3
  <2>5. ASSUME NEW S \in SUBSET (1 .. n) PROVE h[S] = Next(h, S)
    <3>1. CASE n \in S
      <4>1. Max(S) = n
        BY <3>1, MaxOfInterval
      <4>2. h[S \ {n}] = g[S \ {n}] /\ S # {}
        BY <2>2, <3>1
      <4>3. h[S] = Step(g[S \ {n}], s[n])
        BY <3>1
      <4>4. QED
        BY <4>1, <4>2, <4>3
    <3>2. CASE n \notin S
      <4>1. h[S] = g[S] /\ g[S] = Next(g, S)
        BY <2>1, <2>2, <3>2
      <4>2. S # {} => n \notin S \ {Max(S)} /\ h[S \ {Max(S)}] = g[S \ {Max(S)}]
        BY <3>2
      <4>3. QED
        BY <4>1, <4>2
    <3>3. QED
      BY <3>1, <3>2
  <2>6. QED
    BY <2>4, <2>5
<1>5. Len(s) \in Nat /\ DOMAIN s = 1 .. Len(s)
  BY LenProperties
<1>6. Good(Len(s))
  <2> DEFINE G == {n \in 0 .. Len(s) : Good(n)}
  <2> HIDE DEF Good
  <2>1. 0 \in G /\ \A n \in 1 .. Len(s) : n - 1 \in G => n \in G
    BY <1>3, <1>4, <1>5
  <2> HIDE DEF G
  <2>2. \A n \in 0 .. Len(s) : n \in G
    BY <1>5, <2>1, UpTo
  <2>3. QED
    BY <1>5, <2>2 DEF G
<1>7. PICK g \in [SUBSET (DOMAIN s) -> B] : \A S \in SUBSET (DOMAIN s) : g[S] = Next(g, S)
  <2> HIDE DEF Next, B
  <2> QED  BY <1>5, <1>6
<1>8. g = [S \in SUBSET (DOMAIN s) |-> Next(g, S)]
  BY <1>7
<1>9. iter = [S \in SUBSET (DOMAIN s) |-> Next(iter, S)]
  BY <1>8
<1>10. iter[DOMAIN s] \in B /\ ToSet(iter[DOMAIN s]) = ToSet(s) \cap T
  <2> DEFINE From(S) == {s[i] : i \in S} \cap T
             Right(S) == iter[S] \in B /\ ToSet(iter[S]) = From(S)
             G == {n \in 0 .. Len(s) : \A S \in SUBSET (1 .. n) : Right(S)}
  <2>1. \A S \in SUBSET (DOMAIN s) : iter[S] = Next(iter, S)
    <3> HIDE DEF iter, Next
    <3> QED  BY <1>9
  <2> HIDE DEF iter
  <2>2. 0 \in G
    <3>1. \A S \in SUBSET (1 .. 0) : S = {} /\ S \in SUBSET (DOMAIN s)
      OBVIOUS
    <3>2. iter[{}] = <<>> /\ <<>> \in B
      BY <2>1, EmptySeq
    <3>3. ToSet(<<>>) = {} /\ From({}) = {}
      BY DEF ToSet
    <3>4. 0 \in 0 .. Len(s)
      BY <1>5
    <3> HIDE DEF B, From
    <3>5. QED
      BY <3>1, <3>2, <3>3, <3>4
  <2>3. ASSUME NEW n \in 1 .. Len(s), n - 1 \in G PROVE n \in G
    <3>1. ASSUME NEW S \in SUBSET (1 .. n) PROVE Right(S)
      <4>1. CASE n \in S
        <5>1. Max(S) = n /\ S # {} /\ S \ {n} \in SUBSET (1 .. (n - 1))
          BY <4>1, MaxOfInterval
        <5>2. iter[S] = Step(iter[S \ {n}], s[n])
          <6>1. S \in SUBSET (DOMAIN s)
            BY <1>5
          <6>2. iter[S] = Next(iter, S)
            BY <2>1, <6>1
          <6> HIDE DEF Step
          <6>3. QED
            BY <5>1, <6>2
        <5>3. Right(S \ {n}) /\ n \in DOMAIN s /\ s[n] \in A
          <6>1. n \in DOMAIN s /\ s[n] \in A
            BY <1>5, ElementOfSeq
          <6> HIDE DEF Right
          <6>2. QED
            BY <2>3, <5>1, <6>1
        <5>4. iter[S] \in B
          BY <1>2, <5>2, <5>3
        <5>5. ToSet(iter[S]) = ToSet(iter[S \ {n}]) \cup ({s[n]} \cap T)
          <6>1. PICK q \in B : q = iter[S \ {n}]
            BY <5>3
          <6>2. CASE s[n] \in T
            <7>1. s[n] \in A \cap T
              BY <5>3, <6>2
            <7>2. ToSet(Append(q, s[n])) = ToSet(q) \cup {s[n]}
              BY <6>1, <7>1, ToSetOfAppend
            <7>3. iter[S] = Append(q, s[n])
              BY <5>2, <6>1, <6>2
            <7>4. QED
              BY <6>1, <6>2, <7>2, <7>3
          <6>3. CASE s[n] \notin T
            BY <5>2, <6>3
          <6>4. QED
            BY <6>2, <6>3
        <5>6. From(S) = From(S \ {n}) \cup ({s[n]} \cap T)
          BY <4>1
        <5> HIDE DEF From, B
        <5>7. QED
          BY <5>3, <5>4, <5>5, <5>6
      <4>2. CASE n \notin S
        <5>1. S \in SUBSET (1 .. (n - 1))
          BY <4>2
        <5>2. QED
          BY <2>3, <5>1
      <4>3. QED
        BY <4>1, <4>2
    <3> HIDE DEF Right
    <3>2. QED
      BY <3>1
  <2> HIDE DEF G
  <2>4. \A n \in 0 .. Len(s) : n \in G
    BY <1>5, <2>2, <2>3, UpTo
  <2>5. Right(DOMAIN s)
    <3> HIDE DEF Right
    <3>1. Len(s) \in 0 .. Len(s)
      BY <1>5
    <3>2. QED
      BY <1>5, <2>4, <3>1 DEF G
  <2>6. QED
    BY <2>5 DEF ToSet
<1>11. QED
  BY <1>1, <1>10
=============================================================================
