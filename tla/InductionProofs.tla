---------------------------- MODULE InductionProofs ----------------------------
(***************************************************************************)
(* Every set of natural numbers has a least element, and every bounded one *)
(* a greatest: what Min and Max choose exists.  The least element also     *)
(* takes the place of induction: a property of natural numbers holds       *)
(* for all of them if there is no least number without it.  In this way    *)
(* the recursive functions behind FlattenSeq and SumFunctionOnSet are      *)
(* shown to exist, and with them what the two compute: the parts of a      *)
(* concatenation, and what one element adds to a sum.                      *)
(***************************************************************************)
EXTENDS Integers, FiniteSetsExt, SequencesExt, SequenceTheorems, FiniteSetTheorems, WellFoundedInduction, TLAPS

LEMMA LeastElement ==
  ASSUME NEW S \in SUBSET Nat, S # {}
  PROVE  \E m \in S : \A n \in S : m <= n
<1>1. PICK m \in S : \A n \in S : ~(<<n, m>> \in OpToRel(<, Nat))
  BY NatLessThanWellFounded, WFMin
<1>2. ASSUME NEW n \in S PROVE m <= n
  <2>1. ~(<<n, m>> \in {ss \in Nat \X Nat : ss[1] < ss[2]})
    BY <1>1 DEF OpToRel
  <2>2. <<n, m>> \in Nat \X Nat
    OBVIOUS
  <2>3. ~(n < m)
    BY <2>1, <2>2
  <2>. QED  BY <2>3
<1>. QED  BY <1>2

LEMMA MinExists ==
  ASSUME NEW S \in SUBSET Nat, S # {}
  PROVE  Min(S) \in S /\ \A n \in S : Min(S) <= n
BY LeastElement DEF Min

LEMMA MaxExists ==
  ASSUME NEW S \in SUBSET Nat, S # {}, NEW b \in Nat, \A n \in S : n <= b
  PROVE  Max(S) \in S /\ \A n \in S : n <= Max(S)
<1> DEFINE T == {b - n : n \in S}
<1>1. T \in SUBSET Nat /\ T # {}
  <2>1. PICK n \in S : TRUE
    OBVIOUS
  <2>2. b - n \in T
    OBVIOUS
  <2>3. \A x \in T : x \in Nat
    OBVIOUS
  <2>. QED  BY <2>2, <2>3
<1>2. PICK t \in T : \A u \in T : t <= u
  BY <1>1, LeastElement
<1>3. PICK m \in S : t = b - m
  OBVIOUS
<1>4. \A n \in S : m >= n
  <2> SUFFICES ASSUME NEW n \in S PROVE m >= n
    OBVIOUS
  <2>1. b - n \in T
    OBVIOUS
  <2>. QED  BY <1>2, <1>3, <2>1
<1>. QED  BY <1>4 DEF Max

-----------------------------------------------------------------------------
(***************************************************************************)
(* FlattenSeq is computed by a recursive function.  One that solves its    *)
(* equation for the first n sequences exists for every n, and two of them  *)
(* agree where both are defined.                                           *)
(***************************************************************************)
Flattens(f, s, n) ==
  /\ f = [i \in 1 .. n |-> f[i]]
  /\ \A i \in 1 .. n : f[i] = IF i = 1 THEN s[i] ELSE f[i - 1] \o s[i]

LEMMA FlattenStep ==
  ASSUME NEW s, NEW f, NEW n \in Nat, Flattens(f, s, n), NEW i \in 1 .. n
  PROVE  f[i] = IF i = 1 THEN s[i] ELSE f[i - 1] \o s[i]
BY DEF Flattens

LEMMA FlattenExtend ==
  ASSUME NEW s, NEW f, NEW n \in Nat, Flattens(f, s, n)
  PROVE  Flattens([i \in 1 .. n + 1 |-> IF i <= n THEN f[i] ELSE IF n = 0 THEN s[i] ELSE f[n] \o s[i]], s, n + 1)
<1> DEFINE g == [i \in 1 .. n + 1 |-> IF i <= n THEN f[i] ELSE IF n = 0 THEN s[i] ELSE f[n] \o s[i]]
<1>1. ASSUME NEW i \in 1 .. n + 1 PROVE g[i] = IF i = 1 THEN s[i] ELSE g[i - 1] \o s[i]
  <2>1. CASE i <= n
    <3>1. i \in 1 .. n /\ (i # 1 => i - 1 \in 1 .. n + 1 /\ i - 1 <= n)
      BY <2>1
    <3>. QED  BY <2>1, <3>1, FlattenStep
  <2>2. CASE i = n + 1
    BY <2>2
  <2>. QED  BY <2>1, <2>2
<1>2. g = [i \in 1 .. n + 1 |-> g[i]]
  OBVIOUS
<1> HIDE DEF g
<1>3. Flattens(g, s, n + 1)
  BY <1>1, <1>2 DEF Flattens
<1>. QED  BY <1>3 DEF g

LEMMA FlattenExists ==
  ASSUME NEW s, NEW n \in Nat
  PROVE  \E f : Flattens(f, s, n)
<1> DEFINE D == {k \in Nat : ~\E f : Flattens(f, s, k)}
<1> SUFFICES ASSUME D # {} PROVE FALSE
  OBVIOUS
<1>1. PICK m \in D : \A k \in D : m <= k
  BY LeastElement
<1>2. m # 0
  <2>1. Flattens([i \in 1 .. 0 |-> s], s, 0)
    BY DEF Flattens
  <2>. QED  BY <2>1
<1>3. m - 1 \in Nat /\ m - 1 \notin D
  BY <1>1, <1>2
<1>4. PICK f : Flattens(f, s, m - 1)
  BY <1>3
<1>5. \E g : Flattens(g, s, (m - 1) + 1)
  BY <1>3, <1>4, FlattenExtend
<1>. QED  BY <1>1, <1>5

LEMMA FlattenUnique ==
  ASSUME NEW s, NEW t, NEW f, NEW g, NEW n \in Nat, NEW m \in Nat, n <= m,
         \A i \in 1 .. n : s[i] = t[i],
         Flattens(f, s, n), Flattens(g, t, m), NEW i \in 1 .. n
  PROVE  f[i] = g[i]
<1> DEFINE D == {k \in 1 .. n : f[k] # g[k]}
<1> SUFFICES ASSUME D # {} PROVE FALSE
  OBVIOUS
<1>1. PICK k \in D : \A j \in D : k <= j
  <2>1. D \in SUBSET Nat
    OBVIOUS
  <2>. QED  BY <2>1, LeastElement
<1>2. /\ f[k] = IF k = 1 THEN s[k] ELSE f[k - 1] \o s[k]
      /\ g[k] = IF k = 1 THEN t[k] ELSE g[k - 1] \o t[k]
  BY FlattenStep
<1>3. k # 1 => k - 1 \in 1 .. n /\ k - 1 \notin D
  BY <1>1
<1>. QED  BY <1>2, <1>3

LEMMA FlattenIs ==
  ASSUME NEW s, NEW f, Len(s) \in Nat \ {0}, Flattens(f, s, Len(s))
  PROVE  FlattenSeq(s) = f[Len(s)]
<1> DEFINE g == CHOOSE h : h = [i \in 1 .. Len(s) |-> IF i = 1 THEN s[i] ELSE h[i - 1] \o s[i]]
<1>1. FlattenSeq(s) = g[Len(s)]
  BY DEF FlattenSeq
<1>2. g = [i \in 1 .. Len(s) |-> IF i = 1 THEN s[i] ELSE g[i - 1] \o s[i]]
  <2>1. f = [i \in 1 .. Len(s) |-> IF i = 1 THEN s[i] ELSE f[i - 1] \o s[i]]
    BY DEF Flattens
  <2>. QED  BY <2>1
<1> HIDE DEF g
<1>3. Flattens(g, s, Len(s))
  BY <1>2 DEF Flattens
<1>. QED  BY <1>1, <1>3, FlattenUnique

(***************************************************************************)
(* FlattenSeq of one sequence more, and its type.                          *)
(***************************************************************************)
LEMMA FlattenEmpty == FlattenSeq(<<>>) = <<>>
BY DEF FlattenSeq

LEMMA FlattenType ==
  ASSUME NEW S, NEW s \in Seq(Seq(S))
  PROVE  FlattenSeq(s) \in Seq(S)
<1>1. CASE s = <<>>
  <2>1. FlattenSeq(s) = <<>>
    BY <1>1, FlattenEmpty
  <2>. QED  BY <2>1
<1>2. CASE s # <<>>
  <2>1. Len(s) \in Nat \ {0}
    BY <1>2
  <2>2. PICK f : Flattens(f, s, Len(s))
    BY <2>1, FlattenExists
  <2> DEFINE D == {k \in 1 .. Len(s) : f[k] \notin Seq(S)}
  <2>3. D = {}
    <3> SUFFICES ASSUME D # {} PROVE FALSE
      OBVIOUS
    <3>1. PICK k \in D : \A j \in D : k <= j
      <4>1. D \in SUBSET Nat
        BY <2>1
      <4>. QED  BY <4>1, LeastElement
    <3>2. f[k] = IF k = 1 THEN s[k] ELSE f[k - 1] \o s[k]
      BY <2>1, <2>2, FlattenStep
    <3>3. k # 1 => k - 1 \in 1 .. Len(s) /\ k - 1 \notin D
      BY <2>1, <3>1
    <3>4. s[k] \in Seq(S)
      OBVIOUS
    <3>5. CASE k = 1
      BY <3>2, <3>4, <3>5
    <3>6. CASE k # 1
      <4>1. f[k - 1] \in Seq(S)
        BY <3>3, <3>6
      <4>2. f[k - 1] \o s[k] \in Seq(S)
        BY <3>4, <4>1
      <4>. QED  BY <3>2, <3>6, <4>2
    <3>. QED  BY <3>5, <3>6
  <2>. QED  BY <2>1, <2>2, <2>3, FlattenIs
<1>. QED  BY <1>1, <1>2

LEMMA FlattenAppend ==
  ASSUME NEW S, NEW s \in Seq(Seq(S)), NEW x \in Seq(S)
  PROVE  FlattenSeq(Append(s, x)) = FlattenSeq(s) \o x
<1> DEFINE t == Append(s, x)
           n == Len(s)
<1>1. n \in Nat /\ Len(t) = n + 1 /\ t[n + 1] = x /\ \A i \in 1 .. n : s[i] = t[i]
  OBVIOUS
<1> HIDE DEF t, n
<1>2. PICK g : Flattens(g, t, n + 1)
  <2>1. n + 1 \in Nat
    BY <1>1
  <2>. QED  BY <2>1, FlattenExists
<1>3. FlattenSeq(t) = g[n + 1]
  BY <1>1, <1>2, FlattenIs
<1>4. g[n + 1] = IF n = 0 THEN x ELSE g[n] \o x
  BY <1>1, <1>2, FlattenStep
<1>5. CASE n = 0
  <2>1. FlattenSeq(s) = <<>> /\ <<>> \o x = x
    BY <1>5, FlattenEmpty, ConcatEmptySeq DEF n
  <2>. QED  BY <1>3, <1>4, <1>5, <2>1 DEF t
<1>6. CASE n # 0
  <2>1. PICK f : Flattens(f, s, n)
    BY <1>1, FlattenExists
  <2>2. FlattenSeq(s) = f[n]
    BY <1>1, <1>6, <2>1, FlattenIs DEF n
  <2>3. f[n] = g[n]
    <3>1. n + 1 \in Nat /\ n <= n + 1 /\ n \in 1 .. n
      BY <1>1, <1>6
    <3>. QED  BY <1>1, <1>2, <2>1, <3>1, FlattenUnique
  <2>. QED  BY <1>3, <1>4, <1>6, <2>2, <2>3 DEF t
<1>. QED  BY <1>5, <1>6

-----------------------------------------------------------------------------
(***************************************************************************)
(* SumFunctionOnSet is computed by a recursive function on the subsets of  *)
(* the set.  One that solves its equation exists for every finite set, two *)
(* of them agree, and the order in which the elements are taken does not   *)
(* matter.                                                                 *)
(***************************************************************************)
Chosen(s) == CHOOSE x \in s : TRUE

SumStep(g, f, s) == g[s] = IF s = {} THEN 0 ELSE f[Chosen(s)] + g[s \ {Chosen(s)}]

Sums(g, f, S) ==
  /\ g = [s \in SUBSET S |-> g[s]]
  /\ \A s \in SUBSET S : SumStep(g, f, s)

LEMMA ChosenIn == ASSUME NEW s, s # {} PROVE Chosen(s) \in s
BY DEF Chosen

LEMMA FiniteSubset ==
  ASSUME NEW S, IsFiniteSet(S), NEW s \in SUBSET S
  PROVE  /\ IsFiniteSet(s) /\ Cardinality(s) \in Nat
         /\ Cardinality(s) = 0 <=> s = {}
         /\ \A x \in s : Cardinality(s \ {x}) = Cardinality(s) - 1
<1>1. IsFiniteSet(s)
  BY FS_Subset
<1>. QED  BY <1>1, FS_CardinalityType, FS_EmptySet, FS_RemoveElement

LEMMA SumExists ==
  ASSUME NEW S, IsFiniteSet(S), NEW f
  PROVE  \E g : Sums(g, f, S)
<1> DEFINE P(g, k) == /\ g = [s \in SUBSET S |-> g[s]]
                      /\ \A s \in SUBSET S : Cardinality(s) <= k => SumStep(g, f, s)
           D == {k \in Nat : ~\E g : P(g, k)}
<1>1. D = {}
  <2> SUFFICES ASSUME D # {} PROVE FALSE
    OBVIOUS
  <2>1. PICK k \in D : \A j \in D : k <= j
    <3>1. D \in SUBSET Nat
      OBVIOUS
    <3>. QED  BY <3>1, LeastElement
  <2>2. CASE k = 0
    <3> DEFINE g == [s \in SUBSET S |-> 0]
    <3>1. ASSUME NEW s \in SUBSET S, Cardinality(s) <= 0 PROVE SumStep(g, f, s)
      <4>1. s = {}
        BY <3>1, FiniteSubset
      <4>. QED  BY <4>1 DEF SumStep
    <3>2. P(g, 0)
      BY <3>1
    <3>. QED  BY <2>2, <3>2
  <2>3. CASE k # 0
    <3>1. k - 1 \in Nat /\ k - 1 \notin D
      <4>1. k \in Nat
        OBVIOUS
      <4> HIDE DEF D
      <4>. QED  BY <2>1, <2>3, <4>1
    <3>2. PICK g : P(g, k - 1)
      BY <3>1
    <3> DEFINE h == [s \in SUBSET S |-> IF Cardinality(s) < k THEN g[s] ELSE f[Chosen(s)] + g[s \ {Chosen(s)}]]
    <3>3. ASSUME NEW s \in SUBSET S, Cardinality(s) <= k PROVE SumStep(h, f, s)
      <4>1. Cardinality(s) \in Nat
        BY FiniteSubset
      <4>2. s # {} => /\ s \ {Chosen(s)} \in SUBSET S
                      /\ Cardinality(s \ {Chosen(s)}) = Cardinality(s) - 1
        BY ChosenIn, FiniteSubset
      <4>3. CASE Cardinality(s) < k
        <5>1. SumStep(g, f, s)
          <6>1. Cardinality(s) <= k - 1
            <7>1. k \in Nat
              OBVIOUS
            <7> HIDE DEF D
            <7>. QED  BY <4>1, <4>3, <7>1
          <6>. QED  BY <3>2, <6>1
        <5>2. h[s] = g[s] /\ (s # {} => h[s \ {Chosen(s)}] = g[s \ {Chosen(s)}])
          BY <4>1, <4>2, <4>3
        <5>. QED  BY <5>1, <5>2 DEF SumStep
      <4>4. CASE Cardinality(s) = k
        <5>1. s # {}
          BY <2>3, <4>4, FiniteSubset
        <5>2. h[s] = f[Chosen(s)] + g[s \ {Chosen(s)}] /\ h[s \ {Chosen(s)}] = g[s \ {Chosen(s)}]
          BY <4>1, <4>2, <4>4, <5>1
        <5>. QED  BY <5>1, <5>2 DEF SumStep
      <4>. QED  BY <3>3, <4>1, <4>3, <4>4
    <3>4. h = [s \in SUBSET S |-> h[s]]
      OBVIOUS
    <3>5. P(h, k)
      <4> HIDE DEF h
      <4>. QED  BY <3>3, <3>4
    <3>. QED  BY <2>1, <3>5
  <2>. QED  BY <2>2, <2>3
<1>2. Cardinality(S) \in Nat
  BY FiniteSubset
<1>3. PICK g : P(g, Cardinality(S))
  BY <1>1, <1>2
<1>4. ASSUME NEW s \in SUBSET S PROVE Cardinality(s) <= Cardinality(S)
  BY FS_Subset
<1>. QED  BY <1>3, <1>4 DEF Sums

LEMMA SumUnique ==
  ASSUME NEW T, IsFiniteSet(T), NEW S \in SUBSET T, NEW f, NEW g, NEW h,
         Sums(g, f, S), Sums(h, f, T), NEW s \in SUBSET S
  PROVE  g[s] = h[s]
<1> DEFINE D == {k \in Nat : \E r \in SUBSET S : Cardinality(r) = k /\ g[r] # h[r]}
<1>1. IsFiniteSet(S)
  BY FS_Subset
<1>2. D = {}
  <2> SUFFICES ASSUME D # {} PROVE FALSE
    OBVIOUS
  <2>1. PICK k \in D : \A j \in D : k <= j
    <3>1. D \in SUBSET Nat
      OBVIOUS
    <3>. QED  BY <3>1, LeastElement
  <2>2. PICK r \in SUBSET S : Cardinality(r) = k /\ g[r] # h[r]
    OBVIOUS
  <2>3. SumStep(g, f, r) /\ SumStep(h, f, r)
    BY DEF Sums
  <2>4. r # {}
    BY <2>2, <2>3 DEF SumStep
  <2>5. r \ {Chosen(r)} \in SUBSET S /\ Cardinality(r \ {Chosen(r)}) = k - 1 /\ k - 1 \in Nat
    BY <1>1, <2>2, <2>4, ChosenIn, FiniteSubset
  <2>6. k - 1 \notin D
    BY <2>1, <2>5
  <2>7. g[r \ {Chosen(r)}] = h[r \ {Chosen(r)}]
    BY <2>5, <2>6
  <2>. QED  BY <2>2, <2>3, <2>4, <2>7 DEF SumStep
<1>3. Cardinality(s) \in Nat
  BY <1>1, FiniteSubset
<1>. QED  BY <1>2, <1>3

LEMMA SumIs ==
  ASSUME NEW S, IsFiniteSet(S), NEW f, NEW g, Sums(g, f, S)
  PROVE  SumFunctionOnSet(f, S) = g[S]
<1> DEFINE h == CHOOSE iter : iter = [s \in SUBSET S |->
                   IF s = {} THEN 0 ELSE f[Chosen(s)] + iter[s \ {Chosen(s)}]]
<1>1. SumFunctionOnSet(f, S) = h[S]
  BY Zenon DEF SumFunctionOnSet, FoldFunctionOnSet, MapThenFoldSet, Chosen
<1>2. h = [s \in SUBSET S |-> IF s = {} THEN 0 ELSE f[Chosen(s)] + h[s \ {Chosen(s)}]]
  <2>1. g = [s \in SUBSET S |-> IF s = {} THEN 0 ELSE f[Chosen(s)] + g[s \ {Chosen(s)}]]
    BY DEF Sums, SumStep
  <2>. QED  BY <2>1
<1> HIDE DEF h
<1>3. Sums(h, f, S)
  BY <1>2 DEF Sums, SumStep
<1>. QED  BY <1>1, <1>3, SumUnique

LEMMA SumEmpty == ASSUME NEW f PROVE SumFunctionOnSet(f, {}) = 0
<1>1. IsFiniteSet({})
  BY FS_EmptySet
<1>2. PICK g : Sums(g, f, {})
  BY <1>1, SumExists
<1>3. SumFunctionOnSet(f, {}) = g[{}]
  BY <1>1, <1>2, SumIs
<1>4. SumStep(g, f, {})
  BY <1>2 DEF Sums
<1>. QED  BY <1>3, <1>4 DEF SumStep

LEMMA SumChosen ==
  ASSUME NEW S, IsFiniteSet(S), S # {}, NEW f
  PROVE  SumFunctionOnSet(f, S) = f[Chosen(S)] + SumFunctionOnSet(f, S \ {Chosen(S)})
<1> DEFINE R == S \ {Chosen(S)}
<1>1. IsFiniteSet(R)
  BY FS_Subset
<1>2. PICK g : Sums(g, f, S)
  BY SumExists
<1>3. PICK h : Sums(h, f, R)
  BY <1>1, SumExists
<1>4. SumStep(g, f, S)
  BY <1>2 DEF Sums
<1>5. h[R] = g[R]
  BY <1>2, <1>3, SumUnique
<1>6. SumFunctionOnSet(f, S) = g[S] /\ SumFunctionOnSet(f, R) = h[R]
  BY <1>1, <1>2, <1>3, SumIs
<1>. QED  BY <1>4, <1>5, <1>6 DEF SumStep

LEMMA SumType ==
  ASSUME NEW X, IsFiniteSet(X), NEW f \in [X -> Nat], NEW S \in SUBSET X
  PROVE  SumFunctionOnSet(f, S) \in Nat
<1> DEFINE D == {k \in Nat : \E r \in SUBSET X : Cardinality(r) = k /\ SumFunctionOnSet(f, r) \notin Nat}
<1>1. D = {}
  <2> SUFFICES ASSUME D # {} PROVE FALSE
    OBVIOUS
  <2>1. PICK k \in D : \A j \in D : k <= j
    <3>1. D \in SUBSET Nat
      OBVIOUS
    <3>. QED  BY <3>1, LeastElement
  <2>2. PICK r \in SUBSET X : Cardinality(r) = k /\ SumFunctionOnSet(f, r) \notin Nat
    OBVIOUS
  <2>3. r # {}
    BY <2>2, SumEmpty
  <2>4. Chosen(r) \in r /\ r \ {Chosen(r)} \in SUBSET X /\ Cardinality(r \ {Chosen(r)}) = k - 1 /\ k - 1 \in Nat
    BY <2>2, <2>3, ChosenIn, FiniteSubset
  <2>5. k - 1 \notin D
    BY <2>1, <2>4
  <2>6. SumFunctionOnSet(f, r \ {Chosen(r)}) \in Nat /\ f[Chosen(r)] \in Nat
    BY <2>4, <2>5
  <2>7. SumFunctionOnSet(f, r) = f[Chosen(r)] + SumFunctionOnSet(f, r \ {Chosen(r)})
    BY <2>3, FiniteSubset, SumChosen
  <2>. QED  BY <2>2, <2>6, <2>7
<1>2. Cardinality(S) \in Nat
  BY FiniteSubset
<1>. QED  BY <1>1, <1>2

LEMMA SumRemove ==
  ASSUME NEW X, IsFiniteSet(X), NEW f \in [X -> Nat], NEW S \in SUBSET X, NEW x \in S
  PROVE  SumFunctionOnSet(f, S) = f[x] + SumFunctionOnSet(f, S \ {x})
<1> DEFINE Bad(r) == \E y \in r : SumFunctionOnSet(f, r) # f[y] + SumFunctionOnSet(f, r \ {y})
           D == {k \in Nat : \E r \in SUBSET X : Cardinality(r) = k /\ Bad(r)}
<1>1. D = {}
  <2> SUFFICES ASSUME D # {} PROVE FALSE
    OBVIOUS
  <2>1. PICK k \in D : \A j \in D : k <= j
    <3>1. D \in SUBSET Nat
      OBVIOUS
    <3>. QED  BY <3>1, LeastElement
  <2>2. PICK r \in SUBSET X : Cardinality(r) = k /\ Bad(r)
    OBVIOUS
  <2>3. PICK y \in r : SumFunctionOnSet(f, r) # f[y] + SumFunctionOnSet(f, r \ {y})
    BY <2>2
  <2> DEFINE c == Chosen(r)
  <2>4. r # {} /\ c \in r
    BY <2>3, ChosenIn
  <2>5. IsFiniteSet(r) /\ IsFiniteSet(r \ {y}) /\ k \in Nat
    BY FiniteSubset, FS_Subset
  <2>6. SumFunctionOnSet(f, r) = f[c] + SumFunctionOnSet(f, r \ {c})
    BY <2>4, <2>5, SumChosen
  <2> HIDE DEF c
  <2>7. y # c
    BY <2>3, <2>6
  <2>8. ASSUME NEW z \in r PROVE ~Bad(r \ {z})
    <3>1. Cardinality(r \ {z}) = k - 1 /\ k - 1 \in Nat /\ r \ {z} \in SUBSET X
      <4>1. Cardinality(r \ {z}) \in Nat /\ Cardinality(r \ {z}) = Cardinality(r) - 1
        BY FiniteSubset
      <4>. QED  BY <2>2, <4>1
    <3>2. k - 1 \notin D
      <4> HIDE DEF D
      <4>. QED  BY <2>1, <2>5, <3>1
    <3>. QED  BY <3>1, <3>2
  <2>9. SumFunctionOnSet(f, r \ {c}) = f[y] + SumFunctionOnSet(f, (r \ {c}) \ {y})
    BY <2>4, <2>7, <2>8
  <2>10. SumFunctionOnSet(f, r \ {y}) = f[c] + SumFunctionOnSet(f, (r \ {y}) \ {c})
    BY <2>4, <2>7, <2>8
  <2>11. (r \ {c}) \ {y} = (r \ {y}) \ {c}
    OBVIOUS
  <2>12. f[c] \in Nat /\ f[y] \in Nat /\ SumFunctionOnSet(f, (r \ {c}) \ {y}) \in Nat
    <3>1. (r \ {c}) \ {y} \in SUBSET X
      OBVIOUS
    <3>. QED  BY <2>4, <3>1, SumType
  <2>13. ASSUME NEW a \in Nat, NEW b \in Nat, NEW q \in Nat PROVE a + (b + q) = b + (a + q)
    OBVIOUS
  <2>14. SumFunctionOnSet(f, r) = f[c] + (f[y] + SumFunctionOnSet(f, (r \ {c}) \ {y}))
    BY <2>6, <2>9
  <2>15. f[y] + SumFunctionOnSet(f, r \ {y}) = f[y] + (f[c] + SumFunctionOnSet(f, (r \ {c}) \ {y}))
    BY <2>10, <2>11
  <2> HIDE DEF D, Bad
  <2>. QED  BY <2>3, <2>12, <2>13, <2>14, <2>15
<1>2. Cardinality(S) \in Nat
  BY FiniteSubset
<1>. QED  BY <1>1, <1>2

LEMMA SumInsert ==
  ASSUME NEW X, IsFiniteSet(X), NEW f \in [X -> Nat], NEW S \in SUBSET X, NEW x \in X, x \notin S
  PROVE  SumFunctionOnSet(f, S \cup {x}) = f[x] + SumFunctionOnSet(f, S)
<1>1. (S \cup {x}) \ {x} = S /\ S \cup {x} \in SUBSET X
  OBVIOUS
<1>. QED  BY <1>1, SumRemove

-----------------------------------------------------------------------------
(***************************************************************************)
(* Where the bytes of the i-th sequence are in the flattened one, given    *)
(* how many bytes u[i] the first i sequences have.                         *)
(***************************************************************************)
PrefixLengths(u, s) ==
  /\ u \in [0 .. Len(s) -> Nat] /\ u[0] = 0
  /\ \A i \in 1 .. Len(s) : u[i] = u[i - 1] + Len(s[i])

LEMMA PrefixLengthsAt ==
  ASSUME NEW S, NEW s \in Seq(Seq(S)), NEW u, PrefixLengths(u, s), NEW i \in 1 .. Len(s)
  PROVE  /\ s[i] \in Seq(S) /\ Len(s[i]) \in Nat
         /\ i - 1 \in 0 .. Len(s) /\ i \in 0 .. Len(s)
         /\ u[i - 1] \in Nat /\ u[i] \in Nat /\ u[i] = u[i - 1] + Len(s[i])
<1>1. s[i] \in Seq(S)
  OBVIOUS
<1>2. Len(s[i]) \in Nat
  BY <1>1
<1>3. i - 1 \in 0 .. Len(s) /\ i \in 0 .. Len(s)
  OBVIOUS
<1>4. u[i - 1] \in Nat /\ u[i] \in Nat
  BY <1>3 DEF PrefixLengths
<1>5. u[i] = u[i - 1] + Len(s[i])
  BY DEF PrefixLengths
<1>. QED  BY <1>1, <1>2, <1>3, <1>4, <1>5

LEMMA PrefixLengthsGrow ==
  ASSUME NEW S, NEW s \in Seq(Seq(S)), NEW u, PrefixLengths(u, s),
         NEW i \in 0 .. Len(s), NEW j \in i .. Len(s)
  PROVE  u[i] <= u[j]
<1> DEFINE D == {k \in i .. Len(s) : ~(u[i] <= u[k])}
<1>0. Len(s) \in Nat /\ u[i] \in Nat
  BY DEF PrefixLengths
<1> SUFFICES ASSUME D # {} PROVE FALSE
  BY <1>0
<1>1. PICK k \in D : \A m \in D : k <= m
  <2>1. D \in SUBSET Nat
    BY <1>0
  <2>. QED  BY <2>1, LeastElement
<1>2. k \in i .. Len(s) /\ ~(u[i] <= u[k])
  OBVIOUS
<1>3. k # i
  BY <1>0, <1>2
<1>4. k \in 1 .. Len(s) /\ k - 1 \in i .. Len(s) /\ k \in Nat /\ k - 1 < k
  BY <1>0, <1>2, <1>3
<1>5. k - 1 \notin D
  <2> HIDE DEF D
  <2>. QED  BY <1>1, <1>4
<1>6. u[i] <= u[k - 1]
  BY <1>4, <1>5
<1>7. u[k - 1] \in Nat /\ Len(s[k]) \in Nat /\ u[k] = u[k - 1] + Len(s[k])
  BY <1>4, PrefixLengthsAt
<1> HIDE DEF D
<1>. QED  BY <1>0, <1>2, <1>6, <1>7

LEMMA ConcatParts ==
  ASSUME NEW S, NEW p \in Seq(S), NEW t \in Seq(S)
  PROVE  /\ p \o t \in Seq(S) /\ Len(p \o t) = Len(p) + Len(t)
         /\ \A k \in Nat : 1 <= k /\ k <= Len(p) => (p \o t)[k] = p[k]
         /\ \A k \in 1 .. Len(t) : (p \o t)[Len(p) + k] = t[k]
OBVIOUS

LEMMA FlattenParts ==
  ASSUME NEW S, NEW s \in Seq(Seq(S)), NEW u, PrefixLengths(u, s), NEW f, Flattens(f, s, Len(s)),
         NEW n \in 1 .. Len(s)
  PROVE  /\ f[n] \in Seq(S) /\ Len(f[n]) = u[n]
         /\ \A i \in 1 .. n : \A k \in 1 .. Len(s[i]) : f[n][u[i - 1] + k] = s[i][k]
<1> DEFINE Good(m) == /\ f[m] \in Seq(S) /\ Len(f[m]) = u[m]
                      /\ \A i \in 1 .. m : \A k \in 1 .. Len(s[i]) : f[m][u[i - 1] + k] = s[i][k]
           D == {m \in 1 .. Len(s) : ~Good(m)}
<1>0. Len(s) \in Nat /\ u[0] = 0
  BY DEF PrefixLengths
<1> SUFFICES ASSUME D # {} PROVE FALSE
  OBVIOUS
<1>1. PICK m \in D : \A j \in D : m <= j
  <2>1. D \in SUBSET Nat
    BY <1>0
  <2>. QED  BY <2>1, LeastElement
<1>2. m \in 1 .. Len(s) /\ ~Good(m)
  OBVIOUS
<1> HIDE DEF D
<1>3. f[m] = IF m = 1 THEN s[m] ELSE f[m - 1] \o s[m]
  BY <1>0, <1>2, FlattenStep
<1>4. s[m] \in Seq(S) /\ Len(s[m]) \in Nat /\ u[m - 1] \in Nat /\ u[m] = u[m - 1] + Len(s[m])
  BY <1>2, PrefixLengthsAt
<1>5. CASE m = 1
  <2>1. f[1] = s[1] /\ s[1] \in Seq(S) /\ u[1] = Len(s[1])
    BY <1>0, <1>3, <1>4, <1>5
  <2>2. ASSUME NEW i \in 1 .. 1, NEW k \in 1 .. Len(s[i]) PROVE f[1][u[i - 1] + k] = s[i][k]
    <3>1. i = 1 /\ u[i - 1] + k = k
      BY <1>0, <1>4, <1>5
    <3>. QED  BY <2>1, <3>1
  <2>3. Good(1)
    BY <2>1, <2>2
  <2>. QED  BY <1>2, <1>5, <2>3
<1>6. CASE m # 1
  <2>1. m - 1 \in 1 .. Len(s) /\ m - 1 \notin D /\ m \in Nat
    <3> HIDE DEF Good
    <3>. QED  BY <1>0, <1>1, <1>2, <1>6
  <2>2. Good(m - 1)
    BY <2>1 DEF D
  <2> DEFINE p == f[m - 1]
             t == s[m]
  <2>3. p \in Seq(S) /\ Len(p) = u[m - 1] /\ f[m] = p \o t /\ t \in Seq(S)
    BY <1>3, <1>4, <1>6, <2>2
  <2>4. \A i \in 1 .. m - 1 : \A k \in 1 .. Len(s[i]) : p[u[i - 1] + k] = s[i][k]
    BY <2>2
  <2> HIDE DEF p, t
  <2>5. /\ p \o t \in Seq(S) /\ Len(p \o t) = Len(p) + Len(t)
        /\ \A k \in Nat : 1 <= k /\ k <= Len(p) => (p \o t)[k] = p[k]
        /\ \A k \in 1 .. Len(t) : (p \o t)[Len(p) + k] = t[k]
    <3> HIDE DEF Good
    <3>1. p \in Seq(S)
      BY <2>3
    <3>2. t \in Seq(S)
      BY <2>3
    <3>. QED  BY ONLY <3>1, <3>2, ConcatParts
  <2>6. f[m] \in Seq(S) /\ Len(f[m]) = u[m]
    BY <1>4, <2>3, <2>5 DEF t
  <2>7. ASSUME NEW i \in 1 .. m, NEW k \in 1 .. Len(s[i]) PROVE f[m][u[i - 1] + k] = s[i][k]
    <3>1. i \in 1 .. Len(s)
      <4> HIDE DEF Good
      <4>. QED  BY <1>0, <1>2
    <3>2. CASE i = m
      BY <2>3, <2>5, <3>2 DEF t
    <3>3. CASE i # m
      <4>1. i \in 1 .. m - 1 /\ i \in 0 .. Len(s) /\ m - 1 \in i .. Len(s)
        <5> HIDE DEF Good
        <5>. QED  BY <1>0, <1>2, <2>1, <3>1, <3>3
      <4>2. u[i] <= u[m - 1]
        BY <4>1, PrefixLengthsGrow
      <4>3. u[i - 1] \in Nat /\ u[i] = u[i - 1] + Len(s[i]) /\ Len(s[i]) \in Nat
        BY <3>1, PrefixLengthsAt
      <4>4. u[i - 1] + k \in Nat /\ 1 <= u[i - 1] + k /\ u[i - 1] + k <= u[m - 1]
        <5>1. ASSUME NEW a \in Nat, NEW l \in Nat, NEW x \in 1 .. l, NEW c \in Nat, a + l <= c
              PROVE  a + x \in Nat /\ 1 <= a + x /\ a + x <= c
          BY <5>1
        <5>2. u[i - 1] + Len(s[i]) <= u[m - 1]
          BY <4>2, <4>3
        <5> HIDE DEF Good
        <5>. QED  BY <1>4, <4>3, <5>1, <5>2, Zenon
      <4>5. (p \o t)[u[i - 1] + k] = p[u[i - 1] + k]
        BY <2>3, <2>5, <4>4
      <4>. QED  BY <2>3, <2>4, <4>1, <4>5
    <3>. QED  BY <3>2, <3>3
  <2>8. Good(m)
    BY <2>6, <2>7
  <2>. QED  BY <1>2, <2>8
<1>. QED  BY <1>5, <1>6

LEMMA FlattenPositions ==
  ASSUME NEW S, NEW s \in Seq(Seq(S)), NEW u, PrefixLengths(u, s)
  PROVE  /\ Len(FlattenSeq(s)) = u[Len(s)]
         /\ \A i \in 1 .. Len(s) : \A k \in 1 .. Len(s[i]) : FlattenSeq(s)[u[i - 1] + k] = s[i][k]
<1>0. Len(s) \in Nat
  OBVIOUS
<1>1. CASE s = <<>>
  <2>1. FlattenSeq(s) = <<>> /\ Len(s) = 0
    BY <1>1, FlattenEmpty
  <2>. QED  BY <2>1 DEF PrefixLengths
<1>2. CASE s # <<>>
  <2>1. Len(s) \in Nat \ {0} /\ Len(s) \in 1 .. Len(s)
    BY <1>2
  <2>2. PICK f : Flattens(f, s, Len(s))
    BY <1>0, FlattenExists
  <2>3. FlattenSeq(s) = f[Len(s)]
    BY <2>1, <2>2, FlattenIs
  <2>. QED  BY <2>1, <2>2, <2>3, FlattenParts
<1>. QED  BY <1>1, <1>2

=============================================================================
