-------------------------- MODULE InductionTheorems --------------------------
(***************************************************************************)
(* Induction over numbers and over finite sets, with a set in place of the *)
(* predicate, so that the provers can use it; and with it what a sum over  *)
(* a finite set is, for the proofs about amounts: capital locked in        *)
(* positions, the books of a day, the bytes of a directory.                *)
(***************************************************************************)
EXTENDS Integers, FiniteSets, Functions, FiniteSetTheorems, WellFoundedInduction, TLAPS

\* A set of numbers has a least one.
LEMMA LeastNumber ==
  ASSUME NEW F \in SUBSET Nat, F # {}
  PROVE  \E x \in F : \A y \in F : x <= y
  <1> DEFINE R == StrictSubsetOrdering(Nat)
             T == {0..x : x \in F}
  <1>1. IsWellFoundedOn(R, FiniteSubsetsOf(Nat))
    BY FS_StrictSubsetOrderingWellFounded
  <1>2. T \subseteq FiniteSubsetsOf(Nat) /\ T # {}
    <2> SUFFICES ASSUME NEW x \in F PROVE 0..x \in FiniteSubsetsOf(Nat)
      OBVIOUS
    <2>1. IsFiniteSet(0..x) /\ 0..x \in SUBSET Nat
      BY FS_Interval
    <2> QED  BY <2>1 DEF FiniteSubsetsOf
  <1> HIDE DEF R
  <1>3. PICK X \in T : \A Y \in T : <<Y, X>> \notin R
    BY <1>1, <1>2, WFMin
  <1>4. PICK x \in F : X = 0..x
    BY <1>3
  <1>5. ASSUME NEW y \in F, y < x PROVE FALSE
    <2>1. 0..y \in SUBSET Nat /\ 0..x \in SUBSET Nat
      OBVIOUS
    <2>2. 0..y \subseteq 0..x /\ x \notin 0..y /\ x \in 0..x
      BY <1>5
    <2>3. <<0..y, 0..x>> \in R
      BY <2>1, <2>2 DEF R, StrictSubsetOrdering
    <2> QED  BY <1>3, <1>4, <2>3
  <1> QED  BY <1>5

\* Induction over the numbers.
LEMMA NumberInduction ==
  ASSUME NEW Good \in SUBSET Nat, 0 \in Good, \A n \in Good : n + 1 \in Good
  PROVE  Good = Nat
  <1> SUFFICES ASSUME Nat \ Good # {} PROVE FALSE
    OBVIOUS
  <1>1. PICK x \in Nat \ Good : \A y \in Nat \ Good : x <= y
    BY LeastNumber
  <1>2. x - 1 \in Nat /\ x - 1 \in Good
    BY <1>1
  <1> QED  BY <1>1, <1>2

\* Induction over the subsets of a finite set: from the smaller ones to each.
LEMMA SmallerSubsets ==
  ASSUME NEW S, IsFiniteSet(S), NEW Good \in SUBSET SUBSET S,
         \A T \in SUBSET S : (\A U \in SUBSET T : U # T => U \in Good) => T \in Good
  PROVE  Good = SUBSET S
  <1> DEFINE R == StrictSubsetOrdering(S)
             Bad == (SUBSET S) \ Good
  <1>1. IsWellFoundedOn(R, FiniteSubsetsOf(S))
    BY FS_StrictSubsetOrderingWellFounded
  <1>2. Bad \subseteq FiniteSubsetsOf(S)
    BY FS_Subset DEF FiniteSubsetsOf
  <1> SUFFICES ASSUME Bad # {} PROVE FALSE
    OBVIOUS
  <1> HIDE DEF R, Bad
  <1>3. PICK T \in Bad : \A U \in Bad : <<U, T>> \notin R
    BY <1>1, <1>2, WFMin
  <1>4. ASSUME NEW U \in SUBSET T, U # T PROVE U \in Good
    <2>1. U \in SUBSET S /\ T \in SUBSET S
      BY DEF Bad
    <2>2. <<U, T>> \in R
      BY <1>4, <2>1 DEF R, StrictSubsetOrdering
    <2> QED  BY <1>3, <2>1, <2>2 DEF Bad
  <1> QED  BY <1>4 DEF Bad

\* ... and from one element less.
LEMMA SubsetInduction ==
  ASSUME NEW S, IsFiniteSet(S), NEW Good \in SUBSET SUBSET S, {} \in Good,
         \A T \in SUBSET S : \A x \in T : T \ {x} \in Good => T \in Good
  PROVE  Good = SUBSET S
  <1>1. ASSUME NEW T \in SUBSET S, \A U \in SUBSET T : U # T => U \in Good
        PROVE  T \in Good
    <2>1. CASE T = {}
      BY <2>1
    <2>2. CASE T # {}
      <3>1. PICK x : x \in T
        BY <2>2
      <3>2. T \ {x} \in SUBSET T /\ T \ {x} # T
        BY <3>1
      <3> QED  BY <1>1, <3>1, <3>2
    <2> QED  BY <2>1, <2>2
  <1> QED  BY <1>1, SmallerSubsets

-----------------------------------------------------------------------------
(* The fold.                                                               *)

Picked(s) == CHOOSE x \in s : TRUE

Folded(f, g, s) == IF s = {} THEN 0 ELSE f[Picked(s)] + g[s \ {Picked(s)}]

IsFold(f, S, g) == g = [s \in SUBSET S |-> Folded(f, g, s)]

\* The library's sum is the fold of the whole set.
LEMMA FoldIsSum ==
  ASSUME NEW f, NEW S
  PROVE  SumFunctionOnSet(f, S) = (CHOOSE g : IsFold(f, S, g))[S]
  BY DEF SumFunctionOnSet, FoldFunctionOnSet, MapThenFoldSet, IsFold, Folded, Picked

\* What is picked from a set is in it.
LEMMA PickedIn == \A s : s # {} => Picked(s) \in s
  BY DEF Picked

\* There is one: the fold of the sets of up to n elements gives that of n + 1.
LEMMA FoldExists ==
  ASSUME NEW f, NEW S, IsFiniteSet(S)
  PROVE  \E g : IsFold(f, S, g)
  <1> DEFINE Upto(n, g) == \A s \in SUBSET S : Cardinality(s) <= n => g[s] = Folded(f, g, s)
             Good == {n \in Nat : \E g : Upto(n, g)}
  <1>1. \A s \in SUBSET S : IsFiniteSet(s) /\ Cardinality(s) \in Nat
    BY FS_Subset, FS_CardinalityType
  <1>2. \A s \in SUBSET S : s # {} => /\ s \ {Picked(s)} \in SUBSET S
                                      /\ Cardinality(s \ {Picked(s)}) = Cardinality(s) - 1
    BY <1>1, PickedIn, FS_RemoveElement
  <1>3. 0 \in Good
    <2> DEFINE g == [s \in SUBSET S |-> 0]
    <2>1. \A s \in SUBSET S : Cardinality(s) <= 0 => s = {}
      BY <1>1, FS_EmptySet
    <2>2. Upto(0, g)
      BY <2>1 DEF Folded
    <2> QED  BY <2>2
  <1>4. ASSUME NEW n \in Good PROVE n + 1 \in Good
    <2>1. PICK g : Upto(n, g)
      OBVIOUS
    <2> DEFINE h == [s \in SUBSET S |-> IF Cardinality(s) <= n THEN g[s] ELSE Folded(f, g, s)]
    <2>2. \A s \in SUBSET S : h[s] = Folded(f, g, s)
      BY <2>1
    <2>3. ASSUME NEW s \in SUBSET S, Cardinality(s) <= n + 1 PROVE h[s] = Folded(f, h, s)
      <3>1. CASE s = {}
        BY <2>2, <3>1 DEF Folded
      <3>2. CASE s # {}
        <4>1. s \ {Picked(s)} \in SUBSET S /\ Cardinality(s \ {Picked(s)}) <= n
          BY <1>1, <1>2, <2>3, <3>2
        <4>2. h[s \ {Picked(s)}] = g[s \ {Picked(s)}]
          BY <4>1
        <4> QED  BY <2>2, <3>2, <4>2 DEF Folded
      <3> QED  BY <3>1, <3>2
    <2>4. Upto(n + 1, h)
      BY <2>3
    <2>5. \E k : Upto(n + 1, k)
      BY <2>4
    <2>6. n + 1 \in Nat
      OBVIOUS
    <2> HIDE DEF Upto
    <2> QED  BY <2>5, <2>6
  <1>5. Good = Nat
    BY <1>3, <1>4, NumberInduction
  <1>6. PICK g : Upto(Cardinality(S), g)
    BY <1>1, <1>5
  <1>7. \A s \in SUBSET S : g[s] = Folded(f, g, s)
    BY <1>1, <1>6, FS_Subset
  <1> DEFINE h == [s \in SUBSET S |-> g[s]]
  <1>8. \A s \in SUBSET S : h[s] = Folded(f, h, s)
    BY <1>2, <1>7 DEF Folded
  <1> QED  BY <1>8 DEF IsFold

\* Two folds agree where both are defined.
LEMMA FoldsAgree ==
  ASSUME NEW f, NEW S, IsFiniteSet(S), NEW T \in SUBSET S, NEW g, NEW h,
         IsFold(f, S, g), IsFold(f, T, h)
  PROVE  g[T] = h[T]
  <1> DEFINE Good == {s \in SUBSET T : g[s] = h[s]}
  <1>1. \A s \in SUBSET T : g[s] = Folded(f, g, s) /\ h[s] = Folded(f, h, s)
    BY DEF IsFold
  <1>2. ASSUME NEW s \in SUBSET T, \A t \in SUBSET s : t # s => t \in Good
        PROVE  s \in Good
    <2>1. CASE s = {}
      BY <1>1, <2>1 DEF Folded
    <2>2. CASE s # {}
      <3>1. s \ {Picked(s)} \in SUBSET s /\ s \ {Picked(s)} # s
        BY <2>2, PickedIn
      <3>2. g[s \ {Picked(s)}] = h[s \ {Picked(s)}]
        BY <1>2, <3>1
      <3> QED  BY <1>1, <2>2, <3>2 DEF Folded
    <2> QED  BY <2>1, <2>2
  <1>3. IsFiniteSet(T)
    BY FS_Subset
  <1>5. Good \in SUBSET SUBSET T
    OBVIOUS
  <1> HIDE DEF Good
  <1>4. Good = SUBSET T
    BY <1>2, <1>3, <1>5, SmallerSubsets
  <1> QED  BY <1>4 DEF Good

\* A sum is zero over nothing ...
LEMMA SumEmpty == \A f : SumFunctionOnSet(f, {}) = 0
  <1> SUFFICES ASSUME NEW f PROVE SumFunctionOnSet(f, {}) = 0
    OBVIOUS
  <1>1. \E g : IsFold(f, {}, g)
    BY FoldExists, FS_EmptySet
  <1>2. IsFold(f, {}, CHOOSE g : IsFold(f, {}, g))
    BY <1>1
  <1> QED  BY <1>2, FoldIsSum DEF IsFold, Folded

\* ... and otherwise one element and the rest.
LEMMA SumStep ==
  ASSUME NEW f, NEW S, IsFiniteSet(S), S # {}
  PROVE  SumFunctionOnSet(f, S) = f[Picked(S)] + SumFunctionOnSet(f, S \ {Picked(S)})
  <1> DEFINE T == S \ {Picked(S)}
             g == CHOOSE k : IsFold(f, S, k)
             h == CHOOSE k : IsFold(f, T, k)
  <1>1. T \in SUBSET S /\ IsFiniteSet(T)
    BY FS_Subset
  <1>2. IsFold(f, S, g) /\ IsFold(f, T, h)
    BY <1>1, FoldExists
  <1>3. SumFunctionOnSet(f, S) = g[S] /\ SumFunctionOnSet(f, T) = h[T]
    BY FoldIsSum
  <1>4. g[S] = f[Picked(S)] + g[T]
    BY <1>2 DEF IsFold, Folded
  <1> HIDE DEF g, h, T
  <1>5. g[T] = h[T]
    BY <1>1, <1>2, FoldsAgree
  <1> QED  BY <1>3, <1>4, <1>5 DEF T

-----------------------------------------------------------------------------
(* Sums.  What they are summed over is finite, and the values are numbers. *)

\* f is a number everywhere on a finite set.
Addable(f, S) == IsFiniteSet(S) /\ \A x \in S : f[x] \in Int

SumOf(f, S) == SumFunctionOnSet(f, S)

\* A sum is a number, and the order of the elements does not matter.
LEMMA SumOne ==
  ASSUME NEW f, NEW S, Addable(f, S)
  PROVE  /\ SumOf(f, S) \in Int
         /\ \A x \in S : SumOf(f, S) = f[x] + SumOf(f, S \ {x})
  <1> DEFINE Sum(s) == SumFunctionOnSet(f, s)
             Good == {s \in SUBSET S : Sum(s) \in Int /\ \A x \in s : Sum(s) = f[x] + Sum(s \ {x})}
  <1>0. IsFiniteSet(S) /\ \A x \in S : f[x] \in Int
    BY DEF Addable
  <1>1. ASSUME NEW s \in SUBSET S, \A t \in SUBSET s : t # s => t \in Good
        PROVE  s \in Good
    <2>1. CASE s = {}
      BY <2>1, SumEmpty
    <2>2. CASE s # {}
      <3> DEFINE c == Picked(s)
      <3>1. c \in s /\ f[c] \in Int
        BY <1>0, <2>2, PickedIn
      <3>2. Sum(s) = f[c] + Sum(s \ {c})
        BY <1>0, <2>2, SumStep, FS_Subset
      <3> HIDE DEF c, Sum
      <3>3. Sum(s \ {c}) \in Int
        BY <1>1, <3>1
      <3>4. ASSUME NEW x \in s PROVE Sum(s) = f[x] + Sum(s \ {x})
        <4>1. CASE x = c
          BY <3>2, <4>1
        <4>2. CASE x # c
          <5>1. s \ {c} \in Good /\ s \ {x} \in Good /\ f[x] \in Int
            BY <1>0, <1>1, <3>1
          <5>2. Sum(s \ {c}) = f[x] + Sum((s \ {c}) \ {x})
            BY <4>2, <5>1
          <5>3. Sum(s \ {x}) = f[c] + Sum((s \ {x}) \ {c})
            BY <3>1, <4>2, <5>1
          <5>4. (s \ {c}) \ {x} = (s \ {x}) \ {c} /\ (s \ {c}) \ {x} \in SUBSET s /\ (s \ {c}) \ {x} # s
            BY <3>1
          <5>5. Sum((s \ {c}) \ {x}) \in Int
            BY <1>1, <5>4
          <5>6. \A a, b, r \in Int : a + (b + r) = b + (a + r)
            OBVIOUS
          <5>7. f[c] + (f[x] + Sum((s \ {c}) \ {x})) = f[x] + (f[c] + Sum((s \ {c}) \ {x}))
            BY <3>1, <5>1, <5>5, <5>6
          <5> QED  BY <3>2, <5>2, <5>3, <5>4, <5>7
        <4> QED  BY <4>1, <4>2
      <3>5. Sum(s) \in Int
        BY <3>1, <3>2, <3>3
      <3> QED  BY <3>4, <3>5
    <2> QED  BY <2>1, <2>2
  <1>5. Good \in SUBSET SUBSET S
    OBVIOUS
  <1> HIDE DEF Good
  <1>2. Good = SUBSET S
    BY <1>0, <1>1, <1>5, SmallerSubsets
  <1> QED  BY <1>2 DEF Good, SumOf

\* The sum over nothing.
LEMMA SumNothing == \A f : SumOf(f, {}) = 0 /\ Addable(f, {})
  BY SumEmpty, FS_EmptySet DEF SumOf, Addable

\* What can be summed over a set can be summed over its parts ...
LEMMA PartAddable ==
  ASSUME NEW f, NEW S, Addable(f, S)
  PROVE  \A T \in SUBSET S : Addable(f, T) /\ Addable(f, S \ T)
  BY FS_Subset DEF Addable

\* ... and over two of them together.
LEMMA UnionAddable ==
  ASSUME NEW f, NEW S, NEW T, Addable(f, S), Addable(f, T)
  PROVE  Addable(f, S \cup T)
  BY FS_Union DEF Addable

\* What is summed is a number.
LEMMA ValueType ==
  ASSUME NEW f, NEW S, Addable(f, S)
  PROVE  \A x \in S : f[x] \in Int
  BY DEF Addable

\* A sum sees only the values.
LEMMA SumSame ==
  ASSUME NEW S, NEW f, NEW g, Addable(f, S), Addable(g, S), \A x \in S : g[x] = f[x]
  PROVE  SumOf(f, S) = SumOf(g, S)
  <1> DEFINE Good == {s \in SUBSET S : SumOf(f, s) = SumOf(g, s)}
  <1>1. {} \in Good
    BY SumNothing
  <1>2. ASSUME NEW s \in SUBSET S, NEW x \in s, s \ {x} \in Good PROVE s \in Good
    <2>1. Addable(f, s) /\ Addable(g, s)
      BY PartAddable
    <2>2. SumOf(f, s) = f[x] + SumOf(f, s \ {x}) /\ SumOf(g, s) = g[x] + SumOf(g, s \ {x})
      BY <2>1, SumOne
    <2> QED  BY <1>2, <2>2
  <1>3. Good \in SUBSET SUBSET S
    OBVIOUS
  <1>4. IsFiniteSet(S)
    BY DEF Addable
  <1> HIDE DEF Good
  <1>5. Good = SUBSET S
    BY <1>1, <1>2, <1>3, <1>4, SubsetInduction
  <1> QED  BY <1>5 DEF Good

\* Sums over two disjoint sets.
LEMMA SumUnion ==
  ASSUME NEW S, NEW T, S \cap T = {}, NEW f, Addable(f, S), Addable(f, T)
  PROVE  SumOf(f, S \cup T) = SumOf(f, S) + SumOf(f, T)
  <1> DEFINE Good == {s \in SUBSET T : SumOf(f, S \cup s) = SumOf(f, S) + SumOf(f, s)}
  <1>1. {} \in Good
    <2>1. SumOf(f, {}) = 0 /\ SumOf(f, S) \in Int /\ S \cup {} = S
      BY SumNothing, SumOne
    <2> QED  BY <2>1
  <1>2. ASSUME NEW s \in SUBSET T, NEW x \in s, s \ {x} \in Good PROVE s \in Good
    <2>1. (S \cup s) \ {x} = S \cup (s \ {x}) /\ x \in S \cup s
      OBVIOUS
    <2>2. Addable(f, s) /\ s \ {x} \in SUBSET s
      BY PartAddable
    <2>3. Addable(f, S \cup s) /\ Addable(f, s \ {x})
      BY <2>2, PartAddable, UnionAddable
    <2>4. /\ SumOf(f, S \cup s) = f[x] + SumOf(f, (S \cup s) \ {x})
          /\ SumOf(f, s) = f[x] + SumOf(f, s \ {x})
      BY <2>1, <2>2, <2>3, SumOne
    <2>5. SumOf(f, S) \in Int /\ SumOf(f, s \ {x}) \in Int /\ f[x] \in Int
      BY <2>2, <2>3, SumOne, ValueType
    <2>6. SumOf(f, S \cup (s \ {x})) = SumOf(f, S) + SumOf(f, s \ {x})
      BY <1>2
    <2>7. \A a, b, c \in Int : a + (b + c) = b + (a + c)
      OBVIOUS
    <2>8. f[x] + (SumOf(f, S) + SumOf(f, s \ {x})) = SumOf(f, S) + (f[x] + SumOf(f, s \ {x}))
      BY <2>5, <2>7
    <2> QED  BY <2>1, <2>4, <2>6, <2>8
  <1>3. Good \in SUBSET SUBSET T
    OBVIOUS
  <1>4. IsFiniteSet(T)
    BY DEF Addable
  <1> HIDE DEF Good
  <1>5. Good = SUBSET T
    BY <1>1, <1>2, <1>3, <1>4, SubsetInduction
  <1> QED  BY <1>5 DEF Good

\* A part and the rest.
LEMMA SumSplit ==
  ASSUME NEW f, NEW D, Addable(f, D)
  PROVE  \A S \in SUBSET D : SumOf(f, D) = SumOf(f, S) + SumOf(f, D \ S)
  <1> SUFFICES ASSUME NEW S \in SUBSET D PROVE SumOf(f, D) = SumOf(f, S) + SumOf(f, D \ S)
    OBVIOUS
  <1>1. Addable(f, S) /\ Addable(f, D \ S)
    BY PartAddable
  <1>2. S \cap (D \ S) = {} /\ S \cup (D \ S) = D
    OBVIOUS
  <1>3. SumOf(f, S \cup (D \ S)) = SumOf(f, S) + SumOf(f, D \ S)
    BY <1>1, <1>2, SumUnion
  <1> QED  BY <1>2, <1>3, Zenon

\* One element more.
LEMMA SumWith ==
  ASSUME NEW f, NEW D, Addable(f, D), NEW x, x \notin D, f[x] \in Int
  PROVE  Addable(f, D \cup {x}) /\ SumOf(f, D \cup {x}) = SumOf(f, D) + f[x]
  <1>1. Addable(f, D \cup {x})
    BY FS_AddElement DEF Addable
  <1>2. (D \cup {x}) \ {x} = D /\ x \in D \cup {x}
    OBVIOUS
  <1>3. SumOf(f, D \cup {x}) = f[x] + SumOf(f, (D \cup {x}) \ {x}) /\ SumOf(f, D) \in Int
    BY <1>1, <1>2, SumOne
  <1>4. SumOf(f, D \cup {x}) = f[x] + SumOf(f, D) /\ SumOf(f, D) \in Int
    BY <1>2, <1>3, SumOne
  <1>5. \A a, b \in Int : a + b = b + a
    OBVIOUS
  <1>6. f[x] + SumOf(f, D) = SumOf(f, D) + f[x]
    BY <1>4, <1>5
  <1> QED  BY <1>1, <1>4, <1>6

\* Sums of sums.
LEMMA SumPlus ==
  ASSUME NEW D, NEW f, NEW g, NEW h, Addable(f, D), Addable(g, D), Addable(h, D),
         \A x \in D : h[x] = f[x] + g[x]
  PROVE  SumOf(h, D) = SumOf(f, D) + SumOf(g, D)
  <1> DEFINE Good == {s \in SUBSET D : SumOf(h, s) = SumOf(f, s) + SumOf(g, s)}
  <1>1. {} \in Good
    BY SumNothing
  <1>2. ASSUME NEW s \in SUBSET D, NEW x \in s, s \ {x} \in Good PROVE s \in Good
    <2>1. Addable(f, s) /\ Addable(g, s) /\ Addable(h, s) /\ s \ {x} \in SUBSET s
      BY PartAddable
    <2>2. Addable(f, s \ {x}) /\ Addable(g, s \ {x})
      BY <2>1, PartAddable
    <2>3. /\ SumOf(f, s) = f[x] + SumOf(f, s \ {x})
          /\ SumOf(g, s) = g[x] + SumOf(g, s \ {x})
          /\ SumOf(h, s) = h[x] + SumOf(h, s \ {x})
      BY <2>1, SumOne
    <2>4. /\ SumOf(f, s \ {x}) \in Int /\ SumOf(g, s \ {x}) \in Int
          /\ f[x] \in Int /\ g[x] \in Int
      BY <2>1, <2>2, SumOne, ValueType
    <2>5. SumOf(h, s \ {x}) = SumOf(f, s \ {x}) + SumOf(g, s \ {x}) /\ h[x] = f[x] + g[x]
      BY <1>2
    <2>6. \A a, b, c, d \in Int : (a + b) + (c + d) = (a + c) + (b + d)
      OBVIOUS
    <2>7. (f[x] + g[x]) + (SumOf(f, s \ {x}) + SumOf(g, s \ {x}))
              = (f[x] + SumOf(f, s \ {x})) + (g[x] + SumOf(g, s \ {x}))
      BY <2>4, <2>6
    <2> QED  BY <2>3, <2>5, <2>7
  <1>3. Good \in SUBSET SUBSET D
    OBVIOUS
  <1>4. IsFiniteSet(D)
    BY DEF Addable
  <1> HIDE DEF Good
  <1>5. Good = SUBSET D
    BY <1>1, <1>2, <1>3, <1>4, SubsetInduction
  <1> QED  BY <1>5 DEF Good

\* A sum of larger values is larger.
LEMMA SumBound ==
  ASSUME NEW D, NEW f, NEW g, Addable(f, D), Addable(g, D), \A x \in D : f[x] <= g[x]
  PROVE  SumOf(f, D) <= SumOf(g, D)
  <1> DEFINE Good == {s \in SUBSET D : SumOf(f, s) <= SumOf(g, s)}
  <1>1. {} \in Good
    BY SumNothing
  <1>2. ASSUME NEW s \in SUBSET D, NEW x \in s, s \ {x} \in Good PROVE s \in Good
    <2>1. Addable(f, s) /\ Addable(g, s) /\ s \ {x} \in SUBSET s
      BY PartAddable
    <2>2. Addable(f, s \ {x}) /\ Addable(g, s \ {x})
      BY <2>1, PartAddable
    <2>3. SumOf(f, s) = f[x] + SumOf(f, s \ {x}) /\ SumOf(g, s) = g[x] + SumOf(g, s \ {x})
      BY <2>1, SumOne
    <2>4. /\ SumOf(f, s \ {x}) \in Int /\ SumOf(g, s \ {x}) \in Int
          /\ f[x] \in Int /\ g[x] \in Int
      BY <2>1, <2>2, SumOne, ValueType
    <2>5. SumOf(f, s \ {x}) <= SumOf(g, s \ {x}) /\ f[x] <= g[x]
      BY <1>2
    <2>6. \A a, b, c, d \in Int : a <= b /\ c <= d => a + c <= b + d
      OBVIOUS
    <2>7. f[x] + SumOf(f, s \ {x}) <= g[x] + SumOf(g, s \ {x})
      BY <2>4, <2>5, <2>6
    <2> QED  BY <2>3, <2>7
  <1>3. Good \in SUBSET SUBSET D
    OBVIOUS
  <1>4. IsFiniteSet(D)
    BY DEF Addable
  <1> HIDE DEF Good
  <1>5. Good = SUBSET D
    BY <1>1, <1>2, <1>3, <1>4, SubsetInduction
  <1> QED  BY <1>5 DEF Good

\* A sum of what is not negative is not negative.
LEMMA SumPositive ==
  ASSUME NEW D, NEW f, Addable(f, D), \A x \in D : f[x] >= 0
  PROVE  SumOf(f, D) \in Nat
  <1> DEFINE zero == [x \in D |-> 0]
  <1>1. \A x \in D : zero[x] = 0 /\ zero[x] = zero[x] + zero[x] /\ zero[x] <= f[x]
    BY ValueType
  <1>2. Addable(zero, D)
    BY DEF Addable
  <1> HIDE DEF zero
  <1>3. SumOf(zero, D) \in Int /\ SumOf(f, D) \in Int
    BY <1>2, SumOne
  <1>4. SumOf(zero, D) = SumOf(zero, D) + SumOf(zero, D)
    BY <1>1, <1>2, SumPlus
  <1>5. SumOf(zero, D) <= SumOf(f, D)
    BY <1>1, <1>2, SumBound
  <1> QED  BY <1>3, <1>4, <1>5

-----------------------------------------------------------------------------
(* Sums over elements that are replaced by others.                         *)

Image(h, S) == {h[x] : x \in S}

Distinct(h, S) == \A x, y \in S : h[x] = h[y] => x = y

\* The elements may be renamed.
LEMMA SumRenamed ==
  ASSUME NEW D, NEW h, Distinct(h, D), NEW f, NEW g, Addable(f, D), \A x \in D : g[h[x]] = f[x]
  PROVE  Addable(g, Image(h, D)) /\ SumOf(g, Image(h, D)) = SumOf(f, D)
  <1> DEFINE Good == {s \in SUBSET D : /\ Addable(g, Image(h, s))
                                       /\ SumOf(g, Image(h, s)) = SumOf(f, s)}
  <1>1. {} \in Good
    <2>1. Image(h, {}) = {}
      BY DEF Image
    <2> QED  BY <2>1, SumNothing
  <1>2. ASSUME NEW s \in SUBSET D, NEW x \in s, s \ {x} \in Good PROVE s \in Good
    <2>1. h[x] \notin Image(h, s \ {x}) /\ Image(h, s) = Image(h, s \ {x}) \cup {h[x]}
      BY DEF Image, Distinct
    <2>2. Addable(f, s) /\ f[x] \in Int /\ g[h[x]] = f[x]
      BY PartAddable, ValueType
    <2>3. s \ {x} \in SUBSET s /\ Addable(f, s \ {x})
      BY <2>2, PartAddable
    <2>4. SumOf(f, s) = f[x] + SumOf(f, s \ {x}) /\ SumOf(f, s \ {x}) \in Int
      BY <2>2, <2>3, SumOne
    <2>5. Addable(g, Image(h, s \ {x})) /\ SumOf(g, Image(h, s \ {x})) = SumOf(f, s \ {x})
      BY <1>2
    <2>6. g[h[x]] \in Int
      BY <2>2
    <2>7. /\ Addable(g, Image(h, s \ {x}) \cup {h[x]})
          /\ SumOf(g, Image(h, s \ {x}) \cup {h[x]}) = SumOf(g, Image(h, s \ {x})) + g[h[x]]
      <3>1. PICK I, e : I = Image(h, s \ {x}) /\ e = h[x]
        OBVIOUS
      <3>2. Addable(g, I) /\ e \notin I /\ g[e] \in Int
        BY <2>1, <2>5, <2>6, <3>1
      <3>3. Addable(g, I \cup {e}) /\ SumOf(g, I \cup {e}) = SumOf(g, I) + g[e]
        BY <3>2, SumWith
      <3> QED  BY <3>1, <3>3
    <2>8. \A a, b \in Int : a + b = b + a
      OBVIOUS
    <2>9. f[x] + SumOf(f, s \ {x}) = SumOf(f, s \ {x}) + f[x]
      BY <2>2, <2>4, <2>8
    <2>10. Addable(g, Image(h, s)) /\ SumOf(g, Image(h, s)) = SumOf(f, s)
      BY <2>1, <2>2, <2>4, <2>5, <2>7, <2>9, Zenon
    <2> QED  BY <2>10
  <1>3. Good \in SUBSET SUBSET D
    OBVIOUS
  <1>4. IsFiniteSet(D)
    BY DEF Addable
  <1> HIDE DEF Good
  <1>5. Good = SUBSET D
    BY <1>1, <1>2, <1>3, <1>4, SubsetInduction
  <1> QED  BY <1>5 DEF Good

\* Every element is replaced by one that is worth less by d.
LEMMA SumMoved ==
  ASSUME NEW S, NEW h, Distinct(h, S), NEW f, NEW d, Addable(f, S), Addable(d, S),
         \A x \in S : f[h[x]] = f[x] - d[x]
  PROVE  Addable(f, Image(h, S)) /\ SumOf(f, Image(h, S)) = SumOf(f, S) - SumOf(d, S)
  <1> DEFINE k == [x \in S |-> f[x] - d[x]]
  <1>1. \A x \in S : k[x] \in Int /\ f[h[x]] = k[x] /\ f[x] = k[x] + d[x]
    BY ValueType
  <1> HIDE DEF k
  <1>2. Addable(k, S)
    BY <1>1 DEF Addable
  <1>3. Addable(f, Image(h, S)) /\ SumOf(f, Image(h, S)) = SumOf(k, S)
    BY <1>1, <1>2, SumRenamed
  <1>4. SumOf(f, S) = SumOf(k, S) + SumOf(d, S)
    BY <1>1, <1>2, SumPlus
  <1>5. SumOf(k, S) \in Int /\ SumOf(d, S) \in Int
    BY <1>2, SumOne
  <1> QED  BY <1>3, <1>4, <1>5

\* Some elements are replaced, each by one that is worth less by d.
LEMMA SumReplaced ==
  ASSUME NEW D, NEW S \in SUBSET D, NEW h, Distinct(h, S), Image(h, S) \cap (D \ S) = {},
         NEW f, NEW d, Addable(f, D), Addable(d, S), \A x \in S : f[h[x]] = f[x] - d[x]
  PROVE  /\ Addable(f, (D \ S) \cup Image(h, S))
         /\ SumOf(f, (D \ S) \cup Image(h, S)) = SumOf(f, D) - SumOf(d, S)
  <1>1. Addable(f, S) /\ Addable(f, D \ S)
    BY PartAddable
  <1>2. Addable(f, Image(h, S)) /\ SumOf(f, Image(h, S)) = SumOf(f, S) - SumOf(d, S)
    BY <1>1, SumMoved
  <1>3. SumOf(f, D) = SumOf(f, S) + SumOf(f, D \ S)
    BY SumSplit
  <1>4. (D \ S) \cap Image(h, S) = {}
    OBVIOUS
  <1>5. /\ Addable(f, (D \ S) \cup Image(h, S))
        /\ SumOf(f, (D \ S) \cup Image(h, S)) = SumOf(f, D \ S) + SumOf(f, Image(h, S))
    BY <1>1, <1>2, <1>4, SumUnion, UnionAddable
  <1>6. SumOf(f, S) \in Int /\ SumOf(f, D \ S) \in Int /\ SumOf(d, S) \in Int
    BY <1>1, SumOne
  <1>7. \A a, b, c \in Int : c + (a - b) = (a + c) - b
    OBVIOUS
  <1>8. SumOf(f, D \ S) + (SumOf(f, S) - SumOf(d, S))
            = (SumOf(f, S) + SumOf(f, D \ S)) - SumOf(d, S)
    BY <1>6, <1>7
  <1> QED  BY <1>2, <1>3, <1>5, <1>8
=============================================================================
