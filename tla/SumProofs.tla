------------------------------ MODULE SumProofs ------------------------------
(***************************************************************************)
(* Sums over a finite set, as SumFunctionOnSet defines them: by taking one *)
(* element after the other, in an order that is not specified.             *)
(*                                                                         *)
(* Induction is used for sets, not for formulas: a set of numbers, or of   *)
(* subsets, that contains what it must contain contains everything,        *)
(* because what it leaves out would have a least element.                  *)
(***************************************************************************)
EXTENDS Functions, FiniteSetTheorems, TLAPS

\* A leaf goes to Zenon, unless it names the SMT solver: where it needs
\* arithmetic, or functions and records are rewritten.
USE ZenonT(30)

\* A set of numbers that has 0, and the successor of each of its elements, has
\* every number.
LEMMA AllNumbers ==
  ASSUME NEW A, 0 \in A, \A n \in Nat : n \in A => n + 1 \in A
  PROVE  Nat \subseteq A
<1>1. SUFFICES ASSUME Nat \ A # {} PROVE FALSE
  OBVIOUS
<1>2. PICK x \in Nat \ A : \A y \in Nat \ A : <<y, x>> \notin OpToRel(<, Nat)
  <2>1. Nat \ A \subseteq Nat
    OBVIOUS
  <2> QED  BY <1>1, <2>1, WFMin, NatLessThanWellFounded, Zenon
<1>3. \A y \in Nat \ A : ~(y < x)
  BY <1>2 DEF OpToRel
<1> QED  BY <1>3, SMTT(30)

\* A collection that has every subset of S whose own smaller subsets it has, has
\* every subset of S.
LEMMA AllSubsets ==
  ASSUME NEW S, IsFiniteSet(S), NEW P,
         \A A \in SUBSET S :
           (\A B \in SUBSET A : B # A => B \in P) => A \in P
  PROVE  SUBSET S \subseteq P
<1>1. SUFFICES ASSUME (SUBSET S) \ P # {} PROVE FALSE
  OBVIOUS
<1>2. IsWellFoundedOn(StrictSubsetOrdering(S), SUBSET S)
  BY FS_StrictSubsetOrderingWellFounded, FS_FiniteSubsetsOfFinite, Zenon
<1>3. PICK A \in (SUBSET S) \ P :
        \A B \in (SUBSET S) \ P : <<B, A>> \notin StrictSubsetOrdering(S)
  <2> DEFINE T == (SUBSET S) \ P
             U == SUBSET S
             R == StrictSubsetOrdering(S)
  <2>1. T \subseteq U /\ T # {} /\ IsWellFoundedOn(R, U)
    BY <1>1, <1>2
  <2>2. \E A \in T : \A B \in T : ~(<<B, A>> \in R)
    <3> HIDE DEF T, U, R
    <3> QED  BY <2>1, WFMin, SMTT(30)
  <2> QED  BY <2>2
<1>4. \A B \in SUBSET A : B # A => B \in P
  BY <1>3 DEF StrictSubsetOrdering
<1> QED  BY <1>3, <1>4

-----------------------------------------------------------------------------
\* Sums

\* The element of a set that a sum takes first.
First(A) == CHOOSE x \in A : TRUE

\* It is one of its elements.
LEMMA FirstIn == ASSUME NEW A, A # {} PROVE First(A) \in A
  BY DEF First

\* What a sum is defined by: a function of the subsets of S that takes one element
\* after the other.
Sums(f, S, g) ==
  g = [A \in SUBSET S |-> IF A = {} THEN 0 ELSE f[First(A)] + g[A \ {First(A)}]]

\* SumFunctionOnSet in these terms.
LEMMA SumDefinition ==
  ASSUME NEW f, NEW S
  PROVE  SumFunctionOnSet(f, S) = (CHOOSE g : Sums(f, S, g))[S]
  BY Zenon DEF SumFunctionOnSet, FoldFunctionOnSet, MapThenFoldSet, Sums, First

\* There is such a function, built up by the size of the subsets.
UpToSize(S, n) == {A \in SUBSET S : Cardinality(A) <= n}

SumsUpTo(f, S, n, g) ==
  /\ DOMAIN g = UpToSize(S, n)
  /\ \A A \in UpToSize(S, n) :
       g[A] = IF A = {} THEN 0 ELSE f[First(A)] + g[A \ {First(A)}]

\* Taking the first element out of a subset makes it one smaller.
LEMMA Smaller ==
  ASSUME NEW S, IsFiniteSet(S), NEW A \in SUBSET S, A # {}
  PROVE  /\ A \ {First(A)} \in SUBSET S
         /\ A \ {First(A)} # A
         /\ Cardinality(A) \in Nat /\ Cardinality(A \ {First(A)}) = Cardinality(A) - 1
<1>1. IsFiniteSet(A)
  BY FS_Subset
<1>2. First(A) \in A
  BY FirstIn
<1> QED  BY <1>1, <1>2, FS_RemoveElement, FS_CardinalityType, SMTT(30)

\* There is such a function for every finite set.
LEMMA SumsExist ==
  ASSUME NEW f, NEW S, IsFiniteSet(S)
  PROVE  \E g : Sums(f, S, g)
<1> DEFINE N == {n \in Nat : \E g : SumsUpTo(f, S, n, g)}
<1>1. 0 \in N
  <2> DEFINE g == [A \in UpToSize(S, 0) |-> 0]
  <2>1. \A A \in UpToSize(S, 0) : A = {}
    BY FS_Subset, FS_EmptySet, FS_CardinalityType, SMTT(30) DEF UpToSize
  <2>2. SumsUpTo(f, S, 0, g)
    BY <2>1 DEF SumsUpTo
  <2> QED  BY <2>2
<1>2. ASSUME NEW n \in Nat, n \in N PROVE n + 1 \in N
  <2>1. PICK h : SumsUpTo(f, S, n, h)
    BY <1>2
  <2> DEFINE g == [A \in UpToSize(S, n + 1) |->
                    IF A \in UpToSize(S, n) THEN h[A]
                    ELSE f[First(A)] + h[A \ {First(A)}]]
  <2>2. ASSUME NEW A \in UpToSize(S, n + 1), A # {}
        PROVE  A \ {First(A)} \in UpToSize(S, n) /\ A \ {First(A)} \in UpToSize(S, n + 1)
    BY <2>2, Smaller, SMTT(30) DEF UpToSize
  <2>3. {} \in UpToSize(S, n)
    BY FS_EmptySet, SMTT(30) DEF UpToSize
  <2>4. ASSUME NEW A \in UpToSize(S, n + 1)
        PROVE  g[A] = IF A = {} THEN 0 ELSE f[First(A)] + g[A \ {First(A)}]
    <3>1. CASE A = {}
      BY <2>1, <2>3, <3>1 DEF SumsUpTo
    <3>2. CASE A # {}
      <4>1. g[A \ {First(A)}] = h[A \ {First(A)}]
        BY <2>2, <3>2
      <4>2. g[A] = f[First(A)] + h[A \ {First(A)}]
        BY <2>1, <3>2 DEF SumsUpTo
      <4> QED  BY <3>2, <4>1, <4>2
    <3> QED  BY <3>1, <3>2
  <2>5. SumsUpTo(f, S, n + 1, g)
    BY <2>4 DEF SumsUpTo
  <2> QED  BY <2>5, SMTT(30)
<1>3. PICK g : SumsUpTo(f, S, Cardinality(S), g)
  <2>1. Nat \subseteq N
    BY <1>1, <1>2, AllNumbers
  <2> QED  BY <2>1, FS_CardinalityType
<1>4. UpToSize(S, Cardinality(S)) = SUBSET S
  BY FS_Subset, SMTT(30) DEF UpToSize
<1>5. ASSUME NEW A \in SUBSET S, A # {} PROVE A \ {First(A)} \in SUBSET S
  OBVIOUS
<1> DEFINE h == [A \in SUBSET S |-> g[A]]
<1>6. Sums(f, S, h)
  BY <1>3, <1>4, <1>5 DEF Sums, SumsUpTo
<1> QED  BY <1>6

\* A sum is taken by any function that is as Sums says.
LEMMA SumsAgree ==
  ASSUME NEW f, NEW S, IsFiniteSet(S), NEW A \in SUBSET S,
         NEW g, Sums(f, S, g), NEW h, Sums(f, A, h)
  PROVE  \A B \in SUBSET A : g[B] = h[B]
<1> DEFINE P == {B \in SUBSET A : g[B] = h[B]}
<1>1. ASSUME NEW B \in SUBSET A, \A C \in SUBSET B : C # B => C \in P
      PROVE  B \in P
  <2>1. CASE B = {}
    BY <2>1 DEF Sums
  <2>2. CASE B # {}
    <3>1. B \ {First(B)} \in P
      BY <1>1, <2>2, FirstIn
    <3>2. g[B] = f[First(B)] + g[B \ {First(B)}]
      BY <2>2 DEF Sums
    <3>3. h[B] = f[First(B)] + h[B \ {First(B)}]
      BY <2>2 DEF Sums
    <3> QED  BY <3>1, <3>2, <3>3
  <2> QED  BY <2>1, <2>2
<1>2. IsFiniteSet(A)
  BY FS_Subset
<1> HIDE DEF P
<1>3. SUBSET A \subseteq P
  BY <1>1, <1>2, AllSubsets
<1> QED  BY <1>3 DEF P

\* The sum over nothing.
LEMMA SumEmpty == ASSUME NEW f PROVE SumFunctionOnSet(f, {}) = 0
<1>1. PICK g : Sums(f, {}, g)
  BY SumsExist, FS_EmptySet
<1>2. Sums(f, {}, CHOOSE h : Sums(f, {}, h))
  BY <1>1
<1> QED  BY <1>2, SumDefinition DEF Sums

\* The sum over a set takes one element and the sum over the others.
LEMMA SumFirst ==
  ASSUME NEW f, NEW S, IsFiniteSet(S), S # {}
  PROVE  SumFunctionOnSet(f, S) = f[First(S)] + SumFunctionOnSet(f, S \ {First(S)})
<1> DEFINE A == S \ {First(S)}
           g == CHOOSE k : Sums(f, S, k)
           h == CHOOSE k : Sums(f, A, k)
<1>1. IsFiniteSet(A) /\ A \in SUBSET S
  BY FS_Subset
<1>2. Sums(f, S, g)
  BY SumsExist
<1>3. Sums(f, A, h)
  BY <1>1, SumsExist
<1>4. g[A] = h[A]
  BY <1>1, <1>2, <1>3, SumsAgree, SMTT(30)
<1>5. g[S] = f[First(S)] + g[A]
  BY <1>2 DEF Sums
<1> QED  BY <1>4, <1>5, SumDefinition

\* Numbers that can be added up.
Summable(f, S) == IsFiniteSet(S) /\ \A x \in S : f[x] \in Int

\* A sum of numbers is a number.
LEMMA SumInt ==
  ASSUME NEW f, NEW S, Summable(f, S)
  PROVE  SumFunctionOnSet(f, S) \in Int
<1> DEFINE P == {A \in SUBSET S : SumFunctionOnSet(f, A) \in Int}
<1>1. ASSUME NEW A \in SUBSET S, \A B \in SUBSET A : B # A => B \in P
      PROVE  A \in P
  <2>1. CASE A = {}
    BY <2>1, SumEmpty, SMTT(30)
  <2>2. CASE A # {}
    <3>1. A \ {First(A)} \in P /\ First(A) \in A
      BY <1>1, <2>2, FirstIn
    <3>2. SumFunctionOnSet(f, A) = f[First(A)] + SumFunctionOnSet(f, A \ {First(A)})
      BY <2>2, SumFirst, FS_Subset DEF Summable
    <3> QED  BY <3>1, <3>2, SMTT(30) DEF Summable
  <2> QED  BY <2>1, <2>2
<1> HIDE DEF P
<1>2. SUBSET S \subseteq P
  BY <1>1, AllSubsets DEF Summable
<1> QED  BY <1>2 DEF P

\* Any element may be taken first.
LEMMA SumTake ==
  ASSUME NEW f, NEW S, Summable(f, S), NEW x \in S
  PROVE  SumFunctionOnSet(f, S) = f[x] + SumFunctionOnSet(f, S \ {x})
<1> DEFINE P == {A \in SUBSET S : \A y \in A :
                   SumFunctionOnSet(f, A) = f[y] + SumFunctionOnSet(f, A \ {y})}
<1>1. ASSUME NEW A \in SUBSET S, \A B \in SUBSET A : B # A => B \in P
      PROVE  A \in P
  <2>1. SUFFICES ASSUME NEW y \in A
                 PROVE  SumFunctionOnSet(f, A) = f[y] + SumFunctionOnSet(f, A \ {y})
    OBVIOUS
  <2> DEFINE c == First(A)
             B == A \ {c}
             C == A \ {y}
             D == A \ {c, y}
  <2>2. c \in A /\ SumFunctionOnSet(f, A) = f[c] + SumFunctionOnSet(f, B)
    BY FirstIn, SumFirst, FS_Subset DEF Summable
  <2>3. CASE y = c
    BY <2>2, <2>3
  <2>4. CASE y # c
    <3>1. B \in P /\ C \in P /\ B \ {y} = D /\ C \ {c} = D /\ y \in B /\ c \in C
      BY <1>1, <2>2, <2>4
    <3>2. SumFunctionOnSet(f, B) = f[y] + SumFunctionOnSet(f, D)
      BY <3>1
    <3>3. SumFunctionOnSet(f, C) = f[c] + SumFunctionOnSet(f, D)
      BY <3>1
    <3>4. SumFunctionOnSet(f, D) \in Int /\ f[c] \in Int /\ f[y] \in Int
      BY <2>2, SumInt, FS_Subset DEF Summable
    <3> QED  BY <2>2, <3>2, <3>3, <3>4, SMTT(30)
  <2> QED  BY <2>3, <2>4
<1> HIDE DEF P
<1>2. SUBSET S \subseteq P
  BY <1>1, AllSubsets DEF Summable
<1> QED  BY <1>2 DEF P

\* A sum depends on the values at the elements only.
LEMMA SumSame ==
  ASSUME NEW f, NEW h, NEW S, IsFiniteSet(S), \A x \in S : f[x] = h[x]
  PROVE  SumFunctionOnSet(f, S) = SumFunctionOnSet(h, S)
<1> DEFINE P == {A \in SUBSET S : SumFunctionOnSet(f, A) = SumFunctionOnSet(h, A)}
<1>1. ASSUME NEW A \in SUBSET S, \A B \in SUBSET A : B # A => B \in P
      PROVE  A \in P
  <2>1. CASE A = {}
    BY <2>1, SumEmpty
  <2>2. CASE A # {}
    <3>1. A \ {First(A)} \in P /\ First(A) \in A
      BY <1>1, <2>2, FirstIn
    <3>2. /\ SumFunctionOnSet(f, A) = f[First(A)] + SumFunctionOnSet(f, A \ {First(A)})
          /\ SumFunctionOnSet(h, A) = h[First(A)] + SumFunctionOnSet(h, A \ {First(A)})
      BY <2>2, SumFirst, FS_Subset
    <3> QED  BY <3>1, <3>2
  <2> QED  BY <2>1, <2>2
<1> HIDE DEF P
<1>2. SUBSET S \subseteq P
  BY <1>1, AllSubsets
<1> QED  BY <1>2 DEF P

\* Counting once more under one element.
LEMMA SumBump ==
  ASSUME NEW f, NEW h, NEW S, Summable(f, S), NEW k \in S,
         h[k] = f[k] + 1, \A x \in S \ {k} : h[x] = f[x]
  PROVE  SumFunctionOnSet(h, S) = SumFunctionOnSet(f, S) + 1
<1>1. Summable(h, S) /\ Summable(f, S \ {k}) /\ Summable(h, S \ {k})
  BY FS_Subset, SMTT(30) DEF Summable
<1>2. SumFunctionOnSet(f, S) = f[k] + SumFunctionOnSet(f, S \ {k})
  BY SumTake, SMTT(30)
<1>3. SumFunctionOnSet(h, S) = h[k] + SumFunctionOnSet(h, S \ {k})
  BY <1>1, SumTake, SMTT(30)
<1>4. SumFunctionOnSet(h, S \ {k}) = SumFunctionOnSet(f, S \ {k})
  BY <1>1, SumSame DEF Summable
<1>5. SumFunctionOnSet(f, S \ {k}) \in Int /\ f[k] \in Int
  BY <1>1, SumInt DEF Summable
<1> QED  BY <1>2, <1>3, <1>4, <1>5, SMTT(30)

\* Nothing has been counted.
LEMMA SumZero ==
  ASSUME NEW f, NEW S, IsFiniteSet(S), \A x \in S : f[x] = 0
  PROVE  SumFunctionOnSet(f, S) = 0
<1> DEFINE P == {A \in SUBSET S : SumFunctionOnSet(f, A) = 0}
<1>1. ASSUME NEW A \in SUBSET S, \A B \in SUBSET A : B # A => B \in P
      PROVE  A \in P
  <2>1. CASE A = {}
    BY <2>1, SumEmpty
  <2>2. CASE A # {}
    <3>1. A \ {First(A)} \in P /\ First(A) \in A
      BY <1>1, <2>2, FirstIn
    <3>2. SumFunctionOnSet(f, A) = f[First(A)] + SumFunctionOnSet(f, A \ {First(A)})
      BY <2>2, SumFirst, FS_Subset
    <3>3. f[First(A)] = 0
      BY <3>1
    <3> QED  BY <3>1, <3>2, <3>3, SMTT(30)
  <2> QED  BY <2>1, <2>2
<1> HIDE DEF P
<1>2. SUBSET S \subseteq P
  BY <1>1, AllSubsets
<1> QED  BY <1>2 DEF P

\* A part of a sum of numbers that are not negative is no more than the sum.
LEMMA SumPart ==
  ASSUME NEW f, NEW S, Summable(f, S), \A x \in S : f[x] >= 0, NEW A \in SUBSET S
  PROVE  SumFunctionOnSet(f, A) <= SumFunctionOnSet(f, S)
<1> DEFINE P == {B \in SUBSET S : \A C \in SUBSET B :
                   SumFunctionOnSet(f, C) <= SumFunctionOnSet(f, B)}
<1>0. \A B \in SUBSET S : Summable(f, B) /\ SumFunctionOnSet(f, B) \in Int
  BY SumInt, FS_Subset DEF Summable
<1>1. ASSUME NEW B \in SUBSET S, \A C \in SUBSET B : C # B => C \in P
      PROVE  B \in P
  <2>1. SUFFICES ASSUME NEW C \in SUBSET B
                 PROVE  SumFunctionOnSet(f, C) <= SumFunctionOnSet(f, B)
    OBVIOUS
  <2>2. CASE C = B
    BY <1>0, <2>2, SMTT(30)
  <2>3. CASE C # B
    <3>1. PICK x \in B : x \notin C
      BY <2>3
    <3>2. SumFunctionOnSet(f, B) = f[x] + SumFunctionOnSet(f, B \ {x})
      <4>1. Summable(f, B)
        BY ONLY <1>0, B \in SUBSET S
      <4> QED  BY ONLY <4>1, x \in B, SumTake
    <3>3. SumFunctionOnSet(f, C) <= SumFunctionOnSet(f, B \ {x})
      BY <1>1, <3>1
    <3>4. /\ SumFunctionOnSet(f, C) \in Int /\ SumFunctionOnSet(f, B \ {x}) \in Int
          /\ f[x] \in Int /\ f[x] >= 0
      BY <1>0 DEF Summable
    <3> QED  BY <3>2, <3>3, <3>4, SMTT(30)
  <2> QED  BY <2>2, <2>3
<1> HIDE DEF P
<1>2. SUBSET S \subseteq P
  BY <1>1, AllSubsets DEF Summable
<1> QED  BY <1>2 DEF P

\* A sum may be taken over other indices with the same numbers.
LEMMA SumMoved ==
  ASSUME NEW D, NEW S, NEW g \in Bijection(D, S), NEW f, NEW h, Summable(f, D),
         \A a \in D : f[a] = h[g[a]]
  PROVE  SumFunctionOnSet(f, D) = SumFunctionOnSet(h, S)
<1> DEFINE image(A) == {g[a] : a \in A}
           P == {A \in SUBSET D : SumFunctionOnSet(f, A) = SumFunctionOnSet(h, image(A))}
<1>0. /\ g \in [D -> S] /\ \A a, b \in D : g[a] = g[b] => a = b
      /\ \A y \in S : \E a \in D : g[a] = y
  BY DEF Bijection, Injection, IsInjective, Surjection
<1>1. IsFiniteSet(S) /\ image(D) = S
  <2>1. g \in Surjection(D, S) /\ IsFiniteSet(D)
    BY DEF Bijection, Summable
  <2>2. IsFiniteSet(S)
    BY <2>1, FS_Surjection
  <2>3. image(D) = S
    BY <1>0, SMTT(30)
  <2> QED  BY <2>2, <2>3
<1>2. Summable(h, S)
  <2>1. ASSUME NEW y \in S PROVE h[y] \in Int
    <3>1. PICK a \in D : g[a] = y
      BY <1>0
    <3> QED  BY <3>1 DEF Summable
  <2> QED  BY <1>1, <2>1 DEF Summable
<1>3. ASSUME NEW A \in SUBSET D, \A B \in SUBSET A : B # A => B \in P
      PROVE  A \in P
  <2>1. CASE A = {}
    <3>1. image(A) = {}
      BY <2>1
    <3> QED  BY <2>1, <3>1, SumEmpty
  <2>2. CASE A # {}
    <3> DEFINE c == First(A)
               B == A \ {c}
    <3>1. c \in A /\ c \in D /\ B \in P
      BY <1>3, <2>2, FirstIn
    <3>2. SumFunctionOnSet(f, A) = f[c] + SumFunctionOnSet(f, B)
      BY <2>2, SumFirst, FS_Subset DEF Summable
    <3> HIDE DEF c
    <3>3. image(B) = image(A) \ {g[c]} /\ g[c] \in image(A) /\ image(A) \in SUBSET S
      BY <1>0, <3>1, SMTT(30)
    <3>4. Summable(h, image(A))
      BY <1>2, <3>3, FS_Subset DEF Summable
    <3> HIDE DEF image, B
    <3>5. SumFunctionOnSet(h, image(A)) = h[g[c]] + SumFunctionOnSet(h, image(A) \ {g[c]})
      BY ONLY <3>3, <3>4, SumTake
    <3>6. SumFunctionOnSet(f, B) = SumFunctionOnSet(h, image(B))
      BY <3>1
    <3> QED  BY <3>1, <3>2, <3>3, <3>5, <3>6
  <2> QED  BY <2>1, <2>2
<1> HIDE DEF P
<1>4. SUBSET D \subseteq P
  BY <1>3, AllSubsets DEF Summable
<1> QED  BY <1>1, <1>4 DEF P
=============================================================================
