-------------------------- MODULE EncryptionProofs --------------------------
(***************************************************************************)
(* Facts about the operators that all encryptors are built from: sums,     *)
(* sorting by sequence order, and the encryption of a contest.             *)
(*                                                                         *)
(* The induction that they need is well-founded induction over the subsets *)
(* of a finite set, in the form of least elements (LeastSubset).           *)
(***************************************************************************)
EXTENDS Encryption, FiniteSetTheorems, FunctionTheorems, WellFoundedInduction, TLAPS

-----------------------------------------------------------------------------
(***************************************************************************)
(* Induction.  Of the sets in a collection of subsets of a finite set, one *)
(* has no other below it.                                                  *)
(***************************************************************************)
LEMMA LeastSubset ==
  ASSUME NEW S, IsFiniteSet(S), NEW C \in SUBSET SUBSET S, C # {}
  PROVE  \E A \in C : \A B \in C : ~ (B \subseteq A /\ B # A)
<1>1. IsWellFoundedOn(StrictSubsetOrdering(S), SUBSET S)
  BY FS_StrictSubsetOrderingWellFounded, FS_FiniteSubsetsOfFinite
<1>2. PICK A \in C : \A B \in C : ~(<<B, A>> \in StrictSubsetOrdering(S))
  BY <1>1, WFMin
<1> QED BY <1>2 DEF StrictSubsetOrdering

(***************************************************************************)
(* What holds of a set whenever it holds of all its proper subsets holds   *)
(* of all subsets of a finite set (C is the set of those it holds of).     *)
(***************************************************************************)
LEMMA SubsetInduction ==
  ASSUME NEW S, IsFiniteSet(S), NEW C,
         \A A \in SUBSET S : (\A B \in SUBSET A : B # A => B \in C) => A \in C
  PROVE  \A A \in SUBSET S : A \in C
<1> DEFINE Bad == {A \in SUBSET S : A \notin C}
<1> SUFFICES ASSUME Bad # {} PROVE FALSE
  OBVIOUS
<1>0. Bad \in SUBSET SUBSET S
  OBVIOUS
<1>1. PICK A \in Bad : \A B \in Bad : ~ (B \subseteq A /\ B # A)
  <2> HIDE DEF Bad
  <2> QED BY <1>0, LeastSubset
<1>2. \A B \in SUBSET A : B # A => B \in C
  BY <1>1
<1>3. A \in SUBSET S /\ A \notin C
  OBVIOUS
<1> HIDE DEF Bad
<1> QED BY <1>2, <1>3

(***************************************************************************)
(* Induction over the naturals, for the same kind of C.                    *)
(***************************************************************************)
LEMMA NatSetInduction ==
  ASSUME NEW C, 0 \in C, \A n \in Nat : n \in C => n + 1 \in C
  PROVE  \A n \in Nat : n \in C
<1> SUFFICES ASSUME NEW k \in Nat, k \notin C PROVE FALSE
  OBVIOUS
<1> DEFINE S == 0 .. k
           D == {0 .. m : m \in {n \in S : n \notin C}}
<1>1. IsFiniteSet(S)
  BY FS_Interval
<1>2. D \in SUBSET SUBSET S /\ 0 .. k \in D
  OBVIOUS
<1>3. PICK A \in D : \A B \in D : ~(B \subseteq A /\ B # A)
  <2> HIDE DEF D, S
  <2> QED BY <1>1, <1>2, LeastSubset
<1>4. PICK m \in S : m \notin C /\ A = 0 .. m
  OBVIOUS
<1>5. m # 0 /\ m - 1 \in S /\ m - 1 \notin C
  BY <1>4
<1>6. 0 .. m - 1 \in D /\ 0 .. m - 1 \subseteq 0 .. m /\ m \notin 0 .. m - 1 /\ m \in 0 .. m
  BY <1>5, <1>4
<1> QED BY <1>3, <1>4, <1>6

-----------------------------------------------------------------------------
(***************************************************************************)
(* Sums.  SumFunctionOnSet is a recursive function on the subsets of a set *)
(* that takes away one element at a time; SumBody is its right-hand side.  *)
(***************************************************************************)
Chosen(s) == CHOOSE x \in s : TRUE
SumBody(f, g, s) == IF s = {} THEN 0 ELSE f[Chosen(s)] + g[s \ {Chosen(s)}]

\* The chosen element leaves a smaller set behind.
LEMMA ChosenSmaller ==
  ASSUME NEW s, s # {}, IsFiniteSet(s)
  PROVE  /\ Chosen(s) \in s
         /\ s \ {Chosen(s)} \subseteq s /\ s \ {Chosen(s)} # s /\ IsFiniteSet(s \ {Chosen(s)})
         /\ Cardinality(s) \in Nat
         /\ Cardinality(s \ {Chosen(s)}) = Cardinality(s) - 1
<1>1. Chosen(s) \in s
  BY DEF Chosen
<1> QED BY <1>1, FS_RemoveElement, FS_CardinalityType

(***************************************************************************)
(* A function with this equation exists: it is extended from the sets of   *)
(* at most n elements to those of n + 1.                                   *)
(***************************************************************************)
LEMMA SumExists ==
  ASSUME NEW f, NEW S, IsFiniteSet(S)
  PROVE  \E g : g = [s \in SUBSET S |-> SumBody(f, g, s)]
<1> DEFINE Up(n) == \E g : /\ g = [s \in SUBSET S |-> g[s]]
                           /\ \A s \in SUBSET S : Cardinality(s) <= n => g[s] = SumBody(f, g, s)
           C == {n \in Nat : Up(n)}
<1>0. \A s \in SUBSET S : IsFiniteSet(s) /\ Cardinality(s) \in Nat
  BY FS_Subset, FS_CardinalityType
<1>1. 0 \in C
  <2> DEFINE g == [s \in SUBSET S |-> 0]
  <2>1. \A s \in SUBSET S : Cardinality(s) <= 0 => s = {}
    BY <1>0, FS_EmptySet
  <2>2. \A s \in SUBSET S : Cardinality(s) <= 0 => g[s] = SumBody(f, g, s)
    BY <2>1 DEF SumBody
  <2> QED BY <2>2
<1>2. \A n \in Nat : n \in C => n + 1 \in C
  <2> SUFFICES ASSUME NEW n \in Nat, Up(n) PROVE Up(n + 1)
    <3> HIDE DEF Up
    <3> QED OBVIOUS
  <2> PICK g : /\ g = [s \in SUBSET S |-> g[s]]
               /\ \A s \in SUBSET S : Cardinality(s) <= n => g[s] = SumBody(f, g, s)
    OBVIOUS
  <2> DEFINE h == [s \in SUBSET S |-> IF Cardinality(s) <= n THEN g[s] ELSE SumBody(f, g, s)]
  <2>1. ASSUME NEW s \in SUBSET S, Cardinality(s) <= n + 1
        PROVE  h[s] = SumBody(f, h, s)
    <3>1. CASE s = {}
      BY <3>1 DEF SumBody
    <3>2. CASE s # {}
      <4> DEFINE r == s \ {Chosen(s)}
      <4>1. r \in SUBSET S /\ Cardinality(r) <= n
        BY <3>2, <2>1, <1>0, ChosenSmaller
      <4>2. h[r] = g[r]
        BY <4>1
      <4>3. SumBody(f, h, s) = SumBody(f, g, s)
        BY <4>2 DEF SumBody
      <4> QED BY <4>3
    <3> QED BY <3>1, <3>2
  <2>2. h = [s \in SUBSET S |-> h[s]]
    OBVIOUS
  <2> HIDE DEF h
  <2>3. \A s \in SUBSET S : Cardinality(s) <= n + 1 => h[s] = SumBody(f, h, s)
    BY <2>1
  <2> QED BY <2>2, <2>3, Zenon
<1>3. Up(Cardinality(S))
  <2> HIDE DEF Up
  <2>1. \A n \in Nat : n \in C
    BY <1>1, <1>2, NatSetInduction
  <2> QED BY <2>1, FS_CardinalityType
<1>4. PICK g : /\ g = [s \in SUBSET S |-> g[s]]
               /\ \A s \in SUBSET S : Cardinality(s) <= Cardinality(S) => g[s] = SumBody(f, g, s)
  BY <1>3
<1>5. \A s \in SUBSET S : Cardinality(s) <= Cardinality(S)
  BY FS_Subset
<1>6. [s \in SUBSET S |-> g[s]] = [s \in SUBSET S |-> SumBody(f, g, s)]
  BY <1>4, <1>5
<1> QED BY <1>4, <1>6

\* The function that a sum is defined with.
SumIter(f, S) == CHOOSE g : g = [s \in SUBSET S |-> SumBody(f, g, s)]

\* It satisfies its equation.
LEMMA SumIterEquation ==
  ASSUME NEW f, NEW S, IsFiniteSet(S)
  PROVE  \A s \in SUBSET S : SumIter(f, S)[s] = SumBody(f, SumIter(f, S), s)
<1> DEFINE g == SumIter(f, S)
<1>1. g = [s \in SUBSET S |-> SumBody(f, g, s)]
  BY SumExists DEF SumIter
<1> HIDE DEF g
<1>2. \A s \in SUBSET S : g[s] = SumBody(f, g, s)
  BY <1>1
<1> QED BY <1>2 DEF g

\* The function for a subset has the same values.
LEMMA SumIterUnique ==
  ASSUME NEW f, NEW S, IsFiniteSet(S), NEW T \in SUBSET S
  PROVE  SumIter(f, T)[T] = SumIter(f, S)[T]
<1> DEFINE g == SumIter(f, S)
           h == SumIter(f, T)
           C == {s \in SUBSET T : g[s] = h[s]}
<1>1. IsFiniteSet(T)
  BY FS_Subset
<1>2. \A s \in SUBSET S : g[s] = SumBody(f, g, s)
  BY SumIterEquation
<1>3. \A s \in SUBSET T : h[s] = SumBody(f, h, s)
  BY <1>1, SumIterEquation
<1> HIDE DEF g, h
<1>4. ASSUME NEW A \in SUBSET T, \A B \in SUBSET A : B # A => B \in C
      PROVE  A \in C
  <2>1. CASE A = {}
    BY <2>1, <1>2, <1>3 DEF SumBody
  <2>2. CASE A # {}
    <3>1. A \ {Chosen(A)} \in C
      <4>1. IsFiniteSet(A)
        BY <1>1, FS_Subset
      <4>2. A \ {Chosen(A)} \in SUBSET A /\ A \ {Chosen(A)} # A
        BY <4>1, <2>2, ChosenSmaller
      <4> QED BY <4>2, <1>4
    <3>2. SumBody(f, g, A) = SumBody(f, h, A)
      BY <3>1, <2>2 DEF SumBody
    <3> QED BY <3>2, <1>2, <1>3
  <2> QED BY <2>1, <2>2
<1>5. T \in C
  <2> HIDE DEF C
  <2> QED BY <1>1, <1>4, SubsetInduction
<1> QED BY <1>5 DEF g, h

\* A sum is a value of that function.
LEMMA SumDef ==
  ASSUME NEW f, NEW S
  PROVE  SumFunctionOnSet(f, S) = SumIter(f, S)[S]
BY DEF SumFunctionOnSet, FoldFunctionOnSet, MapThenFoldSet, SumIter, SumBody, Chosen

\* The sum over the empty set.
LEMMA SumEmpty == \A f : SumFunctionOnSet(f, {}) = 0
<1> SUFFICES ASSUME NEW f PROVE SumFunctionOnSet(f, {}) = 0
  OBVIOUS
<1>1. SumIter(f, {})[{}] = SumBody(f, SumIter(f, {}), {})
  BY FS_EmptySet, SumIterEquation
<1> QED BY <1>1, SumDef DEF SumBody

\* A sum is the chosen element and the sum of the others.
LEMMA SumChosen ==
  ASSUME NEW f, NEW S, IsFiniteSet(S), S # {}
  PROVE  SumFunctionOnSet(f, S) = f[Chosen(S)] + SumFunctionOnSet(f, S \ {Chosen(S)})
<1> DEFINE R == S \ {Chosen(S)}
<1>1. SumIter(f, S)[S] = f[Chosen(S)] + SumIter(f, S)[R]
  BY SumIterEquation DEF SumBody
<1>2. SumIter(f, R)[R] = SumIter(f, S)[R]
  BY SumIterUnique
<1> QED BY <1>1, <1>2, SumDef

-----------------------------------------------------------------------------
\* The values of f on S are integers.
IntOn(f, S) == \A x \in S : f[x] \in Int

\* A sum of integers is an integer.
LEMMA SumInt ==
  ASSUME NEW f, NEW S, IsFiniteSet(S), IntOn(f, S)
  PROVE  SumFunctionOnSet(f, S) \in Int
<1> DEFINE C == {A \in SUBSET S : SumFunctionOnSet(f, A) \in Int}
<1>1. ASSUME NEW A \in SUBSET S, \A B \in SUBSET A : B # A => B \in C
      PROVE  A \in C
  <2>1. CASE A = {}
    BY <2>1, SumEmpty
  <2>2. CASE A # {}
    <3>1. IsFiniteSet(A)
      BY FS_Subset
    <3>2. Chosen(A) \in A /\ A \ {Chosen(A)} \in C
      BY <1>1, <2>2, <3>1, ChosenSmaller
    <3>3. SumFunctionOnSet(f, A) = f[Chosen(A)] + SumFunctionOnSet(f, A \ {Chosen(A)})
      BY <2>2, <3>1, SumChosen
    <3> QED BY <3>2, <3>3 DEF IntOn
  <2> QED BY <2>1, <2>2
<1>2. S \in C
  <2> HIDE DEF C
  <2> QED BY <1>1, SubsetInduction
<1> QED BY <1>2

\* Any element can be taken out of a sum: its order does not matter.
LEMMA SumRemove ==
  ASSUME NEW f, NEW S, IsFiniteSet(S), IntOn(f, S), NEW y \in S
  PROVE  SumFunctionOnSet(f, S) = f[y] + SumFunctionOnSet(f, S \ {y})
<1> DEFINE Sum(A) == SumFunctionOnSet(f, A)
           C == {A \in SUBSET S : \A x \in A : Sum(A) = f[x] + Sum(A \ {x})}
<1>1. ASSUME NEW A \in SUBSET S, \A B \in SUBSET A : B # A => B \in C
      PROVE  A \in C
  <2> SUFFICES ASSUME NEW x \in A PROVE Sum(A) = f[x] + Sum(A \ {x})
    OBVIOUS
  <2> DEFINE a == Chosen(A)
  <2>1. IsFiniteSet(A)
    BY FS_Subset
  <2>2. a \in A /\ A \ {a} \in SUBSET A /\ A \ {a} # A
    BY <2>1, ChosenSmaller
  <2>3. Sum(A) = f[a] + Sum(A \ {a})
    BY <2>1, SumChosen
  <2> HIDE DEF a
  <2>4. CASE x = a
    BY <2>3, <2>4
  <2>5. CASE x # a
    <3> DEFINE R == (A \ {a}) \ {x}
    <3>1. Sum(A \ {a}) = f[x] + Sum(R)
      BY <1>1, <2>2, <2>5
    <3>2. Sum(A \ {x}) = f[a] + Sum((A \ {x}) \ {a})
      BY <1>1, <2>2, <2>5
    <3>3. (A \ {x}) \ {a} = R
      OBVIOUS
    <3>4. IsFiniteSet(R) /\ IntOn(f, R)
      BY <2>1, FS_Subset DEF IntOn
    <3>5. Sum(R) \in Int /\ f[x] \in Int /\ f[a] \in Int
      BY <3>4, SumInt, <2>2 DEF IntOn
    <3>6. Sum(A) = f[a] + (f[x] + Sum(R))
      BY <2>3, <3>1
    <3>7. Sum(A \ {x}) = f[a] + Sum(R)
      BY <3>2, <3>3
    <3> HIDE DEF Sum, R
    <3> QED BY <3>5, <3>6, <3>7
  <2> QED BY <2>4, <2>5
<1>2. S \in C
  <2> HIDE DEF C
  <2> QED BY <1>1, SubsetInduction
<1> QED BY <1>2

\* Renaming the elements one to one does not change a sum.
LEMMA SumImage ==
  ASSUME NEW f, NEW g, NEW p, NEW S, IsFiniteSet(S),
         \A x, y \in S : p[x] = p[y] => x = y,
         \A x \in S : f[p[x]] \in Int /\ g[x] = f[p[x]]
  PROVE  SumFunctionOnSet(g, S) = SumFunctionOnSet(f, {p[x] : x \in S})
<1> DEFINE Image(A) == {p[x] : x \in A}
           C == {A \in SUBSET S : /\ IsFiniteSet(Image(A))
                                  /\ SumFunctionOnSet(g, A) = SumFunctionOnSet(f, Image(A))}
<1>1. ASSUME NEW A \in SUBSET S, \A B \in SUBSET A : B # A => B \in C
      PROVE  A \in C
  <2>1. CASE A = {}
    <3>1. Image(A) = {}
      BY <2>1
    <3> QED BY <2>1, <3>1, SumEmpty, FS_EmptySet
  <2>2. CASE A # {}
    <3> PICK a \in A : TRUE
      BY <2>2
    <3> DEFINE B == A \ {a}
    <3>1. B \in C
      BY <1>1
    <3>2. Image(A) = Image(B) \cup {p[a]} /\ p[a] \notin Image(B) /\ p[a] \in Image(A)
      OBVIOUS
    <3>3. IsFiniteSet(Image(A)) /\ IsFiniteSet(A)
      <4>1. IsFiniteSet(Image(B))
        BY <3>1
      <4>2. IsFiniteSet(Image(B) \cup {p[a]})
        <5> HIDE DEF Image, B
        <5> QED BY <4>1, FS_AddElement
      <4> QED BY <4>2, <3>2, FS_Subset
    <3>4. IntOn(g, A) /\ IntOn(f, Image(A))
      BY DEF IntOn
    <3>5. SumFunctionOnSet(g, A) = g[a] + SumFunctionOnSet(g, B)
      BY <3>3, <3>4, SumRemove
    <3>6. SumFunctionOnSet(f, Image(A)) = f[p[a]] + SumFunctionOnSet(f, Image(B))
      <4>1. Image(A) \ {p[a]} = Image(B)
        BY <3>2
      <4> HIDE DEF Image, B
      <4>2. SumFunctionOnSet(f, Image(A)) = f[p[a]] + SumFunctionOnSet(f, Image(A) \ {p[a]})
        BY <3>3, <3>4, <3>2, SumRemove
      <4> QED BY <4>1, <4>2
    <3>7. SumFunctionOnSet(g, B) = SumFunctionOnSet(f, Image(B))
      BY <3>1
    <3> HIDE DEF Image, B
    <3> QED BY <3>3, <3>5, <3>6, <3>7
  <2> QED BY <2>1, <2>2
<1>2. S \in C
  <2> HIDE DEF C
  <2> QED BY <1>1, SubsetInduction
<1> QED BY <1>2

\* The sum over two disjoint sets.
LEMMA SumDisjoint ==
  ASSUME NEW f, NEW S, NEW T, IsFiniteSet(S), IsFiniteSet(T),
         IntOn(f, S), IntOn(f, T), S \cap T = {}
  PROVE  SumFunctionOnSet(f, S \cup T) = SumFunctionOnSet(f, S) + SumFunctionOnSet(f, T)
<1> DEFINE Sum(A) == SumFunctionOnSet(f, A)
           C == {A \in SUBSET S : Sum(A \cup T) = Sum(A) + Sum(T)}
<1>0. Sum(T) \in Int
  BY SumInt
<1>1. ASSUME NEW A \in SUBSET S, \A B \in SUBSET A : B # A => B \in C
      PROVE  A \in C
  <2>1. CASE A = {}
    <3>1. A \cup T = T
      BY <2>1
    <3> QED BY <1>0, <2>1, <3>1, SumEmpty
  <2>2. CASE A # {}
    <3> PICK a \in A : TRUE
      BY <2>2
    <3> DEFINE B == A \ {a}
    <3>1. Sum(B \cup T) = Sum(B) + Sum(T)
      BY <1>1
    <3>2. IsFiniteSet(A) /\ IsFiniteSet(A \cup T) /\ IsFiniteSet(B)
      BY FS_Subset, FS_Union
    <3>3. IntOn(f, A) /\ IntOn(f, A \cup T) /\ IntOn(f, B)
      BY DEF IntOn
    <3>4. Sum(A) = f[a] + Sum(B)
      BY <3>2, <3>3, SumRemove
    <3>5. Sum(A \cup T) = f[a] + Sum((A \cup T) \ {a})
      BY <3>2, <3>3, SumRemove
    <3>6. (A \cup T) \ {a} = B \cup T
      OBVIOUS
    <3>7. Sum(B) \in Int /\ f[a] \in Int
      BY <3>2, <3>3, SumInt DEF IntOn
    <3> HIDE DEF Sum, B
    <3>8. Sum(A \cup T) = f[a] + (Sum(B) + Sum(T))
      BY <3>1, <3>5, <3>6
    <3>9. Sum(A \cup T) = Sum(A) + Sum(T)
      BY <1>0, <3>4, <3>7, <3>8
    <3> QED BY <3>9 DEF Sum, B
  <2> QED BY <2>1, <2>2
<1>2. S \in C
  <2> HIDE DEF C
  <2> QED BY <1>1, SubsetInduction
<1> QED BY <1>2

\* A sum of zeros and ones counts the ones.
LEMMA SumOfBits ==
  ASSUME NEW f, NEW S, IsFiniteSet(S), \A x \in S : f[x] \in {0, 1}
  PROVE  SumFunctionOnSet(f, S) = Cardinality({x \in S : f[x] = 1})
<1> DEFINE Ones(A) == {x \in A : f[x] = 1}
           C == {A \in SUBSET S : SumFunctionOnSet(f, A) = Cardinality(Ones(A))}
<1>1. ASSUME NEW A \in SUBSET S, \A B \in SUBSET A : B # A => B \in C
      PROVE  A \in C
  <2>1. CASE A = {}
    <3>1. Ones(A) = {}
      BY <2>1
    <3> QED BY <2>1, <3>1, SumEmpty, FS_EmptySet
  <2>2. CASE A # {}
    <3> PICK a \in A : TRUE
      BY <2>2
    <3> DEFINE B == A \ {a}
    <3>1. SumFunctionOnSet(f, B) = Cardinality(Ones(B))
      BY <1>1
    <3>2. IsFiniteSet(A) /\ IntOn(f, A)
      BY FS_Subset DEF IntOn
    <3>3. SumFunctionOnSet(f, A) = f[a] + SumFunctionOnSet(f, B)
      BY <3>2, SumRemove
    <3>4. IsFiniteSet(Ones(B)) /\ Cardinality(Ones(B)) \in Nat
      <4>1. IsFiniteSet(Ones(B))
        BY <3>2, FS_Subset
      <4> HIDE DEF Ones
      <4> QED BY <4>1, FS_CardinalityType
    <3>5. CASE f[a] = 1
      <4>1. Ones(A) = Ones(B) \cup {a} /\ a \notin Ones(B)
        BY <3>5
      <4> HIDE DEF Ones
      <4>2. Cardinality(Ones(A)) = Cardinality(Ones(B)) + 1
        BY <4>1, <3>4, FS_AddElement
      <4> QED BY <4>2, <3>1, <3>3, <3>4, <3>5 DEF C
    <3>6. CASE f[a] = 0
      <4>1. Ones(A) = Ones(B)
        BY <3>6
      <4> HIDE DEF Ones
      <4> QED BY <4>1, <3>1, <3>3, <3>4, <3>6 DEF C
    <3> QED BY <3>5, <3>6
  <2> QED BY <2>1, <2>2
<1>2. S \in C
  <2> HIDE DEF C
  <2> QED BY <1>1, SubsetInduction
<1> QED BY <1>2

\* Sums are monotonic.
LEMMA SumNotLess ==
  ASSUME NEW f, NEW g, NEW S, IsFiniteSet(S), IntOn(f, S), IntOn(g, S),
         \A x \in S : f[x] <= g[x]
  PROVE  SumFunctionOnSet(f, S) <= SumFunctionOnSet(g, S)
<1> DEFINE C == {A \in SUBSET S : SumFunctionOnSet(f, A) <= SumFunctionOnSet(g, A)}
<1>1. ASSUME NEW A \in SUBSET S, \A B \in SUBSET A : B # A => B \in C
      PROVE  A \in C
  <2>1. CASE A = {}
    BY <2>1, SumEmpty
  <2>2. CASE A # {}
    <3> PICK a \in A : TRUE
      BY <2>2
    <3> DEFINE B == A \ {a}
    <3>1. SumFunctionOnSet(f, B) <= SumFunctionOnSet(g, B)
      BY <1>1
    <3>2. IsFiniteSet(A) /\ IsFiniteSet(B)
      BY FS_Subset
    <3>3. IntOn(f, A) /\ IntOn(g, A) /\ IntOn(f, B) /\ IntOn(g, B)
      BY DEF IntOn
    <3>4. /\ SumFunctionOnSet(f, A) = f[a] + SumFunctionOnSet(f, B)
          /\ SumFunctionOnSet(g, A) = g[a] + SumFunctionOnSet(g, B)
      BY <3>2, <3>3, SumRemove
    <3>5. /\ SumFunctionOnSet(f, B) \in Int /\ SumFunctionOnSet(g, B) \in Int
          /\ f[a] \in Int /\ g[a] \in Int /\ f[a] <= g[a]
      BY <3>2, <3>3, SumInt DEF IntOn
    <3> QED BY <3>1, <3>4, <3>5
  <2> QED BY <2>1, <2>2
<1>2. S \in C
  <2> HIDE DEF C
  <2> QED BY <1>1, SubsetInduction
<1> QED BY <1>2

\* And has the same sum only if it is the same.
LEMMA SumTells ==
  ASSUME NEW f, NEW g, NEW S, IsFiniteSet(S), IntOn(f, S), IntOn(g, S),
         \A x \in S : f[x] <= g[x], SumFunctionOnSet(f, S) = SumFunctionOnSet(g, S), NEW y \in S
  PROVE  f[y] = g[y]
<1> DEFINE R == S \ {y}
           a == f[y]
           b == g[y]
           restF == SumFunctionOnSet(f, R)
           restG == SumFunctionOnSet(g, R)
<1>1. IsFiniteSet(R) /\ IntOn(f, R) /\ IntOn(g, R)
  BY FS_Subset DEF IntOn
<1>2. a + restF = b + restG
  <2>1. SumFunctionOnSet(f, S) = a + restF
    BY SumRemove
  <2>2. SumFunctionOnSet(g, S) = b + restG
    BY SumRemove
  <2> QED BY <2>1, <2>2
<1>3. restF <= restG
  BY <1>1, SumNotLess
<1>4. restF \in Int /\ restG \in Int /\ a \in Int /\ b \in Int /\ a <= b
  BY <1>1, SumInt DEF IntOn
<1>5. a = b
  <2> HIDE DEF a, b, restF, restG
  <2> QED BY <1>2, <1>3, <1>4
<1> QED BY <1>5

-----------------------------------------------------------------------------
(***************************************************************************)
(* Finite sets of integers have a greatest and a least element.            *)
(***************************************************************************)
LEMMA MaxIsGreatest ==
  ASSUME NEW S, IsFiniteSet(S), S \subseteq Int, S # {}
  PROVE  Max(S) \in S /\ \A y \in S : Max(S) >= y
<1> DEFINE C == {A \in SUBSET S : A # {} => \E x \in A : \A y \in A : x >= y}
<1>1. ASSUME NEW A \in SUBSET S, \A B \in SUBSET A : B # A => B \in C
      PROVE  A \in C
  <2> SUFFICES ASSUME A # {} PROVE \E x \in A : \A y \in A : x >= y
    OBVIOUS
  <2> PICK a \in A : TRUE
    OBVIOUS
  <2> DEFINE B == A \ {a}
  <2>1. B \in C
    BY <1>1
  <2>2. CASE B = {}
    BY <2>2
  <2>3. CASE B # {}
    <3>1. PICK b \in B : \A y \in B : b >= y
      BY <2>1, <2>3
    <3>2. \A y \in A : y = a \/ b >= y
      BY <3>1
    <3> QED BY <3>1, <3>2
  <2> QED BY <2>2, <2>3
<1>2. S \in C
  <2> HIDE DEF C
  <2> QED BY <1>1, SubsetInduction
<1> QED BY <1>2 DEF Max

\* A finite set of integers that is not empty has a least element.
LEMMA MinIsLeast ==
  ASSUME NEW S, IsFiniteSet(S), S \subseteq Int, S # {}
  PROVE  Min(S) \in S /\ \A y \in S : Min(S) <= y
<1> DEFINE C == {A \in SUBSET S : A # {} => \E x \in A : \A y \in A : x <= y}
<1>1. ASSUME NEW A \in SUBSET S, \A B \in SUBSET A : B # A => B \in C
      PROVE  A \in C
  <2> SUFFICES ASSUME A # {} PROVE \E x \in A : \A y \in A : x <= y
    OBVIOUS
  <2> PICK a \in A : TRUE
    OBVIOUS
  <2> DEFINE B == A \ {a}
  <2>1. B \in C
    BY <1>1
  <2>2. CASE B = {}
    BY <2>2
  <2>3. CASE B # {}
    <3>1. PICK b \in B : \A y \in B : b <= y
      BY <2>1, <2>3
    <3>2. \A y \in A : y = a \/ b <= y
      BY <3>1
    <3> QED BY <3>1, <3>2
  <2> QED BY <2>2, <2>3
<1>2. S \in C
  <2> HIDE DEF C
  <2> QED BY <1>1, SubsetInduction
<1> QED BY <1>2 DEF Min

-----------------------------------------------------------------------------
(***************************************************************************)
(* Sorting.  Every position has a place of its own, and every place is     *)
(* taken, so that InOrder is a permutation of the elements.                *)
(***************************************************************************)
Orderable(list, I) == /\ IsFiniteSet(I) /\ I \subseteq Int
                      /\ \A i \in I : list[i].sequenceOrder \in Int

\* Precedes is a strict order in which any two positions compare.
LEMMA PrecedesIsTotal ==
  ASSUME NEW list, NEW I, Orderable(list, I)
  PROVE  /\ \A i \in I : ~Precedes(list, i, i)
         /\ \A i, j \in I : i = j \/ Precedes(list, i, j) \/ Precedes(list, j, i)
         /\ \A i, j, k \in I : Precedes(list, i, j) /\ Precedes(list, j, k) => Precedes(list, i, k)
<1> DEFINE o == [i \in I |-> list[i].sequenceOrder]
<1>1. I \subseteq Int /\ \A i \in I : o[i] \in Int
  BY DEF Orderable
<1>2. \A i, j \in I : Precedes(list, i, j) <=> o[i] < o[j] \/ (o[i] = o[j] /\ i < j)
  BY DEF Precedes
<1> HIDE DEF o
<1>3. \A i \in I : ~Precedes(list, i, i)
  BY <1>1, <1>2
<1>4. ASSUME NEW i \in I, NEW j \in I, i # j
      PROVE  Precedes(list, i, j) \/ Precedes(list, j, i)
  <2>1. o[i] \in Int /\ o[j] \in Int /\ i \in Int /\ j \in Int
    BY <1>1
  <2>2. o[i] < o[j] \/ (o[i] = o[j] /\ i < j) \/ o[j] < o[i] \/ (o[j] = o[i] /\ j < i)
    BY <2>1, <1>4
  <2> QED BY <2>2, <1>2
<1>5. ASSUME NEW i \in I, NEW j \in I, NEW k \in I, Precedes(list, i, j), Precedes(list, j, k)
      PROVE  Precedes(list, i, k)
  <2>1. o[i] \in Int /\ o[j] \in Int /\ o[k] \in Int /\ i \in Int /\ j \in Int /\ k \in Int
    BY <1>1
  <2>2. o[i] < o[j] \/ (o[i] = o[j] /\ i < j)
    BY <1>2, <1>5
  <2>3. o[j] < o[k] \/ (o[j] = o[k] /\ j < k)
    BY <1>2, <1>5
  <2>4. o[i] < o[k] \/ (o[i] = o[k] /\ i < k)
    BY <2>1, <2>2, <2>3
  <2> QED BY <2>4, <1>2
<1> QED BY <1>3, <1>4, <1>5

\* Each place of the order is taken by one element.
LEMMA PlacesAreTaken ==
  ASSUME NEW list, NEW I, Orderable(list, I)
  PROVE  /\ Cardinality(I) \in Nat
         /\ \A i \in I : Place(list, I, i) \in 1 .. Cardinality(I)
         /\ \A i, j \in I : Place(list, I, i) = Place(list, I, j) => i = j
         /\ \A n \in 1 .. Cardinality(I) : \E i \in I : Place(list, I, i) = n
<1> DEFINE N == Cardinality(I)
           Before(i) == {j \in I : Precedes(list, j, i)}
           f == [i \in I |-> Place(list, I, i)]
<1>1. N \in Nat
  BY FS_CardinalityType DEF Orderable
<1>2. \A i \in I : /\ IsFiniteSet(Before(i)) /\ Cardinality(Before(i)) \in Nat
  <2> SUFFICES ASSUME NEW i \in I
               PROVE  IsFiniteSet(Before(i)) /\ Cardinality(Before(i)) \in Nat
    OBVIOUS
  <2>1. Before(i) \in SUBSET I
    OBVIOUS
  <2> HIDE DEF Before
  <2> QED BY <2>1, FS_Subset, FS_CardinalityType DEF Orderable
<1>3. ASSUME NEW i \in I
      PROVE  Cardinality(Before(i)) < N
  <2>1. Before(i) \in SUBSET I /\ Before(i) # I
    <3>1. ~Precedes(list, i, i)
      BY PrecedesIsTotal
    <3> QED BY <3>1
  <2> HIDE DEF Before
  <2>2. Cardinality(Before(i)) <= N /\ Cardinality(Before(i)) # N
    BY <2>1, FS_Subset DEF Orderable
  <2> QED BY <1>1, <1>2, <2>2
<1>4. ASSUME NEW i \in I, NEW j \in I, Precedes(list, i, j)
      PROVE  Cardinality(Before(i)) < Cardinality(Before(j))
  <2>1. Before(i) \in SUBSET Before(j) /\ i \in Before(j) /\ i \notin Before(i)
    BY <1>4, PrecedesIsTotal
  <2> HIDE DEF Before
  <2>2. /\ Cardinality(Before(i)) <= Cardinality(Before(j))
        /\ Cardinality(Before(i)) # Cardinality(Before(j))
    BY <2>1, <1>2, FS_Subset
  <2> QED BY <1>2, <2>2
<1>5. \A i, j \in I : i = j \/ Precedes(list, i, j) \/ Precedes(list, j, i)
  BY PrecedesIsTotal
<1>6. \A i \in I : Place(list, I, i) = Cardinality(Before(i)) + 1
  BY DEF Place
<1> HIDE DEF Before
<1>7. \A i \in I : Place(list, I, i) \in 1 .. N
  BY <1>1, <1>2, <1>3, <1>6
<1>8. \A i, j \in I : Place(list, I, i) = Place(list, I, j) => i = j
  BY <1>2, <1>4, <1>5, <1>6
<1>9. f \in Injection(I, 1 .. N)
  BY <1>7, <1>8 DEF Injection, IsInjective
<1>10. f \in Surjection(I, 1 .. N)
  <2>1. IsFiniteSet(1 .. N) /\ Cardinality(1 .. N) = N
    BY <1>1, FS_Interval
  <2> HIDE DEF f
  <2> QED BY <1>9, <2>1, FS_Injection
<1>11. \A n \in 1 .. N : \E i \in I : f[i] = n
  BY <1>10 DEF Surjection
<1> QED BY <1>1, <1>7, <1>8, <1>11

\* The position of the element that comes n-th.
At(list, I, n) == CHOOSE i \in I : Place(list, I, i) = n

\* The elements in order are the elements, each once.
LEMMA InOrderPermutes ==
  ASSUME NEW list, NEW I, Orderable(list, I)
  PROVE  /\ Cardinality(I) \in Nat
         /\ InOrder(list, I) = [n \in 1 .. Cardinality(I) |-> list[At(list, I, n)]]
         /\ \A n \in 1 .. Cardinality(I) : At(list, I, n) \in I
         /\ \A m, n \in 1 .. Cardinality(I) : At(list, I, m) = At(list, I, n) => m = n
         /\ \A i \in I : \E n \in 1 .. Cardinality(I) : At(list, I, n) = i
<1>1. ASSUME NEW n \in 1 .. Cardinality(I)
      PROVE  At(list, I, n) \in I /\ Place(list, I, At(list, I, n)) = n
  <2>1. \E i \in I : Place(list, I, i) = n
    BY PlacesAreTaken
  <2> QED BY <2>1 DEF At
<1>2. InOrder(list, I) = [n \in 1 .. Cardinality(I) |-> list[At(list, I, n)]]
  BY DEF InOrder, At
<1>3. \A i \in I : \E n \in 1 .. Cardinality(I) : At(list, I, n) = i
  <2> SUFFICES ASSUME NEW i \in I
               PROVE  At(list, I, Place(list, I, i)) = i /\ Place(list, I, i) \in 1 .. Cardinality(I)
    OBVIOUS
  <2>1. Place(list, I, i) \in 1 .. Cardinality(I)
    BY PlacesAreTaken
  <2> QED BY <2>1, <1>1, PlacesAreTaken
<1> QED BY <1>1, <1>2, <1>3, PlacesAreTaken

\* All positions of a list in order.
LEMMA SortedIsInOrder ==
  ASSUME NEW list
  PROVE  SortedByOrder(list) = InOrder(list, DOMAIN list)
BY DEF SortedByOrder

-----------------------------------------------------------------------------
\* A list in order has the same elements and the same length.
LEMMA SortedPermutes ==
  ASSUME NEW list, list \in Seq(ToSet(list)), \A e \in ToSet(list) : e.sequenceOrder \in Int
  PROVE  /\ Orderable(list, DOMAIN list)
         /\ Cardinality(DOMAIN list) = Len(list)
         /\ SortedByOrder(list) = [n \in 1 .. Len(list) |-> list[At(list, DOMAIN list, n)]]
         /\ \A n \in 1 .. Len(list) : At(list, DOMAIN list, n) \in DOMAIN list
         /\ ToSet(SortedByOrder(list)) = ToSet(list)
<1> DEFINE I == DOMAIN list
<1>1. I = 1 .. Len(list) /\ Len(list) \in Nat
  OBVIOUS
<1>2. IsFiniteSet(I) /\ Cardinality(I) = Len(list)
  <2>1. /\ IsFiniteSet(1 .. Len(list))
        /\ Cardinality(1 .. Len(list)) = IF 1 > Len(list) THEN 0 ELSE Len(list) - 1 + 1
    BY <1>1, FS_Interval
  <2> QED BY <1>1, <2>1
<1>3. \A i \in I : list[i] \in ToSet(list)
  BY DEF ToSet
<1>4. Orderable(list, I)
  <2>1. \A i \in I : list[i].sequenceOrder \in Int
    BY <1>3
  <2> HIDE DEF I
  <2>2. I \subseteq Int
    BY <1>1
  <2> QED BY <1>2, <2>1, <2>2 DEF Orderable
<1>5. SortedByOrder(list) = [n \in 1 .. Len(list) |-> list[At(list, I, n)]]
  BY <1>2, <1>4, InOrderPermutes, SortedIsInOrder
<1>6. /\ \A n \in 1 .. Len(list) : At(list, I, n) \in I
      /\ \A i \in I : \E n \in 1 .. Len(list) : At(list, I, n) = i
  BY <1>2, <1>4, InOrderPermutes
<1> HIDE DEF I
<1>7. ToSet(SortedByOrder(list)) = {list[At(list, I, n)] : n \in 1 .. Len(list)}
  BY <1>5 DEF ToSet
<1>8. ToSet(list) = {list[i] : i \in I}
  BY DEF ToSet, I
<1>9. ToSet(SortedByOrder(list)) = ToSet(list)
  BY <1>6, <1>7, <1>8
<1> QED BY <1>2, <1>4, <1>5, <1>6, <1>9 DEF I

\* The sum of the votes is the same in any order.
LEMMA SortedSum ==
  ASSUME NEW list, list \in Seq(ToSet(list)),
         \A e \in ToSet(list) : e.sequenceOrder \in Int /\ e.vote \in Int
  PROVE  SumOver(SortedByOrder(list), LAMBDA s : s.vote)
           = SumFunctionOnSet([i \in 1 .. Len(list) |-> list[i].vote], 1 .. Len(list))
<1> DEFINE I == 1 .. Len(list)
           p == [n \in I |-> At(list, I, n)]
           f == [i \in I |-> list[i].vote]
           g == [n \in I |-> SortedByOrder(list)[n].vote]
<1>1. DOMAIN list = I /\ Len(list) \in Nat
  OBVIOUS
<1>2. /\ SortedByOrder(list) = [n \in I |-> list[p[n]]]
      /\ \A n \in I : p[n] \in I
      /\ Cardinality(I) = Len(list) /\ Orderable(list, I)
  BY <1>1, SortedPermutes
<1>3. /\ \A m, n \in I : p[m] = p[n] => m = n
      /\ \A i \in I : \E n \in I : p[n] = i
  <2>1. 1 .. Cardinality(I) = I
    BY <1>2
  <2> HIDE DEF I
  <2>2. /\ \A m, n \in I : At(list, I, m) = At(list, I, n) => m = n
        /\ \A i \in I : \E n \in I : At(list, I, n) = i
    BY <1>2, <2>1, InOrderPermutes
  <2> QED BY <2>2
<1>4. DOMAIN SortedByOrder(list) = I
  BY <1>2
<1>5. \A i \in I : f[i] \in Int
  <2>1. \A i \in I : list[i] \in ToSet(list)
    BY <1>1 DEF ToSet
  <2> QED BY <2>1
<1>6. \A n \in I : f[p[n]] \in Int /\ g[n] = f[p[n]]
  BY <1>2, <1>5
<1>7. SumOver(SortedByOrder(list), LAMBDA s : s.vote) = SumFunctionOnSet(g, I)
  BY <1>4 DEF SumOver, SumFunction
<1>8. {p[n] : n \in I} = I
  BY <1>2, <1>3
<1>9. IsFiniteSet(I)
  BY <1>1, FS_Interval
<1> HIDE DEF p, f, g, I
<1>10. SumFunctionOnSet(g, I) = SumFunctionOnSet(f, {p[n] : n \in I})
  BY <1>3, <1>6, <1>9, SumImage
<1> QED BY <1>7, <1>8, <1>10 DEF f, I

\* Functions with the same values have the same sum.
LEMMA SumSame ==
  ASSUME NEW f, NEW g, NEW S, IsFiniteSet(S), \A x \in S : g[x] \in Int /\ f[x] = g[x]
  PROVE  SumFunctionOnSet(f, S) = SumFunctionOnSet(g, S)
<1> DEFINE p == [x \in S |-> x]
<1>1. \A x, y \in S : p[x] = p[y] => x = y
  OBVIOUS
<1>2. \A x \in S : g[p[x]] \in Int /\ f[x] = g[p[x]]
  OBVIOUS
<1>3. {p[x] : x \in S} = S
  OBVIOUS
<1> HIDE DEF p
<1> QED BY <1>1, <1>2, <1>3, SumImage

\* A list followed by another.
LEMMA Concatenated ==
  ASSUME NEW a, NEW b, a \in Seq(ToSet(a)), b \in Seq(ToSet(b))
  PROVE  /\ a \o b \in Seq(ToSet(a \o b))
         /\ Len(a) \in Nat /\ Len(b) \in Nat /\ Len(a \o b) = Len(a) + Len(b)
         /\ \A i \in 1 .. Len(a) : (a \o b)[i] = a[i]
         /\ \A k \in 1 .. Len(b) : (a \o b)[Len(a) + k] = b[k]
         /\ ToSet(a \o b) = ToSet(a) \cup ToSet(b)
<1> DEFINE S == ToSet(a) \cup ToSet(b)
           c == a \o b
<1>1. a \in Seq(S) /\ b \in Seq(S)
  OBVIOUS
<1> HIDE DEF S
<1>2. c \in Seq(S) /\ Len(a) \in Nat /\ Len(b) \in Nat /\ Len(c) = Len(a) + Len(b)
  BY <1>1
<1>3. /\ \A i \in 1 .. Len(a) : c[i] = a[i]
      /\ \A k \in 1 .. Len(b) : c[Len(a) + k] = b[k]
  BY <1>1
<1>4. /\ DOMAIN a = 1 .. Len(a) /\ DOMAIN b = 1 .. Len(b)
      /\ DOMAIN c = 1 .. Len(a) + Len(b)
  BY <1>1, <1>2
<1> HIDE DEF c
<1>5. \A i \in DOMAIN c : \/ i \in 1 .. Len(a) /\ c[i] = a[i]
                          \/ i - Len(a) \in 1 .. Len(b) /\ c[i] = b[i - Len(a)]
  <2> SUFFICES ASSUME NEW i \in 1 .. Len(a) + Len(b), i \notin 1 .. Len(a)
               PROVE  i - Len(a) \in 1 .. Len(b) /\ c[i] = b[i - Len(a)]
    BY <1>3, <1>4
  <2>1. i - Len(a) \in 1 .. Len(b) /\ Len(a) + (i - Len(a)) = i
    BY <1>2
  <2> QED BY <1>3, <2>1
<1>6. /\ \A i \in DOMAIN a : i \in DOMAIN c /\ c[i] = a[i]
      /\ \A k \in DOMAIN b : Len(a) + k \in DOMAIN c /\ c[Len(a) + k] = b[k]
  <2>1. \A i \in 1 .. Len(a) : i \in 1 .. Len(a) + Len(b)
    BY <1>2
  <2>2. \A k \in 1 .. Len(b) : Len(a) + k \in 1 .. Len(a) + Len(b)
    BY <1>2
  <2> QED BY <2>1, <2>2, <1>3, <1>4
<1>7. ToSet(c) = ToSet(a) \cup ToSet(b)
  <2>1. ASSUME NEW i \in DOMAIN c PROVE c[i] \in ToSet(a) \cup ToSet(b)
    BY <1>4, <1>5 DEF ToSet
  <2>2. ASSUME NEW i \in DOMAIN a PROVE a[i] \in ToSet(c)
    BY <1>6 DEF ToSet
  <2>3. ASSUME NEW k \in DOMAIN b PROVE b[k] \in ToSet(c)
    BY <1>6 DEF ToSet
  <2> QED BY <2>1, <2>2, <2>3 DEF ToSet
<1>8. c \in Seq(ToSet(c))
  <2>1. c = [i \in 1 .. Len(c) |-> c[i]] /\ Len(c) \in Nat
    BY <1>2
  <2>2. \A i \in 1 .. Len(c) : c[i] \in ToSet(c)
    BY <1>2, <1>4 DEF ToSet
  <2> QED BY <2>1, <2>2
<1> QED BY <1>2, <1>3, <1>7, <1>8 DEF c

\* A function on the numbers up to n is a list, empty if n is negative.
LEMMA FunctionIsSeq ==
  ASSUME NEW S, NEW n \in Nat, NEW f \in [1 .. n -> S]
  PROVE  f \in Seq(S) /\ Len(f) = n
OBVIOUS

\* A function on 1 .. n is a list, an empty one where n is negative.
LEMMA FunctionIsList ==
  ASSUME NEW n \in Int, NEW f, f = [i \in 1 .. n |-> f[i]]
  PROVE  f \in Seq(ToSet(f)) /\ DOMAIN f = 1 .. n /\ 1 .. Len(f) = 1 .. n
<1>1. \A i \in 1 .. n : f[i] \in ToSet(f)
  BY DEF ToSet
<1>2. PICK m \in Nat : 1 .. n = 1 .. m
  <2>1. CASE n \in Nat
    BY <2>1
  <2>2. CASE n \notin Nat
    <3>1. 1 .. n = 1 .. 0
      BY <2>2
    <3> QED BY <3>1
  <2> QED BY <2>1, <2>2
<1>3. f \in [1 .. m -> ToSet(f)]
  BY <1>1, <1>2
<1>4. f \in Seq(ToSet(f)) /\ Len(f) = m
  BY <1>3, FunctionIsSeq
<1> QED BY <1>2, <1>3, <1>4

\* A list has finitely many elements.
LEMMA ListIsFinite ==
  ASSUME NEW s, s \in Seq(ToSet(s))
  PROVE  /\ Len(s) \in Nat /\ DOMAIN s = 1 .. Len(s)
         /\ IsFiniteSet(DOMAIN s) /\ IsFiniteSet(ToSet(s))
<1>1. Len(s) \in Nat /\ DOMAIN s = 1 .. Len(s)
  OBVIOUS
<1>2. IsFiniteSet(1 .. Len(s))
  BY <1>1, FS_Interval
<1> DEFINE f == [i \in DOMAIN s |-> s[i]]
<1>3. f \in Surjection(DOMAIN s, ToSet(s))
  BY DEF Surjection, ToSet
<1> HIDE DEF f
<1> QED BY <1>1, <1>2, <1>3, FS_Surjection

(***************************************************************************)
(* The selections of an encrypted contest are those that were encrypted,   *)
(* and it encrypts the sum of their votes.                                 *)
(***************************************************************************)
LEMMA EncryptedContestHas ==
  ASSUME NEW mc, NEW nonce, NEW real, NEW filler, NEW contest,
         real \in Seq(ToSet(real)), filler \in Seq(ToSet(filler)),
         \A s \in ToSet(real) \cup ToSet(filler) : s.sequenceOrder \in Int /\ s.vote \in Int,
         contest = EncryptContest(mc, nonce, real \o filler),
         NEW v, \A i \in 1 .. Len(real) : v[i] = real[i].vote,
         NEW w, \A k \in 1 .. Len(filler) : w[k] = filler[k].vote
  PROVE  /\ ToSet(contest.selections) = ToSet(real) \cup ToSet(filler)
         /\ Accumulated(contest) = SumFunctionOnSet(v, 1 .. Len(real))
                                   + SumFunctionOnSet(w, 1 .. Len(filler))
         /\ contest.constant = mc.votesAllowed
<1> DEFINE list == real \o filler
           n == Len(real)
           m == Len(filler)
           f == [i \in 1 .. n + m |-> list[i].vote]
           p == [k \in 1 .. m |-> n + k]
<1>1. /\ list \in Seq(ToSet(list)) /\ n \in Nat /\ m \in Nat /\ Len(list) = n + m
      /\ \A i \in 1 .. n : list[i] = real[i]
      /\ \A k \in 1 .. m : list[n + k] = filler[k]
      /\ ToSet(list) = ToSet(real) \cup ToSet(filler)
  BY Concatenated
<1>2. contest.selections = SortedByOrder(list) /\ contest.constant = mc.votesAllowed
  BY DEF EncryptContest
<1>3. /\ \A i \in 1 .. n : real[i] \in ToSet(real)
      /\ \A k \in 1 .. m : filler[k] \in ToSet(filler)
  BY DEF ToSet
<1> HIDE DEF list, n, m
<1>4. ToSet(contest.selections) = ToSet(real) \cup ToSet(filler)
  BY <1>1, <1>2, SortedPermutes
<1>5. Accumulated(contest) = SumFunctionOnSet(f, 1 .. n + m)
  BY <1>1, <1>2, SortedSum DEF Accumulated
<1>6. /\ \A i \in 1 .. n : v[i] \in Int /\ f[i] = v[i]
      /\ \A k \in 1 .. m : n + k \in 1 .. n + m /\ w[k] \in Int /\ f[n + k] = w[k]
  <2>1. \A i \in 1 .. n : i \in 1 .. n + m
    BY <1>1
  <2>2. \A k \in 1 .. m : n + k \in 1 .. n + m
    BY <1>1
  <2> QED BY <1>1, <1>3, <2>1, <2>2 DEF n, m
<1>7. 1 .. n + m = (1 .. n) \cup {p[k] : k \in 1 .. m} /\ (1 .. n) \cap {p[k] : k \in 1 .. m} = {}
  <2>1. {p[k] : k \in 1 .. m} = (n + 1) .. (n + m)
    <3>1. ASSUME NEW x \in (n + 1) .. (n + m) PROVE x \in {p[k] : k \in 1 .. m}
      <4>1. x - n \in 1 .. m /\ p[x - n] = x
        BY <1>1
      <4> QED BY <4>1
    <3>2. ASSUME NEW k \in 1 .. m PROVE p[k] \in (n + 1) .. (n + m)
      BY <1>1
    <3> QED BY <3>1, <3>2
  <2>2. n \in Nat /\ m \in Nat
    BY <1>1
  <2>3. /\ 1 .. n + m = (1 .. n) \cup ((n + 1) .. (n + m))
        /\ (1 .. n) \cap ((n + 1) .. (n + m)) = {}
    BY ONLY <2>2
  <2> HIDE DEF p
  <2> QED BY <2>1, <2>3
<1>8. IsFiniteSet(1 .. n) /\ IsFiniteSet(1 .. m) /\ IsFiniteSet(1 .. n + m)
  <2>1. 1 \in Int /\ n \in Int /\ m \in Int /\ n + m \in Int
    BY <1>1
  <2> QED BY <2>1, FS_Interval
<1>9. \A x, y \in 1 .. m : p[x] = p[y] => x = y
  BY <1>1
<1>10. \A k \in 1 .. m : f[p[k]] \in Int /\ w[k] = f[p[k]]
  BY <1>6
<1>11. IntOn(f, 1 .. n) /\ IntOn(f, {p[k] : k \in 1 .. m}) /\ IntOn(v, 1 .. n)
  BY <1>6, <1>10 DEF IntOn
<1> DEFINE Q == {p[k] : k \in 1 .. m}
<1>12. IsFiniteSet(Q)
  <2>1. Q \in SUBSET (1 .. n + m)
    BY <1>7
  <2> HIDE DEF Q
  <2> QED BY <2>1, <1>8, FS_Subset
<1>13. SumFunctionOnSet(w, 1 .. m) = SumFunctionOnSet(f, Q)
  <2> DEFINE M == 1 .. m
  <2>1. /\ IsFiniteSet(M) /\ \A x, y \in M : p[x] = p[y] => x = y
        /\ \A k \in M : f[p[k]] \in Int /\ w[k] = f[p[k]]
    BY <1>8, <1>9, <1>10
  <2> HIDE DEF f, p, Q, M
  <2>2. SumFunctionOnSet(w, M) = SumFunctionOnSet(f, {p[k] : k \in M})
    BY <2>1, SumImage
  <2> QED BY <2>2 DEF Q, M
<1> HIDE DEF Q
<1>14. SumFunctionOnSet(f, (1 .. n) \cup Q) = SumFunctionOnSet(f, 1 .. n) + SumFunctionOnSet(f, Q)
  <2>1. (1 .. n) \cap Q = {} /\ IntOn(f, Q)
    BY <1>7, <1>11 DEF Q
  <2> HIDE DEF f
  <2> QED BY <2>1, <1>8, <1>11, <1>12, SumDisjoint
<1>15. SumFunctionOnSet(f, 1 .. n) = SumFunctionOnSet(v, 1 .. n)
  <2> HIDE DEF f
  <2> QED BY <1>6, <1>8, SumSame
<1>16. 1 .. n + m = (1 .. n) \cup Q
  BY <1>7 DEF Q
<1>17. Accumulated(contest) = SumFunctionOnSet(v, 1 .. n) + SumFunctionOnSet(w, 1 .. m)
  <2> HIDE DEF f
  <2> QED BY <1>5, <1>13, <1>14, <1>15, <1>16
<1> QED BY <1>2, <1>4, <1>17 DEF n, m

-----------------------------------------------------------------------------
(***************************************************************************)
(* Placeholders of which the first mk are marked encrypt mk votes, and     *)
(* PlaceholderVote marks as many as there are undervotes.                  *)
(***************************************************************************)
Marks(limit, mk) == [k \in 1 .. limit |-> IF k <= mk THEN 1 ELSE 0]

\* A contest with mk marked placeholders has mk votes in them.
LEMMA MarksSum ==
  ASSUME NEW limit \in Nat, NEW mk \in 0 .. limit
  PROVE  SumFunctionOnSet(Marks(limit, mk), 1 .. limit) = mk
<1> DEFINE K == 1 .. limit
           w == Marks(limit, mk)
<1>1. \A k \in K : w[k] \in {0, 1}
  BY DEF Marks
<1>2. {k \in K : w[k] = 1} = 1 .. mk
  BY DEF Marks
<1>3. IsFiniteSet(K)
  BY FS_Interval
<1>4. Cardinality(1 .. mk) = mk
  <2>1. mk \in Int /\ 1 \in Int
    OBVIOUS
  <2>2. Cardinality(1 .. mk) = IF 1 > mk THEN 0 ELSE mk - 1 + 1
    BY <2>1, FS_Interval
  <2> QED BY <2>2
<1> HIDE DEF K, w
<1>5. SumFunctionOnSet(w, K) = Cardinality({k \in K : w[k] = 1})
  BY <1>1, <1>3, SumOfBits
<1> QED BY <1>2, <1>4, <1>5 DEF w, K

\* The first placeholders get the undervotes, one each.
LEMMA PlaceholderVoteMarks ==
  ASSUME NEW limit \in Int, NEW votes \in Int
  PROVE  [k \in 1 .. limit |-> PlaceholderVote(votes, k, limit)] = Marks(limit, limit - votes)
<1>1. ASSUME NEW k \in 1 .. limit
      PROVE  PlaceholderVote(votes, k, limit) = IF k <= limit - votes THEN 1 ELSE 0
  BY DEF PlaceholderVote
<1> QED BY <1>1 DEF Marks

\* The placeholders' sequence numbers follow those of the selections.
LEMMA PlaceholdersFollow ==
  ASSUME NEW mc, IsContest(mc), mc.selections # << >>, NEW k \in Nat
  PROVE  /\ PlaceholderOf(mc, k).sequenceOrder \in Int
         /\ \A s \in ToSet(mc.selections) : s.sequenceOrder + k <= PlaceholderOf(mc, k).sequenceOrder
         /\ PlaceholderOf(mc, k).sequenceOrder = PlaceholderOf(mc, 0).sequenceOrder + k
<1> DEFINE S == {s.sequenceOrder : s \in ToSet(mc.selections)}
<1>1. IsFiniteSet(ToSet(mc.selections))
  BY ListIsFinite DEF IsContest
<1>2. IsFiniteSet(S)
  <2> DEFINE f == [s \in ToSet(mc.selections) |-> s.sequenceOrder]
  <2>1. f \in Surjection(ToSet(mc.selections), S)
    BY DEF Surjection
  <2> HIDE DEF f, S
  <2> QED BY <1>1, <2>1, FS_Surjection
<1>3. S # {} /\ S \subseteq Int
  <2>1. 1 \in DOMAIN mc.selections
    BY DEF IsContest
  <2>2. mc.selections[1] \in ToSet(mc.selections)
    BY <2>1 DEF ToSet
  <2> QED BY <2>2 DEF IsContest
<1> DEFINE x == Max(S)
<1>4. x \in S /\ \A y \in S : x >= y
  <2> HIDE DEF S
  <2> QED BY <1>2, <1>3, MaxIsGreatest
<1>5. \A n : PlaceholderOf(mc, n).sequenceOrder = x + n
  BY DEF PlaceholderOf
<1>6. \A s \in ToSet(mc.selections) : s.sequenceOrder \in S
  OBVIOUS
<1> HIDE DEF x, S
<1>7. x \in Int /\ \A s \in ToSet(mc.selections) : s.sequenceOrder \in Int /\ s.sequenceOrder <= x
  <2>1. x \in Int
    BY <1>3, <1>4
  <2>2. ASSUME NEW s \in ToSet(mc.selections) PROVE s.sequenceOrder \in Int /\ s.sequenceOrder <= x
    <3> DEFINE y == s.sequenceOrder
    <3>1. y \in S
      BY <1>6
    <3> HIDE DEF y
    <3>2. y \in Int /\ y <= x
      BY <2>1, <3>1, <1>3, <1>4
    <3> QED BY <3>2 DEF y
  <2> QED BY <2>1, <2>2
<1>8. ASSUME NEW s \in ToSet(mc.selections) PROVE s.sequenceOrder + k <= x + k
  BY <1>7
<1> QED BY <1>5, <1>7, <1>8

-----------------------------------------------------------------------------
(***************************************************************************)
(* The encrypted contest with the votes v and the extended data x, whose   *)
(* placeholders take the votes w.  All three encryptors make contests of   *)
(* this form; the precomputing ones have no extended data.                 *)
(***************************************************************************)
RealOf(mc, v, x, nonce) ==
  [i \in DOMAIN mc.selections |-> EncryptSelection(v[i], x[i], mc.selections[i], nonce, FALSE)]
FillerOf(mc, w, nonce) ==
  [k \in 1 .. mc.votesAllowed |-> EncryptSelection(w[k], {}, PlaceholderOf(mc, k), nonce, TRUE)]
ContestOf(mc, v, x, w, nonce) ==
  EncryptContest(mc, nonce, RealOf(mc, v, x, nonce) \o FillerOf(mc, w, nonce))

NoData(mc) == [i \in DOMAIN mc.selections |-> {}]

\* What an encrypted selection has.
IsSelection(s, vote, ms, nonce) ==
  /\ s.selectionId = ms.selectionId /\ s.sequenceOrder = ms.sequenceOrder /\ s.vote = vote
  /\ s.selectionNonce = <<SelectionHash(ms), nonce, ms.sequenceOrder>>

\* The list of the selections, and the list of the placeholders.
LEMMA RealList ==
  ASSUME NEW mc, IsContest(mc), NEW v, NEW x, NEW nonce, NEW real,
         real = RealOf(mc, v, x, nonce)
  PROVE  /\ real \in Seq(ToSet(real)) /\ DOMAIN real = DOMAIN mc.selections
         /\ 1 .. Len(real) = DOMAIN mc.selections /\ Len(real) = Len(mc.selections)
         /\ \A i \in DOMAIN mc.selections :
              /\ IsSelection(real[i], v[i], mc.selections[i], nonce)
              /\ real[i].sequenceOrder \in Int
         /\ \A s \in ToSet(real) : s.isPlaceholderSelection = FALSE
         /\ IntOn(v, DOMAIN mc.selections) =>
              \A s \in ToSet(real) : s.sequenceOrder \in Int /\ s.vote \in Int
<1> DEFINE n == Len(mc.selections)
<1>1. n \in Nat /\ DOMAIN mc.selections = 1 .. n
  BY DEF IsContest
<1>2. ASSUME NEW i \in 1 .. n
      PROVE  IsSelection(real[i], v[i], mc.selections[i], nonce) /\ ~real[i].isPlaceholderSelection
  <2>1. real[i] = EncryptSelection(v[i], x[i], mc.selections[i], nonce, FALSE)
    BY <1>1 DEF RealOf
  <2> QED BY <2>1 DEF EncryptSelection, IsSelection, Nonce
<1>3. ASSUME NEW i \in 1 .. n
      PROVE  real[i].sequenceOrder \in Int
  <2>1. mc.selections[i] \in ToSet(mc.selections)
    BY <1>1 DEF ToSet
  <2> QED BY <1>2, <2>1 DEF IsContest, IsSelection
<1>4. real = [i \in 1 .. n |-> real[i]]
  BY <1>1 DEF RealOf
<1> HIDE DEF n
<1>5. real \in Seq(ToSet(real)) /\ DOMAIN real = 1 .. n /\ 1 .. Len(real) = 1 .. n
  BY <1>1, <1>4, FunctionIsList
<1>6. Len(real) = n
  <2>1. Len(real) \in Nat
    BY <1>5, ListIsFinite
  <2> QED BY <1>1, <1>5, <2>1
<1>7. ASSUME NEW s \in ToSet(real)
      PROVE  /\ s.isPlaceholderSelection = FALSE
             /\ IntOn(v, DOMAIN mc.selections) => s.sequenceOrder \in Int /\ s.vote \in Int
  <2>1. PICK i \in 1 .. n : s = real[i]
    BY <1>5 DEF ToSet
  <2>2. s.vote = v[i] /\ s.sequenceOrder \in Int
    BY <1>2, <1>3, <2>1 DEF IsSelection
  <2>3. IntOn(v, DOMAIN mc.selections) => v[i] \in Int
    BY <1>1 DEF IntOn
  <2> QED BY <1>2, <2>1, <2>2, <2>3
<1> QED BY <1>1, <1>2, <1>3, <1>5, <1>6, <1>7 DEF n

\* The placeholders are a list of encrypted selections.
LEMMA FillerList ==
  ASSUME NEW mc, IsContest(mc), mc.selections # << >>, NEW w, NEW nonce, NEW filler,
         filler = FillerOf(mc, w, nonce)
  PROVE  /\ filler \in Seq(ToSet(filler)) /\ DOMAIN filler = 1 .. mc.votesAllowed
         /\ 1 .. Len(filler) = 1 .. mc.votesAllowed
         /\ \A k \in 1 .. mc.votesAllowed :
              /\ IsSelection(filler[k], w[k], PlaceholderOf(mc, k), nonce)
              /\ filler[k].sequenceOrder \in Int
         /\ \A s \in ToSet(filler) : s.isPlaceholderSelection = TRUE
         /\ IntOn(w, 1 .. mc.votesAllowed) =>
              \A s \in ToSet(filler) : s.sequenceOrder \in Int /\ s.vote \in Int
<1> DEFINE m == mc.votesAllowed
<1>1. m \in Int
  BY DEF IsContest
<1>2. ASSUME NEW k \in 1 .. m
      PROVE  IsSelection(filler[k], w[k], PlaceholderOf(mc, k), nonce) /\ filler[k].isPlaceholderSelection
  <2>1. filler[k] = EncryptSelection(w[k], {}, PlaceholderOf(mc, k), nonce, TRUE)
    BY <1>1 DEF FillerOf
  <2> QED BY <2>1 DEF EncryptSelection, IsSelection, Nonce
<1>3. ASSUME NEW k \in 1 .. m
      PROVE  filler[k].sequenceOrder \in Int
  <2>1. k \in Nat
    BY <1>1
  <2>2. PlaceholderOf(mc, k).sequenceOrder \in Int
    BY <2>1, PlaceholdersFollow
  <2> QED BY <1>2, <2>2 DEF IsSelection
<1>4. filler = [k \in 1 .. m |-> filler[k]]
  BY DEF FillerOf
<1> HIDE DEF m
<1>5. filler \in Seq(ToSet(filler)) /\ DOMAIN filler = 1 .. m /\ 1 .. Len(filler) = 1 .. m
  BY <1>1, <1>4, FunctionIsList
<1>6. ASSUME NEW s \in ToSet(filler)
      PROVE  /\ s.isPlaceholderSelection = TRUE
             /\ IntOn(w, 1 .. m) => s.sequenceOrder \in Int /\ s.vote \in Int
  <2>1. PICK k \in 1 .. m : s = filler[k]
    BY <1>5 DEF ToSet
  <2>2. s.vote = w[k] /\ s.sequenceOrder \in Int
    BY <1>2, <1>3, <2>1 DEF IsSelection
  <2>3. IntOn(w, 1 .. m) => w[k] \in Int
    BY DEF IntOn
  <2>4. s.isPlaceholderSelection
    BY <1>2, <2>1
  <2>5. s.isPlaceholderSelection = TRUE
    BY <1>2, <2>1
  <2> QED BY <2>5, <2>2, <2>3
<1> QED BY <1>1, <1>2, <1>3, <1>5, <1>6 DEF m

(***************************************************************************)
(* Such a contest has these selections, and encrypts the sum of all these  *)
(* votes.                                                                  *)
(***************************************************************************)
LEMMA ContestOfHas ==
  ASSUME NEW mc, IsContest(mc), mc.selections # << >>, NEW v, NEW x, NEW w, NEW nonce,
         IntOn(v, DOMAIN mc.selections), IntOn(w, 1 .. mc.votesAllowed),
         NEW contest, contest = ContestOf(mc, v, x, w, nonce)
  PROVE  /\ ToSet(contest.selections)
              = ToSet(RealOf(mc, v, x, nonce)) \cup ToSet(FillerOf(mc, w, nonce))
         /\ RealSelections(contest) = ToSet(RealOf(mc, v, x, nonce))
         /\ Accumulated(contest) = SumFunctionOnSet(v, DOMAIN mc.selections)
                                   + SumFunctionOnSet(w, 1 .. mc.votesAllowed)
         /\ contest.constant = mc.votesAllowed
<1> DEFINE real == RealOf(mc, v, x, nonce)
           filler == FillerOf(mc, w, nonce)
<1>1. contest = EncryptContest(mc, nonce, real \o filler)
  BY DEF ContestOf
<1> HIDE DEF real, filler
<1>2. /\ real \in Seq(ToSet(real)) /\ 1 .. Len(real) = DOMAIN mc.selections
      /\ \A i \in DOMAIN mc.selections : IsSelection(real[i], v[i], mc.selections[i], nonce)
      /\ \A s \in ToSet(real) : s.isPlaceholderSelection = FALSE
      /\ \A s \in ToSet(real) : s.sequenceOrder \in Int /\ s.vote \in Int
  BY RealList DEF real
<1>3. /\ filler \in Seq(ToSet(filler)) /\ 1 .. Len(filler) = 1 .. mc.votesAllowed
      /\ \A k \in 1 .. mc.votesAllowed : IsSelection(filler[k], w[k], PlaceholderOf(mc, k), nonce)
      /\ \A s \in ToSet(filler) : s.isPlaceholderSelection = TRUE
      /\ \A s \in ToSet(filler) : s.sequenceOrder \in Int /\ s.vote \in Int
  BY FillerList DEF filler
<1>4. /\ \A i \in 1 .. Len(real) : v[i] = real[i].vote
      /\ \A k \in 1 .. Len(filler) : w[k] = filler[k].vote
  BY <1>2, <1>3 DEF IsSelection
<1>5. \A s \in ToSet(real) \cup ToSet(filler) : s.sequenceOrder \in Int /\ s.vote \in Int
  BY <1>2, <1>3
<1>6. /\ ToSet(contest.selections) = ToSet(real) \cup ToSet(filler)
      /\ Accumulated(contest) = SumFunctionOnSet(v, 1 .. Len(real))
                                + SumFunctionOnSet(w, 1 .. Len(filler))
      /\ contest.constant = mc.votesAllowed
  <2>1. real \in Seq(ToSet(real)) /\ filler \in Seq(ToSet(filler))
    BY <1>2, <1>3
  <2> QED BY ONLY <1>1, <2>1, <1>4, <1>5, EncryptedContestHas
<1>7. RealSelections(contest) = ToSet(real)
  BY <1>2, <1>3, <1>6 DEF RealSelections
<1> QED BY <1>2, <1>3, <1>6, <1>7 DEF real, filler

(***************************************************************************)
(* PlaintextBallot.Contest.encryptContest makes such a contest, with one   *)
(* vote for each undervote.                                                *)
(***************************************************************************)
VotesFor(mc, selections) == [i \in DOMAIN mc.selections |-> VoteFor(selections, mc.selections[i])]
DataOf(mc, selections) == [i \in DOMAIN mc.selections |-> DataFor(selections, mc.selections[i])]

\* The contest that Encryptor makes: the votes, and as many placeholders as are left.
LEMMA ContestEncryptionIs ==
  ASSUME NEW mc, IsContest(mc), NEW selections, NEW ballotNonce, NEW v, NEW x, NEW total,
         v = VotesFor(mc, selections), x = DataOf(mc, selections), IntOn(v, DOMAIN mc.selections),
         total = SumFunctionOnSet(v, DOMAIN mc.selections)
  PROVE  /\ total \in Int
         /\ ContestEncryption(mc, selections, ballotNonce)
              = ContestOf(mc, v, x, Marks(mc.votesAllowed, mc.votesAllowed - total),
                          ContestNonce(mc, ballotNonce))
<1> DEFINE nonce == ContestNonce(mc, ballotNonce)
           limit == mc.votesAllowed
<1>1. SumOver(mc.selections, LAMBDA ms : VoteFor(selections, ms)) = total
  BY DEF SumOver, SumFunction, VotesFor
<1>2. total \in Int
  <2>1. IsFiniteSet(DOMAIN mc.selections)
    BY ListIsFinite DEF IsContest
  <2> QED BY <2>1, SumInt
<1>3. [i \in DOMAIN mc.selections |->
        EncryptSelection(VoteFor(selections, mc.selections[i]),
                         DataFor(selections, mc.selections[i]), mc.selections[i], nonce, FALSE)]
        = RealOf(mc, v, x, nonce)
  BY DEF RealOf, VotesFor, DataOf
<1> HIDE DEF nonce
<1>4. [k \in 1 .. limit |->
        EncryptSelection(PlaceholderVote(total, k, limit), {}, PlaceholderOf(mc, k), nonce, TRUE)]
        = FillerOf(mc, Marks(limit, limit - total), nonce)
  <2>1. limit \in Int
    BY DEF IsContest
  <2>2. \A k \in 1 .. limit : PlaceholderVote(total, k, limit) = Marks(limit, limit - total)[k]
    <3> HIDE DEF limit
    <3>1. [k \in 1 .. limit |-> PlaceholderVote(total, k, limit)] = Marks(limit, limit - total)
      BY <1>2, <2>1, PlaceholderVoteMarks
    <3> QED BY <3>1
  <2> QED BY <2>2, Zenon DEF FillerOf
<1>5. ContestEncryption(mc, selections, ballotNonce)
        = EncryptContest(mc, nonce,
            [i \in DOMAIN mc.selections |->
              EncryptSelection(VoteFor(selections, mc.selections[i]),
                               DataFor(selections, mc.selections[i]), mc.selections[i], nonce, FALSE)]
            \o [k \in 1 .. limit |->
                 EncryptSelection(PlaceholderVote(total, k, limit), {}, PlaceholderOf(mc, k), nonce, TRUE)])
  BY <1>1, Zenon DEF ContestEncryption, nonce
<1>6. ContestEncryption(mc, selections, ballotNonce)
        = EncryptContest(mc, nonce, RealOf(mc, v, x, nonce) \o FillerOf(mc, Marks(limit, limit - total), nonce))
  BY <1>3, <1>4, <1>5, Zenon
<1> QED BY <1>2, <1>6 DEF nonce, ContestOf

-----------------------------------------------------------------------------
\* The larger and the smaller of two integers.
LEMMA OfTwo ==
  ASSUME NEW a \in Int, NEW b \in Int
  PROVE  /\ Max({a, b}) = IF a >= b THEN a ELSE b
         /\ Min({a, b}) = IF a <= b THEN a ELSE b
<1> DEFINE S == {a, b}
<1>1. IsFiniteSet(S)
  <2>1. IsFiniteSet({a}) /\ {a} \cup {b} = S
    BY FS_Singleton
  <2> HIDE DEF S
  <2> QED BY <2>1, FS_AddElement
<1>2. S \subseteq Int /\ S # {}
  OBVIOUS
<1> DEFINE x == Max(S)
           y == Min(S)
<1>3. /\ x \in S /\ \A z \in S : x >= z
      /\ y \in S /\ \A z \in S : y <= z
  <2> HIDE DEF S
  <2> QED BY <1>1, <1>2, MaxIsGreatest, MinIsLeast
<1> HIDE DEF x, y
<1>4. x = (IF a >= b THEN a ELSE b) /\ y = (IF a <= b THEN a ELSE b)
  BY <1>3
<1> QED BY <1>4 DEF x, y

\* A list of contests in order is a list of contests.
LEMMA ContestsInOrder ==
  ASSUME NEW m, IsManifest(m), NEW I \in SUBSET (DOMAIN m.contests), NEW s,
         s = InOrder(m.contests, I)
  PROVE  /\ s \in Seq(ToSet(m.contests)) /\ s \in Seq(ToSet(s))
         /\ \A c \in DOMAIN s : s[c] \in ToSet(m.contests) /\ IsContest(s[c])
<1> DEFINE n == Cardinality(I)
<1>1. /\ IsFiniteSet(I) /\ I \subseteq Int
      /\ \A i \in I : m.contests[i] \in ToSet(m.contests)
  <2>1. IsFiniteSet(DOMAIN m.contests) /\ DOMAIN m.contests \subseteq Int
    BY ListIsFinite DEF IsManifest
  <2>2. IsFiniteSet(I)
    BY <2>1, FS_Subset
  <2> QED BY <2>1, <2>2 DEF ToSet
<1>2. Orderable(m.contests, I)
  <2>1. \A i \in I : m.contests[i].sequenceOrder \in Int
    BY <1>1 DEF IsManifest, IsContest
  <2> QED BY <1>1, <2>1 DEF Orderable
<1>3. /\ n \in Nat /\ s = [k \in 1 .. n |-> m.contests[At(m.contests, I, k)]]
      /\ \A k \in 1 .. n : At(m.contests, I, k) \in I
  BY <1>2, InOrderPermutes
<1>4. \A k \in 1 .. n : s[k] \in ToSet(m.contests)
  BY <1>1, <1>3
<1>5. s = [k \in 1 .. n |-> s[k]]
  BY <1>3
<1> HIDE DEF n
<1>6. s \in [1 .. n -> ToSet(m.contests)]
  BY <1>4, <1>5
<1>7. s \in Seq(ToSet(m.contests)) /\ DOMAIN s = 1 .. n
  BY <1>3, <1>6, FunctionIsSeq
<1>8. s \in Seq(ToSet(s))
  BY <1>3, <1>5, FunctionIsList
<1> QED BY <1>4, <1>7, <1>8 DEF IsManifest

\* What associateBy finds is an element with the key.
LEMMA ByKeyIs ==
  ASSUME NEW list, list \in Seq(ToSet(list)), NEW field, NEW k, HasKey(list, field, k)
  PROVE  \E i \in DOMAIN list : list[i][field] = k /\ ByKey(list, field, k) = list[i]
<1> DEFINE I == {i \in 1 .. Len(list) : list[i][field] = k}
<1>1. DOMAIN list = 1 .. Len(list) /\ IsFiniteSet(1 .. Len(list)) /\ Len(list) \in Nat
  BY ListIsFinite
<1>2. I # {}
  BY <1>1 DEF HasKey
<1>3. ByKey(list, field, k) = list[IF I # {} THEN Max(I) ELSE 0]
  BY DEF ByKey, SelectLastInSeq
<1>4. Max(I) \in I
  <2>1. I \in SUBSET (1 .. Len(list)) /\ I \subseteq Int
    BY <1>1
  <2> HIDE DEF I
  <2>2. IsFiniteSet(I)
    BY <1>1, <2>1, FS_Subset
  <2> QED BY <1>2, <2>1, <2>2, MaxIsGreatest
<1> QED BY <1>1, <1>2, <1>3, <1>4

\* A list of votes for all selections gives each selection its vote and no data.
LEMMA VotesForAll ==
  ASSUME NEW mc, IsContest(mc),
         \A i, j \in DOMAIN mc.selections :
           mc.selections[i].selectionId = mc.selections[j].selectionId => i = j,
         NEW cv, cv = [i \in DOMAIN mc.selections |-> cv[i]], NEW selections,
         selections = [s \in DOMAIN cv |->
           [selectionId  |-> mc.selections[s].selectionId,
            vote         |-> cv[s],
            extendedData |-> {}]]
  PROVE  VotesFor(mc, selections) = cv /\ DataOf(mc, selections) = NoData(mc)
<1> DEFINE n == Len(mc.selections)
<1>1. n \in Nat /\ DOMAIN mc.selections = 1 .. n /\ DOMAIN cv = 1 .. n
  BY DEF IsContest
<1>2. /\ selections = [s \in 1 .. n |-> selections[s]]
      /\ \A s \in 1 .. n : /\ selections[s]["selectionId"] = mc.selections[s].selectionId
                           /\ selections[s].vote = cv[s]
                           /\ selections[s].extendedData = {}
  BY <1>1
<1> HIDE DEF n
<1>3. selections \in Seq(ToSet(selections)) /\ DOMAIN selections = 1 .. n
  BY <1>1, <1>2, FunctionIsList
<1>4. ASSUME NEW i \in 1 .. n
      PROVE  /\ VoteFor(selections, mc.selections[i]) = cv[i]
             /\ DataFor(selections, mc.selections[i]) = {}
  <2> DEFINE id == mc.selections[i].selectionId
  <2>1. HasKey(selections, "selectionId", id)
    BY <1>2, <1>3 DEF HasKey
  <2>2. PICK j \in DOMAIN selections : /\ selections[j]["selectionId"] = id
                                       /\ ByKey(selections, "selectionId", id) = selections[j]
    <3> HIDE DEF id
    <3>1. selections \in Seq(ToSet(selections))
      BY <1>3
    <3> QED BY ONLY <3>1, <2>1, ByKeyIs
  <2>3. mc.selections[i].selectionId = mc.selections[j].selectionId
    BY <1>2, <2>2
  <2>4. j = i
    BY <1>1, <2>3
  <2> QED BY <1>2, <2>1, <2>2, <2>4 DEF VoteFor, DataFor
<1> QED BY <1>1, <1>4 DEF VotesFor, DataOf, NoData

\* The contests of a ballot style.
LEMMA StyleContestsAre ==
  ASSUME NEW m, IsManifest(m), NEW style, NEW s, s = StyleContests(m, style)
  PROVE  /\ s \in Seq(ToSet(m.contests)) /\ s \in Seq(ToSet(s)) /\ DOMAIN s \subseteq Nat
         /\ \A c \in DOMAIN s : s[c] \in ToSet(m.contests) /\ IsContest(s[c])
<1> DEFINE I == {i \in DOMAIN m.contests : m.contests[i].geopoliticalUnitId \in m.styles[style]}
<1>1. I \in SUBSET DOMAIN m.contests /\ s = InOrder(m.contests, I)
  BY DEF StyleContests
<1> HIDE DEF I
<1>2. /\ s \in Seq(ToSet(m.contests)) /\ s \in Seq(ToSet(s))
      /\ \A c \in DOMAIN s : s[c] \in ToSet(m.contests) /\ IsContest(s[c])
  BY <1>1, ContestsInOrder
<1>3. DOMAIN s \subseteq Nat
  BY <1>2
<1> QED BY <1>2, <1>3

\* A position that SelectInSeq found is a position of the list.
LEMMA FoundIsPlace ==
  ASSUME NEW list, list \in Seq(ToSet(list)), NEW I \in SUBSET (1 .. Len(list)),
         NEW i, i = (IF I # {} THEN Min(I) ELSE 0), i # 0
  PROVE  i \in DOMAIN list
<1>1. DOMAIN list = 1 .. Len(list) /\ IsFiniteSet(1 .. Len(list)) /\ 1 .. Len(list) \subseteq Int
  BY ListIsFinite
<1>2. IsFiniteSet(I) /\ I \subseteq Int
  BY <1>1, FS_Subset
<1>3. I # {}
  OBVIOUS
<1>4. Min(I) \in I
  BY <1>2, <1>3, MinIsLeast
<1> QED BY <1>1, <1>3, <1>4

\* How many placeholders are marked after a contest was encrypted.
LEMMA Marking ==
  ASSUME NEW allowed \in Nat, NEW mk \in 0 .. allowed, NEW sum \in Int, sum <= allowed,
         NEW new, new = Max({mk, Min({allowed, allowed - sum})})
  PROVE  /\ new \in 0 .. allowed
         /\ sum >= 0 => new = IF mk >= allowed - sum THEN mk ELSE allowed - sum
<1> DEFINE room == allowed - sum
           least == IF allowed <= room THEN allowed ELSE room
<1>1. room \in Int /\ least \in Int
  OBVIOUS
<1>2. Min({allowed, room}) = least
  <2>1. allowed \in Int
    OBVIOUS
  <2> HIDE DEF room
  <2>2. Min({allowed, room}) = IF allowed <= room THEN allowed ELSE room
    BY <1>1, <2>1, OfTwo
  <2> QED BY <2>2
<1>3. new = IF mk >= least THEN mk ELSE least
  <2>1. mk \in Int
    OBVIOUS
  <2>2. Max({mk, least}) = IF mk >= least THEN mk ELSE least
    <3> HIDE DEF least
    <3> QED BY <1>1, <2>1, OfTwo
  <2> HIDE DEF least
  <2>3. new = Max({mk, least})
    BY <1>2
  <2> QED BY <2>2, <2>3
<1> QED BY <1>3

-----------------------------------------------------------------------------
(***************************************************************************)
(* Lists with the same sequence orders are put in order in the same way.   *)
(***************************************************************************)
Permutes(p, D) == p \in [D -> D] /\ \A i, j \in D : p[i] = p[j] => i = j

Arranges(p, list) ==
  /\ Permutes(p, DOMAIN list)
  /\ SortedByOrder(list) = [k \in DOMAIN list |-> list[p[k]]]

\* One permutation puts both lists in order.
LEMMA SortedAlike ==
  ASSUME NEW list, list \in Seq(ToSet(list)), NEW other, other \in Seq(ToSet(other)),
         DOMAIN other = DOMAIN list,
         \A i \in DOMAIN list : /\ list[i].sequenceOrder \in Int
                                /\ other[i].sequenceOrder = list[i].sequenceOrder
  PROVE  \E p : Arranges(p, list) /\ Arranges(p, other)
<1> DEFINE I == DOMAIN list
           n == Len(list)
<1>1. I = 1 .. n /\ n \in Nat /\ Len(other) = n
  BY ListIsFinite
<1>2. /\ \A e \in ToSet(list) : e.sequenceOrder \in Int
      /\ \A e \in ToSet(other) : e.sequenceOrder \in Int
  BY DEF ToSet
<1>3. /\ Orderable(list, I) /\ Cardinality(I) = n
      /\ SortedByOrder(list) = [k \in 1 .. n |-> list[At(list, I, k)]]
  BY <1>2, SortedPermutes
<1>4. /\ Orderable(other, I)
      /\ SortedByOrder(other) = [k \in 1 .. n |-> other[At(other, I, k)]]
  <2>1. DOMAIN other = I
    OBVIOUS
  <2> HIDE DEF I
  <2> QED BY ONLY <1>1, <1>2, <2>1, SortedPermutes, other \in Seq(ToSet(other))
<1>5. \A i, j \in I : Precedes(other, i, j) <=> Precedes(list, i, j)
  BY DEF Precedes
<1> HIDE DEF I
<1>6. \A i \in I : Place(other, I, i) = Place(list, I, i)
  <2> SUFFICES ASSUME NEW i \in I PROVE Place(other, I, i) = Place(list, I, i)
    OBVIOUS
  <2>1. {j \in I : Precedes(other, j, i)} = {j \in I : Precedes(list, j, i)}
    BY <1>5
  <2> QED BY <2>1 DEF Place
<1>7. ASSUME NEW k \in 1 .. n
      PROVE  At(list, I, k) \in I /\ At(other, I, k) = At(list, I, k)
  <2>1. \E i \in I : Place(list, I, i) = k
    BY <1>3, PlacesAreTaken
  <2>2. At(list, I, k) \in I /\ Place(list, I, At(list, I, k)) = k
    BY <2>1 DEF At
  <2>3. \E i \in I : Place(other, I, i) = k
    BY <1>6, <2>1
  <2>4. At(other, I, k) \in I /\ Place(other, I, At(other, I, k)) = k
    BY <2>3 DEF At
  <2>5. Place(list, I, At(other, I, k)) = k
    BY <1>6, <2>4
  <2> QED BY <1>3, <2>2, <2>4, <2>5, PlacesAreTaken
<1> DEFINE p == [k \in I |-> At(list, I, k)]
<1>8. Permutes(p, I)
  <2>1. \A i, j \in 1 .. n : At(list, I, i) = At(list, I, j) => i = j
    BY <1>3, InOrderPermutes
  <2> QED BY <1>1, <1>7, <2>1 DEF Permutes
<1>9. /\ SortedByOrder(list) = [k \in I |-> list[p[k]]]
      /\ SortedByOrder(other) = [k \in I |-> other[p[k]]]
  BY <1>1, <1>3, <1>4, <1>7
<1> HIDE DEF p
<1> QED BY <1>8, <1>9 DEF Arranges, I

\* Elements with distinct sequence orders keep them when they are put in order.
LEMMA ArrangedAreDistinct ==
  ASSUME NEW list, NEW p, Arranges(p, list),
         \A i, j \in DOMAIN list : list[i].sequenceOrder = list[j].sequenceOrder => i = j
  PROVE  /\ DOMAIN SortedByOrder(list) = DOMAIN list
         /\ \A k \in DOMAIN list : p[k] \in DOMAIN list /\ SortedByOrder(list)[k] = list[p[k]]
         /\ \A k, l \in DOMAIN list :
              SortedByOrder(list)[k].sequenceOrder = SortedByOrder(list)[l].sequenceOrder => k = l
<1>1. /\ DOMAIN SortedByOrder(list) = DOMAIN list
      /\ \A k \in DOMAIN list : p[k] \in DOMAIN list /\ SortedByOrder(list)[k] = list[p[k]]
  BY DEF Arranges, Permutes
<1>2. \A k, l \in DOMAIN list : p[k] = p[l] => k = l
  BY DEF Arranges, Permutes
<1> QED BY <1>1, <1>2

-----------------------------------------------------------------------------
(***************************************************************************)
(* An encrypted contest, selection by selection: the descriptions of its   *)
(* selections and of the placeholders after them.                          *)
(***************************************************************************)
Description(mc, i) ==
  IF i <= Len(mc.selections) THEN mc.selections[i]
  ELSE PlaceholderOf(mc, i - Len(mc.selections))

DataAt(mc, x, i) == IF i <= Len(mc.selections) THEN x[i] ELSE {}

IsContestList(list, mc, x, nonce) ==
  /\ list \in Seq(ToSet(list))
  /\ DOMAIN list = 1 .. Len(mc.selections) + mc.votesAllowed
  /\ \A i \in DOMAIN list :
       /\ list[i].selectionId = Description(mc, i).selectionId
       /\ list[i].sequenceOrder = Description(mc, i).sequenceOrder
       /\ list[i].sequenceOrder \in Int
       /\ list[i].selectionNonce
            = <<SelectionHash(Description(mc, i)), nonce, list[i].sequenceOrder>>
       /\ list[i].isPlaceholderSelection = (i > Len(mc.selections))
       /\ list[i].extendedData = HashedElGamal(DataAt(mc, x, i), list[i].selectionNonce)

\* The ciphertexts of a contest are those of its selections and its placeholders.
LEMMA ContestListIs ==
  ASSUME NEW mc, IsContest(mc), mc.selections # << >>, mc.votesAllowed \in Nat,
         NEW v, NEW x, NEW w, NEW nonce, NEW list, list = RealOf(mc, v, x, nonce) \o FillerOf(mc, w, nonce)
  PROVE  IsContestList(list, mc, x, nonce)
<1> DEFINE real == RealOf(mc, v, x, nonce)
           filler == FillerOf(mc, w, nonce)
           n == Len(mc.selections)
           m == mc.votesAllowed
<1>1. n \in Nat /\ m \in Nat /\ DOMAIN mc.selections = 1 .. n
  BY DEF IsContest
<1>2. real \in Seq(ToSet(real)) /\ Len(real) = n
      /\ \A i \in 1 .. n : /\ IsSelection(real[i], v[i], mc.selections[i], nonce)
                           /\ real[i].sequenceOrder \in Int
  <2>1. real = RealOf(mc, v, x, nonce)
    OBVIOUS
  <2> HIDE DEF real
  <2> QED BY <1>1, <2>1, RealList
<1>3. \A i \in 1 .. n : /\ real[i].isPlaceholderSelection = FALSE
                        /\ real[i].extendedData = HashedElGamal(x[i], real[i].selectionNonce)
  <2> SUFFICES ASSUME NEW i \in 1 .. n
               PROVE  /\ real[i].isPlaceholderSelection = FALSE
                      /\ real[i].extendedData = HashedElGamal(x[i], real[i].selectionNonce)
    OBVIOUS
  <2>1. real[i] = EncryptSelection(v[i], x[i], mc.selections[i], nonce, FALSE)
    BY <1>1 DEF RealOf
  <2> QED BY <2>1 DEF EncryptSelection
<1>4. filler \in Seq(ToSet(filler)) /\ 1 .. Len(filler) = 1 .. m
      /\ \A k \in 1 .. m : /\ IsSelection(filler[k], w[k], PlaceholderOf(mc, k), nonce)
                           /\ filler[k].sequenceOrder \in Int
  <2>1. filler = FillerOf(mc, w, nonce)
    OBVIOUS
  <2> HIDE DEF filler
  <2> QED BY <1>1, <2>1, FillerList
<1>5. \A k \in 1 .. m : /\ filler[k].isPlaceholderSelection = TRUE
                        /\ filler[k].extendedData = HashedElGamal({}, filler[k].selectionNonce)
  <2> SUFFICES ASSUME NEW k \in 1 .. m
               PROVE  /\ filler[k].isPlaceholderSelection = TRUE
                      /\ filler[k].extendedData = HashedElGamal({}, filler[k].selectionNonce)
    OBVIOUS
  <2>1. filler[k] = EncryptSelection(w[k], {}, PlaceholderOf(mc, k), nonce, TRUE)
    BY DEF FillerOf
  <2> QED BY <2>1 DEF EncryptSelection
<1> HIDE DEF real, filler, n, m
<1>6. Len(filler) = m
  <2>1. Len(filler) \in Nat
    BY <1>4
  <2> QED BY <1>1, <1>4, <2>1
<1>7. /\ list \in Seq(ToSet(list)) /\ Len(list) = n + m
      /\ \A i \in 1 .. n : list[i] = real[i]
      /\ \A k \in 1 .. m : list[n + k] = filler[k]
  <2>1. list = real \o filler
    BY DEF real, filler
  <2>2. real \in Seq(ToSet(real)) /\ filler \in Seq(ToSet(filler))
    BY <1>2, <1>4
  <2>3. /\ list \in Seq(ToSet(list)) /\ Len(list) = Len(real) + Len(filler)
        /\ \A i \in 1 .. Len(real) : list[i] = real[i]
        /\ \A k \in 1 .. Len(filler) : list[Len(real) + k] = filler[k]
    BY <2>1, <2>2, Concatenated
  <2>4. Len(real) = n
    BY <1>2
  <2> QED BY <1>6, <2>3, <2>4
<1>8. DOMAIN list = 1 .. n + m
  BY <1>7
<1>9. ASSUME NEW i \in 1 .. n + m
      PROVE  /\ list[i].selectionId = Description(mc, i).selectionId
             /\ list[i].sequenceOrder = Description(mc, i).sequenceOrder
             /\ list[i].sequenceOrder \in Int
             /\ list[i].selectionNonce
                  = <<SelectionHash(Description(mc, i)), nonce, list[i].sequenceOrder>>
             /\ list[i].isPlaceholderSelection = (i > n)
             /\ list[i].extendedData = HashedElGamal(DataAt(mc, x, i), list[i].selectionNonce)
  <2>1. CASE i <= n
    <3>1. i \in 1 .. n /\ Description(mc, i) = mc.selections[i] /\ DataAt(mc, x, i) = x[i]
      BY <1>1, <2>1 DEF Description, DataAt, n
    <3>2. list[i] = real[i] /\ (i > n) = FALSE
      BY <1>1, <1>7, <2>1, <3>1
    <3> QED BY <1>2, <1>3, <3>1, <3>2 DEF IsSelection
  <2>2. CASE ~(i <= n)
    <3> DEFINE k == i - n
    <3>1. k \in 1 .. m /\ n + k = i
      BY <1>1, <2>2
    <3>2. Description(mc, i) = PlaceholderOf(mc, k) /\ DataAt(mc, x, i) = {}
      BY <2>2 DEF Description, DataAt, n
    <3> HIDE DEF k
    <3>3. list[i] = filler[k] /\ (i > n) = TRUE
      BY <1>1, <1>7, <2>2, <3>1
    <3>4. list[i].extendedData = HashedElGamal(DataAt(mc, x, i), list[i].selectionNonce)
      BY <1>5, <3>1, <3>2, <3>3
    <3>5. /\ IsSelection(filler[k], w[k], PlaceholderOf(mc, k), nonce)
          /\ filler[k].sequenceOrder \in Int /\ filler[k].isPlaceholderSelection = TRUE
      BY <1>4, <1>5, <3>1
    <3> QED BY <3>2, <3>3, <3>4, <3>5 DEF IsSelection
  <2> QED BY <2>1, <2>2
<1> QED BY <1>7, <1>8, <1>9 DEF IsContestList, n, m

\* The orders of placeholders and selections differ.
LEMMA OrdersAreDistinct ==
  ASSUME NEW mc, IsContest(mc), mc.selections # << >>, mc.votesAllowed \in Nat,
         \A i, j \in DOMAIN mc.selections :
           mc.selections[i].sequenceOrder = mc.selections[j].sequenceOrder => i = j,
         NEW i \in 1 .. Len(mc.selections) + mc.votesAllowed,
         NEW j \in 1 .. Len(mc.selections) + mc.votesAllowed,
         Description(mc, i).sequenceOrder = Description(mc, j).sequenceOrder
  PROVE  i = j
<1> DEFINE n == Len(mc.selections)
           o(l) == Description(mc, l).sequenceOrder
<1>1. n \in Nat /\ DOMAIN mc.selections = 1 .. n /\ mc.votesAllowed \in Nat
  BY DEF IsContest
<1>2. ASSUME NEW k \in 1 .. n + mc.votesAllowed, k <= n
      PROVE  k \in 1 .. n /\ o(k) = mc.selections[k].sequenceOrder /\ o(k) \in Int
  <2>1. k \in 1 .. n
    BY <1>1, <1>2
  <2>2. mc.selections[k] \in ToSet(mc.selections)
    BY <1>1, <2>1 DEF ToSet
  <2> QED BY <1>2, <2>1, <2>2 DEF Description, IsContest
<1> DEFINE first == PlaceholderOf(mc, 0).sequenceOrder
<1>3. ASSUME NEW k \in 1 .. n + mc.votesAllowed, ~(k <= n)
      PROVE  k - n \in Nat \ {0} /\ o(k) = first + (k - n)
  <2>1. k - n \in Nat \ {0}
    BY <1>1, <1>3
  <2>2. o(k) = PlaceholderOf(mc, k - n).sequenceOrder
    BY <1>3 DEF Description
  <2> QED BY <2>1, <2>2, PlaceholdersFollow
<1>4. first \in Int /\ \A s \in ToSet(mc.selections) : s.sequenceOrder + 0 <= first
  BY PlaceholdersFollow
<1>5. ASSUME NEW k \in 1 .. n + mc.votesAllowed, k <= n
      PROVE  o(k) <= first
  <2>1. mc.selections[k] \in ToSet(mc.selections) /\ o(k) = mc.selections[k].sequenceOrder
        /\ o(k) \in Int
    BY <1>1, <1>2, <1>5 DEF ToSet
  <2> HIDE DEF o, first
  <2>2. o(k) + 0 <= first
    BY <1>4, <2>1
  <2> QED BY <1>4, <2>1, <2>2
<1>6. o(i) = o(j)
  OBVIOUS
<1>7. i \in Int /\ j \in Int
  BY <1>1
<1> HIDE DEF o, first, n
<1>8. CASE i <= n /\ j <= n
  BY <1>1, <1>2, <1>6, <1>8 DEF n
<1>9. CASE i <= n /\ ~(j <= n)
  <2>1. o(i) <= first /\ o(i) \in Int /\ j - n \in Nat \ {0} /\ o(j) = first + (j - n)
    BY <1>2, <1>3, <1>5, <1>9 DEF n
  <2> DEFINE d == j - n
  <2> HIDE DEF d
  <2>2. d \in Nat \ {0} /\ o(j) = first + d
    BY <2>1 DEF d
  <2> QED BY <1>4, <1>6, <2>1, <2>2
<1>10. CASE ~(i <= n) /\ j <= n
  <2>1. o(j) <= first /\ o(j) \in Int /\ i - n \in Nat \ {0} /\ o(i) = first + (i - n)
    BY <1>2, <1>3, <1>5, <1>10 DEF n
  <2> DEFINE d == i - n
  <2> HIDE DEF d
  <2>2. d \in Nat \ {0} /\ o(i) = first + d
    BY <2>1 DEF d
  <2> QED BY <1>4, <1>6, <2>1, <2>2
<1>11. CASE ~(i <= n) /\ ~(j <= n)
  <2>1. o(i) = first + (i - n) /\ o(j) = first + (j - n) /\ n \in Int
    BY <1>1, <1>3, <1>11 DEF n
  <2>2. first + (i - n) = first + (j - n)
    BY <1>6, <2>1
  <2> QED BY <1>4, <1>7, <2>1, <2>2
<1> QED BY <1>8, <1>9, <1>10, <1>11
=============================================================================
