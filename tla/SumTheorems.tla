------------------------------ MODULE SumTheorems ------------------------------
(***************************************************************************)
(* Facts about MapThenSumSet, the sum of a set of numbers as the models of *)
(* money and of reviews use it, for any finite set.  The community modules define it by a *)
(* recursive function on the subsets of the set, which is first shown to   *)
(* exist; everything else follows by induction on the number of elements.  *)
(***************************************************************************)
EXTENDS Integers, FiniteSetsExt, FiniteSetTheorems, WellFoundedInduction, TLAPS

\* The sum of what w says of the elements of S.
SumOver(w, S) == MapThenSumSet(LAMBDA x : w[x], S)

\* One step of the recursion that defines it, for the subset T.
First(T) == CHOOSE x \in T : TRUE
SumStep(w, g, T) == IF T = {} THEN 0 ELSE w[First(T)] + g[T \ {First(T)}]

\* The function that recursion defines on the subsets of S, and on those that
\* have no more than n elements.
IsSum(g, w, S) == g = [T \in SUBSET S |-> SumStep(w, g, T)]
Small(S, n) == {T \in SUBSET S : Cardinality(T) <= n}
IsSmallSum(g, w, S, n) == g = [T \in Small(S, n) |-> SumStep(w, g, T)]

-----------------------------------------------------------------------------
\* Induction over the numbers, for a property given as a set.
LEMMA Induction ==
    ASSUME NEW P, 0 \in P, \A n \in Nat : n \in P => n + 1 \in P
    PROVE  \A n \in Nat : n \in P
<1> DEFINE R == OpToRel(<, Nat)
<1>1. IsWellFoundedOn(R, Nat)
  BY NatLessThanWellFounded, Zenon
<1>2. \A m \in Nat \ {0} : m - 1 \in Nat /\ <<m - 1, m>> \in R
  BY DEF OpToRel
<1> HIDE DEF R
<1> SUFFICES ASSUME Nat \ P # {} PROVE FALSE
  OBVIOUS
<1>3. PICK m \in Nat \ P : \A k \in Nat \ P : <<k, m>> \notin R
  <2>1. Nat \ P \subseteq Nat
    OBVIOUS
  <2> QED BY <1>1, <2>1, WFMin
<1>4. m \in Nat \ {0}
  BY <1>3
<1>5. m - 1 \in P
  BY <1>2, <1>3, <1>4
<1> QED BY <1>2, <1>3, <1>4, <1>5

\* A set with an element taken out is smaller by one.
LEMMA OneLess ==
    ASSUME NEW T, IsFiniteSet(T), NEW x \in T
    PROVE  /\ IsFiniteSet(T \ {x})
           /\ Cardinality(T) \in Nat /\ Cardinality(T \ {x}) \in Nat
           /\ Cardinality(T) = Cardinality(T \ {x}) + 1
<1>1. IsFiniteSet(T \ {x}) /\ Cardinality(T \ {x}) = Cardinality(T) - 1
  BY FS_RemoveElement
<1>2. Cardinality(T) \in Nat
  BY FS_CardinalityType
<1>3. Cardinality(T \ {x}) \in Nat
  BY <1>1, FS_CardinalityType
<1> QED BY <1>1, <1>2, <1>3

LEMMA FirstIn == ASSUME NEW T, T # {} PROVE First(T) \in T
BY DEF First

\* The recursion has a solution on the subsets of every size.
LEMMA SmallSumExists ==
    ASSUME NEW w, NEW S, IsFiniteSet(S), NEW n \in Nat
    PROVE  \E g : IsSmallSum(g, w, S, n)
<1> DEFINE P == {k \in Nat : \E g : IsSmallSum(g, w, S, k)}
<1>1. 0 \in P
  <2> DEFINE g == [T \in Small(S, 0) |-> 0]
  <2>1. Small(S, 0) = {{}}
    <3>1. \A T \in SUBSET S : IsFiniteSet(T) /\ Cardinality(T) \in Nat
      BY FS_Subset, FS_CardinalityType
    <3> QED BY <3>1, FS_EmptySet DEF Small
  <2>2. g = [T \in Small(S, 0) |-> SumStep(w, g, T)]
    BY <2>1 DEF SumStep
  <2> QED BY <2>2 DEF IsSmallSum
<1>2. ASSUME NEW k \in Nat, k \in P PROVE k + 1 \in P
  <2>1. PICK f : IsSmallSum(f, w, S, k)
    BY <1>2
  <2> DEFINE g == [T \in Small(S, k + 1) |-> SumStep(w, f, T)]
  <2>2. \A T \in Small(S, k + 1) :
           T # {} => T \ {First(T)} \in Small(S, k)
    <3> SUFFICES ASSUME NEW T \in Small(S, k + 1), T # {}
                 PROVE  T \ {First(T)} \in Small(S, k)
      OBVIOUS
    <3>1. T \subseteq S /\ Cardinality(T) <= k + 1
      BY DEF Small
    <3>2. IsFiniteSet(T) /\ First(T) \in T
      BY <3>1, FS_Subset, FirstIn
    <3> QED BY <3>1, <3>2, OneLess DEF Small
  <2>3. Small(S, k) \subseteq Small(S, k + 1)
    <3>1. \A T \in SUBSET S : Cardinality(T) \in Nat
      BY FS_Subset, FS_CardinalityType
    <3> QED BY <3>1 DEF Small
  <2>4. \A U \in Small(S, k) : g[U] = f[U]
    BY <2>1, <2>3 DEF IsSmallSum
  <2>5. \A T \in Small(S, k + 1) : SumStep(w, g, T) = SumStep(w, f, T)
    <3> HIDE DEF g
    <3> QED BY <2>2, <2>4 DEF SumStep
  <2>6. g = [T \in Small(S, k + 1) |-> SumStep(w, g, T)]
    BY <2>5
  <2> HIDE DEF g
  <2>7. IsSmallSum(g, w, S, k + 1)
    BY <2>6 DEF IsSmallSum
  <2> QED BY <2>7
<1>3. \A k \in Nat : k \in P
  <2> HIDE DEF P
  <2> QED BY <1>1, <1>2, Induction
<1> QED BY <1>3

LEMMA SumExists ==
    ASSUME NEW w, NEW S, IsFiniteSet(S)
    PROVE  \E g : IsSum(g, w, S)
<1>1. Cardinality(S) \in Nat
  BY FS_CardinalityType
<1>2. Small(S, Cardinality(S)) = SUBSET S
  BY FS_Subset DEF Small
<1>3. PICK g : IsSmallSum(g, w, S, Cardinality(S))
  BY <1>1, SmallSumExists
<1> QED BY <1>2, <1>3 DEF IsSmallSum, IsSum

\* ... and MapThenSumSet is that solution.
LEMMA SumIsSum ==
    ASSUME NEW w, NEW S, IsFiniteSet(S)
    PROVE  \E g : IsSum(g, w, S) /\ SumOver(w, S) = g[S]
<1> DEFINE iter == CHOOSE g : g = [T \in SUBSET S |->
                     IF T = {} THEN 0
                     ELSE LET x == CHOOSE x \in T : TRUE IN w[x] + g[T \ {x}]]
<1>1. SumOver(w, S) = iter[S]
  BY DEF SumOver, MapThenSumSet, MapThenFoldSet
<1>2. \A g : IsSum(g, w, S) <=>
             g = [T \in SUBSET S |->
                     IF T = {} THEN 0
                     ELSE LET x == CHOOSE x \in T : TRUE IN w[x] + g[T \ {x}]]
  BY DEF IsSum, SumStep, First
<1>3. IsSum(iter, w, S)
  <2>1. PICK g : IsSum(g, w, S)
    BY SumExists
  <2> QED BY ZenonT(60), <1>2, <2>1
<1> QED BY <1>1, <1>3

-----------------------------------------------------------------------------
\* Two sums that agree on the elements of T agree on its subsets.
LEMMA SumsAgree ==
    ASSUME NEW S, IsFiniteSet(S), NEW T \in SUBSET S, NEW w, NEW v,
           \A x \in T : w[x] = v[x],
           NEW g, IsSum(g, w, S), NEW f, IsSum(f, v, T)
    PROVE  \A U \in SUBSET T : g[U] = f[U]
<1> DEFINE P == {n \in Nat : \A U \in SUBSET T :
                                Cardinality(U) = n => g[U] = f[U]}
<1>1. \A U \in SUBSET T : IsFiniteSet(U) /\ Cardinality(U) \in Nat
  BY FS_Subset, FS_CardinalityType
<1>2. \A U \in SUBSET T : g[U] = SumStep(w, g, U) /\ f[U] = SumStep(v, f, U)
  BY DEF IsSum
<1>3. 0 \in P
  BY <1>1, <1>2, FS_EmptySet DEF SumStep
<1>4. ASSUME NEW n \in Nat, n \in P PROVE n + 1 \in P
  <2> SUFFICES ASSUME NEW U \in SUBSET T, Cardinality(U) = n + 1
               PROVE  g[U] = f[U]
    OBVIOUS
  <2> DEFINE x == First(U)
  <2>1. U # {} /\ x \in U
    BY FS_EmptySet, FirstIn
  <2>2. U \ {x} \in SUBSET T /\ Cardinality(U \ {x}) = n
    BY <1>1, <2>1, OneLess
  <2>3. g[U \ {x}] = f[U \ {x}]
    BY <1>4, <2>2
  <2> QED BY <1>2, <2>1, <2>3 DEF SumStep
<1>5. \A n \in Nat : n \in P
  <2> HIDE DEF P
  <2> QED BY <1>3, <1>4, Induction
<1> QED BY <1>1, <1>5

\* A sum of integers is an integer; of natural numbers, one of those.
LEMMA SumsTyped ==
    ASSUME NEW S, IsFiniteSet(S), NEW D, 0 \in D, \A i, j \in D : i + j \in D,
           NEW w, \A x \in S : w[x] \in D, NEW g, IsSum(g, w, S)
    PROVE  \A T \in SUBSET S : g[T] \in D
<1> DEFINE P == {n \in Nat : \A T \in SUBSET S :
                                Cardinality(T) = n => g[T] \in D}
<1>1. \A T \in SUBSET S : IsFiniteSet(T) /\ Cardinality(T) \in Nat
  BY FS_Subset, FS_CardinalityType
<1>2. \A T \in SUBSET S : g[T] = SumStep(w, g, T)
  BY DEF IsSum
<1>3. 0 \in P
  <2>1. g[{}] \in D
    BY <1>2 DEF SumStep
  <2>2. \A T \in SUBSET S : Cardinality(T) = 0 => T = {}
    BY <1>1, FS_EmptySet
  <2> QED BY <2>1, <2>2
<1>4. ASSUME NEW n \in Nat, n \in P PROVE n + 1 \in P
  <2> SUFFICES ASSUME NEW T \in SUBSET S, Cardinality(T) = n + 1
               PROVE  g[T] \in D
    OBVIOUS
  <2> DEFINE x == First(T)
  <2>1. T # {} /\ x \in T
    BY FS_EmptySet, FirstIn
  <2>2. T \ {x} \in SUBSET S /\ Cardinality(T \ {x}) = n
    BY <1>1, <2>1, OneLess
  <2>3. g[T \ {x}] \in D /\ w[x] \in D
    BY <1>4, <2>1, <2>2
  <2> QED BY <1>2, <2>1, <2>3 DEF SumStep
<1>5. \A n \in Nat : n \in P
  <2> HIDE DEF P
  <2> QED BY <1>3, <1>4, Induction
<1> QED BY <1>1, <1>5

\* Any element of T can be taken out of its sum.
Splits(w, g, T) == \A y \in T : g[T] = w[y] + g[T \ {y}]

LEMMA SumsSplit ==
    ASSUME NEW S, IsFiniteSet(S), NEW w, \A x \in S : w[x] \in Int,
           NEW g, IsSum(g, w, S)
    PROVE  \A T \in SUBSET S : Splits(w, g, T)
<1> DEFINE P == {n \in Nat : \A T \in SUBSET S :
                                Cardinality(T) = n => Splits(w, g, T)}
<1>1. \A T \in SUBSET S : IsFiniteSet(T) /\ Cardinality(T) \in Nat
  BY FS_Subset, FS_CardinalityType
<1>2. \A T \in SUBSET S : g[T] = SumStep(w, g, T)
  BY DEF IsSum
<1>3. \A T \in SUBSET S : g[T] \in Int
  <2>1. 0 \in Int /\ \A i, j \in Int : i + j \in Int
    OBVIOUS
  <2> QED BY <2>1, SumsTyped
<1>4. 0 \in P
  BY <1>1, FS_EmptySet DEF Splits
<1>5. ASSUME NEW n \in Nat, n \in P PROVE n + 1 \in P
  <2> SUFFICES ASSUME NEW T \in SUBSET S, Cardinality(T) = n + 1
               PROVE  Splits(w, g, T)
    OBVIOUS
  <2> DEFINE x == First(T)
  <2>1. T # {} /\ x \in T
    BY FS_EmptySet, FirstIn
  <2>2. \A y \in T : T \ {y} \in SUBSET S /\ Cardinality(T \ {y}) = n
    BY <1>1, OneLess
  <2>3. \A y \in T : Splits(w, g, T \ {y})
    BY <1>5, <2>2
  <2>4. g[T] = w[x] + g[T \ {x}]
    BY <1>2, <2>1 DEF SumStep
  <2>5. ASSUME NEW y \in T, y # x PROVE g[T] = w[y] + g[T \ {y}]
    <3>1. g[T \ {x}] = w[y] + g[(T \ {x}) \ {y}]
      BY <2>1, <2>3, <2>5 DEF Splits
    <3>2. g[T \ {y}] = w[x] + g[(T \ {x}) \ {y}]
      <4>1. (T \ {x}) \ {y} = (T \ {y}) \ {x}
        OBVIOUS
      <4> QED BY <2>1, <2>3, <2>5, <4>1 DEF Splits
    <3>3. w[x] \in Int /\ w[y] \in Int /\ g[(T \ {x}) \ {y}] \in Int
      BY <1>3, <2>1
    <3> HIDE DEF x
    <3> QED BY <2>4, <3>1, <3>2, <3>3
  <2> QED BY <2>4, <2>5 DEF Splits
<1>6. \A n \in Nat : n \in P
  <2> HIDE DEF P
  <2> QED BY <1>4, <1>5, Induction
<1> QED BY <1>1, <1>6

-----------------------------------------------------------------------------
\* What the models use.  The sum of nothing is zero.
LEMMA SumEmpty == ASSUME NEW w PROVE SumOver(w, {}) = 0
<1>1. IsFiniteSet({})
  BY FS_EmptySet
<1>2. PICK g : IsSum(g, w, {}) /\ SumOver(w, {}) = g[{}]
  BY <1>1, SumIsSum
<1> QED BY <1>2 DEF IsSum, SumStep

\* A sum of integers is an integer.
LEMMA SumInt ==
    ASSUME NEW S, IsFiniteSet(S), NEW w, \A x \in S : w[x] \in Int
    PROVE  SumOver(w, S) \in Int
<1>1. PICK g : IsSum(g, w, S) /\ SumOver(w, S) = g[S]
  BY SumIsSum
<1>2. 0 \in Int /\ \A i, j \in Int : i + j \in Int
  OBVIOUS
<1> QED BY <1>1, <1>2, SumsTyped

\* A sum of natural numbers is a natural number.
LEMMA SumNat ==
    ASSUME NEW S, IsFiniteSet(S), NEW w, \A x \in S : w[x] \in Nat
    PROVE  SumOver(w, S) \in Nat
<1>1. PICK g : IsSum(g, w, S) /\ SumOver(w, S) = g[S]
  BY SumIsSum
<1>2. 0 \in Nat /\ \A i, j \in Nat : i + j \in Nat
  OBVIOUS
<1>3. \A T \in SUBSET S : g[T] \in Nat
  BY <1>1, <1>2, SumsTyped
<1> QED BY <1>1, <1>3

\* Only the elements that are summed matter.
LEMMA SumSame ==
    ASSUME NEW S, IsFiniteSet(S), NEW w, NEW v, \A x \in S : w[x] = v[x]
    PROVE  SumOver(w, S) = SumOver(v, S)
<1>1. PICK g : IsSum(g, w, S) /\ SumOver(w, S) = g[S]
  BY SumIsSum
<1>2. PICK f : IsSum(f, v, S) /\ SumOver(v, S) = f[S]
  BY SumIsSum
<1> QED BY SMTT(30), <1>1, <1>2, SumsAgree

\* An element more, or one taken out.
LEMMA SumWithout ==
    ASSUME NEW S, IsFiniteSet(S), NEW w, \A x \in S : w[x] \in Int,
           NEW y \in S
    PROVE  SumOver(w, S) = w[y] + SumOver(w, S \ {y})
<1>1. PICK g : IsSum(g, w, S) /\ SumOver(w, S) = g[S]
  BY SumIsSum
<1>2. IsFiniteSet(S \ {y})
  BY FS_RemoveElement
<1>3. PICK f : IsSum(f, w, S \ {y}) /\ SumOver(w, S \ {y}) = f[S \ {y}]
  BY <1>2, SumIsSum
<1>4. g[S \ {y}] = f[S \ {y}]
  <2>1. S \ {y} \in SUBSET S
    OBVIOUS
  <2>2. \A U \in SUBSET (S \ {y}) : g[U] = f[U]
    BY <1>1, <1>3, <2>1, SumsAgree
  <2> QED BY <2>2
<1>5. g[S] = w[y] + g[S \ {y}]
  <2>1. \A T \in SUBSET S : Splits(w, g, T)
    BY <1>1, SumsSplit
  <2> QED BY <2>1 DEF Splits
<1> QED BY <1>1, <1>3, <1>4, <1>5

LEMMA SumWith ==
    ASSUME NEW S, IsFiniteSet(S), NEW w, NEW y, y \notin S,
           \A x \in S \cup {y} : w[x] \in Int
    PROVE  SumOver(w, S \cup {y}) = w[y] + SumOver(w, S)
<1>1. IsFiniteSet(S \cup {y}) /\ (S \cup {y}) \ {y} = S
  BY FS_AddElement
<1> QED BY <1>1, SumWithout

\* One element counts for something else.
LEMMA SumChanged ==
    ASSUME NEW S, IsFiniteSet(S), NEW w, NEW v, NEW y \in S,
           \A x \in S : w[x] \in Int /\ v[x] \in Int,
           \A x \in S \ {y} : v[x] = w[x]
    PROVE  SumOver(v, S) = SumOver(w, S) - w[y] + v[y]
<1>1. IsFiniteSet(S \ {y})
  BY FS_RemoveElement
<1>2. SumOver(v, S \ {y}) = SumOver(w, S \ {y})
  BY <1>1, SumSame
<1>3. SumOver(w, S \ {y}) \in Int
  BY <1>1, SumInt
<1>4. SumOver(w, S) = w[y] + SumOver(w, S \ {y})
  BY SumWithout
<1>5. SumOver(v, S) = v[y] + SumOver(v, S \ {y})
  BY SumWithout
<1> QED BY <1>2, <1>3, <1>4, <1>5

\* Elements that count for nothing may be left out.
LEMMA SumZeros ==
    ASSUME NEW S, IsFiniteSet(S), NEW T \in SUBSET S, NEW w,
           \A x \in S : w[x] \in Int, \A x \in S \ T : w[x] = 0
    PROVE  SumOver(w, S) = SumOver(w, T)
<1> DEFINE P == {n \in Nat : \A D \in SUBSET (S \ T) :
                   Cardinality(D) = n => SumOver(w, T \cup D) = SumOver(w, T)}
<1>1. \A D \in SUBSET S :
         IsFiniteSet(D) /\ Cardinality(D) \in Nat /\ SumOver(w, D) \in Int
  BY FS_Subset, FS_CardinalityType, SumInt
<1>2. 0 \in P
  <2>1. \A D \in SUBSET (S \ T) : Cardinality(D) = 0 => D = {}
    BY <1>1, FS_EmptySet
  <2>2. T \cup {} = T
    OBVIOUS
  <2> QED BY <2>1, <2>2
<1>3. ASSUME NEW n \in Nat, n \in P PROVE n + 1 \in P
  <2> SUFFICES ASSUME NEW D \in SUBSET (S \ T), Cardinality(D) = n + 1
               PROVE  SumOver(w, T \cup D) = SumOver(w, T)
    OBVIOUS
  <2>1. PICK x : x \in D
    BY FS_EmptySet
  <2> DEFINE C == T \cup (D \ {x})
  <2>2. D \ {x} \in SUBSET (S \ T) /\ Cardinality(D \ {x}) = n
    BY <1>1, <2>1, OneLess
  <2>3. SumOver(w, C) = SumOver(w, T)
    BY <1>3, <2>2
  <2>4. /\ IsFiniteSet(C) /\ x \notin C /\ T \cup D = C \cup {x}
        /\ \A y \in C \cup {x} : w[y] \in Int
    BY <1>1, <2>1
  <2>5. w[x] = 0 /\ SumOver(w, C) \in Int
    BY <1>1, <2>1
  <2> HIDE DEF C
  <2>6. SumOver(w, C \cup {x}) = w[x] + SumOver(w, C)
    BY <2>4, SumWith
  <2>7. SumOver(w, C \cup {x}) = SumOver(w, C)
    BY <2>5, <2>6
  <2> QED BY <2>3, <2>4, <2>7
<1>4. \A n \in Nat : n \in P
  <2> HIDE DEF P
  <2> QED BY <1>2, <1>3, Induction
<1>5. S \ T \in SUBSET (S \ T) /\ T \cup (S \ T) = S
  OBVIOUS
<1>6. Cardinality(S \ T) \in P
  BY <1>1, <1>4
<1>7. SumOver(w, T \cup (S \ T)) = SumOver(w, T)
  BY <1>5, <1>6
<1> QED BY <1>5, <1>7

\* f gives every element of S a name of its own, and T is the set of them.
Names(f, S, T) ==
    /\ \A x, y \in S : f[x] = f[y] => x = y
    /\ \A x \in S : f[x] \in T
    /\ \A y \in T : \E x \in S : y = f[x]

\* The elements may be named otherwise.
LEMMA SumImage ==
    ASSUME NEW S, IsFiniteSet(S), NEW w, NEW v, NEW f,
           \A x \in S : w[x] \in Int /\ v[f[x]] = w[x],
           NEW T, Names(f, S, T)
    PROVE  IsFiniteSet(T) /\ SumOver(v, T) = SumOver(w, S)
<1> DEFINE Im(D) == {f[x] : x \in D}
           P == {n \in Nat : \A D \in SUBSET S :
                   Cardinality(D) = n =>
                     IsFiniteSet(Im(D)) /\ SumOver(v, Im(D)) = SumOver(w, D)}
<1>1. \A D \in SUBSET S : IsFiniteSet(D) /\ Cardinality(D) \in Nat
  BY FS_Subset, FS_CardinalityType
<1>2. 0 \in P
  <2>1. \A D \in SUBSET S : Cardinality(D) = 0 => D = {}
    BY <1>1, FS_EmptySet
  <2>2. Im({}) = {}
    OBVIOUS
  <2> HIDE DEF Im
  <2> QED BY <2>1, <2>2, FS_EmptySet, SumEmpty
<1>3. ASSUME NEW n \in Nat, n \in P PROVE n + 1 \in P
  <2> SUFFICES ASSUME NEW D \in SUBSET S, Cardinality(D) = n + 1
               PROVE  IsFiniteSet(Im(D)) /\ SumOver(v, Im(D)) = SumOver(w, D)
    OBVIOUS
  <2>1. PICK x : x \in D
    <3>1. D # {}
      BY n + 1 # 0, FS_EmptySet
    <3> QED BY <3>1
  <2> DEFINE C == D \ {x}
  <2>2. C \in SUBSET S /\ Cardinality(C) = n /\ IsFiniteSet(C)
    <3>1. IsFiniteSet(D) /\ Cardinality(D) \in Nat
      BY <1>1
    <3>2. IsFiniteSet(C) /\ Cardinality(D) = Cardinality(C) + 1
          /\ Cardinality(C) \in Nat
      BY <2>1, <3>1, OneLess
    <3> QED BY <3>1, <3>2
  <2>3. IsFiniteSet(Im(C)) /\ SumOver(v, Im(C)) = SumOver(w, C)
    BY <1>3, <2>2
  <2>4. Im(D) = Im(C) \cup {f[x]} /\ f[x] \notin Im(C)
    BY <2>1 DEF Names
  <2>5. \A y \in Im(D) : v[y] \in Int
    OBVIOUS
  <2>6. D = C \cup {x} /\ x \notin C /\ \A y \in D : w[y] \in Int
    BY <2>1
  <2>7. v[f[x]] = w[x]
    BY <2>1
  <2> HIDE DEF Im, C
  <2>8. IsFiniteSet(Im(D))
    BY <2>3, <2>4, FS_AddElement
  <2>9. SumOver(v, Im(D)) = v[f[x]] + SumOver(v, Im(C))
    BY <2>3, <2>4, <2>5, SumWith
  <2>10. SumOver(w, D) = w[x] + SumOver(w, C)
    BY <2>2, <2>6, SumWith
  <2> QED BY <2>3, <2>7, <2>8, <2>9, <2>10
<1>4. \A n \in Nat : n \in P
  <2> HIDE DEF P
  <2> QED BY <1>2, <1>3, Induction
<1>5. T = Im(S)
  BY DEF Names
<1> QED BY <1>1, <1>4, <1>5

-----------------------------------------------------------------------------
\* A set that R orders has a last element.
LEMMA LastExists ==
    ASSUME NEW S, IsFiniteSet(S), S # {}, NEW R,
           \A x, y \in S : x # y => <<x, y>> \in R \/ <<y, x>> \in R,
           \A x, y, z \in S :
             <<x, y>> \in R /\ <<y, z>> \in R => <<x, z>> \in R
    PROVE  \E m \in S : \A x \in S \ {m} : <<x, m>> \in R
<1> DEFINE Last(D) == \E m \in D : \A x \in D \ {m} : <<x, m>> \in R
           P == {n \in Nat : \A D \in SUBSET S :
                               Cardinality(D) = n + 1 => Last(D)}
<1>1. \A D \in SUBSET S : IsFiniteSet(D) /\ Cardinality(D) \in Nat
  BY FS_Subset, FS_CardinalityType
<1>2. 0 \in P
  <2> SUFFICES ASSUME NEW D \in SUBSET S, Cardinality(D) = 1 PROVE Last(D)
    OBVIOUS
  <2> QED BY <1>1, FS_Singleton
<1>3. ASSUME NEW n \in Nat, n \in P PROVE n + 1 \in P
  <2> SUFFICES ASSUME NEW D \in SUBSET S, Cardinality(D) = n + 2 PROVE Last(D)
    OBVIOUS
  <2>1. PICK y : y \in D
    BY FS_EmptySet
  <2>2. D \ {y} \in SUBSET S /\ Cardinality(D \ {y}) = n + 1
    BY <1>1, <2>1, OneLess
  <2>3. PICK m \in D \ {y} : \A x \in (D \ {y}) \ {m} : <<x, m>> \in R
    BY <1>3, <2>2
  <2>4. CASE <<y, m>> \in R
    BY <2>3, <2>4
  <2>5. CASE <<m, y>> \in R
    BY <2>1, <2>3, <2>5
  <2> QED BY <2>1, <2>3, <2>4, <2>5
<1>4. \A n \in Nat : n \in P
  <2> HIDE DEF P
  <2> QED BY <1>2, <1>3, Induction
<1>5. Cardinality(S) # 0 /\ Cardinality(S) \in Nat
  BY <1>1, FS_EmptySet
<1>6. Cardinality(S) - 1 \in Nat /\ (Cardinality(S) - 1) + 1 = Cardinality(S)
  BY <1>5
<1>7. Cardinality(S) - 1 \in P
  BY <1>4, <1>6
<1> QED BY <1>6, <1>7
================================================================================
