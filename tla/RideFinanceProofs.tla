--------------------------- MODULE RideFinanceProofs ---------------------------
(***************************************************************************)
(* What TLAPS proves of the money of finished rides, for any number of     *)
(* rides, refunds, adjustments, payments and handlers and any amounts:     *)
(* what settlements say agrees with the remittances and refunds they come  *)
(* from, a payment reaches the settlements in full and once, nobody pays   *)
(* more than is owed, and a settlement is held back while a refund of it   *)
(* is due or has no bearer.                                                *)
(***************************************************************************)
EXTENDS RideFinance, SumTheorems

-----------------------------------------------------------------------------
(***************************************************************************)
(* An amount spread over debts, oldest first.                              *)
(***************************************************************************)

LeastOf(i, j) == IF i < j THEN i ELSE j

\* R puts C in order.
Orders(R, C) ==
    /\ \A x, y \in C : x # y => <<x, y>> \in R \/ <<y, x>> \in R
    /\ \A x, y, z \in C : <<x, y>> \in R /\ <<y, z>> \in R => <<x, z>> \in R
    /\ \A x \in C : <<x, x>> \notin R

\* Each debt of C gets what the older ones leave, and no more than it is.
Spread(amount, share, debt, R, C) ==
    \A x \in C :
       share[x] = LeastOf(
         AtLeastZero(amount - SumOver(debt, {y \in C : <<y, x>> \in R})),
         debt[x])

\* The shares add up to the amount, or to all the debts if they are less.
LEMMA SharesAddUp ==
    ASSUME NEW C, IsFiniteSet(C), NEW amount \in Nat, NEW R, Orders(R, C),
           NEW debt, \A x \in C : debt[x] \in Nat,
           NEW share, Spread(amount, share, debt, R, C)
    PROVE  SumOver(share, C) = LeastOf(amount, SumOver(debt, C))
<1> DEFINE Down(D) == \A x \in D : \A y \in C : <<y, x>> \in R => y \in D
           Adds(D) == SumOver(share, D) = LeastOf(amount, SumOver(debt, D))
           P == {n \in Nat : \A D \in SUBSET C :
                               Cardinality(D) = n /\ Down(D) => Adds(D)}
<1>1. \A D \in SUBSET C : IsFiniteSet(D) /\ Cardinality(D) \in Nat
  BY FS_Subset, FS_CardinalityType
<1>2. \A D \in SUBSET C : SumOver(debt, D) \in Nat
  BY <1>1, SumNat
<1>3. \A x \in C : share[x] \in Nat
  <2> SUFFICES ASSUME NEW x \in C PROVE share[x] \in Nat
    OBVIOUS
  <2>1. SumOver(debt, {y \in C : <<y, x>> \in R}) \in Nat
    BY <1>2
  <2> QED BY <2>1 DEF Spread, LeastOf, AtLeastZero
<1>4. 0 \in P
  <2>1. \A D \in SUBSET C : Cardinality(D) = 0 => D = {}
    BY <1>1, FS_EmptySet
  <2>2. SumOver(share, {}) = 0 /\ SumOver(debt, {}) = 0
    BY SumEmpty
  <2>3. Adds({})
    BY <2>2 DEF LeastOf
  <2> QED BY <2>1, <2>3
<1>5. ASSUME NEW n \in Nat, n \in P PROVE n + 1 \in P
  <2> SUFFICES ASSUME NEW D \in SUBSET C, Cardinality(D) = n + 1, Down(D)
               PROVE  Adds(D)
    OBVIOUS
  <2>1. IsFiniteSet(D) /\ D # {}
    BY <1>1, FS_EmptySet
  <2>2. PICK m \in D : \A x \in D \ {m} : <<x, m>> \in R
    BY SMTT(30), <2>1, LastExists DEF Orders
  <2> DEFINE B == D \ {m}
  <2>3. B = {y \in C : <<y, m>> \in R}
    BY <2>2 DEF Orders
  <2>4. Down(B)
    <3> SUFFICES ASSUME NEW x \in B, NEW y \in C, <<y, x>> \in R PROVE y \in B
      OBVIOUS
    <3>1. y \in D
      OBVIOUS
    <3>2. y # m
      BY <2>2 DEF Orders
    <3> QED BY <3>1, <3>2
  <2>5. B \in SUBSET C /\ Cardinality(B) = n
    <3>1. Cardinality(B) \in Nat /\ Cardinality(D) = Cardinality(B) + 1
      BY <2>1, <2>2, OneLess
    <3> QED BY <3>1
  <2>6. Adds(B)
    BY <1>5, <2>4, <2>5
  <2>7. \A x \in D : share[x] \in Int /\ debt[x] \in Int
    BY <1>3
  <2>8. SumOver(share, D) = share[m] + SumOver(share, B)
    BY <2>1, <2>7, SumWithout
  <2>9. SumOver(debt, D) = debt[m] + SumOver(debt, B)
    BY <2>1, <2>7, SumWithout
  <2>10. share[m] = LeastOf(AtLeastZero(amount - SumOver(debt, B)), debt[m])
    BY <2>3 DEF Spread
  <2>11. debt[m] \in Nat /\ SumOver(debt, B) \in Nat
    BY <1>2, <2>5
  <2> HIDE DEF B
  <2> QED BY <2>6, <2>8, <2>9, <2>10, <2>11 DEF LeastOf, AtLeastZero
<1>6. \A n \in Nat : n \in P
  <2> HIDE DEF P
  <2> QED BY <1>4, <1>5, Induction
<1>7. C \in SUBSET C /\ Down(C) /\ Cardinality(C) \in Nat
  BY <1>1
<1>8. Adds(C)
  BY <1>6, <1>7
<1> QED BY <1>8

-----------------------------------------------------------------------------
(***************************************************************************)
(* The sums of the model, as sums of functions.                            *)
(***************************************************************************)

\* What the allocations of A say was allocated.
AmountIs == [a \in References \X Trips \X Nat |-> a[3]]

LEMMA AllocationSum ==
    ASSUME NEW A \in SUBSET (References \X Trips \X Nat), IsFiniteSet(A)
    PROVE  MapThenSumSet(AmountIn, A) = SumOver(AmountIs, A)
<1> DEFINE iter == CHOOSE g : g = [T \in SUBSET A |->
                     IF T = {} THEN 0
                     ELSE LET x == CHOOSE x \in T : TRUE IN x[3] + g[T \ {x}]]
<1>1. MapThenSumSet(AmountIn, A) = iter[A]
  BY DEF AmountIn, MapThenSumSet, MapThenFoldSet
<1>2. \A g : IsSum(g, AmountIs, A) <=>
             g = [T \in SUBSET A |->
                     IF T = {} THEN 0
                     ELSE LET x == CHOOSE x \in T : TRUE IN x[3] + g[T \ {x}]]
  <2>1. \A T \in SUBSET A : T # {} => AmountIs[First(T)] = First(T)[3]
    BY FirstIn DEF AmountIs
  <2> QED BY <2>1 DEF IsSum, SumStep, First
<1>3. IsSum(iter, AmountIs, A)
  <2>1. PICK g : IsSum(g, AmountIs, A)
    BY SumExists
  <2> QED BY ZenonT(60), <1>2, <2>1
<1>4. PICK f : IsSum(f, AmountIs, A) /\ SumOver(AmountIs, A) = f[A]
  BY SumIsSum
<1> HIDE DEF iter
<1>5. iter[A] = f[A]
  BY <1>3, <1>4, SumsAgree
<1> QED BY <1>1, <1>4, <1>5

\* The refunds of ride t in the rows f, and what they add up to.
RefundsFor(f, t) == {r \in Refunds : f[r].trip = t}
PlatformOf(f, t) == MapThenSumSet(LAMBDA r : f[r].platform, RefundsFor(f, t))
AmountOf(f, t) == MapThenSumSet(LAMBDA r : f[r].amount, RefundsFor(f, t))
PlatformIn(f) == [r \in Refunds |-> f[r].platform]
AmountFrom(f) == [r \in Refunds |-> f[r].amount]

LEMMA PlatformIs ==
    ASSUME NEW t
    PROVE  /\ PlatformRefunds(t) = PlatformOf(refund, t)
           /\ PlatformRefunds(t)' = PlatformOf(refund', t)
BY DEF PlatformRefunds, PlatformPart, PlatformOf, RefundsFor, RefundsOf,
       MapThenSumSet, MapThenFoldSet

LEMMA AmountsAre ==
    ASSUME NEW t
    PROVE  /\ MapThenSumSet(AmountOfRefund, RefundsOf(t)) = AmountOf(refund, t)
           /\ MapThenSumSet(AmountOfRefund, RefundsOf(t))'
                = AmountOf(refund', t)
BY DEF AmountOfRefund, AmountOf, RefundsFor, RefundsOf, MapThenSumSet,
       MapThenFoldSet

LEMMA PlatformSum ==
    ASSUME NEW f, NEW t, IsFiniteSet(RefundsFor(f, t))
    PROVE  PlatformOf(f, t) = SumOver(PlatformIn(f), RefundsFor(f, t))
<1> DEFINE S == RefundsFor(f, t)
           iter == CHOOSE g : g = [T \in SUBSET S |->
                     IF T = {} THEN 0
                     ELSE LET x == CHOOSE x \in T : TRUE
                          IN f[x].platform + g[T \ {x}]]
<1>1. PlatformOf(f, t) = iter[S]
  BY DEF PlatformOf, MapThenSumSet, MapThenFoldSet
<1>2. \A g : IsSum(g, PlatformIn(f), S) <=>
             g = [T \in SUBSET S |->
                     IF T = {} THEN 0
                     ELSE LET x == CHOOSE x \in T : TRUE
                          IN f[x].platform + g[T \ {x}]]
  <2>1. \A T \in SUBSET S : T # {} =>
            PlatformIn(f)[First(T)] = f[First(T)].platform
    BY FirstIn DEF PlatformIn, RefundsFor
  <2> HIDE DEF S
  <2> QED BY <2>1 DEF IsSum, SumStep, First
<1>3. IsSum(iter, PlatformIn(f), S)
  <2>1. PICK g : IsSum(g, PlatformIn(f), S)
    BY SumExists
  <2> HIDE DEF S
  <2> QED BY ZenonT(60), <1>2, <2>1
<1>4. PICK h : /\ IsSum(h, PlatformIn(f), S)
               /\ SumOver(PlatformIn(f), S) = h[S]
  BY SumIsSum
<1> HIDE DEF iter
<1>5. iter[S] = h[S]
  BY <1>3, <1>4, SumsAgree
<1> QED BY <1>1, <1>4, <1>5

LEMMA AmountSum ==
    ASSUME NEW f, NEW t, IsFiniteSet(RefundsFor(f, t))
    PROVE  AmountOf(f, t) = SumOver(AmountFrom(f), RefundsFor(f, t))
<1> DEFINE S == RefundsFor(f, t)
           iter == CHOOSE g : g = [T \in SUBSET S |->
                     IF T = {} THEN 0
                     ELSE LET x == CHOOSE x \in T : TRUE
                          IN f[x].amount + g[T \ {x}]]
<1>1. AmountOf(f, t) = iter[S]
  BY DEF AmountOf, MapThenSumSet, MapThenFoldSet
<1>2. \A g : IsSum(g, AmountFrom(f), S) <=>
             g = [T \in SUBSET S |->
                     IF T = {} THEN 0
                     ELSE LET x == CHOOSE x \in T : TRUE
                          IN f[x].amount + g[T \ {x}]]
  <2>1. \A T \in SUBSET S : T # {} =>
            AmountFrom(f)[First(T)] = f[First(T)].amount
    BY FirstIn DEF AmountFrom, RefundsFor
  <2> HIDE DEF S
  <2> QED BY <2>1 DEF IsSum, SumStep, First
<1>3. IsSum(iter, AmountFrom(f), S)
  <2>1. PICK g : IsSum(g, AmountFrom(f), S)
    BY SumExists
  <2> HIDE DEF S
  <2> QED BY ZenonT(60), <1>2, <2>1
<1>4. PICK h : /\ IsSum(h, AmountFrom(f), S)
               /\ SumOver(AmountFrom(f), S) = h[S]
  BY SumIsSum
<1> HIDE DEF iter
<1>5. iter[S] = h[S]
  BY <1>3, <1>4, SumsAgree
<1> QED BY <1>1, <1>4, <1>5

\* What the rides of S owe.
Owed == [t \in Trips |-> Outstanding(t)]

LEMMA OutstandingSum ==
    ASSUME NEW S \in SUBSET Trips, IsFiniteSet(S)
    PROVE  MapThenSumSet(Outstanding, S) = SumOver(Owed, S)
<1> DEFINE iter == CHOOSE g : g = [T \in SUBSET S |->
                     IF T = {} THEN 0
                     ELSE LET x == CHOOSE x \in T : TRUE
                          IN Outstanding(x) + g[T \ {x}]]
<1>1. MapThenSumSet(Outstanding, S) = iter[S]
  BY DEF MapThenSumSet, MapThenFoldSet
<1>2. \A g : IsSum(g, Owed, S) <=>
             g = [T \in SUBSET S |->
                     IF T = {} THEN 0
                     ELSE LET x == CHOOSE x \in T : TRUE
                          IN Outstanding(x) + g[T \ {x}]]
  <2>1. \A T \in SUBSET S : T # {} => Owed[First(T)] = Outstanding(First(T))
    BY FirstIn DEF Owed
  <2> QED BY <2>1 DEF IsSum, SumStep, First
<1>3. IsSum(iter, Owed, S)
  <2>1. PICK g : IsSum(g, Owed, S)
    BY SumExists
  <2> QED BY ZenonT(60), <1>2, <2>1
<1>4. PICK h : IsSum(h, Owed, S) /\ SumOver(Owed, S) = h[S]
  BY SumIsSum
<1> HIDE DEF iter
<1>5. iter[S] = h[S]
  BY <1>3, <1>4, SumsAgree
<1> QED BY <1>1, <1>4, <1>5

-----------------------------------------------------------------------------
(***************************************************************************)
(* Rows that change, and the sums that follow.                             *)
(***************************************************************************)

\* g is the rows f, of which every ride has finitely many, with row for r.
RowSet(f, r, row, g) ==
    /\ f \in [Refunds -> Refund] /\ r \in Refunds /\ row \in Refund
    /\ g = [f EXCEPT ![r] = row]
    /\ \A t \in Trips : IsFiniteSet(RefundsFor(f, t))

\* The sums of ride t grow by what row says, the others' do not.
GrowsBy(f, row, g, t) ==
    /\ IsFiniteSet(RefundsFor(g, t))
    /\ PlatformOf(g, t) =
         PlatformOf(f, t) + (IF t = row.trip THEN row.platform ELSE 0)
    /\ AmountOf(g, t) =
         AmountOf(f, t) + (IF t = row.trip THEN row.amount ELSE 0)

\* An approved refund counts for its own ride only.
LEMMA RefundAdded ==
    ASSUME FinanceAssumption, NEW f, NEW r, NEW row, NEW g,
           RowSet(f, r, row, g), f[r] = NoRefund, row.trip \in Trips
    PROVE  \A t \in Trips : GrowsBy(f, row, g, t)
<1> USE DEF RowSet
<1> SUFFICES ASSUME NEW t \in Trips
    PROVE  /\ IsFiniteSet(RefundsFor(g, t))
           /\ PlatformOf(g, t) = PlatformOf(f, t)
                + (IF t = row.trip THEN row.platform ELSE 0)
           /\ AmountOf(g, t) = AmountOf(f, t)
                + (IF t = row.trip THEN row.amount ELSE 0)
  BY DEF GrowsBy
<1> DEFINE S == RefundsFor(f, t)
<1>1. IsFiniteSet(S) /\ r \notin S
  BY DEF RefundsFor, NoRefund, FinanceAssumption
<1>2. RefundsFor(g, t) = IF t = row.trip THEN S \cup {r} ELSE S
  BY DEF RefundsFor, NoRefund, FinanceAssumption
<1>3. IsFiniteSet(RefundsFor(g, t))
  BY <1>1, <1>2, FS_AddElement
<1>4. /\ g[r] = row
      /\ \A q \in S : g[q] = f[q] /\ f[q] \in Refund
  BY <1>1 DEF RefundsFor
<1>5. /\ \A q \in S : PlatformIn(g)[q] = PlatformIn(f)[q]
      /\ \A q \in S : AmountFrom(g)[q] = AmountFrom(f)[q]
  BY <1>4 DEF PlatformIn, AmountFrom, RefundsFor
<1>6. /\ \A q \in S \cup {r} : PlatformIn(g)[q] \in Int
      /\ \A q \in S \cup {r} : AmountFrom(g)[q] \in Int
  BY <1>4 DEF PlatformIn, AmountFrom, RefundsFor, Refund
<1>7. PlatformIn(g)[r] = row.platform /\ AmountFrom(g)[r] = row.amount
  BY <1>4 DEF PlatformIn, AmountFrom
<1>8. /\ SumOver(PlatformIn(g), S) = PlatformOf(f, t)
      /\ SumOver(AmountFrom(g), S) = AmountOf(f, t)
  <2>1. SumOver(PlatformIn(g), S) = SumOver(PlatformIn(f), S)
    <3> HIDE DEF S
    <3> QED BY <1>1, <1>5, SumSame
  <2>2. SumOver(AmountFrom(g), S) = SumOver(AmountFrom(f), S)
    <3> HIDE DEF S
    <3> QED BY <1>1, <1>5, SumSame
  <2>3. /\ PlatformOf(f, t) = SumOver(PlatformIn(f), S)
        /\ AmountOf(f, t) = SumOver(AmountFrom(f), S)
    BY <1>1, PlatformSum, AmountSum
  <2> QED BY <2>1, <2>2, <2>3
<1>9. PlatformOf(f, t) \in Int /\ AmountOf(f, t) \in Int
  <2> HIDE DEF S
  <2>1. SumOver(PlatformIn(g), S) \in Int
    BY <1>1, <1>6, SumInt
  <2>2. SumOver(AmountFrom(g), S) \in Int
    BY <1>1, <1>6, SumInt
  <2> QED BY <1>8, <2>1, <2>2
<1>10. /\ PlatformOf(g, t) = SumOver(PlatformIn(g), RefundsFor(g, t))
       /\ AmountOf(g, t) = SumOver(AmountFrom(g), RefundsFor(g, t))
  BY <1>3, PlatformSum, AmountSum
<1>11. /\ SumOver(PlatformIn(g), S \cup {r})
            = PlatformIn(g)[r] + SumOver(PlatformIn(g), S)
       /\ SumOver(AmountFrom(g), S \cup {r})
            = AmountFrom(g)[r] + SumOver(AmountFrom(g), S)
  <2> HIDE DEF S
  <2> QED BY <1>1, <1>6, SumWith
<1> HIDE DEF S
<1>12. CASE t = row.trip
  <2>1. row.platform \in Int /\ row.amount \in Int
    BY DEF Refund
  <2>2. RefundsFor(g, t) = S \cup {r}
    BY <1>2, <1>12
  <2>3. /\ PlatformOf(g, t) = row.platform + PlatformOf(f, t)
        /\ AmountOf(g, t) = row.amount + AmountOf(f, t)
    BY <1>7, <1>8, <1>10, <1>11, <2>2
  <2> QED BY <1>3, <1>9, <1>12, <2>1, <2>3
<1>13. CASE t # row.trip
  <2>1. RefundsFor(g, t) = S
    BY <1>2, <1>13
  <2>2. PlatformOf(g, t) = PlatformOf(f, t) /\ AmountOf(g, t) = AmountOf(f, t)
    BY <1>8, <1>10, <2>1
  <2> QED BY <1>3, <1>9, <1>13, <2>2
<1> QED BY <1>12, <1>13

\* Only what the platform bears of ride t changes, to what row says.
Shifted(f, r, row, g, t) ==
    /\ RefundsFor(g, t) = RefundsFor(f, t)
    /\ AmountOf(g, t) = AmountOf(f, t)
    /\ PlatformOf(f, t) \in Int
    /\ PlatformOf(g, t) = PlatformOf(f, t)
         + (IF t = row.trip THEN row.platform - f[r].platform ELSE 0)

\* A refund whose parts are set changes what the platform bears of its ride.
LEMMA RefundChanged ==
    ASSUME NEW f, NEW r, NEW row, NEW g, RowSet(f, r, row, g),
           row.trip = f[r].trip, row.amount = f[r].amount
    PROVE  \A t \in Trips : Shifted(f, r, row, g, t)
<1> USE DEF RowSet
<1> SUFFICES ASSUME NEW t \in Trips
    PROVE  /\ RefundsFor(g, t) = RefundsFor(f, t)
           /\ AmountOf(g, t) = AmountOf(f, t)
           /\ PlatformOf(f, t) \in Int
           /\ PlatformOf(g, t) = PlatformOf(f, t)
                + (IF t = row.trip THEN row.platform - f[r].platform ELSE 0)
  BY DEF Shifted
<1> DEFINE S == RefundsFor(f, t)
<1>1. IsFiniteSet(S) /\ (r \in S <=> t = row.trip)
  BY DEF RefundsFor
<1>2. RefundsFor(g, t) = S
  BY DEF RefundsFor
<1>3. \A q \in S : /\ q # r => g[q] = f[q]
                   /\ g[q].amount = f[q].amount
                   /\ f[q] \in Refund /\ g[q] \in Refund
  BY DEF RefundsFor
<1>4. /\ \A q \in S : AmountFrom(g)[q] = AmountFrom(f)[q]
      /\ \A q \in S \ {r} : PlatformIn(g)[q] = PlatformIn(f)[q]
      /\ \A q \in S : PlatformIn(f)[q] \in Int /\ PlatformIn(g)[q] \in Int
  BY <1>3 DEF PlatformIn, AmountFrom, RefundsFor, Refund
<1>5. PlatformIn(f)[r] = f[r].platform /\ PlatformIn(g)[r] = row.platform
  BY DEF PlatformIn
<1>6. /\ PlatformOf(f, t) = SumOver(PlatformIn(f), S)
      /\ AmountOf(f, t) = SumOver(AmountFrom(f), S)
      /\ PlatformOf(g, t) = SumOver(PlatformIn(g), S)
      /\ AmountOf(g, t) = SumOver(AmountFrom(g), S)
  BY <1>1, <1>2, PlatformSum, AmountSum
<1> HIDE DEF S
<1>7. SumOver(AmountFrom(g), S) = SumOver(AmountFrom(f), S)
  BY <1>1, <1>4, SumSame
<1>8. SumOver(PlatformIn(f), S) \in Int
  BY <1>1, <1>4, SumInt
<1>9. CASE t = row.trip
  <2>1. SumOver(PlatformIn(g), S) = SumOver(PlatformIn(f), S)
          - PlatformIn(f)[r] + PlatformIn(g)[r]
    <3>1. r \in S
      BY <1>1, <1>9
    <3> DEFINE w == PlatformIn(f)
               v == PlatformIn(g)
    <3>2. /\ \A q \in S : w[q] \in Int /\ v[q] \in Int
          /\ \A q \in S \ {r} : v[q] = w[q]
      BY <1>4
    <3> HIDE DEF w, v
    <3>3. SumOver(v, S) = SumOver(w, S) - w[r] + v[r]
      BY <1>1, <3>1, <3>2, SumChanged
    <3> QED BY <3>3 DEF w, v
  <2>2. f[r].platform \in Int /\ row.platform \in Int
    BY DEF Refund
  <2> QED BY <1>2, <1>5, <1>6, <1>7, <1>8, <1>9, <2>1, <2>2 DEF S
<1>10. CASE t # row.trip
  <2>1. \A q \in S : PlatformIn(g)[q] = PlatformIn(f)[q]
    BY <1>1, <1>4, <1>10
  <2>2. SumOver(PlatformIn(g), S) = SumOver(PlatformIn(f), S)
    BY <1>1, <2>1, SumSame
  <2> QED BY <1>2, <1>6, <1>7, <1>8, <1>10, <2>2 DEF S
<1> QED BY <1>9, <1>10

\* What the allocations A say reached ride t, and what came from ref.
AllocTo(A, t) == MapThenSumSet(AmountIn, {a \in A : a[2] = t})
AllocFrom(A, ref) == MapThenSumSet(AmountIn, {a \in A : a[1] = ref})

\* What one reference allocates to the rides of K.
LEMMA NewAllocations ==
    ASSUME NEW ref \in References, NEW K \in SUBSET Trips, IsFiniteSet(K),
           NEW part, \A t \in K : part[t] \in Nat
    PROVE  /\ IsFiniteSet({<<ref, t, part[t]>> : t \in K})
           /\ SumOver(AmountIs, {<<ref, t, part[t]>> : t \in K})
                = SumOver(part, K)
<1> DEFINE row == [t \in K |-> <<ref, t, part[t]>>]
           New == {<<ref, t, part[t]>> : t \in K}
           v == AmountIs
<1>1. \A t \in K : /\ row[t] = <<ref, t, part[t]>>
                   /\ row[t] \in References \X Trips \X Nat
                   /\ v[row[t]] = part[t] /\ part[t] \in Int
  BY DEF AmountIs
<1>2. Names(row, K, New)
  BY <1>1 DEF Names
<1> HIDE DEF New, row, v
<1>3. IsFiniteSet(New) /\ SumOver(v, New) = SumOver(part, K)
  BY <1>1, <1>2, SumImage
<1> QED BY <1>3 DEF New, v

\* B is A with what ref allocates to the rides of C, to each its part.
Grown(A, ref, part, C, B) ==
    B = A \cup {<<ref, t, part[t]>> : t \in {t \in C : part[t] > 0}}

\* A new remittance allocates to each ride it reaches its part.
LEMMA Allocated ==
    ASSUME NEW A \in SUBSET (References \X Trips \X Nat), IsFiniteSet(A),
           NEW ref \in References, \A a \in A : a[1] # ref,
           NEW C \in SUBSET Trips, IsFiniteSet(C),
           NEW part, \A t \in C : part[t] \in Nat,
           NEW B, Grown(A, ref, part, C, B)
    PROVE  /\ B \in SUBSET (References \X Trips \X Nat) /\ IsFiniteSet(B)
           /\ \A t \in Trips : AllocTo(B, t) = AllocTo(A, t)
                + (IF t \in C /\ part[t] > 0 THEN part[t] ELSE 0)
           /\ AllocFrom(B, ref) = SumOver(part, C)
           /\ \A q : q # ref => AllocFrom(B, q) = AllocFrom(A, q)
<1> DEFINE K == {t \in C : part[t] > 0}
           row == [t \in K |-> <<ref, t, part[t]>>]
           New == {row[t] : t \in K}
<1>1. B = A \cup New
  BY DEF Grown
<1>2. IsFiniteSet(K)
  BY FS_Subset
<1>3. \A t \in K : /\ row[t] = <<ref, t, part[t]>>
                   /\ row[t] \in References \X Trips \X Nat
                   /\ AmountIs[row[t]] = part[t] /\ part[t] \in Int
  BY DEF AmountIs
<1>4. IsFiniteSet(New) /\ SumOver(AmountIs, New) = SumOver(part, K)
  <2>1. New = {<<ref, t, part[t]>> : t \in K}
    BY <1>3
  <2>2. K \in SUBSET Trips /\ \A t \in K : part[t] \in Nat
    OBVIOUS
  <2> HIDE DEF K, New
  <2> QED BY <1>2, <2>1, <2>2, NewAllocations
<1>5. New \in SUBSET (References \X Trips \X Nat)
  BY ZenonT(60), <1>3
<1>6. \A n \in New : n[1] = ref /\ n[2] \in K /\ n = row[n[2]]
  BY <1>3
<1>7. B \in SUBSET (References \X Trips \X Nat) /\ IsFiniteSet(B)
  <2> HIDE DEF New
  <2> QED BY <1>1, <1>4, <1>5, FS_Union
<1>8. \A a \in References \X Trips \X Nat : AmountIs[a] \in Int
  BY DEF AmountIs
<1>9. \A D \in SUBSET B : /\ IsFiniteSet(D)
                          /\ MapThenSumSet(AmountIn, D) = SumOver(AmountIs, D)
  BY <1>7, FS_Subset, AllocationSum
<1>10. ASSUME NEW t \in Trips
       PROVE  AllocTo(B, t) = AllocTo(A, t)
                + (IF t \in C /\ part[t] > 0 THEN part[t] ELSE 0)
  <2> DEFINE D == {a \in A : a[2] = t}
             E == {a \in B : a[2] = t}
  <2>1. /\ D \in SUBSET B /\ E \in SUBSET B
        /\ D \in SUBSET (References \X Trips \X Nat)
    BY <1>1
  <2>2. /\ AllocTo(A, t) = SumOver(AmountIs, D)
        /\ AllocTo(B, t) = SumOver(AmountIs, E)
    BY <1>9, <2>1 DEF AllocTo
  <2>3. CASE t \in K
    <3>1. E = D \cup {row[t]}
      <4>1. \A a \in E : a \in D \/ a = row[t]
        BY <1>1, <1>6
      <4>2. row[t] \in B /\ row[t][2] = t
        BY <1>1, <1>3, <2>3
      <4> QED BY <1>1, <4>1, <4>2
    <3>2. row[t] \notin D
      BY <1>3, <2>3
    <3>3. row[t] \in References \X Trips \X Nat /\ AmountIs[row[t]] = part[t]
      BY <1>3, <2>3
    <3>4. \A a \in D \cup {row[t]} : AmountIs[a] \in Int
      BY <1>8, <2>1, <3>3
    <3>5. IsFiniteSet(D) /\ SumOver(AmountIs, D) \in Int
      <4> HIDE DEF D
      <4> QED BY <1>8, <1>9, <2>1, SumInt
    <3>6. SumOver(AmountIs, D \cup {row[t]})
            = AmountIs[row[t]] + SumOver(AmountIs, D)
      <4> HIDE DEF D, row
      <4> QED BY <3>2, <3>4, <3>5, SumWith
    <3>7. AllocTo(B, t) = part[t] + AllocTo(A, t)
      BY <2>2, <3>1, <3>3, <3>6
    <3>8. AllocTo(A, t) \in Int /\ part[t] \in Int
      BY <1>3, <2>2, <2>3, <3>5
    <3> QED BY <2>3, <3>7, <3>8
  <2>4. CASE t \notin K
    <3>1. E = D
      <4>1. \A a \in B : a \in A \/ a[2] \in K
        BY <1>1, <1>6
      <4>2. A \in SUBSET B
        BY <1>1
      <4> HIDE DEF K
      <4> QED BY <2>4, <4>1, <4>2
    <3>2. SumOver(AmountIs, D) \in Int
      <4> HIDE DEF D
      <4> QED BY <1>8, <1>9, <2>1, SumInt
    <3>3. AllocTo(B, t) = AllocTo(A, t) /\ AllocTo(A, t) \in Int
      BY <2>2, <3>1, <3>2
    <3> QED BY <2>4, <3>3
  <2> QED BY <2>3, <2>4
<1>11. AllocFrom(B, ref) = SumOver(part, C)
  <2>1. {a \in B : a[1] = ref} = New
    BY <1>1, <1>6
  <2>2. AllocFrom(B, ref) = SumOver(AmountIs, New)
    BY <1>1, <1>9, <2>1 DEF AllocFrom
  <2>3. SumOver(part, C) = SumOver(part, K)
    <3>1. /\ K \in SUBSET C
          /\ \A t \in C : part[t] \in Int
          /\ \A t \in C \ K : part[t] = 0
      OBVIOUS
    <3> HIDE DEF K
    <3> QED BY <3>1, SumZeros
  <2> QED BY <1>4, <2>2, <2>3
<1>12. ASSUME NEW q, q # ref
       PROVE  AllocFrom(B, q) = AllocFrom(A, q)
  <2>1. {a \in B : a[1] = q} = {a \in A : a[1] = q}
    BY <1>1, <1>6, <1>12
  <2> QED BY <2>1 DEF AllocFrom
<1> QED BY <1>7, <1>10, <1>11, <1>12

-----------------------------------------------------------------------------
(***************************************************************************)
(* The invariant.                                                          *)
(***************************************************************************)

Settled == {t \in Trips : settlement[t].status # "NONE"}
Approved == {r \in Refunds : refund[r].status # "NONE"}

FiniteRows ==
    IsFiniteSet(Settled) /\ IsFiniteSet(Approved) /\ IsFiniteSet(allocated)

\* A refund is of a settled ride, and the platform bears nothing of it while
\* nobody has said who does.
RefundRow(f) ==
    IF f.status = "NONE" THEN f = NoRefund
    ELSE f.trip \in Settled /\ (f.review => f.platform = 0)

RefundRows == \A r \in Refunds : RefundRow(refund[r])

SettlementRows == \A t \in Trips \ Settled : settlement[t] = NoSettlement

\* finalized orders the settled rides.
Ordered ==
    /\ \A s, t \in Trips :
         <<s, t>> \in finalized => s \in Settled /\ t \in Settled
    /\ \A s, t \in Settled :
         s # t => <<s, t>> \in finalized \/ <<t, s>> \in finalized
    /\ \A s, t, u \in Settled :
         <<s, t>> \in finalized /\ <<t, u>> \in finalized =>
           <<s, u>> \in finalized
    /\ \A t \in Trips : <<t, t>> \notin finalized

\* A payment that was begun is of some money, and only such a one is posted.
IntentRows ==
    \A i \in Payments :
       /\ Recorded(i) => intent[i].status # "NONE"
       /\ intent[i].status # "NONE" => intent[i].amount > 0

Raised(t) == \E a \in adjusted : a[2] = t /\ a[3] > 0

\* What a request that resolves a dispute has read and will write: it read that
\* every refund has its bearer; a due one makes the status REFUND_PENDING; if it
\* is RECONCILED, nothing was owed, and nothing is owed still.
ResolveRow(v) ==
    /\ v.status # "NONE"
    /\ \A r \in DOMAIN v.read[2] :
         /\ ~v.read[2][r].review
         /\ v.read[2][r].status = "CASH_REFUND_DUE" =>
              v.status = "REFUND_PENDING"
    /\ \A t \in Trips : v.trip = t =>
         /\ t \in Settled
         /\ v.status = "RECONCILED" /\ ~Raised(t) => Outstanding(t) = 0

TaskRows ==
    /\ task = [h \in Handlers |-> task[h]]
    /\ \A h \in Handlers :
         /\ task[h].op = "RESOLVE" => ResolveRow(task[h])
         /\ task[h].op = "MARK_FAILED" =>
              intent[task[h].payment].status # "NONE"

Rows == FinanceTypeOK /\ FiniteRows /\ RefundRows /\ SettlementRows /\ Ordered

\* The three parts of AccountsBalance.
Agrees == \A t \in Trips : settlement[t].remitted = AllocTo(allocated, t)

Refunded ==
    \A t \in Trips : /\ settlement[t].refunded = AmountOf(refund, t)
                     /\ settlement[t].refunded <= Fare[t]

Posted ==
    \A i \in Payments :
       /\ Recorded(i) =>
            i \in paid /\ AllocFrom(allocated, i) = intent[i].amount
       /\ intent[i].status = "SUCCESSFUL" => Recorded(i)

FinanceInv ==
    /\ Rows /\ IntentRows /\ TaskRows
    /\ Agrees /\ Refunded /\ Posted
    /\ ReconciledMeansPaid /\ PendingRefundHeld

\* What ride t owes, from its row and what the platform bears of its refunds.
Owes(t, row, platform) ==
    AtLeastZero(
      AtLeastZero((IF t \in Cash /\ row.normal THEN Commission[t] ELSE 0)
                    + row.adjustment + platform)
        - row.remitted)

LEMMA OutstandingIs ==
    ASSUME NEW t
    PROVE  /\ Outstanding(t) = Owes(t, settlement[t], PlatformOf(refund, t))
           /\ Outstanding(t)' = Owes(t, settlement'[t], PlatformOf(refund', t))
BY PlatformIs DEF Outstanding, Obligation, Receivable, Owes

\* The sums are of finitely many rows, and what is owed is a number.
LEMMA Owing ==
    ASSUME FinanceAssumption, Rows
    PROVE  /\ \A t \in Trips : /\ IsFiniteSet(RefundsFor(refund, t))
                               /\ PlatformOf(refund, t) \in Int
                               /\ AmountOf(refund, t) \in Int
                               /\ Obligation(t) \in Nat
                               /\ Outstanding(t) \in Nat
           /\ Collectible \in SUBSET Settled /\ IsFiniteSet(Collectible)
           /\ Settled \in SUBSET Trips
           /\ TotalOutstanding = SumOver(Owed, Collectible)
           /\ TotalOutstanding \in Nat
<1> USE DEF Rows
<1>1. ASSUME NEW t \in Trips
      PROVE  /\ IsFiniteSet(RefundsFor(refund, t))
             /\ PlatformOf(refund, t) \in Int /\ AmountOf(refund, t) \in Int
             /\ Obligation(t) \in Nat /\ Outstanding(t) \in Nat
  <2>1. RefundsFor(refund, t) \in SUBSET Approved
    BY DEF RefundsFor, Approved, RefundRows, RefundRow, NoRefund,
           FinanceAssumption
  <2>2. IsFiniteSet(RefundsFor(refund, t))
    BY <2>1, FS_Subset DEF FiniteRows
  <2>3. \A r \in RefundsFor(refund, t) : /\ PlatformIn(refund)[r] \in Int
                                         /\ AmountFrom(refund)[r] \in Int
    BY DEF RefundsFor, PlatformIn, AmountFrom, FinanceTypeOK, Refund
  <2>4. PlatformOf(refund, t) \in Int /\ AmountOf(refund, t) \in Int
    BY <2>2, <2>3, PlatformSum, AmountSum, SumInt
  <2>5. settlement[t].adjustment \in Int /\ settlement[t].remitted \in Nat
    BY DEF FinanceTypeOK, Settlement
  <2>6. Receivable(t) \in Nat
    BY DEF Receivable, FinanceAssumption
  <2>7. Obligation(t) \in Nat
    BY <2>4, <2>5, <2>6, PlatformIs DEF Obligation, AtLeastZero
  <2>8. Outstanding(t) \in Nat
    BY <2>5, <2>7 DEF Outstanding, AtLeastZero
  <2> QED BY <2>2, <2>4, <2>7, <2>8
<1>2. Collectible \in SUBSET Settled /\ Settled \in SUBSET Trips
  BY DEF Collectible, Settled, FinanceAssumption
<1>3. IsFiniteSet(Collectible)
  BY <1>2, FS_Subset DEF FiniteRows
<1>4. TotalOutstanding = SumOver(Owed, Collectible)
  BY <1>2, <1>3, OutstandingSum DEF TotalOutstanding
<1>5. \A t \in Collectible : Owed[t] \in Nat
  BY <1>1, <1>2 DEF Owed
<1>6. SumOver(Owed, Collectible) \in Nat
  BY <1>3, <1>5, SumNat
<1> QED BY <1>1, <1>2, <1>3, <1>4, <1>6

\* A remittance gives each ride no more than it owes, and of an amount within
\* what is owed everything arrives.
LEMMA SharesOf ==
    ASSUME FinanceAssumption, Rows, NEW amount \in Nat
    PROVE  /\ \A t \in Collectible : /\ Share(amount, t) \in Nat
                                     /\ Share(amount, t) <= Outstanding(t)
           /\ amount <= TotalOutstanding =>
                SumOver([t \in Collectible |-> Share(amount, t)], Collectible)
                  = amount
<1> DEFINE share == [t \in Collectible |-> Share(amount, t)]
<1>1. /\ Collectible \in SUBSET Trips /\ IsFiniteSet(Collectible)
      /\ Collectible \in SUBSET Settled
      /\ \A t \in Trips : Outstanding(t) \in Nat
      /\ TotalOutstanding = SumOver(Owed, Collectible)
      /\ TotalOutstanding \in Nat
  BY Owing
<1>2. ASSUME NEW t \in Collectible
      PROVE  /\ Left(amount, t) \in Nat
             /\ Left(amount, t) = AtLeastZero(amount - SumOver(Owed,
                  {s \in Collectible : <<s, t>> \in finalized}))
  <2>1. /\ Older(t) = {s \in Collectible : <<s, t>> \in finalized}
        /\ Older(t) \in SUBSET Trips /\ Older(t) \in SUBSET Collectible
    BY <1>1 DEF Older
  <2>2. IsFiniteSet(Older(t))
    BY <1>1, <2>1, FS_Subset
  <2>3. MapThenSumSet(Outstanding, Older(t)) = SumOver(Owed, Older(t))
    BY <2>1, <2>2, OutstandingSum
  <2>4. \A s \in Older(t) : Owed[s] \in Int
    BY <1>1, <2>1 DEF Owed
  <2>5. SumOver(Owed, Older(t)) \in Int
    BY <2>2, <2>4, SumInt
  <2> QED BY <2>1, <2>3, <2>5 DEF Left, AtLeastZero
<1>3. ASSUME NEW t \in Collectible
      PROVE  /\ share[t] = Share(amount, t)
             /\ Share(amount, t) \in Nat
             /\ Share(amount, t) <= Outstanding(t)
             /\ Share(amount, t) = LeastOf(Left(amount, t), Outstanding(t))
  <2>1. Left(amount, t) \in Nat /\ Outstanding(t) \in Nat
    BY <1>1, <1>2
  <2> QED BY <2>1 DEF Share, LeastOf
<1>4. Spread(amount, share, Owed, finalized, Collectible)
  BY <1>1, <1>2, <1>3 DEF Spread, Owed
<1>5. \A t \in Collectible : Owed[t] \in Nat
  BY <1>1 DEF Owed
<1>6. Orders(finalized, Collectible)
  BY <1>1 DEF Rows, Ordered, Orders
<1> HIDE DEF share
<1>7. SumOver(share, Collectible)
        = LeastOf(amount, SumOver(Owed, Collectible))
  BY <1>1, <1>4, <1>5, <1>6, SharesAddUp
<1>8. amount <= TotalOutstanding => SumOver(share, Collectible) = amount
  BY <1>1, <1>7 DEF LeastOf
<1> QED BY <1>3, <1>8 DEF share

-----------------------------------------------------------------------------
(***************************************************************************)
(* What a remittance does.                                                 *)
(***************************************************************************)

\* Ride t gets nothing, or some of what it owes.
Paid(t) ==
    \/ settlement'[t] = settlement[t]
    \/ /\ t \in Collectible
       /\ \E p \in Nat :
            /\ p > 0 /\ p <= Outstanding(t)
            /\ settlement'[t] =
                 [settlement[t] EXCEPT
                    !.remitted = @ + p,
                    !.status = PaidStatus(Outstanding(t) - p)]

LEMMA ApplyStep ==
    ASSUME FinanceAssumption, Rows, NEW ref \in References, ~Recorded(ref),
           NEW amount \in Nat, amount > 0, WithinBalance(amount),
           Apply(ref, amount)
    PROVE  /\ settlement' \in [Trips -> Settlement]
           /\ \A t \in Trips : Paid(t)
           /\ allocated' \in SUBSET (References \X Trips \X Nat)
           /\ IsFiniteSet(allocated')
           /\ Agrees => Agrees'
           /\ AllocFrom(allocated', ref) = amount
           /\ \A q : q # ref =>
                AllocFrom(allocated', q) = AllocFrom(allocated, q)
           /\ Recorded(ref)'
           /\ \A q : q # ref => (Recorded(q)' <=> Recorded(q))
<1> DEFINE part == [t \in Collectible |-> Share(amount, t)]
           reached == {t \in Collectible : part[t] > 0}
           A == allocated
           B == allocated'
<1>1. /\ Collectible \in SUBSET Trips /\ IsFiniteSet(Collectible)
      /\ \A t \in Trips : Outstanding(t) \in Nat
  BY Owing
<1>2. /\ \A t \in Collectible : Share(amount, t) \in Nat
      /\ \A t \in Collectible : Share(amount, t) <= Outstanding(t)
      /\ amount <= TotalOutstanding => SumOver(part, Collectible) = amount
  BY SharesOf
<1>3. \A t \in Collectible : part[t] \in Nat /\ part[t] <= Outstanding(t)
  BY <1>2
<1>4. SumOver(part, Collectible) = amount
  BY <1>2 DEF WithinBalance
<1>5. /\ B = A \cup {<<ref, t, part[t]>> : t \in reached}
      /\ settlement' = [t \in Trips |->
           IF t \notin reached THEN settlement[t]
           ELSE [settlement[t] EXCEPT
                   !.remitted = @ + part[t],
                   !.status = PaidStatus(Outstanding(t) - part[t])]]
  BY DEF Apply
<1>6. /\ A \in SUBSET (References \X Trips \X Nat) /\ IsFiniteSet(A)
      /\ \A a \in A : a[1] # ref
  BY DEF Rows, FinanceTypeOK, FiniteRows, Recorded
<1>7. Grown(A, ref, part, Collectible, B)
  BY <1>5 DEF Grown
<1> HIDE DEF part, A, B
<1>8. /\ B \in SUBSET (References \X Trips \X Nat) /\ IsFiniteSet(B)
      /\ \A t \in Trips : AllocTo(B, t) = AllocTo(A, t)
           + (IF t \in Collectible /\ part[t] > 0 THEN part[t] ELSE 0)
      /\ AllocFrom(B, ref) = SumOver(part, Collectible)
      /\ \A q : q # ref => AllocFrom(B, q) = AllocFrom(A, q)
  BY <1>1, <1>3, <1>6, <1>7, Allocated
<1>9. \A t \in Trips : /\ settlement[t] \in Settlement
                       /\ settlement[t].remitted \in Nat
  BY DEF Rows, FinanceTypeOK, Settlement
<1>10. ASSUME NEW t \in Trips
       PROVE  settlement'[t] \in Settlement /\ Paid(t)
  <2>1. CASE t \notin reached
    BY <1>5, <1>9, <2>1 DEF Paid
  <2>2. CASE t \in reached
    <3>1. /\ t \in Collectible /\ part[t] \in Nat /\ part[t] > 0
          /\ part[t] <= Outstanding(t)
      BY <1>3, <2>2
    <3>2. settlement'[t] = [settlement[t] EXCEPT
                   !.remitted = @ + part[t],
                   !.status = PaidStatus(Outstanding(t) - part[t])]
      BY <1>5, <2>2
    <3>3. PaidStatus(Outstanding(t) - part[t]) \in Statuses
      BY DEF PaidStatus, Statuses
    <3>4. settlement'[t] \in Settlement
      <4>1. settlement[t].remitted + part[t] \in Nat
        BY <1>9, <3>1
      <4> DEFINE m == settlement[t].remitted + part[t]
                 status == PaidStatus(Outstanding(t) - part[t])
      <4>2. /\ settlement[t] \in Settlement /\ m \in Nat
            /\ settlement'[t] =
                 [settlement[t] EXCEPT !.remitted = m, !.status = status]
        BY <1>9, <3>2, <4>1
      <4> HIDE DEF m, status
      <4>3. status \in Statuses
        BY <3>3 DEF status
      <4> QED BY <4>2, <4>3 DEF Settlement
    <3> QED BY <3>1, <3>2, <3>4 DEF Paid
  <2> QED BY <2>1, <2>2
<1>11. settlement' \in [Trips -> Settlement]
  <2> HIDE DEF reached
  <2> QED BY <1>5, <1>10
<1>12. ASSUME Agrees PROVE Agrees'
  <2> SUFFICES ASSUME NEW t \in Trips
               PROVE  settlement'[t].remitted = AllocTo(B, t)
    BY DEF Agrees, B
  <2>1. settlement[t].remitted = AllocTo(A, t)
    BY <1>12 DEF Agrees, A
  <2>2. CASE t \in reached
    <3>1. settlement'[t].remitted = settlement[t].remitted + part[t]
      BY <1>5, <1>9, <2>2 DEF Settlement
    <3>2. AllocTo(B, t) = AllocTo(A, t) + part[t]
      BY <1>8, <2>2
    <3> QED BY <2>1, <3>1, <3>2
  <2>3. CASE t \notin reached
    <3>1. settlement'[t].remitted = settlement[t].remitted
      BY <1>5, <2>3
    <3>2. AllocTo(B, t) = AllocTo(A, t) + 0
      BY <1>8, <2>3
    <3> QED BY <1>9, <2>1, <3>1, <3>2
  <2> QED BY <2>2, <2>3
<1>13. Recorded(ref)'
  <2>1. \E t \in Collectible : part[t] # 0
    <3> SUFFICES ASSUME \A t \in Collectible : part[t] = 0 PROVE FALSE
      OBVIOUS
    <3>1. {} \in SUBSET Collectible /\ \A t \in Collectible : part[t] \in Int
      BY <1>3
    <3>2. SumOver(part, Collectible) = SumOver(part, {})
      BY <1>1, <3>1, SumZeros
    <3> QED BY <1>4, <3>2, SumEmpty
  <2>2. PICK t \in reached : TRUE
    BY <1>3, <2>1
  <2>3. <<ref, t, part[t]>> \in B
    BY <1>5
  <2> QED BY <2>3 DEF Recorded, B
<1>14. ASSUME NEW q, q # ref PROVE Recorded(q)' <=> Recorded(q)
  <2> DEFINE New == {<<ref, t, part[t]>> : t \in reached}
  <2>1. A \in SUBSET B /\ \A b \in B : b \in A \/ b[1] = ref
    <3>1. \A b \in New : b[1] = ref
      <4> HIDE DEF reached
      <4> QED OBVIOUS
    <3>2. B = A \cup New
      BY <1>5
    <3> HIDE DEF New
    <3> QED BY <3>1, <3>2
  <2> QED BY <1>14, <2>1 DEF Recorded, A, B
<1> QED BY <1>4, <1>8, <1>10, <1>11, <1>12, <1>13, <1>14 DEF A, B

-----------------------------------------------------------------------------
(***************************************************************************)
(* What stays owed.                                                        *)
(***************************************************************************)

LEMMA OwesNat ==
    ASSUME FinanceAssumption, NEW t \in Trips, NEW row \in Settlement,
           NEW platform \in Int
    PROVE  Owes(t, row, platform) \in Nat
<1>1. row.adjustment \in Int /\ row.remitted \in Nat
  BY DEF Settlement
<1>2. (IF t \in Cash /\ row.normal THEN Commission[t] ELSE 0) \in Nat
  BY DEF FinanceAssumption
<1> QED BY <1>1, <1>2 DEF Owes, AtLeastZero

\* More remitted and nothing raised: no more is owed.
LEMMA OwesFalls ==
    ASSUME FinanceAssumption, NEW t \in Trips, NEW row \in Settlement,
           NEW platform \in Int, NEW rowN \in Settlement, NEW platformN \in Int,
           rowN.normal = row.normal, rowN.remitted >= row.remitted,
           rowN.adjustment + platformN <= row.adjustment + platform
    PROVE  Owes(t, rowN, platformN) <= Owes(t, row, platform)
<1>1. /\ row.adjustment \in Int /\ row.remitted \in Nat
      /\ rowN.adjustment \in Int /\ rowN.remitted \in Nat
  BY DEF Settlement
<1>2. (IF t \in Cash /\ row.normal THEN Commission[t] ELSE 0) \in Nat
  BY DEF FinanceAssumption
<1> QED BY <1>1, <1>2 DEF Owes, AtLeastZero

\* What is remitted is no longer owed.
LEMMA OwesPaid ==
    ASSUME FinanceAssumption, NEW t \in Trips, NEW row \in Settlement,
           NEW platform \in Int, NEW rowN \in Settlement, NEW p \in Nat,
           rowN.normal = row.normal, rowN.adjustment = row.adjustment,
           rowN.remitted = row.remitted + p, p > 0,
           p <= Owes(t, row, platform)
    PROVE  Owes(t, rowN, platform) = Owes(t, row, platform) - p
<1>1. row.adjustment \in Int /\ row.remitted \in Nat
  BY DEF Settlement
<1>2. (IF t \in Cash /\ row.normal THEN Commission[t] ELSE 0) \in Nat
  BY DEF FinanceAssumption
<1> QED BY <1>1, <1>2 DEF Owes, AtLeastZero

\* Rides stay settled, adjustments stay, and no ride owes more than before
\* unless an adjustment has raised it.
Eased ==
    /\ Settled \subseteq Settled' /\ adjusted \subseteq adjusted'
    /\ \A t \in Trips : Outstanding(t)' \in Nat
    /\ \A t \in Settled : Raised(t)' \/ Outstanding(t)' <= Outstanding(t)

\* As much was remitted, and nothing was raised.
Lighter(t) ==
    /\ settlement'[t].normal = settlement[t].normal
    /\ settlement'[t].remitted >= settlement[t].remitted
    /\ settlement'[t].adjustment + PlatformOf(refund', t)
         <= settlement[t].adjustment + PlatformOf(refund, t)

LEMMA EasedBy ==
    ASSUME FinanceAssumption, Rows, settlement' \in [Trips -> Settlement],
           \A t \in Trips : PlatformOf(refund', t) \in Int,
           \A t \in Settled : /\ settlement'[t].status # "NONE"
                              /\ Raised(t)' \/ Lighter(t),
           adjusted \subseteq adjusted'
    PROVE  Eased
<1>1. Settled \subseteq Settled'
  BY DEF Settled
<1>2. /\ \A t \in Trips : PlatformOf(refund, t) \in Int
      /\ Settled \in SUBSET Trips
  BY Owing
<1>3. \A t \in Trips : /\ settlement[t] \in Settlement
                       /\ settlement'[t] \in Settlement
  BY DEF Rows, FinanceTypeOK
<1>4. \A t \in Trips : Outstanding(t)' \in Nat
  BY <1>3, OutstandingIs, OwesNat
<1>5. ASSUME NEW t \in Settled, Lighter(t)
      PROVE  Outstanding(t)' <= Outstanding(t)
  BY SMTT(30), <1>2, <1>3, <1>5, OutstandingIs, OwesFalls DEF Lighter
<1> QED BY <1>1, <1>4, <1>5 DEF Eased

LEMMA EasedQuiet ==
    ASSUME FinanceAssumption, Rows, UNCHANGED <<settlement, refund>>,
           adjusted \subseteq adjusted'
    PROVE  Eased
<1>1. \A t \in Trips : /\ Outstanding(t)' = Outstanding(t)
                       /\ Outstanding(t) \in Nat
  BY OutstandingIs, Owing
<1>2. Settled \in SUBSET Trips /\ Settled' = Settled
  BY DEF Settled
<1>3. \A t \in Trips : Outstanding(t)' <= Outstanding(t)
  BY <1>1
<1> QED BY <1>1, <1>2, <1>3 DEF Eased

LEMMA RaisedStays ==
    ASSUME Eased, NEW t PROVE Raised(t) => Raised(t)'
BY DEF Eased, Raised

LEMMA ResolveKept ==
    ASSUME FinanceAssumption, Rows, Eased, NEW v, ResolveRow(v)
    PROVE  ResolveRow(v)'
<1>1. ASSUME NEW t \in Trips, v.trip = t
      PROVE  /\ t \in Settled'
             /\ v.status = "RECONCILED" /\ ~Raised(t)' => Outstanding(t)' = 0
  <2>1. t \in Settled /\ t \in Settled'
    BY <1>1 DEF ResolveRow, Eased
  <2>2. ASSUME v.status = "RECONCILED", ~Raised(t)'
        PROVE  Outstanding(t)' = 0
    <3>1. ~Raised(t)
      BY <2>2, RaisedStays
    <3>2. Outstanding(t) = 0
      BY <1>1, <2>2, <3>1 DEF ResolveRow
    <3>3. Outstanding(t)' \in Nat /\ Outstanding(t)' <= Outstanding(t)
      BY <2>1, <2>2 DEF Eased
    <3> QED BY <3>2, <3>3
  <2> QED BY <2>1, <2>2
<1> QED BY <1>1 DEF ResolveRow

\* A refund that holds its settlement back is of a settled ride.
LEMMA HeldRides ==
    ASSUME FinanceInv, NEW r \in Refunds, HoldsBack(r)
    PROVE  refund[r].trip \in Settled /\ refund[r].trip \in Trips
BY DEF FinanceInv, Rows, RefundRows, RefundRow, HoldsBack, Due, Unallocated,
       Settled

\* While the refunds are left alone they hold back what they held back.
LEMMA HeldAsBefore ==
    ASSUME refund' = refund
    PROVE  \A r : HoldsBack(r)' <=> HoldsBack(r)
BY DEF HoldsBack, Due, Unallocated, TakenUp, RefundsOf

\* What request h knows when it begins to wait.
Knows(v) ==
    /\ v.op = "RESOLVE" => ResolveRow(v)
    /\ v.op = "MARK_FAILED" =>
         v.payment \in Payments /\ intent[v.payment].status # "NONE"

Begins(h) == \E v : task'[h] = v /\ Knows(v)

\* Whatever a request does, those that wait keep what they know.
LEMMA TasksKept ==
    ASSUME FinanceAssumption, Rows, TaskRows, Eased,
           task' = [h \in Handlers |-> task'[h]],
           \A i \in Payments :
             intent[i].status # "NONE" => intent'[i].status # "NONE",
           \A h \in Handlers :
             task'[h] = task[h] \/ task'[h] = NoTask \/ Begins(h)
    PROVE  TaskRows'
<1>1. ASSUME NEW h \in Handlers
      PROVE  /\ task'[h].op = "RESOLVE" => ResolveRow(task[h])'
             /\ task'[h].op = "MARK_FAILED" =>
                  intent'[task'[h].payment].status # "NONE"
  <2>1. CASE task'[h] = NoTask
    BY <2>1 DEF NoTask
  <2>2. PICK v : v = task'[h]
    OBVIOUS
  <2>3. CASE Knows(v)
    <3>1. v.op = "RESOLVE" => ResolveRow(v)'
      BY <2>3, ResolveKept DEF Knows
    <3>2. v.op = "RESOLVE" => ResolveRow(task[h])'
      BY <2>2, <3>1 DEF ResolveRow
    <3>3. v.op = "MARK_FAILED" => intent'[v.payment].status # "NONE"
      BY <2>3 DEF Knows
    <3> QED BY <2>2, <3>2, <3>3
  <2>4. CASE task'[h] = task[h]
    <3>1. Knows(v)
      BY <2>2, <2>4 DEF TaskRows, Knows, Rows, FinanceTypeOK, IsTask, NoTask
    <3> QED BY <2>3, <3>1
  <2>5. CASE Begins(h)
    BY <2>2, <2>3, <2>5 DEF Begins
  <2> QED BY <2>1, <2>4, <2>5
<1> QED BY <1>1 DEF TaskRows

-----------------------------------------------------------------------------
(***************************************************************************)
(* Steps that change one settlement.                                       *)
(***************************************************************************)

\* The row of a settled ride changes, but not what was remitted, and no
\* request learns anything.
RowChange(t, row) ==
    /\ t \in Settled /\ row \in Settlement /\ row.status # "NONE"
    /\ row.normal = settlement[t].normal
    /\ row.remitted = settlement[t].remitted
    /\ settlement' = [settlement EXCEPT ![t] = row]
    /\ task' = [h \in Handlers |-> task'[h]]
    /\ \A h \in Handlers : task'[h] = task[h] \/ task'[h] = NoTask
    /\ UNCHANGED <<finalized, allocated, intent, paid>>

\* The refunds and adjustments move with the row.
MovesWith(t, row) ==
    /\ \A s \in Trips :
         /\ PlatformOf(refund', s) \in Int
         /\ s # t => /\ PlatformOf(refund', s) = PlatformOf(refund, s)
                     /\ AmountOf(refund', s) = AmountOf(refund, s)
    /\ row.refunded = AmountOf(refund', t) /\ row.refunded <= Fare[t]
    /\ adjusted \subseteq adjusted'
    /\ \/ Raised(t)'
       \/ row.adjustment + PlatformOf(refund', t)
            <= settlement[t].adjustment + PlatformOf(refund, t)

LEMMA RowEased ==
    ASSUME FinanceAssumption, Rows, NEW t, NEW row,
           RowChange(t, row), MovesWith(t, row)
    PROVE  Eased /\ Settled' = Settled
<1>1. /\ Settled \in SUBSET Trips
      /\ \A s \in Trips : settlement[s] \in Settlement
      /\ settlement \in [Trips -> Settlement]
  BY DEF Settled, Rows, FinanceTypeOK
<1>2. /\ t \in Trips /\ settlement'[t] = row
      /\ \A s \in Trips \ {t} : settlement'[s] = settlement[s]
      /\ settlement' \in [Trips -> Settlement]
  BY <1>1 DEF RowChange
<1>3. Settled' = Settled
  BY <1>2 DEF RowChange, Settled
<1>4. ASSUME NEW s \in Settled PROVE Raised(s)' \/ Lighter(s)
  <2>1. CASE s = t
    <3>1. row.remitted \in Nat
      BY DEF RowChange, Settlement
    <3>2. row.remitted >= settlement[t].remitted
      BY <3>1 DEF RowChange
    <3>3. row.normal = settlement[t].normal
      BY DEF RowChange
    <3> QED BY <1>2, <2>1, <3>2, <3>3 DEF MovesWith, Lighter
  <2>2. CASE s # t
    <3>1. /\ settlement'[s] = settlement[s]
          /\ PlatformOf(refund', s) = PlatformOf(refund, s)
          /\ PlatformOf(refund, s) \in Int
          /\ settlement[s].remitted \in Nat /\ settlement[s].adjustment \in Int
      BY <1>1, <1>2, <2>2 DEF MovesWith, Settlement
    <3> QED BY <3>1 DEF Lighter
  <2> QED BY <2>1, <2>2
<1>5. \A s \in Trips : PlatformOf(refund', s) \in Int
  BY DEF MovesWith
<1>6. \A s \in Settled : settlement'[s].status # "NONE"
  BY <1>3 DEF Settled
<1>7. adjusted \subseteq adjusted'
  BY DEF MovesWith
<1> QED BY <1>2, <1>3, <1>4, <1>5, <1>6, <1>7, EasedBy

LEMMA RowStep ==
    ASSUME FinanceAssumption, FinanceInv, NEW t, NEW row,
           RowChange(t, row), MovesWith(t, row), FinanceTypeOK',
           IsFiniteSet(Approved'), RefundRows', PendingRefundHeld',
           row.status = "RECONCILED" => Raised(t) \/ Outstanding(t) = 0
    PROVE  FinanceInv'
<1> USE DEF FinanceInv
<1>1. Eased /\ Settled' = Settled
  BY RowEased
<1>2. /\ settlement \in [Trips -> Settlement] /\ Settled \in SUBSET Trips
      /\ t \in Trips
  BY DEF Rows, FinanceTypeOK, RowChange, Settled
<1>3. /\ settlement'[t] = row
      /\ \A s \in Trips \ {t} : settlement'[s] = settlement[s]
  BY <1>2 DEF RowChange
<1>4. Rows'
  <2>1. FiniteRows'
    BY <1>1 DEF Rows, FiniteRows, RowChange
  <2>2. SettlementRows'
    BY <1>1, <1>3 DEF Rows, SettlementRows, RowChange
  <2>3. Ordered'
    BY <1>1 DEF Rows, Ordered, RowChange
  <2> QED BY <2>1, <2>2, <2>3 DEF Rows
<1>5. IntentRows'
  BY DEF IntentRows, Recorded, RowChange
<1>6. TaskRows'
  <2>1. /\ task' = [h \in Handlers |-> task'[h]]
        /\ \A i \in Payments :
             intent[i].status # "NONE" => intent'[i].status # "NONE"
        /\ \A h \in Handlers : task'[h] = task[h] \/ task'[h] = NoTask
    BY DEF RowChange
  <2> QED BY <1>1, <2>1, TasksKept
<1>7. Agrees'
  BY <1>3 DEF Agrees, RowChange
<1>8. Refunded'
  <2> SUFFICES ASSUME NEW s \in Trips
               PROVE  /\ settlement'[s].refunded = AmountOf(refund', s)
                      /\ settlement'[s].refunded <= Fare[s]
    BY DEF Refunded
  <2>1. CASE s = t
    BY <1>3, <2>1 DEF MovesWith
  <2>2. CASE s # t
    BY <1>3, <2>2 DEF MovesWith, Refunded
  <2> QED BY <2>1, <2>2
<1>9. Posted'
  BY DEF Posted, Recorded, RowChange
<1>10. ReconciledMeansPaid'
  <2> SUFFICES ASSUME NEW s \in Trips, settlement'[s].status = "RECONCILED",
                      ~Raised(s)'
               PROVE  Outstanding(s)' = 0
    BY DEF ReconciledMeansPaid, Raised
  <2>1. ~Raised(s)
    BY <1>1, RaisedStays
  <2>2. s \in Settled /\ Outstanding(s) = 0
    <3>1. CASE s = t
      BY <1>3, <2>1, <3>1 DEF RowChange
    <3>2. CASE s # t
      BY <1>3, <2>1, <3>2 DEF ReconciledMeansPaid, Raised, Settled
    <3> QED BY <3>1, <3>2
  <2>3. Outstanding(s)' \in Nat /\ Outstanding(s)' <= Outstanding(s)
    BY <1>1, <2>2 DEF Eased
  <2> QED BY <2>2, <2>3
<1> QED BY <1>4, <1>5, <1>6, <1>7, <1>8, <1>9, <1>10

LEMMA ApproveRefundStep ==
    ASSUME FinanceAssumption, FinanceInv, NEW r \in Refunds, NEW t \in Trips,
           NEW amount \in Amounts, NEW review \in BOOLEAN, NEW platform,
           ApproveRefund(r, t, amount, review, platform)
    PROVE  FinanceInv'
<1> DEFINE status == IF review THEN "DISPUTED" ELSE "REFUND_PENDING"
           rec == [status |-> "CASH_REFUND_DUE", trip |-> t, amount |-> amount,
                   review |-> review, platform |-> platform]
           row == [settlement[t] EXCEPT !.refunded = @ + amount,
                                        !.adjustment = @ - platform,
                                        !.status = status]
<1>1. /\ settlement[t].normal /\ refund[r].status = "NONE"
      /\ amount > 0 /\ amount <= Refundable(t)
      /\ platform \in RefundAllocation(amount, review)
      /\ refund' = [refund EXCEPT ![r] = rec]
      /\ settlement' = [settlement EXCEPT ![t] = row]
      /\ UNCHANGED <<finalized, adjusted, allocated, intent, paid, task,
                     refused, stale>>
  BY DEF ApproveRefund
<1>2. /\ settlement \in [Trips -> Settlement] /\ refund \in [Refunds -> Refund]
      /\ settlement[t] \in Settlement
      /\ \A s \in Trips : /\ IsFiniteSet(RefundsFor(refund, s))
                          /\ PlatformOf(refund, s) \in Int
                          /\ AmountOf(refund, s) \in Int
  BY Owing DEF FinanceInv, Rows, FinanceTypeOK
<1>3. /\ amount \in Nat /\ platform \in Nat /\ platform <= amount
      /\ review => platform = 0
  BY <1>1 DEF RefundAllocation, FinanceAssumption
<1>4. refund[r] = NoRefund /\ t \in Settled
  BY <1>1 DEF FinanceInv, Rows, RefundRows, RefundRow, SettlementRows,
              NoSettlement
<1>5. /\ rec \in Refund /\ rec.trip = t /\ rec.amount = amount
      /\ rec.platform = platform /\ rec.review = review
      /\ rec.status = "CASH_REFUND_DUE"
  BY <1>3 DEF Refund
<1>6. /\ settlement[t].refunded + amount \in Nat
      /\ settlement[t].adjustment - platform \in Int
      /\ settlement[t].refunded \in Nat /\ settlement[t].adjustment \in Int
      /\ settlement[t].refunded + amount <= Fare[t]
  BY <1>1, <1>2, <1>3 DEF Settlement, Refundable, FinanceAssumption
<1>7. /\ row \in Settlement /\ row.status = status
      /\ row.normal = settlement[t].normal
      /\ row.remitted = settlement[t].remitted
      /\ row.refunded = settlement[t].refunded + amount
      /\ row.adjustment = settlement[t].adjustment - platform
  <2>1. status \in Statuses
    BY DEF Statuses
  <2> HIDE DEF status
  <2> QED BY <1>2, <1>6, <2>1 DEF Settlement
<1> HIDE DEF rec, row
<1>8. \A s \in Trips :
        /\ PlatformOf(refund', s) = PlatformOf(refund, s)
             + (IF s = rec.trip THEN rec.platform ELSE 0)
        /\ AmountOf(refund', s) = AmountOf(refund, s)
             + (IF s = rec.trip THEN rec.amount ELSE 0)
  <2>1. RowSet(refund, r, rec, refund')
    BY <1>1, <1>2, <1>5 DEF RowSet
  <2>2. \A s \in Trips : GrowsBy(refund, rec, refund', s)
    BY <1>4, <1>5, <2>1, RefundAdded
  <2> QED BY <2>2 DEF GrowsBy
<1>9. RowChange(t, row)
  <2>1. task' = [h \in Handlers |-> task'[h]]
    BY <1>1 DEF FinanceInv, TaskRows
  <2>2. row.status # "NONE"
    BY <1>7
  <2> QED BY <1>1, <1>4, <1>7, <2>1, <2>2 DEF RowChange
<1>10. MovesWith(t, row)
  <2>1. \A s \in Trips : /\ PlatformOf(refund', s) \in Int
                         /\ s # t =>
                              /\ PlatformOf(refund', s) = PlatformOf(refund, s)
                              /\ AmountOf(refund', s) = AmountOf(refund, s)
    BY <1>2, <1>3, <1>5, <1>8
  <2>2. /\ PlatformOf(refund', t) = PlatformOf(refund, t) + platform
        /\ AmountOf(refund', t) = AmountOf(refund, t) + amount
    BY <1>5, <1>8
  <2>3. row.refunded = AmountOf(refund', t) /\ row.refunded <= Fare[t]
    BY <1>6, <1>7, <2>2 DEF FinanceInv, Refunded
  <2>4. row.adjustment + PlatformOf(refund', t)
          <= settlement[t].adjustment + PlatformOf(refund, t)
    BY <1>2, <1>3, <1>6, <1>7, <2>2
  <2>5. adjusted \subseteq adjusted'
    BY <1>1
  <2> QED BY <2>1, <2>3, <2>4, <2>5 DEF MovesWith
<1>11. /\ \A q \in Refunds : refund'[q] = IF q = r THEN rec ELSE refund[q]
       /\ refund' \in [Refunds -> Refund]
       /\ \A s \in Trips :
            settlement'[s] = IF s = t THEN row ELSE settlement[s]
       /\ settlement' \in [Trips -> Settlement]
  BY <1>1, <1>2, <1>5, <1>7
<1>12. FinanceTypeOK'
  <2>1. \A q \in Refunds : refund'[q].platform <= refund'[q].amount
    BY <1>3, <1>5, <1>11 DEF FinanceInv, Rows, FinanceTypeOK
  <2> QED BY <1>1, <1>11, <2>1 DEF FinanceInv, Rows, FinanceTypeOK
<1>13. IsFiniteSet(Approved')
  <2>1. Approved' = Approved \cup {r}
    BY <1>5, <1>11 DEF Approved
  <2> QED BY <2>1, FS_AddElement DEF FinanceInv, Rows, FiniteRows
<1>14. RefundRows'
  <2>1. Settled' = Settled
    BY <1>9, <1>10, RowEased DEF FinanceInv
  <2>2. \A q \in Refunds : RefundRow(refund[q])
    BY DEF FinanceInv, Rows, RefundRows
  <2> QED BY <1>3, <1>4, <1>5, <1>11, <2>1, <2>2 DEF RefundRows, RefundRow
<1>15. PendingRefundHeld'
  <2> SUFFICES ASSUME ~stale, NEW q \in Refunds, HoldsBack(q)'
               PROVE  settlement'[refund'[q].trip].status \in
                        {"DISPUTED", "REFUND_PENDING"}
    BY <1>1 DEF PendingRefundHeld
  <2>1. refund'[q].trip \in Trips
    BY <1>14 DEF RefundRows, RefundRow, Settled, HoldsBack, Due, Unallocated
  <2>2. row.status \in {"DISPUTED", "REFUND_PENDING"}
    BY <1>7
  <2>3. CASE refund'[q].trip = t
    BY <1>11, <2>2, <2>3
  <2>4. CASE refund'[q].trip # t
    <3>1. q # r /\ refund'[q] = refund[q]
      BY <1>5, <1>11, <2>4
    <3>2. ASSUME NEW s, TakenUp(s) PROVE TakenUp(s)'
      <4>1. PICK p \in RefundsOf(s) :
              refund[p].status = "CASH_REFUND_SETTLED" /\ ~refund[p].review
        BY <3>2 DEF TakenUp
      <4>2. p \in Refunds /\ refund'[p] = refund[p]
        BY <1>1, <1>11, <4>1 DEF RefundsOf
      <4> QED BY <4>1, <4>2 DEF TakenUp, RefundsOf
    <3>3. HoldsBack(q)
      BY <3>1, <3>2 DEF HoldsBack, Due, Unallocated
    <3>4. settlement[refund[q].trip].status \in {"DISPUTED", "REFUND_PENDING"}
      BY <3>3 DEF FinanceInv, PendingRefundHeld
    <3> QED BY <1>11, <2>1, <2>4, <3>1, <3>4
  <2> QED BY <2>3, <2>4
<1>16. row.status # "RECONCILED"
  BY <1>7
<1> QED BY <1>9, <1>10, <1>12, <1>13, <1>14, <1>15, <1>16, RowStep

LEMMA StateIs ==
    ASSUME NEW t
    PROVE  /\ ReconciliationState(t) \in Statuses \ {"NONE"}
           /\ ReconciliationState(t) = "RECONCILED" => Outstanding(t) = 0
BY DEF ReconciliationState, Statuses

LEMMA SettleCashRefundStep ==
    ASSUME FinanceAssumption, FinanceInv, NEW r \in Refunds, SettleCashRefund(r)
    PROVE  FinanceInv'
<1> DEFINE t == refund[r].trip
           rec == [refund[r] EXCEPT !.status = "CASH_REFUND_SETTLED"]
           status == IF refund[r].review THEN settlement[t].status
                     ELSE IF OthersDue(r) THEN "REFUND_PENDING"
                     ELSE ReconciliationState(t)
           row == [settlement[t] EXCEPT !.status = status]
<1>1. /\ refund[r].status = "CASH_REFUND_DUE"
      /\ refund' = [refund EXCEPT ![r] = rec]
      /\ UNCHANGED <<finalized, adjusted, allocated, intent, paid, task,
                     refused, stale>>
  BY DEF SettleCashRefund, Due
<1>2. /\ settlement \in [Trips -> Settlement] /\ refund \in [Refunds -> Refund]
      /\ refund[r] \in Refund
      /\ \A s \in Trips : /\ IsFiniteSet(RefundsFor(refund, s))
                          /\ PlatformOf(refund, s) \in Int
      /\ \A q \in Refunds : RefundRow(refund[q])
  BY Owing DEF FinanceInv, Rows, FinanceTypeOK, RefundRows
<1>3. t \in Settled /\ t \in Trips /\ settlement[t].status # "NONE"
  BY <1>1, <1>2 DEF RefundRow, Settled
<1>4. settlement[t] \in Settlement
  BY <1>2, <1>3
<1>5. /\ rec \in Refund /\ rec.trip = t /\ rec.amount = refund[r].amount
      /\ rec.platform = refund[r].platform /\ rec.review = refund[r].review
      /\ rec.status = "CASH_REFUND_SETTLED"
  BY <1>2 DEF Refund
<1>6. status \in Statuses /\ status # "NONE"
  BY <1>3, <1>4, StateIs DEF Statuses, Settlement
<1>7. settlement' = [settlement EXCEPT ![t] = row]
  <2>1. CASE refund[r].review
    <3>1. row = settlement[t]
      BY <1>4, <2>1 DEF Settlement
    <3>2. settlement' = settlement
      BY <2>1 DEF SettleCashRefund
    <3> QED BY <1>2, <3>1, <3>2
  <2>2. CASE ~refund[r].review
    BY <2>2 DEF SettleCashRefund
  <2> QED BY <2>1, <2>2
<1>8. /\ row \in Settlement /\ row.status = status
      /\ row.normal = settlement[t].normal
      /\ row.remitted = settlement[t].remitted
      /\ row.refunded = settlement[t].refunded
      /\ row.adjustment = settlement[t].adjustment
      /\ row.adjustment \in Int
  <2> HIDE DEF status, t
  <2> QED BY <1>4, <1>6 DEF Settlement
<1>9. /\ \A q \in Refunds : refund'[q] = IF q = r THEN rec ELSE refund[q]
      /\ refund' \in [Refunds -> Refund]
      /\ \A s \in Trips :
           settlement'[s] = IF s = t THEN row ELSE settlement[s]
      /\ settlement' \in [Trips -> Settlement]
  <2> HIDE DEF rec, row
  <2> QED BY <1>1, <1>2, <1>5, <1>7, <1>8
<1>10. \A q \in Refunds : /\ refund'[q].trip = refund[q].trip
                          /\ q # r => refund'[q] = refund[q]
  <2> HIDE DEF rec
  <2> QED BY <1>5, <1>9
<1>11. row.status = "RECONCILED" => Raised(t) \/ Outstanding(t) = 0
  BY <1>3, <1>8, StateIs DEF FinanceInv, ReconciledMeansPaid, Raised
<1>12. PendingRefundHeld'
  <2> SUFFICES ASSUME ~stale, NEW q \in Refunds, HoldsBack(q)'
               PROVE  settlement'[refund'[q].trip].status \in
                        {"DISPUTED", "REFUND_PENDING"}
    BY <1>1 DEF PendingRefundHeld
  <2>1. /\ refund'[q].trip = refund[q].trip
        /\ refund'[q].review = refund[q].review
        /\ Due(q)' => q # r /\ Due(q)
        /\ Unallocated(q)' => Unallocated(q)
    <3>1. CASE q = r
      BY <1>1, <1>5, <1>9, <3>1 DEF Due, Unallocated
    <3>2. CASE q # r
      BY <1>9, <3>2 DEF Due, Unallocated
    <3> QED BY <3>1, <3>2
  <2>2. HoldsBack(q)
    <3>1. ASSUME NEW s, TakenUp(s) PROVE TakenUp(s)'
      <4>1. PICK p \in RefundsOf(s) :
              refund[p].status = "CASH_REFUND_SETTLED" /\ ~refund[p].review
        BY <3>1 DEF TakenUp
      <4>2. p \in Refunds /\ refund'[p] = refund[p]
        BY <1>1, <1>9, <4>1 DEF RefundsOf
      <4> QED BY <4>1, <4>2 DEF TakenUp, RefundsOf
    <3> QED BY <2>1, <3>1 DEF HoldsBack
  <2>3. refund[q].trip \in Trips
    BY <1>2, <2>2 DEF RefundRow, HoldsBack, Due, Unallocated, Settled
  <2>4. settlement[refund[q].trip].status \in {"DISPUTED", "REFUND_PENDING"}
    BY <2>2 DEF FinanceInv, PendingRefundHeld
  <2>5. CASE refund[q].trip = t
    <3>1. refund[r].review \/ OthersDue(r)
      <4>1. CASE Due(q)'
        BY <2>1, <2>5, <4>1 DEF OthersDue, RefundsOf
      <4>2. CASE ~Due(q)'
        <5>1. ~TakenUp(refund[q].trip)'
          BY <4>2 DEF HoldsBack
        <5>2. refund'[r] = rec /\ refund'[r].trip = refund'[q].trip
          BY <1>5, <1>9, <2>1, <2>5
        <5>3. r \in RefundsOf(refund[q].trip)'
          BY <5>2 DEF RefundsOf
        <5> QED BY <1>5, <5>1, <5>2, <5>3 DEF TakenUp
      <4> QED BY <4>1, <4>2
    <3>2. status \in {"DISPUTED", "REFUND_PENDING"}
      BY <2>4, <2>5, <3>1
    <3> HIDE DEF rec, row, status, t
    <3>3. settlement'[t] = row /\ row.status = status
      BY <1>3, <1>8, <1>9
    <3> QED BY <2>1, <2>5, <3>2, <3>3
  <2>6. CASE refund[q].trip # t
    BY <1>9, <2>1, <2>3, <2>4, <2>6
  <2> QED BY <2>5, <2>6
<1> HIDE DEF rec, row, status, t
<1>13. RowChange(t, row)
  <2>1. task' = [h \in Handlers |-> task'[h]]
    BY <1>1 DEF FinanceInv, TaskRows
  <2>2. row.status # "NONE"
    BY <1>6, <1>8
  <2> QED BY <1>1, <1>3, <1>7, <1>8, <2>1, <2>2 DEF RowChange
<1>14. MovesWith(t, row)
  <2>1. RowSet(refund, r, rec, refund')
    BY <1>1, <1>2, <1>5 DEF RowSet
  <2>2. \A s \in Trips : Shifted(refund, r, rec, refund', s)
    BY <1>5, <2>1, RefundChanged DEF t
  <2>3. rec.platform - refund[r].platform = 0
    BY <1>2, <1>5 DEF Refund
  <2>4. \A s \in Trips : /\ PlatformOf(refund', s) = PlatformOf(refund, s)
                         /\ PlatformOf(refund', s) \in Int
                         /\ AmountOf(refund', s) = AmountOf(refund, s)
    BY <1>2, <2>2, <2>3 DEF Shifted
  <2>5. row.refunded = AmountOf(refund', t) /\ row.refunded <= Fare[t]
    BY <1>3, <1>8, <2>4 DEF FinanceInv, Refunded
  <2>6. row.adjustment + PlatformOf(refund', t)
          <= settlement[t].adjustment + PlatformOf(refund, t)
    BY <1>3, <1>8, <2>4
  <2>7. adjusted \subseteq adjusted'
    BY <1>1
  <2> QED BY <2>4, <2>5, <2>6, <2>7 DEF MovesWith
<1>15. FinanceTypeOK'
  <2>1. \A q \in Refunds : refund'[q].platform <= refund'[q].amount
    BY <1>5, <1>9 DEF FinanceInv, Rows, FinanceTypeOK
  <2> QED BY <1>1, <1>9, <2>1 DEF FinanceInv, Rows, FinanceTypeOK
<1>16. IsFiniteSet(Approved')
  <2>1. Approved' = Approved
    BY <1>1, <1>5, <1>9 DEF Approved
  <2> QED BY <2>1 DEF FinanceInv, Rows, FiniteRows
<1>17. RefundRows'
  <2>1. Settled' = Settled
    BY <1>13, <1>14, RowEased DEF FinanceInv
  <2>2. rec.trip \in Settled /\ (rec.review => rec.platform = 0)
    BY <1>1, <1>2, <1>3, <1>5 DEF RefundRow
  <2> QED BY <1>2, <1>5, <1>9, <2>1, <2>2 DEF RefundRows, RefundRow
<1> QED BY <1>11, <1>12, <1>13, <1>14, <1>15, <1>16, <1>17, RowStep

LEMMA AllocateStep ==
    ASSUME FinanceAssumption, FinanceInv, NEW r \in Refunds, NEW platform,
           AllocateRefundResponsibility(r, platform)
    PROVE  FinanceInv'
<1> DEFINE t == refund[r].trip
           rec == [refund[r] EXCEPT !.review = FALSE, !.platform = platform]
           status ==
             IF \E q \in RefundsOf(t) \ {r} : refund[q].review THEN "DISPUTED"
             ELSE IF \E q \in RefundsOf(t) : Due(q) THEN "REFUND_PENDING"
             ELSE ReconciliationState(t)
           row == [settlement[t] EXCEPT !.adjustment = @ - platform,
                                        !.status = status]
<1>1. /\ refund[r].status # "NONE" /\ refund[r].review
      /\ platform \in RefundAllocation(refund[r].amount, FALSE)
      /\ refund' = [refund EXCEPT ![r] = rec]
      /\ settlement' = [settlement EXCEPT ![t] = row]
      /\ UNCHANGED <<finalized, adjusted, allocated, intent, paid, task,
                     refused, stale>>
  BY DEF AllocateRefundResponsibility
<1>2. /\ settlement \in [Trips -> Settlement] /\ refund \in [Refunds -> Refund]
      /\ refund[r] \in Refund
      /\ \A s \in Trips : /\ IsFiniteSet(RefundsFor(refund, s))
                          /\ PlatformOf(refund, s) \in Int
      /\ \A q \in Refunds : RefundRow(refund[q])
  BY Owing DEF FinanceInv, Rows, FinanceTypeOK, RefundRows
<1>3. /\ t \in Settled /\ t \in Trips /\ settlement[t].status # "NONE"
      /\ refund[r].platform = 0
  BY <1>1, <1>2 DEF RefundRow, Settled
<1>4. settlement[t] \in Settlement
  BY <1>2, <1>3
<1>5. platform \in Nat /\ platform <= refund[r].amount
  <2>1. refund[r].amount \in Nat
    BY <1>2 DEF Refund
  <2> QED BY <1>1, <2>1 DEF RefundAllocation
<1>6. /\ rec \in Refund /\ rec.trip = t /\ rec.amount = refund[r].amount
      /\ rec.platform = platform /\ rec.review = FALSE
      /\ rec.status = refund[r].status
  BY <1>2, <1>5 DEF Refund
<1>7. status \in Statuses /\ status # "NONE"
  BY StateIs DEF Statuses
<1>8. /\ row \in Settlement /\ row.status = status
      /\ row.normal = settlement[t].normal
      /\ row.remitted = settlement[t].remitted
      /\ row.refunded = settlement[t].refunded
      /\ row.adjustment = settlement[t].adjustment - platform
      /\ settlement[t].adjustment \in Int
  <2>1. settlement[t].adjustment - platform \in Int
    BY <1>4, <1>5 DEF Settlement
  <2> HIDE DEF status, t
  <2> QED BY <1>4, <1>7, <2>1 DEF Settlement
<1>9. /\ \A q \in Refunds : refund'[q] = IF q = r THEN rec ELSE refund[q]
      /\ refund' \in [Refunds -> Refund]
      /\ \A s \in Trips :
           settlement'[s] = IF s = t THEN row ELSE settlement[s]
      /\ settlement' \in [Trips -> Settlement]
  <2> HIDE DEF rec, row
  <2> QED BY <1>1, <1>2, <1>6, <1>8
<1>10. \A q \in Refunds : /\ refund'[q].trip = refund[q].trip
                          /\ refund'[q].status = refund[q].status
  <2> HIDE DEF rec
  <2> QED BY <1>6, <1>9
<1>11. row.status = "RECONCILED" => Raised(t) \/ Outstanding(t) = 0
  BY <1>8, StateIs
<1>12. PendingRefundHeld'
  <2> SUFFICES ASSUME ~stale, NEW q \in Refunds, HoldsBack(q)'
               PROVE  settlement'[refund'[q].trip].status \in
                        {"DISPUTED", "REFUND_PENDING"}
    BY <1>1 DEF PendingRefundHeld
  <2>1. /\ refund'[q].trip = refund[q].trip
        /\ Due(q)' => Due(q)
        /\ Unallocated(q)' => q # r /\ Unallocated(q)
    <3>1. CASE q = r
      BY <1>6, <1>9, <1>10, <3>1 DEF Due, Unallocated
    <3>2. CASE q # r
      BY <1>9, <3>2 DEF Due, Unallocated
    <3> QED BY <3>1, <3>2
  <2>2. HoldsBack(q)
    <3>1. ASSUME NEW s, TakenUp(s) PROVE TakenUp(s)'
      <4>1. PICK p \in RefundsOf(s) :
              refund[p].status = "CASH_REFUND_SETTLED" /\ ~refund[p].review
        BY <3>1 DEF TakenUp
      <4>2. p \in Refunds /\ refund'[p] = refund[p]
        BY <1>1, <1>9, <4>1 DEF RefundsOf
      <4> QED BY <4>1, <4>2 DEF TakenUp, RefundsOf
    <3> QED BY <2>1, <3>1 DEF HoldsBack
  <2>3. /\ refund[q].trip \in Trips
        /\ settlement[refund[q].trip].status \in {"DISPUTED", "REFUND_PENDING"}
    <3>1. refund[q].trip \in Trips
      BY <1>2, <2>2 DEF RefundRow, HoldsBack, Due, Unallocated, Settled
    <3> QED BY <1>1, <2>2, <3>1 DEF FinanceInv, PendingRefundHeld
  <2>4. CASE refund[q].trip = t
    <3>1. q \in RefundsOf(t)
      BY <2>4 DEF RefundsOf
    <3>2. status \in {"DISPUTED", "REFUND_PENDING"}
      <4>1. CASE Due(q)'
        BY <2>1, <3>1, <4>1
      <4>2. CASE Unallocated(q)'
        BY <2>1, <3>1, <4>2 DEF Unallocated
      <4> QED BY <4>1, <4>2 DEF HoldsBack
    <3> HIDE DEF rec, row, status, t
    <3>3. settlement'[t] = row /\ row.status = status
      BY <1>3, <1>8, <1>9
    <3> QED BY <2>1, <2>4, <3>2, <3>3
  <2>5. CASE refund[q].trip # t
    BY <1>9, <2>1, <2>3, <2>5
  <2> QED BY <2>4, <2>5
<1> HIDE DEF rec, row, status, t
<1>13. RowChange(t, row)
  <2>1. task' = [h \in Handlers |-> task'[h]]
    BY <1>1 DEF FinanceInv, TaskRows
  <2>2. row.status # "NONE"
    BY <1>7, <1>8
  <2> QED BY <1>1, <1>3, <1>8, <2>1, <2>2 DEF RowChange
<1>14. MovesWith(t, row)
  <2>1. RowSet(refund, r, rec, refund')
    BY <1>1, <1>2, <1>6 DEF RowSet
  <2>2. \A s \in Trips : Shifted(refund, r, rec, refund', s)
    BY <1>6, <2>1, RefundChanged DEF t
  <2>3. /\ PlatformOf(refund', t) = PlatformOf(refund, t) + platform
        /\ AmountOf(refund', t) = AmountOf(refund, t)
    BY <1>3, <1>5, <1>6, <2>2 DEF Shifted
  <2>4. \A s \in Trips : /\ PlatformOf(refund', s) \in Int
                         /\ s # t =>
                              /\ PlatformOf(refund', s) = PlatformOf(refund, s)
                              /\ AmountOf(refund', s) = AmountOf(refund, s)
    BY <1>2, <1>3, <1>5, <1>6, <2>2 DEF Shifted
  <2>5. row.refunded = AmountOf(refund', t) /\ row.refunded <= Fare[t]
    BY <1>3, <1>8, <2>3 DEF FinanceInv, Refunded
  <2>6. row.adjustment + PlatformOf(refund', t)
          <= settlement[t].adjustment + PlatformOf(refund, t)
    BY <1>2, <1>3, <1>5, <1>8, <2>3
  <2>7. adjusted \subseteq adjusted'
    BY <1>1
  <2> QED BY <2>4, <2>5, <2>6, <2>7 DEF MovesWith
<1>15. FinanceTypeOK'
  <2>1. \A q \in Refunds : refund'[q].platform <= refund'[q].amount
    BY <1>5, <1>6, <1>9 DEF FinanceInv, Rows, FinanceTypeOK
  <2> QED BY <1>1, <1>9, <2>1 DEF FinanceInv, Rows, FinanceTypeOK
<1>16. IsFiniteSet(Approved')
  <2>1. Approved' = Approved
    BY <1>10 DEF Approved
  <2> QED BY <2>1 DEF FinanceInv, Rows, FiniteRows
<1>17. RefundRows'
  <2>1. Settled' = Settled
    BY <1>13, <1>14, RowEased DEF FinanceInv
  <2>2. rec.trip \in Settled /\ ~rec.review /\ rec.status # "NONE"
    BY <1>1, <1>3, <1>6
  <2> QED BY <1>2, <1>9, <2>1, <2>2 DEF RefundRows, RefundRow
<1> QED BY <1>11, <1>12, <1>13, <1>14, <1>15, <1>16, <1>17, RowStep

\* A step that leaves the refunds alone.
LEMMA PlainRowStep ==
    ASSUME FinanceAssumption, FinanceInv, NEW t, NEW row, RowChange(t, row),
           refund' = refund, row.refunded = settlement[t].refunded,
           adjusted \subseteq adjusted', FinanceTypeOK',
           Raised(t)' \/ row.adjustment <= settlement[t].adjustment,
           row.status = "RECONCILED" => Raised(t) \/ Outstanding(t) = 0,
           ~stale' => ~stale,
           ~stale' => \/ row.status \in {"DISPUTED", "REFUND_PENDING"}
                      \/ row.status = settlement[t].status
                      \/ ~\E r \in RefundsOf(t) : HoldsBack(r)
    PROVE  FinanceInv'
<1>1. /\ settlement \in [Trips -> Settlement] /\ t \in Trips
      /\ settlement[t] \in Settlement /\ row \in Settlement
      /\ \A s \in Trips : PlatformOf(refund, s) \in Int
  BY Owing DEF FinanceInv, Rows, FinanceTypeOK, RowChange, Settled
<1>2. MovesWith(t, row)
  <2>1. row.refunded = AmountOf(refund', t) /\ row.refunded <= Fare[t]
    BY <1>1 DEF FinanceInv, Refunded
  <2>2. \/ Raised(t)'
        \/ row.adjustment + PlatformOf(refund, t)
             <= settlement[t].adjustment + PlatformOf(refund, t)
    <3>1. row.adjustment \in Int /\ settlement[t].adjustment \in Int
      BY <1>1 DEF Settlement
    <3>2. PlatformOf(refund, t) \in Int
      BY <1>1
    <3> QED BY <3>1, <3>2
  <2> QED BY <1>1, <2>1, <2>2 DEF MovesWith
<1>3. Settled' = Settled
  BY <1>2, RowEased DEF FinanceInv
<1>4. IsFiniteSet(Approved')
  BY DEF FinanceInv, Rows, FiniteRows, Approved
<1>5. RefundRows'
  BY <1>3 DEF FinanceInv, Rows, RefundRows, RefundRow
<1>6. PendingRefundHeld'
  <2> SUFFICES ASSUME ~stale', NEW r \in Refunds, HoldsBack(r)
               PROVE  settlement'[refund[r].trip].status \in
                        {"DISPUTED", "REFUND_PENDING"}
    BY HeldAsBefore DEF PendingRefundHeld
  <2>1. settlement[refund[r].trip].status \in {"DISPUTED", "REFUND_PENDING"}
    BY DEF FinanceInv, PendingRefundHeld
  <2>2. refund[r].trip \in Trips
    BY HeldRides
  <2>3. CASE refund[r].trip = t
    <3>1. r \in RefundsOf(t)
      BY <2>3 DEF RefundsOf
    <3>2. settlement'[t] = row
      BY <1>1 DEF RowChange
    <3> QED BY <2>1, <2>3, <3>1, <3>2
  <2>4. CASE refund[r].trip # t
    BY <1>1, <2>1, <2>2, <2>4 DEF RowChange
  <2> QED BY <2>3, <2>4
<1> QED BY <1>2, <1>4, <1>5, <1>6, RowStep

LEMMA CreateAdjustmentStep ==
    ASSUME FinanceAssumption, FinanceInv, NEW k \in Adjustments,
           NEW t \in Trips, NEW delta \in Deltas, NEW review \in BOOLEAN,
           CreateAdjustment(k, t, delta, review)
    PROVE  FinanceInv'
<1> DEFINE status == IF review THEN "DISPUTED" ELSE settlement[t].status
           row == [settlement[t] EXCEPT !.adjustment = @ + delta,
                                        !.status = status]
<1>1. /\ settlement[t].status # "NONE"
      /\ adjusted' = adjusted \cup {<<k, t, delta>>}
      /\ settlement' = [settlement EXCEPT ![t] = row]
      /\ UNCHANGED <<finalized, refund, allocated, intent, paid, task, refused,
                     stale>>
  BY DEF CreateAdjustment
<1>2. /\ settlement \in [Trips -> Settlement] /\ t \in Settled
      /\ settlement[t] \in Settlement
  BY <1>1 DEF FinanceInv, Rows, FinanceTypeOK, Settled
<1>3. delta \in Int
  BY DEF FinanceAssumption
<1>4. status \in Statuses /\ status # "NONE"
  BY <1>1, <1>2 DEF Settlement, Statuses
<1>5. /\ row \in Settlement /\ row.status = status
      /\ row.normal = settlement[t].normal
      /\ row.remitted = settlement[t].remitted
      /\ row.refunded = settlement[t].refunded
      /\ row.adjustment = settlement[t].adjustment + delta
      /\ settlement[t].adjustment \in Int
  <2>1. settlement[t].adjustment + delta \in Int
    BY <1>2, <1>3 DEF Settlement
  <2> HIDE DEF status
  <2> QED BY <1>2, <1>4, <2>1 DEF Settlement
<1>6. Raised(t)' \/ row.adjustment <= settlement[t].adjustment
  <2>1. CASE delta > 0
    <3>1. <<k, t, delta>> \in adjusted'
      BY <1>1
    <3> QED BY <2>1, <3>1 DEF Raised
  <2>2. CASE ~(delta > 0)
    BY <1>3, <1>5, <2>2
  <2> QED BY <2>1, <2>2
<1>7. row.status = "RECONCILED" => Raised(t) \/ Outstanding(t) = 0
  BY <1>5 DEF FinanceInv, ReconciledMeansPaid, Raised
<1>8. \/ row.status \in {"DISPUTED", "REFUND_PENDING"}
      \/ row.status = settlement[t].status
  BY <1>5
<1> HIDE DEF row, status
<1>9. RowChange(t, row)
  <2>1. task' = [h \in Handlers |-> task'[h]]
    BY <1>1 DEF FinanceInv, TaskRows
  <2> QED BY <1>1, <1>2, <1>4, <1>5, <2>1 DEF RowChange
<1>10. FinanceTypeOK'
  <2>1. settlement' \in [Trips -> Settlement]
    BY <1>1, <1>2, <1>5
  <2>2. adjusted' \subseteq Adjustments \X Trips \X Deltas
    BY <1>1 DEF FinanceInv, Rows, FinanceTypeOK
  <2> QED BY <1>1, <2>1, <2>2 DEF FinanceInv, Rows, FinanceTypeOK
<1>11. adjusted \subseteq adjusted' /\ refund' = refund /\ stale' = stale
  BY <1>1
<1> QED BY <1>5, <1>6, <1>7, <1>8, <1>9, <1>10, <1>11, PlainRowStep

LEMMA OpenDisputeStep ==
    ASSUME FinanceAssumption, FinanceInv, NEW t \in Trips, OpenDispute(t)
    PROVE  FinanceInv'
<1> DEFINE row == [settlement[t] EXCEPT !.status = "DISPUTED"]
<1>1. /\ settlement[t].status # "NONE"
      /\ settlement' = [settlement EXCEPT ![t] = row]
      /\ UNCHANGED <<finalized, refund, adjusted, allocated, intent, paid,
                     task, refused, stale>>
  BY DEF OpenDispute
<1>2. /\ settlement \in [Trips -> Settlement] /\ t \in Settled
      /\ settlement[t] \in Settlement
  BY <1>1 DEF FinanceInv, Rows, FinanceTypeOK, Settled
<1>3. /\ row \in Settlement /\ row.status = "DISPUTED"
      /\ row.normal = settlement[t].normal
      /\ row.remitted = settlement[t].remitted
      /\ row.refunded = settlement[t].refunded
      /\ row.adjustment = settlement[t].adjustment
      /\ row.adjustment <= settlement[t].adjustment
  BY <1>2 DEF Settlement, Statuses
<1> HIDE DEF row
<1>4. RowChange(t, row)
  <2>1. task' = [h \in Handlers |-> task'[h]]
    BY <1>1 DEF FinanceInv, TaskRows
  <2> QED BY <1>1, <1>2, <1>3, <2>1 DEF RowChange
<1>5. FinanceTypeOK'
  <2>1. settlement' \in [Trips -> Settlement]
    BY <1>1, <1>2, <1>3
  <2> QED BY <1>1, <2>1 DEF FinanceInv, Rows, FinanceTypeOK
<1>6. adjusted \subseteq adjusted' /\ refund' = refund /\ stale' = stale
  BY <1>1
<1> QED BY <1>3, <1>4, <1>5, <1>6, PlainRowStep

LEMMA CommitResolveStep ==
    ASSUME FinanceAssumption, FinanceInv, NEW h \in Handlers,
           CommitResolveDispute(h)
    PROVE  FinanceInv'
<1>1. PICK v : v = task[h]
  OBVIOUS
<1> DEFINE t == v.trip
           row == [settlement[t] EXCEPT !.status = v.status]
<1>2. /\ v.op = "RESOLVE"
      /\ settlement' = [settlement EXCEPT ![t] = row]
      /\ stale' = (stale \/ RowsOf(t) # v.read)
      /\ task' = [task EXCEPT ![h] = NoTask]
      /\ UNCHANGED <<finalized, refund, adjusted, allocated, intent, paid,
                     refused>>
  BY <1>1 DEF CommitResolveDispute
<1>3. t \in Trips /\ v.status \in Statuses
  BY <1>1, <1>2 DEF FinanceInv, Rows, FinanceTypeOK, IsTask, NoTask
<1>4. ResolveRow(v)
  BY <1>1, <1>2 DEF FinanceInv, TaskRows
<1>5. /\ settlement \in [Trips -> Settlement] /\ t \in Settled
      /\ settlement[t] \in Settlement /\ v.status # "NONE"
      /\ v.status = "RECONCILED" => Raised(t) \/ Outstanding(t) = 0
  BY <1>3, <1>4 DEF FinanceInv, Rows, FinanceTypeOK, ResolveRow
<1>6. /\ row \in Settlement /\ row.status = v.status
      /\ row.normal = settlement[t].normal
      /\ row.remitted = settlement[t].remitted
      /\ row.refunded = settlement[t].refunded
      /\ row.adjustment = settlement[t].adjustment
      /\ row.adjustment <= settlement[t].adjustment
  <2> HIDE DEF t
  <2> QED BY <1>3, <1>5 DEF Settlement
<1>7. ~stale' => \/ row.status \in {"DISPUTED", "REFUND_PENDING"}
                 \/ ~\E r \in RefundsOf(t) : HoldsBack(r)
  <2> SUFFICES ASSUME ~stale', NEW r \in RefundsOf(t), HoldsBack(r)
               PROVE  v.status = "REFUND_PENDING"
    BY <1>6
  <2>1. v.read = <<settlement[t], [q \in RefundsOf(t) |-> refund[q]]>>
    BY <1>2 DEF RowsOf
  <2>2. v.read[2] = [q \in RefundsOf(t) |-> refund[q]]
    BY <2>1
  <2>3. r \in DOMAIN v.read[2] /\ v.read[2][r] = refund[r]
    BY <2>2
  <2>4. ~refund[r].review
    BY <1>4, <2>3 DEF ResolveRow
  <2>5. v.read[2][r].status = "CASH_REFUND_DUE"
    BY <2>3, <2>4 DEF HoldsBack, Due, Unallocated
  <2> QED BY <1>4, <2>3, <2>5 DEF ResolveRow
<1> HIDE DEF row, t
<1>8. /\ task' = [g \in Handlers |-> task'[g]]
      /\ \A g \in Handlers : task'[g] = IF g = h THEN NoTask ELSE task[g]
  BY <1>2 DEF FinanceInv, TaskRows
<1>9. RowChange(t, row)
  BY <1>2, <1>5, <1>6, <1>8 DEF RowChange
<1>10. FinanceTypeOK'
  <2>1. settlement' \in [Trips -> Settlement]
    BY <1>2, <1>5, <1>6
  <2>2. \A g \in Handlers : IsTask(task'[g])
    BY <1>8 DEF FinanceInv, Rows, FinanceTypeOK, IsTask
  <2>3. stale' \in BOOLEAN
    BY <1>2
  <2> QED BY <1>2, <2>1, <2>2, <2>3 DEF FinanceInv, Rows, FinanceTypeOK
<1>11. adjusted \subseteq adjusted' /\ refund' = refund /\ (~stale' => ~stale)
  BY <1>2 DEF FinanceInv, Rows, FinanceTypeOK
<1>12. row.status = "RECONCILED" => Raised(t) \/ Outstanding(t) = 0
  BY <1>5, <1>6
<1> QED BY <1>6, <1>7, <1>9, <1>10, <1>11, <1>12, PlainRowStep

-----------------------------------------------------------------------------
(***************************************************************************)
(* The other steps.                                                        *)
(***************************************************************************)

LEMMA SettleStep ==
    ASSUME FinanceAssumption, FinanceInv, NEW t \in Trips,
           NEW row \in Settlement, Settle(t, row),
           row.status \notin {"NONE", "RECONCILED"}, row.adjustment = 0,
           row.remitted = 0, row.refunded = 0
    PROVE  FinanceInv'
<1>1. /\ settlement[t].status = "NONE"
      /\ settlement' = [settlement EXCEPT ![t] = row]
      /\ finalized' = finalized
           \cup {<<s, t>> : s \in {s \in Trips : settlement[s].status # "NONE"}}
      /\ UNCHANGED <<refund, adjusted, allocated, intent, paid, task, refused,
                     stale>>
  BY DEF Settle
<1>2. /\ settlement \in [Trips -> Settlement] /\ Settled \in SUBSET Trips
      /\ \A s \in Trips : PlatformOf(refund, s) \in Int
      /\ \A s \in Trips : settlement[s] \in Settlement
  BY Owing DEF FinanceInv, Rows, FinanceTypeOK, Settled
<1>3. t \notin Settled /\ settlement[t] = NoSettlement
  BY <1>1 DEF FinanceInv, Rows, SettlementRows, Settled
<1>4. \A s \in Trips : settlement'[s] = IF s = t THEN row ELSE settlement[s]
  BY <1>1, <1>2
<1>5. Settled' = Settled \cup {t}
  BY <1>3, <1>4 DEF Settled
<1>6. settlement' \in [Trips -> Settlement]
  BY <1>1, <1>2
<1>7. /\ finalized' \subseteq Trips \X Trips
      /\ \A x, y \in Trips : <<x, y>> \in finalized' <=>
           <<x, y>> \in finalized \/ (x \in Settled /\ y = t)
  <2> DEFINE New == {<<s, t>> : s \in Settled}
  <2>1. finalized' = finalized \cup New
    BY <1>1 DEF Settled
  <2>2. \A x, y \in Trips : <<x, y>> \in New <=> x \in Settled /\ y = t
    OBVIOUS
  <2>3. New \subseteq Trips \X Trips /\ finalized \subseteq Trips \X Trips
    BY <1>2 DEF FinanceInv, Rows, FinanceTypeOK
  <2> HIDE DEF New
  <2> QED BY <2>1, <2>2, <2>3
<1>8. FinanceTypeOK'
  BY <1>1, <1>6, <1>7 DEF FinanceInv, Rows, FinanceTypeOK
<1>9. Eased
  <2>1. ASSUME NEW s \in Settled
        PROVE  settlement'[s].status # "NONE" /\ Lighter(s)
    <3>1. /\ settlement'[s] = settlement[s] /\ refund' = refund
          /\ settlement[s].remitted \in Nat /\ settlement[s].adjustment \in Int
          /\ PlatformOf(refund, s) \in Int
      BY <1>1, <1>2, <1>3, <1>4 DEF Settlement
    <3> QED BY <3>1 DEF Lighter, Settled
  <2>2. \A s \in Trips : PlatformOf(refund', s) \in Int
    BY <1>1, <1>2
  <2>3. adjusted \subseteq adjusted'
    BY <1>1
  <2> QED BY <1>6, <2>1, <2>2, <2>3, EasedBy DEF FinanceInv
<1>10. Rows'
  <2>1. FiniteRows'
    <3>1. IsFiniteSet(Settled')
      BY <1>5, FS_AddElement DEF FinanceInv, Rows, FiniteRows
    <3>2. Approved' = Approved /\ allocated' = allocated
      BY <1>1 DEF Approved
    <3> QED BY <3>1, <3>2 DEF FinanceInv, Rows, FiniteRows
  <2>2. RefundRows'
    BY <1>1, <1>5 DEF FinanceInv, Rows, RefundRows, RefundRow
  <2>3. SettlementRows'
    BY <1>4, <1>5 DEF FinanceInv, Rows, SettlementRows
  <2>4. Ordered'
    <3>1. Ordered
      BY DEF FinanceInv, Rows
    <3>2. \A x, y \in Trips :
            <<x, y>> \in finalized' => x \in Settled' /\ y \in Settled'
      BY <1>5, <1>7, <3>1 DEF Ordered
    <3>3. \A x, y \in Settled' :
            x # y => <<x, y>> \in finalized' \/ <<y, x>> \in finalized'
      BY <1>2, <1>5, <1>7, <3>1 DEF Ordered
    <3>4. ASSUME NEW x \in Settled', NEW y \in Settled', NEW z \in Settled',
                 <<x, y>> \in finalized', <<y, z>> \in finalized'
          PROVE  <<x, z>> \in finalized'
      <4>1. x \in Trips /\ y \in Trips /\ z \in Trips
        BY <1>2, <1>5
      <4>2. y \in Settled /\ <<x, y>> \in finalized
        <5>1. y \in Settled
          BY <1>7, <3>1, <3>4, <4>1 DEF Ordered
        <5> QED BY <1>3, <1>7, <3>4, <4>1, <5>1
      <4>3. x \in Settled
        BY <3>1, <4>1, <4>2 DEF Ordered
      <4>4. CASE z = t
        BY <1>7, <4>1, <4>3, <4>4
      <4>5. CASE z # t
        <5>1. z \in Settled /\ <<y, z>> \in finalized
          BY <1>5, <1>7, <3>4, <4>1, <4>5
        <5> QED BY <1>7, <3>1, <4>1, <4>2, <4>3, <5>1 DEF Ordered
      <4> QED BY <4>4, <4>5
    <3>5. \A x \in Trips : <<x, x>> \notin finalized'
      BY <1>3, <1>7, <3>1 DEF Ordered
    <3> QED BY <3>2, <3>3, <3>4, <3>5 DEF Ordered
  <2> QED BY <1>8, <2>1, <2>2, <2>3, <2>4 DEF Rows
<1>11. IntentRows' /\ Posted'
  BY <1>1 DEF FinanceInv, IntentRows, Posted, Recorded
<1>12. TaskRows'
  <2>1. /\ task' = [h \in Handlers |-> task'[h]]
        /\ \A h \in Handlers : task'[h] = task[h] \/ task'[h] = NoTask
    BY <1>1 DEF FinanceInv, TaskRows
  <2>2. \A i \in Payments :
          intent[i].status # "NONE" => intent'[i].status # "NONE"
    BY <1>1
  <2> QED BY <1>9, <2>1, <2>2, TasksKept DEF FinanceInv
<1>13. \A s \in Trips : /\ settlement'[s].remitted = settlement[s].remitted
                        /\ settlement'[s].refunded = settlement[s].refunded
  BY <1>3, <1>4 DEF NoSettlement
<1>14. Agrees' /\ Refunded'
  BY <1>1, <1>13 DEF FinanceInv, Agrees, Refunded
<1>15. ReconciledMeansPaid'
  <2> SUFFICES ASSUME NEW s \in Trips, settlement'[s].status = "RECONCILED",
                      ~Raised(s)'
               PROVE  Outstanding(s)' = 0
    BY DEF ReconciledMeansPaid, Raised
  <2>1. settlement[s].status = "RECONCILED" /\ s \in Settled
    BY <1>4 DEF Settled
  <2>2. ~Raised(s)
    BY <1>9, RaisedStays
  <2>3. Outstanding(s) = 0
    BY <2>1, <2>2 DEF FinanceInv, ReconciledMeansPaid, Raised
  <2>4. Outstanding(s)' \in Nat /\ Outstanding(s)' <= Outstanding(s)
    BY <1>9, <2>1 DEF Eased
  <2> QED BY <2>3, <2>4
<1>16. PendingRefundHeld'
  <2> SUFFICES ASSUME ~stale, NEW r \in Refunds, HoldsBack(r)
               PROVE  settlement'[refund[r].trip].status \in
                        {"DISPUTED", "REFUND_PENDING"}
    BY <1>1, HeldAsBefore DEF PendingRefundHeld
  <2>1. refund[r].trip \in Settled
    BY HeldRides
  <2> QED BY <1>2, <1>3, <1>4, <2>1 DEF FinanceInv, PendingRefundHeld
<1> QED BY <1>10, <1>11, <1>12, <1>14, <1>15, <1>16 DEF FinanceInv

\* A step that touches no row but payments and requests in flight.
LEMMA QuietStep ==
    ASSUME FinanceAssumption, FinanceInv, FinanceTypeOK',
           UNCHANGED <<settlement, finalized, refund, adjusted, allocated,
                       stale>>,
           IntentRows', TaskRows', Posted'
    PROVE  FinanceInv'
<1>1. \A t : Outstanding(t)' = Outstanding(t)
  BY OutstandingIs
<1>2. Settled' = Settled /\ Approved' = Approved
  BY DEF Settled, Approved
<1>3. Rows'
  BY <1>2 DEF FinanceInv, Rows, FiniteRows, RefundRows, RefundRow,
              SettlementRows, Ordered
<1>4. Agrees' /\ Refunded'
  BY DEF FinanceInv, Agrees, Refunded
<1>5. ReconciledMeansPaid'
  BY <1>1 DEF FinanceInv, ReconciledMeansPaid
<1>6. PendingRefundHeld'
  BY HeldAsBefore DEF FinanceInv, PendingRefundHeld
<1> QED BY <1>3, <1>4, <1>5, <1>6 DEF FinanceInv

\* A remittance or payment that reaches the rides, up to its own record.
LEMMA RemittedStep ==
    ASSUME FinanceAssumption, FinanceInv, NEW ref \in References,
           NEW amount \in Nat, amount > 0, ~Recorded(ref),
           WithinBalance(amount), Apply(ref, amount),
           intent' \in [Payments -> Intent],
           \A i \in Payments :
             intent[i].status # "NONE" => intent'[i].status # "NONE",
           UNCHANGED <<finalized, refund, adjusted, paid, task, refused, stale>>
    PROVE  /\ Rows' /\ TaskRows' /\ Agrees' /\ Refunded'
           /\ ReconciledMeansPaid' /\ PendingRefundHeld'
<1>1. /\ settlement' \in [Trips -> Settlement]
      /\ \A t \in Trips : Paid(t)
      /\ allocated' \in SUBSET (References \X Trips \X Nat)
      /\ IsFiniteSet(allocated')
      /\ Agrees'
  BY ApplyStep DEF FinanceInv
<1>2. /\ settlement \in [Trips -> Settlement] /\ Settled \in SUBSET Trips
      /\ Collectible \in SUBSET Settled
      /\ \A t \in Trips : /\ settlement[t] \in Settlement
                          /\ PlatformOf(refund, t) \in Int
                          /\ Outstanding(t) \in Nat
  BY Owing DEF FinanceInv, Rows, FinanceTypeOK
<1>3. ASSUME NEW t \in Trips
      PROVE  /\ settlement'[t].normal = settlement[t].normal
             /\ settlement'[t].refunded = settlement[t].refunded
             /\ settlement'[t].adjustment = settlement[t].adjustment
             /\ settlement'[t].remitted >= settlement[t].remitted
             /\ settlement'[t] # settlement[t] =>
                  /\ t \in Collectible
                  /\ settlement'[t].status \in
                       {"RECONCILED", "PARTIALLY_RECONCILED"}
                  /\ settlement'[t].status = "RECONCILED" =>
                       Outstanding(t)' = 0
  <2>1. settlement[t].remitted \in Nat
    BY <1>2 DEF Settlement
  <2>2. CASE settlement'[t] = settlement[t]
    BY <2>1, <2>2
  <2>3. CASE settlement'[t] # settlement[t]
    <3>1. PICK p \in Nat :
            /\ t \in Collectible /\ p > 0 /\ p <= Outstanding(t)
            /\ settlement'[t] =
                 [settlement[t] EXCEPT
                    !.remitted = @ + p,
                    !.status = PaidStatus(Outstanding(t) - p)]
      BY <1>1, <2>3 DEF Paid
    <3>2. /\ settlement'[t].normal = settlement[t].normal
          /\ settlement'[t].refunded = settlement[t].refunded
          /\ settlement'[t].adjustment = settlement[t].adjustment
          /\ settlement'[t].remitted = settlement[t].remitted + p
          /\ settlement'[t].status = PaidStatus(Outstanding(t) - p)
      BY <1>2, <3>1 DEF Settlement
    <3>3. Outstanding(t)' = Outstanding(t) - p
      <4>1. /\ Outstanding(t) = Owes(t, settlement[t], PlatformOf(refund, t))
            /\ Outstanding(t)' = Owes(t, settlement'[t], PlatformOf(refund, t))
        BY OutstandingIs
      <4>2. settlement'[t] \in Settlement
        BY <1>1
      <4>3. p <= Owes(t, settlement[t], PlatformOf(refund, t))
        BY <3>1, <4>1
      <4>4. Owes(t, settlement'[t], PlatformOf(refund, t))
              = Owes(t, settlement[t], PlatformOf(refund, t)) - p
        <5> DEFINE row == settlement[t]
                   rowN == settlement'[t]
                   platform == PlatformOf(refund, t)
        <5>1. /\ row \in Settlement /\ rowN \in Settlement
              /\ platform \in Int /\ p \in Nat /\ p > 0
          BY <1>2, <3>1, <4>2
        <5>2. /\ rowN.normal = row.normal /\ rowN.adjustment = row.adjustment
              /\ rowN.remitted = row.remitted + p
              /\ p <= Owes(t, row, platform)
          BY <3>2, <4>3
        <5> HIDE DEF row, rowN, platform
        <5>3. Owes(t, rowN, platform) = Owes(t, row, platform) - p
          BY <5>1, <5>2, OwesPaid
        <5> QED BY <5>3 DEF row, rowN, platform
      <4> QED BY <4>1, <4>4
    <3>4. /\ settlement'[t].status \in {"RECONCILED", "PARTIALLY_RECONCILED"}
          /\ settlement'[t].status = "RECONCILED" => Outstanding(t) - p = 0
      BY <3>2 DEF PaidStatus
    <3> QED BY <2>1, <3>1, <3>2, <3>3, <3>4
  <2> QED BY <2>2, <2>3
<1>4. \A t \in Trips :
         settlement'[t].status # "NONE" <=> settlement[t].status # "NONE"
  BY <1>2, <1>3 DEF Settled
<1>5. Settled' = Settled /\ Approved' = Approved
  BY <1>4 DEF Settled, Approved
<1>6. Eased
  <2>1. ASSUME NEW t \in Settled PROVE Lighter(t)
    <3>1. t \in Trips /\ PlatformOf(refund, t) \in Int
          /\ settlement[t].adjustment \in Int
      BY <1>2 DEF Settlement
    <3> QED BY <1>3, <3>1 DEF Lighter
  <2>2. /\ \A t \in Trips : PlatformOf(refund', t) \in Int
        /\ \A t \in Settled : settlement'[t].status # "NONE"
        /\ adjusted \subseteq adjusted'
    BY <1>2, <1>4 DEF Settled
  <2> QED BY <1>1, <2>1, <2>2, EasedBy DEF FinanceInv
<1>7. Rows'
  <2>1. FinanceTypeOK'
    BY <1>1 DEF FinanceInv, Rows, FinanceTypeOK
  <2>2. FiniteRows'
    BY <1>1, <1>5 DEF FinanceInv, Rows, FiniteRows
  <2>3. RefundRows' /\ Ordered'
    BY <1>5 DEF FinanceInv, Rows, RefundRows, RefundRow, Ordered
  <2>4. SettlementRows'
    BY <1>2, <1>3, <1>5 DEF FinanceInv, Rows, SettlementRows
  <2> QED BY <2>1, <2>2, <2>3, <2>4 DEF Rows
<1>8. TaskRows'
  <2>1. /\ task' = [h \in Handlers |-> task'[h]]
        /\ \A h \in Handlers : task'[h] = task[h] \/ task'[h] = NoTask
    BY DEF FinanceInv, TaskRows
  <2> QED BY <1>6, <2>1, TasksKept DEF FinanceInv
<1>9. Refunded'
  BY <1>3 DEF FinanceInv, Refunded
<1>10. ReconciledMeansPaid'
  <2> SUFFICES ASSUME NEW s \in Trips, settlement'[s].status = "RECONCILED",
                      ~Raised(s)'
               PROVE  Outstanding(s)' = 0
    BY DEF ReconciledMeansPaid, Raised
  <2>1. CASE settlement'[s] = settlement[s]
    <3>1. Outstanding(s)' = Outstanding(s)
      BY <2>1, OutstandingIs
    <3>2. ~Raised(s)
      BY DEF Raised
    <3> QED BY <2>1, <3>1, <3>2 DEF FinanceInv, ReconciledMeansPaid, Raised
  <2>2. CASE settlement'[s] # settlement[s]
    BY <1>3, <2>2
  <2> QED BY <2>1, <2>2
<1>11. PendingRefundHeld'
  <2> SUFFICES ASSUME ~stale, NEW r \in Refunds, HoldsBack(r)
               PROVE  settlement'[refund[r].trip].status \in
                        {"DISPUTED", "REFUND_PENDING"}
    BY HeldAsBefore DEF PendingRefundHeld
  <2>1. refund[r].trip \in Trips
    BY HeldRides
  <2>2. settlement[refund[r].trip].status \in {"DISPUTED", "REFUND_PENDING"}
    BY DEF FinanceInv, PendingRefundHeld
  <2>3. refund[r].trip \notin Collectible
    BY <2>2 DEF Collectible
  <2> QED BY <1>3, <2>1, <2>2, <2>3
<1> QED BY <1>1, <1>7, <1>8, <1>9, <1>10, <1>11

LEMMA RecordRemittanceStep ==
    ASSUME FinanceAssumption, FinanceInv, NEW ref \in Manual,
           NEW amount \in 0..TotalOutstanding, RecordRemittance(ref, amount)
    PROVE  FinanceInv'
<1>1. /\ ref \in References /\ amount \in Nat
      /\ ~Recorded(ref) /\ amount > 0 /\ WithinBalance(amount)
      /\ Apply(ref, amount)
      /\ UNCHANGED <<finalized, refund, adjusted, intent, paid, task, refused,
                     stale>>
  BY DEF RecordRemittance, References
<1>2. \A i \in Payments : i # ref
  BY DEF FinanceAssumption
<1>3. /\ \A i \in Payments : AllocFrom(allocated', i) = AllocFrom(allocated, i)
      /\ \A i \in Payments : Recorded(i)' <=> Recorded(i)
  BY <1>1, <1>2, ApplyStep DEF FinanceInv
<1>4. intent' \in [Payments -> Intent]
  BY <1>1 DEF FinanceInv, Rows, FinanceTypeOK
<1>5. /\ Rows' /\ TaskRows' /\ Agrees' /\ Refunded'
      /\ ReconciledMeansPaid' /\ PendingRefundHeld'
  BY <1>1, <1>4, RemittedStep
<1>6. IntentRows' /\ Posted'
  BY <1>1, <1>3 DEF FinanceInv, IntentRows, Posted
<1> QED BY <1>5, <1>6 DEF FinanceInv

LEMMA ProcessVerifiedStep ==
    ASSUME FinanceAssumption, FinanceInv, NEW i \in Payments, ProcessVerified(i)
    PROVE  FinanceInv'
<1>1. /\ i \in paid /\ intent[i].status # "NONE" /\ ~Recorded(i)
      /\ UNCHANGED <<finalized, refund, adjusted, paid, task, stale>>
  BY DEF ProcessVerified, Postable
<1>2. /\ intent \in [Payments -> Intent] /\ i \in References
      /\ intent[i] \in Intent /\ intent[i].amount \in Nat
      /\ intent[i].amount > 0
  BY <1>1 DEF FinanceInv, Rows, FinanceTypeOK, IntentRows, References, Intent
<1>3. CASE /\ WithinBalance(intent[i].amount)
           /\ Apply(i, intent[i].amount)
           /\ intent' = [intent EXCEPT ![i].status = "SUCCESSFUL"]
           /\ UNCHANGED refused
  <2> DEFINE amount == intent[i].amount
  <2>1. /\ intent' \in [Payments -> Intent]
        /\ \A j \in Payments : intent'[j].amount = intent[j].amount
        /\ intent'[i].status = "SUCCESSFUL"
        /\ \A j \in Payments \ {i} : intent'[j] = intent[j]
    BY <1>2, <1>3 DEF Intent
  <2>2. /\ amount \in Nat /\ amount > 0
        /\ WithinBalance(amount) /\ Apply(i, amount)
    BY <1>2, <1>3
  <2>3. \A j \in Payments :
          intent[j].status # "NONE" => intent'[j].status # "NONE"
    BY <2>1
  <2>4. UNCHANGED <<finalized, refund, adjusted, paid, task, refused, stale>>
    BY <1>1, <1>3
  <2> HIDE DEF amount
  <2>5. /\ AllocFrom(allocated', i) = amount
        /\ \A q : q # i => AllocFrom(allocated', q) = AllocFrom(allocated, q)
        /\ Recorded(i)'
        /\ \A q : q # i => (Recorded(q)' <=> Recorded(q))
    BY <1>1, <1>2, <2>2, ApplyStep DEF FinanceInv
  <2>6. /\ Rows' /\ TaskRows' /\ Agrees' /\ Refunded'
        /\ ReconciledMeansPaid' /\ PendingRefundHeld'
    BY <1>1, <1>2, <2>1, <2>2, <2>3, <2>4, RemittedStep
  <2>7. IntentRows'
    <3> SUFFICES ASSUME NEW j \in Payments
                 PROVE  /\ Recorded(j)' => intent'[j].status # "NONE"
                        /\ intent'[j].status # "NONE" => intent'[j].amount > 0
      BY DEF IntentRows
    <3>1. CASE j = i
      BY <1>2, <2>1, <3>1
    <3>2. CASE j # i
      BY <2>1, <2>5, <3>2 DEF FinanceInv, IntentRows
    <3> QED BY <3>1, <3>2
  <2>8. Posted'
    <3> SUFFICES ASSUME NEW j \in Payments
                 PROVE  /\ Recorded(j)' =>
                             /\ j \in paid'
                             /\ AllocFrom(allocated', j) = intent'[j].amount
                        /\ intent'[j].status = "SUCCESSFUL" => Recorded(j)'
      BY DEF Posted
    <3>1. CASE j = i
      BY <1>1, <2>1, <2>5, <3>1 DEF amount
    <3>2. CASE j # i
      BY <1>1, <2>1, <2>5, <3>2 DEF FinanceInv, Posted
    <3> QED BY <3>1, <3>2
  <2> QED BY <2>6, <2>7, <2>8 DEF FinanceInv
<1>4. CASE /\ refused' = refused \cup {i}
           /\ UNCHANGED <<settlement, allocated, intent>>
  <2>1. FinanceTypeOK'
    BY <1>1, <1>4 DEF FinanceInv, Rows, FinanceTypeOK
  <2>2. IntentRows' /\ Posted'
    BY <1>1, <1>4 DEF FinanceInv, IntentRows, Posted, Recorded
  <2>3. TaskRows'
    <3>1. Eased
      BY <1>1, <1>4, EasedQuiet DEF FinanceInv
    <3>2. /\ task' = [h \in Handlers |-> task'[h]]
          /\ \A h \in Handlers : task'[h] = task[h]
      BY <1>1 DEF FinanceInv, TaskRows
    <3> QED BY <1>4, <3>1, <3>2, TasksKept DEF FinanceInv
  <2> QED BY <1>1, <1>4, <2>1, <2>2, <2>3, QuietStep
<1> QED BY <1>3, <1>4 DEF ProcessVerified

LEMMA InitializeStep ==
    ASSUME FinanceAssumption, FinanceInv, NEW i \in Payments, Initialize(i)
    PROVE  FinanceInv'
<1>1. /\ intent[i].status = "NONE" /\ TotalOutstanding > 0
      /\ intent' = [intent EXCEPT ![i] =
                      [status |-> "PENDING", amount |-> TotalOutstanding]]
      /\ UNCHANGED <<settlement, finalized, refund, adjusted, allocated, paid,
                     task, refused, stale>>
  BY DEF Initialize
<1>2. intent \in [Payments -> Intent] /\ TotalOutstanding \in Nat
  BY Owing DEF FinanceInv, Rows, FinanceTypeOK
<1>3. /\ intent'[i].status = "PENDING" /\ intent'[i].amount > 0
      /\ intent' \in [Payments -> Intent]
      /\ \A j \in Payments \ {i} : intent'[j] = intent[j]
  BY <1>1, <1>2 DEF Intent
<1>4. ~Recorded(i)
  BY <1>1 DEF FinanceInv, IntentRows
<1>5. \A j : Recorded(j)' <=> Recorded(j)
  BY <1>1 DEF Recorded
<1>6. FinanceTypeOK'
  BY <1>1, <1>3 DEF FinanceInv, Rows, FinanceTypeOK
<1>7. IntentRows'
  BY <1>3, <1>4, <1>5 DEF FinanceInv, IntentRows
<1>8. Posted'
  BY <1>1, <1>3, <1>4, <1>5 DEF FinanceInv, Posted
<1>9. TaskRows'
  <2>1. Eased
    BY <1>1, EasedQuiet DEF FinanceInv
  <2>2. /\ task' = [h \in Handlers |-> task'[h]]
        /\ \A h \in Handlers : task'[h] = task[h]
    BY <1>1 DEF FinanceInv, TaskRows
  <2>3. \A j \in Payments :
          intent[j].status # "NONE" => intent'[j].status # "NONE"
    BY <1>3
  <2> QED BY <2>1, <2>2, <2>3, TasksKept DEF FinanceInv
<1> QED BY <1>1, <1>6, <1>7, <1>8, <1>9, QuietStep

\* The status of a payment changes, and what waits is done or begins.
LEMMA StatusStep ==
    ASSUME FinanceAssumption, FinanceInv, NEW i \in Payments,
           intent[i].status # "NONE",
           NEW status \in {"INITIALIZED", "FAILED", "VERIFICATION_FAILED"},
           SetIntent(i, status), paid' = paid, refused' = refused,
           \A h \in Handlers : IsTask(task'[h]),
           task' = [h \in Handlers |-> task'[h]],
           \A h \in Handlers : task'[h] = task[h] \/ task'[h] = NoTask
    PROVE  FinanceInv'
<1>1. /\ intent' = [intent EXCEPT ![i].status = status]
      /\ UNCHANGED <<settlement, finalized, refund, adjusted, allocated, stale>>
  BY DEF SetIntent
<1>2. intent \in [Payments -> Intent]
  BY DEF FinanceInv, Rows, FinanceTypeOK
<1>3. /\ intent'[i].status = status /\ intent' \in [Payments -> Intent]
      /\ \A j \in Payments : intent'[j].amount = intent[j].amount
      /\ \A j \in Payments \ {i} : intent'[j] = intent[j]
  BY <1>1, <1>2 DEF Intent
<1>4. \A j : Recorded(j)' <=> Recorded(j)
  BY <1>1 DEF Recorded
<1>5. FinanceTypeOK'
  BY <1>1, <1>3 DEF FinanceInv, Rows, FinanceTypeOK
<1>6. IntentRows'
  BY <1>3, <1>4 DEF FinanceInv, IntentRows
<1>7. Posted'
  BY <1>1, <1>3, <1>4 DEF FinanceInv, Posted
<1>8. TaskRows'
  <2>1. Eased
    BY <1>1, EasedQuiet DEF FinanceInv
  <2>2. \A j \in Payments :
          intent[j].status # "NONE" => intent'[j].status # "NONE"
    BY <1>3
  <2> QED BY <2>1, <2>2, TasksKept DEF FinanceInv
<1> QED BY <1>1, <1>5, <1>6, <1>7, <1>8, QuietStep

LEMMA MarkVerificationFailureStep ==
    ASSUME FinanceAssumption, FinanceInv, NEW h \in Handlers,
           MarkVerificationFailure(h)
    PROVE  FinanceInv'
<1>1. PICK i : i = task[h].payment
  OBVIOUS
<1>2. /\ task[h].op = "MARK_FAILED" /\ SetIntent(i, "VERIFICATION_FAILED")
      /\ task' = [task EXCEPT ![h] = NoTask]
      /\ paid' = paid /\ refused' = refused
  BY <1>1 DEF MarkVerificationFailure
<1>3. i \in Payments
  BY <1>1, <1>2 DEF FinanceInv, Rows, FinanceTypeOK, IsTask, NoTask
<1>4. intent[i].status # "NONE"
  BY <1>1, <1>2 DEF FinanceInv, TaskRows
<1>5. /\ task' = [g \in Handlers |-> task'[g]]
      /\ \A g \in Handlers : task'[g] = IF g = h THEN NoTask ELSE task[g]
  BY <1>2 DEF FinanceInv, TaskRows
<1>6. \A g \in Handlers : IsTask(task'[g])
  BY <1>5 DEF FinanceInv, Rows, FinanceTypeOK, IsTask
<1> QED BY <1>2, <1>3, <1>4, <1>5, <1>6, StatusStep

\* What waits is done or begins, and the captain may pay.
LEMMA TaskStep ==
    ASSUME FinanceAssumption, FinanceInv,
           UNCHANGED <<settlement, finalized, refund, adjusted, allocated,
                       intent, refused, stale>>,
           paid \subseteq paid', paid' \subseteq Payments,
           \A h \in Handlers : IsTask(task'[h]),
           task' = [h \in Handlers |-> task'[h]],
           \A h \in Handlers :
             task'[h] = task[h] \/ task'[h] = NoTask \/ Begins(h)
    PROVE  FinanceInv'
<1>1. FinanceTypeOK'
  BY DEF FinanceInv, Rows, FinanceTypeOK
<1>2. IntentRows' /\ Posted'
  BY DEF FinanceInv, IntentRows, Posted, Recorded
<1>3. TaskRows'
  <2>1. Eased
    BY EasedQuiet DEF FinanceInv
  <2> QED BY <2>1, TasksKept DEF FinanceInv
<1> QED BY <1>1, <1>2, <1>3, QuietStep

LEMMA VerifyUnpaidStep ==
    ASSUME FinanceAssumption, FinanceInv, NEW h \in Handlers,
           NEW i \in Payments, VerifyUnpaid(h, i)
    PROVE  FinanceInv'
<1> DEFINE v == [op |-> "MARK_FAILED", payment |-> i]
<1>1. /\ intent[i].status # "NONE" /\ task' = [task EXCEPT ![h] = v]
      /\ UNCHANGED <<settlement, finalized, refund, adjusted, allocated,
                     intent, paid, refused, stale>>
  BY DEF VerifyUnpaid
<1>2. IsTask(v) /\ Knows(v)
  BY <1>1 DEF IsTask, Knows
<1> HIDE DEF v
<1>3. /\ task' = [g \in Handlers |-> task'[g]]
      /\ \A g \in Handlers : task'[g] = IF g = h THEN v ELSE task[g]
  BY <1>1 DEF FinanceInv, TaskRows
<1>4. /\ \A g \in Handlers : IsTask(task'[g])
      /\ \A g \in Handlers : task'[g] = task[g] \/ Begins(g)
  BY <1>2, <1>3 DEF FinanceInv, Rows, FinanceTypeOK, Begins
<1>5. paid' \subseteq Payments
  BY <1>1 DEF FinanceInv, Rows, FinanceTypeOK
<1> QED BY <1>1, <1>3, <1>4, <1>5, TaskStep

LEMMA BeginResolveStep ==
    ASSUME FinanceAssumption, FinanceInv, NEW h \in Handlers, NEW t \in Trips,
           BeginResolveDispute(h, t)
    PROVE  FinanceInv'
<1> DEFINE status == IF \E r \in RefundsOf(t) : Due(r) THEN "REFUND_PENDING"
                     ELSE ReconciliationState(t)
<1>1. PICK v : v = [op |-> "RESOLVE", trip |-> t, read |-> RowsOf(t),
                    status |-> status]
  OBVIOUS
<1>2. /\ settlement[t].status = "DISPUTED" /\ task' = [task EXCEPT ![h] = v]
      /\ \A r \in RefundsOf(t) : ~refund[r].review
      /\ UNCHANGED <<settlement, finalized, refund, adjusted, allocated,
                     intent, paid, refused, stale>>
  BY <1>1 DEF BeginResolveDispute
<1>3. /\ v.op = "RESOLVE" /\ v.trip = t /\ v.status = status
      /\ v.read[2] = [r \in RefundsOf(t) |-> refund[r]]
  BY <1>1 DEF RowsOf
<1>4. status \in Statuses /\ status # "NONE"
  BY StateIs DEF Statuses
<1>5. IsTask(v)
  BY <1>3, <1>4 DEF IsTask
<1>6. ResolveRow(v)
  <2>1. t \in Settled
    BY <1>2 DEF Settled
  <2>2. ASSUME NEW r \in DOMAIN v.read[2],
               v.read[2][r].status = "CASH_REFUND_DUE"
        PROVE  status = "REFUND_PENDING"
    <3>1. r \in RefundsOf(t) /\ Due(r)
      BY <1>3, <2>2 DEF Due
    <3> QED BY <3>1
  <2>3. status = "RECONCILED" => Outstanding(t) = 0
    BY StateIs
  <2>4. \A r \in DOMAIN v.read[2] : ~v.read[2][r].review
    BY <1>2, <1>3
  <2> QED BY <1>3, <1>4, <2>1, <2>2, <2>3, <2>4 DEF ResolveRow
<1>7. Knows(v)
  BY <1>3, <1>6 DEF Knows
<1>8. /\ task' = [g \in Handlers |-> task'[g]]
      /\ \A g \in Handlers : task'[g] = IF g = h THEN v ELSE task[g]
  BY <1>2 DEF FinanceInv, TaskRows
<1>9. /\ \A g \in Handlers : IsTask(task'[g])
      /\ \A g \in Handlers : task'[g] = task[g] \/ Begins(g)
  BY <1>5, <1>7, <1>8 DEF FinanceInv, Rows, FinanceTypeOK, Begins
<1>10. paid' \subseteq Payments
  BY <1>2 DEF FinanceInv, Rows, FinanceTypeOK
<1> QED BY <1>2, <1>8, <1>9, <1>10, TaskStep

-----------------------------------------------------------------------------
(***************************************************************************)
(* The invariant holds.                                                    *)
(***************************************************************************)

\* The row a settlement starts from.
LEMMA EmptyRow ==
    /\ NoSettlement \in Settlement
    /\ NoSettlement.adjustment = 0 /\ NoSettlement.remitted = 0
    /\ NoSettlement.refunded = 0
BY DEF NoSettlement, Settlement, Statuses

LEMMA InitInv == ASSUME FinanceAssumption, FinanceInit PROVE FinanceInv
<1>1. FinanceTypeOK
  <2>1. "NONE" \in Statuses /\ NoSettlement \in Settlement
    BY DEF NoSettlement, Settlement, Statuses
  <2>2. NoRefund \in Refund /\ NoRefund.platform <= NoRefund.amount
    BY DEF NoRefund, Refund
  <2>3. \A i \in Payments : intent[i] \in Intent
    BY DEF FinanceInit, Intent
  <2>4. intent \in [Payments -> Intent]
    BY <2>3 DEF FinanceInit
  <2> QED BY <2>1, <2>2, <2>4 DEF FinanceInit, FinanceTypeOK, IsTask
<1>2. Settled = {} /\ Approved = {}
  BY DEF FinanceInit, Settled, Approved, NoSettlement, NoRefund
<1>3. FiniteRows
  BY <1>2, FS_EmptySet DEF FinanceInit, FiniteRows
<1>4. RefundRows /\ SettlementRows
  BY DEF FinanceInit, RefundRows, RefundRow, SettlementRows, NoRefund
<1>5. Ordered
  BY <1>2 DEF FinanceInit, Ordered
<1>6. Rows
  BY <1>1, <1>3, <1>4, <1>5 DEF Rows
<1>7. IntentRows /\ TaskRows
  BY DEF FinanceInit, IntentRows, TaskRows, Recorded, NoTask
<1>8. Agrees
  <2>1. \A t \in Trips : AllocTo(allocated, t) = 0
    <3> SUFFICES ASSUME NEW t \in Trips PROVE AllocTo(allocated, t) = 0
      OBVIOUS
    <3>1. {a \in allocated : a[2] = t} = {}
      BY DEF FinanceInit
    <3>2. MapThenSumSet(AmountIn, {}) = SumOver(AmountIs, {})
      BY FS_EmptySet, AllocationSum
    <3> QED BY <3>1, <3>2, SumEmpty DEF AllocTo
  <2> QED BY <2>1 DEF FinanceInit, Agrees, NoSettlement
<1>9. Refunded
  <2>1. \A t \in Trips : AmountOf(refund, t) = 0
    <3> SUFFICES ASSUME NEW t \in Trips PROVE AmountOf(refund, t) = 0
      OBVIOUS
    <3>1. RefundsFor(refund, t) = {}
      BY DEF FinanceInit, RefundsFor, NoRefund, FinanceAssumption
    <3>2. AmountOf(refund, t) = SumOver(AmountFrom(refund), {})
      BY <3>1, FS_EmptySet, AmountSum
    <3> QED BY <3>2, SumEmpty
  <2> QED BY <2>1 DEF FinanceInit, Refunded, NoSettlement, FinanceAssumption
<1>10. Posted
  BY DEF FinanceInit, Posted, Recorded
<1>11. ReconciledMeansPaid /\ PendingRefundHeld
  BY DEF FinanceInit, ReconciledMeansPaid, PendingRefundHeld, HoldsBack, Due,
         Unallocated, NoSettlement, NoRefund
<1> QED BY <1>6, <1>7, <1>8, <1>9, <1>10, <1>11 DEF FinanceInv

LEMMA NextInv ==
    ASSUME FinanceAssumption, FinanceInv, [FinanceNext]_financeVars
    PROVE  FinanceInv'
<1>1. ASSUME NEW t \in Trips, CreateCompletedSettlement(t) PROVE FinanceInv'
  <2> DEFINE row == [NoSettlement EXCEPT !.status = "PENDING", !.normal = TRUE]
  <2>1. /\ row \in Settlement /\ row.status = "PENDING"
        /\ row.adjustment = 0 /\ row.remitted = 0 /\ row.refunded = 0
    BY EmptyRow DEF Settlement, Statuses
  <2>2. Settle(t, row)
    BY <1>1 DEF CreateCompletedSettlement
  <2> HIDE DEF row
  <2> QED BY <2>1, <2>2, SettleStep
<1>2. ASSUME NEW t \in Trips, CreateClosedRideOutcome(t) PROVE FinanceInv'
  <2>1. PICK status \in {"CANCELLED", "DISPUTED"} :
          Settle(t, [NoSettlement EXCEPT !.status = status])
    BY <1>2 DEF CreateClosedRideOutcome
  <2> DEFINE row == [NoSettlement EXCEPT !.status = status]
  <2>2. /\ row \in Settlement /\ row.status \notin {"NONE", "RECONCILED"}
        /\ row.adjustment = 0 /\ row.remitted = 0 /\ row.refunded = 0
    BY EmptyRow DEF Settlement, Statuses
  <2>3. Settle(t, row)
    BY <2>1
  <2> HIDE DEF row
  <2> QED BY <2>2, <2>3, SettleStep
<1>3. ASSUME NEW i \in Payments, Initialized(i) PROVE FinanceInv'
  <2>1. PICK status \in {"INITIALIZED", "FAILED"} : SetIntent(i, status)
    BY <1>3 DEF Initialized
  <2>2. intent[i].status # "NONE" /\ UNCHANGED <<paid, task, refused>>
    BY <1>3 DEF Initialized
  <2>3. /\ \A h \in Handlers : IsTask(task'[h])
        /\ task' = [h \in Handlers |-> task'[h]]
        /\ \A h \in Handlers : task'[h] = task[h] \/ task'[h] = NoTask
    BY <2>2 DEF FinanceInv, Rows, FinanceTypeOK, TaskRows
  <2> QED BY <2>1, <2>2, <2>3, StatusStep
<1>4. ASSUME NEW i \in Payments, Pay(i) PROVE FinanceInv'
  <2>1. /\ paid' = paid \cup {i}
        /\ UNCHANGED <<settlement, finalized, refund, adjusted, allocated,
                       intent, task, refused, stale>>
    BY <1>4 DEF Pay
  <2>2. /\ \A h \in Handlers : IsTask(task'[h])
        /\ task' = [h \in Handlers |-> task'[h]]
        /\ \A h \in Handlers : task'[h] = task[h]
        /\ paid \subseteq paid' /\ paid' \subseteq Payments
    BY <2>1 DEF FinanceInv, Rows, FinanceTypeOK, TaskRows
  <2> QED BY <2>1, <2>2, TaskStep
<1>5. ASSUME NEW h \in Handlers, Abandon(h) PROVE FinanceInv'
  <2>1. /\ task' = [task EXCEPT ![h] = NoTask]
        /\ UNCHANGED <<settlement, finalized, refund, adjusted, allocated,
                       intent, paid, refused, stale>>
    BY <1>5 DEF Abandon
  <2>2. /\ task' = [g \in Handlers |-> task'[g]]
        /\ \A g \in Handlers : task'[g] = IF g = h THEN NoTask ELSE task[g]
    BY <2>1 DEF FinanceInv, TaskRows
  <2>3. /\ \A g \in Handlers : IsTask(task'[g])
        /\ \A g \in Handlers : task'[g] = task[g] \/ task'[g] = NoTask
        /\ paid' \subseteq Payments
    BY <2>1, <2>2 DEF FinanceInv, Rows, FinanceTypeOK, IsTask
  <2> QED BY <2>1, <2>2, <2>3, TaskStep
<1>6. ASSUME UNCHANGED financeVars PROVE FinanceInv'
  <2>1. /\ UNCHANGED <<settlement, finalized, refund, adjusted, allocated,
                       intent, paid, task, refused, stale>>
    BY <1>6 DEF financeVars
  <2>2. /\ \A h \in Handlers : IsTask(task'[h])
        /\ task' = [h \in Handlers |-> task'[h]]
        /\ \A h \in Handlers : task'[h] = task[h]
        /\ paid' \subseteq Payments
    BY <2>1 DEF FinanceInv, Rows, FinanceTypeOK, TaskRows
  <2> QED BY <2>1, <2>2, TaskStep
<1>7. CASE FinanceNext
  <2>1. ASSUME NEW t \in Trips,
               \/ CreateCompletedSettlement(t) \/ CreateClosedRideOutcome(t)
               \/ \E r \in Refunds, review \in BOOLEAN, amount \in Amounts :
                    \E platform \in 0..(amount + 1) :
                       ApproveRefund(r, t, amount, review, platform)
               \/ \E k \in Adjustments, delta \in Deltas, review \in BOOLEAN :
                     CreateAdjustment(k, t, delta, review)
               \/ OpenDispute(t)
               \/ \E h \in Handlers : BeginResolveDispute(h, t)
        PROVE  FinanceInv'
    BY <1>1, <1>2, <2>1, ApproveRefundStep, CreateAdjustmentStep,
       OpenDisputeStep, BeginResolveStep
  <2>2. ASSUME NEW i \in Payments,
               \/ Initialize(i) \/ Initialized(i) \/ Pay(i)
               \/ ProcessVerified(i) \/ \E h \in Handlers : VerifyUnpaid(h, i)
        PROVE  FinanceInv'
    BY <1>3, <1>4, <2>2, InitializeStep, ProcessVerifiedStep, VerifyUnpaidStep
  <2>3. ASSUME NEW h \in Handlers,
               \/ MarkVerificationFailure(h) \/ CommitResolveDispute(h)
               \/ Abandon(h)
        PROVE  FinanceInv'
    BY <1>5, <2>3, MarkVerificationFailureStep, CommitResolveStep
  <2> QED BY <1>7, <2>1, <2>2, <2>3, RecordRemittanceStep,
             SettleCashRefundStep, AllocateStep DEF FinanceNext
<1> QED BY <1>6, <1>7

-----------------------------------------------------------------------------
(***************************************************************************)
(* The theorems.                                                           *)
(***************************************************************************)

LEMMA FinanceInvariant ==
    ASSUME FinanceAssumption PROVE FinanceSpec => []FinanceInv
<1>1. FinanceInit => FinanceInv
  BY InitInv
<1>2. FinanceInv /\ [FinanceNext]_financeVars => FinanceInv'
  BY NextInv
<1> QED BY <1>1, <1>2, PTL DEF FinanceSpec

\* Every row keeps its type: amounts stay whole and never negative, the
\* platform's part of a refund stays within it, and a request in flight holds
\* a row that exists.
THEOREM FinanceTypeCorrect ==
    ASSUME FinanceAssumption PROVE FinanceSpec => []FinanceTypeOK
<1>1. FinanceInv => FinanceTypeOK
  BY DEF FinanceInv, Rows
<1> QED BY <1>1, FinanceInvariant, PTL

\* What settlements say was remitted and refunded is what the remittances and
\* the refunds add up to, refunds stay within the fare, and a posted payment
\* was made and reached the settlements in full and once.
THEOREM BooksBalance ==
    ASSUME FinanceAssumption PROVE FinanceSpec => []AccountsBalance
<1>1. FinanceInv => AccountsBalance
  BY AmountsAre DEF FinanceInv, Agrees, Refunded, Posted, AccountsBalance,
                    AllocatedTo, AllocatedFrom, AllocTo, AllocFrom
<1> QED BY <1>1, FinanceInvariant, PTL

\* A reconciled settlement owes nothing unless an adjustment raised it since.
THEOREM ReconciledIsPaid ==
    ASSUME FinanceAssumption PROVE FinanceSpec => []ReconciledMeansPaid
<1>1. FinanceInv => ReconciledMeansPaid
  BY DEF FinanceInv
<1> QED BY <1>1, FinanceInvariant, PTL

\* A settlement is held back from collection while a cash refund is due, and
\* while a refund has no bearer and none that has one was settled, unless a
\* dispute was resolved on rows read before they changed.
THEOREM RefundsHeldBack ==
    ASSUME FinanceAssumption PROVE FinanceSpec => []PendingRefundHeld
<1>1. FinanceInv => PendingRefundHeld
  BY DEF FinanceInv
<1> QED BY <1>1, FinanceInvariant, PTL

\* What one step may take from ride t.
WithinOwed(t) ==
    settlement'[t].remitted > settlement[t].remitted =>
      /\ settlement'[t].remitted <= Obligation(t)
      /\ settlement[t].status \in {"PENDING", "PARTIALLY_RECONCILED"}

LEMMA PaidWithinOwed ==
    ASSUME FinanceAssumption, FinanceInv, NEW t \in Trips, Paid(t)
    PROVE  WithinOwed(t)
<1>1. /\ settlement[t] \in Settlement /\ settlement[t].remitted \in Nat
      /\ Obligation(t) \in Nat /\ Outstanding(t) \in Nat
  BY Owing DEF FinanceInv, Rows, FinanceTypeOK, Settlement
<1>2. CASE settlement'[t] = settlement[t]
  BY <1>1, <1>2 DEF WithinOwed
<1>3. CASE settlement'[t] # settlement[t]
  <2>1. PICK p \in Nat :
          /\ t \in Collectible /\ p > 0 /\ p <= Outstanding(t)
          /\ settlement'[t] =
               [settlement[t] EXCEPT
                  !.remitted = @ + p,
                  !.status = PaidStatus(Outstanding(t) - p)]
    BY <1>3 DEF Paid
  <2>2. settlement'[t].remitted = settlement[t].remitted + p
    BY <1>1, <2>1 DEF Settlement
  <2>3. settlement[t].remitted + p <= Obligation(t)
    BY <1>1, <2>1 DEF Outstanding, AtLeastZero
  <2> QED BY <2>1, <2>2, <2>3 DEF WithinOwed, Collectible
<1> QED BY <1>2, <1>3

LEMMA NextWithinOwed ==
    ASSUME FinanceAssumption, FinanceInv, [FinanceNext]_financeVars,
           NEW t \in Trips
    PROVE  WithinOwed(t)
<1>1. /\ settlement \in [Trips -> Settlement] /\ settlement[t] \in Settlement
      /\ settlement[t].remitted \in Nat
      /\ settlement[t].status = "NONE" => settlement[t].remitted = 0
  <2>1. settlement[t].status = "NONE" => settlement[t].remitted = 0
    BY EmptyRow DEF FinanceInv, Rows, SettlementRows, Settled
  <2> QED BY <2>1 DEF FinanceInv, Rows, FinanceTypeOK, Settlement
<1>2. ASSUME settlement'[t].remitted = settlement[t].remitted
      PROVE  WithinOwed(t)
  BY <1>1, <1>2 DEF WithinOwed
<1>3. ASSUME settlement' = settlement PROVE WithinOwed(t)
  BY <1>2, <1>3
<1>4. ASSUME NEW s \in Trips, NEW row, row.remitted = settlement[s].remitted,
             settlement' = [settlement EXCEPT ![s] = row]
      PROVE  WithinOwed(t)
  <2>1. settlement'[t] = IF t = s THEN row ELSE settlement[t]
    BY <1>1, <1>4
  <2> QED BY <1>2, <1>4, <2>1
<1>5. ASSUME NEW s \in Trips, NEW row, row.remitted = 0, Settle(s, row)
      PROVE  WithinOwed(t)
  <2>1. /\ settlement[s].status = "NONE"
        /\ settlement' = [settlement EXCEPT ![s] = row]
    BY <1>5 DEF Settle
  <2>2. settlement'[t] = IF t = s THEN row ELSE settlement[t]
    BY <1>1, <2>1
  <2> QED BY <1>1, <1>2, <1>5, <2>1, <2>2
<1>6. ASSUME NEW ref \in References, NEW amount \in Nat, amount > 0,
             ~Recorded(ref), WithinBalance(amount), Apply(ref, amount)
      PROVE  WithinOwed(t)
  BY <1>6, ApplyStep, PaidWithinOwed DEF FinanceInv
<1>7. ASSUME NEW s \in Trips, CreateCompletedSettlement(s)
      PROVE  WithinOwed(t)
  <2> DEFINE row == [NoSettlement EXCEPT !.status = "PENDING", !.normal = TRUE]
  <2>1. row.remitted = 0 /\ Settle(s, row)
    BY <1>7, EmptyRow DEF CreateCompletedSettlement, Settlement
  <2> HIDE DEF row
  <2> QED BY <1>5, <2>1
<1>8. ASSUME NEW s \in Trips, CreateClosedRideOutcome(s)
      PROVE  WithinOwed(t)
  <2>1. PICK status \in {"CANCELLED", "DISPUTED"} :
          Settle(s, [NoSettlement EXCEPT !.status = status])
    BY <1>8 DEF CreateClosedRideOutcome
  <2> DEFINE row == [NoSettlement EXCEPT !.status = status]
  <2>2. row.remitted = 0 /\ Settle(s, row)
    BY <2>1, EmptyRow DEF Settlement
  <2> HIDE DEF row
  <2> QED BY <1>5, <2>2
<1>9. \A s \in Trips : settlement[s] \in Settlement
  BY <1>1
<1>10. ASSUME NEW r \in Refunds, NEW s \in Trips, NEW amount \in Amounts,
              NEW review \in BOOLEAN, NEW platform,
              ApproveRefund(r, s, amount, review, platform)
       PROVE  WithinOwed(t)
  <2> DEFINE row == [settlement[s] EXCEPT
                       !.refunded = @ + amount, !.adjustment = @ - platform,
                       !.status = IF review THEN "DISPUTED"
                                  ELSE "REFUND_PENDING"]
  <2>1. settlement' = [settlement EXCEPT ![s] = row]
    BY <1>10 DEF ApproveRefund
  <2>2. row.remitted = settlement[s].remitted
    BY <1>9 DEF Settlement
  <2> HIDE DEF row
  <2> QED BY <1>4, <2>1, <2>2
<1>11. ASSUME NEW k \in Adjustments, NEW s \in Trips, NEW delta \in Deltas,
              NEW review \in BOOLEAN, CreateAdjustment(k, s, delta, review)
       PROVE  WithinOwed(t)
  <2> DEFINE row == [settlement[s] EXCEPT
                       !.adjustment = @ + delta,
                       !.status = IF review THEN "DISPUTED" ELSE @]
  <2>1. settlement' = [settlement EXCEPT ![s] = row]
    BY <1>11 DEF CreateAdjustment
  <2>2. row.remitted = settlement[s].remitted
    BY <1>9 DEF Settlement
  <2> HIDE DEF row
  <2> QED BY <1>4, <2>1, <2>2
<1>12. ASSUME NEW s \in Trips, NEW status,
              settlement' = [settlement EXCEPT ![s].status = status]
       PROVE  WithinOwed(t)
  <2> DEFINE row == [settlement[s] EXCEPT !.status = status]
  <2>1. settlement' = [settlement EXCEPT ![s] = row]
    BY <1>12
  <2>2. row.remitted = settlement[s].remitted
    BY <1>9 DEF Settlement
  <2> HIDE DEF row
  <2> QED BY <1>4, <2>1, <2>2
<1>13. ASSUME NEW r \in Refunds, refund[r].status # "NONE"
       PROVE  refund[r].trip \in Trips
  BY <1>13 DEF FinanceInv, Rows, RefundRows, RefundRow, Settled
<1>14. ASSUME NEW r \in Refunds, SettleCashRefund(r) PROVE WithinOwed(t)
  <2>1. refund[r].trip \in Trips
    BY <1>13, <1>14 DEF SettleCashRefund, Due
  <2>2. \/ settlement' = settlement
        \/ \E status : settlement' =
                         [settlement EXCEPT ![refund[r].trip].status = status]
    BY <1>14 DEF SettleCashRefund
  <2> QED BY <1>3, <1>12, <2>1, <2>2
<1>15. ASSUME NEW r \in Refunds, NEW platform,
              AllocateRefundResponsibility(r, platform)
       PROVE  WithinOwed(t)
  <2> DEFINE s == refund[r].trip
             status ==
               IF \E q \in RefundsOf(s) \ {r} : refund[q].review
               THEN "DISPUTED"
               ELSE IF \E q \in RefundsOf(s) : Due(q) THEN "REFUND_PENDING"
               ELSE ReconciliationState(s)
             row == [settlement[s] EXCEPT !.adjustment = @ - platform,
                                          !.status = status]
  <2>1. settlement' = [settlement EXCEPT ![s] = row] /\ s \in Trips
    BY <1>13, <1>15 DEF AllocateRefundResponsibility
  <2> HIDE DEF s, status
  <2>2. row.remitted = settlement[s].remitted
    BY <1>9, <2>1 DEF Settlement
  <2> HIDE DEF row
  <2> QED BY <1>4, <2>1, <2>2
<1>16. ASSUME NEW s \in Trips, OpenDispute(s) PROVE WithinOwed(t)
  BY <1>12, <1>16 DEF OpenDispute
<1>17. ASSUME NEW h \in Handlers, CommitResolveDispute(h) PROVE WithinOwed(t)
  <2>1. task[h].trip \in Trips
    BY <1>17 DEF CommitResolveDispute, FinanceInv, Rows, FinanceTypeOK, IsTask,
                 NoTask
  <2> QED BY <1>12, <1>17, <2>1 DEF CommitResolveDispute
<1>18. ASSUME NEW ref \in Manual, NEW amount \in 0..TotalOutstanding,
              RecordRemittance(ref, amount)
       PROVE  WithinOwed(t)
  <2>1. ref \in References /\ amount \in Nat
    BY DEF References
  <2> QED BY <1>6, <1>18, <2>1 DEF RecordRemittance
<1>19. ASSUME NEW i \in Payments, ProcessVerified(i) PROVE WithinOwed(t)
  <2> DEFINE amount == intent[i].amount
  <2>1. i \in References /\ amount \in Nat /\ amount > 0 /\ ~Recorded(i)
    BY <1>19 DEF ProcessVerified, Postable, FinanceInv, Rows, FinanceTypeOK,
                 IntentRows, References, Intent
  <2>2. \/ WithinBalance(amount) /\ Apply(i, amount)
        \/ settlement' = settlement
    BY <1>19 DEF ProcessVerified
  <2> HIDE DEF amount
  <2> QED BY <1>3, <1>6, <2>1, <2>2
<1>20. CASE FinanceNext
  <2>1. ASSUME NEW s \in Trips,
               \/ CreateCompletedSettlement(s) \/ CreateClosedRideOutcome(s)
               \/ \E r \in Refunds, review \in BOOLEAN, amount \in Amounts :
                    \E platform \in 0..(amount + 1) :
                       ApproveRefund(r, s, amount, review, platform)
               \/ \E k \in Adjustments, delta \in Deltas, review \in BOOLEAN :
                     CreateAdjustment(k, s, delta, review)
               \/ OpenDispute(s)
               \/ \E h \in Handlers : BeginResolveDispute(h, s)
        PROVE  WithinOwed(t)
    BY <1>3, <1>7, <1>8, <1>10, <1>11, <1>16, <2>1 DEF BeginResolveDispute
  <2>2. ASSUME NEW i \in Payments,
               \/ Initialize(i) \/ Initialized(i) \/ Pay(i)
               \/ ProcessVerified(i) \/ \E h \in Handlers : VerifyUnpaid(h, i)
        PROVE  WithinOwed(t)
    BY <1>3, <1>19, <2>2 DEF Initialize, Initialized, SetIntent, Pay,
                             VerifyUnpaid
  <2>3. ASSUME NEW h \in Handlers,
               \/ MarkVerificationFailure(h) \/ CommitResolveDispute(h)
               \/ Abandon(h)
        PROVE  WithinOwed(t)
    BY <1>3, <1>17, <2>3 DEF MarkVerificationFailure, SetIntent, Abandon
  <2> QED BY <1>14, <1>15, <1>18, <1>20, <2>1, <2>2, <2>3 DEF FinanceNext
<1> QED BY <1>3, <1>20 DEF financeVars

\* A remittance takes from no settlement more than it owes, and nothing from
\* one that is disputed or has a refund pending.
THEOREM NothingOverRemitted ==
    ASSUME FinanceAssumption PROVE FinanceSpec => NeverOverRemitted
<1>1. FinanceInv /\ [FinanceNext]_financeVars =>
        \A t \in Trips : settlement'[t].remitted > settlement[t].remitted =>
           /\ settlement'[t].remitted <= Obligation(t)
           /\ settlement[t].status \in {"PENDING", "PARTIALLY_RECONCILED"}
  BY NextWithinOwed DEF WithinOwed
<1> QED BY <1>1, FinanceInvariant, PTL DEF FinanceSpec, NeverOverRemitted
===============================================================================
