------------------------------- MODULE MCFinance -------------------------------
(***************************************************************************)
(* Instances of RideFinance for TLC.                                       *)
(***************************************************************************)
EXTENDS RideFinance, TLC

CONSTANTS t1, t2, m1, i1, r1, r2, k1, h1

\* A ride worth two and one worth one: a payment of two may split either way.
Fares == t1 :> 2 @@ t2 :> 1
Commissions == t1 :> 2 @@ t2 :> 1
UpOrDown == {1, -1}

\* Bound: the refunds, adjustments, remittances and payments of a behaviour.
FewMovements ==
    Cardinality({r \in Refunds : refund[r].status # "NONE"})
      + Cardinality(adjusted)
      + Cardinality({i \in Payments : intent[i].status # "NONE"})
      + Cardinality({m \in Manual : Recorded(m)}) <= 3

Symmetry == Permutations(Refunds)
=============================================================================
