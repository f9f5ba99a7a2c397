------------------------------- MODULE MCWallet --------------------------------
(***************************************************************************)
(* Instances of CustomerWallet for TLC.                                    *)
(***************************************************************************)
EXTENDS CustomerWallet, TLC

CONSTANTS t1, o1, p1, a1, k1, h1, h2

\* Amounts that differ, so that sums tell the entries apart: the top-up covers
\* the purchase or the order, not both.
Amounts == t1 :> 3 @@ o1 :> 2 @@ p1 :> 2 @@ a1 :> 1 @@ k1 :> 1
OneTopUp == t1 :> 3

Symmetry == Permutations(Handlers)
=============================================================================
