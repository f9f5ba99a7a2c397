------------------------------ MODULE MCDelivery ------------------------------
(***************************************************************************)
(* Instances of DeliveryDispatch for TLC.                                  *)
(***************************************************************************)
EXTENDS DeliveryDispatch, TLC

CONSTANTS c1, c2, o1, o2, h1, h2

\* How the orders of the instance are placed and paid.
Mixed == o1 :> "ONLINE" @@ o2 :> "PARCEL"

Symmetry == Permutations(Captains) \cup Permutations(Handlers)
=============================================================================
