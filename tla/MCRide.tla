-------------------------------- MODULE MCRide --------------------------------
(***************************************************************************)
(* Instances of RideDispatch for TLC.                                      *)
(***************************************************************************)
EXTENDS RideDispatch, TLC

CONSTANTS c1, c2, t1, h1, h2, ada

OneRide == t1 :> ada

Symmetry == Permutations(Captains) \cup Permutations(Handlers)

-----------------------------------------------------------------------------
(***************************************************************************)
(* The captains on duty: all of them have switched rides on, and nobody    *)
(* switches or suspends them.  The handlers of rides are left, which is    *)
(* enough to let two of them overlap in every way.                         *)
(***************************************************************************)
OnDutyInit ==
    /\ captain = [c \in Captains |->
         [work |-> Nothing, stage |-> "NONE", desired |-> {"RIDE"},
          verification |-> "ACTIVE", availability |-> "OFFLINE",
          profile |-> "ACTIVE", taxiAvailable |-> TRUE]]
    /\ request = [h \in Handlers |-> Idle]
    /\ trip = [t \in Trips |-> NoTrip]
    /\ aged = {}

OnDutyNext ==
    \/ RideStep
    \/ \E h \in Handlers : Abandon(h) /\ UNCHANGED tripVars

OnDutySpec == OnDutyInit /\ [][OnDutyNext]_rideVars

FairOnDutySpec == OnDutySpec /\ Fairness
=============================================================================
