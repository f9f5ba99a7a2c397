------------------------------ MODULE MCCaptain -------------------------------
(***************************************************************************)
(* Instances of CaptainDispatch for TLC.                                   *)
(***************************************************************************)
EXTENDS CaptainDispatch, TLC

CONSTANTS c1, o1, t1, t2, h1, h2, ada

OneCash == o1 :> "CASH"
OneRide == t1 :> ada
TwoRides == t1 :> ada @@ t2 :> ada

Symmetry == Permutations(Handlers)

-----------------------------------------------------------------------------
(***************************************************************************)
(* Contention: the orders are ready, the rides requested, every captain    *)
(* wants both and is shown as available for both.  The constraint follows  *)
(* the work up to its acceptance, the part in which it is handed out.      *)
(***************************************************************************)
ContendedInit ==
    /\ captain = [c \in Captains |->
         [work |-> Nothing, stage |-> "NONE", desired |-> Modes,
          verification |-> "ACTIVE", availability |-> "ONLINE",
          profile |-> "ACTIVE", taxiAvailable |-> TRUE]]
    /\ request = [h \in Handlers |-> Idle]
    /\ order = [o \in Orders |->
         [NewOrder(Kind[o]) EXCEPT !.status = "READY_FOR_PICKUP"]]
    /\ earnings = {}
    /\ settlements = {}
    /\ completions = [o \in Orders |-> 0]
    /\ trip = [t \in Trips |-> [NoTrip EXCEPT !.status = "REQUESTED"]]
    /\ aged = {}

ContendedSpec == ContendedInit /\ [][DispatchNext]_dispatchVars

Early ==
    /\ \A o \in Orders : order[o].status \in
         {"READY_FOR_PICKUP", "RIDER_ASSIGNED", "RIDER_ARRIVING_PICKUP"}
    /\ \A t \in Trips :
         trip[t].status \in {"REQUESTED", "DRIVER_ASSIGNED", "ACCEPTED"}
=============================================================================
