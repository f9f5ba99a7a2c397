--------------------------- MODULE CaptainDispatch ----------------------------
(***************************************************************************)
(* Deliveries and rides together.  The two dispatchers share nothing but   *)
(* the captain's rows; the cross-mode lock is all that keeps them from     *)
(* giving one captain two pieces of work.                                  *)
(***************************************************************************)
EXTENDS DeliveryDispatch, RideDispatch

dispatchVars == <<captainVars, orderVars, tripVars>>

DispatchInit == DeliveryInit /\ RideInit

DispatchNext ==
    \/ DeliveryStep /\ UNCHANGED tripVars
    \/ RideStep /\ UNCHANGED orderVars
    \/ CaptainNext /\ UNCHANGED <<orderVars, tripVars>>

DispatchSpec == DispatchInit /\ [][DispatchNext]_dispatchVars

-----------------------------------------------------------------------------
\* What captain c has in hand.
InHand(c) ==
    {o \in Orders : order[o].status \in Delivering /\ order[o].rider = c}
      \cup
    {t \in Trips : trip[t].status \in Underway /\ trip[t].driver = c}

\* While requests do not overlap a captain has one delivery or one ride in
\* hand, from the offer to the end of the work, although the two dispatchers
\* never look at each other's tables.
OneJobAtATime ==
    \A c \in Captains : \A v, w \in InHand(c) : v = w

\* Every step of either dispatcher is a step of the lock.
DispatchLock == INSTANCE CaptainLock
                  WITH holds <- [c \in Captains |-> captain[c].work]

DispatchLockRefinement == DispatchLock!Spec
=============================================================================
