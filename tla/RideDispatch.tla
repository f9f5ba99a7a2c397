----------------------------- MODULE RideDispatch -----------------------------
(***************************************************************************)
(* The life of a ride (taxi.service.ts, with the settlement that           *)
(* ride-finance.service.ts writes when a ride closes).                     *)
(*                                                                         *)
(* As in DeliveryDispatch a handler begins (reads, checks) and commits     *)
(* (updateTripWithEvent: one READ COMMITTED transaction that writes the    *)
(* ride by primary key).  Rides that wait too long are closed by a sweep   *)
(* (expireStaleTrips) that every listing endpoint runs first; there is no  *)
(* timer in the backend.                                                   *)
(***************************************************************************)
EXTENDS CaptainWork

CONSTANTS
    Customers,
    CustomerOf     \* [Trips -> Customers]: who books the ride

ASSUME RideAssumption == CustomerOf \in [Trips -> Customers]

VARIABLES
    trip,          \* [Trips -> TripRow], with the ride's settlement and receipt
    aged           \* rides requested more than RIDES_REQUEST_EXPIRY_MINUTES ago

tripVars == <<trip, aged>>
rideVars == <<captainVars, tripVars>>

Waiting   == {"REQUESTED", "DRIVER_ASSIGNED"}
Underway  == {"DRIVER_ASSIGNED", "ACCEPTED", "ARRIVED_PICKUP", "STARTED",
              "ARRIVED_DESTINATION"}
Active    == {"REQUESTED"} \cup Underway
Cancelled == {"CANCELLED_BY_CUSTOMER", "CANCELLED_BY_DRIVER",
              "CANCELLED_BY_ADMIN"}
Closed    == Cancelled \cup {"COMPLETED", "EXPIRED"}

Outcomes == {"NONE", "NORMAL_COMPLETION", "ZERO_VALUE_CANCELLATION",
             "FINANCIAL_REVIEW_REQUIRED"}

TripRow ==
    [ status  : Active \cup Closed \cup {"NONE"},  \* NONE: no such row yet
      driver  : RideCaptains \cup {Nothing},
      outcome : Outcomes,                          \* TaxiRideSettlement, by tripId
      payee   : RideCaptains \cup {Nothing},       \* its driverProfileId
      receipt : BOOLEAN ]                          \* TaxiRideReceipt, by tripId

NoTrip == [status |-> "NONE", driver |-> Nothing, outcome |-> "NONE",
           payee |-> Nothing, receipt |-> FALSE]

-----------------------------------------------------------------------------
(***************************************************************************)
(* Faults: definitions of this module with a bug (README, "Faults").       *)
(***************************************************************************)

\* declining releases the captain and leaves the offer standing
TakenBackInPlace(r, expired) == r

\* the upsert of a settlement overwrites the one that is there
SettledAgain(r, outcome, payee) ==
    [r EXCEPT !.outcome = outcome, !.payee = payee]

\* completion makes the receipt and forgets the settlement
RideCompletedUnsettled(r, c) ==
    [r EXCEPT !.status = "COMPLETED", !.receipt = TRUE]

\* an admin may assign a ride in any status
AssignableAlways(status) == status # "NONE"

\* accepting writes a lock stage the enum has and no reader expects
RideStageWithAssigned == [ACCEPTED |-> "ASSIGNED", STARTED |-> "IN_PROGRESS"]

\* the sweep closes old requests and forgets the offers
StaleOffersNone(S) == {}

-----------------------------------------------------------------------------
(***************************************************************************)
(* What the transactions write on the ride's row r.                        *)
(***************************************************************************)

OfferedTo(r, c) == [r EXCEPT !.status = "DRIVER_ASSIGNED", !.driver = c]

\* decline, and the sweep on an offer: back to the queue, or closed
TakenBack(r, expired) ==
    [r EXCEPT !.status = IF expired THEN "EXPIRED" ELSE "REQUESTED",
              !.driver = Nothing]

\* The settlement is upserted with an empty update: the first outcome stays.
Settled(r, outcome, payee) ==
    IF r.outcome = "NONE"
    THEN [r EXCEPT !.outcome = outcome, !.payee = payee] ELSE r

RideCancelled(r, status, review) ==
    Settled([r EXCEPT !.status = status],
            IF review = "yes" THEN "FINANCIAL_REVIEW_REQUIRED"
                              ELSE "ZERO_VALUE_CANCELLATION",
            r.driver)

RideCompleted(r, c) ==
    Settled([r EXCEPT !.status = "COMPLETED", !.receipt = TRUE],
            "NORMAL_COMPLETION", c)

-----------------------------------------------------------------------------
(***************************************************************************)
(* The checks.                                                             *)
(***************************************************************************)

\* requireActiveTaxiDriverProfile, behind the guards of the controller
RideSignedIn(c) ==
    c \in RideCaptains /\ SignedIn(c) /\ captain[c].profile = "ACTIVE"

\* requireDriverTrip
DrivenBy(c, t) == RideSignedIn(c) /\ trip[t].driver = c

\* assertDriverHasNoActiveTrip, the ride itself excepted
NoOtherRide(c, t) ==
    \A u \in Trips \ {t} : trip[u].driver = c => trip[u].status \notin Active

Assignable(status) == status = "REQUESTED"

\* The steps a captain takes with a ride, each from one status only.
RIDE_STEPS ==
    { <<"DRIVER_ASSIGNED", "ACCEPTED">>, <<"ACCEPTED", "ARRIVED_PICKUP">>,
      <<"ARRIVED_PICKUP", "STARTED">>, <<"STARTED", "ARRIVED_DESTINATION">> }

RideMoves == {"ACCEPTED", "ARRIVED_PICKUP", "STARTED", "ARRIVED_DESTINATION"}

\* The steps that also move the stage of the lock.
RideStage == [ACCEPTED |-> "ACCEPTED", STARTED |-> "IN_PROGRESS"]

\* Who may cancel a ride, by the status that the cancellation gives it.
Cancellable(as, status) ==
    CASE as = "CANCELLED_BY_CUSTOMER" ->
           status \in {"REQUESTED", "DRIVER_ASSIGNED", "ACCEPTED"}
      [] as = "CANCELLED_BY_DRIVER" ->
           status \in Active \ {"STARTED", "ARRIVED_DESTINATION"}
      [] OTHER -> status \in Active

\* cancelTrip reads the ride again to decide whether money is at stake.
Reviewed(status) ==
    IF status \in {"STARTED", "ARRIVED_DESTINATION"} THEN "yes" ELSE "no"

-----------------------------------------------------------------------------
(***************************************************************************)
(* What the handlers keep of what they read.                               *)
(***************************************************************************)

Offers == Trips \X (RideCaptains \cup {Nothing}) \X BOOLEAN

RideRequests ==
    [op : {"assignRide"}, locking : BOOLEAN, trip : Trips, captain : RideCaptains]
      \cup
    [op : {"moveRide"}, trip : Trips, captain : RideCaptains, to : RideMoves]
      \cup
    [op : {"declineRide"}, trip : Trips, captain : RideCaptains, expired : BOOLEAN]
      \cup
    [op : {"completeRide"}, trip : Trips, captain : RideCaptains]
      \cup
    [op : {"cancelRide"}, trip : Trips, as : Cancelled,
     review : {"unread", "yes", "no"}]
      \cup
    [op : {"sweep"}, stale : SUBSET Trips, offers : SUBSET Offers]

ServeRide(h, q) ==
    /\ request[h] = Idle
    /\ request' = [request EXCEPT ![h] = q]
    /\ UNCHANGED <<captain, tripVars>>

-----------------------------------------------------------------------------
(***************************************************************************)
(* Customers book and cancel.                                              *)
(***************************************************************************)

\* createCustomerTrip: the check for another ride of the customer and the
\* INSERT are one serializable transaction.
CreateTrip(t) ==
    /\ trip[t].status = "NONE"
    /\ \A u \in Trips :
         CustomerOf[u] = CustomerOf[t] => trip[u].status \notin Active
    /\ trip' = [trip EXCEPT ![t].status = "REQUESTED"]
    /\ UNCHANGED <<captainVars, aged>>

\* customerCancelTrip, riderCancelTrip, adminCancelTrip
BeginCancelRide(h, t, as) ==
    /\ Cancellable(as, trip[t].status)
    /\ as = "CANCELLED_BY_DRIVER" =>
         \E c \in RideCaptains : DrivenBy(c, t)
    /\ ServeRide(h, [op |-> "cancelRide", trip |-> t, as |-> as,
                     review |-> "unread"])

\* cancelTrip: the second read, still outside the transaction
ReadForReview(h) ==
    LET q == request[h] IN
    /\ q.op = "cancelRide"
    /\ q.review = "unread"
    /\ request' = [request EXCEPT ![h].review = Reviewed(trip[q.trip].status)]
    /\ UNCHANGED <<captain, tripVars>>

\* The lock released is that of the captain the ride names by now.
CommitCancelRide(h, eligible) ==
    LET q == request[h]
        t == q.trip IN
    /\ q.op = "cancelRide"
    /\ q.review # "unread"
    /\ trip' = [trip EXCEPT ![t] = RideCancelled(@, q.as, q.review)]
    /\ captain' = [c \in Captains |->
         IF c = trip[t].driver THEN ReleaseLock(captain[c], t, eligible)
                               ELSE captain[c]]
    /\ request' = [request EXCEPT ![h] = Idle]
    /\ UNCHANGED aged

-----------------------------------------------------------------------------
(***************************************************************************)
(* Admins assign; captains accept, decline, drive and complete.            *)
(***************************************************************************)

BeginAssignRide(h, t, c) ==
    /\ RideSignedIn(c)
    /\ captain[c].taxiAvailable
    /\ Assignable(trip[t].status)
    /\ NoOtherRide(c, t)
    /\ ServeRide(h, [op |-> "assignRide", locking |-> FALSE,
                     trip |-> t, captain |-> c])

\* acquireLock: the read that precedes its conditional write
ReadRideLock(h) ==
    LET q == request[h] IN
    /\ q.op = "assignRide"
    /\ ~q.locking
    /\ "RIDE" \in captain[q.captain].desired
    /\ CanAcquire(captain[q.captain], q.trip)
    /\ request' = [request EXCEPT ![h].locking = TRUE]
    /\ UNCHANGED <<captain, tripVars>>

CommitAssignRide(h) ==
    LET q == request[h] IN
    /\ q.op = "assignRide"
    /\ q.locking
    /\ CanAcquire(captain[q.captain], q.trip)
    /\ captain' = [captain EXCEPT
         ![q.captain] = AcquireLock(@, q.trip, "OFFERED")]
    /\ trip' = [trip EXCEPT ![q.trip] = OfferedTo(@, q.captain)]
    /\ request' = [request EXCEPT ![h] = Idle]
    /\ UNCHANGED aged

\* acceptTaxiTrip, riderArrivedPickup, riderStartTrip, riderArrivedDestination
BeginMoveRide(h, t, c, to) ==
    /\ DrivenBy(c, t)
    /\ <<trip[t].status, to>> \in RIDE_STEPS
    /\ to = "ACCEPTED" => NoOtherRide(c, t)
    /\ ServeRide(h, [op |-> "moveRide", trip |-> t, captain |-> c, to |-> to])

CommitMoveRide(h) ==
    LET q == request[h] IN
    /\ q.op = "moveRide"
    /\ captain' = [captain EXCEPT
         ![q.captain] = IF q.to \in DOMAIN RideStage
                        THEN TransitionLock(@, q.trip, RideStage[q.to]) ELSE @]
    /\ trip' = [trip EXCEPT ![q.trip].status = q.to]
    /\ request' = [request EXCEPT ![h] = Idle]
    /\ UNCHANGED aged

BeginDeclineRide(h, t, c) ==
    /\ DrivenBy(c, t)
    /\ trip[t].status = "DRIVER_ASSIGNED"
    /\ ServeRide(h, [op |-> "declineRide", trip |-> t, captain |-> c,
                     expired |-> t \in aged])

CommitDeclineRide(h, eligible) ==
    LET q == request[h] IN
    /\ q.op = "declineRide"
    /\ trip' = [trip EXCEPT ![q.trip] = TakenBack(@, q.expired)]
    /\ captain' = [captain EXCEPT
         ![q.captain] = ReleaseLock(@, q.trip, eligible)]
    /\ request' = [request EXCEPT ![h] = Idle]
    /\ UNCHANGED aged

BeginCompleteRide(h, t, c) ==
    /\ DrivenBy(c, t)
    /\ trip[t].status = "ARRIVED_DESTINATION"
    /\ ServeRide(h, [op |-> "completeRide", trip |-> t, captain |-> c])

CommitCompleteRide(h, eligible) ==
    LET q == request[h] IN
    /\ q.op = "completeRide"
    /\ trip' = [trip EXCEPT ![q.trip] = RideCompleted(@, q.captain)]
    /\ captain' = [captain EXCEPT
         ![q.captain] = ReleaseLock(@, q.trip, eligible)]
    /\ request' = [request EXCEPT ![h] = Idle]
    /\ UNCHANGED aged

-----------------------------------------------------------------------------
(***************************************************************************)
(* Time passes, and expireStaleTrips closes what waited too long.          *)
(***************************************************************************)

\* Ten minutes after the request; looked at only while the ride is waiting.
GrowOld(t) ==
    /\ trip[t].status \in Waiting
    /\ t \notin aged
    /\ aged' = aged \cup {t}
    /\ UNCHANGED <<captainVars, trip>>

\* The offers the sweep finds past their 45 seconds: any of those open.
StaleOffers(S) ==
    {<<t, trip[t].driver, t \in aged>> :
       t \in {u \in S : trip[u].status = "DRIVER_ASSIGNED"}}

BeginSweep(h, late) ==
    LET stale == {t \in aged : trip[t].status = "REQUESTED"} IN
    /\ stale # {} \/ StaleOffers(late) # {}
    /\ ServeRide(h, [op |-> "sweep", stale |-> stale,
                     offers |-> StaleOffers(late)])

\* One transaction per ride found, requests first, offers after them.
SweepOn(h, q) ==
    request' = [request EXCEPT
      ![h] = IF q.stale = {} /\ q.offers = {} THEN Idle ELSE q]

\* The captain, if there is one by now, is neither disconnected nor released.
ExpireRequest(h, t) ==
    LET q == request[h] IN
    /\ q.op = "sweep"
    /\ t \in q.stale
    /\ trip' = [trip EXCEPT ![t].status = "EXPIRED"]
    /\ SweepOn(h, [q EXCEPT !.stale = @ \ {t}])
    /\ UNCHANGED <<captain, aged>>

ExpireOffer(h, x, eligible) ==
    LET q == request[h]
        t == x[1] IN
    /\ q.op = "sweep"
    /\ q.stale = {}
    /\ x \in q.offers
    /\ trip' = [trip EXCEPT ![t] = TakenBack(@, x[3])]
    /\ captain' = [c \in Captains |->
         IF c = x[2] THEN ReleaseLock(captain[c], t, eligible) ELSE captain[c]]
    /\ SweepOn(h, [q EXCEPT !.offers = @ \ {x}])
    /\ UNCHANGED aged

-----------------------------------------------------------------------------
RideInit ==
    /\ CaptainInit
    /\ trip = [t \in Trips |-> NoTrip]
    /\ aged = {}

BeginRide(h) ==
    \/ \E late \in SUBSET Trips : BeginSweep(h, late)
    \/ \E t \in Trips :
         \/ \E as \in Cancelled : BeginCancelRide(h, t, as)
         \/ \E c \in RideCaptains :
              \/ BeginAssignRide(h, t, c)
              \/ \E to \in RideMoves : BeginMoveRide(h, t, c, to)
              \/ BeginDeclineRide(h, t, c)
              \/ BeginCompleteRide(h, t, c)

CommitRide(h) ==
    \/ ReadRideLock(h)
    \/ ReadForReview(h)
    \/ CommitAssignRide(h)
    \/ CommitMoveRide(h)
    \/ \E t \in Trips : ExpireRequest(h, t)
    \/ \E eligible \in BOOLEAN :
         \/ CommitCancelRide(h, eligible)
         \/ CommitDeclineRide(h, eligible)
         \/ CommitCompleteRide(h, eligible)
         \/ \E x \in Offers : ExpireOffer(h, x, eligible)

RideStep ==
    \/ \E t \in Trips : CreateTrip(t) \/ GrowOld(t)
    \/ \E h \in Handlers : BeginRide(h) \/ CommitRide(h)

RideNext ==
    \/ RideStep
    \/ CaptainNext /\ UNCHANGED tripVars

RideSpec == RideInit /\ [][RideNext]_rideVars

-----------------------------------------------------------------------------
(***************************************************************************)
(* Fairness.  A ride that keeps waiting grows old.  While it waits the     *)
(* customer's app asks for it every minute and every answer is preceded by *)
(* a sweep, which finds every old request and every offer past its 45      *)
(* seconds; requests are answered or abandoned, and the transaction on one *)
(* ride is not aborted for ever.                                           *)
(***************************************************************************)
SweepFinds(h, t) == \E late \in SUBSET Trips : t \in late /\ BeginSweep(h, late)

SweepCloses(h, t) ==
    \/ ExpireRequest(h, t)
    \/ \E x \in Offers, eligible \in BOOLEAN :
         x[1] = t /\ ExpireOffer(h, x, eligible)

Fairness ==
    /\ \A t \in Trips :
         /\ WF_rideVars(GrowOld(t))
         /\ SF_rideVars(\E h \in Handlers : SweepFinds(h, t))
         /\ SF_rideVars(\E h \in Handlers : SweepCloses(h, t))
    /\ \A h \in Handlers :
         WF_rideVars(CommitRide(h) \/ (Abandon(h) /\ UNCHANGED tripVars))

FairRideSpec == RideSpec /\ Fairness

-----------------------------------------------------------------------------
\* Every column holds a value of its type, and every handler in flight holds
\* a snapshot of the shape its endpoint keeps.
RideTypeOK ==
    /\ captain \in [Captains -> CaptainRow]
    /\ request \in [Handlers -> {Idle} \cup AvailabilityRequests
                                  \cup LifecycleRequests \cup RideRequests]
    /\ trip \in [Trips -> TripRow]
    /\ aged \subseteq Trips

\* A ride on offer names a captain whose lock is held for it, however
\* assignments, declines, sweeps and cancellations overlap: no captain sees an
\* offer while free for other work.
RideOfferHoldsLock ==
    \A t \in Trips :
      trip[t].status = "DRIVER_ASSIGNED" =>
        /\ trip[t].driver \in RideCaptains
        /\ captain[trip[t].driver].work = t

\* What a ride was settled for is settled for good: a completion and a
\* cancellation that overlap do not settle it twice or change the payee.
SettledOnce ==
    [][\A t \in Trips :
         trip[t].outcome # "NONE" =>
           /\ trip'[t].outcome = trip[t].outcome
           /\ trip'[t].payee = trip[t].payee]_rideVars

-----------------------------------------------------------------------------
(***************************************************************************)
(* What holds only while requests do not overlap (one handler).            *)
(***************************************************************************)

\* A captain locked for a ride is driving it: when the ride is declined,
\* expired, cancelled or completed the lock goes with it.
RideLockReleased ==
    \A c \in RideCaptains, t \in Trips :
      captain[c].work = t =>
        trip[t].driver = c /\ trip[t].status \in Underway

\* A captain is locked for a ride exactly while the ride is under way and
\* names that captain: nothing leaves a lock behind, and nothing takes it from
\* a captain still driving.
LockHasRide ==
    /\ RideLockReleased
    /\ \A t \in Trips :
         trip[t].status \in Underway =>
           /\ trip[t].driver \in RideCaptains
           /\ captain[trip[t].driver].work = t

\* A customer has one active ride (ACTIVE_RIDE_EXISTS): neither a declined
\* offer that goes back to the queue nor an expiry revives an old one next to
\* a new one.
OneActiveRidePerCustomer ==
    \A t, u \in Trips :
      (t # u /\ CustomerOf[t] = CustomerOf[u]) =>
        ~(trip[t].status \in Active /\ trip[u].status \in Active)

\* A ride that was cancelled or expired has no final receipt.
ClosedUnpaidHasNoReceipt ==
    \A t \in Trips :
      trip[t].status \in Cancelled \cup {"EXPIRED"} => ~trip[t].receipt

\* The settlement and the receipt tell the same story as the ride: a completed
\* ride earned its driver a fare, a cancelled one earned nobody anything, and
\* a ride that is not closed is not settled.
OutcomeMatchesRide ==
    /\ ClosedUnpaidHasNoReceipt
    /\ \A t \in Trips :
         LET r == trip[t] IN
         /\ r.status = "COMPLETED" =>
              r.receipt /\ r.outcome = "NORMAL_COMPLETION" /\ r.payee = r.driver
         /\ r.status \in Cancelled =>
              r.outcome \in {"ZERO_VALUE_CANCELLATION",
                             "FINANCIAL_REVIEW_REQUIRED"}
         /\ r.outcome # "NONE" => r.status \in Closed

\* A closed ride is never revived by an assignment, an acceptance or a sweep.
ClosedRideStaysClosed ==
    [][\A t \in Trips :
         trip[t].status \in Closed => trip'[t].status = trip[t].status]_rideVars

-----------------------------------------------------------------------------
\* A ride no captain accepts does not keep its customer waiting, nor the
\* captain it is offered to locked, for ever: offered, declined and offered
\* again, it is accepted or closed in the end.
WaitingEnds ==
    \A t \in Trips :
      trip[t].status \in Waiting ~> trip[t].status \notin Waiting
=============================================================================
