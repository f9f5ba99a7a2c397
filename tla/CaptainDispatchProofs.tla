------------------------- MODULE CaptainDispatchProofs -------------------------
(***************************************************************************)
(* What TLAPS proves of RideDispatch, and of CaptainDispatch, in which     *)
(* rides and deliveries share the captains, for any number of captains,    *)
(* orders, rides and overlapping requests, the expiry sweep among them.    *)
(***************************************************************************)
EXTENDS CaptainDispatch, DeliveryDispatchProofs

\* All that a handler of RideDispatch can hold.
RideHeld == {Idle} \cup AvailabilityRequests \cup LifecycleRequests
              \cup RideRequests

\* Row x of a ride keeps what row r was settled for.
KeepsSettlement(r, x) ==
    r.outcome # "NONE" => x.outcome = r.outcome /\ x.payee = r.payee

-----------------------------------------------------------------------------
(***************************************************************************)
(* What a ride's row holds after each transaction.                         *)
(***************************************************************************)

\* The upsert with an empty update writes a settlement where there is none.
LEMMA SettledRow ==
    ASSUME NEW r \in TripRow, NEW k \in Outcomes,
           NEW p \in RideCaptains \cup {Nothing}
    PROVE  /\ Settled(r, k, p) \in TripRow
           /\ Settled(r, k, p).status = r.status
           /\ Settled(r, k, p).driver = r.driver
           /\ KeepsSettlement(r, Settled(r, k, p))
BY DEF TripRow, Settled, KeepsSettlement

\* An offer names the captain.
LEMMA OfferedRow ==
    ASSUME NEW r \in TripRow, NEW c \in RideCaptains
    PROVE  /\ OfferedTo(r, c) \in TripRow
           /\ OfferedTo(r, c).driver = c
           /\ KeepsSettlement(r, OfferedTo(r, c))
BY DEF TripRow, OfferedTo, KeepsSettlement, Active, Underway

\* A decline or an expiry takes the ride off offer.
LEMMA TakenBackRow ==
    ASSUME NEW r \in TripRow, NEW b \in BOOLEAN
    PROVE  /\ TakenBack(r, b) \in TripRow
           /\ TakenBack(r, b).status # "DRIVER_ASSIGNED"
           /\ KeepsSettlement(r, TakenBack(r, b))
BY DEF TripRow, TakenBack, KeepsSettlement, Active, Closed

\* Every other write of the status.
LEMMA StatusRow ==
    ASSUME NEW r \in TripRow, NEW s \in Active \cup Closed
    PROVE  LET x == [r EXCEPT !.status = s] IN
           /\ x \in TripRow
           /\ x.status = s
           /\ x.driver = r.driver
           /\ KeepsSettlement(r, x)
BY DEF TripRow, KeepsSettlement

\* A cancellation settles the ride and takes it off offer.
LEMMA CancelledRow ==
    ASSUME NEW r \in TripRow, NEW s \in Cancelled,
           NEW v \in {"unread", "yes", "no"}
    PROVE  /\ RideCancelled(r, s, v) \in TripRow
           /\ RideCancelled(r, s, v).status # "DRIVER_ASSIGNED"
           /\ KeepsSettlement(r, RideCancelled(r, s, v))
<1>1. PICK x \in TripRow : /\ x = [r EXCEPT !.status = s] /\ x.status = s
                           /\ x.outcome = r.outcome /\ x.payee = r.payee
  <2>1. [r EXCEPT !.status = s] \in TripRow
    BY StatusRow DEF Closed
  <2> QED BY <2>1 DEF TripRow
<1>2. PICK k \in Outcomes : k = IF v = "yes" THEN "FINANCIAL_REVIEW_REQUIRED"
                                            ELSE "ZERO_VALUE_CANCELLATION"
  BY DEF Outcomes
<1>3. RideCancelled(r, s, v) = Settled(x, k, r.driver)
  BY <1>1, <1>2 DEF RideCancelled
<1>4. /\ Settled(x, k, r.driver) \in TripRow
      /\ Settled(x, k, r.driver).status = s
      /\ KeepsSettlement(x, Settled(x, k, r.driver))
  BY <1>1, SettledRow DEF TripRow
<1>5. s # "DRIVER_ASSIGNED"
  BY DEF Cancelled
<1> QED BY <1>1, <1>3, <1>4, <1>5 DEF KeepsSettlement

\* So does a completion.
LEMMA CompletedRow ==
    ASSUME NEW r \in TripRow, NEW c \in RideCaptains
    PROVE  /\ RideCompleted(r, c) \in TripRow
           /\ RideCompleted(r, c).status # "DRIVER_ASSIGNED"
           /\ KeepsSettlement(r, RideCompleted(r, c))
<1>1. PICK x \in TripRow :
        /\ x = [r EXCEPT !.status = "COMPLETED", !.receipt = TRUE]
        /\ x.status = "COMPLETED"
        /\ x.outcome = r.outcome /\ x.payee = r.payee
  <2>1. [r EXCEPT !.status = "COMPLETED", !.receipt = TRUE] \in TripRow
    BY DEF TripRow, Closed
  <2> QED BY <2>1 DEF TripRow
<1>2. RideCompleted(r, c) = Settled(x, "NORMAL_COMPLETION", c)
  BY <1>1 DEF RideCompleted
<1>3. /\ Settled(x, "NORMAL_COMPLETION", c) \in TripRow
      /\ Settled(x, "NORMAL_COMPLETION", c).status = "COMPLETED"
      /\ KeepsSettlement(x, Settled(x, "NORMAL_COMPLETION", c))
  BY <1>1, SettledRow DEF Outcomes
<1> QED BY <1>1, <1>2, <1>3 DEF KeepsSettlement

-----------------------------------------------------------------------------
(***************************************************************************)
(* What a handler's request says about the fields its commit uses.         *)
(***************************************************************************)
LEMMA RideRequestShape ==
    ASSUME NEW q \in RideHeld
    PROVE  /\ q.op \in {"availability", "suspend", "reactivate", "profile"}
                => q.captain \in Captains
           /\ q.op = "profile" => q.status \in {"ACTIVE", "SUSPENDED"}
           /\ q.op \in {"assignRide", "moveRide", "declineRide", "completeRide"}
                => q.captain \in RideCaptains
           /\ q.op \in {"assignRide", "moveRide", "declineRide", "completeRide",
                        "cancelRide"} => q.trip \in Trips
           /\ q.op = "assignRide" => [q EXCEPT !.locking = TRUE] \in RideHeld
           /\ q.op = "moveRide" => q.to \in RideMoves
           /\ q.op = "declineRide" => q.expired \in BOOLEAN
           /\ q.op = "cancelRide" =>
                /\ q.as \in Cancelled
                /\ q.review \in {"unread", "yes", "no"}
                /\ \A v \in {"yes", "no"} : [q EXCEPT !.review = v] \in RideHeld
           /\ q.op = "sweep" =>
                /\ q.stale \in SUBSET Trips
                /\ q.offers \in SUBSET Offers
                /\ \A S \in SUBSET Trips : [q EXCEPT !.stale = S] \in RideHeld
                /\ \A S \in SUBSET Offers : [q EXCEPT !.offers = S] \in RideHeld
<1>1. CASE q = Idle
  BY <1>1 DEF Idle
<1>2. CASE q \in AvailabilityRequests
  BY <1>2 DEF AvailabilityRequests
<1>3. CASE q \in LifecycleRequests
  BY <1>3, WorkAssumption DEF LifecycleRequests
<1>4. CASE q \in [op : {"assignRide"}, locking : BOOLEAN, trip : Trips,
                  captain : RideCaptains]
  <2>1. [q EXCEPT !.locking = TRUE] \in RideHeld
    BY <1>4 DEF RideHeld, RideRequests
  <2> QED BY <1>4, <2>1
<1>5. CASE q \in [op : {"moveRide"}, trip : Trips, captain : RideCaptains,
                  to : RideMoves]
  BY <1>5
<1>6. CASE q \in [op : {"declineRide"}, trip : Trips, captain : RideCaptains,
                  expired : BOOLEAN]
  BY <1>6
<1>7. CASE q \in [op : {"completeRide"}, trip : Trips, captain : RideCaptains]
  BY <1>7
<1>8. CASE q \in [op : {"cancelRide"}, trip : Trips, as : Cancelled,
                  review : {"unread", "yes", "no"}]
  <2>1. \A v \in {"yes", "no"} : [q EXCEPT !.review = v] \in RideHeld
    BY <1>8 DEF RideHeld, RideRequests
  <2> QED BY <1>8, <2>1
<1>9. CASE q \in [op : {"sweep"}, stale : SUBSET Trips, offers : SUBSET Offers]
  <2>1. \A S \in SUBSET Trips : [q EXCEPT !.stale = S] \in RideHeld
    BY <1>9 DEF RideHeld, RideRequests
  <2>2. \A S \in SUBSET Offers : [q EXCEPT !.offers = S] \in RideHeld
    BY <1>9 DEF RideHeld, RideRequests
  <2> QED BY <1>9, <2>1, <2>2
<1> QED
  BY <1>1, <1>2, <1>3, <1>4, <1>5, <1>6, <1>7, <1>8, <1>9
     DEF RideHeld, RideRequests

-----------------------------------------------------------------------------
(***************************************************************************)
(* What a handler of rides does.  As in DeliveryDispatchProofs the lemmas  *)
(* name the handler that steps and ask nothing of what the others hold.    *)
(***************************************************************************)
RidesTyped ==
    /\ captain \in [Captains -> CaptainRow]
    /\ trip \in [Trips -> TripRow]
    /\ aged \subseteq Trips

\* Handler h goes on with a request of RideDispatch, or ends.
RideGoesOn(h) == \E q \in RideHeld : request' = [request EXCEPT ![h] = q]

RideEnds(h) == request' = [request EXCEPT ![h] = Idle]

\* A transaction that writes row to ride t and, if captain c is locked for t,
\* releases c.
WritesRide(t, row, c) ==
    /\ t \in Trips /\ row \in TripRow
    /\ trip' = [trip EXCEPT ![t] = row]
    /\ captain' \in [Captains -> CaptainRow]
    /\ \A d \in Captains :
         /\ captain'[d].work = IF d = c /\ captain[d].work = t
                               THEN Nothing ELSE captain[d].work
         /\ Paused(captain[d]) => Paused(captain'[d])
    /\ aged' = aged

LEMMA RideEndGoesOn == ASSUME NEW h, RideEnds(h) PROVE RideGoesOn(h)
BY DEF RideEnds, RideGoesOn, RideHeld

\* The requests that begin only read.
LEMMA BeginRideReads ==
    ASSUME RidesTyped, NEW h \in Handlers, BeginRide(h)
    PROVE  UNCHANGED <<captain, tripVars>> /\ RideGoesOn(h)
<1> DEFINE Reads == UNCHANGED <<captain, tripVars>> /\ RideGoesOn(h)
<1>0. aged \subseteq Trips /\ trip \in [Trips -> TripRow]
  BY DEF RidesTyped
<1>s. ASSUME NEW q \in RideHeld, ServeRide(h, q) PROVE Reads
  BY <1>s DEF ServeRide, RideGoesOn
<1>1. ASSUME NEW late \in SUBSET Trips, BeginSweep(h, late) PROVE Reads
  <2> DEFINE stale == {t \in aged : trip[t].status = "REQUESTED"}
             q == [op |-> "sweep", stale |-> stale, offers |-> StaleOffers(late)]
  <2>1. StaleOffers(late) \subseteq Offers
    <3>1. \A u \in Trips : trip[u].driver \in RideCaptains \cup {Nothing}
      BY <1>0 DEF TripRow
    <3>2. ASSUME NEW u \in Trips
          PROVE  <<u, trip[u].driver, u \in aged>> \in Offers
      <4>1. \A d \in RideCaptains \cup {Nothing}, b \in BOOLEAN :
              <<u, d, b>> \in Offers
        BY DEF Offers
      <4>2. (u \in aged) \in BOOLEAN
        OBVIOUS
      <4> QED BY <3>1, <4>1, <4>2, Zenon
    <3> QED BY <3>2 DEF StaleOffers
  <2>2. stale \subseteq Trips
    BY <1>0
  <2>3. q \in RideHeld
    BY <2>1, <2>2 DEF RideHeld, RideRequests
  <2> QED BY <1>1, <1>s, <2>3 DEF BeginSweep
<1>2. ASSUME NEW t \in Trips, NEW as \in Cancelled, BeginCancelRide(h, t, as)
      PROVE  Reads
  <2>1. [op |-> "cancelRide", trip |-> t, as |-> as, review |-> "unread"]
          \in RideHeld
    BY DEF RideHeld, RideRequests
  <2> QED BY <1>2, <1>s, <2>1 DEF BeginCancelRide
<1>3. ASSUME NEW t \in Trips, NEW c \in RideCaptains, BeginAssignRide(h, t, c)
      PROVE  Reads
  <2>1. [op |-> "assignRide", locking |-> FALSE, trip |-> t, captain |-> c]
          \in RideHeld
    BY DEF RideHeld, RideRequests
  <2> QED BY <1>3, <1>s, <2>1 DEF BeginAssignRide
<1>4. ASSUME NEW t \in Trips, NEW c \in RideCaptains, NEW to \in RideMoves,
             BeginMoveRide(h, t, c, to)
      PROVE  Reads
  <2>1. [op |-> "moveRide", trip |-> t, captain |-> c, to |-> to] \in RideHeld
    BY DEF RideHeld, RideRequests
  <2> QED BY <1>4, <1>s, <2>1 DEF BeginMoveRide
<1>5. ASSUME NEW t \in Trips, NEW c \in RideCaptains, BeginDeclineRide(h, t, c)
      PROVE  Reads
  <2> DEFINE q == [op |-> "declineRide", trip |-> t, captain |-> c,
                   expired |-> t \in aged]
  <2>1. q \in RideHeld
    BY DEF RideHeld, RideRequests
  <2> QED BY <1>5, <1>s, <2>1 DEF BeginDeclineRide
<1>6. ASSUME NEW t \in Trips, NEW c \in RideCaptains, BeginCompleteRide(h, t, c)
      PROVE  Reads
  <2>1. [op |-> "completeRide", trip |-> t, captain |-> c] \in RideHeld
    BY DEF RideHeld, RideRequests
  <2> QED BY <1>6, <1>s, <2>1 DEF BeginCompleteRide
<1> QED BY <1>1, <1>2, <1>3, <1>4, <1>5, <1>6 DEF BeginRide

\* So do the reads between a check and a transaction.
LEMMA RideReads ==
    ASSUME RidesTyped, NEW h \in Handlers, request[h] \in RideHeld,
           ReadRideLock(h) \/ ReadForReview(h)
    PROVE  UNCHANGED <<captain, tripVars>> /\ RideGoesOn(h)
<1> DEFINE q == request[h]
<1>1. CASE ReadRideLock(h)
  <2>1. [q EXCEPT !.locking = TRUE] \in RideHeld
    BY <1>1, RideRequestShape DEF ReadRideLock
  <2>2. request' = [request EXCEPT ![h] = [q EXCEPT !.locking = TRUE]]
    BY <1>1 DEF ReadRideLock
  <2> QED BY <1>1, <2>1, <2>2 DEF ReadRideLock, RideGoesOn
<1>2. CASE ReadForReview(h)
  <2>1. Reviewed(trip[q.trip].status) \in {"yes", "no"}
    BY DEF Reviewed
  <2>2. [q EXCEPT !.review = Reviewed(trip[q.trip].status)] \in RideHeld
    BY <1>2, <2>1, RideRequestShape DEF ReadForReview
  <2>3. request' = [request EXCEPT ![h] =
          [q EXCEPT !.review = Reviewed(trip[q.trip].status)]]
    BY <1>2 DEF ReadForReview
  <2> QED BY <1>2, <2>2, <2>3 DEF ReadForReview, RideGoesOn
<1> QED BY <1>1, <1>2

\* A write of the row alone, and a release of captain c.
LEMMA RowWritten ==
    ASSUME RidesTyped, NEW t \in Trips, NEW row \in TripRow,
           trip' = [trip EXCEPT ![t] = row], captain' = captain, aged' = aged
    PROVE  WritesRide(t, row, Nothing)
BY WorkAssumption DEF RidesTyped, WritesRide

LEMMA CaptainReleased ==
    ASSUME RidesTyped, NEW t \in Trips, NEW row \in TripRow,
           trip' = [trip EXCEPT ![t] = row], aged' = aged,
           NEW c, NEW e \in BOOLEAN,
           captain' = [d \in Captains |->
             IF d = c THEN ReleaseLock(captain[d], t, e) ELSE captain[d]]
    PROVE  WritesRide(t, row, c)
<1>1. \A d \in Captains :
        /\ captain[d] \in CaptainRow
        /\ ReleaseLock(captain[d], t, e) \in CaptainRow
        /\ ReleaseLock(captain[d], t, e).work =
             IF captain[d].work = t THEN Nothing ELSE captain[d].work
        /\ Paused(captain[d]) => Paused(ReleaseLock(captain[d], t, e))
  BY ReleaseRow DEF RidesTyped
<1> QED BY <1>1 DEF WritesRide

\* A booking.
LEMMA CreateWrites ==
    ASSUME RidesTyped, NEW t \in Trips, CreateTrip(t)
    PROVE  WritesRide(t, [trip[t] EXCEPT !.status = "REQUESTED"], Nothing)
<1> DEFINE row == [trip[t] EXCEPT !.status = "REQUESTED"]
<1>1. row \in TripRow
  BY StatusRow DEF RidesTyped, Active
<1>2. trip' = [trip EXCEPT ![t] = row] /\ captain' = captain /\ aged' = aged
  BY DEF CreateTrip, captainVars
<1> HIDE DEF row
<1>3. WritesRide(t, row, Nothing)
  BY <1>1, <1>2, RowWritten
<1> QED BY <1>3 DEF row

\* accept, arrive, start: the stage of the lock moves, the work stays.
LEMMA MoveWrites ==
    ASSUME RidesTyped, NEW h \in Handlers, request[h] \in RideHeld,
           CommitMoveRide(h)
    PROVE  LET q == request[h] IN
           /\ q.to \in RideMoves
           /\ WritesRide(q.trip, [trip[q.trip] EXCEPT !.status = q.to], Nothing)
<1> DEFINE q == request[h]
           t == q.trip
           c == q.captain
           row == [trip[t] EXCEPT !.status = q.to]
           w == IF q.to \in DOMAIN RideStage
                THEN TransitionLock(captain[c], t, RideStage[q.to])
                ELSE captain[c]
<1>1. t \in Trips /\ c \in Captains /\ q.to \in RideMoves
  BY RideRequestShape, WorkAssumption DEF CommitMoveRide
<1>2. row \in TripRow
  BY <1>1, StatusRow DEF RidesTyped, RideMoves, Active, Underway
<1>3. /\ w \in CaptainRow /\ w.work = captain[c].work
      /\ Paused(captain[c]) => Paused(w)
  <2>1. \A s \in DOMAIN RideStage : RideStage[s] \in Stages
    BY DEF RideStage, Stages
  <2> QED BY <1>1, <2>1, TransitionRow DEF RidesTyped
<1>4. /\ trip' = [trip EXCEPT ![t] = row]
      /\ captain' = [captain EXCEPT ![c] = w]
      /\ aged' = aged
  BY DEF CommitMoveRide
<1> HIDE DEF row, w
<1>5. WritesRide(t, row, Nothing)
  <2>1. /\ captain' \in [Captains -> CaptainRow]
        /\ captain'[c] = w /\ \A d \in Captains \ {c} : captain'[d] = captain[d]
    BY <1>1, <1>3, <1>4 DEF RidesTyped
  <2>2. \A d \in Captains : d # Nothing
    BY WorkAssumption
  <2> QED BY <1>1, <1>2, <1>3, <1>4, <2>1, <2>2 DEF WritesRide
<1> QED BY <1>1, <1>5 DEF row

\* decline
LEMMA DeclineWrites ==
    ASSUME RidesTyped, NEW h \in Handlers, request[h] \in RideHeld,
           NEW e \in BOOLEAN, CommitDeclineRide(h, e)
    PROVE  LET q == request[h] IN
           /\ q.expired \in BOOLEAN
           /\ WritesRide(q.trip, TakenBack(trip[q.trip], q.expired), q.captain)
<1> DEFINE q == request[h]
           t == q.trip
           c == q.captain
           row == TakenBack(trip[t], q.expired)
<1>1. t \in Trips /\ c \in Captains /\ q.expired \in BOOLEAN
  BY RideRequestShape, WorkAssumption DEF CommitDeclineRide
<1>2. row \in TripRow
  BY <1>1, TakenBackRow DEF RidesTyped
<1>3. /\ trip' = [trip EXCEPT ![t] = row] /\ aged' = aged
      /\ captain' = [d \in Captains |->
           IF d = c THEN ReleaseLock(captain[d], t, e) ELSE captain[d]]
  BY <1>1 DEF CommitDeclineRide, RidesTyped
<1> HIDE DEF row
<1>4. WritesRide(t, row, c)
  BY <1>1, <1>2, <1>3, CaptainReleased
<1> QED BY <1>1, <1>4 DEF row

\* complete
LEMMA CompleteWrites ==
    ASSUME RidesTyped, NEW h \in Handlers, request[h] \in RideHeld,
           NEW e \in BOOLEAN, CommitCompleteRide(h, e)
    PROVE  LET q == request[h] IN
           /\ q.captain \in RideCaptains
           /\ WritesRide(q.trip, RideCompleted(trip[q.trip], q.captain), q.captain)
<1> DEFINE q == request[h]
           t == q.trip
           c == q.captain
           row == RideCompleted(trip[t], c)
<1>1. t \in Trips /\ c \in RideCaptains /\ c \in Captains
  BY RideRequestShape, WorkAssumption DEF CommitCompleteRide
<1>2. row \in TripRow
  BY <1>1, CompletedRow DEF RidesTyped
<1>3. /\ trip' = [trip EXCEPT ![t] = row] /\ aged' = aged
      /\ captain' = [d \in Captains |->
           IF d = c THEN ReleaseLock(captain[d], t, e) ELSE captain[d]]
  BY <1>1 DEF CommitCompleteRide, RidesTyped
<1> HIDE DEF row
<1>4. WritesRide(t, row, c)
  BY <1>1, <1>2, <1>3, CaptainReleased
<1> QED BY <1>1, <1>4 DEF row

\* A cancellation, by whomever, releases the captain the ride names by now.
LEMMA CancelWrites ==
    ASSUME RidesTyped, NEW h \in Handlers, request[h] \in RideHeld,
           NEW e \in BOOLEAN, CommitCancelRide(h, e)
    PROVE  LET q == request[h] IN
           /\ q.as \in Cancelled /\ q.review \in {"unread", "yes", "no"}
           /\ WritesRide(q.trip, RideCancelled(trip[q.trip], q.as, q.review),
                         trip[q.trip].driver)
<1> DEFINE q == request[h]
           t == q.trip
           row == RideCancelled(trip[t], q.as, q.review)
<1>1. t \in Trips /\ q.as \in Cancelled /\ q.review \in {"unread", "yes", "no"}
  BY RideRequestShape DEF CommitCancelRide
<1>2. row \in TripRow
  BY <1>1, CancelledRow DEF RidesTyped
<1>3. /\ trip' = [trip EXCEPT ![t] = row] /\ aged' = aged
      /\ captain' = [d \in Captains |->
           IF d = trip[t].driver THEN ReleaseLock(captain[d], t, e)
                                 ELSE captain[d]]
  BY DEF CommitCancelRide
<1> HIDE DEF row
<1>4. WritesRide(t, row, trip[t].driver)
  BY <1>1, <1>2, <1>3, CaptainReleased
<1> QED BY <1>1, <1>4 DEF row

\* The sweep closes a request: nobody is released.
LEMMA ExpireRequestWrites ==
    ASSUME RidesTyped, NEW h \in Handlers, request[h] \in RideHeld,
           NEW t \in Trips, ExpireRequest(h, t)
    PROVE  /\ WritesRide(t, [trip[t] EXCEPT !.status = "EXPIRED"], Nothing)
           /\ RideGoesOn(h)
<1> DEFINE q == request[h]
           row == [trip[t] EXCEPT !.status = "EXPIRED"]
<1>1. row \in TripRow
  BY StatusRow DEF RidesTyped, Closed
<1>2. /\ trip' = [trip EXCEPT ![t] = row] /\ captain' = captain /\ aged' = aged
      /\ SweepOn(h, [q EXCEPT !.stale = @ \ {t}])
  BY DEF ExpireRequest
<1>3. [q EXCEPT !.stale = @ \ {t}] \in RideHeld
  BY RideRequestShape DEF ExpireRequest
<1>4. RideGoesOn(h)
  BY <1>2, <1>3 DEF SweepOn, RideGoesOn, RideHeld
<1> HIDE DEF row
<1>5. WritesRide(t, row, Nothing)
  BY <1>1, <1>2, RowWritten
<1> QED BY <1>4, <1>5 DEF row

\* The sweep takes an offer back, and releases the captain it found there.
LEMMA ExpireOfferWrites ==
    ASSUME RidesTyped, NEW h \in Handlers, request[h] \in RideHeld,
           NEW x \in Offers, NEW e \in BOOLEAN, ExpireOffer(h, x, e)
    PROVE  /\ x[3] \in BOOLEAN
           /\ WritesRide(x[1], TakenBack(trip[x[1]], x[3]), x[2])
           /\ RideGoesOn(h)
<1> DEFINE q == request[h]
           row == TakenBack(trip[x[1]], x[3])
<1>1. x[1] \in Trips /\ x[3] \in BOOLEAN
  BY DEF Offers
<1>2. row \in TripRow
  BY <1>1, TakenBackRow DEF RidesTyped
<1>3. /\ trip' = [trip EXCEPT ![x[1]] = row] /\ aged' = aged
      /\ captain' = [d \in Captains |->
           IF d = x[2] THEN ReleaseLock(captain[d], x[1], e) ELSE captain[d]]
      /\ SweepOn(h, [q EXCEPT !.offers = @ \ {x}])
  BY DEF ExpireOffer
<1>4. [q EXCEPT !.offers = @ \ {x}] \in RideHeld
  BY RideRequestShape DEF ExpireOffer
<1>5. RideGoesOn(h)
  BY <1>3, <1>4 DEF SweepOn, RideGoesOn, RideHeld
<1> HIDE DEF row
<1>6. WritesRide(x[1], row, x[2])
  BY <1>1, <1>2, <1>3, CaptainReleased
<1> QED BY <1>1, <1>5, <1>6 DEF row

\* An assignment takes the lock for the ride it offers, and takes it from no
\* other work.
LEMMA AssignRideWrites ==
    ASSUME RidesTyped, NEW h \in Handlers, request[h] \in RideHeld,
           CommitAssignRide(h)
    PROVE  LET t == request[h].trip
               c == request[h].captain IN
           /\ t \in Trips /\ c \in RideCaptains /\ c \in Captains
           /\ captain[c].work \in {Nothing, t} /\ captain'[c].work = t
           /\ Paused(captain'[c])
           /\ \A d \in Captains \ {c} : captain'[d] = captain[d]
           /\ trip' = [trip EXCEPT ![t] = OfferedTo(trip[t], c)]
           /\ RidesTyped'
<1> DEFINE q == request[h]
           t == q.trip
           c == q.captain
<1>1. t \in Trips /\ c \in RideCaptains /\ c \in Captains
  BY RideRequestShape, WorkAssumption DEF CommitAssignRide
<1>2. captain[c].work \in {Nothing, t}
  BY DEF CommitAssignRide, CanAcquire
<1>3. /\ captain' = [captain EXCEPT ![c] = AcquireLock(captain[c], t, "OFFERED")]
      /\ trip' = [trip EXCEPT ![t] = OfferedTo(trip[t], c)]
      /\ aged' = aged
  BY DEF CommitAssignRide
<1>4. /\ AcquireLock(captain[c], t, "OFFERED") \in CaptainRow
      /\ AcquireLock(captain[c], t, "OFFERED").work = t
      /\ Paused(AcquireLock(captain[c], t, "OFFERED"))
  BY <1>1, AcquireRow DEF RidesTyped, Works, Stages
<1>5. OfferedTo(trip[t], c) \in TripRow
  BY <1>1, OfferedRow DEF RidesTyped
<1>6. /\ captain'[c] = AcquireLock(captain[c], t, "OFFERED")
      /\ \A d \in Captains \ {c} : captain'[d] = captain[d]
      /\ captain' \in [Captains -> CaptainRow]
  BY <1>1, <1>3, <1>4 DEF RidesTyped
<1>7. RidesTyped'
  BY <1>3, <1>5, <1>6 DEF RidesTyped
<1> QED BY <1>1, <1>2, <1>3, <1>4, <1>6, <1>7
-----------------------------------------------------------------------------
(***************************************************************************)
(* What every step of a ride keeps, however the handlers overlap.          *)
(***************************************************************************)

\* The rows keep their types, and a settled ride what it was settled for.
RowsKept ==
    /\ RidesTyped'
    /\ \A x \in Trips : KeepsSettlement(trip[x], trip'[x])

\* Steps other than an assignment put no ride on offer and give no captain
\* work; they take work only from a captain whose ride is not on offer.
LocksKept ==
    /\ \A x \in Trips :
         trip'[x].status = "DRIVER_ASSIGNED" =>
           trip[x].status = "DRIVER_ASSIGNED" /\ trip'[x].driver = trip[x].driver
    /\ \A d \in Captains :
         \/ captain'[d].work = captain[d].work
         \/ /\ captain[d].work \in Trips /\ captain'[d].work = Nothing
            /\ trip'[captain[d].work].status # "DRIVER_ASSIGNED"

\* A transaction releases one captain at most.
OneReleased ==
    \E c \in Captains \cup {Nothing} :
      \A d \in Captains : \/ captain'[d].work = captain[d].work
                          \/ d = c /\ captain'[d].work = Nothing

Kept == RowsKept /\ LocksKept /\ OneReleased

LEMMA ReadKeeps ==
    ASSUME RidesTyped, captain' = captain, trip' = trip, aged' \subseteq Trips
    PROVE  Kept
BY DEF RidesTyped, Kept, RowsKept, LocksKept, OneReleased, KeepsSettlement

\* A transaction that takes its ride off offer, or leaves it as it was.
LEMMA WriteKeeps ==
    ASSUME RidesTyped, NEW t, NEW row, NEW c \in Captains \cup {Nothing},
           WritesRide(t, row, c),
           KeepsSettlement(trip[t], row), row.status # "DRIVER_ASSIGNED"
    PROVE  Kept
<1>1. /\ trip \in [Trips -> TripRow] /\ aged \subseteq Trips
      /\ t \in Trips /\ row \in TripRow
      /\ captain' \in [Captains -> CaptainRow] /\ aged' = aged
      /\ trip' = [trip EXCEPT ![t] = row]
      /\ \A d \in Captains :
           captain'[d].work = IF d = c /\ captain[d].work = t
                              THEN Nothing ELSE captain[d].work
  BY DEF RidesTyped, WritesRide
<1>2. trip'[t] = row /\ \A x \in Trips \ {t} : trip'[x] = trip[x]
  BY <1>1
<1>3. RowsKept
  <2>1. RidesTyped'
    BY <1>1 DEF RidesTyped
  <2> QED BY <1>2, <2>1 DEF RowsKept, KeepsSettlement
<1>4. LocksKept
  BY <1>1, <1>2 DEF LocksKept
<1>5. OneReleased
  BY <1>1 DEF OneReleased
<1> QED BY <1>3, <1>4, <1>5 DEF Kept

\* A booking and the passing of time, in which no handler moves.
LEMMA BookingKeeps ==
    ASSUME RidesTyped, NEW t \in Trips, CreateTrip(t) \/ GrowOld(t)
    PROVE  Kept /\ request' = request
<1>1. CASE CreateTrip(t)
  <2> DEFINE row == [trip[t] EXCEPT !.status = "REQUESTED"]
  <2>1. row.status = "REQUESTED" /\ KeepsSettlement(trip[t], row)
    BY StatusRow DEF RidesTyped, Active
  <2>2. WritesRide(t, row, Nothing)
    BY <1>1, CreateWrites
  <2> HIDE DEF row
  <2> QED BY <1>1, <2>1, <2>2, WriteKeeps DEF CreateTrip, captainVars
<1>2. CASE GrowOld(t)
  BY <1>2, ReadKeeps DEF GrowOld, captainVars, RidesTyped
<1> QED BY <1>1, <1>2

\* A step of handler h.
LEMMA RideHandlerKeeps ==
    ASSUME RidesTyped, NEW h \in Handlers, request[h] \in RideHeld,
           BeginRide(h) \/ CommitRide(h)
    PROVE  RideGoesOn(h) /\ (Kept \/ CommitAssignRide(h))
<1> DEFINE q == request[h]
           t == q.trip
           r == trip[t]
<1>0. /\ trip \in [Trips -> TripRow]
      /\ \A x \in Trips : trip[x].driver \in Captains \cup {Nothing}
  BY WorkAssumption DEF RidesTyped, TripRow
<1>1. CASE BeginRide(h) \/ ReadRideLock(h) \/ ReadForReview(h)
  <2>1. UNCHANGED <<captain, tripVars>> /\ RideGoesOn(h)
    BY <1>1, BeginRideReads, RideReads
  <2> QED BY <2>1, ReadKeeps DEF RidesTyped, tripVars
<1>2. CASE CommitAssignRide(h)
  BY <1>2, RideEndGoesOn DEF CommitAssignRide, RideEnds
<1>3. CASE CommitMoveRide(h)
  <2> DEFINE row == [r EXCEPT !.status = q.to]
  <2>1. q.to \in RideMoves /\ WritesRide(t, row, Nothing)
    BY <1>3, MoveWrites
  <2>2. /\ row.status # "DRIVER_ASSIGNED" /\ KeepsSettlement(r, row)
    <3>1. r \in TripRow
      BY <1>0, <2>1 DEF WritesRide
    <3> QED BY <2>1, <3>1, StatusRow DEF RideMoves, Active, Underway
  <2> HIDE DEF row
  <2>3. Kept
    BY <2>1, <2>2, WriteKeeps
  <2> QED BY <1>3, <2>3, RideEndGoesOn DEF CommitMoveRide, RideEnds
<1>4. ASSUME NEW e \in BOOLEAN, CommitDeclineRide(h, e)
      PROVE  RideGoesOn(h) /\ Kept
  <2> DEFINE row == TakenBack(r, q.expired)
  <2>1. q.expired \in BOOLEAN /\ WritesRide(t, row, q.captain)
    BY <1>4, DeclineWrites
  <2>2. row.status # "DRIVER_ASSIGNED" /\ KeepsSettlement(r, row)
    BY <1>0, <2>1, TakenBackRow DEF WritesRide
  <2>3. q.captain \in Captains
    BY <1>4, RideRequestShape, WorkAssumption DEF CommitDeclineRide
  <2> HIDE DEF row
  <2>4. Kept
    BY <2>1, <2>2, <2>3, WriteKeeps
  <2> QED BY <1>4, <2>4, RideEndGoesOn DEF CommitDeclineRide, RideEnds
<1>5. ASSUME NEW e \in BOOLEAN, CommitCompleteRide(h, e)
      PROVE  RideGoesOn(h) /\ Kept
  <2> DEFINE row == RideCompleted(r, q.captain)
  <2>1. q.captain \in RideCaptains /\ WritesRide(t, row, q.captain)
    BY <1>5, CompleteWrites
  <2>2. row.status # "DRIVER_ASSIGNED" /\ KeepsSettlement(r, row)
    BY <1>0, <2>1, CompletedRow DEF WritesRide
  <2> HIDE DEF row
  <2>3. Kept
    BY <2>1, <2>2, WriteKeeps, WorkAssumption
  <2> QED BY <1>5, <2>3, RideEndGoesOn DEF CommitCompleteRide, RideEnds
<1>6. ASSUME NEW e \in BOOLEAN, CommitCancelRide(h, e)
      PROVE  RideGoesOn(h) /\ Kept
  <2> DEFINE row == RideCancelled(r, q.as, q.review)
  <2>1. /\ q.as \in Cancelled /\ q.review \in {"unread", "yes", "no"}
        /\ WritesRide(t, row, r.driver)
    BY <1>6, CancelWrites
  <2>2. row.status # "DRIVER_ASSIGNED" /\ KeepsSettlement(r, row)
    BY <1>0, <2>1, CancelledRow DEF WritesRide
  <2>3. r.driver \in Captains \cup {Nothing}
    BY <1>0, <2>1 DEF WritesRide
  <2> HIDE DEF row
  <2>4. Kept
    BY <2>1, <2>2, <2>3, WriteKeeps
  <2> QED BY <1>6, <2>4, RideEndGoesOn DEF CommitCancelRide, RideEnds
<1>7. ASSUME NEW u \in Trips, ExpireRequest(h, u)
      PROVE  RideGoesOn(h) /\ Kept
  <2> DEFINE row == [trip[u] EXCEPT !.status = "EXPIRED"]
  <2>1. row.status # "DRIVER_ASSIGNED" /\ KeepsSettlement(trip[u], row)
    BY <1>0, StatusRow DEF Closed
  <2>2. WritesRide(u, row, Nothing) /\ RideGoesOn(h)
    BY <1>7, ExpireRequestWrites
  <2> HIDE DEF row
  <2> QED BY <2>1, <2>2, WriteKeeps
<1>8. ASSUME NEW x \in Offers, NEW e \in BOOLEAN, ExpireOffer(h, x, e)
      PROVE  RideGoesOn(h) /\ Kept
  <2> DEFINE row == TakenBack(trip[x[1]], x[3])
  <2>1. x[3] \in BOOLEAN /\ WritesRide(x[1], row, x[2]) /\ RideGoesOn(h)
    BY <1>8, ExpireOfferWrites
  <2>2. row.status # "DRIVER_ASSIGNED" /\ KeepsSettlement(trip[x[1]], row)
    BY <1>0, <2>1, TakenBackRow DEF WritesRide
  <2>3. x[2] \in Captains \cup {Nothing}
    BY WorkAssumption DEF Offers
  <2> HIDE DEF row
  <2> QED BY <2>1, <2>2, <2>3, WriteKeeps
<1> QED
  BY <1>1, <1>2, <1>3, <1>4, <1>5, <1>6, <1>7, <1>8 DEF CommitRide

\* An assignment, too, keeps what a ride was settled for.
LEMMA AssignRowsKept ==
    ASSUME RidesTyped, NEW h \in Handlers, request[h] \in RideHeld,
           CommitAssignRide(h)
    PROVE  RowsKept
<1> DEFINE t == request[h].trip
           c == request[h].captain
<1>1. /\ t \in Trips /\ c \in RideCaptains
      /\ trip' = [trip EXCEPT ![t] = OfferedTo(trip[t], c)]
      /\ RidesTyped'
  BY AssignRideWrites
<1>2. KeepsSettlement(trip[t], OfferedTo(trip[t], c))
  BY <1>1, OfferedRow DEF RidesTyped
<1>3. \A x \in Trips : KeepsSettlement(trip[x], trip'[x])
  BY <1>1, <1>2 DEF RidesTyped, KeepsSettlement
<1> QED BY <1>1, <1>3 DEF RowsKept
\* The captains' own switches and the admin's suspensions.
LEMMA RideCaptainKeeps ==
    ASSUME RidesTyped, UNCHANGED tripVars,
           captain' \in [Captains -> CaptainRow],
           \A d \in Captains : captain'[d].work = captain[d].work
    PROVE  Kept
BY DEF RidesTyped, tripVars, Kept, RowsKept, LocksKept, OneReleased, KeepsSettlement

\* The steps of RideNext, as the theorems use them.
LEMMA RideStepKeeps ==
    ASSUME RideTypeOK, RideNext
    PROVE  /\ request' \in [Handlers -> RideHeld]
           /\ Kept \/ \E h \in Handlers : CommitAssignRide(h)
<1>0. RidesTyped /\ request \in [Handlers -> RideHeld]
  BY DEF RideTypeOK, RidesTyped, RideHeld
<1>1. CASE CaptainNext /\ UNCHANGED tripVars
  <2>1. {Idle} \cup AvailabilityRequests \cup LifecycleRequests \subseteq RideHeld
    BY DEF RideHeld
  <2>2. \A q \in RideHeld :
          /\ q.op \in {"availability", "suspend", "reactivate", "profile"}
               => q.captain \in Captains
          /\ q.op = "profile" => q.status \in {"ACTIVE", "SUSPENDED"}
    BY RideRequestShape
  <2>3. /\ captain' \in [Captains -> CaptainRow]
        /\ request' \in [Handlers -> RideHeld]
        /\ \A d \in Captains : captain'[d].work = captain[d].work
    BY <1>0, <1>1, <2>1, <2>2, CaptainStep DEF RidesTyped
  <2> QED BY <1>0, <1>1, <2>3, RideCaptainKeeps
<1>2. ASSUME NEW t \in Trips, CreateTrip(t) \/ GrowOld(t)
      PROVE  Kept /\ request' = request
  BY <1>0, <1>2, BookingKeeps
<1>3. ASSUME NEW h \in Handlers, BeginRide(h) \/ CommitRide(h)
      PROVE  /\ request' \in [Handlers -> RideHeld]
             /\ Kept \/ CommitAssignRide(h)
  <2>1. RideGoesOn(h) /\ (Kept \/ CommitAssignRide(h))
    BY <1>0, <1>3, RideHandlerKeeps
  <2> QED BY <1>0, <2>1 DEF RideGoesOn
<1> QED BY <1>0, <1>1, <1>2, <1>3 DEF RideNext, RideStep

LEMMA RideRowsKept == RideTypeOK /\ RideNext => RowsKept
<1> SUFFICES ASSUME RideTypeOK, RideNext PROVE RowsKept
  OBVIOUS
<1>1. RidesTyped /\ request \in [Handlers -> RideHeld]
  BY DEF RideTypeOK, RidesTyped, RideHeld
<1> QED BY <1>1, RideStepKeeps, AssignRowsKept DEF Kept

-----------------------------------------------------------------------------
\* No overlap of requests and sweeps writes a status, a captain, a stage or an
\* outcome where the columns have no room for it.
THEOREM RideTypeCorrect == RideSpec => []RideTypeOK
<1>1. RideInit => RideTypeOK
  BY WorkAssumption
     DEF RideInit, CaptainInit, RideTypeOK, CaptainRow, Stages, TripRow, NoTrip,
         Outcomes
<1>2. RideTypeOK /\ RideNext => RideTypeOK'
  BY RideStepKeeps, RideRowsKept DEF RowsKept, RidesTyped, RideTypeOK, RideHeld
<1>3. RideTypeOK /\ UNCHANGED rideVars => RideTypeOK'
  BY DEF RideTypeOK, rideVars, captainVars, tripVars
<1> QED BY <1>1, <1>2, <1>3, PTL DEF RideSpec

-----------------------------------------------------------------------------
(***************************************************************************)
(* The offer of a ride is a reservation.  RideTypeOK /\ RideOfferHoldsLock *)
(* is inductive: only an assignment puts a ride on offer, in the           *)
(* transaction that takes the lock for it; whoever releases that lock takes *)
(* the ride off offer in the same transaction; and an assignment to a      *)
(* captain on offer for another ride fails on the lock.                    *)
(***************************************************************************)
LEMMA KeptOffers == RideOfferHoldsLock /\ LocksKept => RideOfferHoldsLock'
<1> SUFFICES ASSUME RideOfferHoldsLock, LocksKept,
                    NEW x \in Trips, trip'[x].status = "DRIVER_ASSIGNED"
             PROVE  /\ trip'[x].driver \in RideCaptains
                    /\ captain'[trip'[x].driver].work = x
  BY DEF RideOfferHoldsLock
<1>1. /\ trip'[x].driver = trip[x].driver
      /\ trip[x].driver \in RideCaptains /\ trip[x].driver \in Captains
      /\ captain[trip[x].driver].work = x
  BY WorkAssumption DEF RideOfferHoldsLock, LocksKept
<1> QED BY <1>1 DEF LocksKept

LEMMA AssignOffers ==
    ASSUME RidesTyped, RideOfferHoldsLock, NEW h \in Handlers,
           request[h] \in RideHeld, CommitAssignRide(h)
    PROVE  RideOfferHoldsLock'
<1> SUFFICES ASSUME NEW x \in Trips, trip'[x].status = "DRIVER_ASSIGNED"
             PROVE  /\ trip'[x].driver \in RideCaptains
                    /\ captain'[trip'[x].driver].work = x
  BY DEF RideOfferHoldsLock
<1> DEFINE t == request[h].trip
           c == request[h].captain
<1>1. /\ t \in Trips /\ c \in RideCaptains /\ c \in Captains
      /\ captain[c].work \in {Nothing, t} /\ captain'[c].work = t
      /\ \A d \in Captains \ {c} : captain'[d] = captain[d]
      /\ trip' = [trip EXCEPT ![t] = OfferedTo(trip[t], c)]
  BY AssignRideWrites
<1>2. CASE x = t
  <2>1. trip'[x].driver = c
    BY <1>1, <1>2, OfferedRow DEF RidesTyped
  <2> QED BY <1>1, <1>2, <2>1
<1>3. CASE x # t
  <2>1. trip'[x] = trip[x]
    BY <1>1, <1>3 DEF RidesTyped
  <2>2. /\ trip[x].driver \in RideCaptains /\ trip[x].driver \in Captains
        /\ captain[trip[x].driver].work = x
    BY <2>1, WorkAssumption DEF RideOfferHoldsLock
  <2>3. trip[x].driver # c
    BY <1>1, <1>3, <2>2, WorkAssumption
  <2> QED BY <1>1, <2>1, <2>2, <2>3
<1> QED BY <1>2, <1>3

\* A ride on offer names a captain who is locked for it, in every interleaving
\* of any number of assignments, answers, cancellations and sweeps.
THEOREM RideOfferIsReservation == RideSpec => []RideOfferHoldsLock
<1>1. RideInit => RideOfferHoldsLock
  BY DEF RideInit, NoTrip, RideOfferHoldsLock
<1>2. RideTypeOK /\ RideOfferHoldsLock /\ RideNext => RideOfferHoldsLock'
  <2> SUFFICES ASSUME RideTypeOK, RideOfferHoldsLock, RideNext
               PROVE  RideOfferHoldsLock'
    OBVIOUS
  <2>1. RidesTyped /\ \A h \in Handlers : request[h] \in RideHeld
    BY DEF RideTypeOK, RidesTyped, RideHeld
  <2> QED BY <2>1, RideStepKeeps, KeptOffers, AssignOffers DEF Kept
<1>3. RideOfferHoldsLock /\ UNCHANGED rideVars => RideOfferHoldsLock'
  BY DEF RideOfferHoldsLock, rideVars, captainVars, tripVars
<1> QED BY RideTypeCorrect, <1>1, <1>2, <1>3, PTL DEF RideSpec

\* What a ride was settled for, and to whom, never changes, however many
\* completions and cancellations of it overlap.
THEOREM RideSettledOnce == RideSpec => SettledOnce
<1> DEFINE Same == \A t \in Trips :
                     trip[t].outcome # "NONE" =>
                       /\ trip'[t].outcome = trip[t].outcome
                       /\ trip'[t].payee = trip[t].payee
<1>1. RowsKept => Same
  BY DEF RowsKept, KeepsSettlement
<1>2. RideTypeOK /\ [RideNext]_rideVars => [Same]_rideVars
  BY <1>1, RideRowsKept
<1> QED BY RideTypeCorrect, <1>2, PTL DEF RideSpec, SettledOnce
-----------------------------------------------------------------------------
(***************************************************************************)
(* Rides and deliveries together, however the handlers overlap.            *)
(***************************************************************************)
Held == Requests \cup RideHeld

DispatchTypeOK == OrdersTyped /\ RidesTyped /\ request \in [Handlers -> Held]

DeliveryOps == {"pay", "vendor", "vendorReject", "refund", "approve", "assign",
                "reassign", "move", "reject", "complete"}

RideOps == {"assignRide", "moveRide", "declineRide", "completeRide",
            "cancelRide", "sweep"}

\* Whose request it is can be told from its op, and its fields are those the
\* endpoint keeps.
LEMMA HeldShape ==
    ASSUME NEW q \in Held
    PROVE  /\ q.op \in DeliveryOps \/ q = Idle => q \in Requests
           /\ q.op \in RideOps \/ q = Idle => q \in RideHeld
           /\ q.op \in {"availability", "suspend", "reactivate", "profile"}
                => q.captain \in Captains
           /\ q.op = "profile" => q.status \in {"ACTIVE", "SUSPENDED"}
<1>1. q = Idle => q \in Requests /\ q \in RideHeld
  BY DEF Requests, RideHeld
<1>2. CASE q \in Requests
  <2>1. q \in RideHeld \/ q \in DeliveryRequests
    BY <1>2 DEF Requests, RideHeld
  <2>2. q \in DeliveryRequests => q.op \notin RideOps
    BY DEF DeliveryRequests, AssignRequests, CaptainRequests, OrderRequests, RideOps
  <2> QED BY <1>1, <1>2, <2>1, <2>2, RequestShape
<1>3. CASE q \in RideHeld
  <2>1. q \in Requests \/ q \in RideRequests
    BY <1>3 DEF Requests, RideHeld
  <2>2. q \in RideRequests => q.op \notin DeliveryOps
    BY DEF RideRequests, DeliveryOps
  <2> QED BY <1>1, <1>3, <2>1, <2>2, RideRequestShape
<1> QED BY <1>2, <1>3 DEF Held

LEMMA DeliveryHolds ==
    ASSUME NEW h \in Handlers, request[h] \in Held,
           BeginDelivery(h) \/ CommitDelivery(h)
    PROVE  request[h] \in Requests
<1>1. request[h] = Idle \/ request[h].op \in DeliveryOps
  BY DEF BeginDelivery, BeginPay, BeginVendor, BeginVendorReject, BeginRefund,
     BeginApprove, BeginAssign, BeginReassign, BeginMove, BeginReject,
     BeginComplete, Begin, CommitDelivery, CommitPay, CommitVendor,
     CommitVendorReject, CommitRefund, CommitApprove, ReadLock, CommitMove,
     CommitAssign, CommitReject, CommitComplete, DeliveryOps
<1> QED BY <1>1, HeldShape

LEMMA RideHolds ==
    ASSUME NEW h \in Handlers, request[h] \in Held,
           BeginRide(h) \/ CommitRide(h)
    PROVE  request[h] \in RideHeld
<1>1. request[h] = Idle \/ request[h].op \in RideOps
  BY DEF BeginRide, BeginSweep, BeginCancelRide, BeginAssignRide, BeginMoveRide,
     BeginDeclineRide, BeginCompleteRide, ServeRide, CommitRide, ReadRideLock,
     ReadForReview, CommitAssignRide, CommitMoveRide, ExpireRequest,
     CommitCancelRide, CommitDeclineRide, CommitCompleteRide, ExpireOffer, RideOps
<1> QED BY <1>1, HeldShape

\* The three kinds of steps of the composition.
LEMMA DispatchCaptainStep ==
    ASSUME DispatchTypeOK, CaptainNext, UNCHANGED <<orderVars, tripVars>>
    PROVE  /\ DispatchTypeOK'
           /\ \A d \in Captains : captain'[d].work = captain[d].work
<1>1. {Idle} \cup AvailabilityRequests \cup LifecycleRequests \subseteq Held
  BY DEF Held, RideHeld
<1>2. \A q \in Held :
        /\ q.op \in {"availability", "suspend", "reactivate", "profile"}
             => q.captain \in Captains
        /\ q.op = "profile" => q.status \in {"ACTIVE", "SUSPENDED"}
  BY HeldShape
<1>3. /\ captain' \in [Captains -> CaptainRow]
      /\ request' \in [Handlers -> Held]
      /\ \A d \in Captains : captain'[d].work = captain[d].work
  BY <1>1, <1>2, CaptainStep DEF DispatchTypeOK, OrdersTyped
<1> QED
  BY <1>3 DEF DispatchTypeOK, OrdersTyped, RidesTyped, orderVars, tripVars

LEMMA DispatchDeliveryStep ==
    ASSUME DispatchTypeOK, NEW h \in Handlers,
           BeginDelivery(h) \/ CommitDelivery(h), UNCHANGED tripVars
    PROVE  /\ request[h] \in Requests
           /\ DispatchTypeOK' /\ GoesOn(h)
<1>1. request[h] \in Requests
  BY DeliveryHolds DEF DispatchTypeOK
<1>2. OrdersTyped' /\ GoesOn(h)
  BY <1>1, BeginType, CommitType DEF DispatchTypeOK, OrdersTyped, orderVars
<1>3. request' \in [Handlers -> Held]
  BY <1>2 DEF DispatchTypeOK, GoesOn, Held
<1> QED
  BY <1>1, <1>2, <1>3 DEF DispatchTypeOK, OrdersTyped, RidesTyped, tripVars

LEMMA DispatchRideStep ==
    ASSUME DispatchTypeOK, NEW h \in Handlers,
           BeginRide(h) \/ CommitRide(h), UNCHANGED orderVars
    PROVE  /\ request[h] \in RideHeld
           /\ DispatchTypeOK' /\ RideGoesOn(h)
           /\ Kept \/ CommitAssignRide(h)
<1>1. request[h] \in RideHeld
  BY RideHolds DEF DispatchTypeOK
<1>2. RideGoesOn(h) /\ RowsKept /\ (Kept \/ CommitAssignRide(h))
  BY <1>1, RideHandlerKeeps, AssignRowsKept DEF DispatchTypeOK, Kept
<1>3. request' \in [Handlers -> Held]
  BY <1>2 DEF DispatchTypeOK, RideGoesOn, Held
<1> QED
  BY <1>1, <1>2, <1>3
     DEF RowsKept, DispatchTypeOK, OrdersTyped, RidesTyped, orderVars

LEMMA DispatchBooking ==
    ASSUME DispatchTypeOK, NEW t \in Trips, CreateTrip(t) \/ GrowOld(t),
           UNCHANGED orderVars
    PROVE  DispatchTypeOK' /\ Kept /\ request' = request
<1>1. Kept /\ request' = request
  BY BookingKeeps DEF DispatchTypeOK
<1> QED
  BY <1>1
     DEF Kept, RowsKept, DispatchTypeOK, OrdersTyped, RidesTyped, orderVars

LEMMA DispatchTypeCorrect == DispatchSpec => []DispatchTypeOK
<1>1. DispatchInit => DispatchTypeOK
  <2>1. DispatchInit => TypeOK
    BY TypeInit DEF DispatchInit
  <2>2. DispatchInit => RidesTyped
    BY WorkAssumption
       DEF DispatchInit, RideInit, CaptainInit, RidesTyped, CaptainRow, Stages,
           TripRow, NoTrip, Outcomes
  <2> QED BY <2>1, <2>2 DEF TypeOK, DispatchTypeOK, OrdersTyped, Held
<1>2. DispatchTypeOK /\ DispatchNext => DispatchTypeOK'
  BY DispatchCaptainStep, DispatchDeliveryStep, DispatchRideStep, DispatchBooking
     DEF DispatchNext, DeliveryStep, RideStep
<1>3. DispatchTypeOK /\ UNCHANGED dispatchVars => DispatchTypeOK'
  BY DEF DispatchTypeOK, OrdersTyped, RidesTyped, dispatchVars, captainVars,
     orderVars, tripVars
<1> QED BY <1>1, <1>2, <1>3, PTL DEF DispatchSpec
\* Rides take and give no work but rides.
LEMMA RideWork ==
    ASSUME DispatchTypeOK, NEW h \in Handlers, request[h] \in RideHeld,
           Kept \/ CommitAssignRide(h), NEW d \in Captains
    PROVE  \/ captain'[d].work = captain[d].work
           \/ {captain[d].work, captain'[d].work} \subseteq Trips \cup {Nothing}
<1>1. CASE Kept
  BY <1>1 DEF Kept, LocksKept
<1>2. CASE CommitAssignRide(h)
  BY <1>2, AssignRideWrites DEF DispatchTypeOK
<1> QED BY <1>1, <1>2

-----------------------------------------------------------------------------
(***************************************************************************)
(* Each dispatcher's offers are reservations next to the other one, too:   *)
(* the lock is all they share, and neither touches the other's.            *)
(***************************************************************************)
LEMMA OtherWorkKeepsOffers ==
    ASSUME OfferHoldsLock, UNCHANGED order,
           \A d \in Captains :
             \/ captain'[d].work = captain[d].work
             \/ captain[d].work \in Trips \cup {Nothing}
    PROVE  OfferHoldsLock'
BY WorkAssumption DEF OfferHoldsLock

LEMMA OtherWorkKeepsRideOffers ==
    ASSUME RideOfferHoldsLock, UNCHANGED trip,
           \A d \in Captains :
             \/ captain'[d].work = captain[d].work
             \/ captain[d].work \in Orders \cup {Nothing}
    PROVE  RideOfferHoldsLock'
BY WorkAssumption DEF RideOfferHoldsLock

LEMMA DispatchOfferStep ==
    ASSUME DispatchTypeOK, OfferHoldsLock, RideOfferHoldsLock, DispatchNext
    PROVE  OfferHoldsLock' /\ RideOfferHoldsLock'
<1>1. CASE CaptainNext /\ UNCHANGED <<orderVars, tripVars>>
  BY <1>1, DispatchCaptainStep, OtherWorkKeepsOffers, OtherWorkKeepsRideOffers
     DEF orderVars, tripVars
<1>2. ASSUME NEW h \in Handlers, BeginDelivery(h) \/ CommitDelivery(h),
             UNCHANGED tripVars
      PROVE  OfferHoldsLock' /\ RideOfferHoldsLock'
  <2>1. OrdersTyped /\ request[h] \in Requests
    BY <1>2, DispatchDeliveryStep DEF DispatchTypeOK
  <2>2. \A d \in Captains :
          \/ captain'[d].work = captain[d].work
          \/ captain[d].work \in Orders \cup {Nothing}
    BY <1>2, <2>1, DeliveryWork
  <2> QED
    BY <1>2, <2>1, <2>2, OfferKept, OtherWorkKeepsRideOffers DEF tripVars
<1>3. ASSUME NEW h \in Handlers, BeginRide(h) \/ CommitRide(h),
             UNCHANGED orderVars
      PROVE  OfferHoldsLock' /\ RideOfferHoldsLock'
  <2>1. request[h] \in RideHeld /\ (Kept \/ CommitAssignRide(h))
    BY <1>3, DispatchRideStep
  <2>2. \A d \in Captains :
          \/ captain'[d].work = captain[d].work
          \/ captain[d].work \in Trips \cup {Nothing}
    BY <2>1, RideWork
  <2>3. OfferHoldsLock'
    BY <1>3, <2>2, OtherWorkKeepsOffers DEF orderVars
  <2>4. RideOfferHoldsLock'
    BY <2>1, KeptOffers, AssignOffers DEF Kept, DispatchTypeOK
  <2> QED BY <2>3, <2>4
<1>4. ASSUME NEW t \in Trips, CreateTrip(t) \/ GrowOld(t), UNCHANGED orderVars
      PROVE  OfferHoldsLock' /\ RideOfferHoldsLock'
  <2>1. Kept /\ captain' = captain
    BY <1>4, DispatchBooking DEF CreateTrip, GrowOld, captainVars
  <2> QED BY <1>4, <2>1, KeptOffers, OtherWorkKeepsOffers DEF Kept, orderVars
<1> QED
  BY <1>1, <1>2, <1>3, <1>4 DEF DispatchNext, DeliveryStep, RideStep

\* An order or a ride on offer names a captain who is locked for it, in every
\* interleaving of both dispatchers, the expiry sweep and the admins.
THEOREM OffersAreReservations ==
    DispatchSpec => [](OfferHoldsLock /\ RideOfferHoldsLock)
<1>1. DispatchInit => OfferHoldsLock /\ RideOfferHoldsLock
  BY OrderAssumption
     DEF DispatchInit, DeliveryInit, OrderInit, NewOrder, OfferHoldsLock,
         RideInit, NoTrip, RideOfferHoldsLock
<1>2. DispatchTypeOK /\ (OfferHoldsLock /\ RideOfferHoldsLock) /\ DispatchNext
        => (OfferHoldsLock /\ RideOfferHoldsLock)'
  BY DispatchOfferStep
<1>3. (OfferHoldsLock /\ RideOfferHoldsLock) /\ UNCHANGED dispatchVars
        => (OfferHoldsLock /\ RideOfferHoldsLock)'
  BY DEF OfferHoldsLock, RideOfferHoldsLock, dispatchVars, captainVars,
     orderVars, tripVars
<1> QED BY DispatchTypeCorrect, <1>1, <1>2, <1>3, PTL DEF DispatchSpec

-----------------------------------------------------------------------------
(***************************************************************************)
(* Both dispatchers together implement CaptainLock: a ride's assignment    *)
(* takes a lock, whatever ends a ride drops one.                           *)
(***************************************************************************)
LEMMA RideLockStep ==
    ASSUME DispatchTypeOK, NEW h \in Handlers, request[h] \in RideHeld,
           Kept \/ CommitAssignRide(h)
    PROVE  Lock!Next \/ holds' = holds
<1> USE DEF holds
<1>1. CASE CommitAssignRide(h)
  <2>1. PICK t \in Trips, c \in Captains :
          /\ captain[c].work \in {Nothing, t} /\ captain'[c].work = t
          /\ \A d \in Captains \ {c} : captain'[d] = captain[d]
    BY <1>1, AssignRideWrites DEF DispatchTypeOK
  <2>2. t \in Works
    BY DEF Works
  <2>3. CASE captain[c].work = Nothing
    <3>1. Lock!Take(c, t)
      BY <2>1, <2>3 DEF Lock!Take
    <3> QED BY <2>1, <2>2, <3>1, LockMoves
  <2>4. CASE captain[c].work = t
    BY <2>1, <2>4
  <2> QED BY <2>1, <2>3, <2>4
<1>2. CASE Kept
  <2>1. PICK c \in Captains \cup {Nothing} :
          \A d \in Captains : \/ captain'[d].work = captain[d].work
                              \/ d = c /\ captain'[d].work = Nothing
    BY <1>2 DEF Kept, OneReleased
  <2>2. CASE \A d \in Captains : captain'[d].work = captain[d].work
    BY <2>2
  <2>3. CASE ~ \A d \in Captains : captain'[d].work = captain[d].work
    <3>1. c \in Captains /\ captain'[c].work = Nothing
      BY <2>1, <2>3
    <3>2. Lock!Drop(c)
      BY <2>1, <3>1 DEF Lock!Drop
    <3>3. captain[c].work \in Trips /\ captain[c].work \in Works
      BY <1>2, <2>1, <2>3, <3>1 DEF Kept, LocksKept, Works
    <3> QED BY <3>1, <3>2, <3>3, LockMoves
  <2> QED BY <2>2, <2>3
<1> QED BY <1>1, <1>2

\* A captain is given an order or a ride only while free of either, in every
\* interleaving of both dispatchers.
THEOREM DispatchLockImplemented == DispatchSpec => DispatchLockRefinement
<1>1. DispatchInit => DispatchLock!Init
  BY DEF DispatchInit, DeliveryInit, CaptainInit, DispatchLock!Init
<1>2. ASSUME DispatchTypeOK, DispatchNext PROVE [Lock!Next]_holds
  <2>1. CASE CaptainNext /\ UNCHANGED <<orderVars, tripVars>>
    BY <1>2, <2>1, DispatchCaptainStep DEF holds
  <2>2. ASSUME NEW h \in Handlers, BeginDelivery(h) \/ CommitDelivery(h),
               UNCHANGED tripVars
        PROVE  [Lock!Next]_holds
    BY <1>2, <2>2, DispatchDeliveryStep, LockStep DEF DispatchTypeOK
  <2>3. ASSUME NEW h \in Handlers, BeginRide(h) \/ CommitRide(h),
               UNCHANGED orderVars
        PROVE  [Lock!Next]_holds
    BY <1>2, <2>3, DispatchRideStep, RideLockStep
  <2>4. ASSUME NEW t \in Trips, CreateTrip(t) \/ GrowOld(t)
        PROVE  [Lock!Next]_holds
    BY <2>4 DEF CreateTrip, GrowOld, captainVars, holds
  <2> QED
    BY <1>2, <2>1, <2>2, <2>3, <2>4 DEF DispatchNext, DeliveryStep, RideStep
<1>3. UNCHANGED dispatchVars => UNCHANGED holds
  BY DEF dispatchVars, captainVars, holds
<1>4. DispatchTypeOK /\ [DispatchNext]_dispatchVars => [Lock!Next]_holds
  BY <1>2, <1>3
<1>5. [Lock!Next]_holds
        => [DispatchLock!Next]_[c \in Captains |-> captain[c].work]
  BY DEF holds, Lock!Next, Lock!Drop, Lock!Take, Lock!HandOver,
     DispatchLock!Next, DispatchLock!Drop, DispatchLock!Take,
     DispatchLock!HandOver
<1> QED
  BY DispatchTypeCorrect, <1>1, <1>4, <1>5, PTL
     DEF DispatchSpec, DispatchLockRefinement, DispatchLock!Spec
-----------------------------------------------------------------------------
(***************************************************************************)
(* One request at a time.  As with orders, what a handler of rides read is *)
(* still true when it commits; so a ride names a captain exactly while it  *)
(* is under way, it is closed once, and closing it settles it.             *)
(***************************************************************************)
RideRowSound(r) ==
    /\ r.status \in Underway => r.driver \in RideCaptains
    /\ r.receipt <=> r.status = "COMPLETED"
    /\ r.outcome # "NONE" <=> r.status \in Closed \ {"EXPIRED"}
    /\ r.status = "COMPLETED" =>
         r.outcome = "NORMAL_COMPLETION" /\ r.payee = r.driver
    /\ r.status \in Cancelled => r.outcome # "NORMAL_COMPLETION"

RidesSound == \A t \in Trips : RideRowSound(trip[t])

RideLocks ==
    \A c \in Captains, t \in Trips :
      captain[c].work = t <=> trip[t].driver = c /\ trip[t].status \in Underway

RidesInv == RidesSound /\ RideLocks /\ OneActiveRidePerCustomer

\* What the handler that holds q read of the rides still holds.
RideStillSo(q) ==
    LET r == trip[q.trip] IN
    /\ q.op = "assignRide" => r.status = "REQUESTED"
    /\ q.op = "moveRide" =>
         r.driver = q.captain /\ <<r.status, q.to>> \in RIDE_STEPS
    /\ q.op = "declineRide" =>
         r.driver = q.captain /\ r.status = "DRIVER_ASSIGNED"
    /\ q.op = "completeRide" =>
         r.driver = q.captain /\ r.status = "ARRIVED_DESTINATION"
    /\ q.op = "cancelRide" => r.status \in Active
    /\ q.op = "sweep" =>
         /\ \A t \in q.stale : trip[t].status = "REQUESTED"
         /\ \A x \in q.offers :
              trip[x[1]].status = "DRIVER_ASSIGNED" /\ trip[x[1]].driver = x[2]
         /\ \A x, y \in q.offers : x[1] = y[1] => x = y

\* The property of a step that ClosedRideStaysClosed asks for.
ClosedRidesStay ==
    \A t \in Trips :
      trip[t].status \in Closed => trip'[t].status = trip[t].status

-----------------------------------------------------------------------------
\* What a transaction that follows its check may write on row r of a ride it
\* releases captain c of.
SoundRideWrite(r, x, c) ==
    /\ r.status \in Active
    /\ RideRowSound(x)
    /\ x.status \in Underway =>
         r.status \in Underway /\ x.driver = r.driver /\ c # r.driver
    /\ r.status \in Underway /\ x.status \notin Underway => c = r.driver

LEMMA RideMovedSound ==
    ASSUME NEW r \in TripRow, RideRowSound(r), NEW s, <<r.status, s>> \in RIDE_STEPS
    PROVE  SoundRideWrite(r, [r EXCEPT !.status = s], Nothing)
<1> DEFINE x == [r EXCEPT !.status = s]
<1>1. r.status \in Underway /\ s \in Underway
  BY DEF RIDE_STEPS, Underway
<1>2. /\ x.status = s /\ x.driver = r.driver /\ x.outcome = r.outcome
      /\ x.payee = r.payee /\ x.receipt = r.receipt
  BY DEF TripRow
<1>3. r.driver # Nothing
  BY <1>1, WorkAssumption DEF RideRowSound
<1> HIDE DEF x
<1>4. r.status \notin Closed /\ s \notin Closed /\ r.status \in Active
  BY <1>1 DEF Underway, Closed, Cancelled, Active
<1>5. RideRowSound(x)
  BY <1>1, <1>2, <1>4 DEF RideRowSound, Closed
<1>6. SoundRideWrite(r, x, Nothing)
  BY <1>1, <1>2, <1>3, <1>4, <1>5 DEF SoundRideWrite
<1> QED BY <1>6 DEF x

\* A request that expires was nobody's.
LEMMA RideExpiredSound ==
    ASSUME NEW r \in TripRow, RideRowSound(r), r.status = "REQUESTED"
    PROVE  SoundRideWrite(r, [r EXCEPT !.status = "EXPIRED"], Nothing)
<1> DEFINE x == [r EXCEPT !.status = "EXPIRED"]
<1>1. /\ x.status = "EXPIRED" /\ x.outcome = r.outcome /\ x.receipt = r.receipt
  BY DEF TripRow
<1> HIDE DEF x
<1>2. SoundRideWrite(r, x, Nothing)
  BY <1>1 DEF SoundRideWrite, RideRowSound, Underway, Active, Closed, Cancelled
<1> QED BY <1>2 DEF x

LEMMA TakenBackSound ==
    ASSUME NEW r \in TripRow, RideRowSound(r), r.status = "DRIVER_ASSIGNED",
           NEW b \in BOOLEAN
    PROVE  SoundRideWrite(r, TakenBack(r, b), r.driver)
<1>1. /\ TakenBack(r, b).status \in {"REQUESTED", "EXPIRED"}
      /\ TakenBack(r, b).outcome = r.outcome
      /\ TakenBack(r, b).receipt = r.receipt
  BY DEF TripRow, TakenBack
<1> QED
  BY <1>1 DEF SoundRideWrite, RideRowSound, Underway, Active, Closed, Cancelled

LEMMA RideCompletedSound ==
    ASSUME NEW r \in TripRow, RideRowSound(r), r.status = "ARRIVED_DESTINATION"
    PROVE  SoundRideWrite(r, RideCompleted(r, r.driver), r.driver)
<1> DEFINE x == RideCompleted(r, r.driver)
<1>1. r.outcome = "NONE"
  BY DEF RideRowSound, Closed, Cancelled
<1>2. /\ x.status = "COMPLETED" /\ x.receipt = TRUE /\ x.driver = r.driver
      /\ x.outcome = "NORMAL_COMPLETION" /\ x.payee = r.driver
  BY <1>1 DEF TripRow, RideCompleted, Settled
<1> HIDE DEF x
<1>3. SoundRideWrite(r, x, r.driver)
  BY <1>2 DEF SoundRideWrite, RideRowSound, Underway, Active, Closed, Cancelled
<1> QED BY <1>3 DEF x

LEMMA RideCancelledSound ==
    ASSUME NEW r \in TripRow, RideRowSound(r), r.status \in Active,
           NEW s \in Cancelled, NEW v \in {"unread", "yes", "no"}
    PROVE  SoundRideWrite(r, RideCancelled(r, s, v), r.driver)
<1> DEFINE x == RideCancelled(r, s, v)
<1>1. r.outcome = "NONE"
  BY DEF RideRowSound, Active, Underway, Closed, Cancelled
<1>2. /\ x.status = s /\ x.receipt = r.receipt
      /\ x.outcome = IF v = "yes" THEN "FINANCIAL_REVIEW_REQUIRED"
                                  ELSE "ZERO_VALUE_CANCELLATION"
  BY <1>1 DEF TripRow, RideCancelled, Settled
<1>3. r.receipt = FALSE
  BY DEF RideRowSound, Active, Underway, TripRow
<1>4. /\ s \notin Underway /\ s \in Closed \ {"EXPIRED"} /\ s # "COMPLETED"
  BY DEF Cancelled, Closed, Underway
<1> HIDE DEF x
<1>5. RideRowSound(x)
  BY <1>2, <1>3, <1>4 DEF RideRowSound
<1>6. SoundRideWrite(r, x, r.driver)
  BY <1>2, <1>4, <1>5 DEF SoundRideWrite
<1> QED BY <1>6 DEF x

\* A transaction that follows its check keeps the rides sound and the locks
\* with the rides they are held for.
LEMMA WriteKeepsRides ==
    ASSUME RidesTyped, RidesInv, NEW t, NEW x, NEW c, WritesRide(t, x, c),
           SoundRideWrite(trip[t], x, c)
    PROVE  RidesInv' /\ ClosedRidesStay
<1> DEFINE r == trip[t]
<1>1. /\ t \in Trips /\ trip'[t] = x
      /\ \A u \in Trips \ {t} : trip'[u] = trip[u]
      /\ \A d \in Captains :
           captain'[d].work = IF d = c /\ captain[d].work = t
                              THEN Nothing ELSE captain[d].work
  BY DEF RidesTyped, WritesRide
<1>2. r.status \in Active /\ r.status \notin Closed
  BY DEF SoundRideWrite, Active, Underway, Closed, Cancelled
<1>3. RidesSound'
  BY <1>1 DEF RidesInv, RidesSound, SoundRideWrite, RideRowSound
<1>4. RideLocks'
  <2> SUFFICES ASSUME NEW d \in Captains, NEW u \in Trips
               PROVE  captain'[d].work = u
                        <=> trip'[u].driver = d /\ trip'[u].status \in Underway
    BY DEF RideLocks
  <2>1. captain[d].work = u <=> trip[u].driver = d /\ trip[u].status \in Underway
    BY DEF RidesInv, RideLocks
  <2>2. u # Nothing
    BY WorkAssumption
  <2>3. CASE u # t
    BY <1>1, <2>1, <2>2, <2>3
  <2>4. CASE u = t
    BY <1>1, <2>1, <2>2, <2>4 DEF SoundRideWrite
  <2> QED BY <2>3, <2>4
<1>5. OneActiveRidePerCustomer'
  BY <1>1, <1>2 DEF RidesInv, OneActiveRidePerCustomer
<1>6. ClosedRidesStay
  BY <1>1, <1>2 DEF ClosedRidesStay
<1> QED BY <1>3, <1>4, <1>5, <1>6 DEF RidesInv

\* A booking is its customer's only active ride.
LEMMA CreateKeepsRides ==
    ASSUME RidesTyped, RidesInv, NEW t \in Trips, CreateTrip(t)
    PROVE  RidesInv' /\ ClosedRidesStay
<1> DEFINE x == [trip[t] EXCEPT !.status = "REQUESTED"]
<1>1. trip[t] \in TripRow /\ trip[t].status = "NONE" /\ RideRowSound(trip[t])
  BY DEF RidesTyped, RidesInv, RidesSound, CreateTrip
<1>2. /\ x.status = "REQUESTED" /\ x.driver = trip[t].driver
      /\ x.outcome = trip[t].outcome /\ x.receipt = trip[t].receipt
  BY <1>1 DEF TripRow
<1>3. RideRowSound(x)
  BY <1>1, <1>2 DEF RideRowSound, Underway, Closed, Cancelled
<1>4. /\ trip'[t] = x /\ \A u \in Trips \ {t} : trip'[u] = trip[u]
      /\ captain' = captain
  BY DEF RidesTyped, CreateTrip, captainVars
<1> HIDE DEF x
<1>5. RidesSound'
  BY <1>3, <1>4 DEF RidesInv, RidesSound, RideRowSound
<1>6. RideLocks'
  BY <1>1, <1>2, <1>4 DEF RidesInv, RideLocks, Underway
<1>7. OneActiveRidePerCustomer'
  <2>1. \A u \in Trips : CustomerOf[u] = CustomerOf[t] => trip[u].status \notin Active
    BY DEF CreateTrip
  <2> QED BY <1>4, <2>1 DEF RidesInv, OneActiveRidePerCustomer
<1>8. ClosedRidesStay
  BY <1>1, <1>4 DEF ClosedRidesStay, Closed, Cancelled
<1> QED BY <1>5, <1>6, <1>7, <1>8 DEF RidesInv

\* An assignment takes a lock that no ride under way holds.
LEMMA AssignKeepsRides ==
    ASSUME RidesTyped, RidesInv, NEW h \in Handlers, request[h] \in RideHeld,
           RideStillSo(request[h]), CommitAssignRide(h)
    PROVE  RidesInv' /\ ClosedRidesStay
<1> DEFINE t == request[h].trip
           c == request[h].captain
           x == OfferedTo(trip[t], c)
<1>1. /\ t \in Trips /\ c \in RideCaptains /\ c \in Captains
      /\ captain[c].work \in {Nothing, t} /\ captain'[c].work = t
      /\ \A d \in Captains \ {c} : captain'[d] = captain[d]
      /\ trip' = [trip EXCEPT ![t] = x]
  BY AssignRideWrites
<1>2. /\ trip[t] \in TripRow /\ RideRowSound(trip[t])
      /\ trip[t].status = "REQUESTED"
  BY <1>1 DEF RidesTyped, RidesInv, RidesSound, RideStillSo, CommitAssignRide
<1>3. /\ x.status = "DRIVER_ASSIGNED" /\ x.driver = c
      /\ x.outcome = trip[t].outcome /\ x.receipt = trip[t].receipt
  BY <1>2 DEF TripRow, OfferedTo
<1>4. RideRowSound(x)
  BY <1>1, <1>2, <1>3 DEF RideRowSound, Underway, Closed, Cancelled
<1>5. trip'[t] = x /\ \A u \in Trips \ {t} : trip'[u] = trip[u]
  BY <1>1 DEF RidesTyped
<1> HIDE DEF x
<1>6. RidesSound'
  BY <1>4, <1>5 DEF RidesInv, RidesSound, RideRowSound
<1>7. RideLocks'
  <2> SUFFICES ASSUME NEW d \in Captains, NEW u \in Trips
               PROVE  captain'[d].work = u
                        <=> trip'[u].driver = d /\ trip'[u].status \in Underway
    BY DEF RideLocks
  <2>1. \A b \in Captains : captain[b].work # t
    BY <1>1, <1>2 DEF RidesInv, RideLocks, Underway
  <2>2. captain[d].work = u <=> trip[u].driver = d /\ trip[u].status \in Underway
    BY DEF RidesInv, RideLocks
  <2>3. CASE d = c
    <3>1. captain[c].work = Nothing /\ u # Nothing
      BY <1>1, <2>1, WorkAssumption
    <3> QED BY <1>1, <1>3, <1>5, <2>2, <2>3, <3>1 DEF Underway
  <2>4. CASE d # c
    BY <1>1, <1>3, <1>5, <2>1, <2>2, <2>4
  <2> QED BY <2>3, <2>4
<1>8. OneActiveRidePerCustomer'
  BY <1>2, <1>5 DEF RidesInv, OneActiveRidePerCustomer, Active
<1>9. ClosedRidesStay
  BY <1>2, <1>5 DEF ClosedRidesStay, Closed, Cancelled
<1> QED BY <1>6, <1>7, <1>8, <1>9 DEF RidesInv
\* Every other transaction of a ride.
LEMMA RideCommitKeepsRides ==
    ASSUME RidesTyped, RidesInv, NEW h \in Handlers, request[h] \in RideHeld,
           RideStillSo(request[h]), CommitRide(h),
           ~ReadRideLock(h), ~ReadForReview(h)
    PROVE  RidesInv' /\ ClosedRidesStay
<1> DEFINE q == request[h]
           t == q.trip
           r == trip[t]
<1>0. \A u \in Trips : trip[u] \in TripRow /\ RideRowSound(trip[u])
  BY DEF RidesTyped, RidesInv, RidesSound
<1>1. CASE CommitAssignRide(h)
  BY <1>1, AssignKeepsRides
<1>2. CASE CommitMoveRide(h)
  <2> DEFINE x == [r EXCEPT !.status = q.to]
  <2>1. WritesRide(t, x, Nothing) /\ t \in Trips
    BY <1>2, MoveWrites DEF WritesRide
  <2>2. <<r.status, q.to>> \in RIDE_STEPS
    BY <1>2 DEF CommitMoveRide, RideStillSo
  <2>3. SoundRideWrite(r, x, Nothing)
    BY <1>0, <2>1, <2>2, RideMovedSound
  <2> HIDE DEF x
  <2> QED BY <2>1, <2>3, WriteKeepsRides
<1>3. ASSUME NEW e \in BOOLEAN, CommitDeclineRide(h, e)
      PROVE  RidesInv' /\ ClosedRidesStay
  <2> DEFINE x == TakenBack(r, q.expired)
  <2>1. /\ WritesRide(t, x, q.captain) /\ t \in Trips /\ q.expired \in BOOLEAN
    BY <1>3, DeclineWrites DEF WritesRide
  <2>2. r.driver = q.captain /\ r.status = "DRIVER_ASSIGNED"
    BY <1>3 DEF CommitDeclineRide, RideStillSo
  <2>3. SoundRideWrite(r, x, q.captain)
    BY <1>0, <2>1, <2>2, TakenBackSound
  <2> HIDE DEF x
  <2> QED BY <2>1, <2>3, WriteKeepsRides
<1>4. ASSUME NEW e \in BOOLEAN, CommitCompleteRide(h, e)
      PROVE  RidesInv' /\ ClosedRidesStay
  <2> DEFINE x == RideCompleted(r, q.captain)
  <2>1. WritesRide(t, x, q.captain) /\ t \in Trips
    BY <1>4, CompleteWrites DEF WritesRide
  <2>2. r.driver = q.captain /\ r.status = "ARRIVED_DESTINATION"
    BY <1>4 DEF CommitCompleteRide, RideStillSo
  <2>3. SoundRideWrite(r, x, q.captain)
    BY <1>0, <2>1, <2>2, RideCompletedSound
  <2> HIDE DEF x
  <2> QED BY <2>1, <2>3, WriteKeepsRides
<1>5. ASSUME NEW e \in BOOLEAN, CommitCancelRide(h, e)
      PROVE  RidesInv' /\ ClosedRidesStay
  <2> DEFINE x == RideCancelled(r, q.as, q.review)
  <2>1. /\ WritesRide(t, x, r.driver) /\ t \in Trips
        /\ q.as \in Cancelled /\ q.review \in {"unread", "yes", "no"}
    BY <1>5, CancelWrites DEF WritesRide
  <2>2. r.status \in Active
    BY <1>5 DEF CommitCancelRide, RideStillSo
  <2>3. SoundRideWrite(r, x, r.driver)
    BY <1>0, <2>1, <2>2, RideCancelledSound
  <2> HIDE DEF x
  <2> QED BY <2>1, <2>3, WriteKeepsRides
<1>6. ASSUME NEW u \in Trips, ExpireRequest(h, u)
      PROVE  RidesInv' /\ ClosedRidesStay
  <2> DEFINE x == [trip[u] EXCEPT !.status = "EXPIRED"]
  <2>1. WritesRide(u, x, Nothing)
    BY <1>6, ExpireRequestWrites
  <2>2. trip[u].status = "REQUESTED"
    BY <1>6 DEF ExpireRequest, RideStillSo
  <2>3. SoundRideWrite(trip[u], x, Nothing)
    BY <1>0, <2>2, RideExpiredSound
  <2> HIDE DEF x
  <2> QED BY <2>1, <2>3, WriteKeepsRides
<1>7. ASSUME NEW y \in Offers, NEW e \in BOOLEAN, ExpireOffer(h, y, e)
      PROVE  RidesInv' /\ ClosedRidesStay
  <2> DEFINE x == TakenBack(trip[y[1]], y[3])
  <2>1. /\ WritesRide(y[1], x, y[2]) /\ y[1] \in Trips /\ y[3] \in BOOLEAN
    BY <1>7, ExpireOfferWrites DEF WritesRide
  <2>2. trip[y[1]].status = "DRIVER_ASSIGNED" /\ trip[y[1]].driver = y[2]
    BY <1>7 DEF ExpireOffer, RideStillSo
  <2>3. SoundRideWrite(trip[y[1]], x, y[2])
    BY <1>0, <2>1, <2>2, TakenBackSound
  <2> HIDE DEF x
  <2> QED BY <2>1, <2>3, WriteKeepsRides
<1> QED
  BY <1>1, <1>2, <1>3, <1>4, <1>5, <1>6, <1>7 DEF CommitRide

\* A handler that begins keeps what it checked; the reads that follow add
\* nothing to it; the sweep goes on with what it has not closed yet.
LEMMA RideSnapshotTaken ==
    ASSUME RidesTyped, NEW R, request \in [Handlers -> R], NEW h \in Handlers,
           request[h] \in RideHeld, BeginRide(h)
    PROVE  RideStillSo(request[h])'
<1>1. UNCHANGED <<captain, tripVars>> /\ trip' = trip
  BY BeginRideReads DEF tripVars
<1>2. ASSUME NEW q, ServeRide(h, q) PROVE request'[h] = q
  BY <1>2 DEF ServeRide
<1>3. ASSUME NEW late \in SUBSET Trips, BeginSweep(h, late)
      PROVE  RideStillSo(request[h])'
  <2>1. request'[h] = [op |-> "sweep",
                       stale |-> {t \in aged : trip[t].status = "REQUESTED"},
                       offers |-> StaleOffers(late)]
    BY <1>2, <1>3 DEF BeginSweep
  <2>2. /\ \A x \in StaleOffers(late) :
             trip[x[1]].status = "DRIVER_ASSIGNED" /\ trip[x[1]].driver = x[2]
        /\ \A x, y \in StaleOffers(late) : x[1] = y[1] => x = y
    BY DEF StaleOffers
  <2> QED BY <1>1, <2>1, <2>2 DEF RideStillSo
<1>4. ASSUME NEW t \in Trips, NEW as \in Cancelled, BeginCancelRide(h, t, as)
      PROVE  RideStillSo(request[h])'
  <2>1. trip[t].status \in Active
    BY <1>4 DEF BeginCancelRide, Cancellable, Active, Underway
  <2> QED BY <1>1, <1>2, <1>4, <2>1 DEF BeginCancelRide, RideStillSo
<1>5. ASSUME NEW t \in Trips, NEW c \in RideCaptains, BeginAssignRide(h, t, c)
      PROVE  RideStillSo(request[h])'
  BY <1>1, <1>2, <1>5 DEF BeginAssignRide, Assignable, RideStillSo
<1>6. ASSUME NEW t \in Trips, NEW c \in RideCaptains, NEW to \in RideMoves,
             BeginMoveRide(h, t, c, to)
      PROVE  RideStillSo(request[h])'
  BY <1>1, <1>2, <1>6 DEF BeginMoveRide, DrivenBy, RideStillSo
<1>7. ASSUME NEW t \in Trips, NEW c \in RideCaptains, BeginDeclineRide(h, t, c)
      PROVE  RideStillSo(request[h])'
  BY <1>1, <1>2, <1>7 DEF BeginDeclineRide, DrivenBy, RideStillSo
<1>8. ASSUME NEW t \in Trips, NEW c \in RideCaptains, BeginCompleteRide(h, t, c)
      PROVE  RideStillSo(request[h])'
  BY <1>1, <1>2, <1>8 DEF BeginCompleteRide, DrivenBy, RideStillSo
<1> QED BY <1>3, <1>4, <1>5, <1>6, <1>7, <1>8 DEF BeginRide

LEMMA RideSnapshotKept ==
    ASSUME RidesTyped, NEW R, request \in [Handlers -> R], NEW h \in Handlers,
           request[h] \in RideHeld, RideStillSo(request[h]), CommitRide(h)
    PROVE  RideStillSo(request[h])'
<1> DEFINE q == request[h]
<1>1. ASSUME request'[h] = Idle PROVE RideStillSo(request[h])'
  BY <1>1 DEF RideStillSo, Idle
<1>2. CASE \/ CommitAssignRide(h) \/ CommitMoveRide(h)
           \/ \E e \in BOOLEAN : \/ CommitCancelRide(h, e)
                                 \/ CommitDeclineRide(h, e)
                                 \/ CommitCompleteRide(h, e)
  <2>1. request'[h] = Idle
    BY <1>2 DEF CommitAssignRide, CommitMoveRide, CommitCancelRide,
       CommitDeclineRide, CommitCompleteRide
  <2> QED BY <1>1, <2>1
<1>3. CASE ReadRideLock(h)
  <2>1. /\ q.op = "assignRide" /\ trip' = trip
        /\ request'[h] = [q EXCEPT !.locking = TRUE]
    BY <1>3 DEF ReadRideLock, tripVars
  <2>2. q \in [op : {"assignRide"}, locking : BOOLEAN, trip : Trips,
               captain : RideCaptains]
    BY <2>1 DEF RideHeld, RideRequests, AvailabilityRequests, LifecycleRequests,
       Idle
  <2>3. request'[h].op = "assignRide" /\ request'[h].trip = q.trip
    BY <2>1, <2>2
  <2> QED BY <2>1, <2>3 DEF RideStillSo
<1>4. CASE ReadForReview(h)
  <2>1. PICK v : /\ q.op = "cancelRide" /\ trip' = trip
                 /\ request'[h] = [q EXCEPT !.review = v]
    BY <1>4 DEF ReadForReview, tripVars
  <2>2. q \in [op : {"cancelRide"}, trip : Trips, as : Cancelled,
               review : {"unread", "yes", "no"}]
    BY <2>1 DEF RideHeld, RideRequests, AvailabilityRequests, LifecycleRequests,
       Idle
  <2>3. request'[h].op = "cancelRide" /\ request'[h].trip = q.trip
    BY <2>1, <2>2
  <2> QED BY <2>1, <2>3 DEF RideStillSo
<1>5. ASSUME NEW stale, NEW offers, q.op = "sweep",
             SweepOn(h, [q EXCEPT !.stale = stale, !.offers = offers])
      PROVE  \/ request'[h] = Idle
             \/ /\ request'[h].op = "sweep" /\ request'[h].stale = stale
                /\ request'[h].offers = offers
  <2>1. q \in [op : {"sweep"}, stale : SUBSET Trips, offers : SUBSET Offers]
    BY <1>5 DEF RideHeld, RideRequests, AvailabilityRequests, LifecycleRequests,
       Idle
  <2> QED BY <1>5, <2>1 DEF SweepOn
<1>6. ASSUME NEW t \in Trips, ExpireRequest(h, t)
      PROVE  RideStillSo(request[h])'
  <2>1. /\ q.op = "sweep" /\ t \in q.stale
        /\ trip' = [trip EXCEPT ![t].status = "EXPIRED"]
        /\ SweepOn(h, [q EXCEPT !.stale = @ \ {t}])
    BY <1>6 DEF ExpireRequest
  <2>2. q \in [op : {"sweep"}, stale : SUBSET Trips, offers : SUBSET Offers]
    BY <2>1 DEF RideHeld, RideRequests, AvailabilityRequests, LifecycleRequests,
       Idle
  <2>3. [q EXCEPT !.stale = @ \ {t}]
          = [q EXCEPT !.stale = q.stale \ {t}, !.offers = q.offers]
    BY <2>2
  <2>4. \/ request'[h] = Idle
        \/ /\ request'[h].op = "sweep" /\ request'[h].stale = q.stale \ {t}
           /\ request'[h].offers = q.offers
    BY <1>5, <2>1, <2>3
  <2>5. /\ \A u \in q.stale : trip[u].status = "REQUESTED"
        /\ \A x \in q.offers :
             trip[x[1]].status = "DRIVER_ASSIGNED" /\ trip[x[1]].driver = x[2]
        /\ \A x, y \in q.offers : x[1] = y[1] => x = y
    BY <2>1 DEF RideStillSo
  <2>6. /\ \A u \in q.stale \ {t} : trip'[u] = trip[u]
        /\ \A x \in q.offers : trip'[x[1]] = trip[x[1]]
    <3>1. \A u \in Trips \ {t} : trip'[u] = trip[u]
      BY <2>1 DEF RidesTyped
    <3>2. \A x \in q.offers : x[1] \in Trips \ {t}
      BY <2>1, <2>2, <2>5 DEF Offers
    <3> QED BY <2>2, <3>1, <3>2
  <2> QED BY <1>1, <2>4, <2>5, <2>6 DEF RideStillSo
<1>7. ASSUME NEW z \in Offers, NEW e \in BOOLEAN, ExpireOffer(h, z, e)
      PROVE  RideStillSo(request[h])'
  <2>1. /\ q.op = "sweep" /\ q.stale = {} /\ z \in q.offers
        /\ trip' = [trip EXCEPT ![z[1]] = TakenBack(@, z[3])]
        /\ SweepOn(h, [q EXCEPT !.offers = @ \ {z}])
    BY <1>7 DEF ExpireOffer
  <2>2. q \in [op : {"sweep"}, stale : SUBSET Trips, offers : SUBSET Offers]
    BY <2>1 DEF RideHeld, RideRequests, AvailabilityRequests, LifecycleRequests,
       Idle
  <2>3. [q EXCEPT !.offers = @ \ {z}]
          = [q EXCEPT !.stale = {}, !.offers = q.offers \ {z}]
    BY <2>1, <2>2
  <2>4. \/ request'[h] = Idle
        \/ /\ request'[h].op = "sweep" /\ request'[h].stale = {}
           /\ request'[h].offers = q.offers \ {z}
    BY <1>5, <2>1, <2>3
  <2>5. /\ \A x \in q.offers :
             trip[x[1]].status = "DRIVER_ASSIGNED" /\ trip[x[1]].driver = x[2]
        /\ \A x, y \in q.offers : x[1] = y[1] => x = y
    BY <2>1 DEF RideStillSo
  <2>6. \A x \in q.offers \ {z} : trip'[x[1]] = trip[x[1]]
    <3>1. \A u \in Trips \ {z[1]} : trip'[u] = trip[u]
      BY <2>1 DEF RidesTyped
    <3>2. \A x \in q.offers \ {z} : x[1] \in Trips \ {z[1]}
      BY <2>1, <2>2, <2>5 DEF Offers
    <3> QED BY <3>1, <3>2
  <2> QED BY <1>1, <2>4, <2>5, <2>6 DEF RideStillSo
<1> QED BY <1>2, <1>3, <1>4, <1>6, <1>7 DEF CommitRide

\* Rides, too, leave both modes of a locked captain paused.
LEMMA RideStepPaused ==
    ASSUME RidesTyped, AllPaused, NEW h \in Handlers, request[h] \in RideHeld,
           BeginRide(h) \/ CommitRide(h)
    PROVE  AllPaused'
<1>1. CASE captain' = captain
  BY <1>1 DEF AllPaused, Paused
<1>2. ASSUME NEW t, NEW x, NEW c, WritesRide(t, x, c) PROVE AllPaused'
  BY <1>2 DEF WritesRide, AllPaused, Paused
<1>3. CASE CommitAssignRide(h)
  <2>1. \A d \in Captains : Paused(captain'[d])
    BY <1>3, AssignRideWrites DEF AllPaused
  <2> QED BY <2>1 DEF AllPaused, Paused
<1>4. CASE BeginRide(h) \/ ReadRideLock(h) \/ ReadForReview(h)
  BY <1>1, <1>4, BeginRideReads, RideReads
<1>5. CASE CommitMoveRide(h)
  BY <1>2, <1>5, MoveWrites
<1>6. ASSUME NEW e \in BOOLEAN, CommitDeclineRide(h, e) PROVE AllPaused'
  BY <1>2, <1>6, DeclineWrites
<1>7. ASSUME NEW e \in BOOLEAN, CommitCompleteRide(h, e) PROVE AllPaused'
  BY <1>2, <1>7, CompleteWrites
<1>8. ASSUME NEW e \in BOOLEAN, CommitCancelRide(h, e) PROVE AllPaused'
  BY <1>2, <1>8, CancelWrites
<1>9. ASSUME NEW t \in Trips, ExpireRequest(h, t) PROVE AllPaused'
  BY <1>2, <1>9, ExpireRequestWrites
<1>10. ASSUME NEW x \in Offers, NEW e \in BOOLEAN, ExpireOffer(h, x, e)
       PROVE  AllPaused'
  BY <1>2, <1>10, ExpireOfferWrites
<1> QED
  BY <1>3, <1>4, <1>5, <1>6, <1>7, <1>8, <1>9, <1>10 DEF CommitRide
-----------------------------------------------------------------------------
(***************************************************************************)
(* Both dispatchers, one request at a time.                                *)
(***************************************************************************)
AllStillSo ==
    \A h \in Handlers : /\ StillSo(request[h])
                        /\ RideStillSo(request[h])
                        /\ SwitchStillSo(request[h])

DispatchSerialInv == OrdersInv /\ RidesInv /\ AllPaused /\ AllStillSo

\* What holds of a request by its op alone.
LEMMA OtherOps ==
    ASSUME NEW q
    PROVE  /\ q.op \in {"availability", "suspend", "reactivate", "profile"}
                => StillSo(q) /\ RideStillSo(q)
           /\ q.op \in DeliveryOps => RideStillSo(q) /\ SwitchStillSo(q)
           /\ q.op \in RideOps => StillSo(q) /\ SwitchStillSo(q)
           /\ q = Idle => StillSo(q) /\ RideStillSo(q) /\ SwitchStillSo(q)
BY DEF StillSo, RideStillSo, SwitchStillSo, DeliveryOps, RideOps, Idle

\* Which ops a step leaves in the handler that makes it.
LEMMA NextOps ==
    ASSUME DispatchTypeOK, NEW h \in Handlers
    PROVE  /\ BeginDelivery(h) \/ CommitDelivery(h) =>
                request'[h] = Idle \/ request'[h].op \in DeliveryOps
           /\ BeginRide(h) \/ CommitRide(h) =>
                request'[h] = Idle \/ request'[h].op \in RideOps
<1>1. request \in [Handlers -> Held]
  BY DEF DispatchTypeOK
<1>2. ASSUME NEW q, request' = [request EXCEPT ![h] = q] PROVE request'[h] = q
  BY <1>1, <1>2
<1>3. ASSUME BeginDelivery(h) \/ CommitDelivery(h)
      PROVE  request'[h] = Idle \/ request'[h].op \in DeliveryOps
  <2>1. CASE BeginDelivery(h)
    <3>0. PICK o \in Orders : BeginDelivery(h)!(o)
      BY <2>1 DEF BeginDelivery
    <3>a. ASSUME NEW q, Begin(h, q), q.op \in DeliveryOps
          PROVE  request'[h].op \in DeliveryOps
      BY <1>2, <3>a DEF Begin
    <3>1. CASE BeginPay(h, o)
      BY <3>a, <3>1 DEF BeginPay, DeliveryOps
    <3>2. ASSUME NEW to \in VendorMoves, BeginVendor(h, o, to)
          PROVE  request'[h].op \in DeliveryOps
      BY <3>a, <3>2 DEF BeginVendor, DeliveryOps
    <3>3. CASE BeginVendorReject(h, o)
      BY <3>a, <3>3 DEF BeginVendorReject, DeliveryOps
    <3>4. CASE BeginRefund(h, o)
      BY <3>a, <3>4 DEF BeginRefund, DeliveryOps
    <3>5. CASE BeginApprove(h, o)
      BY <3>a, <3>5 DEF BeginApprove, DeliveryOps
    <3>6. ASSUME NEW c \in Captains, BeginAssign(h, o, c)
          PROVE  request'[h].op \in DeliveryOps
      BY <3>a, <3>6 DEF BeginAssign, DeliveryOps
    <3>7. ASSUME NEW c \in Captains, BeginReassign(h, o, c)
          PROVE  request'[h].op \in DeliveryOps
      BY <3>a, <3>7 DEF BeginReassign, DeliveryOps
    <3>8. ASSUME NEW c \in Captains, NEW to \in CaptainMoves,
                 BeginMove(h, o, c, to)
          PROVE  request'[h].op \in DeliveryOps
      BY <3>a, <3>8 DEF BeginMove, DeliveryOps
    <3>9. ASSUME NEW c \in Captains, BeginReject(h, o, c)
          PROVE  request'[h].op \in DeliveryOps
      BY <3>a, <3>9 DEF BeginReject, DeliveryOps
    <3>10. ASSUME NEW c \in Captains, BeginComplete(h, o, c)
           PROVE  request'[h].op \in DeliveryOps
      BY <3>a, <3>10 DEF BeginComplete, DeliveryOps
    <3> QED
      BY <3>0, <3>1, <3>2, <3>3, <3>4, <3>5, <3>6, <3>7, <3>8, <3>9, <3>10
  <2>2. CASE ReadLock(h)
    <3>1. /\ request[h].op \in {"assign", "reassign"}
          /\ request'[h] = [request[h] EXCEPT !.locking = TRUE]
      BY <1>1, <2>2 DEF ReadLock
    <3>2. request[h] \in AssignRequests
      <4>1. request[h] \in Requests
        BY <1>1, <3>1, HeldShape DEF DeliveryOps
      <4> QED BY <3>1, <4>1 DEF Requests, DeliveryRequests, AvailabilityRequests,
              CaptainRequests, LifecycleRequests, OrderRequests, Idle
    <3>3. request'[h].op = request[h].op
      BY <3>1, <3>2 DEF AssignRequests
    <3> QED BY <3>1, <3>3 DEF DeliveryOps
  <2>3. CASE End(h)
    BY <1>2, <2>3 DEF End
  <2>4. ASSUME \/ CommitPay(h) \/ CommitVendor(h) \/ CommitVendorReject(h)
               \/ CommitRefund(h) \/ CommitApprove(h) \/ CommitMove(h)
               \/ \E e \in BOOLEAN :
                    CommitAssign(h, e) \/ CommitReject(h, e) \/ CommitComplete(h, e)
        PROVE  End(h)
    BY <2>4 DEF CommitPay, CommitVendor, CommitVendorReject, CommitRefund,
       CommitApprove, CommitMove, CommitAssign, CommitReject, CommitComplete
  <2> QED BY <1>3, <2>1, <2>2, <2>3, <2>4 DEF CommitDelivery
<1>4. ASSUME BeginRide(h) \/ CommitRide(h)
      PROVE  request'[h] = Idle \/ request'[h].op \in RideOps
  <2>1. CASE BeginRide(h)
    <3>0. ASSUME NEW q, ServeRide(h, q), q.op \in RideOps
          PROVE  request'[h].op \in RideOps
      BY <1>2, <3>0 DEF ServeRide
    <3>1. ASSUME NEW late \in SUBSET Trips, BeginSweep(h, late)
          PROVE  request'[h].op \in RideOps
      BY <3>0, <3>1 DEF BeginSweep, RideOps
    <3>2. ASSUME NEW t \in Trips, NEW as \in Cancelled, BeginCancelRide(h, t, as)
          PROVE  request'[h].op \in RideOps
      BY <3>0, <3>2 DEF BeginCancelRide, RideOps
    <3>3. ASSUME NEW t \in Trips, NEW c \in RideCaptains,
                 BeginAssignRide(h, t, c)
          PROVE  request'[h].op \in RideOps
      BY <3>0, <3>3 DEF BeginAssignRide, RideOps
    <3>4. ASSUME NEW t \in Trips, NEW c \in RideCaptains, NEW to \in RideMoves,
                 BeginMoveRide(h, t, c, to)
          PROVE  request'[h].op \in RideOps
      BY <3>0, <3>4 DEF BeginMoveRide, RideOps
    <3>5. ASSUME NEW t \in Trips, NEW c \in RideCaptains,
                 BeginDeclineRide(h, t, c)
          PROVE  request'[h].op \in RideOps
      BY <3>0, <3>5 DEF BeginDeclineRide, RideOps
    <3>6. ASSUME NEW t \in Trips, NEW c \in RideCaptains,
                 BeginCompleteRide(h, t, c)
          PROVE  request'[h].op \in RideOps
      BY <3>0, <3>6 DEF BeginCompleteRide, RideOps
    <3> QED BY <2>1, <3>1, <3>2, <3>3, <3>4, <3>5, <3>6 DEF BeginRide
  <2>2. ASSUME NEW q, q.op = request[h].op, request[h].op \in RideOps,
               request' = [request EXCEPT ![h] = q]
        PROVE  request'[h].op \in RideOps
    BY <1>2, <2>2
  <2>3. request[h].op \in {"assignRide", "cancelRide", "sweep"} =>
          request[h] \in RideRequests
    <3>1. request[h].op \in RideOps => request[h] \in RideHeld
      BY <1>1, HeldShape
    <3> QED BY <3>1 DEF RideOps, RideHeld, AvailabilityRequests,
            LifecycleRequests, Idle
  <2>4. CASE ReadRideLock(h)
    <3>1. request[h] \in RideRequests /\ request[h].op = "assignRide"
      BY <2>3, <2>4 DEF ReadRideLock
    <3>2. [request[h] EXCEPT !.locking = TRUE].op = request[h].op
      BY <3>1 DEF RideRequests
    <3> QED BY <2>2, <2>4, <3>1, <3>2 DEF ReadRideLock, RideOps
  <2>5. CASE ReadForReview(h)
    <3>1. request[h] \in RideRequests /\ request[h].op = "cancelRide"
      BY <2>3, <2>5 DEF ReadForReview
    <3>2. PICK v : request' = [request EXCEPT ![h] =
                                 [request[h] EXCEPT !.review = v]]
      BY <2>5 DEF ReadForReview
    <3>3. [request[h] EXCEPT !.review = v].op = request[h].op
      BY <3>1 DEF RideRequests
    <3> QED BY <2>2, <3>1, <3>2, <3>3 DEF RideOps
  <2>6. ASSUME NEW t \in Trips, ExpireRequest(h, t)
        PROVE  request'[h] = Idle \/ request'[h].op \in RideOps
    <3> DEFINE q == [request[h] EXCEPT !.stale = @ \ {t}]
    <3>1. /\ request[h] \in RideRequests /\ request[h].op = "sweep"
          /\ SweepOn(h, q)
      BY <2>3, <2>6 DEF ExpireRequest
    <3>2. q.op = request[h].op
      BY <3>1 DEF RideRequests
    <3> HIDE DEF q
    <3> QED BY <1>2, <3>1, <3>2 DEF SweepOn, RideOps
  <2>7. ASSUME NEW x \in Offers, NEW e \in BOOLEAN, ExpireOffer(h, x, e)
        PROVE  request'[h] = Idle \/ request'[h].op \in RideOps
    <3> DEFINE q == [request[h] EXCEPT !.offers = @ \ {x}]
    <3>1. /\ request[h] \in RideRequests /\ request[h].op = "sweep"
          /\ SweepOn(h, q)
      BY <2>3, <2>7 DEF ExpireOffer
    <3>2. q.op = request[h].op
      BY <3>1 DEF RideRequests
    <3> HIDE DEF q
    <3> QED BY <1>2, <3>1, <3>2 DEF SweepOn, RideOps
  <2>8. CASE request' = [request EXCEPT ![h] = Idle]
    BY <1>2, <2>8
  <2>9. ASSUME \/ CommitAssignRide(h) \/ CommitMoveRide(h)
               \/ \E e \in BOOLEAN : \/ CommitCancelRide(h, e)
                                     \/ CommitDeclineRide(h, e)
                                     \/ CommitCompleteRide(h, e)
        PROVE  request' = [request EXCEPT ![h] = Idle]
    BY <2>9 DEF CommitAssignRide, CommitMoveRide, CommitCancelRide,
       CommitDeclineRide, CommitCompleteRide
  <2> QED BY <1>4, <2>1, <2>4, <2>5, <2>6, <2>7, <2>8, <2>9 DEF CommitRide
<1> QED BY <1>3, <1>4

\* A switch keeps what it checked.
LEMMA SwitchTaken ==
    ASSUME DispatchTypeOK, AllStillSo, CaptainNext, \A g, k \in Handlers : g = k,
           order' = order, trip' = trip
    PROVE  AllStillSo'
<1>1. PICK h \in Handlers : CaptainNext!(h)
  BY DEF CaptainNext
<1>2. request \in [Handlers -> Held]
  BY DEF DispatchTypeOK
<1>3. CASE request'[h] = Idle
  <2> SUFFICES ASSUME NEW k \in Handlers
               PROVE  /\ StillSo(request[k])' /\ RideStillSo(request[k])'
                      /\ SwitchStillSo(request[k])'
    BY DEF AllStillSo
  <2>1. request'[k] = [op |-> "idle"]
    BY <1>3 DEF Idle
  <2>2. StillSo(request[k])'
    BY <2>1 DEF StillSo
  <2>3. RideStillSo(request[k])'
    BY <2>1 DEF RideStillSo
  <2>4. SwitchStillSo(request[k])'
    BY <2>1 DEF SwitchStillSo
  <2> QED BY <2>2, <2>3, <2>4
<1>4. ASSUME NEW c \in Captains, NEW delivery \in Switches, NEW ride \in Switches,
             BeginAvailability(h, c, delivery, ride)
      PROVE  AllStillSo'
  <2>1. request'[h] = [op |-> "availability", captain |-> c,
                       delivery |-> delivery, ride |-> ride]
    BY <1>2, <1>4 DEF BeginAvailability
  <2>2. /\ captain' = captain /\ captain[c].work = Nothing
        /\ captain[c].verification = "ACTIVE"
    BY <1>4 DEF BeginAvailability, SignedIn
  <2>3. StillSo(request[h])' /\ RideStillSo(request[h])'
    <3>1. StillSo(request[h])'
      BY <2>1 DEF StillSo
    <3>2. RideStillSo(request[h])'
      BY <2>1 DEF RideStillSo
    <3> QED BY <3>1, <3>2
  <2>4. SwitchStillSo(request[h])'
    BY <2>1, <2>2 DEF SwitchStillSo
  <2> QED BY <2>3, <2>4 DEF AllStillSo
<1>5. ASSUME NEW q \in LifecycleRequests, BeginLifecycle(h, q)
      PROVE  AllStillSo'
  <2>1. request'[h] = q /\ q.op \in {"suspend", "reactivate", "profile"}
    BY <1>2, <1>5 DEF BeginLifecycle, LifecycleRequests
  <2>2. StillSo(request[h])'
    BY <2>1 DEF StillSo
  <2>3. RideStillSo(request[h])'
    BY <2>1 DEF RideStillSo
  <2>4. SwitchStillSo(request[h])'
    BY <2>1 DEF SwitchStillSo
  <2> QED BY <2>2, <2>3, <2>4 DEF AllStillSo
<1>6. \/ request'[h] = Idle
      \/ \E c \in Captains, delivery, ride \in Switches :
           BeginAvailability(h, c, delivery, ride)
      \/ \E q \in LifecycleRequests : BeginLifecycle(h, q)
  BY <1>1, <1>2 DEF CommitAvailability, SuspendCaptain, ReactivateCaptain,
     SetDriverProfileStatus, Abandon
<1> QED BY <1>3, <1>4, <1>5, <1>6
\* An order's transactions neither take a captain from a ride nor give a ride.
LEMMA OtherWorkKeepsRides ==
    ASSUME RidesInv, UNCHANGED trip,
           \A d \in Captains :
             \/ captain'[d].work = captain[d].work
             \/ {captain[d].work, captain'[d].work} \subseteq Orders \cup {Nothing}
    PROVE  RidesInv' /\ ClosedRidesStay
<1>1. RideLocks'
  BY WorkAssumption DEF RidesInv, RideLocks
<1> QED
  BY <1>1 DEF RidesInv, RidesSound, RideRowSound, OneActiveRidePerCustomer,
     ClosedRidesStay

LEMMA OtherWorkKeepsOrders ==
    ASSUME OrdersInv, UNCHANGED orderVars,
           \A d \in Captains :
             \/ captain'[d].work = captain[d].work
             \/ {captain[d].work, captain'[d].work} \subseteq Trips \cup {Nothing}
    PROVE  OrdersInv'
<1>1. LockIsAssignment'
  BY WorkAssumption DEF OrdersInv, LockIsAssignment, orderVars
<1> QED
  BY <1>1 DEF OrdersInv, OrdersSound, RowSound, CompletionPaidOnce, orderVars

LEMMA DispatchSerialStep ==
    ASSUME \A g, k \in Handlers : g = k,
           DispatchTypeOK, DispatchSerialInv, DispatchNext
    PROVE  DispatchSerialInv' /\ ClosedRidesStay
<1> DEFINE Goal == DispatchSerialInv' /\ ClosedRidesStay
<1>0. /\ OrdersTyped /\ RidesTyped /\ request \in [Handlers -> Held]
      /\ OrdersInv /\ RidesInv /\ AllPaused
      /\ \A h \in Handlers : /\ StillSo(request[h]) /\ RideStillSo(request[h])
                             /\ SwitchStillSo(request[h])
  BY DEF DispatchTypeOK, DispatchSerialInv, AllStillSo
<1>a. ASSUME NEW h \in Handlers, StillSo(request[h])', RideStillSo(request[h])',
             SwitchStillSo(request[h])'
      PROVE  AllStillSo'
  BY <1>a DEF AllStillSo
<1>1. CASE CaptainNext /\ UNCHANGED <<orderVars, tripVars>>
  <2>1. \A d \in Captains : captain'[d].work = captain[d].work
    BY <1>1, DispatchCaptainStep
  <2>2. OrdersInv' /\ RidesInv' /\ ClosedRidesStay
    BY <1>0, <1>1, <2>1, OtherWorkKeepsOrders, OtherWorkKeepsRides DEF tripVars
  <2>3. AllPaused'
    <3>1. captain \in [Captains -> CaptainRow]
      BY <1>0 DEF OrdersTyped
    <3>2. \A h \in Handlers :
            /\ SwitchStillSo(request[h])
            /\ request[h].op \in {"availability", "suspend", "reactivate",
                                  "profile"} => request[h].captain \in Captains
            /\ request[h].op = "profile" =>
                 request[h].status \in {"ACTIVE", "SUSPENDED"}
      BY <1>0, HeldShape
    <3> QED BY <1>0, <1>1, <3>1, <3>2, CaptainStepPaused
  <2>4. AllStillSo'
    BY <1>1, SwitchTaken DEF DispatchSerialInv, orderVars, tripVars
  <2> QED BY <2>2, <2>3, <2>4 DEF DispatchSerialInv
<1>2. ASSUME NEW h \in Handlers, BeginDelivery(h) \/ CommitDelivery(h),
             UNCHANGED tripVars
      PROVE  Goal
  <2>1. request[h] \in Requests
    BY <1>2, DispatchDeliveryStep
  <2>2. OrdersInv' /\ StillSo(request[h])'
    BY <1>0, <1>2, <2>1, OrderStep
  <2>3. RidesInv' /\ ClosedRidesStay
    BY <1>0, <1>2, <2>1, DeliveryWork, OtherWorkKeepsRides DEF tripVars
  <2>4. AllPaused'
    <3>1. request[h].op = "complete" =>
            captain[request[h].captain].work = request[h].order
      <4>1. request[h].op = "complete" =>
              /\ request[h].captain \in Captains /\ request[h].order \in Orders
              /\ order[request[h].order].rider = request[h].captain
              /\ order[request[h].order].status \in Delivering
        BY <1>0, <2>1, RequestShape DEF StillSo, Delivering
      <4> QED BY <1>0, <4>1 DEF OrdersInv, LockIsAssignment
    <3> QED BY <1>0, <1>2, <2>1, <3>1, OrderStepPaused
  <2>5. RideStillSo(request[h])' /\ SwitchStillSo(request[h])'
    <3>1. request'[h] = Idle \/ request'[h].op \in DeliveryOps
      BY <1>2, NextOps
    <3> QED BY <3>1 DEF RideStillSo, SwitchStillSo, DeliveryOps, Idle
  <2> QED BY <1>a, <2>2, <2>3, <2>4, <2>5 DEF DispatchSerialInv
<1>3. ASSUME NEW h \in Handlers, BeginRide(h) \/ CommitRide(h),
             UNCHANGED orderVars
      PROVE  Goal
  <2>1. request[h] \in RideHeld /\ (Kept \/ CommitAssignRide(h))
    BY <1>3, DispatchRideStep
  <2>2. OrdersInv'
    BY <1>0, <1>3, <2>1, RideWork, OtherWorkKeepsOrders
  <2>3. RidesInv' /\ ClosedRidesStay
    <3>1. CASE BeginRide(h) \/ ReadRideLock(h) \/ ReadForReview(h)
      <4>1. captain' = captain /\ trip' = trip
        BY <1>0, <2>1, <3>1, BeginRideReads, RideReads DEF tripVars
      <4> QED BY <1>0, <4>1, OtherWorkKeepsRides
    <3> QED BY <1>0, <1>3, <2>1, <3>1, RideCommitKeepsRides
  <2>4. AllPaused'
    BY <1>0, <1>3, <2>1, RideStepPaused
  <2>5. RideStillSo(request[h])'
    BY <1>0, <1>3, <2>1, RideSnapshotTaken, RideSnapshotKept
  <2>6. StillSo(request[h])' /\ SwitchStillSo(request[h])'
    <3>1. request'[h] = Idle \/ request'[h].op \in RideOps
      BY <1>3, NextOps
    <3> QED BY <3>1 DEF StillSo, SwitchStillSo, RideOps, Idle
  <2> QED BY <1>a, <2>2, <2>3, <2>4, <2>5, <2>6 DEF DispatchSerialInv
<1>4. ASSUME NEW t \in Trips, CreateTrip(t) \/ GrowOld(t), UNCHANGED orderVars
      PROVE  Goal
  <2>1. captain' = captain /\ request' = request
    BY <1>4 DEF CreateTrip, GrowOld, captainVars
  <2>2. OrdersInv' /\ AllPaused'
    BY <1>0, <1>4, <2>1, OtherWorkKeepsOrders DEF AllPaused, Paused
  <2>3. RidesInv' /\ ClosedRidesStay
    <3>1. CASE GrowOld(t)
      BY <1>0, <2>1, <3>1, OtherWorkKeepsRides DEF GrowOld
    <3> QED BY <1>0, <1>4, <3>1, CreateKeepsRides
  <2>4. \A h \in Handlers : StillSo(request[h])' /\ SwitchStillSo(request[h])'
    BY <1>0, <1>4, <2>1 DEF StillSo, SwitchStillSo, orderVars
  <2>5. ASSUME NEW h \in Handlers PROVE RideStillSo(request[h])'
    <3> DEFINE q == request[h]
    <3>1. q \in Held /\ (q.op \in RideOps => q \in RideHeld)
      BY <1>0, HeldShape
    <3>2. \A u \in Trips : trip[u].status \in Active => trip'[u] = trip[u]
      BY <1>0, <1>4 DEF RidesTyped, CreateTrip, GrowOld, Active, Underway
    <3>3. q.op \in {"assignRide", "moveRide", "declineRide", "completeRide",
                    "cancelRide"} =>
            q.trip \in Trips /\ trip[q.trip].status \in Active
      BY <1>0, <3>1, RideRequestShape
         DEF RideOps, RideStillSo, RIDE_STEPS, Active, Underway
    <3>4. q.op = "sweep" =>
            /\ \A u \in q.stale : u \in Trips /\ trip[u].status \in Active
            /\ \A x \in q.offers :
                 x[1] \in Trips /\ trip[x[1]].status \in Active
      <4> SUFFICES ASSUME q.op = "sweep"
                   PROVE  /\ \A u \in q.stale :
                               u \in Trips /\ trip[u].status \in Active
                          /\ \A x \in q.offers :
                               x[1] \in Trips /\ trip[x[1]].status \in Active
        OBVIOUS
      <4>1. q \in RideHeld
        BY <3>1 DEF RideOps
      <4>2. q.stale \in SUBSET Trips /\ q.offers \in SUBSET Offers
        BY <4>1, RideRequestShape
      <4>3. RideStillSo(q)
        BY <1>0
      <4>4. \A x \in q.offers : x[1] \in Trips
        BY <4>2 DEF Offers
      <4>5. \A u \in q.stale : trip[u].status \in Active
        BY <4>3 DEF RideStillSo, Active, Underway
      <4>6. \A x \in q.offers : trip[x[1]].status \in Active
        BY <4>3 DEF RideStillSo, Active, Underway
      <4> HIDE DEF q
      <4> QED BY <4>2, <4>4, <4>5, <4>6
    <3>5. RideStillSo(q) /\ request'[h] = q
      BY <1>0, <2>1
    <3> QED BY <3>2, <3>3, <3>4, <3>5 DEF RideStillSo
  <2> QED BY <2>2, <2>3, <2>4, <2>5 DEF DispatchSerialInv, AllStillSo
<1> QED
  BY <1>1, <1>2, <1>3, <1>4 DEF DispatchNext, DeliveryStep, RideStep

LEMMA DispatchSerialInit == DispatchInit => DispatchSerialInv
<1> SUFFICES ASSUME DispatchInit PROVE DispatchSerialInv
  OBVIOUS
<1>1. OrdersInv
  BY PlacedSound DEF DispatchInit, DeliveryInit
<1>2. RidesInv
  <2>1. RidesSound
    BY DEF DispatchInit, RideInit, NoTrip, RidesSound, RideRowSound, Underway,
       Closed, Cancelled
  <2>2. RideLocks
    BY WorkAssumption
       DEF DispatchInit, RideInit, CaptainInit, NoTrip, RideLocks, Underway
  <2>3. OneActiveRidePerCustomer
    BY DEF DispatchInit, RideInit, NoTrip, OneActiveRidePerCustomer, Active,
       Underway
  <2> QED BY <2>1, <2>2, <2>3 DEF RidesInv
<1>3. AllPaused
  BY DEF DispatchInit, RideInit, CaptainInit, AllPaused, Paused
<1>4. AllStillSo
  BY DEF DispatchInit, RideInit, CaptainInit, AllStillSo, StillSo, RideStillSo,
     SwitchStillSo, Idle
<1> QED BY <1>1, <1>2, <1>3, <1>4 DEF DispatchSerialInv

LEMMA DispatchSerialInvariant ==
    ASSUME \A g, k \in Handlers : g = k
    PROVE  DispatchSpec => []DispatchSerialInv
<1>1. DispatchTypeOK /\ DispatchSerialInv /\ DispatchNext => DispatchSerialInv'
  BY DispatchSerialStep
<1>2. DispatchSerialInv /\ UNCHANGED dispatchVars => DispatchSerialInv'
  <2> SUFFICES ASSUME DispatchSerialInv, UNCHANGED dispatchVars
               PROVE  DispatchSerialInv'
    OBVIOUS
  <2>1. /\ captain' = captain /\ request' = request /\ trip' = trip
        /\ UNCHANGED orderVars
    BY DEF dispatchVars, captainVars, tripVars
  <2>2. OrdersInv' /\ RidesInv'
    BY <2>1, OtherWorkKeepsOrders, OtherWorkKeepsRides DEF DispatchSerialInv
  <2>3. AllPaused'
    BY <2>1 DEF DispatchSerialInv, AllPaused, Paused
  <2>4. AllStillSo'
    <3> SUFFICES ASSUME NEW k \in Handlers
                 PROVE  /\ StillSo(request[k])' /\ RideStillSo(request[k])'
                        /\ SwitchStillSo(request[k])'
      BY DEF AllStillSo
    <3>1. StillSo(request[k]) /\ RideStillSo(request[k])
          /\ SwitchStillSo(request[k])
      BY DEF DispatchSerialInv, AllStillSo
    <3>2. StillSo(request[k])'
      BY <2>1, <3>1 DEF StillSo, orderVars
    <3>3. RideStillSo(request[k])'
      BY <2>1, <3>1 DEF RideStillSo
    <3>4. SwitchStillSo(request[k])'
      BY <2>1, <3>1 DEF SwitchStillSo
    <3> QED BY <3>2, <3>3, <3>4
  <2> QED BY <2>2, <2>3, <2>4 DEF DispatchSerialInv
<1> QED
  BY DispatchTypeCorrect, DispatchSerialInit, <1>1, <1>2, PTL DEF DispatchSpec

\* While requests do not overlap, a captain has one delivery or one ride in
\* hand: what each dispatcher's tables say of a captain, the one lock says too.
THEOREM OneJobInHand ==
    ASSUME \A g, k \in Handlers : g = k
    PROVE  DispatchSpec => []OneJobAtATime
<1>1. DispatchSerialInv => OneJobAtATime
  <2> SUFFICES ASSUME DispatchSerialInv, NEW c \in Captains, NEW v \in InHand(c)
               PROVE  captain[c].work = v
    BY DEF OneJobAtATime
  <2>1. OrdersInv /\ RidesInv
    BY DEF DispatchSerialInv
  <2>2. CASE v \in Orders /\ order[v].status \in Delivering /\ order[v].rider = c
    BY <2>1, <2>2 DEF OrdersInv, LockIsAssignment
  <2>3. CASE v \in Trips /\ trip[v].status \in Underway /\ trip[v].driver = c
    BY <2>1, <2>3 DEF RidesInv, RideLocks
  <2> QED BY <2>2, <2>3 DEF InHand
<1> QED BY <1>1, DispatchSerialInvariant, PTL

\* While requests do not overlap, a captain is locked for a ride exactly as
\* long as the ride is under way and names that captain.
THEOREM LockFollowsRide ==
    ASSUME \A g, k \in Handlers : g = k
    PROVE  DispatchSpec => []LockHasRide
<1>1. DispatchSerialInv => LockHasRide
  BY WorkAssumption
     DEF DispatchSerialInv, RidesInv, RidesSound, RideRowSound, RideLocks,
         LockHasRide, RideLockReleased
<1> QED BY <1>1, DispatchSerialInvariant, PTL

\* While requests do not overlap, the settlement and the receipt of a ride
\* tell the same story as its status.
THEOREM SettlementTellsStatus ==
    ASSUME \A g, k \in Handlers : g = k
    PROVE  DispatchSpec => []OutcomeMatchesRide
<1>1. DispatchTypeOK /\ DispatchSerialInv => OutcomeMatchesRide
  <2> SUFFICES ASSUME DispatchTypeOK, DispatchSerialInv, NEW t \in Trips
               PROVE  LET r == trip[t] IN
                      /\ r.status \in Cancelled \cup {"EXPIRED"} => ~r.receipt
                      /\ r.status = "COMPLETED" =>
                           /\ r.receipt /\ r.outcome = "NORMAL_COMPLETION"
                           /\ r.payee = r.driver
                      /\ r.status \in Cancelled =>
                           r.outcome \in {"ZERO_VALUE_CANCELLATION",
                                          "FINANCIAL_REVIEW_REQUIRED"}
                      /\ r.outcome # "NONE" => r.status \in Closed
    BY DEF OutcomeMatchesRide, ClosedUnpaidHasNoReceipt
  <2>1. trip[t] \in TripRow /\ RideRowSound(trip[t])
    BY DEF DispatchTypeOK, RidesTyped, DispatchSerialInv, RidesInv, RidesSound
  <2> QED
    BY <2>1 DEF RideRowSound, TripRow, Outcomes, Closed, Cancelled
<1> QED BY <1>1, DispatchTypeCorrect, DispatchSerialInvariant, PTL

\* While requests do not overlap, a customer has one active ride, although
\* declined and expired offers put rides back in the queue.
THEOREM OneRidePerCustomer ==
    ASSUME \A g, k \in Handlers : g = k
    PROVE  DispatchSpec => []OneActiveRidePerCustomer
<1>1. DispatchSerialInv => OneActiveRidePerCustomer
  BY DEF DispatchSerialInv, RidesInv
<1> QED BY <1>1, DispatchSerialInvariant, PTL

\* While requests do not overlap, both modes of a locked captain are paused,
\* and a captain shown ONLINE is active and wants deliveries.
THEOREM LockedCaptainsPaused ==
    ASSUME \A g, k \in Handlers : g = k
    PROVE  DispatchSpec => []LockedModesPaused
<1>1. DispatchSerialInv => LockedModesPaused
  BY DEF DispatchSerialInv, AllPaused, Paused, LockedModesPaused
<1> QED BY <1>1, DispatchSerialInvariant, PTL

\* While requests do not overlap, no assignment, acceptance or sweep revives a
\* closed ride.
THEOREM ClosedRideIsFinal ==
    ASSUME \A g, k \in Handlers : g = k
    PROVE  DispatchSpec => ClosedRideStaysClosed
<1> DEFINE Stays ==
      \A t \in Trips :
        trip[t].status \in Closed => trip'[t].status = trip[t].status
<1>1. DispatchTypeOK /\ DispatchSerialInv /\ DispatchNext => Stays
  BY DispatchSerialStep DEF ClosedRidesStay
<1>2. UNCHANGED dispatchVars => UNCHANGED rideVars
  BY DEF dispatchVars, rideVars
<1>3. DispatchTypeOK /\ DispatchSerialInv /\ [DispatchNext]_dispatchVars
        => [Stays]_rideVars
  BY <1>1, <1>2
<1> QED
  BY DispatchTypeCorrect, DispatchSerialInvariant, <1>3, PTL
     DEF DispatchSpec, ClosedRideStaysClosed
=============================================================================
