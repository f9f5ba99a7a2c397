----------------------------- MODULE CaptainWork -----------------------------
(***************************************************************************)
(* The work state of KariGO captains: CaptainWorkStateService              *)
(* (common/services/captain-work-state.service.ts) and the admin actions   *)
(* that write the same rows.                                               *)
(*                                                                         *)
(* A captain may carry deliveries and rides.  One database row per captain *)
(* records which modes the captain wants (desired), and which single piece *)
(* of work is locking the captain out of every other (work, stage).  The   *)
(* Rider row (verification, availability) and the TaxiDriverProfile row    *)
(* (profile, taxiAvailable) repeat part of it for the dispatch screens.    *)
(*                                                                         *)
(* The lock methods run inside the transactions of the dispatch and taxi   *)
(* services, so here they are operators on a captain's rows; the modules   *)
(* that extend this one use them in their commit actions.                  *)
(*                                                                         *)
(* An HTTP request is served by a handler.  Most handlers check a snapshot *)
(* read outside any transaction and then write blindly in a READ COMMITTED *)
(* transaction; so a handler begins (reads and checks, keeps in request[h] *)
(* what the transaction will use) and later commits, and any number of     *)
(* other handlers may commit in between.                                   *)
(***************************************************************************)

CONSTANTS
    Captains,      \* users with a Rider row and a CaptainWorkState row
    RideCaptains,  \* the captains that also have a TaxiDriverProfile
    Orders,        \* ids of delivery orders (Order.id)
    Trips,         \* ids of rides (TaxiTrip.id)
    Handlers,      \* requests the backend may be serving at one time
    Nothing        \* SQL NULL

ASSUME WorkAssumption ==
    /\ RideCaptains \subseteq Captains
    /\ Orders \cap Trips = {}
    /\ Nothing \notin Captains \cup Orders \cup Trips

VARIABLES
    captain,       \* [Captains -> CaptainRow]
    request        \* [Handlers -> what the handler read, or Idle]

captainVars == <<captain, request>>

Modes == {"DELIVERY", "RIDE"}
Stages == {"NONE", "OFFERED", "ACCEPTED", "IN_PROGRESS"}  \* ASSIGNED is never written
Works == Orders \cup Trips

Mode(w) == IF w \in Orders THEN "DELIVERY" ELSE "RIDE"

CaptainRow ==
    [ work          : Works \cup {Nothing},
      stage         : Stages,
      desired       : SUBSET Modes,
      verification  : {"ACTIVE", "SUSPENDED"},
      availability  : {"ONLINE", "OFFLINE", "BUSY"},
      profile       : {"NONE", "ACTIVE", "SUSPENDED"},
      taxiAvailable : BOOLEAN ]

Idle == [op |-> "idle"]

-----------------------------------------------------------------------------
(***************************************************************************)
(* Faults: the lock methods with a bug.  No specification uses them; put   *)
(* in the place of the definitions below, they show that the properties    *)
(* notice (README, "Faults").                                              *)
(***************************************************************************)

\* updateMany with no condition on the lock in its WHERE clause
CanAcquireBlindly(r, w) == TRUE

\* the other mode is not paused
AcquireLockOfOneMode(r, w, s) ==
    [r EXCEPT !.work = w, !.stage = s, !.availability = "BUSY"]

-----------------------------------------------------------------------------
(***************************************************************************)
(* The lock methods, on a captain's rows r.  eligible is the outcome of    *)
(* rideFinancialEligibility: whether the commission the captain owes is    *)
(* below the blocking threshold; callers choose it.                        *)
(***************************************************************************)

\* The WHERE clause of acquireLock's updateMany: free, or this work already.
CanAcquire(r, w) == r.work \in {Nothing, w}

AcquireLock(r, w, s) ==
    [r EXCEPT !.work = w, !.stage = s,
              !.availability = "BUSY", !.taxiAvailable = FALSE]

TransitionLock(r, w, s) ==
    IF r.work = w THEN [r EXCEPT !.stage = s] ELSE r

RestoreEffectiveAvailability(r, eligible) ==
    LET idle == r.verification = "ACTIVE" /\ r.work = Nothing IN
    [r EXCEPT
       !.availability = IF idle /\ "DELIVERY" \in r.desired
                        THEN "ONLINE" ELSE "OFFLINE",
       !.taxiAvailable = /\ idle
                         /\ r.profile = "ACTIVE"
                         /\ "RIDE" \in r.desired
                         /\ eligible]

ReleaseLock(r, w, eligible) ==
    IF r.work = w
    THEN RestoreEffectiveAvailability(
           [r EXCEPT !.work = Nothing, !.stage = "NONE"], eligible)
    ELSE r

-----------------------------------------------------------------------------
(***************************************************************************)
(* Captains change their availability.                                     *)
(***************************************************************************)

Switches == {"ON", "OFF", "KEEP"}   \* dto.deliveryOnline, dto.rideOnline

AvailabilityRequests ==
    [op : {"availability"}, captain : Captains,
     delivery : Switches, ride : Switches]

DeliveryEligible(r) == r.verification = "ACTIVE"
RideEligible(r) == r.verification = "ACTIVE" /\ r.profile = "ACTIVE"

\* Eligibility of the account for signing a request at all: JwtStrategy and
\* ApprovedCaptainGuard admit active accounts only.
SignedIn(c) == captain[c].verification = "ACTIVE"

\* updateAvailability: everything before its transaction.
BeginAvailability(h, c, delivery, ride) ==
    /\ request[h] = Idle
    /\ SignedIn(c)
    /\ <<delivery, ride>> # <<"KEEP", "KEEP">>
    /\ c \notin RideCaptains => ride = "KEEP"
    /\ captain[c].work = Nothing
    /\ delivery = "ON" => DeliveryEligible(captain[c])
    /\ ride = "ON" => RideEligible(captain[c])
    /\ request' = [request EXCEPT ![h] =
         [op |-> "availability", captain |-> c,
          delivery |-> delivery, ride |-> ride]]
    /\ UNCHANGED captain

Wanted(desired, mode, switch) ==
    CASE switch = "ON"  -> desired \cup {mode}
      [] switch = "OFF" -> desired \ {mode}
      [] OTHER          -> desired

\* updateAvailability: its transaction, which does not look at the lock again.
CommitAvailability(h) ==
    LET q == request[h]
        r == captain[q.captain] IN
    /\ q.op = "availability"
    /\ captain' = [captain EXCEPT ![q.captain] =
         [r EXCEPT
            !.desired = Wanted(Wanted(r.desired, "DELIVERY", q.delivery),
                               "RIDE", q.ride),
            !.availability = CASE q.delivery = "ON"  -> "ONLINE"
                               [] q.delivery = "OFF" -> "OFFLINE"
                               [] OTHER              -> r.availability,
            !.taxiAvailable = CASE q.ride = "ON"  -> TRUE
                                [] q.ride = "OFF" -> FALSE
                                [] OTHER          -> r.taxiAvailable]]
    /\ request' = [request EXCEPT ![h] = Idle]

\* Any handler may end without a commit: a check inside the transaction
\* throws, PostgreSQL aborts the transaction to break a deadlock, the
\* process dies.  Nothing it did remains.
Abandon(h) ==
    /\ request[h] # Idle
    /\ request' = [request EXCEPT ![h] = Idle]
    /\ UNCHANGED captain

-----------------------------------------------------------------------------
(***************************************************************************)
(* Admins suspend and reactivate captains and their ride profiles.  None   *)
(* of these looks at the lock.                                             *)
(***************************************************************************)

LifecycleRequests ==
    [op : {"suspend", "reactivate"}, captain : Captains]
      \cup
    [op : {"profile"}, captain : RideCaptains, status : {"ACTIVE", "SUSPENDED"}]

\* updateCaptainLifecycle and adminUpdateDriverProfileStatus, up to their writes
BeginLifecycle(h, q) ==
    /\ request[h] = Idle
    /\ q.op = "suspend" => captain[q.captain].verification = "ACTIVE"
    /\ q.op = "reactivate" => captain[q.captain].verification = "SUSPENDED"
    /\ request' = [request EXCEPT ![h] = q]
    /\ UNCHANGED captain

SuspendCaptain(h) ==
    LET q == request[h] IN
    /\ q.op = "suspend"
    /\ captain' = [captain EXCEPT ![q.captain] =
         [@ EXCEPT !.verification = "SUSPENDED", !.availability = "OFFLINE"]]
    /\ request' = [request EXCEPT ![h] = Idle]

ReactivateCaptain(h) ==
    LET q == request[h] IN
    /\ q.op = "reactivate"
    /\ captain' = [captain EXCEPT ![q.captain] =
         [@ EXCEPT !.verification = "ACTIVE", !.availability = "OFFLINE"]]
    /\ request' = [request EXCEPT ![h] = Idle]

SetDriverProfileStatus(h) ==
    LET q == request[h] IN
    /\ q.op = "profile"
    /\ captain' = [captain EXCEPT ![q.captain] = [@ EXCEPT
         !.profile = q.status,
         !.taxiAvailable = captain[q.captain].taxiAvailable /\ q.status = "ACTIVE"]]
    /\ request' = [request EXCEPT ![h] = Idle]

-----------------------------------------------------------------------------
CaptainInit ==
    /\ captain = [c \in Captains |->
         [work |-> Nothing, stage |-> "NONE", desired |-> {},
          verification |-> "ACTIVE", availability |-> "OFFLINE",
          profile |-> IF c \in RideCaptains THEN "ACTIVE" ELSE "NONE",
          taxiAvailable |-> FALSE]]
    /\ request = [h \in Handlers |-> Idle]

CaptainNext ==
    \E h \in Handlers :
      \/ \E c \in Captains, delivery, ride \in Switches :
           BeginAvailability(h, c, delivery, ride)
      \/ CommitAvailability(h)
      \/ \E q \in LifecycleRequests : BeginLifecycle(h, q)
      \/ SuspendCaptain(h)
      \/ ReactivateCaptain(h)
      \/ SetDriverProfileStatus(h)
      \/ Abandon(h)
-----------------------------------------------------------------------------
(***************************************************************************)
(* What holds of a captain's rows only while requests do not overlap.      *)
(***************************************************************************)

\* From the offer until the release both modes of the captain are paused, and
\* a captain shown ONLINE to dispatch is not suspended and wants deliveries:
\* the rows that record a captain's availability agree through assignment,
\* completion, suspension, reactivation and switching.
LockedModesPaused ==
    \A c \in Captains :
      /\ captain[c].work # Nothing =>
           captain[c].availability # "ONLINE" /\ ~captain[c].taxiAvailable
      /\ captain[c].availability = "ONLINE" =>
           /\ captain[c].verification = "ACTIVE"
           /\ "DELIVERY" \in captain[c].desired
=============================================================================
