------------------------ MODULE DeliveryDispatchProofs ------------------------
(***************************************************************************)
(* What TLAPS proves of DeliveryDispatch for any number of captains,       *)
(* orders, rides and overlapping requests.                                 *)
(***************************************************************************)
EXTENDS DeliveryDispatch, TLAPS

-----------------------------------------------------------------------------
(***************************************************************************)
(* The lock methods keep a captain's rows well typed, and do to the work   *)
(* column what their names say.                                            *)
(***************************************************************************)

\* What LockedModesPaused asks of one captain's rows.
Paused(r) ==
    /\ r.work # Nothing => r.availability # "ONLINE" /\ ~r.taxiAvailable
    /\ r.availability = "ONLINE" =>
         r.verification = "ACTIVE" /\ "DELIVERY" \in r.desired

AllPaused == \A d \in Captains : Paused(captain[d])

\* acquireLock leaves the captain locked for the work asked for, and paused.
LEMMA AcquireRow ==
    ASSUME NEW r \in CaptainRow, NEW w \in Works, NEW s \in Stages
    PROVE  /\ AcquireLock(r, w, s) \in CaptainRow
           /\ AcquireLock(r, w, s).work = w
           /\ Paused(AcquireLock(r, w, s))
BY DEF CaptainRow, AcquireLock, Paused

\* transitionLock moves the stage and never the work.
LEMMA TransitionRow ==
    ASSUME NEW r \in CaptainRow, NEW w, NEW s \in Stages
    PROVE  /\ TransitionLock(r, w, s) \in CaptainRow
           /\ TransitionLock(r, w, s).work = r.work
           /\ Paused(r) => Paused(TransitionLock(r, w, s))
BY DEF CaptainRow, TransitionLock, Paused

\* restoreEffectiveAvailability does not touch the work, and shows as free
\* for deliveries or rides only a captain who is.
LEMMA RestoreRow ==
    ASSUME NEW r \in CaptainRow, NEW e \in BOOLEAN
    PROVE  /\ RestoreEffectiveAvailability(r, e) \in CaptainRow
           /\ RestoreEffectiveAvailability(r, e).work = r.work
           /\ Paused(RestoreEffectiveAvailability(r, e))
BY DEF CaptainRow, RestoreEffectiveAvailability, Paused

\* releaseLock frees the captain of this work and of no other.
LEMMA ReleaseRow ==
    ASSUME NEW r \in CaptainRow, NEW w, NEW e \in BOOLEAN
    PROVE  /\ ReleaseLock(r, w, e) \in CaptainRow
           /\ ReleaseLock(r, w, e).work = IF r.work = w THEN Nothing ELSE r.work
           /\ Paused(r) \/ r.work = w => Paused(ReleaseLock(r, w, e))
<1> DEFINE free == [r EXCEPT !.work = Nothing, !.stage = "NONE"]
<1>1. free \in CaptainRow /\ free.work = Nothing
  BY DEF CaptainRow, Stages
<1>2. /\ RestoreEffectiveAvailability(free, e) \in CaptainRow
      /\ RestoreEffectiveAvailability(free, e).work = Nothing
      /\ Paused(RestoreEffectiveAvailability(free, e))
  <2> HIDE DEF free
  <2> QED BY <1>1, RestoreRow
<1> QED BY <1>2 DEF ReleaseLock

\* updateAvailability writes the wish and what is shown, never the work.
LEMMA SwitchRow ==
    ASSUME NEW r \in CaptainRow, NEW D \in SUBSET Modes,
           NEW a \in {"ONLINE", "OFFLINE", "BUSY"}, NEW t \in BOOLEAN
    PROVE  LET s == [r EXCEPT !.desired = D, !.availability = a,
                              !.taxiAvailable = t]
           IN  s \in CaptainRow /\ s.work = r.work
BY DEF CaptainRow

-----------------------------------------------------------------------------
\* The row an admin's suspension or reactivation leaves behind.
LEMMA LifecycleRow ==
    ASSUME NEW row \in CaptainRow, NEW v \in {"ACTIVE", "SUSPENDED"}
    PROVE  LET x == [row EXCEPT !.verification = v, !.availability = "OFFLINE"]
           IN  /\ x \in CaptainRow /\ x.work = row.work
               /\ Paused(row) => Paused(x)
  BY DEF CaptainRow, Paused

\* The row an admin's change of the driver profile leaves behind.
LEMMA ProfileRow ==
    ASSUME NEW row \in CaptainRow, NEW p \in {"ACTIVE", "SUSPENDED"},
           NEW t \in BOOLEAN
    PROVE  LET x == [row EXCEPT !.profile = p, !.taxiAvailable = t]
           IN  /\ x \in CaptainRow /\ x.work = row.work
               /\ Paused(row) /\ (t => row.taxiAvailable) => Paused(x)
  BY DEF CaptainRow, Paused

(***************************************************************************)
(* The captains' own switches and the admin's suspensions keep the rows'   *)
(* types and never touch a lock, whatever else (R) handlers may hold.      *)
(***************************************************************************)
LEMMA CaptainStep ==
    ASSUME NEW R,
           {Idle} \cup AvailabilityRequests \cup LifecycleRequests \subseteq R,
           \A q \in R :
             /\ q.op \in {"availability", "suspend", "reactivate", "profile"}
                  => q.captain \in Captains
             /\ q.op = "profile" => q.status \in {"ACTIVE", "SUSPENDED"},
           captain \in [Captains -> CaptainRow],
           request \in [Handlers -> R],
           CaptainNext
    PROVE  /\ captain' \in [Captains -> CaptainRow]
           /\ request' \in [Handlers -> R]
           /\ \A d \in Captains : captain'[d].work = captain[d].work
<1> PICK h \in Handlers : CaptainNext!(h)
  BY DEF CaptainNext
<1> DEFINE q == request[h]
           c == q.captain
<1> DEFINE Kept == /\ captain' \in [Captains -> CaptainRow]
                   /\ request' \in [Handlers -> R]
                   /\ \A d \in Captains : captain'[d].work = captain[d].work
<1>0. q \in R
  OBVIOUS
<1>a. Idle \in R
  OBVIOUS
<1>1. ASSUME NEW d \in Captains, NEW delivery \in Switches, NEW ride \in Switches,
             BeginAvailability(h, d, delivery, ride)
      PROVE  Kept
  <2>1. [op |-> "availability", captain |-> d, delivery |-> delivery,
         ride |-> ride] \in R
    BY DEF AvailabilityRequests
  <2> QED BY <1>1, <2>1 DEF BeginAvailability
<1>2. CASE CommitAvailability(h)
  <2>1. c \in Captains
    BY <1>0, <1>2 DEF CommitAvailability
  <2>2. \A w : \A D \in SUBSET Modes, m \in Modes :
          Wanted(D, m, w) \in SUBSET Modes
    BY DEF Wanted, Modes
  <2>3. captain[c].desired \in SUBSET Modes
    BY <2>1 DEF CaptainRow
  <2> DEFINE desired == Wanted(Wanted(captain[c].desired, "DELIVERY", q.delivery),
                               "RIDE", q.ride)
  <2>4. desired \in SUBSET Modes
    <3>1. Wanted(captain[c].desired, "DELIVERY", q.delivery) \in SUBSET Modes
      BY <2>2, <2>3 DEF Modes
    <3> QED BY <2>2, <3>1 DEF Modes
  <2> HIDE DEF desired
  <2>5. /\ captain'[c] \in CaptainRow
        /\ captain'[c].work = captain[c].work
        /\ \A d \in Captains \ {c} : captain'[d] = captain[d]
        /\ captain' \in [Captains -> CaptainRow]
    <3> DEFINE row(a, t) == [captain[c] EXCEPT !.desired = desired,
                               !.availability = a, !.taxiAvailable = t]
    <3>1. \A a \in {"ONLINE", "OFFLINE", "BUSY"}, t \in BOOLEAN :
            row(a, t) \in CaptainRow /\ row(a, t).work = captain[c].work
      BY <2>1, <2>4, SwitchRow
    <3>2. PICK a \in {"ONLINE", "OFFLINE", "BUSY"}, t \in BOOLEAN :
            captain' = [captain EXCEPT ![c] = row(a, t)]
      <4> DEFINE a0 == CASE q.delivery = "ON"  -> "ONLINE"
                         [] q.delivery = "OFF" -> "OFFLINE"
                         [] OTHER              -> captain[c].availability
                 t0 == CASE q.ride = "ON"  -> TRUE
                         [] q.ride = "OFF" -> FALSE
                         [] OTHER          -> captain[c].taxiAvailable
      <4>1. a0 \in {"ONLINE", "OFFLINE", "BUSY"}
        BY <2>1 DEF CaptainRow
      <4>2. t0 \in BOOLEAN
        BY <2>1 DEF CaptainRow
      <4>3. captain' = [captain EXCEPT ![c] = row(a0, t0)]
        BY <1>2 DEF CommitAvailability, desired
      <4> HIDE DEF a0, t0, row
      <4> QED BY <4>1, <4>2, <4>3
    <3> HIDE DEF row
    <3> QED BY <2>1, <3>1, <3>2
  <2> QED BY <1>2, <1>a, <2>5 DEF CommitAvailability
<1>3. ASSUME NEW r \in LifecycleRequests, BeginLifecycle(h, r)
      PROVE  Kept
  BY <1>3 DEF BeginLifecycle
<1>4. CASE SuspendCaptain(h)
  <2>1. c \in Captains
    BY <1>0, <1>4 DEF SuspendCaptain
  <2> DEFINE x == [captain[c] EXCEPT !.verification = "SUSPENDED",
                                    !.availability = "OFFLINE"]
  <2>2. x \in CaptainRow /\ x.work = captain[c].work
    BY <2>1, LifecycleRow
  <2>3. captain' = [captain EXCEPT ![c] = x]
    BY <1>4 DEF SuspendCaptain
  <2> HIDE DEF x
  <2> QED BY <1>4, <1>a, <2>1, <2>2, <2>3 DEF SuspendCaptain
<1>5. CASE ReactivateCaptain(h)
  <2>1. c \in Captains
    BY <1>0, <1>5 DEF ReactivateCaptain
  <2> DEFINE x == [captain[c] EXCEPT !.verification = "ACTIVE",
                                    !.availability = "OFFLINE"]
  <2>2. x \in CaptainRow /\ x.work = captain[c].work
    BY <2>1, LifecycleRow
  <2>3. captain' = [captain EXCEPT ![c] = x]
    BY <1>5 DEF ReactivateCaptain
  <2> HIDE DEF x
  <2> QED BY <1>5, <1>a, <2>1, <2>2, <2>3 DEF ReactivateCaptain
<1>6. CASE SetDriverProfileStatus(h)
  <2>1. c \in Captains /\ q.status \in {"ACTIVE", "SUSPENDED"}
    BY <1>0, <1>6 DEF SetDriverProfileStatus
  <2> DEFINE t == captain[c].taxiAvailable /\ q.status = "ACTIVE"
             x == [captain[c] EXCEPT !.profile = q.status, !.taxiAvailable = t]
  <2>2. captain' = [captain EXCEPT ![c] = x]
    BY <1>6 DEF SetDriverProfileStatus
  <2>3. t \in BOOLEAN
    OBVIOUS
  <2> HIDE DEF t
  <2>4. x \in CaptainRow /\ x.work = captain[c].work
    BY <2>1, <2>3, ProfileRow
  <2> HIDE DEF x
  <2> QED BY <1>6, <1>a, <2>1, <2>2, <2>4 DEF SetDriverProfileStatus
<1>7. CASE Abandon(h)
  BY <1>7, <1>a DEF Abandon
<1> QED
  BY <1>1, <1>2, <1>3, <1>4, <1>5, <1>6, <1>7
-----------------------------------------------------------------------------
(***************************************************************************)
(* A switch shows a captain as free for the mode that is switched on; it   *)
(* is right to do so while the captain is as free and as active as when    *)
(* the request was checked.                                                *)
(***************************************************************************)
SwitchStillSo(q) ==
    q.op = "availability" =>
      captain[q.captain].work = Nothing /\ captain[q.captain].verification = "ACTIVE"

LEMMA SwitchPaused ==
    ASSUME NEW r \in CaptainRow, r.work = Nothing, r.verification = "ACTIVE",
           NEW D \in SUBSET Modes,
           NEW a \in {"ONLINE", "OFFLINE", "BUSY"}, NEW t \in BOOLEAN,
           a = "ONLINE" => "DELIVERY" \in D
    PROVE  Paused([r EXCEPT !.desired = D, !.availability = a,
                            !.taxiAvailable = t])
BY DEF CaptainRow, Paused

\* The captains' own switches and the admin's suspensions leave both modes of
\* a locked captain paused.
LEMMA CaptainStepPaused ==
    ASSUME captain \in [Captains -> CaptainRow], AllPaused,
           \A h \in Handlers :
             /\ SwitchStillSo(request[h])
             /\ request[h].op \in {"availability", "suspend", "reactivate",
                                   "profile"} => request[h].captain \in Captains
             /\ request[h].op = "profile" =>
                  request[h].status \in {"ACTIVE", "SUSPENDED"},
           CaptainNext
    PROVE  AllPaused'
<1> PICK h \in Handlers : CaptainNext!(h)
  BY DEF CaptainNext
<1> DEFINE q == request[h]
           c == q.captain
<1>0. ASSUME NEW x, c \in Captains, captain' = [captain EXCEPT ![c] = x], Paused(x)
      PROVE  AllPaused'
  BY <1>0 DEF AllPaused, Paused
<1>1. CASE captain' = captain
  BY <1>1 DEF AllPaused, Paused
<1>2. CASE CommitAvailability(h)
  <2>1. /\ q.op = "availability" /\ c \in Captains
        /\ captain[c] \in CaptainRow /\ Paused(captain[c])
        /\ captain[c].work = Nothing /\ captain[c].verification = "ACTIVE"
    BY <1>2 DEF CommitAvailability, SwitchStillSo, AllPaused
  <2> DEFINE D == Wanted(Wanted(captain[c].desired, "DELIVERY", q.delivery),
                         "RIDE", q.ride)
             a == CASE q.delivery = "ON"  -> "ONLINE"
                    [] q.delivery = "OFF" -> "OFFLINE"
                    [] OTHER              -> captain[c].availability
             t == CASE q.ride = "ON"  -> TRUE
                    [] q.ride = "OFF" -> FALSE
                    [] OTHER          -> captain[c].taxiAvailable
             x == [captain[c] EXCEPT !.desired = D, !.availability = a,
                                     !.taxiAvailable = t]
  <2>2. D \in SUBSET Modes
    <3>1. captain[c].desired \in SUBSET Modes
      BY <2>1 DEF CaptainRow
    <3>2. \A w : \A E \in SUBSET Modes, m \in Modes :
            Wanted(E, m, w) \in SUBSET Modes
      BY DEF Wanted, Modes
    <3>3. Wanted(captain[c].desired, "DELIVERY", q.delivery) \in SUBSET Modes
      BY <3>1, <3>2 DEF Modes
    <3> QED BY <3>2, <3>3 DEF Modes
  <2>3. a \in {"ONLINE", "OFFLINE", "BUSY"}
    BY <2>1 DEF CaptainRow
  <2>4. t \in BOOLEAN
    BY <2>1 DEF CaptainRow
  <2>5. Paused(x)
    <3>1. a = "ONLINE" => "DELIVERY" \in D
      <4>1. CASE q.delivery = "ON"
        BY <4>1 DEF Wanted
      <4>2. CASE q.delivery = "OFF"
        BY <4>2
      <4>3. CASE q.delivery \notin {"ON", "OFF"}
        BY <2>1, <4>3 DEF Wanted, Paused
      <4> QED BY <4>1, <4>2, <4>3
    <3> HIDE DEF D, a, t
    <3> QED BY <2>1, <2>2, <2>3, <2>4, <3>1, SwitchPaused
  <2>6. captain' = [captain EXCEPT ![c] = x]
    BY <1>2 DEF CommitAvailability
  <2> HIDE DEF x
  <2> QED BY <1>0, <2>1, <2>5, <2>6
<1>3. ASSUME NEW v \in {"ACTIVE", "SUSPENDED"}, c \in Captains,
             captain' = [captain EXCEPT ![c] =
               [captain[c] EXCEPT !.verification = v, !.availability = "OFFLINE"]]
      PROVE  AllPaused'
  <2> DEFINE x == [captain[c] EXCEPT !.verification = v, !.availability = "OFFLINE"]
  <2>1. Paused(x)
    BY <1>3, LifecycleRow DEF AllPaused
  <2> HIDE DEF x
  <2> QED BY <1>0, <1>3, <2>1 DEF x
<1>4. CASE SuspendCaptain(h)
  BY <1>3, <1>4 DEF SuspendCaptain
<1>5. CASE ReactivateCaptain(h)
  BY <1>3, <1>5 DEF ReactivateCaptain
<1>6. CASE SetDriverProfileStatus(h)
  <2>1. c \in Captains /\ q.status \in {"ACTIVE", "SUSPENDED"}
    BY <1>6 DEF SetDriverProfileStatus
  <2> DEFINE t == captain[c].taxiAvailable /\ q.status = "ACTIVE"
             x == [captain[c] EXCEPT !.profile = q.status, !.taxiAvailable = t]
  <2>2. t \in BOOLEAN /\ (t => captain[c].taxiAvailable)
    OBVIOUS
  <2>3. captain' = [captain EXCEPT ![c] = x]
    BY <1>6 DEF SetDriverProfileStatus
  <2> HIDE DEF t
  <2>4. Paused(x)
    BY <2>1, <2>2, ProfileRow DEF AllPaused
  <2> HIDE DEF x
  <2> QED BY <1>0, <2>1, <2>3, <2>4
<1>7. CASE captain' # captain
  BY <1>2, <1>4, <1>5, <1>6, <1>7
     DEF BeginAvailability, BeginLifecycle, Abandon
<1> QED BY <1>1, <1>7

-----------------------------------------------------------------------------
(***************************************************************************)
(* What an order's row holds after each transaction.                       *)
(***************************************************************************)

\* The writes of payment, vendor and refund never put an order on offer.
LEMMA PaymentRows ==
    ASSUME NEW r \in OrderRow, NEW b \in BOOLEAN, NEW v \in BOOLEAN
    PROVE  /\ Paid(r, v, b) \in OrderRow
           /\ VendorRejected(r, b) \in OrderRow
           /\ RefundRequested(r, b) \in OrderRow
           /\ Refunded(r, b) \in OrderRow
           /\ \A x \in {Paid(r, v, b), VendorRejected(r, b),
                        RefundRequested(r, b), Refunded(r, b)} :
                /\ x.rider = r.rider
                /\ x.status = "RIDER_ASSIGNED" => r.status = "RIDER_ASSIGNED"
<1>1. Paid(r, v, b) \in OrderRow /\ Paid(r, v, b).rider = r.rider
      /\ (Paid(r, v, b).status = "RIDER_ASSIGNED" => r.status = "RIDER_ASSIGNED")
  BY DEF OrderRow, Paid, Statuses, PaymentStatuses
<1>2. VendorRejected(r, b) \in OrderRow /\ VendorRejected(r, b).rider = r.rider
      /\ VendorRejected(r, b).status = "VENDOR_REJECTED"
  BY DEF OrderRow, VendorRejected, Statuses, PaymentStatuses
<1>3. RefundRequested(r, b) \in OrderRow /\ RefundRequested(r, b).rider = r.rider
      /\ (RefundRequested(r, b).status = "RIDER_ASSIGNED"
            => r.status = "RIDER_ASSIGNED")
  BY DEF OrderRow, RefundRequested, Statuses, PaymentStatuses
<1>4. Refunded(r, b) \in OrderRow /\ Refunded(r, b).rider = r.rider
      /\ (Refunded(r, b).status = "RIDER_ASSIGNED"
            => r.status = "RIDER_ASSIGNED")
  BY DEF OrderRow, Refunded, Statuses, PaymentStatuses
<1> QED BY <1>1, <1>2, <1>3, <1>4

\* The writes of dispatch: only an offer makes an order RIDER_ASSIGNED.
LEMMA DispatchRows ==
    ASSUME NEW r \in OrderRow, NEW c \in Captains
    PROVE  /\ Offered(r, c) \in OrderRow
           /\ Offered(r, c).rider = c
           /\ Returned(r) \in OrderRow
           /\ Returned(r).status = "READY_FOR_PICKUP"
           /\ Completed(r) \in OrderRow
           /\ Completed(r).status = "COMPLETED"
BY DEF OrderRow, Offered, Returned, Completed, Statuses, Delivering

-----------------------------------------------------------------------------
(***************************************************************************)
(* What a handler's request says about the fields its commit uses.         *)
(***************************************************************************)

LEMMA RequestShape ==
    ASSUME NEW q \in Requests
    PROVE  /\ q.op \in {"availability", "suspend", "reactivate", "profile",
                        "assign", "reassign", "move", "reject", "complete"}
                => q.captain \in Captains
           /\ q.op \in {"assign", "reassign", "move", "reject", "complete",
                        "vendor", "vendorReject", "pay", "refund", "approve"}
                => q.order \in Orders
           /\ q.op = "profile" => q.status \in {"ACTIVE", "SUSPENDED"}
           /\ q.op \in {"assign", "reassign"} =>
                /\ q.captain # q.previous
                /\ [q EXCEPT !.locking = TRUE] \in Requests
           /\ q.op = "move" => q.to \in CaptainMoves
           /\ q.op = "vendor" => q.to \in VendorMoves
           /\ q.op = "vendorReject" => q.paid \in BOOLEAN
           /\ q.op \in {"pay", "refund", "approve"} => q.change \in BOOLEAN
<1>1. CASE q = Idle
  BY <1>1 DEF Idle
<1>2. CASE q \in AvailabilityRequests
  BY <1>2 DEF AvailabilityRequests
<1>3. CASE q \in LifecycleRequests
  BY <1>3, WorkAssumption DEF LifecycleRequests
<1>4. CASE q \in AssignRequests
  <2>1. [q EXCEPT !.locking = TRUE] \in AssignRequests
    BY <1>4 DEF AssignRequests
  <2> QED BY <1>4, <2>1 DEF AssignRequests, Requests, DeliveryRequests
<1>5. CASE q \in CaptainRequests
  BY <1>5 DEF CaptainRequests
<1>6. CASE q \in OrderRequests
  BY <1>6 DEF OrderRequests
<1> QED
  BY <1>1, <1>2, <1>3, <1>4, <1>5, <1>6 DEF Requests, DeliveryRequests

-----------------------------------------------------------------------------
(***************************************************************************)
(* Type correctness.  The lemmas name the handler that steps and ask       *)
(* nothing of what the others hold, so that they serve where those others  *)
(* are handlers of rides.                                                  *)
(***************************************************************************)
OrdersTyped ==
    /\ captain \in [Captains -> CaptainRow]
    /\ order \in [Orders -> OrderRow]
    /\ earnings \subseteq Captains \X Orders
    /\ settlements \subseteq Orders
    /\ completions \in [Orders -> 0..MaxCompletions]

\* Handler h goes on with a request of this module, or ends.
GoesOn(h) == \E q \in Requests : request' = [request EXCEPT ![h] = q]

LEMMA TypeInit == DeliveryInit => TypeOK
<1> SUFFICES ASSUME DeliveryInit PROVE TypeOK
  OBVIOUS
<1>1. captain \in [Captains -> CaptainRow]
  BY DEF DeliveryInit, CaptainInit, CaptainRow, Stages
<1>2. request \in [Handlers -> Requests]
  BY DEF DeliveryInit, CaptainInit, Requests
<1>3. order \in [Orders -> OrderRow]
  <2>1. \A k \in Kinds : NewOrder(k) \in OrderRow
    BY DEF NewOrder, OrderRow, Kinds, Statuses, PaymentStatuses
  <2> QED BY <2>1, OrderAssumption DEF DeliveryInit, OrderInit
<1>4. /\ earnings \subseteq Captains \X Orders
      /\ settlements \subseteq Orders
      /\ completions \in [Orders -> 0..MaxCompletions]
  BY OrderAssumption DEF DeliveryInit, OrderInit
<1> QED BY <1>1, <1>2, <1>3, <1>4 DEF TypeOK

\* A handler that begins keeps a request of its endpoint's shape.
LEMMA BeginType ==
    ASSUME OrdersTyped, NEW h \in Handlers, BeginDelivery(h)
    PROVE  UNCHANGED <<captain, orderVars>> /\ GoesOn(h)
<1> DEFINE Keeps == UNCHANGED <<captain, orderVars>> /\ GoesOn(h)
<1>0. ASSUME NEW q \in Requests, Begin(h, q) PROVE Keeps
  BY <1>0 DEF Begin, GoesOn
<1> PICK o \in Orders : BeginDelivery(h)!(o)
  BY DEF BeginDelivery
<1>1. CASE BeginPay(h, o)
  <2> DEFINE q == [op |-> "pay", order |-> o,
                   change |-> order[o].status = "AWAITING_PAYMENT"]
  <2>1. q \in Requests BY DEF Requests, DeliveryRequests, OrderRequests
  <2> QED BY <1>0, <1>1, <2>1 DEF BeginPay
<1>2. ASSUME NEW to \in VendorMoves, BeginVendor(h, o, to) PROVE Keeps
  <2>1. [op |-> "vendor", order |-> o, to |-> to] \in Requests
    BY DEF Requests, DeliveryRequests, OrderRequests
  <2> QED BY <1>0, <1>2, <2>1 DEF BeginVendor
<1>3. CASE BeginVendorReject(h, o)
  <2> DEFINE q == [op |-> "vendorReject", order |-> o,
                   paid |-> order[o].paymentStatus = "SUCCESSFUL"]
  <2>1. q \in Requests BY DEF Requests, DeliveryRequests, OrderRequests
  <2> QED BY <1>0, <1>3, <2>1 DEF BeginVendorReject
<1>4. CASE BeginRefund(h, o)
  <2> DEFINE q == [op |-> "refund", order |-> o,
                   change |-> order[o].status # "REFUND_REQUESTED"]
  <2>1. q \in Requests BY DEF Requests, DeliveryRequests, OrderRequests
  <2> QED BY <1>0, <1>4, <2>1 DEF BeginRefund
<1>5. CASE BeginApprove(h, o)
  <2> DEFINE q == [op |-> "approve", order |-> o,
                   change |-> order[o].status # "REFUNDED"]
  <2>1. q \in Requests BY DEF Requests, DeliveryRequests, OrderRequests
  <2> QED BY <1>0, <1>5, <2>1 DEF BeginApprove
<1>6. ASSUME NEW c \in Captains, BeginAssign(h, o, c) PROVE Keeps
  <2> DEFINE q == [op |-> "assign", locking |-> FALSE, order |-> o,
                   captain |-> c, previous |-> Nothing]
  <2>1. q \in Requests
    BY WorkAssumption DEF Requests, DeliveryRequests, AssignRequests
  <2> QED BY <1>0, <1>6, <2>1 DEF BeginAssign
<1>7. ASSUME NEW c \in Captains, BeginReassign(h, o, c) PROVE Keeps
  <2> DEFINE q == [op |-> "reassign", locking |-> FALSE, order |-> o,
                   captain |-> c, previous |-> order[o].rider]
  <2>1. order[o].rider \in Captains \cup {Nothing} /\ order[o].rider # c
    BY <1>7 DEF OrdersTyped, OrderRow, BeginReassign
  <2>2. q \in Requests
    BY <2>1 DEF Requests, DeliveryRequests, AssignRequests
  <2> QED BY <1>0, <1>7, <2>2 DEF BeginReassign
<1>8. ASSUME NEW c \in Captains, NEW to \in CaptainMoves,
             BeginMove(h, o, c, to)
      PROVE  Keeps
  <2>1. [op |-> "move", order |-> o, captain |-> c, to |-> to] \in Requests
    BY DEF Requests, DeliveryRequests, CaptainRequests
  <2> QED BY <1>0, <1>8, <2>1 DEF BeginMove
<1>9. ASSUME NEW c \in Captains, BeginReject(h, o, c) PROVE Keeps
  <2>1. [op |-> "reject", order |-> o, captain |-> c] \in Requests
    BY DEF Requests, DeliveryRequests, CaptainRequests
  <2> QED BY <1>0, <1>9, <2>1 DEF BeginReject
<1>10. ASSUME NEW c \in Captains, BeginComplete(h, o, c) PROVE Keeps
  <2>1. [op |-> "complete", order |-> o, captain |-> c] \in Requests
    BY DEF Requests, DeliveryRequests, CaptainRequests
  <2> QED BY <1>0, <1>10, <2>1 DEF BeginComplete
<1> QED
  BY <1>1, <1>2, <1>3, <1>4, <1>5, <1>6, <1>7, <1>8, <1>9, <1>10

\* A commit writes rows of their types, whatever was written since it began.
LEMMA CommitType ==
    ASSUME OrdersTyped, NEW h \in Handlers, request[h] \in Requests,
           CommitDelivery(h)
    PROVE  OrdersTyped' /\ GoesOn(h)
<1> USE DEF OrdersTyped
<1> DEFINE q == request[h]
           o == q.order
           c == q.captain
<1>0. q \in Requests
  OBVIOUS
<1>a. End(h) => GoesOn(h)
  BY DEF End, Requests, GoesOn
<1>1. CASE CommitPay(h)
  <2>1. o \in Orders /\ q.change \in BOOLEAN
    BY <1>0, <1>1, RequestShape DEF CommitPay
  <2>2. Paid(order[o], HasVendor(o), q.change) \in OrderRow
    BY <2>1, PaymentRows DEF HasVendor
  <2> QED BY <1>1, <1>a, <2>1, <2>2 DEF CommitPay
<1>2. CASE CommitVendor(h)
  <2>1. o \in Orders /\ q.to \in VendorMoves
    BY <1>0, <1>2, RequestShape DEF CommitVendor
  <2>2. [order[o] EXCEPT !.status = q.to] \in OrderRow
    BY <2>1 DEF OrderRow, VendorMoves, Statuses
  <2> QED BY <1>2, <1>a, <2>1, <2>2 DEF CommitVendor
<1>3. CASE CommitVendorReject(h)
  <2>1. o \in Orders /\ q.paid \in BOOLEAN
    BY <1>0, <1>3, RequestShape DEF CommitVendorReject
  <2>2. VendorRejected(order[o], q.paid) \in OrderRow
    BY <2>1, PaymentRows
  <2> QED BY <1>3, <1>a, <2>1, <2>2 DEF CommitVendorReject
<1>4. CASE CommitRefund(h)
  <2>1. o \in Orders /\ q.change \in BOOLEAN
    BY <1>0, <1>4, RequestShape DEF CommitRefund
  <2>2. RefundRequested(order[o], q.change) \in OrderRow
    BY <2>1, PaymentRows
  <2> QED BY <1>4, <1>a, <2>1, <2>2 DEF CommitRefund
<1>5. CASE CommitApprove(h)
  <2>1. o \in Orders /\ q.change \in BOOLEAN
    BY <1>0, <1>5, RequestShape DEF CommitApprove
  <2>2. Refunded(order[o], q.change) \in OrderRow
    BY <2>1, PaymentRows
  <2> QED BY <1>5, <1>a, <2>1, <2>2 DEF CommitApprove
<1>6. CASE ReadLock(h)
  <2>1. [q EXCEPT !.locking = TRUE] \in Requests
    BY <1>0, <1>6, RequestShape DEF ReadLock
  <2>2. request' = [request EXCEPT ![h] = [q EXCEPT !.locking = TRUE]]
    BY <1>6 DEF ReadLock
  <2> QED BY <1>6, <2>1, <2>2 DEF ReadLock, orderVars, GoesOn
<1>7. CASE CommitMove(h)
  <2>1. o \in Orders /\ c \in Captains /\ q.to \in CaptainMoves
    BY <1>0, <1>7, RequestShape DEF CommitMove
  <2>2. [order[o] EXCEPT !.status = q.to] \in OrderRow
    BY <2>1 DEF OrderRow, CaptainMoves, Delivering, Statuses
  <2>3. TransitionLock(captain[c], o, StageOf(q.to)) \in CaptainRow
    BY <2>1, TransitionRow DEF StageOf, Stages
  <2> QED BY <1>7, <1>a, <2>1, <2>2, <2>3 DEF CommitMove
<1>8. ASSUME NEW eligible \in BOOLEAN, CommitAssign(h, eligible) PROVE OrdersTyped' /\ GoesOn(h)
  <2>1. o \in Orders /\ c \in Captains
    BY <1>0, <1>8, RequestShape DEF CommitAssign
  <2>2. AcquireLock(captain[c], o, "OFFERED") \in CaptainRow
    BY <2>1, AcquireRow DEF Works, Stages
  <2>3. \A d \in Captains : ReleaseLock(captain[d], o, eligible) \in CaptainRow
    BY ReleaseRow
  <2>4. Offered(order[o], c) \in OrderRow
    BY <2>1, DispatchRows
  <2>5. captain' \in [Captains -> CaptainRow]
    BY <1>8, <2>2, <2>3 DEF CommitAssign
  <2> QED BY <1>8, <1>a, <2>1, <2>4, <2>5 DEF CommitAssign
<1>9. ASSUME NEW eligible \in BOOLEAN, CommitReject(h, eligible) PROVE OrdersTyped' /\ GoesOn(h)
  <2>1. o \in Orders /\ c \in Captains
    BY <1>0, <1>9, RequestShape DEF CommitReject
  <2>2. ReleaseLock(captain[c], o, eligible) \in CaptainRow
    BY <2>1, ReleaseRow
  <2>3. Returned(order[o]) \in OrderRow
    BY <2>1, DispatchRows
  <2> QED BY <1>9, <1>a, <2>1, <2>2, <2>3 DEF CommitReject
<1>10. ASSUME NEW eligible \in BOOLEAN, CommitComplete(h, eligible)
       PROVE  OrdersTyped' /\ GoesOn(h)
  <2>1. o \in Orders /\ c \in Captains
    BY <1>0, <1>10, RequestShape DEF CommitComplete
  <2>2. [captain[c] EXCEPT !.availability = "ONLINE"] \in CaptainRow
    BY <2>1 DEF CaptainRow
  <2>3. ReleaseLock([captain[c] EXCEPT !.availability = "ONLINE"], o, eligible)
          \in CaptainRow
    BY <2>2, ReleaseRow
  <2>4. Completed(order[o]) \in OrderRow
    BY <2>1, DispatchRows
  <2>5. completions' \in [Orders -> 0..MaxCompletions]
    BY <1>10, <2>1, OrderAssumption DEF CommitComplete
  <2>6. earnings' \subseteq Captains \X Orders /\ settlements' \subseteq Orders
    BY <1>10, <2>1 DEF CommitComplete
  <2>7. captain' \in [Captains -> CaptainRow] /\ order' \in [Orders -> OrderRow]
    BY <1>10, <2>1, <2>3, <2>4 DEF CommitComplete
  <2> QED BY <1>10, <1>a, <2>5, <2>6, <2>7 DEF CommitComplete
<1> QED
  BY <1>1, <1>2, <1>3, <1>4, <1>5, <1>6, <1>7, <1>8, <1>9, <1>10
     DEF CommitDelivery

\* The captains' own switches and the admin's suspensions.
LEMMA CaptainType ==
    ASSUME TypeOK, CaptainNext, UNCHANGED orderVars
    PROVE  /\ TypeOK'
           /\ \A d \in Captains : captain'[d].work = captain[d].work
<1>1. {Idle} \cup AvailabilityRequests \cup LifecycleRequests \subseteq Requests
  BY DEF Requests
<1>2. \A q \in Requests :
        /\ q.op \in {"availability", "suspend", "reactivate", "profile"}
             => q.captain \in Captains
        /\ q.op = "profile" => q.status \in {"ACTIVE", "SUSPENDED"}
  BY RequestShape
<1>3. /\ captain' \in [Captains -> CaptainRow]
      /\ request' \in [Handlers -> Requests]
      /\ \A d \in Captains : captain'[d].work = captain[d].work
  BY <1>1, <1>2, CaptainStep DEF TypeOK
<1> QED BY <1>3 DEF TypeOK, orderVars

\* Every variable keeps its type: no overlap of requests writes a status, a
\* captain or a stage where the columns have no room for it.
THEOREM TypeCorrect == DeliverySpec => []TypeOK
<1>1. TypeOK /\ UNCHANGED deliveryVars => TypeOK'
  BY DEF TypeOK, deliveryVars, captainVars, orderVars
<1>2. ASSUME TypeOK, DeliveryStep PROVE TypeOK'
  <2>1. OrdersTyped /\ request \in [Handlers -> Requests]
    BY <1>2 DEF TypeOK, OrdersTyped
  <2>2. OrdersTyped' /\ \E h \in Handlers : GoesOn(h)
    BY <1>2, <2>1, BeginType, CommitType DEF DeliveryStep, OrdersTyped, orderVars
  <2> QED BY <2>1, <2>2 DEF TypeOK, OrdersTyped, GoesOn
<1>3. TypeOK /\ DeliveryNext => TypeOK'
  BY <1>2, CaptainType DEF DeliveryNext
<1> QED BY TypeInit, <1>1, <1>3, PTL DEF DeliverySpec

-----------------------------------------------------------------------------
(***************************************************************************)
(* Who is locked for what after a commit.                                  *)
(***************************************************************************)

\* assign and reassign: the new captain is locked for the order, and of the
\* others only the one the snapshot names may have lost the order's lock.
LEMMA AssignWork ==
    ASSUME OrdersTyped, NEW h \in Handlers, request[h] \in Requests,
           NEW e \in BOOLEAN, CommitAssign(h, e)
    PROVE  LET o == request[h].order
               c == request[h].captain
               p == request[h].previous IN
           /\ o \in Orders /\ c \in Captains /\ c # p
           /\ captain[c].work \in {Nothing, o} /\ captain'[c].work = o
           /\ \A d \in Captains \ {c} :
                captain'[d].work = IF d = p /\ captain[d].work = o
                                   THEN Nothing ELSE captain[d].work
           /\ order' = [order EXCEPT ![o] = Offered(@, c)]
<1> DEFINE o == request[h].order
           c == request[h].captain
           p == request[h].previous
<1>1. request[h] \in Requests /\ captain \in [Captains -> CaptainRow]
  BY DEF OrdersTyped
<1>2. o \in Orders /\ c \in Captains /\ c # p
  BY <1>1, RequestShape DEF CommitAssign
<1>3. captain[c].work \in {Nothing, o}
  BY DEF CommitAssign, CanAcquire
<1>4. captain'[c].work = o
  <2>1. captain'[c] = AcquireLock(captain[c], o, "OFFERED")
    BY <1>2 DEF CommitAssign
  <2> QED BY <1>1, <1>2, <2>1, AcquireRow DEF Works, Stages
<1>5. ASSUME NEW d \in Captains \ {c}
      PROVE  captain'[d].work = IF d = p /\ captain[d].work = o
                                THEN Nothing ELSE captain[d].work
  <2>1. captain'[d] = IF d = p THEN ReleaseLock(captain[d], o, e) ELSE captain[d]
    BY DEF CommitAssign
  <2>2. ReleaseLock(captain[d], o, e).work =
          IF captain[d].work = o THEN Nothing ELSE captain[d].work
    BY <1>1, ReleaseRow
  <2> QED BY <2>1, <2>2
<1>6. order' = [order EXCEPT ![o] = Offered(@, c)]
  BY DEF CommitAssign
<1> QED BY <1>2, <1>3, <1>4, <1>5, <1>6

\* reject and complete: only the captain's lock for this order is dropped,
\* and the order is on offer no more.
LEMMA ReleaseWork ==
    ASSUME OrdersTyped, NEW h \in Handlers, request[h] \in Requests,
           NEW e \in BOOLEAN,
           CommitReject(h, e) \/ CommitComplete(h, e)
    PROVE  LET o == request[h].order
               c == request[h].captain IN
           /\ o \in Orders /\ c \in Captains
           /\ captain'[c].work = IF captain[c].work = o
                                 THEN Nothing ELSE captain[c].work
           /\ \A d \in Captains \ {c} : captain'[d].work = captain[d].work
           /\ order'[o].status # "RIDER_ASSIGNED"
           /\ \A x \in Orders \ {o} : order'[x] = order[x]
<1> DEFINE o == request[h].order
           c == request[h].captain
<1>1. /\ request[h] \in Requests
      /\ captain \in [Captains -> CaptainRow]
      /\ order \in [Orders -> OrderRow]
  BY DEF OrdersTyped
<1>2. o \in Orders /\ c \in Captains
  BY <1>1, RequestShape DEF CommitReject, CommitComplete
<1>3. CASE CommitReject(h, e)
  <2>1. captain'[c] = ReleaseLock(captain[c], o, e)
    BY <1>1, <1>2, <1>3 DEF CommitReject
  <2>2. \A d \in Captains \ {c} : captain'[d].work = captain[d].work
    BY <1>1, <1>2, <1>3 DEF CommitReject
  <2>3. order'[o].status = "READY_FOR_PICKUP"
    BY <1>1, <1>2, <1>3, DispatchRows DEF CommitReject
  <2>4. \A x \in Orders \ {o} : order'[x] = order[x]
    BY <1>1, <1>2, <1>3 DEF CommitReject
  <2> QED BY <1>1, <1>2, <2>1, <2>2, <2>3, <2>4, ReleaseRow
<1>4. CASE CommitComplete(h, e)
  <2> DEFINE r == [captain[c] EXCEPT !.availability = "ONLINE"]
  <2>1. r \in CaptainRow /\ r.work = captain[c].work
    BY <1>1, <1>2 DEF CaptainRow
  <2>2. captain'[c] = ReleaseLock(r, o, e)
    BY <1>1, <1>2, <1>4 DEF CommitComplete
  <2>3. \A d \in Captains \ {c} : captain'[d].work = captain[d].work
    BY <1>1, <1>2, <1>4 DEF CommitComplete
  <2>4. order'[o].status = "COMPLETED"
    BY <1>1, <1>2, <1>4, DispatchRows DEF CommitComplete
  <2>5. \A x \in Orders \ {o} : order'[x] = order[x]
    BY <1>1, <1>2, <1>4 DEF CommitComplete
  <2> HIDE DEF r
  <2> QED BY <1>2, <2>1, <2>2, <2>3, <2>4, <2>5, ReleaseRow
<1> QED BY <1>3, <1>4

\* Every other step of a handler leaves the locks alone and puts no order on
\* offer.
LEMMA OtherWork ==
    ASSUME OrdersTyped, NEW h \in Handlers, request[h] \in Requests,
           \/ BeginDelivery(h) \/ ReadLock(h)
           \/ CommitPay(h) \/ CommitVendor(h) \/ CommitVendorReject(h)
           \/ CommitRefund(h) \/ CommitApprove(h) \/ CommitMove(h)
    PROVE  /\ \A d \in Captains : captain'[d].work = captain[d].work
           /\ \A x \in Orders :
                order'[x].status = "RIDER_ASSIGNED" =>
                  /\ order[x].status = "RIDER_ASSIGNED"
                  /\ order'[x].rider = order[x].rider
<1> DEFINE q == request[h]
           o == q.order
           c == q.captain
<1>0. /\ q \in Requests
      /\ captain \in [Captains -> CaptainRow]
      /\ order \in [Orders -> OrderRow]
  BY DEF OrdersTyped
<1>1. CASE BeginDelivery(h)
  BY <1>1 DEF BeginDelivery, BeginPay, BeginVendor, BeginVendorReject,
     BeginRefund, BeginApprove, BeginAssign, BeginReassign, BeginMove,
     BeginReject, BeginComplete, Begin, orderVars
<1>2. CASE ReadLock(h)
  BY <1>2 DEF ReadLock, orderVars
<1>3. ASSUME NEW row, captain' = captain, o \in Orders,
             order' = [order EXCEPT ![o] = row],
             row.rider = order[o].rider,
             row.status = "RIDER_ASSIGNED" => order[o].status = "RIDER_ASSIGNED"
      PROVE  /\ \A d \in Captains : captain'[d].work = captain[d].work
             /\ \A x \in Orders :
                  order'[x].status = "RIDER_ASSIGNED" =>
                    /\ order[x].status = "RIDER_ASSIGNED"
                    /\ order'[x].rider = order[x].rider
  BY <1>0, <1>3
<1>4. CASE CommitPay(h)
  <2>1. o \in Orders /\ q.change \in BOOLEAN
    BY <1>0, <1>4, RequestShape DEF CommitPay
  <2> DEFINE row == Paid(order[o], HasVendor(o), q.change)
  <2>2. row.rider = order[o].rider
        /\ (row.status = "RIDER_ASSIGNED" => order[o].status = "RIDER_ASSIGNED")
    BY <1>0, <2>1, PaymentRows DEF HasVendor
  <2> QED BY <1>3, <1>4, <2>1, <2>2 DEF CommitPay
<1>5. CASE CommitVendor(h)
  <2>1. o \in Orders /\ q.to \in VendorMoves
    BY <1>0, <1>5, RequestShape DEF CommitVendor
  <2> DEFINE row == [order[o] EXCEPT !.status = q.to]
  <2>2. row.rider = order[o].rider /\ row.status # "RIDER_ASSIGNED"
    BY <1>0, <2>1 DEF OrderRow, VendorMoves
  <2> QED BY <1>3, <1>5, <2>1, <2>2 DEF CommitVendor
<1>6. CASE CommitVendorReject(h)
  <2>1. o \in Orders /\ q.paid \in BOOLEAN
    BY <1>0, <1>6, RequestShape DEF CommitVendorReject
  <2> DEFINE row == VendorRejected(order[o], q.paid)
  <2>2. row.rider = order[o].rider
        /\ (row.status = "RIDER_ASSIGNED" => order[o].status = "RIDER_ASSIGNED")
    BY <1>0, <2>1, PaymentRows
  <2> QED BY <1>3, <1>6, <2>1, <2>2 DEF CommitVendorReject
<1>7. CASE CommitRefund(h)
  <2>1. o \in Orders /\ q.change \in BOOLEAN
    BY <1>0, <1>7, RequestShape DEF CommitRefund
  <2> DEFINE row == RefundRequested(order[o], q.change)
  <2>2. row.rider = order[o].rider
        /\ (row.status = "RIDER_ASSIGNED" => order[o].status = "RIDER_ASSIGNED")
    BY <1>0, <2>1, PaymentRows
  <2> QED BY <1>3, <1>7, <2>1, <2>2 DEF CommitRefund
<1>8. CASE CommitApprove(h)
  <2>1. o \in Orders /\ q.change \in BOOLEAN
    BY <1>0, <1>8, RequestShape DEF CommitApprove
  <2> DEFINE row == Refunded(order[o], q.change)
  <2>2. row.rider = order[o].rider
        /\ (row.status = "RIDER_ASSIGNED" => order[o].status = "RIDER_ASSIGNED")
    BY <1>0, <2>1, PaymentRows
  <2> QED BY <1>3, <1>8, <2>1, <2>2 DEF CommitApprove
<1>9. CASE CommitMove(h)
  <2>1. o \in Orders /\ c \in Captains /\ q.to \in CaptainMoves
    BY <1>0, <1>9, RequestShape DEF CommitMove
  <2>2. \A d \in Captains : captain'[d].work = captain[d].work
    BY <1>0, <1>9, <2>1, TransitionRow DEF CommitMove, StageOf, Stages
  <2>3. q.to # "RIDER_ASSIGNED"
    BY <2>1 DEF CaptainMoves
  <2>4. order'[o].status = q.to /\ \A x \in Orders \ {o} : order'[x] = order[x]
    BY <1>0, <1>9, <2>1 DEF CommitMove, OrderRow
  <2> QED BY <2>2, <2>3, <2>4
<1> QED BY <1>1, <1>2, <1>4, <1>5, <1>6, <1>7, <1>8, <1>9

\* So a step of dispatch takes and gives no work but orders.
LEMMA DeliveryWork ==
    ASSUME OrdersTyped, NEW h \in Handlers, request[h] \in Requests,
           BeginDelivery(h) \/ CommitDelivery(h), NEW d \in Captains
    PROVE  \/ captain'[d].work = captain[d].work
           \/ {captain[d].work, captain'[d].work} \subseteq Orders \cup {Nothing}
<1>1. ASSUME NEW e \in BOOLEAN, CommitAssign(h, e)
      PROVE  \/ captain'[d].work = captain[d].work
             \/ {captain[d].work, captain'[d].work} \subseteq Orders \cup {Nothing}
  BY <1>1, AssignWork
<1>2. ASSUME NEW e \in BOOLEAN, CommitReject(h, e) \/ CommitComplete(h, e)
      PROVE  \/ captain'[d].work = captain[d].work
             \/ {captain[d].work, captain'[d].work} \subseteq Orders \cup {Nothing}
  BY <1>2, ReleaseWork
<1> QED BY <1>1, <1>2, OtherWork DEF CommitDelivery

-----------------------------------------------------------------------------
(***************************************************************************)
(* The offer is a reservation.  TypeOK /\ OfferHoldsLock is inductive: a   *)
(* lock is released only by a transaction that also takes its order off    *)
(* offer or offers it to another captain, and is never taken for other     *)
(* work while it is held.                                                  *)
(***************************************************************************)
LEMMA OfferKept ==
    ASSUME OrdersTyped, OfferHoldsLock, NEW h \in Handlers,
           request[h] \in Requests, BeginDelivery(h) \/ CommitDelivery(h)
    PROVE  OfferHoldsLock'
<1> SUFFICES ASSUME NEW x \in Orders, order'[x].status = "RIDER_ASSIGNED"
             PROVE  /\ order'[x].rider \in Captains
                    /\ captain'[order'[x].rider].work = x
  BY DEF OfferHoldsLock
<1> DEFINE r == order[x].rider
           o == request[h].order
           c == request[h].captain
<1>0. order \in [Orders -> OrderRow] /\ captain \in [Captains -> CaptainRow]
  BY DEF OrdersTyped
<1>1. order[x].status = "RIDER_ASSIGNED" => r \in Captains /\ captain[r].work = x
  BY DEF OfferHoldsLock
<1>2. ASSUME NEW e \in BOOLEAN, CommitAssign(h, e)
      PROVE  order'[x].rider \in Captains /\ captain'[order'[x].rider].work = x
  <2> DEFINE p == request[h].previous
  <2>1. /\ o \in Orders /\ c \in Captains /\ c # p
        /\ captain[c].work \in {Nothing, o} /\ captain'[c].work = o
        /\ \A d \in Captains \ {c} :
             captain'[d].work = IF d = p /\ captain[d].work = o
                                THEN Nothing ELSE captain[d].work
        /\ order' = [order EXCEPT ![o] = Offered(@, c)]
    BY <1>2, AssignWork
  <2>2. CASE x = o
    <3>1. order'[x].rider = c
      BY <1>0, <2>1, <2>2, DispatchRows
    <3> QED BY <2>1, <2>2, <3>1
  <2>3. CASE x # o
    <3>1. order'[x] = order[x]
      BY <1>0, <2>1, <2>3
    <3>2. r \in Captains /\ captain[r].work = x
      BY <1>1, <3>1
    <3>3. r # c
      BY <2>1, <2>3, <3>2, WorkAssumption
    <3> QED BY <2>1, <2>3, <3>1, <3>2, <3>3
  <2> QED BY <2>2, <2>3
<1>3. ASSUME NEW e \in BOOLEAN, CommitReject(h, e) \/ CommitComplete(h, e)
      PROVE  order'[x].rider \in Captains /\ captain'[order'[x].rider].work = x
  <2>1. /\ o \in Orders /\ c \in Captains
        /\ captain'[c].work = IF captain[c].work = o
                              THEN Nothing ELSE captain[c].work
        /\ \A d \in Captains \ {c} : captain'[d].work = captain[d].work
        /\ order'[o].status # "RIDER_ASSIGNED"
        /\ \A y \in Orders \ {o} : order'[y] = order[y]
    BY <1>3, ReleaseWork
  <2>2. x # o /\ order'[x] = order[x]
    BY <2>1
  <2> QED BY <1>1, <2>1, <2>2
<1>4. ASSUME \/ BeginDelivery(h) \/ ReadLock(h)
             \/ CommitPay(h) \/ CommitVendor(h) \/ CommitVendorReject(h)
             \/ CommitRefund(h) \/ CommitApprove(h) \/ CommitMove(h)
      PROVE  order'[x].rider \in Captains /\ captain'[order'[x].rider].work = x
  BY <1>1, <1>4, OtherWork
<1> QED BY <1>2, <1>3, <1>4 DEF CommitDelivery

LEMMA OfferStep == TypeOK /\ OfferHoldsLock /\ DeliveryNext => OfferHoldsLock'
<1> SUFFICES ASSUME TypeOK, OfferHoldsLock, DeliveryNext PROVE OfferHoldsLock'
  OBVIOUS
<1>1. CASE CaptainNext /\ UNCHANGED orderVars
  BY <1>1, CaptainType DEF OfferHoldsLock, orderVars
<1>2. CASE DeliveryStep
  BY <1>2, OfferKept DEF DeliveryStep, TypeOK, OrdersTyped
<1> QED BY <1>1, <1>2 DEF DeliveryNext

\* An order on offer names a captain who is locked for it, in every
\* interleaving of any number of requests on any number of orders.
THEOREM OfferIsReservation == DeliverySpec => []OfferHoldsLock
<1>1. DeliveryInit => OfferHoldsLock
  BY OrderAssumption
     DEF DeliveryInit, OrderInit, NewOrder, OfferHoldsLock
<1>2. OfferHoldsLock /\ UNCHANGED deliveryVars => OfferHoldsLock'
  BY DEF OfferHoldsLock, deliveryVars, captainVars, orderVars
<1> QED BY TypeCorrect, <1>1, <1>2, OfferStep, PTL DEF DeliverySpec

-----------------------------------------------------------------------------
(***************************************************************************)
(* The work locks implement CaptainLock.                                   *)
(***************************************************************************)
holds == [c \in Captains |-> captain[c].work]

LEMMA LockMoves ==
    ASSUME NEW c \in Captains, NEW d \in Captains, NEW w \in Works,
           Lock!Drop(c) \/ Lock!Take(c, w) \/ Lock!HandOver(c, d, w)
    PROVE  Lock!Next
BY Zenon DEF Lock!Next

\* assign takes a lock, reassign hands one over or drops one, reject and
\* complete drop one, and nothing else touches a lock.
LEMMA LockStep ==
    ASSUME OrdersTyped, NEW h \in Handlers, request[h] \in Requests,
           BeginDelivery(h) \/ CommitDelivery(h)
    PROVE  Lock!Next \/ holds' = holds
<1> USE DEF holds
<1>1. ASSUME NEW e \in BOOLEAN, CommitAssign(h, e)
      PROVE  Lock!Next \/ holds' = holds
  <2>0. PICK o, c, p : /\ o = request[h].order
                       /\ c = request[h].captain
                       /\ p = request[h].previous
    OBVIOUS
  <2>1. /\ o \in Orders /\ c \in Captains /\ c # p
        /\ captain[c].work \in {Nothing, o} /\ captain'[c].work = o
        /\ \A d \in Captains \ {c} :
             captain'[d].work = IF d = p /\ captain[d].work = o
                                THEN Nothing ELSE captain[d].work
    BY <1>1, <2>0, AssignWork
  <2>2. o \in Works /\ o # Nothing
    BY <2>1, WorkAssumption DEF Works
  <2>3. CASE p \in Captains /\ captain[p].work = o /\ captain[c].work = Nothing
    <3>1. Lock!HandOver(p, c, o)
      BY <2>1, <2>3 DEF Lock!HandOver
    <3> QED BY <2>1, <2>2, <2>3, <3>1, LockMoves
  <2>4. CASE p \in Captains /\ captain[p].work = o /\ captain[c].work = o
    <3>1. Lock!Drop(p)
      BY <2>1, <2>4 DEF Lock!Drop
    <3> QED BY <2>2, <2>4, <3>1, LockMoves
  <2>5. CASE ~(p \in Captains /\ captain[p].work = o) /\ captain[c].work = Nothing
    <3>1. Lock!Take(c, o)
      BY <2>1, <2>5 DEF Lock!Take
    <3> QED BY <2>1, <2>2, <3>1, LockMoves
  <2>6. CASE ~(p \in Captains /\ captain[p].work = o) /\ captain[c].work = o
    BY <2>1, <2>6
  <2> QED BY <2>1, <2>3, <2>4, <2>5, <2>6
<1>2. ASSUME NEW e \in BOOLEAN,
             CommitReject(h, e) \/ CommitComplete(h, e)
      PROVE  Lock!Next \/ holds' = holds
  <2>1. PICK o \in Orders, c \in Captains :
        /\ captain'[c].work = IF captain[c].work = o
                              THEN Nothing ELSE captain[c].work
        /\ \A d \in Captains \ {c} : captain'[d].work = captain[d].work
    BY <1>2, ReleaseWork
  <2>2. CASE captain[c].work = o
    <3>1. Lock!Drop(c)
      BY <2>1, <2>2 DEF Lock!Drop
    <3>2. o \in Works
      BY <2>1 DEF Works
    <3> QED BY <2>1, <3>1, <3>2, LockMoves
  <2>3. CASE captain[c].work # o
    BY <2>1, <2>3
  <2> QED BY <2>2, <2>3
<1>3. ASSUME \/ BeginDelivery(h) \/ ReadLock(h)
             \/ CommitPay(h) \/ CommitVendor(h) \/ CommitVendorReject(h)
             \/ CommitRefund(h) \/ CommitApprove(h) \/ CommitMove(h)
      PROVE  holds' = holds
  BY <1>3, OtherWork
<1> QED
  BY <1>1, <1>2, <1>3 DEF CommitDelivery

\* Dispatch implements the abstract lock: a captain is given work only while
\* free of other work, in every interleaving, for any number of captains,
\* orders and requests.
THEOREM LockImplemented == DeliverySpec => LockRefinement
<1>1. DeliveryInit => Lock!Init
  BY DEF DeliveryInit, CaptainInit, Lock!Init
<1>2. ASSUME TypeOK, DeliveryNext PROVE [Lock!Next]_holds
  <2>1. CASE CaptainNext /\ UNCHANGED orderVars
    BY <1>2, <2>1, CaptainType DEF holds
  <2>2. CASE DeliveryStep
    BY <1>2, <2>2, LockStep DEF DeliveryStep, TypeOK, OrdersTyped
  <2> QED BY <1>2, <2>1, <2>2 DEF DeliveryNext
<1>3. UNCHANGED deliveryVars => UNCHANGED holds
  BY DEF deliveryVars, captainVars, holds
<1>4. TypeOK /\ [DeliveryNext]_deliveryVars => [Lock!Next]_holds
  BY <1>2, <1>3
<1>5. [][Lock!Next]_holds => [][Lock!Next]_[c \in Captains |-> captain[c].work]
  BY DEF holds
<1> QED
  BY TypeCorrect, <1>1, <1>4, <1>5, PTL DEF DeliverySpec, LockRefinement, Lock!Spec
-----------------------------------------------------------------------------
(***************************************************************************)
(* One request at a time.  A handler's snapshot is then still true when it *)
(* commits (StillSo), and with it every write follows the two transition   *)
(* tables: an order is named to a captain exactly from the offer to the    *)
(* end of the delivery, it is completed before its refund and never after, *)
(* and both copies of its payment are written together.                    *)
(***************************************************************************)
Unassigned == {"AWAITING_PAYMENT", "PAID", "VENDOR_ACCEPTED", "VENDOR_REJECTED",
               "PREPARING", "READY_FOR_PICKUP"}

Finished == {"COMPLETED", "REFUND_REQUESTED", "REFUNDED"}

RowSound(r) ==
    /\ r.status \in Unassigned => r.rider = Nothing
    /\ r.status \in Delivering => r.rider \in Captains
    /\ r.payment # "NONE" => r.paymentStatus = r.payment
    /\ r.payment = "REFUND_PENDING" => r.status # "REFUNDED"

\* What the handler that holds q read of the order still holds.
StillSo(q) ==
    LET r == order[q.order] IN
    /\ q.op = "pay" => q.change = (r.status = "AWAITING_PAYMENT")
    /\ q.op = "vendor" => <<r.status, q.to>> \in VENDOR_TRANSITIONS
    /\ q.op = "vendorReject" =>
         r.status = "PAID" /\ q.paid = (r.paymentStatus = "SUCCESSFUL")
    /\ q.op = "refund" =>
         /\ r.payment = "SUCCESSFUL"
         /\ q.change = (r.status # "REFUND_REQUESTED")
    /\ q.op = "approve" =>
         r.payment = "REFUND_PENDING" /\ q.change = (r.status # "REFUNDED")
    /\ q.op = "assign" => r.status = "READY_FOR_PICKUP"
    /\ q.op = "reassign" => Reassignable(r.status) /\ q.previous = r.rider
    /\ q.op = "move" =>
         r.rider = q.captain /\ <<r.status, q.to>> \in DELIVERY_TRANSITIONS
    /\ q.op = "reject" => r.rider = q.captain /\ r.status = "RIDER_ASSIGNED"
    /\ q.op = "complete" => r.rider = q.captain /\ r.status = "DELIVERED"

OrdersSound ==
    \A o \in Orders :
      /\ RowSound(order[o])
      /\ completions[o] # 0 => order[o].status \in Finished

SnapshotsTrue == \A h \in Handlers : StillSo(request[h])

OrdersInv == OrdersSound /\ CompletionPaidOnce /\ LockIsAssignment

\* The property of a step that ClosedStaysClosed asks for.
FinishedStays ==
    \A o \in Orders :
      order[o].status \in Finished => order'[o].status \in Finished

-----------------------------------------------------------------------------
\* What payment, vendor, refund and progress may write on row r.
SoundWrite(r, x) ==
    /\ x \in OrderRow
    /\ RowSound(x)
    /\ x.rider = r.rider
    /\ x.status \in Delivering => r.status \in Delivering
    /\ r.status \in Finished => x.status \in Finished

\* A payment that arrives late, after a refund even, is still recorded on
\* both sides, and moves only an order that waits for it.
LEMMA PaidSound ==
    ASSUME NEW r \in OrderRow, RowSound(r), NEW v \in BOOLEAN,
           NEW b \in BOOLEAN, b = (r.status = "AWAITING_PAYMENT")
    PROVE  SoundWrite(r, Paid(r, v, b))
<1>1. Paid(r, v, b) \in OrderRow /\ Paid(r, v, b).rider = r.rider
  BY PaymentRows
<1>2. Paid(r, v, b).status = IF ~b THEN r.status
                             ELSE IF v THEN "PAID" ELSE "READY_FOR_PICKUP"
  BY DEF OrderRow, Paid
<1>3. /\ Paid(r, v, b).payment = "SUCCESSFUL"
      /\ Paid(r, v, b).paymentStatus = "SUCCESSFUL"
  BY DEF OrderRow, Paid
<1> HIDE DEF Paid
<1> QED
  BY <1>1, <1>2, <1>3 DEF RowSound, SoundWrite, Unassigned, Delivering, Finished

\* A rejection marks for refund on both sides what was paid on both.
LEMMA RejectedSound ==
    ASSUME NEW r \in OrderRow, RowSound(r), r.status = "PAID",
           NEW b \in BOOLEAN, b = (r.paymentStatus = "SUCCESSFUL")
    PROVE  SoundWrite(r, VendorRejected(r, b))
<1>1. /\ VendorRejected(r, b) \in OrderRow
      /\ VendorRejected(r, b).rider = r.rider
  BY PaymentRows
<1>2. /\ VendorRejected(r, b).status = "VENDOR_REJECTED"
      /\ VendorRejected(r, b).paymentStatus =
           IF b THEN "REFUND_PENDING" ELSE r.paymentStatus
      /\ VendorRejected(r, b).payment =
           IF b /\ r.payment = "SUCCESSFUL" THEN "REFUND_PENDING" ELSE r.payment
  BY DEF OrderRow, VendorRejected
<1> QED
  BY <1>1, <1>2 DEF RowSound, SoundWrite, Unassigned, Delivering, Finished

\* A refund is requested on both sides, and the order is marked unless it is.
LEMMA RequestedSound ==
    ASSUME NEW r \in OrderRow, RowSound(r), NEW b \in BOOLEAN,
           b = (r.status # "REFUND_REQUESTED")
    PROVE  SoundWrite(r, RefundRequested(r, b))
<1>1. /\ RefundRequested(r, b) \in OrderRow
      /\ RefundRequested(r, b).rider = r.rider
  BY PaymentRows
<1>2. /\ RefundRequested(r, b).status = "REFUND_REQUESTED"
      /\ RefundRequested(r, b).paymentStatus = "REFUND_PENDING"
      /\ RefundRequested(r, b).payment = "REFUND_PENDING"
  BY DEF OrderRow, RefundRequested
<1> QED
  BY <1>1, <1>2 DEF RowSound, SoundWrite, Unassigned, Delivering, Finished

\* An approval refunds on both sides: the order is not REFUNDED yet, for its
\* payment waits for the refund.
LEMMA RefundedSound ==
    ASSUME NEW r \in OrderRow, RowSound(r), r.payment = "REFUND_PENDING",
           NEW b \in BOOLEAN, b = (r.status # "REFUNDED")
    PROVE  SoundWrite(r, Refunded(r, b))
<1>1. Refunded(r, b) \in OrderRow /\ Refunded(r, b).rider = r.rider
  BY PaymentRows
<1>2. b
  BY DEF RowSound
<1>3. /\ Refunded(r, b).status = "REFUNDED"
      /\ Refunded(r, b).paymentStatus = "REFUNDED"
      /\ Refunded(r, b).payment = "REFUNDED"
  BY <1>2 DEF OrderRow, Refunded
<1> QED
  BY <1>1, <1>3 DEF RowSound, SoundWrite, Unassigned, Delivering, Finished

\* A step of the vendor's or the captain's table.
LEMMA MovedSound ==
    ASSUME NEW r \in OrderRow, RowSound(r), NEW s,
           \/ <<r.status, s>> \in VENDOR_TRANSITIONS /\ s \in VendorMoves
           \/ <<r.status, s>> \in DELIVERY_TRANSITIONS /\ s \in CaptainMoves
    PROVE  SoundWrite(r, [r EXCEPT !.status = s])
<1> DEFINE x == [r EXCEPT !.status = s]
<1>1. s \in Statuses
  BY DEF VendorMoves, CaptainMoves, Delivering, Statuses
<1>2. /\ x \in OrderRow /\ x.status = s /\ x.rider = r.rider
      /\ x.payment = r.payment /\ x.paymentStatus = r.paymentStatus
  BY <1>1 DEF OrderRow
<1>3. /\ s # "REFUNDED" /\ r.status \notin Finished
      /\ \/ s \in Unassigned \ Delivering /\ r.status \in Unassigned
         \/ s \in Delivering \ Unassigned /\ r.status \in Delivering
  BY DEF VENDOR_TRANSITIONS, DELIVERY_TRANSITIONS, VendorMoves, CaptainMoves,
     Unassigned, Delivering, Finished
<1> HIDE DEF x
<1>4. SoundWrite(r, x)
  BY <1>2, <1>3 DEF RowSound, SoundWrite
<1> QED BY <1>4 DEF x
-----------------------------------------------------------------------------
(***************************************************************************)
(* The transactions keep OrdersInv when what they rely on is still so.     *)
(***************************************************************************)

\* A write that moves no lock and names no captain.
LEMMA WriteKeepsOrders ==
    ASSUME OrdersTyped, OrdersInv, NEW o \in Orders, NEW x,
           SoundWrite(order[o], x),
           order' = [order EXCEPT ![o] = x],
           \A d \in Captains : captain'[d].work = captain[d].work,
           UNCHANGED <<earnings, completions>>
    PROVE  OrdersInv' /\ FinishedStays
<1>1. /\ order'[o] = x /\ \A p \in Orders \ {o} : order'[p] = order[p]
      /\ x.rider = order[o].rider
  BY DEF OrdersTyped, SoundWrite
<1>2. OrdersSound' /\ FinishedStays
  BY <1>1 DEF OrdersInv, OrdersSound, SoundWrite, FinishedStays, RowSound
<1>3. CompletionPaidOnce'
  BY DEF OrdersInv, CompletionPaidOnce
<1>4. LockIsAssignment'
  <2>1. ASSUME NEW p \in Orders, order'[p].status \in Delivering,
               order'[p].rider \in Captains
        PROVE  captain'[order'[p].rider].work = p
    <3>1. order[p].status \in Delivering /\ order'[p].rider = order[p].rider
      BY <1>1, <2>1 DEF SoundWrite
    <3> QED BY <2>1, <3>1 DEF OrdersInv, LockIsAssignment
  <2>2. ASSUME NEW c \in Captains, captain'[c].work \in Orders
        PROVE  order'[captain'[c].work].rider = c
    BY <1>1, <2>2 DEF OrdersInv, LockIsAssignment
  <2> QED BY <2>1, <2>2 DEF LockIsAssignment
<1> QED BY <1>2, <1>3, <1>4 DEF OrdersInv

\* An order that is assigned was named to nobody; one that is reassigned was
\* named to the captain the snapshot says, who is released.
LEMMA AssignKeepsOrders ==
    ASSUME OrdersTyped, OrdersInv, NEW h \in Handlers,
           request[h] \in Requests, StillSo(request[h]),
           NEW e \in BOOLEAN, CommitAssign(h, e)
    PROVE  OrdersInv' /\ FinishedStays
<1> DEFINE q == request[h]
           o == q.order
           c == q.captain
           r == order[o]
<1>1. /\ o \in Orders /\ c \in Captains /\ c # q.previous
      /\ captain[c].work \in {Nothing, o} /\ captain'[c].work = o
      /\ \A d \in Captains \ {c} :
           captain'[d].work = IF d = q.previous /\ captain[d].work = o
                              THEN Nothing ELSE captain[d].work
      /\ order' = [order EXCEPT ![o] = Offered(@, c)]
  BY AssignWork
<1>2. /\ r \in OrderRow /\ RowSound(r)
      /\ order'[o] = Offered(r, c) /\ \A p \in Orders \ {o} : order'[p] = order[p]
  BY <1>1 DEF OrdersTyped, OrdersInv, OrdersSound
<1>3. r.status \notin Finished /\ \A d \in Captains : d # q.previous =>
                                    captain[d].work # o
  <2>1. q.op \in {"assign", "reassign"}
    BY DEF CommitAssign
  <2>2. CASE q.op = "assign"
    <3>1. r.status = "READY_FOR_PICKUP"
      BY <2>2 DEF StillSo
    <3>2. r.rider = Nothing
      BY <1>2, <3>1 DEF RowSound, Unassigned
    <3> QED
      BY <1>1, <3>1, <3>2, WorkAssumption DEF Finished, OrdersInv, LockIsAssignment
  <2>3. CASE q.op = "reassign"
    <3>1. Reassignable(r.status) /\ q.previous = r.rider
      BY <2>3 DEF StillSo
    <3> QED BY <1>1, <3>1 DEF Reassignable, Finished, OrdersInv, LockIsAssignment
  <2> QED BY <2>1, <2>2, <2>3
<1>4. /\ Offered(r, c).rider = c
      /\ Offered(r, c).status = "RIDER_ASSIGNED"
      /\ Offered(r, c).payment = r.payment
      /\ Offered(r, c).paymentStatus = r.paymentStatus
  BY <1>2 DEF OrderRow, Offered
<1>5. RowSound(Offered(r, c))
  BY <1>1, <1>2, <1>4 DEF RowSound, Unassigned
<1>6. UNCHANGED <<earnings, completions>>
  BY DEF CommitAssign
<1>7. OrdersSound' /\ FinishedStays
  <2>1. ASSUME NEW p \in Orders
        PROVE  /\ RowSound(order'[p])
               /\ completions'[p] # 0 => order'[p].status \in Finished
               /\ order[p].status \in Finished => order'[p].status \in Finished
    <3>1. CASE p = o
      BY <1>2, <1>3, <1>5, <1>6, <3>1 DEF OrdersInv, OrdersSound
    <3>2. CASE p # o
      BY <1>2, <1>6, <3>2 DEF OrdersInv, OrdersSound
    <3> QED BY <3>1, <3>2
  <2>2. \A p \in Orders : RowSound(order[p])'
    BY <2>1 DEF RowSound
  <2> QED BY <2>1, <2>2 DEF OrdersSound, FinishedStays
<1>8. CompletionPaidOnce'
  BY <1>6 DEF OrdersInv, CompletionPaidOnce
<1>9. LockIsAssignment'
  <2>1. \A d \in Captains : captain'[d].work \in Orders =>
          order'[captain'[d].work].rider = d
    <3>1. ASSUME NEW d \in Captains \ {c}, captain'[d].work \in Orders
          PROVE  order'[captain'[d].work].rider = d
      <4>1. captain'[d].work = captain[d].work /\ captain[d].work # o
        BY <1>1, <1>3, <3>1, WorkAssumption
      <4> QED BY <1>2, <3>1, <4>1 DEF OrdersInv, LockIsAssignment
    <3> QED BY <1>1, <1>2, <1>4, <3>1
  <2>2. ASSUME NEW p \in Orders, order'[p].status \in Delivering,
               order'[p].rider \in Captains
        PROVE  captain'[order'[p].rider].work = p
    <3>1. CASE p = o
      BY <1>1, <1>2, <1>4, <3>1
    <3>2. CASE p # o
      <4>1. order'[p] = order[p]
        BY <1>2, <3>2
      <4>2. order[p].rider \in Captains /\ captain[order[p].rider].work = p
        BY <2>2, <4>1 DEF OrdersInv, LockIsAssignment
      <4>3. order[p].rider # c
        BY <1>1, <3>2, <4>2, WorkAssumption
      <4> QED BY <1>1, <3>2, <4>1, <4>2, <4>3
    <3> QED BY <3>1, <3>2
  <2> QED BY <2>1, <2>2 DEF LockIsAssignment
<1> QED BY <1>7, <1>8, <1>9 DEF OrdersInv

\* Who drops the lock of an order under way drops the only one.
LEMMA ReleaseKeepsLocks ==
    ASSUME OrdersTyped, LockIsAssignment, NEW o \in Orders, NEW c \in Captains,
           order[o].rider = c, order[o].status \in Delivering,
           captain'[c].work = IF captain[c].work = o
                              THEN Nothing ELSE captain[c].work,
           \A d \in Captains \ {c} : captain'[d].work = captain[d].work,
           order'[o].status \notin Delivering,
           \A p \in Orders \ {o} : order'[p] = order[p]
    PROVE  LockIsAssignment'
<1>1. captain[c].work = o /\ captain'[c].work = Nothing
  BY DEF LockIsAssignment
<1>2. \A d \in Captains \ {c} : captain[d].work # o
  BY DEF LockIsAssignment
<1>3. ASSUME NEW d \in Captains, captain'[d].work \in Orders
      PROVE  order'[captain'[d].work].rider = d
  <2>1. d # c /\ captain[d].work \in Orders \ {o}
    BY <1>1, <1>2, <1>3, WorkAssumption
  <2> QED BY <2>1 DEF LockIsAssignment
<1>4. ASSUME NEW p \in Orders, order'[p].status \in Delivering,
             order'[p].rider \in Captains
      PROVE  captain'[order'[p].rider].work = p
  <2>1. p # o /\ order'[p] = order[p]
    BY <1>4
  <2>2. captain[order[p].rider].work = p
    BY <1>4, <2>1 DEF LockIsAssignment
  <2> QED BY <1>1, <1>4, <2>1, <2>2
<1> QED BY <1>3, <1>4 DEF LockIsAssignment

\* A rejection puts the order back where nobody is named.
LEMMA RejectKeepsOrders ==
    ASSUME OrdersTyped, OrdersInv, NEW h \in Handlers,
           request[h] \in Requests, StillSo(request[h]),
           NEW e \in BOOLEAN, CommitReject(h, e)
    PROVE  OrdersInv' /\ FinishedStays
<1> DEFINE o == request[h].order
           c == request[h].captain
           r == order[o]
<1>1. /\ o \in Orders /\ c \in Captains
      /\ captain'[c].work = IF captain[c].work = o
                            THEN Nothing ELSE captain[c].work
      /\ \A d \in Captains \ {c} : captain'[d].work = captain[d].work
      /\ \A p \in Orders \ {o} : order'[p] = order[p]
  BY ReleaseWork
<1>2. /\ r \in OrderRow /\ RowSound(r) /\ order'[o] = Returned(r)
      /\ r.rider = c /\ r.status = "RIDER_ASSIGNED"
      /\ UNCHANGED <<earnings, completions>>
  BY <1>1 DEF OrdersTyped, OrdersInv, OrdersSound, StillSo, CommitReject
<1>3. /\ Returned(r).rider = Nothing
      /\ Returned(r).status = "READY_FOR_PICKUP"
      /\ Returned(r).payment = r.payment
      /\ Returned(r).paymentStatus = r.paymentStatus
  BY <1>2 DEF OrderRow, Returned
<1>4. RowSound(Returned(r))
  BY <1>2, <1>3 DEF RowSound, Delivering
<1>5. OrdersSound' /\ FinishedStays
  BY <1>1, <1>2, <1>4 DEF OrdersInv, OrdersSound, FinishedStays, RowSound, Finished
<1>6. CompletionPaidOnce'
  BY <1>2 DEF OrdersInv, CompletionPaidOnce
<1>7. LockIsAssignment'
  BY <1>1, <1>2, <1>3, ReleaseKeepsLocks DEF OrdersInv, Delivering
<1> QED BY <1>5, <1>6, <1>7 DEF OrdersInv

\* A completion is the order's first, and earns its captain the fee.
LEMMA CompleteKeepsOrders ==
    ASSUME OrdersTyped, OrdersInv, NEW h \in Handlers,
           request[h] \in Requests, StillSo(request[h]),
           NEW e \in BOOLEAN, CommitComplete(h, e)
    PROVE  OrdersInv' /\ FinishedStays
<1> DEFINE o == request[h].order
           c == request[h].captain
           r == order[o]
<1>1. /\ o \in Orders /\ c \in Captains
      /\ captain'[c].work = IF captain[c].work = o
                            THEN Nothing ELSE captain[c].work
      /\ \A d \in Captains \ {c} : captain'[d].work = captain[d].work
      /\ \A p \in Orders \ {o} : order'[p] = order[p]
  BY ReleaseWork
<1>2. /\ r \in OrderRow /\ RowSound(r) /\ order'[o] = Completed(r)
      /\ r.rider = c /\ r.status = "DELIVERED"
  BY <1>1 DEF OrdersTyped, OrdersInv, OrdersSound, StillSo, CommitComplete
<1>3. completions[o] = 0 /\ \A d \in Captains : <<d, o>> \notin earnings
  <2>1. completions[o] = 0
    BY <1>1, <1>2 DEF OrdersInv, OrdersSound, Finished
  <2>2. completions[o] = 1 <=> \E d \in Captains : <<d, o>> \in earnings
    BY <1>1 DEF OrdersInv, CompletionPaidOnce
  <2> QED BY <2>1, <2>2
<1>4. /\ earnings' = earnings \cup {<<c, o>>}
      /\ completions'[o] = 1
      /\ \A p \in Orders \ {o} : completions'[p] = completions[p]
  BY <1>1, <1>3 DEF CommitComplete, OrdersTyped
<1>5. /\ Completed(r).rider = r.rider
      /\ Completed(r).status = "COMPLETED"
      /\ Completed(r).payment = r.payment
      /\ Completed(r).paymentStatus = r.paymentStatus
  BY <1>2 DEF OrderRow, Completed
<1>6. RowSound(Completed(r))
  BY <1>2, <1>5 DEF RowSound, Delivering, Unassigned
<1>7. OrdersSound' /\ FinishedStays
  BY <1>1, <1>2, <1>4, <1>5, <1>6
     DEF OrdersInv, OrdersSound, FinishedStays, RowSound, Finished
<1>8. CompletionPaidOnce'
  <2> SUFFICES ASSUME NEW p \in Orders
               PROVE  /\ completions'[p] <= 1
                      /\ \A c1, d \in Captains :
                           {<<c1, p>>, <<d, p>>} \subseteq earnings' => c1 = d
                      /\ completions'[p] = 1
                           <=> \E c1 \in Captains : <<c1, p>> \in earnings'
    BY DEF CompletionPaidOnce
  <2>1. CASE p = o
    <3>1. \A d \in Captains : <<d, o>> \in earnings' <=> d = c
      BY <1>1, <1>3, <1>4
    <3> QED BY <1>1, <1>4, <2>1, <3>1
  <2>2. CASE p # o
    <3>1. \A d \in Captains : <<d, p>> \in earnings' <=> <<d, p>> \in earnings
      BY <1>4, <2>2
    <3>2. completions'[p] = completions[p]
      BY <1>4, <2>2
    <3>3. /\ completions[p] <= 1
          /\ \A c1, d \in Captains :
               <<c1, p>> \in earnings /\ <<d, p>> \in earnings => c1 = d
          /\ completions[p] = 1 <=> \E d \in Captains : <<d, p>> \in earnings
      BY DEF OrdersInv, CompletionPaidOnce
    <3> QED BY <3>1, <3>2, <3>3
  <2> QED BY <2>1, <2>2
<1>9. LockIsAssignment'
  BY <1>1, <1>2, <1>5, ReleaseKeepsLocks DEF OrdersInv, Delivering
<1> QED BY <1>7, <1>8, <1>9 DEF OrdersInv

\* Payment, vendor, refund and progress.
LEMMA RowCommitKeepsOrders ==
    ASSUME OrdersTyped, OrdersInv, NEW h \in Handlers,
           request[h] \in Requests, StillSo(request[h]),
           \/ CommitPay(h) \/ CommitVendor(h) \/ CommitVendorReject(h)
           \/ CommitRefund(h) \/ CommitApprove(h) \/ CommitMove(h)
    PROVE  OrdersInv' /\ FinishedStays
<1> DEFINE q == request[h]
           o == q.order
           r == order[o]
<1>1. o \in Orders
  BY RequestShape DEF CommitPay, CommitVendor, CommitVendorReject, CommitRefund,
     CommitApprove, CommitMove
<1>2. r \in OrderRow /\ RowSound(r)
  BY <1>1 DEF OrdersTyped, OrdersInv, OrdersSound
<1>3. /\ \A d \in Captains : captain'[d].work = captain[d].work
      /\ UNCHANGED <<earnings, completions>>
  <2>1. \A d \in Captains : captain'[d].work = captain[d].work
    BY OtherWork
  <2>2. UNCHANGED <<earnings, completions>>
    BY DEF CommitPay, CommitVendor, CommitVendorReject, CommitRefund,
       CommitApprove, CommitMove
  <2> QED BY <2>1, <2>2
<1>4. ASSUME NEW x, SoundWrite(r, x), order' = [order EXCEPT ![o] = x]
      PROVE  OrdersInv' /\ FinishedStays
  BY <1>1, <1>3, <1>4, WriteKeepsOrders
<1>5. CASE CommitPay(h)
  <2>1. /\ q.op = "pay" /\ q.change \in BOOLEAN
        /\ q.change = (r.status = "AWAITING_PAYMENT")
    BY <1>5, RequestShape DEF CommitPay, StillSo
  <2>2. SoundWrite(r, Paid(r, HasVendor(o), q.change))
    BY <1>2, <2>1, PaidSound DEF HasVendor
  <2>3. order' = [order EXCEPT ![o] = Paid(r, HasVendor(o), q.change)]
    BY <1>5 DEF CommitPay
  <2> QED BY <1>4, <2>2, <2>3
<1>6. CASE CommitVendor(h)
  <2>1. q.to \in VendorMoves /\ <<r.status, q.to>> \in VENDOR_TRANSITIONS
    BY <1>6, RequestShape DEF CommitVendor, StillSo
  <2>2. SoundWrite(r, [r EXCEPT !.status = q.to])
    BY <1>2, <2>1, MovedSound
  <2>3. order' = [order EXCEPT ![o] = [r EXCEPT !.status = q.to]]
    BY <1>6 DEF CommitVendor
  <2> QED BY <1>4, <2>2, <2>3
<1>7. CASE CommitVendorReject(h)
  <2>1. /\ r.status = "PAID" /\ q.paid \in BOOLEAN
        /\ q.paid = (r.paymentStatus = "SUCCESSFUL")
    BY <1>7, RequestShape DEF CommitVendorReject, StillSo
  <2>2. SoundWrite(r, VendorRejected(r, q.paid))
    BY <1>2, <2>1, RejectedSound
  <2>3. order' = [order EXCEPT ![o] = VendorRejected(r, q.paid)]
    BY <1>7 DEF CommitVendorReject
  <2> QED BY <1>4, <2>2, <2>3
<1>8. CASE CommitRefund(h)
  <2>1. q.change \in BOOLEAN /\ q.change = (r.status # "REFUND_REQUESTED")
    BY <1>8, RequestShape DEF CommitRefund, StillSo
  <2>2. SoundWrite(r, RefundRequested(r, q.change))
    BY <1>2, <2>1, RequestedSound
  <2>3. order' = [order EXCEPT ![o] = RefundRequested(r, q.change)]
    BY <1>8 DEF CommitRefund
  <2> QED BY <1>4, <2>2, <2>3
<1>9. CASE CommitApprove(h)
  <2>1. /\ q.change \in BOOLEAN /\ q.change = (r.status # "REFUNDED")
        /\ r.payment = "REFUND_PENDING"
    BY <1>9, RequestShape DEF CommitApprove, StillSo
  <2>2. SoundWrite(r, Refunded(r, q.change))
    BY <1>2, <2>1, RefundedSound
  <2>3. order' = [order EXCEPT ![o] = Refunded(r, q.change)]
    BY <1>9 DEF CommitApprove
  <2> QED BY <1>4, <2>2, <2>3
<1>10. CASE CommitMove(h)
  <2>1. q.to \in CaptainMoves /\ <<r.status, q.to>> \in DELIVERY_TRANSITIONS
    BY <1>10, RequestShape DEF CommitMove, StillSo
  <2>2. SoundWrite(r, [r EXCEPT !.status = q.to])
    BY <1>2, <2>1, MovedSound
  <2>3. order' = [order EXCEPT ![o] = [r EXCEPT !.status = q.to]]
    BY <1>10 DEF CommitMove
  <2> QED BY <1>4, <2>2, <2>3
<1> QED BY <1>5, <1>6, <1>7, <1>8, <1>9, <1>10

\* A handler that begins keeps what it checked, and the lock's first read
\* adds nothing to it.
LEMMA SnapshotTaken ==
    ASSUME NEW R, request \in [Handlers -> R], OrdersInv,
           NEW h \in Handlers, request[h] \in Requests, StillSo(request[h]),
           BeginDelivery(h) \/ ReadLock(h)
    PROVE  StillSo(request[h])'
<1>1. order' = order
  BY DEF BeginDelivery, BeginPay, BeginVendor, BeginVendorReject, BeginRefund,
     BeginApprove, BeginAssign, BeginReassign, BeginMove, BeginReject,
     BeginComplete, Begin, ReadLock, orderVars
<1>2. CASE ReadLock(h)
  <2>1. /\ request'[h] = [request[h] EXCEPT !.locking = TRUE]
        /\ request[h].op \in {"assign", "reassign"}
    BY <1>2 DEF ReadLock
  <2>2. request[h] \in AssignRequests
    BY <2>1 DEF Requests, DeliveryRequests, AvailabilityRequests, CaptainRequests,
       LifecycleRequests, OrderRequests, Idle
  <2>3. /\ request'[h].op = request[h].op /\ request'[h].order = request[h].order
        /\ request'[h].previous = request[h].previous
    BY <2>1, <2>2 DEF AssignRequests
  <2> QED BY <1>1, <2>1, <2>3 DEF StillSo
<1>3. CASE BeginDelivery(h)
  <2> PICK o \in Orders : BeginDelivery(h)!(o)
    BY <1>3 DEF BeginDelivery
  <2>0. ASSUME NEW q, Begin(h, q) PROVE request'[h] = q
    BY <2>0 DEF Begin
  <2>1. CASE BeginPay(h, o)
    BY <1>1, <2>0, <2>1 DEF BeginPay, StillSo
  <2>2. ASSUME NEW to \in VendorMoves, BeginVendor(h, o, to)
        PROVE  StillSo(request[h])'
    BY <1>1, <2>0, <2>2 DEF BeginVendor, StillSo
  <2>3. CASE BeginVendorReject(h, o)
    BY <1>1, <2>0, <2>3 DEF BeginVendorReject, VENDOR_TRANSITIONS, StillSo
  <2>4. CASE BeginRefund(h, o)
    BY <1>1, <2>0, <2>4 DEF BeginRefund, StillSo
  <2>5. CASE BeginApprove(h, o)
    BY <1>1, <2>0, <2>5 DEF BeginApprove, StillSo
  <2>6. ASSUME NEW c \in Captains, BeginAssign(h, o, c)
        PROVE  StillSo(request[h])'
    BY <1>1, <2>0, <2>6 DEF BeginAssign, DELIVERY_TRANSITIONS, StillSo
  <2>7. ASSUME NEW c \in Captains, BeginReassign(h, o, c)
        PROVE  StillSo(request[h])'
    BY <1>1, <2>0, <2>7 DEF BeginReassign, StillSo
  <2>8. ASSUME NEW c \in Captains, NEW to \in CaptainMoves,
               BeginMove(h, o, c, to)
        PROVE  StillSo(request[h])'
    BY <1>1, <2>0, <2>8 DEF BeginMove, Assigned, StillSo
  <2>9. ASSUME NEW c \in Captains, BeginReject(h, o, c)
        PROVE  StillSo(request[h])'
    BY <1>1, <2>0, <2>9 DEF BeginReject, Assigned, DELIVERY_TRANSITIONS, StillSo
  <2>10. ASSUME NEW c \in Captains, BeginComplete(h, o, c)
         PROVE  StillSo(request[h])'
    BY <1>1, <2>0, <2>10
       DEF BeginComplete, Assigned, DELIVERY_TRANSITIONS, StillSo
  <2> QED
    BY <2>1, <2>2, <2>3, <2>4, <2>5, <2>6, <2>7, <2>8, <2>9, <2>10
<1> QED BY <1>2, <1>3

\* A step of the only handler.
LEMMA OrderStep ==
    ASSUME OrdersTyped, OrdersInv, NEW R, request \in [Handlers -> R],
           NEW h \in Handlers, request[h] \in Requests, StillSo(request[h]),
           BeginDelivery(h) \/ CommitDelivery(h)
    PROVE  OrdersInv' /\ FinishedStays /\ StillSo(request[h])'
<1>1. CASE BeginDelivery(h) \/ ReadLock(h)
  <2>1. UNCHANGED <<captain, orderVars>>
    BY <1>1, BeginType DEF ReadLock
  <2>2. OrdersInv' /\ FinishedStays
    BY <2>1 DEF OrdersInv, OrdersSound, RowSound, CompletionPaidOnce,
       LockIsAssignment, FinishedStays, orderVars
  <2> QED BY <1>1, <2>2, SnapshotTaken
<1>2. ASSUME End(h) PROVE StillSo(request[h])'
  BY <1>2 DEF End, StillSo, Idle
<1>3. CASE \/ CommitPay(h) \/ CommitVendor(h) \/ CommitVendorReject(h)
           \/ CommitRefund(h) \/ CommitApprove(h) \/ CommitMove(h)
  <2>1. End(h)
    BY <1>3 DEF CommitPay, CommitVendor, CommitVendorReject, CommitRefund,
       CommitApprove, CommitMove
  <2> QED BY <1>2, <1>3, <2>1, RowCommitKeepsOrders
<1>4. ASSUME NEW e \in BOOLEAN,
             CommitAssign(h, e) \/ CommitReject(h, e) \/ CommitComplete(h, e)
      PROVE  OrdersInv' /\ FinishedStays /\ StillSo(request[h])'
  <2>1. End(h)
    BY <1>4 DEF CommitAssign, CommitReject, CommitComplete
  <2> QED BY <1>2, <1>4, <2>1, AssignKeepsOrders, RejectKeepsOrders,
          CompleteKeepsOrders
<1> QED BY <1>1, <1>3, <1>4 DEF CommitDelivery

\* The captains' own switches and the admin's suspensions.
LEMMA CaptainStepKeepsOrders ==
    ASSUME OrdersInv, SnapshotsTrue, \A g, k \in Handlers : g = k,
           NEW R, request \in [Handlers -> R],
           \A d \in Captains : captain'[d].work = captain[d].work,
           UNCHANGED orderVars, CaptainNext
    PROVE  OrdersInv' /\ FinishedStays /\ SnapshotsTrue'
<1>1. OrdersInv' /\ FinishedStays
  BY DEF OrdersInv, OrdersSound, RowSound, CompletionPaidOnce, LockIsAssignment,
     FinishedStays, orderVars
<1>2. SnapshotsTrue'
  <2>1. PICK h \in Handlers : CaptainNext!(h)
    BY DEF CaptainNext
  <2>2. \/ request'[h] \in AvailabilityRequests \cup LifecycleRequests
        \/ request'[h] = Idle
    BY <2>1 DEF BeginAvailability, CommitAvailability, BeginLifecycle,
       SuspendCaptain, ReactivateCaptain, SetDriverProfileStatus, Abandon,
       AvailabilityRequests
  <2>3. request'[h].op \in {"idle", "availability", "suspend", "reactivate",
                            "profile"}
    BY <2>2 DEF AvailabilityRequests, LifecycleRequests, Idle
  <2> QED BY <2>3 DEF SnapshotsTrue, StillSo
<1> QED BY <1>1, <1>2

\* Dispatch leaves both modes of a locked captain paused.  A completion shows
\* its captain as free before it releases the lock: it must be the captain's
\* lock for this order that it releases.
LEMMA OrderStepPaused ==
    ASSUME OrdersTyped, AllPaused, NEW h \in Handlers, request[h] \in Requests,
           request[h].op = "complete" =>
             captain[request[h].captain].work = request[h].order,
           BeginDelivery(h) \/ CommitDelivery(h)
    PROVE  AllPaused'
<1> DEFINE q == request[h]
           o == q.order
           c == q.captain
<1>0. captain \in [Captains -> CaptainRow] /\ \A d \in Captains : Paused(captain[d])
  BY DEF OrdersTyped, AllPaused
<1>1. CASE captain' = captain
  BY <1>1 DEF AllPaused, Paused
<1>2. ASSUME NEW x, c \in Captains, captain' = [captain EXCEPT ![c] = x], Paused(x)
      PROVE  AllPaused'
  BY <1>0, <1>2 DEF AllPaused, Paused
<1>3. CASE CommitMove(h)
  <2>1. c \in Captains
    BY <1>3, RequestShape DEF CommitMove
  <2>2. Paused(TransitionLock(captain[c], o, StageOf(q.to)))
    BY <1>0, <2>1, TransitionRow DEF StageOf, Stages
  <2>3. captain' = [captain EXCEPT ![c] =
          TransitionLock(captain[c], o, StageOf(q.to))]
    BY <1>3 DEF CommitMove
  <2> QED BY <1>2, <2>1, <2>2, <2>3
<1>4. ASSUME NEW e \in BOOLEAN, CommitReject(h, e) PROVE AllPaused'
  <2>1. c \in Captains
    BY <1>4, RequestShape DEF CommitReject
  <2>2. Paused(ReleaseLock(captain[c], o, e))
    BY <1>0, <2>1, ReleaseRow
  <2>3. captain' = [captain EXCEPT ![c] = ReleaseLock(captain[c], o, e)]
    BY <1>4 DEF CommitReject
  <2> QED BY <1>2, <2>1, <2>2, <2>3
<1>5. ASSUME NEW e \in BOOLEAN, CommitComplete(h, e) PROVE AllPaused'
  <2> DEFINE r == [captain[c] EXCEPT !.availability = "ONLINE"]
  <2>1. c \in Captains /\ captain[c].work = o
    BY <1>5, RequestShape DEF CommitComplete
  <2>2. r \in CaptainRow /\ r.work = o
    BY <1>0, <2>1 DEF CaptainRow
  <2>3. Paused(ReleaseLock(r, o, e))
    <3> HIDE DEF r
    <3> QED BY <2>2, ReleaseRow
  <2>4. captain' = [captain EXCEPT ![c] = ReleaseLock(r, o, e)]
    BY <1>5 DEF CommitComplete
  <2> QED BY <1>2, <2>1, <2>3, <2>4
<1>6. ASSUME NEW e \in BOOLEAN, CommitAssign(h, e) PROVE AllPaused'
  <2>1. o \in Orders /\ c \in Captains
    BY <1>6, RequestShape DEF CommitAssign
  <2>2. Paused(AcquireLock(captain[c], o, "OFFERED"))
    BY <1>0, <2>1, AcquireRow DEF Works, Stages
  <2>3. \A d \in Captains : Paused(ReleaseLock(captain[d], o, e))
    BY <1>0, ReleaseRow
  <2>4. \A d \in Captains :
          \/ captain'[d] = captain[d]
          \/ captain'[d] = AcquireLock(captain[d], o, "OFFERED") /\ d = c
          \/ captain'[d] = ReleaseLock(captain[d], o, e)
    BY <1>6 DEF CommitAssign
  <2>5. \A d \in Captains : Paused(captain'[d])
    BY <1>0, <2>2, <2>3, <2>4
  <2> QED BY <2>5 DEF AllPaused, Paused
<1>7. CASE captain' # captain
  <2>1. \/ CommitMove(h)
        \/ \E e \in BOOLEAN :
             CommitReject(h, e) \/ CommitComplete(h, e) \/ CommitAssign(h, e)
    BY <1>7, BeginType DEF CommitDelivery, CommitPay, CommitVendor,
       CommitVendorReject, CommitRefund, CommitApprove, ReadLock
  <2> QED BY <1>3, <1>4, <1>5, <1>6, <2>1
<1> QED BY <1>1, <1>7

-----------------------------------------------------------------------------
DeliverySerialInv == TypeOK /\ OrdersInv /\ SnapshotsTrue

\* The orders as they are placed.
LEMMA PlacedSound == OrderInit /\ CaptainInit => OrdersInv /\ SnapshotsTrue
<1> SUFFICES ASSUME OrderInit, CaptainInit PROVE OrdersInv /\ SnapshotsTrue
  OBVIOUS
<1>1. \A k \in Kinds : RowSound(NewOrder(k))
  BY DEF RowSound, NewOrder, Kinds, Delivering
<1>2. OrdersSound
  BY <1>1, OrderAssumption DEF OrderInit, OrdersSound
<1>3. CompletionPaidOnce
  BY DEF OrderInit, CompletionPaidOnce
<1>4. LockIsAssignment
  <2>1. \A o \in Orders : order[o].rider = Nothing
    BY DEF OrderInit, NewOrder
  <2> QED BY <2>1, WorkAssumption DEF CaptainInit, LockIsAssignment
<1>5. SnapshotsTrue
  BY DEF CaptainInit, SnapshotsTrue, StillSo, Idle
<1> QED BY <1>2, <1>3, <1>4, <1>5 DEF OrdersInv

LEMMA DeliverySerialStep ==
    ASSUME \A g, k \in Handlers : g = k, DeliverySerialInv, DeliveryNext
    PROVE  OrdersInv' /\ SnapshotsTrue' /\ FinishedStays
<1>0. OrdersTyped /\ request \in [Handlers -> Requests]
  BY DEF DeliverySerialInv, TypeOK, OrdersTyped
<1>1. CASE DeliveryStep
  BY <1>0, <1>1, OrderStep DEF DeliveryStep, DeliverySerialInv, SnapshotsTrue
<1>2. CASE CaptainNext /\ UNCHANGED orderVars
  BY <1>0, <1>2, CaptainType, CaptainStepKeepsOrders DEF DeliverySerialInv
<1> QED BY <1>1, <1>2 DEF DeliveryNext

LEMMA DeliverySerialInvariant ==
    ASSUME \A g, k \in Handlers : g = k
    PROVE  DeliverySpec => []DeliverySerialInv
<1>1. DeliveryInit => OrdersInv /\ SnapshotsTrue
  BY PlacedSound DEF DeliveryInit
<1>2. TypeOK /\ (OrdersInv /\ SnapshotsTrue) /\ DeliveryNext
        => (OrdersInv /\ SnapshotsTrue)'
  BY DeliverySerialStep DEF DeliverySerialInv
<1>3. (OrdersInv /\ SnapshotsTrue) /\ UNCHANGED deliveryVars
        => (OrdersInv /\ SnapshotsTrue)'
  BY DEF OrdersInv, OrdersSound, RowSound, CompletionPaidOnce, LockIsAssignment,
     SnapshotsTrue, StillSo, deliveryVars, captainVars, orderVars
<1> QED BY TypeCorrect, <1>1, <1>2, <1>3, PTL DEF DeliverySpec, DeliverySerialInv

\* While requests do not overlap, a captain is locked for an order exactly as
\* long as the order under way names that captain.
THEOREM LockFollowsAssignment ==
    ASSUME \A g, k \in Handlers : g = k
    PROVE  DeliverySpec => []LockIsAssignment
<1>1. DeliverySerialInv => LockIsAssignment
  BY DEF DeliverySerialInv, OrdersInv
<1> QED BY <1>1, DeliverySerialInvariant, PTL

\* While requests do not overlap, an order is completed once and earns one
\* captain one fee, whatever reassignments and refunds surround it.
THEOREM CompletedOnce ==
    ASSUME \A g, k \in Handlers : g = k
    PROVE  DeliverySpec => []CompletionPaidOnce
<1>1. DeliverySerialInv => CompletionPaidOnce
  BY DEF DeliverySerialInv, OrdersInv
<1> QED BY <1>1, DeliverySerialInvariant, PTL

\* While requests do not overlap, the order's copy of the payment status is
\* the payment's own.
THEOREM PaymentCopiesAgree ==
    ASSUME \A g, k \in Handlers : g = k
    PROVE  DeliverySpec => []PaymentsAgree
<1>1. DeliverySerialInv => PaymentsAgree
  BY DEF DeliverySerialInv, OrdersInv, OrdersSound, RowSound, PaymentsAgree
<1> QED BY <1>1, DeliverySerialInvariant, PTL

\* While requests do not overlap, dispatch, vendors and late payments do not
\* bring a completed or refunded order back to life.
THEOREM ClosedOrderStaysClosed ==
    ASSUME \A g, k \in Handlers : g = k
    PROVE  DeliverySpec => ClosedStaysClosed
<1> DEFINE Stays ==
      \A o \in Orders :
        order[o].status \in {"COMPLETED", "REFUNDED"} =>
          order'[o].status \in {"COMPLETED", "REFUND_REQUESTED", "REFUNDED"}
<1>1. DeliverySerialInv /\ DeliveryNext => Stays
  BY DeliverySerialStep DEF FinishedStays, Finished
<1>2. DeliverySerialInv /\ [DeliveryNext]_deliveryVars => [Stays]_deliveryVars
  BY <1>1
<1> QED
  BY DeliverySerialInvariant, <1>2, PTL DEF DeliverySpec, ClosedStaysClosed
=============================================================================
