--------------------------- MODULE DeliveryDispatch ---------------------------
(***************************************************************************)
(* The life of a delivery order: payment, vendor, refund and, above all,   *)
(* dispatch to a captain (payments.service.ts,                             *)
(* vendor-dashboard-orders.service.ts, dispatch.service.ts).               *)
(*                                                                         *)
(* Every handler here has two parts: Begin... reads the order and the      *)
(* captain and runs the checks; Commit... is the transaction, which writes *)
(* by primary key whatever the rows hold by then.  The only conditional    *)
(* writes are those of the captain's lock.                                 *)
(***************************************************************************)
EXTENDS CaptainWork, Naturals

CONSTANTS
    Kind,            \* [Orders -> Kinds]: how the order was placed
    MaxCompletions   \* bound: COMPLETED entries in one order's history

Kinds == {"CASH", "WALLET", "ONLINE", "PARCEL"}

ASSUME OrderAssumption ==
    /\ Kind \in [Orders -> Kinds]
    /\ MaxCompletions \in Nat

VARIABLES
    order,        \* [Orders -> OrderRow], with the order's one Payment row
    earnings,     \* RiderEarning rows: the <<captain, order>> pairs
    settlements,  \* VendorSettlement rows: the orders settled
    completions   \* COMPLETED rows of OrderStatusHistory, per order

orderVars == <<order, earnings, settlements, completions>>
deliveryVars == <<captainVars, orderVars>>

Delivering == {"RIDER_ASSIGNED", "RIDER_ARRIVING_PICKUP", "PICKED_UP",
               "ON_THE_WAY", "ARRIVED_DESTINATION", "DELIVERED"}

Statuses == {"AWAITING_PAYMENT", "PAID", "VENDOR_ACCEPTED", "VENDOR_REJECTED",
             "PREPARING", "READY_FOR_PICKUP", "COMPLETED",
             "REFUND_REQUESTED", "REFUNDED"} \cup Delivering

PaymentStatuses == {"PENDING", "CASH_PENDING", "SUCCESSFUL",
                    "REFUND_PENDING", "REFUNDED"}

OrderRow ==
    [ status        : Statuses,
      rider         : Captains \cup {Nothing},
      otp           : BOOLEAN,               \* a deliveryOtp is set
      paymentStatus : PaymentStatuses,       \* Order.paymentStatus
      payment       : PaymentStatuses \cup {"NONE"} ]  \* the Payment row

\* The order as createVendorOrder, createParcelOrder and initiate leave it.
NewOrder(kind) ==
    [ status |-> IF kind \in {"CASH", "WALLET"} THEN "PAID"
                 ELSE "AWAITING_PAYMENT",
      rider |-> Nothing,
      otp |-> FALSE,
      paymentStatus |-> CASE kind = "CASH"   -> "CASH_PENDING"
                          [] kind = "WALLET" -> "SUCCESSFUL"
                          [] OTHER           -> "PENDING",
      payment |-> CASE kind = "CASH"   -> "NONE"
                    [] kind = "WALLET" -> "SUCCESSFUL"
                    [] OTHER           -> "PENDING" ]

HasVendor(o) == Kind[o] # "PARCEL"

-----------------------------------------------------------------------------
(***************************************************************************)
(* Faults: definitions of this module with a bug (README, "Faults").       *)
(***************************************************************************)

\* a completed, refunded or refund-requested order may be reassigned
ReassignableUntilDelivered(status) == status # "DELIVERED"

\* accepting writes a lock stage the enum has and no reader expects
StageWithAssigned(status) ==
    IF status = "RIDER_ARRIVING_PICKUP" THEN "ASSIGNED" ELSE "IN_PROGRESS"

\* rejection marks the order for refund and not its payment
OrderRejected(r, paid) ==
    [r EXCEPT !.status = "VENDOR_REJECTED",
              !.paymentStatus = IF paid THEN "REFUND_PENDING" ELSE @]

-----------------------------------------------------------------------------
(***************************************************************************)
(* The two transition tables.                                              *)
(***************************************************************************)

VENDOR_TRANSITIONS ==
    { <<"PAID", "VENDOR_ACCEPTED">>, <<"PAID", "VENDOR_REJECTED">>,
      <<"VENDOR_ACCEPTED", "PREPARING">>, <<"PREPARING", "READY_FOR_PICKUP">> }

DELIVERY_TRANSITIONS ==
    { <<"READY_FOR_PICKUP", "RIDER_ASSIGNED">>,
      <<"RIDER_ASSIGNED", "RIDER_ARRIVING_PICKUP">>,
      <<"RIDER_ASSIGNED", "READY_FOR_PICKUP">>,
      <<"RIDER_ARRIVING_PICKUP", "PICKED_UP">>,
      <<"PICKED_UP", "ON_THE_WAY">>,
      <<"ON_THE_WAY", "ARRIVED_DESTINATION">>,
      <<"ARRIVED_DESTINATION", "DELIVERED">>,
      <<"DELIVERED", "COMPLETED">> }

\* The statuses a vendor may ask for by accept, preparing and ready.
VendorMoves == {"VENDOR_ACCEPTED", "PREPARING", "READY_FOR_PICKUP"}

Reassignable(status) ==
    status \notin {"DELIVERED", "COMPLETED", "REFUND_REQUESTED", "REFUNDED"}

\* The statuses a captain may ask for, by accept or by RiderDeliveryStatus.
CaptainMoves == Delivering \ {"RIDER_ASSIGNED"}

\* The lock stage riderTransition writes with a status.
StageOf(status) ==
    IF status = "RIDER_ARRIVING_PICKUP" THEN "ACCEPTED" ELSE "IN_PROGRESS"

-----------------------------------------------------------------------------
(***************************************************************************)
(* What the transactions write on the order's row r.  change is the        *)
(* decision, taken on a snapshot, to move the order's status as well.      *)
(***************************************************************************)

Paid(r, vendor, change) ==
    [r EXCEPT !.payment = "SUCCESSFUL",
              !.paymentStatus = "SUCCESSFUL",
              !.status = CASE ~change          -> @
                           [] change /\ vendor -> "PAID"
                           [] OTHER            -> "READY_FOR_PICKUP"]

VendorRejected(r, paid) ==
    [r EXCEPT !.status = "VENDOR_REJECTED",
              !.paymentStatus = IF paid THEN "REFUND_PENDING" ELSE @,
              !.payment = IF paid /\ @ = "SUCCESSFUL"
                          THEN "REFUND_PENDING" ELSE @]

RefundRequested(r, change) ==
    [r EXCEPT !.payment = "REFUND_PENDING",
              !.paymentStatus = "REFUND_PENDING",
              !.status = IF change THEN "REFUND_REQUESTED" ELSE @]

Refunded(r, change) ==
    [r EXCEPT !.payment = "REFUNDED",
              !.paymentStatus = IF change THEN "REFUNDED" ELSE @,
              !.status = IF change THEN "REFUNDED" ELSE @]

\* assign and reassign: a new OTP, or on reassignment the one it had
Offered(r, c) ==
    [r EXCEPT !.rider = c, !.status = "RIDER_ASSIGNED", !.otp = TRUE]

Returned(r) == [r EXCEPT !.rider = Nothing, !.status = "READY_FOR_PICKUP"]

Completed(r) == [r EXCEPT !.status = "COMPLETED", !.otp = FALSE]

-----------------------------------------------------------------------------
(***************************************************************************)
(* What the handlers keep of what they read.                               *)
(***************************************************************************)

\* locking: acquireLock has read the row; previous: the rider to release
AssignRequests ==
    { q \in [op : {"assign", "reassign"}, locking : BOOLEAN,
             order : Orders, captain : Captains,
             previous : Captains \cup {Nothing}] : q.captain # q.previous }

CaptainRequests ==
    [op : {"move"}, order : Orders, captain : Captains, to : CaptainMoves]
      \cup
    [op : {"reject", "complete"}, order : Orders, captain : Captains]

OrderRequests ==
    [op : {"vendor"}, order : Orders, to : VendorMoves]
      \cup
    [op : {"vendorReject"}, order : Orders, paid : BOOLEAN]
      \cup
    [op : {"pay", "refund", "approve"}, order : Orders, change : BOOLEAN]

DeliveryRequests == AssignRequests \cup CaptainRequests \cup OrderRequests

Requests ==
    {Idle} \cup AvailabilityRequests \cup LifecycleRequests
           \cup DeliveryRequests

Begin(h, q) ==
    /\ request[h] = Idle
    /\ request' = [request EXCEPT ![h] = q]
    /\ UNCHANGED <<captain, orderVars>>

End(h) == request' = [request EXCEPT ![h] = Idle]

-----------------------------------------------------------------------------
(***************************************************************************)
(* Payment, vendor and refund: the other writers of an order's status.     *)
(***************************************************************************)

\* verify or webhook: processSuccessfulPayment reads the payment and the
\* order, then writes both; only a SUCCESSFUL payment stops it.
BeginPay(h, o) ==
    /\ Kind[o] \in {"ONLINE", "PARCEL"}
    /\ order[o].payment # "SUCCESSFUL"
    /\ Begin(h, [op |-> "pay", order |-> o,
                 change |-> order[o].status = "AWAITING_PAYMENT"])

CommitPay(h) ==
    LET q == request[h] IN
    /\ q.op = "pay"
    /\ order' = [order EXCEPT
         ![q.order] = Paid(@, HasVendor(q.order), q.change)]
    /\ End(h)
    /\ UNCHANGED <<captain, earnings, settlements, completions>>

\* accept, preparing, ready
BeginVendor(h, o, to) ==
    /\ HasVendor(o)
    /\ <<order[o].status, to>> \in VENDOR_TRANSITIONS
    /\ Begin(h, [op |-> "vendor", order |-> o, to |-> to])

CommitVendor(h) ==
    LET q == request[h] IN
    /\ q.op = "vendor"
    /\ order' = [order EXCEPT ![q.order].status = q.to]
    /\ End(h)
    /\ UNCHANGED <<captain, earnings, settlements, completions>>

BeginVendorReject(h, o) ==
    /\ HasVendor(o)
    /\ <<order[o].status, "VENDOR_REJECTED">> \in VENDOR_TRANSITIONS
    /\ Begin(h, [op |-> "vendorReject", order |-> o,
                 paid |-> order[o].paymentStatus = "SUCCESSFUL"])

CommitVendorReject(h) ==
    LET q == request[h] IN
    /\ q.op = "vendorReject"
    /\ order' = [order EXCEPT ![q.order] = VendorRejected(@, q.paid)]
    /\ End(h)
    /\ UNCHANGED <<captain, earnings, settlements, completions>>

\* requestRefund, by the customer, whatever the order's status
BeginRefund(h, o) ==
    /\ order[o].payment = "SUCCESSFUL"
    /\ Begin(h, [op |-> "refund", order |-> o,
                 change |-> order[o].status # "REFUND_REQUESTED"])

CommitRefund(h) ==
    LET q == request[h] IN
    /\ q.op = "refund"
    /\ order' = [order EXCEPT ![q.order] = RefundRequested(@, q.change)]
    /\ End(h)
    /\ UNCHANGED <<captain, earnings, settlements, completions>>

\* approveRefund, by an admin
BeginApprove(h, o) ==
    /\ order[o].payment = "REFUND_PENDING"
    /\ Begin(h, [op |-> "approve", order |-> o,
                 change |-> order[o].status # "REFUNDED"])

CommitApprove(h) ==
    LET q == request[h] IN
    /\ q.op = "approve"
    /\ order' = [order EXCEPT ![q.order] = Refunded(@, q.change)]
    /\ End(h)
    /\ UNCHANGED <<captain, earnings, settlements, completions>>

-----------------------------------------------------------------------------
(***************************************************************************)
(* Admins assign and reassign.                                             *)
(***************************************************************************)

\* requireAvailableRider
Available(c) ==
    /\ captain[c].availability = "ONLINE"
    /\ captain[c].verification = "ACTIVE"
    /\ captain[c].work = Nothing
    /\ "DELIVERY" \in captain[c].desired

BeginAssign(h, o, c) ==
    /\ Available(c)
    /\ <<order[o].status, "RIDER_ASSIGNED">> \in DELIVERY_TRANSITIONS
    /\ Begin(h, [op |-> "assign", locking |-> FALSE, order |-> o,
                 captain |-> c, previous |-> Nothing])

\* (fault: reassigning without releasing the captain who had the order)
BeginReassignKeeping(h, o, c) ==
    /\ Available(c)
    /\ Reassignable(order[o].status)
    /\ order[o].rider # c
    /\ Begin(h, [op |-> "reassign", locking |-> FALSE, order |-> o,
                 captain |-> c, previous |-> Nothing])

BeginReassign(h, o, c) ==
    /\ Available(c)
    /\ Reassignable(order[o].status)
    /\ order[o].rider # c
    /\ Begin(h, [op |-> "reassign", locking |-> FALSE, order |-> o,
                 captain |-> c, previous |-> order[o].rider])

\* Inside the transaction, acquireLock first reads the row and checks the
\* wish to work and the lock; its updateMany repeats only the second check.
ReadLock(h) ==
    LET q == request[h] IN
    /\ q.op \in {"assign", "reassign"}
    /\ ~q.locking
    /\ "DELIVERY" \in captain[q.captain].desired
    /\ CanAcquire(captain[q.captain], q.order)
    /\ request' = [request EXCEPT ![h].locking = TRUE]
    /\ UNCHANGED <<captain, orderVars>>

\* releaseLock of the rider the snapshot names, acquireLock of the new one
\* (with the Rider row's BUSY), then the order; a new OTP if it has none.
CommitAssign(h, eligible) ==
    LET q == request[h]
        o == q.order
        c == q.captain IN
    /\ q.op \in {"assign", "reassign"}
    /\ q.locking
    /\ CanAcquire(captain[c], o)
    /\ captain' = [d \in Captains |->
         CASE d = c          -> AcquireLock(captain[d], o, "OFFERED")
           [] d = q.previous -> ReleaseLock(captain[d], o, eligible)
           [] OTHER          -> captain[d]]
    /\ order' = [order EXCEPT ![o] = Offered(@, c)]
    /\ End(h)
    /\ UNCHANGED <<earnings, settlements, completions>>

-----------------------------------------------------------------------------
(***************************************************************************)
(* Captains accept, reject, progress and complete.                         *)
(***************************************************************************)

\* requireAssignedOrder, after the guards of the controller
Assigned(c, o) == SignedIn(c) /\ order[o].rider = c

\* acceptJob and updateJobStatus: riderTransition
BeginMove(h, o, c, to) ==
    /\ Assigned(c, o)
    /\ <<order[o].status, to>> \in DELIVERY_TRANSITIONS
    /\ Begin(h, [op |-> "move", order |-> o, captain |-> c, to |-> to])

CommitMove(h) ==
    LET q == request[h] IN
    /\ q.op = "move"
    /\ captain' = [captain EXCEPT
         ![q.captain] = TransitionLock(@, q.order, StageOf(q.to))]
    /\ order' = [order EXCEPT ![q.order].status = q.to]
    /\ End(h)
    /\ UNCHANGED <<earnings, settlements, completions>>

BeginReject(h, o, c) ==
    /\ Assigned(c, o)
    /\ <<order[o].status, "READY_FOR_PICKUP">> \in DELIVERY_TRANSITIONS
    /\ Begin(h, [op |-> "reject", order |-> o, captain |-> c])

CommitReject(h, eligible) ==
    LET q == request[h] IN
    /\ q.op = "reject"
    /\ order' = [order EXCEPT ![q.order] = Returned(@)]
    /\ captain' = [captain EXCEPT
         ![q.captain] = ReleaseLock(@, q.order, eligible)]
    /\ End(h)
    /\ UNCHANGED <<earnings, settlements, completions>>

\* The OTP the customer tells the captain is compared with the snapshot's.
BeginComplete(h, o, c) ==
    /\ Assigned(c, o)
    /\ <<order[o].status, "COMPLETED">> \in DELIVERY_TRANSITIONS
    /\ order[o].otp
    /\ Begin(h, [op |-> "complete", order |-> o, captain |-> c])

\* Both upserts leave an existing row alone; the history row (and the count
\* of the captain's deliveries, a statistic left out) is written every time.
CommitComplete(h, eligible) ==
    LET q == request[h]
        o == q.order
        c == q.captain IN
    /\ q.op = "complete"
    /\ completions[o] < MaxCompletions
    /\ earnings' = earnings \cup {<<c, o>>}
    /\ settlements' = settlements \cup (IF HasVendor(o) THEN {o} ELSE {})
    /\ completions' = [completions EXCEPT ![o] = @ + 1]
    /\ order' = [order EXCEPT ![o] = Completed(@)]
    /\ captain' = [captain EXCEPT ![c] =
         ReleaseLock([@ EXCEPT !.availability = "ONLINE"], o, eligible)]
    /\ End(h)

-----------------------------------------------------------------------------
OrderInit ==
    /\ order = [o \in Orders |-> NewOrder(Kind[o])]
    /\ earnings = {}
    /\ settlements = {}
    /\ completions = [o \in Orders |-> 0]

DeliveryInit == CaptainInit /\ OrderInit

BeginDelivery(h) ==
    \E o \in Orders :
      \/ BeginPay(h, o)
      \/ \E to \in VendorMoves : BeginVendor(h, o, to)
      \/ BeginVendorReject(h, o)
      \/ BeginRefund(h, o)
      \/ BeginApprove(h, o)
      \/ \E c \in Captains :
           \/ BeginAssign(h, o, c)
           \/ BeginReassign(h, o, c)
           \/ \E to \in CaptainMoves : BeginMove(h, o, c, to)
           \/ BeginReject(h, o, c)
           \/ BeginComplete(h, o, c)

CommitDelivery(h) ==
    \/ CommitPay(h)
    \/ CommitVendor(h)
    \/ CommitVendorReject(h)
    \/ CommitRefund(h)
    \/ CommitApprove(h)
    \/ ReadLock(h)
    \/ CommitMove(h)
    \/ \E eligible \in BOOLEAN :
         \/ CommitAssign(h, eligible)
         \/ CommitReject(h, eligible)
         \/ CommitComplete(h, eligible)

DeliveryStep == \E h \in Handlers : BeginDelivery(h) \/ CommitDelivery(h)

DeliveryNext ==
    \/ DeliveryStep
    \/ CaptainNext /\ UNCHANGED orderVars

DeliverySpec == DeliveryInit /\ [][DeliveryNext]_deliveryVars

-----------------------------------------------------------------------------
\* Every column holds a value of its type, and every handler in flight holds
\* a snapshot of the shape its endpoint keeps.
TypeOK ==
    /\ captain \in [Captains -> CaptainRow]
    /\ request \in [Handlers -> Requests]
    /\ order \in [Orders -> OrderRow]
    /\ earnings \subseteq Captains \X Orders
    /\ settlements \subseteq Orders
    /\ completions \in [Orders -> 0..MaxCompletions]

\* An order on offer (RIDER_ASSIGNED) names a captain, and that captain's
\* lock is held for it: whatever assign, reassign, accept, reject, complete,
\* vendor, payment and refund requests overlap, dispatch never shows an offer
\* to a captain who is free to take other work.
OfferHoldsLock ==
    \A o \in Orders :
      order[o].status = "RIDER_ASSIGNED" =>
        /\ order[o].rider \in Captains
        /\ captain[order[o].rider].work = o

-----------------------------------------------------------------------------
(***************************************************************************)
(* What holds only while requests do not overlap (one handler).            *)
(***************************************************************************)

\* A captain named by an order under way is locked for that order, and a
\* captain locked for an order is the one the order names: accepting, moving,
\* reassigning, rejecting and completing change both sides together.
LockIsAssignment ==
    /\ \A o \in Orders :
         (order[o].status \in Delivering /\ order[o].rider \in Captains) =>
           captain[order[o].rider].work = o
    /\ \A c \in Captains :
         captain[c].work \in Orders => order[captain[c].work].rider = c

\* One completion per order: one history entry, and the earning of one
\* captain, whatever reassignments and refunds came before and after.
CompletionPaidOnce ==
    \A o \in Orders :
      /\ completions[o] <= 1
      /\ \A c, d \in Captains :
           {<<c, o>>, <<d, o>>} \subseteq earnings => c = d
      /\ completions[o] = 1 <=> \E c \in Captains : <<c, o>> \in earnings

\* The order's copy of the payment status is the payment's own: payment,
\* rejection, refund and approval write both, so that neither the customer
\* nor an admin sees a refund the other side does not know of.
PaymentsAgree ==
    \A o \in Orders :
      order[o].payment # "NONE" => order[o].paymentStatus = order[o].payment

\* A completed or refunded order goes no further than its refund; dispatch,
\* vendor and late payments do not bring it back to life.
ClosedStaysClosed ==
    [][\A o \in Orders :
         order[o].status \in {"COMPLETED", "REFUNDED"} =>
           order'[o].status \in {"COMPLETED", "REFUND_REQUESTED", "REFUNDED"}
      ]_deliveryVars

-----------------------------------------------------------------------------
\* The locks of the captains, as the abstract specification sees them: every
\* behaviour of dispatch, however requests overlap, is one of CaptainLock.
Lock == INSTANCE CaptainLock
          WITH holds <- [c \in Captains |-> captain[c].work]

LockRefinement == Lock!Spec
=============================================================================
