------------------------------ MODULE RideFinance ------------------------------
(***************************************************************************)
(* The money of finished rides: what a captain owes the platform for them, *)
(* how it is remitted, and the refunds, adjustments and disputes that move *)
(* it (ride-finance.service.ts, ride-commission-policy.ts), with the       *)
(* captain's own payments through a provider                               *)
(* (ride-commission-payment.service.ts).                                   *)
(*                                                                         *)
(* The transactions that move money are SERIALIZABLE and are one step      *)
(* each.  Resolving a dispute is not: it reads, and writes later.          *)
(***************************************************************************)
EXTENDS Integers, FiniteSetsExt

CONSTANTS
    Trips,        \* finished rides of one captain
    Cash,         \* those of them paid in cash
    Fare,         \* [Trips -> Nat]: finalCustomerFareKobo
    Commission,   \* [Trips -> Nat]: karigoCommissionKobo
    Manual,       \* references of remittances recorded by an admin
    Payments,     \* transactionReferences of commission payments
    Refunds,      \* idempotency keys of refunds
    Adjustments,  \* idempotency keys of adjustments
    Deltas,       \* bound: the amounts an adjustment may have
    Amounts,      \* bound: the amounts a refund may have
    Handlers,     \* requests in flight that wait between two statements
    Nothing

References == Manual \cup Payments

ASSUME FinanceAssumption ==
    /\ Cash \subseteq Trips
    /\ Fare \in [Trips -> Nat] /\ Commission \in [Trips -> Nat]
    /\ \A t \in Trips : Commission[t] <= Fare[t]
    /\ Deltas \subseteq Int /\ Amounts \subseteq Nat
    /\ Manual \cap Payments = {}
    /\ Nothing \notin Trips \cup Payments

VARIABLES
    settlement, \* [Trips -> Settlement]: the TaxiRideSettlement row
    finalized,  \* the settled trips, as the set of pairs <<earlier, later>>
    refund,     \* [Refunds -> Refund]
    adjusted,   \* the adjustments made: <<key, trip, delta>>
    allocated,  \* remittance allocations: <<reference, trip, amount>>
    intent,     \* [Payments -> Intent]: the TaxiRideCommissionPayment row
    paid,       \* Payments the captain has made at the provider
    task,       \* [Handlers -> Task]
    refused,    \* history: payments found to exceed what is owed
    stale       \* history: a dispute was resolved on what had changed since

financeVars == <<settlement, finalized, refund, adjusted, allocated, intent,
                 paid, task, refused, stale>>

Statuses == {"NONE", "PENDING", "PARTIALLY_RECONCILED", "RECONCILED",
             "DISPUTED", "REFUND_PENDING", "CANCELLED"}

Settlement ==
    [status : Statuses, normal : BOOLEAN,  \* outcome NORMAL_COMPLETION
     adjustment : Int,                     \* platformAdjustmentKobo
     remitted : Nat, refunded : Nat]

NoSettlement == [status |-> "NONE", normal |-> FALSE, adjustment |-> 0,
                 remitted |-> 0, refunded |-> 0]

Refund ==
    [status : {"NONE", "CASH_REFUND_DUE", "CASH_REFUND_SETTLED"},
     trip : Trips \cup {Nothing}, amount : Nat,
     review : BOOLEAN,                     \* responsibility REVIEW_REQUIRED
     platform : Nat]                       \* platformResponsibilityKobo

NoRefund == [status |-> "NONE", trip |-> Nothing, amount |-> 0,
             review |-> FALSE, platform |-> 0]

Intent ==
    [status : {"NONE", "PENDING", "INITIALIZED", "SUCCESSFUL", "FAILED",
               "VERIFICATION_FAILED", "REVIEW_REQUIRED"},
     amount : Nat]

\* RESOLVE carries the status to be written and the rows it was read from.
NoTask == [op |-> "IDLE"]
IsTask(v) ==
    \/ v = NoTask
    \/ v.op = "RESOLVE" /\ v.trip \in Trips /\ v.status \in Statuses
    \/ v.op = "MARK_FAILED" /\ v.payment \in Payments

FinanceTypeOK ==
    /\ settlement \in [Trips -> Settlement]
    /\ finalized \subseteq Trips \X Trips
    /\ refund \in [Refunds -> Refund]
    /\ \A r \in Refunds : refund[r].platform <= refund[r].amount
    /\ adjusted \subseteq Adjustments \X Trips \X Deltas
    /\ \A a \in allocated : a \in References \X Trips \X Nat
    /\ intent \in [Payments -> Intent]
    /\ paid \subseteq Payments
    /\ \A h \in Handlers : IsTask(task[h])
    /\ refused \subseteq Payments
    /\ stale \in BOOLEAN

FinanceInit ==
    /\ settlement = [t \in Trips |-> NoSettlement]
    /\ finalized = {}
    /\ refund = [r \in Refunds |-> NoRefund]
    /\ adjusted = {} /\ allocated = {}
    /\ intent = [i \in Payments |-> [status |-> "NONE", amount |-> 0]]
    /\ paid = {}
    /\ task = [h \in Handlers |-> NoTask]
    /\ refused = {}
    /\ stale = FALSE

-----------------------------------------------------------------------------
(***************************************************************************)
(* Sums, and what is owed (ride-commission-policy.ts).                     *)
(***************************************************************************)

AmountIn(a) == a[3]
AllocatedTo(t) == MapThenSumSet(AmountIn, {a \in allocated : a[2] = t})
AllocatedFrom(ref) == MapThenSumSet(AmountIn, {a \in allocated : a[1] = ref})

RefundsOf(t) == {r \in Refunds : refund[r].trip = t}

PlatformPart(r) == refund[r].platform
AmountOfRefund(r) == refund[r].amount
PlatformRefunds(t) == MapThenSumSet(PlatformPart, RefundsOf(t))

AtLeastZero(n) == IF n > 0 THEN n ELSE 0

\* platformReceivableKobo: a cash ride leaves the commission with the captain
Receivable(t) ==
    IF t \in Cash /\ settlement[t].normal THEN Commission[t] ELSE 0

\* captainCommissionObligationKobo
Obligation(t) ==
    AtLeastZero(Receivable(t) + settlement[t].adjustment + PlatformRefunds(t))

\* captainCommissionOutstandingKobo
Outstanding(t) == AtLeastZero(Obligation(t) - settlement[t].remitted)

-----------------------------------------------------------------------------
(***************************************************************************)
(* Faults: definitions of this module with a bug (README, "Faults").       *)
(***************************************************************************)

\* a settled refund reconciles its settlement whatever else is due
OthersDueNever(r) == FALSE

\* a payment is posted once more for every verification
PostableAgain(i) == intent[i].status # "NONE"

\* a partly paid settlement counts as paid
PaidStatusEarly(rest) == "RECONCILED"

\* the two parts of a shared refund are not compared with its amount
RefundAllocationUnchecked(amount, review) == 0..(amount + 1)

-----------------------------------------------------------------------------
(***************************************************************************)
(* What a remittance reaches, and in which order.                          *)
(***************************************************************************)

\* The settlements a remittance pays, oldest first.
Collectible ==
    {t \in Cash : /\ settlement[t].normal
                  /\ settlement[t].status \in
                       {"PENDING", "PARTIALLY_RECONCILED"}}

TotalOutstanding == MapThenSumSet(Outstanding, Collectible)

Older(t) == {s \in Collectible : <<s, t>> \in finalized}

\* What the older settlements leave of an amount.
Left(amount, t) ==
    AtLeastZero(amount - MapThenSumSet(Outstanding, Older(t)))

\* the first settlement reached takes the whole amount
ShareUncapped(amount, t) == Left(amount, t)

\* The part of an amount that reaches settlement t.
Share(amount, t) ==
    IF Left(amount, t) < Outstanding(t) THEN Left(amount, t)
    ELSE Outstanding(t)

\* reconciliationState
ReconciliationState(t) ==
    CASE ~settlement[t].normal       -> "CANCELLED"
      [] settlement[t].normal /\ Outstanding(t) = 0 -> "RECONCILED"
      [] OTHER -> IF settlement[t].remitted > 0
                  THEN "PARTIALLY_RECONCILED" ELSE "PENDING"

-----------------------------------------------------------------------------
(***************************************************************************)
(* Settlements are created with the end of the ride (taxi.service.ts).     *)
(***************************************************************************)

Settle(t, row) ==
    /\ settlement[t].status = "NONE"
    /\ settlement' = [settlement EXCEPT ![t] = row]
    /\ finalized' = finalized
         \cup {<<s, t>> : s \in {s \in Trips : settlement[s].status # "NONE"}}
    /\ UNCHANGED <<refund, adjusted, allocated, intent, paid, task, refused,
                   stale>>

CreateCompletedSettlement(t) ==
    Settle(t, [NoSettlement EXCEPT !.status = "PENDING", !.normal = TRUE])

CreateClosedRideOutcome(t) ==
    \E status \in {"CANCELLED", "DISPUTED"} :
       Settle(t, [NoSettlement EXCEPT !.status = status])

-----------------------------------------------------------------------------
(***************************************************************************)
(* Remittances: an admin's, and a provider-verified payment's.             *)
(***************************************************************************)

PaidStatus(rest) == IF rest = 0 THEN "RECONCILED" ELSE "PARTIALLY_RECONCILED"

\* The loop over the collectible settlements, oldest first.
Apply(ref, amount) ==
    LET part == [t \in Collectible |-> Share(amount, t)]
        reached == {t \in Collectible : part[t] > 0}
    IN  /\ allocated' = allocated \cup {<<ref, t, part[t]>> : t \in reached}
        /\ settlement' = [t \in Trips |->
             IF t \notin reached THEN settlement[t]
             ELSE [settlement[t] EXCEPT
                     !.remitted = @ + part[t],
                     !.status = PaidStatus(Outstanding(t) - part[t])]]

Recorded(ref) == \E a \in allocated : a[1] = ref

WithinBalance(amount) == amount <= TotalOutstanding

RecordRemittance(ref, amount) ==
    /\ ~Recorded(ref)
    /\ amount > 0
    /\ WithinBalance(amount)
    /\ Apply(ref, amount)
    /\ UNCHANGED <<finalized, refund, adjusted, intent, paid, task, refused,
                   stale>>

SetIntent(i, status) ==
    /\ intent' = [intent EXCEPT ![i].status = status]
    /\ UNCHANGED <<settlement, finalized, refund, adjusted, allocated, stale>>

\* initialize: the amount is all that is owed at this moment.
Initialize(i) ==
    /\ intent[i].status = "NONE"
    /\ TotalOutstanding > 0
    /\ intent' = [intent EXCEPT ![i] =
                    [status |-> "PENDING", amount |-> TotalOutstanding]]
    /\ UNCHANGED <<settlement, finalized, refund, adjusted, allocated, paid,
                   task, refused, stale>>

\* The provider answers, or fails to; a process lost here leaves it PENDING.
Initialized(i) ==
    /\ intent[i].status = "PENDING"
    /\ \E status \in {"INITIALIZED", "FAILED"} : SetIntent(i, status)
    /\ UNCHANGED <<paid, task, refused>>

\* The captain pays at the provider's checkout.
Pay(i) ==
    /\ intent[i].status \in {"INITIALIZED", "VERIFICATION_FAILED"}
    /\ paid' = paid \cup {i}
    /\ UNCHANGED <<settlement, finalized, refund, adjusted, allocated, intent,
                   task, refused, stale>>

\* verifyOwned, when the provider says the payment has not been made: the
\* failure is written later, by id.
VerifyUnpaid(h, i) ==
    /\ task[h] = NoTask
    /\ intent[i].status \notin {"NONE", "SUCCESSFUL"}
    /\ i \notin paid
    /\ task' = [task EXCEPT ![h] = [op |-> "MARK_FAILED", payment |-> i]]
    /\ UNCHANGED <<settlement, finalized, refund, adjusted, allocated, intent,
                   paid, refused, stale>>

MarkVerificationFailure(h) ==
    /\ task[h].op = "MARK_FAILED"
    /\ SetIntent(task[h].payment, "VERIFICATION_FAILED")
    /\ task' = [task EXCEPT ![h] = NoTask]
    /\ UNCHANGED <<paid, refused>>

\* processVerifiedWithClient, from verifyOwned or from the webhook.  The
\* remittance's reference is unique, and a payment that exceeds what is owed
\* throws: its REVIEW_REQUIRED is rolled back with the rest.
Postable(i) == intent[i].status \notin {"NONE", "SUCCESSFUL"} /\ ~Recorded(i)

ProcessVerified(i) ==
    /\ i \in paid
    /\ Postable(i)
    /\ \/ /\ WithinBalance(intent[i].amount)
          /\ Apply(i, intent[i].amount)
          /\ intent' = [intent EXCEPT ![i].status = "SUCCESSFUL"]
          /\ UNCHANGED refused
       \/ /\ ~WithinBalance(intent[i].amount)
          /\ refused' = refused \cup {i}
          /\ UNCHANGED <<settlement, allocated, intent>>
    /\ UNCHANGED <<finalized, refund, adjusted, paid, task, stale>>

-----------------------------------------------------------------------------
(***************************************************************************)
(* Refunds, adjustments, disputes.                                         *)
(***************************************************************************)

Due(r) == refund[r].status = "CASH_REFUND_DUE"

OthersDue(r) ==
    \E q \in RefundsOf(refund[r].trip) \ {r} : Due(q)

Refundable(t) == Fare[t] - settlement[t].refunded

\* The parts of a refund the platform may bear (refundAllocation).
RefundAllocation(amount, review) == IF review THEN {0} ELSE 0..amount

\* approveRefund: without a responsible party the settlement is in dispute.
ApproveRefund(r, t, amount, review, platform) ==
    /\ settlement[t].normal
    /\ refund[r].status = "NONE"
    /\ amount > 0 /\ amount <= Refundable(t)
    /\ platform \in RefundAllocation(amount, review)
    /\ refund' = [refund EXCEPT ![r] =
         [status |-> "CASH_REFUND_DUE", trip |-> t, amount |-> amount,
          review |-> review, platform |-> platform]]
    /\ settlement' = [settlement EXCEPT ![t] =
         [settlement[t] EXCEPT
            !.refunded = @ + amount,
            !.adjustment = @ - platform,
            !.status = IF review THEN "DISPUTED" ELSE "REFUND_PENDING"]]
    /\ UNCHANGED <<finalized, adjusted, allocated, intent, paid, task, refused,
                   stale>>

SettleCashRefund(r) ==
    LET t == refund[r].trip IN
    /\ Due(r)
    /\ refund' = [refund EXCEPT ![r].status = "CASH_REFUND_SETTLED"]
    /\ settlement' =
         IF refund[r].review THEN settlement
         ELSE [settlement EXCEPT ![t].status =
                 IF OthersDue(r) THEN "REFUND_PENDING"
                 ELSE ReconciliationState(t)]
    /\ UNCHANGED <<finalized, adjusted, allocated, intent, paid, task, refused,
                   stale>>

AllocateRefundResponsibility(r, platform) ==
    LET t == refund[r].trip IN
    /\ refund[r].status # "NONE" /\ refund[r].review
    /\ platform \in RefundAllocation(refund[r].amount, FALSE)
    /\ refund' = [refund EXCEPT ![r] =
         [refund[r] EXCEPT !.review = FALSE, !.platform = platform]]
    /\ settlement' = [settlement EXCEPT ![t] =
         [settlement[t] EXCEPT
            !.adjustment = @ - platform,
            !.status =
              IF \E q \in RefundsOf(t) \ {r} : refund[q].review THEN "DISPUTED"
              ELSE IF \E q \in RefundsOf(t) : Due(q) THEN "REFUND_PENDING"
              ELSE ReconciliationState(t)]]
    /\ UNCHANGED <<finalized, adjusted, allocated, intent, paid, task, refused,
                   stale>>

\* createAdjustment; delta 0 is an adjustment of the captain's own balance.
CreateAdjustment(k, t, delta, review) ==
    /\ settlement[t].status # "NONE"
    /\ \A a \in adjusted : a[1] # k
    /\ adjusted' = adjusted \cup {<<k, t, delta>>}
    /\ settlement' = [settlement EXCEPT ![t] =
         [settlement[t] EXCEPT
            !.adjustment = @ + delta,
            !.status = IF review THEN "DISPUTED" ELSE @]]
    /\ UNCHANGED <<finalized, refund, allocated, intent, paid, task, refused,
                   stale>>

OpenDispute(t) ==
    /\ settlement[t].status \notin {"NONE", "DISPUTED"}
    /\ settlement' = [settlement EXCEPT ![t].status = "DISPUTED"]
    /\ UNCHANGED <<finalized, refund, adjusted, allocated, intent, paid, task,
                   refused, stale>>

RowsOf(t) == <<settlement[t], [r \in RefundsOf(t) |-> refund[r]]>>

BeginResolveDispute(h, t) ==
    /\ task[h] = NoTask
    /\ settlement[t].status = "DISPUTED"
    /\ ~\E r \in RefundsOf(t) : refund[r].review
    /\ task' = [task EXCEPT ![h] =
         [op |-> "RESOLVE", trip |-> t, read |-> RowsOf(t),
          status |-> IF \E r \in RefundsOf(t) : Due(r)
                     THEN "REFUND_PENDING" ELSE ReconciliationState(t)]]
    /\ UNCHANGED <<settlement, finalized, refund, adjusted, allocated, intent,
                   paid, refused, stale>>

CommitResolveDispute(h) ==
    /\ task[h].op = "RESOLVE"
    /\ settlement' =
         [settlement EXCEPT ![task[h].trip].status = task[h].status]
    /\ stale' = (stale \/ RowsOf(task[h].trip) # task[h].read)
    /\ task' = [task EXCEPT ![h] = NoTask]
    /\ UNCHANGED <<finalized, refund, adjusted, allocated, intent, paid,
                   refused>>

\* A process dies between two statements.
Abandon(h) ==
    /\ task[h] # NoTask
    /\ task' = [task EXCEPT ![h] = NoTask]
    /\ UNCHANGED <<settlement, finalized, refund, adjusted, allocated, intent,
                   paid, refused, stale>>

FinanceNext ==
    \/ \E t \in Trips :
         \/ CreateCompletedSettlement(t) \/ CreateClosedRideOutcome(t)
         \/ \E r \in Refunds, review \in BOOLEAN, amount \in Amounts :
              \E platform \in 0..(amount + 1) :
                 ApproveRefund(r, t, amount, review, platform)
         \/ \E k \in Adjustments, delta \in Deltas, review \in BOOLEAN :
               CreateAdjustment(k, t, delta, review)
         \/ OpenDispute(t)
         \/ \E h \in Handlers : BeginResolveDispute(h, t)
    \/ \E ref \in Manual, amount \in 0..TotalOutstanding :
         RecordRemittance(ref, amount)
    \/ \E i \in Payments : \/ Initialize(i) \/ Initialized(i) \/ Pay(i)
                           \/ ProcessVerified(i)
                           \/ \E h \in Handlers : VerifyUnpaid(h, i)
    \/ \E r \in Refunds :
         \/ SettleCashRefund(r)
         \/ \E platform \in 0..(refund[r].amount + 1) :
              AllocateRefundResponsibility(r, platform)
    \/ \E h \in Handlers : \/ MarkVerificationFailure(h)
                           \/ CommitResolveDispute(h) \/ Abandon(h)

FinanceSpec == FinanceInit /\ [][FinanceNext]_financeVars

-----------------------------------------------------------------------------
(***************************************************************************)
(* Properties.                                                             *)
(***************************************************************************)

\* What a settlement says was remitted and refunded is what the remittances
\* allocated to it and the refunds of its ride add up to, the refunds stay
\* within the fare, and every payment that was posted was made at the provider
\* and reached the settlements in full and once, although a late failure mark
\* may since have overwritten its status (ride-finance.service.ts,
\* ride-commission-payment.service.ts).
AccountsBalance ==
    /\ \A t \in Trips :
         /\ settlement[t].remitted = AllocatedTo(t)
         /\ settlement[t].refunded = MapThenSumSet(AmountOfRefund, RefundsOf(t))
         /\ settlement[t].refunded <= Fare[t]
    /\ \A i \in Payments :
         /\ Recorded(i) => i \in paid /\ AllocatedFrom(i) = intent[i].amount
         /\ intent[i].status = "SUCCESSFUL" => Recorded(i)

\* A remittance never takes a settlement beyond what it owes, and touches no
\* settlement that is disputed or has a refund pending, although the amount
\* was fixed when the payment was begun and the balance may have changed
\* since (ride-finance.service.ts, ride-commission-payment.service.ts).
NeverOverRemitted ==
    [][\A t \in Trips : settlement'[t].remitted > settlement[t].remitted =>
         /\ settlement'[t].remitted <= Obligation(t)
         /\ settlement[t].status \in {"PENDING", "PARTIALLY_RECONCILED"}
      ]_financeVars

\* A reconciled settlement owes nothing, unless an admin has raised what is
\* owed since; refunds, whoever bears them, do not change the commission owed
\* (ride-commission-policy.ts).
ReconciledMeansPaid ==
    \A t \in Trips :
       settlement[t].status = "RECONCILED"
         /\ ~(\E a \in adjusted : a[2] = t /\ a[3] > 0)
       => Outstanding(t) = 0

Unallocated(r) == refund[r].status # "NONE" /\ refund[r].review

\* A refund whose bearer is known has been settled, which takes the settlement
\* up again whatever else is under review.
TakenUp(t) == \E q \in RefundsOf(t) : /\ refund[q].status = "CASH_REFUND_SETTLED"
                                      /\ ~refund[q].review

HoldsBack(r) == \/ Due(r)
                \/ Unallocated(r) /\ ~TakenUp(refund[r].trip)

\* A settlement is held back from collection while a cash refund is due, and
\* while nobody has said who bears one, unless another refund of the ride, whose
\* bearer is known, was settled: through every order of refunds, settlements,
\* allocations, disputes and adjustments, as long as no dispute was resolved on
\* rows read before they changed (ride-finance.service.ts).
PendingRefundHeld ==
    ~stale => \A r \in Refunds :
       HoldsBack(r) => settlement[refund[r].trip].status \in
                         {"DISPUTED", "REFUND_PENDING"}

\* What the test "refuses to post a verified amount above the remaining
\* authoritative obligation" expects: such a payment is under review.
RefusedUnderReview ==
    \A i \in refused : intent[i].status = "REVIEW_REQUIRED"
=============================================================================
