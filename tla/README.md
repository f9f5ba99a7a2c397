# KariGO in TLA+

Models, model-checking runs and proofs about KariGO, a marketplace for
deliveries, rides and services: how captains (couriers and drivers) are given
deliveries and rides, what happens to the orders, rides and money on the way, a
customer's wallet, a captain's documents and account, the service desk, and the
login that the mobile apps keep.

## The system

Expo and Next.js clients (`src/apps`) work over one NestJS backend
(`src/services/backend-api`) with Prisma and PostgreSQL. All shared state is in
the database and all of it is written by HTTP requests; there is no queue and,
apart from the receipt mail outbox, no background job.

The pattern of nearly every handler is the same, and it is what makes the
system hard: it **reads rows and checks them outside any transaction**, then
runs one transaction at PostgreSQL's default level (READ COMMITTED) that
**writes rows by primary key without checking again**. Two requests that
overlap therefore act on stale snapshots. The exceptions are the captain's
work lock (a conditional `updateMany`), unique keys, and a few serializable
transactions (booking a ride, ride finance, commission and onboarding payments).

| Part | State it keeps | Operations | Hard behaviour | What makes it correct |
|---|---|---|---|---|
| Captain work state (`common/services/captain-work-state.service.ts`) | `CaptainWorkState` (desired modes, lock, stage), and copies in `Rider` and `TaxiDriverProfile` | switch availability, acquire / transition / release the lock | the lock is read, then updated on a condition; the switch is checked outside its transaction | one piece of work per captain; the three rows agree; both modes paused while locked |
| Delivery dispatch (`modules/dispatch`) | `Order` status, rider, OTP; earnings, settlements, history | assign, reassign, accept, reject, move, complete | two admins, an admin and a captain, a retried completion | an offer stands on a held lock; paid once; closed orders stay closed |
| Vendor orders (`modules/vendor-dashboard-orders`) | `Order` status | accept, prepare, ready, reject | a rejection races a refund | rejected stays rejected until refunded |
| Payments (`modules/payments`) | `Payment`, `Order.paymentStatus` | verify, webhook, request and approve refund | late and duplicate gateway answers | both copies of the status agree |
| Rides (`modules/taxi/taxi.service.ts`) | `TaxiTrip`, receipt | book, assign, accept, decline, drive, complete, three cancellations, expiry sweep | the sweep's list is stale when it acts; a cancellation races everything | one active ride per customer; lock exactly while under way; every wait ends |
| Ride finance (`modules/taxi/ride-finance.service.ts`, `modules/payments/ride-commission-payment.service.ts`) | `TaxiRideSettlement`, remittances, refunds, adjustments, commission payments | settle, remit, pay, refund, allocate, adjust, dispute | the amount of a payment is fixed before what is owed changes; six operations write one status | never more remitted than owed; a refund due or under review holds its settlement |
| Customer wallet (`modules/wallet`, orders, payments, utilities) | balance, ledger | top up, order, buy, return, adjust | read, compute, write back; a provider between two transactions | balance equals ledger; nothing credited twice; what failed is returned |
| Captain account (`modules/riders`, `modules/account-deletion`, lifecycle in `modules/admin-operations`) | documents and their files, applications, `Rider`, deletion requests | upload, remove, apply, review, activate, suspend, delete the account | a file and its row cannot change together; approval, activation and deletion overlap | a deleted row has no file; evidence is kept; a deletion leaves nothing open |
| Mobile session (`packages/config`, `client.ts`, `auth-context.tsx`, `modules/auth`) | saved tokens, generation, the refresh under way; `RefreshToken` rows | request, refresh, sign in, sign out, rotate, revoke | several 401s at once, answers after a logout, a lost rotation | one refresh at a time; the login survives; a logout is final |
| Service desk (`modules/service-provider-requests`, `-applications`) | requests, providers, reviews, applications | request, assign, change status, review, create and update a provider, convert | aggregates are read and written back; statuses move freely | counts and averages agree with the rows; only bookable providers are approved |
| Referrals, promos, OTP and phone change, onboarding payments, ride calls, receipt mail, catalogues | a status per row | see `PROJECT.json` | retries and duplicates | once per referral, code, request |

The parts talk through the database alone: the dispatchers call the lock's
methods inside their own transactions, payments and vendors write the order the
dispatcher writes, orders and utilities write the wallet, account deletion
clears the captain's lock, and admins write the captain's rows.

## Modules

| Module | What it is |
|---|---|
| `CaptainLock` | what the work lock promises, abstractly: each captain holds at most one piece of work |
| `CaptainWork` | the captain's rows, the lock methods as operators on a row, availability switches and admin lifecycle as actions |
| `DeliveryDispatch` | extends `CaptainWork` with orders: payment, vendor, refund, dispatch |
| `RideDispatch` | extends `CaptainWork` with rides, settlements and the sweep |
| `CaptainDispatch` | both dispatchers over the same captains |
| `RideFinance` | the money of finished rides and the captain's own commission payments |
| `CustomerWallet` | one wallet and its five writers, with the payment and utility providers |
| `CaptainAccount` | one user as a captain: documents, storage, applications, activation, deletion |
| `MobileSession` | an app's saved login, its API client and the service that rotates the tokens |
| `ServiceDesk` | service requests, providers, reviews and provider applications |
| `MCDelivery`, `MCRide`, `MCCaptain`, `MCFinance`, `MCWallet`, `MCAccount`, `MCSession`, `MCService` | instances for TLC |
| `SumTheorems` | facts about sums over finite sets, for the models of money and of reviews |
| `DeliveryDispatchProofs`, `CaptainDispatchProofs`, `RideFinanceProofs`, `CustomerWalletProofs`, `CaptainAccountProofs`, `MobileSessionProofs`, `ServiceDeskProofs` | theorems about those modules |

**Dispatch.** `captain[c]` is the captain's rows in one record: `work` is
`activeDeliveryAssignmentId` or `activeRideTripId`, `stage` is `lockStage`,
`desired` the two wishes, `verification` and `availability` the `Rider` row
(the account's status moves with `verification`), `profile` and
`taxiAvailable` the `TaxiDriverProfile` row. `order[o]` is the order with its
one `Payment` row; `earnings`, `settlements` and `completions` are the
`RiderEarning`, `VendorSettlement` and COMPLETED history rows. `trip[t]` is the
ride with its settlement (`outcome`, `payee`) and receipt. `Begin...` is
everything before the transaction: it runs the checks and keeps the part of the
snapshot that the transaction uses. `Commit...` is the transaction.
`acquireLock` reads before its conditional update, so an assignment takes two
steps (`ReadLock`, `CommitAssign`); `cancelTrip` reads the ride a second time,
so a cancellation takes three.

**Ride finance.** `settlement[t]` is the `TaxiRideSettlement` row, `finalized`
the order in which rides were settled (remittances go to the oldest first),
`allocated` the remittance allocations, `intent[i]` a
`TaxiRideCommissionPayment`. What moves money is serializable in the code and is
one action (`RecordRemittance`, `ApproveRefund`, `CreateAdjustment`,
`ProcessVerified`); resolving a dispute and marking a failed payment are not, and
take two.

**Wallet.** `entry[s]` is the ledger entry of one source, `returned` the
REVERSAL entries, `payment` and `utility` the rows of a top-up and a purchase,
`provider` what the two providers know. A transaction is three actions, reading
the entry, reading the balance and committing; a purchase asks the provider between
two of them.

**Captain account.** `document[d]` is a `CaptainApplicationDocument` row, `stored` the files,
`application`, `rider`, `user` and `deletion[k]` the rows of those names, `job`
and `locked` the captain's delivery and lock, which `TakeJob`, `DeliverJob` and
`EndJob` move as dispatch does. Deleting a file takes three actions: a first
write to the row, the storage, and the record of its answer.

**Mobile session.** `saved`, `generation` and `flight` are the storage entry,
the store's counter and `refreshFlight`; `call[s]` is one asynchronous function
of the app, at one of its awaits; `live` and `issued` are the `RefreshToken`
rows. An action runs from one await to the next.

**Service desk.** `request`, `provider`, `review` and `application` are the
tables of those names. `adminUpdateStatus` takes three actions, for its count is
a statement of its own after the audit entry.

In every module of the backend a handler is an element of `Handlers`, and
`request[h]` or `task[h]` is what it has read. A handler may end at any of its steps
without the rest (`Abandon`, `AbandonRequest`): a failed check inside the
transaction, a deadlock broken by PostgreSQL, a lost connection, a dead process.
The number of handlers is the number of requests that overlap. With one, the
model is the sequential system, with failures; with two, every pair of requests
interleaves.

### Abstractions

* *Dispatch.* Coordinates, operating areas, freshness of GPS, launch switches and
  financial eligibility decide whether a request may begin. The first ones are
  dropped, so more requests may begin; the last is a Boolean `eligible` chosen
  freely where the lock is released. An order has at most one `Payment` row and a
  wallet order a paid one. The delivery OTP and the ride PIN are present or
  absent. Fares, fees, ratings, counters of deliveries, history other than
  COMPLETED, notifications and audit rows are left out. `VENDOR_CONFIRMING` is in
  the vendor's transition table but no code writes it; the same holds for
  `DRAFT`, `CANCELLED` and `FAILED` orders. `requestedAt` and `updatedAt` become
  `aged` (ten minutes have passed since the request) and the sweep's free choice
  of the offers past their 45 seconds. The two reads at the start of the sweep
  are one step; its list is then worked off one transaction at a time, requests
  before offers, as in the code.
* *Wallet.* One wallet; its row exists and its status never changes. Prisma's
  upsert with an empty update is a plain read. `ordersOn` is the switch that
  separates deployments with wallet orders from those with top-ups; the rest of
  the configuration is production's, where a status cannot be set by hand.
* *Ride finance.* One captain; a ride has a fare and a commission of small units;
  provider fees, notes and reports are left out.
* *Captain account.* One required document type. `REQUESTED` stands for
  `IN_REVIEW`, `UNDER_REVIEW` for `SUBMITTED` and `PROVISIONALLY_APPROVED`. What
  blocks a customer's deletion is an input; pending earnings and the partner
  scope are left out. `TakeJob` does not ask for availability, so it is possible
  more often. A review's read and write, with nothing awaited that could be
  noticed in between, are one action. The ride application of `taxi.service.ts`
  and the onboarding of applicants without an account are left out.
* *Mobile session.* The secure storage serves its calls in the order they are
  made, so a check and the write made with it are one step. Sign-in by password
  and by code have one shape. The service checks a token in one step, and
  issues the next and revokes the old in another. The migration of old keys, a corrupt
  envelope and the service's late handling of a logout are left out. The rider
  and partner apps hold copies of this code.
* *Service desk.* `SUBMITTED` stands for `UNDER_REVIEW` and `PROVIDER_MATCHING`,
  `PENDING_REVIEW` for `SUSPENDED` and `INACTIVE`, and an application's
  `SUBMITTED` for `UNDER_REVIEW` and `CHANGES_REQUESTED`: no code tells them
  apart. The preferred provider, which nothing reads but the screens, notes, the
  launch switch and the pilot's records are left out. A review's reads of request
  and provider are one step. Averages are in hundredths, rounded half up as
  `toFixed` does for the counts of the instance.

## Runs

| Run | Instance | What it shows |
|---|---|---|
| `DeliverySerial` | 2 captains, 1 order paid online and 1 parcel, 1 handler | lock and assignment are each other's, one completion and one earning, payment statuses agree, closed stays closed |
| `RideRaces` | 1 captain on duty, 1 ride, 2 handlers, fairness | types, an offer stands on a held lock, a ride is settled once, and every wait ends |
| `DispatchSerial` | 1 captain of both modes, 1 cash order, 2 rides of one customer, 1 handler | one job at a time, both modes paused, lock exactly while under way, settlement and receipt, one active ride, closed stays closed |
| `DispatchContention` | 1 captain, 1 order, 1 ride, both ready, 2 handlers, until acceptance | an offer stands on a held lock; every step is a step of `CaptainLock` |
| `RideFinance` | 2 cash rides, 1 admin remittance, 1 commission payment, 2 refunds, 1 adjustment, 1 handler for what waits between statements | sums agree, never over-remitted, reconciled means paid, a refund that is due, or under review with no other one settled, holds its settlement |
| `Wallet` | 1 top-up, 1 order, 1 purchase, 2 adjustments, 2 handlers | balance and ledger agree as long as wallet transactions do not overlap; a top-up is posted only if paid; cancelled and failed purchases are returned, overlapping or not |
| `Account` | 2 documents, 2 applications, 1 deletion, 1 handler, storage failures and crashes | deleted means gone, evidence is kept, activation rests on evidence, deletion completes clean |
| `Session` | 3 calls, 3 pairs of tokens, 2 generations | one refresh at a time, a login that survives, a final logout |
| `Service` | 3 requests, 2 providers, 1 application, ratings 1 and 2, 1 handler | approved means bookable, counts and averages agree with the reviews, completions are counted |
| `TwoJobsInHand` | violation, 2 handlers | an acceptance that commits after a cancellation leaves a captain with a ride and a delivery |
| `TopUpCreditedTwice` | violation, 2 handlers | a verification and a webhook that overlap credit one top-up twice |
| `RefusedPayment` | violation | the review mark of a refused commission payment is rolled back with the refusal |

**Bounds.** Two handlers are what a race between two requests needs, and every
race found while modelling needs two. Two captains are needed to hand work
over; two pieces of work to contend for one captain. `MaxCompletions` bounds
the COMPLETED rows of an order: 2 where a double completion must be visible, 1
in the composition. `MCRide`'s `OnDutySpec` starts with every captain online
for rides and leaves out switches and suspensions; those are in
`DispatchSerial`. `MCCaptain`'s `ContendedSpec` starts with work ready and the
constraint `Early` stops at acceptance: what the lock decides has been decided
by then. Both starting states are reachable in the full specification.
`FewMovements` lets three of the six movements of money happen in one behaviour,
any three and in any order: a disagreement needs a ride's status, one operation
that should keep it and one that does not. `FewRecords` of `MCAccount` keeps four
of two documents, two applications, a deletion and an interruption; that of
`MCService` gives one provider three requests (an average that drifts needs
three reviews) or two providers one. `OneTrouble` of `MCSession` keeps lost
answers and revocations apart from sign-ins that overlap other calls; three pairs
are a login, its successor and the login after a logout. `Amounts` differ so that
sums tell the entries apart.

**Deadlock** is not checked in the runs whose system may stop: when every order is
closed, every ride over and every captain suspended, when the account is deleted,
when tokens or rows are used up by their bounds.

**Sequential and concurrent properties.** The properties under "one handler" in
the modules are true of any sequence of requests and false when two overlap;
the modules say so and the runs check them where they are true. Give the cfg a
second handler to see the races: a lost lock after two assignments, a completed
order brought back by a late status move, two COMPLETED rows from a retried
completion, a captain shown ONLINE while locked, a ride that expires under its
captain, a cancelled ride with a receipt, two active rides of one customer, an
application on a document that was just removed, an activation on an approval
that was withdrawn, a review lost from an average. `TwoJobsInHand` is kept as a
run for all of them. What survives every overlap (`OfferHoldsLock`,
`RideOfferHoldsLock`, `SettledOnce`, the lock refinement, `TopUpsPaidFor`,
`CancelledIsReturned`, `FailedIsReturned`, `DeletedMeansGone`) is what the
conditional update, the empty upsert, the unique keys and the order of the writes
were made for. Where a property holds but for one kind of trouble, a history
variable says which (`overlapped`, `crashed`, `stale`, `interrupted`, `disturbed`,
`displaced`, `uncounted`), so that everything else is still checked.

**Seen and not kept as findings.** A refund requested during a delivery makes the
order REFUND_REQUESTED and then REFUNDED; neither status is in the delivery
table or reassignable, so no request releases the captain's lock. An order its
vendor rejected can be dispatched by a reassignment. A late answer of the gateway
undoes a refund. A deletion may complete while a delivery that was handed over
waits for its OTP. No document settles what should happen in the first and last; all
are listed under hazards. A refund that was settled while nobody had said who bears
it does not hold its settlement back once another refund of the ride, whose bearer
is known, is settled: `settleCashRefund` counts only refunds still due (line 395), so
the settlement goes back to PENDING, PARTIALLY_RECONCILED or RECONCILED (line 397),
and what it owes may be collected before the first refund is allocated.
`PendingRefundHeld` leaves such rides out (`TakenUp`).

**Liveness.** Deliveries have none to claim: dispatch is manual and nothing
times out. A ride is closed by the sweep, which clients cause: the customer's
app asks for its active ride every minute (`apps/customer-app/app/taxi/request.tsx`),
and every listing runs `expireStaleTrips` first. `Fairness` says that a waiting
ride grows old (weak fairness), that sweeps keep finding a ride that keeps
waiting and that one ride's transaction is not aborted for ever (strong
fairness, because both are interrupted by the other requests the bounded
handlers serve), and that a handler finishes or is abandoned. A ride whose
customer closes the app waits until some other client lists rides; the model
does not promise otherwise. The wallet has no liveness either: a purchase stays
PROCESSING until an operator asks for its status, and nothing makes one ask.

## Faults

Each property of a passing run was tried against a bug in the code it is about.
The operators in the "Faults" sections, and those marked as a fault, are those
bugs: `CanAcquireBlindly` drops the condition of the lock's update,
`AcquireLockOfOneMode` forgets to pause the other mode,
`ReassignableUntilDelivered` lets closed orders be reassigned, `SettledAgain`
overwrites a settlement, `ReversedInName` cancels a purchase and keeps the money,
`PostableAgain` posts a payment once per verification, `DeletionRecordEarly` marks
a document before the storage has answered, `PersistedAlways` saves a token pair
whatever generation asked for it, `BeginUpdateUnread` checks an update without the
row, and so on. No specification uses them; `PROJECT.json` lists which definition
each replaces and which property then fails.

## Proofs

The theorems hold for any sets and any number of handlers, except where "one
handler" is said: those assume `\A g, h \in Handlers : g = h`. Beyond that they assume
the named assumptions of the modules alone, which TLC evaluates in every run.

`DeliveryDispatchProofs`:

* `TypeCorrect`: `DeliverySpec => []TypeOK`. `TypeOK` is inductive as it
  stands; the lemmas at the head of the module say what each lock method and
  each transaction does to a well-typed row.
* `OfferIsReservation`: `DeliverySpec => []OfferHoldsLock`. The inductive
  invariant is `TypeOK /\ OfferHoldsLock`, and the argument needs nothing about
  snapshots: an order gets to RIDER_ASSIGNED only in the transaction that takes
  the lock for the captain it names, and every transaction that releases a lock
  for an order moves that order to another status. The one exception would be
  reassigning to the captain who has it, which `assertReassignable`'s caller
  refuses (`q.captain # q.previous`, part of the type of requests).
* `LockImplemented`: `DeliverySpec => LockRefinement`. Each step maps to
  `Take`, `Drop`, `HandOver` or a stutter of `CaptainLock`.
* For one handler `LockFollowsAssignment`, `CompletedOnce`, `PaymentCopiesAgree` and
  `ClosedOrderStaysClosed`: a captain holds the lock of exactly the order in
  their hands, a completed order has been paid out once, the order's copy of the
  payment status is the payment's, and a closed order stays closed. The
  invariant is `DeliverySerialInv`: `OrdersInv` (what an order's status says of its
  captain, its payment and its history, with the properties themselves) and
  `SnapshotsTrue`, that what a request has read of its order still holds of it. The
  second is what fails with two handlers, and the runs with two show how.

`CaptainDispatchProofs`, for both dispatchers over the same captains, where the
rides' steps are proved once and used for `RideSpec` and `DispatchSpec`:

* For any overlap `RideTypeCorrect`, `RideOfferIsReservation`, `RideSettledOnce`,
  `OffersAreReservations` and `DispatchLockImplemented`. Every step but an
  assignment is shown to be `Kept`: rows keep their types and settlements, no
  ride is put on offer, and a lock is released only for a ride that is off offer
  after the step. The sweep acts on a list as old as the handler, and the proof
  needs nothing about that list: it closes the ride it releases.
* For one handler `OneJobInHand` (an order and a ride are never in the same
  hands), `LockFollowsRide`, `SettlementTellsStatus`, `OneRidePerCustomer`,
  `LockedCaptainsPaused` and `ClosedRideIsFinal`. The invariant `DispatchSerialInv`
  joins `OrdersInv`, the same for rides (`RidesInv`), `AllPaused` (both modes of a
  captain at work are paused) and `AllStillSo` (what a request read is still so).

`RideFinanceProofs`, for any rides, amounts, payments and overlaps:

* `FinanceTypeCorrect`, `BooksBalance`, `ReconciledIsPaid`, `RefundsHeldBack` and
  `NothingOverRemitted`, from one inductive invariant, `FinanceInv`. It adds to the
  properties that the settled rides are ordered by age and everything summed is
  finite (`Rows`), that only a begun payment is posted, and of some money
  (`IntentRows`), and what a dispute's resolution has read and is
  about to write (`ResolveRow`): the status it will write is either still justified
  or `stale` is already true, and every refund it read had its bearer.
  `RefundsHeldBack` speaks of refunds due, and of refunds under review until another
  one is settled (`HoldsBack`), not of every refund still to be allocated. Three arguments carry the proof. `SharesAddUp`: an
  amount spread over the debts, oldest first, adds up to the lesser of the amount
  and all the debts. `Eased`: nobody owes more after a step unless an adjustment
  raised it, so a reconciled settlement stays paid. `Grown` and `GrowsBy`: a new
  remittance or refund changes the sums of its own ride by its amount and leaves
  the others alone.

`SumTheorems` supplies the sums. They are recursive functions on the subsets of
a finite set, whose existence is shown first; the rest (adding, removing or
changing one element, splitting, summing an image) follows by induction on the
cardinality, with the property given as a set of numbers, because the library's
induction rules take an operator, which the provers cannot instantiate.

`CustomerWalletProofs`, for any amounts and overlaps:

* `WalletTypeCorrect`: no balance is ever negative, because a debit writes back
  what it has read and found to cover the amount.
* `TopUpsArePaidFor`, `CancelledPurchaseReturned`, `FailedPurchaseReturned`: the
  inductive invariant `WalletInv` adds to the three properties what a request
  says of its source (`TasksFit`: a top-up about to be credited is paid, what was
  read of the balance covers the debit) and that a purchase has a transaction
  exactly if it has a debit (`PurchaseRows`).
* `BalanceFollowsLedger`: the balance is what the ledger adds up to, as long as no
  two wallet transactions have overlapped. `LedgerInv` adds that only one
  transaction then holds the wallet row and that what it read is still the
  balance (`OneTransaction`), that a top-up still being initialized cannot have been
  paid (`CheckoutsFit`), that only debits are reversed (`TopUpsStand`), and that
  the ledger is finite.

`CaptainAccountProofs`:

* `AccountTypeCorrect` and `DeletedDocumentGone` for any overlap: a handler that
  is about to record DELETED has seen the file leave the storage, a file is
  stored under a new key before its row exists, and nothing is stored again.
* `EvidenceIsKept`, `ActivationHasEvidence`, `DeletionCompletesClean` for one
  handler: the inductive invariant `SerialInv` adds that what a request has
  checked stays true until it commits (`TasksHold`), that a completing deletion
  has cleared every document it does not still have to look at, and which rows
  have a file (`DocumentsKept`).

`MobileSessionProofs`, for any number of calls, tokens and sign-ins, overlapping in
any way; each call's own row is typed and numbered by `Rows` (no call remembers a
generation or a token that was not yet given out), and a call that waits for
another's refresh waits for one that is refreshing or has just settled (`Joins`):

* `SessionTypeCorrect`: `SessionTypeOK` needs `Rows` and `Joins`, because a call
  takes over what another one's refresh has left.
* `OneRefreshAtATime`: `FlightInv` adds that a refresh of the current generation is
  the one in `flight`, unless it was displaced (`RefreshIsFlight`).
* `LoggedOutForGood`: `LogoutInv` adds that every answer is of another token pair
  (`AnswersDiffer`) and that a call left behind by a deletion or a reset has an
  older generation for as long as it could save anything (`LeftIsOld`); `Persisted`
  then refuses it.
* `StaysSignedIn`: `LoginInv` says what is so as long as nothing overlapped or was
  disturbed: a sign-in or sign-out is alone, no call is stale, and the saved token
  is good or one waiting call holds the answer that replaces it (`Signed`).

`ServiceDeskProofs`:

* `ServiceTypeCorrect` for any overlap; `BookableOnly`, `CompletionsAreCounted` and
  `AveragesFollowReviews` for one handler. The invariant `SerialInv` says that an
  update's check still holds of the row it will change and that a status change still
  knows the request; a completion is then counted, awaited by the handler that
  will count it, or in `uncounted`. `CountsHold` counts only what is not in
  `uncounted`, for a request that was missed once and completed again would
  otherwise break the induction. `ReviewsFit`: what a review has read of its
  provider is still so, and only providers that exist have reviews.
* `AveragesFollowReviews` is about any number of reviews, and that is why
  `ReviewsAgree` bounds the drift of an average by what n roundings can add up to,
  (n + 1)/4 hundredths, and not by one hundredth, as three reviews would suggest:
  each review starts from the rounded average of those before it, and with ratings
  1 to 5 the rows are a whole hundredth off after eight reviews and 1.33 after nine.
  `RoundedOnce` is the step, `ReviewAdded` the sum.

A row that changes in several fields is written with one `EXCEPT` per row in the
models (`[f EXCEPT ![t] = [f[t] EXCEPT !.x = .., !.y = ..]]`), the form the
provers reason about soundly and quickly.

Model-checked only: `WaitingEnds` (liveness under fairness is out of the prover's
reach). Every other property of a passing run is a theorem. The runs that expect a
violation have nothing to prove.

## What is left

* One-time codes and phone change, promo usage, referrals and the receipt outbox:
  small state machines with the read-then-write pattern of the rest; their
  hazards are listed.
* The ride application of `taxi.service.ts`, which repeats the review of
  `CaptainAccount` for another profile, and the partner scope of account deletion.

## Not modelled

* Screens (`src/apps`, apart from the API client and the auth context): they hold no
  shared state; the models take any sequence of their requests.
* Catalogues, vendor applications, products, discovery, ads, commercial agreements,
  launch records and the pilot's records: forms of one row, written by one admin
  at a time, with no rule that spans rows.
* Vendor settlements and payout accounts: a status set by hand; the row itself is made
  by `DeliveryDispatch`.
* Ride calls, messages, realtime, notifications and mail follow the other
  components and are read by none of them.
* Shared types, components, regression scripts: no behaviour.

`PROJECT.json` gives the reason for each.
