---------------------------- MODULE CustomerWallet -----------------------------
(***************************************************************************)
(* One customer's wallet and everything that writes it: top-ups through    *)
(* the payment provider, orders and utilities paid from the wallet, the    *)
(* return of a failed utility payment, and adjustments by admins           *)
(* (wallet.service.ts, payments.service.ts, orders.service.ts,             *)
(* utilities.service.ts).                                                  *)
(*                                                                         *)
(* Each of them is a READ COMMITTED transaction that reads rows without    *)
(* locking them and writes the wallet's balance back as a number: two of   *)
(* them may read the same balance.  What a unique key protects, it         *)
(* protects at the commit.  A provider is asked between transactions.      *)
(***************************************************************************)
EXTENDS Naturals, FiniteSetsExt

CONSTANTS
    TopUps,       \* WALLET_TOP_UP payments, by transactionReference
    WalletOrders, \* requests to create an order paid from the wallet
    Purchases,    \* utility payments, by idempotencyKey
    Credits,      \* adjustments by an admin, by idempotencyKey
    Debits,
    Amount,       \* [Sources -> Nat \ {0}]
    Handlers,     \* requests the service works on at one time
    Nothing

Sources == TopUps \cup WalletOrders \cup Purchases \cup Credits \cup Debits

ASSUME AmountAssumption == Amount \in [Sources -> Nat \ {0}]
ASSUME NothingAssumption == Nothing \notin Sources
ASSUME SourcesAssumption ==
    /\ TopUps \cap (WalletOrders \cup Purchases \cup Credits \cup Debits) = {}
    /\ Purchases \cap (WalletOrders \cup Credits \cup Debits) = {}
    /\ Credits \cap (WalletOrders \cup Debits) = {}

VARIABLES
    balance,    \* CustomerWallet.availableBalance (= ledgerBalance)
    entry,      \* [Sources -> status of the CustomerWalletLedgerEntry]
    returned,   \* Purchases with a REVERSAL entry
    payment,    \* [TopUps -> paymentStatus of the Payment row]
    logged,     \* TopUps with a PaymentWebhookLog row
    utility,    \* [Purchases -> status of the UtilityTransaction row]
    provider,   \* what the providers know: see ProviderRow
    ordersOn,   \* WALLET_PAYMENTS_ENABLED of the running deployment
    task,       \* [Handlers -> Task]: the request each handler is serving
    overlapped, \* history: two wallet transactions have overlapped
    crashed     \* history: a handler was lost in the middle of a request

rows == <<balance, entry, returned, payment, logged, utility>>
walletVars == <<rows, provider, ordersOn, task, overlapped, crashed>>

EntryStatuses == {"NONE", "PENDING", "POSTED", "REVERSED", "FAILED"}
PaymentStatuses == {"NONE", "PENDING", "SUCCESSFUL", "FAILED"}
UtilityStatuses == {"NONE", "PENDING", "PROCESSING", "SUCCESSFUL",
                    "FAILED", "CANCELLED"}
Terminal == {"SUCCESSFUL", "FAILED", "CANCELLED"}

\* The checkouts handed out, the ones the customer has paid, and the utility
\* requests the provider has received, has delivered and has refused.
ProviderRow ==
    [checkout : SUBSET TopUps, paid : SUBSET TopUps,
     asked : SUBSET Purchases, delivered : SUBSET Purchases,
     refused : SUBSET Purchases]

Ops == {"IDLE", "INITIALIZE", "VERIFY", "WEBHOOK", "ORDER", "PURCHASE",
        "STATUS", "RETURN", "CANCEL", "ADJUST"}

\* at: ENTRY - the ledger entry has been read, WALLET - the balance too;
\*     PROVIDER - an answer is awaited; NEXT - between two transactions
Task == [op : Ops, at : {"NEXT", "PROVIDER", "ENTRY", "WALLET"},
         source : Sources \cup {Nothing}, seen : Nat]

NoTask == [op |-> "IDLE", at |-> "NEXT", source |-> Nothing, seen |-> 0]

WalletTypeOK ==
    /\ balance \in Nat
    /\ entry \in [Sources -> EntryStatuses]
    /\ returned \subseteq Purchases
    /\ payment \in [TopUps -> PaymentStatuses]
    /\ logged \subseteq TopUps
    /\ utility \in [Purchases -> UtilityStatuses]
    /\ provider \in ProviderRow
    /\ ordersOn \in BOOLEAN
    /\ task \in [Handlers -> Task]
    /\ overlapped \in BOOLEAN /\ crashed \in BOOLEAN

WalletInit ==
    /\ balance = 0
    /\ entry = [s \in Sources |-> "NONE"]
    /\ returned = {}
    /\ payment = [t \in TopUps |-> "NONE"]
    /\ logged = {}
    /\ utility = [p \in Purchases |-> "NONE"]
    /\ provider = [checkout |-> {}, paid |-> {}, asked |-> {},
                   delivered |-> {}, refused |-> {}]
    /\ ordersOn \in BOOLEAN
    /\ task = [h \in Handlers |-> NoTask]
    /\ overlapped = FALSE /\ crashed = FALSE

-----------------------------------------------------------------------------
(***************************************************************************)
(* Faults: definitions of this module with a bug (README, "Faults").       *)
(***************************************************************************)

\* the provider is not asked whether the customer has paid
ConfirmedAlways(t) == TRUE

\* the return is entered in the ledger and the wallet is not credited
ReversedUnpaid(h, p) ==
    /\ entry' = [entry EXCEPT ![p] = "REVERSED"]
    /\ returned' = returned \cup {p}
    /\ utility' = [utility EXCEPT ![p] = "CANCELLED"]
    /\ UNCHANGED balance

\* the transaction gets its final status and the debit stays posted
ReversedInName(h, p) ==
    /\ utility' = [utility EXCEPT ![p] = "CANCELLED"]
    /\ UNCHANGED <<balance, entry, returned>>

\* a failed answer is recorded and the debit is left to an operator
AfterAnswerDone(h, status) == task' = [task EXCEPT ![h] = NoTask]

\* the balance is not checked against the amount
CoversAlways(s) == TRUE

-----------------------------------------------------------------------------
(***************************************************************************)
(* Requests.                                                               *)
(***************************************************************************)

Begin(h, op, at, s) ==
    /\ task[h] = NoTask
    /\ task' = [task EXCEPT ![h] =
                  [op |-> op, at |-> at, source |-> s, seen |-> 0]]

Finish(h) == task' = [task EXCEPT ![h] = NoTask]

Serves(h, op, at) == task[h].op \in op /\ task[h].at = at

InTransaction == {g \in Handlers : task[g].at \in {"ENTRY", "WALLET"}}

\* Handler h is in a wallet transaction: is there another?
NoteOverlap(h) == overlapped' = (overlapped \/ InTransaction \ {h} # {})

\* Handler h reads the wallet's row for source s; from here to its commit it
\* holds on to the balance it has read.
ReadWallet(h, op, s) ==
    /\ task' = [task EXCEPT ![h] =
                  [op |-> op, at |-> "WALLET", source |-> s, seen |-> balance]]
    /\ NoteOverlap(h)

Covers(s) == balance >= Amount[s]

\* The balance h writes: what it read, and its own amount.
Credited(h) == task[h].seen + Amount[task[h].source]
Debited(h) == task[h].seen - Amount[task[h].source]

-----------------------------------------------------------------------------
(***************************************************************************)
(* Top-ups: initiate, pay (outside), and the two ways to a credit.         *)
(***************************************************************************)

\* initiateWalletTopUp: the pending entry and payment, then the provider.
InitiateWalletTopUp(h, t) ==
    /\ ~ordersOn
    /\ payment[t] = "NONE"
    /\ Begin(h, "INITIALIZE", "PROVIDER", t)
    /\ payment' = [payment EXCEPT ![t] = "PENDING"]
    /\ entry' = [entry EXCEPT ![t] = "PENDING"]
    /\ UNCHANGED <<balance, returned, logged, utility, provider, ordersOn,
                   overlapped, crashed>>

Initialized(h) ==
    /\ Serves(h, {"INITIALIZE"}, "PROVIDER")
    /\ Finish(h)
    /\ provider' = [provider EXCEPT !.checkout = @ \cup {task[h].source}]
    /\ UNCHANGED <<rows, ordersOn, overlapped, crashed>>

InitializeFailed(h) ==
    /\ Serves(h, {"INITIALIZE"}, "PROVIDER")
    /\ Finish(h)
    /\ payment' = [payment EXCEPT ![task[h].source] = "FAILED"]
    /\ entry' = [entry EXCEPT ![task[h].source] = "FAILED"]
    /\ UNCHANGED <<balance, returned, logged, utility, provider, ordersOn,
                   overlapped, crashed>>

\* The customer pays at the provider's checkout.
Pay(t) ==
    /\ t \in provider.checkout \ provider.paid
    /\ provider' = [provider EXCEPT !.paid = @ \cup {t}]
    /\ UNCHANGED <<rows, ordersOn, task, overlapped, crashed>>

\* provider.verify and the verified webhook: both say what the provider knows.
Confirmed(t) == t \in provider.paid

\* processSuccessfulWalletTopUpWithClient, as far as the wallet's row
Creditable(t) == entry[t] = "PENDING"

VerifyWalletTopUp(h, t) ==
    /\ payment[t] \notin {"NONE", "SUCCESSFUL"}
    /\ Confirmed(t)
    /\ Creditable(t)
    /\ Begin(h, "VERIFY", "ENTRY", t)
    /\ NoteOverlap(h)
    /\ UNCHANGED <<rows, provider, ordersOn, crashed>>

\* The webhook's log row is inserted first; a second delivery waits on its
\* unique key, and is a duplicate once the first has committed.
Webhook(h, t) ==
    /\ payment[t] # "NONE"
    /\ Confirmed(t)
    /\ t \notin logged
    /\ \A g \in Handlers : ~(task[g].op = "WEBHOOK" /\ task[g].source = t)
    /\ \/ /\ payment[t] # "SUCCESSFUL" /\ Creditable(t)
          /\ Begin(h, "WEBHOOK", "ENTRY", t)
          /\ NoteOverlap(h)
          /\ UNCHANGED rows
       \/ /\ payment[t] = "SUCCESSFUL"
          /\ task[h] = NoTask
          /\ logged' = logged \cup {t}
          /\ UNCHANGED <<balance, entry, returned, payment, utility, task,
                         overlapped>>
    /\ UNCHANGED <<provider, ordersOn, crashed>>

ReadWalletToCredit(h) ==
    /\ Serves(h, {"VERIFY", "WEBHOOK"}, "ENTRY")
    /\ ReadWallet(h, task[h].op, task[h].source)
    /\ UNCHANGED <<rows, provider, ordersOn, crashed>>

CommitTopUp(h) ==
    LET t == task[h].source IN
    /\ Serves(h, {"VERIFY", "WEBHOOK"}, "WALLET")
    /\ balance' = Credited(h)
    /\ entry' = [entry EXCEPT ![t] = "POSTED"]
    /\ payment' = [payment EXCEPT ![t] = "SUCCESSFUL"]
    /\ logged' = IF task[h].op = "WEBHOOK" THEN logged \cup {t} ELSE logged
    /\ Finish(h)
    /\ UNCHANGED <<returned, utility, provider, ordersOn, overlapped, crashed>>

-----------------------------------------------------------------------------
(***************************************************************************)
(* Orders paid from the wallet, and adjustments by an admin.               *)
(***************************************************************************)

\* createVendorOrder, down to debitWalletForOrder's read of the wallet
CreateVendorOrder(h, o) ==
    /\ ordersOn
    /\ task[h] = NoTask
    /\ entry[o] = "NONE"
    /\ Covers(o)
    /\ ReadWallet(h, "ORDER", o)
    /\ UNCHANGED <<rows, provider, ordersOn, crashed>>

AdminCreateAdjustment(h, a) ==
    /\ task[h] = NoTask
    /\ entry[a] = "NONE"
    /\ a \in Debits => Covers(a)
    /\ ReadWallet(h, "ADJUST", a)
    /\ UNCHANGED <<rows, provider, ordersOn, crashed>>

\* The order, its payment and its entry, or the adjustment's entry.  A second
\* commit under the same key fails and writes nothing.
CommitEntry(h) ==
    LET s == task[h].source IN
    /\ Serves(h, {"ORDER", "ADJUST"}, "WALLET")
    /\ \/ /\ entry[s] = "NONE"
          /\ balance' = IF s \in Credits THEN Credited(h) ELSE Debited(h)
          /\ entry' = [entry EXCEPT ![s] = "POSTED"]
       \/ entry[s] # "NONE" /\ UNCHANGED <<balance, entry>>
    /\ Finish(h)
    /\ UNCHANGED <<returned, payment, logged, utility, provider, ordersOn,
                   overlapped, crashed>>

-----------------------------------------------------------------------------
(***************************************************************************)
(* Utilities paid from the wallet: debit, ask the provider, record the     *)
(* answer, and return the money if it is a failure.                        *)
(***************************************************************************)

CreateTransaction(h, p) ==
    /\ task[h] = NoTask
    /\ entry[p] = "NONE"
    /\ Covers(p)
    /\ ReadWallet(h, "PURCHASE", p)
    /\ UNCHANGED <<rows, provider, ordersOn, crashed>>

CommitTransaction(h) ==
    LET p == task[h].source IN
    /\ Serves(h, {"PURCHASE"}, "WALLET")
    /\ \/ /\ entry[p] = "NONE"
          /\ balance' = Debited(h)
          /\ entry' = [entry EXCEPT ![p] = "POSTED"]
          /\ utility' = [utility EXCEPT ![p] = "PENDING"]
          /\ task' = [task EXCEPT ![h].at = "NEXT"]
       \/ /\ entry[p] # "NONE"
          /\ Finish(h)
          /\ UNCHANGED <<balance, entry, utility>>
    /\ UNCHANGED <<returned, payment, logged, provider, ordersOn, overlapped,
                   crashed>>

\* client.purchase reaches the provider, or is lost on the way.
Purchase(h) ==
    /\ Serves(h, {"PURCHASE"}, "NEXT")
    /\ task' = [task EXCEPT ![h].at = "PROVIDER"]
    /\ \/ provider' = [provider EXCEPT !.asked = @ \cup {task[h].source}]
       \/ UNCHANGED provider
    /\ UNCHANGED <<rows, ordersOn, overlapped, crashed>>

\* The provider works on a request: outside the service.
Deliver(p) ==
    /\ p \in provider.asked \ (provider.delivered \cup provider.refused)
    /\ \/ provider' = [provider EXCEPT !.delivered = @ \cup {p}]
       \/ provider' = [provider EXCEPT !.refused = @ \cup {p}]
    /\ UNCHANGED <<rows, ordersOn, task, overlapped, crashed>>

\* adminVerifyProviderStatus, as far as checkStatus
AdminVerifyProviderStatus(h, p) ==
    /\ utility[p] \notin Terminal \cup {"NONE"}
    /\ Begin(h, "STATUS", "PROVIDER", p)
    /\ UNCHANGED <<rows, provider, ordersOn, overlapped, crashed>>

\* What the client reports.  purchase reports a failure for an answer it never
\* got; checkStatus calls that PROCESSING.
Answers(op, p) ==
    {"PROCESSING"}
      \cup (IF p \in provider.delivered THEN {"SUCCESSFUL"} ELSE {})
      \cup (IF \/ op = "PURCHASE"
               \/ p \in provider.refused \/ p \notin provider.asked
            THEN {"FAILED"} ELSE {})

\* After a failure comes the return of the debit.
AfterAnswer(h, status) ==
    task' = [task EXCEPT ![h] =
               IF status = "FAILED"
               THEN [@ EXCEPT !.op = "RETURN", !.at = "NEXT"] ELSE NoTask]

\* applyProviderResult: an update by id, whatever the status has become.
ApplyProviderResult(h) ==
    LET p == task[h].source IN
    /\ Serves(h, {"PURCHASE", "STATUS"}, "PROVIDER")
    /\ \E status \in Answers(task[h].op, p) :
         /\ utility' = [utility EXCEPT ![p] = status]
         /\ AfterAnswer(h, status)
    /\ UNCHANGED <<balance, entry, returned, payment, logged, provider,
                   ordersOn, overlapped, crashed>>

\* createWalletFundedTransaction's catch: the debit is returned before any
\* answer is recorded.
PurchaseThrew(h) ==
    /\ Serves(h, {"PURCHASE"}, "PROVIDER")
    /\ AfterAnswer(h, "FAILED")
    /\ UNCHANGED <<rows, provider, ordersOn, overlapped, crashed>>

Cancel(h, p) ==
    /\ utility[p] = "PENDING"
    /\ Begin(h, "CANCEL", "NEXT", p)
    /\ UNCHANGED <<rows, provider, ordersOn, overlapped, crashed>>

FinalStatus(op) == IF op = "CANCEL" THEN "CANCELLED" ELSE "FAILED"

\* reverseWalletDebitIfNeeded: the reversal is there already, the debit is no
\* longer posted, or the wallet is read.
ReverseWalletDebit(h) ==
    LET p == task[h].source
        op == task[h].op
    IN
    /\ Serves(h, {"RETURN", "CANCEL"}, "NEXT")
    /\ \/ /\ p \in returned
          /\ utility' = [utility EXCEPT ![p] = FinalStatus(op)]
          /\ Finish(h)
          /\ UNCHANGED <<balance, entry, returned, overlapped>>
       \/ /\ p \notin returned /\ entry[p] # "POSTED"
          /\ Finish(h)
          /\ UNCHANGED <<balance, entry, returned, utility, overlapped>>
       \/ /\ p \notin returned /\ entry[p] = "POSTED"
          /\ ReadWallet(h, op, p)
          /\ UNCHANGED <<balance, entry, returned, utility>>
    /\ UNCHANGED <<payment, logged, provider, ordersOn, crashed>>

\* The unique key of the reversal entry.
ReturnKey(p) == p \notin returned

Reversed(h, p) ==
    /\ balance' = Credited(h)
    /\ entry' = [entry EXCEPT ![p] = "REVERSED"]
    /\ returned' = returned \cup {p}
    /\ utility' = [utility EXCEPT ![p] = FinalStatus(task[h].op)]

CommitReversal(h) ==
    LET p == task[h].source IN
    /\ Serves(h, {"RETURN", "CANCEL"}, "WALLET")
    /\ \/ ReturnKey(p) /\ Reversed(h, p)
       \/ ~ReturnKey(p) /\ UNCHANGED <<balance, entry, returned, utility>>
    /\ Finish(h)
    /\ UNCHANGED <<payment, logged, provider, ordersOn, overlapped, crashed>>

-----------------------------------------------------------------------------

\* A deployment with the other setting of WALLET_PAYMENTS_ENABLED, which the
\* top-up screen requires to be off and an order from the wallet to be on.
Redeploy ==
    /\ ordersOn' = ~ordersOn
    /\ UNCHANGED <<rows, provider, task, overlapped, crashed>>

\* The process serving h dies: an open transaction is rolled back.
Abandon(h) ==
    /\ task[h] # NoTask
    /\ Finish(h)
    /\ crashed' = TRUE
    /\ UNCHANGED <<rows, provider, ordersOn, overlapped>>

WalletNext ==
    \/ \E h \in Handlers :
         \/ \E t \in TopUps : InitiateWalletTopUp(h, t)
                              \/ VerifyWalletTopUp(h, t) \/ Webhook(h, t)
         \/ Initialized(h) \/ InitializeFailed(h)
         \/ ReadWalletToCredit(h) \/ CommitTopUp(h)
         \/ \E o \in WalletOrders : CreateVendorOrder(h, o)
         \/ \E a \in Credits \cup Debits : AdminCreateAdjustment(h, a)
         \/ CommitEntry(h)
         \/ \E p \in Purchases : CreateTransaction(h, p) \/ Cancel(h, p)
                                 \/ AdminVerifyProviderStatus(h, p)
         \/ CommitTransaction(h) \/ Purchase(h) \/ PurchaseThrew(h)
         \/ ApplyProviderResult(h)
         \/ ReverseWalletDebit(h) \/ CommitReversal(h)
         \/ Abandon(h)
    \/ \E t \in TopUps : Pay(t)
    \/ \E p \in Purchases : Deliver(p)
    \/ Redeploy

WalletSpec == WalletInit /\ [][WalletNext]_walletVars

-----------------------------------------------------------------------------
(***************************************************************************)
(* Properties.                                                             *)
(***************************************************************************)

AmountOf(s) == Amount[s]
SumOf(S) == MapThenSumSet(AmountOf, S)

Posted == {s \in Sources : entry[s] \in {"POSTED", "REVERSED"}}
LedgerCredit == SumOf(Posted \cap (TopUps \cup Credits)) + SumOf(returned)
LedgerDebit == SumOf(Posted \ (TopUps \cup Credits))

\* The balance is what the posted entries add up to, as long as no two wallet
\* transactions have overlapped: balances are written as numbers by five
\* handlers (orders.service.ts, payments.service.ts, utilities.service.ts,
\* wallet.service.ts), and nothing else ties them to the ledger.
BalanceIsLedger == ~overlapped => balance + LedgerDebit = LedgerCredit

\* A top-up is in the ledger exactly when its payment is successful, and only
\* if the customer has paid, whichever of verification and webhook came first
\* and however they overlapped (payments.service.ts).
TopUpsPaidFor ==
    \A t \in TopUps :
       /\ entry[t] = "POSTED" <=> payment[t] = "SUCCESSFUL"
       /\ entry[t] = "POSTED" => t \in provider.paid

\* A cancelled utility payment has been returned, and a returned one is
\* marked REVERSED: cancellation, failed purchase and the operator's status
\* check may all try to return it at once (utilities.service.ts).
CancelledIsReturned ==
    \A p \in Purchases :
       /\ utility[p] = "CANCELLED" => p \in returned
       /\ p \in returned <=> entry[p] = "REVERSED"

\* A failed utility payment has been returned or a handler is about to return
\* it, unless a process died: the failure is recorded before the return
\* begins, and once it is recorded no status check looks at it again
\* (utilities.service.ts).
FailedIsReturned ==
    \A p \in Purchases :
       utility[p] = "FAILED" /\ ~crashed =>
         \/ p \in returned
         \/ \E h \in Handlers : /\ task[h].op \in {"RETURN", "CANCEL"}
                                /\ task[h].source = p

\* What the operations guide says of top-ups: "Wallet balance is credited once
\* only", so with top-ups alone the balance never exceeds what is posted.
CreditedOnce == balance <= LedgerCredit
=============================================================================
