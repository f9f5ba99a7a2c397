-------------------------- MODULE CustomerWalletProofs -------------------------
(***************************************************************************)
(* What TLAPS proves of the customer's wallet, for any number of top-ups,  *)
(* orders, purchases, adjustments and handlers: balances never go below    *)
(* zero, a top-up is credited only if it was paid, no cancelled or failed  *)
(* purchase keeps its debit, and the balance is what the ledger adds up to *)
(* while no two wallet transactions have overlapped.                       *)
(***************************************************************************)
EXTENDS CustomerWallet, SumTheorems

-----------------------------------------------------------------------------
\* What a request that has been begun says of its source: which kind of row
\* it is, that the customer has paid for a top-up to be credited, that what
\* has been read of the balance covers a debit, and that a purchase asked for,
\* looked up, cancelled or returned has been debited.
TaskFits(t) ==
    /\ t.op \in {"INITIALIZE", "VERIFY", "WEBHOOK"} => t.source \in TopUps
    /\ t.op \in {"VERIFY", "WEBHOOK"} => t.source \in provider.paid
    /\ t.op \in {"ORDER", "ADJUST"} =>
         t.source \in WalletOrders \cup Credits \cup Debits
    /\ t.op \in {"PURCHASE", "STATUS", "RETURN", "CANCEL"} =>
         t.source \in Purchases
    /\ (/\ t.at = "WALLET"
        /\ t.op \in {"ORDER", "ADJUST", "PURCHASE"}
        /\ t.source \notin Credits) => t.seen >= Amount[t.source]
    /\ (\/ t.op \in {"STATUS", "RETURN", "CANCEL"}
        \/ t.op = "PURCHASE" /\ t.at # "WALLET") =>
         utility[t.source] # "NONE"

\* ... of every request.
TasksFit == \A h \in Handlers : TaskFits(task[h])

\* A purchase has a transaction exactly if it has a debit.
PurchaseRows ==
    \A p \in Purchases :
       /\ entry[p] \in {"NONE", "POSTED", "REVERSED"}
       /\ utility[p] = "NONE" <=> entry[p] = "NONE"

\* The inductive invariant.
WalletInv ==
    /\ WalletTypeOK
    /\ TasksFit /\ PurchaseRows
    /\ TopUpsPaidFor /\ CancelledIsReturned /\ FailedIsReturned

-----------------------------------------------------------------------------
\* A request that goes on to its next phase is still a request.
LEMMA TaskMoved ==
    ASSUME NEW t \in Task, NEW op \in Ops,
           NEW at \in {"NEXT", "PROVIDER", "ENTRY", "WALLET"}
    PROVE  [t EXCEPT !.op = op, !.at = at] \in Task
BY DEF Task

\* What a handler adds to the balance it has read is a balance.
LEMMA CreditedBalance ==
    ASSUME NEW h \in Handlers, WalletTypeOK, task[h].source \in Sources
    PROVE  Credited(h) \in Nat
<1>1. task[h].seen \in Nat
  BY DEF WalletTypeOK, Task
<1>2. Amount[task[h].source] \in Nat
  BY AmountAssumption
<1> QED BY <1>1, <1>2 DEF Credited

\* The empty wallet satisfies the invariant.
LEMMA InitWallet == WalletInit => WalletInv
<1> SUFFICES ASSUME WalletInit PROVE WalletInv
  OBVIOUS
<1>1. NoTask \in Task
  BY DEF NoTask, Task, Ops
<1>2. WalletTypeOK
  BY <1>1 DEF WalletInit, WalletTypeOK, EntryStatuses, PaymentStatuses,
     UtilityStatuses, ProviderRow
<1>3. TasksFit
  BY DEF WalletInit, TasksFit, TaskFits, NoTask
<1>4. PurchaseRows
  BY DEF WalletInit, PurchaseRows, Sources
<1>5. TopUpsPaidFor /\ CancelledIsReturned /\ FailedIsReturned
  BY DEF WalletInit, TopUpsPaidFor, CancelledIsReturned, FailedIsReturned,
     Sources
<1> QED BY <1>2, <1>3, <1>4, <1>5 DEF WalletInv

\* Every step keeps the invariant.
LEMMA NextWallet == WalletInv /\ [WalletNext]_walletVars => WalletInv'
<1> SUFFICES ASSUME WalletInv, [WalletNext]_walletVars PROVE WalletInv'
  OBVIOUS
<1>1. ASSUME NEW h \in Handlers, NEW t \in TopUps, InitiateWalletTopUp(h, t)
      PROVE  WalletInv'
  <2>1. WalletTypeOK'
    BY <1>1, SourcesAssumption DEF WalletInv, WalletTypeOK, Begin, Sources,
           EntryStatuses, PaymentStatuses, UtilityStatuses, ProviderRow, Task,
           NoTask, Ops, InitiateWalletTopUp
  <2>2. TasksFit'
    BY <1>1, SourcesAssumption DEF WalletInv, TasksFit, PurchaseRows,
           WalletTypeOK, Begin, TaskFits, NoTask, InitiateWalletTopUp
  <2>3. PurchaseRows'
    BY <1>1, SourcesAssumption DEF WalletInv, PurchaseRows, TasksFit,
           WalletTypeOK, Begin, TaskFits, NoTask, InitiateWalletTopUp
  <2>4. TopUpsPaidFor'
    BY <1>1, SourcesAssumption DEF WalletInv, TopUpsPaidFor, TasksFit,
           WalletTypeOK, Begin, TaskFits, NoTask, InitiateWalletTopUp
  <2>5. CancelledIsReturned'
    BY <1>1, SourcesAssumption DEF WalletInv, CancelledIsReturned, TasksFit,
           PurchaseRows, WalletTypeOK, Begin, TaskFits, NoTask,
           InitiateWalletTopUp
  <2>6. FailedIsReturned'
    BY <1>1, SourcesAssumption DEF WalletInv, FailedIsReturned, TasksFit,
           PurchaseRows, CancelledIsReturned, WalletTypeOK, Begin, TaskFits,
           NoTask, InitiateWalletTopUp
  <2> QED BY <2>1, <2>2, <2>3, <2>4, <2>5, <2>6 DEF WalletInv
<1>2. ASSUME NEW h \in Handlers, Initialized(h)
      PROVE  WalletInv'
  <2>1. WalletTypeOK'
    BY <1>2 DEF WalletInv, WalletTypeOK, TasksFit, Serves, Finish, rows,
           Sources, EntryStatuses, PaymentStatuses, UtilityStatuses,
           ProviderRow, Task, TaskFits, NoTask, Ops, Initialized
  <2>2. TasksFit'
    BY <1>2 DEF WalletInv, TasksFit, PurchaseRows, WalletTypeOK, Serves,
           Finish, rows, TaskFits, ProviderRow, NoTask, Initialized
  <2>3. TopUpsPaidFor'
    BY <1>2 DEF WalletInv, TopUpsPaidFor, TasksFit, WalletTypeOK, Serves,
           Finish, rows, TaskFits, ProviderRow, NoTask, Initialized
  <2>4. FailedIsReturned'
    BY <1>2 DEF WalletInv, FailedIsReturned, TasksFit, PurchaseRows,
           CancelledIsReturned, WalletTypeOK, Serves, Finish, rows, TaskFits,
           ProviderRow, NoTask, Initialized
  <2>5. PurchaseRows' /\ CancelledIsReturned'
    BY <1>2 DEF WalletInv, PurchaseRows, CancelledIsReturned, Initialized,
           Serves, Finish, rows, NoTask
  <2> QED BY <2>1, <2>2, <2>3, <2>4, <2>5 DEF WalletInv
<1>3. ASSUME NEW h \in Handlers, InitializeFailed(h)
      PROVE  WalletInv'
  <2>1. WalletTypeOK'
    BY <1>3, SourcesAssumption DEF WalletInv, WalletTypeOK, Serves, Finish,
           Sources, EntryStatuses, PaymentStatuses, UtilityStatuses,
           ProviderRow, Task, NoTask, Ops, InitializeFailed
  <2>2. TasksFit'
    BY <1>3, SourcesAssumption DEF WalletInv, TasksFit, PurchaseRows,
           WalletTypeOK, Serves, Finish, TaskFits, Sources, NoTask,
           InitializeFailed
  <2>3. PurchaseRows'
    BY <1>3, SourcesAssumption DEF WalletInv, PurchaseRows, TasksFit,
           WalletTypeOK, Serves, Finish, TaskFits, Sources, NoTask,
           InitializeFailed
  <2>4. TopUpsPaidFor'
    BY <1>3, SourcesAssumption DEF WalletInv, TopUpsPaidFor, TasksFit,
           WalletTypeOK, Serves, Finish, TaskFits, Sources, NoTask,
           InitializeFailed
  <2>5. CancelledIsReturned'
    BY <1>3, SourcesAssumption DEF WalletInv, CancelledIsReturned, TasksFit,
           PurchaseRows, WalletTypeOK, Serves, Finish, TaskFits, Sources,
           NoTask, InitializeFailed
  <2>6. FailedIsReturned'
    BY <1>3, SourcesAssumption DEF WalletInv, FailedIsReturned, TasksFit,
           PurchaseRows, CancelledIsReturned, WalletTypeOK, Serves, Finish,
           TaskFits, NoTask, InitializeFailed
  <2> QED BY <2>1, <2>2, <2>3, <2>4, <2>5, <2>6 DEF WalletInv
<1>4. ASSUME NEW h \in Handlers, NEW t \in TopUps, VerifyWalletTopUp(h, t)
      PROVE  WalletInv'
  <2>1. WalletTypeOK'
    BY <1>4 DEF WalletInv, WalletTypeOK, Confirmed, Creditable, Begin,
           NoteOverlap, rows, Sources, EntryStatuses, PaymentStatuses,
           UtilityStatuses, ProviderRow, Task, NoTask, Ops, VerifyWalletTopUp
  <2>2. TasksFit'
    BY <1>4 DEF WalletInv, TasksFit, PurchaseRows, WalletTypeOK, Confirmed,
           Creditable, Begin, NoteOverlap, rows, TaskFits, NoTask,
           VerifyWalletTopUp
  <2>3. FailedIsReturned'
    BY <1>4 DEF WalletInv, FailedIsReturned, TasksFit, PurchaseRows,
           CancelledIsReturned, WalletTypeOK, Confirmed, Creditable, Begin,
           NoteOverlap, rows, TaskFits, NoTask, VerifyWalletTopUp
  <2>4. PurchaseRows' /\ TopUpsPaidFor' /\ CancelledIsReturned'
    BY <1>4 DEF WalletInv, PurchaseRows, TopUpsPaidFor, CancelledIsReturned,
           VerifyWalletTopUp, Confirmed, Creditable, Begin, NoteOverlap, rows,
           NoTask, InTransaction
  <2> QED BY <2>1, <2>2, <2>3, <2>4 DEF WalletInv
<1>5. ASSUME NEW h \in Handlers, NEW t \in TopUps, Webhook(h, t)
      PROVE  WalletInv'
  <2>1. WalletTypeOK'
    <3>1. [op |-> "WEBHOOK", at |-> "ENTRY", source |-> t, seen |-> 0] \in Task
      BY DEF Task, Ops, Sources
    <3>2. task' \in [Handlers -> Task]
      BY <1>5, <3>1 DEF Webhook, Begin, rows, WalletInv, WalletTypeOK
    <3>3. overlapped' \in BOOLEAN
      BY <1>5 DEF Webhook, NoteOverlap, WalletInv, WalletTypeOK
    <3> QED BY <1>5, <3>2, <3>3 DEF Webhook, rows, WalletInv, WalletTypeOK
  <2>2. TasksFit'
    BY <1>5 DEF WalletInv, TasksFit, PurchaseRows, WalletTypeOK, Confirmed,
           Creditable, Begin, NoteOverlap, rows, NoTask, TaskFits, Webhook
  <2>3. FailedIsReturned'
    BY <1>5 DEF WalletInv, FailedIsReturned, TasksFit, PurchaseRows,
           CancelledIsReturned, WalletTypeOK, Confirmed, Creditable, Begin,
           NoteOverlap, rows, NoTask, TaskFits, Webhook
  <2>4. PurchaseRows' /\ TopUpsPaidFor' /\ CancelledIsReturned'
    BY <1>5 DEF WalletInv, PurchaseRows, TopUpsPaidFor, CancelledIsReturned,
           Webhook, Confirmed, Creditable, Begin, NoteOverlap, rows, NoTask,
           InTransaction
  <2> QED BY <2>1, <2>2, <2>3, <2>4 DEF WalletInv
<1>6. ASSUME NEW h \in Handlers, ReadWalletToCredit(h)
      PROVE  WalletInv'
  <2>1. WalletTypeOK'
    BY <1>6 DEF WalletInv, WalletTypeOK, Serves, ReadWallet, rows, Sources,
           EntryStatuses, PaymentStatuses, UtilityStatuses, ProviderRow, Task,
           NoteOverlap, Ops, ReadWalletToCredit
  <2>2. TasksFit'
    BY <1>6 DEF WalletInv, TasksFit, PurchaseRows, WalletTypeOK, Serves,
           ReadWallet, rows, TaskFits, NoteOverlap, ReadWalletToCredit
  <2>3. FailedIsReturned'
    BY <1>6 DEF WalletInv, FailedIsReturned, TasksFit, PurchaseRows,
           CancelledIsReturned, WalletTypeOK, Serves, ReadWallet, rows,
           TaskFits, NoteOverlap, ReadWalletToCredit
  <2>4. PurchaseRows' /\ TopUpsPaidFor' /\ CancelledIsReturned'
    BY <1>6 DEF WalletInv, PurchaseRows, TopUpsPaidFor, CancelledIsReturned,
           ReadWalletToCredit, Serves, ReadWallet, rows, NoteOverlap,
           InTransaction
  <2> QED BY <2>1, <2>2, <2>3, <2>4 DEF WalletInv
<1>7. ASSUME NEW h \in Handlers, CommitTopUp(h)
      PROVE  WalletInv'
  <2>1. WalletTypeOK'
    <3>1. task[h].source \in TopUps
      BY <1>7 DEF CommitTopUp, Serves, WalletInv, TasksFit, TaskFits
    <3>2. balance' \in Nat
      BY <1>7, <3>1, CreditedBalance DEF CommitTopUp, WalletInv, Sources
    <3> QED BY <1>7, <3>1, <3>2 DEF CommitTopUp, Finish, NoTask, WalletInv,
              WalletTypeOK, Task, Ops, Sources, EntryStatuses, PaymentStatuses
  <2>2. TasksFit'
    BY <1>7, AmountAssumption, SourcesAssumption DEF WalletInv, TasksFit,
           PurchaseRows, WalletTypeOK, Serves, Credited, Finish, TaskFits,
           Sources, NoTask, CommitTopUp
  <2>3. PurchaseRows'
    BY <1>7, SourcesAssumption DEF WalletInv, PurchaseRows, TasksFit,
           WalletTypeOK, Serves, Credited, Finish, TaskFits, Sources, NoTask,
           CommitTopUp
  <2>4. TopUpsPaidFor'
    BY <1>7, SourcesAssumption DEF WalletInv, TopUpsPaidFor, TasksFit,
           WalletTypeOK, Serves, Credited, Finish, TaskFits, Sources, NoTask,
           CommitTopUp
  <2>5. CancelledIsReturned'
    BY <1>7, SourcesAssumption DEF WalletInv, CancelledIsReturned, TasksFit,
           PurchaseRows, WalletTypeOK, Serves, Credited, Finish, TaskFits,
           Sources, NoTask, CommitTopUp
  <2>6. FailedIsReturned'
    BY <1>7, SourcesAssumption DEF WalletInv, FailedIsReturned, TasksFit,
           PurchaseRows, CancelledIsReturned, WalletTypeOK, Serves, Credited,
           Finish, TaskFits, NoTask, CommitTopUp
  <2> QED BY <2>1, <2>2, <2>3, <2>4, <2>5, <2>6 DEF WalletInv
<1>8. ASSUME NEW h \in Handlers, NEW o \in WalletOrders,
             CreateVendorOrder(h, o)
      PROVE  WalletInv'
  <2>1. WalletTypeOK'
    BY <1>8, AmountAssumption DEF WalletInv, WalletTypeOK, NoTask, Covers,
           ReadWallet, rows, Sources, EntryStatuses, PaymentStatuses,
           UtilityStatuses, ProviderRow, Task, NoteOverlap, Ops,
           CreateVendorOrder
  <2>2. TasksFit'
    BY <1>8, AmountAssumption DEF WalletInv, TasksFit, PurchaseRows,
           WalletTypeOK, NoTask, Covers, ReadWallet, rows, TaskFits,
           NoteOverlap, CreateVendorOrder
  <2>3. FailedIsReturned'
    BY <1>8 DEF WalletInv, FailedIsReturned, TasksFit, PurchaseRows,
           CancelledIsReturned, WalletTypeOK, NoTask, Covers, ReadWallet,
           rows, TaskFits, NoteOverlap, CreateVendorOrder
  <2>4. PurchaseRows' /\ TopUpsPaidFor' /\ CancelledIsReturned'
    BY <1>8 DEF WalletInv, PurchaseRows, TopUpsPaidFor, CancelledIsReturned,
           CreateVendorOrder, NoTask, Covers, ReadWallet, rows, NoteOverlap,
           InTransaction
  <2> QED BY <2>1, <2>2, <2>3, <2>4 DEF WalletInv
<1>9. ASSUME NEW h \in Handlers, NEW a \in Credits \cup Debits,
             AdminCreateAdjustment(h, a)
      PROVE  WalletInv'
  <2>1. WalletTypeOK'
    BY <1>9, AmountAssumption DEF WalletInv, WalletTypeOK, NoTask, Covers,
           ReadWallet, rows, Sources, EntryStatuses, PaymentStatuses,
           UtilityStatuses, ProviderRow, Task, NoteOverlap, Ops,
           AdminCreateAdjustment
  <2>2. TasksFit'
    BY <1>9, AmountAssumption DEF WalletInv, TasksFit, PurchaseRows,
           WalletTypeOK, NoTask, Covers, ReadWallet, rows, TaskFits,
           NoteOverlap, AdminCreateAdjustment
  <2>3. FailedIsReturned'
    BY <1>9 DEF WalletInv, FailedIsReturned, TasksFit, PurchaseRows,
           CancelledIsReturned, WalletTypeOK, NoTask, Covers, ReadWallet,
           rows, TaskFits, NoteOverlap, AdminCreateAdjustment
  <2>4. PurchaseRows' /\ TopUpsPaidFor' /\ CancelledIsReturned'
    BY <1>9 DEF WalletInv, PurchaseRows, TopUpsPaidFor, CancelledIsReturned,
           AdminCreateAdjustment, NoTask, Covers, ReadWallet, rows,
           NoteOverlap, InTransaction
  <2> QED BY <2>1, <2>2, <2>3, <2>4 DEF WalletInv
<1>10. ASSUME NEW h \in Handlers, CommitEntry(h)
      PROVE  WalletInv'
  <2>1. WalletTypeOK'
    BY <1>10, AmountAssumption, SourcesAssumption DEF WalletInv, WalletTypeOK,
           TasksFit, Serves, Credited, Debited, Finish, Sources,
           EntryStatuses, PaymentStatuses, UtilityStatuses, ProviderRow, Task,
           TaskFits, NoTask, Ops, CommitEntry
  <2>2. TasksFit'
    BY <1>10, AmountAssumption, SourcesAssumption DEF WalletInv, TasksFit,
           PurchaseRows, WalletTypeOK, Serves, Credited, Debited, Finish,
           TaskFits, Sources, NoTask, CommitEntry
  <2>3. PurchaseRows'
    BY <1>10, SourcesAssumption DEF WalletInv, PurchaseRows, TasksFit,
           WalletTypeOK, Serves, Credited, Debited, Finish, TaskFits, Sources,
           NoTask, CommitEntry
  <2>4. TopUpsPaidFor'
    BY <1>10, SourcesAssumption DEF WalletInv, TopUpsPaidFor, TasksFit,
           WalletTypeOK, Serves, Credited, Debited, Finish, TaskFits, Sources,
           NoTask, CommitEntry
  <2>5. CancelledIsReturned'
    BY <1>10, SourcesAssumption DEF WalletInv, CancelledIsReturned, TasksFit,
           PurchaseRows, WalletTypeOK, Serves, Credited, Debited, Finish,
           TaskFits, Sources, NoTask, CommitEntry
  <2>6. FailedIsReturned'
    BY <1>10, SourcesAssumption DEF WalletInv, FailedIsReturned, TasksFit,
           PurchaseRows, CancelledIsReturned, WalletTypeOK, Serves, Credited,
           Debited, Finish, TaskFits, NoTask, CommitEntry
  <2> QED BY <2>1, <2>2, <2>3, <2>4, <2>5, <2>6 DEF WalletInv
<1>11. ASSUME NEW h \in Handlers, NEW p \in Purchases, CreateTransaction(h, p)
      PROVE  WalletInv'
  <2>1. WalletTypeOK'
    BY <1>11, AmountAssumption DEF WalletInv, WalletTypeOK, NoTask, Covers,
           ReadWallet, rows, Sources, EntryStatuses, PaymentStatuses,
           UtilityStatuses, ProviderRow, Task, NoteOverlap, Ops,
           CreateTransaction
  <2>2. TasksFit'
    BY <1>11, AmountAssumption DEF WalletInv, TasksFit, PurchaseRows,
           WalletTypeOK, NoTask, Covers, ReadWallet, rows, TaskFits,
           NoteOverlap, CreateTransaction
  <2>3. FailedIsReturned'
    BY <1>11 DEF WalletInv, FailedIsReturned, TasksFit, PurchaseRows,
           CancelledIsReturned, WalletTypeOK, NoTask, Covers, ReadWallet,
           rows, TaskFits, NoteOverlap, CreateTransaction
  <2>4. PurchaseRows' /\ TopUpsPaidFor' /\ CancelledIsReturned'
    BY <1>11 DEF WalletInv, PurchaseRows, TopUpsPaidFor, CancelledIsReturned,
           CreateTransaction, NoTask, Covers, ReadWallet, rows, NoteOverlap,
           InTransaction
  <2> QED BY <2>1, <2>2, <2>3, <2>4 DEF WalletInv
<1>12. ASSUME NEW h \in Handlers, CommitTransaction(h)
      PROVE  WalletInv'
  <2>1. WalletTypeOK'
    BY <1>12, AmountAssumption, SourcesAssumption DEF WalletInv, WalletTypeOK,
           TasksFit, Serves, Debited, Finish, Sources, EntryStatuses,
           PaymentStatuses, UtilityStatuses, ProviderRow, Task, TaskFits,
           NoTask, Ops, CommitTransaction
  <2>2. TasksFit'
    BY <1>12, AmountAssumption, SourcesAssumption DEF WalletInv, TasksFit,
           PurchaseRows, WalletTypeOK, Serves, Debited, Finish, TaskFits,
           Sources, Task, NoTask, Ops, CommitTransaction
  <2>3. PurchaseRows'
    BY <1>12, SourcesAssumption DEF WalletInv, PurchaseRows, TasksFit,
           WalletTypeOK, Serves, Debited, Finish, TaskFits, Sources, NoTask,
           CommitTransaction
  <2>4. TopUpsPaidFor'
    BY <1>12, SourcesAssumption DEF WalletInv, TopUpsPaidFor, TasksFit,
           WalletTypeOK, Serves, Debited, Finish, TaskFits, Sources, NoTask,
           CommitTransaction
  <2>5. CancelledIsReturned'
    BY <1>12, SourcesAssumption DEF WalletInv, CancelledIsReturned, TasksFit,
           PurchaseRows, WalletTypeOK, Serves, Debited, Finish, TaskFits,
           Sources, NoTask, CommitTransaction
  <2>6. FailedIsReturned'
    BY <1>12, SourcesAssumption DEF WalletInv, FailedIsReturned, TasksFit,
           PurchaseRows, CancelledIsReturned, WalletTypeOK, Serves, Debited,
           Finish, TaskFits, NoTask, CommitTransaction
  <2> QED BY <2>1, <2>2, <2>3, <2>4, <2>5, <2>6 DEF WalletInv
<1>13. ASSUME NEW h \in Handlers, Purchase(h)
      PROVE  WalletInv'
  <2>1. WalletTypeOK'
    BY <1>13 DEF WalletInv, WalletTypeOK, TasksFit, Serves, rows, Sources,
           EntryStatuses, PaymentStatuses, UtilityStatuses, ProviderRow, Task,
           TaskFits, Ops, Purchase
  <2>2. TasksFit'
    BY <1>13 DEF WalletInv, TasksFit, PurchaseRows, WalletTypeOK, Serves,
           rows, TaskFits, ProviderRow, Purchase
  <2>3. TopUpsPaidFor'
    BY <1>13 DEF WalletInv, TopUpsPaidFor, TasksFit, WalletTypeOK, Serves,
           rows, TaskFits, ProviderRow, Purchase
  <2>4. FailedIsReturned'
    BY <1>13 DEF WalletInv, FailedIsReturned, TasksFit, PurchaseRows,
           CancelledIsReturned, WalletTypeOK, Serves, rows, TaskFits,
           ProviderRow, Purchase
  <2>5. PurchaseRows' /\ CancelledIsReturned'
    BY <1>13 DEF WalletInv, PurchaseRows, CancelledIsReturned, Purchase,
           Serves, rows
  <2> QED BY <2>1, <2>2, <2>3, <2>4, <2>5 DEF WalletInv
<1>14. ASSUME NEW h \in Handlers, NEW p \in Purchases,
             AdminVerifyProviderStatus(h, p)
      PROVE  WalletInv'
  <2>1. WalletTypeOK'
    BY <1>14 DEF WalletInv, WalletTypeOK, Terminal, Begin, rows, Sources,
           EntryStatuses, PaymentStatuses, UtilityStatuses, ProviderRow, Task,
           NoTask, Ops, AdminVerifyProviderStatus
  <2>2. TasksFit'
    BY <1>14 DEF WalletInv, TasksFit, PurchaseRows, WalletTypeOK, Terminal,
           Begin, rows, TaskFits, NoTask, AdminVerifyProviderStatus
  <2>3. FailedIsReturned'
    BY <1>14 DEF WalletInv, FailedIsReturned, TasksFit, PurchaseRows,
           CancelledIsReturned, WalletTypeOK, Terminal, Begin, rows, TaskFits,
           NoTask, AdminVerifyProviderStatus
  <2>4. PurchaseRows' /\ TopUpsPaidFor' /\ CancelledIsReturned'
    BY <1>14 DEF WalletInv, PurchaseRows, TopUpsPaidFor, CancelledIsReturned,
           AdminVerifyProviderStatus, Terminal, Begin, rows, NoTask
  <2> QED BY <2>1, <2>2, <2>3, <2>4 DEF WalletInv
<1>15. ASSUME NEW h \in Handlers, ApplyProviderResult(h)
      PROVE  WalletInv'
  <2>1. WalletTypeOK'
    <3>1. [task[h] EXCEPT !.op = "RETURN", !.at = "NEXT"] \in Task
      BY TaskMoved DEF WalletInv, WalletTypeOK, Ops
    <3>2. NoTask \in Task
      BY DEF NoTask, Task, Ops
    <3>3. task' \in [Handlers -> Task]
      BY <1>15, <3>1, <3>2 DEF ApplyProviderResult, AfterAnswer, WalletInv,
         WalletTypeOK
    <3>4. utility' \in [Purchases -> UtilityStatuses]
      BY <1>15 DEF ApplyProviderResult, Answers, WalletInv, WalletTypeOK,
         UtilityStatuses
    <3> QED BY <1>15, <3>3, <3>4 DEF ApplyProviderResult, WalletInv,
              WalletTypeOK
  <2>2. TasksFit'
    BY <1>15, SourcesAssumption DEF WalletInv, TasksFit, PurchaseRows,
           WalletTypeOK, Serves, Answers, AfterAnswer, TaskFits, NoTask,
           ApplyProviderResult
  <2>3. PurchaseRows'
    BY <1>15, SourcesAssumption DEF WalletInv, PurchaseRows, TasksFit,
           WalletTypeOK, Serves, Answers, AfterAnswer, TaskFits, NoTask,
           ApplyProviderResult
  <2>4. CancelledIsReturned'
    BY <1>15, SourcesAssumption DEF WalletInv, CancelledIsReturned, TasksFit,
           PurchaseRows, WalletTypeOK, Serves, Answers, AfterAnswer, TaskFits,
           NoTask, ApplyProviderResult
  <2>5. FailedIsReturned'
    BY <1>15, SourcesAssumption DEF WalletInv, FailedIsReturned, TasksFit,
           PurchaseRows, CancelledIsReturned, WalletTypeOK, Serves, Answers,
           AfterAnswer, TaskFits, NoTask, ApplyProviderResult
  <2>6. TopUpsPaidFor'
    BY <1>15 DEF WalletInv, TopUpsPaidFor, ApplyProviderResult, Serves,
           Answers, AfterAnswer, NoTask
  <2> QED BY <2>1, <2>2, <2>3, <2>4, <2>5, <2>6 DEF WalletInv
<1>16. ASSUME NEW h \in Handlers, PurchaseThrew(h)
      PROVE  WalletInv'
  <2>1. WalletTypeOK'
    <3>1. [task[h] EXCEPT !.op = "RETURN", !.at = "NEXT"] \in Task
      BY TaskMoved DEF WalletInv, WalletTypeOK, Ops
    <3> QED BY <1>16, <3>1 DEF PurchaseThrew, AfterAnswer, WalletInv,
              WalletTypeOK, rows
  <2>2. TasksFit'
    BY <1>16 DEF WalletInv, TasksFit, PurchaseRows, WalletTypeOK, Serves,
           AfterAnswer, rows, TaskFits, NoTask, PurchaseThrew
  <2>3. FailedIsReturned'
    BY <1>16 DEF WalletInv, FailedIsReturned, TasksFit, PurchaseRows,
           CancelledIsReturned, WalletTypeOK, Serves, AfterAnswer, rows,
           TaskFits, NoTask, PurchaseThrew
  <2>4. PurchaseRows' /\ TopUpsPaidFor' /\ CancelledIsReturned'
    BY <1>16 DEF WalletInv, PurchaseRows, TopUpsPaidFor, CancelledIsReturned,
           PurchaseThrew, Serves, AfterAnswer, rows, NoTask
  <2> QED BY <2>1, <2>2, <2>3, <2>4 DEF WalletInv
<1>17. ASSUME NEW h \in Handlers, NEW p \in Purchases, Cancel(h, p)
      PROVE  WalletInv'
  <2>1. WalletTypeOK'
    BY <1>17 DEF WalletInv, WalletTypeOK, Begin, rows, Sources, EntryStatuses,
           PaymentStatuses, UtilityStatuses, ProviderRow, Task, NoTask, Ops,
           Cancel
  <2>2. TasksFit'
    BY <1>17 DEF WalletInv, TasksFit, PurchaseRows, WalletTypeOK, Begin, rows,
           TaskFits, NoTask, Cancel
  <2>3. FailedIsReturned'
    BY <1>17 DEF WalletInv, FailedIsReturned, TasksFit, PurchaseRows,
           CancelledIsReturned, WalletTypeOK, Begin, rows, TaskFits, NoTask,
           Cancel
  <2>4. PurchaseRows' /\ TopUpsPaidFor' /\ CancelledIsReturned'
    BY <1>17 DEF WalletInv, PurchaseRows, TopUpsPaidFor, CancelledIsReturned,
           Cancel, Begin, rows, NoTask
  <2> QED BY <2>1, <2>2, <2>3, <2>4 DEF WalletInv
<1>18. ASSUME NEW h \in Handlers, ReverseWalletDebit(h)
      PROVE  WalletInv'
  <2>1. WalletTypeOK'
    <3>1. [op |-> task[h].op, at |-> "WALLET", source |-> task[h].source,
           seen |-> balance] \in Task
      BY DEF WalletInv, WalletTypeOK, Task
    <3>2. NoTask \in Task
      BY DEF NoTask, Task, Ops
    <3>3. task' \in [Handlers -> Task]
      BY <1>18, <3>1, <3>2 DEF ReverseWalletDebit, ReadWallet, Finish,
         WalletInv, WalletTypeOK
    <3>4. overlapped' \in BOOLEAN
      BY <1>18 DEF ReverseWalletDebit, ReadWallet, NoteOverlap, WalletInv,
         WalletTypeOK
    <3>5. utility' \in [Purchases -> UtilityStatuses]
      BY <1>18 DEF ReverseWalletDebit, FinalStatus, WalletInv, WalletTypeOK,
         UtilityStatuses
    <3> QED BY <1>18, <3>3, <3>4, <3>5 DEF ReverseWalletDebit, WalletInv,
              WalletTypeOK
  <2>2. TasksFit'
    BY <1>18, SourcesAssumption DEF WalletInv, TasksFit, PurchaseRows,
           WalletTypeOK, Serves, FinalStatus, Finish, ReadWallet, TaskFits,
           NoTask, NoteOverlap, ReverseWalletDebit
  <2>3. PurchaseRows'
    BY <1>18, SourcesAssumption DEF WalletInv, PurchaseRows, TasksFit,
           WalletTypeOK, Serves, FinalStatus, Finish, ReadWallet, TaskFits,
           NoTask, NoteOverlap, ReverseWalletDebit
  <2>4. CancelledIsReturned'
    BY <1>18, SourcesAssumption DEF WalletInv, CancelledIsReturned, TasksFit,
           PurchaseRows, WalletTypeOK, Serves, FinalStatus, Finish,
           ReadWallet, TaskFits, NoTask, NoteOverlap, ReverseWalletDebit
  <2>5. FailedIsReturned'
    BY <1>18, SourcesAssumption DEF WalletInv, FailedIsReturned, TasksFit,
           PurchaseRows, CancelledIsReturned, WalletTypeOK, Serves,
           FinalStatus, Finish, ReadWallet, TaskFits, NoTask, NoteOverlap,
           ReverseWalletDebit
  <2>6. TopUpsPaidFor'
    BY <1>18 DEF WalletInv, TopUpsPaidFor, ReverseWalletDebit, Serves,
           FinalStatus, Finish, ReadWallet, NoTask, NoteOverlap, InTransaction
  <2> QED BY <2>1, <2>2, <2>3, <2>4, <2>5, <2>6 DEF WalletInv
<1>19. ASSUME NEW h \in Handlers, CommitReversal(h)
      PROVE  WalletInv'
  <2>1. WalletTypeOK'
    BY <1>19, AmountAssumption, SourcesAssumption DEF WalletInv, WalletTypeOK,
           TasksFit, Serves, ReturnKey, Reversed, Finish, Sources,
           EntryStatuses, PaymentStatuses, UtilityStatuses, ProviderRow, Task,
           TaskFits, Credited, FinalStatus, NoTask, Ops, CommitReversal
  <2>2. TasksFit'
    BY <1>19, AmountAssumption, SourcesAssumption DEF WalletInv, TasksFit,
           PurchaseRows, WalletTypeOK, Serves, ReturnKey, Reversed, Finish,
           TaskFits, Sources, Credited, FinalStatus, NoTask, CommitReversal
  <2>3. PurchaseRows'
    BY <1>19, SourcesAssumption DEF WalletInv, PurchaseRows, TasksFit,
           WalletTypeOK, Serves, ReturnKey, Reversed, Finish, TaskFits,
           Sources, Credited, FinalStatus, NoTask, CommitReversal
  <2>4. TopUpsPaidFor'
    BY <1>19, SourcesAssumption DEF WalletInv, TopUpsPaidFor, TasksFit,
           WalletTypeOK, Serves, ReturnKey, Reversed, Finish, TaskFits,
           Sources, Credited, FinalStatus, NoTask, CommitReversal
  <2>5. CancelledIsReturned'
    BY <1>19, SourcesAssumption DEF WalletInv, CancelledIsReturned, TasksFit,
           PurchaseRows, WalletTypeOK, Serves, ReturnKey, Reversed, Finish,
           TaskFits, Sources, Credited, FinalStatus, NoTask, CommitReversal
  <2>6. FailedIsReturned'
    BY <1>19, SourcesAssumption DEF WalletInv, FailedIsReturned, TasksFit,
           PurchaseRows, CancelledIsReturned, WalletTypeOK, Serves, ReturnKey,
           Reversed, Finish, TaskFits, Credited, FinalStatus, NoTask,
           CommitReversal
  <2> QED BY <2>1, <2>2, <2>3, <2>4, <2>5, <2>6 DEF WalletInv
<1>20. ASSUME NEW h \in Handlers, Abandon(h)
      PROVE  WalletInv'
  <2>1. WalletTypeOK'
    BY <1>20 DEF WalletInv, WalletTypeOK, NoTask, Finish, rows, Sources,
           EntryStatuses, PaymentStatuses, UtilityStatuses, ProviderRow, Task,
           Ops, Abandon
  <2>2. TasksFit'
    BY <1>20 DEF WalletInv, TasksFit, PurchaseRows, WalletTypeOK, NoTask,
           Finish, rows, TaskFits, Abandon
  <2>3. FailedIsReturned'
    BY <1>20 DEF WalletInv, FailedIsReturned, TasksFit, PurchaseRows,
           CancelledIsReturned, WalletTypeOK, NoTask, Finish, rows, TaskFits,
           Abandon
  <2>4. PurchaseRows' /\ TopUpsPaidFor' /\ CancelledIsReturned'
    BY <1>20 DEF WalletInv, PurchaseRows, TopUpsPaidFor, CancelledIsReturned,
           Abandon, NoTask, Finish, rows
  <2> QED BY <2>1, <2>2, <2>3, <2>4 DEF WalletInv
<1>21. ASSUME NEW t \in TopUps, Pay(t)
      PROVE  WalletInv'
  <2>1. WalletTypeOK'
    BY <1>21 DEF WalletInv, WalletTypeOK, TasksFit, rows, Sources,
           EntryStatuses, PaymentStatuses, UtilityStatuses, ProviderRow, Task,
           TaskFits, Ops, Pay
  <2>2. TasksFit'
    BY <1>21 DEF WalletInv, TasksFit, PurchaseRows, WalletTypeOK, rows,
           TaskFits, ProviderRow, Pay
  <2>3. TopUpsPaidFor'
    BY <1>21 DEF WalletInv, TopUpsPaidFor, TasksFit, WalletTypeOK, rows,
           TaskFits, ProviderRow, Pay
  <2>4. PurchaseRows' /\ CancelledIsReturned' /\ FailedIsReturned'
    BY <1>21 DEF WalletInv, PurchaseRows, CancelledIsReturned,
           FailedIsReturned, Pay, rows
  <2> QED BY <2>1, <2>2, <2>3, <2>4 DEF WalletInv
<1>22. ASSUME NEW p \in Purchases, Deliver(p)
      PROVE  WalletInv'
  <2>1. WalletTypeOK'
    BY <1>22 DEF WalletInv, WalletTypeOK, TasksFit, rows, Sources,
           EntryStatuses, PaymentStatuses, UtilityStatuses, ProviderRow, Task,
           TaskFits, Ops, Deliver
  <2>2. TasksFit'
    BY <1>22 DEF WalletInv, TasksFit, PurchaseRows, WalletTypeOK, rows,
           TaskFits, ProviderRow, Deliver
  <2>3. TopUpsPaidFor'
    BY <1>22 DEF WalletInv, TopUpsPaidFor, TasksFit, WalletTypeOK, rows,
           TaskFits, ProviderRow, Deliver
  <2>4. PurchaseRows' /\ CancelledIsReturned' /\ FailedIsReturned'
    BY <1>22 DEF WalletInv, PurchaseRows, CancelledIsReturned,
           FailedIsReturned, Deliver, rows
  <2> QED BY <2>1, <2>2, <2>3, <2>4 DEF WalletInv
<1>23. CASE Redeploy
  BY <1>23 DEF Redeploy, WalletInv, WalletTypeOK, TasksFit, TaskFits,
       PurchaseRows, TopUpsPaidFor, CancelledIsReturned, FailedIsReturned, rows
<1>24. CASE UNCHANGED walletVars
  BY <1>24 DEF walletVars, WalletInv, WalletTypeOK, TasksFit, TaskFits,
       PurchaseRows, TopUpsPaidFor, CancelledIsReturned, FailedIsReturned, rows
<1> QED
  BY <1>1, <1>2, <1>3, <1>4, <1>5, <1>6, <1>7, <1>8, <1>9, <1>10, <1>11,
     <1>12, <1>13, <1>14, <1>15, <1>16, <1>17, <1>18, <1>19, <1>20, <1>21,
     <1>22, <1>23, <1>24 DEF WalletNext

\* Hence it always holds.
LEMMA WalletInvariant == WalletSpec => []WalletInv
<1>1. WalletInit => WalletInv
  BY InitWallet
<1>2. WalletInv /\ [WalletNext]_walletVars => WalletInv'
  BY NextWallet
<1> QED BY <1>1, <1>2, PTL DEF WalletSpec

-----------------------------------------------------------------------------
\* Whatever requests overlap and wherever they end, the rows and the requests
\* keep their types; above all the balance, which every handler writes as a
\* number it worked out from what it had read, is never negative.
THEOREM WalletTypeCorrect == WalletSpec => []WalletTypeOK
<1>1. WalletInv => WalletTypeOK
  BY DEF WalletInv
<1> QED BY <1>1, WalletInvariant, PTL

\* A top-up is in the ledger exactly when its payment is successful, and only
\* if the customer paid it.
THEOREM TopUpsArePaidFor == WalletSpec => []TopUpsPaidFor
<1>1. WalletInv => TopUpsPaidFor
  BY DEF WalletInv
<1> QED BY <1>1, WalletInvariant, PTL

\* A cancelled purchase has its money back, and the ledger agrees.
THEOREM CancelledPurchaseReturned == WalletSpec => []CancelledIsReturned
<1>1. WalletInv => CancelledIsReturned
  BY DEF WalletInv
<1> QED BY <1>1, WalletInvariant, PTL

\* Unless a process died, a failed purchase has its money back or a handler
\* is about to give it back.
THEOREM FailedPurchaseReturned == WalletSpec => []FailedIsReturned
<1>1. WalletInv => FailedIsReturned
  BY DEF WalletInv
<1> QED BY <1>1, WalletInvariant, PTL

-----------------------------------------------------------------------------
(***************************************************************************)
(* The balance and the ledger, while no two wallet transactions have       *)
(* overlapped.                                                             *)
(***************************************************************************)

\* The ledger has finitely many entries.
FiniteLedger == IsFiniteSet(Posted) /\ IsFiniteSet(returned)

\* A top-up that is being initialized has a payment and no checkout yet, so
\* that nobody can have paid it.
CheckoutsFit ==
    /\ provider.paid \subseteq provider.checkout
    /\ \A t \in provider.checkout : payment[t] # "NONE"
    /\ \A h \in Handlers : task[h].op = "INITIALIZE" =>
         /\ payment[task[h].source] # "NONE"
         /\ task[h].source \notin provider.checkout
    /\ \A g, h \in Handlers :
         (/\ task[g].op = "INITIALIZE" /\ task[h].op = "INITIALIZE"
          /\ task[g].source = task[h].source) => g = h

\* Only debits are reversed.
TopUpsStand == \A t \in TopUps : entry[t] # "REVERSED"

\* The one wallet transaction there may be has read the balance the wallet
\* has, and credits a top-up that is not in the ledger.
OneTransaction ==
    ~overlapped =>
      /\ \A g, h \in InTransaction : g = h
      /\ \A h \in Handlers : task[h].at = "WALLET" => task[h].seen = balance
      /\ \A h \in InTransaction :
           task[h].op \in {"VERIFY", "WEBHOOK"} => task[h].source \notin Posted

\* The inductive invariant, on top of WalletInv.
LedgerInv ==
    /\ FiniteLedger /\ CheckoutsFit /\ TopUpsStand /\ OneTransaction
    /\ BalanceIsLedger

\* A step that leaves the balance and what the ledger adds up to alone.
Unmoved == balance' = balance /\ Posted' = Posted /\ returned' = returned

\* ... which is so if the ledger's rows are left alone.
LEMMA RowsUnmoved ==
    ASSUME UNCHANGED <<balance, entry, returned>> PROVE Unmoved
BY DEF Unmoved, Posted

LEMMA UnmovedLedger ==
    ASSUME FiniteLedger, BalanceIsLedger, Unmoved, overlapped => overlapped'
    PROVE  FiniteLedger' /\ BalanceIsLedger'
BY DEF FiniteLedger, BalanceIsLedger, Unmoved, LedgerCredit, LedgerDebit

\* What is summed of the ledger.
LEMMA LedgerSums ==
    ASSUME NEW S \in SUBSET Sources, IsFiniteSet(S)
    PROVE  /\ SumOf(S) \in Nat
           /\ \A s \in Sources \ S : SumOf(S \cup {s}) = Amount[s] + SumOf(S)
<1>1. \A T : SumOf(T) = SumOver(Amount, T)
  BY DEF SumOf, AmountOf, SumOver, MapThenSumSet, MapThenFoldSet
<1>2. \A s \in Sources : Amount[s] \in Nat /\ Amount[s] \in Int
  BY AmountAssumption
<1>3. SumOver(Amount, S) \in Nat
  BY <1>2, SumNat
<1>4. ASSUME NEW s \in Sources \ S
      PROVE  SumOver(Amount, S \cup {s}) = Amount[s] + SumOver(Amount, S)
  BY <1>2, SumWith
<1> QED BY <1>1, <1>3, <1>4

\* A debit or a credit is posted that was not in the ledger, with the balance
\* it makes.
LEMMA PostedLedger ==
    ASSUME WalletTypeOK, FiniteLedger, BalanceIsLedger, ~overlapped,
           NEW s \in Sources \ Posted, Posted' = Posted \cup {s},
           returned' = returned,
           balance' = IF s \in TopUps \cup Credits THEN balance + Amount[s]
                      ELSE balance - Amount[s]
    PROVE  FiniteLedger' /\ BalanceIsLedger'
<1> DEFINE In == Posted \cap (TopUps \cup Credits)
           Out == Posted \ (TopUps \cup Credits)
<1>1. /\ In \in SUBSET Sources /\ IsFiniteSet(In)
      /\ Out \in SUBSET Sources /\ IsFiniteSet(Out)
      /\ returned \in SUBSET Sources /\ IsFiniteSet(returned)
  <2>1. Posted \in SUBSET Sources /\ returned \in SUBSET Sources
    BY DEF Posted, WalletTypeOK, Sources
  <2> QED BY <2>1, FS_Subset DEF FiniteLedger
<1>2. SumOf(In) \in Nat /\ SumOf(Out) \in Nat /\ SumOf(returned) \in Nat
  BY <1>1, LedgerSums
<1>3. balance + SumOf(Out) = SumOf(In) + SumOf(returned)
  BY DEF BalanceIsLedger, LedgerCredit, LedgerDebit
<1>4. FiniteLedger'
  BY FS_AddElement DEF FiniteLedger
<1>5. Amount[s] \in Nat /\ balance \in Nat
  BY AmountAssumption DEF WalletTypeOK
<1>6. CASE s \in TopUps \cup Credits
  <2>1. LedgerCredit' = SumOf(In \cup {s}) + SumOf(returned)
    <3>1. Posted' \cap (TopUps \cup Credits) = In \cup {s}
      BY <1>6
    <3> QED BY <3>1 DEF LedgerCredit
  <2>2. LedgerDebit' = SumOf(Out)
    <3>1. Posted' \ (TopUps \cup Credits) = Out
      BY <1>6
    <3> QED BY <3>1 DEF LedgerDebit
  <2>3. SumOf(In \cup {s}) = Amount[s] + SumOf(In)
    BY <1>1, LedgerSums
  <2>4. balance' = balance + Amount[s]
    BY <1>6
  <2> HIDE DEF In, Out
  <2> QED BY <1>2, <1>3, <1>4, <1>5, <2>1, <2>2, <2>3, <2>4 DEF BalanceIsLedger
<1>7. CASE s \notin TopUps \cup Credits
  <2>1. LedgerCredit' = SumOf(In) + SumOf(returned)
    <3>1. Posted' \cap (TopUps \cup Credits) = In
      BY <1>7
    <3> QED BY <3>1 DEF LedgerCredit
  <2>2. LedgerDebit' = SumOf(Out \cup {s})
    <3>1. Posted' \ (TopUps \cup Credits) = Out \cup {s}
      BY <1>7
    <3> QED BY <3>1 DEF LedgerDebit
  <2>3. SumOf(Out \cup {s}) = Amount[s] + SumOf(Out)
    BY <1>1, LedgerSums
  <2>4. balance' = balance - Amount[s]
    BY <1>7
  <2> HIDE DEF In, Out
  <2> QED BY <1>2, <1>3, <1>4, <1>5, <2>1, <2>2, <2>3, <2>4 DEF BalanceIsLedger
<1> QED BY <1>6, <1>7

\* A debit is returned.
LEMMA ReturnedLedger ==
    ASSUME WalletTypeOK, FiniteLedger, BalanceIsLedger, ~overlapped,
           NEW p \in Purchases \ returned, Posted' = Posted,
           returned' = returned \cup {p}, balance' = balance + Amount[p]
    PROVE  FiniteLedger' /\ BalanceIsLedger'
<1> DEFINE In == Posted \cap (TopUps \cup Credits)
           Out == Posted \ (TopUps \cup Credits)
<1>1. /\ In \in SUBSET Sources /\ IsFiniteSet(In)
      /\ Out \in SUBSET Sources /\ IsFiniteSet(Out)
      /\ returned \in SUBSET Sources /\ IsFiniteSet(returned)
  <2>1. Posted \in SUBSET Sources /\ returned \in SUBSET Sources
    BY DEF Posted, WalletTypeOK, Sources
  <2> QED BY <2>1, FS_Subset DEF FiniteLedger
<1>2. SumOf(In) \in Nat /\ SumOf(Out) \in Nat /\ SumOf(returned) \in Nat
  BY <1>1, LedgerSums
<1>3. balance + SumOf(Out) = SumOf(In) + SumOf(returned)
  BY DEF BalanceIsLedger, LedgerCredit, LedgerDebit
<1>4. p \in Sources \ returned
  BY DEF Sources
<1>5. FiniteLedger'
  BY FS_AddElement DEF FiniteLedger
<1>6. Amount[p] \in Nat /\ balance \in Nat
  BY <1>4, AmountAssumption DEF WalletTypeOK
<1>7. SumOf(returned \cup {p}) = Amount[p] + SumOf(returned)
  BY <1>1, <1>4, LedgerSums
<1>8. LedgerCredit' = SumOf(In) + SumOf(returned \cup {p})
      /\ LedgerDebit' = SumOf(Out)
  BY DEF LedgerCredit, LedgerDebit
<1> HIDE DEF In, Out
<1> QED BY <1>2, <1>3, <1>5, <1>6, <1>7, <1>8 DEF BalanceIsLedger

-----------------------------------------------------------------------------
\* A step of handler h that is not part of a wallet transaction afterwards.
LEMMA TransactionOver ==
    ASSUME NEW h \in Handlers, WalletTypeOK, OneTransaction,
           NEW t, task' = [task EXCEPT ![h] = t], t.at \in {"NEXT", "PROVIDER"},
           overlapped' = overlapped,
           \/ balance' = balance /\ Posted' \subseteq Posted
           \/ h \in InTransaction
    PROVE  OneTransaction'
<1> SUFFICES ASSUME ~overlapped
             PROVE  /\ \A g, k \in InTransaction' : g = k
                    /\ \A g \in Handlers :
                         task'[g].at = "WALLET" => task'[g].seen = balance'
                    /\ \A g \in InTransaction' :
                         task'[g].op \in {"VERIFY", "WEBHOOK"} =>
                           task'[g].source \notin Posted'
  BY DEF OneTransaction
<1>1. task'[h] = t /\ \A g \in Handlers \ {h} : task'[g] = task[g]
  BY DEF WalletTypeOK
<1>2. InTransaction' = InTransaction \ {h}
  BY <1>1 DEF InTransaction
<1>3. CASE h \in InTransaction
  <2>1. InTransaction' = {}
    BY <1>2, <1>3 DEF OneTransaction
  <2> QED BY <2>1 DEF InTransaction
<1>4. CASE balance' = balance /\ Posted' \subseteq Posted
  BY <1>1, <1>2, <1>4 DEF OneTransaction, InTransaction
<1> QED BY <1>3, <1>4

\* A step of handler h in its wallet transaction.
LEMMA TransactionRead ==
    ASSUME NEW h \in Handlers, WalletTypeOK, OneTransaction,
           NEW t, task' = [task EXCEPT ![h] = t], NoteOverlap(h),
           t.at = "WALLET" => t.seen = balance,
           (~overlapped /\ t.op \in {"VERIFY", "WEBHOOK"}) =>
             t.source \notin Posted,
           balance' = balance, Posted' = Posted
    PROVE  OneTransaction'
<1> SUFFICES ASSUME ~overlapped'
             PROVE  /\ \A g, k \in InTransaction' : g = k
                    /\ \A g \in Handlers :
                         task'[g].at = "WALLET" => task'[g].seen = balance'
                    /\ \A g \in InTransaction' :
                         task'[g].op \in {"VERIFY", "WEBHOOK"} =>
                           task'[g].source \notin Posted'
  BY DEF OneTransaction
<1>1. task'[h] = t /\ \A g \in Handlers \ {h} : task'[g] = task[g]
  BY DEF WalletTypeOK
<1>2. ~overlapped /\ InTransaction \ {h} = {}
  BY DEF NoteOverlap
<1>3. InTransaction' \subseteq {h}
  BY <1>1, <1>2 DEF InTransaction
<1>4. \A g \in Handlers : task'[g].at = "WALLET" => g = h
  BY <1>3 DEF InTransaction
<1>5. t.op \in {"VERIFY", "WEBHOOK"} => t.source \notin Posted
  BY <1>2
<1> QED BY <1>1, <1>3, <1>4, <1>5

\* A request other than an initialization goes on or ends.
LEMMA CheckoutsKept ==
    ASSUME NEW h \in Handlers, WalletTypeOK, CheckoutsFit,
           NEW t, task' = [task EXCEPT ![h] = t], t.op # "INITIALIZE",
           provider'.checkout = provider.checkout,
           provider'.paid = provider.paid,
           \A u \in TopUps : payment[u] # "NONE" => payment'[u] # "NONE",
           TasksFit
    PROVE  CheckoutsFit'
<1>1. task'[h] = t /\ \A g \in Handlers \ {h} : task'[g] = task[g]
  BY DEF WalletTypeOK
<1>2. provider.checkout \subseteq TopUps
  BY DEF WalletTypeOK, ProviderRow
<1>3. \A g \in Handlers : task[g].op = "INITIALIZE" => task[g].source \in TopUps
  BY DEF TasksFit, TaskFits
<1>4. \A g \in Handlers :
        task'[g].op = "INITIALIZE" => g # h /\ task'[g] = task[g]
  BY <1>1
<1> QED BY <1>2, <1>3, <1>4 DEF CheckoutsFit

\* An entry is posted, another one is not.
LEMMA EntryPosted ==
    ASSUME WalletTypeOK, NEW s \in Sources,
           entry' = [entry EXCEPT ![s] = "POSTED"]
    PROVE  Posted' = Posted \cup {s}
BY DEF Posted, WalletTypeOK

LEMMA EntryNotPosted ==
    ASSUME WalletTypeOK, NEW s \in Sources \ Posted,
           NEW status \in {"PENDING", "FAILED"},
           entry' = [entry EXCEPT ![s] = status]
    PROVE  Posted' = Posted
BY DEF Posted, WalletTypeOK

\* A step of handler h outside the wallet and its ledger.
LEMMA QuietStep ==
    ASSUME NEW h \in Handlers, WalletTypeOK, TasksFit, LedgerInv,
           NEW t, task' = [task EXCEPT ![h] = t],
           t.at \in {"NEXT", "PROVIDER"}, t.op # "INITIALIZE",
           UNCHANGED <<balance, entry, returned, payment, overlapped>>,
           provider'.checkout = provider.checkout,
           provider'.paid = provider.paid
    PROVE  LedgerInv'
<1>1. Unmoved
  BY RowsUnmoved
<1>2. FiniteLedger' /\ BalanceIsLedger'
  BY <1>1, UnmovedLedger DEF LedgerInv
<1>3. OneTransaction'
  BY <1>1, TransactionOver DEF LedgerInv, Unmoved
<1>4. CheckoutsFit'
  BY CheckoutsKept DEF LedgerInv
<1> QED BY <1>2, <1>3, <1>4 DEF LedgerInv, TopUpsStand

\* Handler h reads the entry or the wallet.
LEMMA ReadStep ==
    ASSUME NEW h \in Handlers, WalletTypeOK, TasksFit, LedgerInv,
           NEW t, task' = [task EXCEPT ![h] = t], NoteOverlap(h),
           t.op # "INITIALIZE", t.at = "WALLET" => t.seen = balance,
           (~overlapped /\ t.op \in {"VERIFY", "WEBHOOK"}) =>
             t.source \notin Posted,
           UNCHANGED <<balance, entry, returned, payment, provider>>
    PROVE  LedgerInv'
<1>1. Unmoved
  BY RowsUnmoved
<1>2. FiniteLedger' /\ BalanceIsLedger'
  BY <1>1, UnmovedLedger DEF LedgerInv, NoteOverlap
<1>3. OneTransaction'
  BY <1>1, TransactionRead DEF LedgerInv, Unmoved
<1>4. CheckoutsFit'
  BY CheckoutsKept DEF LedgerInv
<1> QED BY <1>2, <1>3, <1>4 DEF LedgerInv, TopUpsStand

\* Handler h commits the entry of s.
LEMMA CommitStep ==
    ASSUME NEW h \in Handlers, WalletTypeOK, TasksFit, LedgerInv,
           NEW s \in Sources, h \in InTransaction,
           ~overlapped => s \notin Posted,
           ~overlapped =>
             balance' = IF s \in TopUps \cup Credits THEN balance + Amount[s]
                        ELSE balance - Amount[s],
           entry' = [entry EXCEPT ![s] = "POSTED"],
           NEW t, task' = [task EXCEPT ![h] = t], t.at = "NEXT",
           t.op # "INITIALIZE",
           \A u \in TopUps : payment[u] # "NONE" => payment'[u] # "NONE",
           UNCHANGED <<returned, provider, overlapped>>
    PROVE  LedgerInv'
<1>1. Posted' = Posted \cup {s}
  BY EntryPosted
<1>2. FiniteLedger' /\ BalanceIsLedger'
  <2>1. CASE overlapped
    BY <1>1, <2>1, FS_AddElement DEF LedgerInv, FiniteLedger, BalanceIsLedger
  <2>2. CASE ~overlapped
    <3>1. s \in Sources \ Posted
      BY <2>2
    <3> QED BY <1>1, <2>2, <3>1, PostedLedger DEF LedgerInv
  <2> QED BY <2>1, <2>2
<1>3. OneTransaction'
  BY TransactionOver DEF LedgerInv
<1>4. CheckoutsFit'
  BY CheckoutsKept DEF LedgerInv
<1>5. TopUpsStand'
  BY DEF LedgerInv, TopUpsStand, WalletTypeOK
<1> QED BY <1>2, <1>3, <1>4, <1>5 DEF LedgerInv

\* Every step keeps the balance equal to the ledger.
LEMMA NextLedger ==
    ASSUME WalletInv, LedgerInv, [WalletNext]_walletVars
    PROVE  LedgerInv'
<1>0. /\ WalletTypeOK /\ TasksFit /\ PurchaseRows /\ TopUpsPaidFor
      /\ FiniteLedger /\ CheckoutsFit /\ TopUpsStand /\ OneTransaction
      /\ BalanceIsLedger /\ LedgerInv
  BY DEF WalletInv, LedgerInv
<1>a. NoTask.at = "NEXT" /\ NoTask.op = "IDLE"
  BY DEF NoTask
<1>b. \A u \in TopUps :
        /\ u \in Sources
        /\ u \in Posted => u \in provider.paid /\ payment[u] = "SUCCESSFUL"
  BY <1>0 DEF TopUpsPaidFor, TopUpsStand, Posted, Sources
<1>c. \A h \in Handlers :
        ~overlapped /\ task[h].at = "WALLET" => task[h].seen = balance
  BY <1>0 DEF OneTransaction
<1>1. ASSUME NEW h \in Handlers, NEW u \in TopUps, InitiateWalletTopUp(h, u)
      PROVE  LedgerInv'
  <2> DEFINE t == [op |-> "INITIALIZE", at |-> "PROVIDER", source |-> u,
                   seen |-> 0]
  <2>1. /\ task' = [task EXCEPT ![h] = t] /\ payment[u] = "NONE"
        /\ payment' = [payment EXCEPT ![u] = "PENDING"]
        /\ entry' = [entry EXCEPT ![u] = "PENDING"]
        /\ UNCHANGED <<balance, returned, provider, overlapped>>
    BY <1>1 DEF InitiateWalletTopUp, Begin
  <2>2. u \in Sources \ Posted
    BY <1>b, <2>1
  <2>3. Unmoved
    BY <1>0, <2>1, <2>2, EntryNotPosted DEF Unmoved
  <2>4. FiniteLedger' /\ BalanceIsLedger'
    BY <1>0, <2>1, <2>3, UnmovedLedger
  <2>5. OneTransaction'
    BY <1>0, <2>1, <2>3, TransactionOver DEF Unmoved
  <2>6. CheckoutsFit'
    <3>1. task'[h] = t /\ \A g \in Handlers \ {h} : task'[g] = task[g]
      BY <1>0, <2>1 DEF WalletTypeOK
    <3>2. /\ payment'[u] # "NONE"
          /\ \A v \in TopUps : payment[v] # "NONE" => payment'[v] # "NONE"
      BY <1>0, <2>1 DEF WalletTypeOK
    <3>3. provider.checkout \subseteq TopUps
      BY <1>0 DEF WalletTypeOK, ProviderRow
    <3>4. \A g \in Handlers :
            task[g].op = "INITIALIZE" => task[g].source \in TopUps \ {u}
      BY <1>0, <2>1 DEF TasksFit, TaskFits, CheckoutsFit
    <3>5. u \notin provider.checkout
      BY <1>0, <2>1 DEF CheckoutsFit
    <3> QED BY <1>0, <2>1, <3>1, <3>2, <3>3, <3>4, <3>5 DEF CheckoutsFit
  <2>7. TopUpsStand'
    BY <1>0, <2>1 DEF TopUpsStand, WalletTypeOK
  <2> QED BY <2>4, <2>5, <2>6, <2>7 DEF LedgerInv
<1>2. ASSUME NEW h \in Handlers, Initialized(h)
      PROVE  LedgerInv'
  <2> DEFINE u == task[h].source
  <2>1. /\ task' = [task EXCEPT ![h] = NoTask] /\ task[h].op = "INITIALIZE"
        /\ provider' = [provider EXCEPT !.checkout = @ \cup {u}]
        /\ UNCHANGED <<balance, entry, returned, payment, overlapped>>
    BY <1>2 DEF Initialized, Serves, Finish, rows
  <2>2. Unmoved
    BY <2>1, RowsUnmoved
  <2>3. FiniteLedger' /\ BalanceIsLedger'
    BY <1>0, <2>1, <2>2, UnmovedLedger
  <2>4. OneTransaction'
    BY <1>0, <1>a, <2>1, <2>2, TransactionOver DEF Unmoved
  <2>5. CheckoutsFit'
    <3>1. task'[h] = NoTask /\ \A g \in Handlers \ {h} : task'[g] = task[g]
      BY <1>0, <2>1 DEF WalletTypeOK
    <3>2. /\ provider'.checkout = provider.checkout \cup {u}
          /\ provider'.paid = provider.paid
      BY <1>0, <2>1 DEF WalletTypeOK, ProviderRow
    <3>3. payment[u] # "NONE"
      BY <1>0, <2>1 DEF CheckoutsFit
    <3>4. \A g \in Handlers \ {h} :
            task[g].op = "INITIALIZE" => task[g].source # u
      BY <1>0, <2>1 DEF CheckoutsFit
    <3> QED BY <1>0, <1>a, <2>1, <3>1, <3>2, <3>3, <3>4 DEF CheckoutsFit
  <2> QED BY <1>0, <2>1, <2>3, <2>4, <2>5 DEF LedgerInv, TopUpsStand
<1>3. ASSUME NEW h \in Handlers, InitializeFailed(h)
      PROVE  LedgerInv'
  <2> DEFINE u == task[h].source
  <2>1. /\ task' = [task EXCEPT ![h] = NoTask] /\ task[h].op = "INITIALIZE"
        /\ payment' = [payment EXCEPT ![u] = "FAILED"]
        /\ entry' = [entry EXCEPT ![u] = "FAILED"]
        /\ UNCHANGED <<balance, returned, provider, overlapped>>
    BY <1>3 DEF InitializeFailed, Serves, Finish
  <2>2. u \in TopUps
    BY <1>0, <2>1 DEF TasksFit, TaskFits
  <2>3. u \in Sources \ Posted
    BY <1>0, <1>b, <2>1, <2>2 DEF CheckoutsFit
  <2> HIDE DEF u
  <2>4. Unmoved
    BY <1>0, <2>1, <2>3, EntryNotPosted DEF Unmoved
  <2>5. FiniteLedger' /\ BalanceIsLedger'
    BY <1>0, <2>1, <2>4, UnmovedLedger
  <2>6. OneTransaction'
    BY <1>0, <1>a, <2>1, <2>4, TransactionOver DEF Unmoved
  <2>7. CheckoutsFit'
    <3>1. \A v \in TopUps : payment[v] # "NONE" => payment'[v] # "NONE"
      BY <1>0, <2>1 DEF WalletTypeOK
    <3> QED BY <1>0, <1>a, <2>1, <3>1, CheckoutsKept
  <2>8. TopUpsStand'
    BY <1>0, <2>1 DEF TopUpsStand, WalletTypeOK
  <2> QED BY <2>5, <2>6, <2>7, <2>8 DEF LedgerInv
<1>4. ASSUME NEW h \in Handlers, NEW u \in TopUps, VerifyWalletTopUp(h, u)
      PROVE  LedgerInv'
  <2> DEFINE t == [op |-> "VERIFY", at |-> "ENTRY", source |-> u,
                   seen |-> 0]
  <2>1. /\ task' = [task EXCEPT ![h] = t] /\ NoteOverlap(h)
        /\ UNCHANGED <<balance, entry, returned, payment, provider>>
    BY <1>4 DEF VerifyWalletTopUp, Begin, rows
  <2>2. t.op # "INITIALIZE" /\ (t.at = "WALLET" => t.seen = balance)
    BY <1>4 DEF VerifyWalletTopUp, Begin, rows
  <2>3. (~overlapped /\ t.op \in {"VERIFY", "WEBHOOK"}) =>
          t.source \notin Posted
    BY <1>4 DEF VerifyWalletTopUp, Creditable, Posted
  <2> HIDE DEF t
  <2> QED BY <1>0, <2>1, <2>2, <2>3, ReadStep
<1>5. ASSUME NEW h \in Handlers, NEW u \in TopUps, Webhook(h, u)
      PROVE  LedgerInv'
  <2>1. CASE UNCHANGED <<balance, entry, returned, payment, task, overlapped>>
    <3>1. provider' = provider
      BY <1>5 DEF Webhook
    <3>2. FiniteLedger' /\ BalanceIsLedger'
      BY <1>0, <2>1, RowsUnmoved, UnmovedLedger
    <3> QED BY <1>0, <2>1, <3>1, <3>2 DEF LedgerInv, CheckoutsFit, TopUpsStand,
              OneTransaction, InTransaction, Posted
  <2>2. CASE Creditable(u) /\ Begin(h, "WEBHOOK", "ENTRY", u)
             /\ NoteOverlap(h) /\ UNCHANGED rows
    <3> DEFINE t == [op |-> "WEBHOOK", at |-> "ENTRY", source |-> u,
                     seen |-> 0]
    <3>1. /\ task' = [task EXCEPT ![h] = t] /\ NoteOverlap(h)
          /\ UNCHANGED <<balance, entry, returned, payment, provider>>
      BY <1>5, <2>2 DEF Webhook, Begin, rows
    <3>2. /\ t.op # "INITIALIZE" /\ (t.at = "WALLET" => t.seen = balance)
          /\ t.source \notin Posted
      BY <2>2 DEF Creditable, Posted
    <3> HIDE DEF t
    <3> QED BY <1>0, <3>1, <3>2, ReadStep
  <2> QED BY <1>5, <2>1, <2>2 DEF Webhook
<1>6. ASSUME NEW h \in Handlers, ReadWalletToCredit(h)
      PROVE  LedgerInv'
  <2> DEFINE t == [op |-> task[h].op, at |-> "WALLET",
                   source |-> task[h].source,
                   seen |-> balance]
  <2>1. /\ task' = [task EXCEPT ![h] = t] /\ NoteOverlap(h)
        /\ UNCHANGED <<balance, entry, returned, payment, provider>>
    BY <1>6 DEF ReadWalletToCredit, Serves, ReadWallet, rows
  <2>2. t.op # "INITIALIZE" /\ (t.at = "WALLET" => t.seen = balance)
    BY <1>6 DEF ReadWalletToCredit, Serves, ReadWallet, rows
  <2>3. (~overlapped /\ t.op \in {"VERIFY", "WEBHOOK"}) =>
          t.source \notin Posted
    BY <1>0, <1>6 DEF ReadWalletToCredit, Serves, OneTransaction,
       InTransaction
  <2> HIDE DEF t
  <2> QED BY <1>0, <2>1, <2>2, <2>3, ReadStep
<1>7. ASSUME NEW h \in Handlers, CommitTopUp(h)
      PROVE  LedgerInv'
  <2> DEFINE u == task[h].source
  <2>1. /\ task' = [task EXCEPT ![h] = NoTask]
        /\ task[h].op \in {"VERIFY", "WEBHOOK"} /\ task[h].at = "WALLET"
        /\ balance' = task[h].seen + Amount[u]
        /\ entry' = [entry EXCEPT ![u] = "POSTED"]
        /\ payment' = [payment EXCEPT ![u] = "SUCCESSFUL"]
        /\ UNCHANGED <<returned, provider, overlapped>>
    BY <1>7 DEF CommitTopUp, Serves, Credited, Finish
  <2>2. u \in TopUps /\ u \in Sources
    BY <1>0, <1>b, <2>1 DEF TasksFit, TaskFits
  <2>3. h \in InTransaction /\ (~overlapped => u \notin Posted)
    BY <1>0, <2>1 DEF OneTransaction, InTransaction
  <2>4. ~overlapped => balance' = balance + Amount[u]
    BY <1>c, <2>1
  <2>5. \A v \in TopUps : payment[v] # "NONE" => payment'[v] # "NONE"
    BY <1>0, <2>1 DEF WalletTypeOK
  <2> HIDE DEF u
  <2> QED BY <1>0, <1>a, <2>1, <2>2, <2>3, <2>4, <2>5, CommitStep
<1>8. ASSUME NEW h \in Handlers, NEW o \in WalletOrders, CreateVendorOrder(h, o)
      PROVE  LedgerInv'
  <2> DEFINE t == [op |-> "ORDER", at |-> "WALLET", source |-> o,
                   seen |-> balance]
  <2>1. /\ task' = [task EXCEPT ![h] = t] /\ NoteOverlap(h)
        /\ UNCHANGED <<balance, entry, returned, payment, provider>>
    BY <1>8 DEF CreateVendorOrder, ReadWallet, rows
  <2>2. t.op # "INITIALIZE" /\ (t.at = "WALLET" => t.seen = balance)
    BY <1>8 DEF CreateVendorOrder, ReadWallet, rows
  <2>3. (~overlapped /\ t.op \in {"VERIFY", "WEBHOOK"}) =>
          t.source \notin Posted
    OBVIOUS
  <2> HIDE DEF t
  <2> QED BY <1>0, <2>1, <2>2, <2>3, ReadStep
<1>9. ASSUME NEW h \in Handlers, NEW a \in Credits \cup Debits,
             AdminCreateAdjustment(h, a)
      PROVE  LedgerInv'
  <2> DEFINE t == [op |-> "ADJUST", at |-> "WALLET", source |-> a,
                   seen |-> balance]
  <2>1. /\ task' = [task EXCEPT ![h] = t] /\ NoteOverlap(h)
        /\ UNCHANGED <<balance, entry, returned, payment, provider>>
    BY <1>9 DEF AdminCreateAdjustment, ReadWallet, rows
  <2>2. t.op # "INITIALIZE" /\ (t.at = "WALLET" => t.seen = balance)
    BY <1>9 DEF AdminCreateAdjustment, ReadWallet, rows
  <2>3. (~overlapped /\ t.op \in {"VERIFY", "WEBHOOK"}) =>
          t.source \notin Posted
    OBVIOUS
  <2> HIDE DEF t
  <2> QED BY <1>0, <2>1, <2>2, <2>3, ReadStep
<1>10. ASSUME NEW h \in Handlers, CommitEntry(h)
      PROVE  LedgerInv'
  <2> DEFINE s == task[h].source
  <2>1. /\ task' = [task EXCEPT ![h] = NoTask]
        /\ task[h].op \in {"ORDER", "ADJUST"} /\ task[h].at = "WALLET"
        /\ UNCHANGED <<returned, payment, provider, overlapped>>
    BY <1>10 DEF CommitEntry, Serves, Finish
  <2>2. CASE UNCHANGED <<balance, entry>>
    BY <1>0, <1>a, <2>1, <2>2, QuietStep
  <2>3. CASE /\ entry[s] = "NONE"
             /\ balance' = IF s \in Credits THEN Credited(h) ELSE Debited(h)
             /\ entry' = [entry EXCEPT ![s] = "POSTED"]
    <3>1. s \in Sources /\ s \notin TopUps
      BY <1>0, <2>1, SourcesAssumption DEF TasksFit, TaskFits, Sources
    <3>2. h \in InTransaction /\ s \notin Posted
      BY <2>1, <2>3 DEF InTransaction, Posted
    <3>3. ~overlapped =>
            balance' = IF s \in TopUps \cup Credits THEN balance + Amount[s]
                       ELSE balance - Amount[s]
      BY <1>c, <2>1, <2>3, <3>1 DEF Credited, Debited
    <3> HIDE DEF s
    <3> QED BY <1>0, <1>a, <2>1, <2>3, <3>1, <3>2, <3>3, CommitStep
  <2> QED BY <1>10, <2>2, <2>3 DEF CommitEntry
<1>11. ASSUME NEW h \in Handlers, NEW p \in Purchases, CreateTransaction(h, p)
      PROVE  LedgerInv'
  <2> DEFINE t == [op |-> "PURCHASE", at |-> "WALLET", source |-> p,
                   seen |-> balance]
  <2>1. /\ task' = [task EXCEPT ![h] = t] /\ NoteOverlap(h)
        /\ UNCHANGED <<balance, entry, returned, payment, provider>>
    BY <1>11 DEF CreateTransaction, ReadWallet, rows
  <2>2. t.op # "INITIALIZE" /\ (t.at = "WALLET" => t.seen = balance)
    BY <1>11 DEF CreateTransaction, ReadWallet, rows
  <2>3. (~overlapped /\ t.op \in {"VERIFY", "WEBHOOK"}) =>
          t.source \notin Posted
    OBVIOUS
  <2> HIDE DEF t
  <2> QED BY <1>0, <2>1, <2>2, <2>3, ReadStep
<1>12. ASSUME NEW h \in Handlers, CommitTransaction(h)
      PROVE  LedgerInv'
  <2> DEFINE p == task[h].source
             t == [task[h] EXCEPT !.at = "NEXT"]
  <2>1. /\ task[h].op = "PURCHASE" /\ task[h].at = "WALLET"
        /\ UNCHANGED <<returned, payment, provider, overlapped>>
    BY <1>12 DEF CommitTransaction, Serves
  <2>2. CASE UNCHANGED <<balance, entry>> /\ Finish(h)
    BY <1>0, <1>a, <2>1, <2>2, QuietStep DEF Finish
  <2>3. CASE /\ entry[p] = "NONE" /\ balance' = Debited(h)
             /\ entry' = [entry EXCEPT ![p] = "POSTED"]
             /\ task' = [task EXCEPT ![h].at = "NEXT"]
    <3>1. p \in Sources /\ p \notin TopUps \cup Credits
      BY <1>0, <2>1, SourcesAssumption DEF TasksFit, TaskFits, Sources
    <3>2. h \in InTransaction /\ p \notin Posted
      BY <2>1, <2>3 DEF InTransaction, Posted
    <3>3. ~overlapped =>
            balance' = IF p \in TopUps \cup Credits THEN balance + Amount[p]
                       ELSE balance - Amount[p]
      BY <1>c, <2>1, <2>3, <3>1 DEF Debited
    <3>4. task' = [task EXCEPT ![h] = t]
      BY <2>3
    <3>5. t.at = "NEXT" /\ t.op # "INITIALIZE"
      BY <1>0, <2>1 DEF WalletTypeOK, Task
    <3> HIDE DEF p, t
    <3> QED BY <1>0, <2>1, <2>3, <3>1, <3>2, <3>3, <3>4, <3>5, CommitStep
  <2> QED BY <1>12, <2>2, <2>3 DEF CommitTransaction
<1>13. ASSUME NEW h \in Handlers, Purchase(h)
      PROVE  LedgerInv'
  <2> DEFINE t == [task[h] EXCEPT !.at = "PROVIDER"]
  <2>1. /\ task' = [task EXCEPT ![h] = t]
        /\ UNCHANGED <<balance, entry, returned, payment, overlapped>>
        /\ provider'.checkout = provider.checkout
        /\ provider'.paid = provider.paid
    BY <1>0, <1>13 DEF Purchase, Serves, rows, WalletTypeOK, Task,
       ProviderRow
  <2>2. t.at \in {"NEXT", "PROVIDER"} /\ t.op # "INITIALIZE"
    BY <1>0, <1>a, <1>13 DEF Purchase, Serves, rows, WalletTypeOK, Task,
       ProviderRow
  <2> HIDE DEF t
  <2> QED BY <1>0, <2>1, <2>2, QuietStep
<1>14. ASSUME NEW h \in Handlers, NEW p \in Purchases,
             AdminVerifyProviderStatus(h, p)
      PROVE  LedgerInv'
  <2> DEFINE t == [op |-> "STATUS", at |-> "PROVIDER", source |-> p,
                   seen |-> 0]
  <2>1. /\ task' = [task EXCEPT ![h] = t]
        /\ UNCHANGED <<balance, entry, returned, payment, overlapped>>
        /\ provider'.checkout = provider.checkout
        /\ provider'.paid = provider.paid
    BY <1>0, <1>14 DEF AdminVerifyProviderStatus, Begin, rows
  <2>2. t.at \in {"NEXT", "PROVIDER"} /\ t.op # "INITIALIZE"
    BY <1>0, <1>a, <1>14 DEF AdminVerifyProviderStatus, Begin, rows
  <2> HIDE DEF t
  <2> QED BY <1>0, <2>1, <2>2, QuietStep
<1>15. ASSUME NEW h \in Handlers, ApplyProviderResult(h) \/ PurchaseThrew(h)
      PROVE  LedgerInv'
  <2>1. UNCHANGED <<balance, entry, returned, payment, provider, overlapped>>
    BY <1>15 DEF ApplyProviderResult, PurchaseThrew, rows
  <2>2. PICK status : AfterAnswer(h, status)
    BY <1>15 DEF ApplyProviderResult, PurchaseThrew
  <2> DEFINE t == IF status = "FAILED"
                  THEN [task[h] EXCEPT !.op = "RETURN", !.at = "NEXT"]
                  ELSE NoTask
  <2>3. task' = [task EXCEPT ![h] = t]
    BY <2>2 DEF AfterAnswer
  <2>4. t.at = "NEXT" /\ t.op # "INITIALIZE"
    BY <1>0, <1>a DEF WalletTypeOK, Task
  <2> HIDE DEF t
  <2> QED BY <1>0, <2>1, <2>3, <2>4, QuietStep
<1>16. ASSUME NEW h \in Handlers, NEW p \in Purchases, Cancel(h, p)
      PROVE  LedgerInv'
  <2> DEFINE t == [op |-> "CANCEL", at |-> "NEXT", source |-> p,
                   seen |-> 0]
  <2>1. /\ task' = [task EXCEPT ![h] = t]
        /\ UNCHANGED <<balance, entry, returned, payment, overlapped>>
        /\ provider'.checkout = provider.checkout
        /\ provider'.paid = provider.paid
    BY <1>0, <1>16 DEF Cancel, Begin, rows
  <2>2. t.at \in {"NEXT", "PROVIDER"} /\ t.op # "INITIALIZE"
    BY <1>0, <1>a, <1>16 DEF Cancel, Begin, rows
  <2> HIDE DEF t
  <2> QED BY <1>0, <2>1, <2>2, QuietStep
<1>17. ASSUME NEW h \in Handlers, ReverseWalletDebit(h)
      PROVE  LedgerInv'
  <2> DEFINE op == task[h].op
             p == task[h].source
  <2>1. /\ op \in {"RETURN", "CANCEL"}
        /\ UNCHANGED <<balance, entry, returned, payment, provider>>
    BY <1>17 DEF ReverseWalletDebit, Serves
  <2>2. CASE Finish(h) /\ UNCHANGED overlapped
    BY <1>0, <1>a, <2>1, <2>2, QuietStep DEF Finish
  <2>3. CASE ReadWallet(h, op, p)
    <3> DEFINE t == [op |-> op, at |-> "WALLET", source |-> p,
                     seen |-> balance]
    <3>1. task' = [task EXCEPT ![h] = t] /\ NoteOverlap(h)
      BY <2>3 DEF ReadWallet
    <3>2. t.op \in {"RETURN", "CANCEL"} /\ t.seen = balance
      BY <2>1
    <3> HIDE DEF t
    <3> QED BY <1>0, <2>1, <3>1, <3>2, ReadStep
  <2> QED BY <1>17, <2>2, <2>3 DEF ReverseWalletDebit
<1>18. ASSUME NEW h \in Handlers, CommitReversal(h)
      PROVE  LedgerInv'
  <2> DEFINE p == task[h].source
  <2>1. /\ task' = [task EXCEPT ![h] = NoTask]
        /\ task[h].op \in {"RETURN", "CANCEL"} /\ task[h].at = "WALLET"
        /\ UNCHANGED <<payment, provider, overlapped>>
    BY <1>18 DEF CommitReversal, Serves, Finish
  <2>2. CASE UNCHANGED <<balance, entry, returned>>
    BY <1>0, <1>a, <2>1, <2>2, QuietStep
  <2>3. CASE ReturnKey(p) /\ Reversed(h, p)
    <3>1. p \in Purchases /\ p \in Sources /\ p \notin TopUps /\ p \in Posted
      BY <1>0, <2>1, SourcesAssumption
         DEF TasksFit, TaskFits, Sources, PurchaseRows, Posted
    <3>2. /\ p \in Purchases \ returned /\ returned' = returned \cup {p}
          /\ entry' = [entry EXCEPT ![p] = "REVERSED"]
          /\ balance' = task[h].seen + Amount[p]
      BY <2>3, <3>1 DEF ReturnKey, Reversed, Credited
    <3>3. Posted' = Posted
      BY <1>0, <3>1, <3>2 DEF Posted, WalletTypeOK
    <3>4. FiniteLedger' /\ BalanceIsLedger'
      <4>1. CASE overlapped
        <5>1. IsFiniteSet(returned')
          BY <1>0, <3>2, FS_AddElement DEF FiniteLedger
        <5> QED BY <1>0, <2>1, <3>3, <4>1, <5>1 DEF FiniteLedger,
                  BalanceIsLedger
      <4>2. CASE ~overlapped
        <5>1. balance' = balance + Amount[p]
          BY <1>c, <2>1, <3>2, <4>2
        <5> HIDE DEF p
        <5> QED BY <1>0, <3>2, <3>3, <4>2, <5>1, ReturnedLedger
      <4> QED BY <4>1, <4>2
    <3>5. OneTransaction'
      <4>1. h \in InTransaction
        BY <2>1 DEF InTransaction
      <4> QED BY <1>0, <1>a, <2>1, <4>1, TransactionOver
    <3>6. CheckoutsFit'
      BY <1>0, <1>a, <2>1, CheckoutsKept
    <3>7. TopUpsStand'
      BY <1>0, <3>1, <3>2 DEF TopUpsStand, WalletTypeOK
    <3> QED BY <3>4, <3>5, <3>6, <3>7 DEF LedgerInv
  <2> QED BY <1>18, <2>2, <2>3 DEF CommitReversal
<1>19. ASSUME NEW h \in Handlers, Abandon(h)
      PROVE  LedgerInv'
  <2> DEFINE t == NoTask
  <2>1. /\ task' = [task EXCEPT ![h] = t]
        /\ UNCHANGED <<balance, entry, returned, payment, overlapped>>
        /\ provider'.checkout = provider.checkout
        /\ provider'.paid = provider.paid
    BY <1>0, <1>19 DEF Abandon, Finish, rows
  <2>2. t.at \in {"NEXT", "PROVIDER"} /\ t.op # "INITIALIZE"
    BY <1>0, <1>a, <1>19 DEF Abandon, Finish, rows
  <2> HIDE DEF t
  <2> QED BY <1>0, <2>1, <2>2, QuietStep
<1>20. ASSUME UNCHANGED <<balance, entry, returned, payment, task,
                          overlapped>>,
              provider'.checkout = provider.checkout,
              provider'.paid \subseteq provider'.checkout
      PROVE  LedgerInv'
  <2>1. FiniteLedger' /\ BalanceIsLedger'
    BY <1>0, <1>20, RowsUnmoved, UnmovedLedger
  <2>2. CheckoutsFit'
    BY <1>0, <1>20 DEF CheckoutsFit
  <2> QED BY <1>0, <1>20, <2>1, <2>2 DEF LedgerInv, TopUpsStand,
            OneTransaction, InTransaction, Posted
<1>21. ASSUME NEW u \in TopUps, Pay(u)
      PROVE  LedgerInv'
  <2>1. /\ UNCHANGED <<balance, entry, returned, payment, task, overlapped>>
        /\ provider'.checkout = provider.checkout
        /\ provider'.paid = provider.paid \cup {u} /\ u \in provider.checkout
    BY <1>0, <1>21 DEF Pay, rows, WalletTypeOK, ProviderRow
  <2>2. provider'.paid \subseteq provider'.checkout
    BY <1>0, <2>1 DEF CheckoutsFit
  <2> QED BY <1>20, <2>1, <2>2
<1>22. ASSUME NEW p \in Purchases, Deliver(p)
      PROVE  LedgerInv'
  <2>1. /\ UNCHANGED <<balance, entry, returned, payment, task, overlapped>>
        /\ provider'.checkout = provider.checkout
        /\ provider'.paid = provider.paid
    BY <1>0, <1>22 DEF Deliver, rows, WalletTypeOK, ProviderRow
  <2> QED BY <1>0, <1>20, <2>1 DEF CheckoutsFit
<1>23. CASE Redeploy \/ UNCHANGED walletVars
  <2>1. UNCHANGED <<balance, entry, returned, payment, task, overlapped,
                    provider>>
    BY <1>23 DEF Redeploy, walletVars, rows
  <2> QED BY <1>0, <1>20, <2>1 DEF CheckoutsFit
<1> QED
  BY <1>1, <1>2, <1>3, <1>4, <1>5, <1>6, <1>7, <1>8, <1>9, <1>10, <1>11,
     <1>12, <1>13, <1>14, <1>15, <1>16, <1>17, <1>18, <1>19, <1>21, <1>22,
     <1>23 DEF WalletNext

LEMMA InitLedger == WalletInit => LedgerInv
<1> SUFFICES ASSUME WalletInit PROVE LedgerInv
  OBVIOUS
<1>1. Posted = {} /\ returned = {} /\ balance = 0
  BY DEF WalletInit, Posted
<1>2. FiniteLedger
  BY <1>1, FS_EmptySet DEF FiniteLedger
<1>3. BalanceIsLedger
  <2>1. SumOf({}) = 0
    <3>1. SumOf({}) = SumOver(Amount, {})
      BY DEF SumOf, AmountOf, SumOver, MapThenSumSet, MapThenFoldSet
    <3> QED BY <3>1, SumEmpty
  <2>2. LedgerCredit = SumOf({}) + SumOf({}) /\ LedgerDebit = SumOf({})
    BY <1>1 DEF LedgerCredit, LedgerDebit
  <2> QED BY <1>1, <2>1, <2>2 DEF BalanceIsLedger
<1>4. CheckoutsFit /\ TopUpsStand /\ OneTransaction
  BY DEF WalletInit, CheckoutsFit, TopUpsStand, OneTransaction, InTransaction,
     NoTask, Sources
<1> QED BY <1>2, <1>3, <1>4 DEF LedgerInv

\* As long as no two wallet transactions have overlapped, the balance is what
\* the posted entries add up to, whatever was confirmed twice, returned, cut
\* short or sent again.
THEOREM BalanceFollowsLedger == WalletSpec => []BalanceIsLedger
<1>1. WalletInit => WalletInv /\ LedgerInv
  BY InitWallet, InitLedger
<1>2. WalletInv /\ LedgerInv /\ [WalletNext]_walletVars
        => (WalletInv /\ LedgerInv)'
  BY NextWallet, NextLedger
<1>3. LedgerInv => BalanceIsLedger
  BY DEF LedgerInv
<1> QED BY <1>1, <1>2, <1>3, PTL DEF WalletSpec
=============================================================================
