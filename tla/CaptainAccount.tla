---------------------------- MODULE CaptainAccount ----------------------------
(***************************************************************************)
(* One user's life as a delivery captain: the documents uploaded for an    *)
(* application, the application and its review, the Rider profile it       *)
(* leads to, and the deletion of the account (riders.service.ts,           *)
(* updateRiderLifecycle of admin-operations.service.ts and                 *)
(* account-deletion.service.ts), with the two parties they share state     *)
(* with: the private object storage that holds the files, and dispatch,    *)
(* reduced to one delivery and the captain's work lock.                    *)
(*                                                                         *)
(* A handler checks a snapshot and writes afterwards, by id, whatever the  *)
(* row has become; a file is deleted in the storage between two writes to  *)
(* its row.  A read and a write with nothing awaited in between that       *)
(* another handler could notice are one action.                            *)
(***************************************************************************)
EXTENDS Naturals

CONSTANTS
    Documents,        \* uploads of the required document type
    MaxApplications,  \* applications and deletion requests are numbered in
    MaxDeletions,     \* the order they are created in
    Handlers,         \* requests the service works on at one time
    Nothing

Applications == 1..MaxApplications
Deletions == 1..MaxDeletions

ASSUME AccountAssumption ==
    /\ MaxApplications \in Nat /\ MaxDeletions \in Nat
    /\ Nothing \notin Documents \cup Nat

VARIABLES
    document,    \* [Documents -> DocumentRow]
    stored,      \* the documents whose file is in the storage
    application, \* [Applications -> ApplicationRow]
    rider,       \* the user's Rider row
    user,        \* the User row
    deletion,    \* [Deletions -> DeletionRow]
    job,         \* the delivery dispatch has given this captain
    locked,      \* CaptainWorkState.activeWorkMode is set
    task,        \* [Handlers -> Task]
    interrupted  \* history: a process died or a storage answer was lost

accountVars == <<document, stored, application, rider, user, deletion, job,
                 locked, task, interrupted>>

DocumentRow ==
    [upload : {"NONE", "UPLOADED", "REPLACED", "DELETED"},
     application : Applications \cup {Nothing},
     review : {"PENDING", "APPROVED", "REJECTED"},
     external : {"NONE", "PENDING", "DELETED", "FAILED", "RETAINED"}]

\* UNDER_REVIEW stands for SUBMITTED and PROVISIONALLY_APPROVED too.
ApplicationStatuses ==
    {"UNDER_REVIEW", "CHANGES_REQUESTED", "APPROVED", "REJECTED"}

ApplicationRow ==
    [status : ApplicationStatuses \cup {"NONE"}, trashed : BOOLEAN]

RiderRow == [status : {"NONE", "PENDING_APPROVAL", "ACTIVE", "SUSPENDED"},
             deleted : BOOLEAN]
UserRow == [status : {"ACTIVE", "SUSPENDED", "DEACTIVATED"}, deleted : BOOLEAN]

Scopes == {"CUSTOMER", "CAPTAIN", "COMPLETE_ACCOUNT"}
\* REQUESTED stands for IN_REVIEW too.
Cancellable == {"REQUESTED", "BLOCKED"}
Open == Cancellable \cup {"PROCESSING"}
Terminal == {"COMPLETED", "CANCELLED"}

DeletionRow == [scope : Scopes, status : Open \cup Terminal \cup {"NONE"}]

Jobs == {"NONE", "OPEN", "DELIVERED"}

-----------------------------------------------------------------------------
(***************************************************************************)
(* Requests.  at is where a handler is in its request: COMMIT, its checks  *)
(* are done and its writes are not; LIST, STORE, GONE, KEPT, it is         *)
(* deleting files.                                                         *)
(***************************************************************************)

Ops == {"IDLE", "UPLOAD", "REMOVE", "APPLY", "REVISE", "REVIEW", "ACTIVATE",
        "SUSPEND", "REACTIVATE", "REQUEST", "CANCEL", "UPDATE"}

\* number is the application or deletion request, status what it is to become
\* or the scope asked for, flag the outcome of a check; todo is the list of
\* documents read and kept the ones that were attached.
Task == [op : Ops, at : {"COMMIT", "LIST", "STORE", "GONE", "KEPT"},
         document : Documents \cup {Nothing}, number : Nat,
         status : Open \cup Terminal \cup ApplicationStatuses \cup Scopes
                    \cup {"NONE"},
         flag : BOOLEAN, todo : SUBSET Documents, kept : SUBSET Documents]

NoTask == [op |-> "IDLE", at |-> "COMMIT", document |-> Nothing, number |-> 0,
           status |-> "NONE", flag |-> FALSE, todo |-> {}, kept |-> {}]

AccountTypeOK ==
    /\ document \in [Documents -> DocumentRow]
    /\ stored \subseteq Documents
    /\ application \in [Applications -> ApplicationRow]
    /\ rider \in RiderRow
    /\ user \in UserRow
    /\ deletion \in [Deletions -> DeletionRow]
    /\ job \in Jobs /\ locked \in BOOLEAN
    /\ task \in [Handlers -> Task]
    /\ interrupted \in BOOLEAN

Begin(h, t) == task[h] = NoTask /\ task' = [task EXCEPT ![h] = t]
Serves(h, op) == task[h].op = op /\ task[h].at = "COMMIT"
Finish(h) == task' = [task EXCEPT ![h] = NoTask]

\* JwtStrategy: what every request signed by the user passes
SignedIn == user.status = "ACTIVE" /\ ~user.deleted

-----------------------------------------------------------------------------
(***************************************************************************)
(* Faults: definitions of this module with a bug (README, "Faults").       *)
(***************************************************************************)

\* the row takes the storage's answer as it is
DeletionRecordRaw(at) == at

\* the row is marked before the storage has answered for it
DeletionRecordEarly(at) == "DELETED"

\* a document can be removed after it was attached
RemovableAny(d) == document[d].upload = "UPLOADED"

\* activation trusts the approval it was made with
EvidenceUnchecked(a) == TRUE

\* replaced documents are forgotten
ToReconcileCurrent(scope) ==
    IF scope # "CUSTOMER"
    THEN {d \in Documents : document[d].upload = "UPLOADED"} ELSE {}

-----------------------------------------------------------------------------
(***************************************************************************)
(* Documents: upload and removal by the applicant.                         *)
(***************************************************************************)

Unattached(d) == document[d].upload = "UPLOADED"
                 /\ document[d].application = Nothing

\* The file is stored before there is a row for it, under a key of its own.
UploadDocument(h, d) ==
    /\ SignedIn
    /\ document[d].upload = "NONE" /\ d \notin stored
    /\ \A g \in Handlers : task[g].document # d
    /\ Begin(h, [NoTask EXCEPT !.op = "UPLOAD", !.document = d])
    /\ stored' = stored \cup {d}
    /\ UNCHANGED <<document, application, rider, user, deletion, job, locked,
                   interrupted>>

CommitUpload(h) ==
    /\ Serves(h, "UPLOAD")
    /\ document' = [d \in Documents |->
         IF d = task[h].document
         THEN [upload |-> "UPLOADED", application |-> Nothing,
               review |-> "PENDING", external |-> "NONE"]
         ELSE IF Unattached(d) THEN [document[d] EXCEPT !.upload = "REPLACED"]
         ELSE document[d]]
    /\ Finish(h)
    /\ UNCHANGED <<stored, application, rider, user, deletion, job, locked,
                   interrupted>>

Removable(d) == Unattached(d)

RemoveDocument(h, d) ==
    /\ SignedIn
    /\ Removable(d)
    /\ Begin(h, [NoTask EXCEPT !.op = "REMOVE", !.at = "STORE", !.document = d])
    /\ document' = [document EXCEPT ![d].external = "PENDING"]
    /\ UNCHANGED <<stored, application, rider, user, deletion, job, locked,
                   interrupted>>

\* deleteObject: done, refused, or done and the answer lost.
DeleteObject(h) ==
    /\ task[h].at = "STORE"
    /\ \/ /\ stored' = stored \ {task[h].document}
          /\ task' = [task EXCEPT ![h].at = "GONE"]
          /\ UNCHANGED interrupted
       \/ /\ stored' = stored
          /\ task' = [task EXCEPT ![h].at = "KEPT"]
          /\ UNCHANGED interrupted
       \/ /\ stored' = stored \ {task[h].document}
          /\ task' = [task EXCEPT ![h].at = "KEPT"]
          /\ interrupted' = TRUE
    /\ UNCHANGED <<document, application, rider, user, deletion, job, locked>>

\* What deleteObject's answer says of the row.
DeletionRecord(at) == IF at = "GONE" THEN "DELETED" ELSE "FAILED"

Recorded(row, record) ==
    [row EXCEPT !.external = record,
                !.upload = IF record = "DELETED" THEN "DELETED" ELSE @]

\* After it a removal is over; a deletion of the account goes on with its list
\* or, after a failure, ends.
RecordDeletion(h) ==
    LET d == task[h].document
        record == DeletionRecord(task[h].at)
    IN
    /\ task[h].at \in {"GONE", "KEPT"}
    /\ document' = [document EXCEPT ![d] = Recorded(@, record)]
    /\ IF task[h].op = "UPDATE" /\ record = "DELETED"
       THEN task' = [task EXCEPT ![h] =
              [@ EXCEPT !.at = "LIST", !.document = Nothing]]
       ELSE Finish(h)
    /\ UNCHANGED <<stored, application, rider, user, deletion, job, locked,
                   interrupted>>

-----------------------------------------------------------------------------
(***************************************************************************)
(* Applications and their review.                                          *)
(***************************************************************************)

Exists(a) == application[a].status # "NONE"
Next1(a) == ~Exists(a) /\ \A b \in 1..(a - 1) : Exists(b)
Latest(a) == Exists(a) /\ \A b \in Applications : Exists(b) => b <= a

\* requireCaptainDocuments takes documents of earlier applications too.
Usable(d) == document[d].upload = "UPLOADED"

Submit(h, d) ==
    /\ SignedIn
    /\ \A a \in Applications :
         Exists(a) => application[a].status = "REJECTED" \/ application[a].trashed
    /\ Usable(d)
    /\ Begin(h, [NoTask EXCEPT !.op = "APPLY", !.document = d])
    /\ UNCHANGED <<document, stored, application, rider, user, deletion, job,
                   locked, interrupted>>

CommitSubmit(h) ==
    /\ Serves(h, "APPLY")
    /\ \E a \in Applications :
         /\ Next1(a)
         /\ application' = [application EXCEPT ![a].status = "UNDER_REVIEW"]
         /\ document' = [document EXCEPT ![task[h].document].application = a]
    /\ Finish(h)
    /\ UNCHANGED <<stored, rider, user, deletion, job, locked, interrupted>>

\* The latest of the applications sent back is the one revised.
Revisable(a) == application[a].status = "CHANGES_REQUESTED"
                /\ ~application[a].trashed

SubmitRevision(h, d) ==
    /\ SignedIn
    /\ Usable(d)
    /\ \E a \in Applications :
         /\ Revisable(a) /\ \A b \in Applications : Revisable(b) => b <= a
         /\ Begin(h, [NoTask EXCEPT !.op = "REVISE", !.document = d, !.number = a])
    /\ UNCHANGED <<document, stored, application, rider, user, deletion, job,
                   locked, interrupted>>

CommitRevision(h) ==
    LET d == task[h].document
        a == task[h].number
    IN
    /\ Serves(h, "REVISE")
    /\ document' = IF Unattached(d)
                   THEN [document EXCEPT ![d].application = a] ELSE document
    /\ application' = [application EXCEPT ![a].status = "UNDER_REVIEW"]
    /\ Finish(h)
    /\ UNCHANGED <<stored, rider, user, deletion, job, locked, interrupted>>

EvidenceOf(a) == {d \in Documents : document[d].application = a
                                    /\ document[d].upload = "UPLOADED"}
Approved(a) == \E d \in EvidenceOf(a) : document[d].review = "APPROVED"

\* applicantReadyForCaptainApproval: the flag kept for the transaction
ReviewApplication(h, a, status) ==
    /\ Exists(a) /\ application[a].status # status
    /\ status = "APPROVED" => Approved(a)
    /\ Begin(h, [NoTask EXCEPT !.op = "REVIEW", !.number = a,
                               !.status = status, !.flag = SignedIn])
    /\ UNCHANGED <<document, stored, application, rider, user, deletion, job,
                   locked, interrupted>>

\* ensureRiderAccountForApplication, when the application is approved
CommitReview(h) ==
    LET t == task[h] IN
    /\ Serves(h, "REVIEW")
    /\ IF t.status = "APPROVED" /\ t.flag
       THEN /\ user' = [user EXCEPT !.status = "ACTIVE"]
            /\ rider' = IF rider.status = "NONE"
                        THEN [rider EXCEPT !.status = "PENDING_APPROVAL"]
                        ELSE rider
       ELSE UNCHANGED <<user, rider>>
    /\ application' = [application EXCEPT ![t.number].status = t.status]
    /\ Finish(h)
    /\ UNCHANGED <<document, stored, deletion, job, locked, interrupted>>

ReviewDocument(h, d, verdict) ==
    /\ task[h] = NoTask
    /\ document[d].application # Nothing /\ document[d].upload = "UPLOADED"
    /\ document' = [document EXCEPT ![d].review = verdict]
    /\ UNCHANGED <<stored, application, rider, user, deletion, job, locked,
                   task, interrupted>>

ApproveRequiredDocuments(h, a) ==
    /\ task[h] = NoTask
    /\ EvidenceOf(a) # {}
    /\ document' = [d \in Documents |->
         IF d \in EvidenceOf(a) THEN [document[d] EXCEPT !.review = "APPROVED"]
         ELSE document[d]]
    /\ UNCHANGED <<stored, application, rider, user, deletion, job, locked,
                   task, interrupted>>

Trash(h, a) ==
    /\ task[h] = NoTask
    /\ application[a].status = "REJECTED"
    /\ application' = [application EXCEPT ![a].trashed = TRUE]
    /\ UNCHANGED <<document, stored, rider, user, deletion, job, locked, task,
                   interrupted>>

Restore(h, a) ==
    /\ task[h] = NoTask
    /\ application[a].trashed
    /\ application' = [application EXCEPT ![a].trashed = FALSE]
    /\ UNCHANGED <<document, stored, rider, user, deletion, job, locked, task,
                   interrupted>>

-----------------------------------------------------------------------------
(***************************************************************************)
(* Admins activate, suspend and reactivate the captain.                    *)
(***************************************************************************)

LifecycleAllowed == rider.status # "NONE" /\ ~rider.deleted /\ ~user.deleted

\* ACTIVATE looks at the latest application, trashed or not.
EvidenceChecked(a) == Approved(a)

ActivateRider(h) ==
    /\ LifecycleAllowed
    /\ rider.status = "PENDING_APPROVAL" /\ user.status = "ACTIVE"
    /\ \E a \in Applications :
         Latest(a) /\ application[a].status = "APPROVED" /\ EvidenceChecked(a)
    /\ Begin(h, [NoTask EXCEPT !.op = "ACTIVATE"])
    /\ UNCHANGED <<document, stored, application, rider, user, deletion, job,
                   locked, interrupted>>

SuspendRider(h) ==
    /\ LifecycleAllowed
    /\ rider.status = "ACTIVE" /\ user.status = "ACTIVE"
    /\ Begin(h, [NoTask EXCEPT !.op = "SUSPEND"])
    /\ UNCHANGED <<document, stored, application, rider, user, deletion, job,
                   locked, interrupted>>

ReactivateRider(h) ==
    /\ LifecycleAllowed
    /\ rider.status = "SUSPENDED" /\ user.status # "DEACTIVATED"
    /\ Begin(h, [NoTask EXCEPT !.op = "REACTIVATE"])
    /\ UNCHANGED <<document, stored, application, rider, user, deletion, job,
                   locked, interrupted>>

CommitLifecycle(h) ==
    LET op == task[h].op IN
    /\ op \in {"ACTIVATE", "SUSPEND", "REACTIVATE"}
    /\ rider' = [rider EXCEPT
                   !.status = IF op = "SUSPEND" THEN "SUSPENDED" ELSE "ACTIVE"]
    /\ user' = [user EXCEPT !.status = CASE op = "SUSPEND"    -> "SUSPENDED"
                                         [] op = "REACTIVATE" -> "ACTIVE"
                                         [] OTHER             -> @]
    /\ Finish(h)
    /\ UNCHANGED <<document, stored, application, deletion, job, locked,
                   interrupted>>

-----------------------------------------------------------------------------
(***************************************************************************)
(* Deletion of the account.  busy: the user has an order or a ride open as *)
(* a customer, which the customer's scopes count as a blocker.             *)
(***************************************************************************)

AffectsCaptain(scope) == scope # "CUSTOMER"
AffectsCustomer(scope) == scope # "CAPTAIN"

Blocked(scope, busy) ==
    \/ AffectsCustomer(scope) /\ busy
    \/ AffectsCaptain(scope) /\ job = "OPEN"

RequestDeletion(h, scope, busy) ==
    /\ SignedIn
    /\ scope = "CAPTAIN" => rider.status # "NONE" \/ \E a \in Applications : Exists(a)
    /\ \A k \in Deletions :
         ~(deletion[k].scope = scope /\ deletion[k].status \in Open)
    /\ Begin(h, [NoTask EXCEPT !.op = "REQUEST", !.status = scope,
                               !.flag = Blocked(scope, busy)])
    /\ UNCHANGED <<document, stored, application, rider, user, deletion, job,
                   locked, interrupted>>

CommitRequest(h) ==
    /\ Serves(h, "REQUEST")
    /\ \E k \in Deletions :
         /\ deletion[k].status = "NONE"
         /\ \A j \in 1..(k - 1) : deletion[j].status # "NONE"
         /\ deletion' = [deletion EXCEPT ![k] =
              [scope |-> task[h].status,
               status |-> IF task[h].flag THEN "BLOCKED" ELSE "REQUESTED"]]
    /\ Finish(h)
    /\ UNCHANGED <<document, stored, application, rider, user, job, locked,
                   interrupted>>

CancelDeletion(h) ==
    /\ SignedIn
    /\ \E k \in Deletions :
         /\ deletion[k].status \in Cancellable
         /\ \A j \in Deletions : deletion[j].status \in Cancellable => j <= k
         /\ Begin(h, [NoTask EXCEPT !.op = "CANCEL", !.number = k])
    /\ UNCHANGED <<document, stored, application, rider, user, deletion, job,
                   locked, interrupted>>

CommitCancel(h) ==
    /\ Serves(h, "CANCEL")
    /\ deletion' = [deletion EXCEPT ![task[h].number].status = "CANCELLED"]
    /\ Finish(h)
    /\ UNCHANGED <<document, stored, application, rider, user, job, locked,
                   interrupted>>

\* The documents reconcileStoredObjectsForCompletion reads, and those it keeps.
ToReconcile(scope) ==
    IF AffectsCaptain(scope)
    THEN {d \in Documents : document[d].upload # "NONE"
                            /\ document[d].external # "DELETED"}
    ELSE {}
Kept(d) == document[d].application # Nothing

UpdateDeletion(h, k, status, busy) ==
    LET scope == deletion[k].scope
        blocked == Blocked(scope, busy)
    IN
    /\ deletion[k].status \in Open
    /\ status = "COMPLETED" => ~blocked
    /\ Begin(h, [NoTask EXCEPT
         !.op = "UPDATE", !.number = k,
         !.at = IF status = "COMPLETED" THEN "LIST" ELSE "COMMIT",
         !.status = IF status = "PROCESSING" /\ blocked THEN "BLOCKED" ELSE status,
         !.todo = IF status = "COMPLETED" THEN ToReconcile(scope) ELSE {},
         !.kept = IF status = "COMPLETED"
                  THEN {d \in ToReconcile(scope) : Kept(d)} ELSE {}])
    /\ UNCHANGED <<document, stored, application, rider, user, deletion, job,
                   locked, interrupted>>

\* The next document of the list: kept with a reason, or sent to be deleted.
ReconcileDocument(h) ==
    /\ task[h].at = "LIST"
    /\ \E d \in task[h].todo :
         IF d \in task[h].kept
         THEN /\ document' = [document EXCEPT ![d].external = "RETAINED"]
              /\ task' = [task EXCEPT ![h].todo = @ \ {d}]
         ELSE /\ document' = [document EXCEPT ![d].external = "PENDING"]
              /\ task' = [task EXCEPT ![h] =
                   [@ EXCEPT !.todo = task[h].todo \ {d}, !.at = "STORE",
                             !.document = d]]
    /\ UNCHANGED <<stored, application, rider, user, deletion, job, locked,
                   interrupted>>

ListDone(h) ==
    /\ task[h].at = "LIST" /\ task[h].todo = {}
    /\ task' = [task EXCEPT ![h].at = "COMMIT"]
    /\ UNCHANGED <<document, stored, application, rider, user, deletion, job,
                   locked, interrupted>>

\* applyProcessingSafeguards and applyCompletionSafeguards, with the status.
CommitUpdate(h) ==
    LET k == task[h].number
        status == task[h].status
        scope == deletion[k].scope
        completed == status = "COMPLETED"
    IN
    /\ Serves(h, "UPDATE")
    /\ deletion' = [deletion EXCEPT ![k].status = status]
    /\ locked' = (locked /\ ~(/\ status \in {"PROCESSING", "COMPLETED"}
                              /\ AffectsCaptain(scope)))
    /\ rider' = IF completed /\ AffectsCaptain(scope) /\ rider.status # "NONE"
                THEN [status |-> "SUSPENDED", deleted |-> TRUE] ELSE rider
    /\ user' = IF completed /\ AffectsCustomer(scope)
               THEN [status |-> "DEACTIVATED", deleted |-> TRUE] ELSE user
    /\ Finish(h)
    /\ UNCHANGED <<document, stored, application, job, interrupted>>

-----------------------------------------------------------------------------
(***************************************************************************)
(* Dispatch, as far as the account sees it, and crashes.                   *)
(***************************************************************************)

\* requireAvailableRider and acquireLock; the captain is online.
TakeJob(h) ==
    /\ task[h] = NoTask
    /\ job = "NONE" /\ ~locked
    /\ rider.status = "ACTIVE" /\ ~rider.deleted /\ user.status = "ACTIVE"
    /\ job' = "OPEN" /\ locked' = TRUE
    /\ UNCHANGED <<document, stored, application, rider, user, deletion, task,
                   interrupted>>

DeliverJob(h) ==
    /\ task[h] = NoTask
    /\ job = "OPEN" /\ SignedIn
    /\ job' = "DELIVERED"
    /\ UNCHANGED <<document, stored, application, rider, user, deletion,
                   locked, task, interrupted>>

\* Completed by the captain, or taken back by an admin.
EndJob(h) ==
    /\ task[h] = NoTask
    /\ job # "NONE"
    /\ job' = "NONE" /\ locked' = FALSE
    /\ UNCHANGED <<document, stored, application, rider, user, deletion, task,
                   interrupted>>

\* A handler dies, or a check inside its transaction throws.
AbandonRequest(h) ==
    /\ task[h] # NoTask
    /\ Finish(h)
    /\ interrupted' = TRUE
    /\ UNCHANGED <<document, stored, application, rider, user, deletion, job,
                   locked>>

AccountInit ==
    /\ document = [d \in Documents |->
         [upload |-> "NONE", application |-> Nothing, review |-> "PENDING",
          external |-> "NONE"]]
    /\ stored = {}
    /\ application = [a \in Applications |-> [status |-> "NONE", trashed |-> FALSE]]
    /\ rider = [status |-> "NONE", deleted |-> FALSE]
    /\ user = [status |-> "ACTIVE", deleted |-> FALSE]
    /\ deletion = [k \in Deletions |-> [scope |-> "CAPTAIN", status |-> "NONE"]]
    /\ job = "NONE" /\ locked = FALSE
    /\ task = [h \in Handlers |-> NoTask]
    /\ interrupted = FALSE

DocumentStep(h) ==
    \/ \E d \in Documents : UploadDocument(h, d) \/ RemoveDocument(h, d)
    \/ CommitUpload(h) \/ DeleteObject(h) \/ RecordDeletion(h)

ApplicationStep(h) ==
    \/ \E d \in Documents : Submit(h, d) \/ SubmitRevision(h, d)
    \/ CommitSubmit(h) \/ CommitRevision(h)
    \/ \E a \in Applications : \/ ApproveRequiredDocuments(h, a)
                               \/ Trash(h, a) \/ Restore(h, a)
    \/ \E a \in Applications, status \in ApplicationStatuses :
         ReviewApplication(h, a, status)
    \/ \E d \in Documents, verdict \in {"APPROVED", "REJECTED"} :
         ReviewDocument(h, d, verdict)
    \/ CommitReview(h)

LifecycleStep(h) ==
    \/ ActivateRider(h) \/ SuspendRider(h) \/ ReactivateRider(h)
    \/ CommitLifecycle(h)

DeletionStep(h) ==
    \/ \E scope \in Scopes, busy \in BOOLEAN : RequestDeletion(h, scope, busy)
    \/ CommitRequest(h)
    \/ CancelDeletion(h) \/ CommitCancel(h)
    \/ \E k \in Deletions, status \in Open \cup Terminal, busy \in BOOLEAN :
         UpdateDeletion(h, k, status, busy)
    \/ ReconcileDocument(h) \/ ListDone(h) \/ CommitUpdate(h)

AccountNext ==
    \E h \in Handlers :
      \/ DocumentStep(h) \/ ApplicationStep(h)
      \/ LifecycleStep(h) \/ DeletionStep(h)
      \/ TakeJob(h) \/ DeliverJob(h) \/ EndJob(h)
      \/ AbandonRequest(h)

AccountSpec == AccountInit /\ [][AccountNext]_accountVars

-----------------------------------------------------------------------------
(***************************************************************************)
(* Properties.                                                             *)
(***************************************************************************)

\* A document's row says DELETED only when its file is out of the storage,
\* whoever else removes it or completes a deletion at the same time, whatever
\* the storage answered and wherever a process died (riders.service.ts,
\* account-deletion.service.ts).
DeletedMeansGone ==
    \A d \in Documents : document[d].upload = "DELETED" => d \notin stored

\* While requests do not overlap, and none was interrupted, the file of every
\* document attached to an application is in the storage: replacement,
\* removal and the deletion of the account spare what a review relies on.
EvidenceKept ==
    ~interrupted =>
      \A d \in Documents :
        document[d].application # Nothing =>
          document[d].upload = "UPLOADED" /\ d \in stored

\* While requests do not overlap, a captain is activated only on an approved
\* application whose approved document can be looked at
\* (admin-operations.service.ts): between the approval and the activation the
\* document may be reviewed again, a newer application made, the account
\* deleted.
ActivatedOnEvidence ==
    [][ (rider.status = "PENDING_APPROVAL" /\ rider'.status = "ACTIVE"
           /\ ~interrupted)
        => \E a \in Applications :
             /\ application[a].status = "APPROVED"
             /\ \E d \in EvidenceOf(a) :
                  document[d].review = "APPROVED" /\ d \in stored
      ]_accountVars

\* While requests do not overlap, a deletion of captain access is completed
\* only when the captain has no open delivery and no lock, is out of service,
\* and every file that is left is kept as the evidence of an application: no
\* deletion is pending or failed (account-deletion.service.ts).
CompletionIsClean ==
    [][ \A k \in Deletions :
          (/\ deletion[k].status # "COMPLETED"
           /\ deletion'[k].status = "COMPLETED"
           /\ AffectsCaptain(deletion[k].scope))
          => /\ job # "OPEN" /\ ~locked'
             /\ rider'.status \in {"NONE", "SUSPENDED"}
             /\ \A d \in Documents :
                  /\ document[d].external \notin {"PENDING", "FAILED"}
                  /\ d \in stored /\ ~interrupted =>
                       document[d].application # Nothing
      ]_accountVars
=============================================================================
