-------------------------- MODULE CaptainAccountProofs --------------------------
(***************************************************************************)
(* What TLAPS proves of a captain's account: however many requests         *)
(* overlap, a document said to be deleted is gone; and while they do not   *)
(* overlap, evidence is kept, activations rest on it, and a completed      *)
(* deletion leaves nothing behind.                                         *)
(***************************************************************************)
EXTENDS CaptainAccount, TLAPS

-----------------------------------------------------------------------------
\* What a request that has been begun says: a document is being deleted only
\* for its applicant or for a deletion of the account, what is to be written
\* belongs in its row, and the file that is said to be gone is gone.
TaskFits(t) ==
    /\ t.at \in {"STORE", "GONE", "KEPT"} =>
         t.op \in {"REMOVE", "UPDATE"} /\ t.document \in Documents
    /\ t.at = "LIST" => t.op = "UPDATE"
    /\ t.op \in {"UPLOAD", "APPLY", "REVISE"} => t.document \in Documents
    /\ t.op \in {"REVISE", "REVIEW"} => t.number \in Applications
    /\ t.op \in {"CANCEL", "UPDATE"} => t.number \in Deletions
    /\ t.op = "REQUEST" => t.status \in Scopes
    /\ t.op = "REVIEW" => t.status \in ApplicationStatuses
    /\ t.op = "UPDATE" => t.status \in Open \cup Terminal
    /\ t.at = "GONE" => t.document \notin stored

\* ... of every request.
TasksFit == \A h \in Handlers : TaskFits(task[h])

\* The inductive invariant, however requests overlap.
AccountInv == AccountTypeOK /\ TasksFit /\ DeletedMeansGone
-----------------------------------------------------------------------------
\* Applications and deletion requests are numbered.
LEMMA Numbers == Applications \subseteq Nat /\ Deletions \subseteq Nat
BY AccountAssumption DEF Applications, Deletions

\* A field at a time, a row stays a row.
LEMMA DocumentFields ==
    ASSUME NEW r \in DocumentRow
    PROVE  /\ \A u \in {"NONE", "UPLOADED", "REPLACED", "DELETED"} :
                [r EXCEPT !.upload = u] \in DocumentRow
           /\ \A a \in Applications : [r EXCEPT !.application = a] \in DocumentRow
           /\ \A v \in {"PENDING", "APPROVED", "REJECTED"} :
                [r EXCEPT !.review = v] \in DocumentRow
           /\ \A e \in {"NONE", "PENDING", "DELETED", "FAILED", "RETAINED"} :
                [r EXCEPT !.external = e] \in DocumentRow
BY DEF DocumentRow

\* The same of applications.
LEMMA ApplicationFields ==
    ASSUME NEW r \in ApplicationRow
    PROVE  /\ \A s \in ApplicationStatuses : [r EXCEPT !.status = s] \in ApplicationRow
           /\ \A b \in BOOLEAN : [r EXCEPT !.trashed = b] \in ApplicationRow
BY DEF ApplicationRow

\* Requests, too.
LEMMA TaskFields ==
    ASSUME NEW t \in Task
    PROVE  /\ \A at \in {"COMMIT", "LIST", "STORE", "GONE", "KEPT"} :
                [t EXCEPT !.at = at] \in Task
           /\ \A d \in Documents \cup {Nothing} : [t EXCEPT !.document = d] \in Task
           /\ \A d : [t EXCEPT !.todo = t.todo \ {d}] \in Task
BY DEF Task

\* What a recorded deletion leaves of a document's row.
LEMMA RecordedRow ==
    ASSUME NEW r \in DocumentRow, NEW record \in {"DELETED", "FAILED"}
    PROVE  LET x == Recorded(r, record)
           IN  /\ x \in DocumentRow
               /\ x.external = record /\ x.application = r.application
               /\ x.upload = IF record = "DELETED" THEN "DELETED" ELSE r.upload
BY DEF Recorded, DocumentRow

\* A deletion of the account goes back to its list, or sends the next document
\* to be deleted.
LEMMA ListTask ==
    ASSUME NEW t \in Task
    PROVE  LET x == [t EXCEPT !.at = "LIST", !.document = Nothing]
           IN  /\ x \in Task /\ x.op = t.op /\ x.at = "LIST"
               /\ x.number = t.number /\ x.status = t.status
               /\ x.todo = t.todo /\ x.kept = t.kept
BY DEF Task

LEMMA StoreTask ==
    ASSUME NEW t \in Task, NEW d \in Documents
    PROVE  LET x == [t EXCEPT !.todo = t.todo \ {d}, !.at = "STORE",
                              !.document = d]
           IN  /\ x \in Task /\ x.op = t.op /\ x.at = "STORE"
               /\ x.number = t.number /\ x.status = t.status
               /\ x.todo = t.todo \ {d} /\ x.kept = t.kept /\ x.document = d
BY DEF Task

\* An idle handler serves no request.
LEMMA NoTaskIsTask == NoTask \in Task
BY DEF NoTask, Task, Ops

\* A new account satisfies the invariant.
LEMMA InitAccount == AccountInit => AccountInv
<1> SUFFICES ASSUME AccountInit PROVE AccountInv
  OBVIOUS
<1>2. AccountTypeOK
  BY NoTaskIsTask DEF AccountInit, AccountTypeOK, DocumentRow, ApplicationRow,
     RiderRow, UserRow, DeletionRow, Scopes, Jobs
<1>3. TasksFit
  BY DEF AccountInit, TasksFit, TaskFits, NoTask
<1>4. DeletedMeansGone
  BY DEF AccountInit, DeletedMeansGone
<1> QED BY <1>2, <1>3, <1>4 DEF AccountInv

\* Every step keeps the invariant.
LEMMA NextAccount == AccountInv /\ [AccountNext]_accountVars => AccountInv'
<1> SUFFICES ASSUME AccountInv, [AccountNext]_accountVars PROVE AccountInv'
  OBVIOUS
<1>1. ASSUME NEW h \in Handlers, NEW d \in Documents, UploadDocument(h, d)
      PROVE  AccountInv'
  <2>1. AccountTypeOK'
    <3>1. task' \in [Handlers -> Task]
      BY <1>1, Numbers DEF UploadDocument, Begin, NoTask, AccountInv,
         AccountTypeOK, Task, Ops
    <3> QED BY <1>1, <3>1 DEF UploadDocument, AccountInv, AccountTypeOK
  <2>2. TasksFit'
    BY <1>1 DEF AccountInv, TasksFit, AccountTypeOK, UploadDocument, TaskFits,
       Begin, NoTask
  <2>3. DeletedMeansGone'
    BY <1>1 DEF AccountInv, DeletedMeansGone, AccountTypeOK, UploadDocument
  <2> QED BY <2>1, <2>2, <2>3 DEF AccountInv
<1>2. ASSUME NEW h \in Handlers, NEW d \in Documents, RemoveDocument(h, d)
      PROVE  AccountInv'
  <2>1. AccountTypeOK'
    <3>1. document' \in [Documents -> DocumentRow]
      BY <1>2, DocumentFields DEF RemoveDocument, AccountInv, AccountTypeOK
    <3>2. task' \in [Handlers -> Task]
      BY <1>2, Numbers DEF RemoveDocument, Begin, NoTask, AccountInv,
         AccountTypeOK, Task, Ops
    <3> QED BY <1>2, <3>1, <3>2 DEF RemoveDocument, AccountInv, AccountTypeOK
  <2>2. TasksFit'
    BY <1>2 DEF AccountInv, TasksFit, AccountTypeOK, RemoveDocument, TaskFits,
       Begin
  <2>3. DeletedMeansGone'
    BY <1>2 DEF AccountInv, DeletedMeansGone, AccountTypeOK, RemoveDocument
  <2> QED BY <2>1, <2>2, <2>3 DEF AccountInv
<1>3. ASSUME NEW h \in Handlers, CommitUpload(h)
      PROVE  AccountInv'
  <2>1. AccountTypeOK'
    <3>1. document' \in [Documents -> DocumentRow]
      <4>1. [upload |-> "UPLOADED", application |-> Nothing,
             review |-> "PENDING", external |-> "NONE"] \in DocumentRow
        BY DEF DocumentRow
      <4> QED BY <1>3, <4>1, DocumentFields DEF CommitUpload, AccountInv,
                 AccountTypeOK
    <3>2. task' \in [Handlers -> Task]
      BY <1>3, NoTaskIsTask DEF CommitUpload, Finish, AccountInv,
         AccountTypeOK
    <3> QED BY <1>3, <3>1, <3>2 DEF CommitUpload, AccountInv, AccountTypeOK
  <2>2. TasksFit'
    BY <1>3 DEF AccountInv, TasksFit, AccountTypeOK, CommitUpload, TaskFits,
       Finish, NoTask
  <2>3. DeletedMeansGone'
    BY <1>3 DEF AccountInv, DeletedMeansGone, AccountTypeOK, CommitUpload
  <2> QED BY <2>1, <2>2, <2>3 DEF AccountInv
<1>4. ASSUME NEW h \in Handlers, DeleteObject(h)
      PROVE  AccountInv'
  <2>1. AccountTypeOK'
    <3>1. task' \in [Handlers -> Task]
      BY <1>4, Numbers DEF DeleteObject, AccountInv, AccountTypeOK, Task
    <3> QED BY <1>4, <3>1 DEF DeleteObject, AccountInv, AccountTypeOK
  <2>2. TasksFit'
    BY <1>4 DEF AccountInv, TasksFit, AccountTypeOK, DeleteObject, TaskFits,
       Task, Scopes
  <2>3. DeletedMeansGone'
    BY <1>4 DEF AccountInv, DeletedMeansGone, AccountTypeOK, DeleteObject
  <2> QED BY <2>1, <2>2, <2>3 DEF AccountInv
<1>5. ASSUME NEW h \in Handlers, RecordDeletion(h)
      PROVE  AccountInv'
  <2>1. AccountTypeOK'
    <3>1. document' \in [Documents -> DocumentRow]
      <4>1. task[h].document \in Documents
        BY <1>5 DEF RecordDeletion, AccountInv, TasksFit, TaskFits
      <4>2. DeletionRecord(task[h].at) \in {"DELETED", "FAILED"}
        BY DEF DeletionRecord
      <4>3. document' = [document EXCEPT ![task[h].document] =
                           Recorded(@, DeletionRecord(task[h].at))]
        BY <1>5 DEF RecordDeletion
      <4> QED BY <4>1, <4>2, <4>3, RecordedRow DEF AccountInv, AccountTypeOK
    <3>2. task' \in [Handlers -> Task]
      <4>1. task[h] \in Task
        BY DEF AccountInv, AccountTypeOK
      <4> DEFINE x == [task[h] EXCEPT !.at = "LIST", !.document = Nothing]
      <4>2. x \in Task
        BY <4>1, ListTask
      <4>3. \/ task' = [task EXCEPT ![h] = x]
            \/ task' = [task EXCEPT ![h] = NoTask]
        BY <1>5 DEF RecordDeletion, Finish
      <4> HIDE DEF x
      <4> QED BY <4>2, <4>3, NoTaskIsTask DEF AccountInv, AccountTypeOK
    <3> QED BY <1>5, <3>1, <3>2 DEF RecordDeletion, AccountInv, AccountTypeOK
  <2>2. TasksFit'
    <3>1. \A g \in Handlers \ {h} : task'[g] = task[g]
      BY <1>5 DEF RecordDeletion, Finish, AccountInv, AccountTypeOK
    <3>2. task[h].op = "UPDATE" =>
            task[h].number \in Deletions /\ task[h].status \in Open \cup Terminal
      BY DEF AccountInv, TasksFit, TaskFits
    <3>3. \/ task'[h] = NoTask
          \/ /\ task'[h].op = "UPDATE" /\ task'[h].at = "LIST"
             /\ task[h].op = "UPDATE"
             /\ task'[h].number = task[h].number
             /\ task'[h].status = task[h].status
      <4>1. task[h] \in Task
        BY DEF AccountInv, AccountTypeOK
      <4> DEFINE x == [task[h] EXCEPT !.at = "LIST", !.document = Nothing]
      <4>2. /\ x.op = task[h].op /\ x.at = "LIST"
            /\ x.number = task[h].number /\ x.status = task[h].status
        BY <4>1, ListTask
      <4>3. \/ task' = [task EXCEPT ![h] = NoTask]
            \/ task[h].op = "UPDATE" /\ task' = [task EXCEPT ![h] = x]
        BY <1>5 DEF RecordDeletion, Finish
      <4> HIDE DEF x
      <4> QED BY <4>2, <4>3 DEF AccountInv, AccountTypeOK
    <3> QED BY <1>5, <3>1, <3>2, <3>3 DEF RecordDeletion, AccountInv,
               TasksFit, TaskFits, NoTask
  <2>3. DeletedMeansGone'
    <3>1. PICK c \in Documents : c = task[h].document
      BY <1>5 DEF RecordDeletion, AccountInv, TasksFit, TaskFits
    <3>2. /\ \A d \in Documents \ {c} : document'[d] = document[d]
          /\ document'[c] = Recorded(document[c], DeletionRecord(task[h].at))
          /\ document[c] \in DocumentRow
      BY <1>5, <3>1 DEF RecordDeletion, AccountInv, AccountTypeOK
    <3>3. document'[c].upload = IF task[h].at = "GONE" THEN "DELETED"
                                                       ELSE document[c].upload
      BY <3>2, RecordedRow DEF DeletionRecord
    <3>4. task[h].at = "GONE" => c \notin stored
      BY <1>5, <3>1 DEF RecordDeletion, AccountInv, TasksFit, TaskFits
    <3> QED BY <1>5, <3>2, <3>3, <3>4 DEF RecordDeletion, AccountInv,
               DeletedMeansGone
  <2> QED BY <2>1, <2>2, <2>3 DEF AccountInv
<1>6. ASSUME NEW h \in Handlers, NEW d \in Documents, Submit(h, d)
      PROVE  AccountInv'
  <2>1. AccountTypeOK'
    <3>1. task' \in [Handlers -> Task]
      BY <1>6, Numbers DEF Submit, Begin, NoTask, AccountInv, AccountTypeOK,
         Task, Ops
    <3> QED BY <1>6, <3>1 DEF Submit, AccountInv, AccountTypeOK
  <2>2. TasksFit'
    BY <1>6 DEF AccountInv, TasksFit, AccountTypeOK, Submit, TaskFits, Begin,
       NoTask
  <2>3. DeletedMeansGone'
    BY <1>6 DEF AccountInv, DeletedMeansGone, Submit
  <2> QED BY <2>1, <2>2, <2>3 DEF AccountInv
<1>7. ASSUME NEW h \in Handlers, NEW d \in Documents, SubmitRevision(h, d)
      PROVE  AccountInv'
  <2>1. AccountTypeOK'
    <3>1. task' \in [Handlers -> Task]
      <4>1. PICK a \in Applications :
              Begin(h, [NoTask EXCEPT !.op = "REVISE", !.document = d,
                                      !.number = a])
        BY <1>7 DEF SubmitRevision
      <4> QED BY <4>1, Numbers DEF Begin, NoTask, AccountInv, AccountTypeOK,
                 Task, Ops
    <3> QED BY <1>7, <3>1 DEF SubmitRevision, AccountInv, AccountTypeOK
  <2>2. TasksFit'
    BY <1>7 DEF AccountInv, TasksFit, AccountTypeOK, SubmitRevision, TaskFits,
       Begin, NoTask
  <2>3. DeletedMeansGone'
    BY <1>7 DEF AccountInv, DeletedMeansGone, SubmitRevision
  <2> QED BY <2>1, <2>2, <2>3 DEF AccountInv
<1>8. ASSUME NEW h \in Handlers, CommitSubmit(h)
      PROVE  AccountInv'
  <2>1. AccountTypeOK'
    <3>1. PICK a \in Applications :
            /\ application' = [application EXCEPT ![a].status = "UNDER_REVIEW"]
            /\ document' = [document EXCEPT ![task[h].document].application = a]
      BY <1>8 DEF CommitSubmit
    <3>2. task[h].document \in Documents
      BY <1>8 DEF CommitSubmit, Serves, AccountInv, TasksFit, TaskFits
    <3>3. document' \in [Documents -> DocumentRow]
      BY <3>1, <3>2, DocumentFields DEF AccountInv, AccountTypeOK
    <3>4. application' \in [Applications -> ApplicationRow]
      BY <3>1, ApplicationFields DEF AccountInv, AccountTypeOK,
         ApplicationStatuses
    <3>5. task' \in [Handlers -> Task]
      BY <1>8, NoTaskIsTask DEF CommitSubmit, Finish, AccountInv,
         AccountTypeOK
    <3> QED BY <1>8, <3>3, <3>4, <3>5 DEF CommitSubmit, AccountInv,
               AccountTypeOK
  <2>2. TasksFit'
    BY <1>8 DEF AccountInv, TasksFit, AccountTypeOK, CommitSubmit, TaskFits,
       Finish, NoTask
  <2>3. DeletedMeansGone'
    BY <1>8 DEF AccountInv, DeletedMeansGone, AccountTypeOK, CommitSubmit
  <2> QED BY <2>1, <2>2, <2>3 DEF AccountInv
<1>9. ASSUME NEW h \in Handlers, CommitRevision(h)
      PROVE  AccountInv'
  <2>1. AccountTypeOK'
    <3>2. task[h].document \in Documents /\ task[h].number \in Applications
      BY <1>9 DEF CommitRevision, Serves, AccountInv, TasksFit, TaskFits
    <3>3. document' \in [Documents -> DocumentRow]
      BY <1>9, <3>2, DocumentFields DEF CommitRevision, AccountInv,
         AccountTypeOK
    <3>4. application' \in [Applications -> ApplicationRow]
      BY <1>9, <3>2, ApplicationFields DEF CommitRevision, AccountInv,
         AccountTypeOK, ApplicationStatuses
    <3>5. task' \in [Handlers -> Task]
      BY <1>9, NoTaskIsTask DEF CommitRevision, Finish, AccountInv,
         AccountTypeOK
    <3> QED BY <1>9, <3>3, <3>4, <3>5 DEF CommitRevision, AccountInv,
               AccountTypeOK
  <2>2. TasksFit'
    BY <1>9 DEF AccountInv, TasksFit, AccountTypeOK, CommitRevision, TaskFits,
       Finish, NoTask
  <2>3. DeletedMeansGone'
    BY <1>9 DEF AccountInv, DeletedMeansGone, AccountTypeOK, CommitRevision
  <2> QED BY <2>1, <2>2, <2>3 DEF AccountInv
<1>10. ASSUME NEW h \in Handlers, NEW a \in Applications,
             ApproveRequiredDocuments(h, a)
      PROVE  AccountInv'
  <2>1. AccountTypeOK'
    <3>1. document' \in [Documents -> DocumentRow]
      BY <1>10, DocumentFields DEF ApproveRequiredDocuments, AccountInv,
         AccountTypeOK
    <3> QED BY <1>10, <3>1 DEF ApproveRequiredDocuments, AccountInv,
               AccountTypeOK
  <2>2. DeletedMeansGone'
    BY <1>10 DEF AccountInv, DeletedMeansGone, AccountTypeOK,
       ApproveRequiredDocuments
  <2>3. TasksFit'
    BY <1>10 DEF AccountInv, TasksFit, ApproveRequiredDocuments, TaskFits
  <2> QED BY <2>1, <2>2, <2>3 DEF AccountInv
<1>11. ASSUME NEW h \in Handlers, NEW a \in Applications, Trash(h, a)
      PROVE  AccountInv'
  <2>1. AccountTypeOK'
    <3>1. application' \in [Applications -> ApplicationRow]
      BY <1>11, ApplicationFields DEF Trash, AccountInv, AccountTypeOK
    <3> QED BY <1>11, <3>1 DEF Trash, AccountInv, AccountTypeOK
  <2>2. TasksFit' /\ DeletedMeansGone'
    BY <1>11 DEF AccountInv, TasksFit, DeletedMeansGone, Trash, TaskFits
  <2> QED BY <2>1, <2>2 DEF AccountInv
<1>12. ASSUME NEW h \in Handlers, NEW a \in Applications, Restore(h, a)
      PROVE  AccountInv'
  <2>1. AccountTypeOK'
    <3>1. application' \in [Applications -> ApplicationRow]
      BY <1>12, ApplicationFields DEF Restore, AccountInv, AccountTypeOK
    <3> QED BY <1>12, <3>1 DEF Restore, AccountInv, AccountTypeOK
  <2>2. TasksFit' /\ DeletedMeansGone'
    BY <1>12 DEF AccountInv, TasksFit, DeletedMeansGone, Restore, TaskFits
  <2> QED BY <2>1, <2>2 DEF AccountInv
<1>13. ASSUME NEW h \in Handlers, NEW a \in Applications, NEW s \in ApplicationStatuses,
             ReviewApplication(h, a, s)
      PROVE  AccountInv'
  <2>1. AccountTypeOK'
    <3>1. task' \in [Handlers -> Task]
      <4>1. SignedIn \in BOOLEAN
        BY DEF SignedIn
      <4> QED BY <1>13, <4>1, Numbers DEF ReviewApplication, Begin, NoTask,
                 AccountInv, AccountTypeOK, Task, Ops
    <3> QED BY <1>13, <3>1 DEF ReviewApplication, AccountInv, AccountTypeOK
  <2>2. TasksFit'
    BY <1>13 DEF AccountInv, TasksFit, AccountTypeOK, ReviewApplication,
       TaskFits, Begin, NoTask
  <2>3. DeletedMeansGone'
    BY <1>13 DEF AccountInv, DeletedMeansGone, ReviewApplication
  <2> QED BY <2>1, <2>2, <2>3 DEF AccountInv
<1>14. ASSUME NEW h \in Handlers, NEW d \in Documents, NEW v \in {"APPROVED", "REJECTED"},
             ReviewDocument(h, d, v)
      PROVE  AccountInv'
  <2>1. AccountTypeOK'
    <3>1. document' \in [Documents -> DocumentRow]
      BY <1>14, DocumentFields DEF ReviewDocument, AccountInv, AccountTypeOK
    <3> QED BY <1>14, <3>1 DEF ReviewDocument, AccountInv, AccountTypeOK
  <2>2. DeletedMeansGone'
    BY <1>14 DEF AccountInv, DeletedMeansGone, AccountTypeOK, ReviewDocument
  <2>3. TasksFit'
    BY <1>14 DEF AccountInv, TasksFit, ReviewDocument, TaskFits
  <2> QED BY <2>1, <2>2, <2>3 DEF AccountInv
<1>15. ASSUME NEW h \in Handlers, CommitReview(h)
      PROVE  AccountInv'
  <2>1. AccountTypeOK'
    <3>1. application' \in [Applications -> ApplicationRow]
      <4>1. task[h].number \in Applications /\ task[h].status \in ApplicationStatuses
        BY <1>15 DEF CommitReview, Serves, AccountInv, TasksFit, TaskFits
      <4> QED BY <1>15, <4>1, ApplicationFields DEF CommitReview, AccountInv,
                 AccountTypeOK
    <3>2. rider' \in RiderRow
      BY <1>15 DEF CommitReview, AccountInv, AccountTypeOK, RiderRow
    <3>3. user' \in UserRow
      BY <1>15 DEF CommitReview, AccountInv, AccountTypeOK, UserRow
    <3>4. task' \in [Handlers -> Task]
      BY <1>15, NoTaskIsTask DEF CommitReview, Finish, AccountInv,
         AccountTypeOK
    <3> QED BY <1>15, <3>1, <3>2, <3>3, <3>4 DEF CommitReview, AccountInv,
               AccountTypeOK
  <2>2. TasksFit'
    BY <1>15 DEF AccountInv, TasksFit, AccountTypeOK, CommitReview, TaskFits,
       Finish, NoTask
  <2>3. DeletedMeansGone'
    BY <1>15 DEF AccountInv, DeletedMeansGone, CommitReview
  <2> QED BY <2>1, <2>2, <2>3 DEF AccountInv
<1>16. ASSUME NEW h \in Handlers, ActivateRider(h)
      PROVE  AccountInv'
  <2>1. AccountTypeOK'
    <3>1. task' \in [Handlers -> Task]
      BY <1>16, Numbers DEF ActivateRider, Begin, AccountInv, AccountTypeOK,
         Task, Ops
    <3> QED BY <1>16, <3>1 DEF ActivateRider, AccountInv, AccountTypeOK
  <2>2. TasksFit'
    BY <1>16 DEF AccountInv, TasksFit, AccountTypeOK, ActivateRider, TaskFits,
       Begin, NoTask
  <2>3. DeletedMeansGone'
    BY <1>16 DEF AccountInv, DeletedMeansGone, ActivateRider
  <2> QED BY <2>1, <2>2, <2>3 DEF AccountInv
<1>17. ASSUME NEW h \in Handlers, SuspendRider(h)
      PROVE  AccountInv'
  <2>1. AccountTypeOK'
    <3>1. task' \in [Handlers -> Task]
      BY <1>17, Numbers DEF SuspendRider, Begin, AccountInv, AccountTypeOK,
         Task, Ops
    <3> QED BY <1>17, <3>1 DEF SuspendRider, AccountInv, AccountTypeOK
  <2>2. TasksFit'
    BY <1>17 DEF AccountInv, TasksFit, AccountTypeOK, SuspendRider, TaskFits,
       Begin, NoTask
  <2>3. DeletedMeansGone'
    BY <1>17 DEF AccountInv, DeletedMeansGone, SuspendRider
  <2> QED BY <2>1, <2>2, <2>3 DEF AccountInv
<1>18. ASSUME NEW h \in Handlers, ReactivateRider(h)
      PROVE  AccountInv'
  <2>1. AccountTypeOK'
    <3>1. task' \in [Handlers -> Task]
      BY <1>18, Numbers DEF ReactivateRider, Begin, AccountInv, AccountTypeOK,
         Task, Ops
    <3> QED BY <1>18, <3>1 DEF ReactivateRider, AccountInv, AccountTypeOK
  <2>2. TasksFit'
    BY <1>18 DEF AccountInv, TasksFit, AccountTypeOK, ReactivateRider,
       TaskFits, Begin, NoTask
  <2>3. DeletedMeansGone'
    BY <1>18 DEF AccountInv, DeletedMeansGone, ReactivateRider
  <2> QED BY <2>1, <2>2, <2>3 DEF AccountInv
<1>19. ASSUME NEW h \in Handlers, CommitLifecycle(h)
      PROVE  AccountInv'
  <2>1. AccountTypeOK'
    <3>1. rider' \in RiderRow
      BY <1>19 DEF CommitLifecycle, AccountInv, AccountTypeOK, RiderRow
    <3>2. user' \in UserRow
      BY <1>19 DEF CommitLifecycle, AccountInv, AccountTypeOK, UserRow
    <3>3. task' \in [Handlers -> Task]
      BY <1>19, NoTaskIsTask DEF CommitLifecycle, Finish, AccountInv,
         AccountTypeOK
    <3> QED BY <1>19, <3>1, <3>2, <3>3 DEF CommitLifecycle, AccountInv,
               AccountTypeOK
  <2>2. TasksFit'
    BY <1>19 DEF AccountInv, TasksFit, AccountTypeOK, CommitLifecycle,
       TaskFits, Finish, NoTask
  <2>3. DeletedMeansGone'
    BY <1>19 DEF AccountInv, DeletedMeansGone, CommitLifecycle
  <2> QED BY <2>1, <2>2, <2>3 DEF AccountInv
<1>20. ASSUME NEW h \in Handlers, NEW s \in Scopes, NEW b \in BOOLEAN,
             RequestDeletion(h, s, b)
      PROVE  AccountInv'
  <2>1. AccountTypeOK'
    <3>1. task' \in [Handlers -> Task]
      <4>1. Blocked(s, b) \in BOOLEAN
        BY DEF Blocked
      <4> QED BY <1>20, <4>1 DEF RequestDeletion, Begin, NoTask, AccountInv,
                 AccountTypeOK, Task, Ops
    <3> QED BY <1>20, <3>1 DEF RequestDeletion, AccountInv, AccountTypeOK
  <2>2. TasksFit'
    BY <1>20 DEF AccountInv, TasksFit, AccountTypeOK, RequestDeletion,
       TaskFits, Begin, NoTask
  <2>3. DeletedMeansGone'
    BY <1>20 DEF AccountInv, DeletedMeansGone, RequestDeletion
  <2> QED BY <2>1, <2>2, <2>3 DEF AccountInv
<1>21. ASSUME NEW h \in Handlers, CommitRequest(h)
      PROVE  AccountInv'
  <2>1. AccountTypeOK'
    <3>1. deletion' \in [Deletions -> DeletionRow]
      <4>1. PICK k \in Deletions :
              deletion' = [deletion EXCEPT ![k] =
                [scope |-> task[h].status,
                 status |-> IF task[h].flag THEN "BLOCKED" ELSE "REQUESTED"]]
        BY <1>21 DEF CommitRequest
      <4>2. task[h].status \in Scopes
        BY <1>21 DEF CommitRequest, Serves, AccountInv, TasksFit, TaskFits
      <4>3. [scope |-> task[h].status,
             status |-> IF task[h].flag THEN "BLOCKED" ELSE "REQUESTED"]
              \in DeletionRow
        BY <4>2 DEF DeletionRow, Open, Cancellable
      <4> QED BY <4>1, <4>3 DEF AccountInv, AccountTypeOK
    <3>2. task' \in [Handlers -> Task]
      BY <1>21, NoTaskIsTask DEF CommitRequest, Finish, AccountInv,
         AccountTypeOK
    <3> QED BY <1>21, <3>1, <3>2 DEF CommitRequest, AccountInv, AccountTypeOK
  <2>2. TasksFit'
    BY <1>21 DEF AccountInv, TasksFit, AccountTypeOK, CommitRequest, TaskFits,
       Finish, NoTask
  <2>3. DeletedMeansGone'
    BY <1>21 DEF AccountInv, DeletedMeansGone, CommitRequest
  <2> QED BY <2>1, <2>2, <2>3 DEF AccountInv
<1>22. ASSUME NEW h \in Handlers, CancelDeletion(h)
      PROVE  AccountInv'
  <2>1. AccountTypeOK'
    <3>1. task' \in [Handlers -> Task]
      <4>1. PICK k \in Deletions :
              Begin(h, [NoTask EXCEPT !.op = "CANCEL", !.number = k])
        BY <1>22 DEF CancelDeletion
      <4> QED BY <4>1, Numbers DEF Begin, NoTask, AccountInv, AccountTypeOK,
                 Task, Ops
    <3> QED BY <1>22, <3>1 DEF CancelDeletion, AccountInv, AccountTypeOK
  <2>2. TasksFit'
    BY <1>22 DEF AccountInv, TasksFit, AccountTypeOK, CancelDeletion,
       TaskFits, Begin, NoTask
  <2>3. DeletedMeansGone'
    BY <1>22 DEF AccountInv, DeletedMeansGone, CancelDeletion
  <2> QED BY <2>1, <2>2, <2>3 DEF AccountInv
<1>23. ASSUME NEW h \in Handlers, CommitCancel(h)
      PROVE  AccountInv'
  <2>1. AccountTypeOK'
    <3>1. deletion' \in [Deletions -> DeletionRow]
      BY <1>23 DEF CommitCancel, AccountInv, AccountTypeOK, DeletionRow,
         Terminal
    <3>2. task' \in [Handlers -> Task]
      BY <1>23, NoTaskIsTask DEF CommitCancel, Finish, AccountInv,
         AccountTypeOK
    <3> QED BY <1>23, <3>1, <3>2 DEF CommitCancel, AccountInv, AccountTypeOK
  <2>2. TasksFit'
    BY <1>23 DEF AccountInv, TasksFit, AccountTypeOK, CommitCancel, TaskFits,
       Finish, NoTask
  <2>3. DeletedMeansGone'
    BY <1>23 DEF AccountInv, DeletedMeansGone, CommitCancel
  <2> QED BY <2>1, <2>2, <2>3 DEF AccountInv
<1>24. ASSUME NEW h \in Handlers, NEW k \in Deletions, NEW s \in Open \cup Terminal, NEW b \in BOOLEAN,
             UpdateDeletion(h, k, s, b)
      PROVE  AccountInv'
  <2>1. AccountTypeOK'
    <3>1. task' \in [Handlers -> Task]
      <4> DEFINE blocked == Blocked(deletion[k].scope, b)
                 list == ToReconcile(deletion[k].scope)
                 at == IF s = "COMPLETED" THEN "LIST" ELSE "COMMIT"
                 status == IF s = "PROCESSING" /\ blocked THEN "BLOCKED" ELSE s
                 todo == IF s = "COMPLETED" THEN list ELSE {}
                 kept == IF s = "COMPLETED" THEN {d \in list : Kept(d)} ELSE {}
      <4>1. /\ at \in {"LIST", "COMMIT"} /\ status \in Open \cup Terminal
            /\ todo \subseteq Documents /\ kept \subseteq Documents
        BY DEF ToReconcile, Open, Cancellable
      <4>2. task' = [task EXCEPT ![h] =
                       [NoTask EXCEPT !.op = "UPDATE", !.number = k, !.at = at,
                        !.status = status, !.todo = todo, !.kept = kept]]
        BY <1>24 DEF UpdateDeletion, Begin
      <4> HIDE DEF blocked, list, at, status, todo, kept
      <4>3. [NoTask EXCEPT !.op = "UPDATE", !.number = k, !.at = at,
             !.status = status, !.todo = todo, !.kept = kept] \in Task
        BY <4>1, Numbers DEF NoTask, Task, Ops
      <4> QED BY <4>2, <4>3 DEF AccountInv, AccountTypeOK
    <3> QED BY <1>24, <3>1 DEF UpdateDeletion, AccountInv, AccountTypeOK
  <2>2. TasksFit'
    <3>1. /\ \A g \in Handlers \ {h} : task'[g] = task[g]
          /\ task'[h].op = "UPDATE" /\ task'[h].number = k
          /\ task'[h].at \in {"LIST", "COMMIT"}
          /\ task'[h].status \in Open \cup Terminal
      BY <1>24 DEF UpdateDeletion, Begin, AccountInv, AccountTypeOK, Open,
         Cancellable
    <3> QED BY <1>24, <3>1 DEF UpdateDeletion, AccountInv, TasksFit, TaskFits
  <2>3. DeletedMeansGone'
    BY <1>24 DEF AccountInv, DeletedMeansGone, UpdateDeletion
  <2> QED BY <2>1, <2>2, <2>3 DEF AccountInv
<1>25. ASSUME NEW h \in Handlers, ReconcileDocument(h)
      PROVE  AccountInv'
  <2>1. AccountTypeOK'
    <3>1. PICK d \in task[h].todo :
            IF d \in task[h].kept
            THEN /\ document' = [document EXCEPT ![d].external = "RETAINED"]
                 /\ task' = [task EXCEPT ![h].todo = @ \ {d}]
            ELSE /\ document' = [document EXCEPT ![d].external = "PENDING"]
                 /\ task' = [task EXCEPT ![h] =
                      [@ EXCEPT !.todo = task[h].todo \ {d}, !.at = "STORE",
                                !.document = d]]
      BY <1>25 DEF ReconcileDocument
    <3>2. d \in Documents
      BY <3>1 DEF AccountInv, AccountTypeOK, Task
    <3>3. document' \in [Documents -> DocumentRow]
      <4>1. PICK e \in {"PENDING", "RETAINED"} :
              document' = [document EXCEPT ![d].external = e]
        BY <3>1
      <4> QED BY <3>2, <4>1, DocumentFields DEF AccountInv, AccountTypeOK
    <3>4. task' \in [Handlers -> Task]
      <4>1. task[h] \in Task
        BY DEF AccountInv, AccountTypeOK
      <4> DEFINE x == [task[h] EXCEPT !.todo = task[h].todo \ {d},
                                      !.at = "STORE", !.document = d]
                 y == [task[h] EXCEPT !.todo = task[h].todo \ {d}]
      <4>2. x \in Task /\ y \in Task
        BY <3>2, <4>1, StoreTask, TaskFields
      <4>3. task' = [task EXCEPT ![h] = x] \/ task' = [task EXCEPT ![h] = y]
        BY <3>1
      <4> HIDE DEF x, y
      <4> QED BY <4>2, <4>3 DEF AccountInv, AccountTypeOK
    <3> QED BY <1>25, <3>3, <3>4 DEF ReconcileDocument, AccountInv,
               AccountTypeOK
  <2>2. TasksFit'
    <3>1. PICK d \in Documents :
            \/ task' = [task EXCEPT ![h].todo = @ \ {d}]
            \/ task' = [task EXCEPT ![h] =
                 [@ EXCEPT !.todo = task[h].todo \ {d}, !.at = "STORE",
                           !.document = d]]
      BY <1>25 DEF ReconcileDocument, AccountInv, AccountTypeOK, Task
    <3>2. /\ task[h] \in Task
          /\ \A g \in Handlers \ {h} : task'[g] = task[g]
      BY <3>1 DEF AccountInv, AccountTypeOK
    <3>3. /\ task'[h].op = task[h].op /\ task'[h].number = task[h].number
          /\ task'[h].status = task[h].status
          /\ \/ task'[h].at = "LIST"
             \/ task'[h].at = "STORE" /\ task'[h].document = d
      <4> DEFINE x == [task[h] EXCEPT !.todo = task[h].todo \ {d},
                                      !.at = "STORE", !.document = d]
                 y == [task[h] EXCEPT !.todo = task[h].todo \ {d}]
      <4>1. /\ x.op = task[h].op /\ x.at = "STORE" /\ x.document = d
            /\ x.number = task[h].number /\ x.status = task[h].status
        BY <3>1, <3>2, StoreTask
      <4>2. /\ y.op = task[h].op /\ y.at = "LIST"
            /\ y.number = task[h].number /\ y.status = task[h].status
        BY <1>25, <3>2 DEF ReconcileDocument, Task
      <4>3. task'[h] \in {x, y}
        BY <3>1 DEF AccountInv, AccountTypeOK
      <4> HIDE DEF x, y
      <4> QED BY <4>1, <4>2, <4>3
    <3> QED BY <1>25, <3>1, <3>2, <3>3 DEF ReconcileDocument, AccountInv,
               TasksFit, TaskFits
  <2>3. DeletedMeansGone'
    <3>1. \A d \in Documents : document'[d].upload = document[d].upload
      BY <1>25 DEF ReconcileDocument, AccountInv, AccountTypeOK, DocumentRow
    <3> QED BY <1>25, <3>1 DEF ReconcileDocument, AccountInv, DeletedMeansGone
  <2> QED BY <2>1, <2>2, <2>3 DEF AccountInv
<1>26. ASSUME NEW h \in Handlers, ListDone(h)
      PROVE  AccountInv'
  <2>1. AccountTypeOK'
    <3>1. task' \in [Handlers -> Task]
      BY <1>26, Numbers DEF ListDone, AccountInv, AccountTypeOK, Task
    <3> QED BY <1>26, <3>1 DEF ListDone, AccountInv, AccountTypeOK
  <2>2. TasksFit'
    BY <1>26 DEF AccountInv, TasksFit, AccountTypeOK, ListDone, TaskFits
  <2>3. DeletedMeansGone'
    BY <1>26 DEF AccountInv, DeletedMeansGone, ListDone
  <2> QED BY <2>1, <2>2, <2>3 DEF AccountInv
<1>27. ASSUME NEW h \in Handlers, CommitUpdate(h)
      PROVE  AccountInv'
  <2>1. AccountTypeOK'
    <3>1. rider' \in RiderRow
      BY <1>27 DEF CommitUpdate, AccountInv, AccountTypeOK, RiderRow
    <3>2. user' \in UserRow /\ locked' \in BOOLEAN
      BY <1>27 DEF CommitUpdate, AccountInv, AccountTypeOK, UserRow
    <3>3. deletion' \in [Deletions -> DeletionRow]
      <4>1. task[h].status \in Open \cup Terminal /\ task[h].number \in Deletions
        BY <1>27 DEF CommitUpdate, Serves, AccountInv, TasksFit, TaskFits
      <4> QED BY <1>27, <4>1 DEF CommitUpdate, AccountInv, AccountTypeOK,
                 DeletionRow
    <3>4. task' \in [Handlers -> Task]
      BY <1>27, NoTaskIsTask DEF CommitUpdate, Finish, AccountInv,
         AccountTypeOK
    <3> QED BY <1>27, <3>1, <3>2, <3>3, <3>4 DEF CommitUpdate, AccountInv,
               AccountTypeOK
  <2>2. TasksFit'
    BY <1>27 DEF AccountInv, TasksFit, AccountTypeOK, CommitUpdate, TaskFits,
       Finish, NoTask
  <2>3. DeletedMeansGone'
    BY <1>27 DEF AccountInv, DeletedMeansGone, CommitUpdate
  <2> QED BY <2>1, <2>2, <2>3 DEF AccountInv
<1>28. ASSUME NEW h \in Handlers, TakeJob(h)
      PROVE  AccountInv'
  <2>1. AccountTypeOK'
    <3> QED BY <1>28 DEF TakeJob, AccountInv, AccountTypeOK, Jobs
  <2>2. TasksFit' /\ DeletedMeansGone'
    BY <1>28 DEF AccountInv, TasksFit, DeletedMeansGone, TakeJob, TaskFits
  <2> QED BY <2>1, <2>2 DEF AccountInv
<1>29. ASSUME NEW h \in Handlers, DeliverJob(h)
      PROVE  AccountInv'
  <2>1. AccountTypeOK'
    <3> QED BY <1>29 DEF DeliverJob, AccountInv, AccountTypeOK, Jobs
  <2>2. TasksFit' /\ DeletedMeansGone'
    BY <1>29 DEF AccountInv, TasksFit, DeletedMeansGone, DeliverJob, TaskFits
  <2> QED BY <2>1, <2>2 DEF AccountInv
<1>30. ASSUME NEW h \in Handlers, EndJob(h)
      PROVE  AccountInv'
  <2>1. AccountTypeOK'
    <3> QED BY <1>30 DEF EndJob, AccountInv, AccountTypeOK, Jobs
  <2>2. TasksFit' /\ DeletedMeansGone'
    BY <1>30 DEF AccountInv, TasksFit, DeletedMeansGone, EndJob, TaskFits
  <2> QED BY <2>1, <2>2 DEF AccountInv
<1>31. ASSUME NEW h \in Handlers, AbandonRequest(h)
      PROVE  AccountInv'
  <2>1. AccountTypeOK'
    <3>1. task' \in [Handlers -> Task]
      BY <1>31, Numbers DEF AbandonRequest, NoTask, Finish, AccountInv,
         AccountTypeOK, Task, Ops
    <3> QED BY <1>31, <3>1 DEF AbandonRequest, AccountInv, AccountTypeOK
  <2>2. TasksFit'
    BY <1>31 DEF AccountInv, TasksFit, AccountTypeOK, AbandonRequest,
       TaskFits, NoTask, Finish
  <2>3. DeletedMeansGone'
    BY <1>31 DEF AccountInv, DeletedMeansGone, AbandonRequest
  <2> QED BY <2>1, <2>2, <2>3 DEF AccountInv
<1>32. CASE UNCHANGED accountVars
  BY <1>32 DEF accountVars, AccountInv, AccountTypeOK, TasksFit, TaskFits,
     DeletedMeansGone
<1> QED
  BY <1>1, <1>2, <1>3, <1>4, <1>5, <1>6, <1>7, <1>8, <1>9, <1>10, <1>11,
     <1>12, <1>13, <1>14, <1>15, <1>16, <1>17, <1>18, <1>19, <1>20, <1>21,
     <1>22, <1>23, <1>24, <1>25, <1>26, <1>27, <1>28, <1>29, <1>30, <1>31,
     <1>32 DEF AccountNext, DocumentStep, ApplicationStep, LifecycleStep,
     DeletionStep

\* Hence it always holds.
LEMMA AccountInvariant == AccountSpec => []AccountInv
<1>1. AccountInit => AccountInv
  BY InitAccount
<1>2. AccountInv /\ [AccountNext]_accountVars => AccountInv'
  BY NextAccount
<1> QED BY <1>1, <1>2, PTL DEF AccountSpec

\* Whatever requests overlap, fail or are lost, rows keep their types.
THEOREM AccountTypeCorrect == AccountSpec => []AccountTypeOK
<1>1. AccountInv => AccountTypeOK
  BY DEF AccountInv
<1> QED BY <1>1, AccountInvariant, PTL

\* A document's row says DELETED only when its file is out of the storage,
\* whoever else removes it or completes a deletion at the same time.
THEOREM DeletedDocumentGone == AccountSpec => []DeletedMeansGone
<1>1. AccountInv => DeletedMeansGone
  BY DEF AccountInv
<1> QED BY <1>1, AccountInvariant, PTL

-----------------------------------------------------------------------------
(***************************************************************************)
(* While requests do not overlap.                                          *)
(***************************************************************************)

\* Nothing is left to do for document d when the deletion of its owner's
\* captain access completes.
Cleared(d) ==
    /\ document[d].external \notin {"PENDING", "FAILED"}
    /\ d \in stored /\ ~interrupted => document[d].application # Nothing

\* What a request has checked stays true until it commits, if no other runs:
\* the document uploaded, used or deleted is still what it was, the evidence
\* of an activation is still there, and a deletion that is completing has no
\* work to wait for and has cleared every document that it does not still
\* have to look at.
TaskHolds(t) ==
    /\ t.op = "UPLOAD" =>
         document[t.document].upload = "NONE" /\ t.document \in stored
    /\ t.op \in {"APPLY", "REVISE"} => document[t.document].upload = "UPLOADED"
    /\ t.at \in {"STORE", "GONE", "KEPT"} =>
         /\ document[t.document].application = Nothing
         /\ document[t.document].upload # "NONE"
    /\ \A d \in t.todo :
         /\ document[d].upload # "NONE"
         /\ d \in t.kept <=> document[d].application # Nothing
    /\ t.op = "ACTIVATE" =>
         \E a \in Applications : application[a].status = "APPROVED" /\ Approved(a)
    /\ t.op = "REACTIVATE" => rider.status = "SUSPENDED"
    /\ (/\ t.op = "UPDATE" /\ t.status = "COMPLETED"
        /\ AffectsCaptain(deletion[t.number].scope)) =>
         /\ job # "OPEN"
         /\ \A d \in Documents :
              \/ Cleared(d)
              \/ t.at # "COMMIT" /\ d \in t.todo
              \/ t.at \in {"STORE", "GONE", "KEPT"} /\ d = t.document

TasksHold == \A h \in Handlers : TaskHolds(task[h])

\* An attached document is in use and its file in the storage; one that has no
\* row yet has a file only while it is uploaded; one said to be deleted there
\* is deleted here.
DocumentsKept ==
    \A d \in Documents :
      /\ document[d].application # Nothing => document[d].upload = "UPLOADED"
      /\ document[d].external = "DELETED" => document[d].upload = "DELETED"
      /\ document[d].upload = "UPLOADED" /\ ~interrupted =>
           d \in stored \/ \E h \in Handlers : task[h].at = "GONE"
                                               /\ task[h].document = d
      /\ document[d].upload = "NONE" =>
           /\ document[d].external = "NONE"
           /\ document[d].application = Nothing
           /\ d \in stored /\ ~interrupted =>
                \E h \in Handlers : task[h].op = "UPLOAD" /\ task[h].document = d

\* The inductive invariant while requests do not overlap.
SerialInv == AccountInv /\ TasksHold /\ DocumentsKept

-----------------------------------------------------------------------------
\* A new account satisfies the serial invariant.
LEMMA InitSerial == AccountInit => SerialInv
<1> SUFFICES ASSUME AccountInit PROVE SerialInv
  OBVIOUS
<1>1. TasksHold
  BY DEF AccountInit, TasksHold, TaskHolds, NoTask
<1>2. DocumentsKept
  BY DEF AccountInit, DocumentsKept
<1> QED BY <1>1, <1>2, InitAccount DEF SerialInv

\* Every step keeps it, if there is one handler.
LEMMA NextSerial ==
    ASSUME \A g, h \in Handlers : g = h
    PROVE  SerialInv /\ [AccountNext]_accountVars => SerialInv'
<1> SUFFICES ASSUME SerialInv, [AccountNext]_accountVars PROVE SerialInv'
  OBVIOUS
<1>a. AccountInv /\ AccountInv'
  BY NextAccount DEF SerialInv
<1>b. SUFFICES TasksHold' /\ DocumentsKept'
  BY <1>a DEF SerialInv
<1>1. ASSUME NEW h \in Handlers, NEW d \in Documents, UploadDocument(h, d)
      PROVE  TasksHold' /\ DocumentsKept'
  <2>1. TasksHold'
    BY <1>a, <1>1 DEF SerialInv, TasksHold, TaskHolds, AccountInv, TasksFit,
       TaskFits, AccountTypeOK, UploadDocument, Begin
  <2>2. DocumentsKept'
    BY <1>a, <1>1 DEF SerialInv, DocumentsKept, AccountInv, AccountTypeOK,
       UploadDocument, Begin, NoTask
  <2> QED BY <2>1, <2>2
<1>2. ASSUME NEW h \in Handlers, NEW d \in Documents, RemoveDocument(h, d)
      PROVE  TasksHold' /\ DocumentsKept'
  <2>1. TasksHold'
    BY <1>a, <1>2 DEF SerialInv, TasksHold, TaskHolds, AccountInv,
       AccountTypeOK, RemoveDocument, Removable, Begin, Unattached
  <2>2. DocumentsKept'
    BY <1>a, <1>2 DEF SerialInv, DocumentsKept, AccountInv, AccountTypeOK,
       RemoveDocument, Removable, Begin, NoTask, Unattached
  <2> QED BY <2>1, <2>2
<1>3. ASSUME NEW h \in Handlers, CommitUpload(h)
      PROVE  TasksHold' /\ DocumentsKept'
  <2>1. TasksHold'
    BY <1>a, <1>3 DEF TasksHold, TaskHolds, AccountInv, AccountTypeOK,
       CommitUpload, Finish, NoTask
  <2>2. DocumentsKept'
    BY <1>a, <1>3 DEF SerialInv, TasksHold, TaskHolds, DocumentsKept,
       AccountInv, AccountTypeOK, CommitUpload, Serves, Unattached
  <2> QED BY <2>1, <2>2
<1>4. ASSUME NEW h \in Handlers, DeleteObject(h)
      PROVE  TasksHold' /\ DocumentsKept'
  <2>1. TasksHold'
    <3>1. /\ \A g \in Handlers : g = h
          /\ \A d \in Documents : document'[d] = document[d]
          /\ stored' \subseteq stored /\ (interrupted => interrupted')
      BY <1>4 DEF DeleteObject, AccountInv, AccountTypeOK
    <3>2. \A d \in Documents : Cleared(d) => Cleared(d)'
      BY <1>4, <3>1 DEF DeleteObject, Cleared, AccountInv, AccountTypeOK
    <3>3. task[h].op \in {"REMOVE", "UPDATE"} /\ task[h].document \in Documents
      BY <1>a, <1>4 DEF DeleteObject, AccountInv, TasksFit, TaskFits
    <3>4. /\ task'[h].op = task[h].op /\ task'[h].status = task[h].status
          /\ task'[h].number = task[h].number /\ task'[h].todo = task[h].todo
          /\ task'[h].kept = task[h].kept
          /\ task'[h].document = task[h].document
          /\ task'[h].at \in {"GONE", "KEPT"}
      BY <1>a, <1>4 DEF DeleteObject, AccountInv, AccountTypeOK, Task
    <3>5. TaskHolds(task[h])
      BY DEF SerialInv, TasksHold
    <3>6. TaskHolds(task[h])'
      BY <1>4, <3>1, <3>2, <3>3, <3>4, <3>5 DEF DeleteObject, TaskHolds,
         Approved, EvidenceOf
    <3> QED BY <3>1, <3>6 DEF TasksHold
  <2>2. DocumentsKept'
    <3>1. /\ \/ task'[h].at = "GONE" /\ task'[h].document = task[h].document
             \/ stored' = stored
             \/ interrupted'
          /\ stored' \subseteq stored
          /\ \A d \in stored \ stored' : d = task[h].document
          /\ task[h].at = "STORE" /\ task'[h].op = task[h].op
          /\ task'[h].document = task[h].document
          /\ interrupted => interrupted'
          /\ document' = document
      BY <1>a, <1>4 DEF DeleteObject, AccountInv, AccountTypeOK, Task
    <3> QED BY <3>1 DEF SerialInv, DocumentsKept
  <2> QED BY <2>1, <2>2
<1>5. ASSUME NEW h \in Handlers, RecordDeletion(h)
      PROVE  TasksHold' /\ DocumentsKept'
  <2>1. TasksHold'
    <3>1. PICK c \in Documents : c = task[h].document
      BY <1>a, <1>5 DEF RecordDeletion, AccountInv, TasksFit, TaskFits
    <3>2. CASE task'[h] = NoTask
      BY <3>2 DEF TasksHold, TaskHolds, NoTask
    <3>3. CASE /\ task[h].op = "UPDATE" /\ task[h].at = "GONE"
               /\ task' = [task EXCEPT ![h] =
                            [@ EXCEPT !.at = "LIST", !.document = Nothing]]
      <4>1. /\ task'[h].op = "UPDATE" /\ task'[h].at = "LIST"
            /\ task'[h].status = task[h].status
            /\ task'[h].number = task[h].number
            /\ task'[h].todo = task[h].todo /\ task'[h].kept = task[h].kept
        <5>1. /\ task[h] \in Task
              /\ task'[h] = [task[h] EXCEPT !.at = "LIST", !.document = Nothing]
          BY <1>a, <3>3 DEF AccountInv, AccountTypeOK
        <5> QED BY <3>3, <5>1, ListTask
      <4>2. /\ \A d \in Documents \ {c} : document'[d] = document[d]
            /\ document'[c].external = "DELETED"
            /\ document'[c].upload = "DELETED"
            /\ document'[c].application = document[c].application
        <5>1. /\ \A d \in Documents \ {c} : document'[d] = document[d]
              /\ document'[c] = Recorded(document[c], "DELETED")
              /\ document[c] \in DocumentRow
          BY <1>a, <1>5, <3>1, <3>3 DEF RecordDeletion, DeletionRecord,
             AccountInv, AccountTypeOK
        <5> QED BY <5>1, RecordedRow
      <4>3. c \notin stored
        BY <1>a, <3>1, <3>3 DEF AccountInv, TasksFit, TaskFits
      <4>4. Cleared(c)' /\ \A d \in Documents \ {c} : Cleared(d) => Cleared(d)'
        BY <1>5, <4>2, <4>3 DEF RecordDeletion, Cleared
      <4>5. TaskHolds(task[h]) /\ task[h].todo \subseteq Documents
        BY <1>a DEF SerialInv, TasksHold, AccountInv, AccountTypeOK, Task
      <4>6. \A d \in task'[h].todo :
              /\ document'[d].upload # "NONE"
              /\ d \in task'[h].kept <=> document'[d].application # Nothing
        BY <3>1, <4>1, <4>2, <4>5 DEF TaskHolds
      <4>7. (/\ task'[h].status = "COMPLETED"
             /\ AffectsCaptain(deletion'[task'[h].number].scope)) =>
               /\ job' # "OPEN"
               /\ \A d \in Documents : Cleared(d)' \/ d \in task'[h].todo
        <5>1. UNCHANGED <<job, deletion>>
          BY <1>5 DEF RecordDeletion
        <5> QED BY <3>1, <3>3, <4>1, <4>4, <4>5, <5>1 DEF TaskHolds
      <4>8. TaskHolds(task[h])'
        BY <4>1, <4>6, <4>7 DEF TaskHolds
      <4> QED BY <4>8 DEF TasksHold
    <3>4. \/ task'[h] = NoTask
          \/ /\ task[h].op = "UPDATE" /\ task[h].at = "GONE"
             /\ task' = [task EXCEPT ![h] =
                            [@ EXCEPT !.at = "LIST", !.document = Nothing]]
      BY <1>a, <1>5 DEF RecordDeletion, DeletionRecord, Finish, AccountInv,
         AccountTypeOK
    <3> QED BY <3>2, <3>3, <3>4
  <2>2. DocumentsKept'
    <3>1. PICK c \in Documents : c = task[h].document
      BY <1>a, <1>5 DEF RecordDeletion, AccountInv, TasksFit, TaskFits
    <3>2. /\ \A d \in Documents \ {c} : document'[d] = document[d]
          /\ document'[c] = Recorded(document[c], DeletionRecord(task[h].at))
          /\ document[c] \in DocumentRow
      BY <1>a, <1>5, <3>1 DEF RecordDeletion, AccountInv, AccountTypeOK
    <3>3. /\ document'[c].application = document[c].application
          /\ document'[c].upload = IF task[h].at = "GONE" THEN "DELETED"
                                                          ELSE document[c].upload
          /\ document'[c].external = DeletionRecord(task[h].at)
      BY <3>2, RecordedRow DEF DeletionRecord
    <3>4. /\ document[c].application = Nothing /\ document[c].upload # "NONE"
          /\ task[h].at \in {"GONE", "KEPT"}
      BY <1>a, <1>5, <3>1 DEF RecordDeletion, SerialInv, TasksHold, TaskHolds
    <3>5. UNCHANGED <<stored, interrupted>>
      BY <1>5 DEF RecordDeletion
    <3>6. ASSUME NEW d \in Documents \ {c}, NEW g \in Handlers
          PROVE  ~(task[g].at = "GONE" /\ task[g].document = d)
      BY <1>a, <3>1
    <3>7. ASSUME NEW d \in Documents, d \notin stored, document[d].upload = "UPLOADED",
                 ~interrupted
          PROVE  d = c /\ task[h].at = "GONE"
      BY <1>a, <3>1, <3>6, <3>7 DEF SerialInv, DocumentsKept
    <3> QED BY <1>a, <3>1, <3>2, <3>3, <3>4, <3>5, <3>7 DEF SerialInv,
               DocumentsKept, DeletionRecord
  <2> QED BY <2>1, <2>2
<1>6. ASSUME NEW h \in Handlers, NEW d \in Documents, Submit(h, d)
      PROVE  TasksHold' /\ DocumentsKept'
  <2>1. TasksHold'
    BY <1>a, <1>6 DEF SerialInv, TasksHold, TaskHolds, AccountInv, TasksFit,
       TaskFits, AccountTypeOK, Submit, Usable, Begin
  <2>2. DocumentsKept'
    BY <1>a, <1>6 DEF SerialInv, DocumentsKept, AccountInv, AccountTypeOK,
       Submit, Begin, NoTask
  <2> QED BY <2>1, <2>2
<1>7. ASSUME NEW h \in Handlers, NEW d \in Documents, SubmitRevision(h, d)
      PROVE  TasksHold' /\ DocumentsKept'
  <2>1. TasksHold'
    BY <1>a, <1>7 DEF SerialInv, TasksHold, TaskHolds, AccountInv, TasksFit,
       TaskFits, AccountTypeOK, SubmitRevision, Usable, Begin
  <2>2. DocumentsKept'
    BY <1>a, <1>7 DEF SerialInv, DocumentsKept, AccountInv, AccountTypeOK,
       SubmitRevision, Begin, NoTask
  <2> QED BY <2>1, <2>2
<1>8. ASSUME NEW h \in Handlers, CommitSubmit(h)
      PROVE  TasksHold' /\ DocumentsKept'
  <2>1. TasksHold'
    BY <1>a, <1>8 DEF TasksHold, TaskHolds, AccountInv, AccountTypeOK,
       CommitSubmit, Finish, NoTask
  <2>2. DocumentsKept'
    BY <1>a, <1>8 DEF SerialInv, TasksHold, TaskHolds, DocumentsKept,
       AccountInv, AccountTypeOK, CommitSubmit, Serves
  <2> QED BY <2>1, <2>2
<1>9. ASSUME NEW h \in Handlers, CommitRevision(h)
      PROVE  TasksHold' /\ DocumentsKept'
  <2>1. TasksHold'
    BY <1>a, <1>9 DEF TasksHold, TaskHolds, AccountInv, AccountTypeOK,
       CommitRevision, Finish, NoTask
  <2>2. DocumentsKept'
    BY <1>a, <1>9 DEF SerialInv, TasksHold, TaskHolds, DocumentsKept,
       AccountInv, AccountTypeOK, CommitRevision, Serves
  <2> QED BY <2>1, <2>2
<1>10. ASSUME NEW h \in Handlers, NEW a \in Applications,
             ApproveRequiredDocuments(h, a)
      PROVE  TasksHold' /\ DocumentsKept'
  <2>1. TasksHold'
    BY <1>a, <1>10 DEF TasksHold, TaskHolds, AccountInv, AccountTypeOK,
       ApproveRequiredDocuments, NoTask
  <2>2. DocumentsKept'
    BY <1>a, <1>10 DEF SerialInv, DocumentsKept, AccountInv, AccountTypeOK,
       ApproveRequiredDocuments
  <2> QED BY <2>1, <2>2
<1>11. ASSUME NEW h \in Handlers, NEW a \in Applications, Trash(h, a)
      PROVE  TasksHold' /\ DocumentsKept'
  <2>1. TasksHold'
    BY <1>a, <1>11 DEF TasksHold, TaskHolds, AccountInv, AccountTypeOK, Trash,
       NoTask
  <2>2. DocumentsKept'
    BY <1>a, <1>11 DEF SerialInv, DocumentsKept, AccountInv, AccountTypeOK,
       Trash
  <2> QED BY <2>1, <2>2
<1>12. ASSUME NEW h \in Handlers, NEW a \in Applications, Restore(h, a)
      PROVE  TasksHold' /\ DocumentsKept'
  <2>1. TasksHold'
    BY <1>a, <1>12 DEF TasksHold, TaskHolds, AccountInv, AccountTypeOK,
       Restore, NoTask
  <2>2. DocumentsKept'
    BY <1>a, <1>12 DEF SerialInv, DocumentsKept, AccountInv, AccountTypeOK,
       Restore
  <2> QED BY <2>1, <2>2
<1>13. ASSUME NEW h \in Handlers, NEW a \in Applications, NEW s \in ApplicationStatuses,
             ReviewApplication(h, a, s)
      PROVE  TasksHold' /\ DocumentsKept'
  <2>1. TasksHold'
    BY <1>a, <1>13 DEF SerialInv, TasksHold, TaskHolds, AccountInv,
       AccountTypeOK, ReviewApplication, Begin
  <2>2. DocumentsKept'
    BY <1>a, <1>13 DEF SerialInv, DocumentsKept, AccountInv, AccountTypeOK,
       ReviewApplication, Begin, NoTask
  <2> QED BY <2>1, <2>2
<1>14. ASSUME NEW h \in Handlers, NEW d \in Documents, NEW v \in {"APPROVED", "REJECTED"},
             ReviewDocument(h, d, v)
      PROVE  TasksHold' /\ DocumentsKept'
  <2>1. TasksHold'
    BY <1>a, <1>14 DEF TasksHold, TaskHolds, AccountInv, AccountTypeOK,
       ReviewDocument, NoTask
  <2>2. DocumentsKept'
    BY <1>a, <1>14 DEF SerialInv, DocumentsKept, AccountInv, AccountTypeOK,
       ReviewDocument
  <2> QED BY <2>1, <2>2
<1>15. ASSUME NEW h \in Handlers, CommitReview(h)
      PROVE  TasksHold' /\ DocumentsKept'
  <2>1. TasksHold'
    BY <1>a, <1>15 DEF TasksHold, TaskHolds, AccountInv, AccountTypeOK,
       CommitReview, Finish, NoTask
  <2>2. DocumentsKept'
    BY <1>a, <1>15 DEF SerialInv, DocumentsKept, AccountInv, AccountTypeOK,
       CommitReview, Serves
  <2> QED BY <2>1, <2>2
<1>16. ASSUME NEW h \in Handlers, ActivateRider(h)
      PROVE  TasksHold' /\ DocumentsKept'
  <2>1. TasksHold'
    <3>1. PICK a \in Applications : application[a].status = "APPROVED" /\ Approved(a)
      BY <1>16 DEF ActivateRider, EvidenceChecked
    <3>2. Approved(a)'
      BY <1>16, <3>1 DEF ActivateRider, Approved, EvidenceOf
    <3>3. task'[h] = [NoTask EXCEPT !.op = "ACTIVATE"]
      BY <1>a, <1>16 DEF ActivateRider, Begin, AccountInv, AccountTypeOK
    <3> QED BY <1>16, <3>1, <3>2, <3>3 DEF ActivateRider, TasksHold,
               TaskHolds, NoTask
  <2>2. DocumentsKept'
    BY <1>a, <1>16 DEF SerialInv, DocumentsKept, AccountInv, AccountTypeOK,
       ActivateRider, Begin, NoTask
  <2> QED BY <2>1, <2>2
<1>17. ASSUME NEW h \in Handlers, SuspendRider(h)
      PROVE  TasksHold' /\ DocumentsKept'
  <2>1. TasksHold'
    BY <1>a, <1>17 DEF SerialInv, TasksHold, TaskHolds, AccountInv,
       AccountTypeOK, SuspendRider, Begin
  <2>2. DocumentsKept'
    BY <1>a, <1>17 DEF SerialInv, DocumentsKept, AccountInv, AccountTypeOK,
       SuspendRider, Begin, NoTask
  <2> QED BY <2>1, <2>2
<1>18. ASSUME NEW h \in Handlers, ReactivateRider(h)
      PROVE  TasksHold' /\ DocumentsKept'
  <2>1. TasksHold'
    BY <1>a, <1>18 DEF SerialInv, TasksHold, TaskHolds, AccountInv,
       AccountTypeOK, ReactivateRider, Begin
  <2>2. DocumentsKept'
    BY <1>a, <1>18 DEF SerialInv, DocumentsKept, AccountInv, AccountTypeOK,
       ReactivateRider, Begin, NoTask
  <2> QED BY <2>1, <2>2
<1>19. ASSUME NEW h \in Handlers, CommitLifecycle(h)
      PROVE  TasksHold' /\ DocumentsKept'
  <2>1. TasksHold'
    BY <1>a, <1>19 DEF TasksHold, TaskHolds, AccountInv, AccountTypeOK,
       CommitLifecycle, Finish, NoTask
  <2>2. DocumentsKept'
    BY <1>a, <1>19 DEF SerialInv, DocumentsKept, AccountInv, TasksFit,
       TaskFits, AccountTypeOK, CommitLifecycle
  <2> QED BY <2>1, <2>2
<1>20. ASSUME NEW h \in Handlers, NEW s \in Scopes, NEW b \in BOOLEAN,
             RequestDeletion(h, s, b)
      PROVE  TasksHold' /\ DocumentsKept'
  <2>1. TasksHold'
    BY <1>a, <1>20 DEF SerialInv, TasksHold, TaskHolds, AccountInv,
       AccountTypeOK, RequestDeletion, Begin
  <2>2. DocumentsKept'
    BY <1>a, <1>20 DEF SerialInv, DocumentsKept, AccountInv, AccountTypeOK,
       RequestDeletion, Begin, NoTask
  <2> QED BY <2>1, <2>2
<1>21. ASSUME NEW h \in Handlers, CommitRequest(h)
      PROVE  TasksHold' /\ DocumentsKept'
  <2>1. TasksHold'
    BY <1>a, <1>21 DEF TasksHold, TaskHolds, AccountInv, AccountTypeOK,
       CommitRequest, Finish, NoTask
  <2>2. DocumentsKept'
    BY <1>a, <1>21 DEF SerialInv, DocumentsKept, AccountInv, AccountTypeOK,
       CommitRequest, Serves
  <2> QED BY <2>1, <2>2
<1>22. ASSUME NEW h \in Handlers, CancelDeletion(h)
      PROVE  TasksHold' /\ DocumentsKept'
  <2>1. TasksHold'
    BY <1>a, <1>22 DEF SerialInv, TasksHold, TaskHolds, AccountInv,
       AccountTypeOK, CancelDeletion, Begin
  <2>2. DocumentsKept'
    BY <1>a, <1>22 DEF SerialInv, DocumentsKept, AccountInv, AccountTypeOK,
       CancelDeletion, Begin, NoTask
  <2> QED BY <2>1, <2>2
<1>23. ASSUME NEW h \in Handlers, CommitCancel(h)
      PROVE  TasksHold' /\ DocumentsKept'
  <2>1. TasksHold'
    BY <1>a, <1>23 DEF TasksHold, TaskHolds, AccountInv, AccountTypeOK,
       CommitCancel, Finish, NoTask
  <2>2. DocumentsKept'
    BY <1>a, <1>23 DEF SerialInv, DocumentsKept, AccountInv, AccountTypeOK,
       CommitCancel, Serves
  <2> QED BY <2>1, <2>2
<1>24. ASSUME NEW h \in Handlers, NEW k \in Deletions, NEW s \in Open \cup Terminal, NEW b \in BOOLEAN,
             UpdateDeletion(h, k, s, b)
      PROVE  TasksHold' /\ DocumentsKept'
  <2>1. TasksHold'
    <3> DEFINE scope == deletion[k].scope
    <3>1. /\ task[h] = NoTask /\ UNCHANGED <<document, stored, deletion, job,
                                             interrupted>>
          /\ task'[h].op = "UPDATE" /\ task'[h].number = k
          /\ task'[h].at \in {"LIST", "COMMIT"}
          /\ task'[h].status = "COMPLETED" =>
               /\ task'[h].at = "LIST" /\ ~Blocked(scope, b)
               /\ task'[h].todo = ToReconcile(scope)
          /\ \/ task'[h].todo = {}
             \/ /\ task'[h].todo = ToReconcile(scope)
                /\ task'[h].kept = {d \in ToReconcile(scope) : Kept(d)}
      BY <1>a, <1>24 DEF UpdateDeletion, Begin, AccountInv, AccountTypeOK
    <3>2. \A d \in ToReconcile(scope) : document[d].upload # "NONE"
      BY DEF ToReconcile
    <3>3. ASSUME AffectsCaptain(scope), NEW d \in Documents,
                 d \notin ToReconcile(scope)
          PROVE  Cleared(d)
      <4>1. document[d].upload = "NONE" \/ document[d].external = "DELETED"
        BY <3>3 DEF ToReconcile
      <4>2. CASE document[d].upload = "NONE"
        BY <3>1, <4>2 DEF Cleared, SerialInv, DocumentsKept, NoTask
      <4>3. CASE document[d].external = "DELETED"
        BY <1>a, <4>3 DEF Cleared, SerialInv, DocumentsKept, AccountInv,
           DeletedMeansGone
      <4> QED BY <4>1, <4>2, <4>3
    <3>4. \A d \in Documents : Cleared(d)' <=> Cleared(d)
      BY <3>1 DEF Cleared
    <3>5. TaskHolds(task[h])'
      BY <3>1, <3>2, <3>3, <3>4 DEF TaskHolds, Kept, Blocked
    <3> QED BY <3>5 DEF TasksHold
  <2>2. DocumentsKept'
    BY <1>a, <1>24 DEF SerialInv, DocumentsKept, AccountInv, AccountTypeOK,
       UpdateDeletion, Begin, NoTask
  <2> QED BY <2>1, <2>2
<1>25. ASSUME NEW h \in Handlers, ReconcileDocument(h)
      PROVE  TasksHold' /\ DocumentsKept'
  <2>1. TasksHold'
    <3>1. PICK d \in task[h].todo :
            IF d \in task[h].kept
            THEN /\ document' = [document EXCEPT ![d].external = "RETAINED"]
                 /\ task' = [task EXCEPT ![h].todo = @ \ {d}]
            ELSE /\ document' = [document EXCEPT ![d].external = "PENDING"]
                 /\ task' = [task EXCEPT ![h] =
                      [@ EXCEPT !.todo = task[h].todo \ {d}, !.at = "STORE",
                                !.document = d]]
      BY <1>25 DEF ReconcileDocument
    <3>2. d \in Documents /\ task[h].op = "UPDATE" /\ task[h].at = "LIST"
      BY <1>a, <1>25, <3>1 DEF ReconcileDocument, AccountInv, AccountTypeOK,
         Task, TasksFit, TaskFits
    <3>3. /\ \A e \in Documents \ {d} : document'[e] = document[e]
          /\ document'[d].upload = document[d].upload
          /\ document'[d].application = document[d].application
          /\ document'[d].external =
               IF d \in task[h].kept THEN "RETAINED" ELSE "PENDING"
      BY <1>a, <3>1, <3>2 DEF AccountInv, AccountTypeOK, DocumentRow
    <3>4. /\ task'[h].op = task[h].op /\ task'[h].status = task[h].status
          /\ task'[h].number = task[h].number /\ task'[h].kept = task[h].kept
          /\ task'[h].todo = task[h].todo \ {d}
          /\ IF d \in task[h].kept THEN task'[h].at = "LIST"
             ELSE task'[h].at = "STORE" /\ task'[h].document = d
      <4>1. task[h] \in Task
        BY <1>a DEF AccountInv, AccountTypeOK
      <4>2. CASE d \in task[h].kept
        <5>1. task'[h] = [task[h] EXCEPT !.todo = @ \ {d}]
          BY <1>a, <3>1, <4>2 DEF AccountInv, AccountTypeOK
        <5> QED BY <3>2, <4>1, <4>2, <5>1 DEF Task
      <4>3. CASE d \notin task[h].kept
        <5> DEFINE x == [task[h] EXCEPT !.todo = task[h].todo \ {d},
                                        !.at = "STORE", !.document = d]
        <5>1. task'[h] = x
          BY <1>a, <3>1, <4>3 DEF AccountInv, AccountTypeOK
        <5>2. /\ x.op = task[h].op /\ x.at = "STORE"
              /\ x.number = task[h].number /\ x.status = task[h].status
              /\ x.todo = task[h].todo \ {d} /\ x.kept = task[h].kept
              /\ x.document = d
          BY <4>1 DEF Task
        <5> HIDE DEF x
        <5> QED BY <4>3, <5>1, <5>2
      <4> QED BY <4>2, <4>3
    <3>5. TaskHolds(task[h]) /\ task[h].todo \subseteq Documents
      BY <1>a DEF SerialInv, TasksHold, AccountInv, AccountTypeOK, Task
    <3>6. /\ d \in task[h].kept => Cleared(d)'
          /\ \A e \in Documents \ {d} : Cleared(e) => Cleared(e)'
      BY <1>25, <3>1, <3>3, <3>5 DEF ReconcileDocument, Cleared, TaskHolds
    <3>7. TaskHolds(task[h])'
      BY <1>25, <3>1, <3>2, <3>3, <3>4, <3>5, <3>6 DEF ReconcileDocument,
         TaskHolds
    <3> QED BY <3>7 DEF TasksHold
  <2>2. DocumentsKept'
    <3>1. PICK d \in task[h].todo :
            IF d \in task[h].kept
            THEN /\ document' = [document EXCEPT ![d].external = "RETAINED"]
                 /\ task' = [task EXCEPT ![h].todo = @ \ {d}]
            ELSE /\ document' = [document EXCEPT ![d].external = "PENDING"]
                 /\ task' = [task EXCEPT ![h] =
                      [@ EXCEPT !.todo = task[h].todo \ {d}, !.at = "STORE",
                                !.document = d]]
      BY <1>25 DEF ReconcileDocument
    <3>2. d \in Documents /\ task[h].op = "UPDATE" /\ task[h].at = "LIST"
      BY <1>a, <1>25, <3>1 DEF ReconcileDocument, AccountInv, AccountTypeOK,
         Task, TasksFit, TaskFits
    <3>3. /\ \A e \in Documents \ {d} : document'[e] = document[e]
          /\ document'[d].upload = document[d].upload
          /\ document'[d].application = document[d].application
          /\ document'[d].external =
               IF d \in task[h].kept THEN "RETAINED" ELSE "PENDING"
      BY <1>a, <3>1, <3>2 DEF AccountInv, AccountTypeOK, DocumentRow
    <3>4. document[d].upload # "NONE"
      BY <3>1 DEF SerialInv, TasksHold, TaskHolds
    <3>5. \A g \in Handlers : task[g].op = "UPDATE" /\ task[g].at = "LIST"
      BY <3>2
    <3> QED BY <1>25, <3>2, <3>3, <3>4, <3>5 DEF ReconcileDocument, SerialInv,
               DocumentsKept
  <2> QED BY <2>1, <2>2
<1>26. ASSUME NEW h \in Handlers, ListDone(h)
      PROVE  TasksHold' /\ DocumentsKept'
  <2>1. TasksHold'
    BY <1>a, <1>26 DEF SerialInv, TasksHold, TaskHolds, AccountInv, TasksFit,
       TaskFits, AccountTypeOK, ListDone, Cleared
  <2>2. DocumentsKept'
    BY <1>a, <1>26 DEF SerialInv, DocumentsKept, AccountInv, AccountTypeOK,
       ListDone
  <2> QED BY <2>1, <2>2
<1>27. ASSUME NEW h \in Handlers, CommitUpdate(h)
      PROVE  TasksHold' /\ DocumentsKept'
  <2>1. TasksHold'
    BY <1>a, <1>27 DEF TasksHold, TaskHolds, AccountInv, AccountTypeOK,
       CommitUpdate, Finish, NoTask
  <2>2. DocumentsKept'
    BY <1>a, <1>27 DEF SerialInv, DocumentsKept, AccountInv, AccountTypeOK,
       CommitUpdate, Serves
  <2> QED BY <2>1, <2>2
<1>28. ASSUME NEW h \in Handlers, TakeJob(h)
      PROVE  TasksHold' /\ DocumentsKept'
  <2>1. TasksHold'
    BY <1>a, <1>28 DEF TasksHold, TaskHolds, AccountInv, AccountTypeOK,
       TakeJob, NoTask
  <2>2. DocumentsKept'
    BY <1>a, <1>28 DEF SerialInv, DocumentsKept, AccountInv, AccountTypeOK,
       TakeJob
  <2> QED BY <2>1, <2>2
<1>29. ASSUME NEW h \in Handlers, DeliverJob(h)
      PROVE  TasksHold' /\ DocumentsKept'
  <2>1. TasksHold'
    BY <1>a, <1>29 DEF TasksHold, TaskHolds, AccountInv, AccountTypeOK,
       DeliverJob, NoTask
  <2>2. DocumentsKept'
    BY <1>a, <1>29 DEF SerialInv, DocumentsKept, AccountInv, AccountTypeOK,
       DeliverJob
  <2> QED BY <2>1, <2>2
<1>30. ASSUME NEW h \in Handlers, EndJob(h)
      PROVE  TasksHold' /\ DocumentsKept'
  <2>1. TasksHold'
    BY <1>a, <1>30 DEF TasksHold, TaskHolds, AccountInv, AccountTypeOK,
       EndJob, NoTask
  <2>2. DocumentsKept'
    BY <1>a, <1>30 DEF SerialInv, DocumentsKept, AccountInv, AccountTypeOK,
       EndJob
  <2> QED BY <2>1, <2>2
<1>31. ASSUME NEW h \in Handlers, AbandonRequest(h)
      PROVE  TasksHold' /\ DocumentsKept'
  <2>1. TasksHold'
    BY <1>a, <1>31 DEF TasksHold, TaskHolds, AccountInv, AccountTypeOK,
       AbandonRequest, Finish, NoTask
  <2>2. DocumentsKept'
    BY <1>a, <1>31 DEF SerialInv, DocumentsKept, AccountInv, AccountTypeOK,
       AbandonRequest
  <2> QED BY <2>1, <2>2
<1>32. CASE UNCHANGED accountVars
  BY <1>32 DEF accountVars, SerialInv, TasksHold, TaskHolds, DocumentsKept,
     Cleared, Approved, EvidenceOf
<1> QED
  BY <1>1, <1>2, <1>3, <1>4, <1>5, <1>6, <1>7, <1>8, <1>9, <1>10, <1>11,
     <1>12, <1>13, <1>14, <1>15, <1>16, <1>17, <1>18, <1>19, <1>20, <1>21,
     <1>22, <1>23, <1>24, <1>25, <1>26, <1>27, <1>28, <1>29, <1>30, <1>31,
     <1>32 DEF AccountNext, DocumentStep, ApplicationStep, LifecycleStep,
     DeletionStep

\* Hence it always holds.
LEMMA SerialInvariant ==
    ASSUME \A g, h \in Handlers : g = h
    PROVE  AccountSpec => []SerialInv
<1>1. AccountInit => SerialInv
  BY InitSerial
<1>2. SerialInv /\ [AccountNext]_accountVars => SerialInv'
  BY NextSerial
<1> QED BY <1>1, <1>2, PTL DEF AccountSpec

\* In a state of the serial invariant attached documents are kept.
LEMMA EvidenceFromSerial == SerialInv => EvidenceKept
<1> SUFFICES ASSUME SerialInv, ~interrupted, NEW d \in Documents,
                    document[d].application # Nothing
             PROVE  document[d].upload = "UPLOADED" /\ d \in stored
  BY DEF EvidenceKept
<1>1. document[d].upload = "UPLOADED"
  BY DEF SerialInv, DocumentsKept
<1>2. \A h \in Handlers : ~(task[h].at = "GONE" /\ task[h].document = d)
  BY DEF SerialInv, TasksHold, TaskHolds
<1> QED BY <1>1, <1>2 DEF SerialInv, DocumentsKept

\* While requests do not overlap, the file of every document attached to an
\* application is in the storage.
THEOREM EvidenceIsKept ==
    ASSUME \A g, h \in Handlers : g = h
    PROVE  AccountSpec => []EvidenceKept
<1>1. SerialInv => EvidenceKept
  BY EvidenceFromSerial
<1> QED BY <1>1, SerialInvariant, PTL

\* While requests do not overlap, a captain is activated only on approved
\* evidence that can be looked at: the activation checked it, nothing has
\* touched it since, and no other step makes a captain ACTIVE who was not
\* suspended.
THEOREM ActivationHasEvidence ==
    ASSUME \A g, h \in Handlers : g = h
    PROVE  AccountSpec => ActivatedOnEvidence
<1> DEFINE Sound ==
      (rider.status = "PENDING_APPROVAL" /\ rider'.status = "ACTIVE"
         /\ ~interrupted)
      => \E a \in Applications :
           /\ application[a].status = "APPROVED"
           /\ \E d \in EvidenceOf(a) :
                document[d].review = "APPROVED" /\ d \in stored
<1>1. SerialInv /\ [AccountNext]_accountVars => Sound
  <2> SUFFICES ASSUME SerialInv, [AccountNext]_accountVars,
                      rider.status = "PENDING_APPROVAL",
                      rider'.status = "ACTIVE", ~interrupted
               PROVE  \E a \in Applications :
                        /\ application[a].status = "APPROVED"
                        /\ \E d \in EvidenceOf(a) :
                             document[d].review = "APPROVED" /\ d \in stored
    OBVIOUS
  <2>1. PICK h \in Handlers : CommitLifecycle(h) \/ CommitReview(h) \/ CommitUpdate(h)
    <3>1. rider' # rider
      OBVIOUS
    <3>2. PICK h \in Handlers : AccountNext!(h)
      BY <3>1 DEF AccountNext, accountVars
    <3>3. CASE DocumentStep(h)
      BY <3>1, <3>3 DEF DocumentStep, UploadDocument, RemoveDocument,
         CommitUpload, DeleteObject, RecordDeletion
    <3>4. CASE ApplicationStep(h)
      BY <3>1, <3>4 DEF ApplicationStep, Submit, SubmitRevision, CommitSubmit,
         CommitRevision, ApproveRequiredDocuments, Trash, Restore,
         ReviewApplication, ReviewDocument
    <3>5. CASE LifecycleStep(h)
      BY <3>1, <3>5 DEF LifecycleStep, ActivateRider, SuspendRider,
         ReactivateRider
    <3>6. CASE DeletionStep(h)
      BY <3>1, <3>6 DEF DeletionStep, RequestDeletion, CommitRequest,
         CancelDeletion, CommitCancel, UpdateDeletion, ReconcileDocument,
         ListDone
    <3>7. CASE TakeJob(h) \/ DeliverJob(h) \/ EndJob(h) \/ AbandonRequest(h)
      BY <3>1, <3>7 DEF TakeJob, DeliverJob, EndJob, AbandonRequest
    <3> QED BY <3>2, <3>3, <3>4, <3>5, <3>6, <3>7
  <2>2. CommitLifecycle(h) /\ task[h].op = "ACTIVATE"
    BY <2>1 DEF CommitLifecycle, CommitReview, CommitUpdate, SerialInv,
       TasksHold, TaskHolds, AccountInv, AccountTypeOK, RiderRow
  <2>3. PICK a \in Applications : application[a].status = "APPROVED" /\ Approved(a)
    BY <2>2 DEF SerialInv, TasksHold, TaskHolds
  <2>4. PICK d \in EvidenceOf(a) : document[d].review = "APPROVED"
    BY <2>3 DEF Approved
  <2>5. d \in stored
    BY <2>4, EvidenceFromSerial, AccountAssumption DEF EvidenceKept,
       EvidenceOf, Applications
  <2> QED BY <2>3, <2>4, <2>5
<1>2. AccountSpec => [][Sound]_accountVars
  BY <1>1, SerialInvariant, PTL DEF AccountSpec
<1> QED BY <1>2 DEF ActivatedOnEvidence

\* While requests do not overlap, a deletion of captain access completes with
\* no delivery open, the lock free, the captain out of service and no file
\* left but the evidence of an application.
THEOREM DeletionCompletesClean ==
    ASSUME \A g, h \in Handlers : g = h
    PROVE  AccountSpec => CompletionIsClean
<1> DEFINE Clean ==
      \A k \in Deletions :
        (/\ deletion[k].status # "COMPLETED"
         /\ deletion'[k].status = "COMPLETED"
         /\ AffectsCaptain(deletion[k].scope))
        => /\ job # "OPEN" /\ ~locked'
           /\ rider'.status \in {"NONE", "SUSPENDED"}
           /\ \A d \in Documents :
                /\ document[d].external \notin {"PENDING", "FAILED"}
                /\ d \in stored /\ ~interrupted =>
                     document[d].application # Nothing
<1>1. SerialInv /\ [AccountNext]_accountVars => Clean
  <2> SUFFICES ASSUME SerialInv, [AccountNext]_accountVars, NEW k \in Deletions,
                      deletion[k].status # "COMPLETED",
                      deletion'[k].status = "COMPLETED",
                      AffectsCaptain(deletion[k].scope)
               PROVE  /\ job # "OPEN" /\ ~locked'
                      /\ rider'.status \in {"NONE", "SUSPENDED"}
                      /\ \A d \in Documents : Cleared(d)
    BY DEF Cleared
  <2>0. deletion \in [Deletions -> DeletionRow]
    BY DEF SerialInv, AccountInv, AccountTypeOK
  <2>1. PICK h \in Handlers : CommitRequest(h) \/ CommitCancel(h) \/ CommitUpdate(h)
    <3>1. deletion' # deletion
      OBVIOUS
    <3>2. PICK h \in Handlers : AccountNext!(h)
      BY <3>1 DEF AccountNext, accountVars
    <3>3. CASE DocumentStep(h)
      BY <3>1, <3>3 DEF DocumentStep, UploadDocument, RemoveDocument,
         CommitUpload, DeleteObject, RecordDeletion
    <3>4. CASE ApplicationStep(h)
      BY <3>1, <3>4 DEF ApplicationStep, Submit, SubmitRevision, CommitSubmit,
         CommitRevision, ApproveRequiredDocuments, Trash, Restore,
         ReviewApplication, ReviewDocument, CommitReview
    <3>5. CASE LifecycleStep(h)
      BY <3>1, <3>5 DEF LifecycleStep, ActivateRider, SuspendRider,
         ReactivateRider, CommitLifecycle
    <3>6. CASE DeletionStep(h)
      BY <3>1, <3>6 DEF DeletionStep, RequestDeletion, CancelDeletion,
         UpdateDeletion, ReconcileDocument, ListDone
    <3>7. CASE TakeJob(h) \/ DeliverJob(h) \/ EndJob(h) \/ AbandonRequest(h)
      BY <3>1, <3>7 DEF TakeJob, DeliverJob, EndJob, AbandonRequest
    <3> QED BY <3>2, <3>3, <3>4, <3>5, <3>6, <3>7
  <2>2. ~CommitRequest(h)
    BY <2>0 DEF CommitRequest, DeletionRow
  <2>3. ~CommitCancel(h)
    BY <2>0 DEF CommitCancel, DeletionRow
  <2>4. CommitUpdate(h)
    BY <2>1, <2>2, <2>3
  <2>5. k = task[h].number /\ task[h].status = "COMPLETED"
    BY <2>0, <2>4 DEF CommitUpdate, DeletionRow
  <2>6. /\ task[h].op = "UPDATE" /\ task[h].at = "COMMIT"
        /\ TaskHolds(task[h])
    BY <2>4 DEF CommitUpdate, Serves, SerialInv, TasksHold
  <2>7. job # "OPEN" /\ \A d \in Documents : Cleared(d)
    BY <2>5, <2>6 DEF TaskHolds
  <2>8. ~locked' /\ rider'.status \in {"NONE", "SUSPENDED"}
    BY <2>4, <2>5 DEF CommitUpdate
  <2> QED BY <2>7, <2>8
<1>2. AccountSpec => [][Clean]_accountVars
  BY <1>1, SerialInvariant, PTL DEF AccountSpec
<1> QED BY <1>2 DEF CompletionIsClean
=============================================================================
