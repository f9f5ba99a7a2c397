-------------------------- MODULE ServiceDeskProofs --------------------------
(***************************************************************************)
(* Theorems about ServiceDesk.  Types hold however many calls overlap; the *)
(* theorems about its meaning need calls that follow one another, and rest *)
(* on SerialInv: what a handler has read is still what is stored when it   *)
(* writes, and a completion is counted, about to be counted, or lost.      *)
(***************************************************************************)
EXTENDS ServiceDesk, SumTheorems

-----------------------------------------------------------------------------
(***************************************************************************)
(* The parts of the inductive invariant.                                   *)
(***************************************************************************)

\* What is named exists, and what exists has a type.
RowsFit ==
    /\ \A p \in Providers :
         IF provider[p].status = "NONE" THEN provider[p].completed = 0
                                        ELSE provider[p].type \in Types
    /\ \A a \in Applications :
         application[a].status # "NONE" => application[a].type \in Types
    /\ \A h \in Handlers : Serves(h, "CONVERT") =>
         /\ task[h].type \in Types
         /\ application[task[h].application].status # "NONE"
    /\ \A r \in Requests, p \in Providers :
         request[r].assigned = p => provider[p].status # "NONE"
    /\ \A h \in Handlers, p \in Providers :
         task[h].op \in {"ASSIGN", "STATUS", "COUNT"} /\ task[h].provider = p
           => provider[p].status # "NONE"

\* The check of an update still holds for the row it is about to change.
UpdateFits(t, row) ==
    /\ row.status # "NONE"
    /\ Approvable(Given(t.type, row.type), Given(t.mode, row.mode),
                  Given(t.status, row.status))

UpdatesFit ==
    \A h \in Handlers :
      Serves(h, "UPDATE") => UpdateFits(task[h], provider[task[h].provider])

\* What a status change has read of the request is still so, and a completion
\* waiting to be counted is that of a completed request.
StatusFits(t, row) ==
    /\ row.status # "NONE"
    /\ t.provider = row.assigned
    /\ t.counts <=> Completes(row, t.status)

StatusesFit ==
    \A h \in Handlers :
      /\ Serves(h, "STATUS") => StatusFits(task[h], request[task[h].request])
      /\ Serves(h, "COUNT") =>
           /\ request[task[h].request].status = "COMPLETED"
           /\ request[task[h].request].assigned = task[h].provider

\* The handlers about to count a completion that no other one has missed.
Awaited(p) ==
    {h \in Handlers : /\ Serves(h, "COUNT") /\ task[h].provider = p
                      /\ task[h].request \notin uncounted}

CountsHold ==
    \A p \in Providers :
      provider[p].completed + Cardinality(Awaited(p)) >= Cardinality(ServedBy(p))

\* What a review has read of its provider is still so.
ReviewFits(t, row) ==
    /\ row.status # "NONE"
    /\ t.reviewCount = row.reviewCount /\ t.average = row.average

\* ... and only providers that exist have reviews, which have ratings.
ReviewsFit ==
    /\ \A h \in Handlers :
         Serves(h, "REVIEW") => ReviewFits(task[h], provider[task[h].provider])
    /\ \A r \in Requests, p \in Providers :
         review[r].provider = p =>
           provider[p].status # "NONE" /\ review[r].rating \in Ratings

SerialInv ==
    /\ ServiceTypeOK /\ RowsFit /\ UpdatesFit /\ ApprovedIsBookable
    /\ StatusesFit /\ CountsHold /\ ReviewsFit /\ ReviewsAgree

-----------------------------------------------------------------------------
\* The new average is a whole number of hundredths.
LEMMA AverageType ==
    ASSUME NEW average \in Nat, NEW count \in Nat, NEW rating \in Ratings
    PROVE  NextAverage(average, count, rating) \in Nat
<1>1. rating \in Nat
  BY ServiceAssumption
<1>2. average * count \in Nat
  OBVIOUS
<1>3. ASSUME NEW x \in Nat, NEW y \in Nat \ {0} PROVE x \div y \in Nat
  BY <1>3
<1>4. /\ 2 * (average * count + 100 * rating) + (count + 1) \in Nat
      /\ 2 * (count + 1) \in Nat \ {0}
  <2> DEFINE m == average * count
  <2>1. m \in Nat
    BY <1>2
  <2> HIDE DEF m
  <2>2. 2 * (m + 100 * rating) + (count + 1) \in Nat
    BY <1>1, <2>1
  <2> QED
    BY <2>2 DEF m
<1> QED
  BY <1>3, <1>4 DEF NextAverage

\* The name of an operation tells what a handler has read.
LEMMA TaskKind ==
    ASSUME ServiceTypeOK, NEW h \in Handlers
    PROVE  /\ task[h] \in Task
           /\ Serves(h, "REVIEW") => task[h] \in Reviewing
           /\ Serves(h, "ASSIGN") => task[h] \in Assigning
           /\ Serves(h, "STATUS") => task[h] \in Changing
           /\ Serves(h, "COUNT") => task[h] \in Counting
           /\ Serves(h, "UPDATE") => task[h] \in Updating
           /\ Serves(h, "CONVERT") => task[h] \in Converting
  BY DEF ServiceTypeOK, Serves, Task, Idle, Reviewing, Assigning, Changing,
     Counting, Updating, Converting

\* What an update makes of a provider's row.
LEMMA UpdatedRow ==
    ASSUME NEW row \in ProviderRow, NEW t \in Updating
    PROVE  LET x == Updated(row, t)
           IN  /\ x \in ProviderRow
               /\ x.type = Given(t.type, row.type)
               /\ x.mode = Given(t.mode, row.mode)
               /\ x.status = Given(t.status, row.status)
               /\ x.completed = row.completed
               /\ x.reviewCount = row.reviewCount
               /\ x.average = row.average
<1> DEFINE a == Given(t.type, row.type)
           b == Given(t.mode, row.mode)
           c == Given(t.status, row.status)
<1>1. /\ a \in Types \cup {Nothing} /\ b \in Modes
      /\ c \in ProviderStatuses \cup {"NONE"}
  BY DEF Given, Updating, ProviderRow
<1>2. Updated(row, t) = [row EXCEPT !.type = a, !.mode = b, !.status = c]
  BY DEF Updated
<1> HIDE DEF a, b, c
<1>3. LET x == [row EXCEPT !.type = a, !.mode = b, !.status = c]
      IN  /\ x \in ProviderRow /\ x.type = a /\ x.mode = b /\ x.status = c
          /\ x.completed = row.completed
          /\ x.reviewCount = row.reviewCount /\ x.average = row.average
  BY <1>1 DEF ProviderRow
<1> QED
  BY <1>2, <1>3 DEF a, b, c

\* An update changes the row of one provider, and leaves its handler idle.
LEMMA UpdateStep ==
    ASSUME ServiceTypeOK, NEW h \in Handlers, CommitUpdate(h)
    PROVE  LET p == task[h].provider
           IN  /\ p \in Providers /\ task[h] \in Updating
               /\ provider[p] \in ProviderRow
               /\ provider'[p] = Updated(provider[p], task[h])
               /\ \A q \in Providers \ {p} : provider'[q] = provider[q]
               /\ provider' \in [Providers -> ProviderRow]
<1>1. task[h] \in Updating
  BY TaskKind DEF CommitUpdate
<1>2. task[h].provider \in Providers
  BY <1>1 DEF Updating
<1>3. provider[task[h].provider] \in ProviderRow
  BY <1>2 DEF ServiceTypeOK
<1>4. Updated(provider[task[h].provider], task[h]) \in ProviderRow
  BY <1>1, <1>3, UpdatedRow
<1> QED
  BY <1>1, <1>2, <1>3, <1>4 DEF CommitUpdate, ServiceTypeOK

\* Every step keeps the types.
LEMMA TypeStep ==
    ASSUME ServiceTypeOK, [ServiceNext]_serviceVars
    PROVE  ServiceTypeOK'
<1> USE ServiceAssumption
<1>1. ASSUME NEW r \in Requests, NEW type \in Types, CreateRequest(r, type)
      PROVE  ServiceTypeOK'
  BY <1>1 DEF ServiceTypeOK, CreateRequest, RequestRow, RequestStatuses
<1>2. ASSUME NEW h \in Handlers, NEW r \in Requests, BeginReview(h, r)
      PROVE  ServiceTypeOK'
  BY <1>2 DEF ServiceTypeOK, BeginReview, RequestRow, ProviderRow, Task,
     Begin, Reviewing
<1>3. ASSUME NEW h \in Handlers, NEW rating \in Ratings,
             CommitReview(h, rating)
      PROVE  ServiceTypeOK'
  <2>1. task[h] \in Reviewing
    BY <1>3, TaskKind DEF CommitReview
  <2>2. NextAverage(task[h].average, task[h].reviewCount, rating) \in Nat
    BY <2>1, AverageType DEF Reviewing
  <2>3. review' \in [Requests -> ReviewRow]
    BY <1>3, <2>1 DEF CommitReview, Reviewing, ReviewRow, ServiceTypeOK
  <2>4. provider' \in [Providers -> ProviderRow]
    <3>1. provider[task[h].provider] \in ProviderRow
      BY <2>1 DEF Reviewing, ServiceTypeOK
    <3>2. ASSUME NEW row \in ProviderRow, NEW n \in Nat, NEW m \in Nat
          PROVE  [row EXCEPT !.reviewCount = n, !.average = m] \in ProviderRow
      BY DEF ProviderRow
    <3> task[h].reviewCount + 1 \in Nat
      BY <2>1 DEF Reviewing
    <3>3. ASSUME NEW p \in Providers PROVE provider'[p] \in ProviderRow
      <4>1. CASE p = task[h].provider
        BY <1>3, <2>2, <3>1, <3>2, <4>1 DEF CommitReview, ServiceTypeOK
      <4>2. CASE p # task[h].provider
        BY <1>3, <4>2 DEF CommitReview, ServiceTypeOK
      <4> QED
        BY <4>1, <4>2
    <3> QED
      BY <1>3, <3>3 DEF CommitReview, ServiceTypeOK
  <2> QED
    BY <1>3, <2>2, <2>3, <2>4 DEF CommitReview, Finish, Task, ServiceTypeOK
<1>4. ASSUME NEW a \in Applications, NEW type \in Types,
             SubmitApplication(a, type)
      PROVE  ServiceTypeOK'
  BY <1>4 DEF ServiceTypeOK, SubmitApplication, ApplicationRow,
     ApplicationStatuses
<1>5. ASSUME NEW h \in Handlers, NEW r \in Requests, NEW p \in Providers,
             BeginAssign(h, r, p)
      PROVE  ServiceTypeOK'
  BY <1>5 DEF ServiceTypeOK, BeginAssign, Task, Begin, Assigning
<1>6. ASSUME NEW h \in Handlers, CommitAssign(h)
      PROVE  ServiceTypeOK'
  <2>1. task[h] \in Assigning
    BY <1>6, TaskKind DEF CommitAssign
  <2>2. request' \in [Requests -> RequestRow]
    BY ZenonT(60), <1>6, <2>1 DEF CommitAssign, Assigning, RequestRow, RequestStatuses,
       ServiceTypeOK
  <2> QED
    BY <1>6, <2>2 DEF CommitAssign, Finish, Task, ServiceTypeOK
<1>7. ASSUME NEW h \in Handlers, NEW r \in Requests,
             NEW status \in RequestStatuses, BeginStatus(h, r, status)
      PROVE  ServiceTypeOK'
  BY <1>7 DEF ServiceTypeOK, BeginStatus, RequestRow, Task, Begin, Changing,
     Completes
<1>8. ASSUME NEW h \in Handlers, CommitStatus(h)
      PROVE  ServiceTypeOK'
  <2>1. task[h] \in Changing
    BY <1>8, TaskKind DEF CommitStatus
  <2>2. request' \in [Requests -> RequestRow]
    BY <1>8, <2>1 DEF CommitStatus, Changing, RequestRow, ServiceTypeOK
  <2>3. task' \in [Handlers -> Task]
    <3>1. CASE task[h].counts
      BY <1>8, <2>1, <3>1 DEF CommitStatus, Changing, Counting, Task,
         ServiceTypeOK
    <3>2. CASE ~task[h].counts
      BY <1>8, <3>2 DEF CommitStatus, Task, ServiceTypeOK
    <3> QED
      BY <3>1, <3>2
  <2> QED
    BY <1>8, <2>2, <2>3 DEF CommitStatus, Finish, Task, ServiceTypeOK
<1>9. ASSUME NEW h \in Handlers, CountCompletion(h)
      PROVE  ServiceTypeOK'
  <2>1. task[h] \in Counting
    BY <1>9, TaskKind DEF CountCompletion
  <2>2. provider' \in [Providers -> ProviderRow]
    BY <1>9, <2>1 DEF CountCompletion, Counting, ProviderRow, ServiceTypeOK
  <2> QED
    BY <1>9, <2>2 DEF CountCompletion, Finish, Task, ServiceTypeOK
<1>10. ASSUME NEW p \in Providers, NEW type \in Types, NEW mode \in Modes,
             NEW status \in ProviderStatuses,
             CreateProvider(p, type, mode, status)
      PROVE  ServiceTypeOK'
  BY <1>10 DEF ServiceTypeOK, CreateProvider, ProviderRow, NewProvider, Modes
<1>11. ASSUME NEW h \in Handlers, NEW p \in Providers,
             NEW type \in Types \cup {Nothing},
             NEW mode \in Modes \cup {Nothing},
             NEW status \in ProviderStatuses \cup {Nothing},
             BeginUpdate(h, p, type, mode, status)
      PROVE  ServiceTypeOK'
  BY <1>11 DEF ServiceTypeOK, BeginUpdate, Task, Begin, Updating
<1>12. ASSUME NEW h \in Handlers, CommitUpdate(h)
      PROVE  ServiceTypeOK'
  <2>1. provider' \in [Providers -> ProviderRow]
    BY <1>12, UpdateStep
  <2> QED
    BY <1>12, <2>1 DEF CommitUpdate, Finish, Task, ServiceTypeOK
<1>13. ASSUME NEW a \in Applications, NEW status \in ApplicationStatuses,
             ReviewApplication(a, status)
      PROVE  ServiceTypeOK'
  BY <1>13 DEF ServiceTypeOK, ReviewApplication, ApplicationRow
<1>14. ASSUME NEW h \in Handlers, NEW a \in Applications, BeginConvert(h, a)
      PROVE  ServiceTypeOK'
  BY <1>14 DEF ServiceTypeOK, BeginConvert, ApplicationRow, Task, Begin,
     Converting
<1>15. ASSUME NEW h \in Handlers, NEW p \in Providers, CommitConvert(h, p)
      PROVE  ServiceTypeOK'
  <2>1. task[h] \in Converting
    BY <1>15, TaskKind DEF CommitConvert
  <2>2. provider' \in [Providers -> ProviderRow]
    BY <1>15, <2>1 DEF CommitConvert, Converting, NewProvider, ProviderRow,
       ProviderStatuses, Modes, ServiceTypeOK
  <2>3. application' \in [Applications -> ApplicationRow]
    BY <1>15, <2>1 DEF CommitConvert, ApplicationRow, ApplicationStatuses,
       ServiceTypeOK
  <2> QED
    BY <1>15, <2>2, <2>3 DEF CommitConvert, Finish, Task, ServiceTypeOK
<1>16. ASSUME NEW h \in Handlers, Abandon(h)
      PROVE  ServiceTypeOK'
  BY <1>16 DEF ServiceTypeOK, Abandon, Task, Finish, Serves, Reviewing,
     Assigning, Changing, Counting, Updating, Converting
<1>17. ASSUME ServiceNext PROVE ServiceTypeOK'
  BY <1>17, <1>1, <1>2, <1>3, <1>4, <1>5, <1>6, <1>7, <1>8, <1>9, <1>10,
     <1>11, <1>12, <1>13, <1>14, <1>15, <1>16 DEF ServiceNext, CustomerStep,
     AdminStep
<1> QED
  BY <1>17 DEF ServiceTypeOK, serviceVars

\* Every step of calls that do not overlap keeps RowsFit.
LEMMA RowsFitStep ==
    ASSUME ServiceTypeOK, RowsFit, UpdatesFit,
           \A g, h \in Handlers : g = h,
           [ServiceNext]_serviceVars
    PROVE  RowsFit'
<1> USE ServiceAssumption
<1>1. ASSUME NEW r \in Requests, NEW type \in Types, CreateRequest(r, type)
      PROVE  RowsFit'
  BY <1>1 DEF RowsFit, CreateRequest, ServiceTypeOK, Serves
<1>2. ASSUME NEW h \in Handlers, NEW r \in Requests, BeginReview(h, r)
      PROVE  RowsFit'
  BY <1>2 DEF RowsFit, BeginReview, ServiceTypeOK, Serves, Begin
<1>3. ASSUME NEW h \in Handlers, NEW rating \in Ratings,
             CommitReview(h, rating)
      PROVE  RowsFit'
  BY <1>3 DEF RowsFit, CommitReview, ServiceTypeOK, Serves, Finish, Idle
<1>4. ASSUME NEW a \in Applications, NEW type \in Types,
             SubmitApplication(a, type)
      PROVE  RowsFit'
  BY <1>4 DEF RowsFit, SubmitApplication, ServiceTypeOK, Serves
<1>5. ASSUME NEW h \in Handlers, NEW r \in Requests, NEW p \in Providers,
             BeginAssign(h, r, p)
      PROVE  RowsFit'
  BY <1>5 DEF RowsFit, BeginAssign, ServiceTypeOK, Serves, Begin
<1>6. ASSUME NEW h \in Handlers, CommitAssign(h)
      PROVE  RowsFit'
  <2>1. task[h] \in Assigning
    BY <1>6, TaskKind DEF CommitAssign
  <2>2. provider[task[h].provider].status # "NONE"
    BY <1>6, <2>1 DEF CommitAssign, Serves, Assigning, RowsFit
  <2>3. ASSUME NEW r \in Requests, NEW p \in Providers, request'[r].assigned = p
        PROVE  provider[p].status # "NONE"
    BY <1>6, <2>2, <2>3 DEF CommitAssign, RowsFit, ServiceTypeOK, RequestRow
  <2>4. /\ UNCHANGED <<provider, application>>
        /\ \A g \in Handlers : task'[g] = task[g] \/ task'[g] = Idle
    BY <1>6 DEF CommitAssign, Finish, ServiceTypeOK
  <2> QED
    BY <2>3, <2>4 DEF RowsFit, Serves, Idle
<1>7. ASSUME NEW h \in Handlers, NEW r \in Requests,
             NEW status \in RequestStatuses, BeginStatus(h, r, status)
      PROVE  RowsFit'
  BY <1>7 DEF RowsFit, BeginStatus, ServiceTypeOK, Serves, Begin
<1>8. ASSUME NEW h \in Handlers, CommitStatus(h)
      PROVE  RowsFit'
  BY <1>8 DEF RowsFit, CommitStatus, ServiceTypeOK, Serves, Idle
<1>9. ASSUME NEW h \in Handlers, CountCompletion(h)
      PROVE  RowsFit'
  BY <1>9 DEF RowsFit, CountCompletion, ServiceTypeOK, Serves, Finish, Idle
<1>10. ASSUME NEW p \in Providers, NEW type \in Types, NEW mode \in Modes,
             NEW status \in ProviderStatuses,
             CreateProvider(p, type, mode, status)
      PROVE  RowsFit'
  BY <1>10 DEF RowsFit, CreateProvider, ServiceTypeOK, Serves, NewProvider
<1>11. ASSUME NEW h \in Handlers, NEW p \in Providers,
             NEW type \in Types \cup {Nothing},
             NEW mode \in Modes \cup {Nothing},
             NEW status \in ProviderStatuses \cup {Nothing},
             BeginUpdate(h, p, type, mode, status)
      PROVE  RowsFit'
  BY <1>11 DEF RowsFit, BeginUpdate, ServiceTypeOK, Serves, Begin
<1>12. ASSUME NEW h \in Handlers, CommitUpdate(h)
      PROVE  RowsFit'
  <2> DEFINE p == task[h].provider
  <2>1. /\ p \in Providers /\ task[h] \in Updating
        /\ provider[p] \in ProviderRow
        /\ provider'[p] = Updated(provider[p], task[h])
        /\ \A q \in Providers \ {p} : provider'[q] = provider[q]
    BY <1>12, UpdateStep
  <2>2. /\ provider'[p].type = Given(task[h].type, provider[p].type)
        /\ provider'[p].status = Given(task[h].status, provider[p].status)
    BY <2>1, UpdatedRow
  <2>3. provider[p].status # "NONE"
    BY <1>12 DEF CommitUpdate, UpdatesFit, UpdateFits
  <2>4. provider'[p].type \in Types /\ provider'[p].status # "NONE"
    BY <2>1, <2>2, <2>3 DEF RowsFit, Given, Updating, ProviderStatuses
  <2>5. \A g \in Handlers : task'[g] = Idle \/ task'[g] = task[g]
    BY <1>12 DEF CommitUpdate, Finish, ServiceTypeOK
  <2> HIDE DEF p
  <2> QED
    BY <1>12, <2>1, <2>3, <2>4, <2>5 DEF CommitUpdate, RowsFit, Serves, Idle
<1>13. ASSUME NEW a \in Applications, NEW status \in ApplicationStatuses,
             ReviewApplication(a, status)
      PROVE  RowsFit'
  BY <1>13 DEF RowsFit, ReviewApplication, ServiceTypeOK, Serves,
     ApplicationStatuses
<1>14. ASSUME NEW h \in Handlers, NEW a \in Applications, BeginConvert(h, a)
      PROVE  RowsFit'
  BY <1>14 DEF RowsFit, BeginConvert, ServiceTypeOK, Begin
<1>15. ASSUME NEW h \in Handlers, NEW p \in Providers, CommitConvert(h, p)
      PROVE  RowsFit'
  <2>1. task[h] \in Converting /\ task[h].type \in Types
    BY <1>15, TaskKind DEF CommitConvert, RowsFit
  <2>2. ASSUME NEW q \in Providers
        PROVE  /\ provider'[q].status # "NONE"
                    => \/ provider[q].status # "NONE" /\ provider'[q] = provider[q]
                       \/ provider'[q].type \in Types
               /\ provider'[q].status = "NONE" => provider'[q] = provider[q]
               /\ provider[q].status # "NONE" => provider'[q].status # "NONE"
    BY <1>15, <2>1, <2>2 DEF CommitConvert, NewProvider, ServiceTypeOK
  <2>3. ASSUME NEW a \in Applications
        PROVE  /\ application'[a].status # "NONE" => application'[a].type \in Types
               /\ application[a].status # "NONE" => application'[a].status # "NONE"
    <3>1. a = task[h].application => application[a].type \in Types
      BY <1>15, <2>1 DEF CommitConvert, RowsFit, Converting
    <3> QED
      BY <1>15, <2>1, <3>1 DEF CommitConvert, RowsFit, ServiceTypeOK,
         Converting
  <2>4. request' = request
        /\ \A g \in Handlers : task'[g] = task[g] \/ task'[g] = Idle
    BY <1>15 DEF CommitConvert, Finish, ServiceTypeOK
  <2> QED
    <3>1. \A g \in Handlers : task'[g] = Idle
      BY <1>15 DEF CommitConvert, Finish, ServiceTypeOK
    <3> QED
      BY <2>2, <2>3, <2>4, <3>1 DEF RowsFit, Serves, Idle
<1>16. ASSUME NEW h \in Handlers, Abandon(h)
      PROVE  RowsFit'
  BY <1>16 DEF RowsFit, Abandon, ServiceTypeOK, Serves, Idle, Finish
<1>17. ASSUME ServiceNext PROVE RowsFit'
  BY <1>17, <1>1, <1>2, <1>3, <1>4, <1>5, <1>6, <1>7, <1>8, <1>9, <1>10,
     <1>11, <1>12, <1>13, <1>14, <1>15, <1>16 DEF ServiceNext, CustomerStep,
     AdminStep
<1> QED
  BY <1>17 DEF RowsFit, Serves, serviceVars

\* Every step of calls that do not overlap keeps UpdatesFit: nothing else writes
\* the row between the check of an update and its write.
LEMMA UpdatesFitStep ==
    ASSUME ServiceTypeOK, RowsFit, UpdatesFit,
           \A g, h \in Handlers : g = h,
           [ServiceNext]_serviceVars
    PROVE  UpdatesFit'
<1> USE ServiceAssumption
<1>1. ASSUME NEW r \in Requests, NEW type \in Types, CreateRequest(r, type)
      PROVE  UpdatesFit'
  BY <1>1 DEF UpdatesFit, CreateRequest, ServiceTypeOK, Serves
<1>2. ASSUME NEW h \in Handlers, NEW r \in Requests, BeginReview(h, r)
      PROVE  UpdatesFit'
  BY <1>2 DEF UpdatesFit, BeginReview, ServiceTypeOK, Serves, Begin
<1>3. ASSUME NEW h \in Handlers, NEW rating \in Ratings,
             CommitReview(h, rating)
      PROVE  UpdatesFit'
  BY <1>3 DEF UpdatesFit, CommitReview, ServiceTypeOK, Serves, Finish, Idle
<1>4. ASSUME NEW a \in Applications, NEW type \in Types,
             SubmitApplication(a, type)
      PROVE  UpdatesFit'
  BY <1>4 DEF UpdatesFit, SubmitApplication, ServiceTypeOK, Serves
<1>5. ASSUME NEW h \in Handlers, NEW r \in Requests, NEW p \in Providers,
             BeginAssign(h, r, p)
      PROVE  UpdatesFit'
  BY <1>5 DEF UpdatesFit, BeginAssign, ServiceTypeOK, Serves, Begin
<1>6. ASSUME NEW h \in Handlers, CommitAssign(h)
      PROVE  UpdatesFit'
  BY <1>6 DEF UpdatesFit, CommitAssign, ServiceTypeOK, Serves, Finish, Idle
<1>7. ASSUME NEW h \in Handlers, NEW r \in Requests,
             NEW status \in RequestStatuses, BeginStatus(h, r, status)
      PROVE  UpdatesFit'
  BY <1>7 DEF UpdatesFit, BeginStatus, ServiceTypeOK, Serves, Begin
<1>8. ASSUME NEW h \in Handlers, CommitStatus(h)
      PROVE  UpdatesFit'
  BY <1>8 DEF UpdatesFit, CommitStatus, ServiceTypeOK, Serves, Idle
<1>9. ASSUME NEW h \in Handlers, CountCompletion(h)
      PROVE  UpdatesFit'
  BY <1>9 DEF UpdatesFit, CountCompletion, ServiceTypeOK, Serves, Finish, Idle
<1>10. ASSUME NEW p \in Providers, NEW type \in Types, NEW mode \in Modes,
             NEW status \in ProviderStatuses,
             CreateProvider(p, type, mode, status)
      PROVE  UpdatesFit'
  BY <1>10 DEF UpdatesFit, CreateProvider, ServiceTypeOK, Serves, UpdateFits
<1>11. ASSUME NEW h \in Handlers, NEW p \in Providers,
             NEW type \in Types \cup {Nothing},
             NEW mode \in Modes \cup {Nothing},
             NEW status \in ProviderStatuses \cup {Nothing},
             BeginUpdate(h, p, type, mode, status)
      PROVE  UpdatesFit'
  BY <1>11 DEF UpdatesFit, BeginUpdate, ServiceTypeOK, UpdateFits, Begin
<1>12. ASSUME NEW h \in Handlers, CommitUpdate(h)
      PROVE  UpdatesFit'
  BY <1>12 DEF UpdatesFit, CommitUpdate, ServiceTypeOK, Serves, Finish, Idle
<1>13. ASSUME NEW a \in Applications, NEW status \in ApplicationStatuses,
             ReviewApplication(a, status)
      PROVE  UpdatesFit'
  BY <1>13 DEF UpdatesFit, ReviewApplication, ServiceTypeOK, Serves
<1>14. ASSUME NEW h \in Handlers, NEW a \in Applications, BeginConvert(h, a)
      PROVE  UpdatesFit'
  BY <1>14 DEF UpdatesFit, BeginConvert, ServiceTypeOK, Serves, Begin
<1>15. ASSUME NEW h \in Handlers, NEW p \in Providers, CommitConvert(h, p)
      PROVE  UpdatesFit'
  BY <1>15 DEF UpdatesFit, CommitConvert, ServiceTypeOK, Serves, Finish, Idle
<1>16. ASSUME NEW h \in Handlers, Abandon(h)
      PROVE  UpdatesFit'
  BY <1>16 DEF UpdatesFit, Abandon, ServiceTypeOK, Serves, Idle, Finish
<1>17. ASSUME ServiceNext PROVE UpdatesFit'
  BY <1>17, <1>1, <1>2, <1>3, <1>4, <1>5, <1>6, <1>7, <1>8, <1>9, <1>10,
     <1>11, <1>12, <1>13, <1>14, <1>15, <1>16 DEF ServiceNext, CustomerStep,
     AdminStep
<1> QED
  BY <1>17 DEF UpdatesFit, Serves, serviceVars

\* Every step of calls that do not overlap keeps ApprovedIsBookable, because the
\* check of an update is about the row it then writes.
LEMMA BookableStep ==
    ASSUME ServiceTypeOK, RowsFit, UpdatesFit, ApprovedIsBookable,
           \A g, h \in Handlers : g = h,
           [ServiceNext]_serviceVars
    PROVE  ApprovedIsBookable'
<1> USE ServiceAssumption
<1>1. ASSUME NEW r \in Requests, NEW type \in Types, CreateRequest(r, type)
      PROVE  ApprovedIsBookable'
  BY <1>1 DEF ApprovedIsBookable, CreateRequest, ServiceTypeOK
<1>2. ASSUME NEW h \in Handlers, NEW r \in Requests, BeginReview(h, r)
      PROVE  ApprovedIsBookable'
  BY <1>2 DEF ApprovedIsBookable, BeginReview, ServiceTypeOK
<1>3. ASSUME NEW h \in Handlers, NEW rating \in Ratings,
             CommitReview(h, rating)
      PROVE  ApprovedIsBookable'
  BY <1>3 DEF ApprovedIsBookable, CommitReview, ServiceTypeOK
<1>4. ASSUME NEW a \in Applications, NEW type \in Types,
             SubmitApplication(a, type)
      PROVE  ApprovedIsBookable'
  BY <1>4 DEF ApprovedIsBookable, SubmitApplication, ServiceTypeOK
<1>5. ASSUME NEW h \in Handlers, NEW r \in Requests, NEW p \in Providers,
             BeginAssign(h, r, p)
      PROVE  ApprovedIsBookable'
  BY <1>5 DEF ApprovedIsBookable, BeginAssign, ServiceTypeOK
<1>6. ASSUME NEW h \in Handlers, CommitAssign(h)
      PROVE  ApprovedIsBookable'
  BY <1>6 DEF ApprovedIsBookable, CommitAssign, ServiceTypeOK
<1>7. ASSUME NEW h \in Handlers, NEW r \in Requests,
             NEW status \in RequestStatuses, BeginStatus(h, r, status)
      PROVE  ApprovedIsBookable'
  BY <1>7 DEF ApprovedIsBookable, BeginStatus, ServiceTypeOK
<1>8. ASSUME NEW h \in Handlers, CommitStatus(h)
      PROVE  ApprovedIsBookable'
  BY <1>8 DEF ApprovedIsBookable, CommitStatus, ServiceTypeOK
<1>9. ASSUME NEW h \in Handlers, CountCompletion(h)
      PROVE  ApprovedIsBookable'
  BY <1>9 DEF ApprovedIsBookable, CountCompletion, ServiceTypeOK
<1>10. ASSUME NEW p \in Providers, NEW type \in Types, NEW mode \in Modes,
             NEW status \in ProviderStatuses,
             CreateProvider(p, type, mode, status)
      PROVE  ApprovedIsBookable'
  BY <1>10 DEF ApprovedIsBookable, CreateProvider, ServiceTypeOK, Approvable,
     NewProvider, ReadinessOnly, Types
<1>11. ASSUME NEW h \in Handlers, NEW p \in Providers,
             NEW type \in Types \cup {Nothing},
             NEW mode \in Modes \cup {Nothing},
             NEW status \in ProviderStatuses \cup {Nothing},
             BeginUpdate(h, p, type, mode, status)
      PROVE  ApprovedIsBookable'
  BY <1>11 DEF ApprovedIsBookable, BeginUpdate, ServiceTypeOK
<1>12. ASSUME NEW h \in Handlers, CommitUpdate(h)
      PROVE  ApprovedIsBookable'
  <2> DEFINE p == task[h].provider
  <2>1. /\ p \in Providers /\ task[h] \in Updating
        /\ provider[p] \in ProviderRow
        /\ provider'[p] = Updated(provider[p], task[h])
        /\ \A q \in Providers \ {p} : provider'[q] = provider[q]
    BY <1>12, UpdateStep
  <2>2. /\ provider'[p].type = Given(task[h].type, provider[p].type)
        /\ provider'[p].mode = Given(task[h].mode, provider[p].mode)
        /\ provider'[p].status = Given(task[h].status, provider[p].status)
    BY <2>1, UpdatedRow
  <2>3. /\ provider[p].status # "NONE"
        /\ Approvable(provider'[p].type, provider'[p].mode, provider'[p].status)
    BY <1>12, <2>2 DEF CommitUpdate, UpdatesFit, UpdateFits
  <2>4. provider'[p].type \in Types /\ provider'[p].mode \in Modes
    BY <2>1, <2>2, <2>3 DEF RowsFit, Given, Updating, ProviderRow
  <2>5. provider'[p].status = "APPROVED" =>
          provider'[p].type \in Trades /\ provider'[p].mode = "BOOKABLE"
    BY <2>3, <2>4 DEF Approvable, ReadinessOnly, Types, Modes
  <2> HIDE DEF p
  <2> QED
    BY <2>1, <2>5 DEF ApprovedIsBookable
<1>13. ASSUME NEW a \in Applications, NEW status \in ApplicationStatuses,
             ReviewApplication(a, status)
      PROVE  ApprovedIsBookable'
  BY <1>13 DEF ApprovedIsBookable, ReviewApplication, ServiceTypeOK
<1>14. ASSUME NEW h \in Handlers, NEW a \in Applications, BeginConvert(h, a)
      PROVE  ApprovedIsBookable'
  BY <1>14 DEF ApprovedIsBookable, BeginConvert, ServiceTypeOK
<1>15. ASSUME NEW h \in Handlers, NEW p \in Providers, CommitConvert(h, p)
      PROVE  ApprovedIsBookable'
  BY <1>15 DEF ApprovedIsBookable, CommitConvert, ServiceTypeOK, NewProvider
<1>16. ASSUME NEW h \in Handlers, Abandon(h)
      PROVE  ApprovedIsBookable'
  BY <1>16 DEF ApprovedIsBookable, Abandon, ServiceTypeOK
<1>17. ASSUME ServiceNext PROVE ApprovedIsBookable'
  BY <1>17, <1>1, <1>2, <1>3, <1>4, <1>5, <1>6, <1>7, <1>8, <1>9, <1>10,
     <1>11, <1>12, <1>13, <1>14, <1>15, <1>16 DEF ServiceNext, CustomerStep,
     AdminStep
<1> QED
  BY <1>17 DEF ApprovedIsBookable, serviceVars

\* Every step of calls that do not overlap keeps StatusesFit: a request stays as
\* the change of its status has read it.
LEMMA StatusesFitStep ==
    ASSUME ServiceTypeOK, StatusesFit,
           \A g, h \in Handlers : g = h,
           [ServiceNext]_serviceVars
    PROVE  StatusesFit'
<1> USE ServiceAssumption
<1>1. ASSUME NEW r \in Requests, NEW type \in Types, CreateRequest(r, type)
      PROVE  StatusesFit'
  BY <1>1 DEF StatusesFit, CreateRequest, ServiceTypeOK, Serves, StatusFits
<1>2. ASSUME NEW h \in Handlers, NEW r \in Requests, BeginReview(h, r)
      PROVE  StatusesFit'
  BY <1>2 DEF StatusesFit, BeginReview, ServiceTypeOK, Serves, Begin
<1>3. ASSUME NEW h \in Handlers, NEW rating \in Ratings,
             CommitReview(h, rating)
      PROVE  StatusesFit'
  BY <1>3 DEF StatusesFit, CommitReview, ServiceTypeOK, Serves, Finish, Idle
<1>4. ASSUME NEW a \in Applications, NEW type \in Types,
             SubmitApplication(a, type)
      PROVE  StatusesFit'
  BY <1>4 DEF StatusesFit, SubmitApplication, ServiceTypeOK, Serves
<1>5. ASSUME NEW h \in Handlers, NEW r \in Requests, NEW p \in Providers,
             BeginAssign(h, r, p)
      PROVE  StatusesFit'
  BY <1>5 DEF StatusesFit, BeginAssign, ServiceTypeOK, Serves, Begin
<1>6. ASSUME NEW h \in Handlers, CommitAssign(h)
      PROVE  StatusesFit'
  BY <1>6 DEF StatusesFit, CommitAssign, ServiceTypeOK, Serves, Finish, Idle
<1>7. ASSUME NEW h \in Handlers, NEW r \in Requests,
             NEW status \in RequestStatuses, BeginStatus(h, r, status)
      PROVE  StatusesFit'
  BY <1>7 DEF StatusesFit, BeginStatus, ServiceTypeOK, Serves, StatusFits,
     Begin
<1>8. ASSUME NEW h \in Handlers, CommitStatus(h)
      PROVE  StatusesFit'
  <2> DEFINE r == task[h].request
  <2>1. task[h] \in Changing
    BY <1>8, TaskKind DEF CommitStatus
  <2>2. \A g \in Handlers : g = h
    OBVIOUS
  <2>3. /\ StatusFits(task[h], request[r])
        /\ request' = [request EXCEPT ![r].status = task[h].status]
        /\ r \in Requests
    BY <1>8, <2>1 DEF CommitStatus, StatusesFit, Changing
  <2>4. CASE task[h].counts
    BY <1>8, <2>1, <2>2, <2>3, <2>4 DEF CommitStatus, StatusFits, StatusesFit,
       Completes, Serves, ServiceTypeOK
  <2>5. CASE ~task[h].counts
    BY <1>8, <2>2, <2>5 DEF CommitStatus, StatusesFit, Serves, Idle,
       ServiceTypeOK
  <2> QED
    BY <2>4, <2>5
<1>9. ASSUME NEW h \in Handlers, CountCompletion(h)
      PROVE  StatusesFit'
  BY <1>9 DEF StatusesFit, CountCompletion, ServiceTypeOK, Serves, Finish,
     Idle
<1>10. ASSUME NEW p \in Providers, NEW type \in Types, NEW mode \in Modes,
             NEW status \in ProviderStatuses,
             CreateProvider(p, type, mode, status)
      PROVE  StatusesFit'
  BY <1>10 DEF StatusesFit, CreateProvider, ServiceTypeOK, Serves
<1>11. ASSUME NEW h \in Handlers, NEW p \in Providers,
             NEW type \in Types \cup {Nothing},
             NEW mode \in Modes \cup {Nothing},
             NEW status \in ProviderStatuses \cup {Nothing},
             BeginUpdate(h, p, type, mode, status)
      PROVE  StatusesFit'
  BY <1>11 DEF StatusesFit, BeginUpdate, ServiceTypeOK, Serves, Begin
<1>12. ASSUME NEW h \in Handlers, CommitUpdate(h)
      PROVE  StatusesFit'
  BY <1>12 DEF StatusesFit, CommitUpdate, ServiceTypeOK, Serves, Finish, Idle
<1>13. ASSUME NEW a \in Applications, NEW status \in ApplicationStatuses,
             ReviewApplication(a, status)
      PROVE  StatusesFit'
  BY <1>13 DEF StatusesFit, ReviewApplication, ServiceTypeOK, Serves
<1>14. ASSUME NEW h \in Handlers, NEW a \in Applications, BeginConvert(h, a)
      PROVE  StatusesFit'
  BY <1>14 DEF StatusesFit, BeginConvert, ServiceTypeOK, Serves, Begin
<1>15. ASSUME NEW h \in Handlers, NEW p \in Providers, CommitConvert(h, p)
      PROVE  StatusesFit'
  BY <1>15 DEF StatusesFit, CommitConvert, ServiceTypeOK, Serves, Finish, Idle
<1>16. ASSUME NEW h \in Handlers, Abandon(h)
      PROVE  StatusesFit'
  BY <1>16 DEF StatusesFit, Abandon, ServiceTypeOK, Serves, Idle, Finish
<1>17. ASSUME ServiceNext PROVE StatusesFit'
  BY <1>17, <1>1, <1>2, <1>3, <1>4, <1>5, <1>6, <1>7, <1>8, <1>9, <1>10,
     <1>11, <1>12, <1>13, <1>14, <1>15, <1>16 DEF ServiceNext, CustomerStep,
     AdminStep
<1> QED
  BY <1>17 DEF StatusesFit, Serves, serviceVars

\* A step that counts and awaits nothing new, and completes no request, keeps
\* CountsHold.
LEMMA CountsKept ==
    ASSUME ServiceTypeOK, CountsHold,
           \A p \in Providers :
             /\ provider'[p].completed = provider[p].completed
             /\ Awaited(p)' = Awaited(p)
             /\ ServedBy(p)' \subseteq ServedBy(p)
    PROVE  CountsHold'
<1> SUFFICES ASSUME NEW p \in Providers
             PROVE  provider'[p].completed + Cardinality(Awaited(p)')
                      >= Cardinality(ServedBy(p)')
  BY DEF CountsHold
<1>1. IsFiniteSet(ServedBy(p))
  BY ServiceAssumption, FS_Subset DEF ServedBy
<1>2. /\ Cardinality(ServedBy(p)') <= Cardinality(ServedBy(p))
      /\ Cardinality(ServedBy(p)) \in Nat /\ Cardinality(ServedBy(p)') \in Nat
  BY <1>1, FS_Subset, FS_CardinalityType
<1>3. provider[p].completed + Cardinality(Awaited(p)) >= Cardinality(ServedBy(p))
  BY DEF CountsHold
<1>4. /\ Cardinality(Awaited(p)') = Cardinality(Awaited(p))
      /\ provider[p].completed \in Nat
  BY DEF ServiceTypeOK, ProviderRow
<1>5. IsFiniteSet(Awaited(p)) /\ Cardinality(Awaited(p)) \in Nat
  BY ServiceAssumption, FS_Subset, FS_CardinalityType DEF Awaited
<1> QED
  BY <1>2, <1>3, <1>4, <1>5

\* Every step of calls that do not overlap keeps CountsHold: the step that
\* completes a request makes its handler wait, the count ends the wait, and a
\* handler that ends early leaves its request uncounted.
LEMMA CountsStep ==
    ASSUME ServiceTypeOK, RowsFit, StatusesFit, CountsHold,
           \A g, h \in Handlers : g = h,
           [ServiceNext]_serviceVars
    PROVE  CountsHold'
<1> USE ServiceAssumption
<1> DEFINE Same ==
      \A p \in Providers :
        /\ provider'[p].completed = provider[p].completed
        /\ Awaited(p)' = Awaited(p)
        /\ ServedBy(p)' \subseteq ServedBy(p)
<1>0. \A p \in Providers :
        /\ IsFiniteSet(ServedBy(p)) /\ Cardinality(ServedBy(p)) \in Nat
        /\ IsFiniteSet(Awaited(p)) /\ Cardinality(Awaited(p)) \in Nat
        /\ provider[p].completed \in Nat
  BY FS_Subset, FS_CardinalityType DEF ServedBy, Awaited, ServiceTypeOK,
     ProviderRow
<1>1. ASSUME NEW r \in Requests, NEW type \in Types, CreateRequest(r, type)
      PROVE  CountsHold'
  <2>1. Same
    BY <1>1 DEF CreateRequest, Awaited, ServedBy, ServiceTypeOK, Serves
  <2> QED
    BY <2>1, CountsKept
<1>2. ASSUME NEW h \in Handlers, NEW r \in Requests, BeginReview(h, r)
      PROVE  CountsHold'
  <2>1. Same
    BY <1>2 DEF BeginReview, Awaited, ServedBy, ServiceTypeOK, Idle, Begin,
       Serves
  <2> QED
    BY <2>1, CountsKept
<1>3. ASSUME NEW h \in Handlers, NEW rating \in Ratings,
             CommitReview(h, rating)
      PROVE  CountsHold'
  <2>1. Same
    BY <1>3 DEF CommitReview, Awaited, ServedBy, ServiceTypeOK, Idle, Serves,
       Finish
  <2> QED
    BY <2>1, CountsKept
<1>4. ASSUME NEW a \in Applications, NEW type \in Types,
             SubmitApplication(a, type)
      PROVE  CountsHold'
  <2>1. Same
    BY <1>4 DEF SubmitApplication, Awaited, ServedBy, ServiceTypeOK, Serves
  <2> QED
    BY <2>1, CountsKept
<1>5. ASSUME NEW h \in Handlers, NEW r \in Requests, NEW p \in Providers,
             BeginAssign(h, r, p)
      PROVE  CountsHold'
  <2>1. Same
    BY <1>5 DEF BeginAssign, Awaited, ServedBy, ServiceTypeOK, Idle, Begin,
       Serves
  <2> QED
    BY <2>1, CountsKept
<1>6. ASSUME NEW h \in Handlers, CommitAssign(h)
      PROVE  CountsHold'
  <2>1. Same
    BY <1>6 DEF CommitAssign, Awaited, ServedBy, ServiceTypeOK, Idle, Serves,
       Finish
  <2> QED
    BY <2>1, CountsKept
<1>7. ASSUME NEW h \in Handlers, NEW r \in Requests,
             NEW status \in RequestStatuses, BeginStatus(h, r, status)
      PROVE  CountsHold'
  <2>1. Same
    BY <1>7 DEF BeginStatus, Awaited, ServedBy, ServiceTypeOK, Idle, Begin,
       Serves
  <2> QED
    BY <2>1, CountsKept
<1>8. ASSUME NEW p \in Providers, NEW type \in Types, NEW mode \in Modes,
             NEW status \in ProviderStatuses,
             CreateProvider(p, type, mode, status)
      PROVE  CountsHold'
  <2>1. Same
    BY <1>8 DEF CreateProvider, Awaited, ServedBy, ServiceTypeOK, NewProvider,
       Serves, RowsFit
  <2> QED
    BY <2>1, CountsKept
<1>9. ASSUME NEW h \in Handlers, NEW p \in Providers,
             NEW type \in Types \cup {Nothing},
             NEW mode \in Modes \cup {Nothing},
             NEW status \in ProviderStatuses \cup {Nothing},
             BeginUpdate(h, p, type, mode, status)
      PROVE  CountsHold'
  <2>1. Same
    BY <1>9 DEF BeginUpdate, Awaited, ServedBy, ServiceTypeOK, Idle, Begin,
       Serves
  <2> QED
    BY <2>1, CountsKept
<1>10. ASSUME NEW h \in Handlers, CommitUpdate(h)
      PROVE  CountsHold'
  <2>1. \A p \in Providers : provider'[p].completed = provider[p].completed
    BY <1>10, UpdateStep, UpdatedRow
  <2>2. \A p \in Providers : Awaited(p)' = Awaited(p)
    BY <1>10 DEF CommitUpdate, Awaited, Serves, Finish, Idle, ServiceTypeOK
  <2>3. \A p \in Providers : ServedBy(p)' = ServedBy(p)
    BY <1>10 DEF CommitUpdate, ServedBy
  <2> QED
    BY <2>1, <2>2, <2>3, CountsKept
<1>11. ASSUME NEW a \in Applications, NEW status \in ApplicationStatuses,
             ReviewApplication(a, status)
      PROVE  CountsHold'
  <2>1. Same
    BY <1>11 DEF ReviewApplication, Awaited, ServedBy, ServiceTypeOK, Serves
  <2> QED
    BY <2>1, CountsKept
<1>12. ASSUME NEW h \in Handlers, NEW a \in Applications, BeginConvert(h, a)
      PROVE  CountsHold'
  <2>1. Same
    BY <1>12 DEF BeginConvert, Awaited, ServedBy, ServiceTypeOK, Idle, Begin,
       Serves
  <2> QED
    BY <2>1, CountsKept
<1>13. ASSUME NEW h \in Handlers, NEW p \in Providers, CommitConvert(h, p)
      PROVE  CountsHold'
  <2>1. Same
    BY <1>13 DEF CommitConvert, Awaited, ServedBy, ServiceTypeOK, Idle,
       Serves, NewProvider, Finish, RowsFit
  <2> QED
    BY <2>1, CountsKept
<1>14. ASSUME NEW h \in Handlers, CommitStatus(h)
      PROVE  CountsHold'
  <2> DEFINE r == task[h].request
             q == task[h].provider
  <2>1. task[h] \in Changing /\ r \in Requests
    BY <1>14, TaskKind DEF CommitStatus, Changing
  <2>2. StatusFits(task[h], request[r])
    BY <1>14 DEF CommitStatus, StatusesFit
  <2>3. CASE ~task[h].counts
    <3>1. Same
      BY <1>14, <2>1, <2>2, <2>3 DEF CommitStatus, StatusFits, Completes,
         Awaited, ServedBy, Serves, Idle, ServiceTypeOK
    <3> QED
      BY <3>1, CountsKept
  <2>4. CASE task[h].counts
    <3>1. q \in Providers /\ task[h].status = "COMPLETED"
      BY <2>1, <2>2, <2>4 DEF StatusFits, Completes, Changing
    <3>2. CASE r \in uncounted
      <4>1. Same
        BY <1>14, <2>1, <2>4, <3>2 DEF CommitStatus, Awaited, ServedBy,
           ServiceTypeOK
      <4> QED
        BY <4>1, CountsKept
    <3>3. ASSUME r \notin uncounted, NEW p \in Providers
          PROVE  provider'[p].completed + Cardinality(Awaited(p)')
                   >= Cardinality(ServedBy(p)')
      <4>1. CASE p # q
        <5>1. /\ provider' = provider /\ Awaited(p)' = Awaited(p)
              /\ ServedBy(p)' \subseteq ServedBy(p)
          BY <1>14, <2>1, <2>2, <2>4, <4>1 DEF CommitStatus, StatusFits,
             Awaited, ServedBy, ServiceTypeOK
        <5>2. Cardinality(ServedBy(p)') <= Cardinality(ServedBy(p))
              /\ Cardinality(ServedBy(p)') \in Nat
          BY <1>0, <5>1, FS_Subset, FS_CardinalityType
        <5> QED
          BY <1>0, <5>1, <5>2 DEF CountsHold
      <4>2. CASE p = q
        <5>1. /\ provider' = provider
              /\ Awaited(p)' = Awaited(p) \cup {h} /\ h \notin Awaited(p)
          BY <1>14, <2>1, <2>4, <3>3, <4>2 DEF CommitStatus, Awaited, Serves,
             ServiceTypeOK
        <5>2. ServedBy(p)' \subseteq ServedBy(p) \cup {r}
          BY <1>14, <2>1 DEF CommitStatus, ServedBy, ServiceTypeOK
        <5>3. Cardinality(Awaited(p)') = Cardinality(Awaited(p)) + 1
          BY <1>0, <5>1, FS_AddElement
        <5>4. /\ Cardinality(ServedBy(p)') <= Cardinality(ServedBy(p)) + 1
              /\ Cardinality(ServedBy(p)') \in Nat
          <6>1. /\ IsFiniteSet(ServedBy(p) \cup {r})
                /\ Cardinality(ServedBy(p) \cup {r}) <= Cardinality(ServedBy(p)) + 1
            <7>1. IsFiniteSet(ServedBy(p)) /\ Cardinality(ServedBy(p)) \in Nat
              BY <1>0
            <7>2. /\ IsFiniteSet(ServedBy(p) \cup {r})
                  /\ Cardinality(ServedBy(p) \cup {r}) =
                       IF r \in ServedBy(p) THEN Cardinality(ServedBy(p))
                                            ELSE Cardinality(ServedBy(p)) + 1
              BY <7>1, FS_AddElement
            <7> QED
              BY <7>1, <7>2
          <6> QED
            BY <1>0, <5>2, <6>1, FS_Subset, FS_CardinalityType
        <5> QED
          BY <1>0, <5>1, <5>3, <5>4 DEF CountsHold
      <4> QED
        BY <4>1, <4>2
    <3> QED
      BY <3>2, <3>3 DEF CountsHold
  <2> QED
    BY <2>3, <2>4
<1>15. ASSUME NEW h \in Handlers, CountCompletion(h)
      PROVE  CountsHold'
  <2> DEFINE q == task[h].provider
  <2>1. task[h] \in Counting /\ q \in Providers
    BY <1>15, TaskKind DEF CountCompletion, Counting
  <2>2. ASSUME NEW p \in Providers
        PROVE  provider'[p].completed + Cardinality(Awaited(p)')
                 >= Cardinality(ServedBy(p)')
    <3>1. ServedBy(p)' = ServedBy(p)
      BY <1>15 DEF CountCompletion, ServedBy
    <3>2. CASE p # q
      <4>1. /\ provider'[p].completed = provider[p].completed
            /\ Awaited(p)' = Awaited(p)
        BY <1>15, <2>1, <3>2 DEF CountCompletion, Awaited, Serves, Finish,
           Idle, ServiceTypeOK
      <4> QED
        BY <1>0, <3>1, <4>1 DEF CountsHold
    <3>3. CASE p = q
      <4>1. /\ provider'[p].completed = provider[p].completed + 1
            /\ Awaited(p)' = Awaited(p) \ {h}
        BY <1>15, <2>1, <3>3 DEF CountCompletion, Awaited, Serves, Finish,
           Idle, ServiceTypeOK
      <4>2. /\ Cardinality(Awaited(p)') >= Cardinality(Awaited(p)) - 1
            /\ Cardinality(Awaited(p)') \in Nat
        <5>1. IsFiniteSet(Awaited(p)) /\ Cardinality(Awaited(p)) \in Nat
          BY <1>0
        <5>2. /\ IsFiniteSet(Awaited(p) \ {h})
              /\ Cardinality(Awaited(p) \ {h}) =
                   IF h \in Awaited(p) THEN Cardinality(Awaited(p)) - 1
                                       ELSE Cardinality(Awaited(p))
          BY <5>1, FS_RemoveElement
        <5>3. Cardinality(Awaited(p) \ {h}) \in Nat
          BY <5>2, FS_CardinalityType
        <5> QED
          BY <4>1, <5>1, <5>2, <5>3
      <4> QED
        BY <1>0, <3>1, <4>1, <4>2 DEF CountsHold
    <3> QED
      BY <3>2, <3>3
  <2> QED
    BY <2>2 DEF CountsHold
<1>16. ASSUME NEW h \in Handlers, Abandon(h)
      PROVE  CountsHold'
  <2> DEFINE r == task[h].request
             q == task[h].provider
  <2>1. CASE ~Serves(h, "COUNT")
    <3>1. Same
      BY <1>16, <2>1 DEF Abandon, Finish, Awaited, ServedBy, Serves, Idle,
         ServiceTypeOK
    <3> QED
      BY <3>1, CountsKept
  <2>2. CASE Serves(h, "COUNT")
    <3>1. /\ task[h] \in Counting /\ r \in Requests /\ q \in Providers
          /\ request[r].status = "COMPLETED" /\ request[r].assigned = q
      BY <2>2, TaskKind DEF Counting, StatusesFit
    <3>2. /\ uncounted' = uncounted \cup {r}
          /\ UNCHANGED <<request, provider>>
          /\ task' = [task EXCEPT ![h] = Idle]
      BY <1>16, <2>2 DEF Abandon, Finish
    <3>3. ASSUME NEW p \in Providers
          PROVE  provider'[p].completed + Cardinality(Awaited(p)')
                   >= Cardinality(ServedBy(p)')
      <4>1. CASE p # q \/ r \in uncounted
        <5>1. Awaited(p)' = Awaited(p)
          BY <2>2, <3>1, <3>2, <4>1 DEF Awaited, Serves, Idle, ServiceTypeOK
        <5>2. ServedBy(p)' = ServedBy(p)
          BY <3>1, <3>2, <4>1 DEF ServedBy
        <5> QED
          BY <1>0, <3>2, <5>1, <5>2 DEF CountsHold
      <4>2. CASE p = q /\ r \notin uncounted
        <5>1. /\ Awaited(p)' = Awaited(p) \ {h} /\ h \in Awaited(p)
              /\ ServedBy(p)' = ServedBy(p) \ {r} /\ r \in ServedBy(p)
          BY <2>2, <3>1, <3>2, <4>2 DEF Awaited, ServedBy, Serves, Idle,
             ServiceTypeOK
        <5>2. /\ Cardinality(Awaited(p)') = Cardinality(Awaited(p)) - 1
              /\ Cardinality(ServedBy(p)') = Cardinality(ServedBy(p)) - 1
          <6>1. IsFiniteSet(Awaited(p)) /\ IsFiniteSet(ServedBy(p))
            BY <1>0
          <6>2. Cardinality(Awaited(p) \ {h}) = Cardinality(Awaited(p)) - 1
            BY <5>1, <6>1, FS_RemoveElement
          <6>3. Cardinality(ServedBy(p) \ {r}) = Cardinality(ServedBy(p)) - 1
            BY <5>1, <6>1, FS_RemoveElement
          <6> QED
            BY <5>1, <6>2, <6>3
        <5> QED
          BY <1>0, <3>2, <5>2 DEF CountsHold
      <4> QED
        BY <4>1, <4>2
    <3> QED
      BY <3>3 DEF CountsHold
  <2> QED
    BY <2>1, <2>2
<1>17. ASSUME ServiceNext PROVE CountsHold'
  BY <1>17, <1>1, <1>2, <1>3, <1>4, <1>5, <1>6, <1>7, <1>8, <1>9, <1>10,
     <1>11, <1>12, <1>13, <1>14, <1>15, <1>16 DEF ServiceNext, CustomerStep,
     AdminStep
<1>18. ASSUME UNCHANGED serviceVars PROVE CountsHold'
  <2>1. Same
    BY <1>18 DEF serviceVars, Awaited, ServedBy, Serves
  <2> QED
    BY <2>1, CountsKept
<1> QED
  BY <1>17, <1>18

-----------------------------------------------------------------------------
(***************************************************************************)
(* The average and the reviews.                                            *)
(***************************************************************************)

\* x \div y, multiplied by y, is at most x and not smaller by y.
LEMMA Quotient ==
    ASSUME NEW x \in Nat, NEW y \in Nat \ {0}
    PROVE  /\ x \div y \in Nat
           /\ y * (x \div y) <= x /\ x < y * (x \div y) + y
OBVIOUS

\* d is no more than the roundings of n reviews can add up to.
Within(d, n) == 4 * d \in -(n * (n + 1)) .. n * (n + 1)

LEMMA Square ==
    ASSUME NEW n \in Nat
    PROVE  n * (n + 1) \in Nat /\ (n + 1) * (n + 1 + 1) = n * (n + 1) + 2 * n + 2
OBVIOUS

LEMMA RoundedOnce ==
    ASSUME NEW average \in Nat, NEW n \in Nat, NEW rating \in Ratings,
           NEW total \in Int, Within(average * n - total, n)
    PROVE  Within(NextAverage(average, n, rating) * (n + 1)
                    - (100 * rating + total), n + 1)
<1> DEFINE next == NextAverage(average, n, rating)
           m == average * n
           k == next * (n + 1)
           s == n * (n + 1)
<1>1. rating \in Nat
  BY ServiceAssumption
<1>2. m \in Nat /\ n + 1 \in Nat \ {0} /\ 2 * (n + 1) \in Nat \ {0}
  OBVIOUS
<1>3. 2 * (m + 100 * rating) + (n + 1) \in Nat
  <2> HIDE DEF m
  <2> QED BY <1>1, <1>2
<1>4. /\ next \in Nat
      /\ (2 * (n + 1)) * next <= 2 * (m + 100 * rating) + (n + 1)
      /\ 2 * (m + 100 * rating) + (n + 1) < (2 * (n + 1)) * next + 2 * (n + 1)
  <2>1. next = (2 * (m + 100 * rating) + (n + 1)) \div (2 * (n + 1))
    BY DEF NextAverage
  <2> HIDE DEF next, m
  <2> QED BY <1>2, <1>3, <2>1, Quotient
<1>5. k \in Nat /\ (2 * (n + 1)) * next = 2 * k
  <2> HIDE DEF next
  <2> QED BY <1>4
<1>6. /\ s \in Nat
      /\ (n + 1) * (n + 1 + 1) = s + 2 * n + 2
  BY Square
<1>7. 4 * (m - total) \in -s .. s
  BY DEF Within
<1> HIDE DEF next, m, k, s
<1>8. 4 * (k - (100 * rating + total)) \in -(s + 2 * n + 2) .. s + 2 * n + 2
  BY <1>1, <1>2, <1>4, <1>5, <1>6, <1>7
<1> QED BY <1>6, <1>8 DEF Within, k, next

\* The reviews of p in the rows f, and what their ratings add up to.
ReviewsIn(f, p) == {r \in Requests : f[r].provider = p}
TotalIn(f, p) == MapThenSumSet(LAMBDA r : 100 * f[r].rating, ReviewsIn(f, p))
RatingsIn(f) == [r \in Requests |-> 100 * f[r].rating]

LEMMA TotalIs ==
    ASSUME NEW p
    PROVE  /\ MapThenSumSet(InHundredths, ReviewsOf(p)) = TotalIn(review, p)
           /\ MapThenSumSet(InHundredths, ReviewsOf(p))' = TotalIn(review', p)
BY DEF InHundredths, TotalIn, ReviewsIn, ReviewsOf, MapThenSumSet,
       MapThenFoldSet

LEMMA TotalSum ==
    ASSUME NEW f, NEW p
    PROVE  /\ IsFiniteSet(ReviewsIn(f, p))
           /\ TotalIn(f, p) = SumOver(RatingsIn(f), ReviewsIn(f, p))
<1> DEFINE S == ReviewsIn(f, p)
           Recursion(g) ==
             g = [T \in SUBSET S |->
                     IF T = {} THEN 0
                     ELSE LET x == CHOOSE x \in T : TRUE
                          IN 100 * f[x].rating + g[T \ {x}]]
           iter == CHOOSE g : Recursion(g)
<1>0. IsFiniteSet(S)
  BY ServiceAssumption, FS_Subset DEF ReviewsIn
<1>1. TotalIn(f, p) = iter[S]
  BY DEF TotalIn, MapThenSumSet, MapThenFoldSet
<1>2. \A g : IsSum(g, RatingsIn(f), S) <=> Recursion(g)
  <2>1. \A T \in SUBSET S : T # {} =>
            RatingsIn(f)[First(T)] = 100 * f[First(T)].rating
    BY FirstIn DEF RatingsIn, ReviewsIn
  <2> HIDE DEF S
  <2> QED BY <2>1 DEF IsSum, SumStep, First
<1> HIDE DEF Recursion
<1>3. IsSum(iter, RatingsIn(f), S)
  <2>1. PICK g : IsSum(g, RatingsIn(f), S)
    BY <1>0, SumExists
  <2> HIDE DEF S
  <2> QED BY <1>2, <2>1
<1>4. PICK h : /\ IsSum(h, RatingsIn(f), S)
               /\ SumOver(RatingsIn(f), S) = h[S]
  <2> HIDE DEF S
  <2> QED BY <1>0, SumIsSum
<1> HIDE DEF iter
<1>5. iter[S] = h[S]
  <2> HIDE DEF S
  <2> QED BY <1>0, <1>3, <1>4, SumsAgree
<1> QED BY <1>0, <1>1, <1>4, <1>5

\* The reviews f have ratings, and g has one more.
Rated(f) ==
    /\ f \in [Requests -> ReviewRow]
    /\ \A x \in Requests, q \in Providers :
         f[x].provider = q => f[x].rating \in Ratings

OneMore(f, r, p, rating, g) ==
    /\ r \in Requests /\ f[r].provider = Nothing
    /\ p \in Providers /\ rating \in Ratings
    /\ g = [f EXCEPT ![r] = [provider |-> p, rating |-> rating]]

\* A new review adds its rating to those of its provider, and leaves the others
\* as they were.
LEMMA ReviewAdded ==
    ASSUME NEW f, Rated(f), NEW r, NEW p, NEW rating, NEW g,
           OneMore(f, r, p, rating, g)
    PROVE  /\ \A q \in Providers : TotalIn(f, q) \in Int
           /\ TotalIn(g, p) = 100 * rating + TotalIn(f, p)
           /\ Cardinality(ReviewsIn(g, p)) = Cardinality(ReviewsIn(f, p)) + 1
           /\ \A q \in Providers \ {p} : /\ ReviewsIn(g, q) = ReviewsIn(f, q)
                                         /\ TotalIn(g, q) = TotalIn(f, q)
<1> USE DEF Rated, OneMore
<1>1. Ratings \subseteq Nat /\ Nothing \notin Providers
  BY ServiceAssumption
<1>2. ASSUME NEW q \in Providers, NEW x \in ReviewsIn(f, q)
      PROVE  /\ RatingsIn(f)[x] \in Int /\ RatingsIn(g)[x] \in Int
             /\ RatingsIn(g)[x] = RatingsIn(f)[x] /\ x # r
  <2>1. x \in Requests /\ f[x].rating \in Ratings /\ x # r
    BY <1>1 DEF ReviewsIn
  <2>2. g[x] = f[x] /\ f[x].rating \in Nat
    BY <1>1, <2>1
  <2> QED BY <2>1, <2>2 DEF RatingsIn
<1>3. \A q \in Providers \ {p} : ReviewsIn(g, q) = ReviewsIn(f, q)
  BY <1>1 DEF ReviewsIn
<1>4. ASSUME NEW q \in Providers
      PROVE  /\ SumOver(RatingsIn(g), ReviewsIn(f, q)) = TotalIn(f, q)
             /\ TotalIn(f, q) \in Int
  <2>1. /\ IsFiniteSet(ReviewsIn(f, q))
        /\ TotalIn(f, q) = SumOver(RatingsIn(f), ReviewsIn(f, q))
    BY TotalSum
  <2>2. SumOver(RatingsIn(f), ReviewsIn(f, q)) \in Int
    BY <1>2, <2>1, SumInt
  <2>3. SumOver(RatingsIn(g), ReviewsIn(f, q))
          = SumOver(RatingsIn(f), ReviewsIn(f, q))
    BY <1>2, <2>1, SumSame
  <2> QED BY <2>1, <2>2, <2>3
<1>5. \A q \in Providers \ {p} : TotalIn(g, q) = TotalIn(f, q)
  <2> SUFFICES ASSUME NEW q \in Providers \ {p}
               PROVE  TotalIn(g, q) = TotalIn(f, q)
    OBVIOUS
  <2>1. TotalIn(g, q) = SumOver(RatingsIn(g), ReviewsIn(g, q))
    BY TotalSum
  <2> QED BY <1>3, <1>4, <2>1
<1>6. ReviewsIn(g, p) = ReviewsIn(f, p) \cup {r} /\ r \notin ReviewsIn(f, p)
  BY <1>1 DEF ReviewsIn
<1>7. RatingsIn(g)[r] = 100 * rating /\ RatingsIn(g)[r] \in Int
  BY <1>1 DEF RatingsIn
<1>8. SumOver(RatingsIn(g), ReviewsIn(f, p) \cup {r})
        = RatingsIn(g)[r] + SumOver(RatingsIn(g), ReviewsIn(f, p))
  BY <1>2, <1>6, <1>7, TotalSum, SumWith
<1>9. TotalIn(g, p) = 100 * rating + TotalIn(f, p)
  BY <1>4, <1>6, <1>7, <1>8, TotalSum
<1>10. Cardinality(ReviewsIn(g, p)) = Cardinality(ReviewsIn(f, p)) + 1
  BY <1>6, TotalSum, FS_AddElement
<1> QED BY <1>3, <1>4, <1>5, <1>9, <1>10

\* A step that reviews nothing changes no count and no average, unless it makes
\* a provider.
AverageKept(p) ==
    \/ /\ provider'[p].reviewCount = provider[p].reviewCount
       /\ provider'[p].average = provider[p].average
       /\ provider[p].status # "NONE" => provider'[p].status # "NONE"
    \/ /\ provider[p].status = "NONE"
       /\ provider'[p].reviewCount = 0 /\ provider'[p].average = 0

\* No handler has read a row that is not so any more.
ReadsFit ==
    \A h \in Handlers :
      task'[h].op = "REVIEW" =>
        ReviewFits(task'[h], provider'[task'[h].provider])

NoReview == review' = review /\ (\A p \in Providers : AverageKept(p)) /\ ReadsFit

\* Every step but that of CommitReview is such a step.
LEMMA NoReviewStep ==
    ASSUME ServiceTypeOK, RowsFit, UpdatesFit, ReviewsFit,
           \A g, h \in Handlers : g = h,
           [ServiceNext]_serviceVars,
           \A h \in Handlers, rating \in Ratings : ~CommitReview(h, rating)
    PROVE  NoReview
<1> USE ServiceAssumption DEF ReadsFit
<1>0. ASSUME provider' = provider PROVE \A p \in Providers : AverageKept(p)
  BY <1>0 DEF AverageKept
<1>18. ASSUME provider' = provider, review' = review,
             \A h \in Handlers : task'[h] = task[h] \/ task'[h].op # "REVIEW"
      PROVE  NoReview
  BY <1>0, <1>18 DEF NoReview, ReviewsFit, Serves
<1>19. ASSUME NEW h \in Handlers, task'[h].op # "REVIEW" PROVE ReadsFit
  BY <1>19
<1>1. ASSUME NEW r \in Requests, NEW type \in Types, CreateRequest(r, type)
      PROVE  NoReview
  BY <1>1, <1>18 DEF CreateRequest
<1>2. ASSUME NEW h \in Handlers, NEW r \in Requests, BeginReview(h, r)
      PROVE  NoReview
  <2> DEFINE p == request[r].assigned
  <2>1. /\ p \in Providers /\ provider[p].status # "NONE"
        /\ provider' = provider /\ review' = review
    BY <1>2 DEF BeginReview, RowsFit, ServiceTypeOK, RequestRow
  <2>2. task'[h] = [op |-> "REVIEW", request |-> r, provider |-> p,
                    reviewCount |-> provider[p].reviewCount,
                    average |-> provider[p].average]
    BY <1>2 DEF BeginReview, Begin, ServiceTypeOK
  <2> HIDE DEF p
  <2>3. ReadsFit
    BY <2>1, <2>2 DEF ReviewFits
  <2> QED BY <1>0, <2>1, <2>3 DEF NoReview
<1>3. ASSUME NEW a \in Applications, NEW type \in Types,
             SubmitApplication(a, type)
      PROVE  NoReview
  BY <1>3, <1>18 DEF SubmitApplication
<1>4. ASSUME NEW h \in Handlers, NEW r \in Requests, NEW p \in Providers,
             BeginAssign(h, r, p)
      PROVE  NoReview
  BY <1>4, <1>18 DEF BeginAssign, Begin, ServiceTypeOK
<1>5. ASSUME NEW h \in Handlers, CommitAssign(h)
      PROVE  NoReview
  BY <1>5, <1>18 DEF CommitAssign, Finish, Idle, ServiceTypeOK
<1>6. ASSUME NEW h \in Handlers, NEW r \in Requests,
             NEW status \in RequestStatuses, BeginStatus(h, r, status)
      PROVE  NoReview
  BY <1>6, <1>18 DEF BeginStatus, Begin, ServiceTypeOK
<1>7. ASSUME NEW h \in Handlers, CommitStatus(h)
      PROVE  NoReview
  BY <1>7, <1>18 DEF CommitStatus, Idle, ServiceTypeOK
<1>8. ASSUME NEW h \in Handlers, CountCompletion(h)
      PROVE  NoReview
  <2>1. task[h].provider \in Providers /\ task'[h].op # "REVIEW"
    BY <1>8, TaskKind DEF CountCompletion, Counting, Finish, Idle, ServiceTypeOK
  <2>2. \A p \in Providers : AverageKept(p)
    BY <1>8, <2>1 DEF CountCompletion, AverageKept, ServiceTypeOK, ProviderRow
  <2> QED BY <1>8, <1>19, <2>1, <2>2 DEF CountCompletion, NoReview
<1>9. ASSUME NEW p \in Providers, NEW type \in Types, NEW mode \in Modes,
             NEW status \in ProviderStatuses,
             CreateProvider(p, type, mode, status)
      PROVE  NoReview
  <2>1. /\ provider[p].status = "NONE"
        /\ provider'[p].reviewCount = 0 /\ provider'[p].average = 0
        /\ \A q \in Providers \ {p} : provider'[q] = provider[q]
        /\ task' = task /\ review' = review
    BY <1>9 DEF CreateProvider, NewProvider, ServiceTypeOK
  <2>2. \A q \in Providers : AverageKept(q)
    BY <2>1 DEF AverageKept
  <2>3. ASSUME NEW h \in Handlers, task[h].op = "REVIEW"
        PROVE  task[h].provider \in Providers \ {p}
    BY <2>1, <2>3, TaskKind DEF Reviewing, ReviewsFit, Serves, ReviewFits
  <2>4. ReadsFit
    BY <2>1, <2>3 DEF ReviewsFit, Serves
  <2> QED BY <2>1, <2>2, <2>4 DEF NoReview
<1>10. ASSUME NEW h \in Handlers, NEW p \in Providers,
             NEW type \in Types \cup {Nothing},
             NEW mode \in Modes \cup {Nothing},
             NEW status \in ProviderStatuses \cup {Nothing},
             BeginUpdate(h, p, type, mode, status)
      PROVE  NoReview
  BY <1>10, <1>18 DEF BeginUpdate, Begin, ServiceTypeOK
<1>11. ASSUME NEW h \in Handlers, CommitUpdate(h)
      PROVE  NoReview
  <2> DEFINE p == task[h].provider
  <2>1. /\ p \in Providers /\ task[h] \in Updating
        /\ provider[p] \in ProviderRow
        /\ provider'[p] = Updated(provider[p], task[h])
        /\ \A q \in Providers \ {p} : provider'[q] = provider[q]
    BY <1>11, UpdateStep
  <2>2. /\ provider'[p].reviewCount = provider[p].reviewCount
        /\ provider'[p].average = provider[p].average
        /\ provider'[p].status = Given(task[h].status, provider[p].status)
    BY <2>1, UpdatedRow
  <2>3. provider[p].status # "NONE"
    BY <1>11 DEF CommitUpdate, UpdatesFit, UpdateFits
  <2>4. provider'[p].status # "NONE"
    BY <2>1, <2>2, <2>3 DEF Given, Updating, ProviderStatuses
  <2>5. task'[h].op # "REVIEW" /\ review' = review
    BY <1>11 DEF CommitUpdate, Finish, Idle, ServiceTypeOK
  <2> HIDE DEF p
  <2>6. \A q \in Providers : AverageKept(q)
    BY <2>1, <2>2, <2>4 DEF AverageKept
  <2> QED BY <1>19, <2>5, <2>6 DEF NoReview
<1>12. ASSUME NEW a \in Applications, NEW status \in ApplicationStatuses,
             ReviewApplication(a, status)
      PROVE  NoReview
  BY <1>12, <1>18 DEF ReviewApplication
<1>13. ASSUME NEW h \in Handlers, NEW a \in Applications, BeginConvert(h, a)
      PROVE  NoReview
  BY <1>13, <1>18 DEF BeginConvert, Begin, ServiceTypeOK
<1>14. ASSUME NEW h \in Handlers, NEW p \in Providers, CommitConvert(h, p)
      PROVE  NoReview
  <2>1. /\ provider[p].status = "NONE"
        /\ provider'[p].reviewCount = 0 /\ provider'[p].average = 0
        /\ \A q \in Providers \ {p} : provider'[q] = provider[q]
        /\ task'[h].op # "REVIEW" /\ review' = review
    BY <1>14 DEF CommitConvert, NewProvider, Finish, Idle, ServiceTypeOK
  <2>2. \A q \in Providers : AverageKept(q)
    BY <2>1 DEF AverageKept
  <2> QED BY <1>19, <2>1, <2>2 DEF NoReview
<1>15. ASSUME NEW h \in Handlers, Abandon(h)
      PROVE  NoReview
  BY <1>15, <1>18 DEF Abandon, Finish, Idle, ServiceTypeOK
<1>16. CASE UNCHANGED serviceVars
  BY <1>16, <1>18 DEF serviceVars
<1>17. ASSUME ServiceNext PROVE NoReview
  BY <1>17, <1>1, <1>2, <1>3, <1>4, <1>5, <1>6, <1>7, <1>8, <1>9, <1>10,
     <1>11, <1>12, <1>13, <1>14, <1>15 DEF ServiceNext, CustomerStep, AdminStep
<1> QED BY <1>16, <1>17

\* What ReviewsAgree says of the row of one provider, if the reviews are f.
AgreesWith(f, row, p) ==
    /\ row.reviewCount = Cardinality(ReviewsIn(f, p))
    /\ Within(row.average * Cardinality(ReviewsIn(f, p)) - TotalIn(f, p),
              Cardinality(ReviewsIn(f, p)))

\* ReviewsAgree, before a step and after it, one provider at a time.
LEMMA AgreeIs ==
    /\ ReviewsAgree <=> \A p \in Providers : AgreesWith(review, provider[p], p)
    /\ ReviewsAgree' <=>
         \A p \in Providers : AgreesWith(review', provider'[p], p)
<1>1. \A p : /\ ReviewsOf(p) = ReviewsIn(review, p)
             /\ ReviewsOf(p)' = ReviewsIn(review', p)
  BY DEF ReviewsOf, ReviewsIn
<1>2. \A p : /\ MapThenSumSet(InHundredths, ReviewsOf(p)) = TotalIn(review, p)
             /\ MapThenSumSet(InHundredths, ReviewsOf(p))' = TotalIn(review', p)
  BY TotalIs
<1>3. ReviewsAgree <=> \A p \in Providers : AgreesWith(review, provider[p], p)
  BY <1>1, <1>2 DEF ReviewsAgree, AgreesWith, Within
<1>4. ReviewsAgree' <=>
         \A p \in Providers : AgreesWith(review', provider'[p], p)
  BY <1>1, <1>2 DEF ReviewsAgree, AgreesWith, Within
<1> QED BY <1>3, <1>4

\* Who has no reviews needs no count and no average.
LEMMA NoneAgrees ==
    ASSUME NEW f, NEW p, NEW row, ReviewsIn(f, p) = {},
           row.reviewCount = 0, row.average = 0
    PROVE  AgreesWith(f, row, p)
<1>1. Cardinality(ReviewsIn(f, p)) = 0
  BY FS_EmptySet
<1>2. TotalIn(f, p) = 0
  BY TotalSum, SumEmpty
<1> QED BY <1>1, <1>2 DEF AgreesWith, Within

\* Steps that review nothing.
LEMMA OtherStepsAgree ==
    ASSUME ServiceTypeOK, ReviewsFit, ReviewsAgree, NoReview
    PROVE  ReviewsFit' /\ ReviewsAgree'
<1>1. /\ review' = review /\ \A p \in Providers : AverageKept(p)
      /\ ReadsFit
  BY DEF NoReview
<1>2. ASSUME NEW r \in Requests, NEW p \in Providers, review'[r].provider = p
      PROVE  provider'[p].status # "NONE" /\ review'[r].rating \in Ratings
  BY <1>1, <1>2 DEF ReviewsFit, AverageKept
<1>3. ReviewsFit'
  BY <1>1, <1>2 DEF ReviewsFit, ReadsFit, Serves, ReviewFits
<1>4. ASSUME NEW p \in Providers PROVE AgreesWith(review', provider'[p], p)
  <2>1. AgreesWith(review, provider[p], p)
    BY AgreeIs
  <2>2. CASE /\ provider'[p].reviewCount = provider[p].reviewCount
             /\ provider'[p].average = provider[p].average
    BY <1>1, <2>1, <2>2 DEF AgreesWith
  <2>3. CASE /\ provider[p].status = "NONE"
             /\ provider'[p].reviewCount = 0 /\ provider'[p].average = 0
    <3>1. ReviewsIn(review', p) = {}
      BY <1>1, <2>3 DEF ReviewsIn, ReviewsFit
    <3> QED BY <2>3, <3>1, NoneAgrees
  <2> QED BY <1>1, <2>2, <2>3 DEF AverageKept
<1> QED BY <1>3, <1>4, AgreeIs

\* A review counts once, and moves the average by its rounding only.
LEMMA ReviewAgrees ==
    ASSUME ServiceTypeOK, ReviewsFit, ReviewsAgree,
           \A g, h \in Handlers : g = h,
           NEW h \in Handlers, NEW rating \in Ratings, CommitReview(h, rating)
    PROVE  ReviewsFit' /\ ReviewsAgree'
<1> DEFINE p == task[h].provider
           r == task[h].request
           n == Cardinality(ReviewsIn(review, p))
           next == NextAverage(provider[p].average, n, rating)
<1>1. /\ p \in Providers /\ r \in Requests /\ task[h] \in Reviewing
      /\ provider[p] \in ProviderRow
      /\ review \in [Requests -> ReviewRow]
  BY TaskKind DEF CommitReview, Reviewing, ServiceTypeOK
<1>2. ReviewFits(task[h], provider[p])
  BY DEF ReviewsFit, CommitReview
<1>3. \A q \in Providers : AgreesWith(review, provider[q], q)
  BY AgreeIs
<1>4. /\ provider[p].reviewCount = n /\ provider[p].average \in Nat
      /\ n \in Nat
      /\ Within(provider[p].average * n - TotalIn(review, p), n)
  BY <1>1, <1>3 DEF AgreesWith, ProviderRow
<1>5. /\ review[r].provider = Nothing
      /\ review' = [review EXCEPT ![r] = [provider |-> p, rating |-> rating]]
  BY DEF CommitReview, Reviewed
<1>6. /\ provider'[p].reviewCount = n + 1 /\ provider'[p].average = next
      /\ provider'[p].status # "NONE"
      /\ \A q \in Providers \ {p} : provider'[q] = provider[q]
  <2>1. provider' = [provider EXCEPT ![p] = [provider[p] EXCEPT
                        !.reviewCount = task[h].reviewCount + 1,
                        !.average = NextAverage(task[h].average,
                                      task[h].reviewCount, rating)]]
    BY DEF CommitReview
  <2>2. /\ task[h].reviewCount = n /\ task[h].average = provider[p].average
        /\ provider[p].status # "NONE"
    BY <1>2, <1>4 DEF ReviewFits
  <2>3. provider' = [provider EXCEPT ![p] = [provider[p] EXCEPT
                        !.reviewCount = n + 1, !.average = next]]
    BY <2>1, <2>2
  <2> HIDE DEF p, n, next
  <2>4. provider \in [Providers -> ProviderRow]
    BY DEF ServiceTypeOK
  <2> QED BY <1>1, <2>2, <2>3, <2>4 DEF ProviderRow
<1>7. \A x \in Requests, q \in Providers :
        review[x].provider = q => review[x].rating \in Ratings
  BY DEF ReviewsFit
<1> HIDE DEF p, r
<1>8. /\ \A q \in Providers : TotalIn(review, q) \in Int
      /\ TotalIn(review', p) = 100 * rating + TotalIn(review, p)
      /\ Cardinality(ReviewsIn(review', p)) = n + 1
      /\ \A q \in Providers \ {p} :
           /\ ReviewsIn(review', q) = ReviewsIn(review, q)
           /\ TotalIn(review', q) = TotalIn(review, q)
  <2>1. Rated(review)
    BY <1>1, <1>7 DEF Rated
  <2>2. OneMore(review, r, p, rating, review')
    BY <1>1, <1>5 DEF OneMore
  <2> QED BY <2>1, <2>2, ReviewAdded
<1>9. Within(next * (n + 1) - (100 * rating + TotalIn(review, p)), n + 1)
  BY <1>1, <1>4, <1>8, RoundedOnce
<1> HIDE DEF next, n
<1>10. ASSUME NEW q \in Providers PROVE AgreesWith(review', provider'[q], q)
  <2>1. CASE q = p
    BY <1>6, <1>8, <1>9, <2>1 DEF AgreesWith
  <2>2. CASE q # p
    BY <1>3, <1>6, <1>8, <2>2 DEF AgreesWith
  <2> QED BY <2>1, <2>2
<1>11. ASSUME NEW x \in Requests, NEW q \in Providers, review'[x].provider = q
       PROVE  provider'[q].status # "NONE" /\ review'[x].rating \in Ratings
  <2>1. CASE x = r
    BY <1>1, <1>5, <1>6, <1>11, <2>1
  <2>2. CASE x # r
    BY <1>1, <1>5, <1>6, <1>11, <2>2 DEF ReviewsFit
  <2> QED BY <2>1, <2>2
<1>12. \A g \in Handlers : task'[g].op # "REVIEW"
  BY DEF CommitReview, Finish, Idle, ServiceTypeOK
<1>13. ReviewsFit'
  BY <1>11, <1>12 DEF ReviewsFit, Serves
<1> QED BY <1>10, <1>13, AgreeIs

\* Every step of calls that do not overlap keeps the counts and the averages.
LEMMA ReviewsStep ==
    ASSUME ServiceTypeOK, RowsFit, UpdatesFit, ReviewsFit, ReviewsAgree,
           \A g, h \in Handlers : g = h,
           [ServiceNext]_serviceVars
    PROVE  ReviewsFit' /\ ReviewsAgree'
<1>1. CASE \E h \in Handlers, rating \in Ratings : CommitReview(h, rating)
  BY <1>1, ReviewAgrees
<1>2. CASE \A h \in Handlers, rating \in Ratings : ~CommitReview(h, rating)
  BY <1>2, NoReviewStep, OtherStepsAgree
<1> QED BY <1>1, <1>2

\* At first there are no reviews.
LEMMA ReviewsInit == ServiceInit => ReviewsFit /\ ReviewsAgree
<1> SUFFICES ASSUME ServiceInit PROVE ReviewsFit /\ ReviewsAgree
  OBVIOUS
<1>1. ReviewsFit
  BY ServiceAssumption DEF ServiceInit, ReviewsFit, Serves, Idle
<1>2. ASSUME NEW p \in Providers PROVE AgreesWith(review, provider[p], p)
  <2>1. ReviewsIn(review, p) = {}
    BY ServiceAssumption DEF ServiceInit, ReviewsIn
  <2>2. provider[p].reviewCount = 0 /\ provider[p].average = 0
    BY DEF ServiceInit, NewProvider
  <2> QED BY <2>1, <2>2, NoneAgrees
<1> QED BY <1>1, <1>2, AgreeIs

-----------------------------------------------------------------------------
\* The first rows have their types.
LEMMA TypeInit == ServiceInit => ServiceTypeOK
<1>1. /\ 0 \in Nat /\ "NONE" \in RequestStatuses \cup {"NONE"}
      /\ "BOOKABLE" \in Modes
  BY DEF Modes
<1> QED
  BY <1>1 DEF ServiceInit, ServiceTypeOK, RequestRow, ProviderRow,
     NewProvider, ApplicationRow, ReviewRow, Task

\* Every row and every snapshot of a handler keeps its type, for any number of
\* requests, providers and overlapping calls
\* (service-provider-requests.service.ts).
THEOREM ServiceTypeCorrect == ServiceSpec => []ServiceTypeOK
<1>1. ServiceInit => ServiceTypeOK
  BY TypeInit
<1>2. ServiceTypeOK /\ [ServiceNext]_serviceVars => ServiceTypeOK'
  BY TypeStep
<1> QED
  BY <1>1, <1>2, PTL DEF ServiceSpec

\* SerialInv holds of the first rows.
LEMMA SerialInit == ServiceInit => SerialInv
<1> SUFFICES ASSUME ServiceInit PROVE SerialInv
  OBVIOUS
<1>1. ServiceTypeOK
  BY TypeInit
<1>2. RowsFit /\ UpdatesFit /\ ApprovedIsBookable /\ StatusesFit
  BY ServiceAssumption DEF ServiceInit, RowsFit, UpdatesFit,
     ApprovedIsBookable, StatusesFit, NewProvider, Serves, Idle
<1>4. ReviewsFit /\ ReviewsAgree
  BY ReviewsInit
<1>3. CountsHold
  <2> SUFFICES ASSUME NEW p \in Providers
               PROVE  provider[p].completed + Cardinality(Awaited(p))
                        >= Cardinality(ServedBy(p))
    BY DEF CountsHold
  <2>1. Awaited(p) = {} /\ ServedBy(p) = {} /\ provider[p].completed = 0
    BY DEF ServiceInit, Awaited, ServedBy, Serves, Idle, NewProvider
  <2> QED
    BY <2>1, FS_EmptySet
<1> QED
  BY <1>1, <1>2, <1>3, <1>4 DEF SerialInv

\* Every step of calls that do not overlap keeps SerialInv.
LEMMA SerialStep ==
    ASSUME SerialInv, \A g, h \in Handlers : g = h, [ServiceNext]_serviceVars
    PROVE  SerialInv'
<1>1. /\ ServiceTypeOK /\ RowsFit /\ UpdatesFit /\ ApprovedIsBookable
      /\ StatusesFit /\ CountsHold /\ ReviewsFit /\ ReviewsAgree
  BY DEF SerialInv
<1>2. ServiceTypeOK'
  BY <1>1, TypeStep
<1>3. RowsFit' /\ UpdatesFit' /\ ApprovedIsBookable'
  BY <1>1, RowsFitStep, UpdatesFitStep, BookableStep
<1>4. StatusesFit' /\ CountsHold'
  BY <1>1, StatusesFitStep, CountsStep
<1>5. ReviewsFit' /\ ReviewsAgree'
  BY <1>1, ReviewsStep
<1> QED
  BY <1>2, <1>3, <1>4, <1>5 DEF SerialInv

\* While calls follow one another no series of partial updates leaves a
\* readiness-only provider or a health professional approved
\* (adminUpdateProvider).
THEOREM BookableOnly ==
    ASSUME \A g, h \in Handlers : g = h
    PROVE  ServiceSpec => []ApprovedIsBookable
<1>1. ServiceInit => SerialInv
  BY SerialInit
<1>2. SerialInv /\ [ServiceNext]_serviceVars => SerialInv'
  BY SerialStep
<1>3. SerialInv => ApprovedIsBookable
  BY DEF SerialInv
<1> QED
  BY <1>1, <1>2, <1>3, PTL DEF ServiceSpec

\* While calls follow one another the count kept on a provider is that of its
\* reviews, and the average differs from theirs by no more than the rounding of
\* each review adds, for any number of reviews (reviewProvider).
THEOREM AveragesFollowReviews ==
    ASSUME \A g, h \in Handlers : g = h
    PROVE  ServiceSpec => []ReviewsAgree
<1>1. ServiceInit => SerialInv
  BY SerialInit
<1>2. SerialInv /\ [ServiceNext]_serviceVars => SerialInv'
  BY SerialStep
<1>3. SerialInv => ReviewsAgree
  BY DEF SerialInv
<1> QED
  BY <1>1, <1>2, <1>3, PTL DEF ServiceSpec

\* While calls follow one another every completed request whose call was not
\* cut short is counted for the provider who served it (adminUpdateStatus).
THEOREM CompletionsAreCounted ==
    ASSUME \A g, h \in Handlers : g = h
    PROVE  ServiceSpec => []CompletionsCounted
<1>1. ServiceInit => SerialInv
  BY SerialInit
<1>2. SerialInv /\ [ServiceNext]_serviceVars => SerialInv'
  BY SerialStep
<1>3. SerialInv => CompletionsCounted
  <2> SUFFICES ASSUME SerialInv, NEW p \in Providers
               PROVE  provider[p].completed
                        + Cardinality({h \in Handlers :
                            Serves(h, "COUNT") /\ task[h].provider = p})
                        >= Cardinality(ServedBy(p))
    BY DEF CompletionsCounted
  <2> DEFINE S == {h \in Handlers : Serves(h, "COUNT") /\ task[h].provider = p}
  <2>1. Awaited(p) \subseteq S /\ IsFiniteSet(S)
    BY ServiceAssumption, FS_Subset DEF Awaited
  <2>2. Cardinality(Awaited(p)) <= Cardinality(S)
    BY <2>1, FS_Subset
  <2>3. /\ Cardinality(S) \in Nat /\ Cardinality(Awaited(p)) \in Nat
        /\ Cardinality(ServedBy(p)) \in Nat
    BY <2>1, ServiceAssumption, FS_Subset, FS_CardinalityType DEF ServedBy
  <2>4. /\ provider[p].completed \in Nat
        /\ provider[p].completed + Cardinality(Awaited(p))
             >= Cardinality(ServedBy(p))
    BY DEF SerialInv, CountsHold, ServiceTypeOK, ProviderRow
  <2> HIDE DEF S
  <2>5. provider[p].completed + Cardinality(S) >= Cardinality(ServedBy(p))
    BY <2>2, <2>3, <2>4
  <2> QED
    BY <2>5 DEF S
<1> QED
  BY <1>1, <1>2, <1>3, PTL DEF ServiceSpec
=============================================================================
