----------------------------- MODULE ServiceDesk -----------------------------
(***************************************************************************)
(* SME services: a customer asks for a painter or a plumber, an admin      *)
(* assigns a provider and keeps the status of the request, the customer    *)
(* reviews the provider, and providers come from admins or from            *)
(* applications (service-provider-requests.service.ts,                     *)
(* service-provider-applications.service.ts).                              *)
(*                                                                         *)
(* No operation of this desk takes a lock: each reads rows, decides, and   *)
(* then writes by id.  A handler is in between while its task is not Idle. *)
(***************************************************************************)
EXTENDS Integers, FiniteSets, FiniteSetsExt

CONSTANTS
    Requests, Providers, Applications,
    Trades,     \* service types that can be booked
    Ratings,    \* the ratings customers give
    Handlers,   \* calls the service works on at one time
    Nothing

Health == "HEALTH_PROFESSIONAL"
Types == Trades \cup {Health}

ASSUME ServiceAssumption ==
    /\ IsFiniteSet(Requests) /\ IsFiniteSet(Handlers)
    /\ Ratings \subseteq 1..5
    /\ Health \notin Trades
    /\ Nothing \notin Requests \cup Providers \cup Applications \cup Types
    /\ Nothing \notin Ratings

VARIABLES
    request,      \* [Requests -> RequestRow]
    provider,     \* [Providers -> ProviderRow]
    application,  \* [Applications -> ApplicationRow]
    review,       \* [Requests -> ReviewRow], one row per request at most
    task,         \* [Handlers -> what a handler has read]
    uncounted     \* history: requests whose completion was never counted

serviceVars == <<request, provider, application, review, task, uncounted>>

\* SUBMITTED stands for UNDER_REVIEW and PROVIDER_MATCHING too.
RequestStatuses == {"SUBMITTED", "PROVIDER_ASSIGNED", "COMPLETED", "CANCELLED"}
RequestRow == [status : RequestStatuses \cup {"NONE"},
               type : Types \cup {Nothing},
               assigned : Providers \cup {Nothing}]

\* PENDING_REVIEW stands for SUSPENDED and INACTIVE too: the code asks
\* only whether a provider is APPROVED.
ProviderStatuses == {"PENDING_REVIEW", "APPROVED"}
Modes == {"BOOKABLE", "READINESS_ONLY"}
\* average is in hundredths, as the column keeps it.
ProviderRow == [status : ProviderStatuses \cup {"NONE"},
                type : Types \cup {Nothing}, mode : Modes,
                source : Applications \cup {Nothing},
                reviewCount : Nat, average : Nat, completed : Nat]

\* SUBMITTED stands for UNDER_REVIEW and CHANGES_REQUESTED too.
ApplicationStatuses ==
    {"SUBMITTED", "APPROVED", "REJECTED", "CONVERTED_TO_PROVIDER"}
ApplicationRow == [status : ApplicationStatuses \cup {"NONE"},
                   type : Types \cup {Nothing}]

ReviewRow == [provider : Providers \cup {Nothing},
              rating : Ratings \cup {Nothing}]

\* What a handler has read and what it is going to write; type, mode and
\* status are Nothing where the caller of an update left them out, counts says
\* that a change of status completes the request of a provider.
Idle == [op |-> "IDLE"]
Reviewing == [op : {"REVIEW"}, request : Requests, provider : Providers,
              reviewCount : Nat, average : Nat]
Assigning == [op : {"ASSIGN"}, request : Requests, provider : Providers]
Changing ==
    {t \in [op : {"STATUS"}, request : Requests, status : RequestStatuses,
            provider : Providers \cup {Nothing}, counts : BOOLEAN] :
       t.counts => t.provider # Nothing}
Counting == [op : {"COUNT"}, request : Requests, provider : Providers]
Updating == [op : {"UPDATE"}, provider : Providers,
             type : Types \cup {Nothing}, mode : Modes \cup {Nothing},
             status : ProviderStatuses \cup {Nothing}]
Converting == [op : {"CONVERT"}, application : Applications,
               type : Types \cup {Nothing}]

Task == {Idle} \cup Reviewing \cup Assigning \cup Changing \cup Counting
          \cup Updating \cup Converting

ServiceTypeOK ==
    /\ request \in [Requests -> RequestRow]
    /\ provider \in [Providers -> ProviderRow]
    /\ application \in [Applications -> ApplicationRow]
    /\ review \in [Requests -> ReviewRow]
    /\ task \in [Handlers -> Task]
    /\ uncounted \subseteq Requests

Begin(h, t) == task[h] = Idle /\ task' = [task EXCEPT ![h] = t]
Serves(h, op) == task[h].op = op
Finish(h) == task' = [task EXCEPT ![h] = Idle]

\* The value of an optional field of a call: the stored one if it is left out.
Given(value, stored) == IF value = Nothing THEN stored ELSE value

-----------------------------------------------------------------------------
(***************************************************************************)
(* Faults: definitions of this module with a bug (README, "Faults").       *)
(***************************************************************************)

\* a request without a provider completes one too
CompletesUnassigned(row, status) ==
    status = "COMPLETED" /\ row.status # "COMPLETED"

\* only the step from PROVIDER_ASSIGNED counts as a completion
CompletesAssigned(row, status) ==
    /\ status = "COMPLETED" /\ row.status = "PROVIDER_ASSIGNED"
    /\ row.assigned # Nothing

\* the old average is weighted with the new count
NextAverageMiscounted(average, count, rating) ==
    (2 * (average * (count + 1) + 100 * rating) + (count + 1))
        \div (2 * (count + 1))

-----------------------------------------------------------------------------
(***************************************************************************)
(* Requests and reviews: the customer.                                     *)
(***************************************************************************)

\* create: the catalogue's only readiness-only category is Health.
CreateRequest(r, type) ==
    /\ request[r].status = "NONE"
    /\ type \in Trades
    /\ request' = [request EXCEPT ![r] =
         [status |-> "SUBMITTED", type |-> type, assigned |-> Nothing]]
    /\ UNCHANGED <<provider, application, review, task, uncounted>>

Reviewed(r) == review[r].provider # Nothing

\* reviewProvider up to the provider's row, the first read of its transaction
BeginReview(h, r) ==
    /\ request[r].status = "COMPLETED" /\ request[r].assigned # Nothing
    /\ ~Reviewed(r)
    /\ LET p == request[r].assigned
       IN  Begin(h, [op |-> "REVIEW", request |-> r, provider |-> p,
                    reviewCount |-> provider[p].reviewCount,
                    average |-> provider[p].average])
    /\ UNCHANGED <<request, provider, application, review, uncounted>>

\* ((average * count + rating) / (count + 1)).toFixed(2), in hundredths
NextAverage(average, count, rating) ==
    (2 * (average * count + 100 * rating) + (count + 1)) \div (2 * (count + 1))

\* The rest of the transaction; a second review of the request meets the
\* unique requestId.
CommitReview(h, rating) ==
    /\ Serves(h, "REVIEW")
    /\ LET t == task[h]
       IN  /\ ~Reviewed(t.request)
           /\ review' = [review EXCEPT ![t.request] =
                [provider |-> t.provider, rating |-> rating]]
           /\ provider' = [provider EXCEPT ![t.provider] = [@ EXCEPT
                !.reviewCount = t.reviewCount + 1,
                !.average = NextAverage(t.average, t.reviewCount, rating)]]
    /\ Finish(h)
    /\ UNCHANGED <<request, application, uncounted>>

-----------------------------------------------------------------------------
(***************************************************************************)
(* Assignment and status: the admin.                                       *)
(***************************************************************************)

Closed == {"COMPLETED", "CANCELLED"}

\* adminAssignProvider: its checks, on the request and then on the provider
BeginAssign(h, r, p) ==
    /\ request[r].status \notin Closed \cup {"NONE"}
    /\ request[r].type # Health
    /\ provider[p].status = "APPROVED"
    /\ provider[p].mode = "BOOKABLE" /\ provider[p].type # Health
    /\ provider[p].type = request[r].type
    /\ Begin(h, [op |-> "ASSIGN", request |-> r, provider |-> p])
    /\ UNCHANGED <<request, provider, application, review, uncounted>>

CommitAssign(h) ==
    /\ Serves(h, "ASSIGN")
    /\ request' = [request EXCEPT ![task[h].request] = [@ EXCEPT
         !.assigned = task[h].provider,
         !.status = "PROVIDER_ASSIGNED"]]
    /\ Finish(h)
    /\ UNCHANGED <<provider, application, review, uncounted>>

\* Whether a status change completes the request of a provider.
Completes(row, status) ==
    /\ status = "COMPLETED" /\ row.status # "COMPLETED"
    /\ row.assigned # Nothing

\* adminUpdateStatus: any status may follow any other.
BeginStatus(h, r, status) ==
    /\ request[r].status # "NONE"
    /\ Begin(h, [op |-> "STATUS", request |-> r, status |-> status,
                 provider |-> request[r].assigned,
                 counts |-> Completes(request[r], status)])
    /\ UNCHANGED <<request, provider, application, review, uncounted>>

\* The status is written first; the count of the provider read before it
\* follows the audit entry, in a statement of its own.
CommitStatus(h) ==
    /\ Serves(h, "STATUS")
    /\ request' = [request EXCEPT ![task[h].request].status = task[h].status]
    /\ task' = [task EXCEPT ![h] =
         IF task[h].counts
         THEN [op |-> "COUNT", request |-> task[h].request,
               provider |-> task[h].provider]
         ELSE Idle]
    /\ UNCHANGED <<provider, application, review, uncounted>>

CountCompletion(h) ==
    /\ Serves(h, "COUNT")
    /\ provider' = [provider EXCEPT ![task[h].provider].completed = @ + 1]
    /\ Finish(h)
    /\ UNCHANGED <<request, application, review, uncounted>>

-----------------------------------------------------------------------------
(***************************************************************************)
(* Providers.                                                              *)
(***************************************************************************)

NewProvider(type, mode, status, source) ==
    [status |-> status, type |-> type, mode |-> mode, source |-> source,
     reviewCount |-> 0, average |-> 0, completed |-> 0]

\* providerReadinessOnly
ReadinessOnly(type, mode) == mode = "READINESS_ONLY" \/ type = Health

\* assertProviderCanUseStatus
Approvable(type, mode, status) ==
    ~(ReadinessOnly(type, mode) /\ status = "APPROVED")

CreateProvider(p, type, mode, status) ==
    /\ provider[p].status = "NONE"
    /\ Approvable(type, mode, status)
    /\ provider' = [provider EXCEPT ![p] = NewProvider(type,
           IF ReadinessOnly(type, mode) THEN "READINESS_ONLY" ELSE "BOOKABLE",
           status, Nothing)]
    /\ UNCHANGED <<request, application, review, task, uncounted>>

\* Fault: the check is made on the fields given alone.
BeginUpdateUnread(h, p, type, mode, status) ==
    /\ provider[p].status # "NONE"
    /\ Approvable(type, mode, status)
    /\ Begin(h, [op |-> "UPDATE", provider |-> p, type |-> type, mode |-> mode,
                 status |-> status])
    /\ UNCHANGED <<request, provider, application, review, uncounted>>

\* adminUpdateProvider: the check is made on what the row will be, from the
\* fields given and the fields stored.
BeginUpdate(h, p, type, mode, status) ==
    /\ provider[p].status # "NONE"
    /\ Approvable(Given(type, provider[p].type), Given(mode, provider[p].mode),
                  Given(status, provider[p].status))
    /\ Begin(h, [op |-> "UPDATE", provider |-> p, type |-> type, mode |-> mode,
                 status |-> status])
    /\ UNCHANGED <<request, provider, application, review, uncounted>>

\* Only the fields given are written, and as they were given.
Updated(row, t) == [row EXCEPT !.type = Given(t.type, @),
                               !.mode = Given(t.mode, @),
                               !.status = Given(t.status, @)]

CommitUpdate(h) ==
    /\ Serves(h, "UPDATE")
    /\ provider' = [provider EXCEPT ![task[h].provider] = Updated(@, task[h])]
    /\ Finish(h)
    /\ UNCHANGED <<request, application, review, uncounted>>

-----------------------------------------------------------------------------
(***************************************************************************)
(* Applications to be a provider.                                          *)
(***************************************************************************)

SubmitApplication(a, type) ==
    /\ application[a].status = "NONE"
    /\ application' = [application EXCEPT ![a] =
         [status |-> "SUBMITTED", type |-> type]]
    /\ UNCHANGED <<request, provider, review, task, uncounted>>

\* adminReview reads the type alone, which never changes; it asks nothing of
\* the status, so that even a converted application gets another one.
ReviewApplication(a, status) ==
    /\ application[a].status # "NONE"
    /\ status # "CONVERTED_TO_PROVIDER"
    /\ ~(application[a].type = Health /\ status = "APPROVED")
    /\ application' = [application EXCEPT ![a].status = status]
    /\ UNCHANGED <<request, provider, review, task, uncounted>>

Converted(a) == \E p \in Providers : provider[p].source = a

\* approveCreateProvider
BeginConvert(h, a) ==
    /\ application[a].status \in {"SUBMITTED", "APPROVED"}
    /\ ~Converted(a)
    /\ application[a].type # Health
    /\ Begin(h, [op |-> "CONVERT", application |-> a,
                 type |-> application[a].type])
    /\ UNCHANGED <<request, provider, application, review, uncounted>>

\* Its transaction; a second provider of the application meets the unique
\* sourceApplicationId.
CommitConvert(h, p) ==
    /\ Serves(h, "CONVERT")
    /\ provider[p].status = "NONE" /\ ~Converted(task[h].application)
    /\ provider' = [provider EXCEPT ![p] =
         NewProvider(task[h].type, "BOOKABLE", "PENDING_REVIEW",
                     task[h].application)]
    /\ application' = [application EXCEPT
         ![task[h].application].status = "CONVERTED_TO_PROVIDER"]
    /\ Finish(h)
    /\ UNCHANGED <<request, review, uncounted>>

-----------------------------------------------------------------------------
\* A handler ends early: a check of a transaction fails, a statement or the
\* audit entry before the count does, or the process dies.
Abandon(h) ==
    /\ task[h] # Idle
    /\ Finish(h)
    /\ uncounted' = IF Serves(h, "COUNT")
                    THEN uncounted \cup {task[h].request} ELSE uncounted
    /\ UNCHANGED <<request, provider, application, review>>

ServiceInit ==
    /\ request = [r \in Requests |->
         [status |-> "NONE", type |-> Nothing, assigned |-> Nothing]]
    /\ provider = [p \in Providers |->
         NewProvider(Nothing, "BOOKABLE", "NONE", Nothing)]
    /\ application = [a \in Applications |->
         [status |-> "NONE", type |-> Nothing]]
    /\ review = [r \in Requests |-> [provider |-> Nothing, rating |-> Nothing]]
    /\ task = [h \in Handlers |-> Idle]
    /\ uncounted = {}

CustomerStep ==
    \/ \E r \in Requests, type \in Types : CreateRequest(r, type)
    \/ \E h \in Handlers, r \in Requests : BeginReview(h, r)
    \/ \E h \in Handlers, rating \in Ratings : CommitReview(h, rating)
    \/ \E a \in Applications, type \in Types : SubmitApplication(a, type)

AdminStep ==
    \/ \E h \in Handlers, r \in Requests, p \in Providers : BeginAssign(h, r, p)
    \/ \E h \in Handlers : CommitAssign(h)
    \/ \E h \in Handlers, r \in Requests, status \in RequestStatuses :
         BeginStatus(h, r, status)
    \/ \E h \in Handlers : CommitStatus(h) \/ CountCompletion(h)
    \/ \E p \in Providers, type \in Types, mode \in Modes,
          status \in ProviderStatuses : CreateProvider(p, type, mode, status)
    \/ \E h \in Handlers, p \in Providers, type \in Types \cup {Nothing},
          mode \in Modes \cup {Nothing},
          status \in ProviderStatuses \cup {Nothing} :
         BeginUpdate(h, p, type, mode, status)
    \/ \E h \in Handlers : CommitUpdate(h)
    \/ \E a \in Applications, status \in ApplicationStatuses :
         ReviewApplication(a, status)
    \/ \E h \in Handlers, a \in Applications : BeginConvert(h, a)
    \/ \E h \in Handlers, p \in Providers : CommitConvert(h, p)

ServiceNext == CustomerStep \/ AdminStep \/ \E h \in Handlers : Abandon(h)

ServiceSpec == ServiceInit /\ [][ServiceNext]_serviceVars

-----------------------------------------------------------------------------
(***************************************************************************)
(* What holds only while calls do not overlap (one handler).               *)
(***************************************************************************)

\* A provider that is readiness-only, or a health professional, is never
\* approved, by whatever series of partial updates it got there
\* (adminUpdateProvider checks the row that will be, not the fields given).
ApprovedIsBookable ==
    \A p \in Providers :
      provider[p].status = "APPROVED" =>
        provider[p].type \in Trades /\ provider[p].mode = "BOOKABLE"

\* The count and the average kept on a provider are those of its reviews:
\* every review is counted once, and the average is off by no more than what
\* the rounding of each review adds.  It does add up, because each review
\* starts from the rounded average of those before it: by no more than half a
\* hundredth a review, weighted with their number, so by (n + 1)/4 hundredths
\* after n of them (reviewProvider).
ReviewsOf(p) == {r \in Requests : review[r].provider = p}
InHundredths(r) == 100 * review[r].rating

ReviewsAgree ==
    \A p \in Providers :
      LET n == Cardinality(ReviewsOf(p))
          drift == provider[p].average * n
                     - MapThenSumSet(InHundredths, ReviewsOf(p))
      IN  /\ provider[p].reviewCount = n
          /\ 4 * drift \in -(n * (n + 1)) .. n * (n + 1)

\* A completed request of a provider has been counted for that provider, or
\* is about to be, whatever statuses and assignments came before; reopening
\* a request may count it again, but never takes one away
\* (adminUpdateStatus).
ServedBy(p) == {r \in Requests \ uncounted :
                  request[r].status = "COMPLETED" /\ request[r].assigned = p}

CompletionsCounted ==
    \A p \in Providers :
      provider[p].completed
          + Cardinality({h \in Handlers :
                           Serves(h, "COUNT") /\ task[h].provider = p})
        >= Cardinality(ServedBy(p))
=============================================================================
