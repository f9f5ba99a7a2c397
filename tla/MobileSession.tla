----------------------------- MODULE MobileSession -----------------------------
(***************************************************************************)
(* The saved login of a mobile app and the refresh tokens of its user: the *)
(* session store with its generations (packages/config mobile-session.ts), *)
(* the API client that refreshes on 401 (api.ts and each app's client.ts), *)
(* sign-in and sign-out (auth-context.tsx), and the service that rotates   *)
(* the tokens (auth.service.ts).                                           *)
(*                                                                         *)
(* A call is one asynchronous function of the app that has not returned.   *)
(* Between two awaits it runs alone; what it sent to the service goes on   *)
(* when the app stops waiting for it.  A pair of tokens is named by its    *)
(* number, in the order they are issued; 0 is no pair.                     *)
(***************************************************************************)
EXTENDS Naturals

CONSTANTS
    Calls,
    MaxTokens,
    MaxGeneration,
    Nothing

ASSUME SessionAssumption ==
    /\ MaxTokens \in Nat /\ MaxGeneration \in Nat
    /\ Nothing \notin Calls

VARIABLES
    saved,      \* the pair in the secure storage, 0 if none
    generation, \* of the session store, in memory
    flight,     \* refreshFlight: the call whose refresh others may join
    call,       \* [Calls -> CallRow]
    live,       \* RefreshToken rows that are not revoked
    issued,     \* how many there are
    open,       \* the account is ACTIVE and not deleted
    signedIn,   \* history: the user has signed in, and not out since
    overlapped, \* history: a sign-in or sign-out ran beside another call
    disturbed,  \* history: an answer was lost or sessions were revoked
    displaced   \* history: a stale refresh took the place of the current one

sessionVars == <<saved, generation, flight, call, live, issued, open,
                 signedIn, overlapped, disturbed, displaced>>
history == <<signedIn, overlapped, disturbed, displaced>>

Tokens == 1..MaxTokens

\* SENT, waiting for an API answer; HANDLED, a logout the service has done;
\* REFRESH, for its own refresh; JOINED, for another call's; SETTLED, with a
\* result; READ, a token read and the user asked; SIGNIN, for a new session.
\* generation is the request's and own the sign-in's or sign-out's; read is
\* the token read at the start of the latter, token the one to be refreshed;
\* service is how far the service is with the refresh or the login.
CallRow ==
    [op : {"IDLE", "REQUEST", "LOGIN", "BIOMETRIC", "LOGOUT"},
     at : {"NONE", "SENT", "HANDLED", "REFRESH", "JOINED", "SETTLED", "READ",
           "SIGNIN"},
     tries : {"FIRST", "RETRY", "REFRESHED"},
     generation : 0..MaxGeneration, own : 0..MaxGeneration,
     read : 0..MaxTokens, token : 0..MaxTokens, joined : Calls \cup {Nothing},
     service : {"NONE", "SENT", "CHECKED", "DONE"}, answer : 0..MaxTokens,
     result : {"NONE", "refreshed", "rejected", "temporarily_unavailable", "stale"},
     left : BOOLEAN]  \* history: begun before a logout or a reset

NoCall ==
    [op |-> "IDLE", at |-> "NONE", tries |-> "FIRST", generation |-> 0, own |-> 0,
     read |-> 0, token |-> 0, joined |-> Nothing, service |-> "NONE", answer |-> 0,
     result |-> "NONE", left |-> FALSE]

Refreshing(s) == call[s].at \in {"REFRESH", "SETTLED"}

SessionTypeOK ==
    /\ saved \in 0..issued
    /\ generation \in 0..MaxGeneration
    /\ flight \in Calls \cup {Nothing}
    /\ flight # Nothing => Refreshing(flight)
    /\ call \in [Calls -> CallRow]
    /\ \A s \in Calls : call[s].at = "JOINED" => Refreshing(call[s].joined)
    /\ live \subseteq 1..issued
    /\ issued \in 0..MaxTokens
    /\ {open, signedIn, overlapped, disturbed, displaced} \subseteq BOOLEAN

SessionInit ==
    /\ saved = 0 /\ generation = 0 /\ flight = Nothing
    /\ call = [s \in Calls |-> NoCall]
    /\ live = {} /\ issued = 0 /\ open = TRUE
    /\ signedIn = FALSE /\ overlapped = FALSE
    /\ disturbed = FALSE /\ displaced = FALSE

-----------------------------------------------------------------------------
(***************************************************************************)
(* Faults: definitions of this module with a bug (README, "Faults").       *)
(***************************************************************************)

\* every 401 starts a refresh of its own
JoinableNever(s) == FALSE

\* a refresh that ends forgets whichever refresh is current
ReleasedAny(s) == Nothing

\* a refresh that ends is never forgotten
ReleasedNever(s) == flight

\* a pair is stored for whatever generation it was asked for
PersistedAlways(g, pair) == pair

-----------------------------------------------------------------------------
(***************************************************************************)
(* The session store.  The secure storage serves its calls in the order    *)
(* they are made, so a check and the write made with it are one step.      *)
(***************************************************************************)

IsCurrent(g) == g = generation

Persisted(g, pair) == IF IsCurrent(g) THEN pair ELSE saved
Cleared(g) == IF IsCurrent(g) THEN 0 ELSE saved

Busy(s) == call[s].op # "IDLE"
UserOps == {"LOGIN", "BIOMETRIC", "LOGOUT"}
Free(s) == call[s] = NoCall
Others(s) == {c \in Calls \ {s} : Busy(c) \/ call[c].service # "NONE"}

\* A call ends; the service may still work on what it sent.
Ended(s) == IF call[s].service \in {"SENT", "CHECKED"}
            THEN [NoCall EXCEPT !.service = call[s].service, !.token = call[s].token]
            ELSE NoCall
End(s) == call' = [call EXCEPT ![s] = Ended(s)]

NoteOverlap(s, op) ==
    overlapped' = (overlapped \/ /\ Others(s) # {}
                                 /\ \/ op \in UserOps
                                    \/ \E c \in Others(s) : call[c].op \in UserOps)

-----------------------------------------------------------------------------
(***************************************************************************)
(* API requests: createApiClient's request, and refreshAuth on a 401.      *)
(***************************************************************************)

StartRequest(s) ==
    /\ Free(s)
    /\ call' = [call EXCEPT ![s] =
         [@ EXCEPT !.op = "REQUEST", !.at = "SENT", !.generation = generation]]
    /\ NoteOverlap(s, "REQUEST")
    /\ UNCHANGED <<saved, generation, flight, live, issued, open, signedIn,
                   disturbed, displaced>>

\* Anything but a 401: the request returns, or throws.
Answered(s) ==
    /\ call[s].op = "REQUEST" /\ call[s].at = "SENT"
    /\ End(s)
    /\ UNCHANGED <<saved, generation, flight, live, issued, open, history>>

\* GET auth/me is sent once more after a network failure or a 502 to 504.
RetryAuthMe(s) ==
    /\ call[s].op = "REQUEST" /\ call[s].at = "SENT" /\ call[s].tries = "FIRST"
    /\ call' = [call EXCEPT ![s] =
         [@ EXCEPT !.tries = "RETRY", !.generation = generation]]
    /\ disturbed' = TRUE
    /\ UNCHANGED <<saved, generation, flight, live, issued, open, signedIn,
                   overlapped, displaced>>

Joinable(s) ==
    /\ flight # Nothing
    /\ call[flight].generation = call[s].generation
    /\ IsCurrent(call[s].generation)

\* A 401 at the first attempt: join the current refresh, fail as stale, find
\* nothing saved, or send the saved refresh token.
Unauthorized(s) ==
    LET g == call[s].generation IN
    /\ call[s].at = "SENT" /\ call[s].tries = "FIRST"
    /\ \/ /\ Joinable(s)
          /\ call' = [call EXCEPT ![s] = [@ EXCEPT !.at = "JOINED", !.joined = flight]]
          /\ UNCHANGED <<flight, displaced>>
       \/ /\ ~Joinable(s) /\ ~IsCurrent(g)
          /\ displaced' = (displaced \/ /\ flight # Nothing
                                        /\ IsCurrent(call[flight].generation))
          /\ flight' = Nothing
          /\ End(s)
       \/ /\ ~Joinable(s) /\ IsCurrent(g)
          /\ flight' = s
          /\ call' = [call EXCEPT ![s] =
               IF saved = 0 THEN [@ EXCEPT !.at = "SETTLED", !.result = "rejected"]
               ELSE [@ EXCEPT !.at = "REFRESH", !.token = saved, !.service = "SENT"]]
          /\ UNCHANGED displaced
    /\ UNCHANGED <<saved, generation, live, issued, open, signedIn, overlapped,
                   disturbed>>

\* A 401 at the second attempt, which a refreshed token gets from a closed
\* account only: onUnauthorized.
UnauthorizedAgain(s) ==
    /\ call[s].at = "SENT"
    /\ call[s].tries = "RETRY" \/ (call[s].tries = "REFRESHED" /\ ~open)
    /\ saved' = IF call[s].op = "LOGOUT" /\ IsCurrent(call[s].own) THEN 0
                ELSE Cleared(call[s].generation)
    /\ End(s)
    /\ UNCHANGED <<generation, flight, live, issued, open, history>>

\* performRefreshAuth has the service's answer, or gives up waiting for it.
TakeAnswer(s) ==
    LET g == call[s].generation
        pair == call[s].answer
    IN
    /\ call[s].at = "REFRESH" /\ call[s].service = "DONE"
    /\ saved' = IF pair # 0 THEN Persisted(g, pair) ELSE Cleared(g)
    /\ call' = [call EXCEPT ![s] =
         [@ EXCEPT !.at = "SETTLED", !.service = "NONE",
                   !.result = CASE pair = 0     -> "rejected"
                                [] IsCurrent(g) -> "refreshed"
                                [] OTHER        -> "stale"]]
    /\ UNCHANGED <<generation, flight, live, issued, open, history>>

LoseAnswer(s) ==
    LET service == call[s].service IN
    /\ call[s].at = "REFRESH"
    /\ call' = [call EXCEPT ![s] =
         [@ EXCEPT !.at = "SETTLED", !.result = "temporarily_unavailable",
                   !.service = IF service = "DONE" THEN "NONE" ELSE service]]
    /\ disturbed' = TRUE
    /\ UNCHANGED <<saved, generation, flight, live, issued, open, signedIn,
                   overlapped, displaced>>

Released(s) == IF flight = s THEN Nothing ELSE flight

\* The refresh's promise resolves: every call that waited for it goes on.
Settle(s) ==
    LET waiting == {c \in Calls : c = s \/ (call[c].at = "JOINED" /\ call[c].joined = s)}
        result == call[s].result
        leaving == {c \in waiting : call[c].op = "LOGOUT" /\ IsCurrent(call[c].own)}
    IN
    /\ call[s].at = "SETTLED"
    /\ flight' = Released(s)
    /\ call' = [c \in Calls |->
         IF c \notin waiting THEN call[c]
         ELSE IF result = "refreshed"
         THEN [call[c] EXCEPT
                 !.at = "SENT", !.generation = generation, !.joined = Nothing,
                 !.tries = IF saved = 0 THEN "RETRY" ELSE "REFRESHED",
                 !.answer = 0, !.result = "NONE"]
         ELSE Ended(c)]
    /\ saved' = IF result # "refreshed" /\ leaving # {} THEN 0
                ELSE IF result = "rejected" THEN Cleared(call[s].generation)
                ELSE saved
    /\ UNCHANGED <<generation, live, issued, open, history>>

-----------------------------------------------------------------------------
(***************************************************************************)
(* Sign-in with a password or a one-time code, sign-in with biometrics,    *)
(* sign-out, and the reset of the saved login.                             *)
(***************************************************************************)

CanBegin == generation < MaxGeneration
LeftBehind(s) == [c \in Calls |-> IF c # s /\ Busy(c)
                                  THEN [call[c] EXCEPT !.left = TRUE] ELSE call[c]]

StartLogin(s) ==
    /\ Free(s) /\ CanBegin
    /\ generation' = generation + 1
    /\ call' = [call EXCEPT ![s] =
         [@ EXCEPT !.op = "LOGIN", !.at = "SIGNIN", !.own = generation + 1,
                   !.service = "SENT"]]
    /\ NoteOverlap(s, "LOGIN")
    /\ UNCHANGED <<saved, flight, live, issued, open, signedIn, disturbed, displaced>>

\* The saved refresh token is read; then the user proves to be present, or
\* the logout goes on.
ReadToken(s, op) ==
    /\ Free(s)
    /\ op = "BIOMETRIC" => saved # 0
    /\ call' = [call EXCEPT ![s] = [@ EXCEPT !.op = op, !.at = "READ", !.read = saved]]
    /\ NoteOverlap(s, op)
    /\ UNCHANGED <<saved, generation, flight, live, issued, open, signedIn,
                   disturbed, displaced>>

Present(s) ==
    /\ call[s].op = "BIOMETRIC" /\ call[s].at = "READ"
    /\ \/ /\ CanBegin
          /\ generation' = generation + 1
          /\ call' = [call EXCEPT ![s] =
               [@ EXCEPT !.at = "SIGNIN", !.own = generation + 1,
                         !.token = call[s].read, !.service = "SENT", !.left = FALSE]]
       \/ End(s) /\ UNCHANGED generation
    /\ UNCHANGED <<saved, flight, live, issued, open, history>>

\* saveSession, or the failure of the sign-in; login failures and the refusal
\* of a biometric refresh leave the saved login alone.
TakeSession(s) ==
    LET pair == call[s].answer
        stored == pair # 0 /\ IsCurrent(call[s].own)
    IN
    /\ call[s].at = "SIGNIN" /\ call[s].service = "DONE"
    /\ saved' = IF pair # 0 THEN Persisted(call[s].own, pair) ELSE saved
    /\ signedIn' = (signedIn \/ stored)
    /\ End(s)
    /\ UNCHANGED <<generation, flight, live, issued, open, overlapped, disturbed,
                   displaced>>

LoseSession(s) ==
    /\ call[s].at = "SIGNIN"
    /\ End(s)
    /\ disturbed' = TRUE
    /\ UNCHANGED <<saved, generation, flight, live, issued, open, signedIn,
                   overlapped, displaced>>

\* logout: a new generation; without a saved token there is nobody to tell.
BeginLogout(s) ==
    /\ call[s].op = "LOGOUT" /\ call[s].at = "READ" /\ CanBegin
    /\ generation' = generation + 1
    /\ signedIn' = FALSE
    /\ call' = [LeftBehind(s) EXCEPT ![s] =
         IF call[s].read = 0 THEN Ended(s)
         ELSE [@ EXCEPT !.at = "SENT", !.generation = generation + 1,
                        !.own = generation + 1, !.left = FALSE]]
    /\ saved' = IF call[s].read = 0 THEN 0 ELSE saved
    /\ UNCHANGED <<flight, live, issued, open, overlapped, disturbed, displaced>>

\* The service's logout revokes the token it is given.
ServeLogout(s) ==
    /\ call[s].op = "LOGOUT" /\ call[s].at = "SENT"
    /\ call' = [call EXCEPT ![s].at = "HANDLED"]
    /\ live' = live \ {call[s].read}
    /\ UNCHANGED <<saved, generation, flight, issued, open, history>>

\* Its answer, or none: either way the saved login is deleted.
FinishLogout(s) ==
    /\ call[s].op = "LOGOUT" /\ call[s].at \in {"SENT", "HANDLED"}
    /\ saved' = Cleared(call[s].own)
    /\ End(s)
    /\ UNCHANGED <<generation, flight, live, issued, open, history>>

ResetSavedLogin ==
    /\ CanBegin
    /\ generation' = generation + 1
    /\ saved' = 0
    /\ signedIn' = FALSE
    /\ call' = LeftBehind(Nothing)
    /\ overlapped' = (overlapped \/ Others(Nothing) # {})
    /\ UNCHANGED <<flight, live, issued, open, disturbed, displaced>>

-----------------------------------------------------------------------------
(***************************************************************************)
(* The service: refreshSession checks the token's row, and later creates   *)
(* the next one and revokes it; login has nothing to revoke.               *)
(***************************************************************************)

Waiting(s) == call[s].at \in {"REFRESH", "SIGNIN"}

\* The answer reaches the call that waits for it, if it still does.
AnswerOf(s, pair) ==
    IF Waiting(s) THEN [call[s] EXCEPT !.service = "DONE", !.answer = pair]
    ELSE IF Busy(s) THEN [call[s] EXCEPT !.service = "NONE"] ELSE NoCall

Acceptable(s) == open /\ (call[s].op = "LOGIN" \/ call[s].token \in live)

CheckToken(s) ==
    /\ call[s].service = "SENT"
    /\ \/ /\ Acceptable(s)
          /\ call' = [call EXCEPT ![s].service = "CHECKED"]
       \/ /\ ~Acceptable(s) \/ call[s].op = "LOGIN"
          /\ call' = [call EXCEPT ![s] = AnswerOf(s, 0)]
    /\ UNCHANGED <<saved, generation, flight, live, issued, open, history>>

IssueSession(s) ==
    /\ call[s].service = "CHECKED" /\ issued < MaxTokens
    /\ issued' = issued + 1
    /\ live' = (live \ {call[s].token}) \cup {issued + 1}
    /\ call' = [call EXCEPT ![s] = AnswerOf(s, issued + 1)]
    /\ UNCHANGED <<saved, generation, flight, open, history>>

\* Sessions revoked from elsewhere: a phone number changed, an account
\* suspended or deleted.
Revoke ==
    /\ open \/ live # {}
    /\ live' = {}
    /\ open' \in {open, FALSE}
    /\ disturbed' = TRUE
    /\ UNCHANGED <<saved, generation, flight, call, issued, signedIn,
                   overlapped, displaced>>

\* The app is killed and started again.
Restart ==
    /\ call' = [s \in Calls |-> Ended(s)]
    /\ generation' = 0
    /\ flight' = Nothing
    /\ disturbed' = (disturbed \/ \E s \in Calls : Waiting(s))
    /\ UNCHANGED <<saved, live, issued, open, signedIn, overlapped, displaced>>

SessionNext ==
    \/ \E s \in Calls :
         \/ StartRequest(s) \/ Answered(s) \/ RetryAuthMe(s)
         \/ Unauthorized(s) \/ UnauthorizedAgain(s)
         \/ TakeAnswer(s) \/ LoseAnswer(s) \/ Settle(s)
         \/ StartLogin(s) \/ ReadToken(s, "BIOMETRIC") \/ ReadToken(s, "LOGOUT")
         \/ Present(s) \/ TakeSession(s) \/ LoseSession(s)
         \/ BeginLogout(s) \/ ServeLogout(s) \/ FinishLogout(s)
         \/ CheckToken(s) \/ IssueSession(s)
    \/ ResetSavedLogin \/ Revoke \/ Restart

SessionSpec == SessionInit /\ [][SessionNext]_sessionVars

-----------------------------------------------------------------------------
(***************************************************************************)
(* Properties.                                                             *)
(***************************************************************************)

\* Two calls of one generation never refresh at one time, so that no refresh
\* token is sent twice, except after a call of an earlier generation met its
\* 401 during the current refresh: refreshAuth then forgets the current one
\* (client.ts).
SingleFlight ==
    ~displaced =>
      \A s, c \in Calls :
        (/\ call[s].at = "REFRESH" /\ call[c].at = "REFRESH"
         /\ call[s].generation = call[c].generation) => s = c

\* What a request or a sign-in begun before a logout or a reset obtains is
\* never saved after it: neither the answer of its refresh nor of its sign-in,
\* even though both arrive after the saved login was deleted
\* (mobile-session.ts).
LogoutIsFinal ==
    [][ \A s \in Calls :
          call[s].left /\ call[s].answer # 0 /\ saved # call[s].answer
            => saved' # call[s].answer ]_sessionVars

\* A user who signed in stays signed in: as long as sign-ins and sign-outs do
\* not overlap other calls, every answer arrives and nobody revokes sessions,
\* the app holds a pair whose refresh token is good, or its successor is on
\* the way, whatever the requests that meet a 401 together and whenever the
\* app is restarted (client.ts, auth.service.ts).
LoginSurvives ==
    signedIn /\ ~overlapped /\ ~disturbed =>
      /\ saved # 0
      /\ \/ saved \in live
         \/ \E s \in Calls : Waiting(s) /\ call[s].answer \in live
=============================================================================
