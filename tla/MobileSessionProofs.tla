-------------------------- MODULE MobileSessionProofs --------------------------
(***************************************************************************)
(* What TLAPS proves of the saved login, for any number of calls, tokens   *)
(* and generations: calls of one generation share one refresh, nothing     *)
(* begun before a logout is saved after it, and a user who signed in stays *)
(* signed in.                                                              *)
(***************************************************************************)
EXTENDS MobileSession, TLAPS

-----------------------------------------------------------------------------
(***************************************************************************)
(* The rows.                                                               *)
(***************************************************************************)

\* What one call's row keeps to, with gen the current generation and n tokens
\* issued.  Only a call that waits has an answer, and only from a service that
\* is done.
Fits(r, gen, n) ==
    /\ r \in CallRow
    /\ r.answer \in 0..n /\ r.read \in 0..n /\ r.token \in 0..n
    /\ r.generation \in 0..gen /\ r.own \in 0..gen
    /\ r.op = "IDLE" => r.at = "NONE"
    /\ r.op = "BIOMETRIC" => r.at \in {"READ", "SIGNIN"}
    /\ r.op = "LOGIN" => r.at = "SIGNIN"
    /\ r.at = "SIGNIN" => r.op \in {"LOGIN", "BIOMETRIC"}
    /\ r.at \notin {"REFRESH", "SIGNIN", "SETTLED"} => r.answer = 0
    /\ r.service \in {"SENT", "CHECKED"} => r.answer = 0

Flags == {open, signedIn, overlapped, disturbed, displaced} \subseteq BOOLEAN

Numbers ==
    /\ saved \in 0..issued /\ issued \in 0..MaxTokens /\ live \subseteq 1..issued
    /\ generation \in 0..MaxGeneration

Rows ==
    /\ Numbers /\ Flags
    /\ DOMAIN call = Calls /\ call = [s \in Calls |-> call[s]]
    /\ \A s \in Calls : Fits(call[s], generation, issued)

\* Others join a refresh that is under way or has a result.
Joins ==
    /\ flight \in Calls \cup {Nothing}
    /\ flight # Nothing => call[flight].at \in {"REFRESH", "SETTLED"}
    /\ \A s \in Calls : call[s].at = "JOINED" =>
         call[s].joined \in Calls /\ call[call[s].joined].at \in {"REFRESH", "SETTLED"}

LEMMA RowsAreTyped == Rows /\ Joins => SessionTypeOK
BY DEF Rows, Joins, Numbers, Flags, Fits, SessionTypeOK, Refreshing

\* No call.
LEMMA NoCallFits ==
    ASSUME NEW gen \in Nat, NEW n \in Nat
    PROVE  Fits(NoCall, gen, n)
BY SessionAssumption DEF Fits, NoCall, CallRow, SessionAssumption

\* What a call leaves behind when it ends.
LEMMA EndedFits ==
    ASSUME NEW gen \in Nat, NEW old \in Nat, NEW n \in Nat,
           NEW s, Fits(call[s], old, n)
    PROVE  /\ Fits(Ended(s), gen, n)
           /\ Ended(s).op = "IDLE" /\ Ended(s).at = "NONE" /\ ~Ended(s).left
           /\ Ended(s).answer = 0 /\ Ended(s).generation = 0
           /\ Ended(s).service = IF call[s].service \in {"SENT", "CHECKED"}
                                 THEN call[s].service ELSE "NONE"
<1>1. call[s].service \in {"NONE", "SENT", "CHECKED", "DONE"}
      /\ call[s].token \in 0..n /\ call[s].token \in 0..MaxTokens
  BY DEF Fits, CallRow
<1>2. Fits(NoCall, gen, n)
  BY NoCallFits
<1>3. CASE call[s].service \notin {"SENT", "CHECKED"}
  BY <1>2, <1>3 DEF Ended, NoCall
<1>4. CASE call[s].service \in {"SENT", "CHECKED"}
  <2> DEFINE e == [NoCall EXCEPT !.service = call[s].service, !.token = call[s].token]
  <2>1. Ended(s) = e
    BY <1>4 DEF Ended
  <2>2. e \in CallRow
    BY ZenonT(60), <1>1, <1>2 DEF Fits, CallRow
  <2>3. /\ e.op = "IDLE" /\ e.at = "NONE" /\ ~e.left /\ e.answer = 0
        /\ e.generation = 0 /\ e.own = 0 /\ e.read = 0
        /\ e.service = call[s].service /\ e.token = call[s].token
    BY DEF NoCall
  <2> HIDE DEF e
  <2>4. Fits(e, gen, n)
    BY <1>1, <2>2, <2>3 DEF Fits
  <2> QED BY <1>4, <2>1, <2>3, <2>4
<1> QED BY <1>3, <1>4

-----------------------------------------------------------------------------
\* A step that writes the row of s alone, and leaves the current refresh.
OneRow(s) ==
    /\ call' = [call EXCEPT ![s] = call'[s]]
    /\ flight' = flight
    /\ Fits(call'[s], generation', issued')
    /\ call'[s].at = "JOINED" =>
         call[s].at = "JOINED" /\ call'[s].joined = call[s].joined
    /\ call[s].at \in {"REFRESH", "SETTLED"} => call'[s].at \in {"REFRESH", "SETTLED"}
    /\ generation <= generation' /\ issued <= issued'

LEMMA RowWritten ==
    ASSUME Rows, Joins, Numbers', Flags', NEW s \in Calls, OneRow(s)
    PROVE  (Rows /\ Joins)'
<1>1. \A c \in Calls : Fits(call'[c], generation', issued')
  BY DEF OneRow, Rows, Fits, Numbers
<1>2. DOMAIN call' = Calls /\ call' = [c \in Calls |-> call'[c]]
  BY DEF OneRow, Rows
<1>3. Rows'
  BY <1>1, <1>2 DEF Rows
<1>4. Joins'
  BY DEF Joins, OneRow, Rows
<1> QED BY <1>3, <1>4

\* What is known of the row that a call has.
LEMMA RowFits ==
    ASSUME Rows, NEW s \in Calls
    PROVE  /\ call[s] \in CallRow /\ Fits(call[s], generation, issued)
           /\ generation \in Nat /\ issued \in Nat /\ saved \in 0..issued
           /\ generation \in 0..MaxGeneration /\ issued \in 0..MaxTokens
           /\ saved \in 0..MaxTokens
           /\ 0..generation \subseteq 0..MaxGeneration
           /\ 0..issued \subseteq 0..MaxTokens
<1>1. call[s] \in CallRow /\ Fits(call[s], generation, issued)
  BY DEF Rows, Fits
<1>2. /\ generation \in Nat /\ issued \in Nat /\ saved \in 0..issued
      /\ generation \in 0..MaxGeneration /\ issued \in 0..MaxTokens
           /\ saved \in 0..MaxTokens
           /\ 0..generation \subseteq 0..MaxGeneration
      /\ 0..issued \subseteq 0..MaxTokens
  BY SessionAssumption DEF Rows, Numbers, SessionAssumption
<1> QED BY <1>1, <1>2

LEMMA EndedRow ==
    ASSUME Rows, NEW s \in Calls
    PROVE  /\ Ended(s).op = "IDLE" /\ Ended(s).at = "NONE" /\ ~Ended(s).left
           /\ Ended(s).answer = 0 /\ Ended(s).generation = 0
           /\ Ended(s).service = IF call[s].service \in {"SENT", "CHECKED"}
                                 THEN call[s].service ELSE "NONE"
<1>1. Fits(call[s], generation, issued) /\ generation \in Nat /\ issued \in Nat
  BY RowFits
<1> QED BY <1>1, EndedFits

LEMMA Writes ==
    ASSUME Rows, NEW s \in Calls, NEW r, call' = [call EXCEPT ![s] = r],
           Fits(r, generation', issued'), flight' = flight,
           r.at = "JOINED" => call[s].at = "JOINED" /\ r.joined = call[s].joined,
           generation <= generation', issued <= issued',
           call[s].at \in {"REFRESH", "SETTLED"} => r.at \in {"REFRESH", "SETTLED"}
    PROVE  OneRow(s) /\ call'[s] = r
<1>1. call'[s] = r
  BY DEF Rows
<1>2. call' = [call EXCEPT ![s] = call'[s]] /\ Fits(call'[s], generation', issued')
  BY <1>1
<1>3. /\ call'[s].at = "JOINED" =>
           call[s].at = "JOINED" /\ call'[s].joined = call[s].joined
      /\ call[s].at \in {"REFRESH", "SETTLED"} =>
           call'[s].at \in {"REFRESH", "SETTLED"}
  BY <1>1
<1>4. OneRow(s)
  BY <1>2, <1>3, Zenon DEF OneRow
<1> QED BY <1>1, <1>4

\* A call that ends outside a refresh.
LEMMA Ends ==
    ASSUME Rows, NEW s \in Calls, End(s), flight' = flight,
           generation' = generation, issued' = issued,
           call[s].at \notin {"REFRESH", "SETTLED"}
    PROVE  OneRow(s) /\ call'[s] = Ended(s)
<1>1. Fits(Ended(s), generation, issued) /\ Ended(s).at = "NONE"
  BY RowFits, EndedFits
<1>2. Fits(Ended(s), generation', issued')
  BY <1>1
<1>3. call' = [call EXCEPT ![s] = Ended(s)]
  BY DEF End
<1>4. generation <= generation' /\ issued <= issued'
  BY RowFits
<1> QED BY <1>1, <1>2, <1>3, <1>4, Writes

LEMMA StartRequestRow ==
    ASSUME Rows, NEW s \in Calls, StartRequest(s)
    PROVE  OneRow(s) /\ Numbers' /\ Flags'
<1> DEFINE r == [call[s] EXCEPT !.op = "REQUEST", !.at = "SENT",
                                !.generation = generation]
<1>1. r \in CallRow
  BY ZenonT(60), RowFits DEF CallRow
<1>2. /\ r.op = "REQUEST" /\ r.at = "SENT" /\ r.generation = generation
      /\ r.own = call[s].own /\ r.read = call[s].read /\ r.token = call[s].token
      /\ r.answer = call[s].answer /\ r.service = call[s].service
  BY RowFits DEF CallRow
<1>3. call[s] = NoCall /\ call' = [call EXCEPT ![s] = r]
  BY DEF StartRequest, Free
<1> HIDE DEF r
<1>4. Fits(r, generation, issued)
  BY <1>1, <1>2, <1>3, RowFits DEF Fits, NoCall
<1>5. /\ generation' = generation /\ issued' = issued /\ flight' = flight
      /\ generation <= generation' /\ issued <= issued' /\ call[s].at = "NONE"
  BY <1>3, RowFits DEF StartRequest, NoCall
<1>6. Numbers' /\ Flags'
  BY DEF StartRequest, Rows, Numbers, Flags, NoteOverlap
<1>7. Fits(r, generation', issued')
  BY <1>4, <1>5
<1> QED BY <1>2, <1>3, <1>5, <1>6, <1>7, Writes

LEMMA RetryRow ==
    ASSUME Rows, NEW s \in Calls, RetryAuthMe(s)
    PROVE  OneRow(s) /\ Numbers' /\ Flags'
<1> DEFINE r == [call[s] EXCEPT !.tries = "RETRY", !.generation = generation]
<1>1. r \in CallRow
  BY ZenonT(60), RowFits DEF CallRow
<1>2. /\ r.op = call[s].op /\ r.at = call[s].at /\ r.generation = generation
      /\ r.own = call[s].own /\ r.read = call[s].read /\ r.token = call[s].token
      /\ r.answer = call[s].answer /\ r.service = call[s].service
  BY RowFits DEF CallRow
<1>3. call[s].at = "SENT" /\ call' = [call EXCEPT ![s] = r]
  BY DEF RetryAuthMe
<1> HIDE DEF r
<1>4. Fits(r, generation, issued)
  BY <1>1, <1>2, <1>3, RowFits DEF Fits
<1>5. /\ generation' = generation /\ issued' = issued /\ flight' = flight
      /\ generation <= generation' /\ issued <= issued'
  BY RowFits DEF RetryAuthMe
<1>6. Numbers' /\ Flags'
  BY DEF RetryAuthMe, Rows, Numbers, Flags
<1>7. Fits(r, generation', issued')
  BY <1>4, <1>5
<1> QED BY <1>2, <1>3, <1>5, <1>6, <1>7, Writes

\* The calls that end.
LEMMA EndRows ==
    ASSUME Rows, NEW s \in Calls,
           \/ Answered(s) \/ UnauthorizedAgain(s) \/ TakeSession(s)
           \/ LoseSession(s) \/ FinishLogout(s)
    PROVE  OneRow(s) /\ Numbers' /\ Flags'
<1>1. /\ End(s) /\ flight' = flight /\ generation' = generation /\ issued' = issued
      /\ call[s].at \notin {"REFRESH", "SETTLED"}
  BY DEF Answered, UnauthorizedAgain, TakeSession, LoseSession, FinishLogout
<1>2. saved' \in 0..issued
  BY RowFits DEF Answered, UnauthorizedAgain, TakeSession, LoseSession,
                 FinishLogout, Persisted, Cleared, Fits
<1>3. Numbers'
  BY <1>1, <1>2 DEF Rows, Numbers, Answered, UnauthorizedAgain, TakeSession,
                    LoseSession, FinishLogout
<1>4. Flags'
  BY DEF Rows, Flags, Answered, UnauthorizedAgain, TakeSession, LoseSession,
         FinishLogout, history
<1> QED BY <1>1, <1>3, <1>4, Ends

LEMMA TakeAnswerRow ==
    ASSUME Rows, NEW s \in Calls, TakeAnswer(s)
    PROVE  OneRow(s) /\ Numbers' /\ Flags'
<1> DEFINE g == call[s].generation
           pair == call[s].answer
           v == CASE pair = 0     -> "rejected"
                  [] IsCurrent(g) -> "refreshed"
                  [] OTHER        -> "stale"
           r == [call[s] EXCEPT !.at = "SETTLED", !.service = "NONE", !.result = v]
<1>1. v \in {"rejected", "refreshed", "stale"}
  OBVIOUS
<1>2. r \in CallRow
  <2> HIDE DEF v
  <2> QED BY ZenonT(60), <1>1, RowFits DEF CallRow
<1>3. /\ r.op = call[s].op /\ r.at = "SETTLED" /\ r.generation = call[s].generation
      /\ r.own = call[s].own /\ r.read = call[s].read /\ r.token = call[s].token
      /\ r.answer = call[s].answer /\ r.service = "NONE"
  BY RowFits DEF CallRow
<1>4. call[s].at = "REFRESH" /\ call' = [call EXCEPT ![s] = r]
  BY DEF TakeAnswer
<1> HIDE DEF r
<1>5. Fits(r, generation, issued)
  BY <1>2, <1>3, <1>4, RowFits DEF Fits
<1>6. /\ generation' = generation /\ issued' = issued /\ flight' = flight
      /\ generation <= generation' /\ issued <= issued'
  BY RowFits DEF TakeAnswer
<1>7. saved' \in 0..issued
  BY RowFits DEF TakeAnswer, Persisted, Cleared, Fits
<1>8. Numbers' /\ Flags'
  BY <1>6, <1>7 DEF TakeAnswer, Rows, Numbers, Flags, history
<1>9. Fits(r, generation', issued')
  BY <1>5, <1>6
<1> QED BY <1>3, <1>4, <1>6, <1>8, <1>9, Writes

LEMMA LoseAnswerRow ==
    ASSUME Rows, NEW s \in Calls, LoseAnswer(s)
    PROVE  OneRow(s) /\ Numbers' /\ Flags'
<1> DEFINE old == call[s].service
           v == IF old = "DONE" THEN "NONE" ELSE old
           r == [call[s] EXCEPT !.at = "SETTLED", !.result = "temporarily_unavailable",
                                !.service = v]
<1>1. v \in {"NONE", "SENT", "CHECKED"} /\ (v # "NONE" => v = old)
  BY RowFits DEF CallRow
<1>2. r \in CallRow
  <2> HIDE DEF v
  <2> QED BY ZenonT(60), <1>1, RowFits DEF CallRow
<1>3. /\ r.op = call[s].op /\ r.at = "SETTLED" /\ r.generation = call[s].generation
      /\ r.own = call[s].own /\ r.read = call[s].read /\ r.token = call[s].token
      /\ r.answer = call[s].answer /\ r.service = v
  BY RowFits DEF CallRow
<1>4. call[s].at = "REFRESH" /\ call' = [call EXCEPT ![s] = r]
  BY DEF LoseAnswer
<1> HIDE DEF r
<1>5. Fits(r, generation, issued)
  BY <1>1, <1>2, <1>3, <1>4, RowFits DEF Fits
<1>6. /\ generation' = generation /\ issued' = issued /\ flight' = flight
      /\ generation <= generation' /\ issued <= issued'
  BY RowFits DEF LoseAnswer
<1>8. Numbers' /\ Flags'
  BY <1>6 DEF LoseAnswer, Rows, Numbers, Flags
<1>9. Fits(r, generation', issued')
  BY <1>5, <1>6
<1> QED BY <1>3, <1>4, <1>6, <1>8, <1>9, Writes

LEMMA StartLoginRow ==
    ASSUME Rows, NEW s \in Calls, StartLogin(s)
    PROVE  OneRow(s) /\ Numbers' /\ Flags'
<1> DEFINE r == [call[s] EXCEPT !.op = "LOGIN", !.at = "SIGNIN",
                                !.own = generation + 1, !.service = "SENT"]
<1>1. generation' = generation + 1 /\ generation' \in 0..MaxGeneration
  BY RowFits, SessionAssumption DEF StartLogin, CanBegin, SessionAssumption
<1>2. r \in CallRow
  BY ZenonT(60), <1>1, RowFits DEF CallRow
<1>3. /\ r.op = "LOGIN" /\ r.at = "SIGNIN" /\ r.generation = call[s].generation
      /\ r.own = generation + 1 /\ r.read = call[s].read
      /\ r.token = call[s].token /\ r.answer = call[s].answer /\ r.service = "SENT"
  BY RowFits DEF CallRow
<1>4. call[s] = NoCall /\ call' = [call EXCEPT ![s] = r]
  BY DEF StartLogin, Free
<1> HIDE DEF r
<1>5. /\ issued' = issued /\ flight' = flight
      /\ generation <= generation' /\ issued <= issued' /\ call[s].at = "NONE"
  BY <1>1, <1>4, RowFits DEF StartLogin, NoCall
<1>6. Fits(r, generation + 1, issued)
  BY <1>2, <1>3, <1>4, RowFits DEF Fits, NoCall
<1>7. Fits(r, generation', issued')
  BY <1>1, <1>5, <1>6
<1>8. Numbers' /\ Flags'
  BY <1>1 DEF StartLogin, Rows, Numbers, Flags, NoteOverlap
<1> QED BY <1>3, <1>4, <1>5, <1>7, <1>8, Writes

LEMMA ReadTokenRow ==
    ASSUME Rows, NEW s \in Calls, NEW op \in {"BIOMETRIC", "LOGOUT"},
           ReadToken(s, op)
    PROVE  OneRow(s) /\ Numbers' /\ Flags'
<1> DEFINE r == [call[s] EXCEPT !.op = op, !.at = "READ", !.read = saved]
<1>1. r \in CallRow
  BY ZenonT(60), RowFits DEF CallRow
<1>2. /\ r.op = op /\ r.at = "READ" /\ r.generation = call[s].generation
      /\ r.own = call[s].own /\ r.read = saved /\ r.token = call[s].token
      /\ r.answer = call[s].answer /\ r.service = call[s].service
  BY RowFits DEF CallRow
<1>3. call[s] = NoCall /\ call' = [call EXCEPT ![s] = r]
  BY DEF ReadToken, Free
<1> HIDE DEF r
<1>4. /\ generation' = generation /\ issued' = issued /\ flight' = flight
      /\ generation <= generation' /\ issued <= issued' /\ call[s].at = "NONE"
  BY <1>3, RowFits DEF ReadToken, NoCall
<1>5. Fits(r, generation, issued)
  BY <1>1, <1>2, <1>3, RowFits DEF Fits, NoCall
<1>6. Fits(r, generation', issued')
  BY <1>4, <1>5
<1>7. Numbers' /\ Flags'
  BY DEF ReadToken, Rows, Numbers, Flags, NoteOverlap
<1> QED BY <1>2, <1>3, <1>4, <1>6, <1>7, Writes

LEMMA PresentRow ==
    ASSUME Rows, NEW s \in Calls, Present(s)
    PROVE  OneRow(s) /\ Numbers' /\ Flags'
<1> DEFINE r == [call[s] EXCEPT !.at = "SIGNIN", !.own = generation + 1,
                                !.token = call[s].read, !.service = "SENT",
                                !.left = FALSE]
<1>1. call[s].op = "BIOMETRIC" /\ call[s].at = "READ"
  BY DEF Present
<1>2. CASE End(s) /\ generation' = generation
  <2>1. issued' = issued /\ flight' = flight /\ Numbers' /\ Flags'
    BY <1>2 DEF Present, history, Rows, Numbers, Flags
  <2> QED BY <1>1, <1>2, <2>1, Ends
<1>3. CASE CanBegin /\ generation' = generation + 1 /\ call' = [call EXCEPT ![s] = r]
  <2>1. generation' = generation + 1 /\ generation' \in 0..MaxGeneration
    BY <1>3, RowFits, SessionAssumption DEF CanBegin, SessionAssumption
  <2>2. call[s].read \in 0..issued
    BY RowFits DEF Fits
  <2>3. r \in CallRow
    BY ZenonT(60), <2>1, <2>2, RowFits DEF CallRow
  <2>4. /\ r.op = call[s].op /\ r.at = "SIGNIN" /\ r.generation = call[s].generation
        /\ r.own = generation + 1 /\ r.read = call[s].read
        /\ r.token = call[s].read /\ r.answer = call[s].answer /\ r.service = "SENT"
    BY RowFits DEF CallRow
  <2> HIDE DEF r
  <2>5. /\ issued' = issued /\ flight' = flight
        /\ generation <= generation' /\ issued <= issued'
    BY <2>1, RowFits DEF Present
  <2>6. Fits(r, generation + 1, issued)
    BY <1>1, <2>2, <2>3, <2>4, RowFits DEF Fits
  <2>7. Fits(r, generation', issued')
    BY <2>1, <2>5, <2>6
  <2>8. Numbers' /\ Flags'
    BY <2>1 DEF Present, Rows, Numbers, Flags, history
  <2> QED BY <1>1, <1>3, <2>4, <2>5, <2>7, <2>8, Writes
<1> QED BY <1>2, <1>3 DEF Present

LEMMA ServeLogoutRow ==
    ASSUME Rows, NEW s \in Calls, ServeLogout(s)
    PROVE  OneRow(s) /\ Numbers' /\ Flags'
<1> DEFINE r == [call[s] EXCEPT !.at = "HANDLED"]
<1>1. r \in CallRow
  BY RowFits DEF CallRow
<1>2. /\ r.op = call[s].op /\ r.at = "HANDLED" /\ r.generation = call[s].generation
      /\ r.own = call[s].own /\ r.read = call[s].read /\ r.token = call[s].token
      /\ r.answer = call[s].answer /\ r.service = call[s].service
  BY RowFits DEF CallRow
<1>3. /\ call[s].op = "LOGOUT" /\ call[s].at = "SENT"
      /\ call' = [call EXCEPT ![s] = r]
  BY RowFits DEF ServeLogout, CallRow
<1> HIDE DEF r
<1>4. /\ generation' = generation /\ issued' = issued /\ flight' = flight
      /\ generation <= generation' /\ issued <= issued'
  BY RowFits DEF ServeLogout
<1>5. Fits(r, generation, issued)
  BY <1>1, <1>2, <1>3, RowFits DEF Fits
<1>6. Fits(r, generation', issued')
  BY <1>4, <1>5
<1>7. Numbers' /\ Flags'
  BY DEF ServeLogout, Rows, Numbers, Flags, history
<1> QED BY <1>2, <1>3, <1>4, <1>6, <1>7, Writes

\* The row of a call that the service has answered.
LEMMA AnswerFits ==
    ASSUME Rows, NEW s \in Calls, NEW n \in 0..MaxTokens, issued <= n,
           NEW pair \in 0..n, call[s].service \in {"SENT", "CHECKED"}
    PROVE  /\ Fits(AnswerOf(s, pair), generation, n)
           /\ AnswerOf(s, pair).at = call[s].at
           /\ AnswerOf(s, pair).at = "JOINED" => AnswerOf(s, pair).joined = call[s].joined
<1>1. n \in Nat /\ 0..issued \subseteq 0..n /\ pair \in 0..MaxTokens
  BY RowFits, SessionAssumption DEF SessionAssumption
<1>2. CASE Waiting(s)
  <2> DEFINE r == [call[s] EXCEPT !.service = "DONE", !.answer = pair]
  <2>1. r \in CallRow
    BY ZenonT(60), <1>1, RowFits DEF CallRow
  <2>2. /\ r.op = call[s].op /\ r.at = call[s].at /\ r.joined = call[s].joined
        /\ r.generation = call[s].generation /\ r.own = call[s].own
        /\ r.read = call[s].read /\ r.token = call[s].token
        /\ r.answer = pair /\ r.service = "DONE"
    BY RowFits DEF CallRow
  <2>3. AnswerOf(s, pair) = r
    BY <1>2 DEF AnswerOf
  <2> HIDE DEF r
  <2>4. Fits(r, generation, n)
    BY <1>1, <1>2, <2>1, <2>2, RowFits DEF Fits, Waiting
  <2> QED BY <2>2, <2>3, <2>4
<1>3. CASE ~Waiting(s) /\ Busy(s)
  <2> DEFINE r == [call[s] EXCEPT !.service = "NONE"]
  <2>1. r \in CallRow
    BY RowFits DEF CallRow
  <2>2. /\ r.op = call[s].op /\ r.at = call[s].at /\ r.joined = call[s].joined
        /\ r.generation = call[s].generation /\ r.own = call[s].own
        /\ r.read = call[s].read /\ r.token = call[s].token
        /\ r.answer = call[s].answer /\ r.service = "NONE"
    BY RowFits DEF CallRow
  <2>3. AnswerOf(s, pair) = r
    BY <1>3 DEF AnswerOf
  <2> HIDE DEF r
  <2>4. Fits(r, generation, n)
    BY <1>1, <1>3, <2>1, <2>2, RowFits DEF Fits
  <2> QED BY <2>2, <2>3, <2>4
<1>4. CASE ~Waiting(s) /\ ~Busy(s)
  <2>1. AnswerOf(s, pair) = NoCall /\ call[s].at = "NONE"
    BY <1>4, RowFits DEF AnswerOf, Busy, Fits
  <2>2. Fits(NoCall, generation, n)
    BY <1>1, NoCallFits, RowFits
  <2> QED BY <2>1, <2>2 DEF NoCall
<1> QED BY <1>2, <1>3, <1>4

LEMMA CheckTokenRow ==
    ASSUME Rows, NEW s \in Calls, CheckToken(s)
    PROVE  OneRow(s) /\ Numbers' /\ Flags'
<1>1. /\ generation' = generation /\ issued' = issued /\ flight' = flight
      /\ generation <= generation' /\ issued <= issued'
  BY RowFits DEF CheckToken
<1>2. Numbers' /\ Flags'
  BY DEF CheckToken, Rows, Numbers, Flags, history
<1>3. call[s].service = "SENT"
  BY DEF CheckToken
<1>4. CASE call' = [call EXCEPT ![s].service = "CHECKED"]
  <2> DEFINE r == [call[s] EXCEPT !.service = "CHECKED"]
  <2>1. r \in CallRow
    BY RowFits DEF CallRow
  <2>2. /\ r.op = call[s].op /\ r.at = call[s].at /\ r.joined = call[s].joined
        /\ r.generation = call[s].generation /\ r.own = call[s].own
        /\ r.read = call[s].read /\ r.token = call[s].token
        /\ r.answer = call[s].answer /\ r.service = "CHECKED"
    BY RowFits DEF CallRow
  <2>3. call' = [call EXCEPT ![s] = r]
    BY <1>4
  <2> HIDE DEF r
  <2>4. Fits(r, generation, issued)
    BY <1>3, <2>1, <2>2, RowFits DEF Fits
  <2>5. Fits(r, generation', issued')
    BY <1>1, <2>4
  <2> QED BY <1>1, <1>2, <2>2, <2>3, <2>5, Writes
<1>5. CASE call' = [call EXCEPT ![s] = AnswerOf(s, 0)]
  <2>1. issued <= issued /\ 0 \in 0..issued /\ issued \in 0..MaxTokens
    BY RowFits
  <2>2. /\ Fits(AnswerOf(s, 0), generation, issued)
        /\ AnswerOf(s, 0).at = call[s].at
        /\ AnswerOf(s, 0).at = "JOINED" => AnswerOf(s, 0).joined = call[s].joined
    BY <1>3, <2>1, AnswerFits
  <2>3. Fits(AnswerOf(s, 0), generation', issued')
    BY <1>1, <2>2
  <2> QED BY <1>1, <1>2, <1>5, <2>2, <2>3, Writes
<1> QED BY <1>4, <1>5 DEF CheckToken

LEMMA IssueSessionRow ==
    ASSUME Rows, NEW s \in Calls, IssueSession(s)
    PROVE  OneRow(s) /\ Numbers' /\ Flags'
<1>1. /\ generation' = generation /\ issued' = issued + 1 /\ flight' = flight
      /\ generation <= generation' /\ issued <= issued'
      /\ issued' \in 0..MaxTokens /\ issued + 1 \in 0..issued'
  BY RowFits, SessionAssumption DEF IssueSession, SessionAssumption
<1>2. Numbers'
  BY <1>1 DEF IssueSession, Rows, Numbers
<1>3. Flags'
  BY DEF IssueSession, Rows, Flags, history
<1>4. /\ call[s].service = "CHECKED"
      /\ call' = [call EXCEPT ![s] = AnswerOf(s, issued + 1)]
  BY DEF IssueSession
<1>5. /\ Fits(AnswerOf(s, issued + 1), generation, issued + 1)
      /\ AnswerOf(s, issued + 1).at = call[s].at
      /\ AnswerOf(s, issued + 1).at = "JOINED" =>
           AnswerOf(s, issued + 1).joined = call[s].joined
  BY <1>1, <1>4, AnswerFits
<1>6. Fits(AnswerOf(s, issued + 1), generation', issued')
  BY <1>1, <1>5
<1> QED BY <1>1, <1>2, <1>3, <1>4, <1>5, <1>6, Writes

-----------------------------------------------------------------------------
\* The steps that start, leave or end a refresh, or write several rows.

LEMMA OneFits ==
    ASSUME Rows, Numbers', Flags', NEW s \in Calls, NEW r,
           call' = [call EXCEPT ![s] = r], Fits(r, generation, issued),
           generation' = generation, issued' = issued
    PROVE  Rows' /\ call'[s] = r /\ \A c \in Calls \ {s} : call'[c] = call[c]
<1>1. call'[s] = r /\ \A c \in Calls \ {s} : call'[c] = call[c]
  BY DEF Rows
<1>2. \A c \in Calls : Fits(call'[c], generation', issued')
  BY <1>1 DEF Rows
<1>3. DOMAIN call' = Calls /\ call' = [c \in Calls |-> call'[c]]
  BY DEF Rows
<1> QED BY <1>1, <1>2, <1>3 DEF Rows

LEMMA UnauthorizedRow ==
    ASSUME Rows, Joins, NEW s \in Calls, Unauthorized(s)
    PROVE  (Rows /\ Joins)'
<1> DEFINE g == call[s].generation
<1>1. /\ generation' = generation /\ issued' = issued /\ saved' = saved
      /\ call[s].at = "SENT"
  BY DEF Unauthorized
<1>2. Numbers'
  BY DEF Unauthorized, Rows, Numbers
<1>3. Flags'
  BY DEF Unauthorized, Rows, Flags
<1>4. CASE /\ Joinable(s) /\ flight' = flight
           /\ call' = [call EXCEPT ![s] =
                [call[s] EXCEPT !.at = "JOINED", !.joined = flight]]
  <2> DEFINE r == [call[s] EXCEPT !.at = "JOINED", !.joined = flight]
  <2>1. flight \in Calls /\ call[flight].at \in {"REFRESH", "SETTLED"}
    BY <1>4 DEF Joinable, Joins
  <2>2. r \in CallRow
    BY ZenonT(60), <2>1, RowFits DEF CallRow
  <2>3. /\ r.op = call[s].op /\ r.at = "JOINED" /\ r.joined = flight
        /\ r.generation = call[s].generation /\ r.own = call[s].own
        /\ r.read = call[s].read /\ r.token = call[s].token
        /\ r.answer = call[s].answer /\ r.service = call[s].service
    BY RowFits DEF CallRow
  <2>4. call' = [call EXCEPT ![s] = r]
    BY <1>4
  <2> HIDE DEF r
  <2>5. Fits(r, generation, issued)
    BY <1>1, <2>2, <2>3, RowFits DEF Fits
  <2>6. Rows' /\ call'[s] = r /\ \A c \in Calls \ {s} : call'[c] = call[c]
    BY <1>1, <1>2, <1>3, <2>4, <2>5, OneFits
  <2>7. Joins'
    BY <1>1, <1>4, <2>1, <2>3, <2>6 DEF Joins
  <2> QED BY <2>6, <2>7
<1>5. CASE flight' = Nothing /\ End(s)
  <2>1. Fits(Ended(s), generation, issued) /\ Ended(s).at = "NONE"
    BY RowFits, EndedFits
  <2>2. Rows' /\ call'[s] = Ended(s) /\ \A c \in Calls \ {s} : call'[c] = call[c]
    BY <1>1, <1>2, <1>3, <1>5, <2>1, OneFits DEF End
  <2>3. Joins'
    BY <1>1, <1>5, <2>1, <2>2 DEF Joins
  <2> QED BY <2>2, <2>3
<1>6. ASSUME NEW r, Fits(r, generation, issued), r.at \in {"REFRESH", "SETTLED"},
             flight' = s, call' = [call EXCEPT ![s] = r]
      PROVE  (Rows /\ Joins)'
  <2>1. Rows' /\ call'[s] = r /\ \A c \in Calls \ {s} : call'[c] = call[c]
    BY <1>1, <1>2, <1>3, <1>6, OneFits
  <2>2. Joins'
    BY <1>1, <1>6, <2>1 DEF Joins
  <2> QED BY <2>1, <2>2
<1>7. CASE /\ flight' = s /\ saved = 0
           /\ call' = [call EXCEPT ![s] =
                [call[s] EXCEPT !.at = "SETTLED", !.result = "rejected"]]
  <2> DEFINE r == [call[s] EXCEPT !.at = "SETTLED", !.result = "rejected"]
  <2>1. r \in CallRow
    BY ZenonT(60), RowFits DEF CallRow
  <2>2. /\ r.op = call[s].op /\ r.at = "SETTLED"
        /\ r.generation = call[s].generation /\ r.own = call[s].own
        /\ r.read = call[s].read /\ r.token = call[s].token
        /\ r.answer = call[s].answer /\ r.service = call[s].service
    BY RowFits DEF CallRow
  <2>3. call' = [call EXCEPT ![s] = r]
    BY <1>7
  <2> HIDE DEF r
  <2>4. Fits(r, generation, issued)
    BY <1>1, <2>1, <2>2, RowFits DEF Fits
  <2> QED BY <1>6, <1>7, <2>2, <2>3, <2>4
<1>8. CASE /\ flight' = s /\ saved # 0
           /\ call' = [call EXCEPT ![s] =
                [call[s] EXCEPT !.at = "REFRESH", !.token = saved, !.service = "SENT"]]
  <2> DEFINE r == [call[s] EXCEPT !.at = "REFRESH", !.token = saved,
                                  !.service = "SENT"]
  <2>1. r \in CallRow
    BY ZenonT(60), RowFits DEF CallRow
  <2>2. /\ r.op = call[s].op /\ r.at = "REFRESH"
        /\ r.generation = call[s].generation /\ r.own = call[s].own
        /\ r.read = call[s].read /\ r.token = saved
        /\ r.answer = call[s].answer /\ r.service = "SENT"
    BY RowFits DEF CallRow
  <2>3. call' = [call EXCEPT ![s] = r]
    BY <1>8
  <2> HIDE DEF r
  <2>4. Fits(r, generation, issued)
    BY <1>1, <2>1, <2>2, RowFits DEF Fits
  <2> QED BY <1>6, <1>8, <2>2, <2>3, <2>4
<1>9. \/ /\ Joinable(s) /\ flight' = flight
         /\ call' = [call EXCEPT ![s] =
              [call[s] EXCEPT !.at = "JOINED", !.joined = flight]]
      \/ flight' = Nothing /\ End(s)
      \/ /\ flight' = s
         /\ call' = [call EXCEPT ![s] =
              IF saved = 0
              THEN [call[s] EXCEPT !.at = "SETTLED", !.result = "rejected"]
              ELSE [call[s] EXCEPT !.at = "REFRESH", !.token = saved,
                                   !.service = "SENT"]]
  BY DEF Unauthorized
<1> QED BY <1>4, <1>5, <1>7, <1>8, <1>9

\* What a call that waited for the refresh of s becomes.
Resumed(c) ==
    [call[c] EXCEPT
       !.at = "SENT", !.generation = generation, !.joined = Nothing,
       !.tries = IF saved = 0 THEN "RETRY" ELSE "REFRESHED",
       !.answer = 0, !.result = "NONE"]

Waiters(s) ==
    {c \in Calls : c = s \/ (call[c].at = "JOINED" /\ call[c].joined = s)}

LEMMA ResumedFits ==
    ASSUME Rows, NEW c \in Calls, call[c].at \in {"SETTLED", "JOINED"}
    PROVE  /\ Fits(Resumed(c), generation, issued)
           /\ Resumed(c).at = "SENT" /\ Resumed(c).answer = 0
           /\ Resumed(c).generation = generation
           /\ Resumed(c).tries = IF saved = 0 THEN "RETRY" ELSE "REFRESHED"
           /\ Resumed(c).op = call[c].op /\ Resumed(c).own = call[c].own
           /\ Resumed(c).service = call[c].service
<1> DEFINE v == IF saved = 0 THEN "RETRY" ELSE "REFRESHED"
           r == [call[c] EXCEPT
                   !.at = "SENT", !.generation = generation, !.joined = Nothing,
                   !.tries = v, !.answer = 0, !.result = "NONE"]
<1>1. v \in {"RETRY", "REFRESHED"}
  OBVIOUS
<1>2. Resumed(c) = r
  BY DEF Resumed
<1> HIDE DEF v
<1>3. 0 \in 0..MaxTokens /\ 0 \in 0..issued
  BY RowFits, SessionAssumption DEF SessionAssumption
<1>4. r \in CallRow
  BY ZenonT(60), <1>1, <1>3, RowFits DEF CallRow
<1>5. /\ r.op = call[c].op /\ r.at = "SENT" /\ r.generation = generation
      /\ r.own = call[c].own /\ r.read = call[c].read /\ r.token = call[c].token
      /\ r.answer = 0 /\ r.service = call[c].service /\ r.tries = v
  BY RowFits DEF CallRow
<1> HIDE DEF r
<1>6. Fits(r, generation, issued)
  BY <1>3, <1>4, <1>5, RowFits DEF Fits
<1> QED BY <1>2, <1>5, <1>6 DEF v

LEMMA SettleRow ==
    ASSUME Rows, Joins, NEW s \in Calls, Settle(s)
    PROVE  (Rows /\ Joins)'
<1>1. /\ generation' = generation /\ issued' = issued /\ live' = live
      /\ call[s].at = "SETTLED"
  BY DEF Settle
<1>2. saved' \in 0..issued
  <2>1. saved' = 0 \/ saved' = saved
    BY DEF Settle, Cleared
  <2> QED BY <2>1, RowFits
<1>3. Numbers'
  BY <1>1, <1>2 DEF Rows, Numbers
<1>4. Flags'
  BY DEF Settle, Rows, Flags, history
<1>5. call' = [c \in Calls |->
         IF c \notin Waiters(s) THEN call[c]
         ELSE IF call[s].result = "refreshed" THEN Resumed(c) ELSE Ended(c)]
  BY DEF Settle, Waiters, Resumed
<1>6. ASSUME NEW c \in Calls
      PROVE  /\ Fits(call'[c], generation, issued)
             /\ \/ c \notin Waiters(s) /\ call'[c] = call[c]
                \/ c \in Waiters(s) /\ call'[c].at \in {"SENT", "NONE"}
  <2>1. CASE c \notin Waiters(s)
    BY <1>5, <2>1, RowFits
  <2>2. CASE c \in Waiters(s)
    <3>1. call[c].at \in {"SETTLED", "JOINED"}
      BY <1>1, <2>2 DEF Waiters
    <3>2. Fits(Resumed(c), generation, issued) /\ Resumed(c).at = "SENT"
      BY <3>1, ResumedFits
    <3>3. Fits(Ended(c), generation, issued) /\ Ended(c).at = "NONE"
      BY RowFits, EndedFits
    <3> QED BY <1>5, <2>2, <3>2, <3>3
  <2> QED BY <2>1, <2>2
<1>7. Rows'
  <2>1. DOMAIN call' = Calls /\ call' = [c \in Calls |-> call'[c]]
    BY <1>5
  <2> QED BY <1>1, <1>3, <1>4, <1>6, <2>1 DEF Rows
<1>8. flight' \in Calls \cup {Nothing} /\ flight' # s
      /\ (flight' # Nothing => flight' = flight)
  BY SessionAssumption DEF Settle, Released, Joins, SessionAssumption
<1>9. ASSUME NEW c \in Calls, call[c].at \in {"REFRESH", "SETTLED"}, c # s
      PROVE  call'[c] = call[c]
  BY <1>6, <1>9 DEF Waiters
<1>10. flight' # Nothing => call'[flight'].at \in {"REFRESH", "SETTLED"}
  BY <1>8, <1>9 DEF Joins
<1>11. ASSUME NEW c \in Calls, call'[c].at = "JOINED"
       PROVE  /\ call'[c].joined \in Calls
              /\ call'[call'[c].joined].at \in {"REFRESH", "SETTLED"}
  <2>1. call'[c] = call[c] /\ c \notin Waiters(s)
    BY <1>6, <1>11
  <2>2. /\ call[c].joined \in Calls /\ call[c].joined # s
        /\ call[call[c].joined].at \in {"REFRESH", "SETTLED"}
    BY <1>11, <2>1 DEF Joins, Waiters
  <2> QED BY <1>9, <2>1, <2>2
<1> QED BY <1>7, <1>8, <1>10, <1>11 DEF Joins

\* Calls that are left behind by a logout keep all else.
LeftRow(c) == [call[c] EXCEPT !.left = TRUE]

LEMMA LeftFits ==
    ASSUME Rows, NEW c \in Calls, NEW gen \in 0..MaxGeneration, generation <= gen
    PROVE  /\ Fits(LeftRow(c), gen, issued) /\ Fits(call[c], gen, issued)
           /\ LeftRow(c).at = call[c].at /\ LeftRow(c).op = call[c].op
           /\ LeftRow(c).joined = call[c].joined /\ LeftRow(c).own = call[c].own
           /\ LeftRow(c).generation = call[c].generation
           /\ LeftRow(c).answer = call[c].answer /\ LeftRow(c).tries = call[c].tries
           /\ LeftRow(c).service = call[c].service
<1> DEFINE r == [call[c] EXCEPT !.left = TRUE]
<1>1. r \in CallRow
  BY ZenonT(60), RowFits DEF CallRow
<1>2. /\ r.op = call[c].op /\ r.at = call[c].at /\ r.joined = call[c].joined
      /\ r.generation = call[c].generation /\ r.own = call[c].own
      /\ r.read = call[c].read /\ r.token = call[c].token
      /\ r.answer = call[c].answer /\ r.service = call[c].service
      /\ r.tries = call[c].tries
  BY RowFits DEF CallRow
<1>3. LeftRow(c) = r
  BY DEF LeftRow
<1> HIDE DEF r
<1>4. 0..generation \subseteq 0..gen
  BY RowFits, SessionAssumption DEF SessionAssumption
<1>5. Fits(r, gen, issued) /\ Fits(call[c], gen, issued)
  BY <1>1, <1>2, <1>4, RowFits DEF Fits
<1> QED BY <1>2, <1>3, <1>5

\* A step that writes no more than left, of any rows but that of s, and leaves
\* no call joined or refreshing in s.
LEMMA LeftWritten ==
    ASSUME Rows, Joins, Numbers', Flags', NEW s,
           DOMAIN call' = Calls, call' = [c \in Calls |-> call'[c]],
           \A c \in Calls \ {s} : call'[c] = LeftRow(c) \/ call'[c] = call[c],
           s \in Calls => /\ Fits(call'[s], generation', issued')
                          /\ call'[s].at \notin {"JOINED", "REFRESH", "SETTLED"}
                          /\ call[s].at \notin {"REFRESH", "SETTLED"},
           generation <= generation', issued' = issued, flight' = flight
    PROVE  (Rows /\ Joins)'
<1>1. generation' \in 0..MaxGeneration
  BY DEF Numbers
<1>2. ASSUME NEW c \in Calls \ {s}
      PROVE  /\ Fits(call'[c], generation', issued')
             /\ call'[c].at = call[c].at /\ call'[c].joined = call[c].joined
  BY <1>1, <1>2, LeftFits
<1>3. Rows'
  BY <1>2 DEF Rows
<1>4. \A c \in Calls : call[c].at \in {"REFRESH", "SETTLED"} =>
                         c # s /\ call'[c].at = call[c].at
  BY <1>2
<1>5. Joins'
  BY <1>2, <1>4 DEF Joins
<1> QED BY <1>3, <1>5

LEMMA BeginLogoutRow ==
    ASSUME Rows, Joins, NEW s \in Calls, BeginLogout(s)
    PROVE  (Rows /\ Joins)'
<1>1. /\ generation' = generation + 1 /\ issued' = issued /\ flight' = flight
      /\ generation' \in 0..MaxGeneration /\ generation' \in Nat /\ issued \in Nat
      /\ generation <= generation' /\ call[s].at = "READ"
  BY RowFits, SessionAssumption DEF BeginLogout, CanBegin, SessionAssumption
<1>2. Numbers'
  BY <1>1 DEF BeginLogout, Rows, Numbers
<1>3. Flags'
  BY DEF BeginLogout, Rows, Flags
<1> DEFINE r == [call[s] EXCEPT !.at = "SENT", !.generation = generation + 1,
                                !.own = generation + 1, !.left = FALSE]
<1>4. Fits(r, generation', issued) /\ r.at = "SENT"
  <2>1. r \in CallRow
    BY ZenonT(60), <1>1, RowFits DEF CallRow
  <2>2. /\ r.op = call[s].op /\ r.at = "SENT" /\ r.generation = generation'
        /\ r.own = generation' /\ r.read = call[s].read /\ r.token = call[s].token
        /\ r.answer = call[s].answer /\ r.service = call[s].service
    BY <1>1, RowFits DEF CallRow
  <2>3. call[s].op = "LOGOUT"
    BY DEF BeginLogout
  <2> HIDE DEF r
  <2> QED BY <1>1, <2>1, <2>2, <2>3, RowFits DEF Fits
<1>5. Fits(Ended(s), generation', issued) /\ Ended(s).at = "NONE"
  BY <1>1, RowFits, EndedFits
<1>6. /\ DOMAIN call' = Calls /\ call' = [c \in Calls |-> call'[c]]
      /\ call'[s] \in {Ended(s), r}
      /\ \A c \in Calls \ {s} : call'[c] = LeftRow(c) \/ call'[c] = call[c]
  <2> HIDE DEF r
  <2>1. call' = [LeftBehind(s) EXCEPT ![s] = IF call[s].read = 0 THEN Ended(s) ELSE r]
    BY DEF BeginLogout, LeftBehind, r
  <2> QED BY <2>1 DEF LeftBehind, LeftRow
<1> HIDE DEF r
<1>7. /\ Fits(call'[s], generation', issued')
      /\ call'[s].at \notin {"JOINED", "REFRESH", "SETTLED"}
      /\ call[s].at \notin {"REFRESH", "SETTLED"}
  BY <1>1, <1>4, <1>5, <1>6
<1> QED BY <1>1, <1>2, <1>3, <1>6, <1>7, LeftWritten

LEMMA ResetRow ==
    ASSUME Rows, Joins, ResetSavedLogin PROVE (Rows /\ Joins)'
<1>1. /\ generation' = generation + 1 /\ issued' = issued /\ flight' = flight
      /\ generation' \in 0..MaxGeneration /\ generation <= generation'
  BY SessionAssumption DEF ResetSavedLogin, CanBegin, SessionAssumption, Rows, Numbers
<1>2. Numbers'
  BY <1>1 DEF ResetSavedLogin, Rows, Numbers
<1>3. Flags'
  BY DEF ResetSavedLogin, Rows, Flags
<1>4. /\ DOMAIN call' = Calls /\ call' = [c \in Calls |-> call'[c]]
      /\ \A c \in Calls : call'[c] = LeftRow(c) \/ call'[c] = call[c]
  BY DEF ResetSavedLogin, LeftBehind, LeftRow
<1>5. Nothing \notin Calls
  BY SessionAssumption DEF SessionAssumption
<1> QED BY <1>1, <1>2, <1>3, <1>4, <1>5, LeftWritten

LEMMA RestartRow ==
    ASSUME Rows, Joins, Restart PROVE (Rows /\ Joins)'
<1>1. generation' = 0 /\ issued' = issued /\ flight' = Nothing /\ 0 \in 0..MaxGeneration
  BY SessionAssumption DEF Restart, SessionAssumption
<1>2. Numbers'
  BY <1>1 DEF Restart, Rows, Numbers
<1>3. Flags'
  BY DEF Restart, Rows, Flags
<1>4. call' = [c \in Calls |-> Ended(c)]
  BY DEF Restart
<1>5. ASSUME NEW c \in Calls
      PROVE  Fits(call'[c], generation', issued') /\ call'[c].at = "NONE"
  <2>1. Fits(Ended(c), 0, issued) /\ Ended(c).at = "NONE"
    BY RowFits, EndedFits
  <2> QED BY <1>1, <1>4, <2>1
<1>6. Rows'
  BY <1>2, <1>3, <1>4, <1>5 DEF Rows
<1>7. Joins'
  BY <1>1, <1>5 DEF Joins
<1> QED BY <1>6, <1>7

LEMMA RevokeRow ==
    ASSUME Rows, Joins, Revoke PROVE (Rows /\ Joins)'
<1>1. /\ saved' = saved /\ generation' = generation /\ flight' = flight
      /\ call' = call /\ issued' = issued /\ live' = {}
  BY DEF Revoke
<1>2. Flags'
  BY DEF Revoke, Rows, Flags
<1> QED BY <1>1, <1>2 DEF Rows, Joins, Numbers

\* The steps that write one row and leave the current refresh.
SoleStep(s) ==
    \/ StartRequest(s) \/ Answered(s) \/ RetryAuthMe(s) \/ UnauthorizedAgain(s)
    \/ TakeAnswer(s) \/ LoseAnswer(s) \/ StartLogin(s)
    \/ ReadToken(s, "BIOMETRIC") \/ ReadToken(s, "LOGOUT") \/ Present(s)
    \/ TakeSession(s) \/ LoseSession(s) \/ ServeLogout(s) \/ FinishLogout(s)
    \/ CheckToken(s) \/ IssueSession(s)

LEMMA SoleRow ==
    ASSUME Rows, NEW s \in Calls, SoleStep(s)
    PROVE  OneRow(s) /\ Numbers' /\ Flags'
BY StartRequestRow, EndRows, RetryRow, TakeAnswerRow, LoseAnswerRow,
   StartLoginRow, ReadTokenRow, PresentRow, ServeLogoutRow, CheckTokenRow,
   IssueSessionRow DEF SoleStep

LEMMA RowsKept ==
    ASSUME Rows, Joins, [SessionNext]_sessionVars PROVE (Rows /\ Joins)'
<1>1. CASE UNCHANGED sessionVars
  BY <1>1 DEF sessionVars, Rows, Joins, Numbers, Flags
<1>2. ASSUME NEW s \in Calls, SoleStep(s) PROVE (Rows /\ Joins)'
  BY <1>2, SoleRow, RowWritten
<1>3. \/ \E s \in Calls : \/ SoleStep(s) \/ Unauthorized(s)
                          \/ Settle(s) \/ BeginLogout(s)
      \/ ResetSavedLogin \/ Revoke \/ Restart \/ UNCHANGED sessionVars
  BY DEF SessionNext, SoleStep
<1> QED BY <1>1, <1>2, <1>3, UnauthorizedRow, SettleRow, BeginLogoutRow,
           ResetRow, RevokeRow, RestartRow

LEMMA RowsAtFirst == SessionInit => Rows /\ Joins
<1> SUFFICES ASSUME SessionInit PROVE Rows /\ Joins
  OBVIOUS
<1>1. Fits(NoCall, 0, 0) /\ NoCall.at = "NONE"
  BY NoCallFits DEF NoCall
<1>2. Numbers
  BY SessionAssumption DEF SessionInit, SessionAssumption, Numbers
<1>3. Flags
  BY DEF SessionInit, Flags
<1> QED BY <1>1, <1>2, <1>3 DEF SessionInit, Rows, Joins

\* Every row keeps its type: a generation is never behind the one it was read
\* from, only tokens that were issued are saved or live, and whoever joined a
\* refresh has one that still gives a result.
THEOREM SessionTypeCorrect == SessionSpec => []SessionTypeOK
<1>1. SessionInit => Rows /\ Joins
  BY RowsAtFirst
<1>2. Rows /\ Joins /\ [SessionNext]_sessionVars => (Rows /\ Joins)'
  BY RowsKept
<1> QED BY <1>1, <1>2, RowsAreTyped, PTL DEF SessionSpec

-----------------------------------------------------------------------------
(***************************************************************************)
(* One refresh for the calls of a generation.                              *)
(***************************************************************************)

\* Unless the current refresh was displaced, a refresh of the present
\* generation is the one that others join.
RefreshIsFlight ==
    ~displaced =>
      \A s \in Calls :
        call[s].at = "REFRESH" /\ call[s].generation = generation => flight = s

FlightInv == Rows /\ Joins /\ RefreshIsFlight /\ SingleFlight

\* No refresh begins.
NoneBegins ==
    \A c \in Calls :
      call'[c].at = "REFRESH" =>
        call[c].at = "REFRESH" /\ call'[c].generation = call[c].generation

LEMMA SoleFlight ==
    ASSUME Rows, NEW s \in Calls, SoleStep(s)
    PROVE  /\ displaced' = displaced /\ flight' = flight
           /\ generation' = generation \/ generation' = generation + 1
           /\ NoneBegins
<1>1. flight' = flight /\ displaced' = displaced
  BY DEF SoleStep, StartRequest, Answered, RetryAuthMe, UnauthorizedAgain,
         TakeAnswer, LoseAnswer, StartLogin, ReadToken, Present, TakeSession,
         LoseSession, ServeLogout, FinishLogout, CheckToken, IssueSession, history
<1>2. generation' = generation \/ generation' = generation + 1
  BY DEF SoleStep, StartRequest, Answered, RetryAuthMe, UnauthorizedAgain,
         TakeAnswer, LoseAnswer, StartLogin, ReadToken, Present, TakeSession,
         LoseSession, ServeLogout, FinishLogout, CheckToken, IssueSession, history
<1>3. \A c \in Calls \ {s} : call'[c] = call[c]
  BY SoleRow DEF OneRow, Rows
<1>4. ASSUME call'[s].at = "REFRESH"
      PROVE  call[s].at = "REFRESH" /\ call'[s].generation = call[s].generation
  <2>1. Ended(s).at = "NONE"
    BY EndedRow
  <2>2. CASE \/ StartRequest(s) \/ StartLogin(s) \/ ReadToken(s, "BIOMETRIC")
             \/ ReadToken(s, "LOGOUT") \/ TakeAnswer(s) \/ LoseAnswer(s)
             \/ ServeLogout(s) \/ RetryAuthMe(s)
    <3>1. CASE StartRequest(s)
      <4>1. call' = [call EXCEPT ![s] = [call[s] EXCEPT
              !.op = "REQUEST", !.at = "SENT", !.generation = generation]]
        BY <3>1 DEF StartRequest
      <4> QED BY ZenonT(60), <1>4, <4>1, RowFits DEF Rows, CallRow
    <3>2. CASE StartLogin(s)
      <4>1. call' = [call EXCEPT ![s] = [call[s] EXCEPT
              !.op = "LOGIN", !.at = "SIGNIN", !.own = generation + 1,
              !.service = "SENT"]]
        BY <3>2 DEF StartLogin
      <4> QED BY ZenonT(60), <1>4, <4>1, RowFits DEF Rows, CallRow
    <3>3. CASE ReadToken(s, "BIOMETRIC")
      BY ZenonT(60), <1>4, <3>3, RowFits DEF ReadToken, Rows, CallRow
    <3>4. CASE ReadToken(s, "LOGOUT")
      BY ZenonT(60), <1>4, <3>4, RowFits DEF ReadToken, Rows, CallRow
    <3>5. CASE TakeAnswer(s)
      BY ZenonT(60), <1>4, <3>5, RowFits DEF TakeAnswer, Rows, CallRow
    <3>6. CASE LoseAnswer(s)
      BY ZenonT(60), <1>4, <3>6, RowFits DEF LoseAnswer, Rows, CallRow
    <3>7. CASE ServeLogout(s)
      BY SMTT(30), <1>4, <3>7, RowFits DEF ServeLogout, Rows, CallRow
    <3>8. CASE RetryAuthMe(s)
      BY ZenonT(60), <1>4, <3>8, RowFits DEF RetryAuthMe, Rows, CallRow
    <3> QED BY <2>2, <3>1, <3>2, <3>3, <3>4, <3>5, <3>6, <3>7, <3>8
  <2>3. CASE \/ Answered(s) \/ UnauthorizedAgain(s) \/ TakeSession(s)
             \/ LoseSession(s) \/ FinishLogout(s)
    <3>1. call'[s] = Ended(s)
      BY <2>3 DEF Answered, UnauthorizedAgain, TakeSession, LoseSession,
                  FinishLogout, End, Rows
    <3> QED BY <1>4, <2>1, <3>1
  <2>4. CASE Present(s)
    <3>1. call'[s].at \in {"NONE", "SIGNIN"}
      BY ZenonT(60), <2>1, <2>4, RowFits DEF Present, End, Rows, CallRow
    <3> QED BY <1>4, <3>1
  <2>5. CASE CheckToken(s) \/ IssueSession(s)
    <3>1. PICK pair : \/ call'[s] = AnswerOf(s, pair)
                      \/ call'[s] = [call[s] EXCEPT !.service = "CHECKED"]
      BY <2>5 DEF CheckToken, IssueSession, Rows
    <3>2. CASE call'[s] = [call[s] EXCEPT !.service = "CHECKED"]
      BY <1>4, <3>2, RowFits DEF CallRow
    <3>3. CASE call'[s] = AnswerOf(s, pair)
      <4>1. CASE Waiting(s) \/ Busy(s)
        BY <1>4, <3>3, <4>1, RowFits DEF AnswerOf, CallRow
      <4>2. CASE ~(Waiting(s) \/ Busy(s))
        BY <1>4, <3>3, <4>2 DEF AnswerOf, NoCall
      <4> QED BY <4>1, <4>2
    <3> QED BY <3>1, <3>2, <3>3
  <2> QED BY <2>2, <2>3, <2>4, <2>5 DEF SoleStep
<1> QED BY <1>1, <1>2, <1>3, <1>4 DEF NoneBegins

\* What is begun by no step stays alone.
LEMMA FlightKept ==
    ASSUME FlightInv, displaced' = displaced, NoneBegins,
           generation' = generation \/ generation' = generation + 1,
           generation' = generation => flight' = flight
    PROVE  (RefreshIsFlight /\ SingleFlight)'
<1>1. ASSUME generation' = generation + 1, NEW c \in Calls, call'[c].at = "REFRESH"
      PROVE  call'[c].generation # generation'
  <2>1. call[c].generation \in 0..generation /\ generation \in Nat
    BY RowFits DEF FlightInv, Fits
  <2>2. call'[c].generation = call[c].generation
    BY <1>1 DEF NoneBegins
  <2> QED BY <1>1, <2>1, <2>2
<1>2. RefreshIsFlight'
  BY <1>1 DEF FlightInv, RefreshIsFlight, NoneBegins
<1>3. SingleFlight'
  BY DEF FlightInv, SingleFlight, NoneBegins
<1> QED BY <1>2, <1>3

LEMMA FlightUnauthorized ==
    ASSUME FlightInv, NEW s \in Calls, Unauthorized(s)
    PROVE  (RefreshIsFlight /\ SingleFlight)'
<1>1. /\ Rows /\ Joins /\ RefreshIsFlight /\ SingleFlight
      /\ generation' = generation
  BY DEF FlightInv, Unauthorized
<1>2. CASE /\ Joinable(s) /\ flight' = flight /\ displaced' = displaced
           /\ call' = [call EXCEPT ![s] =
                [call[s] EXCEPT !.at = "JOINED", !.joined = flight]]
  <2>1. call'[s].at = "JOINED" /\ \A c \in Calls \ {s} : call'[c] = call[c]
    BY <1>1, <1>2, RowFits DEF Rows, CallRow
  <2>2. NoneBegins
    BY <2>1 DEF NoneBegins
  <2> QED BY <1>1, <1>2, <2>2, FlightKept
<1>3. CASE /\ flight' = Nothing /\ End(s)
           /\ displaced' = (displaced \/ /\ flight # Nothing
                                         /\ IsCurrent(call[flight].generation))
  <2>1. call'[s].at = "NONE" /\ \A c \in Calls \ {s} : call'[c] = call[c]
    BY <1>1, <1>3, EndedRow DEF Rows, End
  <2>2. NoneBegins
    BY <2>1 DEF NoneBegins
  <2>3. ~displaced' =>
           ~displaced /\ (flight # Nothing => call[flight].generation # generation)
    BY <1>3 DEF IsCurrent
  <2>4. ~displaced' => \A c \in Calls :
           ~(call[c].at = "REFRESH" /\ call[c].generation = generation)
    BY <1>1, <2>3, SessionAssumption DEF RefreshIsFlight, SessionAssumption
  <2>5. RefreshIsFlight'
    BY <1>1, <2>2, <2>4 DEF RefreshIsFlight, NoneBegins
  <2>6. SingleFlight'
    BY <1>1, <2>2, <2>3 DEF SingleFlight, NoneBegins
  <2> QED BY <2>5, <2>6
<1>4. CASE /\ ~Joinable(s) /\ IsCurrent(call[s].generation)
           /\ flight' = s /\ displaced' = displaced
           /\ call' = [call EXCEPT ![s] =
                IF saved = 0
                THEN [call[s] EXCEPT !.at = "SETTLED", !.result = "rejected"]
                ELSE [call[s] EXCEPT !.at = "REFRESH", !.token = saved,
                                     !.service = "SENT"]]
  <2>1. /\ call'[s].generation = generation
        /\ \A c \in Calls \ {s} : call'[c] = call[c]
    BY <1>1, <1>4, RowFits DEF Rows, CallRow, IsCurrent
  <2>2. ~displaced => \A c \in Calls :
           ~(call[c].at = "REFRESH" /\ call[c].generation = generation)
    BY <1>1, <1>4, SessionAssumption
       DEF RefreshIsFlight, Joinable, IsCurrent, SessionAssumption
  <2>3. RefreshIsFlight'
    BY <1>1, <1>4, <2>1, <2>2 DEF RefreshIsFlight
  <2>4. SingleFlight'
    BY <1>1, <1>4, <2>1, <2>2 DEF SingleFlight
  <2> QED BY <2>3, <2>4
<1>5. \/ /\ Joinable(s) /\ flight' = flight /\ displaced' = displaced
         /\ call' = [call EXCEPT ![s] =
              [call[s] EXCEPT !.at = "JOINED", !.joined = flight]]
      \/ /\ flight' = Nothing /\ End(s)
         /\ displaced' = (displaced \/ /\ flight # Nothing
                                       /\ IsCurrent(call[flight].generation))
      \/ /\ ~Joinable(s) /\ IsCurrent(call[s].generation)
         /\ flight' = s /\ displaced' = displaced
         /\ call' = [call EXCEPT ![s] =
              IF saved = 0
              THEN [call[s] EXCEPT !.at = "SETTLED", !.result = "rejected"]
              ELSE [call[s] EXCEPT !.at = "REFRESH", !.token = saved,
                                   !.service = "SENT"]]
  BY DEF Unauthorized
<1> QED BY <1>2, <1>3, <1>4, <1>5

LEMMA FlightSettle ==
    ASSUME FlightInv, NEW s \in Calls, Settle(s)
    PROVE  (RefreshIsFlight /\ SingleFlight)'
<1>1. /\ Rows /\ generation' = generation /\ displaced' = displaced
      /\ call[s].at = "SETTLED" /\ flight' = IF flight = s THEN Nothing ELSE flight
  BY DEF FlightInv, Settle, Released, history
<1>2. ASSUME NEW c \in Calls, call'[c].at = "REFRESH"
      PROVE  c # s /\ call'[c] = call[c]
  <2>1. call' = [d \in Calls |->
           IF d \notin Waiters(s) THEN call[d]
           ELSE IF call[s].result = "refreshed" THEN Resumed(d) ELSE Ended(d)]
    BY DEF Settle, Waiters, Resumed
  <2>2. CASE c \in Waiters(s)
    <3>1. call[c].at \in {"SETTLED", "JOINED"}
      BY <1>1, <2>2 DEF Waiters
    <3>2. Resumed(c).at = "SENT" /\ Ended(c).at = "NONE"
      BY <1>1, <3>1, ResumedFits, EndedRow
    <3> QED BY <1>2, <2>1, <2>2, <3>2
  <2>3. CASE c \notin Waiters(s)
    BY <2>1, <2>3 DEF Waiters
  <2> QED BY <2>2, <2>3
<1>3. RefreshIsFlight'
  BY <1>1, <1>2 DEF FlightInv, RefreshIsFlight
<1>4. SingleFlight'
  BY <1>1, <1>2 DEF FlightInv, SingleFlight
<1> QED BY <1>3, <1>4

LEMMA FlightLeft ==
    ASSUME FlightInv,
           ResetSavedLogin \/ \E s \in Calls : BeginLogout(s)
    PROVE  (RefreshIsFlight /\ SingleFlight)'
<1>1. /\ Rows /\ generation' = generation + 1 /\ displaced' = displaced
      /\ flight' = flight
  BY DEF FlightInv, ResetSavedLogin, BeginLogout
<1>2. ASSUME NEW c \in Calls, call'[c].at = "REFRESH"
      PROVE  call[c].at = "REFRESH" /\ call'[c].generation = call[c].generation
  <2>1. /\ LeftRow(c).at = call[c].at /\ LeftRow(c).generation = call[c].generation
        /\ Ended(c).at = "NONE"
    BY <1>1, RowFits, LeftFits, EndedRow
  <2>2. CASE ResetSavedLogin
    <3>1. call'[c] = LeftRow(c) \/ call'[c] = call[c]
      BY <2>2 DEF ResetSavedLogin, LeftBehind, LeftRow
    <3> QED BY <1>2, <2>1, <3>1
  <2>3. ASSUME NEW s \in Calls, BeginLogout(s)
        PROVE  call[c].at = "REFRESH" /\ call'[c].generation = call[c].generation
    <3>1. CASE c # s
      <4>1. call'[c] = LeftRow(c) \/ call'[c] = call[c]
        BY <2>3, <3>1 DEF BeginLogout, LeftBehind, LeftRow
      <4> QED BY <1>2, <2>1, <4>1
    <3>2. CASE c = s
      <4>1. /\ DOMAIN LeftBehind(s) = Calls /\ LeftBehind(s)[s] = call[s]
        BY DEF LeftBehind
      <4>2. call'[s] = IF call[s].read = 0 THEN Ended(s)
                       ELSE [LeftBehind(s)[s] EXCEPT
                               !.at = "SENT", !.generation = generation + 1,
                               !.own = generation + 1, !.left = FALSE]
        BY <2>3, <4>1 DEF BeginLogout
      <4>3. call'[s].at # "REFRESH"
        BY <1>1, <2>1, <3>2, <4>1, <4>2, RowFits DEF CallRow
      <4> QED BY <1>2, <3>2, <4>3
    <3> QED BY <3>1, <3>2
  <2> QED BY <2>2, <2>3
<1>3. NoneBegins
  BY <1>2 DEF NoneBegins
<1> QED BY <1>1, <1>3, FlightKept

LEMMA FlightNext ==
    ASSUME FlightInv, [SessionNext]_sessionVars PROVE FlightInv'
<1>1. Rows /\ Joins
  BY DEF FlightInv
<1>2. (Rows /\ Joins)'
  BY <1>1, RowsKept
<1>3. ASSUME UNCHANGED sessionVars PROVE (RefreshIsFlight /\ SingleFlight)'
  BY <1>3 DEF sessionVars, FlightInv, RefreshIsFlight, SingleFlight
<1>4. ASSUME NEW s \in Calls, SoleStep(s)
      PROVE  (RefreshIsFlight /\ SingleFlight)'
  BY <1>1, <1>4, SoleFlight, FlightKept
<1>5. ASSUME Restart PROVE (RefreshIsFlight /\ SingleFlight)'
  <2>1. \A c \in Calls : call'[c].at = "NONE"
    BY <1>1, <1>5, EndedRow DEF Restart
  <2> QED BY <2>1 DEF RefreshIsFlight, SingleFlight
<1>6. ASSUME Revoke PROVE (RefreshIsFlight /\ SingleFlight)'
  <2>1. /\ call' = call /\ generation' = generation /\ flight' = flight
        /\ displaced' = displaced
    BY <1>6 DEF Revoke
  <2> QED BY <2>1 DEF FlightInv, RefreshIsFlight, SingleFlight
<1>7. \/ \E s \in Calls : \/ SoleStep(s) \/ Unauthorized(s)
                          \/ Settle(s) \/ BeginLogout(s)
      \/ ResetSavedLogin \/ Revoke \/ Restart \/ UNCHANGED sessionVars
  BY DEF SessionNext, SoleStep
<1>8. (RefreshIsFlight /\ SingleFlight)'
  BY <1>3, <1>4, <1>5, <1>6, <1>7, FlightUnauthorized, FlightSettle, FlightLeft
<1> QED BY <1>2, <1>8 DEF FlightInv

\* Calls of one generation never refresh at one time, unless a call of an
\* earlier generation displaced the refresh that others join.
THEOREM OneRefreshAtATime == SessionSpec => []SingleFlight
<1>1. SessionInit => FlightInv
  BY RowsAtFirst DEF FlightInv, SessionInit, RefreshIsFlight, SingleFlight, NoCall
<1>2. FlightInv /\ [SessionNext]_sessionVars => FlightInv'
  BY FlightNext
<1>3. FlightInv => SingleFlight
  BY DEF FlightInv
<1> QED BY <1>1, <1>2, <1>3, PTL DEF SessionSpec

-----------------------------------------------------------------------------
(***************************************************************************)
(* Nothing begun before a logout is saved after it.                        *)
(***************************************************************************)

\* No pair answers two calls.
AnswersDiffer ==
    \A s, c \in Calls :
      call[s].answer = call[c].answer /\ call[s].answer # 0 => s = c

\* A call that was left behind has a generation of before, for as long as it
\* may still save what it obtains.
Old(r, gen) ==
    r.left =>
      /\ r.at = "REFRESH" \/ (r.at = "SENT" /\ r.tries = "FIRST") => r.generation < gen
      /\ r.at = "SIGNIN" => r.own < gen

LeftIsOld == \A s \in Calls : Old(call[s], generation)

LogoutInv == Rows /\ Joins /\ AnswersDiffer /\ LeftIsOld

\* The row of s, if it is of a call left behind, has nothing to save or is as
\* it was.
StillOld(s) ==
    call'[s].left =>
      \/ /\ call'[s].at \notin {"REFRESH", "SIGNIN"}
         /\ call'[s].at = "SENT" => call'[s].tries # "FIRST"
      \/ /\ call[s].left
         /\ call'[s].at = call[s].at /\ call'[s].tries = call[s].tries
         /\ call'[s].generation = call[s].generation
         /\ call'[s].own = call[s].own

\* What the service's answer writes, and what it does not.
LEMMA AnswerWrites ==
    ASSUME Rows, NEW s \in Calls, NEW pair, NEW r, r = AnswerOf(s, pair)
    PROVE  /\ r.answer \in {0, pair, call[s].answer}
           /\ pair = 0 => r.answer \in {0, call[s].answer}
           /\ r.left => /\ call[s].left /\ r.at = call[s].at
                        /\ r.tries = call[s].tries
                        /\ r.generation = call[s].generation
                        /\ r.own = call[s].own
<1>1. CASE Waiting(s)
  BY <1>1, RowFits DEF AnswerOf, CallRow
<1>2. CASE ~Waiting(s) /\ Busy(s)
  BY <1>2, RowFits DEF AnswerOf, CallRow
<1>3. CASE ~Waiting(s) /\ ~Busy(s)
  BY <1>3 DEF AnswerOf, NoCall
<1> QED BY <1>1, <1>2, <1>3

LEMMA SoleLeft ==
    ASSUME Rows, NEW s \in Calls, SoleStep(s)
    PROVE  /\ StillOld(s)
           /\ call'[s].answer \in {0, call[s].answer} \/ IssueSession(s)
<1>1. Ended(s).answer = 0 /\ ~Ended(s).left
  BY EndedRow
<1>2. CASE StartRequest(s)
  <2>1. call' = [call EXCEPT ![s] = [call[s] EXCEPT
          !.op = "REQUEST", !.at = "SENT", !.generation = generation]]
    BY <1>2 DEF StartRequest
  <2>2. ~call[s].left
    BY <1>2 DEF StartRequest, Free, NoCall
  <2> QED BY ZenonT(60), <2>1, <2>2, RowFits DEF Rows, CallRow, StillOld
<1>3. CASE StartLogin(s)
  <2>1. call' = [call EXCEPT ![s] = [call[s] EXCEPT
          !.op = "LOGIN", !.at = "SIGNIN", !.own = generation + 1,
          !.service = "SENT"]]
    BY <1>3 DEF StartLogin
  <2>2. ~call[s].left
    BY <1>3 DEF StartLogin, Free, NoCall
  <2> QED BY ZenonT(60), <2>1, <2>2, RowFits DEF Rows, CallRow, StillOld
<1>4. CASE RetryAuthMe(s)
  BY ZenonT(60), <1>4, RowFits DEF RetryAuthMe, Rows, CallRow, StillOld
<1>5. CASE ReadToken(s, "BIOMETRIC") \/ ReadToken(s, "LOGOUT")
  <2>1. PICK op : call' = [call EXCEPT ![s] = [call[s] EXCEPT
          !.op = op, !.at = "READ", !.read = saved]]
    BY <1>5 DEF ReadToken
  <2> QED BY ZenonT(60), <2>1, RowFits DEF Rows, CallRow, StillOld
<1>6. CASE TakeAnswer(s)
  <2>1. PICK v : call' = [call EXCEPT ![s] = [call[s] EXCEPT
          !.at = "SETTLED", !.service = "NONE", !.result = v]]
    BY <1>6 DEF TakeAnswer
  <2> QED BY ZenonT(60), <2>1, RowFits DEF Rows, CallRow, StillOld
<1>7. CASE LoseAnswer(s)
  <2>1. PICK v : call' = [call EXCEPT ![s] = [call[s] EXCEPT
          !.at = "SETTLED", !.result = "temporarily_unavailable",
          !.service = v]]
    BY <1>7 DEF LoseAnswer
  <2> QED BY ZenonT(60), <2>1, RowFits DEF Rows, CallRow, StillOld
<1>8. CASE ServeLogout(s)
  BY <1>8, RowFits DEF ServeLogout, Rows, CallRow, StillOld
<1>9. CASE \/ Answered(s) \/ UnauthorizedAgain(s) \/ TakeSession(s)
           \/ LoseSession(s) \/ FinishLogout(s)
  <2>1. call'[s] = Ended(s)
    BY <1>9 DEF Answered, UnauthorizedAgain, TakeSession, LoseSession,
                FinishLogout, End, Rows
  <2> QED BY <1>1, <2>1 DEF StillOld
<1>10. CASE Present(s)
  <2>1. \/ call' = [call EXCEPT ![s] = Ended(s)]
        \/ call' = [call EXCEPT ![s] = [call[s] EXCEPT
             !.at = "SIGNIN", !.own = generation + 1, !.token = call[s].read,
             !.service = "SENT", !.left = FALSE]]
    BY <1>10 DEF Present, End
  <2>2. CASE call' = [call EXCEPT ![s] = Ended(s)]
    BY <1>1, <2>2 DEF Rows, StillOld
  <2>3. CASE call' = [call EXCEPT ![s] = [call[s] EXCEPT
               !.at = "SIGNIN", !.own = generation + 1, !.token = call[s].read,
               !.service = "SENT", !.left = FALSE]]
    BY ZenonT(60), <2>3, RowFits DEF Rows, CallRow, StillOld
  <2> QED BY <2>1, <2>2, <2>3
<1>11. CASE CheckToken(s)
  <2>1. \/ call'[s] = AnswerOf(s, 0)
        \/ call'[s] = [call[s] EXCEPT !.service = "CHECKED"]
    BY <1>11 DEF CheckToken, Rows
  <2>2. CASE call'[s] = AnswerOf(s, 0)
    BY <2>2, AnswerWrites DEF StillOld
  <2>3. CASE call'[s] = [call[s] EXCEPT !.service = "CHECKED"]
    BY <2>3, RowFits DEF CallRow, StillOld
  <2> QED BY <2>1, <2>2, <2>3
<1>12. CASE IssueSession(s)
  <2>1. call'[s] = AnswerOf(s, issued + 1)
    BY <1>12 DEF IssueSession, Rows
  <2> QED BY <1>12, <2>1, AnswerWrites DEF StillOld
<1> QED BY <1>2, <1>3, <1>4, <1>5, <1>6, <1>7, <1>8, <1>9, <1>10, <1>11, <1>12
        DEF SoleStep

\* One row written.
LEMMA LogoutSole ==
    ASSUME LogoutInv, NEW s \in Calls, SoleStep(s)
    PROVE  (AnswersDiffer /\ LeftIsOld)'
<1>1. Rows /\ AnswersDiffer /\ LeftIsOld
  BY DEF LogoutInv
<1>2. \A c \in Calls \ {s} : call'[c] = call[c]
  BY <1>1, SoleRow DEF OneRow, Rows
<1>3. AnswersDiffer'
  <2>1. CASE call'[s].answer \in {0, call[s].answer}
    BY <1>1, <1>2, <2>1 DEF AnswersDiffer
  <2>2. CASE IssueSession(s)
    <3>1. call'[s].answer \in {0, issued + 1, call[s].answer}
      <4>1. call'[s] = AnswerOf(s, issued + 1)
        BY <1>1, <2>2 DEF IssueSession, Rows
      <4> QED BY <1>1, <4>1, AnswerWrites
    <3>2. ASSUME NEW c \in Calls PROVE call[c].answer # issued + 1
      <4>1. call[c].answer \in 0..issued /\ issued \in Nat
        BY <1>1, RowFits DEF Fits
      <4> QED BY <4>1
    <3> QED BY <1>1, <1>2, <3>1, <3>2 DEF AnswersDiffer
  <2> QED BY <1>1, <2>1, <2>2, SoleLeft
<1>4. LeftIsOld'
  <2>1. /\ generation \in Nat
        /\ generation' = generation \/ generation' = generation + 1
    BY <1>1, SoleFlight, RowFits
  <2>2. \A c \in Calls : call[c].generation \in 0..generation
                           /\ call[c].own \in 0..generation
    BY <1>1, RowFits DEF Fits
  <2>3. StillOld(s)
    BY <1>1, SoleLeft
  <2>4. Old(call'[s], generation')
    BY <1>1, <2>1, <2>2, <2>3 DEF LeftIsOld, Old, StillOld
  <2>5. \A c \in Calls \ {s} : Old(call'[c], generation')
    BY <1>1, <1>2, <2>1, <2>2 DEF LeftIsOld, Old
  <2> QED BY <2>4, <2>5 DEF LeftIsOld
<1> QED BY <1>3, <1>4

LEMMA LogoutUnauthorized ==
    ASSUME LogoutInv, NEW s \in Calls, Unauthorized(s)
    PROVE  (AnswersDiffer /\ LeftIsOld)'
<1>1. /\ Rows /\ AnswersDiffer /\ LeftIsOld /\ generation' = generation
      /\ call[s].at = "SENT" /\ call[s].tries = "FIRST"
  BY DEF LogoutInv, Unauthorized
<1>2. call[s].left => call[s].generation # generation
  <2>1. generation \in Nat /\ call[s].generation \in 0..generation
    BY <1>1, RowFits DEF Fits
  <2> QED BY <1>1, <2>1 DEF LeftIsOld, Old
<1>3. PICK r : /\ call' = [call EXCEPT ![s] = r]
               /\ r.answer \in {0, call[s].answer}
               /\ r.left => \/ r.at \in {"JOINED", "SETTLED"}
                            \/ r.at = "REFRESH" /\ call[s].left
                                 /\ call[s].generation = generation
  <2>1. CASE call' = [call EXCEPT ![s] =
                [call[s] EXCEPT !.at = "JOINED", !.joined = flight]]
    <3> DEFINE r == [call[s] EXCEPT !.at = "JOINED", !.joined = flight]
    <3>1. call' = [call EXCEPT ![s] = r] /\ r.answer = call[s].answer /\ r.at = "JOINED"
      BY <1>1, <2>1, RowFits DEF CallRow
    <3> QED BY <3>1
  <2>2. CASE End(s)
    BY <1>1, <2>2, EndedRow DEF End
  <2>3. CASE call' = [call EXCEPT ![s] =
                [call[s] EXCEPT !.at = "SETTLED", !.result = "rejected"]]
    <3> DEFINE r == [call[s] EXCEPT !.at = "SETTLED", !.result = "rejected"]
    <3>1. call' = [call EXCEPT ![s] = r] /\ r.answer = call[s].answer /\ r.at = "SETTLED"
      BY <1>1, <2>3, RowFits DEF CallRow
    <3> QED BY <3>1
  <2>4. CASE /\ IsCurrent(call[s].generation)
             /\ call' = [call EXCEPT ![s] =
                  [call[s] EXCEPT !.at = "REFRESH", !.token = saved, !.service = "SENT"]]
    <3> DEFINE r == [call[s] EXCEPT !.at = "REFRESH", !.token = saved,
                                    !.service = "SENT"]
    <3>1. /\ call' = [call EXCEPT ![s] = r] /\ r.answer = call[s].answer
          /\ r.at = "REFRESH" /\ r.left = call[s].left
          /\ call[s].generation = generation
      BY <1>1, <2>4, RowFits DEF CallRow, IsCurrent
    <3> QED BY <3>1
  <2> QED BY <2>1, <2>2, <2>3, <2>4 DEF Unauthorized
<1>4. call'[s] = r /\ \A c \in Calls \ {s} : call'[c] = call[c]
  BY <1>1, <1>3 DEF Rows
<1>5. AnswersDiffer'
  BY <1>1, <1>3, <1>4 DEF AnswersDiffer
<1>6. Old(call'[s], generation')
  BY <1>2, <1>3, <1>4 DEF Old
<1>7. LeftIsOld'
  BY <1>1, <1>4, <1>6 DEF LeftIsOld
<1> QED BY <1>5, <1>7

LEMMA LogoutSettle ==
    ASSUME LogoutInv, NEW s \in Calls, Settle(s)
    PROVE  (AnswersDiffer /\ LeftIsOld)'
<1>1. /\ Rows /\ AnswersDiffer /\ LeftIsOld /\ generation' = generation
      /\ call[s].at = "SETTLED"
  BY DEF LogoutInv, Settle
<1>2. ASSUME NEW c \in Calls
      PROVE  \/ call'[c] = call[c]
             \/ call'[c].answer = 0 /\ (call'[c].left => call'[c].at = "SENT"
                                          /\ call'[c].tries # "FIRST")
  <2>1. call' = [d \in Calls |->
           IF d \notin Waiters(s) THEN call[d]
           ELSE IF call[s].result = "refreshed" THEN Resumed(d) ELSE Ended(d)]
    BY DEF Settle, Waiters, Resumed
  <2>2. CASE c \in Waiters(s)
    <3>1. call[c].at \in {"SETTLED", "JOINED"}
      BY <1>1, <2>2 DEF Waiters
    <3>2. /\ Resumed(c).at = "SENT" /\ Resumed(c).tries # "FIRST"
          /\ Resumed(c).answer = 0 /\ Ended(c).answer = 0 /\ ~Ended(c).left
      BY <1>1, <3>1, ResumedFits, EndedRow
    <3> QED BY <2>1, <2>2, <3>2
  <2>3. CASE c \notin Waiters(s)
    BY <2>1, <2>3
  <2> QED BY <2>2, <2>3
<1>3. AnswersDiffer'
  BY <1>1, <1>2 DEF AnswersDiffer
<1>4. LeftIsOld'
  BY <1>1, <1>2 DEF LeftIsOld, Old
<1> QED BY <1>3, <1>4

LEMMA LogoutLeft ==
    ASSUME LogoutInv,
           ResetSavedLogin \/ \E s \in Calls : BeginLogout(s)
    PROVE  (AnswersDiffer /\ LeftIsOld)'
<1>1. /\ Rows /\ AnswersDiffer /\ LeftIsOld /\ generation' = generation + 1
  BY DEF LogoutInv, ResetSavedLogin, BeginLogout
<1>2. ASSUME NEW c \in Calls
      PROVE  /\ call'[c].answer \in {0, call[c].answer}
             /\ call'[c].left => /\ call'[c].generation = call[c].generation
                                 /\ call'[c].own = call[c].own
  <2>1. /\ LeftRow(c).answer = call[c].answer /\ LeftRow(c).own = call[c].own
        /\ LeftRow(c).generation = call[c].generation
        /\ Ended(c).answer = 0 /\ ~Ended(c).left
    BY <1>1, RowFits, LeftFits, EndedRow
  <2>2. CASE ResetSavedLogin
    <3>1. call'[c] = LeftRow(c) \/ call'[c] = call[c]
      BY <2>2 DEF ResetSavedLogin, LeftBehind, LeftRow
    <3> QED BY <2>1, <3>1
  <2>3. ASSUME NEW s \in Calls, BeginLogout(s)
        PROVE  /\ call'[c].answer \in {0, call[c].answer}
               /\ call'[c].left => /\ call'[c].generation = call[c].generation
                                   /\ call'[c].own = call[c].own
    <3>1. CASE c # s
      <4>1. call'[c] = LeftRow(c) \/ call'[c] = call[c]
        BY <2>3, <3>1 DEF BeginLogout, LeftBehind, LeftRow
      <4> QED BY <2>1, <4>1
    <3>2. CASE c = s
      <4>1. /\ DOMAIN LeftBehind(s) = Calls /\ LeftBehind(s)[s] = call[s]
        BY DEF LeftBehind
      <4>2. call'[s] = IF call[s].read = 0 THEN Ended(s)
                       ELSE [LeftBehind(s)[s] EXCEPT
                               !.at = "SENT", !.generation = generation + 1,
                               !.own = generation + 1, !.left = FALSE]
        BY <2>3, <4>1 DEF BeginLogout
      <4>3. ~call'[s].left /\ call'[s].answer \in {0, call[s].answer}
        BY <1>1, <2>1, <3>2, <4>1, <4>2, RowFits DEF CallRow
      <4> QED BY <3>2, <4>3
    <3> QED BY <3>1, <3>2
  <2> QED BY <2>2, <2>3
<1>3. AnswersDiffer'
  BY <1>1, <1>2 DEF AnswersDiffer
<1>4. \A c \in Calls : /\ call[c].generation \in 0..generation /\ generation \in Nat
                       /\ call[c].own \in 0..generation
  BY <1>1, RowFits DEF Fits
<1>5. LeftIsOld'
  BY <1>1, <1>2, <1>4 DEF LeftIsOld, Old
<1> QED BY <1>3, <1>5

LEMMA LogoutNext ==
    ASSUME LogoutInv, [SessionNext]_sessionVars PROVE LogoutInv'
<1>1. Rows /\ Joins
  BY DEF LogoutInv
<1>2. (Rows /\ Joins)'
  BY <1>1, RowsKept
<1>3. ASSUME UNCHANGED sessionVars PROVE (AnswersDiffer /\ LeftIsOld)'
  BY <1>3 DEF sessionVars, LogoutInv, AnswersDiffer, LeftIsOld
<1>4. ASSUME Restart PROVE (AnswersDiffer /\ LeftIsOld)'
  <2>1. \A c \in Calls : call'[c].answer = 0 /\ ~call'[c].left
    BY <1>1, <1>4, EndedRow DEF Restart
  <2> QED BY <2>1 DEF AnswersDiffer, LeftIsOld, Old
<1>5. ASSUME Revoke PROVE (AnswersDiffer /\ LeftIsOld)'
  <2>1. call' = call /\ generation' = generation
    BY <1>5 DEF Revoke
  <2> QED BY <2>1 DEF LogoutInv, AnswersDiffer, LeftIsOld
<1>6. \/ \E s \in Calls : \/ SoleStep(s) \/ Unauthorized(s)
                          \/ Settle(s) \/ BeginLogout(s)
      \/ ResetSavedLogin \/ Revoke \/ Restart \/ UNCHANGED sessionVars
  BY DEF SessionNext, SoleStep
<1>7. (AnswersDiffer /\ LeftIsOld)'
  BY <1>3, <1>4, <1>5, <1>6, LogoutSole, LogoutUnauthorized, LogoutSettle,
     LogoutLeft
<1> QED BY <1>2, <1>7 DEF LogoutInv

\* What LogoutIsFinal asks of a step.
NothingComesBack ==
    \A s \in Calls :
      call[s].left /\ call[s].answer # 0 /\ saved # call[s].answer
        => saved' # call[s].answer

LEMMA ComesBack ==
    ASSUME LogoutInv, [SessionNext]_sessionVars PROVE NothingComesBack
<1>1. Rows /\ AnswersDiffer /\ LeftIsOld
  BY DEF LogoutInv
<1>2. ASSUME NEW s \in Calls, TakeAnswer(s) \/ TakeSession(s)
      PROVE  NothingComesBack
  <2>1. call[s].left => saved' \in {0, saved}
    <3>1. CASE TakeAnswer(s)
      <4>1. call[s].left => call[s].generation # generation
        <5>1. generation \in Nat /\ call[s].generation \in 0..generation
          BY <1>1, RowFits DEF Fits
        <5> QED BY <1>1, <3>1, <5>1 DEF LeftIsOld, Old, TakeAnswer
      <4> QED BY <3>1, <4>1 DEF TakeAnswer, Persisted, Cleared, IsCurrent
    <3>2. CASE TakeSession(s)
      <4>1. call[s].left => call[s].own # generation
        <5>1. generation \in Nat /\ call[s].own \in 0..generation
          BY <1>1, RowFits DEF Fits
        <5> QED BY <1>1, <3>2, <5>1 DEF LeftIsOld, Old, TakeSession
      <4> QED BY <3>2, <4>1 DEF TakeSession, Persisted, IsCurrent
    <3> QED BY <1>2, <3>1, <3>2
  <2>2. saved' \in {0, saved, call[s].answer}
    BY <1>2 DEF TakeAnswer, TakeSession, Persisted, Cleared
  <2> QED BY <1>1, <2>1, <2>2 DEF AnswersDiffer, NothingComesBack
<1>3. ASSUME saved' \in {0, saved} PROVE NothingComesBack
  BY <1>3 DEF NothingComesBack
<1>4. \/ \E s \in Calls : TakeAnswer(s) \/ TakeSession(s)
      \/ saved' \in {0, saved}
  <2>1. ASSUME NEW s \in Calls, SoleStep(s)
        PROVE  TakeAnswer(s) \/ TakeSession(s) \/ saved' \in {0, saved}
    BY <2>1 DEF SoleStep, StartRequest, Answered, RetryAuthMe,
         UnauthorizedAgain, LoseAnswer, StartLogin, ReadToken, Present,
         LoseSession, ServeLogout, FinishLogout, CheckToken, IssueSession,
         Cleared
  <2>2. ASSUME NEW s \in Calls, Unauthorized(s) \/ Settle(s) \/ BeginLogout(s)
        PROVE  saved' \in {0, saved}
    BY <2>2 DEF Unauthorized, Settle, BeginLogout, Cleared
  <2>3. ResetSavedLogin \/ Revoke \/ Restart \/ UNCHANGED sessionVars
           => saved' \in {0, saved}
    BY DEF ResetSavedLogin, Revoke, Restart, sessionVars
  <2>4. \/ \E s \in Calls : \/ SoleStep(s) \/ Unauthorized(s)
                            \/ Settle(s) \/ BeginLogout(s)
        \/ ResetSavedLogin \/ Revoke \/ Restart \/ UNCHANGED sessionVars
    BY DEF SessionNext, SoleStep
  <2> QED BY <2>1, <2>2, <2>3, <2>4
<1> QED BY <1>2, <1>3, <1>4

\* What a request or a sign-in begun before a logout or a reset obtains is
\* never saved after it.
THEOREM LoggedOutForGood == SessionSpec => LogoutIsFinal
<1>1. SessionInit => LogoutInv
  BY RowsAtFirst DEF LogoutInv, SessionInit, AnswersDiffer, LeftIsOld, Old, NoCall
<1>2. LogoutInv /\ [SessionNext]_sessionVars => LogoutInv'
  BY LogoutNext
<1>3. LogoutInv /\ [SessionNext]_sessionVars
        => \A s \in Calls :
             call[s].left /\ call[s].answer # 0 /\ saved # call[s].answer
               => saved' # call[s].answer
  BY ComesBack DEF NothingComesBack
<1> QED BY <1>1, <1>2, <1>3, PTL DEF SessionSpec, LogoutIsFinal

-----------------------------------------------------------------------------
(***************************************************************************)
(* A user who signed in stays signed in.                                   *)
(***************************************************************************)

\* No sign-in or sign-out ran beside another call, no answer was lost and
\* nobody revoked sessions.
Calm == ~overlapped /\ ~disturbed

\* A sign-in or sign-out has the app to itself.
Alone(s) == call[s].op \in UserOps => \A c \in Calls \ {s} : call[c].op = "IDLE"

\* The service works only for calls that wait, every call is of the present
\* generation, and an answer on its way is good.
CalmRow(s) ==
    /\ call[s].service # "NONE" => Waiting(s)
    /\ call[s].at \in {"SENT", "HANDLED", "REFRESH", "JOINED", "SETTLED"} =>
         call[s].generation = generation
    /\ call[s].at = "SIGNIN" => call[s].own = generation
    /\ call[s].op = "BIOMETRIC" /\ call[s].at = "READ" => call[s].read = saved
    /\ Waiting(s) /\ call[s].answer # 0 => call[s].answer \in live

Quiet == open /\ ~displaced /\ \A s \in Calls : Alone(s) /\ CalmRow(s)

\* While the user is signed in nobody signs out, no call is at its second
\* attempt without a refreshed token, the refresh under way will be answered,
\* and the one that has an answer has a pair.
SignedRow(s) ==
    /\ call[s].op = "LOGOUT" => call[s].at = "READ"
    /\ call[s].at = "SENT" => call[s].tries # "RETRY"
    /\ call[s].at = "SETTLED" => call[s].result = "refreshed"
    /\ Waiting(s) /\ call[s].op # "LOGIN" /\ call[s].service \in {"SENT", "CHECKED"} =>
         call[s].token = saved /\ saved \in live
    /\ call[s].at = "REFRESH" /\ call[s].service = "DONE" => call[s].answer # 0

HoldsLogin ==
    /\ saved # 0
    /\ saved \in live \/ \E s \in Calls : Waiting(s) /\ call[s].answer \in live

Signed == HoldsLogin /\ \A s \in Calls : SignedRow(s)

CalmInv == FlightInv /\ Quiet /\ (signedIn => Signed)
LoginInv == FlightInv /\ (Calm => Quiet /\ (signedIn => Signed))

\* It never was less calm.
LEMMA CalmBefore ==
    ASSUME [SessionNext]_sessionVars, Calm' PROVE Calm
<1>1. ASSUME NEW s \in Calls, StartRequest(s) PROVE Calm
  BY <1>1 DEF StartRequest, NoteOverlap, Calm
<1>2. ASSUME NEW s \in Calls, Answered(s) PROVE Calm
  BY <1>2 DEF Answered, history, Calm
<1>3. ASSUME NEW s \in Calls, RetryAuthMe(s) PROVE Calm
  BY <1>3 DEF RetryAuthMe, Calm
<1>4. ASSUME NEW s \in Calls, Unauthorized(s) PROVE Calm
  BY <1>4 DEF Unauthorized, Calm
<1>5. ASSUME NEW s \in Calls, UnauthorizedAgain(s) PROVE Calm
  BY <1>5 DEF UnauthorizedAgain, history, Calm
<1>6. ASSUME NEW s \in Calls, TakeAnswer(s) PROVE Calm
  BY <1>6 DEF TakeAnswer, history, Calm
<1>7. ASSUME NEW s \in Calls, LoseAnswer(s) PROVE Calm
  BY <1>7 DEF LoseAnswer, Calm
<1>8. ASSUME NEW s \in Calls, Settle(s) PROVE Calm
  BY <1>8 DEF Settle, history, Calm
<1>9. ASSUME NEW s \in Calls, StartLogin(s) PROVE Calm
  BY <1>9 DEF StartLogin, NoteOverlap, Calm
<1>10. ASSUME NEW s \in Calls, ReadToken(s, "BIOMETRIC") PROVE Calm
  BY <1>10 DEF ReadToken, NoteOverlap, Calm
<1>11. ASSUME NEW s \in Calls, ReadToken(s, "LOGOUT") PROVE Calm
  BY <1>11 DEF ReadToken, NoteOverlap, Calm
<1>12. ASSUME NEW s \in Calls, Present(s) PROVE Calm
  BY <1>12 DEF Present, history, Calm
<1>13. ASSUME NEW s \in Calls, TakeSession(s) PROVE Calm
  BY <1>13 DEF TakeSession, Calm
<1>14. ASSUME NEW s \in Calls, LoseSession(s) PROVE Calm
  BY <1>14 DEF LoseSession, Calm
<1>15. ASSUME NEW s \in Calls, BeginLogout(s) PROVE Calm
  BY <1>15 DEF BeginLogout, Calm
<1>16. ASSUME NEW s \in Calls, ServeLogout(s) PROVE Calm
  BY <1>16 DEF ServeLogout, history, Calm
<1>17. ASSUME NEW s \in Calls, FinishLogout(s) PROVE Calm
  BY <1>17 DEF FinishLogout, history, Calm
<1>18. ASSUME NEW s \in Calls, CheckToken(s) PROVE Calm
  BY <1>18 DEF CheckToken, history, Calm
<1>19. ASSUME NEW s \in Calls, IssueSession(s) PROVE Calm
  BY <1>19 DEF IssueSession, history, Calm
<1>20. CASE ResetSavedLogin
  BY <1>20 DEF ResetSavedLogin, Calm
<1>21. CASE Revoke
  BY <1>21 DEF Revoke, Calm
<1>22. CASE Restart
  BY <1>22 DEF Restart, Calm
<1>23. CASE UNCHANGED sessionVars
  BY <1>23 DEF sessionVars, Calm
<1> QED
  BY <1>1, <1>2, <1>3, <1>4, <1>5, <1>6, <1>7, <1>8, <1>9, <1>10, <1>11,
     <1>12, <1>13, <1>14, <1>15, <1>16, <1>17, <1>18, <1>19, <1>20, <1>21,
     <1>22, <1>23 DEF SessionNext

LEMMA CalmRows ==
    ASSUME CalmInv
    PROVE  /\ Rows /\ Joins /\ RefreshIsFlight /\ open /\ ~displaced
           /\ \A s \in Calls : Alone(s) /\ CalmRow(s)
           /\ signedIn => HoldsLogin /\ \A s \in Calls : SignedRow(s)
BY DEF CalmInv, FlightInv, Quiet, Signed

LEMMA IdleRow ==
    ASSUME CalmInv, NEW c \in Calls, call[c].op = "IDLE"
    PROVE  /\ call[c].at = "NONE" /\ call[c].service = "NONE"
           /\ call[c].answer = 0 /\ ~Waiting(c)
BY CalmRows, RowFits DEF Fits, CalmRow, Waiting

\* No two calls wait for the service.
LEMMA OneWaits ==
    ASSUME CalmInv, NEW s \in Calls, NEW c \in Calls, Waiting(s), Waiting(c)
    PROVE  s = c
<1>1. \A d \in Calls : call[d].at = "SIGNIN" => call[d].op \in UserOps
  BY CalmRows, RowFits DEF Fits, UserOps
<1>2. \A d \in Calls : call[d].op = "IDLE" => ~Waiting(d)
  BY IdleRow
<1>3. \A d \in Calls : call[d].at = "REFRESH" => flight = d
  BY CalmRows DEF RefreshIsFlight, CalmRow
<1> QED BY <1>1, <1>2, <1>3, CalmRows DEF Waiting, Alone

\* A call that starts beside no other.
LEMMA StartsAlone ==
    ASSUME CalmInv, NEW s, NEW op, NoteOverlap(s, op), ~overlapped'
    PROVE  /\ op \in UserOps => \A c \in Calls \ {s} : call[c].op = "IDLE"
           /\ \A c \in Calls \ {s} : call[c].op \notin UserOps
BY DEF NoteOverlap, Others, Busy, UserOps

\* The rows of calls with nothing to wait for.
LEMMA RowsAtRest ==
    ASSUME NEW s \in Calls, call[s].at = "NONE", call[s].op = "IDLE",
           call[s].service = "NONE"
    PROVE  Alone(s) /\ CalmRow(s) /\ SignedRow(s)
BY DEF Alone, CalmRow, SignedRow, Waiting, UserOps

\* One row written, and nothing that the other rows tell of.
LEMMA CalmWritten ==
    ASSUME CalmInv, NEW s \in Calls, open' = open, displaced' = displaced,
           \A c \in Calls \ {s} : call'[c] = call[c],
           generation' = generation \/ \A c \in Calls \ {s} : call[c].op = "IDLE",
           saved' = saved \/ \A c \in Calls \ {s} : call[c].op \notin UserOps,
           \A c \in Calls \ {s} : Waiting(c) /\ call[c].answer # 0 =>
                                    call[c].answer \in live',
           CalmRow(s)',
           call'[s].op \in UserOps => \A c \in Calls \ {s} : call[c].op = "IDLE",
           call'[s].op # "IDLE" => \A c \in Calls \ {s} : call[c].op \notin UserOps
    PROVE  Quiet'
<1>1. ASSUME NEW c \in Calls \ {s} PROVE CalmRow(c)'
  <2>1. CASE call[c].op = "IDLE"
    <3>1. call'[c] = call[c] /\ call[c].at = "NONE" /\ call[c].service = "NONE"
      BY <2>1, IdleRow
    <3> QED BY <2>1, <3>1 DEF CalmRow, Waiting
  <2>2. CASE call[c].op # "IDLE"
    <3>1. call'[c] = call[c] /\ generation' = generation /\ CalmRow(c)
      BY <2>2, CalmRows
    <3> QED BY <3>1 DEF CalmRow, Waiting, UserOps
  <2> QED BY <2>1, <2>2
<1>2. ASSUME NEW c \in Calls PROVE Alone(c)'
  <2>1. CASE c = s
    BY <2>1 DEF Alone
  <2>2. CASE c # s
    BY <2>2, CalmRows DEF Alone
  <2> QED BY <2>1, <2>2
<1> QED BY <1>1, <1>2, CalmRows DEF Quiet

\* One row written, saved and live as they were.
LEMMA SignedWritten ==
    ASSUME CalmInv, signedIn, NEW s \in Calls, saved' = saved, live' = live,
           \A c \in Calls \ {s} : call'[c] = call[c],
           SignedRow(s)',
           Waiting(s) /\ call[s].answer \in live =>
             Waiting(s)' /\ call'[s].answer = call[s].answer
    PROVE  Signed'
<1>1. HoldsLogin /\ \A c \in Calls : SignedRow(c)
  BY CalmRows
<1>2. ASSUME NEW c \in Calls PROVE SignedRow(c)'
  BY <1>1 DEF SignedRow, Waiting
<1>3. HoldsLogin'
  <2>1. CASE saved \in live
    BY <1>1, <2>1 DEF HoldsLogin
  <2>2. ASSUME NEW c \in Calls, Waiting(c), call[c].answer \in live
        PROVE  HoldsLogin'
    <3>1. Waiting(c)' /\ call'[c].answer \in live'
      BY <2>2 DEF Waiting
    <3> QED BY <1>1, <3>1 DEF HoldsLogin
  <2> QED BY <1>1, <2>1, <2>2 DEF HoldsLogin
<1> QED BY <1>2, <1>3 DEF Signed

\* A call that starts, by itself or beside requests.
LEMMA CalmStart ==
    ASSUME CalmInv, NEW s \in Calls, ~overlapped', ~disturbed',
           \/ StartRequest(s) \/ StartLogin(s)
           \/ ReadToken(s, "BIOMETRIC") \/ ReadToken(s, "LOGOUT")
    PROVE  Quiet' /\ (signedIn' => Signed')
<1>1. /\ Rows /\ call[s] = NoCall /\ open' = open /\ displaced' = displaced
      /\ saved' = saved /\ live' = live /\ signedIn' = signedIn
  BY CalmRows DEF StartRequest, StartLogin, ReadToken, Free
<1>2. /\ ~Waiting(s) /\ call[s].answer = 0
  BY <1>1 DEF NoCall, Waiting
<1>3. \A c \in Calls \ {s} : Waiting(c) /\ call[c].answer # 0 => call[c].answer \in live'
  BY <1>1, CalmRows DEF CalmRow
<1>4. CASE StartRequest(s)
  <2> DEFINE r == [call[s] EXCEPT !.op = "REQUEST", !.at = "SENT",
                                  !.generation = generation]
  <2>1. call' = [call EXCEPT ![s] = r]
    BY <1>4 DEF StartRequest
  <2>2. /\ r.op = "REQUEST" /\ r.at = "SENT" /\ r.generation = generation
        /\ r.tries = call[s].tries /\ r.service = call[s].service
    BY <1>1, RowFits DEF CallRow
  <2> HIDE DEF r
  <2>3. call'[s] = r /\ \A c \in Calls \ {s} : call'[c] = call[c]
    BY <1>1, <2>1 DEF Rows
  <2>4. generation' = generation
    BY <1>4 DEF StartRequest
  <2>5. CalmRow(s)' /\ SignedRow(s)' /\ call'[s].op \notin UserOps
    BY <1>1, <2>2, <2>3, <2>4 DEF CalmRow, SignedRow, Waiting, UserOps, NoCall
  <2>6. \A c \in Calls \ {s} : call[c].op \notin UserOps
    BY <1>4, StartsAlone DEF StartRequest
  <2>7. Quiet'
    BY <1>1, <1>3, <2>3, <2>4, <2>5, <2>6, CalmWritten
  <2>8. signedIn => Signed'
    BY <1>1, <1>2, <2>3, <2>5, SignedWritten
  <2> QED BY <1>1, <2>7, <2>8
<1>5. CASE StartLogin(s)
  <2> DEFINE r == [call[s] EXCEPT !.op = "LOGIN", !.at = "SIGNIN",
                                  !.own = generation + 1, !.service = "SENT"]
  <2>1. call' = [call EXCEPT ![s] = r]
    BY <1>5 DEF StartLogin
  <2>2. /\ r.op = "LOGIN" /\ r.at = "SIGNIN" /\ r.own = generation + 1
        /\ r.answer = call[s].answer /\ r.service = "SENT"
    BY <1>1, RowFits DEF CallRow
  <2> HIDE DEF r
  <2>3. call'[s] = r /\ \A c \in Calls \ {s} : call'[c] = call[c]
    BY <1>1, <2>1 DEF Rows
  <2>4. generation' = generation + 1
    BY <1>5 DEF StartLogin
  <2>5. CalmRow(s)' /\ SignedRow(s)'
    BY <1>2, <2>2, <2>3, <2>4 DEF CalmRow, SignedRow, Waiting, UserOps
  <2>6. NoteOverlap(s, "LOGIN")
    BY <1>5 DEF StartLogin
  <2>7. \A c \in Calls \ {s} : call[c].op = "IDLE"
    BY <2>6, StartsAlone DEF UserOps
  <2>8. \A c \in Calls \ {s} : call[c].op \notin UserOps
    BY <2>7 DEF UserOps
  <2>9. Quiet'
    BY <1>1, <1>3, <2>3, <2>5, <2>7, <2>8, CalmWritten
  <2>10. signedIn => Signed'
    BY <1>1, <1>2, <2>3, <2>5, SignedWritten
  <2> QED BY <1>1, <2>9, <2>10
<1>6. ASSUME NEW op \in {"BIOMETRIC", "LOGOUT"}, ReadToken(s, op)
      PROVE  Quiet' /\ (signedIn' => Signed')
  <2> DEFINE r == [call[s] EXCEPT !.op = op, !.at = "READ", !.read = saved]
  <2>1. call' = [call EXCEPT ![s] = r]
    BY <1>6 DEF ReadToken
  <2>2. /\ r.op = op /\ r.at = "READ" /\ r.read = saved
        /\ r.answer = call[s].answer /\ r.service = call[s].service
    BY <1>1, RowFits DEF CallRow
  <2> HIDE DEF r
  <2>3. call'[s] = r /\ \A c \in Calls \ {s} : call'[c] = call[c]
    BY <1>1, <2>1 DEF Rows
  <2>4. generation' = generation
    BY <1>6 DEF ReadToken
  <2>5. CalmRow(s)' /\ SignedRow(s)'
    BY <1>1, <2>2, <2>3, <2>4 DEF CalmRow, SignedRow, Waiting, UserOps, NoCall
  <2>6. NoteOverlap(s, op)
    BY <1>6 DEF ReadToken
  <2>7. \A c \in Calls \ {s} : call[c].op = "IDLE"
    BY <2>6, StartsAlone DEF UserOps
  <2>8. \A c \in Calls \ {s} : call[c].op \notin UserOps
    BY <2>7 DEF UserOps
  <2>9. Quiet'
    BY <1>1, <1>3, <2>3, <2>5, <2>7, <2>8, CalmWritten
  <2>10. signedIn => Signed'
    BY <1>1, <1>2, <2>3, <2>5, SignedWritten
  <2> QED BY <1>1, <2>9, <2>10
<1> QED BY <1>4, <1>5, <1>6

\* A call that ends.
LEMMA CalmEnd ==
    ASSUME CalmInv, NEW s \in Calls, ~overlapped', ~disturbed',
           \/ Answered(s) \/ UnauthorizedAgain(s) \/ FinishLogout(s)
    PROVE  Quiet' /\ (signedIn' => Signed')
<1>1. /\ Rows /\ call' = [call EXCEPT ![s] = Ended(s)]
      /\ open' = open /\ displaced' = displaced /\ generation' = generation
      /\ live' = live /\ signedIn' = signedIn
      /\ call[s].at \in {"SENT", "HANDLED"}
  BY CalmRows DEF Answered, UnauthorizedAgain, FinishLogout, End, history
<1>2. call[s].op # "IDLE" /\ ~Waiting(s) /\ call[s].service = "NONE"
  BY <1>1, CalmRows, IdleRow DEF CalmRow, Waiting
<1>3. /\ call'[s] = Ended(s) /\ \A c \in Calls \ {s} : call'[c] = call[c]
      /\ Ended(s).at = "NONE" /\ Ended(s).op = "IDLE" /\ Ended(s).service = "NONE"
  BY <1>1, <1>2, EndedRow DEF Rows
<1>4. CalmRow(s)' /\ SignedRow(s)' /\ call'[s].op \notin UserOps
  BY <1>3 DEF CalmRow, SignedRow, Waiting, UserOps
<1>5. \A c \in Calls \ {s} : Waiting(c) /\ call[c].answer # 0 => call[c].answer \in live'
  BY <1>1, CalmRows DEF CalmRow
<1>6. \A c \in Calls \ {s} : call[c].op \notin UserOps
  BY <1>2, CalmRows DEF Alone
<1>7. Quiet'
  BY <1>1, <1>3, <1>4, <1>5, <1>6, CalmWritten
<1>8. ASSUME signedIn PROVE Signed'
  <2>1. Answered(s)
    BY <1>8, CalmRows DEF UnauthorizedAgain, FinishLogout, SignedRow
  <2>2. saved' = saved
    BY <2>1 DEF Answered
  <2> QED BY <1>1, <1>2, <1>3, <1>4, <1>8, <2>2, SignedWritten
<1> QED BY <1>1, <1>7, <1>8

\* A 401: the call joins the refresh, or sends the saved token, which is good.
LEMMA CalmUnauthorized ==
    ASSUME CalmInv, NEW s \in Calls, ~overlapped', ~disturbed', Unauthorized(s)
    PROVE  Quiet' /\ (signedIn' => Signed')
<1>1. /\ Rows /\ open' = open /\ generation' = generation /\ saved' = saved
      /\ live' = live /\ signedIn' = signedIn
      /\ call[s].at = "SENT"
  BY CalmRows DEF Unauthorized
<1>2. /\ call[s].generation = generation /\ call[s].service = "NONE"
      /\ ~Waiting(s) /\ call[s].answer = 0 /\ call[s].op # "IDLE"
  BY <1>1, CalmRows, IdleRow, RowFits DEF CalmRow, Waiting, Fits
<1>3. displaced' = displaced
  BY <1>2 DEF Unauthorized, IsCurrent
<1>4. \A c \in Calls \ {s} : Waiting(c) /\ call[c].answer # 0 => call[c].answer \in live'
  BY <1>1, CalmRows DEF CalmRow
<1>5. \A c \in Calls \ {s} : call[c].op \notin UserOps
  BY <1>2, CalmRows DEF Alone
<1>6. ASSUME NEW r, call' = [call EXCEPT ![s] = r], r.op = call[s].op,
             r.at \in {"JOINED", "SETTLED", "REFRESH"},
             r.generation = generation, r.answer = 0,
             r.service = "NONE" \/ r.at = "REFRESH",
             r.service \in {"NONE", "SENT"},
             signedIn => /\ r.at = "REFRESH" => r.token = saved /\ saved \in live
                         /\ r.at # "SETTLED"
      PROVE  Quiet' /\ (signedIn' => Signed')
  <2>1. call'[s] = r /\ \A c \in Calls \ {s} : call'[c] = call[c]
    BY <1>1, <1>6 DEF Rows
  <2>2. CalmRow(s)'
    BY <1>1, <1>6, <2>1 DEF CalmRow, Waiting
  <2>3. call'[s].op \in UserOps => \A c \in Calls \ {s} : call[c].op = "IDLE"
    BY <1>6, <2>1, CalmRows DEF Alone
  <2>4. Quiet'
    BY <1>1, <1>3, <1>4, <1>5, <2>1, <2>2, <2>3, CalmWritten
  <2>5. ASSUME signedIn PROVE Signed'
    <3>1. call[s].op # "LOGOUT"
      BY <1>1, <2>5, CalmRows DEF SignedRow
    <3>2. SignedRow(s)'
      BY <1>1, <1>6, <2>1, <2>5, <3>1 DEF SignedRow, Waiting
    <3> QED BY <1>1, <1>2, <2>1, <2>5, <3>2, SignedWritten
  <2> QED BY <1>1, <2>4, <2>5
<1>7. CASE call' = [call EXCEPT ![s] =
              [call[s] EXCEPT !.at = "JOINED", !.joined = flight]]
  <2> DEFINE r == [call[s] EXCEPT !.at = "JOINED", !.joined = flight]
  <2>1. call' = [call EXCEPT ![s] = r]
    BY <1>7
  <2>2. /\ r.op = call[s].op /\ r.at = "JOINED" /\ r.generation = generation
        /\ r.answer = 0 /\ r.service = "NONE"
    BY <1>1, <1>2, RowFits DEF CallRow
  <2> HIDE DEF r
  <2> QED BY <1>6, <2>1, <2>2
<1>8. ASSUME ~Joinable(s), IsCurrent(call[s].generation), signedIn
      PROVE  saved # 0 /\ saved \in live
  <2>1. flight = Nothing
    <3> SUFFICES ASSUME flight # Nothing PROVE FALSE
      OBVIOUS
    <3>1. flight \in Calls /\ call[flight].at \in {"REFRESH", "SETTLED"}
      BY CalmRows DEF Joins
    <3>2. call[flight].generation = generation
      BY <3>1, CalmRows DEF CalmRow
    <3> QED BY <1>2, <1>8, <3>2 DEF Joinable
  <2>2. \A c \in Calls : ~Waiting(c)
    <3> SUFFICES ASSUME NEW c \in Calls, Waiting(c) PROVE FALSE
      OBVIOUS
    <3>1. CASE call[c].at = "REFRESH"
      <4>1. flight = c
        BY <3>1, CalmRows DEF RefreshIsFlight, CalmRow
      <4> QED BY <2>1, <4>1, SessionAssumption DEF SessionAssumption
    <3>2. CASE call[c].at = "SIGNIN"
      <4>1. call[c].op \in UserOps /\ c # s
        BY <1>1, <3>2, CalmRows, RowFits DEF Fits, UserOps
      <4> QED BY <1>2, <4>1, CalmRows DEF Alone
    <3> QED BY <3>1, <3>2 DEF Waiting
  <2> QED BY <1>8, <2>2, CalmRows DEF HoldsLogin
<1>9. CASE /\ ~Joinable(s) /\ IsCurrent(call[s].generation) /\ saved = 0
           /\ call' = [call EXCEPT ![s] =
                [call[s] EXCEPT !.at = "SETTLED", !.result = "rejected"]]
  <2> DEFINE r == [call[s] EXCEPT !.at = "SETTLED", !.result = "rejected"]
  <2>1. call' = [call EXCEPT ![s] = r]
    BY <1>9
  <2>2. /\ r.op = call[s].op /\ r.at = "SETTLED" /\ r.generation = generation
        /\ r.answer = 0 /\ r.service = "NONE"
    BY <1>1, <1>2, RowFits DEF CallRow
  <2>3. ~signedIn
    BY <1>8, <1>9
  <2> HIDE DEF r
  <2> QED BY <1>6, <2>1, <2>2, <2>3
<1>10. CASE /\ ~Joinable(s) /\ IsCurrent(call[s].generation)
            /\ call' = [call EXCEPT ![s] =
                 [call[s] EXCEPT !.at = "REFRESH", !.token = saved, !.service = "SENT"]]
  <2> DEFINE r == [call[s] EXCEPT !.at = "REFRESH", !.token = saved,
                                  !.service = "SENT"]
  <2>1. call' = [call EXCEPT ![s] = r]
    BY <1>10
  <2>2. /\ r.op = call[s].op /\ r.at = "REFRESH" /\ r.generation = generation
        /\ r.answer = 0 /\ r.service = "SENT" /\ r.token = saved
    BY <1>1, <1>2, RowFits DEF CallRow
  <2> HIDE DEF r
  <2> QED BY <1>6, <1>8, <1>10, <2>1, <2>2
<1> QED BY <1>2, <1>7, <1>9, <1>10 DEF Unauthorized, IsCurrent

\* The refresh has its answer, which for a user who signed in is a pair.
LEMMA CalmTakeAnswer ==
    ASSUME CalmInv, NEW s \in Calls, ~overlapped', ~disturbed', TakeAnswer(s)
    PROVE  Quiet' /\ (signedIn' => Signed')
<1> DEFINE g == call[s].generation
           pair == call[s].answer
           v == CASE pair = 0     -> "rejected"
                  [] IsCurrent(g) -> "refreshed"
                  [] OTHER        -> "stale"
           r == [call[s] EXCEPT !.at = "SETTLED", !.service = "NONE", !.result = v]
<1>1. /\ Rows /\ open' = open /\ displaced' = displaced /\ generation' = generation
      /\ live' = live /\ signedIn' = signedIn
      /\ call[s].at = "REFRESH" /\ call[s].service = "DONE" /\ Waiting(s)
      /\ call' = [call EXCEPT ![s] = r]
      /\ saved' = IF pair # 0 THEN Persisted(g, pair) ELSE Cleared(g)
  BY CalmRows DEF TakeAnswer, history, Waiting
<1>2. /\ g = generation /\ IsCurrent(g) /\ call[s].op # "IDLE"
  BY <1>1, CalmRows, IdleRow DEF CalmRow, IsCurrent
<1>3. /\ r.op = call[s].op /\ r.at = "SETTLED" /\ r.generation = generation
      /\ r.answer = pair /\ r.service = "NONE" /\ r.result = v
  BY <1>1, <1>2, RowFits DEF CallRow
<1>4. pair # 0 => v = "refreshed" /\ saved' = pair /\ pair \in live
  BY <1>1, <1>2, CalmRows DEF Persisted, CalmRow
<1> HIDE DEF r, v
<1>5. call'[s] = r /\ \A c \in Calls \ {s} : call'[c] = call[c]
  BY <1>1 DEF Rows
<1>6. CalmRow(s)'
  BY <1>1, <1>3, <1>5 DEF CalmRow, Waiting
<1>7. \A c \in Calls \ {s} : Waiting(c) /\ call[c].answer # 0 => call[c].answer \in live'
  BY <1>1, CalmRows DEF CalmRow
<1>8. /\ \A c \in Calls \ {s} : call[c].op \notin UserOps
      /\ call'[s].op \in UserOps => \A c \in Calls \ {s} : call[c].op = "IDLE"
  BY <1>2, <1>3, <1>5, CalmRows DEF Alone
<1>9. Quiet'
  BY <1>1, <1>5, <1>6, <1>7, <1>8, CalmWritten
<1>10. ASSUME signedIn PROVE Signed'
  <2>1. pair # 0
    BY <1>1, <1>10, CalmRows DEF SignedRow
  <2>2. saved' \in live' /\ saved' # 0 /\ r.result = "refreshed"
    BY <1>1, <1>3, <1>4, <2>1
  <2>3. SignedRow(s)'
    <3>1. call[s].op # "LOGOUT"
      BY <1>1, <1>10, CalmRows DEF SignedRow
    <3> QED BY <1>3, <1>5, <2>2, <3>1 DEF SignedRow, Waiting
  <2>4. ASSUME NEW c \in Calls \ {s} PROVE SignedRow(c)'
    <3>1. ~Waiting(c) /\ SignedRow(c)
      BY <1>1, <1>10, CalmRows, OneWaits
    <3> QED BY <1>5, <3>1 DEF SignedRow, Waiting
  <2> QED BY <2>2, <2>3, <2>4 DEF Signed, HoldsLogin
<1> QED BY <1>1, <1>9, <1>10

\* Those who waited for the refresh go on.
LEMMA CalmSettle ==
    ASSUME CalmInv, NEW s \in Calls, ~overlapped', ~disturbed', Settle(s)
    PROVE  Quiet' /\ (signedIn' => Signed')
<1>1. /\ Rows /\ open' = open /\ displaced' = displaced /\ generation' = generation
      /\ live' = live /\ signedIn' = signedIn
      /\ call[s].at = "SETTLED"
      /\ saved' = saved \/ saved' = 0
      /\ call[s].result = "refreshed" => saved' = saved
  BY CalmRows DEF Settle, history, Cleared
<1>2. call' = [d \in Calls |->
         IF d \notin Waiters(s) THEN call[d]
         ELSE IF call[s].result = "refreshed" THEN Resumed(d) ELSE Ended(d)]
  BY DEF Settle, Waiters, Resumed
<1>3. ASSUME NEW c \in Waiters(s)
      PROVE  /\ c \in Calls /\ call[c].at \in {"SETTLED", "JOINED"} /\ ~Waiting(c)
             /\ call[c].service = "NONE"
             /\ Resumed(c).at = "SENT" /\ Resumed(c).op = call[c].op
             /\ Resumed(c).generation = generation /\ Resumed(c).service = "NONE"
             /\ Resumed(c).tries = IF saved = 0 THEN "RETRY" ELSE "REFRESHED"
             /\ Ended(c).at = "NONE" /\ Ended(c).op = "IDLE"
             /\ Ended(c).service = "NONE"
  <2>1. c \in Calls /\ call[c].at \in {"SETTLED", "JOINED"}
    BY <1>1 DEF Waiters
  <2>2. ~Waiting(c) /\ call[c].service = "NONE"
    BY <2>1, CalmRows DEF CalmRow, Waiting
  <2> QED BY <1>1, <2>1, <2>2, ResumedFits, EndedRow
<1>4. ASSUME NEW c \in Calls
      PROVE  /\ call'[c].op \in {call[c].op, "IDLE"}
             /\ Waiting(c)' <=> Waiting(c)
             /\ Waiting(c) => call'[c] = call[c]
  <2>1. CASE c \in Waiters(s)
    BY <1>2, <1>3, <2>1 DEF Waiting
  <2>2. CASE c \notin Waiters(s)
    BY <1>2, <2>2 DEF Waiting
  <2> QED BY <2>1, <2>2
<1>5. call[s].op # "IDLE"
  BY <1>1, IdleRow
<1>6. ASSUME NEW c \in Calls PROVE CalmRow(c)'
  <2>1. CASE c \in Waiters(s)
    BY <1>1, <1>2, <1>3, <2>1 DEF CalmRow, Waiting
  <2>2. CASE c \notin Waiters(s)
    <3>1. call'[c] = call[c] /\ c # s
      BY <1>2, <2>2 DEF Waiters
    <3>2. call[c].op # "BIOMETRIC"
      BY <1>5, <3>1, CalmRows DEF Alone, UserOps
    <3> QED BY <1>1, <3>1, <3>2, CalmRows DEF CalmRow, Waiting
  <2> QED BY <2>1, <2>2
<1>7. ASSUME NEW c \in Calls PROVE Alone(c)'
  BY <1>4, CalmRows DEF Alone, UserOps
<1>8. Quiet'
  BY <1>1, <1>6, <1>7, CalmRows DEF Quiet
<1>9. ASSUME signedIn PROVE Signed'
  <2>1. /\ call[s].result = "refreshed" /\ saved' = saved /\ saved # 0
    BY <1>1, <1>9, CalmRows DEF SignedRow, HoldsLogin
  <2>2. ASSUME NEW c \in Calls PROVE SignedRow(c)'
    <3>1. CASE c \in Waiters(s)
      <4>1. call[c].op # "LOGOUT"
        BY <1>3, <1>9, <3>1, CalmRows DEF SignedRow
      <4> QED BY <1>2, <1>3, <2>1, <3>1, <4>1 DEF SignedRow, Waiting
    <3>2. CASE c \notin Waiters(s)
      <4>1. call'[c] = call[c]
        BY <1>2, <3>2
      <4> QED BY <1>1, <1>9, <2>1, <4>1, CalmRows DEF SignedRow, Waiting
    <3> QED BY <3>1, <3>2
  <2>3. HoldsLogin'
    <3>1. CASE saved \in live
      BY <1>1, <2>1, <3>1 DEF HoldsLogin
    <3>2. ASSUME NEW c \in Calls, Waiting(c), call[c].answer \in live
          PROVE  HoldsLogin'
      <4>1. Waiting(c)' /\ call'[c].answer \in live'
        BY <1>1, <1>4, <3>2
      <4> QED BY <2>1, <4>1 DEF HoldsLogin
    <3> QED BY <1>9, <3>1, <3>2, CalmRows DEF HoldsLogin
  <2> QED BY <2>2, <2>3 DEF Signed
<1> QED BY <1>1, <1>8, <1>9

\* The user is present, or is not; either way nobody else is busy.
LEMMA CalmPresent ==
    ASSUME CalmInv, NEW s \in Calls, ~overlapped', ~disturbed', Present(s)
    PROVE  Quiet' /\ (signedIn' => Signed')
<1> DEFINE r == [call[s] EXCEPT !.at = "SIGNIN", !.own = generation + 1,
                                !.token = call[s].read, !.service = "SENT",
                                !.left = FALSE]
<1>1. /\ Rows /\ open' = open /\ displaced' = displaced /\ saved' = saved
      /\ live' = live /\ signedIn' = signedIn
      /\ call[s].op = "BIOMETRIC" /\ call[s].at = "READ"
      /\ \/ /\ generation' = generation + 1
            /\ call' = [call EXCEPT ![s] = r]
         \/ End(s) /\ generation' = generation
  BY CalmRows DEF Present, history
<1>2. /\ ~Waiting(s) /\ call[s].service = "NONE" /\ call[s].read = saved
      /\ call[s].answer = 0
  BY <1>1, CalmRows, RowFits DEF CalmRow, Waiting, Fits
<1>3. \A c \in Calls \ {s} : call[c].op = "IDLE" /\ call[c].op \notin UserOps
  BY <1>1, CalmRows DEF Alone, UserOps
<1>4. \A c \in Calls \ {s} : Waiting(c) /\ call[c].answer # 0 => call[c].answer \in live'
  BY <1>1, CalmRows DEF CalmRow
<1>5. signedIn => saved \in live
  BY <1>2, <1>3, IdleRow, CalmRows DEF HoldsLogin
<1>6. /\ r.op = "BIOMETRIC" /\ r.at = "SIGNIN" /\ r.own = generation + 1
      /\ r.token = saved /\ r.answer = 0 /\ r.service = "SENT"
  BY <1>1, <1>2, RowFits DEF CallRow
<1> HIDE DEF r
<1>7. \A c \in Calls \ {s} : call'[c] = call[c]
  BY <1>1 DEF Rows, End
<1>8. CalmRow(s)' /\ (signedIn => SignedRow(s)')
  <2>1. CASE generation' = generation + 1 /\ call'[s] = r
    BY <1>1, <1>5, <1>6, <2>1 DEF CalmRow, SignedRow, Waiting
  <2>2. CASE call'[s] = Ended(s)
    BY <1>1, <1>2, <2>2, EndedRow DEF CalmRow, SignedRow, Waiting
  <2> QED BY <1>1, <2>1, <2>2 DEF End, Rows
<1>9. Quiet'
  BY <1>1, <1>3, <1>4, <1>7, <1>8, CalmWritten
<1>10. signedIn => Signed'
  BY <1>1, <1>2, <1>7, <1>8, SignedWritten
<1> QED BY <1>1, <1>9, <1>10

\* The sign-in has its answer; only a pair signs the user in.
LEMMA CalmTakeSession ==
    ASSUME CalmInv, NEW s \in Calls, ~overlapped', ~disturbed', TakeSession(s)
    PROVE  Quiet' /\ (signedIn' => Signed')
<1> DEFINE pair == call[s].answer
<1>1. /\ Rows /\ open' = open /\ displaced' = displaced /\ generation' = generation
      /\ live' = live /\ End(s)
      /\ call[s].at = "SIGNIN" /\ call[s].service = "DONE" /\ Waiting(s)
      /\ saved' = IF pair # 0 THEN Persisted(call[s].own, pair) ELSE saved
      /\ signedIn' = (signedIn \/ (pair # 0 /\ IsCurrent(call[s].own)))
  BY CalmRows DEF TakeSession, Waiting
<1>2. call[s].op \in UserOps /\ IsCurrent(call[s].own)
  BY <1>1, CalmRows, RowFits DEF Fits, UserOps, CalmRow, IsCurrent
<1>3. /\ pair # 0 => saved' = pair /\ pair \in live
      /\ pair = 0 => saved' = saved /\ (signedIn' => signedIn)
  BY <1>1, <1>2, CalmRows DEF Persisted, CalmRow
<1>4. \A c \in Calls \ {s} : /\ call[c].op = "IDLE" /\ call[c].at = "NONE"
                             /\ call[c].service = "NONE" /\ ~Waiting(c)
  BY <1>2, CalmRows, IdleRow DEF Alone
<1>5. \A c \in Calls : /\ call'[c].op = "IDLE" /\ call'[c].at = "NONE"
                       /\ call'[c].service = "NONE"
  BY <1>1, <1>4, EndedRow DEF End, Rows
<1>6. \A c \in Calls : (Alone(c) /\ CalmRow(c) /\ SignedRow(c))'
  BY <1>5 DEF Alone, CalmRow, SignedRow, Waiting, UserOps
<1>7. Quiet'
  BY <1>1, <1>6, CalmRows DEF Quiet
<1>8. ASSUME signedIn' PROVE HoldsLogin'
  <2>1. CASE pair # 0
    BY <1>1, <1>3, <2>1 DEF HoldsLogin
  <2>2. CASE pair = 0
    <3>1. 0 \notin live
      BY <1>1 DEF Rows, Numbers
    <3>2. saved \in live /\ saved # 0
      BY <1>3, <1>4, <1>8, <2>2, <3>1, CalmRows DEF HoldsLogin
    <3> QED BY <1>1, <1>3, <2>2, <3>2 DEF HoldsLogin
  <2> QED BY <2>1, <2>2
<1> QED BY <1>6, <1>7, <1>8 DEF Signed

\* A logout and a reset, with nobody else busy: the user is not signed in.
LEMMA CalmBeginLogout ==
    ASSUME CalmInv, NEW s \in Calls, ~overlapped', ~disturbed', BeginLogout(s)
    PROVE  Quiet' /\ (signedIn' => Signed')
<1>1. /\ Rows /\ open' = open /\ displaced' = displaced /\ live' = live
      /\ ~signedIn' /\ generation' = generation + 1
      /\ call[s].op = "LOGOUT" /\ call[s].at = "READ"
  BY CalmRows DEF BeginLogout
<1>2. \A c \in Calls \ {s} : /\ call[c].op = "IDLE" /\ call[c].at = "NONE"
                             /\ call[c].service = "NONE" /\ ~Waiting(c)
  BY <1>1, CalmRows, IdleRow DEF Alone, UserOps
<1>3. call[s].service = "NONE" /\ call[s].answer = 0
  BY <1>1, CalmRows, RowFits DEF CalmRow, Waiting, Fits
<1>4. LeftBehind(s) = call
  BY <1>1, <1>2 DEF LeftBehind, Busy, Rows
<1> DEFINE r == [call[s] EXCEPT !.at = "SENT", !.generation = generation + 1,
                                !.own = generation + 1, !.left = FALSE]
<1>5. call' = [call EXCEPT ![s] = IF call[s].read = 0 THEN Ended(s) ELSE r]
  BY <1>4 DEF BeginLogout
<1>6. /\ r.op = "LOGOUT" /\ r.at = "SENT" /\ r.generation = generation + 1
      /\ r.service = "NONE"
  BY <1>1, <1>3, RowFits DEF CallRow
<1> HIDE DEF r
<1>7. /\ call'[s] \in {Ended(s), r}
      /\ \A c \in Calls \ {s} : call'[c] = call[c]
  BY <1>1, <1>5 DEF Rows
<1>8. CalmRow(s)'
  <2>1. CASE call'[s] = Ended(s)
    BY <1>1, <1>3, <2>1, EndedRow DEF CalmRow, Waiting
  <2>2. CASE call'[s] = r
    BY <1>1, <1>6, <2>2 DEF CalmRow, Waiting
  <2> QED BY <1>7, <2>1, <2>2
<1>9. \A c \in Calls \ {s} : (Alone(c) /\ CalmRow(c))'
  BY <1>2, <1>7 DEF Alone, CalmRow, Waiting, UserOps
<1>10. Alone(s)'
  BY <1>2, <1>7 DEF Alone
<1> QED BY <1>1, <1>8, <1>9, <1>10, CalmRows DEF Quiet

LEMMA CalmServeLogout ==
    ASSUME CalmInv, NEW s \in Calls, ~overlapped', ~disturbed', ServeLogout(s)
    PROVE  Quiet' /\ (signedIn' => Signed')
<1> DEFINE r == [call[s] EXCEPT !.at = "HANDLED"]
<1>1. /\ Rows /\ open' = open /\ displaced' = displaced /\ generation' = generation
      /\ saved' = saved /\ signedIn' = signedIn
      /\ call[s].op = "LOGOUT" /\ call[s].at = "SENT"
      /\ call' = [call EXCEPT ![s] = r]
  BY CalmRows, RowFits DEF ServeLogout, history, CallRow
<1>2. \A c \in Calls \ {s} : /\ call[c].op = "IDLE" /\ ~Waiting(c)
                             /\ call[c].op \notin UserOps
  BY <1>1, CalmRows, IdleRow DEF Alone, UserOps
<1>3. /\ call[s].service = "NONE" /\ call[s].generation = generation
      /\ ~signedIn
  BY <1>1, CalmRows DEF CalmRow, Waiting, SignedRow
<1>4. /\ r.op = "LOGOUT" /\ r.at = "HANDLED" /\ r.generation = generation
      /\ r.service = "NONE"
  BY <1>1, <1>3, RowFits DEF CallRow
<1> HIDE DEF r
<1>5. call'[s] = r /\ \A c \in Calls \ {s} : call'[c] = call[c]
  BY <1>1 DEF Rows
<1>6. CalmRow(s)'
  BY <1>1, <1>4, <1>5 DEF CalmRow, Waiting
<1>7. Quiet'
  BY <1>1, <1>2, <1>5, <1>6, CalmWritten
<1> QED BY <1>1, <1>3, <1>7

\* The service has found the token good, or the login wrong.
LEMMA CalmCheckToken ==
    ASSUME CalmInv, NEW s \in Calls, ~overlapped', ~disturbed', CheckToken(s)
    PROVE  Quiet' /\ (signedIn' => Signed')
<1>1. /\ Rows /\ open' = open /\ displaced' = displaced /\ generation' = generation
      /\ saved' = saved /\ live' = live /\ signedIn' = signedIn
      /\ call[s].service = "SENT"
  BY CalmRows DEF CheckToken, history
<1>2. Waiting(s) /\ call[s].answer = 0 /\ call[s].op # "IDLE" /\ 0 \notin live
  BY <1>1, CalmRows, IdleRow, RowFits DEF CalmRow, Fits, Rows, Numbers
<1>3. \A c \in Calls \ {s} : Waiting(c) /\ call[c].answer # 0 => call[c].answer \in live'
  BY <1>1, CalmRows DEF CalmRow
<1>4. ASSUME NEW r, call' = [call EXCEPT ![s] = r], r.op = call[s].op,
             r.at = call[s].at, r.generation = call[s].generation,
             r.own = call[s].own, r.answer = 0, r.token = call[s].token,
             signedIn => \/ r.service = "CHECKED"
                         \/ r.service = "DONE" /\ r.at # "REFRESH"
      PROVE  Quiet' /\ (signedIn' => Signed')
  <2>1. call'[s] = r /\ \A c \in Calls \ {s} : call'[c] = call[c]
    BY <1>1, <1>4 DEF Rows
  <2>2. CalmRow(s)'
    BY <1>1, <1>2, <1>4, <2>1, CalmRows DEF CalmRow, Waiting
  <2>3. /\ \A c \in Calls \ {s} : call[c].op \notin UserOps
        /\ call'[s].op \in UserOps => \A c \in Calls \ {s} : call[c].op = "IDLE"
    BY <1>2, <1>4, <2>1, CalmRows DEF Alone
  <2>4. Quiet'
    BY <1>1, <1>3, <2>1, <2>2, <2>3, CalmWritten
  <2>5. ASSUME signedIn PROVE Signed'
    <3>1. SignedRow(s)'
      BY <1>1, <1>2, <1>4, <2>1, <2>5, CalmRows DEF SignedRow, Waiting
    <3> QED BY <1>1, <1>2, <2>1, <2>5, <3>1, SignedWritten
  <2> QED BY <1>1, <2>4, <2>5
<1>5. CASE call' = [call EXCEPT ![s].service = "CHECKED"]
  <2> DEFINE r == [call[s] EXCEPT !.service = "CHECKED"]
  <2>1. call' = [call EXCEPT ![s] = r]
    BY <1>5
  <2>2. /\ r.op = call[s].op /\ r.at = call[s].at
        /\ r.generation = call[s].generation /\ r.own = call[s].own
        /\ r.answer = 0 /\ r.token = call[s].token /\ r.service = "CHECKED"
    BY <1>1, <1>2, RowFits DEF CallRow
  <2> HIDE DEF r
  <2> QED BY <1>4, <2>1, <2>2
<1>6. CASE /\ ~Acceptable(s) \/ call[s].op = "LOGIN"
           /\ call' = [call EXCEPT ![s] = AnswerOf(s, 0)]
  <2> DEFINE r == [call[s] EXCEPT !.service = "DONE", !.answer = 0]
  <2>1. call' = [call EXCEPT ![s] = r]
    BY <1>2, <1>6 DEF AnswerOf
  <2>2. /\ r.op = call[s].op /\ r.at = call[s].at
        /\ r.generation = call[s].generation /\ r.own = call[s].own
        /\ r.answer = 0 /\ r.token = call[s].token /\ r.service = "DONE"
    BY <1>1, <1>2, RowFits DEF CallRow
  <2>3. signedIn => call[s].op = "LOGIN"
    BY <1>1, <1>2, <1>6, CalmRows DEF Acceptable, SignedRow
  <2>4. call[s].op = "LOGIN" => call[s].at = "SIGNIN"
    BY <1>2, CalmRows, RowFits DEF Waiting, Fits
  <2> HIDE DEF r
  <2> QED BY <1>4, <2>1, <2>2, <2>3, <2>4
<1> QED BY <1>5, <1>6 DEF CheckToken

\* A pair is issued, to the one call that waits.
LEMMA CalmIssueSession ==
    ASSUME CalmInv, NEW s \in Calls, ~overlapped', ~disturbed', IssueSession(s)
    PROVE  Quiet' /\ (signedIn' => Signed')
<1>1. /\ Rows /\ open' = open /\ displaced' = displaced /\ generation' = generation
      /\ saved' = saved /\ signedIn' = signedIn
      /\ live' = (live \ {call[s].token}) \cup {issued + 1}
      /\ call[s].service = "CHECKED" /\ issued \in Nat
      /\ call' = [call EXCEPT ![s] = AnswerOf(s, issued + 1)]
  BY CalmRows, RowFits DEF IssueSession, history
<1>2. Waiting(s) /\ call[s].op # "IDLE"
  BY <1>1, CalmRows, IdleRow DEF CalmRow
<1>3. \A c \in Calls \ {s} : ~Waiting(c)
  BY <1>2, OneWaits
<1> DEFINE r == [call[s] EXCEPT !.service = "DONE", !.answer = issued + 1]
<1>4. call' = [call EXCEPT ![s] = r]
  BY <1>1, <1>2 DEF AnswerOf
<1>5. /\ r.op = call[s].op /\ r.at = call[s].at
      /\ r.generation = call[s].generation /\ r.own = call[s].own
      /\ r.answer = issued + 1 /\ r.service = "DONE"
  BY <1>1, RowFits DEF CallRow
<1> HIDE DEF r
<1>6. call'[s] = r /\ \A c \in Calls \ {s} : call'[c] = call[c]
  BY <1>1, <1>4 DEF Rows
<1>7. CalmRow(s)' /\ Waiting(s)' /\ call'[s].answer \in live'
  BY <1>1, <1>2, <1>5, <1>6, CalmRows DEF CalmRow, Waiting
<1>8. /\ \A c \in Calls \ {s} : call[c].op \notin UserOps
      /\ call'[s].op \in UserOps => \A c \in Calls \ {s} : call[c].op = "IDLE"
  BY <1>2, <1>5, <1>6, CalmRows DEF Alone
<1>9. Quiet'
  BY <1>1, <1>3, <1>6, <1>7, <1>8, CalmWritten
<1>10. ASSUME signedIn PROVE Signed'
  <2>1. HoldsLogin'
    BY <1>1, <1>7, <1>10, CalmRows DEF HoldsLogin
  <2>2. issued + 1 # 0
    BY <1>1
  <2>3. SignedRow(s)'
    BY <1>1, <1>2, <1>5, <1>6, <1>10, <2>2, CalmRows DEF SignedRow, Waiting
  <2>4. ASSUME NEW c \in Calls \ {s} PROVE SignedRow(c)'
    BY <1>1, <1>3, <1>6, <1>10, CalmRows DEF SignedRow, Waiting
  <2> QED BY <2>1, <2>3, <2>4 DEF Signed
<1> QED BY <1>1, <1>9, <1>10

LEMMA CalmReset ==
    ASSUME CalmInv, ~overlapped', ~disturbed', ResetSavedLogin
    PROVE  Quiet' /\ (signedIn' => Signed')
<1>1. /\ Rows /\ open' = open /\ displaced' = displaced /\ ~signedIn'
      /\ call' = LeftBehind(Nothing)
      /\ overlapped' = (overlapped \/ Others(Nothing) # {})
  BY CalmRows DEF ResetSavedLogin
<1>2. \A c \in Calls : call[c].op = "IDLE"
  BY <1>1, SessionAssumption DEF Others, Busy, SessionAssumption
<1>3. \A c \in Calls : call'[c] = call[c]
  BY <1>1, <1>2 DEF LeftBehind, Busy
<1>4. \A c \in Calls : /\ call'[c].op = "IDLE" /\ call'[c].at = "NONE"
                       /\ call'[c].service = "NONE"
  BY <1>2, <1>3, IdleRow
<1>5. \A c \in Calls : (Alone(c) /\ CalmRow(c))'
  BY <1>4 DEF Alone, CalmRow, Waiting, UserOps
<1> QED BY <1>1, <1>5, CalmRows DEF Quiet

LEMMA CalmRestart ==
    ASSUME CalmInv, ~overlapped', ~disturbed', Restart
    PROVE  Quiet' /\ (signedIn' => Signed')
<1>1. /\ Rows /\ open' = open /\ displaced' = displaced /\ signedIn' = signedIn
      /\ saved' = saved /\ live' = live
      /\ call' = [s \in Calls |-> Ended(s)]
      /\ disturbed' = (disturbed \/ \E s \in Calls : Waiting(s))
  BY CalmRows DEF Restart
<1>2. \A c \in Calls : ~Waiting(c) /\ call[c].service = "NONE"
  BY <1>1, CalmRows DEF CalmRow
<1>3. \A c \in Calls : /\ call'[c].op = "IDLE" /\ call'[c].at = "NONE"
                       /\ call'[c].service = "NONE"
  BY <1>1, <1>2, EndedRow
<1>4. \A c \in Calls : (Alone(c) /\ CalmRow(c) /\ SignedRow(c))'
  BY <1>3 DEF Alone, CalmRow, SignedRow, Waiting, UserOps
<1>5. Quiet'
  BY <1>1, <1>4, CalmRows DEF Quiet
<1>6. signedIn => HoldsLogin'
  BY <1>1, <1>2, CalmRows DEF HoldsLogin
<1> QED BY <1>1, <1>4, <1>5, <1>6 DEF Signed

\* While all stays calm.
LEMMA CalmNext ==
    ASSUME CalmInv, [SessionNext]_sessionVars, ~overlapped', ~disturbed'
    PROVE  Quiet' /\ (signedIn' => Signed')
<1>1. ASSUME UNCHANGED sessionVars PROVE Quiet' /\ (signedIn' => Signed')
  BY <1>1 DEF sessionVars, CalmInv, Quiet, Alone, CalmRow, Waiting, Signed,
     HoldsLogin, SignedRow
<1>2. ASSUME NEW s \in Calls,
             RetryAuthMe(s) \/ LoseAnswer(s) \/ LoseSession(s)
      PROVE  FALSE
  BY <1>2 DEF RetryAuthMe, LoseAnswer, LoseSession
<1>3. Revoke => FALSE
  BY DEF Revoke
<1>4. \/ \E s \in Calls :
           \/ StartRequest(s) \/ Answered(s) \/ RetryAuthMe(s)
           \/ Unauthorized(s) \/ UnauthorizedAgain(s)
           \/ TakeAnswer(s) \/ LoseAnswer(s) \/ Settle(s)
           \/ StartLogin(s) \/ ReadToken(s, "BIOMETRIC") \/ ReadToken(s, "LOGOUT")
           \/ Present(s) \/ TakeSession(s) \/ LoseSession(s)
           \/ BeginLogout(s) \/ ServeLogout(s) \/ FinishLogout(s)
           \/ CheckToken(s) \/ IssueSession(s)
      \/ ResetSavedLogin \/ Revoke \/ Restart \/ UNCHANGED sessionVars
  BY DEF SessionNext
<1> QED BY <1>1, <1>2, <1>3, <1>4, CalmStart, CalmEnd, CalmUnauthorized,
           CalmTakeAnswer, CalmSettle, CalmPresent, CalmTakeSession,
           CalmBeginLogout, CalmServeLogout, CalmCheckToken, CalmIssueSession,
           CalmReset, CalmRestart

LEMMA LoginNext ==
    ASSUME LoginInv, [SessionNext]_sessionVars PROVE LoginInv'
<1>1. FlightInv'
  BY FlightNext DEF LoginInv
<1>2. ASSUME Calm' PROVE Quiet' /\ (signedIn' => Signed')
  <2>1. CalmInv
    BY <1>2, CalmBefore DEF LoginInv, CalmInv
  <2>2. ~overlapped' /\ ~disturbed'
    BY <1>2 DEF Calm
  <2> QED BY <2>1, <2>2, CalmNext
<1> QED BY <1>1, <1>2 DEF LoginInv

\* A user who signed in holds a pair whose refresh token is good, or its
\* successor is on the way, while sign-ins and sign-outs do not overlap other
\* calls, every answer arrives and nobody revokes sessions.
THEOREM StaysSignedIn == SessionSpec => []LoginSurvives
<1>1. SessionInit => LoginInv
  <2> SUFFICES ASSUME SessionInit PROVE LoginInv
    OBVIOUS
  <2>1. FlightInv
    BY RowsAtFirst DEF FlightInv, SessionInit, RefreshIsFlight, SingleFlight, NoCall
  <2>2. \A s \in Calls : call[s].at = "NONE" /\ call[s].op = "IDLE"
                           /\ call[s].service = "NONE"
    BY DEF SessionInit, NoCall
  <2>3. Quiet /\ ~signedIn
    BY <2>2, RowsAtRest DEF SessionInit, Quiet
  <2> QED BY <2>1, <2>3 DEF LoginInv
<1>2. LoginInv /\ [SessionNext]_sessionVars => LoginInv'
  BY LoginNext
<1>3. LoginInv => LoginSurvives
  BY DEF LoginInv, Calm, Signed, HoldsLogin, LoginSurvives
<1> QED BY <1>1, <1>2, <1>3, PTL DEF SessionSpec
=============================================================================
