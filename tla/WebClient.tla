------------------------------ MODULE WebClient ------------------------------
(***************************************************************************)
(* WebClient.request of packages/web-client/client.ts: fetch, the          *)
(* classification of what comes back, the body, a timeout per attempt and  *)
(* retries.  The server is external; a request that timed out may still be *)
(* carried out.                                                            *)
(***************************************************************************)
EXTENDS Integers, Sequences, FiniteSets

CONSTANT MaxAttempts   \* bound: the retry attempts that are configured

NoStatus == 0
RETRYABLE_STATUS_CODES == {408, 429, 503}   \* 500, 502 and 504 are like 503
Statuses == RETRYABLE_STATUS_CODES \cup {200, 404}
IsOk(status) == status = 200

VARIABLES config,    \* [attempts, when]: of the client or of the request
          phase,     \* "none", "fetch", "body", "failed", "delay", "done"
          attempt,   \* attempts begun
          error,     \* of the last attempt: an HttpError or a raw one
          wait,      \* the delay before the next attempt: "retryAfter" or "backoff"
          answers,   \* history: what came of each attempt
          result     \* "none", "response", or the error the caller gets

vars == <<config, phase, attempt, error, wait, answers, result>>

HttpError(status, retryAfter, retryable) ==
    [kind |-> "http", status |-> status, isRetryable |-> retryable,
     isRateLimited |-> status = 429, retryAfter |-> retryAfter]
NoError == [kind |-> "none"]
\* What is thrown behind mapErr is not wrapped.
RawError == [kind |-> "raw"]

-----------------------------------------------------------------------------
(* Options: a request's options come before those of the client. *)

Default == [attempts |-> 3, when |-> "isRetryable"]
Given == [attempts : 1..MaxAttempts, when : {"isRetryable", "always"}]

Init == /\ config = Default /\ phase = "none" /\ attempt = 0
        /\ error = NoError /\ wait = "none" /\ answers = <<>> /\ result = "none"

\* withRetry merges field by field; so do the options of a request.
withRetry == /\ phase = "none"
             /\ \E given \in Given :
                   \E attempts \in {given.attempts, config.attempts}, when \in {given.when, config.when} :
                      config' = [attempts |-> attempts, when |-> when]
             /\ UNCHANGED <<phase, attempt, error, wait, answers, result>>

request == /\ phase = "none"
           /\ phase' = "fetch" /\ attempt' = 1
           /\ UNCHANGED <<config, error, wait, answers, result>>

-----------------------------------------------------------------------------
(* One attempt. *)

Fails(e, answer) == /\ phase' = "failed" /\ error' = e
                    /\ answers' = Append(answers, answer)
                    /\ UNCHANGED <<config, attempt, wait, result>>

\* A Retry-After header gives seconds, or a date that may have passed.
parseRetryAfter == {"none", "zero", "seconds"}

\* Fault: the header is read for no status but 200.
Responds_NoRetryAfter ==
    /\ phase = "fetch"
    /\ \E status \in Statuses :
          IF IsOk(status)
          THEN /\ phase' = "body"
               /\ UNCHANGED <<config, attempt, error, wait, answers, result>>
          ELSE \E retryAfter \in parseRetryAfter :
                  Fails(HttpError(status, "none", status \in RETRYABLE_STATUS_CODES),
                        [status |-> status, retryAfter |-> retryAfter])

\* The server answers: its body is read next, or the status is an error.
Responds ==
    /\ phase = "fetch"
    /\ \E status \in Statuses :
          IF IsOk(status)
          THEN /\ phase' = "body"
               /\ UNCHANGED <<config, attempt, error, wait, answers, result>>
          ELSE \E retryAfter \in parseRetryAfter :
                  Fails(HttpError(status, retryAfter, status \in RETRYABLE_STATUS_CODES),
                        [status |-> status, retryAfter |-> retryAfter])

\* fetch rejects: mapErr makes an HttpError of it that calls itself retryable.
NetworkFails == /\ phase = "fetch"
                /\ Fails(HttpError(NoStatus, "none", TRUE), [status |-> NoStatus, retryAfter |-> "none"])

\* The timer fires before the response or its body is there.
TimesOut == /\ phase \in {"fetch", "body"}
            /\ Fails(HttpError(NoStatus, "none", TRUE), [status |-> NoStatus, retryAfter |-> "none"])

\* The body is read, or does not parse as what its content type says.
BodySettles ==
    /\ phase = "body"
    /\ \/ /\ phase' = "done" /\ result' = "response"
          /\ answers' = Append(answers, [status |-> 200, retryAfter |-> "none"])
          /\ UNCHANGED <<config, attempt, error, wait>>
       \/ Fails(RawError, [status |-> 200, retryAfter |-> "none"])

-----------------------------------------------------------------------------
(* The retry loop. *)

\* The default of when: it looks at the status, not at isRetryable.
isRetryable(e) == e.isRateLimited \/ e.status \in RETRYABLE_STATUS_CODES

\* when() throws on an error that is not an HttpError, and that ends the loop.
MayRetry == \/ config.when = "always"
            \/ error.kind = "http" /\ isRetryable(error)

\* The delay asks a raw error for details it does not have: the loop throws.
delayFails == error.kind = "raw"

delay == IF error.isRateLimited /\ error.retryAfter = "seconds" THEN "retryAfter" ELSE "backoff"

AttemptFails ==
    /\ phase = "failed"
    /\ IF MayRetry /\ attempt < config.attempts /\ ~delayFails
       THEN /\ phase' = "delay" /\ wait' = delay
            /\ UNCHANGED result
       ELSE /\ phase' = "done" /\ result' = "error"
            /\ UNCHANGED wait
    /\ UNCHANGED <<config, attempt, error, answers>>

DelayEnds == /\ phase = "delay"
             /\ phase' = "fetch" /\ attempt' = attempt + 1
             /\ UNCHANGED <<config, error, wait, answers, result>>

\* The signal is aborted: the caller is rejected; a delay or a request ends with it.
Abort == /\ phase \in {"fetch", "body", "delay"}
         /\ phase' = "done" /\ result' = "error"
         /\ UNCHANGED <<config, attempt, error, wait, answers>>

Next == withRetry \/ request \/ Responds \/ NetworkFails \/ TimesOut \/ BodySettles
        \/ AttemptFails \/ DelayEnds \/ Abort

Spec == Init /\ [][Next]_vars

-----------------------------------------------------------------------------
TypeOK == /\ phase \in {"none", "fetch", "body", "failed", "delay", "done"}
          /\ config \in [attempts : 1..MaxAttempts \cup {3}, when : {"isRetryable", "always"}]
          /\ attempt \in 0..config.attempts
          /\ Len(answers) <= attempt

\* A server that limits the rate is asked again only after the time it has given;
\* and with the default options no answer that is final is asked for again.
ServerIsRespected ==
    \A n \in 1..Len(answers) :
        /\ n = attempt /\ phase = "delay" /\ answers[n].status = 429
              /\ answers[n].retryAfter = "seconds" => wait = "retryAfter"
        /\ n < attempt /\ config.when = "isRetryable"
              => answers[n].status \in RETRYABLE_STATUS_CODES

\* "Network errors may be transient, so retry by default" (client.ts:166): an error
\* that says it is retryable is not the result while attempts are left.
TransientErrorsAreRetried ==
    (phase = "done" /\ result = "error" /\ Len(answers) = attempt /\ error.kind = "http")
        => (error.isRetryable => attempt >= config.attempts)

=============================================================================
