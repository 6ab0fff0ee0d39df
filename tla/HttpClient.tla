----------------------------- MODULE HttpClient -----------------------------
(***************************************************************************)
(* BaseHttpClient (model_router/base_http_client.py) with its three        *)
(* subclasses, and the RuntimeCredentialProvider it asks for keys.  Each   *)
(* thread is in at most one call.  The provider's service is outside: it   *)
(* takes a request or refuses it, and its answers may be lost or broken.   *)
(* Keys are set, revoked and replaced while calls are under way.           *)
(***************************************************************************)
EXTENDS Naturals, Sequences

CONSTANTS
    Thread,
    Called,         \* the clients called, of those FallbackRouter creates
    Key,            \* API keys
    NoKey,          \* no key
    MAX_RETRIES,    \* max_retries of the clients; all are built with 3
    Bodies,         \* the streams a service may send: sequences of lines
    MaxChanges      \* bound: how often keys are set or revoked

\* _get_provider_name, and the clients FallbackRouter creates.
Provider(m) == IF m = "deepseek_pro" THEN "deepseek" ELSE m
Providers == {Provider(m) : m \in Called}

\* A line of a stream: content or a finish reason, JSON that has no choices,
\* text that is no JSON, a line that does not start with "data: ", the end.
Line == {"chunk", "no choices", "junk", "comment", "done"}

\* The ModelClientErrors a service may get over: 429; unreachable, or 5xx.
Transient == {"RateLimitError", "ModelUnavailableError"}

ASSUME HttpAssumption ==
    /\ Called \subseteq {"kimi", "deepseek", "deepseek_pro", "glm"}
    /\ NoKey \notin Key
    /\ MAX_RETRIES \in Nat \ {0}
    /\ Bodies \subseteq Seq(Line)
    /\ MaxChanges \in Nat

VARIABLES
    overrides,  \* the api_key of _config_overrides for each provider, or None
    environ,    \* the key in the environment, or None
    accepted,   \* external: the keys each service accepts
    changes,    \* number of changes to environ and accepted
    call,       \* the call each thread is in
    lost,       \* ghost: requests of the call whose answer never came
    charged,    \* ghost: requests of the call the service has carried out
    outcome     \* how the last call of each thread ended

keyVars == <<overrides, environ, accepted, changes>>
httpVars == <<keyVars, call, lost, charged, outcome>>

Idle == [stage |-> "idle"]

HttpInit ==
    /\ overrides \in [Providers -> Key \union {NoKey}]
    /\ environ \in [Providers -> Key \union {NoKey}]
    /\ accepted \in [Providers -> SUBSET Key]
    /\ changes = 0
    /\ call = [t \in Thread |-> Idle]
    /\ lost = [t \in Thread |-> 0]
    /\ charged = [t \in Thread |-> 0]
    /\ outcome = [t \in Thread |-> [kind |-> "none"]]
-----------------------------------------------------------------------------
\* get_api_key: the override, else the environment, which is read each time.
\* With None it raises CredentialNotFoundError.
get_api_key(p) == IF overrides[p] # NoKey THEN overrides[p] ELSE environ[p]

is_available(p) == get_api_key(p) # NoKey

Stage(t) == call[t].stage

\* The call of t ends: it returns, or raises an exception of this kind.
EndCall(t, kind) ==
    /\ call' = [call EXCEPT ![t] = Idle]
    /\ outcome' = [outcome EXCEPT ![t] = [kind |-> kind, call |-> call[t]]]

Begin(t, m, stage) ==
    LET new == [stage |-> stage, client |-> m, attempt |-> 1,
                key |-> get_api_key(Provider(m)), body |-> <<>>, read |-> 0,
                received |-> <<>>]
    IN  /\ Stage(t) = "idle"
        /\ lost' = [lost EXCEPT ![t] = 0]
        /\ charged' = [charged EXCEPT ![t] = 0]
        /\ IF is_available(Provider(m))
           THEN /\ call' = [call EXCEPT ![t] = new]
                /\ outcome' = [outcome EXCEPT ![t] = [kind |-> "none"]]
           ELSE /\ outcome' = [outcome EXCEPT ![t] = [kind |-> "CredentialNotFoundError"]]
                /\ UNCHANGED call
        /\ UNCHANGED keyVars

\* complete, stream_complete (up to its first request) and health_check: the
\* headers are built once, so all attempts of a call use one key.
complete(t, m) == Begin(t, m, "request")
stream_complete(t, m) == Begin(t, m, "opening")
health_check(t, m) == Begin(t, m, "probe")

\* Fault: the last attempt is not made.
FaultyRetry(t, error) ==
    IF call[t].attempt + 1 < MAX_RETRIES
    THEN /\ call' = [call EXCEPT ![t].stage = "pause"]
         /\ UNCHANGED outcome
    ELSE EndCall(t, error)

\* The next attempt comes after a pause, unless this was the last.
Retry(t, error) ==
    IF call[t].attempt < MAX_RETRIES
    THEN /\ call' = [call EXCEPT ![t].stage = "pause"]
         /\ UNCHANGED outcome
    ELSE EndCall(t, error)

\* Fault: attempts are not counted.
FaultyNextAttempt(t) ==
    /\ Stage(t) = "pause"
    /\ call' = [call EXCEPT ![t].stage = "request"]
    /\ UNCHANGED <<keyVars, lost, charged, outcome>>

\* time.sleep(backoff) is over.  What the service asked for by Retry-After is
\* put into the exception and not waited for.
NextAttempt(t) ==
    /\ Stage(t) = "pause"
    /\ call' = [call EXCEPT ![t].stage = "request", ![t].attempt = @ + 1]
    /\ UNCHANGED <<keyVars, lost, charged, outcome>>

KeyAccepted(t) == call[t].key \in accepted[Provider(call[t].client)]

\* The service refuses the request and does not carry it out: 429, 5xx, or
\* another 4xx.
Refused(t) ==
    /\ Stage(t) = "request"
    /\ \/ \E error \in Transient : Retry(t, error)
       \/ EndCall(t, "ModelClientError")
    /\ UNCHANGED <<keyVars, lost, charged>>

\* The service carries the request out; the answer is under way.
Served(t) ==
    /\ Stage(t) = "request" /\ KeyAccepted(t)
    /\ charged' = [charged EXCEPT ![t] = @ + 1]
    /\ call' = [call EXCEPT ![t].stage = "served"]
    /\ UNCHANGED <<keyVars, lost, outcome>>

\* httpx reports ConnectError or TimeoutException: the request may never have
\* arrived, or have been carried out.
Lost(t) ==
    /\ Stage(t) \in {"request", "served"}
    /\ lost' = [lost EXCEPT ![t] = @ + 1]
    /\ Retry(t, "ModelUnavailableError")
    /\ UNCHANGED <<keyVars, charged>>

\* The connection breaks after it was made, which is neither of the two errors.
Broken(t) ==
    /\ Stage(t) \in {"request", "served", "opening", "stream"}
    /\ lost' = [lost EXCEPT ![t] = @ + 1]
    /\ EndCall(t, "TransportError")
    /\ UNCHANGED <<keyVars, charged>>

\* Fault: a body that cannot be parsed is asked for again.
FaultyAnswerComes(t) ==
    /\ Stage(t) = "served"
    /\ EndCall(t, "response") \/ Retry(t, "ModelUnavailableError")
    /\ UNCHANGED <<keyVars, lost, charged>>

\* The answer arrives; _parse_response returns it, or raises what a body that
\* is no JSON, or has an empty list of choices, makes it raise.
AnswerComes(t) ==
    /\ Stage(t) = "served"
    /\ EndCall(t, "response") \/ EndCall(t, "ParseError")
    /\ UNCHANGED <<keyVars, lost, charged>>

\* health_check: any answer below 500 is health, also one to a wrong key.
Probed(t) ==
    /\ Stage(t) = "probe"
    /\ \/ EndCall(t, "healthy")
       \/ EndCall(t, "unhealthy")
       \/ EndCall(t, "TransportError")
    /\ UNCHANGED <<keyVars, lost, charged>>

\* stream_complete makes one attempt.  The text of an answer from 400 to 499 is
\* read before the body was, which httpx refuses.
StreamRefused(t) ==
    /\ Stage(t) = "opening"
    /\ \E error \in Transient \union {"ResponseNotRead"} : EndCall(t, error)
    /\ UNCHANGED <<keyVars, lost, charged>>

StreamOpened(t) ==
    /\ Stage(t) = "opening" /\ KeyAccepted(t)
    /\ charged' = [charged EXCEPT ![t] = @ + 1]
    /\ \E b \in Bodies : call' = [call EXCEPT ![t].stage = "stream", ![t].body = b]
    /\ UNCHANGED <<keyVars, lost, outcome>>

\* ConnectError or TimeoutException, before the first line or between two.
StreamLost(t) ==
    /\ Stage(t) \in {"opening", "stream"}
    /\ lost' = [lost EXCEPT ![t] = @ + 1]
    /\ EndCall(t, "ModelUnavailableError")
    /\ UNCHANGED <<keyVars, charged>>

\* The generator waits at its yield until its consumer calls next(), or close().
Resume(t) ==
    /\ Stage(t) = "yielded"
    /\ call' = [call EXCEPT ![t].stage = "stream"]
    /\ UNCHANGED <<keyVars, lost, charged, outcome>>

StreamClosed(t) ==
    /\ Stage(t) = "yielded"
    /\ EndCall(t, "closed")
    /\ UNCHANGED <<keyVars, lost, charged>>

\* The call after the line c.body[n], which is not the last: a chunk is yielded,
\* any other line is passed over.
AfterLine(c, n) ==
    IF c.body[n] = "chunk"
    THEN [c EXCEPT !.read = n, !.received = Append(@, n), !.stage = "yielded"]
    ELSE [c EXCEPT !.read = n]

\* Fault: a line that cannot be decoded ends the stream as "[DONE]" does.
FaultyReadLine(t) ==
    /\ Stage(t) = "stream"
    /\ LET c == call[t]
           n == c.read + 1
       IN  IF n > Len(c.body) \/ c.body[n] \in {"done", "junk"}
           THEN EndCall(t, "streamed")
           ELSE IF c.body[n] = "no choices"
           THEN EndCall(t, "IndexError")
           ELSE /\ call' = [call EXCEPT ![t] = AfterLine(c, n)]
                /\ UNCHANGED outcome
    /\ UNCHANGED <<keyVars, lost, charged>>

\* One turn of the loop over the lines, while the consumer waits for next().  A
\* chunk is known by its place in the body.  An empty list of choices is
\* indexed, which raises IndexError.
ReadLine(t) ==
    /\ Stage(t) = "stream"
    /\ LET c == call[t]
           n == c.read + 1
       IN  IF n > Len(c.body) \/ c.body[n] = "done"
           THEN EndCall(t, "streamed")
           ELSE IF c.body[n] = "no choices"
           THEN EndCall(t, "IndexError")
           ELSE /\ call' = [call EXCEPT ![t] = AfterLine(c, n)]
                /\ UNCHANGED outcome
    /\ UNCHANGED <<keyVars, lost, charged>>

\* The operator sets or removes a key in the environment.  refresh need not be
\* called: it clears a cache that is never filled.
SetEnviron(p, k) ==
    /\ changes < MaxChanges /\ environ[p] # k
    /\ environ' = [environ EXCEPT ![p] = k]
    /\ changes' = changes + 1
    /\ UNCHANGED <<overrides, accepted, call, lost, charged, outcome>>

\* The provider issues or revokes a key.
SetAccepted(p, k) ==
    /\ changes < MaxChanges
    /\ accepted' = [accepted EXCEPT ![p] = IF k \in @ THEN @ \ {k} ELSE @ \union {k}]
    /\ changes' = changes + 1
    /\ UNCHANGED <<overrides, environ, call, lost, charged, outcome>>

\* What goes on in a call while its caller waits for it.
Progress(t) ==
    \/ NextAttempt(t) \/ Refused(t) \/ Served(t) \/ Lost(t) \/ Broken(t)
    \/ AnswerComes(t) \/ Probed(t)
    \/ StreamRefused(t) \/ StreamOpened(t) \/ StreamLost(t) \/ ReadLine(t)

HttpNext ==
    \/ \E t \in Thread :
        \/ \E m \in Called : complete(t, m) \/ stream_complete(t, m) \/ health_check(t, m)
        \/ Progress(t)
        \/ Resume(t) \/ StreamClosed(t)
    \/ \E p \in Providers :
        \/ \E k \in Key \union {NoKey} : SetEnviron(p, k)
        \/ \E k \in Key : SetAccepted(p, k)

HttpSpec == HttpInit /\ [][HttpNext]_httpVars

\* httpx ends every wait by its time-out, and a sleep ends.  Nobody need start
\* a call, ask a stream for more, close it or touch a key.
Fairness == \A t \in Thread : WF_httpVars(Progress(t))
HttpFairSpec == HttpSpec /\ Fairness
-----------------------------------------------------------------------------
\* The types of the variables.
HttpTypeOK ==
    /\ overrides \in [Providers -> Key \union {NoKey}]
    /\ environ \in [Providers -> Key \union {NoKey}]
    /\ accepted \in [Providers -> SUBSET Key]
    /\ changes \in 0 .. MaxChanges
    /\ DOMAIN call = Thread
    /\ \A t \in Thread : call[t] = Idle \/
        /\ call[t].stage \in {"request", "pause", "served", "probe", "opening", "stream", "yielded"}
        /\ call[t].client \in Called
        /\ call[t].attempt \in 1 .. MAX_RETRIES
        /\ call[t].key \in Key
    /\ lost \in [Thread -> 0 .. MAX_RETRIES]
    /\ charged \in [Thread -> 0 .. MAX_RETRIES]

\* A call is carried out more often than it is answered only as often as the
\* network lost an answer: what has come back is never asked for again.
ChargedAsOftenAsLost ==
    \A t \in Thread :
        LET answer == {"response", "ParseError", "streamed", "IndexError", "closed"}
            came == \/ Stage(t) \in {"served", "stream", "yielded"}
                    \/ Stage(t) = "idle" /\ outcome[t].kind \in answer
        IN  charged[t] <= lost[t] + (IF came THEN 1 ELSE 0)

\* "RateLimitError: When rate limit exceeded after all retries",
\* "ModelUnavailableError: When API unreachable after all retries": complete
\* gives up on what may pass only after MAX_RETRIES attempts.
GivesUpAfterAllRetries ==
    \A t \in Thread :
        LET o == outcome[t]
        IN  (/\ o.kind \in Transient
             /\ o.call.stage \in {"request", "served"})
            => o.call.attempt = MAX_RETRIES

\* The chunks among the first n lines have been received, each once and in order.
Delivered(c, n) ==
    /\ {c.received[i] : i \in DOMAIN c.received} = {i \in 1 .. n : c.body[i] = "chunk"}
    /\ \A i, j \in DOMAIN c.received : i < j => c.received[i] < c.received[j]

\* What a consumer has received of a stream are its chunks, each once and in
\* order, up to the line that was read last; a stream that ends without an
\* error has delivered all chunks before "[DONE]".
StreamIsFaithful ==
    \A t \in Thread :
        /\ Stage(t) \in {"stream", "yielded"} => Delivered(call[t], call[t].read)
        /\ Stage(t) = "idle" /\ outcome[t].kind = "streamed" =>
                LET c == outcome[t].call
                IN  \E n \in 0 .. Len(c.body) :
                        /\ n = Len(c.body) \/ c.body[n + 1] = "done"
                        /\ \A i \in 1 .. n : c.body[i] # "done"
                        /\ Delivered(c, n)

\* Every call comes to an end, unless it is a stream whose consumer, at some
\* chunk, asks for no more and does not close it either.
EveryCallEnds ==
    \A t \in Thread : []<>(Stage(t) = "idle") \/ <>[](Stage(t) = "yielded")
=============================================================================
