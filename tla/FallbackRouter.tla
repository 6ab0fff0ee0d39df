--------------------------- MODULE FallbackRouter ---------------------------
(***************************************************************************)
(* FallbackRouter (model_router/fallback_router.py): a request is answered *)
(* from the cache, by the rule engine, or by the clients of its task's     *)
(* chain, tried one after the other.  Texts (prompts, branch and persona   *)
(* identifiers) are sequences of the pieces the cache key tells apart.  A  *)
(* response is reduced to the model it names, what it was made for, by     *)
(* which client, and when; a cost record to the model.  The router holds   *)
(* an APIModeSwitch, whose operations anyone may call.                     *)
(***************************************************************************)
EXTENDS Integers, Sequences, FiniteSets, Selection, ModeSwitch

CONSTANTS
    Request,        \* the requests made
    Piece,          \* pieces of text
    Branch,
    ModelNames,     \* for each client, the names of models its answers give
    None,           \* no persona, no preference, no request in progress
    HttpClient,     \* clients that are BaseHttpClients; the others are mocks
    CACHE_TTL,
    MaxTime,        \* bound: the clock runs from 0 to MaxTime
    MaxCost         \* bound: cost records per branch

Client == {"kimi", "deepseek", "deepseek_pro", "glm"}

\* Task tier to primary client and fallback chain.
TASK_ROUTING_TABLE ==
    [T0 |-> <<"local", "deepseek">>, T1 |-> <<"local", "deepseek">>,
     T2 |-> <<"deepseek", "kimi">>, T3 |-> <<"deepseek", "kimi">>,
     T3b |-> <<"local_rule">>,
     T4 |-> <<"kimi", "deepseek_pro">>, T5 |-> <<"deepseek_pro", "kimi">>,
     T6 |-> <<"kimi", "deepseek_pro">>, T7 |-> <<"deepseek_pro", "kimi">>]

\* The tasks and the clients asked for by model_preference may be any names.
Task == {r.task : r \in Request}
Preferred == {r.prefer : r \in Request} \ {None}
Persona == {r.persona : r \in Request} \ {None}

ASSUME RequestAssumption ==
    \A r \in Request :
        /\ r = [task |-> r.task, prompt |-> r.prompt, branch |-> r.branch,
                persona |-> r.persona, prefer |-> r.prefer]
        /\ r.prompt \in Seq(Piece) /\ r.branch \in Branch
ASSUME TextAssumption == Branch \union Persona \subseteq Seq(Piece)
ASSUME NoneAssumption == None \notin Request /\ None \notin Seq(Piece)
ASSUME ClientAssumption ==
    HttpClient \subseteq Client /\ DOMAIN ModelNames = Client
ASSUME BoundAssumption == CACHE_TTL \in Nat /\ MaxTime \in Nat /\ MaxCost \in Nat

VARIABLES
    cache,      \* _cache: from some keys to responses; a response has its time
    health,     \* _health_status: the clients marked unhealthy are FALSE
    costs,      \* _cost_records: the model names of the records of each branch
    now,        \* time.time(), in ticks
    request,    \* the request being routed, or None
    chain,      \* what is left of its attempt_chain
    result      \* how the last call ended, if none is in progress

routerVars == <<cache, health, costs, now, request, chain, result>>
vars == <<routerVars, modeVars>>

ModelName == UNION {ModelNames[c] : c \in Client} \union {"local_rule_engine"}
Response == [model : ModelName, by : Client \union {"local_rule"}, for : Request,
             at : 0..MaxTime]
-----------------------------------------------------------------------------
Init ==
    /\ cache = <<>>
    /\ health = [c \in Client |-> TRUE]
    /\ costs = [b \in Branch |-> <<>>]
    /\ now = 0
    /\ request = None
    /\ chain = <<>>
    /\ result = [kind |-> "none"]
    /\ ModeInit

\* persona_id or 'none': an empty persona is none.
PersonaPart(r) == IF r.persona \in {None, <<>>} THEN <<"none">> ELSE r.persona

\* Fault: the key of a response does not name the branch.
FaultyCacheKey(r) ==
    <<r.task>> \o <<":">> \o r.prompt \o <<":">> \o PersonaPart(r)

\* The text that is hashed into the cache key; the task is one piece of it.
CacheKey(r) ==
    <<r.task>> \o <<":">> \o r.prompt \o <<":">> \o r.branch \o <<":">> \o PersonaPart(r)

\* _check_cache finds an entry that has not expired.
Cached(key) == key \in DOMAIN cache /\ now - cache[key].at <= CACHE_TTL

Without(f, x) == [y \in DOMAIN f \ {x} |-> f[y]]

\* The clients to ask: the preferred one, or those of the table, in order.
Routing(r) ==
    IF r.prefer # None THEN <<r.prefer>>
    ELSE IF r.task \in DOMAIN TASK_ROUTING_TABLE THEN TASK_ROUTING_TABLE[r.task]
    ELSE <<"deepseek", "kimi">>

\* Those of them to try: the ones that do not exist, among them "local", are
\* left out.
AttemptChain(r, local_mode) ==
    LET routing == Routing(r)
        wanted == IF local_mode /\ Head(routing) = "local" /\ Len(routing) > 1
                  THEN Tail(routing) ELSE routing
    IN  Kept(wanted, Client \union {"local_rule"})

Finish(kind, r, response) ==
    result' = [kind |-> kind, request |-> r, response |-> response]

\* route: the response is in the cache.
CacheHit(r) ==
    /\ request = None
    /\ Cached(CacheKey(r))
    /\ Finish("response", r, cache[CacheKey(r)])
    /\ UNCHANGED <<cache, health, costs, now, request, chain>>

\* route: it is not, or has expired and is removed.
Missed(r) ==
    /\ request = None
    /\ ~Cached(CacheKey(r))
    /\ cache' = Without(cache, CacheKey(r))
    /\ UNCHANGED <<health, costs, now>>

Chain(r) == AttemptChain(r, get_mode_for_task(r.task) = "LOCAL")

Start(r) ==
    /\ Missed(r) /\ Chain(r) # <<>>
    /\ request' = r
    /\ chain' = Chain(r)
    /\ result' = [kind |-> "none"]

\* A preference that names no client.
NoClient(r) ==
    /\ Missed(r) /\ Chain(r) = <<>>
    /\ Finish("ModelClientError", r, None)
    /\ UNCHANGED <<request, chain>>

End == request' = None /\ chain' = <<>>

\* route: the rule engine answers, at no cost and without the cache.
LocalRule ==
    /\ chain # <<>> /\ Head(chain) = "local_rule"
    /\ Finish("response", request, [model |-> "local_rule_engine", by |-> "local_rule",
                                    for |-> request, at |-> now])
    /\ End
    /\ UNCHANGED <<cache, health, costs, now>>

\* A client marked unhealthy is passed over.
Skip ==
    /\ chain # <<>> /\ Head(chain) \in Client /\ ~health[Head(chain)]
    /\ chain' = Tail(chain)
    /\ UNCHANGED <<cache, health, costs, now, request, result>>

\* The next client of the chain is called.
Calls(c) == chain # <<>> /\ Head(chain) = c /\ c \in Client /\ health[c]

\* Fault: the cost goes to the branch whose answer is in the cache already.
FaultyRecordCost(model, branch) ==
    LET b == IF cache = <<>> THEN branch
             ELSE cache[CHOOSE k \in DOMAIN cache : TRUE].for.branch
    IN  Len(costs[b]) < MaxCost /\ costs' = [costs EXCEPT ![b] = Append(@, model)]

\* _record_cost, under the model name of the response.
RecordCost(model, branch) ==
    Len(costs[branch]) < MaxCost /\ costs' = [costs EXCEPT ![branch] = Append(@, model)]

\* _store_cache.
StoreCache(key, response) ==
    cache' = [k \in DOMAIN cache \union {key} |->
                 IF k = key THEN response ELSE cache[k]]

\* The client answers: the cost is recorded, the response cached.
Succeeds(c) ==
    /\ Calls(c) /\ c \notin HttpClient
    /\ \E model \in ModelNames[c] :
        LET response == [model |-> model, by |-> c, for |-> request, at |-> now]
        IN  /\ RecordCost(model, request.branch)
            /\ StoreCache(CacheKey(request), response)
            /\ Finish("response", request, response)
    /\ health' = [health EXCEPT ![c] = TRUE]
    /\ End
    /\ UNCHANGED now

\* Fault: a rate-limited client is passed over and not marked.
FaultyFails(c) ==
    /\ Calls(c) /\ c \notin HttpClient
    /\ chain' = Tail(chain)
    /\ UNCHANGED <<cache, health, costs, now, request, result>>

\* Fault: a rate limit ends the loop over the chain.
FaultyBreak(c) ==
    /\ Calls(c) /\ c \notin HttpClient
    /\ health' = [health EXCEPT ![c] = FALSE]
    /\ chain' = <<>>
    /\ UNCHANGED <<cache, costs, now, request, result>>

\* The client raises RateLimitError or another ModelClientError.
Fails(c) ==
    /\ Calls(c) /\ c \notin HttpClient
    /\ health' = [health EXCEPT ![c] = FALSE]
    /\ chain' = Tail(chain)
    /\ UNCHANGED <<cache, costs, now, request, result>>

\* BaseHttpClient.complete takes a prompt, a task type and a branch: called
\* with one ModelRequest it raises TypeError, which route does not catch.
RejectsCall(c) ==
    /\ Calls(c) /\ c \in HttpClient
    /\ Finish("TypeError", request, None)
    /\ End
    /\ UNCHANGED <<cache, health, costs, now>>

\* No client was available, or all have failed.
Exhausted ==
    /\ request # None /\ chain = <<>>
    /\ Finish("ModelClientError", request, None)
    /\ End
    /\ UNCHANGED <<cache, health, costs, now>>

\* stream_route: one call of the primary client, marked unhealthy or not; no
\* cache, no fallback, no cost.  What is streamed is left out; "local" and
\* "local_rule" are no clients.
stream_route(r) ==
    LET c == Head(Routing(r)) IN
    /\ request = None
    /\ result' = [kind |-> IF c \notin Client THEN "stream ModelClientError"
                           ELSE IF c \in HttpClient THEN "stream TypeError" ELSE "stream"]
    /\ UNCHANGED <<cache, health, costs, now, request, chain>>

\* get_cost_summary; the tokens and prices of the records are left out.
get_cost_summary(b) ==
    [total_calls |-> Len(costs[b]),
     by_model |-> [m \in {costs[b][i] : i \in DOMAIN costs[b]} |->
                      [calls |-> Cardinality({i \in DOMAIN costs[b] : costs[b][i] = m})]]]

cache_clear ==
    /\ request = None
    /\ cache' = <<>>
    /\ UNCHANGED <<health, costs, now, request, chain, result>>

\* Time passes, also while a client is being called.
Tick ==
    /\ now < MaxTime
    /\ now' = now + 1
    /\ UNCHANGED <<cache, health, costs, request, chain, result>>

RouteNext ==
    \/ \E r \in Request : CacheHit(r) \/ Start(r) \/ NoClient(r) \/ stream_route(r)
    \/ LocalRule \/ Skip \/ Exhausted
    \/ \E c \in Client : Succeeds(c) \/ Fails(c) \/ RejectsCall(c)
    \/ cache_clear
    \/ Tick

Next ==
    \/ RouteNext /\ UNCHANGED modeVars
    \/ ModeNext /\ UNCHANGED routerVars

Spec == Init /\ [][Next]_vars
-----------------------------------------------------------------------------
\* The types of the variables.
TypeOK ==
    /\ \A k \in DOMAIN cache : cache[k] \in Response
    /\ health \in [Client -> BOOLEAN]
    /\ costs \in [Branch -> Seq(ModelName)]
    /\ now \in 0..MaxTime
    /\ request \in Request \union {None}
    /\ chain \in Seq(Client \union {"local_rule"})
    /\ result.kind \in {"none", "response", "ModelClientError", "TypeError",
                       "stream", "stream ModelClientError", "stream TypeError"}

Answered == result.kind = "response"

\* A branch and a persona that the key can tell apart from what stands beside
\* them: no separator is in them, and the persona is not called "none".
Unambiguous(r) ==
    /\ \A i \in DOMAIN r.branch : r.branch[i] # ":"
    /\ r.persona # None =>
           r.persona # <<"none">> /\ \A i \in DOMAIN r.persona : r.persona[i] # ":"

\* A response was made for the same prompt, task, branch and persona as the
\* request it answers, if both name branches and personas that are unambiguous:
\* the cache leaks nothing between them, whatever the prompts are.
CacheIsolation ==
    Answered =>
        LET r == result.request
            s == result.response.for
        IN  Unambiguous(r) /\ Unambiguous(s) =>
                /\ \A f \in {"task", "prompt", "branch"} : s[f] = r[f]
                /\ PersonaPart(s) = PersonaPart(r)

\* A client is only asked after those before it in the chain of the request it
\* answers have failed: all of them are marked unhealthy.
InOrder(response) ==
    response.by \in Client =>
        LET order == Routing(response.for)
        IN  \E i \in DOMAIN order :
                /\ order[i] = response.by
                /\ \A j \in 1..(i - 1) : order[j] \in Client => ~health[order[j]]

FallbackInOrder == Answered => InOrder(result.response)

\* route gives up only when all models in the chain have failed: every client
\* of the request's routing is marked unhealthy.
GivesUpWhenAllFailed ==
    result.kind = "ModelClientError" =>
        LET order == Routing(result.request)
        IN  \A i \in DOMAIN order : order[i] \in Client => ~health[order[i]]

\* Every response in the cache has been charged, to the branch it was made for:
\* the summary of the branch has as many calls of its model, and as many in all.
CachedWasCharged ==
    \A b \in Branch :
        LET summary == get_cost_summary(b)
            mine == {k \in DOMAIN cache : cache[k].for.branch = b}
        IN  /\ Cardinality(mine) <= summary.total_calls
            /\ \A k \in mine :
                    /\ cache[k].model \in DOMAIN summary.by_model
                    /\ Cardinality({l \in mine : cache[l].model = cache[k].model})
                            <= summary.by_model[cache[k].model].calls
-----------------------------------------------------------------------------
\* route raises "ModelClientError: If all models in the fallback chain fail"
\* and otherwise returns a response.
RouteEndsAsDocumented == result.kind # "TypeError"
=============================================================================
