-------------------------- MODULE ModelRouterProofs --------------------------
(***************************************************************************)
(* Proofs about the model router: FallbackRouter with the APIModeSwitch it *)
(* holds, for any requests, texts, clients and lifetimes; and HttpClient,  *)
(* the clients it was written for.                                         *)
(* The invariants of the router speak of the request in progress as well   *)
(* as of every response in the cache, which is returned again later; what  *)
(* can be read back from a cache key comes before the last of them.        *)
(* All that matters about a thread of the clients is in its call, its two  *)
(* counts and its last outcome, and every step changes those of one thread:*)
(* Good and Reads say what these have to do with each other, and each      *)
(* action keeps both for its thread.                                       *)
(***************************************************************************)
EXTENDS FallbackRouter, HttpClient, SelectionProofs

\* The types, and that nothing is left to be tried when no request is routed.
RouterTypes ==
    /\ TypeOK
    /\ request = None => chain = <<>>

Asked == Client \union {"local_rule"}

\* What a routing may name: a client, one of the two that are none, or anything.
Named == Client \union {"local", "local_rule"} \union Preferred

\* A routing has at least one name.
LEMMA RoutingTypes ==
    ASSUME NEW r \in Request
    PROVE  Routing(r) \in Seq(Named) /\ Routing(r) # <<>>
<1> DEFINE pairs == {<<"local", "deepseek">>, <<"deepseek", "kimi">>, <<"kimi", "deepseek_pro">>,
                     <<"deepseek_pro", "kimi">>}
<1>1. CASE r.prefer # None
  <2>1. r.prefer \in Named
    BY <1>1 DEF Preferred, Named
  <2> QED
    BY <1>1, <2>1 DEF Routing
<1>2. CASE r.prefer = None
  <2>1. Routing(r) \in pairs \union {<<"local_rule">>}
    BY <1>2 DEF Routing, TASK_ROUTING_TABLE
  <2> DEFINE t == Routing(r)
  <2> HIDE DEF t
  <2>2. ASSUME NEW a \in {"local", "local_rule", "kimi", "deepseek", "deepseek_pro"},
               NEW b \in {"local", "local_rule", "kimi", "deepseek", "deepseek_pro"},
               t = <<a, b>> \/ t = <<a>>
        PROVE  t \in Seq(Named) /\ t # <<>>
    <3>1. a \in Named /\ b \in Named
      BY DEF Named, Client
    <3>2. /\ <<a, b>> \in Seq(Named) /\ <<a, b>> # <<>>
          /\ <<a>> \in Seq(Named) /\ <<a>> # <<>>
      BY <3>1
    <3> QED
      BY <2>2, <3>2
  <2>3. t \in Seq(Named) /\ t # <<>>
    BY <2>1, <2>2 DEF t
  <2> QED
    BY <2>3 DEF t
<1> QED
  BY <1>1, <1>2
\* The chain of a request is its routing without what cannot be asked.
LEMMA ChainOfRequest ==
    ASSUME NEW r \in Request, NEW local_mode \in BOOLEAN
    PROVE  LET new == AttemptChain(r, local_mode)
               order == Routing(r)
           IN  /\ new \in Seq(Asked)
               /\ \A m \in 1 .. Len(new) : \E i \in DOMAIN order :
                    /\ order[i] = new[m]
                    /\ \A j \in 1 .. i - 1 : order[j] \in Client =>
                          \E l \in 1 .. m - 1 : new[l] = order[j]
<1> DEFINE order == Routing(r)
           new == AttemptChain(r, local_mode)
           S == Named
<1>1. order \in Seq(S) /\ order # <<>> /\ Len(order) \in Nat /\ DOMAIN order = 1 .. Len(order)
  BY RoutingTypes
<1> HIDE DEF order
<1>2. ASSUME NEW w \in Seq(S), new = Kept(w, Asked)
      PROVE  /\ new \in Seq(Asked)
             /\ \A m \in 1 .. Len(new) : \E i \in 1 .. Len(w) :
                    /\ w[i] = new[m]
                    /\ \A j \in 1 .. i - 1 : w[j] \in Client =>
                          \E l \in 1 .. m - 1 : new[l] = w[j]
  <2> HIDE DEF new
  <2>1. /\ new \in Seq(S)
        /\ \A m \in 1 .. Len(new) : new[m] \in Asked /\ \E i \in 1 .. Len(w) :
                    /\ w[i] = new[m]
                    /\ \A j \in 1 .. i - 1 :
                          w[j] \in Asked => \E l \in 1 .. m - 1 : new[l] = w[j]
    BY <1>2, KeptInOrder
  <2>2. \A c \in Client : c \in Asked
    BY DEF Asked
  <2>3. new \in Seq(Asked)
    BY <2>1
  <2> QED
    BY <2>1, <2>2, <2>3
<1>3. CASE local_mode /\ Head(order) = "local" /\ Len(order) > 1
  <2> DEFINE w == Tail(order)
  <2>1. new = Kept(w, Asked) /\ w \in Seq(S)
    BY <1>1, <1>3 DEF AttemptChain, Asked, order
  <2>2. order[1] \notin Client
    BY <1>1, <1>3 DEF Client
  <2>3. Len(w) = Len(order) - 1 /\ \A i \in 1 .. Len(w) : w[i] = order[i + 1]
    BY <1>1, <1>3
  <2> HIDE DEF w
  <2>4. ASSUME NEW m \in 1 .. Len(new)
        PROVE  \E i \in DOMAIN order :
                    /\ order[i] = new[m]
                    /\ \A j \in 1 .. i - 1 : order[j] \in Client =>
                          \E l \in 1 .. m - 1 : new[l] = order[j]
    <3> HIDE DEF new
    <3>1. PICK i \in 1 .. Len(w) :
                    /\ w[i] = new[m]
                    /\ \A j \in 1 .. i - 1 : w[j] \in Client =>
                          \E l \in 1 .. m - 1 : new[l] = w[j]
      BY <1>2, <2>1
    <3>2. i + 1 \in DOMAIN order /\ order[i + 1] = new[m]
      BY <1>1, <2>3, <3>1
    <3>3. ASSUME NEW j \in 1 .. (i + 1) - 1, order[j] \in Client
          PROVE  \E l \in 1 .. m - 1 : new[l] = order[j]
      <4>1. j # 1 /\ j \in Nat
        BY <2>2, <3>3
      <4>2. j - 1 \in 1 .. i - 1 /\ j - 1 \in 1 .. Len(w)
        BY <1>1, <2>3, <4>1
      <4>3. w[j - 1] = order[j]
        <5>1. w[j - 1] = order[(j - 1) + 1] /\ (j - 1) + 1 = j
          BY <2>3, <4>1, <4>2
        <5> QED
          BY <5>1
      <4> QED
        BY <3>1, <3>3, <4>2, <4>3
    <3> QED
      BY <3>2, <3>3
  <2>5. new \in Seq(Asked)
    BY <1>2, <2>1
  <2> QED
    BY <2>4, <2>5 DEF order
<1>4. CASE ~(local_mode /\ Head(order) = "local" /\ Len(order) > 1)
  <2>1. new = Kept(order, Asked)
    BY <1>4 DEF AttemptChain, Asked, order
  <2>2. /\ new \in Seq(Asked)
        /\ \A m \in 1 .. Len(new) : \E i \in DOMAIN order :
              /\ order[i] = new[m]
              /\ \A j \in 1 .. i - 1 : order[j] \in Client =>
                    \E l \in 1 .. m - 1 : new[l] = order[j]
    <3> HIDE DEF new, S
    <3>1. /\ new \in Seq(Asked)
          /\ \A m \in 1 .. Len(new) : \E i \in 1 .. Len(order) :
                /\ order[i] = new[m]
                /\ \A j \in 1 .. i - 1 : order[j] \in Client =>
                      \E l \in 1 .. m - 1 : new[l] = order[j]
      BY <1>1, <1>2, <2>1
    <3> QED
      BY <1>1, <3>1
  <2> QED
    BY <2>2 DEF order
<1> QED
  BY <1>3, <1>4
\* Every client of the routing is in the chain.
LEMMA ChainCovers ==
    ASSUME NEW r \in Request, NEW local_mode \in BOOLEAN
    PROVE  LET new == AttemptChain(r, local_mode)
               order == Routing(r)
           IN  \A i \in DOMAIN order :
                    order[i] \in Client => \E l \in 1 .. Len(new) : new[l] = order[i]
<1> DEFINE order == Routing(r)
           new == AttemptChain(r, local_mode)
<1>1. order \in Seq(Named) /\ order # <<>> /\ Len(order) \in Nat /\ DOMAIN order = 1 .. Len(order)
  BY RoutingTypes
<1> HIDE DEF order
<1>2. ASSUME NEW w \in Seq(Named), new = Kept(w, Asked), NEW i \in 1 .. Len(w), w[i] \in Client
      PROVE  \E l \in 1 .. Len(new) : new[l] = w[i]
  <2> HIDE DEF new
  <2>1. w[i] \in Asked
    BY <1>2 DEF Asked
  <2> QED
    BY <1>2, <2>1, KeptIsAll
<1>3. ASSUME local_mode, Head(order) = "local", Len(order) > 1, NEW i \in DOMAIN order,
             order[i] \in Client
      PROVE  \E l \in 1 .. Len(new) : new[l] = order[i]
  <2> DEFINE w == Tail(order)
  <2>1. new = Kept(w, Asked) /\ w \in Seq(Named)
    BY <1>1, <1>3 DEF AttemptChain, Asked, order
  <2>2. i # 1
    BY <1>1, <1>3 DEF Client
  <2>3. i - 1 \in 1 .. Len(w) /\ w[i - 1] = order[i]
    BY <1>1, <1>3, <2>2
  <2> HIDE DEF w, new
  <2>4. \E l \in 1 .. Len(new) : new[l] = w[i - 1]
    <3>1. w[i - 1] \in Client
      BY <1>3, <2>3
    <3> QED
      BY <1>2, <2>1, <2>3, <3>1
  <2> QED
    BY <2>3, <2>4
<1>4. ASSUME ~(local_mode /\ Head(order) = "local" /\ Len(order) > 1), NEW i \in DOMAIN order,
             order[i] \in Client
      PROVE  \E l \in 1 .. Len(new) : new[l] = order[i]
  <2>1. new = Kept(order, Asked)
    BY <1>4 DEF AttemptChain, Asked, order
  <2> HIDE DEF new
  <2> QED
    BY <1>1, <1>2, <1>4, <2>1 DEF new
<1> QED
  BY <1>3, <1>4 DEF order

\* While something is left to be tried, a request is being routed.
LEMMA InRequest ==
    ASSUME RouterTypes, chain # <<>>
    PROVE  request \in Request /\ Head(chain) \in Asked /\ Tail(chain) \in Seq(Asked)
<1>1. chain \in Seq(Asked) /\ request \in Request \union {None}
  BY DEF RouterTypes, TypeOK, Asked
<1> QED
  BY <1>1 DEF RouterTypes

\* A record is added to the branch of the request.
LEMMA ChargeTypes ==
    ASSUME RouterTypes, NEW m \in ModelName, NEW b \in Branch, RecordCost(m, b)
    PROVE  /\ costs' \in [Branch -> Seq(ModelName)]
           /\ costs'[b] = Append(costs[b], m)
           /\ \A a \in Branch : a # b => costs'[a] = costs[a]
<1>1. costs \in [Branch -> Seq(ModelName)]
  BY DEF RouterTypes, TypeOK
<1>2. costs' = [costs EXCEPT ![b] = Append(costs[b], m)]
  BY DEF RecordCost
<1>3. Append(costs[b], m) \in Seq(ModelName)
  BY <1>1
<1> QED
  BY <1>1, <1>2, <1>3

\* What the answer of a client changes.
ChargedAnswer(c, m) ==
    LET new == [model |-> m, by |-> c, for |-> request, at |-> now]
        key == CacheKey(request)
    IN  /\ m \in ModelName
        /\ RecordCost(m, request.branch)
        /\ cache' = [k \in DOMAIN cache \union {key} |-> IF k = key THEN new ELSE cache[k]]
        /\ result' = [kind |-> "response", request |-> request, response |-> new]

LEMMA SuccessAnswers ==
    ASSUME NEW c \in Client, Succeeds(c)
    PROVE  \E m \in ModelNames[c] : ChargedAnswer(c, m)
<1>1. PICK m \in ModelNames[c] :
            LET response == [model |-> m, by |-> c, for |-> request, at |-> now]
            IN  /\ RecordCost(m, request.branch)
                /\ StoreCache(CacheKey(request), response)
                /\ Finish("response", request, response)
  BY DEF Succeeds
<1>2. m \in ModelName
  BY <1>1 DEF ModelName
<1>3. ChargedAnswer(c, m)
  BY <1>1, <1>2 DEF ChargedAnswer, StoreCache, Finish
<1> QED
  BY <1>3

\* A stream, or the lack of one, is no answer of route.
LEMMA StreamEnds ==
    ASSUME NEW r, stream_route(r)
    PROVE  result'.kind \in {"stream", "stream TypeError", "stream ModelClientError"}
<1>1. PICK k \in {"stream", "stream TypeError", "stream ModelClientError"} : result' = [kind |-> k]
  BY DEF stream_route
<1> QED
  BY <1>1

\* The types are kept by every operation of the router.
LEMMA RouteTypes ==
    ASSUME RouterTypes, RouteNext
    PROVE  RouterTypes'
<1>1. /\ MaxTime \in Nat /\ CACHE_TTL \in Nat
      /\ <<>> \in Seq(Asked)
  BY BoundAssumption
<1>2. ASSUME NEW r \in Request, CacheHit(r) \/ stream_route(r)
      PROVE  RouterTypes'
  <2>1. UNCHANGED <<cache, health, costs, now, request, chain>>
    BY <1>2 DEF CacheHit, stream_route
  <2>2. result'.kind \in {"response", "stream", "stream TypeError", "stream ModelClientError"}
    <3>1. CASE CacheHit(r)
      BY <3>1 DEF CacheHit, Finish
    <3>2. CASE stream_route(r)
      BY <3>2, StreamEnds
    <3> QED
      BY <1>2, <3>1, <3>2
  <2> QED
    BY <2>1, <2>2 DEF RouterTypes, TypeOK
<1>3. ASSUME NEW r \in Request, Start(r)
      PROVE  RouterTypes'
  <2>1. chain' \in Seq(Asked) /\ request' = r /\ r # None
    BY <1>3, ChainOfRequest, NoneAssumption DEF Start, Chain
  <2>2. \A k \in DOMAIN cache' : cache'[k] \in Response
    BY <1>3 DEF RouterTypes, TypeOK, Start, Missed, Without
  <2>3. result'.kind = "none" /\ UNCHANGED <<health, costs, now>>
    BY <1>3 DEF Start, Missed
  <2> QED
    BY <2>1, <2>2, <2>3 DEF RouterTypes, TypeOK, Asked
<1>4. CASE LocalRule \/ Exhausted
  <2>1. /\ UNCHANGED <<cache, health, costs, now>> /\ request' = None /\ chain' = <<>>
        /\ result'.kind \in {"response", "ModelClientError"}
    BY <1>4 DEF LocalRule, Exhausted, Finish, End
  <2> QED
    BY <1>1, <2>1 DEF RouterTypes, TypeOK, Asked
<1>5. CASE Skip
  <2>1. chain' \in Seq(Asked) /\ request' # None
    BY <1>5, InRequest, NoneAssumption DEF Skip
  <2>2. UNCHANGED <<cache, health, costs, now, request, result>>
    BY <1>5 DEF Skip
  <2> QED
    BY <2>1, <2>2 DEF RouterTypes, TypeOK, Asked
<1>6. ASSUME NEW c \in Client, Succeeds(c)
      PROVE  RouterTypes'
  <2>0. PICK m \in ModelNames[c] : ChargedAnswer(c, m)
    BY <1>6, SuccessAnswers
  <2> DEFINE new == [model |-> m, by |-> c, for |-> request, at |-> now]
             key == CacheKey(request)
  <2>1. request \in Request /\ now \in 0 .. MaxTime
    BY <1>6, InRequest DEF Succeeds, Calls, RouterTypes, TypeOK
  <2>2. new \in Response
    BY <2>0, <2>1 DEF Response, ChargedAnswer
  <2>3. \A k \in DOMAIN cache' : cache'[k] \in Response
    <3>1. cache' = [k \in DOMAIN cache \union {key} |-> IF k = key THEN new ELSE cache[k]]
      BY <2>0 DEF ChargedAnswer
    <3> HIDE DEF new, key
    <3> QED
      BY <2>2, <3>1 DEF RouterTypes, TypeOK
  <2>4. costs' \in [Branch -> Seq(ModelName)]
    <3>1. request.branch \in Branch /\ RecordCost(m, request.branch) /\ m \in ModelName
      BY <2>0, <2>1, RequestAssumption DEF ChargedAnswer
    <3> QED
      BY <3>1, ChargeTypes
  <2>5. health' = [health EXCEPT ![c] = TRUE] /\ now' = now /\ request' = None /\ chain' = <<>>
        /\ result'.kind = "response"
    BY <1>6, <2>0 DEF Succeeds, End, ChargedAnswer
  <2> QED
    BY <1>1, <2>3, <2>4, <2>5 DEF RouterTypes, TypeOK, Asked
<1>7. ASSUME NEW c \in Client, Fails(c)
      PROVE  RouterTypes'
  <2>1. chain' \in Seq(Asked) /\ request' # None
    BY <1>7, InRequest, NoneAssumption DEF Fails, Calls
  <2>2. health' = [health EXCEPT ![c] = FALSE] /\ UNCHANGED <<cache, costs, now, request, result>>
    BY <1>7 DEF Fails
  <2> QED
    BY <2>1, <2>2 DEF RouterTypes, TypeOK, Asked
<1>8. ASSUME NEW c \in Client, RejectsCall(c)
      PROVE  RouterTypes'
  <2>1. /\ UNCHANGED <<cache, health, costs, now>> /\ request' = None /\ chain' = <<>>
        /\ result'.kind = "TypeError"
    BY <1>8 DEF RejectsCall, Finish, End
  <2> QED
    BY <1>1, <2>1 DEF RouterTypes, TypeOK, Asked
<1>9. CASE cache_clear \/ Tick
  <2>1. UNCHANGED <<health, costs, request, chain, result>> /\ (cache' = cache \/ cache' = <<>>)
    BY <1>9 DEF cache_clear, Tick
  <2>2. now \in 0 .. MaxTime /\ (now' = now \/ (now < MaxTime /\ now' = now + 1))
    BY <1>9 DEF RouterTypes, TypeOK, cache_clear, Tick
  <2>3. now' \in 0 .. MaxTime
    BY <1>1, <2>2
  <2>4. \A k \in DOMAIN cache' : cache'[k] \in Response
    <3>1. DOMAIN <<>> = {}
      OBVIOUS
    <3> QED
      BY <2>1, <3>1 DEF RouterTypes, TypeOK
  <2> QED
    BY <2>1, <2>3, <2>4 DEF RouterTypes, TypeOK
<1>10. ASSUME NEW r \in Request, NoClient(r)
       PROVE  RouterTypes'
  <2>1. \A k \in DOMAIN cache' : cache'[k] \in Response
    BY <1>10 DEF RouterTypes, TypeOK, NoClient, Missed, Without
  <2>2. /\ result'.kind = "ModelClientError"
        /\ UNCHANGED <<health, costs, now, request, chain>>
    BY <1>10 DEF NoClient, Missed, Finish
  <2> QED
    BY <2>1, <2>2 DEF RouterTypes, TypeOK
<1> QED
  BY <1>2, <1>3, <1>4, <1>5, <1>6, <1>7, <1>8, <1>9, <1>10 DEF RouteNext
\* Nothing is cached, asked or charged at first.
LEMMA InitTypes == Init => RouterTypes
<1> SUFFICES ASSUME Init PROVE RouterTypes
  OBVIOUS
<1>1. 0 \in 0 .. MaxTime
  BY BoundAssumption
<1>2. costs \in [Branch -> Seq(ModelName)]
  BY DEF Init
<1> QED
  BY <1>1, <1>2 DEF Init, RouterTypes, TypeOK

\* Every step keeps the types, also one of the mode switch.
LEMMA StepTypes == RouterTypes /\ [Next]_vars => RouterTypes'
<1> SUFFICES ASSUME RouterTypes, [Next]_vars PROVE RouterTypes'
  OBVIOUS
<1>1. CASE RouteNext
  BY <1>1, RouteTypes
<1>2. CASE UNCHANGED routerVars
  BY <1>2 DEF RouterTypes, TypeOK, routerVars
<1> QED
  BY <1>1, <1>2 DEF Next, vars

LEMMA TypesInvariant == Spec => []RouterTypes
BY InitTypes, StepTypes, PTL DEF Spec

\* The types of the router's variables.
THEOREM RouterTypeCorrect == Spec => []TypeOK
<1>1. RouterTypes => TypeOK
  BY DEF RouterTypes
<1> QED
  BY <1>1, TypesInvariant, PTL

\* A client is called only while it is marked healthy, so no mark of failure is
\* ever taken away.
LEMMA FailedKept ==
    ASSUME RouterTypes, [Next]_vars, NEW c \in Client, ~health[c]
    PROVE  ~health'[c]
<1>0. health \in [Client -> BOOLEAN]
  BY DEF RouterTypes, TypeOK
<1>1. ASSUME NEW d \in Client, Succeeds(d) PROVE ~health'[c]
  BY <1>0, <1>1 DEF Succeeds, Calls
<1>2. ASSUME NEW d \in Client, Fails(d) PROVE ~health'[c]
  BY <1>0, <1>2 DEF Fails
<1>3. ASSUME NEW d \in Client, RejectsCall(d) PROVE ~health'[c]
  BY <1>3 DEF RejectsCall
<1>4. ASSUME NEW r \in Request, CacheHit(r) \/ Start(r) \/ NoClient(r) \/ stream_route(r)
      PROVE  ~health'[c]
  BY <1>4 DEF CacheHit, Start, NoClient, Missed, stream_route
<1>5. CASE LocalRule \/ Skip \/ Exhausted \/ cache_clear \/ Tick
  BY <1>5 DEF LocalRule, Skip, Exhausted, cache_clear, Tick
<1>6. CASE UNCHANGED routerVars
  BY <1>6 DEF routerVars
<1> QED
  BY <1>1, <1>2, <1>3, <1>4, <1>5, <1>6 DEF Next, RouteNext, vars
-----------------------------------------------------------------------------
\* A chain is in order if whoever stands before a client in the routing has
\* failed, by the marks h, or is to be tried before it.
InChain(order, left, h) ==
    \A m \in 1 .. Len(left) : \E i \in DOMAIN order :
        /\ order[i] = left[m]
        /\ \A j \in 1 .. i - 1 : order[j] \in Client =>
              ~h[order[j]] \/ \E l \in 1 .. m - 1 : left[l] = order[j]

ChainInOrder == request # None => InChain(Routing(request), chain, health)

OrderInv ==
    /\ RouterTypes
    /\ ChainInOrder
    /\ \A k \in DOMAIN cache : InOrder(cache[k])
    /\ FallbackInOrder

\* Nothing is cached or answered at first.
LEMMA InitInOrder == Init => OrderInv
BY InitTypes DEF Init, OrderInv, ChainInOrder, FallbackInOrder, Answered

\* Marks of failure only get more, so what is in order stays in order.
LEMMA StaysInOrder ==
    ASSUME \A c \in Client : ~health[c] => ~health'[c], NEW response, InOrder(response)
    PROVE  InOrder(response)'
BY DEF InOrder, Routing

\* A chain in order stays in order when marks of failure are added.
LEMMA MarksKeepChain ==
    ASSUME NEW order, NEW left, NEW h, NEW g, InChain(order, left, h),
           \A c \in Client : ~h[c] => ~g[c]
    PROVE  InChain(order, left, g)
BY DEF InChain

\* The next client of the chain is passed over or fails: it is marked, and the
\* rest of the chain is in order without it.
LEMMA TailInChain ==
    ASSUME NEW order, NEW left \in Seq(Asked), left # <<>>, NEW h,
           InChain(order, left, h), Head(left) \in Client => ~h[Head(left)]
    PROVE  InChain(order, Tail(left), h)
<1> DEFINE rest == Tail(left)
           n == Len(left)
<1>1. /\ n \in Nat /\ n # 0 /\ Head(left) = left[1]
      /\ Len(rest) = n - 1 /\ \A m \in 1 .. n - 1 : rest[m] = left[m + 1]
  OBVIOUS
<1> HIDE DEF rest, n
<1>2. ASSUME NEW m \in 1 .. n - 1
      PROVE  \E i \in DOMAIN order :
                /\ order[i] = rest[m]
                /\ \A j \in 1 .. i - 1 : order[j] \in Client =>
                      ~h[order[j]] \/ \E l \in 1 .. m - 1 : rest[l] = order[j]
  <2>1. m + 1 \in 1 .. n /\ rest[m] = left[m + 1]
    BY <1>1
  <2>2. PICK i \in DOMAIN order :
                /\ order[i] = left[m + 1]
                /\ \A j \in 1 .. i - 1 : order[j] \in Client =>
                      ~h[order[j]] \/ \E l \in 1 .. (m + 1) - 1 : left[l] = order[j]
    BY <2>1 DEF InChain, n
  <2>3. ASSUME NEW j \in 1 .. i - 1, order[j] \in Client, h[order[j]]
        PROVE  \E l \in 1 .. m - 1 : rest[l] = order[j]
    <3>1. PICK l \in 1 .. (m + 1) - 1 : left[l] = order[j]
      BY <2>2, <2>3
    <3>2. l # 1
      BY <1>1, <2>3, <3>1
    <3>3. l - 1 \in 1 .. m - 1 /\ l - 1 \in 1 .. n - 1
      BY <1>1, <3>2
    <3>4. rest[l - 1] = left[(l - 1) + 1] /\ (l - 1) + 1 = l
      BY <1>1, <3>3
    <3> QED
      BY <3>1, <3>3, <3>4
  <2> QED
    BY <2>1, <2>2, <2>3
<1>3. \A m \in 1 .. Len(rest) : m \in 1 .. n - 1
  BY <1>1
<1>4. InChain(order, rest, h)
  BY <1>2, <1>3 DEF InChain
<1> QED
  BY <1>4 DEF rest

\* Every operation keeps the order: of the first client of a chain, all that
\* stand before it have failed.
LEMMA RouteInOrder ==
    ASSUME OrderInv, RouteNext, \A c \in Client : ~health[c] => ~health'[c]
    PROVE  OrderInv'
<1>1. RouterTypes' /\ RouterTypes
  BY RouteTypes DEF OrderInv
<1>2. ASSUME request' = None \/ UNCHANGED <<request, chain>> PROVE ChainInOrder'
  BY <1>2, MarksKeepChain DEF OrderInv, ChainInOrder, Routing
<1>3. ASSUME chain # <<>>, Head(chain) \in Client, ~health'[Head(chain)],
             chain' = Tail(chain), UNCHANGED request
      PROVE  ChainInOrder'
  <2>1. chain \in Seq(Asked) /\ request \in Request /\ request # None
    BY <1>1, <1>3, InRequest, NoneAssumption DEF RouterTypes, TypeOK, Asked
  <2>2. InChain(Routing(request), chain, health')
    BY <2>1, MarksKeepChain DEF OrderInv, ChainInOrder
  <2>3. InChain(Routing(request), chain', health')
    BY <1>3, <2>1, <2>2, TailInChain
  <2> QED
    BY <1>3, <2>3 DEF ChainInOrder, Routing
<1>4. ASSUME \A k \in DOMAIN cache' : k \in DOMAIN cache /\ cache'[k] = cache[k]
      PROVE  \A k \in DOMAIN cache' : InOrder(cache[k])'
  BY <1>4, StaysInOrder DEF OrderInv
<1>5. ASSUME result' = result \/ result'.kind # "response" PROVE FallbackInOrder'
  <2>1. CASE result'.kind # "response"
    BY <2>1 DEF FallbackInOrder, Answered
  <2>2. CASE result' = result /\ result.kind = "response"
    <3>1. InOrder(result.response)
      BY <2>2 DEF OrderInv, FallbackInOrder, Answered
    <3>2. InOrder(result.response)'
      BY <2>2, <3>1 DEF InOrder, Routing
    <3> QED
      BY <3>2 DEF FallbackInOrder
  <2> QED
    BY <1>5, <2>1, <2>2
<1>6. ASSUME NEW r \in Request, CacheHit(r) PROVE OrderInv'
  <2>1. /\ UNCHANGED <<cache, health, request, chain>> /\ result'.kind = "response"
        /\ result'.response = cache[CacheKey(r)] /\ CacheKey(r) \in DOMAIN cache
    BY <1>6 DEF CacheHit, Finish, Cached
  <2>2. InOrder(result'.response)
    BY <2>1 DEF OrderInv
  <2>3. InOrder(result.response)'
    BY <2>1, <2>2 DEF InOrder, Routing
  <2> QED
    BY <1>1, <1>2, <1>4, <2>1, <2>3 DEF OrderInv, FallbackInOrder
<1>7. ASSUME NEW r \in Request, Start(r) PROVE OrderInv'
  <2>1. /\ request' = r /\ chain' = AttemptChain(r, get_mode_for_task(r.task) = "LOCAL")
        /\ result'.kind # "response" /\ cache' = Without(cache, CacheKey(r))
    BY <1>7 DEF Start, Missed, Chain
  <2>2. ChainInOrder'
    <3> DEFINE local_mode == get_mode_for_task(r.task) = "LOCAL"
               order == Routing(r)
               new == AttemptChain(r, local_mode)
    <3>1. local_mode \in BOOLEAN
      OBVIOUS
    <3> HIDE DEF local_mode
    <3>2. \A m \in 1 .. Len(new) : \E i \in DOMAIN order :
                /\ order[i] = new[m]
                /\ \A j \in 1 .. i - 1 : order[j] \in Client =>
                      \E l \in 1 .. m - 1 : new[l] = order[j]
      BY <3>1, ChainOfRequest
    <3>3. InChain(order, new, health')
      BY <3>2 DEF InChain
    <3>4. chain' = new
      BY <2>1 DEF local_mode
    <3> QED
      BY <2>1, <3>3, <3>4 DEF ChainInOrder, Routing
  <2>3. \A k \in DOMAIN cache' : k \in DOMAIN cache /\ cache'[k] = cache[k]
    BY <2>1 DEF Without
  <2> QED
    BY <1>1, <1>4, <1>5, <2>1, <2>2, <2>3 DEF OrderInv
<1>8. ASSUME NEW r \in Request, stream_route(r) PROVE OrderInv'
  <2>1. UNCHANGED <<cache, health, request, chain>> /\ result'.kind # "response"
    BY <1>8 DEF stream_route
  <2> QED
    BY <1>1, <1>2, <1>4, <1>5, <2>1 DEF OrderInv
<1>9. CASE LocalRule
  <2>1. /\ UNCHANGED <<cache, health>> /\ request' = None
        /\ result'.response = [model |-> "local_rule_engine", by |-> "local_rule",
                                for |-> request, at |-> now]
    BY <1>9 DEF LocalRule, Finish, End
  <2>2. InOrder(result.response)'
    BY <2>1 DEF InOrder, Client
  <2> QED
    BY <1>1, <1>2, <1>4, <2>1, <2>2 DEF OrderInv, FallbackInOrder
<1>10. CASE Skip
  <2>1. /\ UNCHANGED <<cache, health, request, result>> /\ chain' = Tail(chain)
        /\ chain # <<>> /\ Head(chain) \in Client /\ ~health[Head(chain)]
    BY <1>10 DEF Skip
  <2> QED
    BY <1>1, <1>3, <1>4, <1>5, <2>1 DEF OrderInv
<1>11. ASSUME NEW c \in Client, Fails(c) PROVE OrderInv'
  <2>1. /\ UNCHANGED <<cache, request, result>> /\ chain' = Tail(chain)
        /\ chain # <<>> /\ Head(chain) = c /\ health' = [health EXCEPT ![c] = FALSE]
    BY <1>11 DEF Fails, Calls
  <2>2. ~health'[c]
    BY <1>1, <2>1 DEF RouterTypes, TypeOK
  <2> QED
    BY <1>1, <1>3, <1>4, <1>5, <2>1, <2>2 DEF OrderInv
<1>12. ASSUME NEW c \in Client, Succeeds(c) PROVE OrderInv'
  <2>0. PICK m \in ModelNames[c] : ChargedAnswer(c, m)
    BY <1>12, SuccessAnswers
  <2> DEFINE new == [model |-> m, by |-> c, for |-> request, at |-> now]
             key == CacheKey(request)
  <2>1. /\ chain # <<>> /\ Head(chain) = c /\ request' = None
        /\ result'.response = new
        /\ cache' = [k \in DOMAIN cache \union {key} |-> IF k = key THEN new ELSE cache[k]]
    BY <1>12, <2>0 DEF Succeeds, Calls, End, ChargedAnswer
  <2>2. request # None /\ chain[1] = c /\ 1 \in 1 .. Len(chain)
    <3>1. chain \in Seq(Asked) /\ request # None
      BY <1>1, <2>1, InRequest, NoneAssumption DEF RouterTypes, TypeOK, Asked
    <3> QED
      BY <2>1, <3>1
  <2>3. PICK i \in DOMAIN Routing(request) :
            /\ Routing(request)[i] = c
            /\ \A j \in 1 .. i - 1 : Routing(request)[j] \in Client => ~health[Routing(request)[j]]
    <3>1. InChain(Routing(request), chain, health)
      BY <2>2 DEF OrderInv, ChainInOrder
    <3>2. \A l \in 1 .. 1 - 1 : FALSE
      OBVIOUS
    <3> QED
      BY <2>2, <3>1, <3>2 DEF InChain
  <2>4. InOrder(new)
    BY <2>3 DEF InOrder
  <2> HIDE DEF new, key
  <2>5. \A k \in DOMAIN cache' : InOrder(cache[k])'
    <3>1. \A k \in DOMAIN cache' : InOrder(cache'[k])
      BY <2>1, <2>4 DEF OrderInv
    <3> QED
      BY <3>1, StaysInOrder
  <2>6. InOrder(result.response)'
    BY <2>1, <2>4, StaysInOrder
  <2> QED
    BY <1>1, <1>2, <2>1, <2>5, <2>6 DEF OrderInv, FallbackInOrder
<1>13. ASSUME NEW c \in Client, RejectsCall(c) PROVE OrderInv'
  <2>1. UNCHANGED <<cache, health>> /\ request' = None /\ result'.kind # "response"
    BY <1>13 DEF RejectsCall, Finish, End
  <2> QED
    BY <1>1, <1>2, <1>4, <1>5, <2>1 DEF OrderInv
<1>14. CASE Exhausted
  <2>1. UNCHANGED <<cache, health>> /\ request' = None /\ result'.kind # "response"
    BY <1>14 DEF Exhausted, Finish, End
  <2> QED
    BY <1>1, <1>2, <1>4, <1>5, <2>1 DEF OrderInv
<1>15. CASE cache_clear \/ Tick
  <2>1. /\ UNCHANGED <<health, request, chain, result>>
        /\ \A k \in DOMAIN cache' : k \in DOMAIN cache /\ cache'[k] = cache[k]
    BY <1>15 DEF cache_clear, Tick
  <2> QED
    BY <1>1, <1>2, <1>4, <1>5, <2>1 DEF OrderInv
<1>16. ASSUME NEW r \in Request, NoClient(r) PROVE OrderInv'
  <2>1. /\ UNCHANGED <<request, chain>> /\ result'.kind # "response"
        /\ \A k \in DOMAIN cache' : k \in DOMAIN cache /\ cache'[k] = cache[k]
    BY <1>16 DEF NoClient, Missed, Without, Finish
  <2> QED
    BY <1>1, <1>2, <1>4, <1>5, <2>1 DEF OrderInv
<1> QED
  BY <1>6, <1>7, <1>8, <1>9, <1>10, <1>11, <1>12, <1>13, <1>14, <1>15, <1>16 DEF RouteNext
\* A step, also one of the mode switch, keeps the order.
LEMMA StepInOrder == OrderInv /\ [Next]_vars => OrderInv'
<1> SUFFICES ASSUME OrderInv, [Next]_vars PROVE OrderInv'
  OBVIOUS
<1>1. CASE RouteNext
  <2>1. \A c \in Client : ~health[c] => ~health'[c]
    BY FailedKept DEF OrderInv
  <2> QED
    BY <1>1, <2>1, RouteInOrder
<1>2. CASE UNCHANGED routerVars
  <2>1. UNCHANGED <<cache, health, costs, now, request, chain, result>>
    BY <1>2 DEF routerVars
  <2>2. RouterTypes'
    BY <2>1 DEF OrderInv, RouterTypes, TypeOK
  <2>3. ChainInOrder'
    BY <2>1 DEF OrderInv, ChainInOrder, Routing
  <2>4. (\A k \in DOMAIN cache : InOrder(cache[k]))'
    BY <2>1, StaysInOrder DEF OrderInv
  <2>5. FallbackInOrder'
    BY <2>1, StaysInOrder DEF OrderInv, FallbackInOrder, Answered
  <2> QED
    BY <2>2, <2>3, <2>4, <2>5 DEF OrderInv
<1> QED
  BY <1>1, <1>2 DEF Next, vars

\* What is cached, returned and left to be tried is in order, at all times.
LEMMA OrderInvariant == Spec => []OrderInv
BY InitInOrder, StepInOrder, PTL DEF Spec

\* Whatever the tasks and preferences are, and however late it is returned from
\* the cache: whoever stands before the client that made a response in the
\* routing of its request has failed, and is still marked (route's chain).
THEOREM AnsweredInOrder == Spec => []FallbackInOrder
<1>1. OrderInv => FallbackInOrder
  BY DEF OrderInv
<1> QED
  BY <1>1, OrderInvariant, PTL
-----------------------------------------------------------------------------
\* Every client of a routing is marked, or is still to be tried.
Covers(order, left, h) ==
    \A i \in DOMAIN order : order[i] \in Client =>
        ~h[order[i]] \/ \E l \in 1 .. Len(left) : left[l] = order[i]

GiveUpInv ==
    /\ RouterTypes
    /\ request # None => Covers(Routing(request), chain, health)
    /\ GivesUpWhenAllFailed

\* What is not said anew stays true when marks of failure are added.
LEMMA MarksKeepGivingUp ==
    ASSUME GiveUpInv, \A c \in Client : ~health[c] => ~health'[c],
           result' = result \/ result'.kind # "ModelClientError"
    PROVE  GivesUpWhenAllFailed'
BY DEF GiveUpInv, GivesUpWhenAllFailed, Routing

LEMMA MarksKeepCover ==
    ASSUME GiveUpInv, \A c \in Client : ~health[c] => ~health'[c],
           request' = None \/ UNCHANGED <<request, chain>>
    PROVE  request' # None => Covers(Routing(request), chain, health)'
BY DEF GiveUpInv, Covers, Routing

\* A client that is marked need not be tried.
LEMMA TailCovers ==
    ASSUME GiveUpInv, \A c \in Client : ~health[c] => ~health'[c],
           chain # <<>>, Head(chain) \in Client => ~health'[Head(chain)],
           chain' = Tail(chain), UNCHANGED request
    PROVE  Covers(Routing(request), chain, health)'
<1> DEFINE order == Routing(request)
           n == Len(chain)
<1>1. chain \in Seq(Asked) /\ request \in Request /\ request # None
  BY InRequest, NoneAssumption DEF GiveUpInv, RouterTypes, TypeOK, Asked
<1>2. Covers(order, chain, health)
  BY <1>1 DEF GiveUpInv
<1>3. /\ n \in Nat /\ n # 0 /\ Head(chain) = chain[1]
      /\ Len(chain') = n - 1 /\ \A m \in 1 .. n - 1 : chain'[m] = chain[m + 1]
  BY <1>1
<1> HIDE DEF order, n
<1>4. ASSUME NEW i \in DOMAIN order, order[i] \in Client, health'[order[i]]
      PROVE  \E l \in 1 .. Len(chain') : chain'[l] = order[i]
  <2>1. health[order[i]]
    BY <1>4
  <2>2. PICK l \in 1 .. n : chain[l] = order[i]
    BY <1>2, <1>4, <2>1 DEF Covers, n
  <2>3. l # 1
    BY <1>3, <1>4, <2>2
  <2>4. l - 1 \in 1 .. n - 1 /\ (l - 1) + 1 = l
    BY <1>3, <2>3
  <2> QED
    BY <1>3, <2>2, <2>4
<1>5. Covers(order, chain', health')
  BY <1>4 DEF Covers
<1>6. order = Routing(request)'
  BY DEF order, Routing
<1> QED
  BY <1>5, <1>6 DEF Covers

\* Every operation keeps it: what is not in the chain has failed or is no client.
LEMMA RouteGivesUp ==
    ASSUME GiveUpInv, RouteNext, \A c \in Client : ~health[c] => ~health'[c]
    PROVE  GiveUpInv'
<1>1. RouterTypes' /\ RouterTypes
  BY RouteTypes DEF GiveUpInv
<1> DEFINE Same == request' = None \/ UNCHANGED <<request, chain>>
           Silent == result' = result \/ result'.kind # "ModelClientError"
<1>2. ASSUME Same, Silent PROVE GiveUpInv'
  BY <1>1, <1>2, MarksKeepCover, MarksKeepGivingUp DEF GiveUpInv
<1>3. ASSUME NEW r \in Request, CacheHit(r) \/ stream_route(r) PROVE Same /\ Silent
  <2>1. UNCHANGED <<request, chain>>
    BY <1>3 DEF CacheHit, stream_route
  <2>2. result'.kind # "ModelClientError"
    <3>1. CASE CacheHit(r)
      BY <3>1 DEF CacheHit, Finish
    <3>2. CASE stream_route(r)
      BY <3>2, StreamEnds
    <3> QED
      BY <1>3, <3>1, <3>2
  <2> QED
    BY <2>1, <2>2
<1>4. ASSUME NEW c \in Client, Succeeds(c) \/ RejectsCall(c) PROVE Same /\ Silent
  <2>1. request' = None
    BY <1>4 DEF Succeeds, RejectsCall, End
  <2>2. CASE Succeeds(c)
    <3>1. PICK m \in ModelNames[c] : ChargedAnswer(c, m)
      BY <2>2, SuccessAnswers
    <3>2. result'.kind = "response"
      BY <3>1 DEF ChargedAnswer
    <3> QED
      BY <2>1, <3>2
  <2>3. CASE RejectsCall(c)
    <3>1. result'.kind = "TypeError"
      BY <2>3 DEF RejectsCall, Finish
    <3> QED
      BY <2>1, <3>1
  <2> QED
    BY <1>4, <2>2, <2>3
<1>5. CASE LocalRule \/ cache_clear \/ Tick
  <2>1. Same /\ Silent
    BY <1>5 DEF LocalRule, cache_clear, Tick, Finish, End
  <2> QED
    BY <1>2, <2>1
<1>6. ASSUME NEW r \in Request, Start(r) PROVE GiveUpInv'
  <2> DEFINE local_mode == get_mode_for_task(r.task) = "LOCAL"
  <2>1. request' = r /\ chain' = AttemptChain(r, local_mode) /\ result'.kind = "none"
    BY <1>6 DEF Start, Chain
  <2>2. local_mode \in BOOLEAN
    OBVIOUS
  <2> HIDE DEF local_mode
  <2>3. Covers(Routing(r), chain', health')
    BY <2>1, <2>2, ChainCovers DEF Covers
  <2>4. Covers(Routing(request), chain, health)'
    BY <2>1, <2>3 DEF Covers, Routing
  <2>5. GivesUpWhenAllFailed'
    BY <2>1 DEF GivesUpWhenAllFailed
  <2> QED
    BY <1>1, <2>4, <2>5 DEF GiveUpInv
<1>7. ASSUME NEW r \in Request, NoClient(r) PROVE GiveUpInv'
  <2> DEFINE local_mode == get_mode_for_task(r.task) = "LOCAL"
  <2>1. /\ AttemptChain(r, local_mode) = <<>> /\ UNCHANGED <<request, chain>>
        /\ result' = [kind |-> "ModelClientError", request |-> r, response |-> None]
    BY <1>7 DEF NoClient, Missed, Chain, Finish
  <2>2. local_mode \in BOOLEAN
    OBVIOUS
  <2> HIDE DEF local_mode
  <2>3. \A i \in DOMAIN Routing(r) : Routing(r)[i] \notin Client
    <3>1. \A l \in 1 .. Len(<<>>) : FALSE
      OBVIOUS
    <3> QED
      BY <2>1, <2>2, <3>1, ChainCovers
  <2>4. GivesUpWhenAllFailed'
    BY <2>1, <2>3 DEF GivesUpWhenAllFailed, Routing
  <2>5. request' # None => Covers(Routing(request), chain, health)'
    BY <2>1, MarksKeepCover
  <2> QED
    BY <1>1, <2>4, <2>5 DEF GiveUpInv
<1>8. CASE Skip
  <2>1. /\ UNCHANGED <<health, request, result>> /\ chain' = Tail(chain)
        /\ chain # <<>> /\ ~health[Head(chain)]
    BY <1>8 DEF Skip
  <2>2. Covers(Routing(request), chain, health)'
    BY <2>1, TailCovers
  <2> QED
    BY <1>1, <2>1, <2>2, MarksKeepGivingUp DEF GiveUpInv
<1>9. ASSUME NEW c \in Client, Fails(c) PROVE GiveUpInv'
  <2>1. /\ UNCHANGED <<request, result>> /\ chain' = Tail(chain)
        /\ chain # <<>> /\ Head(chain) = c /\ health' = [health EXCEPT ![c] = FALSE]
    BY <1>9 DEF Fails, Calls
  <2>2. ~health'[c]
    BY <1>1, <2>1 DEF RouterTypes, TypeOK
  <2>3. Covers(Routing(request), chain, health)'
    BY <2>1, <2>2, TailCovers
  <2> QED
    BY <1>1, <2>1, <2>3, MarksKeepGivingUp DEF GiveUpInv
<1>10. CASE Exhausted
  <2>1. /\ request # None /\ chain = <<>> /\ UNCHANGED health /\ request' = None
        /\ result' = [kind |-> "ModelClientError", request |-> request, response |-> None]
    BY <1>10 DEF Exhausted, Finish, End
  <2>2. \A i \in DOMAIN Routing(request) :
            Routing(request)[i] \in Client => ~health[Routing(request)[i]]
    <3>1. \A l \in 1 .. Len(<<>>) : FALSE
      OBVIOUS
    <3> QED
      BY <2>1, <3>1 DEF GiveUpInv, Covers
  <2>3. GivesUpWhenAllFailed'
    BY <2>1, <2>2 DEF GivesUpWhenAllFailed, Routing
  <2> QED
    BY <1>1, <2>1, <2>3 DEF GiveUpInv
<1> HIDE DEF Same, Silent
<1> QED
  BY <1>2, <1>3, <1>4, <1>5, <1>6, <1>7, <1>8, <1>9, <1>10 DEF RouteNext

\* When route gives up, whatever was preferred and whatever the mode was when the
\* chain was made: all the clients of the request's routing are marked, and
\* none was left out (attempt_chain, and the loop that never breaks off).
THEOREM GivesUpHonestly == Spec => []GivesUpWhenAllFailed
<1>1. Init => GiveUpInv
  BY InitTypes DEF Init, GiveUpInv, GivesUpWhenAllFailed
<1>2. GiveUpInv /\ [Next]_vars => GiveUpInv'
  <2> SUFFICES ASSUME GiveUpInv, [Next]_vars PROVE GiveUpInv'
    OBVIOUS
  <2>1. \A c \in Client : ~health[c] => ~health'[c]
    BY FailedKept DEF GiveUpInv
  <2>2. CASE RouteNext
    BY <2>1, <2>2, RouteGivesUp
  <2>3. CASE UNCHANGED routerVars
    <3>1. UNCHANGED <<request, chain, result>>
      BY <2>3 DEF routerVars
    <3> QED
      BY <2>1, <3>1, StepTypes, MarksKeepCover, MarksKeepGivingUp DEF GiveUpInv
  <2> QED
    BY <2>2, <2>3 DEF Next, vars
<1>3. GiveUpInv => GivesUpWhenAllFailed
  BY DEF GiveUpInv
<1> QED
  BY <1>1, <1>2, <1>3, PTL DEF Spec
-----------------------------------------------------------------------------
\* The keys of the responses for branch b that name a model of M, and the records
\* of the branch that do.
Made(b, M) == {k \in DOMAIN cache : cache[k].for.branch = b /\ cache[k].model \in M}

Records(b, M) == {i \in DOMAIN costs[b] : costs[b][i] \in M}

\* A response in the cache has been charged, counted over any models.
ChargeInv ==
    /\ RouterTypes
    /\ IsFiniteSet(DOMAIN cache)
    /\ \A b \in Branch, M \in SUBSET ModelName :
            Cardinality(Made(b, M)) <= Cardinality(Records(b, M))

\* What is counted is finite.
LEMMA CountsAreFinite ==
    ASSUME ChargeInv, NEW b \in Branch, NEW M
    PROVE  IsFiniteSet(Made(b, M)) /\ IsFiniteSet(Records(b, M))
<1>1. Made(b, M) \subseteq DOMAIN cache
  BY DEF Made
<1>2. costs[b] \in Seq(ModelName)
  BY DEF ChargeInv, RouterTypes, TypeOK
<1>3. DOMAIN costs[b] = 1 .. Len(costs[b]) /\ Len(costs[b]) \in Nat
  BY <1>2
<1>4. Records(b, M) \subseteq 1 .. Len(costs[b])
  BY <1>3 DEF Records
<1>5. IsFiniteSet(1 .. Len(costs[b]))
  <2> DEFINE n == Len(costs[b])
  <2>1. n \in Nat /\ 1 \in Int /\ n \in Int
    BY <1>3
  <2> HIDE DEF n
  <2>2. IsFiniteSet(1 .. n)
    BY <2>1, FS_Interval
  <2> QED
    BY <2>2 DEF n
<1> QED
  BY <1>1, <1>4, <1>5, FS_Subset DEF ChargeInv

\* No more of the first and no fewer of the second.
LEMMA CountsStay ==
    ASSUME NEW A, NEW B, IsFiniteSet(A), IsFiniteSet(B), Cardinality(A) <= Cardinality(B),
           NEW A1, A1 \subseteq A
    PROVE  Cardinality(A1) <= Cardinality(B)
<1>1. IsFiniteSet(A1) /\ Cardinality(A1) <= Cardinality(A)
  BY FS_Subset
<1>2. Cardinality(A1) \in Nat /\ Cardinality(A) \in Nat /\ Cardinality(B) \in Nat
  BY <1>1, FS_CardinalityType
<1> QED
  BY <1>1, <1>2

\* At most one more of the first and one more of the second.
LEMMA CountsGrow ==
    ASSUME NEW A, NEW B, IsFiniteSet(A), IsFiniteSet(B), Cardinality(A) <= Cardinality(B),
           NEW x, NEW y, y \notin B, NEW A1, A1 \subseteq A \union {x}
    PROVE  Cardinality(A1) <= Cardinality(B \union {y})
<1>0. Cardinality(A) \in Nat /\ Cardinality(B) \in Nat
  BY FS_CardinalityType
<1>1. IsFiniteSet(A \union {x}) /\ IsFiniteSet(B \union {y})
  BY FS_AddElement
<1>2. /\ Cardinality(A \union {x}) \in Nat /\ Cardinality(A \union {x}) <= Cardinality(A) + 1
      /\ Cardinality(B \union {y}) = Cardinality(B) + 1
  <2>1. Cardinality(A \union {x}) = Cardinality(A) \/ Cardinality(A \union {x}) = Cardinality(A) + 1
    BY FS_AddElement
  <2>2. Cardinality(B \union {y}) = Cardinality(B) + 1
    BY FS_AddElement
  <2> QED
    BY <1>0, <2>1, <2>2
<1>3. Cardinality(A \union {x}) <= Cardinality(B \union {y})
  BY <1>0, <1>2
<1> QED
  BY <1>1, <1>3, CountsStay

\* Fewer responses and the same records: nothing to be charged for any more.
LEMMA FewerMade ==
    ASSUME ChargeInv, RouterTypes', \A k \in DOMAIN cache' : k \in DOMAIN cache /\ cache'[k] = cache[k],
           UNCHANGED costs
    PROVE  ChargeInv'
<1>1. DOMAIN cache' \subseteq DOMAIN cache
  OBVIOUS
<1>2. IsFiniteSet(DOMAIN cache')
  BY <1>1, FS_Subset DEF ChargeInv
<1>3. ASSUME NEW b \in Branch, NEW M \in SUBSET ModelName
      PROVE  Cardinality(Made(b, M)') <= Cardinality(Records(b, M)')
  <2>1. Made(b, M)' \subseteq Made(b, M) /\ Records(b, M)' = Records(b, M)
    BY DEF Made, Records
  <2>2. /\ IsFiniteSet(Made(b, M)) /\ IsFiniteSet(Records(b, M))
        /\ Cardinality(Made(b, M)) <= Cardinality(Records(b, M))
    BY CountsAreFinite DEF ChargeInv
  <2> QED
    BY <2>1, <2>2, CountsStay
<1> QED
  BY <1>2, <1>3 DEF ChargeInv

\* A new response is one more, and so is its charge.
LEMMA SuccessCharged ==
    ASSUME ChargeInv, RouterTypes', NEW c \in Client, Succeeds(c)
    PROVE  ChargeInv'
<1>0. PICK m \in ModelNames[c] : ChargedAnswer(c, m)
  BY SuccessAnswers
<1> DEFINE new == [model |-> m, by |-> c, for |-> request, at |-> now]
           key == CacheKey(request)
           branch == request.branch
           n == Len(costs[branch])
<1>1. branch \in Branch /\ m \in ModelName
  BY <1>0, InRequest, RequestAssumption DEF Succeeds, Calls, ChargeInv, ChargedAnswer
<1>2. cache' = [k \in DOMAIN cache \union {key} |-> IF k = key THEN new ELSE cache[k]]
  BY <1>0 DEF ChargedAnswer
<1>3. /\ costs'[branch] = Append(costs[branch], m) /\ costs[branch] \in Seq(ModelName)
      /\ \A a \in Branch : a # branch => costs'[a] = costs[a]
  BY <1>0, <1>1, ChargeTypes DEF ChargedAnswer, ChargeInv, RouterTypes, TypeOK
<1>4. new.model = m /\ new.for.branch = branch
  OBVIOUS
<1> HIDE DEF new, key, branch
<1>5. /\ n \in Nat /\ DOMAIN costs[branch] = 1 .. n /\ DOMAIN costs'[branch] = 1 .. n + 1
      /\ costs'[branch][n + 1] = m /\ \A i \in 1 .. n : costs'[branch][i] = costs[branch][i]
  BY <1>1, <1>3
<1> HIDE DEF n
<1>6. DOMAIN cache' = DOMAIN cache \union {key}
  BY <1>2
<1>7. IsFiniteSet(DOMAIN cache')
  BY <1>6, FS_AddElement DEF ChargeInv
<1>8. ASSUME NEW b \in Branch, NEW M \in SUBSET ModelName
      PROVE  Cardinality(Made(b, M)') <= Cardinality(Records(b, M)')
  <2>1. /\ IsFiniteSet(Made(b, M)) /\ IsFiniteSet(Records(b, M))
        /\ Cardinality(Made(b, M)) <= Cardinality(Records(b, M))
    BY CountsAreFinite DEF ChargeInv
  <2>2. CASE b = branch /\ m \in M
    <3>1. Made(b, M)' \subseteq Made(b, M) \union {key}
      BY <1>2 DEF Made
    <3>2. n + 1 \notin Records(b, M)
      BY <1>5, <2>2 DEF Records
    <3>3. Records(b, M)' = Records(b, M) \union {n + 1}
      <4>1. ASSUME NEW i PROVE i \in Records(b, M)' <=> i \in Records(b, M) \/ i = n + 1
        <5>1. i \in 1 .. n + 1 <=> i \in 1 .. n \/ i = n + 1
          BY <1>5
        <5> QED
          BY <1>5, <2>2, <5>1 DEF Records
      <4> QED
        BY <4>1
    <3> QED
      BY <2>1, <3>1, <3>2, <3>3, CountsGrow
  <2>3. CASE ~(b = branch /\ m \in M)
    <3>1. Made(b, M)' \subseteq Made(b, M)
      BY <1>2, <1>4, <2>3 DEF Made
    <3>2. Records(b, M)' = Records(b, M)
      <4>1. CASE b # branch
        BY <1>3, <4>1 DEF Records
      <4>2. CASE b = branch /\ m \notin M
        <5>1. ASSUME NEW i PROVE i \in Records(b, M)' <=> i \in Records(b, M)
          <6>1. i \in 1 .. n + 1 <=> i \in 1 .. n \/ i = n + 1
            BY <1>5
          <6> QED
            BY <1>5, <4>2, <6>1 DEF Records
        <5> QED
          BY <5>1
      <4> QED
        BY <2>3, <4>1, <4>2
    <3> QED
      BY <2>1, <3>1, <3>2, CountsStay
  <2> QED
    BY <2>2, <2>3
<1> QED
  BY <1>7, <1>8 DEF ChargeInv

\* Every step keeps the charges.
LEMMA StepCharged == ChargeInv /\ [Next]_vars => ChargeInv'
<1> SUFFICES ASSUME ChargeInv, [Next]_vars PROVE ChargeInv'
  OBVIOUS
<1>1. CASE RouteNext
  <2>1. RouterTypes'
    BY <1>1, RouteTypes DEF ChargeInv
  <2>2. CASE \E c \in Client : Succeeds(c)
    BY <2>1, <2>2, SuccessCharged
  <2>3. CASE ~\E c \in Client : Succeeds(c)
    <3>1. ASSUME NEW r \in Request, CacheHit(r) \/ Start(r) \/ NoClient(r) \/ stream_route(r)
          PROVE  UNCHANGED costs /\ \A k \in DOMAIN cache' : k \in DOMAIN cache /\ cache'[k] = cache[k]
      BY <3>1 DEF CacheHit, Start, NoClient, Missed, stream_route, Without
    <3>2. ASSUME NEW c \in Client, Fails(c) \/ RejectsCall(c)
          PROVE  UNCHANGED costs /\ \A k \in DOMAIN cache' : k \in DOMAIN cache /\ cache'[k] = cache[k]
      BY <3>2 DEF Fails, RejectsCall
    <3>3. ASSUME LocalRule \/ Skip \/ Exhausted \/ cache_clear \/ Tick
          PROVE  UNCHANGED costs /\ \A k \in DOMAIN cache' : k \in DOMAIN cache /\ cache'[k] = cache[k]
      BY <3>3 DEF LocalRule, Skip, Exhausted, cache_clear, Tick
    <3> QED
      BY <1>1, <2>1, <2>3, <3>1, <3>2, <3>3, FewerMade DEF RouteNext
  <2> QED
    BY <2>2, <2>3
<1>2. CASE UNCHANGED routerVars
  <2>1. UNCHANGED <<cache, health, costs, now, request, chain, result>>
    BY <1>2 DEF routerVars
  <2>2. RouterTypes'
    BY <2>1 DEF ChargeInv, RouterTypes, TypeOK
  <2> QED
    BY <2>1, <2>2, FewerMade
<1> QED
  BY <1>1, <1>2 DEF Next, vars
\* Every response the cache holds has been charged, as often as it is held, to
\* its branch and its model, for any number of entries (_record_cost).
THEOREM CacheIsCharged == Spec => []CachedWasCharged
<1>1. Init => ChargeInv
  <2> SUFFICES ASSUME Init PROVE ChargeInv
    OBVIOUS
  <2>1. RouterTypes /\ DOMAIN cache = {}
    BY InitTypes DEF Init
  <2>2. IsFiniteSet({}) /\ Cardinality({}) = 0
    BY FS_EmptySet
  <2>3. ASSUME NEW b \in Branch, NEW M PROVE Made(b, M) = {} /\ Records(b, M) = {}
    <3>1. DOMAIN costs[b] = {}
      BY DEF Init
    <3> QED
      BY <2>1, <3>1 DEF Made, Records
  <2>4. 0 <= 0
    OBVIOUS
  <2>5. ASSUME NEW b \in Branch, NEW M \in SUBSET ModelName
        PROVE  Cardinality(Made(b, M)) <= Cardinality(Records(b, M))
    BY <2>2, <2>3, <2>4
  <2> QED
    BY <2>1, <2>2, <2>5 DEF ChargeInv
<1>2. ChargeInv => CachedWasCharged
  <2> SUFFICES ASSUME ChargeInv, NEW b \in Branch
               PROVE  LET summary == get_cost_summary(b)
                          mine == {k \in DOMAIN cache : cache[k].for.branch = b}
                      IN  /\ Cardinality(mine) <= summary.total_calls
                          /\ \A k \in mine :
                                /\ cache[k].model \in DOMAIN summary.by_model
                                /\ Cardinality({l \in mine : cache[l].model = cache[k].model})
                                        <= summary.by_model[cache[k].model].calls
    BY DEF CachedWasCharged
  <2> DEFINE mine == {k \in DOMAIN cache : cache[k].for.branch = b}
             calls(m) == {i \in DOMAIN costs[b] : costs[b][i] = m}
             by_model == [m \in {costs[b][i] : i \in DOMAIN costs[b]} |->
                              [calls |-> Cardinality(calls(m))]]
  <2>1. /\ \A k \in DOMAIN cache : cache[k].model \in ModelName
        /\ costs[b] \in Seq(ModelName)
    BY DEF ChargeInv, RouterTypes, TypeOK, Response
  <2>2. Cardinality(mine) <= Len(costs[b])
    <3>1. mine = Made(b, ModelName)
      BY <2>1 DEF Made
    <3>2. Records(b, ModelName) = 1 .. Len(costs[b]) /\ Len(costs[b]) \in Nat
      BY <2>1 DEF Records
    <3>3. Cardinality(1 .. Len(costs[b])) = Len(costs[b])
      BY <3>2, FS_Interval
    <3>4. Cardinality(Made(b, ModelName)) <= Cardinality(Records(b, ModelName))
      BY DEF ChargeInv
    <3> QED
      BY <3>1, <3>2, <3>3, <3>4
  <2>3. ASSUME NEW k \in mine
        PROVE  /\ cache[k].model \in DOMAIN by_model
               /\ Cardinality({l \in mine : cache[l].model = cache[k].model})
                        <= by_model[cache[k].model].calls
    <3> DEFINE m == cache[k].model
    <3>1. m \in ModelName
      BY <2>1
    <3>2. /\ Made(b, {m}) = {l \in mine : cache[l].model = m} /\ k \in Made(b, {m})
          /\ Records(b, {m}) = calls(m)
      BY DEF Made, Records
    <3>3. Cardinality(Made(b, {m})) <= Cardinality(calls(m))
      <4>1. {m} \in SUBSET ModelName
        BY <3>1
      <4> HIDE DEF m, mine, calls
      <4> QED
        BY <3>2, <4>1 DEF ChargeInv
    <3>4. calls(m) # {}
      <4> HIDE DEF m, mine
      <4>1. IsFiniteSet(Made(b, {m})) /\ IsFiniteSet(calls(m))
        BY <3>2, CountsAreFinite
      <4>2. Cardinality(Made(b, {m})) \in Nat /\ Cardinality(Made(b, {m})) # 0
        BY <3>2, <4>1, FS_EmptySet, FS_CardinalityType
      <4>3. Cardinality({}) = 0
        BY FS_EmptySet
      <4> HIDE DEF calls
      <4> QED
        BY <3>3, <4>2, <4>3
    <3>5. m \in DOMAIN by_model /\ by_model[m].calls = Cardinality(calls(m))
      <4>1. m \in {costs[b][i] : i \in DOMAIN costs[b]}
        BY <3>4
      <4> QED
        BY <4>1
    <3>6. Cardinality({l \in mine : cache[l].model = m}) <= by_model[m].calls
      <4> HIDE DEF m, mine, calls, by_model
      <4> QED
        BY <3>2, <3>3, <3>5
    <3> HIDE DEF mine, by_model
    <3> QED
      BY <3>5, <3>6
  <2> QED
    BY <2>2, <2>3 DEF get_cost_summary
<1> QED
  BY <1>1, <1>2, StepCharged, PTL DEF Spec
-----------------------------------------------------------------------------
(***************************************************************************)
(* The cache key.                                                          *)
(***************************************************************************)
Symbol == Task \union Piece \union {":", "none"}

\* A text that has no separator in it.
Plain(x) == \A i \in 1 .. Len(x) : x[i] # ":"

\* One text after the other, and what it looks like.
After(x, y) == x \o y

Joins(z, x, y) ==
    /\ Len(x) \in Nat /\ Len(y) \in Nat /\ Len(z) = Len(x) + Len(y)
    /\ \A i \in 1 .. Len(x) : z[i] = x[i]
    /\ \A i \in 1 .. Len(y) : z[Len(x) + i] = y[i]

LEMMA AfterFacts ==
    ASSUME NEW U, NEW x \in Seq(U), NEW y \in Seq(U)
    PROVE  After(x, y) \in Seq(U) /\ Joins(After(x, y), x, y)
<1>1. /\ After(x, y) \in Seq(U) /\ Len(After(x, y)) = Len(x) + Len(y)
      /\ \A i \in 1 .. Len(x) + Len(y) : After(x, y)[i] = IF i <= Len(x) THEN x[i] ELSE y[i - Len(x)]
  BY ConcatProperties DEF After
<1>2. Len(x) \in Nat /\ Len(y) \in Nat
  OBVIOUS
<1>3. \A i \in 1 .. Len(x) : After(x, y)[i] = x[i]
  BY <1>1, <1>2
<1>4. ASSUME NEW i \in 1 .. Len(y) PROVE After(x, y)[Len(x) + i] = y[i]
  <2>1. Len(x) + i \in 1 .. Len(x) + Len(y) /\ ~(Len(x) + i <= Len(x)) /\ (Len(x) + i) - Len(x) = i
    BY <1>2
  <2> QED
    BY <1>1, <2>1
<1> QED
  BY <1>1, <1>2, <1>3, <1>4 DEF Joins

\* Texts that begin alike go on alike.
LEMMA SameRest ==
    ASSUME NEW U, NEW x \in Seq(U), NEW y \in Seq(U), NEW v \in Seq(U), NEW w \in Seq(U),
           Len(x) = Len(v), After(x, y) = After(v, w)
    PROVE  x = v /\ y = w
<1>1. Joins(After(x, y), x, y) /\ Joins(After(x, y), v, w)
  BY AfterFacts
<1> DEFINE z == After(x, y)
<1>2. /\ Len(x) = Len(v) /\ Len(x) \in Nat /\ Len(y) \in Nat /\ Len(w) \in Nat
      /\ Len(z) = Len(x) + Len(y) /\ Len(z) = Len(v) + Len(w)
      /\ \A i \in 1 .. Len(x) : z[i] = x[i]
      /\ \A i \in 1 .. Len(v) : z[i] = v[i]
      /\ \A i \in 1 .. Len(y) : z[Len(x) + i] = y[i]
      /\ \A i \in 1 .. Len(w) : z[Len(v) + i] = w[i]
  BY <1>1 DEF Joins
<1> HIDE DEF z
<1>3. \A i \in 1 .. Len(x) : x[i] = v[i]
  BY <1>2
<1>4. Len(y) = Len(w)
  BY <1>2
<1>5. \A i \in 1 .. Len(y) : y[i] = w[i]
  BY <1>2, <1>4
<1> QED
  BY <1>3, <1>4, <1>5, SeqEqual

\* A text with no separator begins where the last separator is.
LEMMA LastSeparator ==
    ASSUME NEW U, ":" \in U, NEW x \in Seq(U), NEW y \in Seq(U), NEW v \in Seq(U), NEW w \in Seq(U),
           Plain(y), Plain(w), After(After(x, <<":">>), y) = After(After(v, <<":">>), w)
    PROVE  x = v /\ y = w
<1> DEFINE n == Len(x)
           m == Len(v)
           sep == <<":">>
           a == After(x, sep)
           c == After(v, sep)
           z == After(a, y)
<1>1. sep \in Seq(U) /\ Len(sep) = 1 /\ sep[1] = ":"
  OBVIOUS
<1>2. z = After(c, w)
  OBVIOUS
<1> HIDE DEF sep
<1>3. a \in Seq(U) /\ Joins(a, x, sep) /\ c \in Seq(U) /\ Joins(c, v, sep)
  BY <1>1, AfterFacts
<1> HIDE DEF a, c
<1>4. Joins(z, a, y) /\ Joins(z, c, w)
  BY <1>2, <1>3, AfterFacts
<1> HIDE DEF z
<1>5. /\ n \in Nat /\ m \in Nat /\ Len(y) \in Nat /\ Len(w) \in Nat
      /\ Len(a) = n + 1 /\ a[n + 1] = ":" /\ Len(c) = m + 1 /\ c[m + 1] = ":"
  BY <1>1, <1>3 DEF Joins
<1>6. /\ Len(z) = (n + 1) + Len(y) /\ Len(z) = (m + 1) + Len(w)
      /\ z[n + 1] = ":" /\ z[m + 1] = ":"
      /\ \A i \in 1 .. Len(y) : z[(n + 1) + i] = y[i]
      /\ \A i \in 1 .. Len(w) : z[(m + 1) + i] = w[i]
  <2>1. n + 1 \in 1 .. (n + 1) /\ m + 1 \in 1 .. (m + 1)
    BY <1>5
  <2> QED
    BY <1>4, <1>5, <2>1 DEF Joins
<1> HIDE DEF n, m
<1>7. n = m
  <2>1. CASE n < m
    <3>1. m - n \in 1 .. Len(y) /\ (n + 1) + (m - n) = m + 1
      BY <1>5, <1>6, <2>1
    <3> QED
      BY <1>6, <3>1 DEF Plain
  <2>2. CASE m < n
    <3>1. n - m \in 1 .. Len(w) /\ (m + 1) + (n - m) = n + 1
      BY <1>5, <1>6, <2>2
    <3> QED
      BY <1>6, <3>1 DEF Plain
  <2> QED
    BY <1>5, <2>1, <2>2
<1>8. After(a, y) = After(c, w) /\ Len(a) = Len(c)
  BY <1>2, <1>5, <1>7 DEF z
<1>9. a = c /\ y = w
  BY <1>3, <1>8, SameRest
<1>10. x = v
  BY <1>1, <1>7, <1>9, SameRest DEF a, c, n, m
<1> QED
  BY <1>9, <1>10

\* Identifiers of branches and personas contain no separator, and no persona is
\* The key of a request whose branch and persona can be told apart is that of
\* one task, prompt, branch and persona.  Prompts are any text.
LEMMA KeyIsFaithful ==
    ASSUME NEW r \in Request, NEW s \in Request, Unambiguous(r), Unambiguous(s),
           CacheKey(r) = CacheKey(s)
    PROVE  /\ r.task = s.task /\ r.prompt = s.prompt /\ r.branch = s.branch
           /\ PersonaPart(r) = PersonaPart(s)
<1> DEFINE sep == <<":">>
           who(x) == PersonaPart(x)
           task(x) == <<x.task>>
           first(x) == After(task(x), sep)
           begin(x) == After(first(x), x.prompt)
           main(x) == After(After(begin(x), sep), x.branch)
<1>1. ASSUME NEW x \in Request, Unambiguous(x)
      PROVE  /\ x.task \in Symbol /\ x.prompt \in Seq(Symbol) /\ x.branch \in Seq(Symbol)
             /\ who(x) \in Seq(Symbol) /\ Plain(who(x)) /\ Plain(x.branch)
  <2>1. x.task \in Task /\ x.persona \in Persona \union {None}
    BY DEF Task, Persona
  <2>2. x.prompt \in Seq(Piece) /\ x.branch \in Seq(Piece) /\ (x.persona # None => x.persona \in Seq(Piece))
    BY <2>1, RequestAssumption, TextAssumption
  <2>3. ASSUME NEW t \in Seq(Piece) PROVE t \in Seq(Symbol) /\ DOMAIN t = 1 .. Len(t)
    <3>1. Piece \subseteq Symbol
      BY DEF Symbol
    <3> QED
      BY <3>1, SeqMonotonic
  <2>4. "none" \in Symbol /\ <<"none">> \in Seq(Symbol) /\ Plain(<<"none">>)
    BY DEF Symbol, Plain
  <2>5. x.prompt \in Seq(Symbol) /\ x.branch \in Seq(Symbol) /\ Plain(x.branch)
    BY <1>1, <2>2, <2>3 DEF Unambiguous, Plain
  <2>6. who(x) \in Seq(Symbol) /\ Plain(who(x))
    <3>1. CASE x.persona \in {None, <<>>}
      BY <2>4, <3>1 DEF PersonaPart
    <3>2. CASE x.persona \notin {None, <<>>}
      <4>1. x.persona \in Seq(Symbol) /\ Plain(x.persona)
        BY <1>1, <2>2, <2>3, <3>2 DEF Unambiguous, Plain
      <4> QED
        BY <3>2, <4>1 DEF PersonaPart
    <3> QED
      BY <3>1, <3>2
  <2> QED
    BY <2>1, <2>5, <2>6 DEF Symbol
<1>2. ":" \in Symbol /\ sep \in Seq(Symbol)
  BY DEF Symbol
<1>3. ASSUME NEW x \in Request, Unambiguous(x)
      PROVE  /\ CacheKey(x) = After(After(main(x), sep), who(x))
             /\ task(x) \in Seq(Symbol) /\ Len(task(x)) = 1
             /\ first(x) \in Seq(Symbol) /\ Len(first(x)) = 2
             /\ begin(x) \in Seq(Symbol) /\ main(x) \in Seq(Symbol)
  <2>1. CacheKey(x) = After(After(main(x), sep), who(x))
    BY DEF CacheKey, After
  <2>2. task(x) \in Seq(Symbol) /\ Len(task(x)) = 1 /\ Len(sep) = 1
    BY <1>1, <1>3
  <2> HIDE DEF sep, task
  <2>3. first(x) \in Seq(Symbol) /\ Len(first(x)) = 2
    <3>1. first(x) \in Seq(Symbol) /\ Joins(first(x), task(x), sep)
      BY <1>2, <2>2, AfterFacts
    <3> QED
      BY <2>2, <3>1 DEF Joins
  <2> HIDE DEF first
  <2>4. begin(x) \in Seq(Symbol)
    BY <1>1, <1>3, <2>3, AfterFacts
  <2> HIDE DEF begin
  <2>5. After(begin(x), sep) \in Seq(Symbol)
    BY <1>2, <2>4, AfterFacts
  <2>6. main(x) \in Seq(Symbol)
    BY <1>1, <1>3, <2>5, AfterFacts
  <2> QED
    BY <2>1, <2>2, <2>3, <2>4, <2>6
<1> HIDE DEF who, main
<1>4. main(r) = main(s) /\ who(r) = who(s)
  <2>1. After(After(main(r), sep), who(r)) = After(After(main(s), sep), who(s))
    BY <1>3
  <2>2. ":" \in Symbol /\ main(r) \in Seq(Symbol) /\ main(s) \in Seq(Symbol)
    BY <1>2, <1>3
  <2>3. who(r) \in Seq(Symbol) /\ who(s) \in Seq(Symbol) /\ Plain(who(r)) /\ Plain(who(s))
    BY <1>1
  <2> HIDE DEF begin, first, task
  <2> QED
    BY <2>1, <2>2, <2>3, LastSeparator
<1> HIDE DEF begin
<1>5. begin(r) = begin(s) /\ r.branch = s.branch
  <2>1. After(After(begin(r), sep), r.branch) = After(After(begin(s), sep), s.branch)
    BY <1>4 DEF main
  <2>2. ":" \in Symbol /\ begin(r) \in Seq(Symbol) /\ begin(s) \in Seq(Symbol)
    BY <1>2, <1>3
  <2>3. /\ r.branch \in Seq(Symbol) /\ s.branch \in Seq(Symbol)
        /\ Plain(r.branch) /\ Plain(s.branch)
    BY <1>1
  <2> HIDE DEF task, first
  <2> QED
    BY <2>1, <2>2, <2>3, LastSeparator
<1> HIDE DEF first
<1>6. first(r) = first(s) /\ r.prompt = s.prompt
  <2>1. After(first(r), r.prompt) = After(first(s), s.prompt)
    BY <1>5 DEF begin
  <2> QED
    BY <1>1, <1>3, <2>1, SameRest
<1> HIDE DEF task, sep
<1>7. task(r) = task(s)
  <2>1. After(task(r), sep) = After(task(s), sep)
    BY <1>6 DEF first
  <2> QED
    BY <1>2, <1>3, <2>1, SameRest<1> QED
  BY <1>4, <1>5, <1>6, <1>7 DEF task, who
-----------------------------------------------------------------------------
\* What the cache holds under a key was made for a request with this key.
KeyInv ==
    /\ RouterTypes
    /\ \A k \in DOMAIN cache : CacheKey(cache[k].for) = k
    /\ CacheIsolation

\* Nothing new is cached or answered: the keys stay right.
LEMMA FewerKeys ==
    ASSUME KeyInv, RouterTypes', \A k \in DOMAIN cache' : k \in DOMAIN cache /\ cache'[k] = cache[k],
           result' = result \/ result'.kind # "response"
    PROVE  KeyInv'
<1>1. \A k \in DOMAIN cache' : CacheKey(cache'[k].for) = k
  BY DEF KeyInv
<1>2. CacheIsolation'
  BY DEF KeyInv, CacheIsolation, Answered
<1> QED
  BY <1>1, <1>2 DEF KeyInv, CacheKey

\* What is cached already is returned for requests with its key, only.
LEMMA HitIsIsolated ==
    ASSUME KeyInv, NEW r \in Request, CacheHit(r)
    PROVE  CacheIsolation'
<1> DEFINE s == cache[CacheKey(r)].for
<1>1. /\ CacheKey(r) \in DOMAIN cache
      /\ result' = [kind |-> "response", request |-> r, response |-> cache[CacheKey(r)]]
  BY DEF CacheHit, Cached, Finish
<1>2. s \in Request /\ CacheKey(s) = CacheKey(r)
  BY <1>1 DEF KeyInv, RouterTypes, TypeOK, Response
<1>3. Unambiguous(r) /\ Unambiguous(s) =>
        /\ s.task = r.task /\ s.prompt = r.prompt /\ s.branch = r.branch
        /\ PersonaPart(s) = PersonaPart(r)
  <2> HIDE DEF s
  <2> QED
    BY <1>2, KeyIsFaithful
<1>4. result'.response.for = s /\ result'.request = r
  BY <1>1
<1> HIDE DEF s
<1> QED
  BY <1>3, <1>4 DEF CacheIsolation, Unambiguous, PersonaPart

\* A new response is cached under the key of the request it was made for.
LEMMA SuccessIsKeyed ==
    ASSUME KeyInv, RouterTypes', NEW c \in Client, Succeeds(c)
    PROVE  KeyInv'
<1>0. PICK m \in ModelNames[c] : ChargedAnswer(c, m)
  BY SuccessAnswers
<1> DEFINE new == [model |-> m, by |-> c, for |-> request, at |-> now]
           key == CacheKey(request)
<1>1. /\ cache' = [k \in DOMAIN cache \union {key} |-> IF k = key THEN new ELSE cache[k]]
      /\ result' = [kind |-> "response", request |-> request, response |-> new]
  BY <1>0 DEF ChargedAnswer
<1>2. CacheIsolation'
  BY <1>1 DEF CacheIsolation
<1>3. CacheKey(new.for) = key
  OBVIOUS
<1> HIDE DEF new, key
<1>4. \A k \in DOMAIN cache' : CacheKey(cache'[k].for) = k
  BY <1>1, <1>3 DEF KeyInv
<1> QED
  BY <1>2, <1>4 DEF KeyInv, CacheKey

\* Every step keeps the keys right.
LEMMA StepKeyed == KeyInv /\ [Next]_vars => KeyInv'
<1> SUFFICES ASSUME KeyInv, [Next]_vars PROVE KeyInv'
  OBVIOUS
<1> DEFINE Less == \A k \in DOMAIN cache' : k \in DOMAIN cache /\ cache'[k] = cache[k]
           Silent == result' = result \/ result'.kind # "response"
<1>1. CASE RouteNext
  <2>1. RouterTypes'
    BY <1>1, RouteTypes DEF KeyInv
  <2>2. CASE \E c \in Client : Succeeds(c)
    BY <2>1, <2>2, SuccessIsKeyed
  <2>3. ASSUME NEW r \in Request, CacheHit(r) PROVE KeyInv'
    <3>1. CacheIsolation'
      BY <2>3, HitIsIsolated
    <3>2. cache' = cache
      BY <2>3 DEF CacheHit
    <3>3. \A k \in DOMAIN cache' : CacheKey(cache'[k].for) = k
      BY <3>2 DEF KeyInv
    <3> QED
      BY <2>1, <3>1, <3>3 DEF KeyInv, CacheKey
  <2>4. CASE LocalRule
    <3>1. CacheIsolation' /\ cache' = cache
      BY <2>4 DEF LocalRule, Finish, CacheIsolation
    <3>2. \A k \in DOMAIN cache' : CacheKey(cache'[k].for) = k
      BY <3>1 DEF KeyInv
    <3> QED
      BY <2>1, <3>1, <3>2 DEF KeyInv, CacheKey
  <2>5. ASSUME NEW r \in Request, Start(r) \/ NoClient(r) \/ stream_route(r)
        PROVE  Less /\ Silent
    <3>1. Less
      BY <2>5 DEF Start, NoClient, Missed, stream_route, Without
    <3>2. Silent
      <4>1. CASE Start(r) \/ NoClient(r)
        BY <4>1 DEF Start, NoClient, Finish
      <4>2. CASE stream_route(r)
        BY <4>2, StreamEnds
      <4> QED
        BY <2>5, <4>1, <4>2
    <3> QED
      BY <3>1, <3>2
  <2>6. ASSUME NEW c \in Client, Fails(c) \/ RejectsCall(c) PROVE Less /\ Silent
    BY <2>6 DEF Fails, RejectsCall, Finish
  <2>7. ASSUME Skip \/ Exhausted \/ cache_clear \/ Tick PROVE Less /\ Silent
    BY <2>7 DEF Skip, Exhausted, cache_clear, Tick, Finish
  <2>8. ASSUME Less, Silent PROVE KeyInv'
    BY <2>1, <2>8, FewerKeys
  <2> QED
    BY <1>1, <2>2, <2>3, <2>4, <2>5, <2>6, <2>7, <2>8 DEF RouteNext
<1>2. CASE UNCHANGED routerVars
  <2>1. UNCHANGED <<cache, health, costs, now, request, chain, result>>
    BY <1>2 DEF routerVars
  <2>2. RouterTypes'
    BY <2>1 DEF KeyInv, RouterTypes, TypeOK
  <2> QED
    BY <2>1, <2>2, FewerKeys
<1> QED
  BY <1>1, <1>2 DEF Next, vars

\* Between requests whose branches and personas the key can tell apart, with any
\* prompts and beside any other requests: no response is returned for another
\* task, prompt, branch or persona than it was made for, where an empty persona
\* is none (_generate_cache_key, _check_cache).
THEOREM CacheIsIsolated == Spec => []CacheIsolation
<1>1. Init => KeyInv
  <2>1. Init => OrderInv /\ DOMAIN cache = {} /\ ~Answered
    BY InitInOrder DEF Init, Answered
  <2> QED
    BY <2>1 DEF OrderInv, KeyInv, CacheIsolation
<1>2. KeyInv /\ [Next]_vars => KeyInv'
  BY StepKeyed
<1>3. KeyInv => CacheIsolation
  BY DEF KeyInv
<1> QED
  BY <1>1, <1>2, <1>3, PTL DEF Spec
-----------------------------------------------------------------------------
\* What is not kept anyway may be skipped.
LEMMA KeptWithoutFirst ==
    ASSUME NEW S, NEW s \in Seq(S), s # <<>>, NEW T, Head(s) \notin T
    PROVE  Kept(Tail(s), T) = Kept(s, T)
<1> DEFINE w == Tail(s)
           n == Len(w)
<1>1. /\ w \in Seq(S) /\ n \in Nat /\ Len(s) = n + 1 /\ s[1] = Head(s)
      /\ \A i \in 1 .. n : w[i] = s[i + 1]
  OBVIOUS
<1>2. PICK f \in [0 .. Len(s) -> Seq(S)] : KeptSoFar(f, s, T)
  BY KeptUnfolds
<1>3. PICK g \in [0 .. Len(w) -> Seq(S)] : KeptSoFar(g, w, T)
  BY <1>1, KeptUnfolds
<1> HIDE DEF w, n
<1> DEFINE P == {i \in 0 .. n : g[i] = f[i + 1]}
<1>4. 0 \in P
  <2>1. 1 \in 1 .. Len(s) /\ s[1] \notin T /\ 1 - 1 = 0 /\ 0 + 1 = 1 /\ 0 \in 0 .. n
    BY <1>1
  <2>2. f[1] = f[0] /\ f[0] = <<>> /\ g[0] = <<>>
    BY <1>2, <1>3, <2>1 DEF KeptSoFar
  <2> QED
    BY <2>1, <2>2
<1>5. ASSUME NEW i \in 1 .. n, i - 1 \in P PROVE i \in P
  <2>1. /\ i + 1 \in 1 .. Len(s) /\ (i + 1) - 1 = i /\ (i - 1) + 1 = i /\ i \in 0 .. n
        /\ i \in 1 .. Len(w)
    BY <1>1 DEF n
  <2>2. f[i + 1] = IF s[i + 1] \in T THEN Append(f[i], s[i + 1]) ELSE f[i]
    BY <1>2, <2>1 DEF KeptSoFar
  <2>3. g[i] = IF w[i] \in T THEN Append(g[i - 1], w[i]) ELSE g[i - 1]
    BY <1>3, <2>1 DEF KeptSoFar
  <2>4. g[i - 1] = f[i] /\ w[i] = s[i + 1]
    BY <1>1, <1>5, <2>1
  <2>5. g[i] = f[i + 1]
    <3>1. g[i] = IF s[i + 1] \in T THEN Append(f[i], s[i + 1]) ELSE f[i]
      BY <2>3, <2>4
    <3> QED
      BY <2>2, <3>1
  <2> QED
    BY <2>1, <2>5
<1>6. n \in P
  <2> HIDE DEF P
  <2>1. \A i \in 0 .. n : i \in P
    BY <1>1, <1>4, <1>5, StepByStep
  <2> QED
    BY <1>1, <2>1
<1>7. g[Len(w)] = f[Len(s)]
  BY <1>1, <1>6 DEF n
<1> QED
  BY <1>2, <1>3, <1>7 DEF KeptSoFar, w

\* Whatever the mode is and the health of the local endpoints, the mode switch
\* has no say in who is asked: "local" is no client, so it is left out of the
\* attempt_chain whether route skips it for the mode or not.
THEOREM ModeDecidesNothing ==
    ASSUME NEW r \in Request
    PROVE  AttemptChain(r, TRUE) = AttemptChain(r, FALSE)
<1> DEFINE order == Routing(r)
<1>1. order \in Seq(Named) /\ order # <<>>
  BY RoutingTypes
<1>2. "local" \notin Asked
  BY DEF Asked, Client
<1>3. AttemptChain(r, FALSE) = Kept(order, Asked)
  BY DEF AttemptChain, Asked
<1>4. AttemptChain(r, TRUE) = Kept(order, Asked) \/
        (Head(order) = "local" /\ AttemptChain(r, TRUE) = Kept(Tail(order), Asked))
  BY DEF AttemptChain, Asked
<1> HIDE DEF order
<1> QED
  BY <1>1, <1>2, <1>3, <1>4, KeptWithoutFirst
-----------------------------------------------------------------------------
(***************************************************************************)
(* HttpClient.                                                             *)
(***************************************************************************)

Stages == {"request", "pause", "served", "probe", "opening", "stream", "yielded"}
Reading == {"stream", "yielded"}
Call == [stage : Stages, client : Called, attempt : 1 .. MAX_RETRIES, key : Key,
         body : Seq(Line), read : Nat, received : Seq(Nat)]

Answers == {"response", "ParseError", "streamed", "IndexError", "closed"}
Others == {"none", "CredentialNotFoundError", "ModelClientError", "TransportError",
           "ResponseNotRead", "healthy", "unhealthy"}
Kinds == Answers \union Transient \union Others
Outcome == [kind : Kinds] \union [kind : Kinds, call : Call]

\* The answers that have come: of n requests lost and m carried out, one.
Came(c, o) ==
    \/ c.stage \in {"served"} \union Reading
    \/ (c.stage = "idle" /\ o.kind \in Answers)

\* Of the attempts made so far at most this many can have been lost.
Spent(c) == IF c.stage = "idle" THEN MAX_RETRIES
            ELSE IF c.stage = "pause" THEN c.attempt ELSE c.attempt - 1

Good(c, l, m, o) ==
    /\ l <= Spent(c)
    /\ m <= l + (IF Came(c, o) THEN 1 ELSE 0)
    /\ m <= MAX_RETRIES
    /\ c.stage = "pause" => c.attempt < MAX_RETRIES
    /\ o.kind \in Transient /\ o.call.stage \in {"request", "served"} => o.call.attempt = MAX_RETRIES

Keys ==
    /\ overrides \in [Providers -> Key \union {NoKey}]
    /\ environ \in [Providers -> Key \union {NoKey}]
    /\ accepted \in [Providers -> SUBSET Key]
    /\ changes \in 0 .. MaxChanges

Threads ==
    /\ call \in [Thread -> Call \union {Idle}]
    /\ lost \in [Thread -> Nat]
    /\ charged \in [Thread -> Nat]
    /\ outcome \in [Thread -> Outcome]

HttpInv == Keys /\ Threads /\ \A t \in Thread : Good(call[t], lost[t], charged[t], outcome[t])
-----------------------------------------------------------------------------
\* A step of thread t leads to these four.
Becomes(t, c, l, m, o) ==
    /\ call' = [call EXCEPT ![t] = c] /\ lost' = [lost EXCEPT ![t] = l]
    /\ charged' = [charged EXCEPT ![t] = m] /\ outcome' = [outcome EXCEPT ![t] = o]

\* A step of one thread to a good state of it keeps the invariant.
LEMMA OneThread ==
    ASSUME HttpInv, UNCHANGED keyVars, NEW t \in Thread,
           NEW c \in Call \union {Idle}, NEW l \in Nat, NEW m \in Nat, NEW o \in Outcome,
           Becomes(t, c, l, m, o), Good(c, l, m, o)
    PROVE  HttpInv'
<1>1. Keys'
  BY DEF HttpInv, Keys, keyVars
<1>2. Threads'
  BY DEF HttpInv, Threads, Becomes
<1>3. ASSUME NEW u \in Thread PROVE Good(call[u], lost[u], charged[u], outcome[u])'
  <2>1. CASE u = t
    <3>1. call'[u] = c /\ lost'[u] = l /\ charged'[u] = m /\ outcome'[u] = o
      BY <2>1 DEF HttpInv, Threads, Becomes
    <3> QED
      BY <3>1 DEF Good, Spent, Came
  <2>2. CASE u # t
    <3>1. /\ call'[u] = call[u] /\ lost'[u] = lost[u]
          /\ charged'[u] = charged[u] /\ outcome'[u] = outcome[u]
      BY <2>2 DEF HttpInv, Threads, Becomes
    <3>2. Good(call[u], lost[u], charged[u], outcome[u])
      BY DEF HttpInv
    <3> QED
      BY <3>1, <3>2 DEF Good, Spent, Came
  <2> QED
    BY <2>1, <2>2
<1> QED
  BY <1>1, <1>2, <1>3 DEF HttpInv

\* What is known of a thread in a call.
LEMMA InCall ==
    ASSUME HttpInv, NEW t \in Thread
    PROVE  /\ call[t] \in Call \union {Idle} /\ lost[t] \in Nat /\ charged[t] \in Nat
           /\ outcome[t] \in Outcome /\ Good(call[t], lost[t], charged[t], outcome[t])
           /\ Stage(t) # "idle" => call[t] \in Call
           /\ call = [call EXCEPT ![t] = call[t]] /\ lost = [lost EXCEPT ![t] = lost[t]]
           /\ charged = [charged EXCEPT ![t] = charged[t]]
           /\ outcome = [outcome EXCEPT ![t] = outcome[t]]
BY DEF HttpInv, Threads, Stage, Idle

\* A call that ends keeps its thread's state good, if the answer that came is
\* told from the one that was lost and no error is reported too early.
LEMMA EndIsGood ==
    ASSUME HttpInv, UNCHANGED keyVars, NEW t \in Thread, Stage(t) # "idle",
           NEW l \in Nat, lost' = [lost EXCEPT ![t] = l], UNCHANGED charged,
           NEW kind \in Kinds, EndCall(t, kind),
           l <= MAX_RETRIES,
           charged[t] <= l + (IF kind \in Answers THEN 1 ELSE 0), charged[t] <= MAX_RETRIES,
           kind \in Transient /\ Stage(t) \in {"request", "served"} => call[t].attempt = MAX_RETRIES
    PROVE  HttpInv'
<1> DEFINE o == [kind |-> kind, call |-> call[t]]
<1>1. call[t] \in Call /\ charged[t] \in Nat /\ charged = [charged EXCEPT ![t] = charged[t]]
  BY InCall
<1>2. o \in Outcome /\ Idle \in Call \union {Idle}
  BY <1>1 DEF Outcome
<1>3. Becomes(t, Idle, l, charged[t], o)
  BY <1>1 DEF Becomes, EndCall
<1>4. Good(Idle, l, charged[t], o)
  BY <1>1 DEF Good, Spent, Came, Idle, Stage
<1> HIDE DEF o
<1> QED
  BY <1>1, <1>2, <1>3, <1>4, OneThread

\* Nor does a call that goes on make it bad, if nothing came that does not count.
LEMMA GoesOn ==
    ASSUME HttpInv, UNCHANGED keyVars, NEW t \in Thread, Stage(t) # "idle",
           NEW c \in Call, call' = [call EXCEPT ![t] = c], UNCHANGED outcome,
           NEW l \in Nat, lost' = [lost EXCEPT ![t] = l],
           NEW m \in Nat, charged' = [charged EXCEPT ![t] = m],
           l <= Spent(c), m <= MAX_RETRIES,
           m <= l + (IF c.stage \in {"served"} \union Reading THEN 1 ELSE 0),
           c.stage = "pause" => c.attempt < MAX_RETRIES
    PROVE  HttpInv'
<1>1. outcome[t] \in Outcome /\ Good(call[t], lost[t], charged[t], outcome[t])
  BY InCall
<1>2. c.stage # "idle"
  BY DEF Call, Stages
<1>3. Good(c, l, m, outcome[t])
  BY <1>1, <1>2 DEF Good, Came
<1>4. Becomes(t, c, l, m, outcome[t])
  BY InCall DEF Becomes
<1> QED
  BY <1>1, <1>3, <1>4, OneThread

\* A failure that may pass: the call pauses or ends.
LEMMA RetryIsGood ==
    ASSUME HttpInv, UNCHANGED keyVars, NEW t \in Thread, Stage(t) \in {"request", "served"},
           NEW l \in Nat, lost' = [lost EXCEPT ![t] = l], UNCHANGED charged,
           l <= call[t].attempt, charged[t] <= l,
           NEW error \in Transient, Retry(t, error)
    PROVE  HttpInv'
<1>1. /\ call[t] \in Call /\ charged[t] \in Nat /\ charged = [charged EXCEPT ![t] = charged[t]]
      /\ charged[t] <= MAX_RETRIES
  BY InCall DEF Good
<1>2. call[t].attempt \in 1 .. MAX_RETRIES /\ MAX_RETRIES \in Nat
  BY <1>1, HttpAssumption DEF Call
<1>3. CASE call[t].attempt < MAX_RETRIES
  <2> DEFINE c == [call[t] EXCEPT !.stage = "pause"]
  <2>1. c \in Call /\ c.stage = "pause" /\ c.attempt = call[t].attempt
    BY <1>1 DEF Call, Stages
  <2>2. call' = [call EXCEPT ![t] = c] /\ UNCHANGED outcome
    BY <1>3 DEF Retry
  <2>3. l <= Spent(c) /\ Stage(t) # "idle"
    BY <2>1 DEF Spent
  <2>4. charged[t] <= l + (IF c.stage \in {"served"} \union Reading THEN 1 ELSE 0)
    BY <1>1, <2>1
  <2>5. charged' = [charged EXCEPT ![t] = charged[t]]
    BY <1>1
  <2>6. c.stage = "pause" => c.attempt < MAX_RETRIES
    BY <1>3, <2>1
  <2> HIDE DEF c
  <2> QED
    BY <1>1, <2>1, <2>2, <2>3, <2>4, <2>5, <2>6, GoesOn
<1>4. CASE ~(call[t].attempt < MAX_RETRIES)
  <2>1. EndCall(t, error) /\ call[t].attempt = MAX_RETRIES /\ l <= MAX_RETRIES
    BY <1>2, <1>4 DEF Retry
  <2>2. error \in Kinds /\ error \notin Answers
    <3>1. CASE error = "RateLimitError"
      BY <3>1 DEF Answers, Transient, Kinds
    <3>2. CASE error = "ModelUnavailableError"
      BY <3>2 DEF Answers, Transient, Kinds
    <3> QED
      BY <3>1, <3>2 DEF Transient
  <2>3. charged[t] <= l + (IF error \in Answers THEN 1 ELSE 0)
    BY <1>1, <2>2
  <2> QED
    BY <1>1, <2>1, <2>2, <2>3, EndIsGood
<1> QED
  BY <1>3, <1>4
-----------------------------------------------------------------------------
\* No thread is in a call at first.
LEMMA InitHttpInv == HttpInit => HttpInv
<1> SUFFICES ASSUME HttpInit PROVE HttpInv
  OBVIOUS
<1>1. Keys
  BY HttpAssumption DEF HttpInit, Keys
<1>2. Threads
  BY DEF HttpInit, Threads, Outcome, Kinds, Others
<1>3. \A t \in Thread : Good(call[t], lost[t], charged[t], outcome[t])
  BY HttpAssumption DEF HttpInit, Good, Spent, Came, Idle, Transient, Answers
<1> QED
  BY <1>1, <1>2, <1>3 DEF HttpInv

\* complete, stream_complete, health_check.
LEMMA BeginKeepsHttpInv ==
    ASSUME HttpInv, NEW t \in Thread, NEW m \in Called,
           NEW stage \in {"request", "opening", "probe"}, Begin(t, m, stage)
    PROVE  HttpInv'
<1> DEFINE c == [stage |-> stage, client |-> m, attempt |-> 1,
                 key |-> get_api_key(Provider(m)), body |-> <<>>, read |-> 0, received |-> <<>>]
           none == [kind |-> "none"]
           noKey == [kind |-> "CredentialNotFoundError"]
<1>1. MAX_RETRIES \in Nat \ {0}
  BY HttpAssumption
<1>2. none \in Outcome /\ noKey \in Outcome
  BY DEF Outcome, Kinds, Others
<1>3. CASE is_available(Provider(m))
  <2>1. Provider(m) \in Providers
    BY DEF Providers
  <2>2. get_api_key(Provider(m)) \in Key
    BY <1>3, <2>1 DEF HttpInv, Keys, get_api_key, is_available
  <2>3. c \in Call
    BY <1>1, <2>2 DEF Call, Stages
  <2>4. Becomes(t, c, 0, 0, none) /\ UNCHANGED keyVars
    BY <1>3 DEF Begin, Becomes
  <2>5. Good(c, 0, 0, none)
    BY <1>1 DEF Good, Spent, Came, Transient
  <2> HIDE DEF c, none
  <2> QED
    BY <1>2, <2>3, <2>4, <2>5, OneThread
<1>4. CASE ~is_available(Provider(m))
  <2>1. /\ call[t] \in Call \union {Idle} /\ call[t].stage = "idle"
        /\ call = [call EXCEPT ![t] = call[t]]
    BY InCall DEF Begin, Stage
  <2>2. Becomes(t, call[t], 0, 0, noKey) /\ UNCHANGED keyVars
    BY <1>4, <2>1 DEF Begin, Becomes
  <2>3. Good(call[t], 0, 0, noKey)
    BY <1>1, <2>1 DEF Good, Spent, Came, Transient
  <2> HIDE DEF noKey
  <2> QED
    BY <1>2, <2>1, <2>2, <2>3, OneThread
<1> QED
  BY <1>3, <1>4

\* A line that does not end a stream leaves its call where it was, or at the yield.
LEMMA LineGoesOn ==
    ASSUME NEW c \in Call, c.stage = "stream", NEW n \in Nat
    PROVE  LET d == AfterLine(c, n)
           IN  /\ d \in Call /\ d.stage \in Reading /\ d.attempt = c.attempt
               /\ d.body = c.body /\ d.read = n
               /\ d.received = IF c.body[n] = "chunk" THEN Append(c.received, n) ELSE c.received
<1>1. CASE c.body[n] = "chunk"
  <2>1. Append(c.received, n) \in Seq(Nat)
    BY DEF Call
  <2> QED
    BY <1>1, <2>1 DEF AfterLine, Call, Stages, Reading
<1>2. CASE c.body[n] # "chunk"
  BY <1>2 DEF AfterLine, Call, Reading
<1> QED
  BY <1>1, <1>2

\* What goes on in a call: every action ends it, lets it pause or goes on with it.
LEMMA ProgressKeepsHttpInv ==
    ASSUME HttpInv, NEW t \in Thread, Progress(t) \/ Resume(t) \/ StreamClosed(t)
    PROVE  HttpInv'
<1> DEFINE c == call[t]
           l == lost[t]
           m == charged[t]
<1>1. /\ c \in Call \union {Idle} /\ l \in Nat /\ m \in Nat
      /\ Good(c, l, m, outcome[t])
      /\ c.stage # "idle" => c \in Call
      /\ lost = [lost EXCEPT ![t] = l] /\ charged = [charged EXCEPT ![t] = m]
  BY InCall DEF Stage
<1>2. MAX_RETRIES \in Nat \ {0}
  BY HttpAssumption
<1>3. ASSUME c.stage # "idle"
      PROVE  /\ c \in Call /\ c.attempt \in 1 .. MAX_RETRIES
             /\ l <= Spent(c) /\ m <= MAX_RETRIES
             /\ m <= l + (IF c.stage \in {"served"} \union Reading THEN 1 ELSE 0)
             /\ c.stage = "pause" => c.attempt < MAX_RETRIES
             /\ Spent(c) = IF c.stage = "pause" THEN c.attempt ELSE c.attempt - 1
  BY <1>1, <1>3 DEF Good, Came, Spent, Call
\* The answer that was under way, if there was one, is lost.
<1>4. ASSUME c.stage # "idle", c.stage # "pause"
      PROVE  l + 1 \in Nat /\ l + 1 <= c.attempt /\ l + 1 <= MAX_RETRIES /\ m <= l + 1
  BY <1>1, <1>2, <1>3, <1>4
<1> HIDE DEF c, l, m
\* An end after which the counts are what they were.
<1>5. ASSUME NEW kind \in Kinds, EndCall(t, kind), UNCHANGED <<keyVars, lost, charged>>,
             c.stage # "idle", c.stage # "pause",
             c.stage \in {"served"} \union Reading => kind \in Answers,
             kind \in Transient => c.stage \notin {"request", "served"}
      PROVE  HttpInv'
  <2>1. /\ l <= MAX_RETRIES /\ m <= l + (IF kind \in Answers THEN 1 ELSE 0)
        /\ lost' = [lost EXCEPT ![t] = l] /\ UNCHANGED charged /\ UNCHANGED keyVars
    BY <1>1, <1>2, <1>3, <1>5
  <2> QED
    BY <1>1, <1>3, <1>5, <2>1, EndIsGood DEF c, l, m, Stage
<1>6. ASSUME NEW kind \in Kinds, EndCall(t, kind), lost' = [lost EXCEPT ![t] = l + 1],
             UNCHANGED <<keyVars, charged>>, c.stage # "idle", c.stage # "pause",
             kind \in Transient => c.stage \notin {"request", "served"}
      PROVE  HttpInv'
  <2>1. /\ l + 1 \in Nat /\ l + 1 <= MAX_RETRIES
        /\ charged[t] <= (l + 1) + (IF kind \in Answers THEN 1 ELSE 0)
        /\ charged[t] <= MAX_RETRIES
    BY <1>1, <1>3, <1>4, <1>6 DEF m
  <2>2. Stage(t) # "idle"
    BY <1>6 DEF c, Stage
  <2>3. kind \in Transient /\ Stage(t) \in {"request", "served"} => call[t].attempt = MAX_RETRIES
    BY <1>6 DEF c, Stage
  <2>4. lost' = [lost EXCEPT ![t] = l + 1] /\ UNCHANGED charged /\ UNCHANGED keyVars
    BY <1>6
  <2> QED
    BY <1>6, <2>1, <2>2, <2>3, <2>4, EndIsGood
<1>7. ASSUME NEW n \in Nat, charged' = [charged EXCEPT ![t] = n],
             UNCHANGED <<keyVars, lost, outcome>>, c.stage # "idle",
             NEW d \in Call, call' = [call EXCEPT ![t] = d], l <= Spent(d), n <= MAX_RETRIES,
             n <= l + (IF d.stage \in {"served"} \union Reading THEN 1 ELSE 0),
             d.stage = "pause" => d.attempt < MAX_RETRIES
      PROVE  HttpInv'
  <2>1. UNCHANGED keyVars /\ UNCHANGED outcome /\ lost' = [lost EXCEPT ![t] = l]
    BY <1>1, <1>7
  <2> QED
    BY <1>1, <1>7, <2>1, GoesOn DEF c, l, m, Stage
<1>8. CASE NextAttempt(t)
  <2> DEFINE d == [c EXCEPT !.stage = "request", !.attempt = c.attempt + 1]
  <2>1. c.stage = "pause" /\ UNCHANGED <<keyVars, lost, outcome>>
    BY <1>8 DEF NextAttempt, c, Stage
  <2>2. call' = [call EXCEPT ![t] = d]
    BY <1>1, <1>8 DEF NextAttempt, c
  <2>3. d \in Call /\ l <= Spent(d) /\ d.stage = "request"
    <3>1. c \in Call /\ c.attempt \in Nat /\ c.attempt + 1 \in 1 .. MAX_RETRIES /\ l <= c.attempt
      BY <1>1, <1>2, <1>3, <2>1
    <3>2. d \in Call /\ d.stage = "request" /\ d.attempt = c.attempt + 1
      BY <3>1 DEF Call, Stages
    <3> HIDE DEF d
    <3>3. Spent(d) = d.attempt - 1
      BY <3>2 DEF Spent
    <3> QED
      BY <1>1, <3>1, <3>2, <3>3
  <2>4. charged' = [charged EXCEPT ![t] = m] /\ m \in Nat /\ m <= MAX_RETRIES
    BY <1>1, <1>3, <1>8, <2>1 DEF NextAttempt
  <2>5. m <= l + (IF d.stage \in {"served"} \union Reading THEN 1 ELSE 0)
    BY <1>1, <1>3, <2>1, <2>3 DEF Reading
  <2>6. d.stage # "pause" /\ c.stage # "idle"
    BY <2>1, <2>3
  <2> HIDE DEF d
  <2> QED
    BY <1>1, <2>1, <2>2, <2>3, <2>4, <2>5, <2>6, <1>7
\* A failure that may pass, without and with a lost answer.
<1>9. ASSUME c.stage = "request", NEW error \in Transient, Retry(t, error),
             UNCHANGED <<keyVars, lost, charged>>
      PROVE  HttpInv'
  <2>1. l <= c.attempt /\ m <= l
    BY <1>1, <1>3, <1>9 DEF Reading
  <2>2. lost' = [lost EXCEPT ![t] = l] /\ UNCHANGED charged /\ UNCHANGED keyVars
    BY <1>1, <1>9
  <2> QED
    BY <1>1, <1>9, <2>1, <2>2, RetryIsGood DEF c, m, Stage
<1>10. ASSUME c.stage \in {"request", "served"}, NEW error \in Transient, Retry(t, error),
              lost' = [lost EXCEPT ![t] = l + 1], UNCHANGED <<keyVars, charged>>
       PROVE  HttpInv'
  <2>1. l + 1 \in Nat /\ l + 1 <= c.attempt /\ m <= l + 1
    BY <1>1, <1>4, <1>10
  <2>2. UNCHANGED charged /\ UNCHANGED keyVars
    BY <1>10
  <2> QED
    BY <1>10, <2>1, <2>2, RetryIsGood DEF c, m, Stage
<1>11. CASE Refused(t)
  <2>1. c.stage = "request" /\ UNCHANGED <<keyVars, lost, charged>>
    BY <1>11 DEF Refused, Stage, c
  <2>2. CASE \E error \in Transient : Retry(t, error)
    BY <2>1, <2>2, <1>9
  <2>3. CASE EndCall(t, "ModelClientError")
    BY <2>1, <2>3, <1>5 DEF Transient, Kinds, Others, Reading
  <2> QED
    BY <1>11, <2>2, <2>3 DEF Refused
<1>12. CASE Served(t)
  <2> DEFINE d == [c EXCEPT !.stage = "served"]
  <2>1. c.stage = "request" /\ UNCHANGED <<keyVars, lost, outcome>>
    BY <1>12 DEF Served, Stage, c
  <2>2. call' = [call EXCEPT ![t] = d] /\ charged' = [charged EXCEPT ![t] = m + 1]
    BY <1>12 DEF Served, c, m
  <2>3. d \in Call /\ d.stage = "served" /\ d.attempt = c.attempt
    BY <1>3, <2>1 DEF Call, Stages
  <2>4. /\ m + 1 \in Nat /\ m + 1 <= MAX_RETRIES /\ l <= Spent(d)
        /\ m + 1 <= l + (IF d.stage \in {"served"} \union Reading THEN 1 ELSE 0)
    BY <1>1, <1>2, <1>3, <2>1, <2>3 DEF Spent, Reading
  <2>5. d.stage # "pause" /\ c.stage # "idle"
    BY <2>1, <2>3
  <2> HIDE DEF d
  <2> QED
    BY <2>1, <2>2, <2>3, <2>4, <2>5, <1>7
<1>13. CASE Lost(t)
  <2>1. /\ c.stage \in {"request", "served"} /\ lost' = [lost EXCEPT ![t] = l + 1]
        /\ Retry(t, "ModelUnavailableError") /\ UNCHANGED <<keyVars, charged>>
    BY <1>13 DEF Lost, Stage, c, l
  <2> QED
    BY <2>1, <1>10 DEF Transient
<1>14. CASE Broken(t)
  <2>1. /\ c.stage \in {"request", "served", "opening", "stream"}
        /\ lost' = [lost EXCEPT ![t] = l + 1]
        /\ EndCall(t, "TransportError") /\ UNCHANGED <<keyVars, charged>>
    BY <1>14 DEF Broken, Stage, c, l
  <2> QED
    BY <2>1, <1>6 DEF Transient, Kinds, Others
<1>15. CASE AnswerComes(t)
  <2>1. c.stage = "served" /\ UNCHANGED <<keyVars, lost, charged>>
    BY <1>15 DEF AnswerComes, Stage, c
  <2>2. CASE EndCall(t, "response")
    BY <2>1, <2>2, <1>5 DEF Transient, Kinds, Answers
  <2>3. CASE EndCall(t, "ParseError")
    BY <2>1, <2>3, <1>5 DEF Transient, Kinds, Answers
  <2> QED
    BY <1>15, <2>2, <2>3 DEF AnswerComes
<1>16. CASE Probed(t)
  <2>1. c.stage = "probe" /\ UNCHANGED <<keyVars, lost, charged>>
    BY <1>16 DEF Probed, Stage, c
  <2>2. \E kind \in {"healthy", "unhealthy", "TransportError"} : EndCall(t, kind)
    BY <1>16 DEF Probed
  <2> QED
    BY <2>1, <2>2, <1>5 DEF Transient, Kinds, Others, Reading
<1>17. CASE StreamRefused(t)
  <2>1. c.stage = "opening" /\ UNCHANGED <<keyVars, lost, charged>>
    BY <1>17 DEF StreamRefused, Stage, c
  <2>2. \E kind \in Transient \union {"ResponseNotRead"} : EndCall(t, kind)
    BY <1>17 DEF StreamRefused
  <2> QED
    BY <2>1, <2>2, <1>5 DEF Kinds, Others, Transient, Reading
<1>18. CASE StreamOpened(t)
  <2>1. c.stage = "opening" /\ UNCHANGED <<keyVars, lost, outcome>>
    BY <1>18 DEF StreamOpened, Stage, c
  <2>2. PICK b \in Bodies : call' = [call EXCEPT ![t].stage = "stream", ![t].body = b]
    BY <1>18 DEF StreamOpened
  <2> DEFINE d == [c EXCEPT !.stage = "stream", !.body = b]
  <2>3. call' = [call EXCEPT ![t] = d] /\ charged' = [charged EXCEPT ![t] = m + 1]
    BY <1>1, <1>18, <2>2 DEF StreamOpened, c, m
  <2>4. d \in Call /\ d.stage = "stream" /\ d.attempt = c.attempt
    BY <1>3, <2>1, HttpAssumption DEF Call, Stages
  <2>5. /\ m + 1 \in Nat /\ m + 1 <= MAX_RETRIES /\ l <= Spent(d)
        /\ m + 1 <= l + (IF d.stage \in {"served"} \union Reading THEN 1 ELSE 0)
    BY <1>1, <1>2, <1>3, <2>1, <2>4 DEF Spent, Reading
  <2>6. d.stage # "pause" /\ c.stage # "idle"
    BY <2>1, <2>4
  <2> HIDE DEF d
  <2> QED
    BY <2>1, <2>3, <2>4, <2>5, <2>6, <1>7
<1>19. CASE StreamLost(t)
  <2>1. /\ c.stage \in {"opening", "stream"} /\ lost' = [lost EXCEPT ![t] = l + 1]
        /\ EndCall(t, "ModelUnavailableError") /\ UNCHANGED <<keyVars, charged>>
    BY <1>19 DEF StreamLost, Stage, c, l
  <2> QED
    BY <2>1, <1>6 DEF Transient, Kinds
<1>20. CASE ReadLine(t)
  <2>1. c.stage = "stream" /\ UNCHANGED <<keyVars, lost, charged>>
    BY <1>20 DEF ReadLine, Stage, c
  <2>2. CASE EndCall(t, "streamed")
    BY <2>1, <2>2, <1>5 DEF Transient, Kinds, Answers
  <2>3. CASE EndCall(t, "IndexError")
    BY <2>1, <2>3, <1>5 DEF Transient, Kinds, Answers
  <2>4. CASE ~EndCall(t, "streamed") /\ ~EndCall(t, "IndexError")
    <3> DEFINE n == c.read + 1
               d == AfterLine(c, n)
    <3>1. call' = [call EXCEPT ![t] = d] /\ UNCHANGED outcome
      BY <1>1, <1>20, <2>4 DEF ReadLine, c
    <3>2. c \in Call /\ n \in Nat
      BY <1>3, <2>1 DEF Call
    <3> HIDE DEF n
    <3>3. d \in Call /\ d.stage \in Reading /\ d.attempt = c.attempt
      BY <2>1, <3>2, LineGoesOn
    <3>4. /\ m \in Nat /\ m <= MAX_RETRIES /\ l <= Spent(d)
          /\ m <= l + (IF d.stage \in {"served"} \union Reading THEN 1 ELSE 0)
          /\ d.stage # "pause" /\ c.stage # "idle"
          /\ charged' = [charged EXCEPT ![t] = m]
      <4> HIDE DEF d
      <4> QED
        BY <1>1, <1>2, <1>3, <2>1, <3>3 DEF Spent, Reading
    <3>5. UNCHANGED <<keyVars, lost, outcome>>
      BY <2>1, <3>1
    <3> HIDE DEF d
    <3> QED
      BY <3>1, <3>3, <3>4, <3>5, <1>7
  <2> QED
    BY <2>2, <2>3, <2>4
<1>21. CASE StreamClosed(t)
  <2>1. c.stage = "yielded" /\ UNCHANGED <<keyVars, lost, charged>> /\ EndCall(t, "closed")
    BY <1>21 DEF StreamClosed, Stage, c
  <2> QED
    BY <2>1, <1>5 DEF Transient, Kinds, Answers
<1>22. CASE Resume(t)
  <2> DEFINE d == [c EXCEPT !.stage = "stream"]
  <2>1. c.stage = "yielded" /\ UNCHANGED <<keyVars, lost, outcome>>
    BY <1>22 DEF Resume, Stage, c
  <2>2. call' = [call EXCEPT ![t] = d] /\ charged' = [charged EXCEPT ![t] = m]
    BY <1>1, <1>22 DEF Resume, c
  <2>3. d \in Call /\ d.stage = "stream" /\ d.attempt = c.attempt
    BY <1>3, <2>1 DEF Call, Stages
  <2>4. /\ m \in Nat /\ m <= MAX_RETRIES /\ l <= Spent(d)
        /\ m <= l + (IF d.stage \in {"served"} \union Reading THEN 1 ELSE 0)
        /\ d.stage # "pause" /\ c.stage # "idle"
    <3> HIDE DEF d
    <3> QED
      BY <1>1, <1>2, <1>3, <2>1, <2>3 DEF Spent, Reading
  <2> HIDE DEF d
  <2> QED
    BY <2>1, <2>2, <2>3, <2>4, <1>7
<1> QED
  BY <1>8, <1>11, <1>12, <1>13, <1>14, <1>15, <1>16, <1>17, <1>18, <1>19, <1>20, <1>21, <1>22
     DEF Progress
-----------------------------------------------------------------------------
\* Every step, also one that changes keys, keeps the invariant.
LEMMA StepKeepsHttpInv == HttpInv /\ [HttpNext]_httpVars => HttpInv'
<1> SUFFICES ASSUME HttpInv, [HttpNext]_httpVars PROVE HttpInv'
  OBVIOUS
<1>1. ASSUME NEW t \in Thread, NEW m \in Called,
             complete(t, m) \/ stream_complete(t, m) \/ health_check(t, m)
      PROVE  HttpInv'
  <2>1. CASE complete(t, m)
    BY <2>1, BeginKeepsHttpInv DEF complete
  <2>2. CASE stream_complete(t, m)
    BY <2>2, BeginKeepsHttpInv DEF stream_complete
  <2>3. CASE health_check(t, m)
    BY <2>3, BeginKeepsHttpInv DEF health_check
  <2> QED
    BY <1>1, <2>1, <2>2, <2>3
<1>2. ASSUME Keys', UNCHANGED <<call, lost, charged, outcome>>
      PROVE  HttpInv'
  <2>1. Threads'
    BY <1>2 DEF HttpInv, Threads
  <2>2. ASSUME NEW t \in Thread PROVE Good(call[t], lost[t], charged[t], outcome[t])'
    BY <1>2 DEF HttpInv, Good, Spent, Came
  <2> QED
    BY <1>2, <2>1, <2>2 DEF HttpInv
<1>3. ASSUME NEW p \in Providers, NEW k \in Key \union {NoKey}, SetEnviron(p, k)
      PROVE  HttpInv'
  <2>1. Keys'
    BY <1>3, HttpAssumption DEF SetEnviron, HttpInv, Keys
  <2> QED
    BY <1>2, <1>3, <2>1 DEF SetEnviron
<1>4. ASSUME NEW p \in Providers, NEW k \in Key, SetAccepted(p, k)
      PROVE  HttpInv'
  <2>1. Keys'
    BY <1>4, HttpAssumption DEF SetAccepted, HttpInv, Keys
  <2> QED
    BY <1>2, <1>4, <2>1 DEF SetAccepted
<1>5. CASE UNCHANGED httpVars
  BY <1>2, <1>5 DEF httpVars, keyVars, HttpInv, Keys
<1> QED
  BY <1>1, <1>3, <1>4, <1>5, ProgressKeepsHttpInv DEF HttpNext

\* Good holds of every thread at all times, whatever the network, the services
\* and the operator do.
THEOREM HttpInvariant == HttpSpec => []HttpInv
<1>1. HttpInit => HttpInv
  BY InitHttpInv
<1>2. HttpInv /\ [HttpNext]_httpVars => HttpInv'
  BY StepKeepsHttpInv
<1> QED
  BY <1>1, <1>2, PTL DEF HttpSpec

\* No call makes more attempts than MAX_RETRIES, loses more answers or is
\* carried out more often than that (complete's loop over the attempts).
THEOREM HttpTypeCorrect == HttpSpec => []HttpTypeOK
<1>1. HttpInv => HttpTypeOK
  <2> SUFFICES ASSUME HttpInv PROVE HttpTypeOK
    OBVIOUS
  <2>1. MAX_RETRIES \in Nat \ {0}
    BY HttpAssumption
  <2>2. ASSUME NEW t \in Thread
        PROVE  lost[t] \in 0 .. MAX_RETRIES /\ charged[t] \in 0 .. MAX_RETRIES
    BY <2>1, InCall DEF Good, Spent, Call, Idle
  <2>3. ASSUME NEW t \in Thread, call[t] # Idle
        PROVE  /\ call[t].stage \in Stages
               /\ call[t].client \in Called
               /\ call[t].attempt \in 1 .. MAX_RETRIES
               /\ call[t].key \in Key
    BY <2>3, InCall DEF Call
  <2> QED
    BY <2>2, <2>3 DEF HttpInv, Keys, Threads, HttpTypeOK, Stages
<1> QED
  BY <1>1, HttpInvariant, PTL

\* What has come back is never asked for again, with any number of attempts and
\* any streams: a service carries a call out more often than it is answered
\* only as often as the network lost an answer.
THEOREM ChargedForLosses == HttpSpec => []ChargedAsOftenAsLost
<1>1. HttpInv => ChargedAsOftenAsLost
  BY DEF HttpInv, Good, Came, Answers, ChargedAsOftenAsLost, Stage, Reading
<1> QED
  BY <1>1, HttpInvariant, PTL

\* complete reports a rate limit or an unreachable service only after the last
\* of its attempts, however many there are.
THEOREM NoEarlyGivingUp == HttpSpec => []GivesUpAfterAllRetries
<1>1. HttpInv => GivesUpAfterAllRetries
  BY DEF HttpInv, Good, Transient, GivesUpAfterAllRetries
<1> QED
  BY <1>1, HttpInvariant, PTL
-----------------------------------------------------------------------------
\* A stream that is being opened or read: nothing is received yet, or what was
\* among the lines read, and "[DONE]" was not.
Reads(c) ==
    /\ c.stage = "opening" => c.read = 0 /\ c.received = <<>>
    /\ c.stage \in Reading => /\ c.read <= Len(c.body)
                              /\ \A i \in 1 .. c.read : c.body[i] # "done"
                              /\ Delivered(c, c.read)

\* A stream that ended without an error: n lines of it came before the end.
ReadToEnd(c, n) ==
    /\ n \in 0 .. Len(c.body)
    /\ n = Len(c.body) \/ c.body[n + 1] = "done"
    /\ \A i \in 1 .. n : c.body[i] # "done"
    /\ Delivered(c, n)

Streamed(o) == o.kind = "streamed" => \E n \in Nat : ReadToEnd(o.call, n)

StreamInv == \A t \in Thread : Reads(call[t]) /\ Streamed(outcome[t])

\* A step of one thread concerns no other.
LEMMA OneStream ==
    ASSUME HttpInv, StreamInv, NEW t \in Thread, NEW c, NEW o,
           call' = [call EXCEPT ![t] = c], outcome' = [outcome EXCEPT ![t] = o],
           Reads(c), Streamed(o)
    PROVE  StreamInv'
<1>1. DOMAIN call = Thread /\ DOMAIN outcome = Thread
  BY DEF HttpInv, Threads
<1>2. ASSUME NEW u \in Thread PROVE Reads(call'[u]) /\ Streamed(outcome'[u])
  <2>1. CASE u = t
    <3>1. call'[u] = c /\ outcome'[u] = o
      BY <1>1, <2>1
    <3> QED
      BY <3>1
  <2>2. CASE u # t
    <3>1. call'[u] = call[u] /\ outcome'[u] = outcome[u]
      BY <1>1, <2>2
    <3> QED
      BY <3>1 DEF StreamInv
  <2> QED
    BY <2>1, <2>2
<1> QED
  BY <1>2 DEF StreamInv, Reads, Streamed, ReadToEnd, Delivered

\* A call may end in any other way.
LEMMA OtherEnd ==
    ASSUME HttpInv, StreamInv, NEW t \in Thread, NEW kind, kind # "streamed", EndCall(t, kind)
    PROVE  StreamInv'
<1> DEFINE o == [kind |-> kind, call |-> call[t]]
<1>1. call' = [call EXCEPT ![t] = Idle] /\ outcome' = [outcome EXCEPT ![t] = o]
  BY DEF EndCall
<1>2. Reads(Idle) /\ Streamed(o)
  BY DEF Reads, Reading, Streamed, Idle
<1> HIDE DEF o
<1> QED
  BY <1>1, <1>2, OneStream

\* Or go on where no stream is read.
LEMMA NoStream ==
    ASSUME HttpInv, StreamInv, NEW t \in Thread, NEW stage \in {"request", "pause", "served"}, NEW n,
           Stage(t) # "idle", UNCHANGED outcome,
           \/ call' = [call EXCEPT ![t].stage = stage]
           \/ call' = [call EXCEPT ![t].stage = stage, ![t].attempt = n]
    PROVE  StreamInv'
<1>1. call[t] \in Call /\ outcome' = [outcome EXCEPT ![t] = outcome[t]]
  BY InCall DEF Stage
<1>2. Streamed(outcome[t])
  BY DEF StreamInv
<1>3. PICK c : call' = [call EXCEPT ![t] = c] /\ c.stage = stage
  <2>1. CASE call' = [call EXCEPT ![t].stage = stage]
    <3> WITNESS [call[t] EXCEPT !.stage = stage]
    <3> QED
      BY <1>1, <2>1 DEF Call
  <2>2. CASE call' = [call EXCEPT ![t].stage = stage, ![t].attempt = n]
    <3> WITNESS [call[t] EXCEPT !.stage = stage, !.attempt = n]
    <3> QED
      BY <1>1, <2>2 DEF Call
  <2> QED
    BY <2>1, <2>2
<1>4. Reads(c)
  BY <1>3 DEF Reads, Reading
<1> QED
  BY <1>1, <1>2, <1>3, <1>4, OneStream

LEMMA RetryReads ==
    ASSUME HttpInv, StreamInv, NEW t \in Thread, Stage(t) # "idle",
           NEW error \in Transient, Retry(t, error)
    PROVE  StreamInv'
<1>1. error # "streamed"
  BY DEF Transient
<1>2. EndCall(t, error) \/ (UNCHANGED outcome /\ call' = [call EXCEPT ![t].stage = "pause"])
  BY DEF Retry
<1> QED
  BY <1>1, <1>2, OtherEnd, NoStream

\* A line that is read is received if it is a chunk, and only then.
LEMMA LineIsRead ==
    ASSUME NEW c \in Call, c.stage = "stream", Reads(c), c.read + 1 <= Len(c.body),
           c.body[c.read + 1] # "done", NEW d \in Call,
           d.stage \in Reading, d.body = c.body, d.read = c.read + 1,
           d.received = IF c.body[c.read + 1] = "chunk" THEN Append(c.received, c.read + 1)
                        ELSE c.received
    PROVE  Reads(d)
<1> DEFINE n == c.read + 1
           r == c.received
<1>1. c.read \in Nat /\ r \in Seq(Nat) /\ c.body \in Seq(Line)
  BY DEF Call
<1>2. /\ {r[i] : i \in DOMAIN r} = {i \in 1 .. c.read : c.body[i] = "chunk"}
      /\ \A i, j \in DOMAIN r : i < j => r[i] < r[j]
      /\ \A i \in 1 .. c.read : c.body[i] # "done"
  BY DEF Reads, Reading, Delivered
<1>3. n \in Nat /\ 1 .. n = 1 .. c.read \union {n} /\ n \notin 1 .. c.read
  BY <1>1
<1>4. d.read = n /\ d.body = c.body /\ c.body[n] # "done" /\ n <= Len(c.body)
  OBVIOUS
<1> HIDE DEF n
<1>5. \A i \in 1 .. n : d.body[i] # "done"
  BY <1>2, <1>3, <1>4
<1>6. CASE c.body[n] = "chunk"
  <2> DEFINE s == d.received
             k == Len(r)
  <2>0. s = Append(r, n) /\ r \in Seq(Nat)
    BY <1>1, <1>6 DEF n
  <2>1. /\ s = Append(r, n) /\ k \in Nat /\ DOMAIN r = 1 .. k /\ DOMAIN s = 1 .. k \union {k + 1}
        /\ \A i \in 1 .. k : s[i] = r[i]
        /\ s[k + 1] = n
    <3> HIDE DEF s, r
    <3>1. Len(r) \in Nat /\ DOMAIN r = 1 .. Len(r) /\ Len(s) = Len(r) + 1 /\ DOMAIN s = 1 .. Len(s)
      BY <1>3, <2>0
    <3>2. 1 .. Len(r) + 1 = 1 .. Len(r) \union {Len(r) + 1}
      BY <3>1
    <3>3. \A i \in 1 .. Len(r) : s[i] = r[i]
      BY <1>3, <2>0
    <3>4. s[Len(r) + 1] = n
      BY <1>3, <2>0
    <3> QED
      BY <2>0, <3>1, <3>2, <3>3, <3>4
  <2> HIDE DEF s, k, r
  <2>2. {s[i] : i \in DOMAIN s} = {i \in 1 .. n : c.body[i] = "chunk"}
    <3>1. {s[i] : i \in DOMAIN s} = {r[i] : i \in DOMAIN r} \union {n}
      BY <2>1
    <3> QED
      BY <1>2, <1>3, <1>6, <3>1
  <2>3. ASSUME NEW i \in DOMAIN s, NEW j \in DOMAIN s, i < j PROVE s[i] < s[j]
    <3>1. i \in 1 .. k
      BY <2>1, <2>3
    <3>2. CASE j \in 1 .. k
      BY <1>2, <2>1, <2>3, <3>1, <3>2
    <3>3. CASE j = k + 1
      <4>1. r[i] \in 1 .. c.read
        BY <1>2, <2>1, <3>1
      <4> QED
        BY <1>1, <2>1, <3>1, <3>3, <4>1 DEF n
    <3> QED
      BY <2>1, <3>2, <3>3
  <2> QED
    BY <1>4, <1>5, <2>2, <2>3 DEF Reads, Reading, Delivered, s
<1>7. CASE c.body[n] # "chunk"
  <2>1. d.received = r
    BY <1>7 DEF n
  <2>2. {i \in 1 .. n : c.body[i] = "chunk"} = {i \in 1 .. c.read : c.body[i] = "chunk"}
    BY <1>3, <1>7
  <2>3. Delivered(d, n)
    <3> HIDE DEF r
    <3>1. /\ {d.received[i] : i \in DOMAIN d.received} = {r[i] : i \in DOMAIN r}
          /\ \A i, j \in DOMAIN d.received : i < j => d.received[i] < d.received[j]
      BY <1>2, <2>1
    <3>2. {i \in 1 .. n : d.body[i] = "chunk"} = {i \in 1 .. n : c.body[i] = "chunk"}
      BY <1>4
    <3> QED
      BY <1>2, <2>2, <3>1, <3>2 DEF Delivered
  <2> QED
    BY <1>4, <1>5, <2>3 DEF Reads, Reading
<1> QED
  BY <1>6, <1>7

LEMMA ReadLineReads ==
    ASSUME HttpInv, StreamInv, NEW t \in Thread, ReadLine(t)
    PROVE  StreamInv'
<1> DEFINE c == call[t]
           n == c.read + 1
<1>1. c \in Call /\ c.stage = "stream" /\ Reads(c)
  BY InCall DEF ReadLine, Stage, StreamInv
<1>2. c.read \in Nat /\ c.body \in Seq(Line) /\ c.received \in Seq(Nat)
  BY <1>1 DEF Call
<1>3. CASE n > Len(c.body) \/ c.body[n] = "done"
  <2> DEFINE o == [kind |-> "streamed", call |-> c]
  <2>1. call' = [call EXCEPT ![t] = Idle] /\ outcome' = [outcome EXCEPT ![t] = o]
    BY <1>3 DEF ReadLine, EndCall
  <2>2. ReadToEnd(c, c.read)
    BY <1>1, <1>2, <1>3 DEF Reads, Reading, ReadToEnd
  <2>3. Reads(Idle) /\ Streamed(o)
    BY <1>2, <2>2 DEF Reads, Reading, Streamed, Idle
  <2> HIDE DEF o
  <2> QED
    BY <2>1, <2>3, OneStream
<1>4. CASE ~(n > Len(c.body) \/ c.body[n] = "done") /\ c.body[n] = "no choices"
  BY <1>4, OtherEnd DEF ReadLine
<1>5. CASE ~(n > Len(c.body) \/ c.body[n] = "done") /\ c.body[n] # "no choices"
  <2> DEFINE d == AfterLine(c, n)
  <2>1. call' = [call EXCEPT ![t] = d] /\ UNCHANGED outcome
    BY <1>1, <1>5 DEF ReadLine
  <2>2. n \in Nat /\ n <= Len(c.body) /\ c.body[n] # "done"
    <3>1. n \in Nat /\ n <= Len(c.body) /\ c.body[n] # "done"
      <4>1. Len(c.body) \in Nat
        BY <1>2
      <4>2. ~(n > Len(c.body)) /\ c.body[n] # "done"
        BY <1>5
      <4> HIDE DEF c, d
      <4> QED
        BY <1>2, <4>1, <4>2
    <3> QED
      BY <3>1
  <2>3. /\ d \in Call /\ d.stage \in Reading /\ d.body = c.body /\ d.read = n
        /\ d.received = IF c.body[n] = "chunk" THEN Append(c.received, n) ELSE c.received
    <3> HIDE DEF n, c
    <3> QED
      BY <1>1, <2>2, LineGoesOn
  <2>4. Reads(d)
    <3> HIDE DEF d, c
    <3> QED
      BY <1>1, <2>2, <2>3, LineIsRead
  <2>5. outcome' = [outcome EXCEPT ![t] = outcome[t]] /\ Streamed(outcome[t])
    BY <2>1, InCall DEF StreamInv
  <2> HIDE DEF d
  <2> QED
    BY <2>1, <2>4, <2>5, OneStream
<1> QED
  BY <1>3, <1>4, <1>5

\* complete, stream_complete and health_check start with nothing received.
LEMMA BeginReads ==
    ASSUME HttpInv, StreamInv, NEW t \in Thread, NEW m \in Called,
           NEW stage \in {"request", "opening", "probe"}, Begin(t, m, stage)
    PROVE  StreamInv'
<1> DEFINE c == [stage |-> stage, client |-> m, attempt |-> 1,
                 key |-> get_api_key(Provider(m)), body |-> <<>>, read |-> 0, received |-> <<>>]
           none == [kind |-> "none"]
           noKey == [kind |-> "CredentialNotFoundError"]
<1>1. Reads(c) /\ Streamed(none) /\ Streamed(noKey)
  BY DEF Reads, Reading, Streamed
<1>2. call = [call EXCEPT ![t] = call[t]] /\ Reads(call[t])
  BY InCall DEF StreamInv
<1>3. \/ call' = [call EXCEPT ![t] = c] /\ outcome' = [outcome EXCEPT ![t] = none]
      \/ call' = [call EXCEPT ![t] = call[t]] /\ outcome' = [outcome EXCEPT ![t] = noKey]
  BY <1>2 DEF Begin
<1> HIDE DEF c, none, noKey
<1> QED
  BY <1>1, <1>2, <1>3, OneStream

LEMMA StepReads == HttpInv /\ StreamInv /\ [HttpNext]_httpVars => StreamInv'
<1> SUFFICES ASSUME HttpInv, StreamInv, [HttpNext]_httpVars PROVE StreamInv'
  OBVIOUS
<1>1. ASSUME NEW t \in Thread, NEW m \in Called,
             complete(t, m) \/ stream_complete(t, m) \/ health_check(t, m)
      PROVE  StreamInv'
  BY <1>1, BeginReads DEF complete, stream_complete, health_check
<1>2. ASSUME NEW t \in Thread, Progress(t) \/ Resume(t) \/ StreamClosed(t)
      PROVE  StreamInv'
  <2>1. CASE NextAttempt(t)
    <3>1. call' = [call EXCEPT ![t].stage = "request", ![t].attempt = call[t].attempt + 1]
      BY <2>1, InCall DEF NextAttempt, Call
    <3> QED
      BY <2>1, <3>1, NoStream DEF NextAttempt
  <2>2. CASE Refused(t)
    BY <2>2, RetryReads, OtherEnd DEF Refused
  <2>3. CASE Served(t)
    BY <2>3, NoStream DEF Served
  <2>4. CASE Lost(t)
    BY <2>4, RetryReads DEF Lost, Transient
  <2>5. CASE Broken(t)
    BY <2>5, OtherEnd DEF Broken
  <2>6. CASE AnswerComes(t)
    BY <2>6, OtherEnd DEF AnswerComes
  <2>7. CASE Probed(t)
    BY <2>7, OtherEnd DEF Probed
  <2>8. CASE StreamRefused(t)
    BY <2>8, OtherEnd DEF StreamRefused, Transient
  <2>9. CASE StreamOpened(t)
    <3>1. PICK b \in Bodies : call' = [call EXCEPT ![t].stage = "stream", ![t].body = b]
      BY <2>9 DEF StreamOpened
    <3> DEFINE c == [call[t] EXCEPT !.stage = "stream", !.body = b]
    <3>2. call[t] \in Call /\ call[t].stage = "opening" /\ Reads(call[t]) /\ b \in Seq(Line)
      BY <2>9, InCall, HttpAssumption DEF StreamOpened, Stage, StreamInv
    <3>3. call' = [call EXCEPT ![t] = c]
      BY <3>1
    <3>4. c.stage = "stream" /\ c.read = 0 /\ c.received = <<>> /\ c.body = b
      BY <3>2 DEF Reads, Call
    <3>5. outcome' = [outcome EXCEPT ![t] = outcome[t]] /\ Streamed(outcome[t])
      BY <2>9, InCall DEF StreamOpened, StreamInv
    <3> HIDE DEF c
    <3>6. Delivered(c, 0)
      BY <3>4 DEF Delivered
    <3>7. Reads(c)
      BY <3>2, <3>4, <3>6 DEF Reads, Reading
    <3> QED
      BY <3>3, <3>5, <3>7, OneStream
  <2>10. CASE StreamLost(t)
    BY <2>10, OtherEnd DEF StreamLost
  <2>11. CASE ReadLine(t)
    BY <2>11, ReadLineReads
  <2>12. CASE StreamClosed(t)
    BY <2>12, OtherEnd DEF StreamClosed
  <2>13. CASE Resume(t)
    <3> DEFINE c == [call[t] EXCEPT !.stage = "stream"]
    <3>1. call[t] \in Call /\ call[t].stage = "yielded" /\ Reads(call[t])
      BY <2>13, InCall DEF Resume, Stage, StreamInv
    <3>2. call' = [call EXCEPT ![t] = c]
      BY <2>13 DEF Resume
    <3>3. Reads(c)
      BY <3>1 DEF Reads, Reading, Delivered, Call
    <3>4. outcome' = [outcome EXCEPT ![t] = outcome[t]] /\ Streamed(outcome[t])
      BY <2>13, InCall DEF Resume, StreamInv
    <3> HIDE DEF c
    <3> QED
      BY <3>2, <3>3, <3>4, OneStream
  <2> QED
    BY <1>2, <2>1, <2>2, <2>3, <2>4, <2>5, <2>6, <2>7, <2>8, <2>9, <2>10, <2>11, <2>12, <2>13
       DEF Progress
<1>3. CASE UNCHANGED <<call, outcome>>
  <2>1. \A t \in Thread : Reads(call'[t]) /\ Streamed(outcome'[t])
    BY <1>3 DEF StreamInv
  <2> QED
    BY <2>1 DEF StreamInv, Reads, Streamed, ReadToEnd, Delivered
<1> QED
  BY <1>1, <1>2, <1>3 DEF HttpNext, SetEnviron, SetAccepted, httpVars

\* Of any stream, however its lines are mixed, a consumer has received the
\* chunks that were read, each once and in order, and all of them when it ends
\* without an error (stream_complete's loop over the lines).
THEOREM StreamsAreFaithful == HttpSpec => []StreamIsFaithful
<1>1. HttpInit => StreamInv
  BY DEF HttpInit, StreamInv, Reads, Streamed, Idle, Reading
<1>2. HttpInv /\ StreamInv => StreamIsFaithful
  <2> SUFFICES ASSUME HttpInv, StreamInv, NEW t \in Thread
               PROVE  /\ Stage(t) \in {"stream", "yielded"} => Delivered(call[t], call[t].read)
                      /\ Stage(t) = "idle" /\ outcome[t].kind = "streamed" =>
                            \E n \in 0 .. Len(outcome[t].call.body) :
                                /\ n = Len(outcome[t].call.body) \/ outcome[t].call.body[n + 1] = "done"
                                /\ \A i \in 1 .. n : outcome[t].call.body[i] # "done"
                                /\ Delivered(outcome[t].call, n)
    BY DEF StreamIsFaithful
  <2>1. Reads(call[t]) /\ Streamed(outcome[t])
    BY DEF StreamInv
  <2> QED
    BY <2>1 DEF Reads, Reading, Streamed, ReadToEnd, Stage
<1> QED
  BY <1>1, <1>2, StepReads, HttpInvariant, PTL DEF HttpSpec
=============================================================================
