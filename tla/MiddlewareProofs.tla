-------------------------- MODULE MiddlewareProofs --------------------------
(***************************************************************************)
(* Theorems about Middleware, for every set of connections, clients and    *)
(* requests, every mix of layers, and every capacity and rate.             *)
(***************************************************************************)
EXTENDS Middleware, LimiterProofs

\* What an extractor returns is a key, or no key.
LEMMA ExtractsKey ==
    ASSUME NEW layer \in HttpLayer \cup GrpcLayer, NEW r \in Request
    PROVE  /\ extract(layer.extractor, r) \in Key \cup {Absent}
           /\ extract(layer.extractor, r) # Absent => payer(layer.extractor, r) \in Key
<1> DEFINE x == layer.extractor
<1>1. x \in {"ConnectInfo", "Ip", "Method", "Metadata", "Custom"}
  BY LayerAssumption DEF RateLimitLayer, GrpcRateLimitLayer
<1>2. /\ r.client \in Client /\ r.path \in Method /\ r.user \in User \cup {Absent}
      /\ r.real_ip \in Client \cup {Absent, Blank}
      /\ r.peer # Absent => r.peer.ip \in Client
      /\ r.forwarded \in Seq(Hop) \cup {Absent}
      /\ r.forwarded # Absent => r.forwarded # << >>
  BY RequestAssumption DEF RequestType
<1>3. LastHop(r) \in Client \cup {Blank, Absent}
  <2>1. CASE r.forwarded = Absent
    BY <2>1 DEF LastHop
  <2>2. CASE r.forwarded # Absent
    <3> DEFINE hops == r.forwarded
    <3>1. hops \in Seq(Hop) /\ hops # << >>
      BY <1>2, <2>2
    <3> HIDE DEF hops
    <3>2. Len(hops) \in 1..Len(hops) /\ hops[Len(hops)] \in Hop
      BY <3>1
    <3> QED BY <2>2, <3>2 DEF LastHop, trim, Hop, hops
  <2> QED BY <2>1, <2>2
<1>4. CASE x = "ConnectInfo"
  BY <1>2, <1>4 DEF extract, payer, ConnectInfo, Key
<1>5. CASE x = "Ip"
  <2>1. IpKey(r) \in Client \cup {Absent, Blank}
    <3>1. CASE r.peer # Absent
      BY <1>2, <3>1 DEF IpKey
    <3>2. CASE r.peer = Absent /\ LastHop(r) \notin {Absent, Blank}
      BY <1>3, <3>2 DEF IpKey
    <3>3. CASE r.peer = Absent /\ LastHop(r) \in {Absent, Blank}
      BY <1>2, <3>3 DEF IpKey
    <3> QED BY <3>1, <3>2, <3>3
  <2> QED BY <1>2, <1>5, <2>1 DEF extract, payer, Key
<1>6. CASE x \in {"Method", "Metadata", "Custom"}
  BY <1>2, <1>6 DEF extract, payer, MethodKey, MetadataKey, CustomKey, Key
<1> QED BY <1>1, <1>4, <1>5, <1>6

-----------------------------------------------------------------------------
(***************************************************************************)
(* Types                                                                   *)
(***************************************************************************)

\* What a future keeps across the call of the inner service.
Kept == [grpc : BOOLEAN, key : Key \cup {Absent}, decision : Decision]

\* The fields of an answer.
Headers == [limit : Nat, remaining : Nat \cup {None}, reset : Nat \cup {None},
            retry_after : Nat \cup {None}]

Said == [by : Conn \cup {Absent}, at : 0..MaxTime, headers : Headers \cup {Absent}]

\* TypeOK, the types of what the futures keep and of what has been said, and
\* buckets that are dated in the past.
TypeInv ==
    /\ TypeOK
    /\ pending \in [Conn -> Kept]
    /\ told \in [Key -> Said]
    /\ \A k \in Key : Dated(buckets[k], clock)

\* The headers made of a decision have their types.
LEMMA ResponseTyped ==
    ASSUME NEW d \in Decision
    PROVE  /\ add_rate_limit_headers(d) \in Headers
           /\ add_rate_limit_trailer(d) \in Headers
           /\ rate_limit_response(d) \in Headers
           /\ rate_limit_error_response(d) \in Headers
<1>1. ASSUME NEW x \in Nat \cup {None} PROVE seconds(x) \in Nat \cup {None}
  <2>1. CASE x = None
    BY <2>1 DEF seconds
  <2>2. CASE x # None
    BY <1>1, <2>2, SecondsCover DEF seconds
  <2> QED BY <2>1, <2>2
<1>2. /\ d.limit \in Nat /\ d.remaining \in Nat \cup {None}
      /\ seconds(d.reset) \in Nat \cup {None} /\ seconds(d.retry_after) \in Nat \cup {None}
  BY <1>1 DEF Decision
<1>3. add_rate_limit_headers(d) \in Headers
  BY <1>2 DEF add_rate_limit_headers, Headers
<1> QED
  BY <1>2, <1>3
  DEF add_rate_limit_trailer, rate_limit_response, rate_limit_error_response, Headers

\* Headers are what the type invariant says.
LEMMA HeadersAre ==
    ASSUME NEW h \in Headers
    PROVE  IsHeaders(h)
<1>1. DOMAIN h = {"limit", "remaining", "reset", "retry_after"}
  BY DEF Headers
<1>2. /\ h["limit"] \in Nat \cup {None} /\ h["remaining"] \in Nat \cup {None}
      /\ h["reset"] \in Nat \cup {None} /\ h["retry_after"] \in Nat \cup {None}
  BY DEF Headers
<1> QED BY <1>1, <1>2 DEF IsHeaders

\* A check finds or makes a bucket, dates it no later than now, and decides.
LEMMA CheckTyped ==
    ASSUME TypeInv, NEW k \in Key
    PROVE  LET full == refilled(buckets[k], clock) IN
           /\ full \in Bucket /\ taken(full, 1) \in Bucket
           /\ taken(full, 1).last_refill <= clock
           /\ Dated(taken(full, 1), clock)
           /\ decision(full, 1) \in Decision
           /\ decision(full, 1).permitted = permits(full, 1)
<1> DEFINE full == refilled(buckets[k], clock)
<1>1. /\ clock \in u64 /\ buckets[k] \in Bucket \cup {NoBucket}
      /\ Dated(buckets[k], clock)
  BY RequestAssumption, MathAssumption DEF TypeInv, TypeOK, u64
<1>2. full \in Bucket /\ full.last_refill <= clock
  BY <1>1, RefilledIsBucket
<1> HIDE DEF full
<1>3. /\ taken(full, 1) \in Bucket
      /\ taken(full, 1).last_refill = full.last_refill
  BY <1>2, OneToken
<1>4. decision(full, 1) \in Decision /\ decision(full, 1).permitted = permits(full, 1)
  BY <1>2, DecisionDescribes
<1> QED BY <1>2, <1>3, <1>4 DEF Dated, full

\* Initially there is no bucket, nothing is pending and nothing has been said.
LEMMA InitTypeInv == Init => TypeInv
<1> SUFFICES ASSUME Init PROVE TypeInv
  OBVIOUS
<1>1. NothingPending \in Kept /\ NothingPending.key = Absent
  BY LimiterConstants DEF NothingPending, Kept, Decision, zero_cost_decision
<1>2. 0 \in 0..MaxTime
  BY RequestAssumption, MathAssumption DEF u64
<1>3. NotTold \in Said /\ NotTold.headers = Absent
  BY <1>2 DEF NotTold, Said
<1>4. TypeOK
  BY <1>1, <1>2, <1>3 DEF Init, TypeOK
<1> QED BY <1>1, <1>3, <1>4 DEF Init, TypeInv, Dated

\* Every step keeps them.
LEMMA NextTypeInv == TypeInv /\ [Next]_vars => TypeInv'
<1> SUFFICES ASSUME TypeInv, [Next]_vars PROVE TypeInv'
  OBVIOUS
<1> USE DEF TypeInv, TypeOK
<1>1. MaxTime \in Nat
  BY RequestAssumption, MathAssumption DEF u64
<1>2. ASSUME NEW g \in BOOLEAN
      PROVE  /\ [NothingPending EXCEPT !.grpc = g] \in Kept
             /\ [NothingPending EXCEPT !.grpc = g].key = Absent
             /\ NothingPending \in Kept /\ NothingPending.key = Absent
  BY LimiterConstants DEF NothingPending, Kept, Decision, zero_cost_decision
<1>3. CASE UNCHANGED vars
  BY <1>3 DEF vars, Dated
<1>4. CASE Tick
  BY <1>1, <1>4 DEF Tick, Dated, Bucket
<1>5. ASSUME NEW c \in Conn, PollReady(c) \/ Call(c) PROVE TypeInv'
  BY <1>5 DEF PollReady, Call
<1>6. ASSUME NEW c \in Conn, Finish(c), UNCHANGED <<buckets, calls, told>> PROVE TypeInv'
  BY <1>2, <1>6 DEF Finish
<1>7. ASSUME NEW c \in Conn, NEW g \in BOOLEAN, NEW layer \in HttpLayer \cup GrpcLayer,
             NEW r \in Request, WithoutKey(c, g, layer, r)
      PROVE  TypeInv'
  <2>1. CASE layer.fail_open
    BY <1>2, <1>7, <2>1 DEF WithoutKey, CallInner
  <2>2. CASE ~layer.fail_open
    BY <1>6, <1>7, <2>2 DEF WithoutKey
  <2> QED BY <2>1, <2>2
<1>8. ASSUME NEW c \in Conn, NEW g \in BOOLEAN, NEW layer \in HttpLayer \cup GrpcLayer,
             NEW r \in Request, Permitted(c, g, layer, r)
      PROVE  TypeInv'
  <2> DEFINE k    == extract(layer.extractor, r)
             p    == payer(layer.extractor, r)
             full == refilled(buckets[k], clock)
             left == taken(full, 1)
             d    == decision(full, 1)
             keep == [grpc |-> g, key |-> k, decision |-> d]
  <2>1. /\ k \in Key /\ p \in Key
    BY <1>8, ExtractsKey DEF Permitted
  <2>2. /\ left \in Bucket /\ Dated(left, clock)
        /\ d \in Decision /\ d.permitted
    BY <1>8, <2>1, CheckTyped DEF Permitted
  <2>3. /\ keep \in Kept /\ keep.key = k /\ keep.decision.permitted
    BY <2>1, <2>2 DEF Kept
  <2>4. Silent(c) \in Said /\ Silent(c).headers = Absent
    BY <1>1 DEF Silent, Said
  <2>5. /\ buckets' = [buckets EXCEPT ![k] = left]
        /\ pending' = [pending EXCEPT ![c] = keep]
        /\ stage' = [stage EXCEPT ![c] = "inner"]
        /\ calls' = [calls EXCEPT ![p] = @ + 1]
        /\ told' = [told EXCEPT ![k] = Silent(c)]
        /\ UNCHANGED <<clock, ready>>
    BY <1>8 DEF Permitted, CallInner
  <2> HIDE DEF k, p, full, left, d, keep
  <2> QED BY <2>1, <2>2, <2>3, <2>4, <2>5
<1>9. ASSUME NEW c \in Conn, NEW g \in BOOLEAN, NEW layer \in HttpLayer \cup GrpcLayer,
             NEW r \in Request, Denied(c, g, layer, r)
      PROVE  TypeInv'
  <2> DEFINE k    == extract(layer.extractor, r)
             full == refilled(buckets[k], clock)
             left == taken(full, 1)
             d    == decision(full, 1)
             h    == IF g THEN rate_limit_error_response(d) ELSE rate_limit_response(d)
             said == [by |-> c, at |-> clock, headers |-> h]
  <2>1. k \in Key
    BY <1>9, ExtractsKey DEF Denied
  <2>2. left \in Bucket /\ Dated(left, clock) /\ h \in Headers
    BY <2>1, CheckTyped, ResponseTyped
  <2>3. said \in Said /\ IsHeaders(said.headers)
    BY <2>2, HeadersAre DEF Said
  <2>4. /\ buckets' = [buckets EXCEPT ![k] = left]
        /\ told' = [told EXCEPT ![k] = said]
        /\ pending' = [pending EXCEPT ![c] = NothingPending]
        /\ stage' = [stage EXCEPT ![c] = "open"]
        /\ UNCHANGED <<clock, ready, calls>>
    BY <1>9 DEF Denied, Finish
  <2> HIDE DEF k, full, left, d, h, said
  <2> QED BY <1>2, <2>1, <2>2, <2>3, <2>4
<1>10. ASSUME NEW c \in Conn, InnerAnswers(c) PROVE TypeInv'
  <2> DEFINE k == pending[c].key
             h == IF pending[c].grpc
                  THEN add_rate_limit_trailer(pending[c].decision)
                  ELSE add_rate_limit_headers(pending[c].decision)
             said == [by |-> c, at |-> clock, headers |-> h]
  <2>1. h \in Headers
    BY ResponseTyped DEF Kept
  <2>2. CASE k # Absent /\ told[k].by = c
    <3>1. k \in Key
      BY <2>2
    <3>2. told' = [told EXCEPT ![k] = said]
      BY <1>10, <2>2 DEF InnerAnswers
    <3>3. said \in Said /\ IsHeaders(said.headers)
      BY <2>1, <3>1, HeadersAre DEF Said
    <3>4. /\ pending' = [pending EXCEPT ![c] = NothingPending]
          /\ stage' = [stage EXCEPT ![c] = "open"]
          /\ UNCHANGED <<clock, ready, buckets, calls>>
      BY <1>10 DEF InnerAnswers, Finish
    <3> HIDE DEF k, h, said
    <3> QED BY <1>2, <3>1, <3>2, <3>3, <3>4
  <2>3. CASE ~(k # Absent /\ told[k].by = c)
    BY <1>6, <1>10, <2>3 DEF InnerAnswers
  <2> QED BY <2>2, <2>3
<1>11. ASSUME NEW c \in Conn, Serving(c) PROVE TypeInv'
  BY <1>5, <1>6, <1>7, <1>8, <1>9, <1>10, <1>11
  DEF Serving, HttpCall, GrpcCall, InnerFails, DropFuture
<1> QED
  BY <1>3, <1>4, <1>11 DEF Next

\* The state has its types, whatever the layers, the requests and the limiter.
THEOREM TypeCorrect == Spec => []TypeOK
<1>1. TypeInv => TypeOK
  BY DEF TypeInv
<1> QED BY <1>1, InitTypeInv, NextTypeInv, PTL DEF Spec

\* A step that checks nothing and tells nobody: time passes, a future is made, or
\* is dropped with what it kept.
Quiet ==
    /\ clock' \in Nat /\ clock <= clock'
    /\ UNCHANGED <<buckets, calls, told>>
    /\ \A c \in Conn : pending'[c].key = Absent \/ pending'[c] = pending[c]

\* Every step is quiet, or a check, or the answer of the inner service.
LEMMA StepKinds ==
    ASSUME TypeInv, [Next]_vars
    PROVE  \/ Quiet
           \/ \E c \in Conn : InnerAnswers(c)
           \/ \E c \in Conn, g \in BOOLEAN, layer \in HttpLayer \cup GrpcLayer, r \in Request :
                 Permitted(c, g, layer, r) \/ Denied(c, g, layer, r)
<1> USE DEF TypeInv, TypeOK
<1>1. clock \in Nat
  BY RequestAssumption, MathAssumption DEF u64
<1>2. CASE UNCHANGED vars \/ Tick
  BY <1>1, <1>2 DEF vars, Tick, Quiet
<1>3. ASSUME NEW c \in Conn, PollReady(c) \/ Call(c) PROVE Quiet
  BY <1>1, <1>3 DEF PollReady, Call, Quiet
<1>4. ASSUME NEW c \in Conn, Finish(c), UNCHANGED <<buckets, calls, told>> PROVE Quiet
  BY <1>1, <1>4 DEF Finish, Quiet, NothingPending
<1>5. ASSUME NEW c \in Conn, NEW g \in BOOLEAN, NEW layer \in HttpLayer \cup GrpcLayer,
             NEW r \in Request, WithoutKey(c, g, layer, r)
      PROVE  Quiet
  BY <1>1, <1>4, <1>5 DEF WithoutKey, CallInner, Quiet, NothingPending
<1> QED
  BY <1>2, <1>3, <1>4, <1>5
  DEF Next, Serving, HttpCall, GrpcCall, InnerFails, DropFuture

-----------------------------------------------------------------------------
(***************************************************************************)
(* The budget of a client                                                  *)
(***************************************************************************)

\* The proxies in front of the service are to be relied on: the last hop that was
\* written down, or else the header for a real address, is that of the client.
ProxiesNameTheClient ==
    \A r \in Request : r.peer = Absent =>
        /\ LastHop(r) \in {Absent, Blank, r.client}
        /\ r.real_ip \in {Absent, r.client}

\* Then whatever key is extracted is the one that is to pay.
LEMMA ExtractsPayer ==
    ASSUME ProxiesNameTheClient, NEW layer \in HttpLayer \cup GrpcLayer, NEW r \in Request
    PROVE  extract(layer.extractor, r) \in {Absent, payer(layer.extractor, r)}
<1> DEFINE x == layer.extractor
<1>1. x \in {"ConnectInfo", "Ip", "Method", "Metadata", "Custom"}
  BY LayerAssumption DEF RateLimitLayer, GrpcRateLimitLayer
<1>2. /\ r.peer # Absent => r.peer.ip = r.client
      /\ r.peer = Absent => /\ LastHop(r) \in {Absent, Blank, r.client}
                            /\ r.real_ip \in {Absent, r.client}
  BY RequestAssumption DEF ProxiesNameTheClient
<1>3. CASE x = "ConnectInfo"
  BY <1>2, <1>3 DEF extract, payer, ConnectInfo
<1>4. CASE x = "Ip"
  <2>1. IpKey(r) \in {Absent, r.client}
    <3>1. CASE r.peer # Absent
      BY <1>2, <3>1 DEF IpKey
    <3>2. CASE r.peer = Absent /\ LastHop(r) \notin {Absent, Blank}
      BY <1>2, <3>2 DEF IpKey
    <3>3. CASE r.peer = Absent /\ LastHop(r) \in {Absent, Blank}
      BY <1>2, <3>3 DEF IpKey
    <3> QED BY <3>1, <3>2, <3>3
  <2> QED BY <1>4, <2>1 DEF extract, payer
<1>5. CASE x \in {"Method", "Metadata", "Custom"}
  BY <1>5 DEF extract, payer, MethodKey, MetadataKey, CustomKey
<1> QED BY <1>1, <1>3, <1>4, <1>5

\* What has been passed on for a key is within what its bucket was credited.
BudgetInv == TypeInv /\ \A k \in Key : Within(buckets[k], calls[k])

\* Every step keeps it so: who pays for a request has the bucket that is checked.
LEMMA NextBudgetInv ==
    ASSUME Exact(rate_scaled), ProxiesNameTheClient
    PROVE  BudgetInv /\ [Next]_vars => BudgetInv'
<1> SUFFICES ASSUME BudgetInv, [Next]_vars PROVE BudgetInv'
  OBVIOUS
<1>1. TypeInv /\ TypeInv' /\ \A k \in Key : Within(buckets[k], calls[k])
  BY NextTypeInv DEF BudgetInv
<1>2. CASE UNCHANGED <<buckets, calls>>
  BY <1>1, <1>2 DEF BudgetInv
<1>3. ASSUME NEW layer \in HttpLayer \cup GrpcLayer, NEW r \in Request, NEW k \in Key,
             k = extract(layer.extractor, r)
      PROVE  LET full == refilled(buckets[k], clock) IN
             /\ payer(layer.extractor, r) = k
             /\ Within(taken(full, 1), IF permits(full, 1) THEN calls[k] + 1 ELSE calls[k])
  <2>1. payer(layer.extractor, r) = k
    BY <1>3, ExtractsPayer, RequestAssumption
  <2>2. /\ buckets[k] \in Bucket \cup {NoBucket} /\ Dated(buckets[k], clock)
        /\ clock \in u64 /\ calls[k] \in Nat /\ Within(buckets[k], calls[k])
    BY <1>1, RequestAssumption, MathAssumption DEF TypeInv, TypeOK, u64
  <2> QED BY <2>1, <2>2, CheckStaysWithin
<1>4. ASSUME NEW c \in Conn, NEW g \in BOOLEAN, NEW layer \in HttpLayer \cup GrpcLayer,
             NEW r \in Request, Permitted(c, g, layer, r)
      PROVE  BudgetInv'
  <2> DEFINE k    == extract(layer.extractor, r)
             full == refilled(buckets[k], clock)
             left == taken(full, 1)
  <2>1. k \in Key
    BY <1>4, ExtractsKey DEF Permitted
  <2>2. payer(layer.extractor, r) = k /\ Within(left, calls[k] + 1)
    BY <1>3, <1>4, <2>1 DEF Permitted
  <2>3. /\ buckets' = [buckets EXCEPT ![k] = left]
        /\ calls' = [calls EXCEPT ![k] = @ + 1]
    BY <1>4, <2>2 DEF Permitted
  <2> HIDE DEF k, full, left
  <2> QED BY <1>1, <2>1, <2>2, <2>3 DEF BudgetInv, TypeInv, TypeOK
<1>5. ASSUME NEW c \in Conn, NEW g \in BOOLEAN, NEW layer \in HttpLayer \cup GrpcLayer,
             NEW r \in Request, Denied(c, g, layer, r)
      PROVE  BudgetInv'
  <2> DEFINE k    == extract(layer.extractor, r)
             full == refilled(buckets[k], clock)
             left == taken(full, 1)
  <2>1. k \in Key
    BY <1>5, ExtractsKey DEF Denied
  <2>2. Within(left, calls[k])
    BY <1>3, <1>5, <2>1 DEF Denied
  <2>3. buckets' = [buckets EXCEPT ![k] = left] /\ calls' = calls
    BY <1>5 DEF Denied
  <2> HIDE DEF k, full, left
  <2> QED BY <1>1, <2>1, <2>2, <2>3 DEF BudgetInv, TypeInv, TypeOK
<1> QED
  BY <1>1, <1>2, <1>4, <1>5, StepKinds DEF Quiet, InnerAnswers

\* Each client, user or method has the budget of one bucket, by whatever services,
\* connections and proxies its requests come, if the proxies name the client and
\* the rate is exact.
THEOREM BudgetHolds ==
    ASSUME Exact(rate_scaled), ProxiesNameTheClient
    PROVE  Spec => []ClientBudget
<1>1. Init => BudgetInv
  BY InitTypeInv DEF Init, BudgetInv, Within
<1>2. BudgetInv /\ [Next]_vars => BudgetInv'
  BY NextBudgetInv
<1>3. BudgetInv => ClientBudget
  <2> SUFFICES ASSUME BudgetInv, NEW p \in Key
               PROVE  NANOS_PER_SEC * SCALE * calls[p]
                         <= NANOS_PER_SEC * scaled_capacity + rate_scaled * clock
    BY DEF ClientBudget
  <2>1. /\ buckets[p] \in Bucket \cup {NoBucket} /\ Dated(buckets[p], clock)
        /\ clock \in Nat /\ calls[p] \in Nat /\ Within(buckets[p], calls[p])
    BY RequestAssumption, MathAssumption DEF BudgetInv, TypeInv, TypeOK, u64
  <2> QED BY <2>1, WithinBudget
<1> QED BY <1>1, <1>2, <1>3, PTL DEF Spec

-----------------------------------------------------------------------------
(***************************************************************************)
(* What the headers promise                                                *)
(***************************************************************************)

\* Headers that tell of a bucket as it is.
Tells(h, b) ==
    LET reset == time_until_full(burst - h.remaining, requests_per_second) IN
    /\ Describes(h.remaining, reset, b)
    /\ h.reset = seconds(reset)
    /\ h.retry_after \in {None, seconds(wait_for_tokens(1, requests_per_second))}

\* The decision that a future keeps describes its bucket until somebody else asks
\* for the key, ...
PendingDescribes ==
    \A k \in Key, c \in Conn : told[k].by = c /\ pending[c].key = k =>
        /\ buckets[k] # NoBucket
        /\ Describes(pending[c].decision.remaining, pending[c].decision.reset, buckets[k])

\* ... and so do the headers of the answer.
ToldTruth ==
    \A k \in Key : Informed(k) =>
        /\ buckets[k] # NoBucket
        /\ buckets[k].last_refill <= told[k].at /\ told[k].at <= clock
        /\ Tells(told[k].headers, buckets[k])

HeadersInv == TypeInv /\ PendingDescribes /\ ToldTruth

\* The headers made of a decision say what it says.
LEMMA ResponseTells ==
    ASSUME NEW d \in Decision, NEW b, Describes(d.remaining, d.reset, b),
           d.retry_after \in {None, wait_for_tokens(1, requests_per_second)}
    PROVE  /\ Tells(add_rate_limit_headers(d), b)
           /\ Tells(add_rate_limit_trailer(d), b)
           /\ Tells(rate_limit_response(d), b)
           /\ Tells(rate_limit_error_response(d), b)
<1>1. ASSUME NEW x \in {None, seconds(wait_for_tokens(1, requests_per_second))}
      PROVE  Tells([limit |-> d.limit, remaining |-> d.remaining,
                    reset |-> seconds(d.reset), retry_after |-> x], b)
  BY DEF Tells, Describes
<1>2. seconds(d.retry_after) \in {None, seconds(wait_for_tokens(1, requests_per_second))}
  BY DEF seconds
<1> QED
  BY <1>1, <1>2
  DEF add_rate_limit_headers, add_rate_limit_trailer, rate_limit_response,
      rate_limit_error_response

\* Every step keeps what is said true.
LEMMA NextHeadersInv == HeadersInv /\ [Next]_vars => HeadersInv'
<1> SUFFICES ASSUME HeadersInv, [Next]_vars PROVE HeadersInv'
  OBVIOUS
<1>1. TypeInv /\ TypeInv' /\ PendingDescribes /\ ToldTruth /\ Absent \notin Key
  BY NextTypeInv, RequestAssumption DEF HeadersInv
<1>2. clock \in Nat /\ NothingPending.key = Absent
  BY <1>1, RequestAssumption, MathAssumption DEF TypeInv, TypeOK, u64, NothingPending
<1>3. CASE Quiet
  <2>1. PendingDescribes'
    BY <1>1, <1>3 DEF Quiet, PendingDescribes
  <2>2. ToldTruth'
    <3> SUFFICES ASSUME NEW k \in Key, Informed(k)'
                 PROVE  /\ buckets'[k] # NoBucket
                        /\ buckets'[k].last_refill <= told'[k].at /\ told'[k].at <= clock'
                        /\ Tells(told'[k].headers, buckets'[k])
      BY DEF ToldTruth
    <3>1. Informed(k) /\ told[k].at \in Nat /\ clock' \in Nat /\ clock <= clock'
      BY <1>1, <1>3, RequestAssumption DEF Quiet, Informed, TypeInv, Said
    <3>2. buckets' = buckets /\ told' = told
      BY <1>3 DEF Quiet
    <3> QED BY <1>1, <1>2, <3>1, <3>2 DEF ToldTruth
  <2> QED BY <1>1, <2>1, <2>2 DEF HeadersInv
<1>4. ASSUME NEW c \in Conn, InnerAnswers(c) PROVE HeadersInv'
  <2> DEFINE k == pending[c].key
             d == pending[c].decision
             h == IF pending[c].grpc THEN add_rate_limit_trailer(d) ELSE add_rate_limit_headers(d)
             said == [by |-> c, at |-> clock, headers |-> h]
  <2>1. /\ pending' = [pending EXCEPT ![c] = NothingPending]
        /\ UNCHANGED <<clock, buckets>>
        /\ told' = IF k # Absent /\ told[k].by = c THEN [told EXCEPT ![k] = said] ELSE told
    BY <1>4 DEF InnerAnswers, Finish
  <2>2. d \in Decision /\ k \in Key \cup {Absent}
    BY <1>1 DEF TypeInv, Kept
  <2>3. CASE k # Absent /\ told[k].by = c
    <3>1. /\ k \in Key /\ buckets[k] # NoBucket
          /\ Describes(d.remaining, d.reset, buckets[k])
      BY <1>1, <2>2, <2>3 DEF PendingDescribes
    <3>2. Tells(h, buckets[k])
      <4> DEFINE e == [d EXCEPT !.retry_after = None]
      <4>2. /\ e \in Decision /\ e.retry_after = None
            /\ e.remaining = d.remaining /\ e.reset = d.reset
        BY <2>2 DEF Decision
      <4>3. /\ add_rate_limit_headers(d) = add_rate_limit_headers(e)
            /\ add_rate_limit_trailer(d) = add_rate_limit_trailer(e)
        BY <2>2 DEF add_rate_limit_headers, add_rate_limit_trailer, Decision
      <4> HIDE DEF e
      <4> QED BY <3>1, <4>2, <4>3, ResponseTells
    <3>3. buckets[k].last_refill <= clock
      BY <1>1, <3>1 DEF TypeInv, Dated
    <3> HIDE DEF k, d, h
    <3>4. PendingDescribes'
      BY <1>1, <1>2, <2>1, <2>3, <3>1 DEF PendingDescribes, TypeInv, Said
    <3>5. ToldTruth'
      BY <1>1, <1>2, <2>1, <2>3, <3>1, <3>2, <3>3 DEF ToldTruth, Informed, TypeInv
    <3> QED BY <1>1, <3>4, <3>5 DEF HeadersInv
  <2>4. CASE ~(k # Absent /\ told[k].by = c)
    <3>1. told' = told
      BY <2>1, <2>4
    <3> HIDE DEF k, d, h
    <3>2. PendingDescribes'
      BY <1>1, <1>2, <2>1, <3>1 DEF PendingDescribes, TypeInv
    <3>3. ToldTruth'
      BY <1>1, <2>1, <3>1 DEF ToldTruth, Informed
    <3> QED BY <1>1, <3>2, <3>3 DEF HeadersInv
  <2> QED BY <2>3, <2>4
<1>5. ASSUME NEW c \in Conn, NEW g \in BOOLEAN, NEW layer \in HttpLayer \cup GrpcLayer,
             NEW r \in Request, Permitted(c, g, layer, r)
      PROVE  HeadersInv'
  <2> DEFINE k    == extract(layer.extractor, r)
             full == refilled(buckets[k], clock)
             left == taken(full, 1)
             d    == decision(full, 1)
             keep == [grpc |-> g, key |-> k, decision |-> d]
  <2>1. k \in Key
    BY <1>5, ExtractsKey DEF Permitted
  <2>2. full \in Bucket /\ left \in Bucket
    BY <1>1, <2>1, CheckTyped
  <2>3. Describes(d.remaining, d.reset, left)
    <3> HIDE DEF full
    <3> QED BY <2>2, DecisionDescribes
  <2>4. left # NoBucket
    BY <2>2, LimiterConstants DEF Bucket, NoBucket, None
  <2>5. /\ buckets' = [buckets EXCEPT ![k] = left]
        /\ pending' = [pending EXCEPT ![c] = keep]
        /\ told' = [told EXCEPT ![k] = Silent(c)]
        /\ UNCHANGED clock
    BY <1>5 DEF Permitted, CallInner
  <2>6. /\ keep.key = k /\ keep.decision = d
        /\ Silent(c).by = c /\ Silent(c).headers = Absent
    BY DEF Silent
  <2> HIDE DEF k, full, left, d, keep
  <2>7. PendingDescribes'
    BY <1>1, <2>1, <2>3, <2>4, <2>5, <2>6 DEF PendingDescribes, TypeInv, TypeOK
  <2>8. ToldTruth'
    BY <1>1, <2>1, <2>5, <2>6 DEF ToldTruth, Informed, TypeInv, TypeOK
  <2> QED BY <1>1, <2>7, <2>8 DEF HeadersInv
<1>6. ASSUME NEW c \in Conn, NEW g \in BOOLEAN, NEW layer \in HttpLayer \cup GrpcLayer,
             NEW r \in Request, Denied(c, g, layer, r)
      PROVE  HeadersInv'
  <2> DEFINE k    == extract(layer.extractor, r)
             full == refilled(buckets[k], clock)
             left == taken(full, 1)
             d    == decision(full, 1)
             h    == IF g THEN rate_limit_error_response(d) ELSE rate_limit_response(d)
             said == [by |-> c, at |-> clock, headers |-> h]
  <2>1. k \in Key
    BY <1>6, ExtractsKey DEF Denied
  <2>2. full \in Bucket /\ left \in Bucket /\ left.last_refill <= clock
    BY <1>1, <2>1, CheckTyped
  <2>3. /\ Describes(d.remaining, d.reset, left) /\ d \in Decision
        /\ d.retry_after \in {None, wait_for_tokens(1, requests_per_second)}
    <3> HIDE DEF full
    <3> QED BY <2>2, DecisionDescribes
  <2>4. Tells(h, left)
    <3> HIDE DEF d, left
    <3> QED BY <2>3, ResponseTells
  <2>5. left # NoBucket
    BY <2>2, LimiterConstants DEF Bucket, NoBucket, None
  <2>6. /\ buckets' = [buckets EXCEPT ![k] = left]
        /\ told' = [told EXCEPT ![k] = said]
        /\ pending' = [pending EXCEPT ![c] = NothingPending]
        /\ UNCHANGED clock
    BY <1>6 DEF Denied, Finish
  <2>7. said.by = c /\ said.at = clock /\ said.headers = h
    OBVIOUS
  <2> HIDE DEF k, full, left, d, h, said
  <2>8. PendingDescribes'
    BY <1>1, <1>2, <2>1, <2>6, <2>7 DEF PendingDescribes, TypeInv, TypeOK
  <2>9. ToldTruth'
    BY <1>1, <1>2, <2>1, <2>2, <2>4, <2>5, <2>6, <2>7 DEF ToldTruth, Informed, TypeInv, TypeOK
  <2> QED BY <1>1, <2>8, <2>9 DEF HeadersInv
<1> QED BY <1>1, <1>3, <1>4, <1>5, <1>6, StepKinds

\* Nothing has been said initially.
LEMMA InitHeadersInv == Init => HeadersInv
<1> SUFFICES ASSUME Init PROVE HeadersInv
  OBVIOUS
<1>1. TypeInv
  BY InitTypeInv
<1>2. PendingDescribes
  BY RequestAssumption DEF Init, PendingDescribes, NothingPending
<1>3. ToldTruth
  BY DEF Init, ToldTruth, Informed, NotTold
<1> QED BY <1>1, <1>2, <1>3 DEF HeadersInv

\* What is true of a key of which somebody has been told.
LEMMA InformedFacts ==
    ASSUME HeadersInv, NEW k \in Key, Informed(k)
    PROVE  LET b == buckets[k]  h == told[k].headers IN
           /\ b \in Bucket /\ clock \in u64 /\ told[k].at \in Nat
           /\ b.last_refill <= told[k].at /\ told[k].at <= clock
           /\ Tells(h, b) /\ h.remaining \in 0..burst /\ h.remaining * SCALE <= b.tokens
<1>1. /\ buckets[k] # NoBucket
      /\ buckets[k].last_refill <= told[k].at /\ told[k].at <= clock
      /\ Tells(told[k].headers, buckets[k])
  BY DEF HeadersInv, ToldTruth
<1>2. buckets[k] \in Bucket
  BY <1>1 DEF HeadersInv, TypeInv, TypeOK
<1>3. clock \in u64
  BY RequestAssumption, MathAssumption DEF HeadersInv, TypeInv, TypeOK, u64
<1>4. told[k].at \in Nat
  BY RequestAssumption DEF HeadersInv, TypeInv, Said
<1> QED BY <1>1, <1>2, <1>3, <1>4 DEF Tells, Describes

\* A client that is told to retry after some seconds is let through when they are
\* over, at every rate if the wait has its floor, unless somebody else asked.
THEOREM RetryAfterHolds ==
    ASSUME MIN_WAIT > 0 \/ requests_per_second <= 2 * NANOS_PER_SEC
    PROVE  Spec => []RetryAfterIsKept
<1>1. HeadersInv => RetryAfterIsKept
  <2> SUFFICES ASSUME HeadersInv, NEW k \in Key, Informed(k),
                      told[k].headers.retry_after # None,
                      clock >= told[k].at + told[k].headers.retry_after * NANOS_PER_SEC
               PROVE  permits(refilled(buckets[k], clock), 1)
    BY DEF RetryAfterIsKept
  <2> DEFINE b    == buckets[k]
             h    == told[k].headers
             at   == told[k].at
             w    == wait_for_tokens(1, requests_per_second)
             s    == http_seconds_ceil(w)
             full == refilled(b, clock)
  <2>1. /\ b \in Bucket /\ clock \in u64 /\ at \in Nat
        /\ b.last_refill <= at /\ Tells(h, b)
    BY InformedFacts
  <2>2. w \in Nat /\ s \in Nat
    BY LimiterConstants, WaitBounds, SecondsCover
  <2>3. h.retry_after = s
    BY <2>1, <2>2 DEF Tells, seconds, None
  <2>4. SCALE <= refill_tokens(s * NANOS_PER_SEC, rate_scaled)
    <3>1. SCALE <= U64_MAX
      BY LimiterConstants, MathAssumption
    <3> QED BY <3>1, LimiterConstants, OneTokenHeaderSuffices
  <2>5. s * NANOS_PER_SEC \in Nat /\ at + s * NANOS_PER_SEC <= clock
    BY <2>1, <2>2, <2>3, MathAssumption DEF u64
  <2>6. SCALE \in Nat /\ SCALE <= scaled_capacity /\ scaled_capacity \in Nat
    BY LimiterConstants, MathAssumption
  <2>7. /\ full.tokens >= MinOf(b.tokens + SCALE, scaled_capacity)
        /\ full.tokens \in 0..scaled_capacity
    <3> HIDE DEF b, at, s
    <3> QED BY <2>1, <2>4, <2>5, <2>6, RefilledSince
  <2>8. full.tokens >= SCALE
    <3>1. b.tokens \in Nat
      BY <2>1, <2>6 DEF Bucket
    <3> HIDE DEF b, full
    <3> QED BY <2>6, <2>7, <3>1 DEF MinOf
  <2>9. token_cost(1) = SCALE
    BY <2>1, OneToken
  <2> QED BY <2>8, <2>9 DEF permits
<1> QED BY <1>1, InitHeadersInv, NextHeadersInv, PTL DEF Spec

\* What an answer says remains is there to be had, and the bucket is full when
\* the answer says, however late the inner service answered, at up to two tokens a
\* nanosecond.
THEOREM QuotaHeadersHold ==
    ASSUME requests_per_second <= 2 * NANOS_PER_SEC
    PROVE  Spec => []QuotaHeadersAreKept
<1>1. HeadersInv => QuotaHeadersAreKept
  <2> SUFFICES ASSUME HeadersInv, NEW k \in Key, Informed(k)
               PROVE  LET h    == told[k].headers
                          full == refilled(buckets[k], clock)
                      IN /\ full.tokens >= token_cost(h.remaining)
                         /\ clock >= told[k].at + h.reset * NANOS_PER_SEC
                               => full.tokens = scaled_capacity
    BY DEF QuotaHeadersAreKept
  <2> DEFINE b    == buckets[k]
             h    == told[k].headers
             at   == told[k].at
             n    == h.remaining
             full == refilled(b, clock)
  <2>1. /\ b \in Bucket /\ clock \in u64 /\ at \in Nat /\ clock \in Nat
        /\ b.last_refill <= at /\ at <= clock /\ Tells(h, b)
        /\ n \in 0..burst /\ n * SCALE <= b.tokens
    BY InformedFacts, MathAssumption DEF u64
  <2>2. /\ SCALE \in Nat /\ scaled_capacity \in Nat /\ scaled_capacity = burst * SCALE
        /\ burst \in Nat /\ scaled_capacity < U64_MAX /\ U64_MAX \in Nat
    BY LimiterConstants, MathAssumption
  <2>3. b.tokens \in 0..scaled_capacity /\ n \in Nat /\ n * SCALE \in Nat
    BY <2>1, <2>2 DEF Bucket
  <2>4. full.tokens >= b.tokens /\ full.tokens \in 0..scaled_capacity
    <3>1. 0 <= refill_tokens(0, rate_scaled)
      BY LimiterConstants, ClaimedWithinElapsed
    <3>2. at + 0 <= clock
      BY <2>1
    <3> HIDE DEF b, at
    <3>3. /\ refilled(b, clock).tokens \in 0..scaled_capacity
          /\ refilled(b, clock).tokens >= MinOf(b.tokens + 0, scaled_capacity)
      BY <2>1, <3>1, <3>2, RefilledSince
    <3> QED BY <2>2, <2>3, <3>3 DEF MinOf
  <2>5. full.tokens >= token_cost(n)
    <3>1. token_cost(n) <= n * SCALE /\ token_cost(n) \in Nat
      <4> HIDE DEF n
      <4> QED BY <2>2, <2>3 DEF token_cost, saturating_mul, MinOf
    <3> HIDE DEF n, full, b
    <3> QED BY <2>1, <2>2, <2>3, <2>4, <3>1
  <2>6. ASSUME clock >= at + h.reset * NANOS_PER_SEC
        PROVE  full.tokens = scaled_capacity
    <3> DEFINE m == burst - n
               w == wait_for_tokens(m, requests_per_second)
               s == http_seconds_ceil(w)
    <3>1. m \in Nat /\ n * SCALE + m * SCALE = scaled_capacity /\ m * SCALE \in Nat
      <4> HIDE DEF n
      <4> QED BY <2>1, <2>2, <2>3
    <3>2. CASE m = 0
      <4>1. n * SCALE = scaled_capacity
        <5> HIDE DEF n
        <5> QED BY <2>1, <2>2, <2>3, <3>2
      <4> HIDE DEF n, b, full
      <4> QED BY <2>1, <2>2, <2>3, <2>4, <4>1
    <3>3. CASE m # 0
      <4>1. w \in Nat /\ s \in Nat /\ requests_per_second \in Nat \ {0}
        <5> HIDE DEF m
        <5> QED BY <3>1, LimiterConstants, WaitBounds, SecondsCover
      <4>2. h.reset = s
        BY <2>1, <3>3, <4>1, LimiterConstants DEF Tells, time_until_full, seconds, None
      <4>3. m * SCALE <= refill_tokens(s * NANOS_PER_SEC, rate_scaled)
        <5>1. m * SCALE <= U64_MAX
          BY <2>2, <2>3, <3>1
        <5> HIDE DEF m
        <5> QED BY <3>1, <4>1, <5>1, LimiterConstants, HeaderSuffices
      <4>4. s * NANOS_PER_SEC \in Nat /\ at + s * NANOS_PER_SEC <= clock
        BY <2>1, <2>6, <4>1, <4>2, MathAssumption
      <4>5. /\ full.tokens >= MinOf(b.tokens + m * SCALE, scaled_capacity)
            /\ full.tokens \in 0..scaled_capacity
        <5> HIDE DEF b, at, s, m
        <5> QED BY <2>1, <3>1, <4>3, <4>4, RefilledSince
      <4> HIDE DEF m, n, b, full
      <4>6. b.tokens \in Nat /\ b.tokens + m * SCALE >= scaled_capacity
        BY <2>1, <2>2, <2>3, <3>1
      <4> QED BY <2>2, <3>1, <4>5, <4>6 DEF MinOf
    <3> QED BY <3>2, <3>3
  <2> QED BY <2>5, <2>6
<1> QED BY <1>1, InitHeadersInv, NextHeadersInv, PTL DEF Spec
=============================================================================
