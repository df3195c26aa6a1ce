----------------------------- MODULE Middleware -----------------------------
(***************************************************************************)
(* RateLimitService (src/middleware.rs, for axum) and GrpcRateLimitService *)
(* (src/tonic_middleware.rs): tower services that ask one limiter before   *)
(* they call the service they wrap.  Services of both kinds, with any      *)
(* extractor, share the limiter here, as they may share its Arc.           *)
(*                                                                         *)
(* Conn is a connection with one request at a time.  Its server polls the  *)
(* service ready, calls it, and polls the future it gets, or drops it.     *)
(* The future runs without a stop up to the call of the inner service, so  *)
(* that is one step, in which the limiter's check is one step too          *)
(* (TokenBucket shows what such checks may do to each other).  A request   *)
(* is read in that step only, so it is chosen there, and so is the service.*)
(*                                                                         *)
(* calls and told are history variables: no action reads them.             *)
(***************************************************************************)
EXTENDS Limiter, FiniteSets, Sequences

CONSTANTS
    Conn,
    Client,       \* the addresses of clients and of proxies
    Method,       \* method paths
    User,         \* values of the header that names a user
    Blank,        \* an empty header or hop
    Absent,       \* None: no header, no extension, no key
    Request,      \* the requests that arrive
    HttpLayer, GrpcLayer, \* the layers that share the limiter
    MaxTime       \* the clock stops here

\* A string the limiter is asked for.
Key == Client \cup Method \cup User \cup {Blank}

\* A hop of x-forwarded-for: an address, after the comma with or without a space.
Hop == [padded : BOOLEAN, address : Client \cup {Blank}]

\* client is who sent the request, which no extractor sees; peer is the address
\* of the connection, if the server keeps it.  Who comes by a proxy is seen at an
\* address that the proxy wrote down, and no peer is kept there.
RequestType ==
    [client    : Client,
     peer      : [ip : Client, port : Nat] \cup {Absent},
     forwarded : Seq(Hop) \cup {Absent},
     real_ip   : Client \cup {Absent, Blank},
     path      : Method,
     user      : User \cup {Absent}]

ASSUME RequestAssumption ==
    /\ Absent \notin Key /\ MaxTime \in u64
    /\ \A r \in Request :
          /\ r \in RequestType
          /\ r.forwarded # Absent => r.forwarded # << >>
          /\ r.peer # Absent => r.peer.ip = r.client

VARIABLES
    clock,
    buckets,      \* Key -> the limiter's bucket
    stage,        \* Conn -> "open", "ready", "called" or "inner"
    ready,        \* Conn -> the copies of inner ("self", "clone") polled ready
    pending,      \* Conn -> what the future keeps across the call of inner
    calls,        \* history: who is to pay -> requests passed on for it
    told          \* history: Key -> what was last said of it

vars == <<clock, buckets, stage, ready, pending, calls, told>>

-----------------------------------------------------------------------------
(***************************************************************************)
(* Key extractors                                                          *)
(***************************************************************************)

\* axum's IpKeyExtractor.
ConnectInfo(r) == IF r.peer = Absent THEN Absent ELSE r.peer.ip

trim(hop) == hop.address

\* Mutant: the first hop.
LastHopFirst(r) == IF r.forwarded = Absent THEN Absent ELSE trim(r.forwarded[1])

\* The hop that the nearest proxy appended.
LastHop(r) == IF r.forwarded = Absent THEN Absent ELSE trim(r.forwarded[Len(r.forwarded)])

\* tonic's IpKeyExtractor.
IpKey(r) ==
    CASE r.peer # Absent                  -> r.peer.ip
      [] r.peer = Absent /\ LastHop(r) \notin {Absent, Blank} -> LastHop(r)
      [] OTHER                            -> r.real_ip

\* The leading slash, which every path has, is dropped.
MethodKey(r) == r.path

MetadataKey(r) == r.user

\* The closure is the user's; this one reads a header, as the example does.
CustomKey(r) == r.user

extract(extractor, r) ==
    CASE extractor = "ConnectInfo" -> ConnectInfo(r)
      [] extractor = "Ip"          -> IpKey(r)
      [] extractor = "Method"      -> MethodKey(r)
      [] extractor = "Metadata"    -> MetadataKey(r)
      [] extractor = "Custom"      -> CustomKey(r)

\* Whom the request is to be counted against, whatever its headers look like.
payer(extractor, r) ==
    CASE extractor \in {"ConnectInfo", "Ip"}  -> r.client
      [] extractor = "Method"                 -> r.path
      [] extractor \in {"Metadata", "Custom"} -> r.user

\* What the layers can be built to be: new, with_extractor, fail_open.
RateLimitLayer ==
    [extractor : {"ConnectInfo", "Custom"}, fail_open : BOOLEAN]

GrpcRateLimitLayer ==
    [extractor : {"Method", "Ip", "Metadata", "Custom"}, fail_open : BOOLEAN]

ASSUME LayerAssumption == HttpLayer \subseteq RateLimitLayer /\ GrpcLayer \subseteq GrpcRateLimitLayer

-----------------------------------------------------------------------------
(***************************************************************************)
(* What an answer says of the limit.  A field that is not there is None.   *)
(***************************************************************************)

seconds(duration) == IF duration = None THEN None ELSE http_seconds_ceil(duration)

add_rate_limit_headers(d) ==
    [limit |-> d.limit, remaining |-> d.remaining, reset |-> seconds(d.reset),
     retry_after |-> None]

rate_limit_response(d) ==
    [add_rate_limit_headers(d) EXCEPT !.retry_after = seconds(d.retry_after)]

\* The same under the names of gRPC metadata.
add_rate_limit_trailer(d) == add_rate_limit_headers(d)

\* Mutant: the wait of a gRPC denial is cut to whole seconds.
rate_limit_error_response_cut(d) ==
    [add_rate_limit_trailer(d) EXCEPT
        !.retry_after = IF d.retry_after = None THEN None ELSE http_seconds_floor(d.retry_after)]

rate_limit_error_response(d) ==
    [add_rate_limit_trailer(d) EXCEPT !.retry_after = seconds(d.retry_after)]

-----------------------------------------------------------------------------

NothingPending == [grpc |-> FALSE, key |-> Absent, decision |-> zero_cost_decision(burst)]

\* Nothing has been said on a key since the last check of it by connection c.
Silent(c) == [by |-> c, at |-> 0, headers |-> Absent]
NotTold   == [by |-> Absent, at |-> 0, headers |-> Absent]

Init ==
    /\ clock = 0
    /\ buckets = [k \in Key |-> NoBucket]
    /\ stage = [c \in Conn |-> "open"]
    /\ ready = [c \in Conn |-> {}]
    /\ pending = [c \in Conn |-> NothingPending]
    /\ calls = [p \in Key |-> 0]
    /\ told = [k \in Key |-> NotTold]

Tick ==
    /\ clock < MaxTime
    /\ clock' = clock + 1
    /\ UNCHANGED <<buckets, stage, ready, pending, calls, told>>

\* poll_ready readies self.inner.
PollReady(c) ==
    /\ stage[c] = "open"
    /\ stage' = [stage EXCEPT ![c] = "ready"]
    /\ ready' = [ready EXCEPT ![c] = @ \cup {"self"}]
    /\ UNCHANGED <<clock, buckets, pending, calls, told>>

\* call clones self.inner into the future.  A clone of a tower service is not
\* ready because the original is.
Call(c) ==
    /\ stage[c] = "ready"
    /\ stage' = [stage EXCEPT ![c] = "called"]
    /\ ready' = [ready EXCEPT ![c] = @ \ {"clone"}]
    /\ UNCHANGED <<clock, buckets, pending, calls, told>>

\* The future is finished: the connection may have another request.
Finish(c) ==
    /\ stage' = [stage EXCEPT ![c] = "open"]
    /\ pending' = [pending EXCEPT ![c] = NothingPending]
    /\ UNCHANGED <<clock, ready>>

CallInner(c, keep) ==
    /\ stage' = [stage EXCEPT ![c] = "inner"]
    /\ pending' = [pending EXCEPT ![c] = keep]
    /\ UNCHANGED <<clock, ready>>

\* No key: denied, unless the layer is to fail open.
WithoutKey(c, grpc, layer, r) ==
    /\ extract(layer.extractor, r) = Absent
    /\ IF layer.fail_open
       THEN CallInner(c, [NothingPending EXCEPT !.grpc = grpc])
       ELSE Finish(c)
    /\ UNCHANGED <<buckets, calls, told>>

\* The check permits the request, and the inner service is called.
Permitted(c, grpc, layer, r) ==
    LET key == extract(layer.extractor, r) IN
    /\ key # Absent
    /\ \E full \in {refilled(buckets[key], clock)} :
          /\ permits(full, 1)
          /\ buckets' = [buckets EXCEPT ![key] = taken(full, 1)]
          /\ CallInner(c, [grpc |-> grpc, key |-> key, decision |-> decision(full, 1)])
    /\ calls' = [calls EXCEPT ![payer(layer.extractor, r)] = @ + 1]
    /\ told' = [told EXCEPT ![key] = Silent(c)]

\* The check denies it, and the answer says so at once.
Denied(c, grpc, layer, r) ==
    LET key         == extract(layer.extractor, r)
        response(d) == IF grpc THEN rate_limit_error_response(d) ELSE rate_limit_response(d)
    IN
    /\ key # Absent
    /\ \E full \in {refilled(buckets[key], clock)} :
          /\ ~permits(full, 1)
          /\ buckets' = [buckets EXCEPT ![key] = taken(full, 1)]
          /\ told' = [told EXCEPT ![key] =
                        [by |-> c, at |-> clock, headers |-> response(decision(full, 1))]]
    /\ Finish(c)
    /\ UNCHANGED calls

\* The first poll of the future that RateLimitService::call returns.
HttpCall(c) ==
    /\ stage[c] = "called"
    /\ \E layer \in HttpLayer, r \in Request :
          \/ WithoutKey(c, FALSE, layer, r)
          \/ Permitted(c, FALSE, layer, r)
          \/ Denied(c, FALSE, layer, r)

\* The first poll of the future that GrpcRateLimitService::call returns.
GrpcCall(c) ==
    /\ stage[c] = "called"
    /\ \E layer \in GrpcLayer, r \in Request :
          \/ WithoutKey(c, TRUE, layer, r)
          \/ Permitted(c, TRUE, layer, r)
          \/ Denied(c, TRUE, layer, r)

\* The inner service answers.  The headers are those of the check, which may be
\* long ago; told has them only if nobody has asked for the key since.
InnerAnswers(c) ==
    /\ stage[c] = "inner"
    /\ LET key == pending[c].key
           headers == IF pending[c].grpc
                      THEN add_rate_limit_trailer(pending[c].decision)
                      ELSE add_rate_limit_headers(pending[c].decision)
       IN told' = IF key # Absent /\ told[key].by = c
                  THEN [told EXCEPT ![key] = [by |-> c, at |-> clock, headers |-> headers]]
                  ELSE told
    /\ Finish(c)
    /\ UNCHANGED <<buckets, calls>>

\* It fails: the error is passed on as it is.
InnerFails(c) ==
    /\ stage[c] = "inner"
    /\ Finish(c)
    /\ UNCHANGED <<buckets, calls, told>>

\* The client goes away: the server drops the future, wherever it is.
DropFuture(c) ==
    /\ stage[c] \in {"called", "inner"}
    /\ Finish(c)
    /\ UNCHANGED <<buckets, calls, told>>

Serving(c) ==
    \/ PollReady(c) \/ Call(c)
    \/ HttpCall(c) \/ GrpcCall(c)
    \/ InnerAnswers(c) \/ InnerFails(c) \/ DropFuture(c)

Next == Tick \/ \E c \in Conn : Serving(c)

Spec == Init /\ [][Next]_vars

-----------------------------------------------------------------------------
(***************************************************************************)
(* Correctness                                                             *)
(***************************************************************************)

IsHeaders(h) ==
    /\ DOMAIN h = {"limit", "remaining", "reset", "retry_after"}
    /\ \A f \in DOMAIN h : h[f] \in Nat \cup {None}

\* The fields have their types, and a future that has called the inner service of
\* a request with a key keeps the decision that permitted it.
TypeOK ==
    /\ clock \in 0..MaxTime
    /\ buckets \in [Key -> Bucket \cup {NoBucket}]
    /\ stage \in [Conn -> {"open", "ready", "called", "inner"}]
    /\ ready \in [Conn -> SUBSET {"self", "clone"}]
    /\ calls \in [Key -> Nat]
    /\ \A c \in Conn :
          /\ pending[c].key \in Key \cup {Absent}
          /\ pending[c].key # Absent => stage[c] = "inner" /\ pending[c].decision.permitted
    /\ \A k \in Key : told[k].headers = Absent \/ IsHeaders(told[k].headers)

\* "Each client/user/key has an independent bucket" (README): by whatever ports,
\* proxies and services a client, user or method is reached, and whatever becomes
\* of the requests, what is passed on for it stays within the budget of one bucket.
ClientBudget ==
    \A p \in Key :
        NANOS_PER_SEC * SCALE * calls[p]
            <= NANOS_PER_SEC * scaled_capacity + rate_scaled * clock

\* The client of key k has an answer, and nobody has asked for k since the check
\* it tells of, which may be long before the answer.
Informed(k) == told[k].headers # Absent

\* "Seconds to wait before retrying" (rate_limit_response): a client that comes
\* back when its Retry-After is over is permitted, if no other request took the
\* token, though the header is in whole seconds.
RetryAfterIsKept ==
    \A k \in Key : Informed(k) =>
        LET wait == told[k].headers.retry_after IN
        wait # None /\ clock >= told[k].at + wait * NANOS_PER_SEC
            => permits(refilled(buckets[k], clock), 1)

\* "Requests remaining in current window" and "seconds until bucket is full"
\* (add_rate_limit_headers): the requests that an answer says remain are there
\* to be had, however late the inner service answered, and once its reset is over
\* the bucket is full.
QuotaHeadersAreKept ==
    \A k \in Key : Informed(k) =>
        LET headers == told[k].headers
            now     == refilled(buckets[k], clock)
        IN /\ now.tokens >= token_cost(headers.remaining)
           /\ clock >= told[k].at + headers.reset * NANOS_PER_SEC
                 => now.tokens = scaled_capacity

\* "Composable with other middleware" (GrpcRateLimitLayer): a tower service is to
\* be called only when it has been polled ready.
InnerIsReady == \A c \in Conn : stage[c] = "inner" => "clone" \in ready[c]
=============================================================================
