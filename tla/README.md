# tokio-rate-limit: specifications, model checking and proofs

TLA+ modules for the rate limiters of `tokio-rate-limit` (crate sources under
`src/src/`), the TLC configurations that check them on small instances, and
theorems checked by TLAPS. `PROJECT.json` maps every definition to the lines it
models, names what each run checks, and lists the hazards the properties are for.

## The system

| Component | State | Operations | Interacts with |
|---|---|---|---|
| `TokenBucket` (`algorithm/token_bucket.rs`) | 256 concurrent maps key → `Arc<AtomicTokenState>` (`tokens`, `last_refill_nanos`, `last_access_nanos`), immutable capacity, rate, TTL | `check`, `check_with_cost` → `check_impl`: on 1 call in 100 `cleanup_idle`; find or insert the bucket; `try_consume` = store the access time, `apply_refill`, compare-and-swap loop on `tokens` | any number of threads, no lock |
| `LeakyBucket` (`leaky_bucket.rs`) | one map of the same shape | the same with `try_add`, `apply_leak` | threads |
| `algorithm::internal` | a thread-local generator | refill and wait arithmetic, decisions, `should_cleanup` | every bucket |
| `RateLimiter` (`limiter.rs`) | an algorithm | `check`, `check_with_cost`, `try_acquire`, `acquire_timeout`, `acquire` | tasks, tokio's clock |
| `ProbabilisticTokenBucket` | signed tokens, timestamp, a tick per key | sampled debits, relaxed estimates, an admission ramp | threads |
| `CachedTokenBucket` (deprecated) | one map, and a thread-local one-entry cache shared by all instances | `check` | threads |
| `middleware.rs`, `tonic_middleware.rs` | a limiter, an extractor, an inner service | `poll_ready`, `call`, headers or trailers | tower |

What is hard about it: threads interleave between any two atomics; a claim on an
interval and the credit for it are separate; retry loops use weak
compare-and-swaps; `now` is read once and used late; eviction scans and removes in
two passes while threads hold the buckets it drops; all quantities are rounded
integers; `acquire` polls with sleeps that other callers race.

What makes each component correct:

* **token bucket**: no more passes than the capacity plus what the rate yields, in
  every interleaving; no nanosecond is credited twice; one bucket per key; keys do
  not share buckets; calls return; idle keys go, others stay.
* **leaky bucket**: the same, turned upside down: never over the brim, never
  drained faster than the rate; a denied caller's `retry_after` suffices.
* **arithmetic**: rounding does not accumulate; waits are neither short nor long.
* **probabilistic bucket**: debits keep the same ledger although they may overdraw, and
  the debt carries; the overdraft, net of claims still to be credited, and the overshoot of
  a burst stay within a lump per thread; a reader never counts a refill twice; with
  `sample_rate = 1` it is the deterministic bucket.
* **RateLimiter**: deadlines kept, no spinning, no over-sleeping, every call ends;
  to a caller a check is one step.
* **cached bucket**: a cache changes where a bucket is found, never which one.
* **middleware**: a client has one budget by whatever route its requests come and
  however they end; headers that are sent late, in whole seconds, are still true;
  the inner service is called as its contract asks.

## Modules

| Module | What it is |
|---|---|
| `RefillMath` | the arithmetic of `internal.rs`; `SCALE`, `NANOS_PER_SEC`, `U64_MAX`, `MIN_WAIT` are constants |
| `SequentialRefill` | `apply_refill` with one caller polled at arbitrary moments, over a set of rates; compares waits, headers and resets with the same arithmetic |
| `TokenBucket` | **the core**: one action per shared-memory access of `token_bucket.rs` |
| `TokenLedger` | what a token bucket promises a key: a level, a backlog of time, and takes; no threads |
| `TokenBucketRefinement` | the refinement mapping from `TokenBucket` to `TokenLedger` |
| `TokenBucketBursts` | `TokenBucket` with history of what each key was let through, in all and at one instant |
| `LeakyBucket` | `leaky_bucket.rs`, built on an instance of `TokenBucket` for the steps that the two files share; and the mapping that turns it upside down |
| `ProbabilisticBucket` | `probabilistic_token_bucket.rs` without a TTL, on the same instance: sampler, lazy clock, estimate, sampled debit |
| `CachedBucket` | `cached_token_bucket.rs`: several limiters, each with its map, behind the one-entry cache of each thread; on the same instance |
| `Limiter` | a whole check as a function of bucket, time and cost; the builder's validation |
| `WholeChecks` | the abstract system in which every check is one step of `Limiter` |
| `TokenBucketAlone` | the refinement mapping from `TokenBucket` with one caller to `WholeChecks` |
| `Middleware` | `middleware.rs` and `tonic_middleware.rs` over `Limiter`: services of both kinds and all extractors that share a limiter |
| `RateLimiter` | on `Limiter`: `acquire`, `acquire_timeout` and competing callers over one bucket with a clock and late wake-ups |
| `RefillMathProofs`, `LimiterProofs` | lemmas about the arithmetic, and about a whole check, that the other proofs cite |
| `TokenBucketProofs` | theorems on `TokenBucket` and its histories of bursts, on `TokenLedger`, and that the one implements the other; and on one caller, who makes `WholeChecks` |
| `SequentialRefillProofs`, `LeakyBucketProofs`, `ProbabilisticBucketProofs`, `RateLimiterProofs`, `MiddlewareProofs` | theorems on the module each is named after |
| `MC*` | model values, shard maps and symmetry for TLC |

Definitions commented `Mutant` are variants of the definition that follows them,
with one plausible slip each (a store for a compare-and-swap, a forgotten reload,
a rounding the other way). No specification uses them; `PROJECT.json` says which
property catches which.

### How `TokenBucket` corresponds to the code

A thread's `pc` is the next shared access of its `check_impl`:

| Code | Actions |
|---|---|
| entry, `now`, the coin of `should_cleanup` (416-424) | `Check`, `CheckAndSweep` |
| `cleanup_idle` (385-414) | `ScanEntry` (one entry of the iterator), `RemoveExpired` (one key), `NextShard` |
| `get`, `try_insert` (426-437) | `Lookup`, `Insert`, `AlreadyInserted` |
| store of `last_access` (77) | `Touch` |
| `apply_refill` (105-136) | `NothingAccrued`, `LoadRefill`, `Claim`, `ClaimFails`, `Credit` |
| the loop of `try_consume` (85-99) | `LoadTokens`, `Deny`, `Debit`, `DebitFails` |

`clock` is `reference_instant.elapsed()`; `Tick` may happen between any two
steps. A `Ref` is an allocation of `AtomicTokenState`: a thread keeps the one its
guard protects after the map drops it, and it is reused only when no map entry and
no thread has it (`Free`). `created` and `granted` are history variables; no guard
reads them. `ClaimFails` and `DebitFails` need no reason: the compare-and-swap is
weak.

Abstractions, and why they lose nothing the properties see:

* *Atomics are sequentially consistent.* Every access is to one word, and the
  read-modify-writes of one word are totally ordered in any case. A stale relaxed
  load makes the compare-and-swap on the same word fail (`ClaimFails`,
  `DebitFails`) or a call be denied on tokens that are just arriving; no property
  says anything of such denials. `RefillCaughtUp` is stated of this idealisation.
  In the probabilistic bucket a stale load can also admit: no compare-and-swap follows
  the peek of a request that is not sampled (`probabilistic_token_bucket.rs:443-446`) nor the
  level that a sampled one decides on. A thread may stop between its loads and its decision for as
  long as it likes, and in that way act on old levels here too, but not on a level from before
  its call. `BurstOvershoot`, `OverdraftBounded` and `NeverOverEstimated` are stated of this
  idealisation.
* *The map is atomic per key*, which flurry's `get`, `try_insert` and `remove` are;
  its iterator visits every key present throughout the scan once.
* *The hash* is any function from keys to shards.
* *`fetch_update`* retries until its compare-and-swap succeeds; each attempt reads
  afresh, so one atomic step stands for it.
* *u128 products* are exact, as they are in the source; results are cut at
  `U64_MAX` as the source cuts them.
* *f64* in `wait_for_tokens` is the exact quotient, rounded to a nanosecond.

### The other buckets and `RateLimiter`

`leaky_bucket.rs` repeats `token_bucket.rs` line by line up to the claim;
`LeakyBucket` takes those actions from an instance of `TokenBucket` with one shard,
and defines what differs: `Insert` (empty), `Leak`, `LoadTokens`, `Deny`, `Pour`,
`leaky_decision`. That nothing else differs is `IsTokenBucketUpsideDown`: with `room`, the
capacity less the level, for tokens, each step is one of `TokenBucket`. It relates steps
and not initial states: memory that no bucket uses yet has level 0, which is all room,
where an unused token bucket has no tokens. `Insert` sets both.

`ProbabilisticBucket` takes lookup, insertion, claim and credit from an instance of
`TokenBucket` whose integers are cut at `I64_MAX`. `ReadNow` is `LazyNow::get`, at the
step that first needs a time. `should_sample` sends a call to `observe` (tokens, then
timestamp, then a random part of what accrued, then `apply_refill` and `Charge`) or to
`peek` (admit on the tokens alone, else estimate and `Admit`). A `sample_rate` of 1 goes
straight to `apply_refill` and `consume_exact`; the rate is a variable only so that
one run covers several. Every coin may fall either way between the certain ends of
the ramp, so what holds, holds for every seed; that the admitted rate *converges* to
the refill rate is a statement about probabilities and is out of reach.

In `RateLimiter` a check is one step: it awaits nothing, so on one worker thread
tasks interleave only where they sleep. `CheckWithCost` stands for any number of other
callers of `check`, `check_with_cost`, `try_acquire` and `try_acquire_n`. A sleeping or
ready task runs within `Lateness` of when it is due.

That a check may be one step is itself checked: `TokenBucketAlone` maps every state of
`TokenBucket` to the bucket that the call under way will leave behind, and
`ImplementsWholeChecks` says that with one caller this is `WholeChecks`. With several
callers it does not hold, as it need not: claim and credit are apart, and
`BurstIsBounded` says by how much that shows.

### `CachedBucket`

`CACHE` is a `static`, so its entries (`cache`) belong to a thread and not to a limiter,
and have the key's string only; a `Key` of the module is a limiter and a string.

| Code | Actions |
|---|---|
| `check_impl`, `cleanup_idle` | `Check`, `CheckAndSweep`, `CleanupIdle` |
| `get_or_create_state_cached` | `CacheHit`, `Lookup`, `Insert`, `AlreadyInserted`, `Remember` |
| `try_consume` | `Touch` (with the access count), and the claim, credit and debit of `TokenBucket` |

* Reading the cache, which no other thread sees, and a miss's `get` are one step.
* `record_access` and the store of `last_access` are one step: no step of another
  thread depends on both.
* `access_count` is cut one above `HOT`, the threshold; only "above it" matters.
* All limiters have one set of parameters and one `reference_instant`. In the code each
  has its own, and a bucket found by another limiter is dated on another time line as
  well; `shared_cache` needs no more than that the bucket is the wrong one.

### `Middleware`

A `Conn` is a connection with one request at a time: `PollReady`, `Call`, the first poll
of the future (`HttpCall` or `GrpcCall`, up to the call of the inner service or an
early answer), then `InnerAnswers`, `InnerFails` or, at any time, `DropFuture`. The
future awaits nothing before the inner call, so its first poll is one step.

* Which service, and with which request, is chosen at that poll: nothing reads either
  before it. A service is an extractor and its `fail_open`.
* A request has what extractors read: the peer's address (none behind a proxy:
  `IpKeyExtractor` documents that it prefers the peer, so where the proxy's address is
  kept as one, all who come by it count as one client), the hops of `x-forwarded-for` with or without a
  space, `x-real-ip`, a path and a header that names a user. `client` is who sent it,
  which the code does not see and the properties are about.
* `ready` holds which of the two copies of the inner service has been polled ready.
* `calls` (requests passed on, by payer) and `told` (the last headers sent for a key)
  are history. `told` forgets a key as soon as another request asks for it: nothing is
  promised to a client past that.
* Names of headers and bodies of answers are left out; so are answers without a key,
  which have no numbers in them. A request without a key that `fail_open` lets pass is
  passed on and not counted in `calls`: nobody is to pay for it.
* `ClientBudget` shows that nothing is passed on unpaid. It does not see a request that is
  charged twice.

## Runs

| Run | Bounds | Shows |
|---|---|---|
| `bucket_safety` | 2 threads, 1 key, 2 buckets, capacity 1 token (2 scaled), 1 scaled token per ns, costs 0, 1 and one that overflows `U64_MAX = 7`, 6 ns | `NoDoubleCredit`, `Ledger`, `Budget`, `RefillCaughtUp`, `OneBucketPerKey`, `BurstIsBounded`, `TimestampNeverMovesBack`, and that `TokenBucket` implements `TokenLedger` |
| `eviction_alone` | 1 thread, 2 keys in 2 shards, TTL = time to fill, 3 ns | `KeyBudget`, `EvictedWasIdle`, `IdleKeysAreEvicted`, and that `TokenBucket` implements `WholeChecks` |
| `bucket_liveness` | 2 threads on 1 key, 2 buckets, TTL 1 ns, 2 ns | `EveryCallReturns`, sweeps and evictions under the call included |
| `sequential_refill` | 8 rates, 14 ns, every polling pattern | `PollingLosesNothing`, `PollingGainsLittle`, `WaitIsToTheNanosecond`, `HeaderCoversWait`, `ResetFillsTheBucket` |
| `rate_limiter` | 2 tasks, any other callers with costs 0, 1 and 2 up to 5 ns, timeouts 0, 3, 9 and none, wake-ups up to 1 ns late | `TimeoutIsKept`, `NoSpinning`, `NoOverWaiting`, `EveryAcquireReturns` |
| `leaky_safety` | 2 threads, capacity 2, eviction, 3 ns | `DrainedAtTheRate`, `RetryAfterSuffices`, and by `IsTokenBucketUpsideDown` that what holds of the steps of a token bucket (`RefillCaughtUp`) holds of its mirror (`LeakCaughtUp`, proved) |
| `probabilistic_safety` | 2 threads, capacity 3, one cost, sampling 1, 2 and 4 (none; lump below, lump above the capacity), a tick that wraps at 6, 2 ns | that levels stay within the capacity (`TypeOK`), `DebtCarries`, `NeverOverEstimated`, `OverdraftBounded`, `BurstOvershoot`, `ExactWithoutSampling` |
| `cached_safety` | a limiter that caches, asked for two names, and one with a TTL, asked for one of them; 2 threads, 4 buckets, hot from the first access, 1 ns | `OneBucketPerKey` through the caches, `KeyIsolation` with buckets dropped while held |
| `middleware` | 2 connections, 5 requests (two ports, two kinds of proxy, an empty hop, nobody), 5 services, 2 tokens, one per 1 ns, 2 ns to the second, 3 ns | `ClientBudget`, `RetryAfterIsKept`, `QuotaHeadersAreKept` |
| `eviction_race`, `shared_cache`, `unready_inner` | 2 threads on one key with a TTL; two caching limiters asked for one name; `middleware` | where the code departs from its documents (below) |

The units are scaled down, never the steps: `SCALE` 2 to 4 instead of 1000 keeps
sub-token amounts (it is 1 in `cached_safety` and `middleware`, which are not about
them), 2 to 40 "nanoseconds" per second keep exact and inexact rates
and rates above a scaled token per nanosecond apart, and `U64_MAX` small enough to
overflow stands for 2^64. Two threads suffice for the races there are: each concerns one
word and two accesses to it, and the theorems below are for any number of threads. Two keys suffice where keys must be told apart.

`MaxTime` caps the clock, which caps tokens, claims and contention. `BurstIsBounded`
is reached with equality (two stalled credits and one full bucket), so it is
not loose. Nor are `OverdraftBounded`, which a bound smaller by two scaled tokens violates,
and `BurstOvershoot`, which one smaller by a token violates at a sampling rate of 2 with a
tick that wraps later.

### Fairness

* `FairSpec`: a thread inside `check_impl` keeps running (`WF` on its steps), and a
  compare-and-swap that finds its value again and again does not fail forever
  (`SF` on `Claim` and `Debit`): spurious failures are rare hardware events, and
  other threads' successes run out with the tokens and the time they compete for.
  Nothing forces callers to call or the clock to advance.
* `BusySpec` adds that calls never cease, one in 100 of which sweeps. They may all
  be on other keys than the one that is to be evicted.
* `RateLimiter!FairSpec`: tokio runs every ready task, and time goes on. Callers may
  stop calling; `LastCall` makes them stop, since `acquire` has no bound against a
  stream of others that always come first.

## Where the code and its documents part

* `eviction_race`: `cleanup_idle` removes a key it found idle one pass earlier, even
  if the key has been used since (`token_bucket.rs:398-410`). The next call finds a
  full bucket: with a TTL `KeyBudget` holds with one caller only (and a TTL no shorter
  than the time a bucket takes to fill). The run does not show the other way to the same
  end, that a thread with an older `now` overwrites `last_access` (line 77):
  `EvictedWasIdle` compares with what is stored.
* `shared_cache`: two limiters without a TTL that are used on one thread share its cache.
  One that is asked for a name which the other has cached debits the other's bucket
  (`cached_token_bucket.rs:176` compares the string, `CACHE` has no limiter). With one
  such limiter per process `OneBucketPerKey` holds (`cached_safety`), with any number
  that evict. The note of deprecation (line 219) gives another reason, "thread-local
  cache splits from the map under TTL eviction", which the code no longer does: with a
  TTL nothing is cached (266-268).
* `unready_inner`: both middlewares poll `self.inner` ready and call a fresh clone of it
  (`middleware.rs:261-268`, `tonic_middleware.rs:338-344`).

Seen while modelling, and not given a run:

* At rates such as 3 tokens a second a claim is rounded down to a nanosecond, and the
  rest is credited again (`token_bucket.rs:102-112`). `PollingGainsLittle` bounds it:
  less than one nanosecond per refill. Theorems on the budget assume `ExactRate`.
* The leaky bucket "enforces steady rate without bursts", and bursts are "not allowed"
  (`leaky_bucket.rs:139,145`). An empty one admits its whole capacity at one moment
  (`try_add`, line 78), exactly as a token bucket of that capacity does
  (`IsTokenBucketUpsideDown`).
* "Each can contribute up to one further lump, so the true bound is O(threads * lump)"
  (`probabilistic_token_bucket.rs:256-259`, and 89-91) holds of the tokens with what threads
  have claimed and not yet credited. `tokens` alone can go lower: while a thread stands
  between its claim and its credit, each of the others can observe, charge and
  charge again on what was claimed earlier. `OverdraftBounded` states the net bound.
* A sampled request pays by its own cost for a group of other costs: a pattern of costs
  in step with `sample_rate` overshoots a burst by a share of the capacity. With calls
  of one cost `BurstOvershoot` holds.
* `GrpcKeyExtractor::extract` returns "None if the request should not be rate limited"
  (`tonic_middleware.rs:54`), but without `fail_open` such a request is refused.

## Theorems

All hold for every value of the constants: any sets of keys, threads, buckets, tasks,
connections and requests, any capacity, rate, cost and TTL. What they assume:

* the `ASSUME`s of the modules, which TLC evaluates on every run. The bounds on
  `MAX_BURST`, `MAX_CAPACITY` and `MAX_LEAK_RATE` are the source's definitions of them;
  `MaxTime \in u64` says that the process runs for less than 584 years, which is what
  the source's `as_nanos() as u64` needs.
* *Exact*: a scaled token is worth a whole number of nanoseconds, that is, 10^6 is a
  multiple of the rate (1, 2, 5, 10, 100, 1000 and so on; or the rate is 0). At other rates
  the code credits up to a nanosecond twice at each refill, and statements of budgets to
  the last unit are not true of it. The theorems that do not need it do not assume it.
* *At most two tokens a nanosecond*, for what headers promise: above 2 * 10^9 tokens a
  second half a nanosecond, to which waits are rounded, is worth more than a token.
  `RetryAfterHolds` needs it only if `MIN_WAIT = 0`; it is 1 ms in the source.
* `ProxiesNameTheClient`: the address a proxy reports is the client's own.
* `NothingSaturates`: scaled rates and amounts are below `U64_MAX`.
* `Callers`, for the debts of the probabilistic bucket: there are finitely many threads and
  a largest cost, as any costs that are `u64` have.
* `OneCost`, for its bursts: there are finitely many threads, at least one, and requests
  have one cost, as those of the middleware do. With several costs the bound does not hold:
  a sampled request pays a lump of its own cost, whatever the requests cost that it pays
  for, and TLC finds a cheap one paying for dear ones.
* `OneCaller`: a single thread calls, where the code gives several no more (`eviction_race`
  shows what two can do).
* `TTLRefills`: if there is a TTL, the rate fills an empty bucket within it.
* `DebtFits`: a lump for each thread and one more, with what accrues while the clock runs,
  is within an `i64`. Beyond that the source cuts charges at `i64::MAX`, and forgives.

| Module | Theorem | States | Needs |
|---|---|---|---|
| `TokenBucketProofs` | `TypeCorrect` | `[]TypeOK` | |
| | `NoDoubleCreditEver` | `[]NoDoubleCredit` | |
| | `LedgerBalances`, `BudgetHolds` | `[]Ledger`, `[]Budget` | exact |
| | `RefillsCatchUp` | `[]RefillCaughtUp` | exact |
| | `TimestampsMoveForward` | `TimestampNeverMovesBack` | |
| | `KeysAreIsolated`, `OneBucketServesAKey` | `[]KeyIsolation`, `[]OneBucketPerKey` | |
| | `BucketsImplementLedger` | `ImplementsLedger` | exact, no TTL |
| | `KeysKeepTheirRate` | `[]Promise!RateIsKept` | exact, no TTL |
| | `PromiseKept` | the ledger's `[]RateIsKept` | |
| | `BurstsAreBounded` | `[]BurstIsBounded` | exact, no TTL, finitely many threads |
| | `KeysKeepTheirBudget` | `[]KeyBudget` | exact, no TTL |
| | `EvictionKeepsBudget` | `[]KeyBudget` | exact, one caller, TTL refills |
| | `AloneEvictsOnlyIdle`, `CallsAreWholeChecks` | `EvictedWasIdle`, `ImplementsWholeChecks` | one caller |
| `LeakyBucketProofs` | `LeakyIsTokenBucket` | `IsTokenBucketUpsideDown` | |
| | `TypeCorrect` | `[]TypeOK` (never over the brim) | |
| | `DrainsAtTheRate`, `LeaksCatchUp`, `RetriesFindRoom` | `[]DrainedAtTheRate`, `[]LeakCaughtUp`, `[]RetryAfterSuffices` | exact |
| `ProbabilisticBucketProofs` | `TypeCorrect` | `[]TypeOK` (never above the capacity) | |
| | `UnsampledIsExact` | `[]ExactWithoutSampling` | exact |
| | `OverdraftIsBounded` | `[]OverdraftBounded` | exact, callers |
| | `DebtIsCarried`, `LevelsAreNotOverEstimated` | `[]DebtCarries`, `[]NeverOverEstimated` | exact, callers, debt fits |
| | `BurstsOvershootByALump` | `[]BurstOvershoot` | one cost |
| `SequentialRefillProofs` | `NothingIsLost`, `LittleIsGained` | `[]PollingLosesNothing`, `[]PollingGainsLittle` | |
| | `WaitsAreRight`, `ResetsFillBuckets` | `[]WaitIsToTheNanosecond`, `[]ResetFillsTheBucket` | nothing saturates |
| | `HeadersCoverWaits` | `[]HeaderCoversWait` | the same, 2 tokens/ns |
| `RateLimiterProofs` | `TypeCorrect`, `TimeoutHolds`, `WaitersDoNotSpin` | `[]TypeOK`, `[]TimeoutIsKept`, `[]NoSpinning` | |
| | `SleepersDoNotOverWait` | `[]NoOverWaiting` | exact |
| `MiddlewareProofs` | `TypeCorrect` | `[]TypeOK` | |
| | `BudgetHolds` | `[]ClientBudget` | exact, proxies name the client |
| | `RetryAfterHolds` | `[]RetryAfterIsKept` | 2 tokens/ns, or a floor |
| | `QuotaHeadersHold` | `[]QuotaHeadersAreKept` | 2 tokens/ns |

### Arithmetic

`RefillMathProofs` is about the two roundings of `apply_refill` and the one of
`wait_for_tokens`. `ClaimedWithinElapsed`: rounding twice never claims more time than has
gone by. `ExactClaim`: at an exact rate a claim is worth what it credits.
`ExactClaimCatchesUp`: and leaves nothing behind. `WaitBounds` and `WaitIsRight`: a wait is
the exact quotient to half a nanosecond, so the tokens are there a nanosecond after it, at
its end if the rate is exact, and not a nanosecond before it.

`SequentialRefillProofs` carries `WalkInv`: the claims made so far are worth no more than
what was credited, and credits no more than claims and a nanosecond per refill.
`PollingLosesNothing` is not inductive without the first: a poll credits what the interval
since the timestamp is worth, and only a timestamp that is not ahead of the credits makes
that enough.

### The token bucket

Three layers, each an inductive invariant that strengthens the last:

1. `TypeInv` = `TypeOK` and `DebitCovered`: a thread at the debit has loaded a value
   that covers its cost. Without it `tokens` could become negative.
2. `ClaimInv` adds `Timeline` (created ≤ timestamp ≤ clock, and `now` ≤ clock) and
   `NoDoubleCredit`. A successful claim starts where the timestamp was, above all
   other claims, and ends before the clock.
3. `LedgerInv` adds `Ledger`: tokens, what was granted, and outstanding claims,
   weighted by their worth, never exceed the capacity and the time claimed. `Budget`
   alone is not inductive: it says nothing of what is in the bucket or on its way to
   it.

Beside them:

* `CaughtUp` strengthens `RefillCaughtUp` to every step after the timestamp has been
  settled, the credit included. It survives other threads' claims because these only move
  the timestamp forward (`LaterTimestamp`), or reuse memory that the thread does not hold.
* `KeyInv` (a bucket in the map, or held by a call, belongs to one key; what is held is
  not free) gives `KeyIsolation`, whatever is evicted. `HoldsMapped` (without a TTL, what a
  call holds is what the map has) gives `OneBucketPerKey`.
* `ImplementsLedger` needs `LedgerInv`, `KeyInv`, `HoldsMapped` and that a call under way
  costs something. The steps that move neither level, backlog nor takes stutter, a claim
  among them: it moves time from the timestamp to the claims outstanding. `Tick`, `Credit`,
  `Debit` and the first `Insert` are each one step of the ledger. `PromiseKept`, proved of
  the ledger alone, then holds of the code's steps.
* `BurstIsBounded` says nothing of what a key can still be let through at the instant.
  `BurstCovered` adds that: what its bucket holds, a capacity for each call on it that lags
  (its `now` is past and it may still claim, or it has claimed), and one more while time up to the
  clock is unclaimed. A credit uses up its own capacity, a claim up to the clock takes over the
  unclaimed one. The first debit of an instant is by a call that does not lag, and the bucket
  holds at most one capacity then, so the sum starts below the bound.

With one caller (`AloneInv`: what the caller holds the map has, access times are no later
than its `now`, and what it has found expired stays so):

* `PastIsCovered`, for `KeyBudget`: what a key's earlier buckets let through is covered by the
  time before the present one was inserted, or, between buckets, by the time until the
  next can be. An eviction moves a bucket's grants to the past; `Ledger` bounds them by the
  capacity and its timestamp, and the TTL since its last access is worth that capacity. Without
  a TTL no assumption on callers is needed: the grants of a key are those of its one bucket.
* `CallsAreWholeChecks`: `Left` is the bucket that the call will leave behind. `OwnStep` shows
  that every step of a call does a part of what is still to be done of the check and leaves
  `Left` as it was, except `Lookup`, where the check counts as done.

### The leaky bucket

`LeakyBucketProofs` does not repeat these proofs. `MirrorInv` (levels within the capacity,
and what a thread is about to pour fits) makes `room` a natural number; under it every step
of `LeakyBucket` is a step of `TokenBucket` (`NextMirrored`: saturating subtraction of a
leak is, upside down, addition up to the capacity). The step lemmas of `TokenBucketProofs`,
instantiated with `room` for `tokens`, then give the invariants; the initial states are
checked on their own. `DrainedAtTheRate` is `Ledger` read in the mirror.

### The probabilistic bucket

The claims and credits are those of `TokenBucket`, so their lemmas (`ClaimMoves`,
`CreditMoves`, `RefillKeepsLedger`) are cited and not repeated. What is new is that a debit
is decided on a level observed earlier and subtracted without a check.

* `TypeOK` bounds the level, by the capacity and by the end of an `i64`: `LevelInv` adds
  that an unsampled debit takes no more than has been seen. A credit is cut at the capacity
  and a charge at the end of the `i64`, whatever others do in between.
* `ExactInv`, for `sample_rate = 1`: a thread at the debit holds what it has loaded, the
  compare-and-swap succeeds on that value only, so tokens stay natural and what is let
  through is what is charged.
* `OverdraftBounded` is not inductive: a debt says nothing of who may still deepen it.
  `CoverInv` adds that. A thread that has seen a level above zero and has still to charge
  *owes* a lump (`Owing`). `Covered`: at every time up to the clock the level, with all
  claims not yet credited and what the rate yields from the timestamp to that time, less a
  lump for each thread that owes on what it saw by then, stays above a lump per thread
  below zero. The quantifier over times is what makes it inductive: a thread whose
  `now` is old decides on less than the bucket has by the clock, and a claim moves value from
  "yet to accrue" to "outstanding" without a change of the sum.
* `DebtInv`: the bound on debts, with `DebtFits`, keeps every charge in an `i64`
  (`ChargeIsExact`), so tokens and `debited` add up to what was given.
* `EstimateInv`: what a thread loaded first, with what had been charged by then, is within
  the ledger at the timestamp; the timestamp it loads second is no older, so what accrues
  from there on is time that the first load cannot contain. In the other order the step
  from one to the other fails, as the mutant `ReadBackwards` does.
* `BurstOvershoot` counts what is let through, and says nothing of the lumps that pay for
  it, nor of requests that have decided and not yet been counted. `BurstInv` adds both.
  While a bucket has tokens it is `Solvent`: what it has let through, what is in flight
  (`InFlight`) and what the group of `sample_rate` ticks under way may still let through
  unsampled (`Gap`) is within what it has lost, a lump for each request about to pay
  (`Paying`) and the part of one group that is free. Where every thread is about to pay,
  nobody is left to use that part, so it is not granted. Every request
  has seen a level at least as high as the present one, as nothing accrues; a charge
  therefore either takes its lump in full or leaves no tokens (`ChargeDrains`). Once none
  are left the bucket is `Spent`: only requests that have seen some (`Hopeful`) can still be
  let through, and they fit in what the bound has left. The tick's wrap at `u64` only shortens a group
  (`GapFalls`). No rate is assumed exact, since the property is about an instant at which
  nothing has accrued.

### `RateLimiter` and the middleware

* `TimeInv`: a sleeping task wakes by its deadline and has checked once per floor of a
  wait. `TimeoutIsKept` and `NoSpinning` follow, for late wake-ups too.
* `NoOverWaiting`: what is in the bucket and what will accrue until a sleeper is
  due, less the floor, is below two tokens. Refills split an interval without gain at an exact rate
  (`RefillSplits`), and other callers only take. It speaks of the sleep that is planned:
  while a task that is due waits for the runtime more tokens may come.
* The middleware's `BudgetInv` is a ledger for each key: what the bucket holds and what its payer
  was passed. Every way out of a future after the check leaves it alone, so failures and drops need
  no case of their own. `HeadersInv` relates the bucket, as long as nobody else has asked
  for the key, to the headers last sent for it; the bucket is then as the decision left it.

### Only model-checked

* Liveness (`EveryCallReturns`, `IdleKeysAreEvicted`, `EveryAcquireReturns`), which is out
  of the prover's reach.
* `OneBucketPerKey` and `KeyIsolation` of `CachedBucket`: an argument over the local caches
  of every thread, not yet written.

## Not modelled, and the plan

1. **Proofs next**: `OneBucketPerKey` and `KeyIsolation` through the caches of
   `CachedBucket`; a bound on bursts for several costs; a budget for inexact rates with the nanosecond per refill.
2. **Models**: eviction in `ProbabilisticBucket`, whose `cleanup_idle` is that of
   `token_bucket.rs`.

Left out for good: the random number generator (`should_cleanup` is a choice, and so is
every coin of the sampler; that the admitted rate converges is a statement about
probabilities), the hash function, the counters of cache hits and misses, which nothing
reads, the table from gRPC codes to HTTP statuses, answers to requests without a key,
names and formatting of headers, tracing and metrics, benches and examples.
