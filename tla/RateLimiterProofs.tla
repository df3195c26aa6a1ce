------------------------- MODULE RateLimiterProofs -------------------------
(***************************************************************************)
(* Theorems about RateLimiter, for every set of tasks and timeouts, every  *)
(* lateness of the runtime, and every capacity and rate.                   *)
(***************************************************************************)
EXTENDS RateLimiter, LimiterProofs

\* The constants, as the proofs use them.
LEMMA TaskConstants ==
    /\ MaxTime \in Nat /\ MaxTime <= U64_MAX /\ U64_MAX \in Nat
    /\ Lateness \in Nat /\ MIN_WAIT \in Nat /\ Cost \subseteq Nat
    /\ Forever \notin Nat /\ Timeouts \subseteq Nat
  BY TaskAssumption, MathAssumption DEF u64

\* The types of the clock and of one task.
LEMMA TaskTypes ==
    ASSUME TypeOK, NEW t \in Task
    PROVE  /\ clock \in Nat /\ clock \in u64 /\ bucket \in Bucket \cup {NoBucket}
           /\ pc[t] \in {"idle", "check", "asleep"}
           /\ timeout[t] \in Nat \cup {Forever}
           /\ start[t] \in Nat /\ wake[t] \in Nat /\ checks[t] \in Nat
           /\ MIN_WAIT * checks[t] \in Nat
<1>1. clock \in Nat /\ clock \in u64 /\ bucket \in Bucket \cup {NoBucket}
  BY TaskConstants DEF TypeOK, u64
<1>2. start[t] \in Nat /\ wake[t] \in Nat /\ checks[t] \in Nat
  BY TaskConstants DEF TypeOK
<1>3. pc[t] \in {"idle", "check", "asleep"}
  BY DEF TypeOK
<1>4. timeout[t] \in Timeouts \cup {Forever}
  BY DEF TypeOK
<1>5. MIN_WAIT * checks[t] \in Nat
  BY <1>2, TaskConstants
<1> QED BY <1>1, <1>2, <1>3, <1>4, <1>5, TaskConstants

\* A denied task sleeps for the wait of one token, or what is left of its timeout.
LEMMA SleepBounds ==
    ASSUME NEW full \in Bucket, ~permits(full, 1), NEW t \in Task, TypeOK,
           start[t] <= clock, ~IsTimedOut(t)
    PROVE  LET w     == wait_for_tokens(1, requests_per_second)
               sleep == sleep_time(t, decision(full, 1).retry_after)
           IN /\ w \in Nat /\ sleep \in Nat /\ MIN_WAIT <= w /\ sleep <= w
              /\ \/ sleep = w
                 \/ timeout[t] # Forever /\ clock + sleep = start[t] + timeout[t]
              /\ timeout[t] # Forever => clock + sleep <= start[t] + timeout[t]
<1> DEFINE w == wait_for_tokens(1, requests_per_second)
           left == timeout[t] - elapsed(t)
<1>1. decision(full, 1).retry_after = w /\ w \in Nat /\ MIN_WAIT <= w
  <2>1. decision(full, 1).retry_after = w
    BY DecisionDescribes
  <2>2. w \in Nat /\ MIN_WAIT <= w
    BY LimiterConstants, WaitBounds
  <2> QED BY <2>1, <2>2
<1>2. clock \in Nat /\ start[t] \in Nat /\ timeout[t] \in Nat \cup {Forever}
  BY TaskTypes
<1> HIDE DEF w
<1>3. sleep_time(t, w) = IF timeout[t] = Forever THEN w ELSE MinOf(w, left)
  BY <1>1 DEF sleep_time, None
<1>4. timeout[t] # Forever =>
         left \in Nat /\ clock + left = start[t] + timeout[t]
  BY <1>2 DEF IsTimedOut, elapsed
<1> HIDE DEF left
<1> QED BY <1>1, <1>2, <1>3, <1>4 DEF MinOf, w

-----------------------------------------------------------------------------
(***************************************************************************)
(* Types, and the timing of a call                                         *)
(***************************************************************************)

\* A task runs within Lateness of when it is due, and it is due before its
\* timeout is over.
OnTime(t) ==
    /\ start[t] <= clock
    /\ clock <= wake[t] + Lateness
    /\ timeout[t] # Forever => wake[t] <= start[t] + timeout[t]

\* The deadline of a call has come, and its last check with it.
AtDeadline(t, now) == timeout[t] # Forever /\ now >= start[t] + timeout[t]

\* The checks of a call are MIN_WAIT apart, but for the last one.
Paced(t, now) ==
    \/ MIN_WAIT * checks[t] <= now - start[t]
    \/ AtDeadline(t, now) /\ MIN_WAIT * checks[t] <= now - start[t] + MIN_WAIT

TaskInv(t) ==
    /\ pc[t] = "idle" => checks[t] = 0
    /\ pc[t] # "idle" => OnTime(t)
    /\ pc[t] = "check" => Paced(t, clock)
    /\ pc[t] = "asleep" => Paced(t, wake[t])

TimeInv == TypeOK /\ Dated(bucket, clock) /\ \A t \in Task : TaskInv(t)

\* There is no bucket and no call initially.
LEMMA InitTimeInv == Init => TimeInv
  BY TaskAssumption, MathAssumption
  DEF Init, TimeInv, TypeOK, TaskInv, Dated, u64

\* A step of one task, or of none, leaves the others as they are.
LEMMA OtherTasks ==
    ASSUME TypeOK, clock' = clock, NEW t \in Task, NEW u \in Task, u # t,
           TaskInv(u), Call(t) \/ Waiting(t)
    PROVE  TaskInv(u)'
<1>1. /\ pc'[u] = pc[u] /\ timeout'[u] = timeout[u] /\ start'[u] = start[u]
      /\ wake'[u] = wake[u] /\ checks'[u] = checks[u]
  BY DEF TypeOK, Call, Waiting, Attempt, Wake
<1> QED BY <1>1 DEF TaskInv, OnTime, Paced, AtDeadline

\* Every step keeps the types, the bucket's date and the timing of each call.
LEMMA NextTimeInv == TimeInv /\ [Next]_vars => TimeInv'
<1> SUFFICES ASSUME TimeInv, [Next]_vars PROVE TimeInv'
  OBVIOUS
<1>1. TypeOK /\ Dated(bucket, clock) /\ \A t \in Task : TaskInv(t)
  BY DEF TimeInv
<1>2. /\ clock \in Nat /\ clock \in u64 /\ MaxTime \in Nat /\ Lateness \in Nat
      /\ bucket \in Bucket \cup {NoBucket}
      /\ MIN_WAIT \in Nat /\ Forever \notin Nat /\ Timeouts \subseteq Nat
  BY <1>1, TaskConstants DEF TypeOK, u64
<1>3. ASSUME NEW t \in Task
      PROVE  /\ pc[t] \in {"idle", "check", "asleep"}
             /\ timeout[t] \in Nat \cup {Forever}
             /\ start[t] \in Nat /\ wake[t] \in Nat /\ checks[t] \in Nat
             /\ MIN_WAIT * checks[t] \in Nat
  BY <1>1, TaskTypes
<1>4. CASE UNCHANGED vars
  BY <1>1, <1>4 DEF vars, TimeInv, TypeOK, Dated, TaskInv, OnTime, Paced, AtDeadline
<1>5. CASE Tick
  <2>1. /\ clock < MaxTime /\ clock' = clock + 1
        /\ UNCHANGED <<bucket, pc, timeout, start, wake, checks>>
        /\ \A t \in Task : pc[t] # "idle" => clock < wake[t] + Lateness
    BY <1>5 DEF Tick
  <2>2. TypeOK' /\ Dated(bucket, clock)'
    BY <1>1, <1>2, <2>1 DEF TypeOK, Dated, Bucket
  <2>3. ASSUME NEW t \in Task PROVE TaskInv(t)'
    BY <1>1, <1>2, <1>3, <2>1 DEF TaskInv, OnTime, Paced, AtDeadline
  <2> QED BY <2>2, <2>3 DEF TimeInv
<1>6. CASE CheckWithCost
  <2>1. PICK cost \in Cost : bucket' = checked(bucket, clock, cost)
    BY <1>6 DEF CheckWithCost
  <2>2. bucket' \in Bucket \cup {NoBucket} /\ Dated(bucket', clock)
    BY <1>1, <1>2, <2>1, TaskAssumption, CheckedIsBucket
  <2>3. UNCHANGED <<clock, pc, timeout, start, wake, checks>>
    BY <1>6 DEF CheckWithCost
  <2> QED
    BY <1>1, <2>2, <2>3 DEF TimeInv, TypeOK, Dated, TaskInv, OnTime, Paced, AtDeadline
<1>7. ASSUME NEW t \in Task, Call(t) PROVE TimeInv'
  <2>1. PICK d \in Timeouts \cup {Forever} : timeout' = [timeout EXCEPT ![t] = d]
    BY <1>7 DEF Call
  <2>2. /\ pc[t] = "idle"
        /\ start' = [start EXCEPT ![t] = clock]
        /\ wake' = [wake EXCEPT ![t] = clock]
        /\ pc' = [pc EXCEPT ![t] = "check"]
        /\ UNCHANGED <<clock, bucket, checks>>
    BY <1>7 DEF Call
  <2>3. TypeOK' /\ Dated(bucket, clock)'
    BY <1>1, <1>2, <2>1, <2>2 DEF TypeOK, Dated
  <2>4. TaskInv(t)'
    <3>1. /\ pc'[t] = "check" /\ start'[t] = clock /\ wake'[t] = clock
          /\ timeout'[t] = d /\ checks'[t] = 0 /\ clock' = clock
      BY <1>1, <2>1, <2>2 DEF TypeOK, TaskInv
    <3>2. OnTime(t)'
      BY <1>2, <3>1 DEF OnTime
    <3>3. Paced(t, clock)'
      BY <1>2, <3>1 DEF Paced
    <3> QED BY <3>1, <3>2, <3>3 DEF TaskInv
  <2> QED BY <1>1, <1>7, <2>2, <2>3, <2>4, OtherTasks DEF TimeInv
<1>8. ASSUME NEW t \in Task, Wake(t) PROVE TimeInv'
  <2>1. /\ pc[t] = "asleep" /\ clock >= wake[t]
        /\ pc' = [pc EXCEPT ![t] = "check"]
        /\ UNCHANGED <<clock, bucket, timeout, start, wake, checks>>
    BY <1>8 DEF Wake
  <2>2. TypeOK' /\ Dated(bucket, clock)'
    BY <1>1, <2>1 DEF TypeOK, Dated
  <2>3. TaskInv(t)'
    <3>1. OnTime(t) /\ Paced(t, wake[t])
      BY <1>1, <2>1 DEF TaskInv
    <3>2. Paced(t, clock)
      BY <1>2, <1>3, <2>1, <3>1 DEF Paced, AtDeadline
    <3> QED BY <1>1, <2>1, <3>1, <3>2 DEF TaskInv, OnTime, Paced, AtDeadline, TypeOK
  <2> QED BY <1>1, <1>8, <2>1, <2>2, <2>3, OtherTasks DEF TimeInv, Waiting
<1>9. ASSUME NEW t \in Task, Attempt(t) PROVE TimeInv'
  <2> DEFINE full == refilled(bucket, clock)
             left == taken(full, 1)
             sleep == sleep_time(t, decision(full, 1).retry_after)
  <2>1. full \in Bucket /\ full.last_refill <= clock
    BY <1>1, <1>2, RefilledIsBucket
  <2>2. left \in Bucket /\ left.last_refill <= clock
    <3> HIDE DEF full
    <3> QED BY <2>1, TakenIsBucket
  <2>3. pc[t] = "check" /\ bucket' = left /\ clock' = clock
    BY <1>9 DEF Attempt
  <2>4. OnTime(t) /\ Paced(t, clock)
    BY <1>1, <2>3 DEF TaskInv
  <2>5. CASE permits(full, 1) \/ IsTimedOut(t)
    <3>1. /\ pc' = [pc EXCEPT ![t] = "idle"]
          /\ timeout' = [timeout EXCEPT ![t] = Forever]
          /\ start' = [start EXCEPT ![t] = 0]
          /\ wake' = [wake EXCEPT ![t] = 0]
          /\ checks' = [checks EXCEPT ![t] = 0]
      BY <1>9, <2>5 DEF Attempt
    <3> HIDE DEF full, left
    <3>2. TypeOK' /\ Dated(bucket, clock)'
      BY <1>1, <1>2, <2>2, <2>3, <3>1 DEF TypeOK, Dated
    <3>3. TaskInv(t)'
      BY <1>1, <3>1 DEF TypeOK, TaskInv
    <3> QED BY <1>1, <1>9, <2>3, <3>2, <3>3, OtherTasks DEF TimeInv, Waiting
  <2>6. CASE ~(permits(full, 1) \/ IsTimedOut(t))
    <3>1. /\ pc' = [pc EXCEPT ![t] = "asleep"]
          /\ wake' = [wake EXCEPT ![t] = clock + sleep]
          /\ checks' = [checks EXCEPT ![t] = @ + 1]
          /\ UNCHANGED <<timeout, start>>
      BY <1>9, <2>6 DEF Attempt
    <3>2. /\ sleep \in Nat
          /\ \/ MIN_WAIT <= sleep
             \/ timeout[t] # Forever /\ clock + sleep = start[t] + timeout[t]
          /\ timeout[t] # Forever => clock + sleep <= start[t] + timeout[t]
      <4> DEFINE w == wait_for_tokens(1, requests_per_second)
      <4>1. start[t] <= clock /\ ~permits(full, 1) /\ ~IsTimedOut(t)
        BY <2>4, <2>6 DEF OnTime
      <4> HIDE DEF full
      <4>2. /\ w \in Nat /\ sleep \in Nat /\ MIN_WAIT <= w /\ sleep <= w
            /\ \/ sleep = w
               \/ timeout[t] # Forever /\ clock + sleep = start[t] + timeout[t]
            /\ timeout[t] # Forever => clock + sleep <= start[t] + timeout[t]
        BY <1>1, <2>1, <4>1, SleepBounds
      <4> HIDE DEF w, sleep
      <4> QED BY <1>2, <1>3, <4>2
    <3> HIDE DEF full, left, sleep
    <3>3. TypeOK' /\ Dated(bucket, clock)'
      BY <1>1, <1>2, <2>2, <2>3, <3>1, <3>2 DEF TypeOK, Dated
    <3>4. TaskInv(t)'
      <4>1. /\ pc'[t] = "asleep" /\ wake'[t] = clock + sleep /\ checks'[t] = checks[t] + 1
            /\ timeout'[t] = timeout[t] /\ start'[t] = start[t] /\ clock' = clock
        BY <1>1, <2>3, <3>1 DEF TypeOK
      <4>2. OnTime(t)'
        BY <1>2, <1>3, <2>4, <3>2, <4>1 DEF OnTime
      <4>3. MIN_WAIT * checks[t] <= clock - start[t]
        BY <1>2, <1>3, <2>4, <2>6 DEF Paced, AtDeadline, IsTimedOut, elapsed
      <4>4. MIN_WAIT * (checks[t] + 1) = MIN_WAIT * checks[t] + MIN_WAIT
        BY <1>2, <1>3
      <4>5. Paced(t, wake[t])'
        <5> DEFINE spent == MIN_WAIT * checks[t]
        <5>1. MIN_WAIT * checks'[t] = spent + MIN_WAIT /\ spent \in Nat /\ spent <= clock - start[t]
          BY <1>3, <4>1, <4>3, <4>4
        <5> HIDE DEF spent
        <5> QED BY <1>2, <1>3, <3>2, <4>1, <5>1 DEF Paced, AtDeadline
      <4> QED BY <4>1, <4>2, <4>5 DEF TaskInv
    <3> QED BY <1>1, <1>9, <2>3, <3>3, <3>4, OtherTasks DEF TimeInv, Waiting
  <2> QED BY <2>5, <2>6
<1> QED BY <1>4, <1>5, <1>6, <1>7, <1>8, <1>9 DEF Next, Waiting

\* The state has its types, and the bucket stays within its capacity.
THEOREM TypeCorrect == Spec => []TypeOK
<1>1. TimeInv => TypeOK
  BY DEF TimeInv
<1> QED BY <1>1, InitTimeInv, NextTimeInv, PTL DEF Spec

\* A call with a timeout returns when it is over, or as much later as the runtime
\* is late once, however many checks it has made.
THEOREM TimeoutHolds == Spec => []TimeoutIsKept
<1>1. TimeInv => TimeoutIsKept
  <2> SUFFICES ASSUME TimeInv, NEW t \in Task, pc[t] # "idle", timeout[t] # Forever
               PROVE  elapsed(t) <= timeout[t] + Lateness
    BY DEF TimeoutIsKept
  <2>1. clock <= wake[t] + Lateness /\ wake[t] <= start[t] + timeout[t]
    BY DEF TimeInv, TaskInv, OnTime
  <2>2. /\ clock \in Nat /\ start[t] \in Nat /\ wake[t] \in Nat
        /\ timeout[t] \in Nat /\ Lateness \in Nat
    BY TaskTypes, TaskConstants DEF TimeInv
  <2> QED BY <2>1, <2>2 DEF elapsed
<1> QED BY <1>1, InitTimeInv, NextTimeInv, PTL DEF Spec

\* A waiting task does not spin, however many tasks and callers compete with it.
THEOREM WaitersDoNotSpin == Spec => []NoSpinning
<1>1. TimeInv => NoSpinning
  <2> SUFFICES ASSUME TimeInv, NEW t \in Task, pc[t] = "check"
               PROVE  MIN_WAIT * checks[t] <= elapsed(t) + MIN_WAIT
    BY DEF NoSpinning
  <2>1. /\ Paced(t, clock) /\ start[t] <= clock
        /\ clock \in Nat /\ start[t] \in Nat /\ MIN_WAIT \in Nat /\ checks[t] \in Nat
    BY TaskTypes, TaskConstants DEF TimeInv, TaskInv, OnTime
  <2>2. MIN_WAIT * checks[t] \in Nat
    BY <2>1
  <2> QED BY <2>1, <2>2 DEF Paced, elapsed
<1> QED BY <1>1, InitTimeInv, NextTimeInv, PTL DEF Spec

-----------------------------------------------------------------------------
(***************************************************************************)
(* What a task that sleeps leaves unused                                   *)
(***************************************************************************)

\* A bucket, seen ahead, will not have a second token at that instant.
Short(b, then) ==
    /\ b \in Bucket
    /\ b.tokens + accrued(b, then) < 2 * SCALE

\* No check changes that, whatever its cost, before that instant.
LEMMA StaysShort ==
    ASSUME Exact(rate_scaled), NEW b, NEW now \in u64, NEW then \in Nat, Short(b, then),
           b.last_refill <= now, now <= then, NEW cost \in Nat
    PROVE  Short(taken(refilled(b, now), cost), then)
<1> DEFINE full == refilled(b, now)
           left == taken(full, cost)
<1>1. b \in Bucket /\ b.tokens \in Nat /\ b.tokens + accrued(b, then) < 2 * SCALE
  BY LimiterConstants DEF Short, Bucket
<1>2. full \in Bucket /\ Dated(b, now)
  BY <1>1, RefilledIsBucket DEF Dated
<1>3. accrued(b, then) \in Nat /\ accrued(full, then) \in Nat
  <2>1. /\ saturating_sub(then, b.last_refill) \in Nat
        /\ saturating_sub(then, full.last_refill) \in Nat
    <3>1. b.last_refill \in Nat /\ full.last_refill \in Nat
      <4> HIDE DEF full
      <4> QED BY <1>1, <1>2 DEF Bucket
    <3> HIDE DEF full
    <3> QED BY <3>1 DEF saturating_sub
  <2> HIDE DEF full
  <2> QED BY <2>1, LimiterConstants, ClaimedWithinElapsed DEF accrued
<1>4. 2 * SCALE <= U64_MAX /\ SCALE \in Nat /\ U64_MAX \in Nat
  <2>1. 1 * (2 * SCALE) <= burst * (2 * SCALE)
    BY LimiterConstants, MathAssumption, KeepFactor
  <2>2. burst * (2 * SCALE) = 2 * SCALE * burst
    BY LimiterConstants, MathAssumption
  <2> QED BY <2>1, <2>2, LimiterConstants, LimiterAssumption, MathAssumption
<1>5. accrued(b, then) < U64_MAX
  BY <1>1, <1>3, <1>4
<1>6. full.tokens + accrued(full, then) <= b.tokens + accrued(b, then)
  BY <1>1, <1>5, RefillForeseen
<1> HIDE DEF full
<1>7. /\ left \in Bucket /\ left.last_refill = full.last_refill
      /\ left.tokens <= full.tokens
  BY <1>2, TakenIsBucket
<1>8. accrued(left, then) = accrued(full, then)
  BY <1>7 DEF accrued
<1>9. left.tokens \in Nat /\ full.tokens \in Nat
  BY <1>2, <1>7, LimiterConstants DEF Bucket
<1> DEFINE x == b.tokens  y == full.tokens  z == left.tokens
           ax == accrued(b, then)  ay == accrued(full, then)
<1>10. z + ay < 2 * SCALE
  <2>1. x \in Nat /\ y \in Nat /\ z \in Nat /\ ax \in Nat /\ ay \in Nat
    BY <1>1, <1>3, <1>9
  <2>2. z <= y /\ y + ay <= x + ax /\ x + ax < 2 * SCALE
    BY <1>1, <1>6, <1>7
  <2> HIDE DEF x, y, z, ax, ay
  <2> QED BY <1>4, <2>1, <2>2
<1> QED BY <1>7, <1>8, <1>10 DEF Short, full

\* A denied task that goes to sleep is short of the second token until a
\* nanosecond before the end of its sleep, but for the floor of the wait.
LEMMA DeniedIsShort ==
    ASSUME Exact(rate_scaled), NEW b \in Bucket \cup {NoBucket}, NEW now \in u64, Dated(b, now),
           ~permits(refilled(b, now), 1),
           NEW d \in Nat, d < wait_for_tokens(1, requests_per_second) - MIN_WAIT
    PROVE  Short(refilled(b, now), now + d)
<1> DEFINE f    == found(b, now)
           last == f.last_refill
           n    == nanos_for_tokens(accrued(f, now), rate_scaled)
           full == refilled(b, now)
           date == full.last_refill
           e    == saturating_sub(now, date)
<1>1. now \in Nat /\ SCALE \in Nat /\ rate_scaled \in Nat /\ rate_scaled = requests_per_second * SCALE
  BY LimiterConstants, MathAssumption DEF u64
<1>2. f \in Bucket /\ last <= now /\ last \in Nat
  <2>1. f \in Bucket /\ last <= now
    BY <1>1, FoundIsBucket
  <2> HIDE DEF f
  <2> QED BY <2>1 DEF Bucket
<1>3. full \in Bucket /\ date = last + n /\ date <= now
  <2> HIDE DEF f
  <2> QED BY <1>2, RefillsBucket DEF refilled, f
<1>4. refill_tokens(saturating_sub(now, last + n), rate_scaled) = 0
  <2>1. n = nanos_for_tokens(refill_tokens(saturating_sub(now, last), rate_scaled), rate_scaled)
    BY DEF accrued
  <2>2. n \in Nat
    <3>1. saturating_sub(now, last) \in Nat
      <4> HIDE DEF last
      <4> QED BY <1>1, <1>2 DEF saturating_sub
    <3> HIDE DEF last, n
    <3> QED BY <1>1, <2>1, <3>1, ClaimedWithinElapsed
  <2> HIDE DEF last, n
  <2> QED BY <1>1, <1>2, <2>1, <2>2, ExactClaimCatchesUp
<1>5. date \in Nat /\ full.tokens \in Nat
  <2> HIDE DEF full
  <2> QED BY <1>3, LimiterConstants DEF Bucket
<1>6. refill_tokens(e, rate_scaled) = 0
  BY <1>3, <1>4
<1>7. e \in Nat /\ saturating_sub(now + d, date) = e + d
  <2>1. date <= now
    BY <1>3
  <2> HIDE DEF date
  <2> QED BY <1>1, <1>5, <2>1 DEF saturating_sub
<1>8. refill_tokens(e + d, rate_scaled) <= SCALE
  <2> HIDE DEF e
  <2> QED BY <1>1, <1>6, <1>7, LimiterConstants, WaitIsNotLong
<1>9. accrued(full, now + d) <= SCALE /\ accrued(full, now + d) \in Nat
  <2>1. e + d \in Nat
    BY <1>7
  <2>2. refill_tokens(e + d, rate_scaled) \in Nat
    <3> HIDE DEF e
    <3> QED BY <1>1, <2>1, ClaimedWithinElapsed
  <2> QED BY <1>7, <1>8, <2>2 DEF accrued
<1>10. full.tokens < SCALE
  <2>1. ~(full.tokens >= SCALE)
    BY <1>3, OneToken
  <2> HIDE DEF full
  <2> QED BY <1>1, <1>5, <2>1
<1> HIDE DEF full
<1> QED BY <1>1, <1>3, <1>5, <1>9, <1>10 DEF Short, full

\* The instant up to which a sleeping task is to be short of a second token.
Nearly(t) == wake[t] - 1 - MIN_WAIT

WaitInv ==
    /\ TimeInv
    /\ \A t \in Task : pc[t] = "asleep" /\ clock <= Nearly(t) => Short(bucket, Nearly(t))

\* Every step keeps it: checks by others, whatever they cost, bring no token.
LEMMA NextWaitInv ==
    ASSUME Exact(rate_scaled)
    PROVE  WaitInv /\ [Next]_vars => WaitInv'
<1> SUFFICES ASSUME WaitInv, [Next]_vars,
                    NEW t \in Task, pc'[t] = "asleep", clock' <= Nearly(t)'
             PROVE  Short(bucket', Nearly(t)')
  BY NextTimeInv DEF WaitInv
<1>1. TimeInv /\ TypeOK /\ Dated(bucket, clock)
  BY DEF WaitInv, TimeInv
<1>2. /\ clock \in Nat /\ clock \in u64 /\ wake[t] \in Nat /\ MIN_WAIT \in Nat
      /\ bucket \in Bucket \cup {NoBucket}
  BY <1>1, TaskTypes, TaskConstants
<1>3. ASSUME pc[t] = "asleep", wake'[t] = wake[t], clock <= Nearly(t)
      PROVE  Short(bucket, Nearly(t)) /\ Nearly(t)' = Nearly(t) /\ Nearly(t) \in Nat
  BY <1>2, <1>3 DEF WaitInv, Nearly
<1>4. ASSUME pc[t] = "asleep", wake'[t] = wake[t], clock' = clock, NEW cost \in Nat,
             bucket' = taken(refilled(bucket, clock), cost)
      PROVE  Short(bucket', Nearly(t)')
  <2>1. Short(bucket, Nearly(t)) /\ Nearly(t)' = Nearly(t) /\ Nearly(t) \in Nat /\ clock <= Nearly(t)
    BY <1>3, <1>4 DEF Nearly
  <2>2. bucket.last_refill <= clock
    BY <1>1, <2>1, LimiterConstants DEF Short, Dated, Bucket, NoBucket, None
  <2> QED BY <1>2, <1>4, <2>1, <2>2, StaysShort
<1>5. CASE UNCHANGED vars
  BY <1>3, <1>5 DEF vars, Nearly
<1>6. CASE Tick
  <2>1. pc[t] = "asleep" /\ wake'[t] = wake[t] /\ bucket' = bucket /\ clock' = clock + 1
    BY <1>6 DEF Tick
  <2>2. clock <= Nearly(t)
    BY <1>2, <2>1 DEF Nearly
  <2> QED BY <1>3, <2>1, <2>2
<1>7. CASE CheckWithCost
  <2>1. PICK cost \in Cost : bucket' = checked(bucket, clock, cost)
    BY <1>7 DEF CheckWithCost
  <2>2. pc[t] = "asleep" /\ wake'[t] = wake[t] /\ clock' = clock /\ cost \in Nat
    BY <1>7, TaskConstants DEF CheckWithCost
  <2>3. CASE cost = 0
    BY <1>3, <2>1, <2>2, <2>3 DEF checked, Nearly
  <2>4. CASE cost # 0
    BY <1>4, <2>1, <2>2, <2>4 DEF checked
  <2> QED BY <2>3, <2>4
<1>8. ASSUME NEW u \in Task, Call(u) \/ Wake(u) PROVE Short(bucket', Nearly(t)')
  <2>1. pc[t] = "asleep" /\ wake'[t] = wake[t] /\ bucket' = bucket /\ clock' = clock
    BY <1>1, <1>8 DEF Call, Wake, TypeOK
  <2> QED BY <1>3, <2>1 DEF Nearly
<1>9. ASSUME NEW u \in Task, Attempt(u) PROVE Short(bucket', Nearly(t)')
  <2> DEFINE full == refilled(bucket, clock)
             sleep == sleep_time(u, decision(full, 1).retry_after)
             w == wait_for_tokens(1, requests_per_second)
  <2>1. pc[u] = "check" /\ bucket' = taken(full, 1) /\ clock' = clock
    BY <1>9 DEF Attempt
  <2>2. CASE u # t
    <3>1. pc[t] = "asleep" /\ wake'[t] = wake[t]
      BY <1>1, <1>9, <2>2 DEF Attempt, TypeOK
    <3> QED BY <1>4, <2>1, <3>1
  <2>3. CASE u = t
    <3>1. ~permits(full, 1) /\ ~IsTimedOut(t)
      BY <1>1, <1>9, <2>3 DEF Attempt, TypeOK
    <3>2. wake'[t] = clock + sleep
      BY <1>1, <1>9, <2>3, <3>1 DEF Attempt, TypeOK
    <3>3. full \in Bucket /\ start[t] <= clock
      BY <1>1, <1>2, <2>1, <2>3, RefilledIsBucket DEF TimeInv, TaskInv, OnTime
    <3>4. w \in Nat /\ sleep \in Nat /\ sleep <= w
      <4> HIDE DEF full
      <4> QED BY <1>1, <2>3, <3>1, <3>3, SleepBounds
    <3> DEFINE d == sleep - 1 - MIN_WAIT
    <3>5. Nearly(t)' = clock + d /\ d \in Nat /\ d < w - MIN_WAIT
      <4> HIDE DEF sleep, w
      <4> QED BY <1>2, <2>1, <3>2, <3>4 DEF Nearly
    <3>6. Short(full, Nearly(t)')
      <4> HIDE DEF d
      <4> QED BY <1>1, <1>2, <3>1, <3>5, DeniedIsShort
    <3>7. taken(full, 1) = full
      BY <3>1 DEF taken
    <3> QED BY <2>1, <3>6, <3>7
  <2> QED BY <2>2, <2>3
<1> QED BY <1>5, <1>6, <1>7, <1>8, <1>9 DEF Next, Waiting

\* No second token comes while a task that sleeps for one has more than the floor
\* of a wait left, at an exact rate, however many tasks and callers compete.
THEOREM SleepersDoNotOverWait ==
    ASSUME Exact(rate_scaled)
    PROVE  Spec => []NoOverWaiting
<1>1. Init => WaitInv
  BY InitTimeInv DEF Init, WaitInv
<1>2. WaitInv /\ [Next]_vars => WaitInv'
  BY NextWaitInv
<1>3. WaitInv => NoOverWaiting
  BY DEF WaitInv, NoOverWaiting, Nearly, Short
<1> QED BY <1>1, <1>2, <1>3, PTL DEF Spec
=============================================================================
