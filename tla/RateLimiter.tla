---------------------------- MODULE RateLimiter ----------------------------
(***************************************************************************)
(* RateLimiter (src/limiter.rs) over one key of a TokenBucket: tasks that  *)
(* call acquire and acquire_timeout, among callers of check, try_acquire   *)
(* and the variants of these with a cost.                                  *)
(*                                                                         *)
(* A check awaits nothing, so on one worker thread tasks interleave only   *)
(* where they sleep: a check is one step here (TokenBucket takes it        *)
(* apart).  A task runs within Lateness of when it is due.                 *)
(***************************************************************************)
EXTENDS Limiter, FiniteSets

CONSTANTS
    Task,
    Cost,             \* the costs that callers of try_acquire_n ask for
    Timeouts,         \* the timeouts callers give to acquire_timeout
    POLL,             \* the sleep when a denial has no retry_after (10 ms)
    Lateness,         \* the longest a task that is ready to run is kept waiting
    LastCall,         \* no call begins after this instant
    MaxTime,          \* and the clock stops here
    Forever           \* the "timeout" of acquire

ASSUME TaskAssumption ==
    /\ Timeouts \subseteq Nat /\ POLL \in Nat \ {0} /\ Cost \subseteq Nat
    /\ Lateness \in Nat /\ LastCall \in Nat /\ MaxTime \in u64 /\ Forever \notin Nat

VARIABLES
    clock,
    bucket,
    pc,          \* Task -> "idle", "check" or "asleep"
    timeout,     \* Task -> the timeout of its call, or Forever
    start,       \* Task -> when its call began
    wake,        \* Task -> when it is due to run
    checks       \* history: Task -> checks its call has made

vars == <<clock, bucket, pc, timeout, start, wake, checks>>

Init ==
    /\ clock = 0
    /\ bucket = NoBucket
    /\ pc = [t \in Task |-> "idle"]
    /\ timeout = [t \in Task |-> Forever]
    /\ start = [t \in Task |-> 0]
    /\ wake = [t \in Task |-> 0]
    /\ checks = [t \in Task |-> 0]

-----------------------------------------------------------------------------

Tick ==
    /\ clock < MaxTime
    /\ \A t \in Task : pc[t] # "idle" => clock < wake[t] + Lateness
    /\ clock' = clock + 1
    /\ UNCHANGED <<bucket, pc, timeout, start, wake, checks>>

\* Other callers, on this key, that do not wait: check, check_with_cost,
\* try_acquire and try_acquire_n.
CheckWithCost ==
    /\ clock <= LastCall
    /\ \E cost \in Cost : bucket' = checked(bucket, clock, cost)
    /\ UNCHANGED <<clock, pc, timeout, start, wake, checks>>

\* A task calls acquire (Forever) or acquire_timeout.
Call(t) ==
    /\ pc[t] = "idle"
    /\ clock <= LastCall
    /\ \E d \in Timeouts \cup {Forever} : timeout' = [timeout EXCEPT ![t] = d]
    /\ start' = [start EXCEPT ![t] = clock]
    /\ wake' = [wake EXCEPT ![t] = clock]
    /\ pc' = [pc EXCEPT ![t] = "check"]
    /\ UNCHANGED <<clock, bucket, checks>>

elapsed(t) == clock - start[t]

IsTimedOut(t) == timeout[t] # Forever /\ elapsed(t) >= timeout[t]

\* Mutant: the sleep is not cut at the deadline.
sleep_uncut(t, retry_after) == IF retry_after = None THEN POLL ELSE retry_after

sleep_time(t, retry_after) ==
    LET pause == IF retry_after = None THEN POLL ELSE retry_after IN
    IF timeout[t] = Forever THEN pause ELSE MinOf(pause, timeout[t] - elapsed(t))

\* One turn of the loop: the call returns when it is permitted or has timed out,
\* and else goes to sleep.
Attempt(t) ==
    /\ pc[t] = "check"
    /\ \E ready \in {refilled(bucket, clock)} :
          /\ bucket' = taken(ready, 1)
          /\ IF permits(ready, 1) \/ IsTimedOut(t)
             THEN /\ pc' = [pc EXCEPT ![t] = "idle"]
                  /\ timeout' = [timeout EXCEPT ![t] = Forever]
                  /\ start' = [start EXCEPT ![t] = 0]
                  /\ wake' = [wake EXCEPT ![t] = 0]
                  /\ checks' = [checks EXCEPT ![t] = 0]
             ELSE /\ pc' = [pc EXCEPT ![t] = "asleep"]
                  /\ wake' = [wake EXCEPT ![t] =
                                clock + sleep_time(t, decision(ready, 1).retry_after)]
                  /\ checks' = [checks EXCEPT ![t] = @ + 1]
                  /\ UNCHANGED <<timeout, start>>
    /\ UNCHANGED clock

Wake(t) ==
    /\ pc[t] = "asleep"
    /\ clock >= wake[t]
    /\ pc' = [pc EXCEPT ![t] = "check"]
    /\ UNCHANGED <<clock, bucket, timeout, start, wake, checks>>

\* A task inside acquire or acquire_timeout.
Waiting(t) == Attempt(t) \/ Wake(t)

Next == Tick \/ CheckWithCost \/ \E t \in Task : Call(t) \/ Waiting(t)

Spec == Init /\ [][Next]_vars

\* The runtime polls every task that is ready, and time goes on.
FairSpec ==
    /\ Spec
    /\ WF_vars(Tick)
    /\ \A t \in Task : WF_vars(Waiting(t))

-----------------------------------------------------------------------------
(***************************************************************************)
(* Correctness                                                             *)
(***************************************************************************)

\* The fields have their types; the bucket never holds more than its capacity.
TypeOK ==
    /\ clock \in 0..MaxTime
    /\ bucket \in Bucket \cup {NoBucket}
    /\ pc \in [Task -> {"idle", "check", "asleep"}]
    /\ timeout \in [Task -> Timeouts \cup {Forever}]
    /\ start \in [Task -> 0..MaxTime]
    /\ wake \in [Task -> Nat]
    /\ checks \in [Task -> Nat]

\* "Maximum time to wait for tokens" (acquire_timeout): however often a call is
\* woken late, the delays do not add up, and it returns when its timeout is over.
TimeoutIsKept ==
    \A t \in Task : pc[t] # "idle" /\ timeout[t] # Forever =>
        elapsed(t) <= timeout[t] + Lateness

\* However many callers compete, a waiting task does not spin: between its first
\* check and the last one, at its deadline, it checks at most once in MIN_WAIT.
NoSpinning ==
    \A t \in Task : pc[t] = "check" => MIN_WAIT * checks[t] <= elapsed(t) + MIN_WAIT

\* "Callers that sleep on this value must not over-wait" (wait_for_tokens): when
\* the sleep of a task is over but for the floor of the wait, there is not yet a
\* second token for it, whatever other callers do meanwhile.
NoOverWaiting ==
    \A t \in Task : pc[t] = "asleep" /\ clock <= wake[t] - 1 - MIN_WAIT =>
        bucket.tokens + accrued(bucket, wake[t] - 1 - MIN_WAIT) < 2 * SCALE

\* acquire_timeout returns, however many callers compete and however late the
\* task is woken; and so does acquire, once the competing calls cease.
EveryAcquireReturns == \A t \in Task : (pc[t] # "idle") ~> (pc[t] = "idle")
=============================================================================
