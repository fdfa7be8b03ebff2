------------------------- MODULE QxSchedulerPolicy -------------------------
(***************************************************************************)
(* The numeric policy of the scheduler: what a task's priority decides     *)
(* about its queue, its heartbeat, its lease and the delay before a retry. *)
(* Pure helpers of qx_scheduler.c and qx_runtime.c; times in milliseconds. *)
(***************************************************************************)
EXTENDS Integers

\* The names pg_strcasecmp tells apart; "unset" is NULL or the empty string
\* and "other" any further text.
Priorities ==
    {"unset", "urgent", "critical", "high", "normal", "low", "idle", "other"}

QueueKinds == {"PRIMARY", "RETRY", "RECOVERY", "MAINTENANCE"}

WorkerNaptimeMs == 1000
MaxRetries == 3
BackoffCapMs == 60000
JitterCapMs == 1500

Larger(a, b) == IF a < b THEN b ELSE a
Smaller(a, b) == IF a < b THEN a ELSE b

PriorityWeight(p) ==
    CASE p = "unset" -> 40
      [] p \in {"urgent", "critical"} -> 100
      [] p = "high" -> 80
      [] p = "normal" -> 60
      [] p = "low" -> 35
      [] p = "idle" -> 10
      [] OTHER -> 50

QueueKindOf(p) ==
    IF PriorityWeight(p) >= 80 THEN "PRIMARY"
    ELSE IF PriorityWeight(p) >= 50 THEN "RETRY"
    ELSE IF PriorityWeight(p) >= 25 THEN "RECOVERY"
    ELSE "MAINTENANCE"

HeartbeatMs(p) ==
    IF PriorityWeight(p) >= 80 THEN 1500
    ELSE IF PriorityWeight(p) >= 50 THEN 3000
    ELSE IF PriorityWeight(p) >= 25 THEN 5000
    ELSE 8000

LeaseTtlMs(p) == 3 * HeartbeatMs(p)

\* The first delay of a priority, before it is doubled by further retries.
BackoffBase(p, ttl) ==
    LET base == Larger(ttl, WorkerNaptimeMs)
    IN  CASE p \in {"urgent", "critical"} -> Larger(base \div 2, WorkerNaptimeMs)
          [] p = "high" -> Larger((base * 3) \div 4, 2 * WorkerNaptimeMs)
          [] p = "normal" -> Larger(base, 3 * WorkerNaptimeMs)
          [] p = "low" -> Larger(base * 2, 5 * WorkerNaptimeMs)
          [] p = "idle" -> Larger(base * 3, 8 * WorkerNaptimeMs)
          [] OTHER -> base

\* The doubling begins one retry late.
RetryFactorLate(retryCount) ==
    CASE retryCount <= 2 -> 1
      [] retryCount = 3 -> 2
      [] retryCount = 4 -> 4
      [] OTHER -> 8

\* 1 << Min(Max(retry_count, 1) - 1, 3)
RetryFactor(retryCount) ==
    CASE retryCount <= 1 -> 1
      [] retryCount = 2 -> 2
      [] retryCount = 3 -> 4
      [] OTHER -> 8

BackoffDelay(p, retryCount, ttl) ==
    Smaller(BackoffBase(p, ttl) * RetryFactor(retryCount), BackoffCapMs)

JitterWindow(delay) == Smaller(Larger(delay \div 8, 1), JitterCapMs)

\* The seed is the task's oid mixed with the retry count: any natural number.
RetryBackoffMs(p, retryCount, ttl, seed) ==
    LET delay == BackoffDelay(p, retryCount, ttl)
    IN  delay + (seed % JitterWindow(delay))

\* A lease row and a queue row compared with the clock.
LeaseExpired(expiresAt, now) == now > expiresAt
RetryWaiting(eligibleAt, now) == now < eligibleAt

\* Does candidate c beat the best candidate b seen so far?
RetryCandidateBetter(c, b) ==
    IF PriorityWeight(c.priority) # PriorityWeight(b.priority)
    THEN PriorityWeight(c.priority) > PriorityWeight(b.priority)
    ELSE IF c.eligibleAt # b.eligibleAt THEN c.eligibleAt < b.eligibleAt
    ELSE IF c.enqueuedAt # b.enqueuedAt THEN c.enqueuedAt < b.enqueuedAt
    ELSE IF c.seqno # b.seqno THEN c.seqno < b.seqno
    ELSE c.oid < b.oid
=============================================================================
