------------------------ MODULE QxRetrySelectProofs ------------------------
(***************************************************************************)
(* The retry policy is a strict total order, so the selection loop does    *)
(* not depend on the order of its list; and the backoff it waits for stays *)
(* between its bounds without leaving 32 bits.                             *)
(***************************************************************************)
EXTENDS QxRetrySelect, TLAPS

\* The weights of qx_scheduler_priority_weight_internal.
LEMMA WeightType ==
  ASSUME NEW p PROVE PriorityWeight(p) \in {10, 35, 40, 50, 60, 80, 100}
  BY DEF PriorityWeight

\* They are integers, so that they can be compared.
LEMMA WeightInt == ASSUME NEW p PROVE PriorityWeight(p) \in Int
  BY WeightType

\* qx_runtime_retry_candidate_better never calls two tasks better than each
\* other, decides between any two tasks, and is transitive.
THEOREM BetterIsTotalOrder ==
  ASSUME NEW a \in Entries, NEW b \in Entries, NEW c \in Entries
  PROVE  /\ ~(RetryCandidateBetter(a, b) /\ RetryCandidateBetter(b, a))
         /\ a # b => RetryCandidateBetter(a, b) \/ RetryCandidateBetter(b, a)
         /\ RetryCandidateBetter(a, b) /\ RetryCandidateBetter(b, c) =>
                RetryCandidateBetter(a, c)
<1>1. /\ PriorityWeight(a.priority) \in Int /\ PriorityWeight(b.priority) \in Int
      /\ PriorityWeight(c.priority) \in Int
  BY WeightInt
<1>. QED BY <1>1, EntriesAssumption DEF RetryCandidateBetter

Visited == listed \ todo

\* The selected task is the best of the eligible ones visited so far.
LoopInv ==
    /\ now \in Times
    /\ listed \subseteq Entries
    /\ todo \subseteq listed
    /\ IF Eligible \cap Visited = {} THEN selected = None
       ELSE /\ selected \in Eligible \cap Visited
            /\ \A c \in Eligible \cap Visited :
                   c # selected => RetryCandidateBetter(selected, c)

\* One turn of the loop keeps the best of what it has visited.
LEMMA VisitInv ==
  ASSUME LoopInv, NEW c \in Entries, Visit(c)
  PROVE  LoopInv'
<1>1. /\ Eligible' = Eligible /\ listed' = listed /\ now' = now
      /\ c \in listed /\ c \notin Visited /\ Visited' = Visited \cup {c}
      /\ todo' \subseteq listed'
  BY DEF Visit, Eligible, Due, UsedUp, LoopInv, Visited
<1>2. c \in Eligible <=> Due(c) /\ ~UsedUp(c)
  BY <1>1 DEF Eligible
<1>3. CASE c \notin Eligible
  <2>1. selected' = selected
    BY <1>2, <1>3 DEF Visit
  <2>2. (Eligible \cap Visited)' = Eligible \cap Visited
    BY <1>1, <1>3
  <2>. QED BY <1>1, <2>1, <2>2 DEF LoopInv
<1>4. CASE c \in Eligible
  <2>1. selected' = Select(selected, c)
    BY <1>2, <1>4 DEF Visit
  <2>2. (Eligible \cap Visited)' = (Eligible \cap Visited) \cup {c}
    BY <1>1, <1>4
  <2>3. CASE Eligible \cap Visited = {}
    <3>1. selected' = c
      BY <2>1, <2>3 DEF LoopInv, Select
    <3>. QED BY <1>1, <2>2, <2>3, <3>1 DEF LoopInv
  <2>4. CASE Eligible \cap Visited # {}
    <3>1. /\ selected \in Eligible \cap Visited /\ selected \in Entries /\ selected # c
          /\ \A d \in Eligible \cap Visited :
                 d \in Entries /\ (d # selected => RetryCandidateBetter(selected, d))
      BY <1>1, <2>4 DEF LoopInv, Eligible
    <3>2. selected # None
      BY <3>1, EntriesAssumption
    <3>3. CASE RetryCandidateBetter(c, selected)
      <4>1. selected' = c
        BY <2>1, <3>2, <3>3 DEF Select
      <4>2. \A d \in Eligible \cap Visited : RetryCandidateBetter(c, d)
        BY <3>1, <3>3, BetterIsTotalOrder
      <4>. QED BY <1>1, <2>2, <4>1, <4>2 DEF LoopInv
    <3>4. CASE ~RetryCandidateBetter(c, selected)
      <4>1. selected' = selected
        BY <2>1, <3>2, <3>4 DEF Select
      <4>2. RetryCandidateBetter(selected, c)
        BY <3>1, <3>4, BetterIsTotalOrder
      <4>. QED BY <1>1, <2>2, <3>1, <4>1, <4>2 DEF LoopInv
    <3>. QED BY <3>3, <3>4
  <2>. QED BY <2>3, <2>4
<1>. QED BY <1>3, <1>4

\* For every set of entries and every order of the list, the cycle selects the
\* best eligible task.
THEOREM SelectionIsBest == Spec => []SelectsBest
<1>1. Init => LoopInv
  BY DEF Init, LoopInv, Visited
<1>2. LoopInv /\ [Next]_vars => LoopInv'
  <2>. SUFFICES ASSUME LoopInv, [Next]_vars PROVE LoopInv'
    OBVIOUS
  <2>1. CASE UNCHANGED vars
    BY <2>1 DEF vars, LoopInv, Visited, Eligible, Due, UsedUp
  <2>2. CASE NextCycle
    BY <2>2 DEF NextCycle, StartCycle, LoopInv, Visited
  <2>. QED BY <2>1, <2>2, VisitInv DEF Next
<1>3. LoopInv => SelectsBest
  BY DEF LoopInv, SelectsBest, Visited, Eligible
<1>. QED BY <1>1, <1>2, <1>3, PTL DEF Spec

----------------------------------------------------------------------------
\* The heartbeat intervals of the four weight classes.
LEMMA HeartbeatType == ASSUME NEW p PROVE HeartbeatMs(p) \in {1500, 3000, 5000, 8000}
  BY DEF HeartbeatMs

\* The shift of the backoff is at most 3.
LEMMA FactorType == ASSUME NEW r PROVE RetryFactor(r) \in {1, 2, 4, 8}
  BY DEF RetryFactor

\* The first delay of each priority lies between one second and three leases.
LEMMA BaseCases ==
  ASSUME NEW p, NEW ttl
  PROVE  LET base == Larger(ttl, WorkerNaptimeMs)
         IN  BackoffBase(p, ttl) \in
                 {Larger(base \div 2, WorkerNaptimeMs),
                  Larger((base * 3) \div 4, 2 * WorkerNaptimeMs),
                  Larger(base, 3 * WorkerNaptimeMs), Larger(base * 2, 5 * WorkerNaptimeMs),
                  Larger(base * 3, 8 * WorkerNaptimeMs), base}
  BY Zenon DEF BackoffBase

\* qx_runtime_retry_backoff_ms, for the lease of any priority: the delay before
\* a retry is at least a second and under 61.5 seconds whatever the retry count
\* and the jitter, and no intermediate product leaves int32.
THEOREM BackoffBounded ==
  ASSUME NEW p, NEW q, NEW r \in Nat, NEW seed \in Nat
  PROVE  LET ttl == LeaseTtlMs(q)
         IN  /\ 1000 <= RetryBackoffMs(p, r, ttl, seed)
             /\ RetryBackoffMs(p, r, ttl, seed) < 61500
             /\ BackoffBase(p, ttl) * RetryFactor(r) < 2147483648
<1>. DEFINE ttl == LeaseTtlMs(q)
            f == RetryFactor(r)
            b == BackoffBase(p, ttl)
            d == BackoffDelay(p, r, ttl)
            j == JitterWindow(d)
<1>1. ttl \in Int /\ 4500 <= ttl /\ ttl <= 24000
  <2>1. HeartbeatMs(q) \in {1500, 3000, 5000, 8000}
    BY HeartbeatType
  <2>. QED BY <2>1 DEF LeaseTtlMs
<1>. HIDE DEF ttl
<1>2. b \in Int /\ 1000 <= b /\ b <= 72000
  <2>1. Larger(ttl, WorkerNaptimeMs) = ttl
    BY <1>1 DEF Larger, WorkerNaptimeMs
  <2>2. b \in {Larger(ttl \div 2, WorkerNaptimeMs),
               Larger((ttl * 3) \div 4, 2 * WorkerNaptimeMs),
               Larger(ttl, 3 * WorkerNaptimeMs), Larger(ttl * 2, 5 * WorkerNaptimeMs),
               Larger(ttl * 3, 8 * WorkerNaptimeMs), ttl}
    BY <2>1, BaseCases
  <2>. HIDE DEF b
  <2>3. /\ ttl \div 2 \in Int /\ ttl \div 2 <= 12000
        /\ (ttl * 3) \div 4 \in Int /\ (ttl * 3) \div 4 <= 18000
    BY <1>1
  <2>. QED BY <1>1, <2>2, <2>3 DEF Larger, WorkerNaptimeMs
<1>3. f \in {1, 2, 4, 8}
  BY FactorType
<1>4. d = Smaller(b * f, BackoffCapMs)
  BY DEF BackoffDelay
<1>. HIDE DEF b, f, d
<1>5. b * f \in Int /\ b * f < 2147483648 /\ b * f >= 1000
  BY <1>2, <1>3
<1>6. d \in Int /\ 1000 <= d /\ d <= 60000
  BY <1>4, <1>5 DEF Smaller, BackoffCapMs
<1>7. j \in Int /\ 1 <= j /\ j <= 1500
  <2>1. d \div 8 \in Int
    BY <1>6
  <2>. QED BY <1>6, <2>1 DEF JitterWindow, Smaller, Larger, JitterCapMs
<1>8. RetryBackoffMs(p, r, ttl, seed) = d + (seed % j)
  BY DEF RetryBackoffMs, d
<1>. HIDE DEF j
<1>9. seed % j \in Int /\ 0 <= seed % j /\ seed % j < j
  BY <1>7
<1>10. /\ 1000 <= RetryBackoffMs(p, r, ttl, seed)
       /\ RetryBackoffMs(p, r, ttl, seed) < 61500
  BY <1>6, <1>7, <1>8, <1>9
<1>. QED BY <1>5, <1>10 DEF ttl, b, f

----------------------------------------------------------------------------
\* The first delay of a task under the lease its own priority gives it.
LEMMA BaseOfPriority ==
  ASSUME NEW p
  PROVE  BackoffBase(p, LeaseTtlMs(p)) \in {2250, 3375, 9000, 15000, 30000, 72000}
<1>. DEFINE base == Larger(LeaseTtlMs(p), WorkerNaptimeMs)
<1>1. CASE p \in {"urgent", "critical"}
  <2>1. PriorityWeight(p) = 100
    BY <1>1 DEF PriorityWeight
  <2>2. base = 4500
    BY <2>1 DEF HeartbeatMs, LeaseTtlMs, Larger, WorkerNaptimeMs
  <2>3. BackoffBase(p, LeaseTtlMs(p)) = Larger(base \div 2, WorkerNaptimeMs)
    BY <1>1 DEF BackoffBase
  <2>. QED BY <2>2, <2>3 DEF Larger, WorkerNaptimeMs
<1>2. CASE p = "high"
  <2>1. PriorityWeight(p) = 80
    BY <1>2 DEF PriorityWeight
  <2>2. base = 4500
    BY <2>1 DEF HeartbeatMs, LeaseTtlMs, Larger, WorkerNaptimeMs
  <2>3. BackoffBase(p, LeaseTtlMs(p)) = Larger((base * 3) \div 4, 2 * WorkerNaptimeMs)
    BY <1>2 DEF BackoffBase
  <2>. QED BY <2>2, <2>3 DEF Larger, WorkerNaptimeMs
<1>3. CASE p = "normal"
  <2>1. PriorityWeight(p) = 60
    BY <1>3 DEF PriorityWeight
  <2>2. base = 9000
    BY <2>1 DEF HeartbeatMs, LeaseTtlMs, Larger, WorkerNaptimeMs
  <2>3. BackoffBase(p, LeaseTtlMs(p)) = Larger(base, 3 * WorkerNaptimeMs)
    BY <1>3 DEF BackoffBase
  <2>. QED BY <2>2, <2>3 DEF Larger, WorkerNaptimeMs
<1>4. CASE p = "low"
  <2>1. PriorityWeight(p) = 35
    BY <1>4 DEF PriorityWeight
  <2>2. base = 15000
    BY <2>1 DEF HeartbeatMs, LeaseTtlMs, Larger, WorkerNaptimeMs
  <2>3. BackoffBase(p, LeaseTtlMs(p)) = Larger(base * 2, 5 * WorkerNaptimeMs)
    BY <1>4 DEF BackoffBase
  <2>. QED BY <2>2, <2>3 DEF Larger, WorkerNaptimeMs
<1>5. CASE p = "idle"
  <2>1. PriorityWeight(p) = 10
    BY <1>5 DEF PriorityWeight
  <2>2. base = 24000
    BY <2>1 DEF HeartbeatMs, LeaseTtlMs, Larger, WorkerNaptimeMs
  <2>3. BackoffBase(p, LeaseTtlMs(p)) = Larger(base * 3, 8 * WorkerNaptimeMs)
    BY <1>5 DEF BackoffBase
  <2>. QED BY <2>2, <2>3 DEF Larger, WorkerNaptimeMs
<1>6. CASE p \notin {"urgent", "critical", "high", "normal", "low", "idle"}
  <2>1. PriorityWeight(p) \in {40, 50}
    BY <1>6 DEF PriorityWeight
  <2>2. base \in {9000, 15000}
    BY <2>1 DEF HeartbeatMs, LeaseTtlMs, Larger, WorkerNaptimeMs
  <2>3. BackoffBase(p, LeaseTtlMs(p)) = base
    BY <1>6 DEF BackoffBase
  <2>. QED BY <2>2, <2>3
<1>. QED BY <1>1, <1>2, <1>3, <1>4, <1>5, <1>6

\* The last offset of the jitter window is under an eighth of the delay.
LEMMA JitterBounds ==
  ASSUME NEW d \in Int, 1000 <= d, d <= 60000
  PROVE  LET w == JitterWindow(d)
         IN  /\ w \in Int /\ 1 <= w /\ w <= 1500 /\ 8 * (w - 1) < d
             /\ (w - 1) % w = w - 1
<1>. DEFINE w == JitterWindow(d)
<1>1. d \div 8 \in Int /\ 8 * (d \div 8) <= d /\ 1 <= d \div 8
  OBVIOUS
<1>2. Larger(d \div 8, 1) = d \div 8
  BY <1>1 DEF Larger
<1>3. w = Smaller(d \div 8, 1500)
  BY <1>2 DEF JitterWindow, JitterCapMs
<1>. HIDE DEF w
<1>4. w \in Int /\ 1 <= w /\ w <= 1500 /\ 8 * (w - 1) < d
  BY <1>1, <1>3 DEF Smaller
<1>5. (w - 1) % w = w - 1
  BY <1>4
<1>. QED BY <1>4, <1>5 DEF w

\* qx_runtime_retry_backoff_ms under the lease of the task's own priority: as
\* the retry count goes up by one the wait outgrows the jitter, until the cap.
LEMMA WaitGrows ==
  ASSUME NEW p, NEW r \in Int
  PROVE  LET ttl == LeaseTtlMs(p)
             delay(n) == BackoffDelay(p, n, ttl)
             longest == RetryBackoffMs(p, r, ttl, JitterWindow(delay(r)) - 1)
         IN  /\ WorkerNaptimeMs <= delay(r)
             /\ longest < BackoffCapMs + JitterCapMs
             /\ r \in 1..MaxRetries =>
                    longest < delay(r + 1) \/ delay(r + 1) = BackoffCapMs
<1>. DEFINE ttl == LeaseTtlMs(p)
            b == BackoffBase(p, ttl)
            d == BackoffDelay(p, r, ttl)
            e == BackoffDelay(p, r + 1, ttl)
            w == JitterWindow(d)
            f == RetryFactor(r)
            g == RetryFactor(r + 1)
<1>1. b \in {2250, 3375, 9000, 15000, 30000, 72000}
  BY BaseOfPriority
<1>2. f \in {1, 2, 4, 8} /\ g \in {1, 2, 4, 8}
  BY FactorType
<1>3. r \in 1..MaxRetries => g = 2 * f
  BY DEF MaxRetries, RetryFactor
<1>4. d = Smaller(b * f, BackoffCapMs) /\ e = Smaller(b * g, BackoffCapMs)
  BY DEF BackoffDelay
<1>5. RetryBackoffMs(p, r, ttl, w - 1) = d + ((w - 1) % w)
  BY DEF RetryBackoffMs
<1>. HIDE DEF b, f, g, d, e
<1>6. d \in Int /\ 1000 <= d /\ d <= 60000
  BY <1>1, <1>2, <1>4 DEF Smaller, BackoffCapMs
<1>7. /\ w \in Int /\ 1 <= w /\ w <= 1500 /\ 8 * (w - 1) < d
       /\ (w - 1) % w = w - 1
  BY <1>6, JitterBounds
<1>. HIDE DEF w
<1>8. ASSUME r \in 1..MaxRetries
      PROVE  d + (w - 1) < e \/ e = BackoffCapMs
  BY <1>1, <1>2, <1>3, <1>4, <1>6, <1>7, <1>8 DEF Smaller, BackoffCapMs
<1>9. /\ WorkerNaptimeMs <= d
      /\ d + (w - 1) < BackoffCapMs + JitterCapMs
  BY <1>6, <1>7 DEF WorkerNaptimeMs, BackoffCapMs, JitterCapMs
<1>. QED
  <2>1. RetryBackoffMs(p, r, ttl, JitterWindow(d) - 1) = d + (w - 1)
    BY <1>5, <1>7 DEF w
  <2>2. /\ WorkerNaptimeMs <= d
        /\ RetryBackoffMs(p, r, ttl, JitterWindow(d) - 1) < BackoffCapMs + JitterCapMs
        /\ r \in 1..MaxRetries =>
               \/ RetryBackoffMs(p, r, ttl, JitterWindow(d) - 1) < e
               \/ e = BackoffCapMs
    BY <1>8, <1>9, <2>1, Zenon
  <2>. QED BY <2>2, Zenon DEF d, e

\* For every set of queued tasks and every priority and retry count, a task
\* that fails again waits longer, and no wait is out of bounds.
THEOREM WaitsGrow == Spec => []BackoffGrows
<1>1. Init => listed \subseteq Entries
  BY DEF Init
<1>2. listed \subseteq Entries /\ [Next]_vars => (listed \subseteq Entries)'
  BY DEF Next, Visit, NextCycle, StartCycle, vars
<1>3. listed \subseteq Entries => BackoffGrows
  BY EntriesAssumption, WaitGrows DEF BackoffGrows
<1>. QED BY <1>1, <1>2, <1>3, PTL DEF Spec
=============================================================================
