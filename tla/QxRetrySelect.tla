--------------------------- MODULE QxRetrySelect ---------------------------
(***************************************************************************)
(* The loop of one scheduler retry cycle over the queued tasks it lists:   *)
(* a task whose backoff is not over is left alone, a task whose retries    *)
(* are used up is dead-lettered, and of the others one is dispatched.  The *)
(* list comes from a heap scan of pg_qx_task, so its order means nothing.  *)
(***************************************************************************)
EXTENDS QxSchedulerPolicy

CONSTANTS
    Entries,   \* queued tasks with their latest retry row: records with
               \* priority, eligibleAt, enqueuedAt, seqno, oid and retry
    Times,     \* the clock readings of the cycles
    None       \* have_selected is false

ASSUME EntriesAssumption ==
    /\ None \notin Entries
    /\ Times \subseteq Int
    /\ \A c \in Entries : /\ c.eligibleAt \in Int /\ c.enqueuedAt \in Int
                          /\ c.seqno \in Int /\ c.oid \in Int /\ c.retry \in Int
    /\ \A c, d \in Entries : c.oid = d.oid => c = d

VARIABLES now, listed, todo, selected, dead

vars == <<now, listed, todo, selected, dead>>

Due(c) == ~RetryWaiting(c.eligibleAt, now)
UsedUp(c) == c.retry >= MaxRetries

StartCycle(list) ==
    /\ listed' = list
    /\ todo' = list
    /\ selected' = None
    /\ dead' = {}

Init ==
    /\ now \in Times
    /\ listed \in SUBSET Entries
    /\ todo = listed
    /\ selected = None
    /\ dead = {}

\* The best candidate so far, had the loop kept the first one.
SelectFirst(best, c) == IF best = None THEN c ELSE best

\* have_selected and qx_runtime_retry_candidate_better
Select(best, c) ==
    IF best = None THEN c
    ELSE IF RetryCandidateBetter(c, best) THEN c ELSE best

\* One turn of the loop.
Visit(c) ==
    /\ c \in todo
    /\ todo' = todo \ {c}
    /\ dead' = IF Due(c) /\ UsedUp(c) THEN dead \cup {c} ELSE dead
    /\ selected' = IF Due(c) /\ ~UsedUp(c) THEN Select(selected, c) ELSE selected
    /\ UNCHANGED <<now, listed>>

\* The loop is over, the selected task is dispatched, a later cycle begins.
NextCycle ==
    /\ todo = {}
    /\ now' \in {n \in Times : n >= now}
    /\ \E list \in SUBSET Entries : StartCycle(list)

Next == (\E c \in Entries : Visit(c)) \/ NextCycle

Spec == Init /\ [][Next]_vars

----------------------------------------------------------------------------
Eligible == {c \in listed : Due(c) /\ ~UsedUp(c)}

\* Whatever the order of the list, the cycle ends with the one eligible task
\* that beats all the others in the order of the policy, and with none only if
\* no task is eligible.
SelectsBest ==
    todo = {} =>
        IF Eligible = {} THEN selected = None
        ELSE /\ selected \in Eligible
             /\ \A c \in Eligible : c # selected => RetryCandidateBetter(selected, c)

\* A task that fails again waits longer: the longest wait of each retry the
\* scheduler allows, jitter included, is shorter than the shortest wait of the
\* next one until that one reaches the cap; and no wait, whatever the count, is
\* below the naptime of a worker or above the cap and its jitter
\* (qx_runtime_retry_backoff_ms).
BackoffGrows ==
    \A c \in listed :
        LET ttl == LeaseTtlMs(c.priority)
            delay(r) == BackoffDelay(c.priority, r, ttl)
            longest == RetryBackoffMs(c.priority, c.retry, ttl,
                                      JitterWindow(delay(c.retry)) - 1)
        IN  /\ WorkerNaptimeMs <= delay(c.retry)
            /\ longest < BackoffCapMs + JitterCapMs
            /\ c.retry \in 1..MaxRetries =>
                   longest < delay(c.retry + 1) \/ delay(c.retry + 1) = BackoffCapMs
=============================================================================
