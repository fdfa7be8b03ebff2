----------------------------- MODULE QxRuntime -----------------------------
(***************************************************************************)
(* The life of agent tasks in the catalogs of one database: the task and   *)
(* attempt rows, their durable checkpoints, and the append-only queue and  *)
(* lease ledgers, as they are written by client sessions (RUN TASK, RESUME *)
(* TASK, the startup scan, the pg_qx_test_* hooks) and by the scheduler's  *)
(* database workers (supervision and retry intake).                        *)
(*                                                                         *)
(* Every operation is one transaction in two steps.  Begin evaluates the   *)
(* operation's conditions on the committed rows and remembers what it      *)
(* read; Commit writes everything the operation writes, from what was      *)
(* read.  In between, others commit.  Any ERROR is an Abort.  The writers  *)
(* re-fetch the row they update but never look at its state again, so a    *)
(* commit may overwrite what was committed after its Begin; the only       *)
(* fence is the unique index on (taskid, seqno) of the attempts.           *)
(*                                                                         *)
(* One role owns every task and runs every session.  Time is reduced to    *)
(* two facts that become true by themselves: a held lease is past its      *)
(* expiry, a retry row is past its backoff (QxSchedulerPolicy has the      *)
(* arithmetic).                                                            *)
(***************************************************************************)
EXTENDS QxSchedulerPolicy, FiniteSets

CONSTANTS
    Tasks,        \* the tasks that may come to exist
    NoTask,       \* the task of a session with no open transaction
    Sessions,     \* client backends
    Workers,      \* database workers, one or more per slot
    SlotOf,       \* [Workers -> slots]: the slot_index of a worker
    OwnerSlot,    \* [Tasks -> slots]: qx_runtime_scheduler_owner_slot
    Priority,     \* [Tasks -> Priorities]
    MaxAttempts,  \* bound on the seqno of an attempt (int16 in the catalog)
    Ops,          \* the operations the sessions use
    Broken        \* tasks whose tool contract fails every time it runs

Operations == {"submit", "resume", "startRecovery", "startRecoveryAgain",
               "startUncheckpointed", "startExhausted", "scan", "rebuild",
               "tick"}

ASSUME RuntimeAssumption ==
    /\ NoTask \notin Tasks
    /\ MaxAttempts \in Nat \ {0}
    /\ Ops \subseteq Operations
    /\ Priority \in [Tasks -> Priorities]

VARIABLES
    task,     \* pg_qx_task: state, lastattemptid (as a seqno), lastcheckpointid
    att,      \* pg_qx_attempt: the state of attempt n of a task
    ckpt,     \* pg_qx_checkpoint: what attempt n of a task checkpointed
    queue,    \* the latest queue ledger row of attempt n of a task
    lease,    \* the latest lease ledger row of attempt n of a task
    txn,      \* the open transaction of a session
    scanned,  \* qx_runtime_recovery_snapshot.valid of a session's backend
    wk        \* what a worker is doing

vars == <<task, att, ckpt, queue, lease, txn, scanned, wk>>

Seqnos == 1 .. MaxAttempts
SeqnosOrNone == 0 .. MaxAttempts

TaskStates == {"none", "QUEUED", "RUNNING", "CHECKPOINTED", "COMPLETED", "FAILED"}
AttemptStates == {"none", "RUNNING", "CHECKPOINTED", "COMPLETED", "FAILED"}

\* "resumable" advertises a next step, "final" (next_step_seqno 0) does not.
Checkpoints == {"none", "resumable", "final"}

TaskRow == [state : TaskStates, last : SeqnosOrNone, ckpt : SeqnosOrNone]
Row(state, last, c) == [state |-> state, last |-> last, ckpt |-> c]
NoRow == Row("none", 0, 0)

\* retry is read from RETRY rows only and ready says that eligible_at has come.
QueueRow == [kind : QueueKinds \cup {"none"}, retry : Nat, ready : BOOLEAN]
Queued(kind, retry) == [kind |-> kind, retry |-> retry, ready |-> TRUE]
BackedOff(retry) == [kind |-> "RETRY", retry |-> retry, ready |-> FALSE]
RecoveryRow == Queued("RECOVERY", 0)
NoQueue == Queued("none", 0)

\* renewal_count is read from HELD rows only, and only as zero or not: 1 stands
\* for any positive count.
LeaseRow == [state : {"none", "HELD", "RELEASED", "RECLAIMED"},
             renewals : 0 .. 1, expired : BOOLEAN]
Leased(state, renewals) ==
    [state |-> state, renewals |-> renewals, expired |-> FALSE]
NoLease == Leased("none", 0)

\* The rows read are compared with the rows found at commit without the clock.
SameQueue(q, r) == q.kind = r.kind /\ q.retry = r.retry
SameLease(l, m) == l.state = m.state /\ l.renewals = m.renewals

Idle == [op |-> "idle", t |-> NoTask, row |-> NoRow, queues |-> {}, leases |-> {}]

NoSeen == [row |-> NoRow, q |-> NoQueue, l |-> NoLease]
Resting(pc) == [pc |-> pc, todo |-> [t \in Tasks |-> "none"],
                           seen |-> [t \in Tasks |-> NoSeen]]

----------------------------------------------------------------------------
(* Reading the catalogs.                                                   *)

Exists(t) == task[t].state # "none"
Attempts(t) == {n \in Seqnos : att[t][n] # "none"}

\* The attempt that qx_recovery.c settles on: the one with the largest seqno.
NewestAttempt(t) ==
    CHOOSE n \in SeqnosOrNone :
        /\ n \in Attempts(t) \cup {0}
        /\ \A m \in Attempts(t) : m <= n

\* pg_qx_attempt_taskid_seqno_index, as if it were not unique.
SeqnoFreeUnchecked(t, n) == TRUE

\* pg_qx_attempt_taskid_seqno_index: attempt n of t can be inserted.
SeqnoFree(t, n) == att[t][n] = "none"

\* needs_requeue of the summary: an attempt or a checkpoint says CHECKPOINTED.
NeedsRequeue(t) ==
    \E n \in Seqnos : att[t][n] = "CHECKPOINTED" \/ ckpt[t][n] = "resumable"

\* scheduler_recovery_queued of the summary.
RecoveryQueued(t) == queue[t][NewestAttempt(t)].kind = "RECOVERY"

\* QxRecoveryTaskNeedsRequeue; the hook ignores a task without an attempt.
ScanRequeues(t) ==
    /\ Exists(t)
    /\ NewestAttempt(t) # 0
    /\ ~RecoveryQueued(t)
    /\ task[t].state # "COMPLETED"
    /\ NeedsRequeue(t) \/ task[t].state \in {"CHECKPOINTED", "RUNNING"}

\* QxRecoveryAttemptNeedsFence: the lease's expiry plays no part.
ScanFences(t, n) == att[t][n] = "RUNNING" /\ lease[t][n].state # "RECLAIMED"

\* The lease rows and the queue rows one scan appends.  The fence of a task
\* that was not requeued gets a queue row for the first attempt fenced, in the
\* order of the heap: a RUNNING attempt was never updated, so that is the order
\* the attempts were inserted in.
ScanLeases ==
    {[t |-> p[1], n |-> p[2], seen |-> lease[p[1]][p[2]]] :
        p \in {x \in Tasks \X Seqnos : ScanFences(x[1], x[2])}}

QueuedByScan(t, n) ==
    IF ScanRequeues(t)
    THEN n = NewestAttempt(t)
    ELSE ScanFences(t, n) /\ \A m \in Seqnos : ScanFences(t, m) => n <= m

ScanQueues ==
    {[t |-> p[1], n |-> p[2], seen |-> queue[p[1]][p[2]]] :
        p \in {x \in Tasks \X Seqnos : QueuedByScan(x[1], x[2])}}

\* Rows get their oid when they are inserted and the largest oid is the latest
\* row.  A row inserted by a transaction is the latest of its attempt unless
\* another one was committed since the transaction read, and inserted later.
AppendRecovery(items, late) ==
    [t \in Tasks |-> [n \in Seqnos |->
        IF \E i \in items : /\ i.t = t /\ i.n = n
                            /\ late \/ SameQueue(i.seen, queue[t][n])
        THEN RecoveryRow
        ELSE queue[t][n]]]

AppendReclaimed(items, late) ==
    [t \in Tasks |-> [n \in Seqnos |->
        IF \E i \in items : /\ i.t = t /\ i.n = n
                            /\ late \/ SameLease(i.seen, lease[t][n])
        THEN Leased("RECLAIMED", 0)
        ELSE lease[t][n]]]

----------------------------------------------------------------------------
(* Sessions.                                                               *)

Open(s, op, t, row, queues, leases) ==
    /\ txn[s].op = "idle"
    /\ op \in Ops
    /\ txn' = [txn EXCEPT ![s] = [op |-> op, t |-> t, row |-> row,
                                  queues |-> queues, leases |-> leases]]
    /\ UNCHANGED <<task, att, ckpt, queue, lease, wk>>

Close(s) == txn' = [txn EXCEPT ![s] = Idle]

\* qx_runtime_ensure_startup_recovery_scan: at most once in a backend's life.
\* The flag is set while the scan's rows are still uncommitted.
OpenAfterScan(s, op, t, row) ==
    /\ Open(s, op, t, row, IF scanned[s] THEN {} ELSE ScanQueues,
                           IF scanned[s] THEN {} ELSE ScanLeases)
    /\ scanned' = [scanned EXCEPT ![s] = TRUE]

OpenUnscanned(s, op, t, row, queues, leases) ==
    /\ Open(s, op, t, row, queues, leases)
    /\ UNCHANGED scanned

\* The oid of a new task is fresh: no other open transaction creates it.
Fresh(t) == ~Exists(t) /\ \A s \in Sessions : txn[s].t # t

BeginSubmit(s, t) == Fresh(t) /\ OpenAfterScan(s, "submit", t, NoRow)
BeginStartUncheckpointed(s, t) ==
    Fresh(t) /\ OpenAfterScan(s, "startUncheckpointed", t, NoRow)
BeginStartExhausted(s, t) ==
    Fresh(t) /\ OpenAfterScan(s, "startExhausted", t, NoRow)

BeginResume(s, t) ==
    /\ task[t].state = "CHECKPOINTED"
    /\ task[t].ckpt # 0
    /\ ckpt[t][task[t].ckpt] = "resumable"
    /\ task[t].last < MaxAttempts
    /\ OpenAfterScan(s, "resume", t, task[t])

\* pg_qx_test_start_recovery_attempt, on a CHECKPOINTED or a RUNNING task.
BeginStartRecovery(s, t) ==
    /\ task[t].state = "CHECKPOINTED"
    /\ task[t].ckpt # 0
    /\ task[t].last \in 1 .. MaxAttempts - 1
    /\ OpenUnscanned(s, "startRecovery", t, task[t], {}, {})

BeginStartRecoveryAgain(s, t) ==
    /\ task[t].state = "RUNNING"
    /\ task[t].ckpt # 0
    /\ task[t].last \in 1 .. MaxAttempts - 1
    /\ OpenUnscanned(s, "startRecoveryAgain", t, task[t], {}, {})

\* pg_qx_test_run_startup_recovery forgets the flag first.
BeginScan(s) ==
    /\ Open(s, "scan", NoTask, NoRow, ScanQueues, ScanLeases)
    /\ scanned' = [scanned EXCEPT ![s] = TRUE]

\* pg_qx_test_run_failover_rebuild
BeginRebuild(s) ==
    OpenUnscanned(s, "rebuild", NoTask, NoRow, ScanQueues, ScanLeases)

\* pg_qx_test_run_scheduler_worker_tick
BeginTick(s) ==
    OpenUnscanned(s, "tick", NoTask, NoRow, {},
        {[t |-> t, n |-> task[t].last, seen |-> lease[t][task[t].last]] :
            t \in {u \in Tasks : /\ task[u].state = "RUNNING"
                                 /\ att[u][task[u].last] = "RUNNING"
                                 /\ lease[u][task[u].last].state = "HELD"}})

\* The rows of a new attempt n of t, next to the rows of the scan.
WriteAttempt(s, n, late, state, c, q, l) ==
    LET t == txn[s].t
    IN  /\ att' = [att EXCEPT ![t][n] = state]
        /\ ckpt' = [ckpt EXCEPT ![t][n] = c]
        /\ queue' = [AppendRecovery(txn[s].queues, late) EXCEPT ![t][n] = q]
        /\ lease' = [AppendReclaimed(txn[s].leases, late) EXCEPT ![t][n] = l]

CommitSubmit(s, late) ==
    /\ txn[s].op = "submit"
    /\ txn[s].t \notin Broken
    /\ task' = [task EXCEPT ![txn[s].t] = Row("CHECKPOINTED", 1, 1)]
    /\ WriteAttempt(s, 1, late, "CHECKPOINTED", "resumable",
                    Queued(QueueKindOf(Priority[txn[s].t]), 0),
                    Leased("RELEASED", 0))
    /\ Close(s)
    /\ UNCHANGED <<scanned, wk>>

CommitStartUncheckpointed(s, late) ==
    /\ txn[s].op = "startUncheckpointed"
    /\ task' = [task EXCEPT ![txn[s].t] = Row("RUNNING", 1, 0)]
    /\ WriteAttempt(s, 1, late, "RUNNING", "none",
                    Queued(QueueKindOf(Priority[txn[s].t]), 0),
                    Leased("HELD", 0))
    /\ Close(s)
    /\ UNCHANGED <<scanned, wk>>

\* The fixture leaves the lease of its FAILED attempt HELD.
CommitStartExhausted(s, late) ==
    /\ txn[s].op = "startExhausted"
    /\ task' = [task EXCEPT ![txn[s].t] = Row("QUEUED", 1, 0)]
    /\ WriteAttempt(s, 1, late, "FAILED", "none",
                    Queued("RETRY", MaxRetries), Leased("HELD", 0))
    /\ Close(s)
    /\ UNCHANGED <<scanned, wk>>

\* RUNNING, the tool call, the final checkpoint and COMPLETED, in one commit.
CommitResume(s, late) ==
    LET t == txn[s].t
        n == txn[s].row.last + 1
    IN  /\ txn[s].op = "resume"
        /\ t \notin Broken
        /\ SeqnoFree(t, n)
        /\ task' = [task EXCEPT ![t] = Row("COMPLETED", n, n)]
        /\ WriteAttempt(s, n, late, "COMPLETED", "final",
                        Queued(QueueKindOf(Priority[t]), n - 1),
                        Leased("RELEASED", 0))
        /\ Close(s)
        /\ UNCHANGED <<scanned, wk>>

\* The earlier attempt is left as it is, even when it is RUNNING; the task row
\* found at commit keeps its checkpoint.
CommitStartRecovery(s, late) ==
    LET t == txn[s].t
        n == txn[s].row.last + 1
    IN  /\ txn[s].op \in {"startRecovery", "startRecoveryAgain"}
        /\ SeqnoFree(t, n)
        /\ task' = [task EXCEPT ![t] = Row("RUNNING", n, task[t].ckpt)]
        /\ WriteAttempt(s, n, late, "RUNNING", "none",
                        Queued(QueueKindOf(Priority[t]), n - 1),
                        Leased("HELD", 0))
        /\ Close(s)
        /\ UNCHANGED <<scanned, wk>>

CommitScan(s, late) ==
    /\ txn[s].op \in {"scan", "rebuild"}
    /\ queue' = AppendRecovery(txn[s].queues, late)
    /\ lease' = AppendReclaimed(txn[s].leases, late)
    /\ Close(s)
    /\ UNCHANGED <<task, att, ckpt, scanned, wk>>

CommitTick(s, late) ==
    /\ txn[s].op = "tick"
    /\ lease' = [t \in Tasks |-> [n \in Seqnos |->
           IF \E i \in txn[s].leases : /\ i.t = t /\ i.n = n
                                       /\ late \/ SameLease(i.seen, lease[t][n])
           THEN Leased("HELD", 1)
           ELSE lease[t][n]]]
    /\ Close(s)
    /\ UNCHANGED <<task, att, ckpt, queue, scanned, wk>>

\* An ERROR: a failed tool, an exceeded budget, a lost race for a row, a cancel.
Abort(s) ==
    /\ txn[s].op # "idle"
    /\ Close(s)
    /\ UNCHANGED <<task, att, ckpt, queue, lease, scanned, wk>>

\* The backend ends and its client connects again.
Reconnect(s) ==
    /\ scanned[s]
    /\ Close(s)
    /\ scanned' = [scanned EXCEPT ![s] = FALSE]
    /\ UNCHANGED <<task, att, ckpt, queue, lease, wk>>

----------------------------------------------------------------------------
(* Workers: a supervision transaction, then a retry transaction, for ever. *)

\* Ownership, had every worker served every task.
OwnsAll(w, t) == TRUE

\* qx_runtime_scheduler_worker_owns_task
Owns(w, t) == SlotOf[w] = OwnerSlot[t]

\* QX_SCHEDULER_LEASE_HELD and QxSchedulerLeaseNeedsReclaim.
LeaseNeedsReclaim(l) == l.state = "HELD" /\ l.expired

\* A RUNNING task whose lease has run out, as the scheduler cycle finds it.
Stale(w, t) ==
    /\ Owns(w, t)
    /\ task[t].state = "RUNNING"
    /\ task[t].last # 0
    /\ att[t][task[t].last] = "RUNNING"
    /\ LeaseNeedsReclaim(lease[t][task[t].last])

\* A worker's transaction remembers what it read of the tasks it will change.
SeenNow(t) == [row |-> task[t], q |-> queue[t][task[t].last],
                                l |-> lease[t][task[t].last]]

Plan(w, pc, todo) ==
    wk' = [wk EXCEPT ![w] = [pc |-> pc, todo |-> todo,
               seen |-> [t \in Tasks |-> IF todo[t] = "none" THEN NoSeen
                                                            ELSE SeenNow(t)]]]

\* A cycle that goes on renewing whatever the renewal count.
RenewAlways(w, t) == IF Stale(w, t) THEN "renew" ELSE "none"

\* qx_runtime_run_scheduler_cycle: renew a stale lease once, then reclaim it.
SuperviseTodo(w, t) ==
    IF ~Stale(w, t) THEN "none"
    ELSE IF lease[t][task[t].last].renewals = 0 THEN "renew" ELSE "reclaim"

BeginSupervise(w) ==
    /\ wk[w].pc = "supervise"
    /\ Plan(w, "supervising", [t \in Tasks |-> SuperviseTodo(w, t)])
    /\ UNCHANGED <<task, att, ckpt, queue, lease, txn, scanned>>

\* The rows a reclaim writes, had it ignored the checkpoint, had it ignored that
\* there is none, or had it written one state to both catalogs.
ReclaimToQueue(row) == Row("QUEUED", row.last, 0)
ReclaimToCheckpoint(row) == Row("CHECKPOINTED", row.last, row.ckpt)
ReclaimAttemptFailed(row) == "FAILED"
ReclaimAttemptCheckpointed(row) == "CHECKPOINTED"
ReclaimAttemptAsTask(row) == IF row.ckpt # 0 THEN "CHECKPOINTED" ELSE "QUEUED"

\* qx_runtime_reclaim_running_attempt: back to the checkpoint, or to the queue.
Reclaimed(row) ==
    IF row.ckpt # 0 THEN Row("CHECKPOINTED", row.last, row.ckpt)
                    ELSE Row("QUEUED", row.last, 0)

ReclaimedAttempt(row) == IF row.ckpt # 0 THEN "CHECKPOINTED" ELSE "FAILED"

ReclaimedQueue(row) == IF row.ckpt # 0 THEN RecoveryRow ELSE BackedOff(row.last)

CommitSupervise(w, late) ==
    LET does(t, n, what) == wk[w].todo[t] = what /\ wk[w].seen[t].row.last = n
        row(t) == wk[w].seen[t].row
    IN  /\ wk[w].pc = "supervising"
        /\ task' = [t \in Tasks |->
               IF wk[w].todo[t] = "reclaim" THEN Reclaimed(row(t)) ELSE task[t]]
        /\ att' = [t \in Tasks |-> [n \in Seqnos |->
               IF does(t, n, "reclaim") THEN ReclaimedAttempt(row(t)) ELSE att[t][n]]]
        /\ queue' = [t \in Tasks |-> [n \in Seqnos |->
               IF /\ does(t, n, "reclaim")
                  /\ late \/ SameQueue(wk[w].seen[t].q, queue[t][n])
               THEN ReclaimedQueue(row(t))
               ELSE queue[t][n]]]
        /\ lease' = [t \in Tasks |-> [n \in Seqnos |->
               IF ~(late \/ SameLease(wk[w].seen[t].l, lease[t][n])) THEN lease[t][n]
               ELSE IF does(t, n, "renew") THEN Leased("HELD", 1)
               ELSE IF does(t, n, "reclaim") THEN Leased("RECLAIMED", 0)
               ELSE lease[t][n]]]
        /\ wk' = [wk EXCEPT ![w] = Resting("retry")]
        /\ UNCHANGED <<ckpt, txn, scanned>>

\* An ERROR ends the worker, which is restarted after a second.
AbortSupervise(w) ==
    /\ wk[w].pc = "supervising"
    /\ wk' = [wk EXCEPT ![w] = Resting("supervise")]
    /\ UNCHANGED <<task, att, ckpt, queue, lease, txn, scanned>>

\* A retry intake that looks for the attempt as it was before its reclaim.
RetryReadyRunning(w, t) ==
    /\ Owns(w, t)
    /\ task[t].state = "QUEUED"
    /\ att[t][task[t].last] = "RUNNING"

\* A QUEUED task whose latest queue row is a RETRY row past its backoff.
RetryReady(w, t) ==
    /\ Owns(w, t)
    /\ task[t].state = "QUEUED"
    /\ task[t].last # 0
    /\ task[t].ckpt = 0
    /\ att[t][task[t].last] = "FAILED"
    /\ queue[t][task[t].last].kind = "RETRY"
    /\ queue[t][task[t].last].ready

Exhausted(t) == queue[t][task[t].last].retry >= MaxRetries

\* The candidates that qx_runtime_retry_candidate_better may leave selected:
\* the heaviest, and among these whichever has waited longest.
RetryCandidates(w) == {t \in Tasks : RetryReady(w, t) /\ ~Exhausted(t)}
BestCandidates(w) ==
    {t \in RetryCandidates(w) : \A u \in RetryCandidates(w) :
        PriorityWeight(Priority[u]) <= PriorityWeight(Priority[t])}

\* qx_runtime_run_scheduler_retry_cycle: every exhausted task is dead-lettered
\* and at most one candidate is dispatched.
BeginRetry(w) ==
    /\ wk[w].pc = "retry"
    /\ \E best \in IF RetryCandidates(w) = {} THEN {NoTask} ELSE BestCandidates(w) :
           Plan(w, "retrying",
                [t \in Tasks |-> IF RetryReady(w, t) /\ Exhausted(t) THEN "dead"
                                 ELSE IF t = best THEN "pick" ELSE "none"])
    /\ UNCHANGED <<task, att, ckpt, queue, lease, txn, scanned>>

\* qx_runtime_dead_letter_retry_task and qx_runtime_dispatch_retry_task, from
\* the new RUNNING attempt to its checkpoint, in one transaction.
CommitRetry(w, late) ==
    LET does(t, what) == wk[w].todo[t] = what
        n(t) == wk[w].seen[t].row.last
        latest(t) == late \/ SameQueue(wk[w].seen[t].q, queue[t][n(t)])
    IN  /\ wk[w].pc = "retrying"
        /\ \A t \in Tasks : does(t, "pick") =>
               t \notin Broken /\ n(t) < MaxAttempts /\ SeqnoFree(t, n(t) + 1)
        /\ task' = [t \in Tasks |->
               IF does(t, "dead") THEN Row("FAILED", n(t), 0)
               ELSE IF does(t, "pick") THEN Row("CHECKPOINTED", n(t) + 1, n(t) + 1)
               ELSE task[t]]
        /\ att' = [t \in Tasks |-> [m \in Seqnos |->
               IF does(t, "dead") /\ m = n(t) THEN "FAILED"
               ELSE IF does(t, "pick") /\ m = n(t) + 1 THEN "CHECKPOINTED"
               ELSE att[t][m]]]
        /\ ckpt' = [t \in Tasks |-> [m \in Seqnos |->
               IF does(t, "pick") /\ m = n(t) + 1 THEN "resumable" ELSE ckpt[t][m]]]
        /\ queue' = [t \in Tasks |-> [m \in Seqnos |->
               IF does(t, "dead") /\ m = n(t) /\ latest(t) THEN Queued("MAINTENANCE", 0)
               ELSE IF does(t, "pick") /\ m = n(t) + 1 THEN Queued("RETRY", n(t))
               ELSE queue[t][m]]]
        /\ lease' = [t \in Tasks |-> [m \in Seqnos |->
               IF does(t, "pick") /\ m = n(t) + 1 THEN Leased("RELEASED", 0)
                                                  ELSE lease[t][m]]]
        /\ wk' = [wk EXCEPT ![w] = Resting("supervise")]
        /\ UNCHANGED <<txn, scanned>>

\* The ERROR is caught: the whole retry transaction is rolled back.
AbortRetry(w) ==
    /\ wk[w].pc = "retrying"
    /\ wk' = [wk EXCEPT ![w] = Resting("supervise")]
    /\ UNCHANGED <<task, att, ckpt, queue, lease, txn, scanned>>

----------------------------------------------------------------------------
(* The environment.                                                        *)

LeaseExpires(t, n) ==
    /\ lease[t][n].state = "HELD" /\ ~lease[t][n].expired
    /\ lease' = [lease EXCEPT ![t][n].expired = TRUE]
    /\ UNCHANGED <<task, att, ckpt, queue, txn, scanned, wk>>

BackoffElapses(t, n) ==
    /\ ~queue[t][n].ready
    /\ queue' = [queue EXCEPT ![t][n].ready = TRUE]
    /\ UNCHANGED <<task, att, ckpt, lease, txn, scanned, wk>>

\* The server crashes and restarts: what was not committed is gone.
Crash ==
    /\ txn' = [s \in Sessions |-> Idle]
    /\ scanned' = [s \in Sessions |-> FALSE]
    /\ wk' = [w \in Workers |-> Resting("supervise")]
    /\ UNCHANGED <<task, att, ckpt, queue, lease>>

----------------------------------------------------------------------------
Init ==
    /\ task = [t \in Tasks |-> NoRow]
    /\ att = [t \in Tasks |-> [n \in Seqnos |-> "none"]]
    /\ ckpt = [t \in Tasks |-> [n \in Seqnos |-> "none"]]
    /\ queue = [t \in Tasks |-> [n \in Seqnos |-> NoQueue]]
    /\ lease = [t \in Tasks |-> [n \in Seqnos |-> NoLease]]
    /\ txn = [s \in Sessions |-> Idle]
    /\ scanned = [s \in Sessions |-> FALSE]
    /\ wk = [w \in Workers |-> Resting("supervise")]

Begin(s) ==
    \/ \E t \in Tasks : \/ BeginSubmit(s, t) \/ BeginResume(s, t)
                        \/ BeginStartUncheckpointed(s, t)
                        \/ BeginStartExhausted(s, t)
                        \/ BeginStartRecovery(s, t)
                        \/ BeginStartRecoveryAgain(s, t)
    \/ BeginScan(s) \/ BeginRebuild(s) \/ BeginTick(s)

Commit(s, late) ==
    \/ CommitSubmit(s, late) \/ CommitResume(s, late)
    \/ CommitStartUncheckpointed(s, late) \/ CommitStartExhausted(s, late)
    \/ CommitStartRecovery(s, late)
    \/ CommitScan(s, late) \/ CommitTick(s, late)

SessionStep(s) ==
    Begin(s) \/ (\E late \in BOOLEAN : Commit(s, late)) \/ Abort(s) \/ Reconnect(s)

WorkerStep(w) ==
    \/ BeginSupervise(w) \/ AbortSupervise(w) \/ BeginRetry(w) \/ AbortRetry(w)
    \/ \E late \in BOOLEAN : CommitSupervise(w, late) \/ CommitRetry(w, late)

Clock == \E t \in Tasks, n \in Seqnos : LeaseExpires(t, n) \/ BackoffElapses(t, n)

Next ==
    \/ \E s \in Sessions : SessionStep(s)
    \/ \E w \in Workers : WorkerStep(w)
    \/ Clock
    \/ Crash

Spec == Init /\ [][Next]_vars

----------------------------------------------------------------------------
(* Properties.                                                             *)

Todos == {"none", "renew", "reclaim", "dead", "pick"}

\* Every row and every remembered read has the shape its catalog gives it: a
\* task's state is never written to an attempt (there is no QUEUED attempt).
TypeOK ==
    /\ task \in [Tasks -> TaskRow]
    /\ att \in [Tasks -> [Seqnos -> AttemptStates]]
    /\ ckpt \in [Tasks -> [Seqnos -> Checkpoints]]
    /\ queue \in [Tasks -> [Seqnos -> QueueRow]]
    /\ lease \in [Tasks -> [Seqnos -> LeaseRow]]
    /\ txn \in [Sessions ->
           [op : Operations \cup {"idle"}, t : Tasks \cup {NoTask}, row : TaskRow,
            queues : SUBSET [t : Tasks, n : Seqnos, seen : QueueRow],
            leases : SUBSET [t : Tasks, n : Seqnos, seen : LeaseRow]]]
    /\ scanned \in [Sessions -> BOOLEAN]
    /\ wk \in [Workers ->
           [pc : {"supervise", "supervising", "retry", "retrying"},
            todo : [Tasks -> Todos],
            seen : [Tasks -> [row : TaskRow, q : QueueRow, l : LeaseRow]]]]

\* The task row and the attempt row it points at tell the same story, although
\* they are written by two updates that check neither row's state: a reader of
\* pg_qx_task never finds, say, a COMPLETED task whose last attempt FAILED.
AttemptStateFor(state) == IF state = "QUEUED" THEN "FAILED" ELSE state
RowsAgree ==
    \A t \in Tasks : Exists(t) =>
        /\ task[t].last # 0
        /\ att[t][task[t].last] = AttemptStateFor(task[t].state)

\* A CHECKPOINTED task can be resumed: its checkpoint row exists and advertises
\* a next step, whichever of RUN TASK, a retry or a reclaim left it there.
CheckpointedIsResumable ==
    \A t \in Tasks : task[t].state = "CHECKPOINTED" =>
        task[t].ckpt # 0 /\ ckpt[t][task[t].ckpt] = "resumable"

\* The task's last attempt is its newest, so that the seqno the next RESUME,
\* retry or recovery attempt derives from it is free in the unique index.
LastIsNewest ==
    \A t \in Tasks, n \in Seqnos : att[t][n] # "none" <=> n <= task[t].last

\* COMPLETED and FAILED (dead-lettered) are final: no late commit of a session
\* or a worker brings such a task back.
FinalStatesStay ==
    [][\A t \in Tasks : task[t].state \in {"COMPLETED", "FAILED"} =>
           task'[t] = task[t]]_task

\* A task never loses its durable checkpoint: once it has one, no reclaim and
\* no retry sends it back to start over.
CheckpointKept ==
    [][\A t \in Tasks : task[t].ckpt # 0 => task'[t].ckpt >= task[t].ckpt]_task

\* Every task row lives the life QxTaskLifecycle promises: what sessions and
\* workers commit from stale reads are moves from the current row.
Lifecycle == INSTANCE QxTaskLifecycle WITH life <- task
ImplementsLifecycle == Lifecycle!Spec

----------------------------------------------------------------------------
(* Liveness.  Time passes; a worker's loop goes on, interrupted by errors and
   crashes now and then but not every time; sessions promise nothing.      *)

Fairness ==
    /\ \A t \in Tasks, n \in Seqnos :
           WF_vars(LeaseExpires(t, n)) /\ WF_vars(BackoffElapses(t, n))
    /\ \A w \in Workers :
           /\ SF_vars(BeginSupervise(w))
           /\ SF_vars(\E late \in BOOLEAN : CommitSupervise(w, late))
           /\ SF_vars(BeginRetry(w))
           /\ SF_vars(\E late \in BOOLEAN : CommitRetry(w, late))
           /\ WF_vars(AbortRetry(w))

FairSpec == Spec /\ Fairness

\* The supervisor ends every held lease of a running task, however scans and
\* renewals interleave: the task is repaired, or a scan has fenced it.  Only a
\* further call of the tick function puts that off, since each call renews the
\* lease for its caller; once the calls stop, the lease is settled.
HeldLeaseSettles ==
    \A t \in Tasks :
        (task[t].state = "RUNNING" /\ lease[t][task[t].last].state = "HELD")
        ~> \/ task[t].state # "RUNNING"
           \/ lease[t][task[t].last].state = "RECLAIMED"
           \/ \E s \in Sessions : txn[s].op = "tick"

\* A queued task with a retry row is retried or dead-lettered in the end, also
\* when heavier tasks are served before it.
RetrySettles ==
    \A t \in Tasks :
        (task[t].state = "QUEUED" /\ queue[t][task[t].last].kind = "RETRY")
        ~> (task[t].state # "QUEUED" \/ queue[t][task[t].last].kind # "RETRY")

\* docs/stage-26: a stale running attempt with a checkpoint is moved back to
\* CHECKPOINTED.
CheckpointBackedRepaired ==
    \A t \in Tasks :
        (task[t].state = "RUNNING" /\ task[t].ckpt # 0) ~> (task[t].state # "RUNNING")

\* docs/stage-32: a scan adds nothing once the supervisor has written its own
\* recovery evidence, so the retry row of a queued task stays the latest.
QueuedHasRetryRow ==
    \A t \in Tasks : task[t].state = "QUEUED" =>
        queue[t][task[t].last].kind = "RETRY"
=============================================================================
