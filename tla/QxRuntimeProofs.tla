-------------------------- MODULE QxRuntimeProofs ---------------------------
(***************************************************************************)
(* Aborts, the clock, crashes and the steps of workers preserve IInv, and  *)
(* so does every step of QxRuntime, for any number of tasks, sessions,     *)
(* workers and attempts.                                                   *)
(***************************************************************************)
EXTENDS QxRuntimeRowProofs

\* So do aborts, a new connection, the clock, a crash, and the errors of workers.
LEMMA QuietInv ==
  ASSUME IInv,
         \/ \E s \in Sessions : Abort(s) \/ Reconnect(s)
         \/ \E w \in Workers : AbortSupervise(w) \/ AbortRetry(w)
         \/ Clock \/ Crash \/ UNCHANGED vars
  PROVE  IInv'
<1>. USE RestTypes
<1>1. ASSUME NEW s \in Sessions, Abort(s) \/ Reconnect(s) PROVE IInv'
  <2>1. txn' \in [Sessions -> TxnType] /\ scanned' \in [Sessions -> BOOLEAN]
    <3>1. Idle \in TxnType /\ txn \in [Sessions -> TxnType]
      BY DEF IInv, TypeOK, TxnType
    <3>2. Close(s)
      BY Zenon, <1>1 DEF Abort, Reconnect
    <3>3. txn' \in [Sessions -> TxnType]
      BY <3>1, <3>2 DEF Close
    <3>. QED BY Zenon, <1>1, <3>3 DEF Abort, Reconnect, IInv, TypeOK
  <2>2. TypeOK'
    BY <1>1, <2>1 DEF Abort, Reconnect, IInv, TypeOK, TxnType
  <2>3. \A r \in Sessions : txn'[r] = txn[r] \/ txn'[r] = Idle
    BY <1>1 DEF Abort, Reconnect, Close, IInv, TypeOK
  <2>. QED BY <1>1, <2>2, <2>3, FrameInv DEF Abort, Reconnect
<1>2. ASSUME NEW w \in Workers, AbortSupervise(w) \/ AbortRetry(w) PROVE IInv'
  <2>1. wk' \in [Workers -> WkType]
    BY Zenon, <1>2 DEF AbortSupervise, AbortRetry, IInv, TypeOK, WkType
  <2>2. TypeOK'
    BY <1>2, <2>1 DEF AbortSupervise, AbortRetry, IInv, TypeOK, WkType
  <2>3. \A v \in Workers : wk'[v] = wk[v] \/ wk'[v] = Resting("supervise")
    BY <1>2 DEF AbortSupervise, AbortRetry, IInv, TypeOK
  <2>. QED BY <1>2, <2>2, <2>3, FrameInv DEF AbortSupervise, AbortRetry
<1>3. ASSUME NEW t \in Tasks, NEW n \in Seqnos, LeaseExpires(t, n) PROVE IInv'
  <2>1. lease[t][n] \in LeaseRow
    BY DEF IInv, TypeOK
  <2>2. [lease[t][n] EXCEPT !.expired = TRUE] \in LeaseRow
    BY Zenon, <2>1 DEF LeaseRow
  <2>3. lease' \in [Tasks -> [Seqnos -> LeaseRow]]
    BY <1>3, <2>2 DEF LeaseExpires, IInv, TypeOK
  <2>4. TypeOK'
    BY <1>3, <2>3 DEF LeaseExpires, IInv, TypeOK
  <2>. QED BY <1>3, <2>4, FrameInv DEF LeaseExpires
<1>4. ASSUME NEW t \in Tasks, NEW n \in Seqnos, BackoffElapses(t, n) PROVE IInv'
  <2>1. queue[t][n] \in QueueRow
    BY DEF IInv, TypeOK
  <2>2. [queue[t][n] EXCEPT !.ready = TRUE] \in QueueRow
    BY Zenon, <2>1 DEF QueueRow
  <2>3. queue' \in [Tasks -> [Seqnos -> QueueRow]]
    BY <1>4, <2>2 DEF BackoffElapses, IInv, TypeOK
  <2>4. TypeOK'
    BY <1>4, <2>3 DEF BackoffElapses, IInv, TypeOK
  <2>. QED BY <1>4, <2>4, FrameInv DEF BackoffElapses
<1>5. CASE Crash
  <2>1. /\ txn' \in [Sessions -> TxnType] /\ scanned' \in [Sessions -> BOOLEAN]
        /\ wk' \in [Workers -> WkType]
    BY <1>5 DEF Crash
  <2>2. TypeOK'
    BY <1>5, <2>1 DEF Crash, IInv, TypeOK, TxnType, WkType
  <2>3. /\ \A r \in Sessions : txn'[r] = Idle
        /\ \A v \in Workers : wk'[v] = Resting("supervise")
    BY <1>5 DEF Crash
  <2>. QED BY <1>5, <2>2, <2>3, FrameInv DEF Crash
<1>6. CASE UNCHANGED vars
  <2>1. TypeOK'
    BY <1>6 DEF IInv, TypeOK, vars
  <2>. QED BY <1>6, <2>1, FrameInv DEF vars
<1>. QED BY <1>1, <1>2, <1>3, <1>4, <1>5, <1>6 DEF Clock

\* What a worker reads when it begins is true when it begins.
LEMMA PlanInv ==
  ASSUME IInv, NEW w \in Workers, NEW pc \in {"supervising", "retrying"},
         NEW todo \in [Tasks -> Todos], Plan(w, pc, todo),
         UNCHANGED <<task, att, ckpt, queue, lease, txn, scanned>>,
         \A t \in Tasks : todo[t] # "none" =>
             /\ Owns(w, t) /\ task[t].last # 0
             /\ \/ /\ todo[t] \in {"renew", "reclaim"} /\ pc = "supervising"
                   /\ task[t].state = "RUNNING"
                \/ /\ todo[t] \in {"dead", "pick"} /\ pc = "retrying"
                   /\ task[t].state = "QUEUED"
  PROVE  IInv'
<1>. DEFINE seen == [t \in Tasks |-> IF todo[t] = "none" THEN NoSeen ELSE SeenNow(t)]
            new == [pc |-> pc, todo |-> todo, seen |-> seen]
<1>1. \A t \in Tasks : todo[t] # "none" => task[t].last \in Seqnos
  BY DEF IInv, TypeOK, TaskRow, Seqnos, SeqnosOrNone
<1>2. \A t \in Tasks : todo[t] # "none" =>
          SeenNow(t) \in [row : TaskRow, q : QueueRow, l : LeaseRow]
  BY <1>1 DEF SeenNow, IInv, TypeOK
<1>3. seen \in [Tasks -> [row : TaskRow, q : QueueRow, l : LeaseRow]]
  BY <1>2, ConstantRows
<1>4. new \in WkType
  BY <1>3 DEF WkType
<1>5. wk' = [wk EXCEPT ![w] = new]
  BY DEF Plan
<1>6. /\ wk' \in [Workers -> WkType] /\ wk'[w] = new
      /\ \A v \in Workers : v # w => wk'[v] = wk[v]
  <2>1. wk \in [Workers -> WkType]
    BY DEF IInv, TypeOK, WkType
  <2>. HIDE DEF new
  <2>. QED BY <1>4, <1>5, <2>1
<1>7. TypeOK'
  BY <1>6 DEF IInv, TypeOK, WkType
<1>8. ASSUME NEW t \in Tasks PROVE RowFacts(t)'
  BY DEF IInv, RowFacts, Exists
<1>9. ASSUME NEW s \in Sessions PROVE SessionFacts(s)'
  BY DEF IInv, SessionFacts, Exists, SeqnoFree
<1>10. ASSUME NEW v \in Workers, NEW t \in Tasks PROVE WorkerFacts(v, t)'
  <2>1. CASE v # w
    <3>1. WorkerFacts(v, t) /\ wk'[v] = wk[v]
      BY <2>1, <1>6 DEF IInv
    <3>. QED BY <3>1 DEF WorkerFacts, Owns
  <2>2. CASE v = w /\ todo[t] = "none"
    BY <2>2, <1>6 DEF WorkerFacts
  <2>3. CASE v = w /\ todo[t] # "none"
    <3>1. wk'[v].pc = pc /\ wk'[v].todo[t] = todo[t] /\ wk'[v].seen[t].row = task[t]
      BY <2>3, <1>6 DEF SeenNow
    <3>2. Exists(t)
      BY <2>3 DEF Exists
    <3>3. att[t][task[t].last] # "none"
      BY <2>3, <3>2 DEF IInv, RowFacts, AttemptStateFor, Exists
    <3>. QED BY <2>3, <3>1, <3>3, <1>1 DEF WorkerFacts, Owns
  <2>. QED BY <2>1, <2>2, <2>3
<1>. QED BY <1>7, <1>8, <1>9, <1>10 DEF IInv

\* Both transactions of a worker begin with a plan made from the current rows.
LEMMA BeginWorkerInv ==
  ASSUME IInv, NEW w \in Workers, BeginSupervise(w) \/ BeginRetry(w)
  PROVE  IInv'
<1>1. CASE BeginSupervise(w)
  <2>. DEFINE todo == [t \in Tasks |-> SuperviseTodo(w, t)]
  <2>1. todo \in [Tasks -> Todos]
    BY DEF SuperviseTodo, Todos
  <2>2. \A t \in Tasks : todo[t] # "none" =>
            /\ Owns(w, t) /\ task[t].last # 0
            /\ todo[t] \in {"renew", "reclaim"} /\ task[t].state = "RUNNING"
    BY DEF SuperviseTodo, Stale
  <2>3. /\ Plan(w, "supervising", todo)
        /\ UNCHANGED <<task, att, ckpt, queue, lease, txn, scanned>>
    BY <1>1 DEF BeginSupervise
  <2>. HIDE DEF todo
  <2>. QED BY <2>1, <2>2, <2>3, PlanInv
<1>2. CASE BeginRetry(w)
  <2>1. PICK best \in IF RetryCandidates(w) = {} THEN {NoTask} ELSE BestCandidates(w) :
            Plan(w, "retrying",
                [t \in Tasks |-> IF RetryReady(w, t) /\ Exhausted(t) THEN "dead"
                                 ELSE IF t = best THEN "pick" ELSE "none"])
    BY <1>2 DEF BeginRetry
  <2>. DEFINE todo == [t \in Tasks |-> IF RetryReady(w, t) /\ Exhausted(t) THEN "dead"
                                       ELSE IF t = best THEN "pick" ELSE "none"]
  <2>2. best \in Tasks => RetryReady(w, best)
    BY <2>1, RuntimeAssumption DEF BestCandidates, RetryCandidates
  <2>3. todo \in [Tasks -> Todos]
    BY DEF Todos
  <2>4. \A t \in Tasks : todo[t] # "none" =>
            RetryReady(w, t) /\ todo[t] \in {"dead", "pick"}
    BY <2>2
  <2>5. \A t \in Tasks : todo[t] # "none" =>
            /\ Owns(w, t) /\ task[t].last # 0
            /\ todo[t] \in {"dead", "pick"} /\ task[t].state = "QUEUED"
    BY <2>4 DEF RetryReady
  <2>6. /\ Plan(w, "retrying", todo)
        /\ UNCHANGED <<task, att, ckpt, queue, lease, txn, scanned>>
    BY <1>2, <2>1 DEF BeginRetry
  <2>. HIDE DEF todo
  <2>. QED BY <2>3, <2>5, <2>6, PlanInv
<1>. QED BY <1>1, <1>2

\* A supervision commit moves tasks that are still RUNNING on the checkpoint it
\* read, whatever attempts were added since.
LEMMA CommitSuperviseInv ==
  ASSUME IInv, OneWorkerPerTask, NEW w \in Workers, NEW late \in BOOLEAN,
         CommitSupervise(w, late)
  PROVE  IInv'
<1>. DEFINE row(t) == wk[w].seen[t].row
            reclaims(t) == wk[w].todo[t] = "reclaim"
<1>1. /\ wk[w].pc = "supervising" /\ ckpt' = ckpt /\ txn' = txn /\ scanned' = scanned
      /\ wk' = [wk EXCEPT ![w] = Resting("retry")]
  BY DEF CommitSupervise
<1>2. \A t \in Tasks : task'[t] = IF reclaims(t) THEN Reclaimed(row(t)) ELSE task[t]
  BY DEF CommitSupervise
<1>3. \A t \in Tasks, n \in Seqnos :
          att'[t][n] = IF reclaims(t) /\ row(t).last = n
                       THEN ReclaimedAttempt(row(t)) ELSE att[t][n]
  BY DEF CommitSupervise
<1>4. ASSUME NEW t \in Tasks, reclaims(t)
      PROVE  /\ Owns(w, t) /\ row(t) \in TaskRow /\ row(t).last \in Seqnos
             /\ task[t].state = "RUNNING" /\ task[t].ckpt = row(t).ckpt
             /\ att[t][row(t).last] # "none"
  <2>1. WorkerFacts(w, t)
    BY DEF IInv
  <2>2. row(t) \in TaskRow
    BY DEF IInv, TypeOK
  <2>. QED BY <1>4, <2>1, <2>2 DEF WorkerFacts
<1>5. /\ \A r : ReclaimedAttempt(r) \in {"CHECKPOINTED", "FAILED"}
      /\ \A r \in TaskRow :
             /\ Reclaimed(r) \in TaskRow
             /\ Reclaimed(r).last = r.last /\ Reclaimed(r).ckpt = r.ckpt
             /\ Reclaimed(r).state = IF r.ckpt # 0 THEN "CHECKPOINTED" ELSE "QUEUED"
  <2>1. \A r : ReclaimedAttempt(r) \in {"CHECKPOINTED", "FAILED"}
    BY DEF ReclaimedAttempt
  <2>2. ASSUME NEW r \in TaskRow
        PROVE  /\ Reclaimed(r) \in TaskRow
               /\ Reclaimed(r).last = r.last /\ Reclaimed(r).ckpt = r.ckpt
               /\ Reclaimed(r).state = IF r.ckpt # 0 THEN "CHECKPOINTED" ELSE "QUEUED"
    BY DEF Reclaimed, Row, TaskRow, TaskStates, SeqnosOrNone
  <2>. QED BY <2>1, <2>2
<1>. HIDE DEF row, reclaims
<1>6. \A t \in Tasks, n \in Seqnos : att'[t][n] = "none" <=> att[t][n] = "none"
  BY <1>3, <1>4, <1>5
<1>7. TypeOK'
  <2>1. task' \in [Tasks -> TaskRow]
    <3>1. task' = [t \in Tasks |-> IF reclaims(t) THEN Reclaimed(row(t)) ELSE task[t]]
      BY DEF CommitSupervise, row, reclaims
    <3>. QED BY <3>1, <1>4, <1>5 DEF IInv, TypeOK
  <2>2. att' \in [Tasks -> [Seqnos -> AttemptStates]]
    <3>1. att' = [t \in Tasks |-> [n \in Seqnos |->
                      IF reclaims(t) /\ row(t).last = n
                      THEN ReclaimedAttempt(row(t)) ELSE att[t][n]]]
      BY DEF CommitSupervise, row, reclaims
    <3>. QED BY <3>1, <1>5 DEF IInv, TypeOK, AttemptStates
  <2>3. queue' \in [Tasks -> [Seqnos -> QueueRow]]
    <3>1. \A r : r.last \in Seqnos => ReclaimedQueue(r) \in QueueRow
      BY DEF ReclaimedQueue, RecoveryRow, Queued, BackedOff, QueueRow, QueueKinds, Seqnos
    <3>2. queue \in [Tasks -> [Seqnos -> QueueRow]]
      BY DEF IInv, TypeOK
    <3>3. \A t \in Tasks : reclaims(t) => ReclaimedQueue(row(t)) \in QueueRow
      BY <3>1, <1>4
    <3>. QED BY <3>2, <3>3 DEF CommitSupervise, row, reclaims
  <2>4. lease' \in [Tasks -> [Seqnos -> LeaseRow]]
    <3>1. Leased("HELD", 1) \in LeaseRow /\ Leased("RECLAIMED", 0) \in LeaseRow
      BY DEF Leased, LeaseRow
    <3>. QED BY <3>1 DEF CommitSupervise, IInv, TypeOK
  <2>5. wk' \in [Workers -> WkType]
    BY <1>1, RestTypes DEF IInv, TypeOK, WkType
  <2>. QED BY <1>1, <2>1, <2>2, <2>3, <2>4, <2>5 DEF IInv, TypeOK, WkType
<1>8. ASSUME NEW t \in Tasks PROVE RowFacts(t)'
  <2>1. RowFacts(t)
    BY DEF IInv
  <2>2. CASE ~reclaims(t)
    <3>1. /\ task'[t] = task[t] /\ ckpt'[t] = ckpt[t]
          /\ \A n \in Seqnos : att'[t][n] = att[t][n]
      BY <1>1, <1>2, <1>3, <2>2
    <3>2. Exists(t) => task[t].last \in Seqnos
      <4>1. task[t] \in TaskRow
        BY DEF IInv, TypeOK
      <4>. QED BY <2>1, <4>1 DEF RowFacts, TaskRow, Seqnos, SeqnosOrNone
    <3>. QED BY <2>1, <3>1, <3>2 DEF RowFacts, Exists
  <2>3. CASE reclaims(t)
    <3>1. /\ task'[t].last = row(t).last /\ task'[t].ckpt = task[t].ckpt
          /\ task'[t].state = IF task[t].ckpt # 0 THEN "CHECKPOINTED" ELSE "QUEUED"
          /\ row(t).last \in Seqnos /\ task[t].state = "RUNNING"
      <4>1. /\ task'[t] = Reclaimed(row(t)) /\ row(t) \in TaskRow
            /\ row(t).last \in Seqnos /\ row(t).ckpt = task[t].ckpt
            /\ task[t].state = "RUNNING"
        BY <2>3, <1>2, <1>4
      <4>. QED BY <4>1, <1>5
    <3>2. att'[t][row(t).last] = IF task[t].ckpt # 0 THEN "CHECKPOINTED" ELSE "FAILED"
      BY <2>3, <1>3, <1>4 DEF ReclaimedAttempt
    <3>3. task'[t].last # 0 /\ att'[t][task'[t].last] = AttemptStateFor(task'[t].state)
      BY <3>1, <3>2 DEF AttemptStateFor, Seqnos
    <3>. QED BY <1>1, <1>6, <2>1, <3>1, <3>3 DEF RowFacts, Exists
  <2>. QED BY <2>2, <2>3
<1>9. ASSUME NEW s \in Sessions PROVE SessionFacts(s)'
  <2>1. SessionFacts(s) /\ txn'[s] = txn[s]
    BY <1>1 DEF IInv
  <2>2. CASE txn[s].op \in Creating
    <3>1. txn[s].t \in Tasks /\ ~reclaims(txn[s].t)
      BY <2>1, <2>2, <1>4 DEF SessionFacts, Exists
    <3>. QED BY Zenon, <1>1, <1>2, <2>1, <2>2, <3>1
             DEF SessionFacts, Exists, Creating, Continuing
  <2>3. CASE txn[s].op \in Continuing
    <3>. DEFINE t == txn[s].t
    <3>1. t \in Tasks /\ txn[s].row.last \in Seqnos /\ txn[s].row.last + 1 \in Seqnos
      BY <2>1, <2>3 DEF SessionFacts
    <3>2. CASE ~reclaims(t)
      BY Zenon, <1>1, <1>2, <1>6, <2>1, <2>3, <3>1, <3>2
         DEF SessionFacts, Exists, SeqnoFree, Creating, Continuing
    <3>3. CASE reclaims(t)
      <4>1. /\ task'[t].ckpt = task[t].ckpt
            /\ task'[t].state = IF task[t].ckpt # 0 THEN "CHECKPOINTED" ELSE "QUEUED"
        BY <3>1, <3>3, <1>2, <1>4, <1>5
      <4>. QED BY Zenon, <1>1, <1>6, <2>1, <2>3, <3>1, <4>1
               DEF SessionFacts, Exists, SeqnoFree, Creating, Continuing
    <3>. QED BY <3>2, <3>3
  <2>4. CASE txn[s].op \notin Creating /\ txn[s].op \notin Continuing
    BY <2>1, <2>4 DEF SessionFacts
  <2>. QED BY <2>2, <2>3, <2>4
<1>10. ASSUME NEW v \in Workers, NEW t \in Tasks PROVE WorkerFacts(v, t)'
  <2>1. CASE v = w
    BY Zenon, <2>1, <1>1 DEF WorkerFacts, Resting, IInv, TypeOK
  <2>2. CASE v # w
    <3>1. wk'[v] = wk[v] /\ WorkerFacts(v, t)
      BY <2>2, <1>1 DEF IInv, TypeOK
    <3>2. CASE wk[v].todo[t] = "none"
      BY Zenon, <3>1, <3>2 DEF WorkerFacts
    <3>3. CASE wk[v].todo[t] # "none"
      <4>1. ~reclaims(t)
        BY <2>2, <3>1, <3>3, <1>4 DEF WorkerFacts, OneWorkerPerTask
      <4>2. task'[t] = task[t]
        BY <4>1, <1>2
      <4>. QED BY Zenon, <3>1, <3>3, <4>2, <1>6 DEF WorkerFacts, Owns
    <3>. QED BY <3>2, <3>3
  <2>. QED BY <2>1, <2>2
<1>. QED BY <1>7, <1>8, <1>9, <1>10 DEF IInv

\* A retry commit finds its tasks QUEUED without a checkpoint, as it read them.
LEMMA CommitRetryInv ==
  ASSUME IInv, OneWorkerPerTask, NEW w \in Workers, NEW late \in BOOLEAN,
         CommitRetry(w, late)
  PROVE  IInv'
<1>. DEFINE dead(t) == wk[w].todo[t] = "dead"
            pick(t) == wk[w].todo[t] = "pick"
            n(t) == wk[w].seen[t].row.last
<1>1. txn' = txn /\ scanned' = scanned /\ wk' = [wk EXCEPT ![w] = Resting("supervise")]
  BY Zenon DEF CommitRetry
<1>2. \A t \in Tasks :
          task'[t] = IF dead(t) THEN Row("FAILED", n(t), 0)
                     ELSE IF pick(t) THEN Row("CHECKPOINTED", n(t) + 1, n(t) + 1)
                     ELSE task[t]
  BY Zenon DEF CommitRetry
<1>3. \A t \in Tasks, m \in Seqnos :
          /\ att'[t][m] = IF dead(t) /\ m = n(t) THEN "FAILED"
                          ELSE IF pick(t) /\ m = n(t) + 1 THEN "CHECKPOINTED"
                          ELSE att[t][m]
          /\ ckpt'[t][m] = IF pick(t) /\ m = n(t) + 1 THEN "resumable" ELSE ckpt[t][m]
  BY Zenon DEF CommitRetry
<1>4. ASSUME NEW t \in Tasks, dead(t) \/ pick(t)
      PROVE  /\ Owns(w, t) /\ n(t) \in Seqnos
             /\ task[t].state = "QUEUED" /\ task[t].last = n(t) /\ task[t].ckpt = 0
             /\ att[t][n(t)] = "FAILED"
             /\ pick(t) => n(t) + 1 \in Seqnos /\ att[t][n(t) + 1] = "none"
  <2>1. WorkerFacts(w, t) /\ RowFacts(t)
    BY DEF IInv
  <2>2. /\ Owns(w, t) /\ n(t) \in Seqnos /\ task[t].state = "QUEUED"
        /\ task[t].last = n(t) /\ task[t].ckpt = 0
    BY Zenon, <1>4, <2>1 DEF WorkerFacts, RowFacts
  <2>3. att[t][n(t)] = "FAILED"
    BY Zenon, <2>1, <2>2 DEF RowFacts, Exists, AttemptStateFor
  <2>4. pick(t) => n(t) < MaxAttempts /\ att[t][n(t) + 1] = "none"
    BY Zenon DEF CommitRetry, SeqnoFree
  <2>. HIDE DEF n, dead, pick
  <2>5. n(t) < MaxAttempts => n(t) + 1 \in Seqnos
    BY <2>2, RuntimeAssumption DEF Seqnos
  <2>. QED BY <2>2, <2>3, <2>4, <2>5
<1>. HIDE DEF n, dead, pick
<1>5. \A t \in Tasks, m \in Seqnos : att[t][m] # "none" => att'[t][m] # "none"
  BY <1>3, <1>4
<1>6. TypeOK'
  <2>1. task' \in [Tasks -> TaskRow]
    <3>1. \A t \in Tasks : task'[t] \in TaskRow
      <4>. SUFFICES ASSUME NEW t \in Tasks PROVE task'[t] \in TaskRow
        OBVIOUS
      <4>1. \A k \in Seqnos : Row("FAILED", k, 0) \in TaskRow
                              /\ Row("CHECKPOINTED", k, k) \in TaskRow
        BY RuntimeAssumption DEF Row, TaskRow, TaskStates, Seqnos, SeqnosOrNone
      <4>2. task[t] \in TaskRow
        BY DEF IInv, TypeOK
      <4>. QED BY <1>2, <1>4, <4>1, <4>2
    <3>2. \E f : task' = [t \in Tasks |-> f[t]]
      <4>. DEFINE f == [t \in Tasks |->
                           IF dead(t) THEN Row("FAILED", n(t), 0)
                           ELSE IF pick(t) THEN Row("CHECKPOINTED", n(t) + 1, n(t) + 1)
                           ELSE task[t]]
      <4>1. task' = f
        BY Zenon DEF CommitRetry, n, dead, pick
      <4>2. f = [t \in Tasks |-> f[t]]
        OBVIOUS
      <4>. QED BY <4>1, <4>2
    <3>. QED BY <3>1, <3>2
  <2>2. att' \in [Tasks -> [Seqnos -> AttemptStates]]
    <3>1. att' = [t \in Tasks |-> [m \in Seqnos |->
                      IF dead(t) /\ m = n(t) THEN "FAILED"
                      ELSE IF pick(t) /\ m = n(t) + 1 THEN "CHECKPOINTED"
                      ELSE att[t][m]]]
      BY Zenon DEF CommitRetry, n, dead, pick
    <3>2. att \in [Tasks -> [Seqnos -> AttemptStates]]
      BY DEF IInv, TypeOK
    <3>3. ASSUME NEW t \in Tasks, NEW m \in Seqnos
          PROVE  (IF dead(t) /\ m = n(t) THEN "FAILED"
                  ELSE IF pick(t) /\ m = n(t) + 1 THEN "CHECKPOINTED"
                  ELSE att[t][m]) \in AttemptStates
      BY <3>2 DEF AttemptStates
    <3>. QED BY <3>1, <3>3
  <2>3. ckpt' \in [Tasks -> [Seqnos -> Checkpoints]]
    <3>1. ckpt' = [t \in Tasks |-> [m \in Seqnos |->
                      IF pick(t) /\ m = n(t) + 1 THEN "resumable" ELSE ckpt[t][m]]]
      BY Zenon DEF CommitRetry, n, dead, pick
    <3>2. ckpt \in [Tasks -> [Seqnos -> Checkpoints]]
      BY DEF IInv, TypeOK
    <3>3. ASSUME NEW t \in Tasks, NEW m \in Seqnos
          PROVE  (IF pick(t) /\ m = n(t) + 1 THEN "resumable" ELSE ckpt[t][m])
                     \in Checkpoints
      BY <3>2 DEF Checkpoints
    <3>. QED BY <3>1, <3>3
  <2>4. queue' \in [Tasks -> [Seqnos -> QueueRow]]
    <3>1. /\ Queued("MAINTENANCE", 0) \in QueueRow
          /\ \A k \in Seqnos : Queued("RETRY", k) \in QueueRow
      BY DEF Queued, QueueRow, QueueKinds, Seqnos
    <3>2. \A t \in Tasks : pick(t) => Queued("RETRY", n(t)) \in QueueRow
      BY Zenon, <1>4, <3>1
    <3>3. queue \in [Tasks -> [Seqnos -> QueueRow]]
      BY DEF IInv, TypeOK
    <3>4. queue' = [t \in Tasks |-> [m \in Seqnos |->
              IF dead(t) /\ m = n(t) /\ (late \/ SameQueue(wk[w].seen[t].q, queue[t][n(t)]))
              THEN Queued("MAINTENANCE", 0)
              ELSE IF pick(t) /\ m = n(t) + 1 THEN Queued("RETRY", n(t))
              ELSE queue[t][m]]]
      BY Zenon DEF CommitRetry, n, dead, pick
    <3>. QED BY Zenon, <3>1, <3>2, <3>3, <3>4
  <2>5. lease' \in [Tasks -> [Seqnos -> LeaseRow]]
    <3>1. Leased("RELEASED", 0) \in LeaseRow
      BY DEF Leased, LeaseRow
    <3>. QED BY Zenon, <3>1 DEF CommitRetry, IInv, TypeOK, n, dead, pick
  <2>6. wk' \in [Workers -> WkType]
    BY <1>1, RestTypes DEF IInv, TypeOK, WkType
  <2>. QED BY <1>1, <2>1, <2>2, <2>3, <2>4, <2>5, <2>6 DEF IInv, TypeOK, WkType
<1>7. ASSUME NEW t \in Tasks PROVE RowFacts(t)'
  <2>1. RowFacts(t)
    BY DEF IInv
  <2>2. CASE ~dead(t) /\ ~pick(t)
    <3>1. /\ task'[t] = task[t]
          /\ \A m \in Seqnos : att'[t][m] = att[t][m] /\ ckpt'[t][m] = ckpt[t][m]
      BY <1>2, <1>3, <2>2
    <3>2. /\ Exists(t) => task[t].last \in Seqnos
          /\ task[t].ckpt # 0 => task[t].ckpt \in Seqnos
      <4>1. task[t] \in TaskRow
        BY DEF IInv, TypeOK
      <4>. QED BY <2>1, <4>1 DEF RowFacts, TaskRow, Seqnos, SeqnosOrNone
    <3>. QED BY <2>1, <3>1, <3>2 DEF RowFacts, Exists
  <2>3. CASE dead(t)
    <3>1. ~pick(t) /\ n(t) \in Seqnos /\ att[t][n(t)] = "FAILED"
      BY <1>4, <2>3 DEF dead, pick
    <3>2. task'[t] = Row("FAILED", n(t), 0)
      BY <1>2, <2>3
    <3>3. \A m \in Seqnos : att'[t][m] = att[t][m] /\ ckpt'[t][m] = ckpt[t][m]
      BY <1>3, <2>3, <3>1
    <3>4. /\ task'[t].state = "FAILED" /\ task'[t].last = n(t) /\ task'[t].ckpt = 0
          /\ n(t) # 0 /\ att'[t][n(t)] = "FAILED"
      BY <3>1, <3>2, <3>3 DEF Row, Seqnos
    <3>. QED BY <2>1, <3>3, <3>4 DEF RowFacts, Exists, AttemptStateFor
  <2>4. CASE pick(t)
    <3>1. /\ ~dead(t) /\ n(t) \in Seqnos /\ att[t][n(t)] # "none"
          /\ n(t) + 1 \in Seqnos /\ att[t][n(t) + 1] = "none"
      BY <1>4, <2>4 DEF dead, pick
    <3>2. task'[t] = Row("CHECKPOINTED", n(t) + 1, n(t) + 1)
      BY <1>2, <2>4, <3>1
    <3>3. /\ att'[t][n(t) + 1] = "CHECKPOINTED" /\ ckpt'[t][n(t) + 1] = "resumable"
          /\ \A m \in Seqnos : m # n(t) + 1 =>
                 att'[t][m] = att[t][m] /\ ckpt'[t][m] = ckpt[t][m]
      BY <1>3, <2>4, <3>1
    <3>4. \A m \in Seqnos : m <= n(t) => att[t][m] # "none"
      BY <2>1, <3>1 DEF RowFacts
    <3>5. \A m \in Seqnos : m > n(t) => att[t][m] = "none"
      BY <2>1, <3>1 DEF RowFacts, Seqnos
    <3>6. \A m, k \in Seqnos : m <= k /\ att'[t][k] # "none" => att'[t][m] # "none"
      <4>1. \A m \in Seqnos : att'[t][m] # "none" <=> m <= n(t) + 1
        BY <3>1, <3>3, <3>4, <3>5 DEF Seqnos
      <4>. QED BY <4>1, <3>1 DEF Seqnos
    <3>7. \A m \in Seqnos : ckpt'[t][m] # "none" => att'[t][m] # "none"
      BY <2>1, <3>3 DEF RowFacts
    <3>8. /\ task'[t].state = "CHECKPOINTED" /\ task'[t].last = n(t) + 1
          /\ task'[t].ckpt = n(t) + 1 /\ n(t) + 1 # 0
      BY <3>1, <3>2 DEF Row, Seqnos
    <3>. QED BY <3>3, <3>6, <3>7, <3>8 DEF RowFacts, Exists, AttemptStateFor
  <2>. QED BY <2>2, <2>3, <2>4
<1>8. ASSUME NEW s \in Sessions PROVE SessionFacts(s)'
  <2>1. SessionFacts(s) /\ txn'[s] = txn[s]
    BY <1>1 DEF IInv
  <2>2. CASE txn[s].op \in Creating
    <3>1. txn[s].t \in Tasks /\ ~dead(txn[s].t) /\ ~pick(txn[s].t)
      BY <2>1, <2>2, <1>4 DEF SessionFacts, Exists
    <3>. QED BY Zenon, <1>1, <1>2, <2>1, <2>2, <3>1
             DEF SessionFacts, Exists, Creating, Continuing
  <2>3. CASE txn[s].op \in Continuing
    <3>. DEFINE t == txn[s].t
    <3>1. t \in Tasks /\ txn[s].row.last \in Seqnos /\ txn[s].row.last + 1 \in Seqnos
      BY <2>1, <2>3 DEF SessionFacts
    <3>2. CASE ~dead(t) /\ ~pick(t)
      BY Zenon, <1>1, <1>2, <1>3, <2>1, <2>3, <3>1, <3>2
         DEF SessionFacts, Exists, SeqnoFree, Creating, Continuing
    <3>3. CASE dead(t) \/ pick(t)
      <4>1. ~SeqnoFree(t, txn[s].row.last + 1)
        BY <1>4, <2>1, <2>3, <3>1, <3>3 DEF SessionFacts
      <4>2. att'[t][txn[s].row.last + 1] # "none" /\ att'[t][txn[s].row.last] # "none"
        BY Zenon, <1>5, <2>1, <2>3, <3>1, <4>1 DEF SessionFacts, SeqnoFree
      <4>3. task'[t].state # "none"
        <5>1. \A m, k : /\ Row("FAILED", m, k).state = "FAILED"
                        /\ Row("CHECKPOINTED", m, k).state = "CHECKPOINTED"
          BY DEF Row
        <5>. QED BY <1>2, <3>1, <3>3, <5>1
      <4>. QED BY Zenon, <1>1, <2>1, <2>3, <3>1, <4>2, <4>3
               DEF SessionFacts, Exists, SeqnoFree, Creating, Continuing
    <3>. QED BY <3>2, <3>3
  <2>4. CASE txn[s].op \notin Creating /\ txn[s].op \notin Continuing
    BY <2>1, <2>4 DEF SessionFacts
  <2>. QED BY <2>2, <2>3, <2>4
<1>9. ASSUME NEW v \in Workers, NEW t \in Tasks PROVE WorkerFacts(v, t)'
  <2>1. CASE v = w
    BY Zenon, <2>1, <1>1 DEF WorkerFacts, Resting, IInv, TypeOK
  <2>2. CASE v # w
    <3>1. wk'[v] = wk[v] /\ WorkerFacts(v, t)
      BY <2>2, <1>1 DEF IInv, TypeOK
    <3>2. CASE wk[v].todo[t] = "none"
      BY <3>1, <3>2 DEF WorkerFacts
    <3>3. CASE wk[v].todo[t] # "none"
      <4>1. ~dead(t) /\ ~pick(t)
        BY Zenon, <2>2, <3>1, <3>3, <1>4 DEF WorkerFacts, OneWorkerPerTask
      <4>2. task'[t] = task[t]
        BY Zenon, <4>1, <1>2
      <4>. QED BY Zenon, <3>1, <3>3, <4>2, <1>5 DEF WorkerFacts, Owns
    <3>. QED BY <3>2, <3>3
  <2>. QED BY <2>1, <2>2
<1>. QED BY <1>6, <1>7, <1>8, <1>9 DEF IInv

\* The invariant is inductive.
LEMMA NextInv ==
  ASSUME IInv, OneWorkerPerTask, [Next]_vars
  PROVE  IInv'
  BY BeginInv, CommitInv, QuietInv, BeginWorkerInv, CommitSuperviseInv, CommitRetryInv
     DEF Next, SessionStep, WorkerStep

\* The rows of every task stay consistent, for any number of tasks, sessions,
\* workers and attempts, if no two workers own the same task.
THEOREM Consistency ==
  ASSUME OneWorkerPerTask
  PROVE  Spec => []IInv
<1>1. IInv /\ [Next]_vars => IInv'
  BY NextInv
<1>. QED BY <1>1, InitInv, PTL DEF Spec
=============================================================================
