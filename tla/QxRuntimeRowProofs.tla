------------------------- MODULE QxRuntimeRowProofs -------------------------
(***************************************************************************)
(* The frame of the proof that IInv is inductive: the types of what the    *)
(* actions of QxRuntime write, a step that writes no task or attempt, and  *)
(* a step that inserts one attempt; then the steps of sessions.            *)
(***************************************************************************)
EXTENDS QxRuntimeInv, TLAPS

\* A priority selects one of the four queues.
LEMMA QueueKindType == ASSUME NEW p PROVE QueueKindOf(p) \in QueueKinds
  BY DEF QueueKindOf, QueueKinds

\* The ledgers keep their type when a transaction appends its rows.
LEMMA AppendTypes ==
  ASSUME TypeOK, NEW items, NEW late \in BOOLEAN
  PROVE  /\ AppendRecovery(items, late) \in [Tasks -> [Seqnos -> QueueRow]]
         /\ AppendReclaimed(items, late) \in [Tasks -> [Seqnos -> LeaseRow]]
<1>1. RecoveryRow \in QueueRow
  BY DEF RecoveryRow, Queued, QueueRow, QueueKinds
<1>2. Leased("RECLAIMED", 0) \in LeaseRow
  BY DEF Leased, LeaseRow
<1>3. AppendRecovery(items, late) \in [Tasks -> [Seqnos -> QueueRow]]
  BY <1>1 DEF AppendRecovery, TypeOK
<1>4. AppendReclaimed(items, late) \in [Tasks -> [Seqnos -> LeaseRow]]
  BY <1>2 DEF AppendReclaimed, TypeOK
<1>. QED BY <1>3, <1>4

\* The constant rows are of their catalog's type.
LEMMA ConstantRows ==
  /\ NoRow \in TaskRow
  /\ NoQueue \in QueueRow
  /\ NoLease \in LeaseRow
  /\ NoSeen \in [row : TaskRow, q : QueueRow, l : LeaseRow]
<1>1. NoRow \in TaskRow
  BY RuntimeAssumption DEF NoRow, Row, TaskRow, TaskStates, SeqnosOrNone
<1>2. NoQueue \in QueueRow
  BY DEF NoQueue, Queued, QueueRow
<1>3. NoLease \in LeaseRow
  BY DEF NoLease, Leased, LeaseRow
<1>. QED BY <1>1, <1>2, <1>3 DEF NoSeen

TxnType ==
    [op : Operations \cup {"idle"}, t : Tasks \cup {NoTask}, row : TaskRow,
     queues : SUBSET [t : Tasks, n : Seqnos, seen : QueueRow],
     leases : SUBSET [t : Tasks, n : Seqnos, seen : LeaseRow]]

WkType ==
    [pc : {"supervise", "supervising", "retry", "retrying"},
     todo : [Tasks -> Todos],
     seen : [Tasks -> [row : TaskRow, q : QueueRow, l : LeaseRow]]]

\* A session and a worker at rest are of their type.
LEMMA RestTypes ==
  ASSUME NEW pc \in {"supervise", "supervising", "retry", "retrying"}
  PROVE  Idle \in TxnType /\ Resting(pc) \in WkType
  BY ConstantRows DEF Idle, TxnType, Resting, WkType, Todos

\* The invariant holds in the empty catalogs.
LEMMA InitInv == Init => IInv
<1>. SUFFICES ASSUME Init PROVE IInv
  OBVIOUS
<1>1. TypeOK
  <2>1. task \in [Tasks -> TaskRow] /\ queue \in [Tasks -> [Seqnos -> QueueRow]]
        /\ lease \in [Tasks -> [Seqnos -> LeaseRow]]
    BY ConstantRows DEF Init
  <2>2. att \in [Tasks -> [Seqnos -> AttemptStates]]
        /\ ckpt \in [Tasks -> [Seqnos -> Checkpoints]]
    BY DEF Init, AttemptStates, Checkpoints
  <2>3. txn \in [Sessions -> TxnType] /\ wk \in [Workers -> WkType]
    BY RestTypes DEF Init
  <2>4. scanned \in [Sessions -> BOOLEAN]
    BY DEF Init
  <2>. QED BY <2>1, <2>2, <2>3, <2>4 DEF TypeOK, TxnType, WkType
<1>2. ASSUME NEW t \in Tasks PROVE RowFacts(t)
  BY DEF Init, RowFacts, Exists, NoRow, Row
<1>3. ASSUME NEW s \in Sessions PROVE SessionFacts(s)
  BY DEF Init, SessionFacts, Idle, Creating, Continuing
<1>4. ASSUME NEW w \in Workers, NEW t \in Tasks PROVE WorkerFacts(w, t)
  BY DEF Init, WorkerFacts, Resting
<1>. QED BY <1>1, <1>2, <1>3, <1>4 DEF IInv

\* Attempt n of task t is inserted, in state st and with checkpoint c, together
\* with the task row that points at it.
AttemptInserted(s, t, n, st, c, row) ==
    /\ att[t][n] = "none"
    /\ \A m \in Seqnos : m < n => att[t][m] # "none"
    /\ att' = [att EXCEPT ![t][n] = st]
    /\ ckpt' = [ckpt EXCEPT ![t][n] = c]
    /\ task' = [task EXCEPT ![t] = row]
    /\ txn' = [txn EXCEPT ![s] = Idle]
    /\ wk' = wk
    /\ row.state # "none" /\ row.last = n /\ st = AttemptStateFor(row.state)
    /\ row.state = "CHECKPOINTED" => row.ckpt # 0
    /\ row.state \in {"QUEUED", "FAILED"} => row.ckpt = 0
    /\ row.state \in {"CHECKPOINTED", "RUNNING"} /\ row.ckpt # 0 =>
           ckpt'[t][row.ckpt] = "resumable"
    /\ \A r \in Sessions : r # s /\ txn[r].op \in Creating => txn[r].t # t
    /\ \A w \in Workers : \/ wk[w].todo[t] = "none"
                          \/ /\ wk[w].todo[t] \in {"renew", "reclaim"}
                             /\ row.state = "RUNNING"
                             /\ row.ckpt = task[t].ckpt

\* Its effect on what the invariant says of rows and open transactions.
LEMMA NewAttemptInv ==
  ASSUME IInv, NEW s \in Sessions, NEW t \in Tasks, NEW n \in Seqnos,
         NEW st \in AttemptStates \ {"none"}, NEW c \in Checkpoints,
         NEW row \in TaskRow, AttemptInserted(s, t, n, st, c, row)
  PROVE  /\ \A u \in Tasks : RowFacts(u)'
         /\ \A r \in Sessions : SessionFacts(r)'
         /\ \A w \in Workers, u \in Tasks : WorkerFacts(w, u)'
<1>a. att[t][n] = "none" /\ \A m \in Seqnos : m < n => att[t][m] # "none"
  BY DEF AttemptInserted
<1>b. /\ row.state # "none" /\ row.last = n /\ st = AttemptStateFor(row.state)
      /\ row.state = "CHECKPOINTED" => row.ckpt # 0
      /\ row.state \in {"QUEUED", "FAILED"} => row.ckpt = 0
      /\ row.state \in {"CHECKPOINTED", "RUNNING"} /\ row.ckpt # 0 =>
             ckpt'[t][row.ckpt] = "resumable"
  BY DEF AttemptInserted
<1>c. \A r \in Sessions : r # s /\ txn[r].op \in Creating => txn[r].t # t
  BY DEF AttemptInserted
<1>d. /\ wk' = wk
      /\ \A w \in Workers : \/ wk[w].todo[t] = "none"
                            \/ /\ wk[w].todo[t] \in {"renew", "reclaim"}
                               /\ row.state = "RUNNING"
                               /\ row.ckpt = task[t].ckpt
  BY DEF AttemptInserted
<1>1. /\ \A u \in Tasks : u # t =>
            att'[u] = att[u] /\ ckpt'[u] = ckpt[u] /\ task'[u] = task[u]
      /\ task'[t] = row
      /\ \A m \in Seqnos : /\ att'[t][m] = IF m = n THEN st ELSE att[t][m]
                           /\ ckpt'[t][m] = IF m = n THEN c ELSE ckpt[t][m]
      /\ txn'[s] = Idle
      /\ \A r \in Sessions : r # s => txn'[r] = txn[r]
  BY DEF AttemptInserted, IInv, TypeOK
<1>2. \A m \in Seqnos : n <= m => att[t][m] = "none"
  BY <1>a DEF IInv, RowFacts
<1>3. ASSUME NEW u \in Tasks PROVE RowFacts(u)'
  <2>1. CASE u # t
    <3>1. RowFacts(u)
      BY DEF IInv
    <3>. QED BY <2>1, <3>1, <1>1 DEF RowFacts, Exists
  <2>2. CASE u = t
    <3>1. /\ row.last # 0 /\ att'[t][row.last] = AttemptStateFor(row.state)
          /\ task'[t].state # "none"
      BY <1>1, <1>b DEF Seqnos
    <3>2. \A m, k \in Seqnos : m <= k /\ att'[t][k] # "none" => att'[t][m] # "none"
      BY <1>a, <1>1, <1>2 DEF Seqnos
    <3>3. \A m \in Seqnos : ckpt'[t][m] # "none" => att'[t][m] # "none"
      BY <1>1 DEF IInv, RowFacts
    <3>. QED BY <3>1, <3>2, <3>3, <2>2, <1>1, <1>b DEF RowFacts, Exists
  <2>. QED BY <2>1, <2>2
<1>4. ASSUME NEW r \in Sessions PROVE SessionFacts(r)'
  <2>1. CASE r = s
    BY <2>1, <1>1 DEF SessionFacts, Idle, Creating, Continuing
  <2>2. CASE r # s
    <3>1. txn'[r] = txn[r] /\ SessionFacts(r)
      BY <2>2, <1>1 DEF IInv
    <3>2. CASE txn[r].op \in Creating
      <4>1. txn[r].t \in Tasks /\ txn[r].t # t /\ txn[r].t # NoTask /\ ~Exists(txn[r].t)
        BY <3>1, <3>2, <2>2, <1>c, RuntimeAssumption DEF SessionFacts
      <4>2. ~Exists(txn[r].t)'
        BY <3>1, <4>1, <1>1 DEF Exists
      <4>3. \A q \in Sessions : q # r => txn'[q].t # txn[r].t
        BY <4>1, <3>1, <3>2, <1>1 DEF SessionFacts, Idle
      <4>. QED BY <3>1, <3>2, <4>1, <4>2, <4>3
               DEF SessionFacts, Creating, Continuing
    <3>3. CASE txn[r].op \in Continuing
      <4>. DEFINE u == txn[r].t
                  j == txn[r].row.last
      <4>1. /\ u \in Tasks /\ Exists(u) /\ j \in Seqnos /\ j + 1 \in Seqnos
            /\ att[u][j] # "none"
        BY <3>1, <3>3 DEF SessionFacts
      <4>4. SeqnoFree(u, j + 1) =>
                /\ task[u].ckpt # 0
                /\ \/ task[u].state = "CHECKPOINTED"
                   \/ task[u].state = "RUNNING" /\ txn[r].op = "startRecoveryAgain"
        BY <3>1, <3>3 DEF SessionFacts
      <4>2. CASE u # t
        <5>1. att'[u] = att[u] /\ task'[u] = task[u]
          BY <4>1, <4>2, <1>1
        <5>. QED BY <5>1, <4>1, <4>4, <3>1, <3>3
                 DEF SessionFacts, Exists, SeqnoFree, Creating, Continuing
      <4>3. CASE u = t
        <5>1. j + 1 <= n
          BY <4>1, <4>3, <1>2 DEF Seqnos
        <5>2. att'[t][j + 1] # "none" /\ att'[t][j] # "none"
          BY <5>1, <4>1, <4>3, <1>1, <1>a DEF Seqnos
        <5>3. task'[t].state # "none"
          BY <1>1, <1>b
        <5>. QED BY <5>2, <5>3, <4>1, <4>3, <3>1, <3>3
                 DEF SessionFacts, Exists, SeqnoFree, Creating, Continuing
      <4>. QED BY <4>2, <4>3
    <3>4. CASE txn[r].op \notin Creating /\ txn[r].op \notin Continuing
      BY <3>4, <3>1 DEF SessionFacts
    <3>. QED BY <3>2, <3>3, <3>4
  <2>. QED BY <2>1, <2>2
<1>5. ASSUME NEW w \in Workers, NEW u \in Tasks PROVE WorkerFacts(w, u)'
  <2>1. WorkerFacts(w, u)
    BY DEF IInv
  <2>2. CASE u # t
    <3>1. att'[u] = att[u] /\ ckpt'[u] = ckpt[u] /\ task'[u] = task[u] /\ wk' = wk
      BY <2>2, <1>1, <1>d
    <3>. QED BY <2>1, <3>1 DEF WorkerFacts, Owns
  <2>3. CASE u = t
    <3>1. CASE wk[w].todo[t] = "none"
      BY <2>3, <3>1, <1>d DEF WorkerFacts
    <3>2. CASE wk[w].todo[t] \in {"renew", "reclaim"} /\ row.state = "RUNNING"
               /\ row.ckpt = task[t].ckpt
      <4>1. /\ Owns(w, t) /\ wk[w].seen[t].row.last \in Seqnos
            /\ wk[w].pc = "supervising" /\ task[t].ckpt = wk[w].seen[t].row.ckpt
            /\ att[t][wk[w].seen[t].row.last] # "none"
        BY <2>1, <2>3, <3>2 DEF WorkerFacts
      <4>2. att'[t][wk[w].seen[t].row.last] # "none" /\ task'[t] = row /\ wk' = wk
        BY <4>1, <1>1, <1>d
      <4>. QED BY Zenon, <2>3, <3>2, <4>1, <4>2 DEF WorkerFacts, Owns
    <3>. QED BY <3>1, <3>2, <1>d
  <2>. QED BY <2>2, <2>3
<1>. QED BY <1>3, <1>4, <1>5

\* Steps that leave the task, attempt and checkpoint rows alone and at most end
\* transactions: aborts, crashes, the clock, ledger-only commits.
LEMMA FrameInv ==
  ASSUME IInv, TypeOK', UNCHANGED <<task, att, ckpt>>,
         \A s \in Sessions : txn'[s] = txn[s] \/ txn'[s] = Idle,
         \A w \in Workers : wk'[w] = wk[w] \/ \E pc : wk'[w] = Resting(pc)
  PROVE  IInv'
<1>1. ASSUME NEW t \in Tasks PROVE RowFacts(t)'
  BY DEF IInv, RowFacts, Exists
<1>2. ASSUME NEW s \in Sessions PROVE SessionFacts(s)'
  <2>1. CASE txn'[s] = Idle
    BY <2>1 DEF SessionFacts, Idle, Creating, Continuing
  <2>2. CASE txn'[s] = txn[s]
    <3>1. SessionFacts(s)
      BY DEF IInv
    <3>2. ASSUME txn[s].op \in Creating
          PROVE  \A r \in Sessions : r # s => txn'[r].t # txn[s].t
      BY <3>1, <3>2, RuntimeAssumption DEF SessionFacts, Idle
    <3>. QED BY <2>2, <3>1, <3>2 DEF SessionFacts, Exists, SeqnoFree
  <2>. QED BY <2>1, <2>2
<1>3. ASSUME NEW w \in Workers, NEW t \in Tasks PROVE WorkerFacts(w, t)'
  <2>1. CASE wk'[w] = wk[w]
    <3>1. WorkerFacts(w, t)
      BY DEF IInv
    <3>. QED BY <2>1, <3>1 DEF WorkerFacts, Owns
  <2>2. CASE \E pc : wk'[w] = Resting(pc)
    BY <2>2 DEF WorkerFacts, Resting
  <2>. QED BY <2>1, <2>2
<1>. QED BY <1>1, <1>2, <1>3 DEF IInv

\* What a session reads when it begins is true when it begins.
LEMMA OpenInv ==
  ASSUME IInv, NEW s \in Sessions, NEW new \in TxnType,
         txn' = [txn EXCEPT ![s] = new],
         UNCHANGED <<task, att, ckpt, queue, lease, wk>>,
         scanned' \in [Sessions -> BOOLEAN],
         new.op \in Creating => /\ new.t \in Tasks /\ ~Exists(new.t)
                                /\ \A r \in Sessions : txn[r].t # new.t,
         new.op \in Continuing =>
             /\ new.t \in Tasks /\ Exists(new.t)
             /\ new.row.last \in Seqnos /\ new.row.last + 1 \in Seqnos
             /\ att[new.t][new.row.last] # "none"
             /\ task[new.t].ckpt # 0
             /\ \/ task[new.t].state = "CHECKPOINTED"
                \/ task[new.t].state = "RUNNING" /\ new.op = "startRecoveryAgain",
         new.t \notin Tasks \/ Exists(new.t) \/ \A r \in Sessions : txn[r].t # new.t
  PROVE  IInv'
<1>1. TypeOK'
  <2>1. txn' \in [Sessions -> TxnType]
    BY DEF IInv, TypeOK, TxnType
  <2>. QED BY <2>1 DEF IInv, TypeOK, TxnType
<1>2. txn'[s] = new /\ \A r \in Sessions : r # s => txn'[r] = txn[r]
  BY DEF IInv, TypeOK
<1>3. ASSUME NEW t \in Tasks PROVE RowFacts(t)'
  BY DEF IInv, RowFacts, Exists
<1>4. ASSUME NEW r \in Sessions PROVE SessionFacts(r)'
  <2>1. CASE r = s
    BY <2>1, <1>2 DEF SessionFacts, Exists, SeqnoFree
  <2>2. CASE r # s
    <3>1. SessionFacts(r) /\ txn'[r] = txn[r]
      BY <2>2, <1>2 DEF IInv
    <3>2. ASSUME txn[r].op \in Creating
          PROVE  \A q \in Sessions : q # r => txn'[q].t # txn[r].t
      BY <3>1, <3>2, <1>2 DEF SessionFacts
    <3>. QED BY <3>1, <3>2 DEF SessionFacts, Exists, SeqnoFree
  <2>. QED BY <2>1, <2>2
<1>5. ASSUME NEW w \in Workers, NEW t \in Tasks PROVE WorkerFacts(w, t)'
  BY DEF IInv, WorkerFacts, Owns
<1>. QED BY <1>1, <1>3, <1>4, <1>5 DEF IInv

\* The rows a scan reads are rows of the ledgers.
LEMMA ScanTypes ==
  ASSUME TypeOK
  PROVE  /\ ScanQueues \in SUBSET [t : Tasks, n : Seqnos, seen : QueueRow]
         /\ ScanLeases \in SUBSET [t : Tasks, n : Seqnos, seen : LeaseRow]
  BY DEF TypeOK, ScanQueues, ScanLeases

\* The types of what a commit that inserts an attempt writes.
LEMMA WriteTypes ==
  ASSUME IInv, NEW s \in Sessions, NEW late \in BOOLEAN, txn[s].t \in Tasks,
         NEW n \in Seqnos, NEW st \in AttemptStates, NEW c \in Checkpoints,
         NEW q \in QueueRow, NEW l \in LeaseRow, NEW row \in TaskRow,
         WriteAttempt(s, n, late, st, c, q, l), Close(s),
         task' = [task EXCEPT ![txn[s].t] = row], UNCHANGED <<scanned, wk>>
  PROVE  TypeOK'
<1>1. Idle \in TxnType
  BY RestTypes
<1>2. txn' \in [Sessions -> TxnType]
  BY <1>1 DEF IInv, TypeOK, TxnType, Close
<1>3. /\ queue' \in [Tasks -> [Seqnos -> QueueRow]]
      /\ lease' \in [Tasks -> [Seqnos -> LeaseRow]]
  <2>1. /\ AppendRecovery(txn[s].queues, late) \in [Tasks -> [Seqnos -> QueueRow]]
        /\ AppendReclaimed(txn[s].leases, late) \in [Tasks -> [Seqnos -> LeaseRow]]
    BY AppendTypes DEF IInv
  <2>. QED BY <2>1 DEF WriteAttempt
<1>4. /\ att' \in [Tasks -> [Seqnos -> AttemptStates]]
      /\ ckpt' \in [Tasks -> [Seqnos -> Checkpoints]]
      /\ task' \in [Tasks -> TaskRow]
  BY DEF IInv, TypeOK, WriteAttempt
<1>. QED BY <1>2, <1>3, <1>4 DEF IInv, TypeOK, TxnType

\* A task that a worker is about to change is RUNNING or QUEUED.
LEMMA BusyTask ==
  ASSUME IInv, NEW w \in Workers, NEW t \in Tasks
  PROVE  \/ wk[w].todo[t] = "none"
         \/ wk[w].todo[t] \in {"renew", "reclaim"} /\ task[t].state = "RUNNING"
         \/ wk[w].todo[t] \in {"dead", "pick"} /\ task[t].state = "QUEUED"
<1>1. wk[w].todo[t] \in Todos
  <2>1. wk[w].todo \in [Tasks -> Todos]
    BY DEF IInv, TypeOK
  <2>. QED BY <2>1
<1>2. WorkerFacts(w, t)
  BY DEF IInv
<1>. QED BY <1>1, <1>2 DEF WorkerFacts, Todos

\* What a commit that creates a task writes: the row, checkpoint, queue row and
\* lease row of its first attempt.
CommitsFirst(s, late, row, c, q, l) ==
    /\ txn[s].op \in Creating
    /\ \/ row = Row("CHECKPOINTED", 1, 1) /\ c = "resumable"
       \/ row \in {Row("RUNNING", 1, 0), Row("QUEUED", 1, 0)} /\ c = "none"
    /\ WriteAttempt(s, 1, late, AttemptStateFor(row.state), c, q, l)
    /\ Close(s)
    /\ task' = [task EXCEPT ![txn[s].t] = row]
    /\ UNCHANGED <<scanned, wk>>

\* A commit that creates a task inserts its first attempt.
LEMMA CreateInv ==
  ASSUME IInv, NEW s \in Sessions, NEW late \in BOOLEAN,
         NEW row \in TaskRow, NEW c \in Checkpoints,
         NEW q \in QueueRow, NEW l \in LeaseRow, CommitsFirst(s, late, row, c, q, l)
  PROVE  IInv'
<1>. DEFINE t == txn[s].t
<1>a. \/ row = Row("CHECKPOINTED", 1, 1) /\ c = "resumable"
      \/ row \in {Row("RUNNING", 1, 0), Row("QUEUED", 1, 0)} /\ c = "none"
  BY DEF CommitsFirst
<1>b. /\ WriteAttempt(s, 1, late, AttemptStateFor(row.state), c, q, l) /\ Close(s)
      /\ task' = [task EXCEPT ![t] = row] /\ wk' = wk /\ scanned' = scanned
  BY DEF CommitsFirst
<1>1. t \in Tasks /\ ~Exists(t) /\ \A r \in Sessions : r # s => txn[r].t # t
  BY DEF IInv, SessionFacts, CommitsFirst
<1>2. 1 \in Seqnos
  BY RuntimeAssumption DEF Seqnos
<1>3. AttemptStateFor(row.state) \in AttemptStates \ {"none"}
  BY <1>a DEF AttemptStateFor, AttemptStates, Row
<1>4. TypeOK'
  BY Zenon, <1>b, <1>1, <1>2, <1>3, WriteTypes
<1>5. att[t][1] = "none" /\ \A m \in Seqnos : m < 1 => att[t][m] # "none"
  <2>1. RowFacts(t)
    BY <1>1 DEF IInv
  <2>2. \A m \in Seqnos : att[t][m] = "none"
    BY <1>1, <2>1, Zenon DEF RowFacts, Exists
  <2>3. \A m \in Seqnos : ~(m < 1)
    BY DEF Seqnos
  <2>. QED BY <1>2, <2>2, <2>3, Zenon
<1>6. \A w \in Workers : wk[w].todo[t] = "none"
  BY <1>1, BusyTask DEF Exists
<1>7. /\ att' = [att EXCEPT ![t][1] = AttemptStateFor(row.state)]
      /\ ckpt' = [ckpt EXCEPT ![t][1] = c]
      /\ txn' = [txn EXCEPT ![s] = Idle]
  BY <1>b DEF WriteAttempt, Close
<1>8. ckpt'[t][1] = c
  BY <1>7, <1>1, <1>2 DEF IInv, TypeOK
<1>9. /\ row.state # "none" /\ row.last = 1
      /\ row.state = "CHECKPOINTED" => row.ckpt # 0
      /\ row.state \in {"QUEUED", "FAILED"} => row.ckpt = 0
      /\ row.state \in {"CHECKPOINTED", "RUNNING"} /\ row.ckpt # 0 =>
             ckpt'[t][row.ckpt] = "resumable"
  BY <1>8, <1>a DEF Row
<1>. HIDE DEF t
<1>10. /\ \A u \in Tasks : RowFacts(u)'
       /\ \A r \in Sessions : SessionFacts(r)'
       /\ \A w \in Workers, u \in Tasks : WorkerFacts(w, u)'
  <2>1. \A r \in Sessions : r # s /\ txn[r].op \in Creating => txn[r].t # t
    BY <1>1
  <2>2. AttemptInserted(s, t, 1, AttemptStateFor(row.state), c, row)
    BY <1>b, <1>1, <1>5, <1>6, <1>7, <1>9, <2>1 DEF AttemptInserted
  <2>. QED BY <1>1, <1>2, <1>3, <2>2, NewAttemptInv
<1>. QED BY <1>4, <1>10 DEF IInv

\* What a commit that continues a task writes: the attempt after the one it read.
CommitsNext(s, late, row, c, q, l) ==
    LET n == txn[s].row.last + 1 IN
    /\ txn[s].op \in Continuing
    /\ SeqnoFree(txn[s].t, n)
    /\ \/ txn[s].op = "resume" /\ c = "final" /\ row = Row("COMPLETED", n, n)
       \/ c = "none" /\ row = Row("RUNNING", n, task[txn[s].t].ckpt)
    /\ WriteAttempt(s, n, late, row.state, c, q, l)
    /\ Close(s)
    /\ task' = [task EXCEPT ![txn[s].t] = row]
    /\ UNCHANGED <<scanned, wk>>

\* An attempt below the cap has a successor.
LEMMA Successor == ASSUME NEW k \in Seqnos, k < MaxAttempts PROVE k + 1 \in Seqnos
  BY RuntimeAssumption DEF Seqnos

\* The sequence numbers below a successor are those up to its predecessor.
LEMMA Predecessor ==
  ASSUME NEW k \in Seqnos
  PROVE  \A m \in Seqnos : m < k + 1 => m <= k
  BY DEF Seqnos

\* A commit that continues a task inserts the attempt after the one it read,
\* which the unique index admits only if nobody has done so since.
LEMMA ContinueInv ==
  ASSUME IInv, NEW s \in Sessions, NEW late \in BOOLEAN,
         NEW row \in TaskRow, NEW c \in Checkpoints,
         NEW q \in QueueRow, NEW l \in LeaseRow, CommitsNext(s, late, row, c, q, l)
  PROVE  IInv'
<1>. DEFINE t == txn[s].t
            k == txn[s].row.last
            n == k + 1
<1>a. \/ txn[s].op = "resume" /\ c = "final" /\ row = Row("COMPLETED", n, n)
      \/ c = "none" /\ row = Row("RUNNING", n, task[t].ckpt)
  BY DEF CommitsNext
<1>b. /\ WriteAttempt(s, n, late, row.state, c, q, l) /\ Close(s)
      /\ task' = [task EXCEPT ![t] = row] /\ wk' = wk /\ scanned' = scanned
  BY DEF CommitsNext
<1>1. /\ t \in Tasks /\ Exists(t) /\ k \in Seqnos /\ n \in Seqnos
      /\ att[t][k] # "none"
      /\ att[t][n] = "none"
      /\ task[t].ckpt # 0
      /\ \/ task[t].state = "CHECKPOINTED"
         \/ task[t].state = "RUNNING" /\ txn[s].op # "resume"
  <2>1. SessionFacts(s) /\ SeqnoFree(t, n) /\ txn[s].op \in Continuing
    BY DEF IInv, CommitsNext
  <2>. QED BY <2>1 DEF SessionFacts, SeqnoFree
<1>2. row.state \in AttemptStates \ {"none"} /\ row.state = AttemptStateFor(row.state)
  BY <1>a DEF AttemptStateFor, AttemptStates, Row
<1>3. TypeOK'
  BY Zenon, <1>b, <1>1, <1>2, WriteTypes
<1>4. \A m \in Seqnos : m < n => att[t][m] # "none"
  <2>1. RowFacts(t)
    BY <1>1 DEF IInv
  <2>2. \A m \in Seqnos : m < n => m <= k
    BY <1>1, Predecessor
  <2>. HIDE DEF t, k, n
  <2>. QED BY <1>1, <2>1, <2>2 DEF RowFacts
<1>5. \A w \in Workers : \/ wk[w].todo[t] = "none"
                         \/ /\ wk[w].todo[t] \in {"renew", "reclaim"}
                            /\ row.state = "RUNNING"
                            /\ row.ckpt = task[t].ckpt
  <2>1. \/ row.state = "RUNNING" /\ row.ckpt = task[t].ckpt
        \/ txn[s].op = "resume"
    BY <1>a DEF Row
  <2>. QED BY <1>1, <2>1, BusyTask
<1>6. /\ att' = [att EXCEPT ![t][n] = row.state]
      /\ ckpt' = [ckpt EXCEPT ![t][n] = c]
      /\ txn' = [txn EXCEPT ![s] = Idle]
  BY <1>b DEF WriteAttempt, Close
<1>7. /\ task[t].ckpt \in Seqnos
      /\ ckpt[t][task[t].ckpt] = "resumable"
      /\ task[t].ckpt # n
  <2>1. task[t].ckpt \in Seqnos
    BY <1>1 DEF IInv, TypeOK, TaskRow, Seqnos, SeqnosOrNone
  <2>. QED BY Zenon, <1>1, <2>1 DEF IInv, RowFacts
<1>8. ckpt'[t][task[t].ckpt] = "resumable"
  BY <1>6, <1>7, <1>1 DEF IInv, TypeOK
<1>9. /\ row.state # "none" /\ row.last = n
      /\ row.state = "CHECKPOINTED" => row.ckpt # 0
      /\ row.state \in {"QUEUED", "FAILED"} => row.ckpt = 0
      /\ row.state \in {"CHECKPOINTED", "RUNNING"} /\ row.ckpt # 0 =>
             ckpt'[t][row.ckpt] = "resumable"
  BY <1>8, <1>a DEF Row
<1>10. \A r \in Sessions : r # s /\ txn[r].op \in Creating => txn[r].t # t
  BY Zenon, <1>1 DEF IInv, SessionFacts
<1>. HIDE DEF t, k, n
<1>11. /\ \A u \in Tasks : RowFacts(u)'
       /\ \A r \in Sessions : SessionFacts(r)'
       /\ \A w \in Workers, u \in Tasks : WorkerFacts(w, u)'
  <2>1. AttemptInserted(s, t, n, row.state, c, row)
    BY <1>1, <1>2, <1>4, <1>5, <1>6, <1>9, <1>10, <1>b DEF AttemptInserted
  <2>. QED BY <1>1, <1>2, <2>1, NewAttemptInv
<1>. QED BY <1>3, <1>11 DEF IInv

-----------------------------------------------------------------------------
(* The steps of sessions preserve IInv.                                    *)

\* Every Begin of a session preserves the invariant.
LEMMA BeginInv ==
  ASSUME IInv, NEW s \in Sessions, Begin(s)
  PROVE  IInv'
<1>. USE RuntimeAssumption
<1>1. /\ TypeOK /\ scanned \in [Sessions -> BOOLEAN] /\ NoRow \in TaskRow
      /\ \A u \in Tasks : RowFacts(u) /\ task[u] \in TaskRow
      /\ \A v \in BOOLEAN : [scanned EXCEPT ![s] = v] \in [Sessions -> BOOLEAN]
  BY ConstantRows DEF IInv, TypeOK
<1>2. ASSUME NEW op \in Creating, NEW t \in Tasks, Fresh(t),
             OpenAfterScan(s, op, t, NoRow)
      PROVE  IInv'
  <2>. DEFINE qs == IF scanned[s] THEN {} ELSE ScanQueues
              ls == IF scanned[s] THEN {} ELSE ScanLeases
              new == [op |-> op, t |-> t, row |-> NoRow, queues |-> qs, leases |-> ls]
  <2>1. new \in TxnType
    BY <1>1, ScanTypes DEF TxnType, Creating, Operations
  <2>. QED BY Zenon, <1>1, <1>2, <2>1, OpenInv
           DEF OpenAfterScan, Open, Fresh, Creating, Continuing
<1>3. ASSUME NEW op \in Continuing, NEW t \in Tasks,
             NEW qs \in SUBSET [t : Tasks, n : Seqnos, seen : QueueRow],
             NEW ls \in SUBSET [t : Tasks, n : Seqnos, seen : LeaseRow],
             Open(s, op, t, task[t], qs, ls),
             scanned' \in [Sessions -> BOOLEAN],
             task[t].last < MaxAttempts, task[t].ckpt # 0,
             \/ task[t].state = "CHECKPOINTED"
             \/ task[t].state = "RUNNING" /\ op = "startRecoveryAgain"
      PROVE  IInv'
  <2>. DEFINE new == [op |-> op, t |-> t, row |-> task[t], queues |-> qs, leases |-> ls]
  <2>1. new \in TxnType
    BY <1>1 DEF TxnType, Continuing, Operations
  <2>2. Exists(t) /\ task[t].last \in Seqnos /\ task[t].last + 1 \in Seqnos
        /\ att[t][task[t].last] # "none"
    BY <1>1, <1>3 DEF RowFacts, Exists, TaskRow, Seqnos, SeqnosOrNone, AttemptStateFor
  <2>. QED BY Zenon, <1>1, <1>3, <2>1, <2>2, OpenInv DEF Open, Creating, Continuing
<1>4. ASSUME NEW op \in {"scan", "rebuild", "tick"},
             NEW qs \in SUBSET [t : Tasks, n : Seqnos, seen : QueueRow],
             NEW ls \in SUBSET [t : Tasks, n : Seqnos, seen : LeaseRow],
             Open(s, op, NoTask, NoRow, qs, ls),
             scanned' \in [Sessions -> BOOLEAN]
      PROVE  IInv'
  <2>. DEFINE new == [op |-> op, t |-> NoTask, row |-> NoRow, queues |-> qs, leases |-> ls]
  <2>1. new \in TxnType
    BY <1>1 DEF TxnType, Operations
  <2>. QED BY Zenon, <1>1, <1>4, <2>1, OpenInv DEF Open, Creating, Continuing
<1>5. ASSUME NEW t \in Tasks, BeginSubmit(s, t) PROVE IInv'
  BY <1>5, <1>2 DEF BeginSubmit, Creating
<1>6. ASSUME NEW t \in Tasks, BeginStartUncheckpointed(s, t) PROVE IInv'
  BY <1>6, <1>2 DEF BeginStartUncheckpointed, Creating
<1>7. ASSUME NEW t \in Tasks, BeginStartExhausted(s, t) PROVE IInv'
  BY <1>7, <1>2 DEF BeginStartExhausted, Creating
<1>8. ASSUME NEW t \in Tasks, BeginResume(s, t) PROVE IInv'
  <2>. DEFINE qs == IF scanned[s] THEN {} ELSE ScanQueues
              ls == IF scanned[s] THEN {} ELSE ScanLeases
  <2>1. /\ qs \in SUBSET [t : Tasks, n : Seqnos, seen : QueueRow]
        /\ ls \in SUBSET [t : Tasks, n : Seqnos, seen : LeaseRow]
    BY <1>1, ScanTypes
  <2>2. /\ Open(s, "resume", t, task[t], qs, ls)
        /\ scanned' \in [Sessions -> BOOLEAN]
        /\ task[t].last < MaxAttempts /\ task[t].ckpt # 0
        /\ task[t].state = "CHECKPOINTED"
    BY <1>8, <1>1 DEF BeginResume, OpenAfterScan
  <2>. HIDE DEF qs, ls
  <2>. QED BY Zenon, <2>1, <2>2, <1>3 DEF Continuing
<1>9. ASSUME NEW t \in Tasks, BeginStartRecovery(s, t) PROVE IInv'
  <2>1. /\ Open(s, "startRecovery", t, task[t], {}, {})
        /\ scanned' \in [Sessions -> BOOLEAN]
        /\ task[t].last < MaxAttempts /\ task[t].ckpt # 0
        /\ task[t].state = "CHECKPOINTED"
    BY <1>9, <1>1 DEF BeginStartRecovery, OpenUnscanned
  <2>. QED BY Zenon, <2>1, <1>3 DEF Continuing
<1>10. ASSUME NEW t \in Tasks, BeginStartRecoveryAgain(s, t) PROVE IInv'
  <2>1. /\ Open(s, "startRecoveryAgain", t, task[t], {}, {})
        /\ scanned' \in [Sessions -> BOOLEAN]
        /\ task[t].last < MaxAttempts /\ task[t].ckpt # 0
        /\ task[t].state = "RUNNING"
    BY <1>10, <1>1 DEF BeginStartRecoveryAgain, OpenUnscanned
  <2>. QED BY <2>1, <1>3 DEF Continuing
<1>11. CASE BeginScan(s)
  BY <1>11, <1>4, <1>1, ScanTypes DEF BeginScan
<1>12. CASE BeginRebuild(s)
  BY <1>12, <1>4, <1>1, ScanTypes DEF BeginRebuild, OpenUnscanned
<1>13. CASE BeginTick(s)
  <2>. DEFINE Held(u) == /\ task[u].state = "RUNNING"
                         /\ att[u][task[u].last] = "RUNNING"
                         /\ lease[u][task[u].last].state = "HELD"
              ls == {[t |-> t, n |-> task[t].last, seen |-> lease[t][task[t].last]] :
                        t \in {u \in Tasks : Held(u)}}
  <2>1. \A u \in Tasks : Held(u) => task[u].last \in Seqnos
    BY <1>1 DEF RowFacts, Exists, TaskRow, Seqnos, SeqnosOrNone
  <2>2. ls \in SUBSET [t : Tasks, n : Seqnos, seen : LeaseRow]
    BY <1>1, <2>1 DEF TypeOK
  <2>3. Open(s, "tick", NoTask, NoRow, {}, ls) /\ scanned' = scanned
    BY Zenon, <1>13 DEF BeginTick, OpenUnscanned
  <2>. HIDE DEF ls
  <2>. QED BY <2>2, <2>3, <1>1, <1>4
<1>. QED BY <1>5, <1>6, <1>7, <1>8, <1>9, <1>10, <1>11, <1>12, <1>13 DEF Begin

\* Every commit of a session preserves the invariant.
LEMMA CommitInv ==
  ASSUME IInv, NEW s \in Sessions, NEW late \in BOOLEAN, Commit(s, late)
  PROVE  IInv'
<1>. USE RuntimeAssumption
<1>1. \A st \in TaskStates, n, m \in SeqnosOrNone : Row(st, n, m) \in TaskRow
  BY DEF Row, TaskRow
<1>2. \A k \in QueueKinds, r \in Nat : Queued(k, r) \in QueueRow
  BY DEF Queued, QueueRow
<1>3. \A st \in {"HELD", "RELEASED"} : Leased(st, 0) \in LeaseRow
  BY DEF Leased, LeaseRow
<1>4. 0 \in SeqnosOrNone /\ 1 \in SeqnosOrNone /\ Seqnos \subseteq SeqnosOrNone
  BY DEF Seqnos, SeqnosOrNone
<1>5. QueueKindOf(Priority[txn[s].t]) \in QueueKinds
  BY QueueKindType
<1>6. CASE CommitSubmit(s, late)
  <2>. DEFINE row == Row("CHECKPOINTED", 1, 1)
  <2>1. row \in TaskRow /\ AttemptStateFor(row.state) = "CHECKPOINTED"
    BY <1>1, <1>4 DEF TaskStates, AttemptStateFor, Row
  <2>2. Queued(QueueKindOf(Priority[txn[s].t]), 0) \in QueueRow
    BY <1>2, <1>5
  <2>3. Leased("RELEASED", 0) \in LeaseRow
    BY <1>3
  <2>4. CommitsFirst(s, late, row, "resumable",
                Queued(QueueKindOf(Priority[txn[s].t]), 0), Leased("RELEASED", 0))
    BY <1>6, <2>1 DEF CommitSubmit, CommitsFirst, Creating
  <2>5. "resumable" \in Checkpoints
    BY DEF Checkpoints
  <2>. HIDE DEF row
  <2>. QED BY <2>1, <2>2, <2>3, <2>4, <2>5, CreateInv
<1>7. CASE CommitStartUncheckpointed(s, late)
  <2>. DEFINE row == Row("RUNNING", 1, 0)
  <2>1. row \in TaskRow /\ AttemptStateFor(row.state) = "RUNNING"
    BY <1>1, <1>4 DEF TaskStates, AttemptStateFor, Row
  <2>2. Queued(QueueKindOf(Priority[txn[s].t]), 0) \in QueueRow
    BY <1>2, <1>5
  <2>3. Leased("HELD", 0) \in LeaseRow
    BY <1>3
  <2>4. CommitsFirst(s, late, row, "none",
                Queued(QueueKindOf(Priority[txn[s].t]), 0), Leased("HELD", 0))
    BY <1>7, <2>1 DEF CommitStartUncheckpointed, CommitsFirst, Creating
  <2>5. "none" \in Checkpoints
    BY DEF Checkpoints
  <2>. HIDE DEF row
  <2>. QED BY <2>1, <2>2, <2>3, <2>4, <2>5, CreateInv
<1>8. CASE CommitStartExhausted(s, late)
  <2>. DEFINE row == Row("QUEUED", 1, 0)
  <2>1. row \in TaskRow /\ AttemptStateFor(row.state) = "FAILED"
    BY <1>1, <1>4 DEF TaskStates, AttemptStateFor, Row
  <2>2. Queued("RETRY", MaxRetries) \in QueueRow
    BY <1>2 DEF QueueKinds, MaxRetries
  <2>3. Leased("HELD", 0) \in LeaseRow
    BY <1>3
  <2>4. CommitsFirst(s, late, row, "none", Queued("RETRY", MaxRetries), Leased("HELD", 0))
    BY <1>8, <2>1 DEF CommitStartExhausted, CommitsFirst, Creating
  <2>5. "none" \in Checkpoints
    BY DEF Checkpoints
  <2>. HIDE DEF row
  <2>. QED BY <2>1, <2>2, <2>3, <2>4, <2>5, CreateInv
<1>9. ASSUME txn[s].op \in Continuing
      PROVE  /\ txn[s].row.last + 1 \in SeqnosOrNone
             /\ task[txn[s].t].ckpt \in SeqnosOrNone
             /\ Queued(QueueKindOf(Priority[txn[s].t]), (txn[s].row.last + 1) - 1)
                    \in QueueRow
  <2>1. txn[s].row.last \in Seqnos /\ txn[s].row.last + 1 \in Seqnos /\ txn[s].t \in Tasks
    BY <1>9 DEF IInv, SessionFacts
  <2>2. PICK r : r = (txn[s].row.last + 1) - 1
    OBVIOUS
  <2>3. r \in Nat
    BY <2>1, <2>2 DEF Seqnos
  <2>4. task[txn[s].t] \in TaskRow
    BY <2>1 DEF IInv, TypeOK
  <2>5. Queued(QueueKindOf(Priority[txn[s].t]), r) \in QueueRow
    BY <2>3, <1>2, <1>5
  <2>. QED BY <2>1, <2>2, <2>4, <2>5, <1>4 DEF TaskRow
<1>10. CASE CommitResume(s, late)
  <2>. DEFINE n == txn[s].row.last + 1
              row == Row("COMPLETED", n, n)
  <2>1. txn[s].op \in Continuing
    BY <1>10 DEF CommitResume, Continuing
  <2>2. row \in TaskRow /\ row.state = "COMPLETED"
    BY <1>1, <1>9, <2>1 DEF TaskStates, Row
  <2>3. Queued(QueueKindOf(Priority[txn[s].t]), n - 1) \in QueueRow
    BY <1>9, <2>1
  <2>4. Leased("RELEASED", 0) \in LeaseRow
    BY <1>3
  <2>5. CommitsNext(s, late, row, "final",
                  Queued(QueueKindOf(Priority[txn[s].t]), n - 1), Leased("RELEASED", 0))
    BY Zenon, <1>10, <2>1, <2>2 DEF CommitResume, CommitsNext
  <2>6. "final" \in Checkpoints
    BY DEF Checkpoints
  <2>. HIDE DEF n, row
  <2>. QED BY <2>2, <2>3, <2>4, <2>5, <2>6, ContinueInv
<1>11. CASE CommitStartRecovery(s, late)
  <2>. DEFINE n == txn[s].row.last + 1
              row == Row("RUNNING", n, task[txn[s].t].ckpt)
  <2>1. txn[s].op \in Continuing
    BY Zenon, <1>11 DEF CommitStartRecovery, Continuing
  <2>2. row \in TaskRow /\ row.state = "RUNNING"
    BY <1>1, <1>9, <2>1 DEF TaskStates, Row
  <2>3. Queued(QueueKindOf(Priority[txn[s].t]), n - 1) \in QueueRow
    BY <1>9, <2>1
  <2>4. Leased("HELD", 0) \in LeaseRow
    BY <1>3
  <2>5. CommitsNext(s, late, row, "none",
                  Queued(QueueKindOf(Priority[txn[s].t]), n - 1), Leased("HELD", 0))
    BY Zenon, <1>11, <2>1, <2>2 DEF CommitStartRecovery, CommitsNext
  <2>6. "none" \in Checkpoints
    BY DEF Checkpoints
  <2>. HIDE DEF n, row
  <2>. QED BY <2>2, <2>3, <2>4, <2>5, <2>6, ContinueInv
<1>12. ASSUME Close(s)
       PROVE  /\ txn' \in [Sessions -> TxnType]
              /\ \A r \in Sessions : txn'[r] = txn[r] \/ txn'[r] = Idle
  BY <1>12, RestTypes DEF Close, IInv, TypeOK, TxnType
<1>13. CASE CommitScan(s, late)
  <2>1. TypeOK'
    BY Zenon, <1>12, <1>13, AppendTypes DEF CommitScan, IInv, TypeOK, TxnType
  <2>. QED BY Zenon, <1>12, <1>13, <2>1, FrameInv DEF CommitScan
<1>14. CASE CommitTick(s, late)
  <2>1. Leased("HELD", 1) \in LeaseRow
    BY DEF Leased, LeaseRow
  <2>2. lease' \in [Tasks -> [Seqnos -> LeaseRow]]
    BY <1>14, <2>1 DEF CommitTick, IInv, TypeOK
  <2>3. TypeOK'
    BY Zenon, <1>12, <1>14, <2>2 DEF CommitTick, IInv, TypeOK, TxnType
  <2>. QED BY Zenon, <1>12, <1>14, <2>3, FrameInv DEF CommitTick
<1>. QED BY <1>6, <1>7, <1>8, <1>10, <1>11, <1>13, <1>14 DEF Commit
=============================================================================
