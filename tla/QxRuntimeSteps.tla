--------------------------- MODULE QxRuntimeSteps ---------------------------
(***************************************************************************)
(* What one step of QxRuntime can do to one task, and what follows: the    *)
(* action properties, and that QxRuntime implements QxTaskLifecycle.       *)
(***************************************************************************)
EXTENDS QxRuntimeProofs

SameAttempts(t) == \A m \in Seqnos : att'[t][m] = "none" <=> att[t][m] = "none"

AddsAttempt(t, n) ==
    \A m \in Seqnos : att'[t][m] # "none" <=> (m = n \/ att[t][m] # "none")

Creates(t) ==
    /\ ~Exists(t)
    /\ task'[t] \in {Row("CHECKPOINTED", 1, 1), Row("RUNNING", 1, 0), Row("QUEUED", 1, 0)}
    /\ AddsAttempt(t, 1)

Continues(s, t) ==
    LET n == txn[s].row.last + 1
    IN  /\ txn[s].op \in Continuing /\ txn[s].t = t
        /\ n \in Seqnos /\ SeqnoFree(t, n)
        /\ \/ txn[s].op = "resume" /\ task'[t] = Row("COMPLETED", n, n)
           \/ task'[t] = Row("RUNNING", n, task[t].ckpt)
        /\ AddsAttempt(t, n)

Reclaims(w, t) ==
    /\ wk[w].todo[t] = "reclaim"
    /\ task'[t] = Reclaimed(wk[w].seen[t].row)
    /\ SameAttempts(t)
    /\ wk'[w] = Resting("retry")

GivesUp(w, t) ==
    /\ wk[w].todo[t] = "dead"
    /\ task'[t] = Row("FAILED", wk[w].seen[t].row.last, 0)
    /\ SameAttempts(t)
    /\ wk'[w] = Resting("supervise")

Retries(w, t) ==
    LET n == wk[w].seen[t].row.last + 1
    IN  /\ wk[w].todo[t] = "pick"
        /\ n \in Seqnos /\ SeqnoFree(t, n)
        /\ task'[t] = Row("CHECKPOINTED", n, n)
        /\ AddsAttempt(t, n)
        /\ wk'[w] = Resting("supervise")

\* Only these six things happen to a task in a step.
TaskStep(t) ==
    \/ task'[t] = task[t] /\ SameAttempts(t)
    \/ Creates(t)
    \/ \E s \in Sessions : Continues(s, t)
    \/ \E w \in Workers : Reclaims(w, t) \/ GivesUp(w, t) \/ Retries(w, t)

\* A commit of a session changes at most the task it is about.
LEMMA SessionTaskStep ==
  ASSUME IInv, NEW s \in Sessions, SessionStep(s), NEW t \in Tasks
  PROVE  TaskStep(t)
<1>1. CASE UNCHANGED <<task, att>>
  BY <1>1 DEF TaskStep, SameAttempts
<1>2. ASSUME NEW late, NEW n \in Seqnos, NEW st \in AttemptStates \ {"none"}, NEW c,
             NEW q, NEW l, NEW row, txn[s].t \in Tasks,
             WriteAttempt(s, n, late, st, c, q, l),
             task' = [task EXCEPT ![txn[s].t] = row]
      PROVE  /\ txn[s].t # t => TaskStep(t)
             /\ txn[s].t = t => task'[t] = row /\ AddsAttempt(t, n)
  <2>1. att' = [att EXCEPT ![txn[s].t][n] = st]
    BY <1>2 DEF WriteAttempt
  <2>2. CASE txn[s].t # t
    <3>1. task'[t] = task[t] /\ att'[t] = att[t]
      BY <1>2, <2>1, <2>2 DEF IInv, TypeOK
    <3>. QED BY <2>2, <3>1 DEF TaskStep, SameAttempts
  <2>3. CASE txn[s].t = t
    <3>1. task'[t] = row
      BY <1>2, <2>3 DEF IInv, TypeOK
    <3>2. \A m \in Seqnos : att'[t][m] = IF m = n THEN st ELSE att[t][m]
      BY <1>2, <2>1, <2>3 DEF IInv, TypeOK
    <3>. QED BY <2>3, <3>1, <3>2 DEF AddsAttempt
  <2>. QED BY <2>2, <2>3
<1>3. ASSUME NEW late \in BOOLEAN, txn[s].op \in Creating,
             CommitSubmit(s, late) \/ CommitStartUncheckpointed(s, late)
             \/ CommitStartExhausted(s, late)
      PROVE  TaskStep(t)
  <2>1. txn[s].t \in Tasks /\ ~Exists(txn[s].t) /\ 1 \in Seqnos
    BY <1>3, RuntimeAssumption DEF IInv, SessionFacts, Seqnos
  <2>2. {"CHECKPOINTED", "RUNNING", "FAILED"} \subseteq AttemptStates \ {"none"}
    BY DEF AttemptStates
  <2>3. ASSUME NEW row, NEW st \in AttemptStates \ {"none"},
               task' = [task EXCEPT ![txn[s].t] = row],
               \E c, q, l : WriteAttempt(s, 1, late, st, c, q, l),
               row \in {Row("CHECKPOINTED", 1, 1), Row("RUNNING", 1, 0),
                        Row("QUEUED", 1, 0)}
        PROVE  TaskStep(t)
    <3>1. /\ txn[s].t # t => TaskStep(t)
          /\ txn[s].t = t => task'[t] = row /\ AddsAttempt(t, 1)
      BY Zenon, <1>2, <2>1, <2>3
    <3>. QED BY <2>1, <2>3, <3>1 DEF TaskStep, Creates
  <2>4. CASE CommitSubmit(s, late)
    <3>1. \E c, q, l : WriteAttempt(s, 1, late, "CHECKPOINTED", c, q, l)
      BY <2>4 DEF CommitSubmit
    <3>. QED BY Zenon, <2>2, <2>3, <2>4, <3>1 DEF CommitSubmit
  <2>5. CASE CommitStartUncheckpointed(s, late)
    <3>1. \E c, q, l : WriteAttempt(s, 1, late, "RUNNING", c, q, l)
      BY <2>5 DEF CommitStartUncheckpointed
    <3>. QED BY Zenon, <2>2, <2>3, <2>5, <3>1 DEF CommitStartUncheckpointed
  <2>6. CASE CommitStartExhausted(s, late)
    <3>1. \E c, q, l : WriteAttempt(s, 1, late, "FAILED", c, q, l)
      BY <2>6 DEF CommitStartExhausted
    <3>. QED BY Zenon, <2>2, <2>3, <2>6, <3>1 DEF CommitStartExhausted
  <2>. QED BY <1>3, <2>4, <2>5, <2>6
<1>4. ASSUME NEW late \in BOOLEAN, CommitResume(s, late) \/ CommitStartRecovery(s, late)
      PROVE  TaskStep(t)
  <2>. DEFINE n == txn[s].row.last + 1
  <2>1. txn[s].op \in Continuing
    BY <1>4 DEF CommitResume, CommitStartRecovery, Continuing
  <2>2. txn[s].t \in Tasks /\ n \in Seqnos
    BY <2>1 DEF IInv, SessionFacts
  <2>3. {"COMPLETED", "RUNNING"} \subseteq AttemptStates \ {"none"}
    BY DEF AttemptStates
  <2>4. CASE CommitResume(s, late)
    <3>1. /\ SeqnoFree(txn[s].t, n) /\ txn[s].op = "resume"
          /\ task' = [task EXCEPT ![txn[s].t] = Row("COMPLETED", n, n)]
          /\ \E q, l : WriteAttempt(s, n, late, "COMPLETED", "final", q, l)
      BY <2>4 DEF CommitResume
    <3>2. /\ txn[s].t # t => TaskStep(t)
          /\ txn[s].t = t => task'[t] = Row("COMPLETED", n, n) /\ AddsAttempt(t, n)
      <4>. HIDE DEF n
      <4>. QED BY Zenon, <1>2, <2>2, <2>3, <3>1
    <3>. QED BY <2>1, <2>2, <3>1, <3>2 DEF TaskStep, Continues
  <2>5. CASE CommitStartRecovery(s, late)
    <3>1. /\ SeqnoFree(txn[s].t, n)
          /\ task' = [task EXCEPT ![txn[s].t] = Row("RUNNING", n, task[txn[s].t].ckpt)]
          /\ \E q, l : WriteAttempt(s, n, late, "RUNNING", "none", q, l)
      BY <2>5 DEF CommitStartRecovery
    <3>2. /\ txn[s].t # t => TaskStep(t)
          /\ txn[s].t = t => task'[t] = Row("RUNNING", n, task[t].ckpt) /\ AddsAttempt(t, n)
      <4>. HIDE DEF n
      <4>. QED BY Zenon, <1>2, <2>2, <2>3, <3>1
    <3>. QED BY <2>1, <2>2, <3>1, <3>2 DEF TaskStep, Continues
  <2>. QED BY <1>4, <2>4, <2>5
<1>5. CASE Begin(s) \/ Abort(s) \/ Reconnect(s)
  BY Zenon, <1>1, <1>5
     DEF Begin, BeginSubmit, BeginResume, BeginStartUncheckpointed, BeginStartExhausted,
         BeginStartRecovery, BeginStartRecoveryAgain, BeginScan, BeginRebuild, BeginTick,
         OpenAfterScan, OpenUnscanned, Open, Abort, Reconnect
<1>6. ASSUME NEW late \in BOOLEAN, Commit(s, late) PROVE TaskStep(t)
  <2>1. CASE CommitScan(s, late) \/ CommitTick(s, late)
    BY <2>1, <1>1 DEF CommitScan, CommitTick
  <2>2. CASE CommitSubmit(s, late) \/ CommitStartUncheckpointed(s, late)
             \/ CommitStartExhausted(s, late)
    <3>1. txn[s].op \in Creating
      BY <2>2 DEF CommitSubmit, CommitStartUncheckpointed, CommitStartExhausted, Creating
    <3>. QED BY <2>2, <3>1, <1>3
  <2>. QED BY <1>4, <1>6, <2>1, <2>2 DEF Commit
<1>. QED BY <1>5, <1>6 DEF SessionStep
\* A commit of a worker changes the tasks it planned to change.
LEMMA WorkerTaskStep ==
  ASSUME IInv, NEW w \in Workers, WorkerStep(w), NEW t \in Tasks
  PROVE  TaskStep(t)
<1>1. CASE UNCHANGED <<task, att>>
  BY <1>1 DEF TaskStep, SameAttempts
<1>2. ASSUME NEW late \in BOOLEAN, CommitSupervise(w, late) PROVE TaskStep(t)
  <2>1. /\ task'[t] = IF wk[w].todo[t] = "reclaim" THEN Reclaimed(wk[w].seen[t].row)
                      ELSE task[t]
        /\ \A m \in Seqnos :
               att'[t][m] = IF wk[w].todo[t] = "reclaim" /\ wk[w].seen[t].row.last = m
                            THEN ReclaimedAttempt(wk[w].seen[t].row) ELSE att[t][m]
    BY <1>2 DEF CommitSupervise
  <2>2. wk[w].todo[t] = "reclaim" => att[t][wk[w].seen[t].row.last] # "none"
    BY DEF IInv, WorkerFacts
  <2>3. \A r : ReclaimedAttempt(r) # "none"
    BY DEF ReclaimedAttempt
  <2>4. SameAttempts(t)
    BY <2>1, <2>2, <2>3 DEF SameAttempts
  <2>5. wk'[w] = Resting("retry")
    BY <1>2 DEF CommitSupervise, IInv, TypeOK
  <2>. QED BY <2>1, <2>4, <2>5 DEF TaskStep, Reclaims
<1>3. ASSUME NEW late \in BOOLEAN, CommitRetry(w, late) PROVE TaskStep(t)
  <2>. DEFINE n == wk[w].seen[t].row.last
  <2>1. /\ task'[t] = IF wk[w].todo[t] = "dead" THEN Row("FAILED", n, 0)
                      ELSE IF wk[w].todo[t] = "pick" THEN Row("CHECKPOINTED", n + 1, n + 1)
                      ELSE task[t]
        /\ \A m \in Seqnos :
               att'[t][m] = IF wk[w].todo[t] = "dead" /\ m = n THEN "FAILED"
                            ELSE IF wk[w].todo[t] = "pick" /\ m = n + 1 THEN "CHECKPOINTED"
                            ELSE att[t][m]
        /\ wk[w].todo[t] = "pick" => n < MaxAttempts /\ SeqnoFree(t, n + 1)
    BY Zenon, <1>3 DEF CommitRetry
  <2>0. wk'[w] = Resting("supervise")
    BY <1>3 DEF CommitRetry, IInv, TypeOK
  <2>2. CASE wk[w].todo[t] = "dead"
    <3>1. WorkerFacts(w, t) /\ RowFacts(t)
      BY DEF IInv
    <3>2. att[t][n] # "none"
      BY <2>2, <3>1 DEF WorkerFacts, RowFacts, Exists, AttemptStateFor
    <3>3. SameAttempts(t)
      BY <2>1, <2>2, <3>2 DEF SameAttempts
    <3>. QED BY <2>0, <2>1, <2>2, <3>3 DEF TaskStep, GivesUp
  <2>3. CASE wk[w].todo[t] = "pick"
    <3>1. n + 1 \in Seqnos
      <4>1. n \in Seqnos
        BY <2>3 DEF IInv, WorkerFacts
      <4>2. n < MaxAttempts
        BY <2>1, <2>3
      <4>. HIDE DEF n
      <4>. QED BY <4>1, <4>2, Successor
    <3>2. AddsAttempt(t, n + 1)
      BY <2>1, <2>3 DEF AddsAttempt
    <3>3. Retries(w, t)
      BY Zenon, <2>0, <2>1, <2>3, <3>1, <3>2 DEF Retries
    <3>. QED BY <3>3 DEF TaskStep
  <2>4. CASE wk[w].todo[t] # "dead" /\ wk[w].todo[t] # "pick"
    BY <2>1, <2>4 DEF TaskStep, SameAttempts
  <2>. QED BY <2>2, <2>3, <2>4
<1>4. CASE BeginSupervise(w) \/ AbortSupervise(w) \/ BeginRetry(w) \/ AbortRetry(w)
  BY <1>1, <1>4 DEF BeginSupervise, AbortSupervise, BeginRetry, AbortRetry
<1>. QED BY <1>2, <1>3, <1>4 DEF WorkerStep

\* So does every step: whoever takes it, a task sees one of the moves of TaskStep.
LEMMA EveryTaskStep ==
  ASSUME IInv, [Next]_vars, NEW t \in Tasks
  PROVE  TaskStep(t)
<1>1. CASE UNCHANGED <<task, att>>
  BY <1>1 DEF TaskStep, SameAttempts
<1>2. CASE Clock \/ Crash \/ UNCHANGED vars
  BY <1>1, <1>2 DEF Clock, LeaseExpires, BackoffElapses, Crash, vars
<1>. QED BY <1>2, SessionTaskStep, WorkerTaskStep DEF Next

\* Every row, transaction and worker pass of the runtime keeps its type.
THEOREM RuntimeTypes ==
  ASSUME OneWorkerPerTask
  PROVE  Spec => []TypeOK
<1>1. IInv => TypeOK
  BY DEF IInv
<1>. QED BY <1>1, Consistency, PTL

\* The task row and its last attempt row never contradict each other.
THEOREM RowsStayConsistent ==
  ASSUME OneWorkerPerTask
  PROVE  Spec => []RowsAgree
<1>1. IInv => RowsAgree
  BY DEF IInv, RowFacts, RowsAgree
<1>. QED BY <1>1, Consistency, PTL

\* RESUME TASK finds a checkpoint with a next step on every CHECKPOINTED task.
THEOREM CheckpointedStaysResumable ==
  ASSUME OneWorkerPerTask
  PROVE  Spec => []CheckpointedIsResumable
<1>1. IInv => CheckpointedIsResumable
  BY DEF IInv, RowFacts, CheckpointedIsResumable
<1>. QED BY <1>1, Consistency, PTL

\* What the invariant says of a task before the step that changes it.
LEMMA StepFacts ==
  ASSUME IInv, NEW t \in Tasks
  PROVE  /\ task[t] \in TaskRow
         /\ \A s \in Sessions : Continues(s, t) =>
                /\ task[t].state \in {"CHECKPOINTED", "RUNNING"}
                /\ task[t].state = "RUNNING" => txn[s].op = "startRecoveryAgain"
                /\ task[t].ckpt # 0 /\ task[t].ckpt < txn[s].row.last + 1
                /\ txn[s].row.last \in Seqnos /\ att[t][txn[s].row.last] # "none"
         /\ \A w \in Workers :
                /\ Reclaims(w, t) => /\ task[t].state = "RUNNING"
                                     /\ task[t].ckpt = wk[w].seen[t].row.ckpt
                /\ GivesUp(w, t) \/ Retries(w, t) =>
                       /\ task[t].state = "QUEUED" /\ task[t].ckpt = 0
                       /\ task[t] = wk[w].seen[t].row
<1>1. task[t] \in TaskRow /\ RowFacts(t)
  BY DEF IInv, TypeOK
<1>2. ASSUME NEW s \in Sessions, Continues(s, t)
      PROVE  /\ task[t].state \in {"CHECKPOINTED", "RUNNING"}
             /\ task[t].state = "RUNNING" => txn[s].op = "startRecoveryAgain"
             /\ task[t].ckpt # 0 /\ task[t].ckpt < txn[s].row.last + 1
             /\ txn[s].row.last \in Seqnos /\ att[t][txn[s].row.last] # "none"
  <2>1. /\ txn[s].op \in Continuing /\ txn[s].t = t
        /\ txn[s].row.last + 1 \in Seqnos /\ att[t][txn[s].row.last + 1] = "none"
    BY <1>2 DEF Continues, SeqnoFree
  <2>2. SessionFacts(s)
    BY DEF IInv
  <2>3. /\ task[t].state \in {"CHECKPOINTED", "RUNNING"} /\ task[t].ckpt # 0
        /\ task[t].state = "RUNNING" => txn[s].op = "startRecoveryAgain"
        /\ txn[s].row.last \in Seqnos /\ att[t][txn[s].row.last] # "none"
    BY <2>1, <2>2 DEF SessionFacts, SeqnoFree
  <2>4. task[t].ckpt \in Seqnos
    BY <1>1, <2>3 DEF TaskRow, Seqnos, SeqnosOrNone
  <2>5. att[t][task[t].ckpt] # "none"
    BY <1>1, <2>3, <2>4 DEF RowFacts
  <2>6. task[t].ckpt < txn[s].row.last + 1
    BY <1>1, <2>1, <2>3, <2>4, <2>5 DEF RowFacts, Seqnos
  <2>. QED BY <2>3, <2>6
<1>3. ASSUME NEW w \in Workers
      PROVE  /\ Reclaims(w, t) => /\ task[t].state = "RUNNING"
                                  /\ task[t].ckpt = wk[w].seen[t].row.ckpt
             /\ GivesUp(w, t) \/ Retries(w, t) =>
                    /\ task[t].state = "QUEUED" /\ task[t].ckpt = 0
                    /\ task[t] = wk[w].seen[t].row
  <2>1. WorkerFacts(w, t)
    BY DEF IInv
  <2>. QED BY Zenon, <1>1, <2>1 DEF WorkerFacts, RowFacts, Reclaims, GivesUp, Retries
<1>. QED BY <1>1, <1>2, <1>3

\* No step changes a COMPLETED or dead-lettered task or takes a checkpoint away.
LEMMA StepKeeps ==
  ASSUME IInv, [Next]_vars, NEW t \in Tasks
  PROVE  /\ task[t].state \in {"COMPLETED", "FAILED"} => task'[t] = task[t]
         /\ task[t].ckpt # 0 => task'[t].ckpt >= task[t].ckpt
<1>1. TaskStep(t)
  BY EveryTaskStep
<1>2. task[t].ckpt \in Nat /\ task[t] \in TaskRow
  BY StepFacts DEF TaskRow, SeqnosOrNone
<1>3. CASE task'[t] = task[t]
  BY <1>2, <1>3
<1>4. CASE Creates(t)
  <2>1. task[t] = NoRow
    BY <1>4 DEF Creates, IInv, RowFacts, Exists
  <2>. QED BY <2>1 DEF NoRow, Row
<1>5. ASSUME NEW s \in Sessions, Continues(s, t)
      PROVE  /\ task[t].state \notin {"COMPLETED", "FAILED"}
             /\ task'[t].ckpt >= task[t].ckpt
  <2>1. /\ task[t].state \in {"CHECKPOINTED", "RUNNING"}
        /\ task[t].ckpt < txn[s].row.last + 1 /\ txn[s].row.last \in Seqnos
    BY <1>5, StepFacts
  <2>2. task'[t].ckpt \in {task[t].ckpt, txn[s].row.last + 1}
    BY <1>5 DEF Continues, Row
  <2>. QED BY <1>2, <2>1, <2>2 DEF Seqnos
<1>6. ASSUME NEW w \in Workers, Reclaims(w, t)
      PROVE  /\ task[t].state \notin {"COMPLETED", "FAILED"}
             /\ task'[t].ckpt >= task[t].ckpt
  <2>1. task[t].state = "RUNNING" /\ task[t].ckpt = wk[w].seen[t].row.ckpt
    BY <1>6, StepFacts
  <2>2. task'[t].ckpt = wk[w].seen[t].row.ckpt
    BY <1>6 DEF Reclaims, Reclaimed, Row
  <2>. QED BY <1>2, <2>1, <2>2
<1>7. ASSUME NEW w \in Workers, GivesUp(w, t) \/ Retries(w, t)
      PROVE  task[t].state = "QUEUED" /\ task[t].ckpt = 0
  BY <1>7, StepFacts
<1>. QED BY <1>1, <1>3, <1>4, <1>5, <1>6, <1>7 DEF TaskStep

\* No late commit of a session or a worker brings a finished task back.
THEOREM FinalStates ==
  ASSUME OneWorkerPerTask
  PROVE  Spec => FinalStatesStay
<1>1. IInv /\ [Next]_vars =>
          [\A t \in Tasks : task[t].state \in {"COMPLETED", "FAILED"} =>
              task'[t] = task[t]]_task
  BY StepKeeps
<1>. QED BY <1>1, Consistency, PTL DEF Spec, FinalStatesStay

\* A task never goes back behind its latest checkpoint.
THEOREM CheckpointsKept ==
  ASSUME OneWorkerPerTask
  PROVE  Spec => CheckpointKept
<1>1. IInv /\ [Next]_vars =>
          [\A t \in Tasks : task[t].ckpt # 0 => task'[t].ckpt >= task[t].ckpt]_task
  BY StepKeeps
<1>. QED BY <1>1, Consistency, PTL DEF Spec, CheckpointKept

\* A step leaves a worker's transaction alone, ends it, or begins it with a
\* read of the rows as they are.
LEMMA EveryWorkerStep ==
  ASSUME IInv, [Next]_vars, NEW v \in Workers
  PROVE  \/ wk'[v] = wk[v]
         \/ \E pc : wk'[v] = Resting(pc)
         \/ /\ task' = task
            /\ \A t \in Tasks : wk'[v].todo[t] # "none" => wk'[v].seen[t].row = task[t]
<1>. DEFINE Goal == \/ wk'[v] = wk[v]
                    \/ \E pc : wk'[v] = Resting(pc)
                    \/ /\ task' = task
                       /\ \A t \in Tasks : wk'[v].todo[t] # "none" =>
                                               wk'[v].seen[t].row = task[t]
<1>1. CASE UNCHANGED wk
  BY <1>1
<1>2. ASSUME NEW s \in Sessions, SessionStep(s) PROVE UNCHANGED wk
  BY Zenon, <1>2
     DEF SessionStep, Begin, BeginSubmit, BeginResume, BeginStartUncheckpointed,
         BeginStartExhausted, BeginStartRecovery, BeginStartRecoveryAgain, BeginScan,
         BeginRebuild, BeginTick, OpenAfterScan, OpenUnscanned, Open, Commit,
         CommitSubmit, CommitResume, CommitStartUncheckpointed, CommitStartExhausted,
         CommitStartRecovery, CommitScan, CommitTick, Abort, Reconnect
<1>3. ASSUME NEW w \in Workers, NEW pc, NEW todo, Plan(w, pc, todo), task' = task
      PROVE  Goal
  <2>1. CASE v # w
    BY <1>3, <2>1 DEF Plan, IInv, TypeOK
  <2>2. CASE v = w
    <3>1. wk'[v] = [pc |-> pc, todo |-> todo,
                    seen |-> [t \in Tasks |-> IF todo[t] = "none" THEN NoSeen
                                                                 ELSE SeenNow(t)]]
      BY <1>3, <2>2 DEF Plan, IInv, TypeOK
    <3>2. \A t \in Tasks : wk'[v].todo[t] # "none" => wk'[v].seen[t].row = task[t]
      BY <3>1 DEF SeenNow
    <3>. QED BY <1>3, <3>2
  <2>. QED BY <2>1, <2>2
<1>4. ASSUME NEW w \in Workers, NEW pc, wk' = [wk EXCEPT ![w] = Resting(pc)]
      PROVE  Goal
  BY <1>4 DEF IInv, TypeOK
<1>5. ASSUME NEW w \in Workers, WorkerStep(w) PROVE Goal
  <2>1. CASE BeginSupervise(w)
    BY <2>1, <1>3 DEF BeginSupervise
  <2>2. CASE BeginRetry(w)
    <3>1. \E todo : Plan(w, "retrying", todo)
      BY <2>2 DEF BeginRetry
    <3>. QED BY <2>2, <3>1, <1>3 DEF BeginRetry
  <2>3. CASE AbortSupervise(w) \/ AbortRetry(w)
    BY <2>3, <1>4 DEF AbortSupervise, AbortRetry
  <2>4. ASSUME NEW late \in BOOLEAN, CommitSupervise(w, late) \/ CommitRetry(w, late)
        PROVE  Goal
    BY Zenon, <2>4, <1>4 DEF CommitSupervise, CommitRetry
  <2>. QED BY <1>5, <2>1, <2>2, <2>3, <2>4 DEF WorkerStep
<1>6. CASE Crash
  BY <1>6 DEF Crash
<1>7. CASE Clock \/ UNCHANGED vars
  BY <1>7 DEF Clock, LeaseExpires, BackoffElapses, vars
<1>. QED BY <1>1, <1>2, <1>5, <1>6, <1>7 DEF Next

\* A session only opens transactions for the operations in use.
LEMMA EverySessionStep ==
  ASSUME IInv, [Next]_vars, NEW r \in Sessions
  PROVE  txn'[r] = txn[r] \/ txn'[r].op \in Ops \cup {"idle"}
<1>. DEFINE Goal == txn'[r] = txn[r] \/ txn'[r].op \in Ops \cup {"idle"}
<1>1. ASSUME NEW s \in Sessions, Close(s) PROVE Goal
  BY <1>1 DEF Close, Idle, IInv, TypeOK
<1>2. ASSUME NEW s \in Sessions, NEW op, NEW t, NEW row, NEW q, NEW l,
             Open(s, op, t, row, q, l)
      PROVE  Goal
  BY <1>2 DEF Open, IInv, TypeOK
<1>3. ASSUME NEW s \in Sessions, SessionStep(s) PROVE Goal
  <2>1. CASE Begin(s)
    BY Zenon, <2>1, <1>2
       DEF Begin, BeginSubmit, BeginResume, BeginStartUncheckpointed,
           BeginStartExhausted, BeginStartRecovery, BeginStartRecoveryAgain, BeginScan,
           BeginRebuild, BeginTick, OpenAfterScan, OpenUnscanned
  <2>2. CASE Abort(s) \/ Reconnect(s) \/ \E late \in BOOLEAN : Commit(s, late)
    BY Zenon, <2>2, <1>1
       DEF Commit, CommitSubmit, CommitResume, CommitStartUncheckpointed,
           CommitStartExhausted, CommitStartRecovery, CommitScan, CommitTick, Abort,
           Reconnect
  <2>. QED BY <1>3, <2>1, <2>2 DEF SessionStep
<1>4. ASSUME NEW w \in Workers, WorkerStep(w) PROVE UNCHANGED txn
  BY Zenon, <1>4 DEF WorkerStep, BeginSupervise, AbortSupervise, BeginRetry, AbortRetry,
              CommitSupervise, CommitRetry
<1>5. CASE Crash
  BY Zenon, <1>5 DEF Crash, Idle
<1>6. CASE Clock \/ UNCHANGED vars
  BY <1>6 DEF Clock, LeaseExpires, BackoffElapses, vars
<1>. QED BY <1>3, <1>4, <1>5, <1>6 DEF Next

\* The last of the sequence numbers up to k is k.
LEMMA Squeezed ==
  ASSUME NEW i \in Seqnos, NEW k \in SeqnosOrNone, i <= k, ~(i + 1 <= k)
  PROVE  k = i
  BY RuntimeAssumption DEF Seqnos, SeqnosOrNone

\* With no recovery attempt opened on a RUNNING task, the attempt a session
\* adds is the one after the task's last.
LEMMA ContinuesAtLast ==
  ASSUME IInv, ExactFacts, NEW s \in Sessions, NEW t \in Tasks, Continues(s, t)
  PROVE  /\ task[t].state = "CHECKPOINTED"
         /\ task[t].last \in Seqnos /\ txn[s].row.last = task[t].last
<1>1. /\ task[t].state \in {"CHECKPOINTED", "RUNNING"}
      /\ task[t].state = "RUNNING" => txn[s].op = "startRecoveryAgain"
      /\ txn[s].row.last \in Seqnos /\ att[t][txn[s].row.last] # "none"
      /\ task[t] \in TaskRow
  BY StepFacts
<1>2. txn[s].row.last + 1 \in Seqnos /\ att[t][txn[s].row.last + 1] = "none"
  BY DEF Continues, SeqnoFree
<1>3. txn[s].op # "startRecoveryAgain"
  BY DEF ExactFacts
<1>4. /\ txn[s].row.last <= task[t].last
      /\ ~(txn[s].row.last + 1 <= task[t].last)
  BY <1>1, <1>2 DEF ExactFacts, LastIsNewest
<1>5. task[t].last \in SeqnosOrNone
  BY <1>1 DEF TaskRow
<1>. QED BY <1>1, <1>3, <1>4, <1>5, Squeezed

\* ... and so is the one a retry adds, and a worker's read is the row itself.
LEMMA WorkerAtLast ==
  ASSUME IInv, ExactFacts, NEW w \in Workers, NEW t \in Tasks,
         Reclaims(w, t) \/ GivesUp(w, t) \/ Retries(w, t)
  PROVE  wk[w].seen[t].row = task[t] /\ Owns(w, t) /\ task[t].last \in Seqnos
<1>1. wk[w].todo[t] # "none"
  BY DEF Reclaims, GivesUp, Retries
<1>2. task[t] = wk[w].seen[t].row
  BY <1>1 DEF ExactFacts
<1>. QED BY <1>1, <1>2 DEF IInv, WorkerFacts

\* A step that finds the last attempt of every task its newest leaves it so.
LEMMA LastStaysNewest ==
  ASSUME IInv, ExactFacts, [Next]_vars
  PROVE  LastIsNewest'
<1>. SUFFICES ASSUME NEW t \in Tasks, NEW m \in Seqnos
              PROVE  att'[t][m] # "none" <=> m <= task'[t].last
  BY DEF LastIsNewest
<1>1. att[t][m] # "none" <=> m <= task[t].last
  BY DEF ExactFacts, LastIsNewest
<1>2. TaskStep(t)
  BY EveryTaskStep
<1>3. CASE task'[t] = task[t] /\ SameAttempts(t)
  BY <1>1, <1>3 DEF SameAttempts
<1>4. CASE Creates(t)
  <2>1. task[t].last = 0
    BY <1>4 DEF Creates, IInv, RowFacts, Exists, NoRow, Row
  <2>2. task'[t].last = 1
    BY <1>4 DEF Creates, Row
  <2>. QED BY <1>1, <1>4, <2>1, <2>2 DEF Creates, AddsAttempt, Seqnos
<1>5. ASSUME NEW s \in Sessions, Continues(s, t)
      PROVE  att'[t][m] # "none" <=> m <= task'[t].last
  <2>1. task[t].last \in Seqnos /\ txn[s].row.last = task[t].last
    BY <1>5, ContinuesAtLast
  <2>2. task'[t].last = task[t].last + 1 /\ AddsAttempt(t, task[t].last + 1)
    BY <1>5, <2>1 DEF Continues, Row
  <2>. QED BY <1>1, <2>1, <2>2 DEF AddsAttempt, Seqnos
<1>6. ASSUME NEW w \in Workers, Reclaims(w, t) \/ GivesUp(w, t)
      PROVE  att'[t][m] # "none" <=> m <= task'[t].last
  <2>1. wk[w].seen[t].row = task[t]
    BY <1>6, WorkerAtLast
  <2>2. task'[t].last = task[t].last /\ SameAttempts(t)
    BY <1>6, <2>1 DEF Reclaims, GivesUp, Reclaimed, Row
  <2>. QED BY <1>1, <2>2 DEF SameAttempts
<1>7. ASSUME NEW w \in Workers, Retries(w, t)
      PROVE  att'[t][m] # "none" <=> m <= task'[t].last
  <2>1. wk[w].seen[t].row = task[t] /\ task[t].last \in Seqnos
    BY <1>7, WorkerAtLast
  <2>2. task'[t].last = task[t].last + 1 /\ AddsAttempt(t, task[t].last + 1)
    BY <1>7, <2>1 DEF Retries, Row
  <2>. QED BY <1>1, <2>1, <2>2 DEF AddsAttempt, Seqnos
<1>. QED BY <1>2, <1>3, <1>4, <1>5, <1>6, <1>7 DEF TaskStep

\* ExactFacts is inductive next to IInv, if no recovery attempt is opened on a
\* RUNNING task.
LEMMA ExactInv ==
  ASSUME IInv, ExactFacts, OneWorkerPerTask, "startRecoveryAgain" \notin Ops, [Next]_vars
  PROVE  ExactFacts'
<1>1. LastIsNewest'
  BY LastStaysNewest
<1>2. \A s \in Sessions : txn'[s].op # "startRecoveryAgain"
  BY EverySessionStep DEF ExactFacts
<1>3. ASSUME NEW v \in Workers, NEW t \in Tasks, wk'[v].todo[t] # "none"
      PROVE  task'[t] = wk'[v].seen[t].row
  <2>1. CASE \E pc : wk'[v] = Resting(pc)
    BY <1>3, <2>1 DEF Resting
  <2>2. CASE /\ task' = task
             /\ \A u \in Tasks : wk'[v].todo[u] # "none" => wk'[v].seen[u].row = task[u]
    BY <1>3, <2>2
  <2>3. CASE wk'[v] = wk[v] /\ ~\E pc : wk'[v] = Resting(pc)
    <3>1. /\ wk[v].todo[t] # "none" /\ task[t] = wk[v].seen[t].row
          /\ Owns(v, t) /\ task[t].state \in {"RUNNING", "QUEUED"}
      <4>1. wk[v].todo[t] # "none"
        BY <1>3, <2>3
      <4>2. task[t] = wk[v].seen[t].row
        BY <4>1 DEF ExactFacts
      <4>3. WorkerFacts(v, t)
        BY DEF IInv
      <4>4. task[t].state \in {"RUNNING", "QUEUED"}
        BY <4>1, BusyTask
      <4>. QED BY <4>1, <4>2, <4>3, <4>4 DEF WorkerFacts
    <3>2. ~Creates(t)
      BY <3>1 DEF Creates, Exists
    <3>3. \A s \in Sessions : ~Continues(s, t)
      BY <3>1, ContinuesAtLast
    <3>4. ASSUME NEW w \in Workers
          PROVE  ~(Reclaims(w, t) \/ GivesUp(w, t) \/ Retries(w, t))
      <4>. SUFFICES ASSUME Reclaims(w, t) \/ GivesUp(w, t) \/ Retries(w, t) PROVE FALSE
        OBVIOUS
      <4>1. w = v
        BY <3>1, WorkerAtLast DEF OneWorkerPerTask
      <4>. QED BY <2>3, <4>1 DEF Reclaims, GivesUp, Retries
    <3>5. task'[t] = task[t]
      BY <3>2, <3>3, <3>4, EveryTaskStep DEF TaskStep
    <3>. QED BY <2>3, <3>1, <3>5
  <2>. QED BY <2>1, <2>2, <2>3, EveryWorkerStep
<1>. QED BY <1>1, <1>2, <1>3 DEF ExactFacts

\* The exact facts hold in the empty catalogs.
LEMMA ExactInit == Init => ExactFacts
<1>. SUFFICES ASSUME Init PROVE ExactFacts
  OBVIOUS
<1>1. LastIsNewest
  <2>1. \A t \in Tasks, n \in Seqnos : att[t][n] = "none" /\ task[t].last = 0
    BY DEF Init, NoRow, Row
  <2>. QED BY <2>1 DEF LastIsNewest, Seqnos
<1>2. \A s \in Sessions : txn[s].op = "idle"
  BY DEF Init, Idle
<1>3. \A w \in Workers, t \in Tasks : wk[w].todo[t] = "none"
  BY DEF Init, Resting
<1>. QED BY <1>1, <1>2, <1>3 DEF ExactFacts

\* The last attempt of a task is its newest one, so the next seqno is free.
THEOREM LastNewest ==
  ASSUME OneWorkerPerTask, "startRecoveryAgain" \notin Ops
  PROVE  Spec => []LastIsNewest
<1>1. Init => ExactFacts
  BY ExactInit
<1>2. IInv /\ ExactFacts /\ [Next]_vars => ExactFacts'
  BY ExactInv
<1>3. ExactFacts => LastIsNewest
  BY DEF ExactFacts
<1>. QED BY <1>1, <1>2, <1>3, Consistency, PTL DEF Spec

\* Each of the six things that happen to a task is a move of QxTaskLifecycle.
LEMMA StepMoves ==
  ASSUME IInv, ExactFacts, [Next]_vars, NEW t \in Tasks
  PROVE  Lifecycle!Moves(task[t], task'[t])
<1>1. TaskStep(t) /\ task[t] \in TaskRow
  BY EveryTaskStep, StepFacts
<1>2. CASE task'[t] = task[t]
  BY <1>2 DEF Lifecycle!Moves
<1>3. CASE Creates(t)
  <2>1. task[t] = NoRow
    BY <1>3 DEF Creates, IInv, RowFacts, Exists
  <2>. QED BY <1>3, <2>1
           DEF Creates, Lifecycle!Moves, Lifecycle!Created, Lifecycle!Absent, NoRow, Row
<1>4. ASSUME NEW s \in Sessions, Continues(s, t)
      PROVE  Lifecycle!Moves(task[t], task'[t])
  <2>1. task[t].state = "CHECKPOINTED" /\ txn[s].row.last = task[t].last
    BY <1>4, ContinuesAtLast
  <2>. QED BY <1>4, <2>1
           DEF Continues, Lifecycle!Moves, Lifecycle!Completed, Lifecycle!Reopened, Row
<1>5. ASSUME NEW w \in Workers, Reclaims(w, t)
      PROVE  Lifecycle!Moves(task[t], task'[t])
  <2>1. task[t].state = "RUNNING" /\ wk[w].seen[t].row = task[t]
    BY <1>5, StepFacts, WorkerAtLast
  <2>2. task'[t] = [task[t] EXCEPT !.state = IF task[t].ckpt # 0 THEN "CHECKPOINTED"
                                                                ELSE "QUEUED"]
    BY <1>1, <1>5, <2>1 DEF Reclaims, Reclaimed, Row, TaskRow
  <2>. QED BY <2>1, <2>2 DEF Lifecycle!Moves, Lifecycle!Repaired
<1>6. ASSUME NEW w \in Workers, GivesUp(w, t)
      PROVE  Lifecycle!Moves(task[t], task'[t])
  <2>1. /\ task[t].state = "QUEUED" /\ task[t].ckpt = 0
        /\ wk[w].seen[t].row = task[t]
    BY <1>6, StepFacts
  <2>2. task'[t] = [task[t] EXCEPT !.state = "FAILED"]
    BY <1>1, <1>6, <2>1 DEF GivesUp, Row, TaskRow
  <2>. QED BY <2>1, <2>2 DEF Lifecycle!Moves, Lifecycle!DeadLettered
<1>7. ASSUME NEW w \in Workers, Retries(w, t)
      PROVE  Lifecycle!Moves(task[t], task'[t])
  <2>1. task[t].state = "QUEUED" /\ wk[w].seen[t].row = task[t]
    BY <1>7, StepFacts
  <2>. QED BY Zenon, <1>7, <2>1 DEF Retries, Lifecycle!Moves, Lifecycle!Retried, Row
<1>. QED BY <1>1, <1>2, <1>3, <1>4, <1>5, <1>6, <1>7 DEF TaskStep

\* The runtime's concurrent transactions implement the serial life of a task.
THEOREM Refinement ==
  ASSUME OneWorkerPerTask, "startRecoveryAgain" \notin Ops
  PROVE  Spec => ImplementsLifecycle
<1>1. Init => ExactFacts
  BY ExactInit
<1>2. Init => Lifecycle!Init
  BY DEF Init, Lifecycle!Init, Lifecycle!Absent, NoRow, Row
<1>3. IInv /\ ExactFacts /\ [Next]_vars => ExactFacts'
  BY ExactInv
<1>4. IInv /\ ExactFacts /\ [Next]_vars => [Lifecycle!Next]_task
  BY StepMoves DEF Lifecycle!Next
<1>. QED BY <1>1, <1>2, <1>3, <1>4, Consistency, PTL
         DEF Spec, ImplementsLifecycle, Lifecycle!Spec
=============================================================================
