---------------------------- MODULE QxRuntimeInv ----------------------------
(***************************************************************************)
(* The inductive invariant behind the properties of QxRuntime: what the    *)
(* rows of a task have to do with one another, and what is still true of   *)
(* the rows an open transaction read when it commits.                      *)
(***************************************************************************)
EXTENDS QxRuntime

Creating == {"submit", "startUncheckpointed", "startExhausted"}
Continuing == {"resume", "startRecovery", "startRecoveryAgain"}

\* A task is changed by one worker at most, because slots partition the tasks
\* and one worker serves a slot.
OneWorkerPerTask ==
    \A v, w \in Workers, t \in Tasks : Owns(v, t) /\ Owns(w, t) => v = w

\* The rows of one task.  Attempts are numbered without gaps, every checkpoint
\* belongs to an attempt, and where the task may still need its checkpoint that
\* one is resumable.
RowFacts(t) ==
    /\ task[t].state = "none" =>
           task[t] = NoRow /\ \A n \in Seqnos : att[t][n] = "none"
    /\ Exists(t) =>
           task[t].last # 0 /\ att[t][task[t].last] = AttemptStateFor(task[t].state)
    /\ \A m, n \in Seqnos : m <= n /\ att[t][n] # "none" => att[t][m] # "none"
    /\ \A n \in Seqnos : ckpt[t][n] # "none" => att[t][n] # "none"
    /\ task[t].state = "CHECKPOINTED" => task[t].ckpt # 0
    /\ task[t].state \in {"QUEUED", "FAILED"} => task[t].ckpt = 0
    /\ task[t].state \in {"CHECKPOINTED", "RUNNING"} /\ task[t].ckpt # 0 =>
           ckpt[t][task[t].ckpt] = "resumable"

\* An open transaction of a session.  A new task is still absent and nobody
\* else creates it.  A transaction that continues a task can insert its attempt
\* only while nobody continued the task since it was read.
SessionFacts(s) ==
    /\ txn[s].op \in Creating =>
           /\ txn[s].t \in Tasks /\ ~Exists(txn[s].t)
           /\ \A r \in Sessions : r # s => txn[r].t # txn[s].t
    /\ txn[s].op \in Continuing =>
           /\ txn[s].t \in Tasks /\ Exists(txn[s].t)
           /\ txn[s].row.last \in Seqnos /\ txn[s].row.last + 1 \in Seqnos
           /\ att[txn[s].t][txn[s].row.last] # "none"
           /\ SeqnoFree(txn[s].t, txn[s].row.last + 1) =>
                  /\ task[txn[s].t].ckpt # 0
                  /\ \/ task[txn[s].t].state = "CHECKPOINTED"
                     \/ /\ task[txn[s].t].state = "RUNNING"
                        /\ txn[s].op = "startRecoveryAgain"

\* An open transaction of a worker.  The tasks it is about to change are its
\* own, so they are where it found them.
WorkerFacts(w, t) ==
    /\ wk[w].todo[t] # "none" => Owns(w, t) /\ wk[w].seen[t].row.last \in Seqnos
    /\ wk[w].todo[t] \in {"renew", "reclaim"} =>
           /\ wk[w].pc = "supervising"
           /\ task[t].state = "RUNNING"
           /\ task[t].ckpt = wk[w].seen[t].row.ckpt
           /\ att[t][wk[w].seen[t].row.last] # "none"
    /\ wk[w].todo[t] \in {"dead", "pick"} =>
           /\ wk[w].pc = "retrying"
           /\ task[t] = wk[w].seen[t].row
           /\ task[t].state = "QUEUED"

\* The inductive invariant: types, rows, and the reads of open transactions.
IInv ==
    /\ TypeOK
    /\ \A t \in Tasks : RowFacts(t)
    /\ \A s \in Sessions : SessionFacts(s)
    /\ \A w \in Workers, t \in Tasks : WorkerFacts(w, t)

\* With no recovery attempt opened on a RUNNING task: no gap above the last
\* attempt either, and a worker's read of a task row is exact.
ExactFacts ==
    /\ LastIsNewest
    /\ \A s \in Sessions : txn[s].op # "startRecoveryAgain"
    /\ \A w \in Workers, t \in Tasks :
           wk[w].todo[t] # "none" => task[t] = wk[w].seen[t].row
=============================================================================
