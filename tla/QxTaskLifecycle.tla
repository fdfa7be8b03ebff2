-------------------------- MODULE QxTaskLifecycle --------------------------
(***************************************************************************)
(* What the runtime promises about one row of pg_qx_task: every committed  *)
(* change is one of a few moves made from the row as it then was.  This is *)
(* the row a serial execution of the operations would produce, although    *)
(* the operations act on rows they read earlier.  No variable but the row  *)
(* appears, and a transaction may move several tasks at once.              *)
(***************************************************************************)
EXTENDS Integers

CONSTANT Tasks
VARIABLE life   \* [Tasks -> [state, last, ckpt]]

Absent == [state |-> "none", last |-> 0, ckpt |-> 0]

\* RUN TASK stops at its checkpoint; the two fixtures start a task that runs
\* without one and a task whose retries are used up.
Created(r, q) ==
    /\ r = Absent
    /\ q \in {[state |-> "CHECKPOINTED", last |-> 1, ckpt |-> 1],
              [state |-> "RUNNING", last |-> 1, ckpt |-> 0],
              [state |-> "QUEUED", last |-> 1, ckpt |-> 0]}

\* A recovery attempt is opened on a checkpointed task.
Reopened(r, q) ==
    /\ r.state = "CHECKPOINTED"
    /\ q = [state |-> "RUNNING", last |-> r.last + 1, ckpt |-> r.ckpt]

\* RESUME TASK runs the task to its end.
Completed(r, q) ==
    /\ r.state = "CHECKPOINTED"
    /\ q = [state |-> "COMPLETED", last |-> r.last + 1, ckpt |-> r.last + 1]

\* A running attempt without a lease goes back to the checkpoint, or to the
\* queue when there is none.
Repaired(r, q) ==
    /\ r.state = "RUNNING"
    /\ q = [r EXCEPT !.state = IF r.ckpt # 0 THEN "CHECKPOINTED" ELSE "QUEUED"]

\* A queued task is retried up to its checkpoint, or given up.
Retried(r, q) ==
    /\ r.state = "QUEUED"
    /\ q = [state |-> "CHECKPOINTED", last |-> r.last + 1, ckpt |-> r.last + 1]

DeadLettered(r, q) ==
    /\ r.state = "QUEUED"
    /\ q = [r EXCEPT !.state = "FAILED"]

Moves(r, q) ==
    \/ q = r
    \/ Created(r, q) \/ Reopened(r, q) \/ Completed(r, q)
    \/ Repaired(r, q) \/ Retried(r, q) \/ DeadLettered(r, q)

Init == life = [t \in Tasks |-> Absent]
Next == \A t \in Tasks : Moves(life[t], life'[t])
Spec == Init /\ [][Next]_life
=============================================================================
