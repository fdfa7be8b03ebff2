----------------------------- MODULE QxReplay -----------------------------
(***************************************************************************)
(* Semantic replay of checkpoints (pg_qx_test_run_semantic_replay and the  *)
(* replay part of pg_qx_test_run_failover_rebuild).  A call lists the      *)
(* checkpoints, looks for the recovery.semantic_replay trace of each, then *)
(* emits the logical message and the trace of those without one, and       *)
(* reports to the statistics table.  Message and trace belong to the       *)
(* transaction of the call; the report does not.                           *)
(*                                                                         *)
(* Calls of several backends interleave: no lock is held from the look at  *)
(* a trace to the insertion of one.  Every checkpoint row is DURABLE and   *)
(* has a semantic LSN.  The order of the list is left open.                *)
(***************************************************************************)
EXTENDS QxStat

CONSTANTS
    Checkpoints,  \* checkpoint oids
    Sessions,     \* backends that call a replay
    Recovery,     \* the entity of the recovery statistics
    MaxCalls      \* bound: replay calls in a behaviour

ASSUME ReplayAssumption == Recovery \in Keys /\ MaxCalls \in Nat

VARIABLES
    ckpt,     \* committed pg_qx_checkpoint rows
    trace,    \* trace[c][s]: committed replay traces of c that s wrote
    txn,      \* txn[s]: the transaction of a backend
    covered,  \* history: checkpoints that a committed call has listed
    owed,     \* history: committed calls the counter should show
    calls     \* replay calls so far

replayVars == <<ckpt, trace, txn, covered, owed, calls>>

vars == <<statVars, replayVars>>

NoTxn == [pc |-> "none", todo |-> {}, plan |-> {}, wrote |-> [c \in Checkpoints |-> 0],
          listed |-> {}, before |-> {}, reported |-> 0]

Traced(c) == \E s \in Sessions : trace[c][s] > 0

Init ==
    /\ StatInit
    /\ ckpt = {}
    /\ trace = [c \in Checkpoints |-> [s \in Sessions |-> 0]]
    /\ txn = [s \in Sessions |-> NoTxn]
    /\ covered = {}
    /\ owed = 0
    /\ calls = 0

-----------------------------------------------------------------------------
\* A task commits a checkpoint.
NewCheckpoint(c) ==
    /\ c \notin ckpt
    /\ ckpt' = ckpt \cup {c}
    /\ UNCHANGED <<statVars, trace, txn, covered, owed, calls>>

\* The list of checkpoints; a transaction may hold several calls.
List(s) ==
    /\ txn[s].pc \in {"none", "done"}
    /\ calls < MaxCalls
    /\ calls' = calls + 1
    /\ txn' = [txn EXCEPT ![s] =
                 [txn[s] EXCEPT
                    !.pc = "look", !.todo = ckpt, !.listed = txn[s].listed \cup ckpt,
                    !.before = IF txn[s].pc = "none" THEN {c \in Checkpoints : Traced(c)}
                               ELSE txn[s].before]]
    /\ UNCHANGED <<statVars, ckpt, trace, covered, owed>>

\* The trace of another transaction that has not committed counts.
SeesUncommitted(s, c) == Traced(c) \/ \E r \in Sessions : txn[r].wrote[c] > 0

\* Only committed traces count.
SeesCommitted(s, c) == Traced(c)

\* Only traces this backend wrote count.
SeesOwn(s, c) == trace[c][s] > 0 \/ txn[s].wrote[c] > 0

\* QxCatalogCheckpointHasSemanticReplay: a catalog snapshot of its own shows
\* what has committed and what the transaction itself wrote.
HasSemanticReplay(s, c) == Traced(c) \/ txn[s].wrote[c] > 0

Look(s, c) ==
    /\ txn[s].pc = "look"
    /\ c \in txn[s].todo
    /\ txn' = [txn EXCEPT ![s] =
                 [txn[s] EXCEPT
                    !.todo = txn[s].todo \ {c},
                    !.plan = IF HasSemanticReplay(s, c) THEN txn[s].plan
                             ELSE txn[s].plan \cup {c}]]
    /\ UNCHANGED <<statVars, ckpt, trace, covered, owed, calls>>

\* qx_runtime_recovery_replay_checkpoint.
Replay(s, c) ==
    /\ txn[s].pc = "look"
    /\ txn[s].todo = {}
    /\ c \in txn[s].plan
    /\ txn' = [txn EXCEPT ![s] = [txn[s] EXCEPT !.plan = txn[s].plan \ {c},
                                                !.wrote = [txn[s].wrote EXCEPT ![c] = @ + 1]]]
    /\ UNCHANGED <<statVars, ckpt, trace, covered, owed, calls>>

\* qx_runtime_recovery_finish reports the call before its transaction ends.
Finish(s) ==
    /\ txn[s].pc = "look"
    /\ txn[s].todo = {} /\ txn[s].plan = {}
    /\ CountReport(Recovery)
    /\ txn' = [txn EXCEPT ![s] =
                 [txn[s] EXCEPT !.pc = "done",
                                !.reported = txn[s].reported + IF HasRoom(Recovery) THEN 1 ELSE 0]]
    /\ UNCHANGED <<ckpt, trace, covered, owed, calls>>

Commit(s) ==
    /\ txn[s].pc = "done"
    /\ trace' = [c \in Checkpoints |->
                   [trace[c] EXCEPT ![s] = trace[c][s] + txn[s].wrote[c]]]
    /\ covered' = covered \cup txn[s].listed
    /\ owed' = owed + txn[s].reported
    /\ txn' = [txn EXCEPT ![s] = NoTxn]
    /\ UNCHANGED <<statVars, ckpt, calls>>

\* An error, a cancel or a rollback.
Abort(s) ==
    /\ txn[s].pc # "none"
    /\ txn' = [txn EXCEPT ![s] = NoTxn]
    /\ UNCHANGED <<statVars, ckpt, trace, covered, owed, calls>>

\* The calls before a reset are not expected in the counter.
Forgiven ==
    /\ owed' = 0
    /\ txn' = [s \in Sessions |-> [txn[s] EXCEPT !.reported = 0]]
    /\ UNCHANGED <<ckpt, trace, covered, calls>>

Crash ==
    /\ StatCrash
    /\ owed' = 0
    /\ txn' = [s \in Sessions |-> NoTxn]
    /\ UNCHANGED <<ckpt, trace, covered, calls>>

\* The statistics table in use by everyone else.
StatStep ==
    \/ \E k \in Keys \ {Recovery} : Report(k) /\ UNCHANGED replayVars
    \/ \E r \in Readers : \E k \in Keys : Lookup(r, k) /\ UNCHANGED replayVars
    \/ \E r \in Readers : Read(r) /\ UNCHANGED replayVars
    \/ \E kind \in StatKinds :
          /\ ResetKind(kind)
          /\ IF kind = KindOf[Recovery] THEN Forgiven ELSE UNCHANGED replayVars
    \/ ResetAll /\ Forgiven

Next ==
    \/ \E c \in Checkpoints : NewCheckpoint(c)
    \/ \E s \in Sessions : List(s) \/ Finish(s) \/ Commit(s) \/ Abort(s)
    \/ \E s \in Sessions : \E c \in Checkpoints : Look(s, c) \/ Replay(s, c)
    \/ Crash
    \/ StatStep

Spec == Init /\ [][Next]_vars

-----------------------------------------------------------------------------
(* Type invariant of the replay transactions and the statistics table.     *)
TypeOK ==
    /\ StatTypeOK
    /\ ckpt \subseteq Checkpoints
    /\ trace \in [Checkpoints -> [Sessions -> Nat]]
    /\ txn \in [Sessions -> [pc : {"none", "look", "done"},
                             todo : SUBSET Checkpoints, plan : SUBSET Checkpoints,
                             wrote : [Checkpoints -> Nat], listed : SUBSET Checkpoints,
                             before : SUBSET Checkpoints, reported : Nat]]
    /\ covered \subseteq Checkpoints
    /\ owed \in Nat
    /\ calls \in 0..MaxCalls

(***************************************************************************)
(* A backend replays a checkpoint at most once, over all its transactions  *)
(* and all the calls in them: the trace it left, committed or its own,     *)
(* suppresses the next replay.  So a checkpoint is replayed no more often  *)
(* than there are backends that call a replay.                             *)
(***************************************************************************)
OncePerBackend == \A c \in Checkpoints : \A s \in Sessions : trace[c][s] <= 1

(***************************************************************************)
(* Only replays that overlap in time replay a checkpoint twice: a          *)
(* transaction writes no trace of a checkpoint that had one when the       *)
(* transaction began.                                                      *)
(***************************************************************************)
OnlyOverlapping ==
    \A s \in Sessions : \A c \in txn[s].before : txn[s].wrote[c] = 0

(***************************************************************************)
(* A replay that commits leaves no checkpoint it listed without a trace:   *)
(* whatever it left to another replay had been committed by that one.      *)
(***************************************************************************)
ListedIsReplayed == \A c \in covered : Traced(c)

(***************************************************************************)
(* The counter of recovery shows every committed call since the last reset *)
(* that found room in the table, although it is counted before the commit  *)
(* and outside the transaction.                                            *)
(***************************************************************************)
CommittedIsCounted ==
    owed > 0 => \E i \in Slots : slot[i].key = Recovery /\ slot[i].n >= owed
=============================================================================
