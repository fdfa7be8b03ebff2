---------------------------- MODULE QxLauncher ----------------------------
(***************************************************************************)
(* The scheduler launcher (runtime/qx_runtime.c) and the part of the       *)
(* postmaster it stands on (postmaster/bgworker.c and postmaster.c): how   *)
(* the workers that run the scheduler cycles come to exist, are restarted  *)
(* and are stopped.                                                        *)
(*                                                                         *)
(* The launcher keeps, in its own memory, one handle per worker it has     *)
(* registered.  The registrations live in a shared array of                *)
(* max_worker_processes slots, and the postmaster keeps its own list of    *)
(* the registrations it has noticed.  The three views change in separate   *)
(* steps of separate processes.                                            *)
(***************************************************************************)
EXTENDS Integers, FiniteSets

CONSTANTS
    Dbs,        \* databases that may be connectable
    SlotCount,  \* QX_SCHEDULER_DB_WORKER_SLOTS, fixed for a server start
    NumSlots,   \* of max_worker_processes, what is left to these workers
    Faults,     \* kinds of fault that happen: "worker", "launcher", "crash"
    MaxFaults,  \* bound: faults in a behaviour
    MaxChanges  \* bound: databases that start or stop being connectable

ASSUME LauncherAssumption ==
    /\ SlotCount \in 1..8
    /\ NumSlots \in Nat
    /\ MaxFaults \in Nat
    /\ MaxChanges \in Nat

VARIABLES
    targets,    \* the databases qx_runtime_scheduler_db_targets would return
    slot,       \* BackgroundWorkerData->slot[], with the postmaster's entry
    handles,    \* the launcher's list `workers`
    inspect,    \* handles the current launcher cycle has still to look at
    wanted,     \* (database, slot) pairs this cycle has still to provide for
    faults,     \* number of faults so far
    changes     \* number of changes of targets so far

vars == <<targets, slot, handles, inspect, wanted, faults, changes>>

Slots == 1..NumSlots
KeysOf(dbs) == dbs \X (0..SlotCount - 1)
Keys == KeysOf(Dbs)

(***************************************************************************)
(* A slot: in use or not, which worker it holds, its generation, its pid   *)
(* ("notyet" is InvalidPid, "zero" is 0) and its terminate flag; then      *)
(* whether the postmaster has the worker on its list, and rw_terminate.    *)
(***************************************************************************)
NoKey == <<>>

Slot == [use : BOOLEAN, key : Keys \cup {NoKey}, gen : Nat,
         pid : {"notyet", "up", "zero"}, term : BOOLEAN,
         known : BOOLEAN, rwterm : BOOLEAN]

\* What the launcher keeps of a worker: its BackgroundWorkerHandle (slot and
\* generation), database and slot index.
Handle == [at : Slots, gen : Nat, key : Keys]

FreeSlot(gen) ==
    [use |-> FALSE, key |-> NoKey, gen |-> gen, pid |-> "zero",
     term |-> FALSE, known |-> FALSE, rwterm |-> FALSE]

Registered(k, gen) ==
    [use |-> TRUE, key |-> k, gen |-> gen, pid |-> "notyet",
     term |-> FALSE, known |-> FALSE, rwterm |-> FALSE]

Free == {i \in Slots : ~slot[i].use}

Init ==
    /\ targets \in SUBSET Dbs
    /\ slot = [i \in Slots |-> FreeSlot(0)]
    /\ handles = {}
    /\ inspect = {}
    /\ wanted = {}
    /\ faults = 0
    /\ changes = 0

-----------------------------------------------------------------------------
(* The launcher's cycle.                                                   *)

\* GetBackgroundWorkerPid: a slot that was reused, freed or whose pid is 0
\* reads as BGWH_STOPPED.
Stopped(h) ==
    \/ slot[h.at].gen # h.gen
    \/ ~slot[h.at].use
    \/ slot[h.at].pid = "zero"

\* The request is not made.
TerminateNothing(h) == slot

\* TerminateBackgroundWorker.
Terminated(h) ==
    IF slot[h.at].gen = h.gen THEN [slot EXCEPT ![h.at].term = TRUE] ELSE slot

\* The targets of the first cycle that launched something are kept for ever.
CycleCachedTargets ==
    /\ inspect = {} /\ wanted = {}
    /\ inspect' = handles
    /\ wanted' = IF handles = {} THEN KeysOf(targets) ELSE {h.key : h \in handles}
    /\ UNCHANGED <<targets, slot, handles, faults, changes>>

\* The start of an iteration: read the targets and the slot count.
Cycle ==
    /\ inspect = {} /\ wanted = {}
    /\ inspect' = handles
    /\ wanted' = KeysOf(targets)
    /\ UNCHANGED <<targets, slot, handles, faults, changes>>

\* The entry is freed and still inspected.
ForgetStoppedInPlace(h) ==
    /\ h \in inspect
    /\ Stopped(h)
    /\ handles' = handles \ {h}
    /\ UNCHANGED <<targets, slot, inspect, wanted, faults, changes>>

\* A remembered worker that reads as stopped is forgotten.
ForgetStopped(h) ==
    /\ h \in inspect
    /\ Stopped(h)
    /\ inspect' = inspect \ {h}
    /\ handles' = handles \ {h}
    /\ UNCHANGED <<targets, slot, wanted, faults, changes>>

\* The worker is terminated and stays on the list.
StopAndRemember(h) ==
    /\ h \in inspect
    /\ ~Stopped(h)
    /\ h.key \notin wanted
    /\ slot' = Terminated(h)
    /\ inspect' = inspect \ {h}
    /\ UNCHANGED <<targets, handles, wanted, faults, changes>>

\* A remembered worker whose database is no target any more is terminated
\* and forgotten.
StopUnwanted(h) ==
    /\ h \in inspect
    /\ ~Stopped(h)
    /\ h.key \notin wanted
    /\ slot' = Terminated(h)
    /\ inspect' = inspect \ {h}
    /\ handles' = handles \ {h}
    /\ UNCHANGED <<targets, wanted, faults, changes>>

KeepAlive(h) ==
    /\ h \in inspect
    /\ ~Stopped(h)
    /\ h.key \in wanted
    /\ inspect' = inspect \ {h}
    /\ UNCHANGED <<targets, slot, handles, wanted, faults, changes>>

\* The search for a remembered worker finds none.
NeverFound(k) == FALSE

\* qx_runtime_find_scheduler_db_worker
Remembered(k) == \E h \in handles : h.key = k

AlreadyThere(k) ==
    /\ inspect = {}
    /\ k \in wanted
    /\ Remembered(k)
    /\ wanted' = wanted \ {k}
    /\ UNCHANGED <<targets, slot, handles, inspect, faults, changes>>

\* RegisterDynamicBackgroundWorker takes the first free slot and counts its
\* generation up; the launcher remembers the handle.
Launch(k) ==
    /\ inspect = {}
    /\ k \in wanted
    /\ ~Remembered(k)
    /\ \E i \in Free :
          /\ \A j \in Free : i <= j
          /\ slot' = [slot EXCEPT ![i] = Registered(k, slot[i].gen + 1)]
          /\ handles' = handles \cup {[at |-> i, gen |-> slot[i].gen + 1, key |-> k]}
    /\ wanted' = wanted \ {k}
    /\ UNCHANGED <<targets, inspect, faults, changes>>

\* No slot is free: a WARNING, and the next cycle tries again.
LaunchFails(k) ==
    /\ inspect = {}
    /\ k \in wanted
    /\ ~Remembered(k)
    /\ Free = {}
    /\ wanted' = wanted \ {k}
    /\ UNCHANGED <<targets, slot, handles, inspect, faults, changes>>

LauncherStep ==
    \/ Cycle
    \/ \E h \in inspect : ForgetStopped(h) \/ StopUnwanted(h) \/ KeepAlive(h)
    \/ \E k \in wanted : AlreadyThere(k) \/ Launch(k) \/ LaunchFails(k)

-----------------------------------------------------------------------------
(* The postmaster.                                                         *)

\* BackgroundWorkerStateChange, one slot: a new registration goes on the
\* list, or is freed at once when it is already to be terminated.
NoticeNew(i) ==
    /\ slot[i].use /\ ~slot[i].known
    /\ slot' = [slot EXCEPT ![i] =
                   IF @.term THEN FreeSlot(@.gen) ELSE [@ EXCEPT !.known = TRUE]]
    /\ UNCHANGED <<targets, handles, inspect, wanted, faults, changes>>

\* The same function finds the terminate flag of a worker on the list: SIGTERM
\* when it runs, pid 0 reported when it does not.
NoticeTerminate(i) ==
    /\ slot[i].known /\ slot[i].term /\ ~slot[i].rwterm
    /\ slot' = [slot EXCEPT ![i] =
                   [@ EXCEPT !.rwterm = TRUE,
                             !.pid = IF slot[i].pid = "up" THEN "up" ELSE "zero"]]
    /\ UNCHANGED <<targets, handles, inspect, wanted, faults, changes>>

\* maybe_start_bgworkers, one entry: start or restart it, or forget it.
StartWorker(i) ==
    /\ slot[i].known /\ slot[i].pid # "up" /\ ~slot[i].rwterm
    /\ slot' = [slot EXCEPT ![i].pid = "up"]
    /\ UNCHANGED <<targets, handles, inspect, wanted, faults, changes>>

ForgetWorker(i) ==
    /\ slot[i].known /\ slot[i].pid # "up" /\ slot[i].rwterm
    /\ slot' = [slot EXCEPT ![i] = FreeSlot(@.gen)]
    /\ UNCHANGED <<targets, handles, inspect, wanted, faults, changes>>

\* A worker that got SIGTERM exits and its slot is freed
\* (CleanupBackgroundWorker, ReportBackgroundWorkerExit).
WorkerStops(i) ==
    /\ slot[i].pid = "up" /\ slot[i].rwterm
    /\ slot' = [slot EXCEPT ![i] = FreeSlot(@.gen)]
    /\ UNCHANGED <<targets, handles, inspect, wanted, faults, changes>>

-----------------------------------------------------------------------------
(* The environment.                                                        *)

Fault(kind) ==
    /\ kind \in Faults
    /\ faults < MaxFaults
    /\ faults' = faults + 1

\* An error outside the worker's PG_TRY blocks ends it with exit code 1: pid
\* 0 is reported, the entry stays on the list to be restarted.
WorkerFails(i) ==
    /\ Fault("worker")
    /\ slot[i].pid = "up" /\ ~slot[i].rwterm
    /\ slot' = [slot EXCEPT ![i].pid = "zero"]
    /\ UNCHANGED <<targets, handles, inspect, wanted, changes>>

\* The launcher ends with an error and is restarted: its list is gone.
LauncherFails ==
    /\ Fault("launcher")
    /\ handles' = {} /\ inspect' = {} /\ wanted' = {}
    /\ UNCHANGED <<targets, slot, changes>>

\* The slot array is rebuilt from the postmaster's list
\* (ResetBackgroundWorkerCrashTimes, BackgroundWorkerShmemInit), which keeps
\* rw_terminate and drops what was not yet noticed.
Rebuilt(i) ==
    IF slot[i].known
    THEN [Registered(slot[i].key, 0) EXCEPT !.known = TRUE, !.rwterm = slot[i].rwterm]
    ELSE FreeSlot(0)

\* A crash restart: every process ends, and the launcher starts anew.
ServerCrash ==
    /\ Fault("crash")
    /\ slot' = [i \in Slots |-> Rebuilt(i)]
    /\ handles' = {} /\ inspect' = {} /\ wanted' = {}
    /\ UNCHANGED <<targets, changes>>

\* CREATE or DROP DATABASE, or a change of datallowconn.
TargetsChange(d) ==
    /\ changes < MaxChanges
    /\ changes' = changes + 1
    /\ targets' = IF d \in targets THEN targets \ {d} ELSE targets \cup {d}
    /\ UNCHANGED <<slot, handles, inspect, wanted, faults>>

-----------------------------------------------------------------------------
PostmasterStep(i) ==
    \/ NoticeNew(i)
    \/ NoticeTerminate(i)
    \/ StartWorker(i)
    \/ ForgetWorker(i)
    \/ WorkerStops(i)

Next ==
    \/ LauncherStep
    \/ \E i \in Slots : PostmasterStep(i) \/ WorkerFails(i)
    \/ LauncherFails
    \/ ServerCrash
    \/ \E d \in Dbs : TargetsChange(d)

(***************************************************************************)
(* The launcher naps three seconds at most between cycles and the          *)
(* postmaster handles its signals and restart times, so both keep moving;  *)
(* a worker told to stop stops.  Faults and changes need not happen.       *)
(***************************************************************************)
Fairness ==
    /\ WF_vars(LauncherStep)
    /\ \A i \in Slots : WF_vars(PostmasterStep(i))

Spec == Init /\ [][Next]_vars /\ Fairness

-----------------------------------------------------------------------------
(* Type invariant of the launcher's list, the slot array and the counters. *)
TypeOK ==
    /\ targets \subseteq Dbs
    /\ slot \in [Slots -> Slot]
    /\ handles \subseteq Handle
    /\ inspect \subseteq handles
    /\ wanted \subseteq Keys
    /\ faults \in 0..MaxFaults
    /\ changes \in 0..MaxChanges

\* The workers of a (database, slot) pair that are registered and not asked
\* to end.
Live(k) ==
    {i \in Slots : /\ slot[i].use
                   /\ slot[i].key = k
                   /\ ~slot[i].term
                   /\ ~slot[i].rwterm}

(***************************************************************************)
(* What the launcher remembers is never stale, whatever fails: each handle *)
(* names a slot in use, of the same generation, that holds the worker it   *)
(* was made for and that nobody asked to end; and no two handles are for   *)
(* the same (database, slot) pair.  So TerminateBackgroundWorker never     *)
(* reaches a worker of another database, and a pair the launcher skips     *)
(* because it is remembered really has a registered worker.                *)
(***************************************************************************)
HandlesNameWorkers ==
    /\ \A h \in handles :
          /\ slot[h.at].gen = h.gen
          /\ h.at \in Live(h.key)
    /\ \A g, h \in handles : g.key = h.key => g = h

(***************************************************************************)
(* A (database, slot) pair has at most one registered worker as long as    *)
(* nothing fails, whatever databases come and go.  After that each fault   *)
(* adds at most one, and so does each change of the targets, whose         *)
(* terminate request a crash can lose.                                     *)
(***************************************************************************)
DuplicatesBounded ==
    \A k \in Keys :
        Cardinality(Live(k)) <= 1 + (IF faults = 0 THEN 0 ELSE faults + changes)

(***************************************************************************)
(* Once faults and changes have ended, every slot of every target has a    *)
(* running worker, unless every background worker slot is taken.           *)
(***************************************************************************)
ServedUnlessFull ==
    <>[](\/ Free = {}
         \/ \A k \in KeysOf(targets) : \E i \in Live(k) : slot[i].pid = "up")

(***************************************************************************)
(* When nothing failed, the workers of databases that stopped being        *)
(* targets are all gone in the end and their slots are free again.         *)
(***************************************************************************)
UnwantedReaped ==
    <>[](faults = 0 =>
            \A i \in Slots : slot[i].use => slot[i].key \in KeysOf(targets))

(***************************************************************************)
(* "that launcher spawns a bounded slot set of dynamic scheduler workers   *)
(* per connectable database" (docs/stage-26/README.md:31): a database has  *)
(* no more registered scheduler workers than the slot count.               *)
(***************************************************************************)
BoundedSlotSet ==
    \A d \in Dbs :
        Cardinality({i \in Slots : slot[i].use /\ ~slot[i].term
                                     /\ slot[i].key \in KeysOf({d})}) <= SlotCount
=============================================================================
