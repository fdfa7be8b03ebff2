---------------------------- MODULE QxToolCall ----------------------------
(***************************************************************************)
(* A transaction that runs a task (RUN TASK, RESUME TASK, the worker's     *)
(* retry) seen from the tool call in it: the row of the task it locks, the *)
(* charges it makes against the task's budget (QxCatalogChargeTaskBudget), *)
(* and the lease of the container or microVM instance it registers in      *)
(* shared memory while it validates the reply                              *)
(* (qx_execute_tool_contract and the lease table of qx_stat.c).            *)
(*                                                                         *)
(* The row and its charges belong to the transaction and roll back with    *)
(* it.  The lease table does not: it is changed at once, under a spinlock, *)
(* and only a crash restart clears it.                                     *)
(***************************************************************************)
EXTENDS Integers, Sequences, FiniteSets

CONSTANTS
    Tasks,        \* task oids
    HookTasks,    \* oids the pg_qx_test_*_backend_lease functions are given
    Sessions,     \* backends and scheduler workers
    NoTask,
    Ids, NoId,    \* instance identifiers; an empty or missing one
    DanglingIds,  \* what the out-of-scope fallback buffer may read as
    TableSize,    \* QX_STAT_BACKEND_LEASE_SLOT_COUNT
    Dims,         \* what is charged: tokens and cost
    MaxInt,       \* the largest int32
    Budget,       \* Budget[t][d]: the ceiling of a task, 0 for none
    FixedDeltas,  \* the charges of the steps around the tool call
    ToolDeltas,   \* ToolDeltas[t]: what the tool of a task may charge
    MaxTxns       \* bound: transactions in a behaviour

ASSUME ToolCallAssumption ==
    /\ TableSize \in Nat
    /\ MaxInt \in Nat
    /\ NoId \notin Ids
    /\ DanglingIds \subseteq Ids \cup {NoId}
    /\ MaxTxns \in Nat
    /\ NoTask \notin Tasks
    /\ Budget \in [Tasks -> [Dims -> 0..MaxInt]]
    /\ FixedDeltas \in [{"admit", "dispatch", "capture", "barrier", "final"} ->
                            SUBSET [Dims -> 0..MaxInt]]
    /\ ToolDeltas \in [Tasks -> SUBSET [Dims -> -MaxInt - 1..MaxInt]]

VARIABLES
    row,     \* row[t]: committed pg_qx_task row, if there is one
    txn,     \* txn[s]: the transaction of a session
    lease,   \* QxStat->backend_leases[]
    billed,  \* history: the sum of the charges of committed transactions
    left,    \* history: instances that stay listed though no call runs for them
    txns     \* transactions so far

vars == <<row, txn, lease, billed, left, txns>>

Slots == 1..TableSize
Owners == Tasks \cup HookTasks
NoLease == <<>>
Zero == [d \in Dims |-> 0]
NoReply == [backend |-> "host", launched |-> FALSE, container |-> NoId, vm |-> NoId,
            delta |-> Zero, valid |-> FALSE]

-----------------------------------------------------------------------------
(* The lease table.                                                        *)

Has(t, x) == \E i \in Slots : lease[i] = <<t, x>>

\* The instances a table lists.
Listed(table) == {table[i] : i \in Slots} \ {NoLease}

FreeSlots == {i \in Slots : lease[i] = NoLease}

\* The first slot of a set of slots.
First(i, S) == i \in S /\ \A j \in S : i <= j

Inserted(t, x) == [i \in Slots |-> IF First(i, FreeSlots) THEN <<t, x>> ELSE lease[i]]

\* The scan ends at the first free slot.
RegisterAtFirstFree(t, x) == IF x = NoId THEN lease ELSE Inserted(t, x)

\* A full table gives up its first entry.
RegisterOverwrites(t, x) ==
    IF x = NoId \/ Has(t, x) THEN lease
    ELSE IF FreeSlots = {} THEN [lease EXCEPT ![1] = <<t, x>>]
    ELSE Inserted(t, x)

\* QxStatBackendLeaseRegister: an entry that is there stays; a full table
\* drops the registration with a WARNING; an empty identifier is ignored.
LeaseRegister(t, x) == IF x = NoId \/ Has(t, x) THEN lease ELSE Inserted(t, x)

ReleaseNothing(t, x) == lease

\* The slots of a task.
SlotsOf(t) == {i \in Slots : lease[i] # NoLease /\ lease[i][1] = t}

\* QxStatBackendLeaseRelease: the first slot that matches is cleared; an empty
\* identifier matches every slot of the task.
LeaseRelease(t, x) ==
    [i \in Slots |->
        IF First(i, {j \in SlotsOf(t) : x = NoId \/ lease[j][2] = x}) THEN NoLease
        ELSE lease[i]]

\* QxStatBackendLeaseFence: every slot of the task is cleared.
LeaseFence(t) == [i \in Slots |-> IF i \in SlotsOf(t) THEN NoLease ELSE lease[i]]

-----------------------------------------------------------------------------
(* Charges.                                                                *)

Int32 == -MaxInt - 1..MaxInt
Span == 2 * MaxInt + 2

NoWrap(n) == n

\* The sum of two int32 wraps around (-fwrapv).
Wrap(n) == IF n > MaxInt THEN n - Span ELSE IF n < -MaxInt - 1 THEN n + Span ELSE n

Plus(u, v) == [d \in Dims |-> u[d] + v[d]]

\* The comparison looks at the consumption before the charge.
WithinBefore(t, used, delta) ==
    \A d \in Dims : Budget[t][d] > 0 => used[d] <= Budget[t][d]

\* QxCatalogChargeTaskBudget: a ceiling of 0 is no ceiling.
Within(t, used, delta) ==
    \A d \in Dims : Budget[t][d] > 0 => Wrap(used[d] + delta[d]) <= Budget[t][d]

Charged(used, delta) == [d \in Dims |-> Wrap(used[d] + delta[d])]

\* The charges of the three kinds of transaction, in order.
Script ==
    [submit |-> <<"admit", "external", "capture", "barrier">>,
     retry  |-> <<"dispatch", "external", "capture", "barrier">>,
     resume |-> <<"dispatch", "external", "final">>]

-----------------------------------------------------------------------------
(* A reply of the tool: where the task runs, whether the reply says that   *)
(* an instance was launched there, the container and the microVM it names, *)
(* what it charges, and whether its receipt and profile are valid.  Any    *)
(* reply may name either instance, both or none.                           *)
AnyReply == [backend : {"host", "container", "microvm"}, launched : BOOLEAN,
             container : Ids \cup {NoId}, vm : Ids \cup {NoId},
             delta : [Dims -> Int32], valid : BOOLEAN]

\* Only a container or a microVM counts as launched.
Reply(t) ==
    {r \in [backend : {"host", "container", "microvm"}, launched : BOOLEAN,
            container : Ids \cup {NoId}, vm : Ids \cup {NoId},
            delta : ToolDeltas[t], valid : BOOLEAN] :
        r.launched => r.backend # "host"}

Kinds == {"submit", "retry", "resume", "reclaim"}

Phases == {"idle", "fetched", "charging", "called", "registered", "checked",
           "finished", "reclaiming", "reclaimed"}

Txn == [pc : Phases, task : Tasks \cup {NoTask}, kind : Kinds, at : 1..5,
        used : [Dims -> Int32], bill : [Dims -> Int], stale : BOOLEAN,
        reply : AnyReply, mine : Ids \cup {NoId}]

Idle == [pc |-> "idle", task |-> NoTask, kind |-> "submit", at |-> 1, used |-> Zero,
         bill |-> Zero, stale |-> FALSE, reply |-> NoReply, mine |-> NoId]

Init ==
    /\ row = [t \in Tasks |-> [made |-> FALSE, used |-> Zero]]
    /\ txn = [s \in Sessions |-> Idle]
    /\ lease = [i \in Slots |-> NoLease]
    /\ billed = [t \in Tasks |-> Zero]
    /\ left = {}
    /\ txns = 0

\* The transaction of s has updated, or inserted, the row of t.
Holds(s, t) == txn[s].pc \notin {"idle", "fetched"} /\ txn[s].task = t

Begin(s) ==
    /\ txn[s].pc = "idle"
    /\ txns < MaxTxns
    /\ txns' = txns + 1

\* RUN TASK inserts the row: no other transaction sees it before the commit.
Submit(s, t) ==
    /\ Begin(s)
    /\ ~row[t].made
    /\ \A r \in Sessions : ~Holds(r, t)
    /\ txn' = [txn EXCEPT ![s] = [Idle EXCEPT !.pc = "charging", !.task = t]]
    /\ UNCHANGED <<row, lease, billed, left>>

\* The others read the committed row first (QxCatalogUpdateTaskRuntime).
Fetch(s, t, kind) ==
    /\ Begin(s)
    /\ row[t].made
    /\ txn' = [txn EXCEPT ![s] = [Idle EXCEPT !.pc = "fetched", !.task = t,
                                              !.kind = kind, !.used = row[t].used]]
    /\ UNCHANGED <<row, lease, billed, left>>

Locked(s) ==
    txn' = [txn EXCEPT ![s].pc =
              IF txn[s].kind = "reclaim" THEN "reclaiming" ELSE "charging"]

\* The version that was read is not compared with the current one.
LockAnyVersion(s) ==
    /\ txn[s].pc = "fetched"
    /\ \A r \in Sessions : ~Holds(r, txn[s].task)
    /\ Locked(s)
    /\ UNCHANGED <<row, lease, billed, left, txns>>

\* CatalogTupleUpdate waits for the transaction that updated the row; when
\* that one commits, the row that was read is stale and the update fails with
\* "tuple concurrently updated": only Abort is left.
Lock(s) ==
    /\ txn[s].pc = "fetched"
    /\ \A r \in Sessions : ~Holds(r, txn[s].task)
    /\ ~txn[s].stale
    /\ Locked(s)
    /\ UNCHANGED <<row, lease, billed, left, txns>>

\* One QxCatalogChargeTaskBudget; above a ceiling it fails, and only Abort is
\* left.
Charge(s, delta) ==
    /\ Within(txn[s].task, txn[s].used, delta)
    /\ txn' = [txn EXCEPT ![s] =
                  [@ EXCEPT !.pc = "charging", !.at = txn[s].at + 1,
                            !.used = Charged(txn[s].used, delta),
                            !.bill = Plus(txn[s].bill, delta)]]
    /\ UNCHANGED <<row, lease, billed, left, txns>>

\* What the transaction charges next.
Step(s) == Script[txn[s].kind][txn[s].at]

FixedCharge(s) ==
    /\ txn[s].pc = "charging"
    /\ txn[s].at <= Len(Script[txn[s].kind])
    /\ Step(s) # "external"
    /\ \E delta \in FixedDeltas[Step(s)] : Charge(s, delta)

\* The program runs and its response is read.  When it fails or reports a
\* status other than ok, only Abort is left.
CallTool(s) ==
    /\ txn[s].pc = "charging"
    /\ txn[s].at <= Len(Script[txn[s].kind])
    /\ Step(s) = "external"
    /\ \E r \in Reply(txn[s].task) :
          txn' = [txn EXCEPT ![s] = [@ EXCEPT !.pc = "called", !.reply = r]]
    /\ UNCHANGED <<row, lease, billed, left, txns>>

\* The identifier that is registered is the one of the backend that ran;
\* without it, what a buffer that is out of scope reads as, even when the reply
\* names an instance of the other kind.
RegisterAs(r) ==
    LET own == IF r.backend = "container" THEN r.container ELSE r.vm
    IN  IF own # NoId THEN {own} ELSE DanglingIds

\* The identifier that is released: the container before the microVM, whatever
\* the backend.
ReleaseId(r) == IF r.container # NoId THEN r.container ELSE r.vm

Register(s) ==
    /\ txn[s].pc = "called"
    /\ IF txn[s].reply.launched
       THEN \E x \in RegisterAs(txn[s].reply) :
              /\ lease' = LeaseRegister(txn[s].task, x)
              /\ txn' = [txn EXCEPT ![s] =
                            [@ EXCEPT !.pc = "registered",
                                      !.mine = IF Has(txn[s].task, x) \/ FreeSlots # {}
                                               THEN x ELSE NoId]]
       ELSE /\ txn' = [txn EXCEPT ![s].pc = "registered"]
            /\ lease' = lease
    /\ UNCHANGED <<row, billed, left, txns>>

\* qx_validate_external_result; an invalid reply leaves only Abort.
Validate(s) ==
    /\ txn[s].pc = "registered"
    /\ txn[s].reply.valid
    /\ txn' = [txn EXCEPT ![s].pc = "checked"]
    /\ UNCHANGED <<row, lease, billed, left, txns>>

\* The instance the reply names is released, or the task is fenced; what the
\* call registered stays behind when the reply names another instance.  What
\* the reply charges is all that is used of it from here on.
Finish(s) ==
    LET t == txn[s].task
        x == ReleaseId(txn[s].reply)
        other == IF txn[s].mine # x THEN {<<t, txn[s].mine>>} ELSE {}
    IN  /\ txn[s].pc = "checked"
        /\ txn' = [txn EXCEPT ![s] =
                      [@ EXCEPT !.pc = "finished", !.mine = NoId,
                                !.reply = [NoReply EXCEPT !.delta = txn[s].reply.delta]]]
        /\ \/ /\ x # NoId
              /\ lease' = LeaseRelease(t, x)
              /\ left' = (left \cup other) \cap Listed(lease')
           \/ /\ x = NoId /\ txn[s].reply.backend # "host"
              /\ lease' = LeaseFence(t)
              /\ left' = left \cap Listed(lease')
           \/ /\ x = NoId /\ txn[s].reply.backend = "host"
              /\ UNCHANGED <<lease, left>>
        /\ UNCHANGED <<row, billed, txns>>

ChargeExternal(s) ==
    /\ txn[s].pc = "finished"
    /\ Charge(s, txn[s].reply.delta)

\* The fence is made before the row is updated.
FenceFirst(s) ==
    /\ txn[s].pc \in {"fetched", "reclaiming"} /\ txn[s].kind = "reclaim"
    /\ lease' = LeaseFence(txn[s].task)
    /\ left' = left \cap Listed(lease')
    /\ txn' = [txn EXCEPT ![s].pc = "reclaimed"]
    /\ UNCHANGED <<row, billed, txns>>

\* qx_runtime_reclaim_running_attempt updates the rows and then fences.
ReclaimFence(s) ==
    /\ txn[s].pc = "reclaiming"
    /\ lease' = LeaseFence(txn[s].task)
    /\ left' = left \cap Listed(lease')
    /\ txn' = [txn EXCEPT ![s].pc = "reclaimed"]
    /\ UNCHANGED <<row, billed, txns>>

Done(s) ==
    \/ txn[s].pc = "charging" /\ txn[s].at > Len(Script[txn[s].kind])
    \/ txn[s].pc = "reclaimed"

\* The new row version makes what others have read stale.
Commit(s) ==
    /\ Done(s)
    /\ row' = [row EXCEPT ![txn[s].task] = [made |-> TRUE, used |-> txn[s].used]]
    /\ billed' = [billed EXCEPT ![txn[s].task] = Plus(@, txn[s].bill)]
    /\ txn' = [r \in Sessions |->
                 IF r = s THEN Idle
                 ELSE IF txn[r].pc = "fetched" /\ txn[r].task = txn[s].task
                      THEN [txn[r] EXCEPT !.stale = TRUE]
                      ELSE txn[r]]
    /\ UNCHANGED <<lease, left, txns>>

\* An error, a cancel or a lost connection at any point.  The table keeps what
\* the call registered.
Abort(s) ==
    /\ txn[s].pc # "idle"
    /\ txn' = [txn EXCEPT ![s] = Idle]
    /\ left' = IF txn[s].mine # NoId THEN left \cup {<<txn[s].task, txn[s].mine>>} ELSE left
    /\ UNCHANGED <<row, lease, billed, txns>>

\* A crash restart: transactions are gone and shared memory is new.
Crash ==
    /\ txn' = [s \in Sessions |-> Idle]
    /\ lease' = [i \in Slots |-> NoLease]
    /\ left' = {}
    /\ UNCHANGED <<row, billed, txns>>

\* pg_qx_test_register_backend_lease and its two companions: they take any oid,
\* that of a task with a running call included, and lock no row.  An instance
\* they take out of the table is no longer the one a call accounts for.
Hook(t) ==
    /\ \/ \E x \in Ids : lease' = LeaseRegister(t, x)
       \/ \E x \in Ids \cup {NoId} : lease' = LeaseRelease(t, x)
       \/ lease' = LeaseFence(t)
    /\ left' = {e \in Listed(lease') : e \in left \/ e \notin Listed(lease)}
    /\ txn' = [s \in Sessions |->
                 IF <<txn[s].task, txn[s].mine>> \in Listed(lease) \ Listed(lease')
                 THEN [txn[s] EXCEPT !.mine = NoId]
                 ELSE txn[s]]
    /\ UNCHANGED <<row, billed, txns>>

SessionStep(s) ==
    \/ \E t \in Tasks : Submit(s, t)
    \/ \E t \in Tasks, kind \in {"retry", "resume", "reclaim"} : Fetch(s, t, kind)
    \/ Lock(s)
    \/ FixedCharge(s)
    \/ CallTool(s)
    \/ Register(s)
    \/ Validate(s)
    \/ Finish(s)
    \/ ChargeExternal(s)
    \/ ReclaimFence(s)
    \/ Commit(s)
    \/ Abort(s)

Next ==
    \/ \E s \in Sessions : SessionStep(s)
    \/ Crash
    \/ \E t \in HookTasks : Hook(t)

Spec == Init /\ [][Next]_vars

-----------------------------------------------------------------------------
(* Type invariant of the rows, the transactions and the lease table.       *)
TypeOK ==
    /\ row \in [Tasks -> [made : BOOLEAN, used : [Dims -> Int32]]]
    /\ txn \in [Sessions -> Txn]
    /\ lease \in [Slots -> (Owners \X Ids) \cup {NoLease}]
    /\ billed \in [Tasks -> [Dims -> Int]]
    /\ left \subseteq Owners \X Ids
    /\ txns \in 0..MaxTxns

(***************************************************************************)
(* No charge is lost or made twice: what the committed row of a task says  *)
(* it consumed is the sum of the charges of the transactions that          *)
(* committed, up to int32 wraparound, although every charge is a read of   *)
(* the row followed by an update.                                          *)
(***************************************************************************)
NoLostCharge ==
    \A t \in Tasks : \A d \in Dims : (billed[t][d] - row[t].used[d]) % Span = 0

\* No charge of the task is negative, and none can carry it from below its
\* ceiling past the largest int32.
CannotWrap(t, d) ==
    /\ Budget[t][d] > 0
    /\ \A delta \in ToolDeltas[t] \cup UNION {FixedDeltas[n] : n \in DOMAIN FixedDeltas} :
          0 <= delta[d] /\ delta[d] <= MaxInt - Budget[t][d]

(***************************************************************************)
(* A task with a ceiling, whose charges cannot wrap around, has really     *)
(* been billed what its row says and never more than the ceiling, whatever *)
(* transactions on it overlap, abort or fail.                              *)
(***************************************************************************)
BilledWithinCeiling ==
    \A t \in Tasks : \A d \in Dims :
        CannotWrap(t, d) => /\ billed[t][d] = row[t].used[d]
                            /\ billed[t][d] <= Budget[t][d]

(***************************************************************************)
(* The table never lists an instance of a task twice.                      *)
(***************************************************************************)
NoDuplicateLease ==
    \A i, j \in Slots : lease[i] # NoLease /\ lease[i] = lease[j] => i = j

(***************************************************************************)
(* While a transaction validates the reply of an instance it registered,   *)
(* the table lists that instance: no reclaim of the task and no other call *)
(* removes it, because the row lock keeps them away.  Only the test        *)
(* functions, which lock no row, can, and then it is not mine any more.    *)
(***************************************************************************)
InFlightListed ==
    \A s \in Sessions : txn[s].mine # NoId => Has(txn[s].task, txn[s].mine)

(***************************************************************************)
(* An instance that is listed is the one a call is validating, or it was   *)
(* left since its last release or fence: by a call that failed after it    *)
(* registered the instance, by a call that succeeded with a reply naming   *)
(* another instance to release, or by a test function.  In particular a    *)
(* successful call whose reply names what it registered, or no instance,   *)
(* leaves nothing behind.                                                  *)
(***************************************************************************)
ListedExplained ==
    \A i \in Slots :
        lease[i] # NoLease =>
            \/ lease[i] \in left
            \/ \E s \in Sessions : <<txn[s].task, txn[s].mine>> = lease[i]

\* The table implements the bounded set of leases.
LeaseSet == INSTANCE QxLeaseSet WITH
                Capacity <- TableSize,
                leases <- Listed(lease)

(***************************************************************************)
(* Every step of the table is a step of the bounded set: one registration  *)
(* below the capacity, one release, one fence of one task, or a clear.     *)
(***************************************************************************)
IsLeaseSet == LeaseSet!Spec
=============================================================================
