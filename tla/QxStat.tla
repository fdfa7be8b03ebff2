------------------------------ MODULE QxStat ------------------------------
(***************************************************************************)
(* The shared statistics table (observe/qx_stat.c): a fixed number of      *)
(* slots, one for each entity that has been reported (a provider, a        *)
(* principal, a runtime class, the scheduler, the supervisor, recovery).   *)
(* A report finds or takes a slot and counts under the spinlock.  A reader *)
(* finds the slot under the spinlock, keeps a pointer to its counters and  *)
(* reads them after the spinlock is released.                              *)
(*                                                                         *)
(* The counters of a slot are modelled by one: the number of reports.      *)
(***************************************************************************)
EXTENDS Integers, FiniteSets

CONSTANTS
    Keys, NoKey,  \* database, kind and entity of a slot; an unused slot
    StatKinds,    \* QxStatKind
    KindOf,       \* KindOf[k]: the kind of an entity
    SlotCount,    \* QX_STAT_SLOT_COUNT
    Readers,      \* backends that run pg_qx_stat_get_* or pg_qx_stat_snapshot
    MaxReports,   \* bound: reports of an entity
    MaxResets     \* bound: resets and crashes

ASSUME StatAssumption ==
    /\ SlotCount \in Nat
    /\ NoKey \notin Keys
    /\ KindOf \in [Keys -> StatKinds]
    /\ MaxReports \in Nat /\ MaxResets \in Nat

VARIABLES
    slot,    \* QxStat->slots[]
    reader,  \* reader[r]: a lookup, and the count it showed
    total,   \* history: total[k], the reports of k since the server started
    resets   \* resets and crashes so far

statVars == <<slot, reader, total, resets>>

Slots == 1..SlotCount

Unused == [key |-> NoKey, n |-> 0]

Entry(k) == {i \in Slots : slot[i].key = k}

\* The first slot of a set of slots.
First(i, S) == i \in S /\ \A j \in S : i <= j

Idle == [pc |-> "idle", key |-> NoKey, at |-> 0, clean |-> TRUE, shown |-> 0]

StatInit ==
    /\ slot = [i \in Slots |-> Unused]
    /\ reader = [r \in Readers |-> Idle]
    /\ total = [k \in Keys |-> 0]
    /\ resets = 0

-----------------------------------------------------------------------------

\* An unused slot is taken whenever there is one.
CountedInFresh(k) ==
    [i \in Slots |-> IF First(i, IF Entry(NoKey) # {} THEN Entry(NoKey) ELSE Entry(k))
                     THEN [key |-> k, n |-> slot[i].n + 1]
                     ELSE slot[i]]

\* qx_stat_with_entry: the slot of the entity counts; without one the first
\* unused slot is taken; a full table drops the report with a WARNING.
Counted(k) ==
    [i \in Slots |-> IF First(i, IF Entry(k) # {} THEN Entry(k) ELSE Entry(NoKey))
                     THEN [key |-> k, n |-> slot[i].n + 1]
                     ELSE slot[i]]

HasRoom(k) == Entry(k) # {} \/ Entry(NoKey) # {}

CountReport(k) ==
    /\ slot' = Counted(k)
    /\ total' = [total EXCEPT ![k] = @ + 1]
    /\ UNCHANGED <<reader, resets>>

\* A report of anything but recovery.
Report(k) == total[k] < MaxReports /\ CountReport(k)

\* The slot of the kind is given back.
ResetKindFrees(kind) ==
    /\ resets < MaxResets
    /\ resets' = resets + 1
    /\ slot' = [i \in Slots |-> IF slot[i].key # NoKey /\ KindOf[slot[i].key] = kind
                                THEN Unused ELSE slot[i]]
    /\ UNCHANGED <<reader, total>>

\* The counters of every kind are zeroed.
ResetEveryKind(kind) ==
    /\ resets < MaxResets
    /\ resets' = resets + 1
    /\ slot' = [i \in Slots |-> [slot[i] EXCEPT !.n = 0]]
    /\ UNCHANGED <<reader, total>>

\* QxStatReset zeroes the counters of a kind and leaves its slots in use.
ResetKind(kind) ==
    /\ resets < MaxResets
    /\ resets' = resets + 1
    /\ slot' = [i \in Slots |-> IF slot[i].key # NoKey /\ KindOf[slot[i].key] = kind
                                THEN [slot[i] EXCEPT !.n = 0] ELSE slot[i]]
    /\ UNCHANGED <<reader, total>>

\* QxStatResetAll frees every slot: a pointer a reader holds may soon be to
\* the counters of another entity.
ResetAll ==
    /\ resets < MaxResets
    /\ resets' = resets + 1
    /\ slot' = [i \in Slots |-> Unused]
    /\ reader' = [r \in Readers |->
                    IF reader[r].pc = "found" THEN [reader[r] EXCEPT !.clean = FALSE]
                    ELSE reader[r]]
    /\ UNCHANGED total

\* Shared memory is initialised again and the readers are gone.
StatCrash ==
    /\ resets < MaxResets
    /\ resets' = resets + 1
    /\ slot' = [i \in Slots |-> Unused]
    /\ reader' = [r \in Readers |-> Idle]
    /\ UNCHANGED total

\* A scan that finds nothing ends behind the last slot.
LookupPastEnd(r, k) ==
    /\ reader[r].pc # "found"
    /\ \E i \in 1..SlotCount + 1 :
          /\ IF Entry(k) = {} THEN i = SlotCount + 1 ELSE First(i, Entry(k))
          /\ reader' = [reader EXCEPT ![r] =
                          [pc |-> "found", key |-> k, at |-> i, clean |-> TRUE, shown |-> 0]]
    /\ UNCHANGED <<slot, total, resets>>

\* qx_stat_lookup_entry without `create`: no slot reads as zero.
Lookup(r, k) ==
    /\ reader[r].pc # "found"
    /\ \E i \in 0..SlotCount :
          /\ IF Entry(k) = {} THEN i = 0 ELSE First(i, Entry(k))
          /\ reader' = [reader EXCEPT ![r] =
                          [pc |-> "found", key |-> k, at |-> i, clean |-> TRUE, shown |-> 0]]
    /\ UNCHANGED <<slot, total, resets>>

\* The counters are read, for a result row or a history row, without the lock.
Read(r) ==
    /\ reader[r].pc = "found"
    /\ reader' = [reader EXCEPT ![r] =
                    [reader[r] EXCEPT !.pc = "shown",
                                      !.shown = IF reader[r].at = 0 THEN 0
                                                ELSE slot[reader[r].at].n]]
    /\ UNCHANGED <<slot, total, resets>>

-----------------------------------------------------------------------------
StatTypeOK ==
    /\ slot \in [Slots -> [key : Keys \cup {NoKey}, n : Nat]]
    /\ reader \in [Readers -> [pc : {"idle", "found", "shown"}, key : Keys \cup {NoKey},
                               at : 0..SlotCount, clean : BOOLEAN, shown : Nat]]
    /\ total \in [Keys -> Nat]
    /\ resets \in 0..MaxResets

(***************************************************************************)
(* An entity never has two slots, which would split its counters           *)
(* (qx_stat_with_entry looks at every slot before it takes an unused one). *)
(***************************************************************************)
OneSlotPerEntity ==
    \A i, j \in Slots : slot[i].key # NoKey /\ slot[i].key = slot[j].key => i = j

(***************************************************************************)
(* What a reader shows for an entity has been reported for that entity,    *)
(* although it reads without the lock, unless all statistics were reset    *)
(* between its lookup and its read.                                        *)
(***************************************************************************)
ShownWasReported ==
    \A r \in Readers : reader[r].pc = "shown" /\ reader[r].clean =>
        reader[r].shown <= total[reader[r].key]
=============================================================================
