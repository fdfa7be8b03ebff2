------------------------- MODULE QxLauncherProofs -------------------------
(***************************************************************************)
(* Proofs about QxLauncher, for every set of databases, slot count, number *)
(* of background worker slots and number of faults and changes.            *)
(***************************************************************************)
EXTENDS QxLauncher, FiniteSetTheorems, TLAPS

\* Without faults, a registered worker nobody asked to end has not exited
\* and is remembered.
QuietRemembers ==
    faults = 0 =>
        \A i \in Slots :
            (slot[i].use /\ ~slot[i].term) =>
                slot[i].pid # "zero" /\ \E h \in handles : h.at = i

\* The registrations of a pair that the launcher does not count on: those it
\* does not remember and those it will forget because they read as stopped.
Owed(k) ==
    {i \in Slots : /\ slot[i].use
                   /\ slot[i].key = k
                   /\ ~slot[i].rwterm
                   /\ ~\E h \in handles : h.at = i /\ slot[i].pid # "zero"}

\* A registration of the pair may be made or dropped for a database that is
\* no target: it was remembered or wanted when the targets changed.
Pending(k) ==
    \/ k[1] \notin targets /\ (Remembered(k) \/ k \in wanted)
    \/ k \notin wanted /\ \E h \in inspect : h.key = k

OwedBounded ==
    \A k \in Keys :
        Cardinality(Owed(k)) + (IF Pending(k) THEN 1 ELSE 0) <= faults + changes

\* The postmaster's list holds workers of slots in use.
KnownInUse == \A i \in Slots : slot[i].known => slot[i].use

LInv ==
    /\ TypeOK
    /\ HandlesNameWorkers
    /\ QuietRemembers
    /\ KnownInUse
    /\ OwedBounded

-----------------------------------------------------------------------------
(* A set that grows by one element has at most one element more.           *)
LEMMA GrowByOne ==
    ASSUME NEW S, NEW T, NEW x, IsFiniteSet(T), S \subseteq T \cup {x}
    PROVE  /\ IsFiniteSet(S)
           /\ Cardinality(S) \in Nat
           /\ Cardinality(T) \in Nat
           /\ Cardinality(S) <= Cardinality(T) + 1
<1>0. Cardinality(T) \in Nat BY FS_CardinalityType
<1>a. IsFiniteSet(T \cup {x})
      /\ Cardinality(T \cup {x}) = IF x \in T THEN Cardinality(T) ELSE Cardinality(T) + 1
  BY FS_AddElement
<1>1. IsFiniteSet(T \cup {x}) /\ Cardinality(T \cup {x}) <= Cardinality(T) + 1
  BY <1>0, <1>a
<1>2. IsFiniteSet(S) /\ Cardinality(S) <= Cardinality(T \cup {x})
  BY <1>1, FS_Subset
<1>3. /\ Cardinality(S) \in Nat /\ Cardinality(T) \in Nat
      /\ Cardinality(T \cup {x}) \in Nat
  BY <1>1, <1>2, FS_CardinalityType
<1> QED BY <1>1, <1>2, <1>3

(* The slots are finitely many, so Owed has a cardinality.                 *)
LEMMA OwedFinite ==
    ASSUME NEW k
    PROVE  IsFiniteSet(Owed(k)) /\ Cardinality(Owed(k)) \in Nat
<1>1. IsFiniteSet(Slots)
  BY LauncherAssumption, FS_Interval DEF Slots
<1>2. Owed(k) \subseteq Slots
  BY DEF Owed
<1> QED BY <1>1, <1>2, FS_Subset, FS_CardinalityType

-----------------------------------------------------------------------------
LEMMA SlotUpdates ==
    ASSUME NEW k \in Keys, NEW g \in Nat
    PROVE  FreeSlot(g) \in Slot /\ Registered(k, g) \in Slot
BY DEF FreeSlot, Registered, Slot

(* The initial state has the types.                                        *)
LEMMA InitType == Init => TypeOK
<1> SUFFICES ASSUME Init PROVE TypeOK OBVIOUS
<1>1. FreeSlot(0) \in Slot BY DEF FreeSlot, Slot
<1> QED BY <1>1, LauncherAssumption DEF Init, TypeOK

(* Every step keeps the types.                                             *)
LEMMA StepType == TypeOK /\ [Next]_vars => TypeOK'
<1> SUFFICES ASSUME TypeOK, [Next]_vars PROVE TypeOK' OBVIOUS
<1>t. /\ targets \subseteq Dbs /\ slot \in [Slots -> Slot] /\ handles \subseteq Handle
      /\ inspect \subseteq handles /\ wanted \subseteq Keys
      /\ faults \in 0..MaxFaults /\ changes \in 0..MaxChanges
  BY DEF TypeOK
<1>k. KeysOf(targets) \subseteq Keys BY <1>t DEF KeysOf, Keys
<1>m. MaxFaults \in Nat /\ MaxChanges \in Nat BY LauncherAssumption
<1>1. CASE Cycle BY <1>1, <1>t, <1>k DEF Cycle, TypeOK
<1>2. ASSUME NEW h \in inspect, ForgetStopped(h) \/ KeepAlive(h) PROVE TypeOK'
  BY <1>2, <1>t DEF ForgetStopped, KeepAlive, TypeOK
<1>3. ASSUME NEW h \in inspect, StopUnwanted(h) PROVE TypeOK'
  <2>1. Terminated(h) \in [Slots -> Slot]
    BY Zenon, <1>t DEF Terminated, Handle, Slot
  <2> QED BY <1>3, <2>1, <1>t DEF StopUnwanted, TypeOK
<1>4. ASSUME NEW k \in wanted, AlreadyThere(k) \/ LaunchFails(k) PROVE TypeOK'
  BY <1>4, <1>t DEF AlreadyThere, LaunchFails, TypeOK
<1>5. ASSUME NEW k \in wanted, Launch(k) PROVE TypeOK'
  <2>1. PICK i \in Free :
          /\ slot' = [slot EXCEPT ![i] = Registered(k, slot[i].gen + 1)]
          /\ handles' = handles \cup {[at |-> i, gen |-> slot[i].gen + 1, key |-> k]}
    BY Zenon, <1>5 DEF Launch
  <2>2. i \in Slots /\ slot[i].gen + 1 \in Nat /\ k \in Keys
    BY <1>t DEF Free, Slot
  <2>3. Registered(k, slot[i].gen + 1) \in Slot BY <2>2, SlotUpdates
  <2>4. [at |-> i, gen |-> slot[i].gen + 1, key |-> k] \in Handle BY <2>2 DEF Handle
  <2>5. slot' \in [Slots -> Slot] BY <2>1, <2>2, <2>3, <1>t
  <2> QED BY <1>5, <2>1, <2>4, <2>5, <1>t DEF Launch, TypeOK
<1>6. ASSUME NEW i \in Slots, PostmasterStep(i) PROVE TypeOK'
  <2>1. slot[i] \in Slot /\ FreeSlot(slot[i].gen) \in Slot
    BY <1>t DEF FreeSlot, Slot
  <2>2. slot' \in [Slots -> Slot]
    <3>1. CASE NoticeNew(i)
      <4>1. [slot[i] EXCEPT !.known = TRUE] \in Slot BY Zenon, <2>1 DEF Slot
      <4> QED BY <3>1, <4>1, <2>1, <1>t DEF NoticeNew
    <3>2. CASE NoticeTerminate(i)
      <4>1. [slot[i] EXCEPT !.rwterm = TRUE,
                            !.pid = IF slot[i].pid = "up" THEN "up" ELSE "zero"] \in Slot
        BY Zenon, <2>1 DEF Slot
      <4> QED BY <3>2, <4>1, <1>t DEF NoticeTerminate
    <3>3. CASE StartWorker(i) BY <3>3, <1>t DEF StartWorker, Slot
    <3>4. CASE ForgetWorker(i) \/ WorkerStops(i)
      BY <3>4, <2>1, <1>t DEF ForgetWorker, WorkerStops
    <3> QED BY <1>6, <3>1, <3>2, <3>3, <3>4 DEF PostmasterStep
  <2>3. UNCHANGED <<targets, handles, inspect, wanted, faults, changes>>
    BY <1>6 DEF PostmasterStep, NoticeNew, NoticeTerminate, StartWorker,
         ForgetWorker, WorkerStops
  <2> QED BY <2>2, <2>3, <1>t DEF TypeOK
<1>7. ASSUME NEW i \in Slots, WorkerFails(i) PROVE TypeOK'
  <2>1. slot' \in [Slots -> Slot] BY <1>7, <1>t DEF WorkerFails, Slot
  <2> QED BY <1>7, <2>1, <1>t, <1>m DEF WorkerFails, Fault, TypeOK
<1>8. CASE LauncherFails BY <1>8, <1>t, <1>m DEF LauncherFails, Fault, TypeOK
<1>9. CASE ServerCrash
  <2>0. ASSUME NEW i \in Slots
        PROVE  Rebuilt(i) \in Slot
    BY Zenon, <1>t DEF Slot, Rebuilt, Registered, FreeSlot
  <2>1. slot' \in [Slots -> Slot]
    BY <1>9, <2>0 DEF ServerCrash
  <2> QED BY <1>9, <2>1, <1>t, <1>m DEF ServerCrash, Fault, TypeOK
<1>10. ASSUME NEW d \in Dbs, TargetsChange(d) PROVE TypeOK'
  BY <1>10, <1>t, <1>m DEF TargetsChange, TypeOK
<1>11. CASE UNCHANGED vars BY <1>11, <1>t DEF vars, TypeOK
<1> QED BY <1>1, <1>2, <1>3, <1>4, <1>5, <1>6, <1>7, <1>8, <1>9, <1>10, <1>11
     DEF Next, LauncherStep

-----------------------------------------------------------------------------
(* What the postmaster does to slot i, as far as the launcher's view of it *)
(* goes: it frees a slot only after a request to end the worker, and       *)
(* otherwise keeps its worker and generation.                              *)
PostmasterEffect(i) ==
    /\ \A j \in Slots : j # i => slot'[j] = slot[j]
    /\ \/ ~slot'[i].use /\ ~slot'[i].known /\ (slot[i].term \/ slot[i].rwterm)
       \/ /\ slot'[i].use = slot[i].use /\ slot'[i].key = slot[i].key
          /\ slot'[i].gen = slot[i].gen /\ slot'[i].term = slot[i].term
          /\ slot'[i].known => slot[i].known \/ slot[i].use
          /\ slot'[i].rwterm = slot[i].rwterm \/ (slot[i].term /\ slot'[i].rwterm)
          /\ slot'[i].pid = slot[i].pid \/ slot'[i].pid # "zero" \/ slot[i].term
    /\ UNCHANGED <<targets, handles, inspect, wanted, faults, changes>>

LEMMA PostmasterFrees ==
    ASSUME TypeOK, NEW i \in Slots, PostmasterStep(i)
    PROVE  PostmasterEffect(i)
<1>1. slot \in [Slots -> Slot] /\ slot[i] \in Slot BY DEF TypeOK
<1>2. UNCHANGED <<targets, handles, inspect, wanted, faults, changes>>
  BY DEF PostmasterStep, NoticeNew, NoticeTerminate, StartWorker, ForgetWorker, WorkerStops
<1>3. \A j \in Slots : j # i => slot'[j] = slot[j]
  BY <1>1 DEF PostmasterStep, NoticeNew, NoticeTerminate, StartWorker, ForgetWorker, WorkerStops
<1>4. CASE NoticeNew(i)
  <2>1. slot'[i] = IF slot[i].term THEN FreeSlot(slot[i].gen)
                   ELSE [slot[i] EXCEPT !.known = TRUE]
    BY <1>4, <1>1 DEF NoticeNew
  <2>2. CASE slot[i].term
    BY <2>1, <2>2, <1>2, <1>3 DEF PostmasterEffect, FreeSlot
  <2>3. CASE ~slot[i].term
    <3>1. /\ slot'[i].use = slot[i].use /\ slot'[i].key = slot[i].key
          /\ slot'[i].gen = slot[i].gen /\ slot'[i].term = slot[i].term
          /\ slot'[i].rwterm = slot[i].rwterm /\ slot'[i].pid = slot[i].pid
      BY <2>1, <2>3, <1>1 DEF Slot
    <3>2. slot[i].use BY <1>4 DEF NoticeNew
    <3> QED BY <3>1, <3>2, <1>2, <1>3 DEF PostmasterEffect
  <2> QED BY <2>2, <2>3
<1>5. CASE NoticeTerminate(i)
  <2>1. slot'[i] = [slot[i] EXCEPT !.rwterm = TRUE,
                        !.pid = IF slot[i].pid = "up" THEN "up" ELSE "zero"]
    BY <1>5, <1>1 DEF NoticeTerminate
  <2>2. /\ slot'[i].use = slot[i].use /\ slot'[i].key = slot[i].key
        /\ slot'[i].gen = slot[i].gen /\ slot'[i].term = slot[i].term
        /\ slot'[i].rwterm /\ slot'[i].known = slot[i].known
    BY <2>1, <1>1 DEF Slot
  <2> QED BY <2>2, <1>2, <1>3, <1>5 DEF PostmasterEffect, NoticeTerminate
<1>6. CASE StartWorker(i)
  BY <1>6, <1>1, <1>2, <1>3 DEF PostmasterEffect, StartWorker, Slot
<1>7. CASE ForgetWorker(i) \/ WorkerStops(i)
  <2>1. slot'[i] = FreeSlot(slot[i].gen) /\ slot[i].rwterm
    BY <1>7, <1>1 DEF ForgetWorker, WorkerStops
  <2> QED BY <2>1, <1>2, <1>3 DEF PostmasterEffect, FreeSlot
<1> QED BY <1>4, <1>5, <1>6, <1>7 DEF PostmasterStep

(* What a launch does: a free slot gets the worker, and its handle is      *)
(* remembered.                                                             *)
LEMMA LaunchEffect ==
    ASSUME TypeOK, NEW k \in wanted, Launch(k)
    PROVE  \E i \in Slots, h \in Handle :
             /\ ~slot[i].use
             /\ h.at = i /\ h.key = k /\ h.gen = slot'[i].gen
             /\ \A j \in Slots : j # i => slot'[j] = slot[j]
             /\ slot'[i].use /\ slot'[i].key = k /\ slot'[i].pid = "notyet"
             /\ ~slot'[i].term /\ ~slot'[i].rwterm
             /\ handles' = handles \cup {h}
<1>1. slot \in [Slots -> Slot] /\ wanted \subseteq Keys BY DEF TypeOK
<1>2. PICK i \in Free :
        /\ slot' = [slot EXCEPT ![i] = Registered(k, slot[i].gen + 1)]
        /\ handles' = handles \cup {[at |-> i, gen |-> slot[i].gen + 1, key |-> k]}
  BY Zenon DEF Launch
<1>3. i \in Slots /\ ~slot[i].use /\ slot[i].gen + 1 \in Nat /\ k \in Keys
  BY <1>1 DEF Free, Slot
<1> DEFINE h == [at |-> i, gen |-> slot[i].gen + 1, key |-> k]
<1>4. h \in Handle /\ h.at = i /\ h.key = k /\ h.gen = slot[i].gen + 1
  BY <1>3 DEF Handle
<1>5. slot'[i] = Registered(k, slot[i].gen + 1) BY <1>1, <1>2, <1>3
<1>6. \A j \in Slots : j # i => slot'[j] = slot[j] BY <1>1, <1>2, <1>3
<1>7. /\ slot'[i].use /\ slot'[i].key = k /\ slot'[i].pid = "notyet"
      /\ ~slot'[i].term /\ ~slot'[i].rwterm /\ slot'[i].gen = slot[i].gen + 1
  BY <1>5 DEF Registered
<1>8. handles' = handles \cup {h} BY <1>2
<1> HIDE DEF h
<1> QED BY <1>3, <1>4, <1>6, <1>7, <1>8

(* What terminating does: only the terminate flag of the handle's slot.    *)
LEMMA StopEffect ==
    ASSUME TypeOK, HandlesNameWorkers, NEW h \in inspect, StopUnwanted(h)
    PROVE  /\ h \in handles /\ h.at \in Slots
           /\ \A j \in Slots : j # h.at => slot'[j] = slot[j]
           /\ slot'[h.at] = [slot[h.at] EXCEPT !.term = TRUE]
<1>1. slot \in [Slots -> Slot] /\ h \in handles /\ h.at \in Slots
  BY DEF TypeOK, Handle
<1>2. slot[h.at].gen = h.gen BY <1>1 DEF HandlesNameWorkers
<1>3. slot' = [slot EXCEPT ![h.at].term = TRUE] BY <1>2 DEF StopUnwanted, Terminated
<1> QED BY Zenon, <1>1, <1>3

-----------------------------------------------------------------------------
(* No step leaves a stale handle.                                          *)
LEMMA StepHandles == TypeOK /\ HandlesNameWorkers /\ [Next]_vars => HandlesNameWorkers'
<1> SUFFICES ASSUME TypeOK, HandlesNameWorkers, [Next]_vars PROVE HandlesNameWorkers' OBVIOUS
<1>t. /\ slot \in [Slots -> Slot] /\ handles \subseteq Handle /\ inspect \subseteq handles
      /\ \A h \in handles : h.at \in Slots
  BY DEF TypeOK, Handle
<1>h. /\ \A h \in handles : /\ slot[h.at].gen = h.gen /\ slot[h.at].use
                            /\ slot[h.at].key = h.key
                            /\ ~slot[h.at].term /\ ~slot[h.at].rwterm
      /\ \A g, h \in handles : g.key = h.key => g = h
  BY DEF HandlesNameWorkers, Live
<1>s. SUFFICES
        /\ \A h \in handles' : /\ slot'[h.at].gen = h.gen /\ slot'[h.at].use
                               /\ slot'[h.at].key = h.key /\ h.at \in Slots
                               /\ ~slot'[h.at].term /\ ~slot'[h.at].rwterm
        /\ \A g, h \in handles' : g.key = h.key => g = h
  BY DEF HandlesNameWorkers, Live
<1>1. ASSUME handles' \subseteq handles, slot' = slot PROVE <1>s!1
  BY <1>1, <1>t, <1>h
<1>2. CASE Cycle BY <1>1, <1>2 DEF Cycle
<1>3. ASSUME NEW h \in inspect, ForgetStopped(h) \/ KeepAlive(h) PROVE <1>s!1
  BY <1>1, <1>3 DEF ForgetStopped, KeepAlive
<1>4. ASSUME NEW h \in inspect, StopUnwanted(h) PROVE <1>s!1
  <2>1. /\ h \in handles
        /\ \A j \in Slots : j # h.at => slot'[j] = slot[j]
    BY Zenon, <1>4, StopEffect
  <2>2. handles' = handles \ {h} BY <1>4 DEF StopUnwanted
  <2>3. ASSUME NEW g \in handles' PROVE g.at # h.at
    BY <2>1, <2>2, <1>h
  <2> QED BY <2>1, <2>2, <2>3, <1>t, <1>h
<1>5. ASSUME NEW k \in wanted, AlreadyThere(k) \/ LaunchFails(k) PROVE <1>s!1
  BY <1>1, <1>5 DEF AlreadyThere, LaunchFails
<1>6. ASSUME NEW k \in wanted, Launch(k) PROVE <1>s!1
  <2>1. PICK i \in Slots, h \in Handle :
             /\ ~slot[i].use
             /\ h.at = i /\ h.key = k /\ h.gen = slot'[i].gen
             /\ \A j \in Slots : j # i => slot'[j] = slot[j]
             /\ slot'[i].use /\ slot'[i].key = k /\ slot'[i].pid = "notyet"
             /\ ~slot'[i].term /\ ~slot'[i].rwterm
             /\ handles' = handles \cup {h}
    BY <1>6, LaunchEffect
  <2>2. \A g \in handles : g.at # i /\ g.key # k
    BY <2>1, <1>h, <1>6 DEF Launch, Remembered
  <2> QED BY <2>1, <2>2, <1>t, <1>h
<1>7. ASSUME NEW i \in Slots, PostmasterStep(i) PROVE <1>s!1
  <2>1. PostmasterEffect(i) BY <1>7, PostmasterFrees
  <2> QED BY <2>1, <1>t, <1>h DEF PostmasterEffect
<1>8. ASSUME NEW i \in Slots, WorkerFails(i) PROVE <1>s!1
  BY <1>8, <1>t, <1>h DEF WorkerFails, Slot
<1>9. CASE LauncherFails \/ ServerCrash BY <1>9 DEF LauncherFails, ServerCrash
<1>10. ASSUME NEW d \in Dbs, TargetsChange(d) PROVE <1>s!1
  BY <1>1, <1>10 DEF TargetsChange
<1>11. CASE UNCHANGED vars BY <1>1, <1>11 DEF vars
<1> QED BY <1>2, <1>3, <1>4, <1>5, <1>6, <1>7, <1>8, <1>9, <1>10, <1>11
     DEF Next, LauncherStep

(* Without faults every registered worker stays remembered.                *)
LEMMA StepQuiet ==
    TypeOK /\ HandlesNameWorkers /\ QuietRemembers /\ [Next]_vars => QuietRemembers'
<1> SUFFICES ASSUME TypeOK, HandlesNameWorkers, QuietRemembers, [Next]_vars, faults' = 0
             PROVE  \A j \in Slots : (slot'[j].use /\ ~slot'[j].term) =>
                       slot'[j].pid # "zero" /\ \E h \in handles' : h.at = j
  BY DEF QuietRemembers
<1> DEFINE Goal == \A j \in Slots : (slot'[j].use /\ ~slot'[j].term) =>
                       slot'[j].pid # "zero" /\ \E h \in handles' : h.at = j
<1>t. /\ slot \in [Slots -> Slot] /\ handles \subseteq Handle /\ inspect \subseteq handles
      /\ faults \in Nat
  BY LauncherAssumption DEF TypeOK
<1>f. ASSUME NEW kind, Fault(kind) PROVE FALSE BY <1>f, <1>t DEF Fault
<1>q. ASSUME faults = 0, NEW j \in Slots, slot[j].use, ~slot[j].term
      PROVE  slot[j].pid # "zero" /\ \E h \in handles : h.at = j
  BY <1>q DEF QuietRemembers
<1>1. ASSUME handles' = handles, slot' = slot, faults' = faults PROVE Goal
  BY <1>1, <1>q
<1>2. CASE Cycle BY <1>1, <1>2 DEF Cycle
<1>3. ASSUME NEW h \in inspect, KeepAlive(h) PROVE Goal
  BY <1>1, <1>3 DEF KeepAlive
<1>4. ASSUME NEW h \in inspect, ForgetStopped(h) PROVE Goal
  <2>1. /\ h \in handles /\ h.at \in Slots /\ slot[h.at].gen = h.gen
        /\ slot[h.at].use /\ ~slot[h.at].term
    BY <1>t DEF HandlesNameWorkers, Live, Handle
  <2>2. slot[h.at].pid = "zero" BY <1>4, <2>1 DEF ForgetStopped, Stopped
  <2>3. faults = 0 BY <1>4 DEF ForgetStopped
  <2> QED BY <2>1, <2>2, <2>3, <1>q
<1>5. ASSUME NEW h \in inspect, StopUnwanted(h) PROVE Goal
  <2>1. /\ h \in handles /\ h.at \in Slots
        /\ \A j \in Slots : j # h.at => slot'[j] = slot[j]
        /\ slot'[h.at] = [slot[h.at] EXCEPT !.term = TRUE]
    BY <1>5, StopEffect
  <2>2. slot'[h.at].term BY <2>1, <1>t DEF Slot
  <2>3. handles' = handles \ {h} /\ faults = 0 BY <1>5 DEF StopUnwanted
  <2> QED BY Zenon, <2>1, <2>2, <2>3, <1>q
<1>6. ASSUME NEW k \in wanted, AlreadyThere(k) \/ LaunchFails(k) PROVE Goal
  BY <1>1, <1>6 DEF AlreadyThere, LaunchFails
<1>7. ASSUME NEW k \in wanted, Launch(k) PROVE Goal
  <2>1. PICK i \in Slots, h \in Handle :
             /\ h.at = i
             /\ \A j \in Slots : j # i => slot'[j] = slot[j]
             /\ slot'[i].pid = "notyet"
             /\ handles' = handles \cup {h}
    BY <1>7, LaunchEffect
  <2>2. faults = 0 BY <1>7 DEF Launch
  <2> QED BY <2>1, <2>2, <1>q
<1>8. ASSUME NEW i \in Slots, PostmasterStep(i) PROVE Goal
  <2>1. PostmasterEffect(i) BY <1>8, PostmasterFrees
  <2> QED BY <2>1, <1>q DEF PostmasterEffect
<1>9. ASSUME NEW i \in Slots, WorkerFails(i) PROVE Goal
  BY <1>9, <1>f DEF WorkerFails
<1>10. CASE LauncherFails \/ ServerCrash
  BY <1>10, <1>f DEF LauncherFails, ServerCrash
<1>11. ASSUME NEW d \in Dbs, TargetsChange(d) PROVE Goal
  BY <1>1, <1>11 DEF TargetsChange
<1>12. CASE UNCHANGED vars BY <1>1, <1>12 DEF vars
<1> QED BY <1>2, <1>3, <1>4, <1>5, <1>6, <1>7, <1>8, <1>9, <1>10, <1>11, <1>12
     DEF Next, LauncherStep

-----------------------------------------------------------------------------
LEMMA NatSum == \A a, b \in Nat : a + b \in Nat
OBVIOUS

LEMMA Balance ==
    ASSUME NEW P, NEW Q, NEW a \in Nat, NEW b \in Nat, NEW m \in Nat, NEW n \in Nat,
           a + (IF P THEN 1 ELSE 0) <= m,
           \/ b <= a /\ (Q => P) /\ n = m
           \/ b <= a /\ n = m + 1
           \/ b <= a + 1 /\ (Q => P) /\ n = m + 1
           \/ b <= a + 1 /\ P /\ ~Q /\ n = m
    PROVE  b + (IF Q THEN 1 ELSE 0) <= n
OBVIOUS

(* The bound on Owed after a step that adds nothing to it ...              *)
LEMMA OwedKept ==
    ASSUME TypeOK, TypeOK', OwedBounded, NEW k \in Keys,
           Owed(k)' \subseteq Owed(k),
           \/ (Pending(k)' => Pending(k)) /\ faults' + changes' = faults + changes
           \/ faults' + changes' = faults + changes + 1
    PROVE  Cardinality(Owed(k)') + (IF Pending(k)' THEN 1 ELSE 0) <= faults' + changes'
<1>1. faults \in Nat /\ changes \in Nat /\ faults' \in Nat /\ changes' \in Nat
  BY LauncherAssumption DEF TypeOK
<1>2. IsFiniteSet(Owed(k)) /\ Cardinality(Owed(k)) \in Nat BY OwedFinite
<1>3. IsFiniteSet(Owed(k)') /\ Cardinality(Owed(k)') <= Cardinality(Owed(k))
  BY <1>2, FS_Subset
<1>4. Cardinality(Owed(k)') \in Nat BY <1>3, FS_CardinalityType
<1>5. Cardinality(Owed(k)) + (IF Pending(k) THEN 1 ELSE 0) <= faults + changes
  BY DEF OwedBounded
<1>6. faults + changes \in Nat /\ faults' + changes' \in Nat BY <1>1, NatSum, Zenon
<1> QED BY <1>2, <1>3, <1>4, <1>5, <1>6, Balance

(* ... and after one that adds one registration, paid for by a fault, a    *)
(* change of the targets or a registration that was pending.               *)
LEMMA OwedPaid ==
    ASSUME TypeOK, TypeOK', OwedBounded, NEW k \in Keys, NEW x,
           Owed(k)' \subseteq Owed(k) \cup {x},
           \/ (Pending(k)' => Pending(k)) /\ faults' + changes' = faults + changes + 1
           \/ Pending(k) /\ ~Pending(k)' /\ faults' + changes' = faults + changes
    PROVE  Cardinality(Owed(k)') + (IF Pending(k)' THEN 1 ELSE 0) <= faults' + changes'
<1>1. faults \in Nat /\ changes \in Nat /\ faults' \in Nat /\ changes' \in Nat
  BY LauncherAssumption DEF TypeOK
<1>2. IsFiniteSet(Owed(k)) /\ Cardinality(Owed(k)) \in Nat BY OwedFinite
<1>3. /\ Cardinality(Owed(k)') \in Nat
      /\ Cardinality(Owed(k)') <= Cardinality(Owed(k)) + 1
  BY <1>2, GrowByOne
<1>5. Cardinality(Owed(k)) + (IF Pending(k) THEN 1 ELSE 0) <= faults + changes
  BY DEF OwedBounded
<1>6. faults + changes \in Nat /\ faults' + changes' \in Nat BY <1>1, NatSum, Zenon
<1> QED BY <1>2, <1>3, <1>5, <1>6, Balance

(* When the launcher's list is lost, each pair gains at most the one       *)
(* registration that was remembered for it.                                *)
LEMMA ListLost ==
    ASSUME TypeOK, HandlesNameWorkers, NEW k \in Keys,
           \A i \in Slots : (slot'[i].use /\ ~slot'[i].rwterm) =>
                              /\ slot[i].use /\ ~slot[i].rwterm
                              /\ slot'[i].key = slot[i].key
    PROVE  \E x : Owed(k)' \subseteq Owed(k) \cup {x}
<1>1. \A h \in handles : slot[h.at].key = h.key
  BY DEF HandlesNameWorkers, Live
<1>2. \A g, h \in handles : g.key = h.key => g = h BY DEF HandlesNameWorkers
<1>3. \A i \in Owed(k)' : i \in Owed(k) \/ \E h \in handles : h.at = i /\ h.key = k
  BY <1>1 DEF Owed
<1>4. CASE \E h \in handles : h.key = k
  <2>1. PICK h \in handles : h.key = k BY <1>4
  <2>2. Owed(k)' \subseteq Owed(k) \cup {h.at} BY <2>1, <1>2, <1>3
  <2> QED BY <2>2
<1>5. CASE ~\E h \in handles : h.key = k
  <2>1. Owed(k)' \subseteq Owed(k) \cup {0} BY <1>5, <1>3
  <2> QED BY <2>1
<1> QED BY <1>4, <1>5

LEMMA StepKnown == TypeOK /\ KnownInUse /\ [Next]_vars => KnownInUse'
<1> SUFFICES ASSUME TypeOK, KnownInUse, [Next]_vars PROVE KnownInUse' OBVIOUS
<1>t. slot \in [Slots -> Slot] /\ inspect \subseteq Handle BY DEF TypeOK
<1>1. ASSUME slot' = slot PROVE KnownInUse' BY <1>1 DEF KnownInUse
<1>2. CASE Cycle \/ LauncherFails BY <1>1, <1>2 DEF Cycle, LauncherFails
<1>3. ASSUME NEW h \in inspect, ForgetStopped(h) \/ KeepAlive(h) PROVE KnownInUse'
  BY <1>1, <1>3 DEF ForgetStopped, KeepAlive
<1>4. ASSUME NEW h \in inspect, StopUnwanted(h) PROVE KnownInUse'
  <2>1. slot' = slot \/ slot' = [slot EXCEPT ![h.at].term = TRUE]
    BY <1>4 DEF StopUnwanted, Terminated
  <2> QED BY <2>1, <1>t DEF KnownInUse, Slot, Handle
<1>5. ASSUME NEW k \in wanted, AlreadyThere(k) \/ LaunchFails(k) PROVE KnownInUse'
  BY <1>1, <1>5 DEF AlreadyThere, LaunchFails
<1>6. ASSUME NEW k \in wanted, Launch(k) PROVE KnownInUse'
  <2>1. PICK i \in Slots : slot'[i].use /\ \A j \in Slots : j # i => slot'[j] = slot[j]
    BY <1>6, LaunchEffect
  <2> QED BY <2>1 DEF KnownInUse
<1>7. ASSUME NEW i \in Slots, PostmasterStep(i) PROVE KnownInUse'
  <2>1. PostmasterEffect(i) BY <1>7, PostmasterFrees
  <2> QED BY <2>1 DEF PostmasterEffect, KnownInUse
<1>8. ASSUME NEW i \in Slots, WorkerFails(i) PROVE KnownInUse'
  BY <1>8, <1>t DEF WorkerFails, KnownInUse, Slot
<1>9. CASE ServerCrash
  <2>1. \A i \in Slots : Rebuilt(i).known => Rebuilt(i).use
    BY DEF Rebuilt, Registered, FreeSlot
  <2> QED BY <1>9, <2>1 DEF ServerCrash, KnownInUse
<1>10. ASSUME NEW d \in Dbs, TargetsChange(d) PROVE KnownInUse'
  BY <1>1, <1>10 DEF TargetsChange
<1>11. CASE UNCHANGED vars BY <1>1, <1>11 DEF vars
<1> QED BY <1>2, <1>3, <1>4, <1>5, <1>6, <1>7, <1>8, <1>9, <1>10, <1>11
     DEF Next, LauncherStep

(* Every step keeps the bound on what the launcher does not count on.      *)
LEMMA StepOwed == LInv /\ [Next]_vars /\ TypeOK' => OwedBounded'
<1> SUFFICES ASSUME LInv, [Next]_vars, TypeOK', NEW k \in Keys
             PROVE  Cardinality(Owed(k)') + (IF Pending(k)' THEN 1 ELSE 0) <= faults' + changes'
  BY DEF OwedBounded
<1> DEFINE Goal == Cardinality(Owed(k)') + (IF Pending(k)' THEN 1 ELSE 0) <= faults' + changes'
<1>l. TypeOK /\ HandlesNameWorkers /\ KnownInUse /\ OwedBounded BY DEF LInv
<1>t. /\ slot \in [Slots -> Slot] /\ handles \subseteq Handle /\ inspect \subseteq handles
      /\ \A h \in handles : h.at \in Slots
      /\ faults \in Nat /\ changes \in Nat /\ wanted \subseteq Keys
  BY <1>l, LauncherAssumption DEF TypeOK, Handle
<1>h. /\ \A h \in handles : /\ slot[h.at].gen = h.gen /\ slot[h.at].use
                            /\ slot[h.at].key = h.key
                            /\ ~slot[h.at].term /\ ~slot[h.at].rwterm
      /\ \A g, h \in handles : g.key = h.key => g = h
  BY <1>l DEF HandlesNameWorkers, Live
<1>k. k \in KeysOf(targets) <=> k[1] \in targets
  BY DEF Keys, KeysOf
<1>a. ASSUME Owed(k)' \subseteq Owed(k), Pending(k)' => Pending(k),
             faults' = faults, changes' = changes
      PROVE  Goal
  BY <1>a, <1>l, OwedKept
<1>1. CASE Cycle
  <2>1. Owed(k)' \subseteq Owed(k) BY <1>1 DEF Cycle, Owed
  <2>2. Pending(k)' => Pending(k) BY <1>1, <1>k DEF Cycle, Pending, Remembered
  <2> QED BY <2>1, <2>2, <1>1, <1>a DEF Cycle
<1>2. ASSUME NEW h \in inspect, ForgetStopped(h) PROVE Goal
  <2>1. slot[h.at].pid = "zero"
    BY <1>2, <1>t, <1>h DEF ForgetStopped, Stopped
  <2>2. Owed(k)' \subseteq Owed(k) BY <1>2, <2>1 DEF ForgetStopped, Owed
  <2>3. Pending(k)' => Pending(k) BY <1>2 DEF ForgetStopped, Pending, Remembered
  <2> QED BY <2>2, <2>3, <1>2, <1>a DEF ForgetStopped
<1>3. ASSUME NEW h \in inspect, KeepAlive(h) PROVE Goal
  <2>1. Owed(k)' \subseteq Owed(k) BY <1>3 DEF KeepAlive, Owed
  <2>2. Pending(k)' => Pending(k) BY <1>3 DEF KeepAlive, Pending, Remembered
  <2> QED BY <2>1, <2>2, <1>3, <1>a DEF KeepAlive
<1>4. ASSUME NEW h \in inspect, StopUnwanted(h) PROVE Goal
  <2>1. /\ h \in handles /\ h.at \in Slots
        /\ \A j \in Slots : j # h.at => slot'[j] = slot[j]
        /\ slot'[h.at] = [slot[h.at] EXCEPT !.term = TRUE]
    BY <1>4, <1>l, StopEffect
  <2>2. slot'[h.at].key = h.key BY <2>1, <1>t, <1>h DEF Slot
  <2>3. handles' = handles \ {h} /\ inspect' = inspect \ {h} /\ h.key \notin wanted
        /\ UNCHANGED <<targets, wanted, faults, changes>>
    BY <1>4 DEF StopUnwanted
  <2>4. CASE k = h.key
    <3>1. Owed(k)' \subseteq Owed(k) \cup {h.at} BY <2>1, <2>3 DEF Owed
    <3>2. Pending(k) BY <2>3, <2>4 DEF Pending
    <3>3. ~Pending(k)' BY <2>3, <2>4, <1>h, <1>t DEF Pending, Remembered
    <3> QED BY <3>1, <3>2, <3>3, <2>3, <1>l, OwedPaid
  <2>5. CASE k # h.key
    <3>1. \A g \in handles : g.at = h.at => g = h BY <1>h, <2>1
    <3>2. Owed(k)' \subseteq Owed(k) BY Zenon, <2>1, <2>2, <2>3, <2>5, <3>1 DEF Owed
    <3>3. Pending(k)' => Pending(k) BY <2>3 DEF Pending, Remembered
    <3> QED BY <3>2, <3>3, <2>3, <1>a
  <2> QED BY <2>4, <2>5
<1>5. ASSUME NEW q \in wanted, AlreadyThere(q) \/ LaunchFails(q) PROVE Goal
  <2>1. Owed(k)' \subseteq Owed(k) BY <1>5 DEF AlreadyThere, LaunchFails, Owed
  <2>2. Pending(k)' => Pending(k)
    BY <1>5 DEF AlreadyThere, LaunchFails, Pending, Remembered
  <2> QED BY <2>1, <2>2, <1>5, <1>a DEF AlreadyThere, LaunchFails
<1>6. ASSUME NEW q \in wanted, Launch(q) PROVE Goal
  <2>1. PICK i \in Slots, h \in Handle :
             /\ ~slot[i].use
             /\ h.at = i /\ h.key = q /\ h.gen = slot'[i].gen
             /\ \A j \in Slots : j # i => slot'[j] = slot[j]
             /\ slot'[i].use /\ slot'[i].key = q /\ slot'[i].pid = "notyet"
             /\ ~slot'[i].term /\ ~slot'[i].rwterm
             /\ handles' = handles \cup {h}
    BY <1>6, <1>l, LaunchEffect
  <2>2. /\ inspect' = {} /\ wanted' = wanted \ {q}
        /\ UNCHANGED <<targets, faults, changes>>
    BY <1>6 DEF Launch
  <2>3. i \notin Owed(k)' BY <2>1 DEF Owed
  <2>4. Owed(k)' \subseteq Owed(k) BY <2>1, <2>3 DEF Owed
  <2>5. Pending(k)' => Pending(k) BY <2>1, <2>2 DEF Pending, Remembered
  <2> QED BY <2>2, <2>4, <2>5, <1>a
<1>7. ASSUME NEW i \in Slots, PostmasterStep(i) PROVE Goal
  <2>1. PostmasterEffect(i) BY <1>7, <1>l, PostmasterFrees
  <2>2. Owed(k)' \subseteq Owed(k) BY <2>1, <1>h DEF PostmasterEffect, Owed
  <2>3. Pending(k)' => Pending(k) BY <2>1 DEF PostmasterEffect, Pending, Remembered
  <2> QED BY <2>1, <2>2, <2>3, <1>a DEF PostmasterEffect
<1>8. ASSUME NEW i \in Slots, WorkerFails(i) PROVE Goal
  <2>1. \A j \in Slots : /\ j # i => slot'[j] = slot[j]
                         /\ slot'[j].use = slot[j].use /\ slot'[j].key = slot[j].key
                         /\ slot'[j].rwterm = slot[j].rwterm
    BY <1>8, <1>t DEF WorkerFails, Slot
  <2>2. /\ faults' = faults + 1
        /\ UNCHANGED <<targets, handles, inspect, wanted, changes>>
    BY <1>8 DEF WorkerFails, Fault
  <2>3. Owed(k)' \subseteq Owed(k) \cup {i} BY <2>1, <2>2 DEF Owed
  <2>4. Pending(k)' => Pending(k) BY <2>2 DEF Pending, Remembered
  <2>5. faults' + changes' = faults + changes + 1 BY <2>2, <1>t
  <2> QED BY <2>3, <2>4, <2>5, <1>l, OwedPaid
<1>9. CASE LauncherFails \/ ServerCrash
  <2>1. \A i \in Slots : (slot'[i].use /\ ~slot'[i].rwterm) =>
                              /\ slot[i].use /\ ~slot[i].rwterm
                              /\ slot'[i].key = slot[i].key
    <3>1. CASE LauncherFails BY <3>1 DEF LauncherFails
    <3>2. CASE ServerCrash
      <4>1. ASSUME NEW i \in Slots
            PROVE  (Rebuilt(i).use /\ ~Rebuilt(i).rwterm) =>
                      /\ slot[i].known /\ ~slot[i].rwterm
                      /\ Rebuilt(i).key = slot[i].key
        BY DEF Rebuilt, Registered, FreeSlot
      <4> QED BY <3>2, <4>1, <1>l DEF ServerCrash, KnownInUse
    <3> QED BY <1>9, <3>1, <3>2
  <2>2. PICK x : Owed(k)' \subseteq Owed(k) \cup {x} BY <2>1, <1>l, ListLost
  <2>3. /\ faults' = faults + 1 /\ changes' = changes
        /\ handles' = {} /\ inspect' = {} /\ wanted' = {}
    BY <1>9 DEF LauncherFails, ServerCrash, Fault
  <2>4. ~Pending(k)' BY <2>3 DEF Pending, Remembered
  <2>5. faults' + changes' = faults + changes + 1 BY <2>3, <1>t
  <2> QED BY <2>2, <2>4, <2>5, <1>l, OwedPaid
<1>10. ASSUME NEW d \in Dbs, TargetsChange(d) PROVE Goal
  <2>1. Owed(k)' \subseteq Owed(k) BY <1>10 DEF TargetsChange, Owed
  <2>2. faults' + changes' = faults + changes + 1 BY <1>10, <1>t DEF TargetsChange
  <2> QED BY <2>1, <2>2, <1>l, OwedKept
<1>11. CASE UNCHANGED vars
  <2>1. Owed(k)' \subseteq Owed(k) BY <1>11 DEF vars, Owed
  <2>2. Pending(k)' => Pending(k) BY <1>11 DEF vars, Pending, Remembered
  <2> QED BY <2>1, <2>2, <1>11, <1>a DEF vars
<1> QED BY <1>1, <1>2, <1>3, <1>4, <1>5, <1>6, <1>7, <1>8, <1>9, <1>10, <1>11
     DEF Next, LauncherStep

-----------------------------------------------------------------------------
LEMMA InitLInv == Init => LInv
<1> SUFFICES ASSUME Init PROVE LInv OBVIOUS
<1>1. TypeOK BY InitType
<1>2. \A i \in Slots : ~slot[i].use /\ ~slot[i].known BY DEF Init, FreeSlot
<1>3. HandlesNameWorkers BY DEF Init, HandlesNameWorkers
<1>4. QuietRemembers /\ KnownInUse BY <1>2 DEF QuietRemembers, KnownInUse
<1>5. ASSUME NEW k \in Keys
      PROVE  Cardinality(Owed(k)) + (IF Pending(k) THEN 1 ELSE 0) <= faults + changes
  <2>1. Owed(k) = {} BY <1>2 DEF Owed
  <2>2. Cardinality(Owed(k)) = 0 BY <2>1, FS_EmptySet
  <2>3. ~Pending(k) BY DEF Init, Pending, Remembered
  <2>4. faults = 0 /\ changes = 0 BY DEF Init
  <2> QED BY <2>2, <2>3, <2>4
<1> QED BY <1>1, <1>3, <1>4, <1>5 DEF LInv, OwedBounded

LEMMA StepLInv == LInv /\ [Next]_vars => LInv'
BY StepType, StepHandles, StepQuiet, StepKnown, StepOwed DEF LInv

(* The invariant gives the bound: at most one live worker of a pair is     *)
(* remembered and has not exited, the others are owed.                     *)
LEMMA LInvBounds == LInv => DuplicatesBounded
<1> SUFFICES ASSUME LInv, NEW k \in Keys
             PROVE  Cardinality(Live(k)) <= 1 + (IF faults = 0 THEN 0 ELSE faults + changes)
  BY DEF DuplicatesBounded
<1>l. TypeOK /\ HandlesNameWorkers /\ QuietRemembers /\ OwedBounded BY DEF LInv
<1>t. faults \in Nat /\ changes \in Nat BY <1>l, LauncherAssumption DEF TypeOK
<1>h. /\ \A h \in handles : slot[h.at].key = h.key
      /\ \A g, h \in handles : g.key = h.key => g = h
  BY <1>l DEF HandlesNameWorkers, Live
<1>1. CASE faults = 0
  <2>1. \A i \in Live(k) : \E h \in handles : h.at = i /\ h.key = k
    BY <1>1, <1>l, <1>h DEF Live, QuietRemembers
  <2>2. \A i, j \in Live(k) : i = j BY <2>1, <1>h
  <2>3. \E x : Live(k) \subseteq {} \cup {x} BY <2>2
  <2>4. Cardinality(Live(k)) <= 0 + 1 BY Zenon, <2>3, GrowByOne, FS_EmptySet
  <2>5. Cardinality(Live(k)) \in Nat BY Zenon, <2>3, GrowByOne, FS_EmptySet
  <2> QED BY <2>4, <2>5, <1>1
<1>2. CASE faults # 0
  <2>1. \A i \in Live(k) : i \in Owed(k) \/ \E h \in handles : h.at = i /\ h.key = k
    BY <1>h DEF Live, Owed
  <2>2. \E x : Live(k) \subseteq Owed(k) \cup {x} BY <2>1, <1>h
  <2>3. IsFiniteSet(Owed(k)) BY OwedFinite
  <2>4. /\ Cardinality(Live(k)) \in Nat /\ Cardinality(Owed(k)) \in Nat
        /\ Cardinality(Live(k)) <= Cardinality(Owed(k)) + 1
    BY Zenon, <2>2, <2>3, GrowByOne
  <2>5. Cardinality(Owed(k)) + (IF Pending(k) THEN 1 ELSE 0) <= faults + changes
    BY <1>l DEF OwedBounded
  <2>6. Cardinality(Owed(k)) <= faults + changes BY <2>4, <2>5, <1>t
  <2> QED BY <2>4, <2>6, <1>t, <1>2
<1> QED BY <1>1, <1>2

(***************************************************************************)
(* The launcher, the slot array and the counters keep their types.         *)
(***************************************************************************)
THEOREM LauncherTypes == Spec => []TypeOK
<1>1. LInv => TypeOK BY DEF LInv
<1> QED BY <1>1, InitLInv, StepLInv, PTL DEF Spec

(***************************************************************************)
(* A handle of the launcher always names the registered, not terminated    *)
(* worker it was made for, and no two are for the same pair, through any   *)
(* number of worker errors, launcher restarts and server crashes.          *)
(***************************************************************************)
THEOREM HandlesSound == Spec => []HandlesNameWorkers
<1>1. LInv => HandlesNameWorkers BY DEF LInv
<1> QED BY <1>1, InitLInv, StepLInv, PTL DEF Spec

(***************************************************************************)
(* A (database, slot) pair has one registered worker at most as long as    *)
(* nothing fails, and then at most one more per fault or change.           *)
(***************************************************************************)
THEOREM DuplicatesStayBounded == Spec => []DuplicatesBounded
BY InitLInv, StepLInv, LInvBounds, PTL DEF Spec
=============================================================================
