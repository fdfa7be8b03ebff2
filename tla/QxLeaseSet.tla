---------------------------- MODULE QxLeaseSet ----------------------------
(***************************************************************************)
(* What the shared table of backend leases (observe/qx_stat.c) promises    *)
(* its users: a set of (task, instance) pairs of bounded size, changed by  *)
(* one registration, one release or one fence of a task at a time.         *)
(***************************************************************************)
EXTENDS Integers, FiniteSets

CONSTANTS Owners, Ids, Capacity

VARIABLE leases

Init == leases = {}

Register(t, x) ==
    /\ Cardinality(leases) < Capacity
    /\ leases' = leases \cup {<<t, x>>}

Release(t, x) == leases' = leases \ {<<t, x>>}

Fence(t) == leases' = {l \in leases : l[1] # t}

\* Shared memory is initialised again by a crash restart.
Clear == leases' = {}

Next ==
    \/ \E t \in Owners : \E x \in Ids : Register(t, x) \/ Release(t, x)
    \/ \E t \in Owners : Fence(t)
    \/ Clear

Spec == Init /\ [][Next]_leases
=============================================================================
