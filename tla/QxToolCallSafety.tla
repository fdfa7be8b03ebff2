------------------------- MODULE QxToolCallSafety -------------------------
(***************************************************************************)
(* Proofs about what the calls of QxToolCall leave behind, for every set   *)
(* of tasks, sessions and instance identifiers, every size of the lease    *)
(* table, every budget and every charge: what the lease table lists, that  *)
(* it implements QxLeaseSet, and that no charge to a task is lost.         *)
(***************************************************************************)
EXTENDS QxToolCallProofs, FiniteSetTheorems, WellFoundedInduction

-----------------------------------------------------------------------------
(* The ledger of every task, up to int32 wraparound.                       *)

\* Two numbers that differ by a multiple of the span of int32.
Same(a, b) == \E k \in Int : a - b = k * Span

\* The transaction of s counts on from the committed row, up to wraparound.
Follows(s, t, d) == Same(row[t].used[d] + txn[s].bill[d], txn[s].used[d])

(* The committed row says what was billed, and a transaction that is up to *)
(* date counts on from the row, both up to wraparound.                     *)
WrappedOK(t, d) ==
    /\ Same(billed[t][d], row[t].used[d])
    /\ \A s \in Sessions :
          Current(s, t) => Follows(s, t, d)

(* Numbers that differ by a multiple of the span: an equivalence that      *)
(* addition keeps, that Wrap respects and that has remainder zero.         *)
LEMMA SpanType == Span \in Nat /\ Span > 0
BY ToolCallAssumption DEF Span

LEMMA SameRefl == \A a \in Int : Same(a, a) /\ Same(a + 0, a)
<1> SUFFICES ASSUME NEW a \in Int PROVE a - a = 0 * Span /\ (a + 0) - a = 0 * Span
  BY DEF Same
<1> QED BY SpanType

LEMMA SameTrans ==
    ASSUME NEW a \in Int, NEW b \in Int, NEW c \in Int, Same(a, b), Same(b, c)
    PROVE  Same(a, c)
<1>1. PICK k \in Int : a - b = k * Span BY DEF Same
<1>2. PICK l \in Int : b - c = l * Span BY DEF Same
<1>3. (k + l) * Span = k * Span + l * Span BY SpanType
<1>4. k + l \in Int /\ k * Span \in Int /\ l * Span \in Int BY SpanType
<1>5. a - c = (k + l) * Span BY <1>1, <1>2, <1>3, <1>4
<1> QED BY <1>4, <1>5 DEF Same

LEMMA SameAdds ==
    ASSUME NEW a \in Int, NEW b \in Int, NEW c \in Int, Same(a, b)
    PROVE  Same(a + c, b + c)
<1>1. PICK k \in Int : a - b = k * Span BY DEF Same
<1>2. (a + c) - (b + c) = k * Span BY <1>1
<1> QED BY <1>2 DEF Same

(* The wraparound of a sum changes it by a multiple of the span.           *)
LEMMA SameWraps == \A n \in Int : Same(n, Wrap(n)) /\ Wrap(n) \in Int
<1> SUFFICES ASSUME NEW n \in Int PROVE Same(n, Wrap(n)) /\ Wrap(n) \in Int OBVIOUS
<1>1. Wrap(n) \in {n, n - Span, n + Span} BY DEF Wrap
<1>2. Wrap(n) \in Int BY <1>1, SpanType
<1>3. /\ n - n = 0 * Span /\ n - (n - Span) = 1 * Span /\ n - (n + Span) = (-1) * Span
  BY SpanType
<1>4. \E k \in Int : n - Wrap(n) = k * Span BY <1>1, <1>3
<1> QED BY <1>2, <1>4 DEF Same

LEMMA MultipleMod == \A k \in Int : \A S \in Nat : S > 0 => (k * S) % S = 0
OBVIOUS

LEMMA SameMod ==
    ASSUME NEW a \in Int, NEW b \in Int, Same(a, b)
    PROVE  (a - b) % Span = 0
<1>1. PICK k \in Int : a - b = k * Span BY DEF Same
<1>2. (k * Span) % Span = 0 BY SpanType, MultipleMod, Zenon
<1> QED BY <1>1, <1>2, Zenon

-----------------------------------------------------------------------------
(* The entries of the ledger are integers.                                 *)
LEMMA LedgerTypes ==
    ASSUME TypesOK, NEW t \in Tasks, NEW d \in Dims, NEW s \in Sessions
    PROVE  /\ billed[t][d] \in Int /\ row[t].used[d] \in Int
           /\ txn[s].used[d] \in Int /\ txn[s].bill[d] \in Int
<1>1. txn[s] \in Txn /\ row[t].used \in [Dims -> Int32] /\ billed[t] \in [Dims -> Int]
  BY DEF TypesOK, TypeOK
<1>2. txn[s].used \in [Dims -> Int32] /\ txn[s].bill \in [Dims -> Int] BY <1>1 DEF Txn
<1>3. Int32 \subseteq Int BY ToolCallAssumption DEF Int32
<1> QED BY Zenon, <1>1, <1>2, <1>3

(* A charge keeps a transaction in step with the row.                      *)
LEMMA ChargeFollows ==
    ASSUME TypesOK, NEW s \in Sessions, NEW t \in Tasks, NEW d \in Dims, Follows(s, t, d),
           NEW delta \in [Dims -> Int32],
           txn'[s].used = Charged(txn[s].used, delta),
           txn'[s].bill = Plus(txn[s].bill, delta),
           row' = row
    PROVE  Follows(s, t, d)'
<1>1. PICK u \in Int : u = txn[s].used[d] BY LedgerTypes
<1>2. PICK b \in Int : b = txn[s].bill[d] BY LedgerTypes
<1>3. PICK base \in Int : base = row[t].used[d] BY LedgerTypes
<1>4. PICK v \in Int : v = delta[d]
  <2>1. Int32 \subseteq Int BY ToolCallAssumption DEF Int32
  <2> QED BY <2>1, Zenon
<1>5. Same(base + b, u) BY <1>1, <1>2, <1>3, Zenon DEF Follows
<1>6. base + b \in Int /\ u + v \in Int /\ base + (b + v) \in Int OBVIOUS
<1>7. Same((base + b) + v, u + v) BY <1>5, <1>6, SameAdds, Zenon
<1>8. Same(u + v, Wrap(u + v)) /\ Wrap(u + v) \in Int BY SameWraps
<1>9. (base + b) + v = base + (b + v) OBVIOUS
<1>10. Same(base + (b + v), Wrap(u + v)) BY <1>7, <1>8, <1>9, <1>6, SameTrans, Zenon
<1>11. txn'[s].used[d] = Wrap(u + v) BY <1>1, <1>4 DEF Charged
<1>12. txn'[s].bill[d] = b + v BY <1>2, <1>4 DEF Plus
<1> QED BY <1>3, <1>10, <1>11, <1>12, Zenon DEF Follows

(* A step of s that does not commit keeps s in step with the row.          *)
LEMMA StepFollows ==
    ASSUME TypesOK, NEW s \in Sessions, SessionStep(s), ~Commit(s), row' = row,
           NEW t \in Tasks, NEW d \in Dims, WrappedOK(t, d), RowOK(t), Current(s, t)'
    PROVE  Follows(s, t, d)'
<1>1. Zero[d] = 0 /\ row[t].used[d] \in Int BY LedgerTypes DEF Zero
<1>2. Same(row[t].used[d] + Zero[d], row[t].used[d]) BY <1>1, SameRefl
<1>3. Current(s, t) => Follows(s, t, d) BY Zenon DEF WrappedOK
<1>4. CASE txn'[s].used = row[t].used /\ txn'[s].bill = Zero
  BY <1>2, <1>4, Zenon DEF Follows
<1>5. CASE Current(s, t) /\ txn'[s].used = txn[s].used /\ txn'[s].bill = txn[s].bill
  BY <1>3, <1>5, Zenon DEF Follows
<1>6. ASSUME Current(s, t), NEW delta \in [Dims -> Int32],
             txn'[s].used = Charged(txn[s].used, delta),
             txn'[s].bill = Plus(txn[s].bill, delta)
      PROVE  Follows(s, t, d)'
  BY Zenon, <1>3, <1>6, ChargeFollows
<1> QED BY Zenon, <1>4, <1>5, <1>6, StepCounts

(* Only the step of s itself has to be looked at when no row changes.      *)
LEMMA WrappedFrame ==
    ASSUME NEW t \in Tasks, NEW d \in Dims, NEW s \in Sessions, WrappedOK(t, d),
           row' = row, billed' = billed, Moves(s),
           Current(s, t)' => Follows(s, t, d)'
    PROVE  WrappedOK(t, d)'
<1>1. Same(billed[t][d], row[t].used[d])' BY Zenon DEF WrappedOK, Same
<1> SUFFICES ASSUME NEW r \in Sessions, Current(r, t)'
             PROVE  Follows(r, t, d)'
  BY <1>1, Zenon DEF WrappedOK
<1>2. CASE r = s BY <1>2
<1>3. CASE r # s
  <2>1. txn'[r] = txn[r] BY <1>3 DEF Moves
  <2>2. Current(r, t) BY <2>1 DEF Current, Holds
  <2>3. Follows(r, t, d) BY <2>2, Zenon DEF WrappedOK
  <2> QED BY <2>1, <2>3, Zenon DEF Follows
<1> QED BY <1>2, <1>3

(* A commit adds its charges to what the task was billed and, up to        *)
(* wraparound, to the row.                                                 *)
LEMMA CommitWrapped ==
    ASSUME CInv, NEW s \in Sessions, Commit(s), NEW t \in Tasks, NEW d \in Dims,
           Next, WrappedOK(t, d)
    PROVE  WrappedOK(t, d)'
<1>1. TypesOK /\ Exclusive BY DEF CInv
<1>2. CASE /\ row'[t] = row[t] /\ billed'[t] = billed[t]
           /\ \A r \in Sessions : Current(r, t)' =>
                 Current(r, t) /\ txn'[r].used = txn[r].used /\ txn'[r].bill = txn[r].bill
  BY Zenon, <1>2 DEF WrappedOK, Follows
<1>3. CASE /\ Current(s, t)
           /\ row'[t].used = txn[s].used /\ billed'[t] = Plus(billed[t], txn[s].bill)
           /\ \A r \in Sessions : ~Current(r, t)'
  <2>1. PICK a \in Int : a = billed[t][d] BY <1>1, LedgerTypes
  <2>2. PICK base \in Int : base = row[t].used[d] BY <1>1, LedgerTypes
  <2>3. PICK b \in Int : b = txn[s].bill[d] BY <1>1, LedgerTypes
  <2>4. PICK u \in Int : u = txn[s].used[d] BY <1>1, LedgerTypes
  <2>5. Same(a, base) BY <2>1, <2>2, Zenon DEF WrappedOK
  <2>6. Same(base + b, u) BY <1>3, <2>2, <2>3, <2>4, Zenon DEF WrappedOK, Follows
  <2>7. Same(a + b, base + b) BY <2>5, SameAdds, Zenon
  <2>8. a + b \in Int /\ base + b \in Int OBVIOUS
  <2>9. Same(a + b, u) BY <2>6, <2>7, <2>8, SameTrans, Zenon
  <2>10. billed'[t][d] = a + b BY <1>3, <2>1, <2>3 DEF Plus
  <2>11. row'[t].used[d] = u BY <1>3, <2>4
  <2> QED BY <1>3, <2>9, <2>10, <2>11, Zenon DEF WrappedOK
<1> QED BY <1>1, <1>2, <1>3, CommitCounts, Zenon

(* Every step keeps the ledger of a task, up to wraparound.                *)
LEMMA WrappedKept ==
    ASSUME CInv, Next, NEW t \in Tasks, NEW d \in Dims, WrappedOK(t, d)
    PROVE  WrappedOK(t, d)'
<1>1. TypesOK /\ RowOK(t) BY DEF CInv
<1>2. ASSUME NEW s \in Sessions, SessionStep(s), ~Commit(s) PROVE WrappedOK(t, d)'
  <2>1. row' = row /\ billed' = billed
    BY Zenon, <1>2 DEF SessionStep, Submit, Fetch, Lock, FixedCharge, Charge, CallTool, Register,
          Validate, Finish, ChargeExternal, ReclaimFence, Abort
  <2>2. Moves(s) BY <1>1, <1>2, SessionMoves
  <2>3. Current(s, t)' => Follows(s, t, d)' BY <1>1, <1>2, <2>1, StepFollows
  <2> QED BY <2>1, <2>2, <2>3, WrappedFrame
<1>3. ASSUME NEW s \in Sessions, Commit(s) PROVE WrappedOK(t, d)' BY <1>3, CommitWrapped
<1>4. ASSUME Crash PROVE WrappedOK(t, d)'
  <2>1. row' = row /\ billed' = billed /\ \A r \in Sessions : txn'[r] = Idle
    BY <1>4 DEF Crash
  <2>2. \A r \in Sessions : txn'[r].pc = "idle" BY <2>1, IdlePhase
  <2>3. \A r \in Sessions : ~Current(r, t)' BY <2>2 DEF Current, Holds
  <2> QED BY <2>1, <2>3, Zenon DEF WrappedOK, Same
<1>5. ASSUME NEW u \in HookTasks, Hook(u) PROVE WrappedOK(t, d)'
  <2>1. row' = row /\ billed' = billed BY <1>5 DEF Hook
  <2>2. \A r \in Sessions : /\ txn'[r].pc = txn[r].pc /\ txn'[r].task = txn[r].task
                            /\ txn'[r].used = txn[r].used /\ txn'[r].bill = txn[r].bill
                            /\ txn'[r].stale = txn[r].stale
    BY Zenon, <1>1, <1>5, HookMoves
  <2>3. \A r \in Sessions : (Current(r, t)' <=> Current(r, t))
                            /\ (Follows(r, t, d)' <=> Follows(r, t, d))
    BY Zenon, <2>1, <2>2 DEF Current, Holds, Follows, Same
  <2> QED BY <2>1, <2>3, Zenon DEF WrappedOK, Same
<1> QED BY <1>2, <1>3, <1>4, <1>5 DEF Next

(***************************************************************************)
(* However many transactions overlap, and whether or not a charge wraps    *)
(* around, the row of a task says the sum of what the committed            *)
(* transactions charged to it, up to int32 wraparound: the row lock and    *)
(* the second read under it (QxCatalogChargeTaskBudget) lose no charge and *)
(* count none twice.                                                       *)
(***************************************************************************)
THEOREM NoChargeLost == Spec => []NoLostCharge
<1> DEFINE WInv == CInv /\ \A t \in Tasks, d \in Dims : WrappedOK(t, d)
<1>1. Init => WInv
  <2> SUFFICES ASSUME Init, NEW t \in Tasks, NEW d \in Dims PROVE WrappedOK(t, d)
    BY CInvInit
  <2>1. \A s \in Sessions : txn[s] = Idle BY DEF Init
  <2>2. \A s \in Sessions : txn[s].pc = "idle" BY <2>1, IdlePhase
  <2>3. \A s \in Sessions : ~Current(s, t) BY <2>2 DEF Current, Holds
  <2>4. billed[t] = Zero /\ row[t].used = Zero BY DEF Init
  <2>5. Zero[d] \in Int BY DEF Zero
  <2>6. Same(Zero[d], Zero[d]) BY <2>5, SameRefl
  <2> QED BY <2>3, <2>4, <2>6, Zenon DEF WrappedOK
<1>2. WInv /\ [Next]_vars => WInv'
  <2> SUFFICES ASSUME WInv, [Next]_vars, NEW t \in Tasks, NEW d \in Dims
               PROVE  WrappedOK(t, d)'
    BY CInvStep
  <2>1. CASE Next BY <2>1, WrappedKept
  <2>2. CASE UNCHANGED vars
    <3>1. row' = row /\ txn' = txn /\ billed' = billed BY <2>2 DEF vars
    <3>2. WrappedOK(t, d) OBVIOUS
    <3> QED BY <3>1, <3>2, Zenon DEF WrappedOK, Current, Holds, Follows, Same
  <2> QED BY <2>1, <2>2
<1>3. WInv => NoLostCharge
  <2> SUFFICES ASSUME WInv, NEW t \in Tasks, NEW d \in Dims
               PROVE  (billed[t][d] - row[t].used[d]) % Span = 0
    BY DEF NoLostCharge
  <2>1. Same(billed[t][d], row[t].used[d]) BY Zenon DEF WrappedOK
  <2>2. billed[t][d] \in Int /\ row[t].used[d] \in Int
    <3>1. TypesOK BY DEF CInv
    <3>2. row[t].used \in [Dims -> Int32] /\ billed[t] \in [Dims -> Int]
      BY <3>1 DEF TypesOK, TypeOK
    <3>3. Int32 \subseteq Int BY ToolCallAssumption DEF Int32
    <3> QED BY Zenon, <3>2, <3>3
  <2> QED BY <2>1, <2>2, SameMod, Zenon
<1> QED BY <1>1, <1>2, <1>3, PTL DEF Spec

-----------------------------------------------------------------------------
(* The lease table.                                                        *)

LeaseType == lease \in [Slots -> (Owners \X Ids) \cup {NoLease}]

(* A set of naturals that is not empty has a smallest member.              *)
LEMMA SmallestNat ==
    ASSUME NEW S, S \subseteq Nat, S # {}
    PROVE  \E i \in S : \A j \in S : i <= j
<1> DEFINE R == {ss \in Nat \X Nat : ss[1] < ss[2]}
<1>1. IsWellFoundedOn(R, Nat)
  BY NatLessThanWellFounded DEF OpToRel
<1>2. \A m, n \in Nat : <<m, n>> \in R <=> m < n OBVIOUS
<1> HIDE DEF R
<1>3. PICK x \in S : \A y \in S : ~ (<<y, x>> \in R)
  BY <1>1, WFMin, Zenon
<1>4. \A y \in S : x \in Nat /\ y \in Nat /\ ~(y < x) BY Zenon, <1>2, <1>3
<1> QED BY <1>4

(* A set of slots has one first slot, if it has any.                       *)
LEMMA OneFirst ==
    ASSUME NEW S, S \subseteq Slots
    PROVE  /\ S # {} => \E i \in S : First(i, S)
           /\ \A i, j : First(i, S) /\ First(j, S) => i = j
<1>1. S \subseteq Nat BY ToolCallAssumption DEF Slots
<1>2. S # {} => \E i \in S : First(i, S) BY <1>1, SmallestNat, Zenon DEF First
<1>3. ASSUME NEW i, NEW j, First(i, S), First(j, S) PROVE i = j
  <2>1. i \in Nat /\ j \in Nat /\ i <= j /\ j <= i BY <1>1, <1>3 DEF First
  <2> QED BY <2>1
<1> QED BY <1>2, <1>3

(* A registration fills one free slot or changes nothing.                  *)
LEMMA RegisterEffect ==
    ASSUME LeaseType, NEW t \in Owners, NEW x \in Ids \cup {NoId}
    PROVE  \/ /\ LeaseRegister(t, x) = lease
              /\ x = NoId \/ Has(t, x) \/ FreeSlots = {}
           \/ /\ x # NoId /\ ~Has(t, x)
              /\ \E k \in FreeSlots : LeaseRegister(t, x) = [lease EXCEPT ![k] = <<t, x>>]
<1>1. CASE x = NoId \/ Has(t, x) BY <1>1 DEF LeaseRegister
<1>2. CASE ~(x = NoId \/ Has(t, x))
  <2>1. LeaseRegister(t, x) =
           [i \in Slots |-> IF First(i, FreeSlots) THEN <<t, x>> ELSE lease[i]]
    BY <1>2 DEF LeaseRegister, Inserted
  <2>2. FreeSlots \subseteq Slots BY DEF FreeSlots
  <2>3. CASE FreeSlots = {}
    <3>1. \A i \in Slots : ~First(i, FreeSlots) BY <2>3 DEF First
    <3>2. LeaseRegister(t, x) = [i \in Slots |-> lease[i]] BY <2>1, <3>1, Zenon
    <3> QED BY <2>3, <3>2 DEF LeaseType
  <2>4. CASE FreeSlots # {}
    <3>1. PICK k \in FreeSlots : First(k, FreeSlots) BY <2>2, <2>4, OneFirst
    <3>2. \A i \in Slots : First(i, FreeSlots) <=> i = k BY <2>2, <3>1, OneFirst
    <3>3. LeaseRegister(t, x) = [i \in Slots |-> IF i = k THEN <<t, x>> ELSE lease[i]]
      BY <2>1, <3>2, Zenon
    <3>4. LeaseRegister(t, x) = [lease EXCEPT ![k] = <<t, x>>]
      BY Zenon, <2>2, <3>1, <3>3 DEF LeaseType
    <3> QED BY Zenon, <1>2, <3>4
  <2> QED BY <2>3, <2>4
<1> QED BY <1>1, <1>2

(* A release clears one slot of the task or changes nothing.               *)
LEMMA ReleaseEffect ==
    ASSUME LeaseType, NEW t \in Owners, NEW x \in Ids \cup {NoId}
    PROVE  \/ LeaseRelease(t, x) = lease
           \/ \E k \in SlotsOf(t) : LeaseRelease(t, x) = [lease EXCEPT ![k] = NoLease]
<1> DEFINE S == {j \in SlotsOf(t) : x = NoId \/ lease[j][2] = x}
<1>1. S \subseteq SlotsOf(t) /\ S \subseteq Slots BY DEF SlotsOf
<1>2. LeaseRelease(t, x) = [i \in Slots |-> IF First(i, S) THEN NoLease ELSE lease[i]]
  BY DEF LeaseRelease
<1> HIDE DEF S
<1>3. CASE S = {}
  <2>1. \A i \in Slots : ~First(i, S) BY <1>3 DEF First
  <2>2. LeaseRelease(t, x) = [i \in Slots |-> lease[i]] BY <1>2, <2>1, Zenon
  <2> QED BY <2>2 DEF LeaseType
<1>4. CASE S # {}
  <2>1. PICK k \in S : First(k, S) BY <1>1, <1>4, OneFirst
  <2>2. \A i \in Slots : First(i, S) <=> i = k BY <1>1, <2>1, OneFirst
  <2>3. LeaseRelease(t, x) = [i \in Slots |-> IF i = k THEN NoLease ELSE lease[i]]
    BY <1>2, <2>2, Zenon
  <2>4. LeaseRelease(t, x) = [lease EXCEPT ![k] = NoLease]
    BY Zenon, <1>1, <2>1, <2>3 DEF LeaseType
  <2> QED BY Zenon, <1>1, <2>1, <2>4
<1> QED BY <1>3, <1>4

(* Without duplicates a release clears the entry it names.                 *)
LEMMA ReleaseClears ==
    ASSUME LeaseType, NoDuplicateLease, NEW t \in Owners, NEW x \in Ids,
           NEW i \in Slots, lease[i] = <<t, x>>
    PROVE  LeaseRelease(t, x)[i] = NoLease
<1> DEFINE S == {j \in SlotsOf(t) : x = NoId \/ lease[j][2] = x}
<1>1. x # NoId /\ lease[i] # NoLease BY ToolCallAssumption DEF NoLease
<1>2. i \in S BY <1>1 DEF SlotsOf
<1>3. ASSUME NEW j \in S PROVE j = i
  <2>1. j \in Slots /\ lease[j] # NoLease /\ lease[j][1] = t /\ lease[j][2] = x
    BY <1>1 DEF SlotsOf
  <2>2. lease[j] \in Owners \X Ids BY <2>1 DEF LeaseType
  <2>3. lease[j] = <<t, x>> BY <2>1, <2>2
  <2> QED BY <1>1, <2>1, <2>3 DEF NoDuplicateLease
<1>4. i \in Int /\ i <= i BY ToolCallAssumption DEF Slots
<1>5. LeaseRelease(t, x) = [j \in Slots |-> IF First(j, S) THEN NoLease ELSE lease[j]]
  BY DEF LeaseRelease
<1> HIDE DEF S
<1>6. First(i, S) BY <1>2, <1>3, <1>4 DEF First
<1> QED BY <1>5, <1>6, Zenon

(* Registering adds no duplicate, the others only clear.                   *)
LEMMA NoDuplicateKept ==
    ASSUME TypesOK, NoDuplicateLease, Next
    PROVE  NoDuplicateLease'
<1>1. TableStep /\ LeaseType BY TableSteps DEF TypesOK, TypeOK, LeaseType
<1>2. CASE \A i \in Slots : lease'[i] = lease[i] \/ lease'[i] = NoLease
  BY <1>2 DEF NoDuplicateLease
<1>3. ASSUME NEW t \in Owners, NEW x \in Ids \cup {NoId}, NEW k \in FreeSlots,
             ~Has(t, x), lease' = [lease EXCEPT ![k] = <<t, x>>]
      PROVE  NoDuplicateLease'
  <2>1. k \in Slots BY DEF FreeSlots
  <2>2. \A i \in Slots : lease'[i] = IF i = k THEN <<t, x>> ELSE lease[i]
    BY <1>1, <1>3, <2>1 DEF LeaseType
  <2>3. \A i \in Slots : lease[i] # <<t, x>> BY <1>3 DEF Has
  <2> QED BY <2>2, <2>3 DEF NoDuplicateLease
<1>4. ASSUME NEW t \in Owners, NEW x \in Ids \cup {NoId}, lease' = LeaseRegister(t, x)
      PROVE  NoDuplicateLease'
  <2>1. CASE lease' = lease BY <1>2, <2>1
  <2> QED BY <1>1, <1>3, <1>4, <2>1, RegisterEffect
<1>5. ASSUME NEW t \in Owners, NEW x \in Ids \cup {NoId}, lease' = LeaseRelease(t, x)
      PROVE  NoDuplicateLease'
  <2>1. \A i \in Slots : lease'[i] = lease[i] \/ lease'[i] = NoLease
    BY <1>5 DEF LeaseRelease
  <2> QED BY <1>2, <2>1
<1>6. ASSUME NEW t \in Owners, lease' = LeaseFence(t) PROVE NoDuplicateLease'
  <2>1. \A i \in Slots : lease'[i] = lease[i] \/ lease'[i] = NoLease
    BY <1>6 DEF LeaseFence
  <2> QED BY <1>2, <2>1
<1>7. CASE lease' = lease BY <1>2, <1>7
<1>8. CASE lease' = [i \in Slots |-> NoLease] BY <1>2, <1>8
<1> QED BY <1>1, <1>4, <1>5, <1>6, <1>7, <1>8 DEF TableStep

\* A step leaves the entries of the other tasks alone.
Touches(t) ==
    \A i \in Slots :
        /\ lease[i] # NoLease /\ lease[i][1] # t => lease'[i] = lease[i]
        /\ lease'[i] # NoLease /\ lease'[i][1] # t => lease'[i] = lease[i]

LEMMA TouchesOne ==
    ASSUME LeaseType, NEW t \in Owners,
           \/ lease' = lease \/ lease' = LeaseFence(t)
           \/ \E x \in Ids \cup {NoId} :
                 lease' = LeaseRegister(t, x) \/ lease' = LeaseRelease(t, x)
    PROVE  Touches(t)
<1>1. CASE lease' = lease BY <1>1 DEF Touches
<1>2. CASE lease' = LeaseFence(t) BY <1>2 DEF Touches, LeaseFence, SlotsOf
<1>3. ASSUME NEW x \in Ids \cup {NoId}, lease' = LeaseRelease(t, x) PROVE Touches(t)
  <2>1. ASSUME NEW k \in SlotsOf(t), lease' = [lease EXCEPT ![k] = NoLease] PROVE Touches(t)
    <3>1. lease[k] # NoLease /\ lease[k][1] = t /\ k \in Slots BY DEF SlotsOf
    <3>2. \A i \in Slots : lease'[i] = IF i = k THEN NoLease ELSE lease[i]
      BY <2>1, <3>1 DEF LeaseType
    <3> QED BY <3>1, <3>2 DEF Touches
  <2> QED BY <1>1, <1>3, <2>1, ReleaseEffect
<1>4. ASSUME NEW x \in Ids \cup {NoId}, lease' = LeaseRegister(t, x) PROVE Touches(t)
  <2>1. ASSUME NEW k \in FreeSlots, lease' = [lease EXCEPT ![k] = <<t, x>>] PROVE Touches(t)
    <3>1. \A i \in Slots : lease'[i] = lease[i] \/ (lease'[i] = <<t, x>> /\ lease[i] = NoLease)
      BY <2>1 DEF LeaseType, FreeSlots
    <3> QED BY <3>1 DEF Touches
  <2> QED BY <1>1, <1>4, <2>1, RegisterEffect
<1> QED BY <1>1, <1>2, <1>3, <1>4

(* A session's step changes only entries of the task whose row it holds.   *)
LEMMA SessionTouches ==
    ASSUME TypesOK, NEW s \in Sessions, SessionStep(s)
    PROVE  \/ lease' = lease
           \/ txn[s].task \in Tasks /\ Holds(s, txn[s].task) /\ Touches(txn[s].task)
<1>1. TypeOK /\ SessionOK(s) /\ txn[s] \in Txn /\ LeaseType BY DEF TypesOK, TypeOK, LeaseType
<1>2. CASE ~Register(s) /\ ~Finish(s) /\ ~ReclaimFence(s)
  BY Zenon, <1>2 DEF SessionStep, Submit, Fetch, Lock, FixedCharge, Charge, CallTool,
            Validate, ChargeExternal, Commit, Abort
<1>3. CASE Register(s) \/ Finish(s) \/ ReclaimFence(s)
  <2>1. txn[s].pc \in {"called", "checked", "reclaiming"}
    BY Zenon, <1>3 DEF Register, Finish, ReclaimFence
  <2>2. txn[s].task \in Tasks /\ txn[s].task \in Owners /\ Holds(s, txn[s].task)
    BY <1>1, <2>1 DEF SessionOK, Owners, Holds
  <2>3. \/ lease' = lease \/ lease' = LeaseFence(txn[s].task)
        \/ \E x \in Ids \cup {NoId} : \/ lease' = LeaseRegister(txn[s].task, x)
                                      \/ lease' = LeaseRelease(txn[s].task, x)
    <3>1. CASE Register(s) BY <1>1, <3>1, RegisterMoves
    <3>2. CASE Finish(s)
      <4>1. txn[s].reply \in AnyReply BY <1>1 DEF Txn
      <4>2. ReleaseId(txn[s].reply) \in Ids \cup {NoId} BY <4>1, ReplyIds
      <4> QED BY <3>2, <4>2 DEF Finish
    <3>3. CASE ReclaimFence(s) BY <3>3 DEF ReclaimFence
    <3> QED BY <1>3, <3>1, <3>2, <3>3
  <2> QED BY <1>1, <2>2, <2>3, TouchesOne
<1> QED BY <1>2, <1>3

LEMMA RegisterLists ==
    ASSUME LeaseType, NEW t \in Owners, NEW x \in Ids,
           Has(t, x) \/ FreeSlots # {}, lease' = LeaseRegister(t, x)
    PROVE  Has(t, x)'
<1>1. x # NoId BY ToolCallAssumption
<1>2. CASE lease' = lease /\ Has(t, x) BY <1>2 DEF Has
<1>3. ASSUME NEW k \in FreeSlots, lease' = [lease EXCEPT ![k] = <<t, x>>] PROVE Has(t, x)'
  <2>1. k \in Slots /\ lease'[k] = <<t, x>> BY <1>3 DEF FreeSlots, LeaseType
  <2> QED BY <2>1 DEF Has
<1> QED BY <1>1, <1>2, <1>3, RegisterEffect

(* The row lock keeps the other calls away from what s registered; a test  *)
(* function that removes it takes it from s.                               *)
LEMMA InFlightKept ==
    ASSUME TypesOK, Exclusive, InFlightListed, Next
    PROVE  InFlightListed'
<1> SUFFICES ASSUME NEW r \in Sessions, txn'[r].mine # NoId
             PROVE  Has(txn[r].task, txn[r].mine)'
  BY DEF InFlightListed
<1>1. LeaseType /\ TypeOK BY DEF TypesOK, TypeOK, LeaseType
<1>2. SessionOK(r)' /\ SessionOK(r) BY SessionsKept DEF TypesOK
<1>3. txn'[r].pc \in {"registered", "checked"} BY <1>2 DEF SessionOK
<1>4. ASSUME txn'[r].task = txn[r].task, txn'[r].mine = txn[r].mine
      PROVE  /\ txn[r].task \in Tasks /\ Holds(r, txn[r].task)
             /\ Has(txn[r].task, txn[r].mine)
             /\ lease' = lease => Has(txn[r].task, txn[r].mine)'
             /\ \A t \in Owners : t # txn[r].task /\ Touches(t) => Has(txn[r].task, txn[r].mine)'
  <2>1. txn[r].mine # NoId BY <1>4
  <2>2. txn[r].pc \in {"registered", "checked"} /\ txn[r].task \in Tasks
    BY <1>2, <2>1 DEF SessionOK
  <2>3. Has(txn[r].task, txn[r].mine) BY <2>1 DEF InFlightListed
  <2>4. lease' = lease => Has(txn[r].task, txn[r].mine)' BY <1>4, <2>3 DEF Has
  <2>5. ASSUME NEW t \in Owners, t # txn[r].task, Touches(t)
        PROVE  Has(txn[r].task, txn[r].mine)'
    <3>1. PICK i \in Slots : lease[i] = <<txn[r].task, txn[r].mine>> BY <2>3 DEF Has
    <3>2. lease'[i] = <<txn[r].task, txn[r].mine>>
      BY <2>5, <3>1 DEF Touches, NoLease
    <3> QED BY <1>4, <3>2 DEF Has
  <2> QED BY Zenon, <2>2, <2>3, <2>4, <2>5 DEF Holds
<1>5. ASSUME NEW s \in Sessions, SessionStep(s), s # r PROVE Has(txn[r].task, txn[r].mine)'
  <2>1. txn'[r].task = txn[r].task /\ txn'[r].mine = txn[r].mine
    <3>1. CASE Commit(s) BY <1>5, <3>1, CommitMoves
    <3>2. CASE ~Commit(s) BY <1>5, <3>2, SessionMoves DEF Moves
    <3> QED BY <3>1, <3>2
  <2>2. CASE lease' = lease BY <1>4, <2>1, <2>2
  <2>3. CASE txn[s].task \in Tasks /\ Holds(s, txn[s].task) /\ Touches(txn[s].task)
    <3>1. txn[s].task # txn[r].task BY Zenon, <1>4, <1>5, <2>1, <2>3 DEF Exclusive
    <3>2. txn[s].task \in Owners BY <2>3 DEF Owners
    <3> QED BY Zenon, <1>4, <2>1, <2>3, <3>1, <3>2
  <2> QED BY <1>5, <2>2, <2>3, SessionTouches
<1>6. ASSUME SessionStep(r) PROVE Has(txn[r].task, txn[r].mine)'
  <2>1. Register(r) \/ Validate(r)
    <3>1. ASSUME NEW t \in Tasks, Submit(r, t) PROVE FALSE
      <4>1. txn'[r] = [Idle EXCEPT !.pc = "charging", !.task = t]
        BY <1>1, <3>1 DEF Submit, TypeOK
      <4> QED BY <1>3, <4>1 DEF Idle
    <3>2. ASSUME NEW t \in Tasks, NEW k \in {"retry", "resume", "reclaim"}, Fetch(r, t, k)
          PROVE  FALSE
      <4>1. txn'[r] = [Idle EXCEPT !.pc = "fetched", !.task = t, !.kind = k,
                                   !.used = row[t].used]
        BY <1>1, <3>2 DEF Fetch, TypeOK
      <4> QED BY <1>3, <4>1 DEF Idle
    <3>3. ASSUME Lock(r) PROVE FALSE
      <4>1. txn[r] \in Txn BY <1>1 DEF TypeOK
      <4>2. txn'[r].pc \in {"reclaiming", "charging"} BY Zenon, <1>1, <1>2, <3>3, <4>1, LockMoves DEF Txn
      <4> QED BY <1>3, <4>2
    <3>4. ASSUME FixedCharge(r) \/ ChargeExternal(r) PROVE FALSE
      <4>1. PICK delta \in [Dims -> Int32] : Charges(r, delta) BY <3>4, ChargeSteps
      <4>2. txn'[r].pc = "charging" BY Zenon, <1>1, <1>2, <4>1, ChargeMoves DEF Charges
      <4> QED BY <1>3, <4>2
    <3>5. ASSUME CallTool(r) PROVE FALSE
      <4>1. txn[r].pc = "charging" /\ txn'[r].mine = txn[r].mine
        BY Zenon, <1>1, <1>2, <3>5, CallMoves DEF CallTool
      <4> QED BY <1>2, <4>1 DEF SessionOK
    <3>6. ~Finish(r) /\ ~ReclaimFence(r) BY Zenon, <1>1, <1>2, PhaseMoves
    <3>7. ~Commit(r) BY <1>3, CommitMoves DEF Idle
    <3>8. ~Abort(r) BY <1>1, <1>3, AbortMoves DEF Idle
    <3> QED BY <1>6, <3>1, <3>2, <3>3, <3>4, <3>5, <3>6, <3>7, <3>8 DEF SessionStep
  <2>2. CASE Validate(r)
    <3>1. txn'[r].mine = txn[r].mine /\ txn'[r].task = txn[r].task
      BY Zenon, <1>1, <1>2, <2>2, PhaseMoves DEF Keeps
    <3>2. lease' = lease BY <2>2 DEF Validate
    <3> QED BY <1>4, <3>1, <3>2
  <2>3. CASE Register(r)
    <3>1. txn'[r].task = txn[r].task BY Zenon, <1>1, <1>2, <2>3, RegisterMoves DEF Keeps
    <3>2. PICK x \in Ids \cup {NoId} :
             /\ lease' = LeaseRegister(txn[r].task, x)
             /\ txn'[r].mine = IF Has(txn[r].task, x) \/ FreeSlots # {} THEN x ELSE NoId
      BY <1>1, <1>2, <2>3, RegisterMoves
    <3>3. x \in Ids /\ txn'[r].mine = x /\ (Has(txn[r].task, x) \/ FreeSlots # {}) BY <3>2
    <3>4. txn[r].task \in Owners BY Zenon, <1>2, <2>3 DEF SessionOK, Register, Owners
    <3>5. \E i \in Slots : lease'[i] = <<txn[r].task, x>>
      <4>1. PICK t \in Owners : t = txn[r].task BY <3>4
      <4>2. Has(t, x)' BY <1>1, <3>2, <3>3, <4>1, RegisterLists
      <4> QED BY <4>1, <4>2 DEF Has
    <3> QED BY <3>1, <3>3, <3>5 DEF Has
  <2> QED BY <2>1, <2>2, <2>3
<1>7. ASSUME Crash PROVE FALSE
  <2>1. txn'[r] = Idle BY <1>7 DEF Crash
  <2> QED BY <2>1 DEF Idle
<1>8. ASSUME NEW t \in HookTasks, Hook(t) PROVE Has(txn[r].task, txn[r].mine)'
  <2>1. /\ txn'[r].task = txn[r].task
        /\ txn'[r].mine = IF <<txn[r].task, txn[r].mine>> \in Listed(lease) \ Listed(lease')
                          THEN NoId ELSE txn[r].mine
    BY Zenon, <1>8, HookMoves
  <2>2. /\ txn'[r].mine = txn[r].mine
        /\ ~(<<txn[r].task, txn[r].mine>> \in Listed(lease) \ Listed(lease'))
    BY <2>1
  <2>3. Has(txn[r].task, txn[r].mine) BY <1>4, <2>1, <2>2
  <2>4. <<txn[r].task, txn[r].mine>> \in Listed(lease) BY <2>3 DEF Listed, Has, NoLease
  <2>5. <<txn[r].task, txn[r].mine>> \in Listed(lease') BY <2>2, <2>4
  <2>6. PICK i \in Slots : lease'[i] = <<txn[r].task, txn[r].mine>> BY <2>5 DEF Listed
  <2> QED BY <2>1, <2>2, <2>6 DEF Has
<1> QED BY <1>5, <1>6, <1>7, <1>8 DEF Next

(* What is left behind stays so for as long as it is listed.               *)
LEMMA LeftMove ==
    ASSUME NEW s \in Sessions, SessionStep(s), NEW e \in left, e \in Listed(lease')
    PROVE  e \in left'
<1>1. CASE Finish(s) BY <1>1 DEF Finish
<1>2. CASE ReclaimFence(s) BY <1>2 DEF ReclaimFence
<1>3. CASE Abort(s) BY <1>3 DEF Abort
<1>4. CASE ~Finish(s) /\ ~ReclaimFence(s) /\ ~Abort(s)
  BY Zenon, <1>4 DEF SessionStep, Submit, Fetch, Lock, FixedCharge, Charge, CallTool, Register,
         Validate, ChargeExternal, Commit
<1> QED BY <1>1, <1>2, <1>3, <1>4

(* An entry of the call of s goes on being explained by a step of s: what  *)
(* a finished call registered and did not release or fence is left.        *)
LEMMA OwnEntry ==
    ASSUME TypesOK, NoDuplicateLease, NEW s \in Sessions, SessionStep(s),
           NEW i \in Slots, lease'[i] # NoLease, lease'[i] = lease[i],
           txn[s].mine # NoId, lease[i] = <<txn[s].task, txn[s].mine>>
    PROVE  lease'[i] \in left' \/ <<txn'[s].task, txn'[s].mine>> = lease'[i]
<1>1. TypeOK /\ SessionOK(s) /\ txn[s] \in Txn /\ LeaseType BY DEF TypesOK, TypeOK, LeaseType
<1>2. /\ txn[s].pc \in {"registered", "checked"} /\ txn[s].reply.launched
      /\ txn[s].reply \in Reply(txn[s].task) /\ txn[s].task \in Tasks
  BY <1>1 DEF SessionOK, Calling
<1>3. Validate(s) \/ Finish(s) \/ Abort(s)
  BY Zenon, <1>2 DEF SessionStep, Submit, Fetch, Begin, Lock, FixedCharge, CallTool, Register,
              ChargeExternal, ReclaimFence, Commit, Done
<1>4. CASE Validate(s)
  <2>1. txn'[s].task = txn[s].task /\ txn'[s].mine = txn[s].mine
    BY Zenon, <1>1, <1>4, PhaseMoves DEF Keeps
  <2> QED BY <2>1
<1>5. CASE Abort(s) BY <1>5 DEF Abort
<1>6. CASE Finish(s)
  <2>1. txn[s].reply.backend # "host" BY <1>2 DEF Reply
  <2>2. txn[s].task \in Owners /\ txn[s].mine \in Ids BY <1>1, <1>2 DEF Owners, Txn
  <2>3. CASE ReleaseId(txn[s].reply) # NoId
    <3>1. /\ lease' = LeaseRelease(txn[s].task, ReleaseId(txn[s].reply))
          /\ txn[s].mine # ReleaseId(txn[s].reply) =>
                left' = (left \cup {<<txn[s].task, txn[s].mine>>}) \cap Listed(lease')
      BY <1>6, <2>3 DEF Finish
    <3>2. txn[s].mine # ReleaseId(txn[s].reply)
      <4>1. SUFFICES ASSUME txn[s].mine = ReleaseId(txn[s].reply) PROVE FALSE OBVIOUS
      <4>2. LeaseRelease(txn[s].task, txn[s].mine)[i] = NoLease
        BY Zenon, <1>1, <2>2, ReleaseClears
      <4> QED BY <3>1, <4>1, <4>2
    <3>3. lease'[i] \in Listed(lease') BY DEF Listed
    <3> QED BY <3>1, <3>2, <3>3
  <2>4. CASE ReleaseId(txn[s].reply) = NoId
    <3>1. lease' = LeaseFence(txn[s].task) BY <1>6, <2>1, <2>4 DEF Finish
    <3>2. i \in SlotsOf(txn[s].task) BY DEF SlotsOf
    <3>3. lease'[i] = NoLease BY Zenon, <3>1, <3>2 DEF LeaseFence
    <3> QED BY <3>3
  <2> QED BY <2>3, <2>4
<1> QED BY <1>3, <1>4, <1>5, <1>6

(* A new entry is the one the call of s has just registered.               *)
LEMMA NewEntry ==
    ASSUME TypesOK, NEW s \in Sessions, SessionStep(s),
           NEW i \in Slots, lease'[i] # NoLease, lease'[i] # lease[i]
    PROVE  <<txn'[s].task, txn'[s].mine>> = lease'[i]
<1>1. TypeOK /\ SessionOK(s) /\ LeaseType BY Zenon DEF TypesOK, TypeOK, LeaseType
<1>2. Register(s)
  BY Zenon DEF SessionStep, Submit, Fetch, Lock, FixedCharge, Charge, CallTool, Validate, Finish,
         ChargeExternal, ReclaimFence, Commit, Abort, LeaseFence, LeaseRelease
<1>3. txn'[s].task = txn[s].task BY Zenon, <1>1, <1>2, RegisterMoves DEF Keeps
<1>4. PICK x \in Ids \cup {NoId} :
             /\ lease' = LeaseRegister(txn[s].task, x)
             /\ txn'[s].mine = IF Has(txn[s].task, x) \/ FreeSlots # {} THEN x ELSE NoId
  BY Zenon, <1>1, <1>2, RegisterMoves
<1>5. txn[s].task \in Owners BY Zenon, <1>1, <1>2 DEF SessionOK, Register, Owners
<1>6. PICK k \in FreeSlots : lease' = [lease EXCEPT ![k] = <<txn[s].task, x>>]
  BY Zenon, <1>1, <1>4, <1>5, RegisterEffect
<1>7. lease'[i] = <<txn[s].task, x>> BY <1>1, <1>6 DEF LeaseType
<1>8. txn'[s].mine = x BY <1>4, <1>6
<1> QED BY <1>3, <1>7, <1>8

LEMMA ExplainedKept ==
    ASSUME TypesOK, NoDuplicateLease, ListedExplained, Next
    PROVE  ListedExplained'
<1> SUFFICES ASSUME NEW i \in Slots, lease'[i] # NoLease
             PROVE  \/ lease'[i] \in left'
                    \/ \E r \in Sessions : <<txn'[r].task, txn'[r].mine>> = lease'[i]
  BY DEF ListedExplained
<1>1. LeaseType BY DEF TypesOK, TypeOK, LeaseType
<1>2. lease'[i] \in Listed(lease') BY DEF Listed
<1>3. ASSUME NEW s \in Sessions, SessionStep(s)
      PROVE  \/ lease'[i] \in left'
             \/ \E r \in Sessions : <<txn'[r].task, txn'[r].mine>> = lease'[i]
  <2>1. CASE lease'[i] # lease[i] BY <1>3, <2>1, NewEntry
  <2>2. CASE lease'[i] = lease[i]
    <3>1. \/ lease[i] \in left
          \/ \E r \in Sessions : <<txn[r].task, txn[r].mine>> = lease[i]
      BY <2>2 DEF ListedExplained
    <3>2. CASE lease[i] \in left BY Zenon, <1>2, <1>3, <2>2, <3>2, LeftMove
    <3>3. ASSUME NEW r \in Sessions, r # s, <<txn[r].task, txn[r].mine>> = lease[i]
          PROVE  <<txn'[r].task, txn'[r].mine>> = lease'[i]
      <4>1. CASE Commit(s) BY Zenon, <1>3, <2>2, <3>3, <4>1, CommitMoves
      <4>2. CASE ~Commit(s) BY <1>3, <2>2, <3>3, <4>2, SessionMoves DEF Moves
      <4> QED BY <4>1, <4>2
    <3>4. ASSUME <<txn[s].task, txn[s].mine>> = lease[i]
          PROVE  \/ lease'[i] \in left'
                 \/ <<txn'[s].task, txn'[s].mine>> = lease'[i]
      <4>1. lease[i] \in Owners \X Ids BY <1>1, <2>2 DEF LeaseType
      <4>2. txn[s].mine # NoId BY <3>4, <4>1, ToolCallAssumption
      <4> QED BY <1>3, <2>2, <3>4, <4>2, OwnEntry
    <3> QED BY <3>1, <3>2, <3>3, <3>4
  <2> QED BY <2>1, <2>2
<1>4. ASSUME Crash PROVE FALSE BY <1>4 DEF Crash
<1>5. ASSUME NEW t \in HookTasks, Hook(t)
      PROVE  \/ lease'[i] \in left'
             \/ \E r \in Sessions : <<txn'[r].task, txn'[r].mine>> = lease'[i]
  <2>1. left' = {e \in Listed(lease') : e \in left \/ e \notin Listed(lease)} BY <1>5 DEF Hook
  <2>2. CASE lease'[i] \notin Listed(lease) \/ lease'[i] \in left BY <1>2, <2>1, <2>2
  <2>3. CASE lease'[i] \in Listed(lease) /\ lease'[i] \notin left
    <3>1. PICK j \in Slots : lease[j] = lease'[i] BY <2>3 DEF Listed
    <3>2. PICK r \in Sessions : <<txn[r].task, txn[r].mine>> = lease'[i]
      BY <2>3, <3>1 DEF ListedExplained
    <3>3. ~(<<txn[r].task, txn[r].mine>> \in Listed(lease) \ Listed(lease')) BY <1>2, <3>2
    <3>4. txn'[r].task = txn[r].task /\ txn'[r].mine = txn[r].mine
      BY Zenon, <1>5, <3>3, HookMoves
    <3> QED BY <3>2, <3>4
  <2> QED BY <2>2, <2>3
<1> QED BY <1>3, <1>4, <1>5 DEF Next

TableInv == CInv /\ NoDuplicateLease /\ InFlightListed /\ ListedExplained

LEMMA TableInvInit == Init => TableInv
<1> SUFFICES ASSUME Init PROVE TableInv OBVIOUS
<1>1. \A s \in Sessions : txn[s].mine = NoId BY DEF Init, Idle
<1>2. \A i \in Slots : lease[i] = NoLease BY DEF Init
<1> QED BY <1>1, <1>2, CInvInit DEF TableInv, NoDuplicateLease, InFlightListed, ListedExplained

LEMMA TableInvStep == TableInv /\ [Next]_vars => TableInv'
<1>1. ASSUME TableInv, Next PROVE TableInv'
  <2>1. CInv /\ TypesOK /\ Exclusive /\ NoDuplicateLease /\ InFlightListed /\ ListedExplained
    BY <1>1 DEF TableInv, CInv
  <2> QED BY <1>1, <2>1, CInvStep, NoDuplicateKept, InFlightKept, ExplainedKept DEF TableInv
<1>2. ASSUME TableInv, UNCHANGED vars PROVE TableInv'
  <2>1. txn' = txn /\ lease' = lease /\ left' = left BY <1>2 DEF vars
  <2>2. CInv' BY <1>2, CInvStep DEF TableInv
  <2>3. NoDuplicateLease' BY <1>2, <2>1 DEF TableInv, NoDuplicateLease
  <2>4. InFlightListed' BY <1>2, <2>1 DEF TableInv, InFlightListed, Has
  <2>5. ListedExplained' BY <1>2, <2>1 DEF TableInv, ListedExplained
  <2> QED BY <2>2, <2>3, <2>4, <2>5 DEF TableInv
<1> QED BY <1>1, <1>2

(***************************************************************************)
(* The lease table never lists an instance twice                           *)
(* (QxStatBackendLeaseRegister looks for the entry before it takes a free  *)
(* slot, and one pass of the spinlock covers both).                        *)
(***************************************************************************)
THEOREM LeasesDistinct == Spec => []NoDuplicateLease
<1>1. TableInv => NoDuplicateLease BY DEF TableInv
<1> QED BY <1>1, TableInvInit, TableInvStep, PTL DEF Spec

(***************************************************************************)
(* The instance a call registered stays listed while its reply is being    *)
(* validated: whatever sessions run on the task, no reclaim, retry, resume *)
(* or abort of another removes it, because they need the row it holds      *)
(* (qx_runtime_reclaim_running_attempt updates the rows before it fences). *)
(* A test function, which locks no row, is the one step that can.          *)
(***************************************************************************)
THEOREM InFlightStaysListed == Spec => []InFlightListed
<1>1. TableInv => InFlightListed BY DEF TableInv
<1> QED BY <1>1, TableInvInit, TableInvStep, PTL DEF Spec

(***************************************************************************)
(* Every entry of the table is that of a call being validated, or was left *)
(* by a call that failed after registering it, by a successful call whose  *)
(* reply named another instance to release, or by a test function, and has *)
(* been neither released nor fenced since (qx_execute_tool_contract).      *)
(***************************************************************************)
THEOREM EntriesExplained == Spec => []ListedExplained
<1>1. TableInv => ListedExplained BY DEF TableInv
<1> QED BY <1>1, TableInvInit, TableInvStep, PTL DEF Spec

-----------------------------------------------------------------------------
(* The table implements the bounded set of leases.                         *)

(* With a free slot the table lists fewer instances than it has slots.     *)
LEMMA RoomLeft ==
    ASSUME LeaseType, NEW k \in FreeSlots
    PROVE  Cardinality(Listed(lease)) < TableSize
<1>1. k \in Slots /\ lease[k] = NoLease BY DEF FreeSlots
<1> DEFINE S == Slots \ {k}
           f == [i \in S |-> lease[i]]
           T == {f[i] : i \in S}
<1>2. IsFiniteSet(Slots) /\ Cardinality(Slots) = TableSize
  <2>1. /\ IsFiniteSet(1..TableSize)
        /\ Cardinality(1..TableSize) = IF 1 > TableSize THEN 0 ELSE TableSize - 1 + 1
    BY FS_Interval, ToolCallAssumption, 1 \in Int
  <2>2. TableSize \in Nat /\ (1 > TableSize => TableSize = 0) BY ToolCallAssumption
  <2> QED BY <2>1, <2>2 DEF Slots
<1>3. IsFiniteSet(S) /\ Cardinality(S) = Cardinality(Slots) - 1
  BY <1>1, <1>2, FS_RemoveElement
<1>4. IsFiniteSet(T) /\ Cardinality(T) <= Cardinality(S)
  <2>1. f \in Surjection(S, T) BY DEF Surjection
  <2> HIDE DEF f, S, T
  <2> QED BY <1>3, <2>1, FS_Surjection
<1>5. Listed(lease) \subseteq T BY <1>1 DEF Listed
<1> HIDE DEF T, S, f
<1>6. IsFiniteSet(Listed(lease)) /\ Cardinality(Listed(lease)) <= Cardinality(T) BY <1>4, <1>5, FS_Subset
<1>7. Cardinality(Listed(lease)) \in Nat /\ Cardinality(T) \in Nat BY <1>4, <1>6, FS_CardinalityType
<1> QED BY <1>2, <1>3, <1>4, <1>6, <1>7, ToolCallAssumption

LEMMA SameCardinality == \A S : LeaseSet!Cardinality(S) = Cardinality(S)
BY DEF Cardinality, LeaseSet!Cardinality

LEMMA TableStepRefines ==
    ASSUME LeaseType, NoDuplicateLease, TableStep
    PROVE  [LeaseSet!Next]_(Listed(lease))
<1>1. CASE lease' = lease
  <2>1. Listed(lease)' = Listed(lease) BY <1>1 DEF Listed
  <2> QED BY <2>1
<1>2. CASE lease' = [i \in Slots |-> NoLease]
  <2>1. Listed(lease)' = {} BY <1>2 DEF Listed
  <2> QED BY <2>1 DEF LeaseSet!Next, LeaseSet!Clear
<1>3. ASSUME NEW t \in Owners, lease' = LeaseFence(t) PROVE LeaseSet!Next
  <2>1. Listed(lease)' = {l \in Listed(lease) : l[1] # t} BY <1>3 DEF Listed, LeaseFence, SlotsOf
  <2> QED BY <2>1 DEF LeaseSet!Next, LeaseSet!Fence
<1>4. ASSUME NEW t \in Owners, NEW x \in Ids \cup {NoId}, lease' = LeaseRelease(t, x)
      PROVE  [LeaseSet!Next]_(Listed(lease))
  <2>1. CASE lease' = lease BY <1>1, <2>1
  <2>2. ASSUME NEW k \in SlotsOf(t), lease' = [lease EXCEPT ![k] = NoLease]
        PROVE  LeaseSet!Next
    <3>1. k \in Slots /\ lease[k] # NoLease /\ lease[k][1] = t BY DEF SlotsOf
    <3>2. lease[k] \in Owners \X Ids BY <3>1 DEF LeaseType
    <3>3. PICK y \in Ids : lease[k] = <<t, y>> BY <3>1, <3>2
    <3>4. \A i \in Slots : lease'[i] = IF i = k THEN NoLease ELSE lease[i]
      BY <2>2, <3>1 DEF LeaseType
    <3>5. Listed(lease)' = Listed(lease) \ {<<t, y>>}
      <4>1. \A e : e \in Listed(lease) <=> e # NoLease /\ \E i \in Slots : lease[i] = e
        BY DEF Listed
      <4>2. \A e : e \in Listed(lease)' <=> e # NoLease /\ \E i \in Slots : lease'[i] = e
        BY DEF Listed
      <4>3. \A i \in Slots : lease[i] = <<t, y>> <=> i = k
        BY <3>1, <3>3 DEF NoDuplicateLease
      <4>4. \A e : e \in Listed(lease)' <=> e \in Listed(lease) /\ e # <<t, y>>
        BY Zenon, <3>4, <4>1, <4>2, <4>3
      <4> QED BY <4>4
    <3> QED BY <3>5 DEF LeaseSet!Next, LeaseSet!Release
  <2> QED BY <1>4, <2>1, <2>2, ReleaseEffect
<1>5. ASSUME NEW t \in Owners, NEW x \in Ids \cup {NoId}, lease' = LeaseRegister(t, x)
      PROVE  [LeaseSet!Next]_(Listed(lease))
  <2>1. CASE LeaseRegister(t, x) = lease BY <1>1, <1>5, <2>1
  <2>2. ASSUME x # NoId, NEW k \in FreeSlots,
               LeaseRegister(t, x) = [lease EXCEPT ![k] = <<t, x>>]
        PROVE  LeaseSet!Next
    <3>1. Cardinality(Listed(lease)) < TableSize BY RoomLeft
    <3>2. k \in Slots /\ lease[k] = NoLease BY DEF FreeSlots
    <3>3. \A i \in Slots : lease'[i] = IF i = k THEN <<t, x>> ELSE lease[i]
      BY <1>5, <2>2, <3>2 DEF LeaseType
    <3>4. Listed(lease)' = Listed(lease) \cup {<<t, x>>}
      <4>1. <<t, x>> # NoLease BY DEF NoLease
      <4>2. \A e : e \in Listed(lease) <=> e # NoLease /\ \E i \in Slots : lease[i] = e BY DEF Listed
      <4>3. \A e : e \in Listed(lease)' <=> e # NoLease /\ \E i \in Slots : lease'[i] = e BY DEF Listed
      <4>4. lease'[k] = <<t, x>> BY <3>2, <3>3
      <4>5. \A e : e \in Listed(lease)' => e \in Listed(lease) \/ e = <<t, x>> BY <3>3, <4>2, <4>3
      <4>6. \A e : e \in Listed(lease) => e \in Listed(lease)' BY <3>2, <3>3, <4>2, <4>3
      <4>7. <<t, x>> \in Listed(lease)' BY <3>2, <4>1, <4>3, <4>4
      <4> QED BY <4>5, <4>6, <4>7
    <3>5. x \in Ids BY <2>2
    <3>6. LeaseSet!Cardinality(Listed(lease)) < TableSize BY <3>1, SameCardinality
    <3> QED BY Zenon, <3>4, <3>5, <3>6 DEF LeaseSet!Next, LeaseSet!Register
  <2> QED BY <2>1, <2>2, RegisterEffect
<1> QED BY <1>1, <1>2, <1>3, <1>4, <1>5 DEF TableStep

(***************************************************************************)
(* The lease table of qx_stat.c implements the bounded set of leases: for  *)
(* its users a registration, a release and a fence are single steps, and   *)
(* it lists at most TableSize instances.                                   *)
(***************************************************************************)
THEOREM TableIsLeaseSet == Spec => IsLeaseSet
<1>1. Init => LeaseSet!Init
  <2>1. Init => Listed(lease) = {} BY DEF Init, Listed
  <2> QED BY <2>1 DEF LeaseSet!Init
<1>2. TableInv /\ [Next]_vars => [LeaseSet!Next]_(Listed(lease))
  <2>1. ASSUME TableInv, Next PROVE [LeaseSet!Next]_(Listed(lease))
    <3>1. LeaseType /\ NoDuplicateLease /\ TypesOK
      BY <2>1 DEF TableInv, CInv, TypesOK, TypeOK, LeaseType
    <3> QED BY <2>1, <3>1, TableSteps, TableStepRefines
  <2>2. ASSUME UNCHANGED vars PROVE Listed(lease)' = Listed(lease) BY <2>2 DEF vars, Listed
  <2> QED BY <2>1, <2>2
<1> QED BY <1>1, <1>2, TableInvInit, TableInvStep, PTL DEF Spec, IsLeaseSet, LeaseSet!Spec
=============================================================================
