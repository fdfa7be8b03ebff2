------------------------- MODULE QxToolCallProofs -------------------------
(***************************************************************************)
(* Proofs about QxToolCall, for every set of tasks, sessions and instance  *)
(* identifiers, every size of the lease table, every budget and every      *)
(* charge.                                                                 *)
(***************************************************************************)
EXTENDS QxToolCall, TLAPS

Calling == {"called", "registered", "checked", "finished"}

\* What is known of one transaction by itself.
SessionOK(s) ==
    /\ txn[s].pc # "idle" => txn[s].task \in Tasks
    /\ txn[s].pc = "fetched" => txn[s].bill = Zero
    /\ txn[s].pc \in Calling \cup {"charging"} => txn[s].kind # "reclaim"
    /\ txn[s].pc \in Calling => txn[s].reply \in Reply(txn[s].task) /\ txn[s].at <= 4
    /\ txn[s].mine # NoId =>
          /\ txn[s].pc \in {"registered", "checked"}
          /\ txn[s].reply.launched

\* A row that does not exist has no charges.
RowOK(t) == ~row[t].made => row[t].used = Zero /\ billed[t] = Zero

\* At most one transaction holds the row of a task.
Exclusive ==
    \A r, s \in Sessions : \A t \in Tasks : Holds(r, t) /\ Holds(s, t) => r = s

\* What the transaction of s says t consumed is up to date.
Current(s, t) ==
    txn[s].task = t /\ (Holds(s, t) \/ (txn[s].pc = "fetched" /\ ~txn[s].stale))

\* The transaction of s counts on from the committed row, below the ceiling.
Agrees(s, t, d) ==
    /\ txn[s].used[d] = row[t].used[d] + txn[s].bill[d]
    /\ 0 <= txn[s].used[d] /\ txn[s].used[d] <= Budget[t][d]

\* The ledger of one dimension of a task whose charges cannot wrap around.
LedgerOK(t, d) ==
    CannotWrap(t, d) =>
        /\ billed[t][d] = row[t].used[d]
        /\ 0 <= row[t].used[d] /\ row[t].used[d] <= Budget[t][d]
        /\ \A s \in Sessions : Current(s, t) => Agrees(s, t, d)

TypesOK == TypeOK /\ \A s \in Sessions : SessionOK(s)

CInv ==
    /\ TypesOK
    /\ \A t \in Tasks : RowOK(t)
    /\ Exclusive
    /\ \A t \in Tasks : \A d \in Dims : LedgerOK(t, d)

-----------------------------------------------------------------------------
(* A session without a transaction is in phase "idle".                     *)
LEMMA IdlePhase == Idle.pc = "idle"
BY DEF Idle

(* The scripts have three or four steps, and only "external" is not among  *)
(* the fixed charges.                                                      *)
LEMMA ScriptSteps ==
    ASSUME NEW k \in Kinds, k # "reclaim"
    PROVE  /\ Len(Script[k]) \in 3..4
           /\ \A n \in 1..Len(Script[k]) :
                 Script[k][n] \in {"admit", "dispatch", "capture", "barrier", "final", "external"}
<1>1. CASE k = "submit" BY <1>1 DEF Script
<1>2. CASE k = "retry" BY <1>2 DEF Script
<1>3. CASE k = "resume" BY <1>3 DEF Script
<1> QED BY <1>1, <1>2, <1>3 DEF Kinds

(* The wrapped sum of two int32 is an int32.                               *)
LEMMA WrapType == \A a, b \in Int32 : Wrap(a + b) \in Int32
BY ToolCallAssumption DEF Wrap, Span, Int32

LEMMA ChargedType ==
    ASSUME NEW u \in [Dims -> Int32], NEW v \in [Dims -> Int32], NEW b \in [Dims -> Int]
    PROVE  Charged(u, v) \in [Dims -> Int32] /\ Plus(b, v) \in [Dims -> Int]
<1>1. \A d \in Dims : u[d] \in Int32 /\ v[d] \in Int32 /\ v[d] \in Int /\ b[d] \in Int
  BY ToolCallAssumption DEF Int32
<1> QED BY <1>1, WrapType DEF Charged, Plus

LEMMA DeltaTypes ==
    /\ Zero \in [Dims -> Int32] /\ Zero \in [Dims -> Int]
    /\ \A n \in {"admit", "dispatch", "capture", "barrier", "final"} :
          FixedDeltas[n] \subseteq [Dims -> Int32]
    /\ \A t \in Tasks : ToolDeltas[t] \subseteq [Dims -> Int32]
<1>1. 0..MaxInt \subseteq Int32 /\ 0 \in Int32 BY ToolCallAssumption DEF Int32
<1>2. Zero \in [Dims -> Int32] /\ Zero \in [Dims -> Int] BY <1>1 DEF Zero
<1>3. ASSUME NEW n \in {"admit", "dispatch", "capture", "barrier", "final"}
      PROVE  FixedDeltas[n] \subseteq [Dims -> Int32]
  <2>1. FixedDeltas[n] \subseteq [Dims -> 0..MaxInt] BY ToolCallAssumption
  <2> QED BY <2>1, <1>1
<1>4. \A t \in Tasks : ToolDeltas[t] \subseteq [Dims -> Int32]
  BY ToolCallAssumption DEF Int32
<1> QED BY <1>2, <1>3, <1>4

LEMMA IdleType == Idle \in Txn /\ NoReply \in AnyReply
<1>1. NoReply \in AnyReply BY DeltaTypes DEF NoReply, AnyReply
<1>2. "idle" \in Phases /\ "submit" \in Kinds /\ 1 \in 1..5 BY DEF Phases, Kinds
<1> QED BY <1>1, <1>2, DeltaTypes DEF Idle, Txn

LEMMA ReplyType == \A t \in Tasks : Reply(t) \subseteq AnyReply
<1> SUFFICES ASSUME NEW t \in Tasks, NEW r \in Reply(t) PROVE r \in AnyReply OBVIOUS
<1>1. r \in [backend : {"host", "container", "microvm"}, launched : BOOLEAN,
             container : Ids \cup {NoId}, vm : Ids \cup {NoId},
             delta : ToolDeltas[t], valid : BOOLEAN]
  BY DEF Reply
<1>2. r.delta \in [Dims -> Int32] BY <1>1, DeltaTypes
<1> QED BY <1>1, <1>2 DEF AnyReply

(* The identifiers a call registers and releases.                          *)
LEMMA ReplyIds ==
    ASSUME NEW r \in AnyReply
    PROVE  ReleaseId(r) \in Ids \cup {NoId} /\ RegisterAs(r) \subseteq Ids \cup {NoId}
<1>1. r.container \in Ids \cup {NoId} /\ r.vm \in Ids \cup {NoId} BY DEF AnyReply
<1>2. ReleaseId(r) \in Ids \cup {NoId} BY <1>1 DEF ReleaseId
<1>3. RegisterAs(r) \subseteq Ids \cup {NoId} BY <1>1, ToolCallAssumption DEF RegisterAs
<1> QED BY <1>2, <1>3

(* What is kept of a reply after the release is a reply of the tool.       *)
LEMMA ChargeOnly ==
    ASSUME NEW t \in Tasks, NEW r \in Reply(t)
    PROVE  [NoReply EXCEPT !.delta = r.delta] \in Reply(t)
<1>1. r.delta \in ToolDeltas[t] BY DEF Reply
<1> QED BY Zenon, <1>1 DEF Reply, NoReply

(* A table lists instances of tasks.                                       *)
LEMMA ListedType ==
    ASSUME NEW table \in [Slots -> (Owners \X Ids) \cup {NoLease}]
    PROVE  Listed(table) \subseteq Owners \X Ids
BY DEF Listed

(* The operations of the lease table keep its type.                        *)
LEMMA TableTypes ==
    ASSUME lease \in [Slots -> (Owners \X Ids) \cup {NoLease}], NEW t \in Owners
    PROVE  /\ LeaseFence(t) \in [Slots -> (Owners \X Ids) \cup {NoLease}]
           /\ \A x \in Ids \cup {NoId} :
                 /\ LeaseRegister(t, x) \in [Slots -> (Owners \X Ids) \cup {NoLease}]
                 /\ LeaseRelease(t, x) \in [Slots -> (Owners \X Ids) \cup {NoLease}]
<1>1. LeaseFence(t) \in [Slots -> (Owners \X Ids) \cup {NoLease}] BY DEF LeaseFence
<1>2. ASSUME NEW x \in Ids \cup {NoId}
      PROVE  LeaseRegister(t, x) \in [Slots -> (Owners \X Ids) \cup {NoLease}]
  BY DEF LeaseRegister, Inserted
<1>3. ASSUME NEW x \in Ids \cup {NoId}
      PROVE  LeaseRelease(t, x) \in [Slots -> (Owners \X Ids) \cup {NoLease}]
  BY DEF LeaseRelease
<1> QED BY <1>1, <1>2, <1>3

-----------------------------------------------------------------------------
(* One session's transaction becomes `new` and the others stay.            *)
LEMMA OneSession ==
    ASSUME txn \in [Sessions -> Txn], NEW s \in Sessions, NEW new \in Txn,
           txn' = [txn EXCEPT ![s] = new]
    PROVE  /\ txn' \in [Sessions -> Txn]
           /\ txn'[s] = new
           /\ \A r \in Sessions : r # s => txn'[r] = txn[r]
OBVIOUS

(* What an action of a session does to that session's transaction.         *)
Moves(s) ==
    /\ txn' \in [Sessions -> Txn]
    /\ SessionOK(s)'
    /\ \A r \in Sessions : r # s => txn'[r] = txn[r]

LEMMA BeginMoves ==
    ASSUME TypeOK, NEW s \in Sessions, NEW t \in Tasks, NEW kind \in Kinds,
           Submit(s, t) \/ Fetch(s, t, kind)
    PROVE  Moves(s)
<1>1. txn \in [Sessions -> Txn] /\ row[t].used \in [Dims -> Int32] BY DEF TypeOK
<1>2. /\ "charging" \in Phases /\ "fetched" \in Phases BY DEF Phases
<1>3. CASE Submit(s, t)
  <2> DEFINE new == [Idle EXCEPT !.pc = "charging", !.task = t]
  <2>1. new \in Txn BY Zenon, <1>2, IdleType DEF Txn
  <2>2. txn' = [txn EXCEPT ![s] = new] BY <1>3 DEF Submit
  <2>3. new.pc = "charging" /\ new.task = t /\ new.kind = "submit" /\ new.mine = NoId
    BY DEF Idle
  <2> HIDE DEF new
  <2>4. /\ txn' \in [Sessions -> Txn] /\ txn'[s] = new
        /\ \A r \in Sessions : r # s => txn'[r] = txn[r]
    BY <1>1, <2>1, <2>2, OneSession
  <2> QED BY <2>3, <2>4 DEF Moves, SessionOK, Calling
<1>4. CASE Fetch(s, t, kind)
  <2> DEFINE new == [Idle EXCEPT !.pc = "fetched", !.task = t,
                                 !.kind = kind, !.used = row[t].used]
  <2>1. new \in Txn BY Zenon, <1>1, <1>2, IdleType DEF Txn
  <2>2. txn' = [txn EXCEPT ![s] = new] BY <1>4 DEF Fetch
  <2>3. new.pc = "fetched" /\ new.task = t /\ new.bill = Zero /\ new.mine = NoId
    BY DEF Idle
  <2> HIDE DEF new
  <2>4. /\ txn' \in [Sessions -> Txn] /\ txn'[s] = new
        /\ \A r \in Sessions : r # s => txn'[r] = txn[r]
    BY <1>1, <2>1, <2>2, OneSession
  <2> QED BY <2>3, <2>4 DEF Moves, SessionOK, Calling
<1> QED BY <1>3, <1>4

LEMMA LockMoves ==
    ASSUME TypeOK, NEW s \in Sessions, SessionOK(s), Lock(s)
    PROVE  /\ Moves(s)
           /\ txn'[s] = [txn[s] EXCEPT !.pc = IF txn[s].kind = "reclaim" THEN "reclaiming"
                                              ELSE "charging"]
<1>1. txn \in [Sessions -> Txn] /\ txn[s] \in Txn BY DEF TypeOK
<1> DEFINE new == [txn[s] EXCEPT !.pc = IF txn[s].kind = "reclaim" THEN "reclaiming"
                                        ELSE "charging"]
<1>2. new \in Txn BY Zenon, <1>1 DEF Txn, Phases
<1>3. txn' = [txn EXCEPT ![s] = new] BY DEF Lock, Locked
<1>4. /\ new.pc = IF txn[s].kind = "reclaim" THEN "reclaiming" ELSE "charging"
      /\ new.task = txn[s].task /\ new.kind = txn[s].kind /\ new.mine = txn[s].mine
  BY <1>1 DEF Txn
<1> HIDE DEF new
<1>5. /\ txn' \in [Sessions -> Txn] /\ txn'[s] = new
      /\ \A r \in Sessions : r # s => txn'[r] = txn[r]
  BY <1>1, <1>2, <1>3, OneSession
<1>6. txn[s].pc = "fetched" BY DEF Lock
<1>7. Moves(s) BY <1>4, <1>5, <1>6 DEF Moves, SessionOK, Calling
<1> QED BY <1>5, <1>7 DEF new

LEMMA ChargeMoves ==
    ASSUME TypeOK, NEW s \in Sessions, SessionOK(s), NEW delta \in [Dims -> Int32],
           txn[s].pc = "finished" \/ (txn[s].pc = "charging" /\ txn[s].at <= 4),
           Charge(s, delta)
    PROVE  /\ Moves(s)
           /\ txn'[s].pc = "charging" /\ txn'[s].task = txn[s].task
           /\ txn'[s].stale = txn[s].stale
           /\ txn'[s].used = Charged(txn[s].used, delta)
           /\ txn'[s].bill = Plus(txn[s].bill, delta)
<1>1. txn \in [Sessions -> Txn] /\ txn[s] \in Txn BY DEF TypeOK
<1> DEFINE new == [txn[s] EXCEPT !.pc = "charging", !.at = txn[s].at + 1,
                                 !.used = Charged(txn[s].used, delta),
                                 !.bill = Plus(txn[s].bill, delta)]
<1>2. txn[s].at + 1 \in 1..5 BY <1>1 DEF Txn, SessionOK, Calling
<1>3. txn[s].used \in [Dims -> Int32] /\ txn[s].bill \in [Dims -> Int] BY <1>1 DEF Txn
<1>4. Charged(txn[s].used, delta) \in [Dims -> Int32] /\ Plus(txn[s].bill, delta) \in [Dims -> Int]
  BY SMTT(15), <1>3, ChargedType
<1>5. new \in Txn BY Zenon, <1>1, <1>2, <1>4 DEF Txn, Phases
<1>6. txn' = [txn EXCEPT ![s] = new] BY DEF Charge
<1>7. /\ new.pc = "charging" /\ new.task = txn[s].task /\ new.kind = txn[s].kind
      /\ new.mine = txn[s].mine /\ new.stale = txn[s].stale
      /\ new.used = Charged(txn[s].used, delta) /\ new.bill = Plus(txn[s].bill, delta)
  BY <1>1 DEF Txn
<1> HIDE DEF new
<1>8. /\ txn' \in [Sessions -> Txn] /\ txn'[s] = new
      /\ \A r \in Sessions : r # s => txn'[r] = txn[r]
  BY <1>1, <1>5, <1>6, OneSession
<1>9. Moves(s) BY <1>7, <1>8 DEF Moves, SessionOK, Calling
<1> QED BY <1>7, <1>8, <1>9

\* The step leaves the row, the charges and the lock of the session alone.
Keeps(s) ==
    /\ txn[s].pc \notin {"idle", "fetched"} /\ txn'[s].pc \notin {"idle", "fetched"}
    /\ txn'[s].task = txn[s].task /\ txn'[s].stale = txn[s].stale
    /\ txn'[s].used = txn[s].used /\ txn'[s].bill = txn[s].bill
    /\ UNCHANGED <<row, billed, txns>>

LEMMA CallMoves ==
    ASSUME TypeOK, NEW s \in Sessions, SessionOK(s), CallTool(s)
    PROVE  Moves(s) /\ Keeps(s) /\ txn'[s].mine = txn[s].mine
<1>1. txn \in [Sessions -> Txn] /\ txn[s] \in Txn /\ txn[s].task \in Tasks
      /\ txn[s].kind \in Kinds /\ txn[s].kind # "reclaim" /\ txn[s].pc = "charging"
  BY DEF TypeOK, SessionOK, CallTool, Txn, Calling
<1>2. PICK r \in Reply(txn[s].task) :
        txn' = [txn EXCEPT ![s] = [@ EXCEPT !.pc = "called", !.reply = r]]
  BY Zenon DEF CallTool
<1> DEFINE new == [txn[s] EXCEPT !.pc = "called", !.reply = r]
<1>3. r \in AnyReply BY <1>1, ReplyType
<1>4. new \in Txn BY Zenon, <1>1, <1>3 DEF Txn, Phases
<1>5. txn' = [txn EXCEPT ![s] = new] BY <1>2
<1>6. /\ new.pc = "called" /\ new.task = txn[s].task /\ new.kind = txn[s].kind
      /\ new.mine = txn[s].mine /\ new.stale = txn[s].stale /\ new.reply = r
      /\ new.used = txn[s].used /\ new.bill = txn[s].bill /\ new.at = txn[s].at
  BY <1>1 DEF Txn
<1> HIDE DEF new
<1>7. /\ txn' \in [Sessions -> Txn] /\ txn'[s] = new
      /\ \A q \in Sessions : q # s => txn'[q] = txn[q]
  BY <1>1, <1>4, <1>5, OneSession
<1>8. txn[s].at <= 4
  <2>1. Len(Script[txn[s].kind]) \in 3..4 BY <1>1, ScriptSteps
  <2>2. PICK n \in 3..4 : n = Len(Script[txn[s].kind]) BY <2>1
  <2>3. txn[s].at <= n BY <2>2 DEF CallTool
  <2>4. txn[s].at \in 1..5 BY <1>1 DEF Txn
  <2> QED BY <2>3, <2>4
<1>9. Moves(s)
  <2>1. txn[s].mine = NoId BY <1>1 DEF SessionOK
  <2> QED BY <1>1, <1>6, <1>7, <1>8, <2>1 DEF Moves, SessionOK, Calling
<1>10. UNCHANGED <<row, billed, txns>> BY DEF CallTool
<1> QED BY <1>1, <1>6, <1>7, <1>9, <1>10 DEF Keeps

LEMMA RegisterMoves ==
    ASSUME TypeOK, NEW s \in Sessions, SessionOK(s), Register(s)
    PROVE  /\ Moves(s) /\ Keeps(s)
           /\ \/ lease' = lease /\ txn'[s].mine = NoId
              \/ \E x \in Ids \cup {NoId} :
                    /\ lease' = LeaseRegister(txn[s].task, x)
                    /\ txn'[s].mine = IF Has(txn[s].task, x) \/ FreeSlots # {}
                                      THEN x ELSE NoId
<1>1. txn \in [Sessions -> Txn] /\ txn[s] \in Txn /\ txn[s].task \in Tasks
      /\ txn[s].kind # "reclaim" /\ txn[s].pc = "called"
      /\ txn[s].reply \in Reply(txn[s].task) /\ txn[s].at <= 4 /\ txn[s].mine = NoId
  BY Zenon DEF TypeOK, SessionOK, Register, Txn, Calling
<1>2. UNCHANGED <<row, billed, txns>> BY Zenon DEF Register
<1>3. CASE ~txn[s].reply.launched
  <2> DEFINE new == [txn[s] EXCEPT !.pc = "registered"]
  <2>1. new \in Txn BY <1>1 DEF Txn, Phases
  <2>2. txn' = [txn EXCEPT ![s] = new] /\ lease' = lease BY <1>3 DEF Register
  <2>3. /\ new.pc = "registered" /\ new.task = txn[s].task /\ new.kind = txn[s].kind
        /\ new.mine = txn[s].mine /\ new.stale = txn[s].stale /\ new.reply = txn[s].reply
        /\ new.used = txn[s].used /\ new.bill = txn[s].bill /\ new.at = txn[s].at
    BY <1>1 DEF Txn
  <2> HIDE DEF new
  <2>4. /\ txn' \in [Sessions -> Txn] /\ txn'[s] = new
        /\ \A q \in Sessions : q # s => txn'[q] = txn[q]
    BY <1>1, <2>1, <2>2, OneSession
  <2>5. Moves(s) BY <1>1, <2>3, <2>4 DEF Moves, SessionOK, Calling
  <2> QED BY <1>1, <1>2, <2>2, <2>3, <2>4, <2>5 DEF Keeps
<1>4. CASE txn[s].reply.launched
  <2>1. PICK x \in RegisterAs(txn[s].reply) :
              /\ lease' = LeaseRegister(txn[s].task, x)
              /\ txn' = [txn EXCEPT ![s] =
                            [@ EXCEPT !.pc = "registered",
                                      !.mine = IF Has(txn[s].task, x) \/ FreeSlots # {}
                                               THEN x ELSE NoId]]
    BY Zenon, <1>4 DEF Register
  <2>2. txn[s].reply \in AnyReply BY <1>1, ReplyType
  <2>3. x \in Ids \cup {NoId} BY <2>1, <2>2, ReplyIds
  <2> DEFINE m == IF Has(txn[s].task, x) \/ FreeSlots # {} THEN x ELSE NoId
  <2> DEFINE new == [txn[s] EXCEPT !.pc = "registered", !.mine = m]
  <2>4. txn' = [txn EXCEPT ![s] = new] BY <2>1
  <2>5. m \in Ids \cup {NoId} /\ (m # NoId => m = x) BY <2>3
  <2> HIDE DEF m
  <2>6. new \in Txn BY Zenon, <1>1, <2>5 DEF Txn, Phases
  <2>7. /\ new.pc = "registered" /\ new.task = txn[s].task /\ new.kind = txn[s].kind
        /\ new.mine = m /\ new.stale = txn[s].stale /\ new.reply = txn[s].reply
        /\ new.used = txn[s].used /\ new.bill = txn[s].bill /\ new.at = txn[s].at
    BY <1>1 DEF Txn
  <2> HIDE DEF new
  <2>8. /\ txn' \in [Sessions -> Txn] /\ txn'[s] = new
        /\ \A q \in Sessions : q # s => txn'[q] = txn[q]
    BY <1>1, <2>4, <2>6, OneSession
  <2>9. Moves(s) BY <1>1, <1>4, <2>3, <2>5, <2>7, <2>8 DEF Moves, SessionOK, Calling
  <2>10. Keeps(s) BY <1>1, <1>2, <2>7, <2>8 DEF Keeps
  <2>11. txn'[s].mine = m BY <2>7, <2>8
  <2> QED BY <2>1, <2>3, <2>9, <2>10, <2>11 DEF m
<1> QED BY <1>3, <1>4

LEMMA PhaseMoves ==
    ASSUME TypeOK, NEW s \in Sessions, SessionOK(s),
           Validate(s) \/ Finish(s) \/ ReclaimFence(s)
    PROVE  /\ Moves(s) /\ Keeps(s)
           /\ Validate(s) => txn'[s].mine = txn[s].mine
           /\ Finish(s) \/ ReclaimFence(s) => txn'[s].mine = NoId
<1>1. txn \in [Sessions -> Txn] /\ txn[s] \in Txn /\ txn[s].task \in Tasks
      /\ txn[s].pc \in {"registered", "checked", "reclaiming"}
  BY DEF TypeOK, SessionOK, Validate, Finish, ReclaimFence, Txn
<1>2. UNCHANGED <<row, billed, txns>> BY DEF Validate, Finish, ReclaimFence
<1>3. CASE Validate(s)
  <2> DEFINE new == [txn[s] EXCEPT !.pc = "checked"]
  <2>1. new \in Txn BY <1>1 DEF Txn, Phases
  <2>2. txn' = [txn EXCEPT ![s] = new] /\ txn[s].pc = "registered" BY <1>3 DEF Validate
  <2>3. /\ new.pc = "checked" /\ new.task = txn[s].task /\ new.kind = txn[s].kind
        /\ new.mine = txn[s].mine /\ new.stale = txn[s].stale /\ new.reply = txn[s].reply
        /\ new.used = txn[s].used /\ new.bill = txn[s].bill /\ new.at = txn[s].at
    BY <1>1 DEF Txn
  <2> HIDE DEF new
  <2>4. /\ txn' \in [Sessions -> Txn] /\ txn'[s] = new
        /\ \A q \in Sessions : q # s => txn'[q] = txn[q]
    BY <1>1, <2>1, <2>2, OneSession
  <2>5. Moves(s) BY <1>1, <2>2, <2>3, <2>4 DEF Moves, SessionOK, Calling
  <2>6. ~Finish(s) /\ ~ReclaimFence(s) BY <2>2 DEF Finish, ReclaimFence
  <2> QED BY <1>1, <1>2, <2>2, <2>3, <2>4, <2>5, <2>6 DEF Keeps
<1>4. CASE Finish(s)
  <2> DEFINE kept == [NoReply EXCEPT !.delta = txn[s].reply.delta]
             new == [txn[s] EXCEPT !.pc = "finished", !.mine = NoId, !.reply = kept]
  <2>1. txn' = [txn EXCEPT ![s] = new] /\ txn[s].pc = "checked" BY <1>4 DEF Finish
  <2>2. txn[s].reply \in Reply(txn[s].task) BY <2>1 DEF SessionOK, Calling
  <2>3. kept \in Reply(txn[s].task) /\ kept \in AnyReply BY <1>1, <2>2, ChargeOnly, ReplyType
  <2> HIDE DEF kept
  <2>4. new \in Txn BY Zenon, <1>1, <2>3 DEF Txn, Phases
  <2>5. /\ new.pc = "finished" /\ new.task = txn[s].task /\ new.kind = txn[s].kind
        /\ new.mine = NoId /\ new.stale = txn[s].stale /\ new.reply = kept
        /\ new.used = txn[s].used /\ new.bill = txn[s].bill /\ new.at = txn[s].at
    BY <1>1 DEF Txn
  <2> HIDE DEF new
  <2>6. /\ txn' \in [Sessions -> Txn] /\ txn'[s] = new
        /\ \A q \in Sessions : q # s => txn'[q] = txn[q]
    BY <1>1, <2>4, <2>1, OneSession
  <2>7. Moves(s) BY <1>1, <2>1, <2>5, <2>6, <2>3 DEF Moves, SessionOK, Calling
  <2>8. ~Validate(s) BY <2>1 DEF Validate
  <2> QED BY <1>1, <1>2, <2>1, <2>5, <2>6, <2>7, <2>8 DEF Keeps
<1>5. CASE ReclaimFence(s)
  <2> DEFINE new == [txn[s] EXCEPT !.pc = "reclaimed"]
  <2>1. new \in Txn BY Zenon, <1>1 DEF Txn, Phases
  <2>2. txn' = [txn EXCEPT ![s] = new] /\ txn[s].pc = "reclaiming" BY <1>5 DEF ReclaimFence
  <2>3. /\ new.pc = "reclaimed" /\ new.task = txn[s].task /\ new.kind = txn[s].kind
        /\ new.mine = txn[s].mine /\ new.stale = txn[s].stale
        /\ new.used = txn[s].used /\ new.bill = txn[s].bill
    BY <1>1 DEF Txn
  <2> HIDE DEF new
  <2>4. /\ txn' \in [Sessions -> Txn] /\ txn'[s] = new
        /\ \A q \in Sessions : q # s => txn'[q] = txn[q]
    BY <1>1, <2>1, <2>2, OneSession
  <2>5. txn[s].mine = NoId BY <2>2 DEF SessionOK
  <2>6. Moves(s) BY <1>1, <2>3, <2>4, <2>5 DEF Moves, SessionOK, Calling
  <2>7. ~Validate(s) BY <2>2 DEF Validate
  <2> QED BY <1>1, <1>2, <2>2, <2>3, <2>4, <2>5, <2>6, <2>7 DEF Keeps
<1> QED BY <1>3, <1>4, <1>5

-----------------------------------------------------------------------------
(* Types and the facts about single transactions.                          *)

\* One QxCatalogChargeTaskBudget of the transaction of s.
Charges(s, delta) ==
    /\ txn[s].pc = "finished" \/ (txn[s].pc = "charging" /\ txn[s].at <= 4)
    /\ delta \in [Dims -> Int32]
    /\ txn[s].task \in Tasks =>
          delta \in ToolDeltas[txn[s].task] \cup UNION {FixedDeltas[n] : n \in DOMAIN FixedDeltas}
    /\ Charge(s, delta)

LEMMA ChargeSteps ==
    ASSUME TypesOK, NEW s \in Sessions, FixedCharge(s) \/ ChargeExternal(s)
    PROVE  \E delta \in [Dims -> Int32] : Charges(s, delta)
<1>1. txn[s] \in Txn /\ SessionOK(s) BY DEF TypesOK, TypeOK
<1>2. CASE FixedCharge(s)
  <2>1. txn[s].pc = "charging" /\ txn[s].kind \in Kinds /\ txn[s].kind # "reclaim"
        /\ txn[s].at \in 1..5
    BY <1>1, <1>2 DEF FixedCharge, SessionOK, Txn
  <2>2. PICK n \in 3..4 : n = Len(Script[txn[s].kind]) BY <2>1, ScriptSteps
  <2>3. txn[s].at <= n BY <1>2, <2>2 DEF FixedCharge
  <2>4. txn[s].at \in 1..n /\ txn[s].at <= 4 BY SMTT(15), <2>1, <2>3
  <2>5. Step(s) \in {"admit", "dispatch", "capture", "barrier", "final"}
    BY <1>2, <2>1, <2>2, <2>4, ScriptSteps DEF Step, FixedCharge
  <2>6. PICK delta \in FixedDeltas[Step(s)] : Charge(s, delta) BY <1>2 DEF FixedCharge
  <2>7. delta \in [Dims -> Int32] BY <2>5, <2>6, DeltaTypes
  <2>8. Step(s) \in DOMAIN FixedDeltas BY <2>5, ToolCallAssumption
  <2>9. delta \in UNION {FixedDeltas[m] : m \in DOMAIN FixedDeltas} BY <2>6, <2>8
  <2> QED BY <2>1, <2>4, <2>6, <2>7, <2>9 DEF Charges
<1>3. CASE ChargeExternal(s)
  <2>1. txn[s].pc = "finished" /\ Charge(s, txn[s].reply.delta) BY <1>3 DEF ChargeExternal
  <2>2. txn[s].task \in Tasks /\ txn[s].reply \in Reply(txn[s].task)
    BY <1>1, <2>1 DEF SessionOK, Calling
  <2>3. txn[s].reply.delta \in ToolDeltas[txn[s].task] BY <2>2 DEF Reply
  <2>4. txn[s].reply.delta \in [Dims -> Int32] BY <2>2, <2>3, DeltaTypes
  <2> QED BY <2>1, <2>3, <2>4 DEF Charges
<1> QED BY <1>2, <1>3

LEMMA AbortMoves ==
    ASSUME TypeOK, NEW s \in Sessions, Abort(s)
    PROVE  Moves(s) /\ txn'[s] = Idle
<1>1. /\ txn' \in [Sessions -> Txn] /\ txn'[s] = Idle
      /\ \A q \in Sessions : q # s => txn'[q] = txn[q]
  BY OneSession, IdleType DEF TypeOK, Abort
<1> QED BY <1>1 DEF Moves, SessionOK, Calling, Idle

LEMMA CommitMoves ==
    ASSUME TypesOK, NEW s \in Sessions, Commit(s)
    PROVE  /\ txn' \in [Sessions -> Txn] /\ txn'[s] = Idle
           /\ \A r \in Sessions : SessionOK(r)'
           /\ \A r \in Sessions : r # s =>
                 /\ txn'[r].pc = txn[r].pc /\ txn'[r].task = txn[r].task
                 /\ txn'[r].used = txn[r].used /\ txn'[r].bill = txn[r].bill
                 /\ txn'[r].mine = txn[r].mine
                 /\ txn[r].pc = "fetched" /\ txn[r].task = txn[s].task => txn'[r].stale
                 /\ txn'[r].stale \/ txn'[r].stale = txn[r].stale
<1>1. txn \in [Sessions -> Txn] /\ \A r \in Sessions : SessionOK(r) BY DEF TypesOK, TypeOK
<1>2. txn' = [r \in Sessions |->
                 IF r = s THEN Idle
                 ELSE IF txn[r].pc = "fetched" /\ txn[r].task = txn[s].task
                      THEN [txn[r] EXCEPT !.stale = TRUE]
                      ELSE txn[r]]
  BY DEF Commit
<1>3. ASSUME NEW r \in Sessions, r # s
      PROVE  /\ txn'[r] \in Txn
             /\ txn'[r].pc = txn[r].pc /\ txn'[r].task = txn[r].task
             /\ txn'[r].kind = txn[r].kind /\ txn'[r].at = txn[r].at
             /\ txn'[r].reply = txn[r].reply
             /\ txn'[r].used = txn[r].used /\ txn'[r].bill = txn[r].bill
             /\ txn'[r].mine = txn[r].mine
             /\ txn[r].pc = "fetched" /\ txn[r].task = txn[s].task => txn'[r].stale
             /\ txn'[r].stale \/ txn'[r].stale = txn[r].stale
  <2>1. CASE txn[r].pc = "fetched" /\ txn[r].task = txn[s].task
    <3>1. txn'[r] = [txn[r] EXCEPT !.stale = TRUE] BY <1>2, <1>3, <2>1
    <3>2. txn[r] \in Txn BY <1>1
    <3> QED BY Zenon, <2>1, <3>1, <3>2 DEF Txn
  <2>2. CASE ~(txn[r].pc = "fetched" /\ txn[r].task = txn[s].task)
    <3>1. txn'[r] = txn[r] BY <1>2, <1>3, <2>2
    <3>2. txn[r] \in Txn BY <1>1
    <3> QED BY <2>2, <3>1, <3>2
  <2> QED BY <2>1, <2>2
<1>4. txn'[s] = Idle BY <1>2
<1>5. ASSUME NEW r \in Sessions PROVE txn'[r] \in Txn BY <1>3, <1>4, IdleType
<1>6. txn' \in [Sessions -> Txn] BY <1>2, <1>5
<1>7. ASSUME NEW r \in Sessions PROVE SessionOK(r)'
  <2>1. CASE r = s BY <1>4, <2>1 DEF SessionOK, Calling, Idle
  <2>2. CASE r # s
    <3>1. SessionOK(r) BY <1>1
    <3> QED BY <1>3, <2>2, <3>1 DEF SessionOK
  <2> QED BY <2>1, <2>2
<1> QED BY <1>3, <1>4, <1>6, <1>7

(* What a session's step, other than a commit, does to the transactions.   *)
LEMMA SessionMoves ==
    ASSUME TypesOK, NEW s \in Sessions, SessionStep(s), ~Commit(s)
    PROVE  Moves(s)
<1>1. TypeOK /\ SessionOK(s) BY DEF TypesOK
<1>2. ASSUME NEW t \in Tasks, Submit(s, t) PROVE Moves(s)
  <2>1. "submit" \in Kinds BY DEF Kinds
  <2> QED BY <1>1, <1>2, <2>1, BeginMoves
<1>3. ASSUME NEW t \in Tasks, NEW k \in {"retry", "resume", "reclaim"}, Fetch(s, t, k)
      PROVE  Moves(s)
  <2>1. k \in Kinds BY DEF Kinds
  <2> QED BY <1>1, <1>3, <2>1, BeginMoves
<1>4. CASE FixedCharge(s) \/ ChargeExternal(s)
  <2>1. PICK delta \in [Dims -> Int32] : Charges(s, delta) BY <1>4, ChargeSteps
  <2> QED BY <1>1, <2>1, ChargeMoves DEF Charges
<1> QED BY Zenon, <1>1, <1>2, <1>3, <1>4, LockMoves, CallMoves, RegisterMoves, PhaseMoves, AbortMoves
        DEF SessionStep

(* A test function changes no more of a transaction than which instance it *)
(* accounts for.                                                           *)
LEMMA HookMoves ==
    ASSUME TypesOK, NEW t \in HookTasks, Hook(t)
    PROVE  /\ txn' \in [Sessions -> Txn]
           /\ \A r \in Sessions :
                 /\ SessionOK(r)'
                 /\ txn'[r].pc = txn[r].pc /\ txn'[r].task = txn[r].task
                 /\ txn'[r].used = txn[r].used /\ txn'[r].bill = txn[r].bill
                 /\ txn'[r].stale = txn[r].stale
                 /\ txn'[r].mine = IF <<txn[r].task, txn[r].mine>> \in Listed(lease) \ Listed(lease')
                                   THEN NoId ELSE txn[r].mine
<1>1. txn \in [Sessions -> Txn] /\ \A r \in Sessions : SessionOK(r) BY DEF TypesOK, TypeOK
<1>2. txn' = [r \in Sessions |->
                 IF <<txn[r].task, txn[r].mine>> \in Listed(lease) \ Listed(lease')
                 THEN [txn[r] EXCEPT !.mine = NoId]
                 ELSE txn[r]]
  BY DEF Hook
<1>3. ASSUME NEW r \in Sessions
      PROVE  /\ txn'[r] \in Txn
             /\ txn'[r].pc = txn[r].pc /\ txn'[r].task = txn[r].task
             /\ txn'[r].kind = txn[r].kind /\ txn'[r].at = txn[r].at
             /\ txn'[r].reply = txn[r].reply
             /\ txn'[r].used = txn[r].used /\ txn'[r].bill = txn[r].bill
             /\ txn'[r].stale = txn[r].stale
             /\ txn'[r].mine = IF <<txn[r].task, txn[r].mine>> \in Listed(lease) \ Listed(lease')
                               THEN NoId ELSE txn[r].mine
  <2>1. txn[r] \in Txn BY <1>1
  <2>2. CASE <<txn[r].task, txn[r].mine>> \in Listed(lease) \ Listed(lease')
    <3>1. txn'[r] = [txn[r] EXCEPT !.mine = NoId] BY <1>2, <2>2, Zenon
    <3>2. NoId \in Ids \cup {NoId} OBVIOUS
    <3>3. txn'[r] \in Txn BY Zenon, <2>1, <3>1, <3>2 DEF Txn
    <3>4. /\ txn'[r].pc = txn[r].pc /\ txn'[r].task = txn[r].task
          /\ txn'[r].kind = txn[r].kind /\ txn'[r].at = txn[r].at
          /\ txn'[r].reply = txn[r].reply
          /\ txn'[r].used = txn[r].used /\ txn'[r].bill = txn[r].bill
          /\ txn'[r].stale = txn[r].stale /\ txn'[r].mine = NoId
      BY <2>1, <3>1 DEF Txn
    <3> QED BY Zenon, <2>2, <3>3, <3>4
  <2>3. CASE ~(<<txn[r].task, txn[r].mine>> \in Listed(lease) \ Listed(lease'))
    <3>1. txn'[r] = txn[r] BY <1>2, <2>3, Zenon
    <3> QED BY Zenon, <2>1, <2>3, <3>1
  <2> QED BY <2>2, <2>3
<1>4. txn' \in [Sessions -> Txn] BY <1>2, <1>3, Zenon
<1>5. ASSUME NEW r \in Sessions PROVE SessionOK(r)'
  <2>1. SessionOK(r) BY <1>1
  <2>2. txn'[r].mine # NoId => txn'[r].mine = txn[r].mine BY Zenon, <1>3
  <2> QED BY <1>3, <2>1, <2>2, Zenon DEF SessionOK
<1> QED BY <1>3, <1>4, <1>5, Zenon

(* Facts about a single transaction are kept by every step.                *)
LEMMA SessionsKept ==
    ASSUME TypesOK, Next
    PROVE  txn' \in [Sessions -> Txn] /\ \A r \in Sessions : SessionOK(r)'
<1>1. ASSUME NEW s \in Sessions, SessionStep(s), ~Commit(s)
      PROVE  txn' \in [Sessions -> Txn] /\ \A r \in Sessions : SessionOK(r)'
  <2>1. Moves(s) BY <1>1, SessionMoves
  <2>2. ASSUME NEW r \in Sessions PROVE SessionOK(r)'
    <3>1. CASE r = s BY <2>1, <3>1 DEF Moves
    <3>2. CASE r # s
      <4>1. txn'[r] = txn[r] /\ SessionOK(r) BY <2>1, <3>2 DEF Moves, TypesOK
      <4> QED BY <4>1 DEF SessionOK
    <3> QED BY <3>1, <3>2
  <2> QED BY <2>1, <2>2 DEF Moves
<1>2. ASSUME NEW s \in Sessions, Commit(s)
      PROVE  txn' \in [Sessions -> Txn] /\ \A r \in Sessions : SessionOK(r)'
  BY <1>2, CommitMoves
<1>3. CASE Crash
  <2>1. txn' = [s \in Sessions |-> Idle] BY <1>3 DEF Crash
  <2>2. txn' \in [Sessions -> Txn] BY <2>1, IdleType
  <2>3. ASSUME NEW r \in Sessions PROVE SessionOK(r)'
    <3>1. txn'[r] = Idle BY <2>1
    <3> QED BY <3>1 DEF SessionOK, Calling, Idle
  <2> QED BY <2>2, <2>3
<1>4. ASSUME NEW t \in HookTasks, Hook(t)
      PROVE  txn' \in [Sessions -> Txn] /\ \A r \in Sessions : SessionOK(r)'
  BY Zenon, <1>4, HookMoves
<1> QED BY <1>1, <1>2, <1>3, <1>4 DEF Next

(* What a step may do to the lease table.                                  *)
TableStep ==
    \/ lease' = lease
    \/ lease' = [i \in Slots |-> NoLease]
    \/ \E t \in Owners : lease' = LeaseFence(t)
    \/ \E t \in Owners : \E x \in Ids \cup {NoId} :
          lease' = LeaseRegister(t, x) \/ lease' = LeaseRelease(t, x)

LEMMA TableSteps ==
    ASSUME TypesOK, Next
    PROVE  TableStep
<1>1. ASSUME NEW s \in Sessions, SessionStep(s) PROVE TableStep
  <2>1. TypeOK /\ SessionOK(s) /\ txn[s] \in Txn BY DEF TypesOK, TypeOK
  <2>2. CASE Register(s)
    <3>1. txn[s].task \in Owners BY Zenon, <2>1, <2>2 DEF SessionOK, Register, Owners
    <3> QED BY <2>1, <2>2, <3>1, RegisterMoves DEF TableStep
  <2>3. CASE Finish(s)
    <3>1. txn[s].task \in Owners BY <2>1, <2>3 DEF SessionOK, Finish, Owners
    <3>2. txn[s].reply \in AnyReply BY <2>1 DEF Txn
    <3>3. ReleaseId(txn[s].reply) \in Ids \cup {NoId} BY <3>2, ReplyIds
    <3> QED BY <2>3, <3>1, <3>3 DEF Finish, TableStep
  <2>4. CASE ReclaimFence(s)
    <3>1. txn[s].task \in Owners BY <2>1, <2>4 DEF SessionOK, ReclaimFence, Owners
    <3> QED BY <2>4, <3>1 DEF ReclaimFence, TableStep
  <2>5. CASE ~Register(s) /\ ~Finish(s) /\ ~ReclaimFence(s)
    <3>1. lease' = lease
      BY Zenon, <1>1, <2>5 DEF SessionStep, Submit, Fetch, Lock, FixedCharge, Charge, CallTool,
            Validate, ChargeExternal, Commit, Abort
    <3> QED BY <3>1 DEF TableStep
  <2> QED BY <2>2, <2>3, <2>4, <2>5
<1>2. ASSUME Crash PROVE TableStep BY <1>2 DEF Crash, TableStep
<1>3. ASSUME NEW t \in HookTasks, Hook(t) PROVE TableStep
  <2>1. t \in Owners BY DEF Owners
  <2> QED BY <1>3, <2>1 DEF Hook, TableStep
<1> QED BY <1>1, <1>2, <1>3 DEF Next

LEMMA OtherTypes ==
    ASSUME TypesOK, Next
    PROVE  /\ row' \in [Tasks -> [made : BOOLEAN, used : [Dims -> Int32]]]
           /\ billed' \in [Tasks -> [Dims -> Int]]
           /\ txns' \in 0..MaxTxns
<1>1. /\ row \in [Tasks -> [made : BOOLEAN, used : [Dims -> Int32]]]
      /\ billed \in [Tasks -> [Dims -> Int]] /\ txns \in 0..MaxTxns
  BY DEF TypesOK, TypeOK
<1>2. ASSUME NEW s \in Sessions, Commit(s)
      PROVE  /\ row' \in [Tasks -> [made : BOOLEAN, used : [Dims -> Int32]]]
             /\ billed' \in [Tasks -> [Dims -> Int]]
               /\ txns' \in 0..MaxTxns
  <2>1. txn[s] \in Txn /\ SessionOK(s) BY DEF TypesOK, TypeOK
  <2>2. txn[s].task \in Tasks /\ txn[s].used \in [Dims -> Int32] /\ txn[s].bill \in [Dims -> Int]
    BY <1>2, <2>1 DEF Commit, Done, SessionOK, Txn
  <2>3. row' = [row EXCEPT ![txn[s].task] = [made |-> TRUE, used |-> txn[s].used]]
        /\ billed' = [billed EXCEPT ![txn[s].task] = Plus(billed[txn[s].task], txn[s].bill)]
        /\ txns' = txns
    BY <1>2 DEF Commit
  <2>4. billed[txn[s].task] \in [Dims -> Int] BY <1>1, <2>2
  <2>5. Plus(billed[txn[s].task], txn[s].bill) \in [Dims -> Int] BY <2>2, <2>4 DEF Plus
  <2> QED BY <1>1, <2>2, <2>3, <2>5
<1>3. ASSUME NEW s \in Sessions, SessionStep(s), ~Commit(s)
      PROVE  row' = row /\ billed' = billed /\ txns' \in 0..MaxTxns
  <2>2. row' = row /\ billed' = billed
    BY Zenon, <1>3 DEF SessionStep, Submit, Fetch, Lock, FixedCharge, Charge, CallTool, Register,
          Validate, Finish, ChargeExternal, ReclaimFence, Abort
  <2>3. txns' = txns \/ (txns < MaxTxns /\ txns' = txns + 1)
    BY Zenon, <1>3 DEF SessionStep, Submit, Fetch, Begin, Lock, FixedCharge, Charge, CallTool, Register,
          Validate, Finish, ChargeExternal, ReclaimFence, Abort
  <2>4. txns' \in 0..MaxTxns BY <1>1, <2>3, ToolCallAssumption
  <2> QED BY <2>2, <2>4
<1>4. ASSUME Crash \/ \E t \in HookTasks : Hook(t)
      PROVE  row' = row /\ billed' = billed /\ txns' = txns
  BY <1>4 DEF Crash, Hook
<1> QED BY <1>1, <1>2, <1>3, <1>4 DEF Next

(* What is left in the table are instances of tasks.                       *)
LEMMA LeftType ==
    ASSUME TypesOK, Next, lease' \in [Slots -> (Owners \X Ids) \cup {NoLease}]
    PROVE  left' \subseteq Owners \X Ids
<1>1. left \subseteq Owners \X Ids BY DEF TypesOK, TypeOK
<1>2. Listed(lease') \subseteq Owners \X Ids BY ListedType
<1>3. ASSUME NEW s \in Sessions, SessionStep(s) PROVE left' \subseteq Owners \X Ids
  <2>1. txn[s] \in Txn /\ SessionOK(s) BY DEF TypesOK, TypeOK
  <2>2. CASE Finish(s) \/ ReclaimFence(s)
    <3>1. left' \subseteq Listed(lease') \/ left' = left BY <2>2 DEF Finish, ReclaimFence
    <3> QED BY <1>1, <1>2, <3>1
  <2>3. CASE Abort(s)
    <3>1. CASE txn[s].mine # NoId
      <4>1. txn[s].task \in Owners BY <2>1, <2>3 DEF Abort, SessionOK, Owners
      <4>2. txn[s].mine \in Ids BY <2>1, <3>1 DEF Txn
      <4>3. left' = left \cup {<<txn[s].task, txn[s].mine>>} BY <2>3, <3>1 DEF Abort
      <4> QED BY <1>1, <4>1, <4>2, <4>3
    <3>2. CASE txn[s].mine = NoId
      <4>1. left' = left BY <2>3, <3>2 DEF Abort
      <4> QED BY <1>1, <4>1
    <3> QED BY <3>1, <3>2
  <2>4. CASE ~Finish(s) /\ ~ReclaimFence(s) /\ ~Abort(s)
    <3>1. left' = left
      BY Zenon, <1>3, <2>4 DEF SessionStep, Submit, Fetch, Lock, FixedCharge, Charge, CallTool,
            Register, Validate, ChargeExternal, Commit
    <3> QED BY <1>1, <3>1
  <2> QED BY <2>2, <2>3, <2>4
<1>4. ASSUME Crash PROVE left' \subseteq Owners \X Ids BY <1>4 DEF Crash
<1>5. ASSUME NEW t \in HookTasks, Hook(t) PROVE left' \subseteq Owners \X Ids
  <2>1. left' \subseteq Listed(lease') BY <1>5 DEF Hook
  <2> QED BY <1>2, <2>1
<1> QED BY <1>3, <1>4, <1>5 DEF Next

LEMMA TypesKept ==
    ASSUME TypesOK, Next
    PROVE  TypesOK'
<1>1. TableStep BY TableSteps
<1>2. lease' \in [Slots -> (Owners \X Ids) \cup {NoLease}]
  <2>1. lease \in [Slots -> (Owners \X Ids) \cup {NoLease}] BY DEF TypesOK, TypeOK
  <2> QED BY <1>1, <2>1, TableTypes DEF TableStep
<1> QED BY <1>2, SessionsKept, OtherTypes, LeftType DEF TypesOK, TypeOK

LEMMA TypesInit == Init => TypesOK
<1> SUFFICES ASSUME Init PROVE TypesOK OBVIOUS
<1>1. row \in [Tasks -> [made : BOOLEAN, used : [Dims -> Int32]]] BY DeltaTypes DEF Init
<1>2. txn \in [Sessions -> Txn] BY IdleType DEF Init
<1>3. lease \in [Slots -> (Owners \X Ids) \cup {NoLease}] BY DEF Init
<1>4. billed \in [Tasks -> [Dims -> Int]] BY DeltaTypes DEF Init
<1>5. left \subseteq Owners \X Ids /\ txns \in 0..MaxTxns BY ToolCallAssumption DEF Init
<1>6. \A s \in Sessions : SessionOK(s)
  <2> SUFFICES ASSUME NEW s \in Sessions PROVE SessionOK(s) OBVIOUS
  <2>1. txn[s] = Idle BY DEF Init
  <2> QED BY <2>1 DEF SessionOK, Calling, Idle
<1> QED BY <1>1, <1>2, <1>3, <1>4, <1>5, <1>6 DEF TypesOK, TypeOK

LEMMA TypesStutter == TypesOK /\ UNCHANGED vars => TypesOK'
<1> SUFFICES ASSUME TypesOK, UNCHANGED vars PROVE TypesOK' OBVIOUS
<1>1. row' = row /\ txn' = txn /\ lease' = lease /\ billed' = billed /\ left' = left
      /\ txns' = txns
  BY DEF vars
<1>2. TypeOK' BY <1>1 DEF TypesOK, TypeOK
<1>3. \A s \in Sessions : SessionOK(s)' BY <1>1 DEF TypesOK, SessionOK
<1> QED BY <1>2, <1>3 DEF TypesOK

(***************************************************************************)
(* The rows, transactions, charges and lease table always have their       *)
(* types: every charge stays an int32 whatever the tools return.           *)
(***************************************************************************)
THEOREM ToolCallTypes == Spec => []TypeOK
<1>1. Init => TypesOK BY TypesInit
<1>2. TypesOK /\ [Next]_vars => TypesOK' BY TypesKept, TypesStutter
<1>3. TypesOK => TypeOK BY DEF TypesOK
<1> QED BY <1>1, <1>2, <1>3, PTL DEF Spec

-----------------------------------------------------------------------------
(* The row lock.                                                           *)

(* How a step of s that is not a commit changes what s holds: it gains the *)
(* row of a task no transaction holds, keeps what it had, or lets go.      *)
LEMMA HoldsStep ==
    ASSUME TypesOK, NEW s \in Sessions, SessionStep(s), ~Commit(s),
           NEW t \in Tasks, Holds(s, t)'
    PROVE  Holds(s, t) \/ \A r \in Sessions : ~Holds(r, t)
<1>1. TypeOK /\ SessionOK(s) /\ txn[s] \in Txn /\ txn \in [Sessions -> Txn]
  BY DEF TypesOK, TypeOK
<1>2. txn'[s].pc \notin {"idle", "fetched"} /\ txn'[s].task = t BY DEF Holds
<1>3. ASSUME NEW u \in Tasks, Submit(s, u) PROVE \A r \in Sessions : ~Holds(r, t)
  <2>1. txn'[s] = [Idle EXCEPT !.pc = "charging", !.task = u] BY <1>1, <1>3 DEF Submit
  <2>2. u = t BY <1>2, <2>1 DEF Idle
  <2> QED BY <1>3, <2>2 DEF Submit
<1>4. ASSUME NEW u \in Tasks, NEW k \in Kinds, Fetch(s, u, k) PROVE FALSE
  <2>1. txn'[s] = [Idle EXCEPT !.pc = "fetched", !.task = u, !.kind = k, !.used = row[u].used]
    BY <1>1, <1>4 DEF Fetch
  <2> QED BY <1>2, <2>1 DEF Idle
<1>5. ASSUME Lock(s) PROVE \A r \in Sessions : ~Holds(r, t)
  <2>1. txn'[s].task = txn[s].task BY Zenon, <1>1, <1>5, LockMoves DEF Txn
  <2> QED BY <1>2, <1>5, <2>1 DEF Lock
<1>6. ASSUME FixedCharge(s) \/ ChargeExternal(s) PROVE Holds(s, t)
  <2>1. PICK delta \in [Dims -> Int32] : Charges(s, delta) BY <1>6, ChargeSteps
  <2>2. txn'[s].task = txn[s].task BY <1>1, <2>1, ChargeMoves DEF Charges
  <2> QED BY <1>2, <2>1, <2>2 DEF Charges, Holds
<1>7. ASSUME Keeps(s) PROVE Holds(s, t) BY <1>2, <1>7 DEF Keeps, Holds
<1>8. ASSUME Abort(s) PROVE FALSE
  <2>1. txn'[s] = Idle BY <1>1, <1>8, AbortMoves
  <2> QED BY <1>2, <2>1 DEF Idle
<1>9. \A k \in {"retry", "resume", "reclaim"} : k \in Kinds BY DEF Kinds
<1> QED BY Zenon, <1>1, <1>3, <1>4, <1>5, <1>6, <1>7, <1>8, <1>9, CallMoves, RegisterMoves, PhaseMoves
        DEF SessionStep

LEMMA ExclusiveKept ==
    ASSUME TypesOK, Exclusive, Next
    PROVE  Exclusive'
<1>1. ASSUME NEW s \in Sessions, SessionStep(s), ~Commit(s) PROVE Exclusive'
  <2>1. Moves(s) BY <1>1, SessionMoves
  <2>2. \A q \in Sessions : \A t \in Tasks : q # s => (Holds(q, t)' <=> Holds(q, t))
    BY <2>1 DEF Moves, Holds
  <2>3. \A t \in Tasks : Holds(s, t)' => Holds(s, t) \/ \A r \in Sessions : ~Holds(r, t)
    BY <1>1, HoldsStep
  <2> SUFFICES ASSUME NEW q \in Sessions, NEW r \in Sessions, NEW t \in Tasks,
                      Holds(q, t)', Holds(r, t)'
               PROVE  q = r
    BY DEF Exclusive
  <2>4. Holds(q, t) /\ Holds(r, t) => q = r BY DEF Exclusive
  <2> QED BY <2>2, <2>3, <2>4
<1>2. ASSUME NEW s \in Sessions, Commit(s) PROVE Exclusive'
  <2>1. \A q \in Sessions : \A t \in Tasks : Holds(q, t)' => Holds(q, t)
    BY <1>2, CommitMoves DEF Holds, Idle
  <2> QED BY <2>1 DEF Exclusive
<1>3. ASSUME Crash PROVE Exclusive'
  <2>1. \A q \in Sessions : txn'[q] = Idle BY <1>3 DEF Crash
  <2> QED BY <2>1 DEF Exclusive, Holds, Idle
<1>4. ASSUME NEW t \in HookTasks, Hook(t) PROVE Exclusive'
  <2>1. \A q \in Sessions : txn'[q].pc = txn[q].pc /\ txn'[q].task = txn[q].task
    BY Zenon, <1>4, HookMoves
  <2> QED BY <2>1 DEF Exclusive, Holds
<1> QED BY <1>1, <1>2, <1>3, <1>4 DEF Next

(* Rows and their charges change only by a commit.                         *)
LEMMA RowsMove ==
    ASSUME TypesOK, Next
    PROVE  \/ row' = row /\ billed' = billed
           \/ \E s \in Sessions :
                 /\ Commit(s)
                 /\ txn[s].task \in Tasks
                 /\ \A t \in Tasks : t # txn[s].task => row'[t] = row[t] /\ billed'[t] = billed[t]
                 /\ row'[txn[s].task] = [made |-> TRUE, used |-> txn[s].used]
                 /\ billed'[txn[s].task] = Plus(billed[txn[s].task], txn[s].bill)
<1>1. ASSUME NEW s \in Sessions, Commit(s)
      PROVE  /\ txn[s].task \in Tasks
             /\ \A t \in Tasks : t # txn[s].task => row'[t] = row[t] /\ billed'[t] = billed[t]
             /\ row'[txn[s].task] = [made |-> TRUE, used |-> txn[s].used]
             /\ billed'[txn[s].task] = Plus(billed[txn[s].task], txn[s].bill)
  <2>1. txn[s].task \in Tasks BY <1>1 DEF Commit, Done, TypesOK, SessionOK
  <2>2. /\ row \in [Tasks -> [made : BOOLEAN, used : [Dims -> Int32]]]
        /\ billed \in [Tasks -> [Dims -> Int]]
    BY DEF TypesOK, TypeOK
  <2>3. /\ row' = [row EXCEPT ![txn[s].task] = [made |-> TRUE, used |-> txn[s].used]]
        /\ billed' = [billed EXCEPT ![txn[s].task] = Plus(billed[txn[s].task], txn[s].bill)]
    BY <1>1 DEF Commit
  <2> QED BY <2>1, <2>2, <2>3
<1>2. ASSUME NEW s \in Sessions, SessionStep(s), ~Commit(s)
      PROVE  row' = row /\ billed' = billed
    BY Zenon, <1>2 DEF SessionStep, Submit, Fetch, Lock, FixedCharge, Charge, CallTool, Register,
          Validate, Finish, ChargeExternal, ReclaimFence, Abort
<1>3. ASSUME Crash \/ \E t \in HookTasks : Hook(t)
      PROVE  row' = row /\ billed' = billed
  BY <1>3 DEF Crash, Hook
<1> QED BY <1>1, <1>2, <1>3 DEF Next

LEMMA RowsKept ==
    ASSUME TypesOK, \A t \in Tasks : RowOK(t), Next
    PROVE  \A t \in Tasks : RowOK(t)'
<1>1. CASE row' = row /\ billed' = billed BY <1>1 DEF RowOK
<1>2. ASSUME NEW s \in Sessions,
             \A t \in Tasks : t # txn[s].task => row'[t] = row[t] /\ billed'[t] = billed[t],
             row'[txn[s].task] = [made |-> TRUE, used |-> txn[s].used]
      PROVE  \A t \in Tasks : RowOK(t)'
  BY <1>2 DEF RowOK
<1> QED BY Zenon, <1>1, <1>2, RowsMove

-----------------------------------------------------------------------------
(* The ledger of a task whose charges cannot wrap around.                  *)

LEMMA ZeroAdds == \A n \in Int : n = n + 0
OBVIOUS

(* A charge keeps a transaction in step with the committed row.            *)
LEMMA ChargeAgrees ==
    ASSUME TypesOK, NEW s \in Sessions, NEW t \in Tasks, NEW d \in Dims,
           txn[s].task = t, CannotWrap(t, d), Agrees(s, t, d),
           NEW delta \in [Dims -> Int32], Charges(s, delta),
           txn'[s].used = Charged(txn[s].used, delta),
           txn'[s].bill = Plus(txn[s].bill, delta),
           row' = row
    PROVE  Agrees(s, t, d)'
<1>1. txn[s].used[d] \in Int /\ txn[s].bill[d] \in Int /\ row[t].used[d] \in Int
      /\ delta[d] \in Int
  <2>1. txn[s] \in Txn /\ row[t].used \in [Dims -> Int32] BY DEF TypesOK, TypeOK
  <2>2. txn[s].used \in [Dims -> Int32] /\ txn[s].bill \in [Dims -> Int] BY <2>1 DEF Txn
  <2>3. Int32 \subseteq Int BY ToolCallAssumption DEF Int32
  <2> QED BY Zenon, <2>1, <2>2, <2>3
<1>2. Budget[t][d] \in 0..MaxInt BY ToolCallAssumption
<1>3. Budget[t][d] \in Int /\ 0 <= Budget[t][d] /\ Budget[t][d] <= MaxInt
  BY <1>2, ToolCallAssumption
<1>4. 0 <= delta[d] /\ delta[d] <= MaxInt - Budget[t][d] BY DEF CannotWrap, Charges
<1>5. /\ txn[s].used[d] = row[t].used[d] + txn[s].bill[d]
      /\ 0 <= txn[s].used[d] /\ txn[s].used[d] <= Budget[t][d]
  BY DEF Agrees
<1>6. /\ Wrap(txn[s].used[d] + delta[d]) = txn[s].used[d] + delta[d]
      /\ 0 <= txn[s].used[d] + delta[d]
      /\ txn[s].used[d] + delta[d] = row[t].used[d] + (txn[s].bill[d] + delta[d])
  <2>1. PICK u \in Int : u = txn[s].used[d] BY <1>1
  <2>2. PICK v \in Int : v = delta[d] BY <1>1
  <2>3. PICK b \in Int : b = txn[s].bill[d] BY <1>1
  <2>4. PICK base \in Int : base = row[t].used[d] BY <1>1
  <2>5. PICK c \in Int : c = Budget[t][d] BY <1>3
  <2>6. /\ 0 <= u /\ u <= c /\ 0 <= v /\ v <= MaxInt - c /\ 0 <= c /\ c <= MaxInt
        /\ u = base + b
    BY <1>3, <1>4, <1>5, <2>1, <2>2, <2>3, <2>4, <2>5, Zenon
  <2>7. /\ Wrap(u + v) = u + v /\ 0 <= u + v
        /\ u + v = base + (b + v)
    BY <2>6, ToolCallAssumption DEF Wrap, Span
  <2> QED BY <2>1, <2>2, <2>3, <2>4, <2>7, Zenon
<1>7. Wrap(txn[s].used[d] + delta[d]) <= Budget[t][d]
  <2>1. Within(t, txn[s].used, delta) BY DEF Charges, Charge
  <2>2. Budget[t][d] > 0 BY DEF CannotWrap
  <2> QED BY <2>1, <2>2, Zenon DEF Within
<1>8. txn'[s].used[d] = Wrap(txn[s].used[d] + delta[d]) BY DEF Charged
<1>9. txn'[s].bill[d] = txn[s].bill[d] + delta[d] BY DEF Plus
<1> QED BY <1>6, <1>7, <1>8, <1>9 DEF Agrees

(* The other transactions, and what a session's own transaction must show. *)
LEMMA LedgerFrame ==
    ASSUME NEW t \in Tasks, NEW d \in Dims, NEW s \in Sessions, LedgerOK(t, d),
           row' = row, billed' = billed, Moves(s),
           CannotWrap(t, d) /\ Current(s, t)' => Agrees(s, t, d)'
    PROVE  LedgerOK(t, d)'
<1> SUFFICES ASSUME CannotWrap(t, d), NEW r \in Sessions, Current(r, t)'
             PROVE  Agrees(r, t, d)'
  BY DEF LedgerOK, CannotWrap
<1>1. CASE r = s BY <1>1
<1>2. CASE r # s
  <2>1. txn'[r] = txn[r] BY Zenon, <1>2 DEF Moves
  <2>2. Current(r, t) BY <2>1 DEF Current, Holds
  <2>3. Agrees(r, t, d) BY <2>2 DEF LedgerOK
  <2> QED BY <2>1, <2>3 DEF Agrees
<1> QED BY <1>1, <1>2

(* A step that leaves s up to date on t without committing began from the  *)
(* row with nothing charged, left the count alone, or charged something.   *)
LEMMA StepCounts ==
    ASSUME TypesOK, NEW s \in Sessions, SessionStep(s), ~Commit(s),
           NEW t \in Tasks, RowOK(t), Current(s, t)'
    PROVE  \/ txn'[s].used = row[t].used /\ txn'[s].bill = Zero
           \/ Current(s, t) /\ txn'[s].used = txn[s].used /\ txn'[s].bill = txn[s].bill
           \/ /\ Current(s, t)
              /\ \E delta \in [Dims -> Int32] :
                    /\ Charges(s, delta)
                    /\ txn'[s].used = Charged(txn[s].used, delta)
                    /\ txn'[s].bill = Plus(txn[s].bill, delta)
<1> DEFINE Begun == txn'[s].used = row[t].used /\ txn'[s].bill = Zero
           Left == Current(s, t) /\ txn'[s].used = txn[s].used /\ txn'[s].bill = txn[s].bill
           Counted == /\ Current(s, t)
                      /\ \E delta \in [Dims -> Int32] :
                            /\ Charges(s, delta)
                            /\ txn'[s].used = Charged(txn[s].used, delta)
                            /\ txn'[s].bill = Plus(txn[s].bill, delta)
<1>1. TypeOK /\ SessionOK(s) /\ txn[s] \in Txn /\ txn \in [Sessions -> Txn]
  BY DEF TypesOK, TypeOK
<1>2. ASSUME NEW u \in Tasks, Submit(s, u) PROVE Begun
  <2>1. txn'[s] = [Idle EXCEPT !.pc = "charging", !.task = u] BY <1>1, <1>2 DEF Submit
  <2>2. txn'[s].task = u /\ txn'[s].used = Zero /\ txn'[s].bill = Zero BY <2>1 DEF Idle
  <2>3. u = t BY <2>2 DEF Current
  <2>4. row[t].used = Zero BY <1>2, <2>3 DEF Submit, RowOK
  <2> QED BY <2>2, <2>4
<1>3. ASSUME NEW u \in Tasks, NEW k \in Kinds, Fetch(s, u, k) PROVE Begun
  <2>1. txn'[s] = [Idle EXCEPT !.pc = "fetched", !.task = u, !.kind = k, !.used = row[u].used]
    BY <1>1, <1>3 DEF Fetch
  <2>2. txn'[s].task = u /\ txn'[s].used = row[u].used /\ txn'[s].bill = Zero
    BY <2>1 DEF Idle
  <2>3. u = t BY <2>2 DEF Current
  <2> QED BY <2>2, <2>3
<1>4. ASSUME Lock(s) PROVE Left
  <2>1. txn'[s].task = txn[s].task /\ txn'[s].used = txn[s].used /\ txn'[s].bill = txn[s].bill
    BY Zenon, <1>1, <1>4, LockMoves DEF Txn
  <2>2. txn[s].pc = "fetched" /\ ~txn[s].stale BY <1>4 DEF Lock
  <2>3. Current(s, t) BY <2>1, <2>2 DEF Current
  <2> QED BY <2>1, <2>3
<1>5. ASSUME FixedCharge(s) \/ ChargeExternal(s) PROVE Counted
  <2>1. PICK delta \in [Dims -> Int32] : Charges(s, delta) BY <1>5, ChargeSteps
  <2>2. /\ txn'[s].task = txn[s].task /\ txn'[s].used = Charged(txn[s].used, delta)
        /\ txn'[s].bill = Plus(txn[s].bill, delta)
    BY <1>1, <2>1, ChargeMoves DEF Charges
  <2>3. txn[s].task = t BY Zenon, <2>2 DEF Current
  <2>4. Current(s, t) BY <2>1, <2>3 DEF Current, Holds, Charges
  <2> QED BY Zenon, <2>1, <2>2, <2>4
<1>6. ASSUME Keeps(s) PROVE Left
  <2>1. txn[s].task = t BY <1>6 DEF Current, Keeps
  <2>2. Current(s, t) BY <1>6, <2>1 DEF Current, Holds, Keeps
  <2> QED BY Zenon, <1>6, <2>2 DEF Keeps
<1>7. ASSUME Abort(s) PROVE FALSE
  <2>1. txn'[s] = Idle BY <1>1, <1>7, AbortMoves
  <2>2. txn'[s].pc = "idle" BY <2>1, IdlePhase
  <2> QED BY <2>2 DEF Current, Holds
<1>8. \A k \in {"retry", "resume", "reclaim"} : k \in Kinds BY DEF Kinds
<1>9. Begun \/ Left \/ Counted
  <2> HIDE DEF Begun, Left, Counted
  <2> QED BY Zenon, <1>1, <1>2, <1>3, <1>4, <1>5, <1>6, <1>7, <1>8, CallMoves, RegisterMoves,
             PhaseMoves DEF SessionStep
<1> QED BY <1>9, Zenon

(* A step of s that does not commit keeps s in step with the row.          *)
LEMMA StepAgrees ==
    ASSUME TypesOK, NEW s \in Sessions, SessionStep(s), ~Commit(s), row' = row,
           NEW t \in Tasks, NEW d \in Dims, LedgerOK(t, d), RowOK(t),
           CannotWrap(t, d), Current(s, t)'
    PROVE  Agrees(s, t, d)'
<1>1. SessionOK(s) BY DEF TypesOK
<1>2. 0 <= row[t].used[d] /\ row[t].used[d] <= Budget[t][d] BY Zenon DEF LedgerOK
<1>3. row[t].used[d] = row[t].used[d] + Zero[d]
  <2>1. row[t].used \in [Dims -> Int32] BY DEF TypesOK, TypeOK
  <2>2. row[t].used[d] \in Int BY <2>1, ToolCallAssumption DEF Int32
  <2>3. Zero[d] = 0 BY DEF Zero
  <2> QED BY <2>2, <2>3, ZeroAdds, Zenon
<1>4. Current(s, t) => Agrees(s, t, d) BY DEF LedgerOK
<1>5. CASE txn'[s].used = row[t].used /\ txn'[s].bill = Zero
  BY <1>2, <1>3, <1>5, Zenon DEF Agrees
<1>6. CASE Current(s, t) /\ txn'[s].used = txn[s].used /\ txn'[s].bill = txn[s].bill
  BY <1>4, <1>6, Zenon DEF Agrees
<1>7. ASSUME Current(s, t), NEW delta \in [Dims -> Int32], Charges(s, delta),
             txn'[s].used = Charged(txn[s].used, delta),
             txn'[s].bill = Plus(txn[s].bill, delta)
      PROVE  Agrees(s, t, d)'
  BY Zenon, <1>1, <1>4, <1>7, ChargeAgrees DEF Current
<1> QED BY Zenon, <1>5, <1>6, <1>7, StepCounts

(* A commit writes its count and its bill to its task, and makes what the  *)
(* others have read of that task stale; it touches no other task.          *)
LEMMA CommitCounts ==
    ASSUME TypesOK, Exclusive, NEW s \in Sessions, Commit(s), Next, NEW t \in Tasks
    PROVE  \/ /\ row'[t] = row[t] /\ billed'[t] = billed[t]
              /\ \A r \in Sessions : Current(r, t)' =>
                    Current(r, t) /\ txn'[r].used = txn[r].used /\ txn'[r].bill = txn[r].bill
           \/ /\ Current(s, t)
              /\ row'[t].used = txn[s].used /\ billed'[t] = Plus(billed[t], txn[s].bill)
              /\ \A r \in Sessions : ~Current(r, t)'
<1>1. txn[s].task \in Tasks /\ txn[s].pc \notin {"idle", "fetched"}
  BY DEF Commit, Done, TypesOK, SessionOK
<1>2. /\ row \in [Tasks -> [made : BOOLEAN, used : [Dims -> Int32]]]
      /\ billed \in [Tasks -> [Dims -> Int]]
  BY DEF TypesOK, TypeOK
<1>3. /\ row' = [row EXCEPT ![txn[s].task] = [made |-> TRUE, used |-> txn[s].used]]
      /\ billed' = [billed EXCEPT ![txn[s].task] = Plus(billed[txn[s].task], txn[s].bill)]
  BY DEF Commit
<1>4. ASSUME NEW r \in Sessions, Current(r, t)' PROVE r # s
  <2>1. txn'[s] = Idle BY CommitMoves
  <2>2. txn'[s].pc = "idle" BY <2>1, IdlePhase
  <2>3. ~Current(s, t)' BY <2>2 DEF Current, Holds
  <2> QED BY <1>4, <2>3
<1>5. CASE t # txn[s].task
  <2>1. row'[t] = row[t] /\ billed'[t] = billed[t] BY <1>1, <1>2, <1>3, <1>5
  <2>2. ASSUME NEW r \in Sessions, Current(r, t)'
        PROVE  Current(r, t) /\ txn'[r].used = txn[r].used /\ txn'[r].bill = txn[r].bill
    <3>1. r # s BY <1>4, <2>2
    <3>2. /\ txn'[r].pc = txn[r].pc /\ txn'[r].task = txn[r].task
          /\ txn'[r].used = txn[r].used /\ txn'[r].bill = txn[r].bill
          /\ txn'[r].stale \/ txn'[r].stale = txn[r].stale
      BY <3>1, CommitMoves, Zenon
    <3>3. Current(r, t) BY <2>2, <3>2 DEF Current, Holds
    <3> QED BY <3>2, <3>3
  <2>3. \A r \in Sessions : Current(r, t)' =>
           Current(r, t) /\ txn'[r].used = txn[r].used /\ txn'[r].bill = txn[r].bill
    BY <2>2
  <2> QED BY <2>1, <2>3, Zenon
<1>6. CASE t = txn[s].task
  <2>1. row'[t].used = txn[s].used /\ billed'[t] = Plus(billed[t], txn[s].bill)
    BY <1>1, <1>2, <1>3, <1>6
  <2>2. Holds(s, t) /\ Current(s, t) BY <1>1, <1>6 DEF Current, Holds
  <2>3. ASSUME NEW r \in Sessions, Current(r, t)' PROVE FALSE
    <3>1. r # s BY <1>4, <2>3
    <3>2. /\ txn'[r].pc = txn[r].pc /\ txn'[r].task = txn[r].task
          /\ txn[r].pc = "fetched" /\ txn[r].task = txn[s].task => txn'[r].stale
      BY <3>1, CommitMoves
    <3>3. ~Holds(r, t) BY <2>2, <3>1 DEF Exclusive
    <3> QED BY <1>6, <2>3, <3>2, <3>3 DEF Current, Holds
  <2> QED BY <2>1, <2>2, <2>3, Zenon
<1> QED BY <1>5, <1>6

(* A commit carries the transaction's count into the row.                  *)
LEMMA CommitLedger ==
    ASSUME CInv, NEW s \in Sessions, Commit(s), NEW t \in Tasks, NEW d \in Dims,
           Next
    PROVE  LedgerOK(t, d)'
<1>1. TypesOK /\ Exclusive /\ LedgerOK(t, d) BY DEF CInv
<1>2. CASE /\ row'[t] = row[t] /\ billed'[t] = billed[t]
           /\ \A r \in Sessions : Current(r, t)' =>
                 Current(r, t) /\ txn'[r].used = txn[r].used /\ txn'[r].bill = txn[r].bill
  BY Zenon, <1>1, <1>2 DEF LedgerOK, CannotWrap, Agrees
<1>3. CASE /\ Current(s, t)
           /\ row'[t].used = txn[s].used /\ billed'[t] = Plus(billed[t], txn[s].bill)
           /\ \A r \in Sessions : ~Current(r, t)'
  <2>1. ASSUME CannotWrap(t, d)
        PROVE  /\ billed'[t][d] = row'[t].used[d]
               /\ 0 <= row'[t].used[d] /\ row'[t].used[d] <= Budget[t][d]
    <3>1. Agrees(s, t, d) /\ billed[t][d] = row[t].used[d]
      BY <1>1, <1>3, <2>1, Zenon DEF LedgerOK
    <3>2. billed'[t][d] = billed[t][d] + txn[s].bill[d] BY <1>3 DEF Plus
    <3> QED BY <1>3, <3>1, <3>2 DEF Agrees
  <2> QED BY SMTT(15), <1>3, <2>1 DEF LedgerOK, CannotWrap
<1> QED BY <1>1, <1>2, <1>3, CommitCounts, Zenon

LEMMA LedgerKept ==
    ASSUME CInv, Next
    PROVE  \A t \in Tasks : \A d \in Dims : LedgerOK(t, d)'
<1> SUFFICES ASSUME NEW t \in Tasks, NEW d \in Dims PROVE LedgerOK(t, d)' OBVIOUS
<1>1. TypesOK /\ LedgerOK(t, d) /\ RowOK(t) BY DEF CInv
<1>2. ASSUME NEW s \in Sessions, SessionStep(s), ~Commit(s) PROVE LedgerOK(t, d)'
  <2>1. row' = row /\ billed' = billed
    BY Zenon, <1>2 DEF SessionStep, Submit, Fetch, Lock, FixedCharge, Charge, CallTool, Register,
          Validate, Finish, ChargeExternal, ReclaimFence, Abort
  <2>2. Moves(s) BY <1>1, <1>2, SessionMoves
  <2>3. CannotWrap(t, d) /\ Current(s, t)' => Agrees(s, t, d)'
    BY <1>1, <1>2, <2>1, StepAgrees
  <2> QED BY <1>1, <2>1, <2>2, <2>3, LedgerFrame
<1>3. ASSUME NEW s \in Sessions, Commit(s) PROVE LedgerOK(t, d)' BY <1>3, CommitLedger
<1>4. ASSUME Crash PROVE LedgerOK(t, d)'
  <2>1. row' = row /\ billed' = billed /\ \A r \in Sessions : txn'[r] = Idle
    BY <1>4 DEF Crash
  <2>3. \A r \in Sessions : txn'[r].pc = "idle" BY <2>1, IdlePhase
  <2>2. \A r \in Sessions : ~Current(r, t)' BY <2>3 DEF Current, Holds
  <2> QED BY <1>1, <2>1, <2>2 DEF LedgerOK, CannotWrap
<1>5. ASSUME NEW u \in HookTasks, Hook(u) PROVE LedgerOK(t, d)'
  <2>1. row' = row /\ billed' = billed BY <1>5 DEF Hook
  <2>2. \A r \in Sessions : /\ txn'[r].pc = txn[r].pc /\ txn'[r].task = txn[r].task
                            /\ txn'[r].used = txn[r].used /\ txn'[r].bill = txn[r].bill
                            /\ txn'[r].stale = txn[r].stale
    BY Zenon, <1>1, <1>5, HookMoves
  <2>3. \A r \in Sessions : /\ Current(r, t)' <=> Current(r, t)
                            /\ Agrees(r, t, d)' <=> Agrees(r, t, d)
    BY <2>1, <2>2 DEF Current, Holds, Agrees
  <2> QED BY <1>1, <2>1, <2>3 DEF LedgerOK, CannotWrap
<1> QED BY <1>2, <1>3, <1>4, <1>5 DEF Next

LEMMA CInvInit == Init => CInv
<1> SUFFICES ASSUME Init PROVE CInv OBVIOUS
<1>1. TypesOK BY TypesInit
<1>2. \A s \in Sessions : txn[s] = Idle BY DEF Init
<1>3. \A t \in Tasks : row[t].used = Zero /\ billed[t] = Zero BY DEF Init
<1>4. \A t \in Tasks : RowOK(t) BY <1>3 DEF RowOK
<1>5. \A s \in Sessions : txn[s].pc = "idle" BY <1>2, IdlePhase
<1>6. Exclusive BY <1>5 DEF Exclusive, Holds
<1>7. ASSUME NEW t \in Tasks, NEW d \in Dims PROVE LedgerOK(t, d)
  <2>1. \A s \in Sessions : ~Current(s, t) BY <1>5 DEF Current, Holds
  <2>2. Zero[d] = 0 BY DEF Zero
  <2>3. Budget[t][d] \in 0..MaxInt BY ToolCallAssumption
  <2>4. 0 <= Budget[t][d] BY <2>3, ToolCallAssumption
  <2> QED BY <1>3, <2>1, <2>2, <2>4 DEF LedgerOK
<1> QED BY <1>1, <1>4, <1>6, <1>7 DEF CInv

LEMMA CInvStep == CInv /\ [Next]_vars => CInv'
<1>1. ASSUME CInv, Next PROVE CInv'
  <2>1. TypesOK /\ Exclusive /\ \A t \in Tasks : RowOK(t) BY <1>1 DEF CInv
  <2>2. TypesOK' BY <1>1, <2>1, TypesKept
  <2>3. \A t \in Tasks : RowOK(t)' BY <1>1, <2>1, RowsKept
  <2>4. Exclusive' BY <1>1, <2>1, ExclusiveKept
  <2>5. \A t \in Tasks : \A d \in Dims : LedgerOK(t, d)' BY <1>1, LedgerKept
  <2> QED BY <2>2, <2>3, <2>4, <2>5 DEF CInv
<1>2. ASSUME CInv, UNCHANGED vars PROVE CInv'
  <2>1. row' = row /\ txn' = txn /\ billed' = billed BY <1>2 DEF vars
  <2>2. TypesOK' BY <1>2, TypesStutter DEF CInv
  <2>3. \A t \in Tasks : RowOK(t)' BY <1>2, <2>1 DEF CInv, RowOK
  <2>4. Exclusive' BY <1>2, <2>1 DEF CInv, Exclusive, Holds
  <2>5. ASSUME NEW t \in Tasks, NEW d \in Dims PROVE LedgerOK(t, d)'
    <3>1. LedgerOK(t, d) BY <1>2 DEF CInv
    <3> QED BY <2>1, <3>1 DEF LedgerOK, CannotWrap, Current, Holds, Agrees
  <2> QED BY <2>2, <2>3, <2>4, <2>5 DEF CInv
<1> QED BY <1>1, <1>2

(***************************************************************************)
(* A task with a ceiling whose charges cannot wrap around has been billed  *)
(* exactly what its row says and never more than the ceiling, for any      *)
(* number of overlapping transactions (QxCatalogChargeTaskBudget).         *)
(***************************************************************************)
THEOREM CeilingKept == Spec => []BilledWithinCeiling
<1>1. CInv => BilledWithinCeiling
  <2> SUFFICES ASSUME CInv, NEW t \in Tasks, NEW d \in Dims, CannotWrap(t, d)
               PROVE  billed[t][d] = row[t].used[d] /\ billed[t][d] <= Budget[t][d]
    BY DEF BilledWithinCeiling
  <2>1. LedgerOK(t, d) BY DEF CInv
  <2> QED BY <2>1 DEF LedgerOK
<1> QED BY <1>1, CInvInit, CInvStep, PTL DEF Spec
=============================================================================
